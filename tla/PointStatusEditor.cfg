\* Three places, so that a deletion elsewhere moves another point into the place of the editor's.
SYMMETRY Symmetry
SPECIFICATION SpecGrowAndShrink
CONSTANTS
  Ids = {p1, p2}
  Workers = {}
  MaxPoints = 3
  Rows = {1, 2, 3}
  MaxQueue = 1
INVARIANTS EditHitsOpenedPoint
