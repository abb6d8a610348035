\* Two identities, so that a list holds both, one twice, or one in the place of the other.
SYMMETRY Symmetry
SPECIFICATION Spec
CONSTANTS
  Ids = {p1, p2}
  Workers = {w1}
  MaxPoints = 2
  Rows = {1, 2}
  MaxQueue = 2
CONSTRAINTS EditorApart WholeCopies
INVARIANTS TypeOK IndexMeansShownPoint StatusesAgree
