\* The constants of the code, with the shortest time to live for which a lost
\* registration is made up for when a datagram takes two seconds at most.
SPECIFICATION Spec
CONSTANTS
  Ttl = 32
  Grace = 30
  MinInterval = 30
  MaxDelay = 2
INVARIANTS TypeOK NeverExpires BackInTime
