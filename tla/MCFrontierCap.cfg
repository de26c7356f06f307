SPECIFICATION Spec

CONSTANTS
  c1 = c1
  c2 = c2
  c3 = c3
  Callers <- MCCallers
  MinTraffic = 2
  CapNum = 1
  CapDen = 3
  LastMinute = 2
  MaxTotal = 5

SYMMETRY Symmetry

CHECK_DEADLOCK FALSE

INVARIANTS
  TypeOK
  BoundedOvershoot
