CONSTANTS
  j1 = j1  j2 = j2  w1 = w1  w2 = w2
  Jobs = {j1, j2}
  Workers = {w1, w2}
  NoJob = NoJob
  Place <- PlaceValue
  MaxFaults = 1
SPECIFICATION Spec
SYMMETRY Symmetry
INVARIANTS TypeOK ConfirmedForClient ConfirmedUnique SomeState
CHECK_DEADLOCK FALSE
