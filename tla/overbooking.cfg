SPECIFICATION Spec
CONSTANTS
  o1 = o1
  o2 = o2
  o3 = o3
  s1 = s1
  s2 = s2
  a = a
  b = b
  c = c
  h1 = h1
  h2 = h2
  n = n
  Offers = {o1, o2}
  Shifts = {s1, s2}
  Candidates = {a, b, c}
  ShiftOf <- PairShiftOf
  CandidateOf <- PairCandidateOf
  Start <- LateStart
  Workers <- OnePlace
  Handlers = {h1, h2}
  NoOffer = n
  PreShift = FALSE
  SmsCandidates = {a, b}
  MaxTime = 0
  MaxQueue = 1
INVARIANTS NoOverbooking
\* Once every offer is removed and the clock is at its bound, nothing is left to do.
CHECK_DEADLOCK FALSE
