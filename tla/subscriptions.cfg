CONSTANTS
  a = a  b = b  w1 = w1  w2 = w2
  Subs = {a, b}
  NoSub = NoSub
  TrialOver = TRUE
  Servers = {w1}
  Syncers = {w2}
  MaxRequests = 1  MaxFaults = 1
SPECIFICATION Spec
INVARIANTS AtMostOneActive 
PROPERTIES OnlyOneKept PayingIsActive EndedLosesAccess
CHECK_DEADLOCK FALSE
