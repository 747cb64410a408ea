CONSTANTS
  h1 = h1  h2 = h2
  Handlers = {h1, h2}
  MaxRequests = 2  MaxFaults = 1
SPECIFICATION Spec
INVARIANTS StatusOfRow ReadyWasApproved ConfirmedIsRecorded StatesInOrder
PROPERTIES ApprovalStands DeclinedIsResubmitted
CHECK_DEADLOCK FALSE
