SPECIFICATION Spec
CONSTANTS
  w1 = w1
  w2 = w2
  p1 = p1
  p2 = p2
  i1 = i1
  i2 = i2
  i3 = i3
  none = none
  nobody = nobody
  Workers = {w1}
  Senders = {p1, p2}
  Fetcher = w1
  Invoices = {i1, i2}
  NoInvoice = none
  NoProcess = nobody
  Initial = 2
  TopUp = 2
  Limit = 1
  Segments = {2}
  Outcomes = {"paid", "declined", "error_paid", "error_open"}
  MaxQueue = 1
INVARIANTS FundedByPayments OverdraftBounded
\* Once the balance is spent and the invoices are used, nothing is left to do.
SYMMETRY InvoiceSymmetry
CHECK_DEADLOCK FALSE
