CONSTANTS
  s1 = s1  s2 = s2 i1 = i1  i2 = i2  w1 = w1  w2 = w2  g1 = g1  g2 = g2
  Sheets = {s1, s2}
  Invoices = {i1, i2}
  Workers = {w1, w2}
  NoInvoice = NoInvoice  NoSheet = NoSheet
  Day <- DayValue
  Group <- GroupValue
  Rules <- RulesValue
  Nights <- NightsValue
  MaxFaults = 1 MaxTasks = 3
SPECIFICATION Spec
SYMMETRY Symmetry
PROPERTY UpdateKeepsLines
CHECK_DEADLOCK FALSE
