---------------------------- MODULE MCSmsBalance ----------------------------
EXTENDS SmsBalance, TLC

CONSTANTS w1, w2, p1, p2, i1, i2, i3, none, nobody

\* The invoices of a run without liveness are alike.
InvoiceSymmetry == Permutations({i1, i2, i3})
=============================================================================
