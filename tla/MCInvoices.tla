---------------------------- MODULE MCInvoices ----------------------------
EXTENDS Invoices, TLC
CONSTANTS s1, s2, i1, i2, w1, w2, g1, g2

\* Day 155 is the last of a month, and the fifteenth day of a fortnight counted
\* from the Monday 15; it is billed at once if there is no invoice yet.
DayValue == s1 :> 3 @@ s2 :> 155
GroupValue == s1 :> g1 @@ s2 :> g2
RulesValue == {[separation |-> "one_invoice", period |-> "weekly", ref |-> 1],
               [separation |-> "per_jobsite", period |-> "monthly", ref |-> 1],
               [separation |-> "per_candidate", period |-> "fortnightly", ref |-> 0]}
NightsValue == {15, 156}
Symmetry == Permutations({w1, w2}) \cup Permutations({i1, i2})
===========================================================================
