------------------------------- MODULE Ledger -------------------------------
(***************************************************************************)
(* What the SMS balance of a company promises, with no processes and no    *)
(* tasks: messages are paid from the funds while there are some, and each  *)
(* invoice adds the top up once.                                           *)
(***************************************************************************)
EXTENDS Integers

CONSTANTS
  Invoices,
  Initial, TopUp,  \* amounts, in segments
  Segments         \* the sizes of messages

VARIABLES
  funds,
  credited  \* the invoices that were added to the funds

Init == funds = Initial /\ credited = {}

Spend(n) ==
  /\ funds > 0
  /\ funds' = funds - n
  /\ UNCHANGED credited

Credit(i) ==
  /\ i \notin credited
  /\ funds' = funds + TopUp
  /\ credited' = credited \cup {i}

Next == (\E n \in Segments : Spend(n)) \/ (\E i \in Invoices : Credit(i))

Spec == Init /\ [][Next]_<<funds, credited>>
=============================================================================
