-------------------------- MODULE SmsBalanceProofs --------------------------
(***************************************************************************)
(* However many processes write the balance, it never exceeds what was     *)
(* paid, and falls below zero by less than one message.  When requests and *)
(* tasks do not overlap, it is a ledger, and no card is charged twice.     *)
(***************************************************************************)
EXTENDS SmsBalance, FiniteSetTheorems, TLAPS

USE SmsBalanceAssumption

\* The row saved from a copy has the balance and the last payment of the save.
LEMMA SavedType ==
  ASSUME NEW c \in Rows, NEW b \in Int, row \in Rows
  PROVE  /\ Saved(c, b) \in Rows
         /\ Saved(c, b).balance = b
         /\ Saved(c, b).last = c.last
<1>1. (IF b < 1 THEN FALSE ELSE IF b > 1 /\ ~c.enabled THEN TRUE
       ELSE row.enabled) \in BOOLEAN
  BY Zenon DEF Rows
<1> QED BY <1>1 DEF Saved, Rows

\* A copy with another balance, or another last payment, is a copy.
LEMMA PlusType ==
  ASSUME NEW c \in Rows, NEW n \in Int
  PROVE  /\ Plus(c, n) \in Rows
         /\ Plus(c, n).balance = c.balance + n
         /\ Plus(c, n).enabled = c.enabled
BY DEF Rows, Plus

LEMMA MinusType ==
  ASSUME NEW c \in Rows, NEW n \in Nat
  PROVE  /\ Plus(c, -n) \in Rows
         /\ Plus(c, -n).balance = c.balance - n
         /\ Plus(c, -n).enabled = c.enabled
BY DEF Rows, Plus

LEMMA WithLastType ==
  ASSUME NEW c \in Rows, NEW i \in Invoices
  PROVE  /\ WithLast(c, i) \in Rows
         /\ WithLast(c, i).balance = c.balance
         /\ WithLast(c, i).enabled = c.enabled
BY DEF Rows, WithLast

\* The balance of the row saved by a charge that succeeds, by one that is declined,
\* and by fetch_payments.
LEMMA SavedBalance ==
  ASSUME NEW c \in Rows, row \in Rows
  PROVE  Saved(c, c.balance).balance = c.balance
<1>1. c.balance \in Int
  BY DEF Rows
<1> QED BY <1>1, SavedType

LEMMA CreditBalance ==
  ASSUME NEW c \in Rows, row \in Rows
  PROVE  /\ Plus(c, TopUp) \in Rows /\ Plus(c, TopUp).enabled = c.enabled
         /\ Saved(Plus(c, TopUp), Plus(c, TopUp).balance).balance
              = c.balance + TopUp
<1>1. /\ Plus(c, TopUp) \in Rows /\ Plus(c, TopUp).enabled = c.enabled
      /\ Plus(c, TopUp).balance = c.balance + TopUp
  BY PlusType
<1> QED BY <1>1, SavedBalance

LEMMA CommitBalance ==
  ASSUME NEW c \in Rows, NEW i \in Invoices, row \in Rows
  PROVE  LET paid == WithLast(Plus(c, TopUp), i)
             declined == WithLast(c, i)
         IN  /\ Saved(paid, paid.balance).balance = c.balance + TopUp
             /\ Saved(declined, declined.balance).balance = c.balance
<1>1. /\ Plus(c, TopUp) \in Rows
      /\ Plus(c, TopUp).balance = c.balance + TopUp
  BY PlusType
<1>2. \A d \in Rows : /\ WithLast(d, i) \in Rows
                      /\ WithLast(d, i).balance = d.balance
  BY WithLastType
<1>3. \A d \in Rows : Saved(d, d.balance).balance = d.balance
  BY SavedBalance
<1> QED BY <1>1, <1>2, <1>3

\* A process that moves to another step is in its place.
LEMMA GotoType ==
  ASSUME ProcessOK, NEW p \in Processes, NEW step \in Pcs, NEW to \in Rows,
         NEW i \in Invoices \cup {NoInvoice}, Goto(p, step, to, i),
         step \in {"paid", "declined", "error", "fetched", "credit"}
           => i \in Invoices
  PROVE  ProcessOK'
BY DEF ProcessOK, Goto

\* Tasks are added to the queue.
LEMMA QueueType ==
  ASSUME NEW new \in Rows, queue \in Nat, QueueCharge(new)
  PROVE  queue' \in Nat
BY DEF QueueCharge, Rows

\* The steps of a message keep the types.
LEMMA SendType ==
  ASSUME TypeOK, NEW p \in Processes, Send(p)
  PROVE  TypeOK'
<1> USE DEF TypeOK, Pcs, process, remote
<1>1. copy[p] \in Rows /\ copy[p].balance \in Int
  BY DEF ProcessOK, Rows
<1>2. CASE BeginSend(p)
  BY <1>2, GotoType DEF BeginSend
<1>3. CASE CommitSend(p)
  <2>1. row' \in Rows
    BY <1>1, <1>3, SavedType DEF CommitSend
  <2> QED BY <1>1, <1>3, <2>1, GotoType DEF CommitSend
<1>4. CASE RollbackSend(p)
  BY <1>1, <1>4, GotoType DEF RollbackSend
<1>5. ASSUME NEW n \in Segments, SaveSend(p, n) PROVE TypeOK'
  <2> DEFINE new == Plus(copy[p], -n)
  <2>1. new \in Rows
    <3>1. -n \in Int
      OBVIOUS
    <3> QED BY <1>1, <3>1, PlusType
  <2>2. QueueCharge(new) /\ Goto(p, "sent", new, NoInvoice)
    BY <1>5 DEF SaveSend
  <2> HIDE DEF new
  <2>3. ProcessOK'
    BY <2>1, <2>2, GotoType
  <2>4. queue' \in Nat
    BY <2>1, <2>2, QueueType
  <2> QED BY <1>5, <2>3, <2>4 DEF SaveSend
<1> QED BY <1>2, <1>3, <1>4, <1>5 DEF Send

\* The steps of a charge keep the types.
LEMMA ChargeType ==
  ASSUME TypeOK, NEW p \in Processes, Charge(p)
  PROVE  TypeOK'
<1> USE DEF TypeOK, Pcs, process, remote
<1>1. copy[p] \in Rows /\ copy[p].balance \in Int
  BY DEF ProcessOK, Rows
<1>2. CASE TakeCharge(p)
  <2>1. queue' \in Nat
    BY <1>2 DEF TakeCharge
  <2>2. CASE row.last \in recent
    BY <1>2, <2>1, <2>2 DEF TakeCharge, ProcessOK
  <2>3. CASE row.last \notin recent
    BY <1>2, <2>1, <2>3, GotoType DEF TakeCharge
  <2> QED BY <2>2, <2>3
<1>3. CASE CommitCharge(p)
  <2>1. ProcessOK'
    BY <1>1, <1>3, GotoType DEF CommitCharge
  <2>2. on[p] \in Invoices
    BY <1>3 DEF CommitCharge, CommitPaid, CommitDeclined, ProcessOK
  <2>3. CASE CommitPaid(p)
    <3> DEFINE new == WithLast(Plus(copy[p], TopUp), on[p])
    <3>1. new \in Rows /\ new.balance \in Int
      BY <1>1, <2>2, PlusType, WithLastType DEF Rows
    <3>2. row' = Saved(new, new.balance) /\ QueueCharge(new)
      BY <2>3 DEF CommitPaid
    <3> HIDE DEF new
    <3>3. row' \in Rows /\ queue' \in Nat
      BY <3>1, <3>2, SavedType, QueueType
    <3> QED BY <1>3, <2>1, <2>2, <2>3, <3>3
            DEF CommitCharge, CommitPaid, PaymentStates
  <2>4. CASE CommitDeclined(p)
    <3> DEFINE new == WithLast(copy[p], on[p])
    <3>1. new \in Rows /\ new.balance \in Int
      BY <1>1, <2>2, WithLastType DEF Rows
    <3>2. row' = Saved(new, new.balance) /\ QueueCharge(new)
      BY <2>4 DEF CommitDeclined
    <3> HIDE DEF new
    <3>3. row' \in Rows /\ queue' \in Nat
      BY <3>1, <3>2, SavedType, QueueType
    <3> QED BY <1>3, <2>1, <2>2, <2>4, <3>3
            DEF CommitCharge, CommitDeclined, PaymentStates
  <2> QED BY <1>3, <2>3, <2>4 DEF CommitCharge
<1>4. CASE FailCharge(p)
  <2>1. queue' \in Nat
    BY <1>1, <1>4, QueueType DEF FailCharge
  <2> QED BY <1>1, <1>4, <2>1, GotoType DEF FailCharge
<1>5. ASSUME NEW i \in Invoices, NEW outcome \in Outcomes, Pay(p, i, outcome)
      PROVE  TypeOK'
  <2>1. ProcessOK'
    BY <1>1, <1>5, GotoType DEF Pay
  <2> QED BY <1>5, <2>1 DEF Pay, InvoiceStates
<1> QED BY <1>2, <1>3, <1>4, <1>5 DEF Charge

\* The steps of fetch_payments keep the types.
LEMMA FetchType ==
  ASSUME TypeOK, Fetch
  PROVE  TypeOK'
<1> USE DEF TypeOK, Pcs, process, remote
<1>1. /\ Fetcher \in Processes
      /\ copy[Fetcher] \in Rows /\ copy[Fetcher].balance \in Int
  BY DEF ProcessOK, Rows, Processes
<1>2. CASE ReadCredit
  <2>1. ProcessOK'
    BY <1>1, <1>2, GotoType DEF ReadCredit, ProcessOK
  <2> QED BY <1>2, <2>1 DEF ReadCredit
<1>3. CASE SaveCredit
  <2> DEFINE new == Plus(copy[Fetcher], TopUp)
  <2>1. new \in Rows /\ new.balance \in Int
    BY <1>1, PlusType DEF Rows
  <2>2. row' = Saved(new, new.balance) /\ QueueCharge(new)
    BY <1>3 DEF SaveCredit
  <2> HIDE DEF new
  <2>3. row' \in Rows /\ queue' \in Nat
    BY <2>1, <2>2, SavedType, QueueType
  <2>4. ProcessOK'
    BY <1>1, <1>3, GotoType DEF SaveCredit
  <2>5. on[Fetcher] \in Invoices
    BY <1>1, <1>3 DEF SaveCredit, ProcessOK
  <2> QED BY <1>3, <2>3, <2>4, <2>5 DEF SaveCredit
<1>4. ASSUME NEW i \in Invoices, MarkPaid(i) PROVE TypeOK'
  <2>1. ProcessOK'
    BY <1>1, <1>4, GotoType DEF MarkPaid
  <2> QED BY <1>4, <2>1 DEF MarkPaid, PaymentStates
<1>5. ASSUME NEW i \in Invoices, DropVoid(i) PROVE TypeOK'
  <2>1. row' \in Rows
    BY <1>5 DEF DropVoid, Rows
  <2> QED BY <1>5, <2>1 DEF DropVoid, PaymentStates, InvoiceStates, ProcessOK
<1> QED BY <1>2, <1>3, <1>4, <1>5 DEF Fetch

\* The steps of TwilioAutoChargeView keep the types.
LEMMA SettingsType ==
  ASSUME TypeOK, NEW p \in Processes, BeginSettings(p) \/ SaveSettings(p)
  PROVE  TypeOK'
<1> USE DEF TypeOK, Pcs, process, remote
<1>1. copy[p] \in Rows /\ copy[p].balance \in Int
  BY DEF ProcessOK, Rows
<1>2. CASE BeginSettings(p)
  BY <1>2, GotoType DEF BeginSettings
<1>3. CASE SaveSettings(p)
  <2>1. row' \in Rows /\ queue' \in Nat
    BY <1>1, <1>3, SavedType, QueueType DEF SaveSettings
  <2> QED BY <1>1, <1>3, <2>1, GotoType DEF SaveSettings
<1> QED BY <1>2, <1>3

\* Every step keeps the types.
LEMMA NextType == TypeOK /\ [Next]_vars => TypeOK'
<1> SUFFICES ASSUME TypeOK, [Next]_vars PROVE TypeOK'
  OBVIOUS
<1> USE DEF Processes
<1>1. ASSUME NEW p \in Senders, Send(p) \/ BeginSettings(p) \/ SaveSettings(p)
      PROVE  TypeOK'
  BY <1>1, SendType, SettingsType
<1>2. ASSUME NEW p \in Workers, Charge(p) PROVE TypeOK'
  BY <1>2, ChargeType
<1>3. CASE Fetch
  BY <1>3, FetchType
<1>4. CASE Fund
  BY <1>4 DEF Fund, TypeOK, ProcessOK, process, remote
<1>5. ASSUME NEW i \in Invoices, PayLater(i) \/ WindowEnds(i) PROVE TypeOK'
  BY <1>5 DEF PayLater, WindowEnds, TypeOK, ProcessOK, process, InvoiceStates
<1>6. CASE UNCHANGED vars
  BY <1>6 DEF vars, TypeOK, ProcessOK, process, remote
<1> QED BY <1>1, <1>2, <1>3, <1>4, <1>5, <1>6 DEF Next

\* The rows, the invoices and the processes have their values in every reachable
\* state, for any processes and invoices: a commit or a credit always knows its
\* invoice (charge_for_sms, fetch_payments).
THEOREM TypeCorrect == Spec => []TypeOK
<1>1. Init => TypeOK
  <2> SUFFICES ASSUME Init PROVE TypeOK
    OBVIOUS
  <2>1. row \in Rows
    <3>1. (Initial > 0) \in BOOLEAN
      OBVIOUS
    <3> QED BY <3>1 DEF Init, Rows
  <2>2. ProcessOK
    BY <2>1 DEF Init, ProcessOK, Pcs
  <2> QED BY <2>1, <2>2 DEF Init, TypeOK, InvoiceStates, PaymentStates
<1> QED BY <1>1, NextType, PTL DEF Spec

-----------------------------------------------------------------------------

\* What was paid in is an amount, and an invoice that is credited adds to it.
LEMMA PaidInType ==
  ASSUME TypeOK
  PROVE  PaidIn \in Int
<1>1. IsFiniteSet(credited)
  BY FS_Subset DEF TypeOK
<1>2. Cardinality(credited) \in Nat
  BY <1>1, FS_CardinalityType
<1> QED BY <1>2 DEF PaidIn

LEMMA PaidInGrows ==
  ASSUME TypeOK, NEW i \in Invoices, i \notin credited,
         credited' = credited \cup {i}
  PROVE  PaidIn' = PaidIn + TopUp
<1>1. IsFiniteSet(credited)
  BY FS_Subset DEF TypeOK
<1>2. /\ Cardinality(credited) \in Nat
      /\ Cardinality(credited') = Cardinality(credited) + 1
  BY <1>1, FS_CardinalityType, FS_AddElement
<1>3. TopUp * (Cardinality(credited) + 1) = TopUp * Cardinality(credited) + TopUp
  BY <1>2
<1> QED BY <1>2, <1>3 DEF PaidIn

LEMMA PaidInKept == credited' = credited => PaidIn' = PaidIn
BY DEF PaidIn

\* A message takes money off, and no step of it is about an invoice.
LEMMA SendMoney ==
  ASSUME TypeOK, MoneyInv, NEW p \in Processes, Send(p)
  PROVE  MoneyInv'
<1> USE DEF TypeOK, ProcessOK, MoneyInv, Holders, Goto, process, remote
<1>1. PaidIn \in Int /\ copy[p] \in Rows /\ row \in Rows
  BY PaidInType
<1>2. \A c \in Rows : c.balance \in Int
  BY DEF Rows
<1>3. CASE BeginSend(p)
  BY <1>1, <1>2, <1>3, PaidInKept DEF BeginSend
<1>4. CASE CommitSend(p)
  <2>1. row'.balance = copy[p].balance
    BY <1>1, <1>2, <1>4, SavedType DEF CommitSend
  <2> QED BY <1>1, <1>2, <1>4, <2>1, PaidInKept DEF CommitSend
<1>5. CASE RollbackSend(p)
  BY <1>1, <1>2, <1>5, PaidInKept DEF RollbackSend
<1>6. ASSUME NEW n \in Segments, SaveSend(p, n) PROVE MoneyInv'
  <2>1. copy'[p] = Plus(copy[p], -n)
    BY <1>6 DEF SaveSend
  <2>2. copy'[p].balance = copy[p].balance - n
    BY <1>1, <2>1, MinusType
  <2>3. \A q \in Processes : pc[q] \notin Holders
    BY <1>6 DEF SaveSend, Free
  <2>4. /\ \A q \in Processes \ {p} :
             pc'[q] = pc[q] /\ copy'[q] = copy[q] /\ on'[q] = on[q]
        /\ pc'[p] = "sent"
    BY <1>6 DEF SaveSend
  <2>5. UNCHANGED <<row, remote, payment, credited>> /\ lock' = p
    BY <1>6 DEF SaveSend
  <2>6. copy'[p].balance <= PaidIn'
    <3>1. PaidIn' = PaidIn
      BY <2>5, PaidInKept
    <3>2. n \in Nat /\ copy[p].balance \in Int /\ copy[p].balance <= PaidIn
      BY <1>1, <1>2
    <3> QED BY <1>1, <2>2, <3>1, <3>2
  <2> QED BY <1>1, <2>3, <2>4, <2>5, <2>6, PaidInKept
<1> QED BY <1>3, <1>4, <1>5, <1>6 DEF Send

\* A charge that succeeds adds what was paid; the other steps of it add nothing.
LEMMA ChargeMoney ==
  ASSUME TypeOK, MoneyInv, NEW p \in Processes, Charge(p)
  PROVE  MoneyInv'
<1> USE DEF TypeOK, ProcessOK, MoneyInv, Holders, Goto, process, remote
<1>1. PaidIn \in Int /\ copy[p] \in Rows /\ row \in Rows
  BY PaidInType
<1>2. \A c \in Rows : c.balance \in Int
  BY DEF Rows
<1>3. CASE TakeCharge(p)
  <2>1. \A q \in Processes : pc[q] \notin Holders
    BY <1>3 DEF TakeCharge, Free
  <2>2. CASE row.last \in recent
    BY <1>3, <2>1, <2>2, PaidInKept DEF TakeCharge
  <2>3. CASE row.last \notin recent
    BY <1>3, <2>1, <2>3, PaidInKept DEF TakeCharge
  <2> QED BY <2>2, <2>3
<1>4. CASE CommitCharge(p)
  <2>1. /\ on[p] \in Invoices /\ lock = p
        /\ payment[on[p]] = "none" /\ invoice[on[p]] # "none"
    BY <1>4 DEF CommitCharge, CommitPaid, CommitDeclined
  <2>2. on[p] \notin credited
    BY <2>1
  <2>3. \A q \in Processes \ {p} :
          /\ pc'[q] = pc[q] /\ copy'[q] = copy[q] /\ on'[q] = on[q]
          /\ pc[q] \notin Holders
    BY <1>4, <2>1 DEF CommitCharge
  <2>4. pc'[p] = "idle" /\ copy'[p] = copy[p] /\ UNCHANGED remote
    BY <1>4 DEF CommitCharge
  <2>5. CASE CommitPaid(p)
    <3>1. PaidIn' = PaidIn + TopUp
      BY <2>1, <2>2, <2>5, PaidInGrows DEF CommitPaid
    <3>2. row'.balance = copy[p].balance + TopUp
      BY <1>1, <2>1, <2>5, CommitBalance DEF CommitPaid
    <3>3. /\ credited' = credited \cup {on[p]}
          /\ payment' = [payment EXCEPT ![on[p]] = "paid"]
          /\ invoice[on[p]] = "paid"
      BY <2>5 DEF CommitPaid
    <3>4. \A q \in Processes : copy[q].balance <= PaidIn'
      <4>1. \A q \in Processes : copy[q].balance \in Int
        BY <1>2
      <4> QED BY <1>1, <3>1, <4>1
    <3>5. row'.balance <= PaidIn'
      BY <1>1, <1>2, <3>1, <3>2
    <3>6. \A q \in Processes : pc[q] \in {"fetched", "credit"} => on[q] # on[p]
      BY <2>1
    <3> QED BY <2>1, <2>3, <2>4, <3>3, <3>4, <3>5, <3>6
  <2>6. CASE CommitDeclined(p)
    <3>1. row'.balance = copy[p].balance
      BY <1>1, <2>1, <2>6, CommitBalance DEF CommitDeclined
    <3>2. /\ credited' = credited
          /\ payment' = [payment EXCEPT ![on[p]] = "not_paid"]
      BY <2>6 DEF CommitDeclined
    <3>3. PaidIn' = PaidIn
      BY <3>2, PaidInKept
    <3>4. \A q \in Processes : pc[q] \in {"fetched", "credit"} => on[q] # on[p]
      BY <2>1
    <3> QED BY <2>1, <2>2, <2>3, <2>4, <3>1, <3>2, <3>3, <3>4
  <2> QED BY <1>4, <2>5, <2>6 DEF CommitCharge
<1>5. CASE FailCharge(p)
  BY <1>5, PaidInKept DEF FailCharge
<1>6. ASSUME NEW i \in Invoices, NEW outcome \in Outcomes, Pay(p, i, outcome)
      PROVE  MoneyInv'
  <2>1. /\ payment[i] = "none" /\ i \notin credited /\ lock = p
        /\ \A q \in Processes : pc[q] \in {"fetched", "credit"} => on[q] # i
    BY <1>6 DEF Pay
  <2>2. outcome \in {"paid", "declined", "error_paid", "error_open"}
    BY DEF AllOutcomes
  <2>3. \A q \in Processes \ {p} :
          /\ pc'[q] = pc[q] /\ copy'[q] = copy[q] /\ on'[q] = on[q]
          /\ pc[q] \notin Holders
    BY <1>6, <2>1 DEF Pay
  <2>4. /\ pc'[p] = IF outcome \in {"paid", "declined"} THEN outcome ELSE "error"
        /\ copy'[p] = copy[p] /\ on'[p] = i
        /\ invoice' = [invoice EXCEPT ![i] =
             IF outcome \in {"paid", "error_paid"} THEN "paid" ELSE "open"]
        /\ UNCHANGED <<row, lock, payment, credited>>
    BY <1>6 DEF Pay
  <2> QED BY <2>1, <2>2, <2>3, <2>4, PaidInKept
<1> QED BY <1>3, <1>4, <1>5, <1>6 DEF Charge

\* fetch_payments credits a payment that was paid and not credited before.
LEMMA FetchMoney ==
  ASSUME TypeOK, MoneyInv, Fetch
  PROVE  MoneyInv'
<1> USE DEF TypeOK, ProcessOK, MoneyInv, Holders, process, remote
<1>1. /\ PaidIn \in Int /\ row \in Rows
      /\ Fetcher \in Processes /\ copy[Fetcher] \in Rows
  BY PaidInType DEF Processes
<1>2. \A c \in Rows : c.balance \in Int
  BY DEF Rows
<1>3. CASE ReadCredit
  BY <1>1, <1>3, PaidInKept DEF ReadCredit, Goto
<1>4. CASE SaveCredit
  <2> DEFINE i == on[Fetcher]
  <2>1. /\ i \in Invoices /\ i \notin credited
        /\ invoice[i] = "paid" /\ payment[i] = "paid"
    BY <1>1, <1>4 DEF SaveCredit
  <2>2. PaidIn' = PaidIn + TopUp
    BY <1>4, <2>1, PaidInGrows DEF SaveCredit
  <2>3. row'.balance = copy[Fetcher].balance + TopUp
    BY <1>1, <1>4, CreditBalance DEF SaveCredit
  <2>4. /\ \A q \in Processes \ {Fetcher} :
             pc'[q] = pc[q] /\ copy'[q] = copy[q] /\ on'[q] = on[q]
        /\ pc'[Fetcher] = "idle" /\ copy'[Fetcher] = copy[Fetcher]
        /\ credited' = credited \cup {i}
        /\ UNCHANGED <<lock, remote, payment>>
    BY <1>1, <1>4 DEF SaveCredit, Goto
  <2>5. \A q \in Processes : copy[q].balance <= PaidIn'
    <3>1. \A q \in Processes : copy[q].balance \in Int
      BY <1>2
    <3> QED BY <1>1, <2>2, <3>1
  <2>6. row'.balance <= PaidIn'
    BY <1>1, <1>2, <2>2, <2>3
  <2> QED BY <2>1, <2>4, <2>5, <2>6
<1>5. ASSUME NEW i \in Invoices, MarkPaid(i) PROVE MoneyInv'
  BY <1>1, <1>5, PaidInKept DEF MarkPaid, Goto
<1>6. ASSUME NEW i \in Invoices, DropVoid(i) PROVE MoneyInv'
  <2>1. row'.balance = row.balance
    BY <1>6 DEF DropVoid, Rows
  <2> QED BY <1>1, <1>6, <2>1, PaidInKept DEF DropVoid
<1> QED BY <1>3, <1>4, <1>5, <1>6 DEF Fetch

\* A change of the settings writes a copy back.
LEMMA SettingsMoney ==
  ASSUME TypeOK, MoneyInv, NEW p \in Processes,
         BeginSettings(p) \/ SaveSettings(p)
  PROVE  MoneyInv'
<1> USE DEF TypeOK, ProcessOK, MoneyInv, Holders, Goto, process, remote
<1>1. copy[p] \in Rows /\ row \in Rows /\ copy[p].balance \in Int
  BY DEF Rows
<1>2. CASE BeginSettings(p)
  BY <1>2, PaidInKept DEF BeginSettings
<1>3. CASE SaveSettings(p)
  <2>1. row'.balance = copy[p].balance
    BY <1>1, <1>3, SavedType DEF SaveSettings
  <2> QED BY <1>3, <2>1, PaidInKept DEF SaveSettings
<1> QED BY <1>2, <1>3

\* Every step keeps the invariant.
LEMMA NextMoney == TypeOK /\ MoneyInv /\ [Next]_vars => MoneyInv'
<1> SUFFICES ASSUME TypeOK, MoneyInv, [Next]_vars PROVE MoneyInv'
  OBVIOUS
<1> USE DEF Processes
<1>1. ASSUME NEW p \in Senders, Send(p) \/ BeginSettings(p) \/ SaveSettings(p)
      PROVE  MoneyInv'
  BY <1>1, SendMoney, SettingsMoney
<1>2. ASSUME NEW p \in Workers, Charge(p) PROVE MoneyInv'
  BY <1>2, ChargeMoney
<1>3. CASE Fetch
  BY <1>3, FetchMoney
<1> USE DEF TypeOK, ProcessOK, MoneyInv, process, remote
<1>4. CASE Fund
  BY <1>4, PaidInKept DEF Fund
<1>5. ASSUME NEW i \in Invoices, PayLater(i) \/ WindowEnds(i) PROVE MoneyInv'
  BY <1>5, PaidInKept DEF PayLater, WindowEnds
<1>6. CASE UNCHANGED vars
  BY <1>6, PaidInKept DEF vars
<1> QED BY <1>1, <1>2, <1>3, <1>4, <1>5, <1>6 DEF Next

\* No copy of the balance, however old, has money that was not paid; a payment
\* about to be credited is not credited yet (charge_for_sms, fetch_payments).
THEOREM MoneyInvariant == Spec => []MoneyInv
<1>1. Init => MoneyInv
  <2> SUFFICES ASSUME Init PROVE MoneyInv
    OBVIOUS
  <2>1. PaidIn = Initial
    <3>1. Cardinality(credited) = 0
      BY FS_EmptySet DEF Init
    <3> QED BY <3>1 DEF Init, PaidIn
  <2>2. row.balance = Initial /\ \A p \in Processes : copy[p] = row
    BY DEF Init
  <2> QED BY <2>1, <2>2 DEF Init, MoneyInv, Holders
<1> QED BY <1>1, TypeCorrect, NextMoney, PTL DEF Spec

\* Whatever processes save the balance at the same time, it never exceeds what was
\* paid at the provider (SMSBalance.save, which writes whole rows).
THEOREM BalanceIsFunded == Spec => []FundedByPayments
<1>1. MoneyInv => FundedByPayments
  BY DEF MoneyInv, FundedByPayments
<1> QED BY <1>1, MoneyInvariant, PTL

-----------------------------------------------------------------------------

\* A balance that a message of some size may have left.
Backed(b) == b >= 0 \/ \E n \in Segments : b > -n

\* Every copy is such a balance, and a message is let through with a positive one.
OverdraftInv ==
  /\ Backed(row.balance)
  /\ \A p \in Processes :
       /\ Backed(copy[p].balance)
       /\ pc[p] = "send" => copy[p].balance > 0

\* What tops up a balance leaves it backed.
LEMMA BackedGrows ==
  ASSUME NEW b \in Int, Backed(b)
  PROVE  Backed(b + TopUp)
BY DEF Backed

\* Every step keeps the balances backed.
LEMMA NextOverdraft == TypeOK /\ OverdraftInv /\ [Next]_vars => OverdraftInv'
<1> SUFFICES ASSUME TypeOK, OverdraftInv, [Next]_vars PROVE OverdraftInv'
  OBVIOUS
<1> USE DEF TypeOK, ProcessOK, OverdraftInv, Goto, process, remote
<1>1. row \in Rows /\ \A p \in Processes : copy[p] \in Rows
  OBVIOUS
<1>2. \A c \in Rows : c.balance \in Int
  BY DEF Rows
<1>3. ASSUME NEW p \in Processes, BeginSend(p) \/ RollbackSend(p)
      PROVE  OverdraftInv'
  BY <1>3 DEF BeginSend, RollbackSend
<1>4. ASSUME NEW p \in Processes, CommitSend(p) PROVE OverdraftInv'
  BY <1>1, <1>4, SavedBalance DEF CommitSend
<1>5. ASSUME NEW p \in Processes, NEW n \in Segments, SaveSend(p, n)
      PROVE  OverdraftInv'
  <2>1. /\ copy' = [copy EXCEPT ![p] = Plus(copy[p], -n)]
        /\ pc' = [pc EXCEPT ![p] = "sent"]
        /\ row' = row /\ copy[p].balance > 0
    BY <1>5 DEF SaveSend
  <2>2. copy[p] \in Rows /\ copy[p].balance \in Int /\ n \in Nat
    BY <1>1, <1>2
  <2>3. Plus(copy[p], -n).balance = copy[p].balance - n
    BY <2>2, MinusType
  <2>4. Backed(Plus(copy[p], -n).balance)
    BY <2>1, <2>2, <2>3 DEF Backed
  <2> QED BY <2>1, <2>4
<1>6. ASSUME NEW p \in Processes, TakeCharge(p) PROVE OverdraftInv'
  BY <1>6 DEF TakeCharge
<1>7. ASSUME NEW p \in Processes, NEW i \in Invoices, NEW o \in Outcomes,
             Pay(p, i, o)
      PROVE  OverdraftInv'
  <2>1. copy' = [copy EXCEPT ![p] = copy[p]] /\ row' = row
    BY <1>7 DEF Pay
  <2>2. \A q \in Processes : pc'[q] = "send" => pc[q] = "send"
    BY <1>7 DEF Pay, AllOutcomes
  <2> QED BY <2>1, <2>2
<1>8. ASSUME NEW p \in Processes, CommitCharge(p) PROVE OverdraftInv'
  <2>1. /\ on[p] \in Invoices /\ copy[p] \in Rows
        /\ copy' = [copy EXCEPT ![p] = copy[p]]
        /\ pc' = [pc EXCEPT ![p] = "idle"]
    BY <1>1, <1>8 DEF CommitCharge, CommitPaid, CommitDeclined
  <2>2. CASE CommitPaid(p)
    <3>1. row'.balance = copy[p].balance + TopUp
      BY <1>1, <2>1, <2>2, CommitBalance DEF CommitPaid
    <3>2. Backed(row'.balance)
      BY <1>1, <1>2, <3>1, BackedGrows
    <3> QED BY <2>1, <3>2
  <2>3. CASE CommitDeclined(p)
    <3>1. row'.balance = copy[p].balance
      BY <1>1, <2>1, <2>3, CommitBalance DEF CommitDeclined
    <3> QED BY <2>1, <3>1
  <2> QED BY <1>8, <2>2, <2>3 DEF CommitCharge
<1>9. ASSUME NEW p \in Processes, FailCharge(p) PROVE OverdraftInv'
  BY <1>9 DEF FailCharge
<1>10. CASE Fetch
  <2>1. Fetcher \in Processes
    BY DEF Processes
  <2>2. CASE ReadCredit
    BY <2>1, <2>2 DEF ReadCredit
  <2>3. CASE SaveCredit
    <3>1. row'.balance = copy[Fetcher].balance + TopUp
      BY <1>1, <2>1, <2>3, CreditBalance DEF SaveCredit
    <3>2. Backed(row'.balance)
      BY <1>1, <1>2, <2>1, <3>1, BackedGrows
    <3> QED BY <2>1, <2>3, <3>2 DEF SaveCredit
  <2>4. ASSUME NEW i \in Invoices, MarkPaid(i) PROVE OverdraftInv'
    BY <2>1, <2>4 DEF MarkPaid
  <2>5. ASSUME NEW i \in Invoices, DropVoid(i) PROVE OverdraftInv'
    <3>1. row'.balance = row.balance
      BY <2>5 DEF DropVoid, Rows
    <3> QED BY <2>5, <3>1 DEF DropVoid
  <2> QED BY <1>10, <2>2, <2>3, <2>4, <2>5 DEF Fetch
<1>11. ASSUME NEW p \in Processes, BeginSettings(p) PROVE OverdraftInv'
  BY <1>11 DEF BeginSettings
<1>12. ASSUME NEW p \in Processes, SaveSettings(p) PROVE OverdraftInv'
  BY <1>1, <1>12, SavedBalance DEF SaveSettings
<1>13. CASE Fund \/ UNCHANGED vars
  BY <1>13 DEF Fund, vars
<1>14. ASSUME NEW i \in Invoices, PayLater(i) \/ WindowEnds(i)
       PROVE  OverdraftInv'
  BY <1>14 DEF PayLater, WindowEnds
<1> QED BY <1>3, <1>4, <1>5, <1>6, <1>7, <1>8, <1>9, <1>10, <1>11, <1>12, <1>13,
           <1>14 DEF Next, Send, Charge, Processes

\* However many processes send messages, they leave a debt smaller than one of
\* them: a message is only let through with a positive balance
\* (BaseSMSService.substract_sms_cost).
THEOREM OverdraftIsBounded == Spec => []OverdraftBounded
<1>1. Init => OverdraftInv
  <2> SUFFICES ASSUME Init PROVE OverdraftInv
    OBVIOUS
  <2>1. row.balance = Initial /\ \A p \in Processes : copy[p] = row
    BY DEF Init
  <2> QED BY <2>1 DEF Init, OverdraftInv, Backed
<1>2. OverdraftInv => OverdraftBounded
  BY DEF OverdraftInv, OverdraftBounded, Backed
<1> QED BY <1>1, <1>2, TypeCorrect, NextOverdraft, PTL DEF Spec

-----------------------------------------------------------------------------
(* Requests and tasks that do not overlap *)

OneProcess == \A p, q \in Processes : p = q

\* The copy of the process at work is the row, but for the message it has taken
\* off and not committed; a company with funds is enabled.
SerialInv ==
  /\ EnabledWithFunds
  /\ \A p \in Processes :
       /\ pc[p] \in {"send", "pay", "paid", "declined", "error", "credit",
                     "settings"}
            => copy[p] = row
       /\ pc[p] = "send" => row.balance > 0
       /\ pc[p] = "sent" =>
            /\ row.balance > 0 /\ copy[p].enabled = row.enabled
            /\ \E n \in Segments : copy[p].balance = row.balance - n

\* The row that is saved says if the company has funds, when the copy is of this
\* row.
LEMMA SavedEnabled ==
  ASSUME NEW c \in Rows, row \in Rows, c.enabled = row.enabled
  PROVE  /\ c.balance < 1 => ~Saved(c, c.balance).enabled
         /\ c.balance > 1 => Saved(c, c.balance).enabled
<1>1. Saved(c, c.balance).enabled =
        (IF c.balance < 1 THEN FALSE
         ELSE IF c.balance > 1 /\ ~c.enabled THEN TRUE ELSE row.enabled)
  BY Zenon DEF Saved
<1>2. c.balance \in Int
  BY DEF Rows
<1>3. ASSUME c.balance < 1 PROVE ~Saved(c, c.balance).enabled
  BY <1>1, <1>3
<1>4. ASSUME c.balance > 1 PROVE Saved(c, c.balance).enabled
  <2>1. ~(c.balance < 1)
    BY <1>2, <1>4
  <2> QED BY <1>1, <1>4, <2>1, Zenon
<1> QED BY <1>3, <1>4

\* When the only process saves c and is done, the invariant holds.
LEMMA SaveSerial ==
  ASSUME OneProcess, TypeOK, NEW p \in Processes, NEW c \in Rows,
         c.enabled = row.enabled, row' = Saved(c, c.balance), pc'[p] = "idle"
  PROVE  SerialInv'
<1>1. c.balance \in Int
  BY DEF Rows
<1>2. row'.balance = c.balance
  BY <1>1, SavedType DEF TypeOK
<1>3. EnabledWithFunds'
  BY <1>2, SavedEnabled DEF EnabledWithFunds, TypeOK
<1>4. \A q \in Processes : pc'[q] = "idle"
  BY DEF OneProcess
<1> QED BY <1>3, <1>4 DEF SerialInv

\* The steps that save the row keep the invariant, and are steps of the ledger.
LEMMA SaveLedger ==
  ASSUME OneProcess, TypeOK, MoneyInv, SerialInv, NEW p \in Processes,
         CommitSend(p) \/ CommitCharge(p) \/ SaveSettings(p) \/ SaveCredit
  PROVE  SerialInv' /\ (L!Next \/ UNCHANGED <<row.balance, credited>>)
<1>1. copy[p] \in Rows /\ row \in Rows /\ copy[p].balance \in Int
  BY DEF TypeOK, ProcessOK, Rows
<1>2. CASE CommitSend(p)
  <2>1. pc'[p] = "idle" /\ row' = Saved(copy[p], copy[p].balance)
    BY <1>2 DEF CommitSend, Goto, TypeOK, ProcessOK
  <2>2. copy[p].enabled = row.enabled /\ row.balance > 0
    BY <1>2 DEF CommitSend, SerialInv
  <2>3. PICK n \in Segments : copy[p].balance = row.balance - n
    BY <1>2 DEF CommitSend, SerialInv
  <2>4. row'.balance = copy[p].balance /\ credited' = credited
    BY <1>1, <1>2, <2>1, SavedBalance DEF CommitSend
  <2>5. L!Spend(n)
    BY <2>2, <2>3, <2>4 DEF L!Spend
  <2> QED BY <1>1, <2>1, <2>2, <2>5, SaveSerial DEF L!Next
<1>3. CASE CommitCharge(p)
  <2>1. /\ on[p] \in Invoices /\ copy[p] = row /\ pc'[p] = "idle"
    BY <1>3 DEF CommitCharge, CommitPaid, CommitDeclined, Goto, SerialInv, TypeOK,
               ProcessOK
  <2>2. CASE CommitPaid(p)
    <3> DEFINE new == WithLast(Plus(copy[p], TopUp), on[p])
    <3>1. Plus(copy[p], TopUp) \in Rows /\ Plus(copy[p], TopUp).enabled = row.enabled
      BY <1>1, <2>1, CreditBalance
    <3>2. new \in Rows /\ new.enabled = row.enabled
      BY <2>1, <3>1, WithLastType
    <3>3. row' = Saved(new, new.balance)
      BY <2>2 DEF CommitPaid
    <3>4. row'.balance = row.balance + TopUp
      BY <1>1, <2>1, <3>3, CommitBalance
    <3>5. on[p] \notin credited /\ credited' = credited \cup {on[p]}
      BY <2>2 DEF CommitPaid, MoneyInv
    <3>6. L!Credit(on[p])
      BY <3>4, <3>5 DEF L!Credit
    <3> HIDE DEF new
    <3> QED BY <2>1, <3>2, <3>3, <3>6, SaveSerial DEF L!Next
  <2>3. CASE CommitDeclined(p)
    <3> DEFINE new == WithLast(copy[p], on[p])
    <3>1. new \in Rows /\ new.enabled = row.enabled
      BY <1>1, <2>1, WithLastType
    <3>2. row' = Saved(new, new.balance) /\ credited' = credited
      BY <2>3 DEF CommitDeclined
    <3>3. row'.balance = row.balance
      BY <1>1, <2>1, <3>2, CommitBalance
    <3> HIDE DEF new
    <3> QED BY <2>1, <3>1, <3>2, <3>3, SaveSerial
  <2> QED BY <1>3, <2>2, <2>3 DEF CommitCharge
<1>4. CASE SaveSettings(p)
  <2>1. /\ copy[p] = row /\ pc'[p] = "idle" /\ credited' = credited
        /\ row' = Saved(copy[p], copy[p].balance)
    BY <1>4 DEF SaveSettings, Goto, SerialInv, TypeOK, ProcessOK
  <2> QED BY <1>1, <2>1, SavedBalance, SaveSerial
<1>5. CASE SaveCredit
  <2>1. p = Fetcher
    BY DEF OneProcess, Processes
  <2> DEFINE new == Plus(copy[p], TopUp)
  <2>2. /\ copy[p] = row /\ pc'[p] = "idle"
        /\ row' = Saved(new, new.balance)
        /\ credited' = credited \cup {on[p]}
    BY <1>5, <2>1 DEF SaveCredit, Goto, SerialInv, TypeOK, ProcessOK
  <2>3. new \in Rows /\ new.enabled = row.enabled
    BY <1>1, <2>2, CreditBalance
  <2>4. row'.balance = row.balance + TopUp
    BY <1>1, <2>2, CreditBalance
  <2>5. on[p] \in Invoices /\ on[p] \notin credited
    BY <1>5, <2>1 DEF SaveCredit, MoneyInv, TypeOK, ProcessOK
  <2>6. L!Credit(on[p])
    BY <2>2, <2>4, <2>5 DEF L!Credit
  <2> HIDE DEF new
  <2> QED BY <2>2, <2>3, <2>5, <2>6, SaveSerial DEF L!Next
<1> QED BY <1>2, <1>3, <1>4, <1>5

\* The other steps keep the invariant, and leave the ledger as it is.
LEMMA OtherSerial ==
  ASSUME OneProcess, TypeOK, SerialInv, NEW p \in Processes,
         \/ BeginSend(p) \/ RollbackSend(p) \/ TakeCharge(p) \/ FailCharge(p)
         \/ BeginSettings(p) \/ ReadCredit
         \/ \E n \in Segments : SaveSend(p, n)
         \/ \E i \in Invoices, o \in Outcomes : Pay(p, i, o)
         \/ \E i \in Invoices : MarkPaid(i)
  PROVE  SerialInv' /\ UNCHANGED <<row.balance, credited>>
<1>1. Fetcher = p /\ \A q \in Processes : q = p
  BY DEF OneProcess, Processes
<1>2. /\ copy[p] \in Rows /\ row \in Rows
      /\ pc \in [Processes -> Pcs] /\ copy \in [Processes -> Rows]
  BY DEF TypeOK, ProcessOK
<1>3. UNCHANGED <<row, credited>>
  BY DEF BeginSend, RollbackSend, TakeCharge, FailCharge, BeginSettings,
         ReadCredit, SaveSend, Pay, MarkPaid
<1>4. EnabledWithFunds'
  BY <1>3 DEF SerialInv, EnabledWithFunds
<1> USE DEF Goto, SerialInv
<1>5. CASE BeginSend(p) \/ RollbackSend(p) \/ FailCharge(p) \/ BeginSettings(p)
  BY <1>1, <1>2, <1>3, <1>4, <1>5
     DEF BeginSend, RollbackSend, FailCharge, BeginSettings
<1>6. CASE TakeCharge(p)
  BY <1>1, <1>2, <1>3, <1>4, <1>6 DEF TakeCharge, process
<1>7. CASE ReadCredit
  BY <1>1, <1>2, <1>3, <1>4, <1>7 DEF ReadCredit
<1>8. ASSUME NEW n \in Segments, SaveSend(p, n) PROVE SerialInv'
  <2>1. /\ copy[p] = row /\ row.balance > 0
        /\ copy'[p] = Plus(copy[p], -n) /\ pc'[p] = "sent"
    BY <1>2, <1>8 DEF SaveSend
  <2>2. /\ copy'[p].balance = row.balance - n
        /\ copy'[p].enabled = row.enabled
    BY <1>2, <2>1, MinusType
  <2> QED BY <1>1, <1>3, <1>4, <2>1, <2>2
<1>9. ASSUME NEW i \in Invoices, NEW o \in Outcomes, Pay(p, i, o)
      PROVE  SerialInv'
  <2>1. /\ copy'[p] = row /\ pc'[p] \in {"paid", "declined", "error"}
    BY <1>2, <1>9 DEF Pay
  <2> QED BY <1>1, <1>3, <1>4, <2>1
<1>10. ASSUME NEW i \in Invoices, MarkPaid(i) PROVE SerialInv'
  BY <1>1, <1>2, <1>3, <1>4, <1>10 DEF MarkPaid
<1> QED BY <1>3, <1>5, <1>6, <1>7, <1>8, <1>9, <1>10

\* The steps of no process.
LEMMA EnvironmentSerial ==
  ASSUME OneProcess, TypeOK, SerialInv,
         \/ Fund \/ UNCHANGED vars
         \/ \E i \in Invoices : DropVoid(i) \/ PayLater(i) \/ WindowEnds(i)
  PROVE  SerialInv' /\ UNCHANGED <<row.balance, credited>>
<1>1. CASE Fund \/ UNCHANGED vars
  BY <1>1 DEF Fund, vars, process, SerialInv, EnabledWithFunds
<1>2. ASSUME NEW i \in Invoices, PayLater(i) \/ WindowEnds(i)
      PROVE  SerialInv' /\ UNCHANGED <<row.balance, credited>>
  BY <1>2 DEF PayLater, WindowEnds, process, SerialInv, EnabledWithFunds
<1>3. ASSUME NEW i \in Invoices, DropVoid(i)
      PROVE  SerialInv' /\ UNCHANGED <<row.balance, credited>>
  <2>1. row'.balance = row.balance /\ row'.enabled = row.enabled
    BY <1>3 DEF DropVoid, TypeOK, Rows
  <2>2. EnabledWithFunds'
    BY <2>1 DEF SerialInv, EnabledWithFunds
  <2>3. \A q \in Processes : pc'[q] = "idle"
    BY <1>3 DEF DropVoid, process, OneProcess, Processes
  <2> QED BY <1>3, <2>1, <2>2, <2>3 DEF DropVoid, SerialInv
<1> QED BY <1>1, <1>2, <1>3

\* Every step keeps the invariant, and is a step of the ledger or none.
LEMMA NextSerial ==
  ASSUME OneProcess, TypeOK, MoneyInv, SerialInv, [Next]_vars
  PROVE  SerialInv' /\ [L!Next]_<<row.balance, credited>>
<1>1. Fetcher \in Processes
  BY DEF Processes
<1> QED BY <1>1, SaveLedger, OtherSerial, EnvironmentSerial
        DEF Next, Send, Charge, Fetch, Processes

\* The invariant holds at the start.
LEMMA InitSerial == Init => SerialInv
<1> SUFFICES ASSUME Init PROVE SerialInv
  OBVIOUS
<1>1. row.balance = Initial /\ row.enabled = (Initial > 0)
  BY DEF Init
<1>2. EnabledWithFunds
  <2>1. CASE Initial > 0
    <3>1. row.enabled
      BY <1>1, <2>1, Zenon
    <3>2. ~(row.balance < 1)
      BY <1>1, <2>1
    <3> QED BY <3>1, <3>2, Zenon DEF EnabledWithFunds
  <2>2. CASE ~(Initial > 0)
    <3>1. ~row.enabled
      BY <1>1, <2>2, Zenon
    <3>2. ~(row.balance > 1)
      BY <1>1, <2>2
    <3> QED BY <3>1, <3>2, Zenon DEF EnabledWithFunds
  <2> QED BY <2>1, <2>2
<1> QED BY <1>2 DEF Init, SerialInv

\* When requests and tasks do not overlap, the balance is a ledger: every message
\* is paid from it once, every invoice added to it once (substract_sms_cost,
\* charge_for_sms, fetch_payments).
THEOREM SerialLedger ==
  ASSUME OneProcess
  PROVE  Spec => LedgerKept
<1>1. Init => L!Init
  BY DEF Init, L!Init
<1>2. TypeOK /\ MoneyInv /\ SerialInv /\ [Next]_vars
        => SerialInv' /\ [L!Next]_<<row.balance, credited>>
  BY NextSerial
<1> QED BY <1>1, <1>2, InitSerial, TypeCorrect, MoneyInvariant, PTL
        DEF Spec, LedgerKept, L!Spec

\* When requests and tasks do not overlap, the company may send messages just when
\* it can pay for one (SMSBalance.save).
THEOREM SerialEnabled ==
  ASSUME OneProcess
  PROVE  Spec => []EnabledWithFunds
<1>1. TypeOK /\ MoneyInv /\ SerialInv /\ [Next]_vars => SerialInv'
  BY NextSerial
<1>2. SerialInv => EnabledWithFunds
  BY DEF SerialInv
<1> QED BY <1>1, <1>2, InitSerial, TypeCorrect, MoneyInvariant, PTL DEF Spec

-----------------------------------------------------------------------------
(* One charge within three minutes *)

\* No outcome of a payment leaves the invoice without its payment.
Decided == Outcomes \subseteq {"paid", "declined"}

Live == {i \in recent : invoice[i] # "void"}

\* The only recent invoice is the last payment of the row, or of the process that
\* is about to commit it; a process that is about to pay has found none.
LastInv ==
  \A p \in Processes :
    /\ pc[p] # "error"
    /\ pc[p] = "sent" => copy[p].last = row.last
    /\ pc[p] = "pay" => Live = {}
    /\ \A i \in Live : i = IF pc[p] \in {"paid", "declined"} THEN on[p] ELSE row.last

\* The last payment of the rows that are saved.
LEMMA SavedLast ==
  ASSUME NEW c, NEW b
  PROVE  Saved(c, b).last = c.last
BY DEF Saved

LEMMA PlusLast ==
  ASSUME NEW c \in Rows, NEW n
  PROVE  Plus(c, n).last = c.last
BY DEF Plus, Rows

LEMMA WithLastLast ==
  ASSUME NEW c \in Rows, NEW i
  PROVE  WithLast(c, i).last = i
BY DEF WithLast, Rows

\* What is recent and not void when neither the provider nor time moves.
LEMMA LiveSame ==
  ASSUME UNCHANGED <<invoice, recent>>
  PROVE  Live' = Live
BY DEF Live

\* A step of the only process that has no invoice to commit, before it or after.
LEMMA LastStays ==
  ASSUME OneProcess, LastInv, NEW p \in Processes,
         Live' \subseteq Live, row'.last = row.last,
         pc[p] \notin {"paid", "declined"},
         pc'[p] \notin {"paid", "declined", "error", "pay"},
         pc'[p] = "sent" => copy'[p].last = row.last
  PROVE  LastInv'
<1>1. \A q \in Processes : q = p
  BY DEF OneProcess
<1> QED BY <1>1 DEF LastInv

\* Where a process goes.
LEMMA GotoFields ==
  ASSUME TypeOK, NEW p \in Processes, NEW step, NEW to, NEW i, Goto(p, step, to, i)
  PROVE  pc'[p] = step /\ copy'[p] = to /\ on'[p] = i
BY DEF Goto, TypeOK, ProcessOK

\* Messages and settings.
LEMMA SendLast ==
  ASSUME OneProcess, TypeOK, SerialInv, LastInv, NEW p \in Processes,
         \/ BeginSend(p) \/ CommitSend(p) \/ RollbackSend(p)
         \/ \E n \in Segments : SaveSend(p, n)
         \/ BeginSettings(p) \/ SaveSettings(p)
  PROVE  LastInv'
<1>1. Live' = Live
  BY LiveSame DEF BeginSend, CommitSend, RollbackSend, SaveSend, BeginSettings,
                  SaveSettings, remote
<1>2. copy[p] \in Rows
  BY DEF TypeOK, ProcessOK
<1>3. CASE BeginSend(p) \/ BeginSettings(p)
  <2>1. /\ pc[p] = "idle" /\ row' = row
        /\ Goto(p, "send", row, NoInvoice) \/ Goto(p, "settings", row, NoInvoice)
    BY <1>3 DEF BeginSend, BeginSettings
  <2>2. pc'[p] \in {"send", "settings"}
    BY <2>1, GotoFields
  <2> QED BY <1>1, <2>1, <2>2, LastStays
<1>4. CASE CommitSend(p)
  <2>1. pc[p] = "sent" /\ row'.last = copy[p].last /\ pc'[p] = "idle"
    BY <1>4, GotoFields, SavedLast DEF CommitSend
  <2>2. row'.last = row.last
    BY <2>1 DEF LastInv
  <2> QED BY <1>1, <2>1, <2>2, LastStays
<1>5. CASE RollbackSend(p)
  <2>1. pc[p] = "sent" /\ row' = row /\ pc'[p] = "idle"
    BY <1>5, GotoFields DEF RollbackSend
  <2> QED BY <1>1, <2>1, LastStays
<1>6. ASSUME NEW n \in Segments, SaveSend(p, n) PROVE LastInv'
  <2>1. /\ pc[p] = "send" /\ row' = row /\ pc'[p] = "sent"
        /\ copy'[p] = Plus(copy[p], -n)
    BY <1>6, GotoFields DEF SaveSend
  <2>2. copy'[p].last = copy[p].last /\ copy[p] = row
    BY <1>2, <2>1, PlusLast DEF SerialInv
  <2> QED BY <1>1, <2>1, <2>2, LastStays
<1>7. CASE SaveSettings(p)
  <2>1. /\ pc[p] = "settings" /\ row'.last = copy[p].last /\ pc'[p] = "idle"
    BY <1>7, GotoFields, SavedLast DEF SaveSettings
  <2>2. row'.last = row.last
    BY <2>1 DEF SerialInv
  <2> QED BY <1>1, <2>1, <2>2, LastStays
<1> QED BY <1>3, <1>4, <1>5, <1>6, <1>7

\* The charge: it goes on if it finds no recent invoice, and commits the new one as
\* the last payment.
LEMMA ChargeLast ==
  ASSUME OneProcess, Decided, TypeOK, SerialInv, LastInv, NEW p \in Processes,
         Charge(p)
  PROVE  LastInv'
<1>0. /\ \A q \in Processes : q = p
      /\ copy[p] \in Rows
  BY DEF OneProcess, TypeOK, ProcessOK
<1>1. CASE TakeCharge(p)
  <2>1. Live' = Live /\ row' = row /\ pc[p] = "idle"
    BY <1>1, LiveSame DEF TakeCharge, remote
  <2>2. CASE row.last \in recent
    <3>1. pc'[p] = "idle"
      BY <1>1, <2>1, <2>2 DEF TakeCharge, process
    <3> QED BY <2>1, <3>1, LastStays
  <2>3. CASE row.last \notin recent
    <3>1. pc'[p] = "pay"
      BY <1>1, <2>3, GotoFields DEF TakeCharge
    <3>2. Live = {}
      <4>1. \A i \in Live : i = row.last /\ i \in recent
        BY <2>1 DEF LastInv, Live
      <4> QED BY <2>3, <4>1
    <3> QED BY <1>0, <2>1, <3>1, <3>2 DEF LastInv
  <2> QED BY <2>2, <2>3
<1>2. ASSUME NEW i \in Invoices, NEW outcome \in Outcomes, Pay(p, i, outcome)
      PROVE  LastInv'
  <2>1. outcome \in {"paid", "declined"}
    BY DEF Decided
  <2>2. pc'[p] \in {"paid", "declined"} /\ on'[p] = i /\ pc[p] = "pay"
    BY <1>2, <2>1, GotoFields DEF Pay
  <2>3. /\ recent' = recent \cup {i}
        /\ \A j \in Invoices \ {i} : invoice'[j] = invoice[j]
    BY <1>2 DEF Pay, TypeOK
  <2>4. Live = {} /\ recent \subseteq Invoices
    BY <2>2 DEF LastInv, TypeOK
  <2>5. Live' \subseteq {i}
    BY <2>3, <2>4 DEF Live
  <2> QED BY <1>0, <2>2, <2>5 DEF LastInv
<1>3. CASE CommitCharge(p)
  <2>1. Live' = Live /\ pc[p] \in {"paid", "declined"} /\ pc'[p] = "idle"
    BY <1>3, GotoFields, LiveSame
       DEF CommitCharge, CommitPaid, CommitDeclined, remote
  <2>2. row'.last = on[p]
    <3>1. CASE CommitPaid(p)
      <4>1. Plus(copy[p], TopUp) \in Rows
        BY <1>0, PlusType
      <4> QED BY <3>1, <4>1, SavedLast, WithLastLast DEF CommitPaid
    <3>2. CASE CommitDeclined(p)
      BY <1>0, <3>2, SavedLast, WithLastLast DEF CommitDeclined
    <3> QED BY <1>3, <3>1, <3>2 DEF CommitCharge
  <2> QED BY <1>0, <2>1, <2>2 DEF LastInv
<1>4. ~FailCharge(p)
  BY DEF FailCharge, LastInv
<1> QED BY <1>1, <1>2, <1>3, <1>4 DEF Charge

\* fetch_payments, and what happens at the provider.
LEMMA FetchLast ==
  ASSUME OneProcess, TypeOK, SerialInv, LastInv,
         Fetch \/ \E i \in Invoices : PayLater(i) \/ WindowEnds(i)
  PROVE  LastInv'
<1>0. Fetcher \in Processes /\ copy[Fetcher] \in Rows /\ \A q \in Processes : q = Fetcher
  BY DEF Processes, TypeOK, ProcessOK, OneProcess
<1>1. ASSUME NEW i \in Invoices, MarkPaid(i) PROVE LastInv'
  <2>1. /\ pc[Fetcher] = "idle" /\ pc'[Fetcher] = "fetched" /\ row' = row
        /\ Live' = Live
    BY <1>0, <1>1, GotoFields, LiveSame DEF MarkPaid, remote
  <2> QED BY <1>0, <2>1, LastStays
<1>2. CASE ReadCredit
  <2>1. /\ pc[Fetcher] = "fetched" /\ row' = row /\ Live' = Live
        /\ pc'[Fetcher] \in {"credit", "idle"}
    BY <1>0, <1>2, GotoFields, LiveSame DEF ReadCredit, remote
  <2> QED BY <1>0, <2>1, LastStays
<1>3. CASE SaveCredit
  <2>1. /\ pc[Fetcher] = "credit" /\ Live' = Live /\ pc'[Fetcher] = "idle"
        /\ row'.last = Plus(copy[Fetcher], TopUp).last
    BY <1>0, <1>3, GotoFields, LiveSame, SavedLast DEF SaveCredit, remote
  <2>2. row'.last = row.last
    BY <1>0, <2>1, PlusLast DEF SerialInv
  <2> QED BY <1>0, <2>1, <2>2, LastStays
<1>4. ASSUME NEW i \in Invoices, DropVoid(i) PROVE LastInv'
  <2>1. /\ pc[Fetcher] = "idle" /\ pc'[Fetcher] = "idle" /\ recent' = recent
        /\ row'.last = IF row.last = i THEN NoInvoice ELSE row.last
    BY <1>4 DEF DropVoid, process, TypeOK, Rows
  <2>2. Live' \subseteq Live \ {i}
    BY <1>4, <2>1 DEF DropVoid, Live, TypeOK
  <2>3. \A j \in Live' : j = row.last /\ j # i
    BY <1>0, <2>1, <2>2 DEF LastInv
  <2> QED BY <1>0, <2>1, <2>3 DEF LastInv
<1>5. ASSUME NEW i \in Invoices, PayLater(i) \/ WindowEnds(i) PROVE LastInv'
  <2>1. Live' \subseteq Live
    BY <1>5 DEF PayLater, WindowEnds, Live, TypeOK
  <2>2. UNCHANGED <<row, pc, copy, on>>
    BY <1>5 DEF PayLater, WindowEnds, process
  <2> QED BY <2>1, <2>2 DEF LastInv
<1> QED BY <1>1, <1>2, <1>3, <1>4, <1>5 DEF Fetch

LEMMA NextLast ==
  ASSUME OneProcess, Decided, TypeOK, SerialInv, LastInv, [Next]_vars
  PROVE  LastInv'
<1>1. CASE Fund \/ UNCHANGED vars
  <2>1. Live' = Live /\ UNCHANGED <<row, pc, copy, on>>
    BY <1>1, LiveSame DEF Fund, vars, remote, process
  <2> QED BY <2>1 DEF LastInv
<1> QED BY <1>1, SendLast, ChargeLast, FetchLast DEF Next, Send, Processes

\* When requests and tasks do not overlap and every payment is decided, no second
\* invoice is created within three minutes of the first, unless that one is void
\* (charge_for_sms looks at the last payment).
THEOREM SerialChargedOnce ==
  ASSUME OneProcess, Decided
  PROVE  Spec => []ChargedOnce
<1>1. Init => LastInv
  BY DEF Init, LastInv, Live
<1>2. TypeOK /\ MoneyInv /\ SerialInv /\ LastInv /\ [Next]_vars
        => SerialInv' /\ LastInv'
  BY NextSerial, NextLast
<1>3. LastInv => ChargedOnce
  <2> SUFFICES ASSUME LastInv PROVE Cardinality(Live) <= 1
    BY DEF ChargedOnce, Live
  <2>1. \A i, j \in Live : i = j
    BY DEF LastInv, Processes
  <2>2. CASE Live = {}
    BY <2>2, FS_EmptySet
  <2>3. CASE Live # {}
    <3>1. PICK i \in Live : Live = {i}
      BY <2>1, <2>3
    <3>2. Cardinality({i}) = 1
      BY FS_Singleton
    <3> HIDE DEF Live
    <3> QED BY <3>1, <3>2
  <2> QED BY <2>2, <2>3
<1> QED BY <1>1, <1>2, <1>3, InitSerial, TypeCorrect, MoneyInvariant, PTL DEF Spec
=============================================================================
