----------------------------- MODULE SmsBalance -----------------------------
(***************************************************************************)
(* The SMS balance of one company (billing/models.py SMSBalance,           *)
(* billing/tasks.py, sms_interface/services.py): messages are paid from    *)
(* it, a low balance queues a charge of the company's card at the payment  *)
(* provider, and a periodic task credits the invoices that are paid late.  *)
(*                                                                         *)
(* Every handler reads the row, changes its copy and writes the whole copy *)
(* back.  Only the charge task locks the row when it reads it; the update  *)
(* of a message locks it until the transaction of the message ends.  A     *)
(* step is a read, a write that waits for the lock, or a commit.           *)
(*                                                                         *)
(* Amounts are in segments: segment_cost is 1.                             *)
(***************************************************************************)
EXTENDS Integers, FiniteSets

CONSTANTS
  Workers,    \* the processes that run charge_for_sms
  Senders,    \* the processes that send messages and run requests
  Fetcher,    \* the worker that runs fetch_payments
  Invoices,   \* the invoices that may be created at the provider
  NoInvoice, NoProcess,
  Initial,    \* the balance at the start
  TopUp,      \* top_up_amount
  Limit,      \* top_up_limit, with auto_charge on
  Segments,   \* the sizes of messages
  Outcomes,   \* what invoice.pay() may do
  MaxQueue    \* bound on the charge tasks queued when a request begins

Processes == Workers \cup Senders

AllOutcomes == {"paid", "declined", "error_paid", "error_open"}

ASSUME SmsBalanceAssumption ==
  /\ Fetcher \in Workers
  /\ NoInvoice \notin Invoices /\ NoProcess \notin Processes
  /\ IsFiniteSet(Invoices)
  /\ Initial \in Nat /\ TopUp \in Nat /\ Limit \in Nat
  /\ Segments \subseteq Nat
  /\ Outcomes \subseteq AllOutcomes
  /\ MaxQueue \in Nat

VARIABLES
  row,      \* the committed SMSBalance row, with Company.sms_enabled
  lock,     \* the process whose transaction holds the row
  queue,    \* queued charge_for_sms tasks
  invoice,  \* the state of each invoice at the provider
  payment,  \* the state of its Payment row
  recent,   \* the invoices created in the last three minutes
  pc, copy, on,  \* what each process does next, its copy, its invoice
  credited  \* history: the invoices whose amount was added to the balance

process == <<pc, copy, on>>
remote == <<invoice, recent>>
vars == <<row, lock, queue, remote, payment, process, credited>>

Rows == [balance : Int, last : Invoices \cup {NoInvoice}, enabled : BOOLEAN]

InvoiceStates == {"none", "open", "paid", "void"}
PaymentStates == {"none", "not_paid", "paid"}
Pcs == {"idle", "send", "sent", "pay", "paid", "declined", "error",
        "fetched", "credit", "settings"}

\* A process that has an invoice to commit or credit knows which.
ProcessOK ==
  /\ pc \in [Processes -> Pcs]
  /\ copy \in [Processes -> Rows]
  /\ on \in [Processes -> Invoices \cup {NoInvoice}]
  /\ \A p \in Processes :
       pc[p] \in {"paid", "declined", "error", "fetched", "credit"}
         => on[p] \in Invoices

\* The rows, the invoices and the processes have their values; there are never
\* fewer than no tasks in the queue.
TypeOK ==
  /\ row \in Rows
  /\ lock \in Processes \cup {NoProcess}
  /\ queue \in Nat
  /\ invoice \in [Invoices -> InvoiceStates]
  /\ payment \in [Invoices -> PaymentStates]
  /\ recent \subseteq Invoices /\ credited \subseteq Invoices
  /\ ProcessOK

Init ==
  /\ row = [balance |-> Initial, last |-> NoInvoice, enabled |-> Initial > 0]
  /\ lock = NoProcess
  /\ queue = 0
  /\ invoice = [i \in Invoices |-> "none"]
  /\ payment = [i \in Invoices |-> "none"]
  /\ recent = {} /\ credited = {}
  /\ pc = [p \in Processes |-> "idle"]
  /\ copy = [p \in Processes |-> row]
  /\ on = [p \in Processes |-> NoInvoice]

-----------------------------------------------------------------------------

Goto(p, step, to, i) ==
  /\ pc' = [pc EXCEPT ![p] = step]
  /\ copy' = [copy EXCEPT ![p] = to]
  /\ on' = [on EXCEPT ![p] = i]

Free == lock = NoProcess

\* A copy with amount n added to its balance, or with invoice i as last payment.
Plus(c, n) == [c EXCEPT !.balance = @ + n]
WithLast(c, i) == [c EXCEPT !.last = i]

\* SMSBalance.save, before the row is written: a low balance queues a charge.
QueueCharge(new) ==
  queue' = IF new.balance <= Limit THEN queue + 1 ELSE queue

\* Mutant of Saved: a company is never enabled again.
SavedDisabled(c, b) ==
  [balance |-> b, last |-> c.last, enabled |-> b >= 1 /\ row.enabled]

\* The row after copy c is saved with balance b: the company is disabled when
\* it cannot pay one more segment, and enabled again when the copy says it is
\* disabled and it can.
Saved(c, b) ==
  [balance |-> b, last |-> c.last,
   enabled |-> IF b < 1 THEN FALSE
               ELSE IF b > 1 /\ ~c.enabled THEN TRUE
               ELSE row.enabled]

-----------------------------------------------------------------------------
(* A message: BaseSMSService.send *)

\* Mutant of BeginSend: the balance is not looked at.
BeginSendUnchecked(p) ==
  /\ pc[p] = "idle" /\ queue < MaxQueue
  /\ Goto(p, "send", row, NoInvoice)
  /\ UNCHANGED <<row, lock, queue, remote, payment, credited>>

\* sms_disable and substract_sms_cost let it through.
BeginSend(p) ==
  /\ pc[p] = "idle"
  /\ queue < MaxQueue
  /\ row.enabled /\ row.balance > 0
  /\ Goto(p, "send", row, NoInvoice)
  /\ UNCHANGED <<row, lock, queue, remote, payment, credited>>

\* SMSBalance.substract_sms_cost: the cost is taken off the copy, which is
\* written but not committed.
SaveSend(p, n) ==
  /\ pc[p] = "send" /\ Free
  /\ lock' = p
  /\ LET new == Plus(copy[p], -n) IN
       QueueCharge(new) /\ Goto(p, "sent", new, NoInvoice)
  /\ UNCHANGED <<row, remote, payment, credited>>

CommitSend(p) ==
  /\ pc[p] = "sent"
  /\ row' = Saved(copy[p], copy[p].balance)
  /\ lock' = NoProcess
  /\ Goto(p, "idle", copy[p], NoInvoice)
  /\ UNCHANGED <<queue, remote, payment, credited>>

\* The provider of messages fails, or the process is killed.
RollbackSend(p) ==
  /\ pc[p] = "sent"
  /\ lock' = NoProcess
  /\ Goto(p, "idle", copy[p], NoInvoice)
  /\ UNCHANGED <<row, queue, remote, payment, credited>>

-----------------------------------------------------------------------------
(* The task charge_for_sms *)

\* Mutants of TakeCharge: the task is delivered again, or locks no row.
TakeChargeAgain(p) ==
  /\ pc[p] = "idle" /\ Free
  /\ \E i \in Invoices : invoice[i] = "none"
  /\ queue' = queue - 1
  /\ IF row.last \in recent
     THEN UNCHANGED <<process, lock>>
     ELSE lock' = p /\ Goto(p, "pay", row, NoInvoice)
  /\ UNCHANGED <<row, remote, payment, credited>>

TakeChargeUnlocked(p) ==
  /\ pc[p] = "idle" /\ queue > 0 /\ Free
  /\ \E i \in Invoices : invoice[i] = "none"
  /\ queue' = queue - 1
  /\ IF row.last \in recent
     THEN UNCHANGED process
     ELSE Goto(p, "pay", row, NoInvoice)
  /\ UNCHANGED <<row, lock, remote, payment, credited>>

\* It locks the row, and goes on unless the last payment is recent (bounded by
\* the invoices left).
TakeCharge(p) ==
  /\ pc[p] = "idle" /\ queue > 0 /\ Free
  /\ \E i \in Invoices : invoice[i] = "none"
  /\ queue' = queue - 1
  /\ IF row.last \in recent
     THEN UNCHANGED <<process, lock>>
     ELSE lock' = p /\ Goto(p, "pay", row, NoInvoice)
  /\ UNCHANGED <<row, remote, payment, credited>>

\* The invoice is created and paid, or not; after an error nobody knows.
Pay(p, i, outcome) ==
  /\ pc[p] = "pay" /\ invoice[i] = "none"
  /\ invoice' = [invoice EXCEPT ![i] =
                   IF outcome \in {"paid", "error_paid"} THEN "paid" ELSE "open"]
  /\ recent' = recent \cup {i}
  /\ Goto(p, IF outcome \in {"paid", "declined"} THEN outcome ELSE "error",
          copy[p], i)
  /\ UNCHANGED <<row, lock, queue, payment, credited>>

\* Mutant of CommitPaid: the payment counts whatever became of it.
CommitPaidAnyway(p) ==
  LET new == WithLast(Plus(copy[p], TopUp), on[p]) IN
  /\ pc[p] \in {"paid", "declined"}
  /\ row' = Saved(new, new.balance)
  /\ payment' = [payment EXCEPT ![on[p]] = "paid"]
  /\ credited' = credited \cup {on[p]}
  /\ QueueCharge(new)

\* The payment succeeded: it is added to the balance.
CommitPaid(p) ==
  LET new == WithLast(Plus(copy[p], TopUp), on[p]) IN
  /\ pc[p] = "paid"
  /\ row' = Saved(new, new.balance)
  /\ payment' = [payment EXCEPT ![on[p]] = "paid"]
  /\ credited' = credited \cup {on[p]}
  /\ QueueCharge(new)

\* Mutant of CommitDeclined: the last payment is only saved when it succeeds.
CommitDeclinedUnsaved(p) ==
  /\ pc[p] = "declined"
  /\ row' = Saved(copy[p], copy[p].balance)
  /\ payment' = [payment EXCEPT ![on[p]] = "not_paid"]
  /\ QueueCharge(copy[p])
  /\ UNCHANGED credited

\* The card was declined (CardError).
CommitDeclined(p) ==
  LET new == WithLast(copy[p], on[p]) IN
  /\ pc[p] = "declined"
  /\ row' = Saved(new, new.balance)
  /\ payment' = [payment EXCEPT ![on[p]] = "not_paid"]
  /\ QueueCharge(new)
  /\ UNCHANGED credited

CommitCharge(p) ==
  /\ CommitPaid(p) \/ CommitDeclined(p)
  /\ lock' = NoProcess
  /\ Goto(p, "idle", copy[p], NoInvoice)
  /\ UNCHANGED remote

\* Any other error: the finally block saves, the transaction is undone.  Or the
\* worker is killed.
FailCharge(p) ==
  /\ pc[p] = "error"
  /\ QueueCharge(copy[p]) \/ UNCHANGED queue
  /\ lock' = NoProcess
  /\ Goto(p, "idle", copy[p], NoInvoice)
  /\ UNCHANGED <<row, remote, payment, credited>>

-----------------------------------------------------------------------------
(* The task fetch_payments, outside of transactions *)

\* Mutants of MarkPaid: the payment stays unpaid, or old ones are forgotten.
MarkPaidNot(i) ==
  /\ pc[Fetcher] = "idle"
  /\ payment[i] = "not_paid" /\ invoice[i] = "paid"
  /\ Goto(Fetcher, "fetched", copy[Fetcher], i)
  /\ UNCHANGED <<row, lock, queue, remote, payment, credited>>

MarkPaidRecent(i) ==
  /\ pc[Fetcher] = "idle" /\ i \in recent
  /\ payment[i] = "not_paid" /\ invoice[i] = "paid"
  /\ payment' = [payment EXCEPT ![i] = "paid"]
  /\ Goto(Fetcher, "fetched", copy[Fetcher], i)
  /\ UNCHANGED <<row, lock, queue, remote, credited>>

\* A payment is marked as paid ...
MarkPaid(i) ==
  /\ pc[Fetcher] = "idle"
  /\ payment[i] = "not_paid" /\ invoice[i] = "paid"
  /\ payment' = [payment EXCEPT ![i] = "paid"]
  /\ Goto(Fetcher, "fetched", copy[Fetcher], i)
  /\ UNCHANGED <<row, lock, queue, remote, credited>>

\* ... and credited if it is the last payment of the balance.
ReadCredit ==
  /\ pc[Fetcher] = "fetched"
  /\ IF row.last = on[Fetcher]
     THEN Goto(Fetcher, "credit", row, on[Fetcher])
     ELSE Goto(Fetcher, "idle", copy[Fetcher], NoInvoice)
  /\ UNCHANGED <<row, lock, queue, remote, payment, credited>>

SaveCredit ==
  LET new == Plus(copy[Fetcher], TopUp) IN
  /\ pc[Fetcher] = "credit" /\ Free
  /\ row' = Saved(new, new.balance)
  /\ credited' = credited \cup {on[Fetcher]}
  /\ QueueCharge(new)
  /\ Goto(Fetcher, "idle", copy[Fetcher], NoInvoice)
  /\ UNCHANGED <<lock, remote, payment>>

\* The invoice of an unpaid payment is void or gone: the payment is deleted,
\* which clears last_payment.
DropVoid(i) ==
  /\ pc[Fetcher] = "idle" /\ Free
  /\ payment[i] = "not_paid" /\ invoice[i] = "open"
  /\ invoice' = [invoice EXCEPT ![i] = "void"]
  /\ payment' = [payment EXCEPT ![i] = "none"]
  /\ row' = [row EXCEPT !.last = IF @ = i THEN NoInvoice ELSE @]
  /\ UNCHANGED <<lock, queue, recent, process, credited>>

-----------------------------------------------------------------------------
(* Requests, and the provider *)

\* TwilioFundCreateView
Fund ==
  /\ queue < MaxQueue
  /\ queue' = queue + 1
  /\ UNCHANGED <<row, lock, remote, payment, process, credited>>

\* TwilioAutoChargeView reads the row ...
BeginSettings(p) ==
  /\ pc[p] = "idle"
  /\ queue < MaxQueue
  /\ Goto(p, "settings", row, NoInvoice)
  /\ UNCHANGED <<row, lock, queue, remote, payment, credited>>

\* ... and writes all of it.
SaveSettings(p) ==
  /\ pc[p] = "settings" /\ Free
  /\ row' = Saved(copy[p], copy[p].balance)
  /\ QueueCharge(copy[p])
  /\ Goto(p, "idle", copy[p], NoInvoice)
  /\ UNCHANGED <<lock, remote, payment, credited>>

\* The customer pays an open invoice, or the provider tries again.
PayLater(i) ==
  /\ invoice[i] = "open"
  /\ invoice' = [invoice EXCEPT ![i] = "paid"]
  /\ UNCHANGED <<row, lock, queue, recent, payment, process, credited>>

\* Three minutes have passed since the invoice.
WindowEnds(i) ==
  /\ i \in recent
  /\ recent' = recent \ {i}
  /\ UNCHANGED <<row, lock, queue, invoice, payment, process, credited>>

-----------------------------------------------------------------------------

Send(p) ==
  \/ BeginSend(p) \/ CommitSend(p) \/ RollbackSend(p)
  \/ \E n \in Segments : SaveSend(p, n)

Charge(p) ==
  \/ TakeCharge(p) \/ CommitCharge(p) \/ FailCharge(p)
  \/ \E i \in Invoices, outcome \in Outcomes : Pay(p, i, outcome)

Fetch == ReadCredit \/ SaveCredit \/ \E i \in Invoices : MarkPaid(i) \/ DropVoid(i)

Next ==
  \/ \E p \in Senders : Send(p) \/ BeginSettings(p) \/ SaveSettings(p)
  \/ \E p \in Workers : Charge(p)
  \/ Fetch \/ Fund
  \/ \E i \in Invoices : PayLater(i) \/ WindowEnds(i)

Spec == Init /\ [][Next]_vars

\* The steps of a process that is at work.
Step(p) ==
  \/ CommitSend(p) \/ RollbackSend(p) \/ CommitCharge(p) \/ FailCharge(p)
  \/ \E n \in Segments : SaveSend(p, n)
  \/ \E i \in Invoices, outcome \in Outcomes : Pay(p, i, outcome)
  \/ SaveSettings(p)
  \/ p = Fetcher /\ (ReadCredit \/ SaveCredit)

\* A process at work goes on, and gets the row in its turn; fetch_payments runs
\* again and again.
Fairness ==
  /\ \A p \in Processes : SF_vars(Step(p))
  /\ \A i \in Invoices : SF_vars(MarkPaid(i))

FairSpec == Spec /\ Fairness

-----------------------------------------------------------------------------
(* Properties *)

PaidIn == Initial + TopUp * Cardinality(credited)

\* What is added to the balance was paid at the provider, and the balance never
\* exceeds it: no concurrent save makes up money (charge_for_sms,
\* fetch_payments).
FundedByPayments ==
  /\ \A i \in credited : invoice[i] = "paid"
  /\ row.balance <= PaidIn

\* The steps at which a transaction holds the row.
Holders == {"sent", "pay", "paid", "declined", "error"}

\* The inductive invariant behind it: a copy, however old, has no money that was
\* not paid either; the one process that has an invoice to commit holds the row, and
\* nobody else has the payment of that invoice; and the payment fetch_payments is
\* about to credit is not credited yet (charge_for_sms, fetch_payments).
MoneyInv ==
  /\ \A i \in credited : invoice[i] = "paid" /\ payment[i] = "paid"
  /\ \A i \in Invoices : invoice[i] = "none" => payment[i] = "none"
  /\ row.balance <= PaidIn
  /\ \A p \in Processes :
       /\ copy[p].balance <= PaidIn
       /\ pc[p] \in Holders => lock = p
       /\ pc[p] \in {"paid", "declined"} =>
            payment[on[p]] = "none" /\ invoice[on[p]] # "none"
       /\ pc[p] = "paid" => invoice[on[p]] = "paid"
       /\ pc[p] \in {"fetched", "credit"} =>
            /\ invoice[on[p]] = "paid" /\ payment[on[p]] = "paid"
            /\ on[p] \notin credited
            /\ p = Fetcher

\* A message is only let through with a positive balance: however many processes
\* write the balance, it falls below zero by less than one message
\* (BaseSMSService.substract_sms_cost).
OverdraftBounded ==
  row.balance >= 0 \/ \E n \in Segments : row.balance > -n

\* The balance is a ledger: every message is paid from it once and every invoice
\* added to it once (substract_sms_cost, charge_for_sms, fetch_payments).
L == INSTANCE Ledger WITH funds <- row.balance

LedgerKept == L!Spec

\* The company may send messages just when it can pay for one (SMSBalance.save).
EnabledWithFunds ==
  /\ row.balance < 1 => ~row.enabled
  /\ row.balance > 1 => row.enabled

\* No second invoice within three minutes of the first, unless that one is void
\* (SMSBalance.charge_for_sms, "to exclude duplicates").
ChargedOnce == Cardinality({i \in recent : invoice[i] # "void"}) <= 1

\* The last payment, when its invoice is paid late, is credited in the end, or
\* another one has taken its place (fetch_payments).
LatePaymentCredited ==
  \A i \in Invoices :
    payment[i] = "not_paid" /\ invoice[i] = "paid" /\ row.last = i
      ~> i \in credited \/ row.last # i
=============================================================================
