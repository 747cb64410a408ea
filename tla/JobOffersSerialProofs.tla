----------------------- MODULE JobOffersSerialProofs -----------------------
(***************************************************************************)
(* Proofs about JobOffers when one process answers the requests and SMS    *)
(* replies: the tasks of Celery and the clock still step between any two   *)
(* steps of a request, for any set of offers and shifts.                   *)
(***************************************************************************)
EXTENDS JobOffersProofs

OneHandler == \A g, h \in Handlers : g = h

\* What a request has read still holds when it is used: it works on a row that
\* exists; the quota it looked at, and whether the offer was accepted, are what
\* they were.
Informed(h) ==
  LET o == on[h] IN
  /\ pc[h] = "idle" => o = NoOffer
  /\ pc[h] # "idle" => status[o] \notin {"absent", "deleted"}
  /\ pc[h] \in {"refuse", "save", "commit"} =>
       /\ plan[h] = "refuse" =>
            status[o] # "accepted" /\ Filled(status, ShiftOf[o])
       /\ plan[h] = "book" =>
            ~Filled(status, ShiftOf[o]) \/ IsRecurring(o)
       /\ plan[h] = "keep" => status[o] = "accepted"
  /\ pc[h] = "refuse" => plan[h] = "refuse"
  /\ pc[h] = "save" => plan[h] \in {"refuse", "book", "keep"}
  /\ pc[h] = "sheet" => status[o] = "accepted"
  /\ pc[h] \in {"unbook", "resend"} => status[o] # "accepted"
  /\ pc[h] = "sweep" => Filled(status, ShiftOf[o])

\* The time sheet of an offer agrees with its status.
Settled(o) ==
  /\ status[o] = "accepted" => sheet[o] # "none"
  /\ status[o] # "accepted" /\ now < StartOf(o) - 1 => sheet[o] = "none"

\* Handler h has written the status of o and not yet its time sheet.
Settling(h, o) == pc[h] \in {"sheet", "unbook"} /\ on[h] = o

\* Hours are worked from the hour before the shift on.
WorkedLate(o) == sheet[o] = "worked" => now >= StartOf(o) - 1

\* The inductive invariant of one process.
SerialInv ==
  /\ \A h \in Handlers : Informed(h)
  /\ \A o \in Offers : Settled(o) \/ \E h \in Handlers : Settling(h, o)
  /\ \A o \in Offers : WorkedLate(o)

-----------------------------------------------------------------------------
(* The quota and the handlers *)

\* A step after which the same offers are accepted changes no reading of the
\* quota, and no offer becomes recurring.
LEMMA SameQuota ==
  ASSUME \A p \in Offers : status'[p] = "accepted" <=> status[p] = "accepted",
         NEW s, NEW o
  PROVE  /\ Filled(status', s) <=> Filled(status, s)
         /\ IsRecurring(o)' <=> IsRecurring(o)
<1>1. Accepted(status', s) = Accepted(status, s)
  BY DEF Accepted, OffersOf
<1>2. EarlierOffers(o)' = EarlierOffers(o)
  BY DEF EarlierOffers, StartOf
<1> QED BY <1>1, <1>2 DEF Filled, IsRecurring, EarlierOffers

\* What a request has read holds after a step of another actor that accepts and
\* releases nothing and removes no row.
LEMMA InformedKept ==
  ASSUME TypeOK, NEW h \in Handlers, Informed(h), UNCHANGED <<pc, on, plan>>,
         \A p \in Offers : status'[p] = "accepted" <=> status[p] = "accepted",
         \A p \in Offers : status'[p] \in {"absent", "deleted"} =>
           status[p] \in {"absent", "deleted"}
  PROVE  Informed(h)'
<1>1. pc[h] = "idle" \/ on[h] \in Offers
  BY DEF TypeOK, ControlOK
<1>2. /\ Filled(status, ShiftOf[on[h]])' <=> Filled(status, ShiftOf[on[h]])
      /\ IsRecurring(on[h])' <=> IsRecurring(on[h])
  BY SameQuota
<1> QED BY <1>1, <1>2 DEF Informed

\* A request that ends knows nothing.
LEMMA FinishInformed ==
  ASSUME TypeOK, NEW h \in Handlers, Finish(h)
  PROVE  Informed(h)'
BY DEF Finish, Informed, TypeOK, ControlOK

\* The invariant after a step of the only handler.
LEMMA Stepped ==
  ASSUME OneHandler, NEW h \in Handlers, Informed(h)',
         \A o \in Offers : Settled(o)' \/ Settling(h, o)',
         \A o \in Offers : WorkedLate(o)'
  PROVE  SerialInv'
BY DEF OneHandler, SerialInv

\* Before its step, every offer but its own is settled, and its own too unless
\* its time sheet is what it is about to write.
LEMMA OnlyOwn ==
  ASSUME OneHandler, SerialInv, NEW h \in Handlers, NEW o \in Offers
  PROVE  Settled(o) \/ Settling(h, o)
BY DEF OneHandler, SerialInv

\* An offer whose row, sheet and clock stay as they are is settled as it was.
LEMMA StaysSettled ==
  ASSUME NEW o \in Offers, Settled(o), sheet'[o] = sheet[o], now' = now,
         status'[o] = "accepted" <=> status[o] = "accepted"
  PROVE  Settled(o)'
BY DEF Settled, StartOf

\* A sheet made for an acceptance is there, and is worked only if it was.
LEMMA NewSheetsMade ==
  ASSUME TypeOK, NEW o \in Offers, WorkedLate(o), NEW new \in NewSheets(o),
         new # "fail"
  PROVE  new # "none" /\ (new = "worked" => now >= StartOf(o) - 1)
BY DEF NewSheets, WorkedLate

\* A cancellation leaves no sheet up to the hour before the shift.
LEMMA UnbookedGone ==
  ASSUME TypeOK, NEW o \in Offers, WorkedLate(o)
  PROVE  /\ now < StartOf(o) - 1 => Unbooked(o) = "none"
         /\ Unbooked(o) = "worked" => now >= StartOf(o) - 1
<1>1. now \in Nat /\ StartOf(o) \in Nat
  BY JobOffersAssumption DEF TypeOK, StartOf
<1>2. sheet[o] \in Sheets
  BY DEF TypeOK
<1> QED BY <1>1, <1>2 DEF Unbooked, WorkedLate, Sheets

-----------------------------------------------------------------------------
(* The steps of the handler keep the invariant *)

\* A handler that is busy works on a row.
LEMMA BusyRow ==
  ASSUME TypeOK, SerialInv, NEW h \in Handlers, pc[h] # "idle"
  PROVE  /\ on[h] \in Offers /\ Informed(h)
         /\ status[on[h]] \in {"undefined", "accepted", "cancelled"}
BY DEF TypeOK, ControlOK, SerialInv, Informed, Statuses

\* The decision of save() is what the handler then knows.
LEMMA AcceptCheckSerial ==
  ASSUME OneHandler, TypeOK, SerialInv, NEW h \in Handlers, AcceptCheck(h)
  PROVE  SerialInv'
<1> DEFINE o == on[h]
<1>1. pc[h] = "check" /\ o \in Offers /\ status[o] # "deleted" /\ Informed(h)
  BY BusyRow DEF AcceptCheck
<1>2. /\ pc'[h] = IF Decision(o) = "refuse" THEN "refuse" ELSE "save"
      /\ plan'[h] = Decision(o) /\ on'[h] = o
      /\ UNCHANGED <<status, sheet, now>>
  BY <1>1 DEF AcceptCheck, TypeOK, ControlOK
<1>3. \A s : (Filled(status, s)' <=> Filled(status, s))
             /\ (IsRecurring(o)' <=> IsRecurring(o))
  BY <1>2, SameQuota
<1>4. Informed(h)'
  BY <1>1, <1>2, <1>3 DEF Informed, Decision
<1>5. \A p \in Offers : Settled(p)'
  BY <1>1, <1>2, OnlyOwn, StaysSettled DEF Settling
<1>6. \A p \in Offers : WorkedLate(p)'
  BY <1>2 DEF SerialInv, WorkedLate, StartOf
<1> QED BY <1>4, <1>5, <1>6, Stepped

\* A refusal closes the shift and keeps the accepted offers.
LEMMA AcceptRefuseSerial ==
  ASSUME OneHandler, TypeOK, SerialInv, NEW h \in Handlers, AcceptRefuse(h)
  PROVE  SerialInv'
<1> DEFINE o == on[h]
<1>1. pc[h] = "refuse" /\ o \in Offers /\ Informed(h)
      /\ status[o] \in {"undefined", "accepted", "cancelled"}
  BY BusyRow DEF AcceptRefuse
<1>2. /\ pc'[h] = "save" /\ plan'[h] = plan[h] /\ on'[h] = o
      /\ status' = Swept(status, sheet, ShiftOf[o])
      /\ UNCHANGED <<sheet, now>>
  BY DEF AcceptRefuse, Goto, TypeOK, ControlOK
<1>3. \A p \in Offers : status'[p] = "accepted" <=> status[p] = "accepted"
  BY <1>2, SweptKeepsAccepted DEF TypeOK
<1>4. status'[o] \notin {"absent", "deleted"}
  BY <1>1, <1>2 DEF Swept
<1>5. \A s, p : (Filled(status', s) <=> Filled(status, s))
                /\ (IsRecurring(p)' <=> IsRecurring(p))
  BY <1>3, SameQuota
<1>6. Informed(h)'
  BY <1>1, <1>2, <1>3, <1>4, <1>5 DEF Informed
<1>7. \A p \in Offers : Settled(p)'
  BY <1>1, <1>2, <1>3, OnlyOwn, StaysSettled DEF Settling
<1>8. \A p \in Offers : WorkedLate(p)'
  BY <1>2 DEF SerialInv, WorkedLate, StartOf
<1> QED BY <1>6, <1>7, <1>8, Stepped

\* The row is written; a new acceptance owes the time sheet.
LEMMA AcceptSaveSerial ==
  ASSUME OneHandler, TypeOK, SerialInv, NEW h \in Handlers, AcceptSave(h)
  PROVE  SerialInv'
<1> DEFINE o == on[h]
<1>1. pc[h] = "save" /\ o \in Offers /\ Informed(h)
  BY BusyRow DEF AcceptSave
<1>2. /\ pc'[h] = (IF plan[h] = "book" THEN "sheet" ELSE "close")
      /\ plan'[h] = plan[h] /\ on'[h] = o
      /\ status' = [status EXCEPT ![o] =
                      IF plan[h] = "refuse" THEN "cancelled" ELSE "accepted"]
      /\ UNCHANGED <<sheet, now>>
  BY <1>1 DEF AcceptSave, Goto, TypeOK, ControlOK
<1>3. /\ plan[h] = "refuse" => status[o] # "accepted"
      /\ plan[h] = "keep" => status[o] = "accepted"
      /\ plan[h] \in {"refuse", "book", "keep"}
  BY <1>1 DEF Informed
<1>4. status'[o] = (IF plan[h] = "refuse" THEN "cancelled" ELSE "accepted")
      /\ \A p \in Offers \ {o} : status'[p] = status[p]
  BY <1>1, <1>2 DEF TypeOK
<1>5. Informed(h)'
  BY <1>2, <1>3, <1>4 DEF Informed
<1>6. ASSUME NEW p \in Offers
      PROVE  Settled(p)' \/ Settling(h, p)'
  <2>1. Settled(p)
    BY <1>1, OnlyOwn DEF Settling
  <2>2. CASE p = o /\ plan[h] = "book"
    BY <1>2, <2>2 DEF Settling
  <2>3. CASE p # o \/ plan[h] # "book"
    <3>1. status'[p] = "accepted" <=> status[p] = "accepted"
      BY <1>3, <1>4, <2>3
    <3> QED BY <1>2, <2>1, <3>1, StaysSettled
  <2> QED BY <2>2, <2>3
<1>7. \A p \in Offers : WorkedLate(p)'
  BY <1>2 DEF SerialInv, WorkedLate, StartOf
<1> QED BY <1>5, <1>6, <1>7, Stepped

\* The time sheet is made, or was there and cannot be made anew.
LEMMA AcceptSheetSerial ==
  ASSUME OneHandler, TypeOK, SerialInv, NEW h \in Handlers, AcceptSheet(h)
  PROVE  SerialInv'
<1> DEFINE o == on[h]
<1>1. pc[h] = "sheet" /\ o \in Offers /\ Informed(h) /\ status[o] = "accepted"
  BY BusyRow DEF AcceptSheet, Informed
<1>2. PICK new \in NewSheets(o) :
        IF new = "fail"
        THEN Finish(h) /\ UNCHANGED sheet
        ELSE sheet' = [sheet EXCEPT ![o] = new] /\ Goto(h, "close")
  BY <1>1 DEF AcceptSheet
<1>3. UNCHANGED <<status, now>> /\ (Finish(h) \/ Goto(h, "close"))
  BY <1>2 DEF AcceptSheet
<1>4. Informed(h)'
  <2>1. CASE Finish(h)
    BY <2>1, FinishInformed
  <2>2. CASE Goto(h, "close")
    BY <1>1, <1>3, <2>2 DEF Informed, Goto, TypeOK, ControlOK
  <2> QED BY <1>3, <2>1, <2>2
<1>5. /\ \A p \in Offers \ {o} : sheet'[p] = sheet[p]
      /\ sheet'[o] # "none" /\ (sheet'[o] = "worked" => now >= StartOf(o) - 1)
  <2>1. WorkedLate(o)
    BY <1>1 DEF SerialInv
  <2>2. CASE new = "fail"
    <3>1. sheet[o] = "worked"
      BY <1>2, <2>2 DEF NewSheets
    <3> QED BY <1>1, <1>2, <2>1, <2>2, <3>1 DEF WorkedLate
  <2>3. CASE new # "fail"
    <3>1. sheet'[o] = new
      BY <1>1, <1>2, <2>3 DEF TypeOK
    <3>2. new # "none" /\ (new = "worked" => now >= StartOf(o) - 1)
      BY <1>1, <1>2, <2>1, <2>3, NewSheetsMade
    <3>3. \A p \in Offers \ {o} : sheet'[p] = sheet[p]
      BY <1>1, <1>2, <2>3 DEF TypeOK
    <3> QED BY <3>1, <3>2, <3>3
  <2> QED BY <2>2, <2>3
<1>6. ASSUME NEW p \in Offers
      PROVE  Settled(p)'
  <2>1. CASE p = o
    BY <1>1, <1>3, <1>5, <2>1 DEF Settled
  <2>2. CASE p # o
    <3>1. Settled(p)
      BY <2>2, OnlyOwn DEF Settling
    <3> QED BY <1>3, <1>5, <2>2, <3>1, StaysSettled
  <2> QED BY <2>1, <2>2
<1>7. \A p \in Offers : WorkedLate(p)'
  BY <1>3, <1>5 DEF SerialInv, WorkedLate, StartOf
<1> QED BY <1>4, <1>6, <1>7, Stepped

\* The quota is read once more, and the shift closed when it is full.
LEMMA AcceptCloseSerial ==
  ASSUME OneHandler, TypeOK, SerialInv, NEW h \in Handlers,
         AcceptClose(h) \/ AcceptSweep(h)
  PROVE  SerialInv'
<1> DEFINE o == on[h]
<1>1. /\ pc[h] \in {"close", "sweep"} /\ o \in Offers /\ Informed(h)
      /\ status[o] \in {"undefined", "accepted", "cancelled"}
  BY BusyRow DEF AcceptClose, AcceptSweep
<1>2. /\ UNCHANGED <<sheet, now>>
      /\ status' = status \/ status' = Swept(status, sheet, ShiftOf[o])
  BY DEF AcceptClose, AcceptSweep
<1>3. \A p \in Offers : status'[p] = "accepted" <=> status[p] = "accepted"
  BY <1>2, SweptKeepsAccepted DEF TypeOK
<1>4. Informed(h)'
  <2>1. CASE Finish(h)
    BY <2>1, FinishInformed
  <2>2. CASE AcceptClose(h) /\ Goto(h, "sweep") /\ Filled(status, ShiftOf[o])
    BY <1>1, <2>2 DEF AcceptClose, Informed, Goto, TypeOK, ControlOK
  <2>3. Finish(h) \/ (AcceptClose(h) /\ Goto(h, "sweep") /\ Filled(status, ShiftOf[o]))
    BY DEF AcceptClose, AcceptSweep
  <2> QED BY <2>1, <2>2, <2>3
<1>5. \A p \in Offers : Settled(p)'
  BY <1>1, <1>2, <1>3, OnlyOwn, StaysSettled DEF Settling
<1>6. \A p \in Offers : WorkedLate(p)'
  BY <1>2 DEF SerialInv, WorkedLate, StartOf
<1> QED BY <1>4, <1>5, <1>6, Stepped

\* A cancellation owes the deletion of the time sheet.
LEMMA CancelSaveSerial ==
  ASSUME OneHandler, TypeOK, SerialInv, NEW h \in Handlers, CancelSave(h)
  PROVE  SerialInv'
<1> DEFINE o == on[h]
<1>1. pc[h] = "cancel" /\ o \in Offers /\ status[o] # "deleted"
  BY BusyRow DEF CancelSave
<1>2. /\ pc'[h] = "unbook" /\ on'[h] = o
      /\ status' = [status EXCEPT ![o] = "cancelled"]
      /\ UNCHANGED <<sheet, now>>
  BY <1>1 DEF CancelSave, Goto, TypeOK, ControlOK
<1>3. status'[o] = "cancelled" /\ \A p \in Offers \ {o} : status'[p] = status[p]
  BY <1>1, <1>2 DEF TypeOK
<1>4. Informed(h)'
  BY <1>2, <1>3 DEF Informed
<1>5. ASSUME NEW p \in Offers
      PROVE  Settled(p)' \/ Settling(h, p)'
  <2>1. CASE p = o
    BY <1>2, <2>1 DEF Settling
  <2>2. CASE p # o
    <3>1. Settled(p)
      BY <2>2, OnlyOwn DEF Settling
    <3> QED BY <1>2, <1>3, <2>2, <3>1, StaysSettled
  <2> QED BY <2>1, <2>2
<1>6. \A p \in Offers : WorkedLate(p)'
  BY <1>2 DEF SerialInv, WorkedLate, StartOf
<1> QED BY <1>4, <1>5, <1>6, Stepped

\* It deletes the sheet of a shift that is not about to start.
LEMMA CancelSheetSerial ==
  ASSUME OneHandler, TypeOK, SerialInv, NEW h \in Handlers, CancelSheet(h)
  PROVE  SerialInv'
<1> DEFINE o == on[h]
<1>1. pc[h] = "unbook" /\ o \in Offers /\ status[o] # "accepted"
  BY BusyRow DEF CancelSheet, Informed
<1>2. /\ Finish(h) /\ sheet' = [sheet EXCEPT ![o] = Unbooked(o)]
      /\ UNCHANGED <<status, now>>
  BY DEF CancelSheet
<1>3. /\ sheet'[o] = Unbooked(o) /\ \A p \in Offers \ {o} : sheet'[p] = sheet[p]
  BY <1>1, <1>2 DEF TypeOK
<1>4. /\ now < StartOf(o) - 1 => Unbooked(o) = "none"
      /\ Unbooked(o) = "worked" => now >= StartOf(o) - 1
  BY <1>1, UnbookedGone DEF SerialInv
<1>5. Informed(h)'
  BY <1>2, FinishInformed
<1>6. ASSUME NEW p \in Offers
      PROVE  Settled(p)'
  <2>1. CASE p = o
    BY <1>1, <1>2, <1>3, <1>4, <2>1 DEF Settled, StartOf
  <2>2. CASE p # o
    <3>1. Settled(p)
      BY <2>2, OnlyOwn DEF Settling
    <3> QED BY <1>2, <1>3, <2>2, <3>1, StaysSettled
  <2> QED BY <2>1, <2>2
<1>7. \A p \in Offers : WorkedLate(p)'
  BY <1>2, <1>3, <1>4 DEF SerialInv, WorkedLate, StartOf
<1> QED BY <1>5, <1>6, <1>7, Stepped

\* A message sent again reopens an offer that has no place.
LEMMA ResendSaveSerial ==
  ASSUME OneHandler, TypeOK, SerialInv, NEW h \in Handlers, ResendSave(h)
  PROVE  SerialInv'
<1> DEFINE o == on[h]
<1>1. pc[h] = "resend" /\ o \in Offers /\ status[o] # "accepted"
  BY BusyRow DEF ResendSave, Informed
<1>2. /\ Finish(h) /\ UNCHANGED <<sheet, now>>
      /\ \A p \in Offers : status'[p] = "accepted" <=> status[p] = "accepted"
  BY <1>1 DEF ResendSave, TypeOK
<1>3. Informed(h)'
  BY <1>2, FinishInformed
<1>4. \A p \in Offers : Settled(p)'
  BY <1>1, <1>2, OnlyOwn, StaysSettled DEF Settling
<1>5. \A p \in Offers : WorkedLate(p)'
  BY <1>2 DEF SerialInv, WorkedLate, StartOf
<1> QED BY <1>3, <1>4, <1>5, Stepped

\* The transaction of a reply writes the row and its sheet together.
LEMMA CommitSerial ==
  ASSUME OneHandler, TypeOK, SerialInv, NEW h \in Handlers, Finish(h), now' = now,
         NEW o \in Offers, on[h] = o, pc[h] = "commit",
         \A p \in Offers \ {o} :
           /\ status'[p] = "accepted" <=> status[p] = "accepted"
           /\ sheet'[p] = sheet[p],
         Settled(o)', WorkedLate(o)'
  PROVE  SerialInv'
<1>1. Informed(h)'
  BY FinishInformed
<1>2. ASSUME NEW p \in Offers
      PROVE  Settled(p)' /\ WorkedLate(p)'
  <2>1. CASE p = o
    BY <2>1
  <2>2. CASE p # o
    <3>1. Settled(p) /\ WorkedLate(p)
      BY <2>2, OnlyOwn DEF Settling, SerialInv
    <3>2. Settled(p)'
      BY <2>2, <3>1, StaysSettled
    <3>3. WorkedLate(p)'
      BY <2>2, <3>1 DEF WorkedLate, StartOf
    <3> QED BY <3>2, <3>3
  <2> QED BY <2>1, <2>2
<1> QED BY <1>1, <1>2, Stepped

\* What the sweep of a booking leaves accepted.
LEMMA BookedStatus ==
  ASSUME TypeOK, NEW h \in Handlers, on[h] \in Offers, CommitBook(h)
  PROVE  /\ status'[on[h]] = "accepted"
         /\ \A p \in Offers \ {on[h]} : status'[p] = "accepted" <=> status[p] = "accepted"
<1> DEFINE o == on[h]
           booked == [status EXCEPT ![o] = "accepted"]
<1>1. booked \in [Offers -> Statuses] /\ booked[o] = "accepted"
      /\ \A p \in Offers \ {o} : booked[p] = status[p]
  BY DEF TypeOK, Statuses
<1>2. \/ status' = booked
      \/ \E new : status' = Swept(booked, [sheet EXCEPT ![o] = new], ShiftOf[o])
  BY DEF CommitBook
<1>3. \A p \in Offers : status'[p] = "accepted" <=> booked[p] = "accepted"
  <2> TAKE p \in Offers
  <2>1. ASSUME NEW new,
               status' = Swept(booked, [sheet EXCEPT ![o] = new], ShiftOf[o])
        PROVE  status'[p] = "accepted" <=> booked[p] = "accepted"
    <3> HIDE DEF booked
    <3> QED BY <1>1, <2>1, SweptKeepsAccepted
  <2> QED BY <1>2, <2>1
<1> HIDE DEF booked
<1> QED BY <1>1, <1>3

\* A refusal keeps every acceptance but that of its own offer.
LEMMA RefusedStatus ==
  ASSUME TypeOK, NEW h \in Handlers, on[h] \in Offers, CommitRefuse(h)
  PROVE  /\ status'[on[h]] = "cancelled"
         /\ \A p \in Offers \ {on[h]} : status'[p] = "accepted" <=> status[p] = "accepted"
<1>1. /\ status \in [Offers -> Statuses]
      /\ Swept(status, sheet, ShiftOf[on[h]]) \in [Offers -> Statuses]
      /\ status' = [Swept(status, sheet, ShiftOf[on[h]]) EXCEPT ![on[h]] = "cancelled"]
  BY SweptType DEF TypeOK, CommitRefuse
<1> QED BY <1>1, SweptKeepsAccepted

\* A reply keeps the invariant.
LEMMA CommitReplySerial ==
  ASSUME OneHandler, TypeOK, SerialInv, NEW h \in Handlers, CommitReply(h),
         NEW o \in Offers, on[h] = o
  PROVE  SerialInv'
<1>1. /\ pc[h] = "commit" /\ Finish(h) /\ now' = now
      /\ Settled(o) /\ WorkedLate(o) /\ Informed(h)
  BY BusyRow, OnlyOwn DEF CommitReply, Settling, SerialInv
<1>2. CASE CommitBook(h)
  <2>1. PICK new \in NewSheets(o) \ {"fail"} : sheet' = [sheet EXCEPT ![o] = new]
    BY <1>2 DEF CommitBook
  <2>2. /\ sheet'[o] = new /\ \A p \in Offers \ {o} : sheet'[p] = sheet[p]
    BY <1>1, <2>1 DEF TypeOK
  <2>3. new # "none" /\ (new = "worked" => now >= StartOf(o) - 1)
    BY <1>1, <2>1, NewSheetsMade
  <2>4. /\ status'[o] = "accepted"
        /\ \A p \in Offers \ {o} : status'[p] = "accepted" <=> status[p] = "accepted"
    BY <1>2, BookedStatus
  <2>5. Settled(o)' /\ WorkedLate(o)'
    BY <1>1, <2>2, <2>3, <2>4 DEF Settled, WorkedLate, StartOf
  <2> QED BY <1>1, <2>2, <2>4, <2>5, CommitSerial
<1>3. CASE CommitRefuse(h)
  <2>1. status[o] # "accepted"
    BY <1>1, <1>3 DEF CommitRefuse, Informed
  <2>2. /\ status'[o] = "cancelled" /\ sheet' = sheet
        /\ \A p \in Offers \ {o} : status'[p] = "accepted" <=> status[p] = "accepted"
    BY <1>3, RefusedStatus DEF CommitRefuse
  <2>3. Settled(o)' /\ WorkedLate(o)'
    BY <1>1, <2>1, <2>2, StaysSettled DEF WorkedLate, StartOf
  <2> QED BY <1>1, <2>2, <2>3, CommitSerial
<1>4. CASE CommitCancel(h)
  <2>1. /\ status'[o] = "cancelled" /\ sheet'[o] = Unbooked(o)
        /\ \A p \in Offers \ {o} : status'[p] = status[p] /\ sheet'[p] = sheet[p]
    BY <1>4 DEF CommitCancel, TypeOK
  <2>2. Settled(o)' /\ WorkedLate(o)'
    BY <1>1, <2>1, UnbookedGone DEF Settled, WorkedLate, StartOf
  <2> QED BY <1>1, <2>1, <2>2, CommitSerial
<1> QED BY <1>2, <1>3, <1>4 DEF CommitReply

\* A reply that is undone leaves the offers as they were.
LEMMA RollbackSerial ==
  ASSUME OneHandler, TypeOK, SerialInv, NEW h \in Handlers, RollbackReply(h)
  PROVE  SerialInv'
<1>1. /\ pc[h] = "commit" /\ Finish(h) /\ UNCHANGED <<status, sheet, now>>
  BY DEF RollbackReply
<1>2. Informed(h)'
  BY <1>1, FinishInformed
<1>3. \A p \in Offers : Settled(p)' /\ WorkedLate(p)'
  BY <1>1, OnlyOwn, StaysSettled DEF Settling, SerialInv, WorkedLate, StartOf
<1> QED BY <1>2, <1>3, Stepped

\* So does every step of the handler.
LEMMA HandlerStepSerial ==
  ASSUME OneHandler, TypeOK, SerialInv, NEW h \in Handlers, HandlerStep(h)
  PROVE  SerialInv'
<1>1. CASE CommitReply(h)
  <2>1. on[h] \in Offers
    BY <1>1, BusyRow DEF CommitReply
  <2> QED BY <1>1, <2>1, CommitReplySerial
<1> QED BY <1>1, AcceptCheckSerial, AcceptRefuseSerial, AcceptSaveSerial,
           AcceptSheetSerial, AcceptCloseSerial, CancelSaveSerial,
           CancelSheetSerial, ResendSaveSerial, RollbackSerial DEF HandlerStep

-----------------------------------------------------------------------------
(* The other steps *)

\* A request that begins has read what it knows.
LEMMA RequestSerial ==
  ASSUME OneHandler, TypeOK, SerialInv, NEW h \in Handlers, NEW o \in Offers,
         Request(h, o)
  PROVE  SerialInv'
<1>1. /\ UNCHANGED <<status, sheet, now>> /\ pc[h] = "idle"
      /\ status[o] \notin {"absent", "deleted"}
      /\ pc'[h] \in {"check", "cancel", "resend", "commit"} /\ on'[h] = o
  BY DEF Request, BeginAccept, BeginCancel, BeginResend, BeginSend, ReadReply,
         Begin, Rows, TypeOK, ControlOK
<1>2. pc'[h] = "resend" => status[o] # "accepted"
  BY DEF Request, BeginAccept, BeginCancel, BeginResend, BeginSend, ReadReply,
         Begin, TypeOK, ControlOK
<1>3. pc'[h] = "commit" =>
        plan'[h] = "cancel" \/ (plan'[h] = Decision(o) /\ status[o] = "undefined")
  BY DEF Request, BeginAccept, BeginCancel, BeginResend, BeginSend, ReadReply,
         Begin, TypeOK, ControlOK
<1>4. \A s, p : (Filled(status', s) <=> Filled(status, s))
                /\ (IsRecurring(p)' <=> IsRecurring(p))
  BY <1>1, SameQuota
<1>5. Informed(h)'
  BY <1>1, <1>2, <1>3, <1>4 DEF Informed, Decision
<1>6. \A p \in Offers : Settled(p)' /\ WorkedLate(p)'
  BY <1>1, OnlyOwn, StaysSettled DEF Settling, SerialInv, WorkedLate, StartOf
<1> QED BY <1>5, <1>6, Stepped

\* A step of another actor that books, releases and removes nothing, changes no
\* sheet, and may advance the clock.
LEMMA OtherSerial ==
  ASSUME TypeOK, SerialInv, UNCHANGED <<pc, on, plan, sheet>>,
         now' \in Nat, now' >= now,
         \A p \in Offers : status'[p] = "accepted" <=> status[p] = "accepted",
         \A p \in Offers : status'[p] \in {"absent", "deleted"} =>
           status[p] \in {"absent", "deleted"}
  PROVE  SerialInv'
<1>1. now \in Nat /\ \A p \in Offers : StartOf(p) \in Nat
  BY JobOffersAssumption DEF TypeOK, StartOf
<1>2. \A h \in Handlers : Informed(h)'
  BY InformedKept DEF SerialInv
<1>3. \A p \in Offers : Settled(p) => Settled(p)'
  BY <1>1 DEF Settled, StartOf
<1>4. \A p \in Offers : WorkedLate(p)'
  BY <1>1 DEF SerialInv, WorkedLate, StartOf
<1> QED BY <1>2, <1>3, <1>4 DEF SerialInv, Settling

\* A request made in one step on offer o, while the handler is idle.
LEMMA IdleSerial ==
  ASSUME OneHandler, TypeOK, SerialInv, SomeIdle, NEW o \in Offers,
         UNCHANGED <<now, pc, on, plan>>,
         \A p \in Offers \ {o} : status'[p] = status[p] /\ sheet'[p] = sheet[p],
         Settled(o) /\ WorkedLate(o) => Settled(o)' /\ WorkedLate(o)'
  PROVE  SerialInv'
<1>1. PICK h \in Handlers : pc[h] = "idle" /\ Informed(h)
  BY DEF SomeIdle, SerialInv
<1>2. Informed(h)'
  BY <1>1 DEF Informed
<1>3. \A p \in Offers : Settled(p) /\ WorkedLate(p)
  BY <1>1, OnlyOwn DEF Settling, SerialInv
<1>4. ASSUME NEW p \in Offers
      PROVE  Settled(p)' /\ WorkedLate(p)'
  <2>1. CASE p = o
    BY <1>3, <2>1
  <2>2. CASE p # o
    BY <1>3, <2>2, StaysSettled DEF WorkedLate, StartOf
  <2> QED BY <2>1, <2>2
<1> QED BY <1>2, <1>4, Stepped

\* The other requests on an offer, and its tasks, keep the invariant.
LEMMA OfferStepSerial ==
  ASSUME OneHandler, TypeOK, SerialInv, NEW o \in Offers, OfferStep(o)
  PROVE  SerialInv'
<1>0. now \in Nat /\ StartOf(o) \in Nat
  BY JobOffersAssumption DEF TypeOK, StartOf
<1>1. CASE Create(o)
  BY <1>1, IdleSerial DEF Create, TypeOK, Settled, WorkedLate, StartOf
<1>2. CASE Destroy(o)
  BY <1>2, IdleSerial DEF Destroy, TypeOK, Settled, WorkedLate, StartOf
<1>3. CASE SheetConfirm(o) \/ SheetDecline(o) \/ SheetSubmit(o)
  <2>1. /\ SomeIdle /\ UNCHANGED <<status, now, pc, on, plan>>
        /\ sheet[o] # "none" /\ sheet'[o] # "none"
        /\ sheet'[o] = "worked" => now >= StartOf(o)
        /\ \A p \in Offers \ {o} : sheet'[p] = sheet[p]
    BY <1>3 DEF SheetConfirm, SheetDecline, SheetSubmit, SheetStep, TypeOK
  <2>2. Settled(o) /\ WorkedLate(o) => Settled(o)' /\ WorkedLate(o)'
    BY <1>0, <2>1 DEF Settled, WorkedLate, StartOf
  <2> QED BY <2>1, <2>2, IdleSerial
<1>4. CASE Task(o) \/ RejectOffer(o)
  <2>1. /\ UNCHANGED <<pc, on, plan, sheet, now>>
        /\ \A p \in Offers :
             status'[p] = status[p]
             \/ {status'[p], status[p]} \subseteq {"undefined", "cancelled"}
    BY <1>4 DEF Task, SkipOffer, SendOffer, DeferOffer, TakeTask, RejectOffer, TypeOK
  <2> QED BY <1>0, <2>1, OtherSerial
<1> QED BY <1>1, <1>2, <1>3, <1>4 DEF OfferStep

\* At the start there is no row, no sheet and no request.
LEMMA InitSerial ==
  ASSUME Init
  PROVE  SerialInv
BY DEF Init, SerialInv, Informed, Settled, WorkedLate

\* Every step keeps the invariant.
LEMMA NextSerial ==
  ASSUME OneHandler, TypeOK, SerialInv, [Next]_vars
  PROVE  SerialInv'
<1>1. CASE Tick \/ UNCHANGED vars
  BY <1>1, OtherSerial DEF Tick, vars, TypeOK
<1> QED BY <1>1, HandlerStepSerial, RequestSerial, OfferStepSerial DEF Next

\* With one process, a time sheet always agrees with the status of its offer,
\* and what a request has read still holds when the request writes.
THEOREM SerialInvariant ==
  ASSUME OneHandler
  PROVE  Spec => []SerialInv
<1>1. Init => SerialInv
  BY InitSerial
<1>2. TypeOK /\ SerialInv /\ [Next]_vars => SerialInv'
  BY NextSerial
<1> QED BY <1>1, <1>2, TypeCorrect, PTL DEF Spec

-----------------------------------------------------------------------------
(* What a run checks for one process *)

\* One process overbooks no shift: the check of the quota and the write of the
\* acceptance are never separated by another acceptance (check_job_quota, save).
THEOREM SerialQuotaExact ==
  ASSUME OneHandler
  PROVE  Spec => []NoOverbooking
<1>1. Cardinality(Handlers) = 1
  <2>1. PICK h \in Handlers : TRUE
    BY JobOffersAssumption
  <2>2. Handlers = {h}
    BY <2>1 DEF OneHandler
  <2> QED BY <2>2, FS_Singleton
<1>2. \A s \in Shifts : Limit[s] = Workers[s]
  BY <1>1, JobOffersAssumption DEF Limit
<1>3. OverbookingBounded => NoOverbooking
  BY <1>2 DEF OverbookingBounded, NoOverbooking
<1> QED BY <1>3, OverbookingIsBounded, PTL

\* An accepted offer that no request is working on has a time sheet, whatever
\* cancellations, replies, tasks and removals came before
\* (get_or_create_for_job_offer_accepted).
THEOREM SerialSheets ==
  ASSUME OneHandler
  PROVE  Spec => []BookedHasSheet
<1>1. SerialInv => BookedHasSheet
  BY DEF SerialInv, BookedHasSheet, Settled, Settling, Quiet
<1> QED BY <1>1, SerialInvariant, PTL

\* Up to an hour before the shift no time sheet outlives its acceptance
\* (JobOffer.cancel, perform_destroy).
THEOREM SerialNoOrphan ==
  ASSUME OneHandler
  PROVE  Spec => []NoOrphanSheet
<1>1. SerialInv => NoOrphanSheet
  BY DEF SerialInv, NoOrphanSheet, Settled, Settling, Quiet
<1> QED BY <1>1, SerialInvariant, PTL

\* The only steps that accept an offer, and those that release one.
LEMMA BookingSteps ==
  ASSUME OneHandler, TypeOK, SerialInv, [Next]_vars, NEW o \in Offers,
         status[o] # "accepted", status'[o] = "accepted"
  PROVE  \E h \in Handlers : WillBook(h) /\ on[h] = o
<1>1. ASSUME NEW h \in Handlers, HandlerStep(h)
      PROVE  WillBook(h) /\ on[h] = o
  <2>1. CASE AcceptSave(h)
    <3>1. on[h] \in Offers
      BY <2>1, BusyRow DEF AcceptSave
    <3> QED BY <2>1, <3>1 DEF AcceptSave, WillBook, TypeOK
  <2>2. CASE CommitReply(h)
    <3>1. on[h] \in Offers
      BY <2>2, BusyRow DEF CommitReply
    <3>2. CASE CommitBook(h)
      BY <2>2, <3>1, <3>2, BookedStatus DEF CommitReply, CommitBook, WillBook
    <3>3. CASE CommitRefuse(h)
      BY <3>1, <3>3, RefusedStatus
    <3>4. CASE CommitCancel(h)
      BY <3>1, <3>4 DEF CommitCancel, TypeOK
    <3> QED BY <2>2, <3>2, <3>3, <3>4 DEF CommitReply
  <2>3. CASE AcceptRefuse(h) \/ AcceptSweep(h)
    BY <2>3, SweptKeepsAccepted DEF AcceptRefuse, AcceptSweep, TypeOK
  <2>4. CASE CancelSave(h) \/ ResendSave(h)
    BY <2>4 DEF CancelSave, ResendSave, TypeOK
  <2>5. ~(\/ AcceptCheck(h) \/ AcceptSheet(h) \/ AcceptClose(h)
          \/ CancelSheet(h) \/ RollbackReply(h))
    BY DEF AcceptCheck, AcceptSheet, AcceptClose, CancelSheet, RollbackReply
  <2> QED BY <1>1, <2>1, <2>2, <2>3, <2>4, <2>5 DEF HandlerStep
<1>2. ASSUME NEW p \in Offers, OfferStep(p)
      PROVE  FALSE
  BY <1>2 DEF OfferStep, Create, Destroy, SheetConfirm, SheetDecline, SheetSubmit,
     SheetStep, Task, SkipOffer, SendOffer, DeferOffer, RejectOffer, TypeOK
<1>3. ASSUME NEW h \in Handlers, NEW p \in Offers, Request(h, p)
      PROVE  FALSE
  BY <1>3 DEF Request, BeginAccept, BeginCancel, BeginResend, BeginSend, ReadReply
<1> QED BY <1>1, <1>2, <1>3 DEF Next, Tick, vars

\* Only a shift with a place left, or the later day of a recurring booking, is
\* booked (check_job_quota, is_recurring).
THEOREM SerialBooksByRule ==
  ASSUME OneHandler
  PROVE  Spec => BookedByRule
<1>1. ASSUME TypeOK, SerialInv, [Next]_vars, NEW o \in Offers,
             status[o] # "accepted", status'[o] = "accepted"
      PROVE  ~Filled(status, ShiftOf[o]) \/ IsRecurring(o)
  <2>1. PICK h \in Handlers : WillBook(h) /\ on[h] = o
    BY <1>1, BookingSteps
  <2>2. Informed(h)
    BY <1>1 DEF SerialInv
  <2>3. plan[h] = "book"
    BY <1>1, <2>1, <2>2 DEF WillBook, Informed
  <2> QED BY <2>1, <2>2, <2>3 DEF WillBook, Informed
<1>2. TypeOK /\ SerialInv /\ [Next]_vars
        => \A o \in Offers :
             status[o] # "accepted" /\ status'[o] = "accepted"
               => ~Filled(status, ShiftOf[o]) \/ IsRecurring(o)
  BY <1>1
<1> QED BY <1>2, TypeCorrect, SerialInvariant, PTL DEF Spec, BookedByRule

\* A candidate who loses a place is on the carrier list.
LEMMA ReleaseSteps ==
  ASSUME OneHandler, TypeOK, SerialInv, [Next]_vars, NEW o \in Offers,
         status[o] = "accepted", status'[o] \notin {"accepted", "deleted"}
  PROVE  o \in carrier'
<1>1. ASSUME NEW h \in Handlers, HandlerStep(h)
      PROVE  o \in carrier'
  <2>1. pc[h] # "idle"
    BY <1>1 DEF HandlerStep, AcceptCheck, AcceptRefuse, AcceptSave, AcceptSheet,
       AcceptClose, AcceptSweep, CancelSave, CancelSheet, ResendSave, CommitReply,
       RollbackReply
  <2>2. on[h] \in Offers /\ Informed(h)
    BY <2>1, BusyRow
  <2>3. CASE AcceptSave(h)
    BY <2>2, <2>3 DEF AcceptSave, Informed, TypeOK
  <2>4. CASE CommitReply(h)
    <3>1. CASE CommitBook(h)
      BY <2>2, <3>1, BookedStatus
    <3>2. CASE CommitRefuse(h)
      <4>1. status[on[h]] # "accepted"
        BY <2>2, <2>4, <3>2 DEF CommitReply, CommitRefuse, Informed
      <4> QED BY <2>2, <3>2, <4>1, RefusedStatus
    <3>3. CASE CommitCancel(h)
      BY <2>2, <3>3 DEF CommitCancel, TypeOK
    <3> QED BY <2>4, <3>1, <3>2, <3>3 DEF CommitReply
  <2>5. CASE AcceptRefuse(h) \/ AcceptSweep(h)
    BY <2>5, SweptKeepsAccepted DEF AcceptRefuse, AcceptSweep, TypeOK
  <2>6. CASE CancelSave(h)
    BY <2>2, <2>6 DEF CancelSave, TypeOK
  <2>7. CASE ResendSave(h)
    BY <2>2, <2>7 DEF ResendSave, Informed, TypeOK
  <2>8. ~(\/ AcceptCheck(h) \/ AcceptSheet(h) \/ AcceptClose(h)
          \/ CancelSheet(h) \/ RollbackReply(h))
    BY DEF AcceptCheck, AcceptSheet, AcceptClose, CancelSheet, RollbackReply
  <2> QED BY <1>1, <2>3, <2>4, <2>5, <2>6, <2>7, <2>8 DEF HandlerStep
<1>2. ASSUME NEW p \in Offers, OfferStep(p)
      PROVE  FALSE
  BY <1>2 DEF OfferStep, Create, Destroy, SheetConfirm, SheetDecline, SheetSubmit,
     SheetStep, Task, SkipOffer, SendOffer, DeferOffer, RejectOffer, TypeOK
<1>3. ASSUME NEW h \in Handlers, NEW p \in Offers, Request(h, p)
      PROVE  FALSE
  BY <1>3 DEF Request, BeginAccept, BeginCancel, BeginResend, BeginSend, ReadReply
<1> QED BY <1>1, <1>2, <1>3 DEF Next, Tick, vars

\* No other request ever takes a place away unseen: an offer that is no longer
\* accepted was removed, or its candidate is available again (save, cancel).
THEOREM SerialReleases ==
  ASSUME OneHandler
  PROVE  Spec => ReleasedToCarrier
<1>1. TypeOK /\ SerialInv /\ [Next]_vars
        => \A o \in Offers :
             status[o] = "accepted" /\ status'[o] \notin {"accepted", "deleted"}
               => o \in carrier'
  BY ReleaseSteps
<1> QED BY <1>1, TypeCorrect, SerialInvariant, PTL DEF Spec, ReleasedToCarrier

\* A sweep of shift s rejects offers of s that have no place.
LEMMA RejectedPlace ==
  ASSUME NEW st, NEW sh, NEW s, NEW o \in Rejected(st, sh, s)
  PROVE  o \in Offers /\ ShiftOf[o] = s /\ st[o] # "accepted"
BY DEF Rejected, Sweepable, OffersOf

\* The steps that queue rejections.
LEMMA RejectionSteps ==
  ASSUME OneHandler, TypeOK, SerialInv, [Next]_vars,
         NEW o \in rejections' \ rejections
  PROVE  status'[o] # "accepted" /\ Filled(status', ShiftOf[o])
<1>1. ASSUME NEW h \in Handlers, AcceptRefuse(h) \/ AcceptSweep(h)
      PROVE  status'[o] # "accepted" /\ Filled(status', ShiftOf[o])
  <2>1. on[h] \in Offers /\ Informed(h)
    BY <1>1, BusyRow DEF AcceptRefuse, AcceptSweep
  <2>2. \A p \in Offers : status'[p] = "accepted" <=> status[p] = "accepted"
    BY <1>1, SweptKeepsAccepted DEF AcceptRefuse, AcceptSweep, TypeOK
  <2>3. Filled(status, ShiftOf[on[h]])
        /\ (AcceptRefuse(h) => status[on[h]] # "accepted")
    BY <1>1, <2>1 DEF AcceptRefuse, AcceptSweep, Informed
  <2>4. \/ o \in Rejected(status, sheet, ShiftOf[on[h]])
        \/ o = on[h] /\ AcceptRefuse(h)
    BY <1>1 DEF AcceptRefuse, AcceptSweep
  <2>5. /\ o \in Offers /\ ShiftOf[o] = ShiftOf[on[h]]
        /\ status[o] # "accepted"
    BY <2>1, <2>3, <2>4, RejectedPlace
  <2>6. Filled(status', ShiftOf[o]) <=> Filled(status, ShiftOf[o])
    BY <2>2, SameQuota
  <2> QED BY <2>2, <2>3, <2>5, <2>6
<1>2. ASSUME NEW h \in Handlers, CommitReply(h), CommitBook(h)
      PROVE  status'[o] # "accepted" /\ Filled(status', ShiftOf[o])
  <2> DEFINE q == on[h]
             booked == [status EXCEPT ![q] = "accepted"]
  <2>1. q \in Offers
    BY <1>2, BusyRow DEF CommitReply
  <2>2. PICK sh : /\ Filled(booked, ShiftOf[q])
                  /\ status' = Swept(booked, sh, ShiftOf[q])
                  /\ o \in Rejected(booked, sh, ShiftOf[q])
    BY <1>2 DEF CommitBook
  <2>3. booked \in [Offers -> Statuses]
    BY DEF TypeOK, Statuses
  <2> HIDE DEF booked
  <2>4. o \in Offers /\ ShiftOf[o] = ShiftOf[q] /\ booked[o] # "accepted"
    BY <2>2, RejectedPlace
  <2>5. \A p \in Offers : status'[p] = "accepted" <=> booked[p] = "accepted"
    BY <2>2, <2>3, SweptKeepsAccepted
  <2>6. Accepted(status', ShiftOf[q]) = Accepted(booked, ShiftOf[q])
    BY <2>5 DEF Accepted, OffersOf
  <2> QED BY <2>2, <2>4, <2>5, <2>6 DEF Filled
<1>3. ASSUME NEW h \in Handlers, CommitReply(h), CommitRefuse(h)
      PROVE  status'[o] # "accepted" /\ Filled(status', ShiftOf[o])
  <2> DEFINE q == on[h]
  <2>1. q \in Offers /\ status[q] # "accepted" /\ Filled(status, ShiftOf[q])
    BY <1>3, BusyRow DEF CommitReply, CommitRefuse, Informed
  <2>2. o \in Rejected(status, sheet, ShiftOf[q]) \/ o = q
    BY <1>3 DEF CommitRefuse
  <2>3. o \in Offers /\ ShiftOf[o] = ShiftOf[q] /\ status[o] # "accepted"
    BY <2>1, <2>2, RejectedPlace
  <2>4. \A p \in Offers : status'[p] = "accepted" <=> status[p] = "accepted"
    BY <1>3, <2>1, RefusedStatus
  <2>5. Filled(status', ShiftOf[o]) <=> Filled(status, ShiftOf[o])
    BY <2>4, SameQuota
  <2> QED BY <2>1, <2>3, <2>4, <2>5
<1>4. ASSUME NEW h \in Handlers, HandlerStep(h)
      PROVE  status'[o] # "accepted" /\ Filled(status', ShiftOf[o])
  <2>1. ~(\/ AcceptCheck(h) \/ AcceptSave(h) \/ AcceptSheet(h) \/ AcceptClose(h)
          \/ CancelSave(h) \/ CancelSheet(h) \/ ResendSave(h) \/ RollbackReply(h))
    BY DEF AcceptCheck, AcceptSave, AcceptSheet, AcceptClose, CancelSave,
           CancelSheet, ResendSave, RollbackReply
  <2>2. CASE CommitReply(h)
    <3>1. ~CommitCancel(h)
      BY DEF CommitCancel
    <3> QED BY <1>2, <1>3, <2>2, <3>1 DEF CommitReply
  <2> QED BY <1>1, <1>4, <2>1, <2>2 DEF HandlerStep
<1>5. ASSUME NEW p \in Offers, OfferStep(p)
      PROVE  FALSE
  BY <1>5 DEF OfferStep, Create, Destroy, SheetConfirm, SheetDecline, SheetSubmit,
     SheetStep, Task, SkipOffer, SendOffer, DeferOffer, TakeTask, RejectOffer
<1>6. ASSUME NEW h \in Handlers, NEW p \in Offers, Request(h, p)
      PROVE  FALSE
  BY <1>6 DEF Request, BeginAccept, BeginCancel, BeginResend, BeginSend, ReadReply
<1> QED BY <1>4, <1>5, <1>6 DEF Next, Tick, vars

\* A rejection is queued only for an offer without a place on a shift that has
\* all its workers (_cancel_for_filled_quota, check_job_quota).
THEOREM SerialRejects ==
  ASSUME OneHandler
  PROVE  Spec => RejectedOnlyWhenFull
<1>1. TypeOK /\ SerialInv /\ [Next]_vars
        => \A o \in rejections' \ rejections :
             /\ status'[o] # "accepted"
             /\ Filled(status', ShiftOf[o])
  BY RejectionSteps
<1> QED BY <1>1, TypeCorrect, SerialInvariant, PTL DEF Spec, RejectedOnlyWhenFull
=============================================================================
