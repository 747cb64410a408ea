----------------------------- MODULE JobOffers -----------------------------
(***************************************************************************)
(* The job offers of one Job (hr/models.py JobOffer, hr/tasks.py,          *)
(* hr/api/viewsets.py JobOfferViewset): candidates are offered places on   *)
(* the job's shifts, answer through the API or by SMS, and each accepted   *)
(* offer gets a time sheet.                                                *)
(*                                                                         *)
(* Requests run in worker processes (Handlers).  No handler of the API     *)
(* opens a transaction, so every ORM statement commits by itself and the   *)
(* steps of two requests interleave; a step below is a read of a handler   *)
(* or one of its commits.  An SMS reply is processed in one transaction    *)
(* (BaseSMSService._process_sms): its reads are one step, its commit       *)
(* another.  The Celery task that sends an offer locks the row of the      *)
(* offer (select_for_update) and is one step.                              *)
(*                                                                         *)
(* Time is counted in ticks: tick Start[s]-1 is the last hour before the   *)
(* shift, tick Start[s] the rest of its day, and shifts with different     *)
(* Start are on different days.                                            *)
(***************************************************************************)
EXTENDS Integers, FiniteSets

CONSTANTS
  Offers,         \* the JobOffer rows that may be created
  Shifts, Candidates,
  ShiftOf,        \* JobOffer.shift
  CandidateOf,    \* JobOffer.candidate_contact
  Start,          \* the tick at which a shift starts
  Workers,        \* Shift.workers
  Handlers,       \* the processes that run requests and SMS replies
  PreShift,       \* company_settings.pre_shift_sms_enabled
  SmsCandidates,  \* the candidates the SMS service can reach
  NoOffer,
  MaxTime,        \* bound on the clock
  MaxQueue        \* bound on the queued send tasks of one offer

ASSUME JobOffersAssumption ==
  /\ IsFiniteSet(Offers) /\ IsFiniteSet(Handlers) /\ Handlers # {}
  /\ ShiftOf \in [Offers -> Shifts]
  /\ CandidateOf \in [Offers -> Candidates]
  /\ Start \in [Shifts -> Nat]
  /\ Workers \in [Shifts -> Nat \ {0}]
  /\ PreShift \in BOOLEAN
  /\ NoOffer \notin Offers
  /\ MaxTime \in Nat /\ MaxQueue \in Nat

VARIABLES
  status,      \* JobOffer.status of each row
  sheet,       \* the TimeSheet of each offer
  sent,        \* offers with a JobOfferSMS that was sent
  unreplied,   \* offers with a JobOfferSMS that has no reply yet
  queue,       \* queued send_jo_confirmation tasks of each offer
  rejections,  \* offers with a queued send_placement_rejection task
  carrier,     \* offers that put their candidate on the carrier list
  now,
  pc, on, plan \* what each handler does next, to which offer, with what aim

vars == <<status, sheet, sent, unreplied, queue, rejections, carrier,
          now, pc, on, plan>>

messaging == <<sent, unreplied, queue>>

\* "absent": not created yet; "deleted": the row was removed.
Statuses == {"absent", "undefined", "accepted", "cancelled", "deleted"}

\* going_to_work_confirmation None, True or False, or "worked": hours were
\* submitted or filled in, which rewrites shift_started_at.
Sheets == {"none", "unset", "going", "declined", "worked"}

Pcs == {"idle", "check", "refuse", "save", "sheet", "close", "sweep",
        "cancel", "unbook", "resend", "commit"}

Plans == {"none", "book", "keep", "refuse", "cancel", "cancel_booked",
          "reopen", "stay_cancelled"}

\* A busy handler works on an offer.
ControlOK ==
  /\ pc \in [Handlers -> Pcs]
  /\ on \in [Handlers -> Offers \cup {NoOffer}]
  /\ plan \in [Handlers -> Plans]
  /\ \A h \in Handlers : pc[h] # "idle" => on[h] \in Offers

\* The fields of the rows and the state of the processes have their values.
TypeOK ==
  /\ status \in [Offers -> Statuses]
  /\ sheet \in [Offers -> Sheets]
  /\ sent \subseteq Offers /\ unreplied \subseteq Offers
  /\ queue \in [Offers -> Nat]
  /\ rejections \subseteq Offers
  /\ carrier \subseteq Offers
  /\ now \in Nat
  /\ ControlOK

-----------------------------------------------------------------------------
(* Reads *)

OffersOf(s) == {o \in Offers : ShiftOf[o] = s}

StartOf(o) == Start[ShiftOf[o]]

Accepted(st, s) == {o \in OffersOf(s) : st[o] = "accepted"}

\* Mutant of Filled: the comparison is strict.
FilledStrict(st, s) == Cardinality(Accepted(st, s)) > Workers[s]

\* JobOffer.is_quota_filled
Filled(st, s) == Cardinality(Accepted(st, s)) >= Workers[s]

\* The other offers of the candidate on the job for earlier days.
EarlierOffers(o) ==
  {p \in Offers : CandidateOf[p] = CandidateOf[o] /\ StartOf(p) < StartOf(o)}

\* JobOffer.is_recurring
IsRecurring(o) == \E p \in EarlierOffers(o) : status[p] = "accepted"

\* Mutant of Decision: the quota is not looked at.
DecisionUnchecked(o) == IF status[o] = "accepted" THEN "keep" ELSE "book"

\* JobOffer.check_job_quota, as save() calls it for an offer set to accepted:
\* an offer already accepted in the database is saved as it is, a recurring
\* one is accepted without looking at the quota.
Decision(o) ==
  IF status[o] = "accepted" THEN "keep"
  ELSE IF IsRecurring(o) \/ ~Filled(status, ShiftOf[o]) THEN "book"
  ELSE "refuse"

\* Mutant of Sweepable: accepted offers are not excluded.
SweepableAll(st, sh, s) ==
  {o \in OffersOf(s) : /\ st[o] \in {"undefined", "accepted", "cancelled"}
                       /\ o \notin sent \/ sh[o] = "none"}

\* JobOffer._cancel_for_filled_quota: the offers of the shift it cancels ...
Sweepable(st, sh, s) ==
  {o \in OffersOf(s) : /\ st[o] \in {"undefined", "cancelled"}
                       /\ o \notin sent \/ sh[o] = "none"}

Swept(st, sh, s) ==
  [o \in Offers |-> IF o \in Sweepable(st, sh, s) THEN "cancelled" ELSE st[o]]

\* ... and those it sends a rejection for.
Rejected(st, sh, s) ==
  IF now < Start[s] THEN Sweepable(st, sh, s) \cap sent ELSE {}

\* TimeSheet.get_or_create_for_job_offer_accepted and the TimeSheet.save it
\* calls: the time sheets an accepted offer may end up with.  A sheet whose
\* confirmation differs is reset; one with another shift_started_at violates
\* the unique job_offer, and "fail" stands for the IntegrityError.
NewSheets(o) ==
  CASE sheet[o] = "none" ->
         IF ~PreShift THEN {"going"}
         ELSE IF now = StartOf(o) - 1 THEN {"unset", "going"} ELSE {"unset"}
    [] sheet[o] = "worked" -> {"worked", "fail"}
    [] OTHER -> IF PreShift THEN {"unset"} ELSE {"going"}

\* Mutant of Unbooked: the two sides of the last hour are swapped.
UnbookedSwapped(o) ==
  IF sheet[o] \notin {"unset", "going", "declined"} \/ now >= StartOf(o)
  THEN sheet[o]
  ELSE IF now < StartOf(o) - 1 THEN sheet[o] ELSE "none"

\* The end of JobOffer.cancel: a sheet of a shift that has not started is
\* deleted, or filled with four hours when the shift is about to start.
Unbooked(o) ==
  IF sheet[o] \notin {"unset", "going", "declined"} \/ now >= StartOf(o)
  THEN sheet[o]
  ELSE IF PreShift \/ now < StartOf(o) - 1 THEN "none"
  ELSE IF sheet[o] = "going" THEN "worked" ELSE sheet[o]

-----------------------------------------------------------------------------
(* Handlers *)

SomeIdle == \E h \in Handlers : pc[h] = "idle"

Begin(h, o, step, aim) ==
  /\ pc[h] = "idle"
  /\ pc' = [pc EXCEPT ![h] = step]
  /\ on' = [on EXCEPT ![h] = o]
  /\ plan' = [plan EXCEPT ![h] = aim]

Goto(h, step) ==
  /\ pc' = [pc EXCEPT ![h] = step]
  /\ UNCHANGED <<on, plan>>

Finish(h) ==
  /\ pc' = [pc EXCEPT ![h] = "idle"]
  /\ on' = [on EXCEPT ![h] = NoOffer]
  /\ plan' = [plan EXCEPT ![h] = "none"]

Rows == {o \in Offers : status[o] \notin {"absent", "deleted"}}

Init ==
  /\ status = [o \in Offers |-> "absent"]
  /\ sheet = [o \in Offers |-> "none"]
  /\ sent = {} /\ unreplied = {} /\ rejections = {} /\ carrier = {}
  /\ queue = [o \in Offers |-> 0]
  /\ now = 0
  /\ pc = [h \in Handlers |-> "idle"]
  /\ on = [h \in Handlers |-> NoOffer]
  /\ plan = [h \in Handlers |-> "none"]

\* JobViewset.fillin_post and _extend_shift_date: JobOffer.objects.create.
\* save() queues the offer's message unless the shift began two hours ago.
Create(o) ==
  /\ SomeIdle
  /\ status[o] = "absent"
  /\ status' = [status EXCEPT ![o] = "undefined"]
  /\ \E n \in (IF now < StartOf(o) THEN {1}
               ELSE IF now = StartOf(o) THEN {0, 1} ELSE {0}) :
       queue' = [queue EXCEPT ![o] = n]
  /\ UNCHANGED <<sheet, sent, unreplied, rejections, carrier, now,
                 pc, on, plan>>

-----------------------------------------------------------------------------
(* JobOffer.accept called by the API *)

BeginAccept(h, o) ==
  /\ o \in Rows
  /\ Begin(h, o, "check", "none")
  /\ UNCHANGED <<status, sheet, messaging, rejections, carrier, now>>

\* save(): the reads before the row is written.
AcceptCheck(h) ==
  LET o == on[h] IN
  /\ pc[h] = "check"
  /\ IF status[o] = "deleted"
     THEN Finish(h)
     ELSE /\ plan' = [plan EXCEPT ![h] = Decision(o)]
          /\ pc' = [pc EXCEPT ![h] =
                      IF Decision(o) = "refuse" THEN "refuse" ELSE "save"]
          /\ UNCHANGED on
  /\ UNCHANGED <<status, sheet, messaging, rejections, carrier, now>>

\* check_job_quota finds the shift full.
AcceptRefuse(h) ==
  LET o == on[h]  s == ShiftOf[o] IN
  /\ pc[h] = "refuse"
  /\ status' = Swept(status, sheet, s)
  /\ carrier' = carrier \cup {o}
  /\ rejections' = rejections \cup Rejected(status, sheet, s)
                     \cup (IF now < StartOf(o) THEN {o} ELSE {})
  /\ Goto(h, "save")
  /\ UNCHANGED <<sheet, messaging, now>>

\* Mutants of AcceptSave: no time sheet is made, or none for later days.
AcceptSaveOnly(h) ==
  LET o == on[h] IN
  /\ pc[h] = "save"
  /\ status' = [status EXCEPT ![o] =
                  IF plan[h] = "refuse" THEN "cancelled" ELSE "accepted"]
  /\ Goto(h, "close")
  /\ UNCHANGED <<sheet, messaging, rejections, carrier, now>>

AcceptSaveFirst(h) ==
  LET o == on[h] IN
  /\ pc[h] = "save"
  /\ status' = [status EXCEPT ![o] =
                  IF plan[h] = "refuse" THEN "cancelled" ELSE "accepted"]
  /\ Goto(h, IF plan[h] = "book" /\ ~IsRecurring(o) THEN "sheet" ELSE "close")
  /\ UNCHANGED <<sheet, messaging, rejections, carrier, now>>

\* super().save(): an UPDATE of the row, or an INSERT when it is gone.
AcceptSave(h) ==
  LET o == on[h] IN
  /\ pc[h] = "save"
  /\ status' = [status EXCEPT ![o] =
                  IF plan[h] = "refuse" THEN "cancelled" ELSE "accepted"]
  /\ Goto(h, IF plan[h] = "book" THEN "sheet" ELSE "close")
  /\ UNCHANGED <<sheet, messaging, rejections, carrier, now>>

AcceptSheet(h) ==
  LET o == on[h] IN
  /\ pc[h] = "sheet"
  /\ \E new \in (IF status[o] = "deleted" THEN {"fail"} ELSE NewSheets(o)) :
       IF new = "fail"
       THEN /\ Finish(h)
            /\ UNCHANGED sheet
       ELSE /\ sheet' = [sheet EXCEPT ![o] = new]
            /\ Goto(h, "close")
  /\ UNCHANGED <<status, messaging, rejections, carrier, now>>

\* accept() reads the quota once more ...
AcceptClose(h) ==
  /\ pc[h] = "close"
  /\ IF Filled(status, ShiftOf[on[h]]) THEN Goto(h, "sweep") ELSE Finish(h)
  /\ UNCHANGED <<status, sheet, messaging, rejections, carrier, now>>

\* ... and closes the shift: an offer is not rejected by its own acceptance.
AcceptSweep(h) ==
  LET s == ShiftOf[on[h]] IN
  /\ pc[h] = "sweep"
  /\ status' = Swept(status, sheet, s)
  /\ rejections' = rejections \cup (Rejected(status, sheet, s) \ {on[h]})
  /\ Finish(h)
  /\ UNCHANGED <<sheet, messaging, carrier, now>>

-----------------------------------------------------------------------------
(* JobOffer.cancel called by the API *)

BeginCancel(h, o) ==
  /\ o \in Rows
  /\ Begin(h, o, "cancel",
           IF status[o] = "accepted" THEN "cancel_booked" ELSE "cancel")
  /\ UNCHANGED <<status, sheet, messaging, rejections, carrier, now>>

\* Mutant of CancelSave: the candidate is not put on the carrier list.
CancelSaveOnly(h) ==
  /\ pc[h] = "cancel"
  /\ IF status[on[h]] = "deleted"
     THEN Finish(h) /\ UNCHANGED status
     ELSE status' = [status EXCEPT ![on[h]] = "cancelled"] /\ Goto(h, "unbook")
  /\ UNCHANGED <<sheet, messaging, rejections, carrier, now>>

CancelSave(h) ==
  LET o == on[h] IN
  /\ pc[h] = "cancel"
  /\ IF status[o] = "deleted"
     THEN /\ Finish(h)
          /\ UNCHANGED <<status, carrier>>
     ELSE /\ status' = [status EXCEPT ![o] = "cancelled"]
          /\ carrier' = IF plan[h] = "cancel_booked" \/ status[o] = "accepted"
                        THEN carrier \cup {o} ELSE carrier
          /\ Goto(h, "unbook")
  /\ UNCHANGED <<sheet, messaging, rejections, now>>

CancelSheet(h) ==
  LET o == on[h] IN
  /\ pc[h] = "unbook"
  /\ sheet' = [sheet EXCEPT ![o] = Unbooked(o)]
  /\ Finish(h)
  /\ UNCHANGED <<status, messaging, rejections, carrier, now>>

-----------------------------------------------------------------------------
(* JobOfferViewset.resend and send *)

\* is_available_for_resend; a cancelled offer without an unanswered SMS is
\* saved as it is and reopened only by the send task.
BeginResend(h, o) ==
  /\ o \in Rows /\ o \in sent
  /\ status[o] = "cancelled" \/ (o \in unreplied /\ status[o] # "accepted")
  /\ ~Filled(status, ShiftOf[o])
  /\ now <= StartOf(o)
  /\ Begin(h, o, "resend",
           IF status[o] = "cancelled" /\ o \notin unreplied
           THEN "stay_cancelled" ELSE "reopen")
  /\ UNCHANGED <<status, sheet, messaging, rejections, carrier, now>>

\* is_available_for_send
BeginSend(h, o) ==
  /\ o \in Rows /\ o \notin sent
  /\ status[o] # "accepted"
  /\ ~Filled(status, ShiftOf[o])
  /\ now <= StartOf(o)
  /\ Begin(h, o, "resend", "reopen")
  /\ UNCHANGED <<status, sheet, messaging, rejections, carrier, now>>

\* save(initial=True): the status read by the request is written back and a
\* send task is queued.
ResendSave(h) ==
  LET o == on[h] IN
  /\ pc[h] = "resend"
  /\ queue[o] < MaxQueue
  /\ status' = [status EXCEPT ![o] =
                  IF plan[h] = "reopen" THEN "undefined" ELSE "cancelled"]
  /\ queue' = [queue EXCEPT ![o] = @ + 1]
  /\ Finish(h)
  /\ UNCHANGED <<sheet, sent, unreplied, rejections, carrier, now>>

-----------------------------------------------------------------------------
(* JobOffer.process_sms_reply inside the transaction of _process_sms *)

ReadReply(h, o, positive) ==
  /\ status[o] = "undefined" /\ o \in unreplied
  /\ Begin(h, o, "commit", IF positive THEN Decision(o) ELSE "cancel")
  /\ UNCHANGED <<status, sheet, messaging, rejections, carrier, now>>

\* The reply answers one of the unanswered messages; others may remain.
MarkReplied(o) == unreplied' \in {unreplied, unreplied \ {o}}

CommitBook(h) ==
  LET o == on[h]  s == ShiftOf[o]
      booked == [status EXCEPT ![o] = "accepted"] IN
  /\ plan[h] = "book"
  /\ \E new \in NewSheets(o) \ {"fail"} :
       LET sheets == [sheet EXCEPT ![o] = new] IN
       /\ sheet' = sheets
       /\ IF Filled(booked, s)
          THEN /\ status' = Swept(booked, sheets, s)
               /\ rejections' = rejections
                                  \cup (Rejected(booked, sheets, s) \ {o})
          ELSE status' = booked /\ UNCHANGED rejections
  /\ UNCHANGED carrier

CommitRefuse(h) ==
  LET o == on[h]  s == ShiftOf[o] IN
  /\ plan[h] = "refuse"
  /\ status' = [Swept(status, sheet, s) EXCEPT ![o] = "cancelled"]
  /\ carrier' = carrier \cup {o}
  /\ rejections' = rejections \cup Rejected(status, sheet, s)
                     \cup (IF now < StartOf(o) THEN {o} ELSE {})
  /\ UNCHANGED sheet

CommitCancel(h) ==
  LET o == on[h] IN
  /\ plan[h] = "cancel"
  /\ status' = [status EXCEPT ![o] = "cancelled"]
  /\ carrier' = IF status[o] = "accepted" THEN carrier \cup {o} ELSE carrier
  /\ sheet' = [sheet EXCEPT ![o] = Unbooked(o)]
  /\ UNCHANGED rejections

CommitReply(h) ==
  /\ pc[h] = "commit"
  /\ status[on[h]] # "deleted"
  /\ CommitBook(h) \/ CommitRefuse(h) \/ CommitCancel(h)
  /\ MarkReplied(on[h])
  /\ Finish(h)
  /\ UNCHANGED <<sent, queue, now>>

\* The row is gone, or the time sheet cannot be made: everything is undone.
RollbackReply(h) ==
  LET o == on[h] IN
  /\ pc[h] = "commit"
  /\ status[o] = "deleted" \/ (plan[h] = "book" /\ "fail" \in NewSheets(o))
  /\ Finish(h)
  /\ UNCHANGED <<status, sheet, messaging, rejections, carrier, now>>

-----------------------------------------------------------------------------
(* The other requests on an offer and its time sheet *)

\* JobOfferViewset.perform_destroy
Destroy(o) ==
  /\ SomeIdle
  /\ o \in Rows
  /\ status' = [status EXCEPT ![o] = "deleted"]
  /\ sheet' = [sheet EXCEPT ![o] = "none"]
  /\ sent' = sent \ {o} /\ unreplied' = unreplied \ {o}
  /\ carrier' = carrier \ {o}
  /\ UNCHANGED <<queue, rejections, now, pc, on, plan>>

SheetStep(o, from, to) ==
  /\ SomeIdle
  /\ sheet[o] \in from
  /\ sheet' = [sheet EXCEPT ![o] = to]
  /\ UNCHANGED <<status, messaging, rejections, carrier, now, pc, on, plan>>

\* TimeSheetViewset.confirm, decline and the submission of hours
SheetConfirm(o) == SheetStep(o, {"unset", "declined"}, "going")
SheetDecline(o) == SheetStep(o, {"unset", "going"}, "declined")
SheetSubmit(o) ==
  /\ now >= StartOf(o)
  /\ SheetStep(o, {"unset", "going", "declined"}, "worked")

-----------------------------------------------------------------------------
(* Celery tasks *)

\* Mutant of TakeTask: a task is delivered again after it ended.
TakeTaskAgain(o) ==
  /\ queue' = [queue EXCEPT ![o] = @ - 1]
  /\ UNCHANGED <<sheet, rejections, carrier, now, pc, on, plan>>

TakeTask(o) ==
  /\ queue[o] > 0
  /\ queue' = [queue EXCEPT ![o] = @ - 1]
  /\ UNCHANGED <<sheet, rejections, carrier, now, pc, on, plan>>

\* Mutant of SkipOffer: a cancelled offer is taken for a closed one.
SkipOfferClosed(o) ==
  /\ TakeTask(o)
  /\ status[o] \in {"accepted", "cancelled", "deleted"}
  /\ UNCHANGED <<status, sent, unreplied>>

\* send_or_schedule_job_offer finds the offer accepted or gone.
SkipOffer(o) ==
  /\ TakeTask(o)
  /\ status[o] \in {"accepted", "deleted"}
  /\ UNCHANGED <<status, sent, unreplied>>

\* It reopens a cancelled offer and sends it.
SendOffer(o) ==
  /\ TakeTask(o)
  /\ status[o] \in {"undefined", "cancelled"}
  /\ status' = [status EXCEPT ![o] = "undefined"]
  /\ LET out == IF CandidateOf[o] \in SmsCandidates THEN {o} ELSE {} IN
       sent' = sent \cup out /\ unreplied' = unreplied \cup out

\* It puts the message of a later day off: task.apply_async without the
\* master_company_id raises a TypeError, and the transaction is undone.
DeferOffer(o) ==
  /\ TakeTask(o)
  /\ status[o] \in {"undefined", "cancelled"}
  /\ now < StartOf(o) - 1
  /\ UNCHANGED <<status, sent, unreplied>>

\* send_placement_rejection calls send_job_offer without master_company_id:
\* a TypeError, so no candidate is told.
RejectOffer(o) ==
  /\ o \in rejections
  /\ rejections' = rejections \ {o}
  /\ UNCHANGED <<status, sheet, messaging, carrier, now, pc, on, plan>>

Tick ==
  /\ now < MaxTime
  /\ now' = now + 1
  /\ UNCHANGED <<status, sheet, messaging, rejections, carrier, pc, on, plan>>

-----------------------------------------------------------------------------

HandlerStep(h) ==
  \/ AcceptCheck(h) \/ AcceptRefuse(h) \/ AcceptSave(h) \/ AcceptSheet(h)
  \/ AcceptClose(h) \/ AcceptSweep(h)
  \/ CancelSave(h) \/ CancelSheet(h)
  \/ ResendSave(h)
  \/ CommitReply(h) \/ RollbackReply(h)

Request(h, o) ==
  \/ BeginAccept(h, o) \/ BeginCancel(h, o)
  \/ BeginResend(h, o) \/ BeginSend(h, o)
  \/ \E positive \in BOOLEAN : ReadReply(h, o, positive)

Task(o) == SkipOffer(o) \/ SendOffer(o) \/ DeferOffer(o)

OfferStep(o) ==
  \/ Create(o) \/ Destroy(o)
  \/ SheetConfirm(o) \/ SheetDecline(o) \/ SheetSubmit(o)
  \/ Task(o) \/ RejectOffer(o)

Next ==
  \/ \E h \in Handlers : HandlerStep(h)
  \/ \E h \in Handlers, o \in Offers : Request(h, o)
  \/ \E o \in Offers : OfferStep(o)
  \/ Tick

Spec == Init /\ [][Next]_vars

\* A worker finishes the request it runs, and the broker delivers each task.
Fairness ==
  /\ \A h \in Handlers : WF_vars(HandlerStep(h))
  /\ \A o \in Offers : WF_vars(Task(o)) /\ WF_vars(RejectOffer(o))

FairSpec == Spec /\ Fairness

-----------------------------------------------------------------------------
(* Properties of concurrent requests *)

\* The offers that the quota applies to for good: no earlier day of the job
\* is offered to the candidate.
Counted == {o \in Offers : EarlierOffers(o) = {}}

\* Handler h has found a place for its offer, or believes it accepted, and is
\* about to write it as accepted.
WillBook(h) ==
  \/ pc[h] = "save" /\ plan[h] # "refuse"
  \/ pc[h] = "commit" /\ plan[h] = "book"

\* The counted offers of shift s that are accepted or about to be.
Taken(s) ==
  {o \in OffersOf(s) \cap Counted :
     status[o] = "accepted" \/ \E h \in Handlers : WillBook(h) /\ on[h] = o}

Limit == [s \in Shifts |-> Workers[s] + Cardinality(Handlers) - 1]

\* A shift never has more accepted counted offers than the workers asked for
\* plus one for each other process: every accept checks the quota before it
\* writes, and at most one write per process rests on an outdated check
\* (JobOffer.save, check_job_quota).
OverbookingBounded ==
  \A s \in Shifts : Cardinality(Accepted(status, s) \cap Counted) <= Limit[s]

\* What makes it inductive: places found but not yet written count as taken,
\* and a handler about to close a full shift does not mean to accept.
QuotaInv ==
  /\ \A s \in Shifts : Cardinality(Taken(s)) <= Limit[s]
  /\ \A h \in Handlers : pc[h] = "refuse" => plan[h] = "refuse"

\* The accepted offers evolve as the roster: whatever the interleaving, a step
\* books or releases at most one offer, and books only under the limit.
R == INSTANCE Roster WITH booked <- {o \in Offers : status[o] = "accepted"}

ImplementsRoster == R!Spec

-----------------------------------------------------------------------------
(* Properties of requests processed one after the other *)

Quiet(o) == \A h \in Handlers : on[h] # o

\* No offer is accepted on a full shift unless its candidate
\* works an earlier day of the job (JobOffer.check_job_quota, is_recurring).
BookedByRule ==
  [][\A o \in Offers :
       status[o] # "accepted" /\ status'[o] = "accepted"
         => ~Filled(status, ShiftOf[o]) \/ IsRecurring(o)]_vars

\* An accepted offer that no request is working on has a time sheet
\* (get_or_create_for_job_offer_accepted): the candidate can be paid.
BookedHasSheet ==
  \A o \in Offers : status[o] = "accepted" /\ Quiet(o) => sheet[o] # "none"

\* Up to an hour before the shift, an offer that is not accepted has no time
\* sheet left from an earlier acceptance (JobOffer.cancel deletes it).
NoOrphanSheet ==
  \A o \in Offers :
    status[o] # "accepted" /\ Quiet(o) /\ now < StartOf(o) - 1
      => sheet[o] = "none"

\* A candidate who loses a place, the offer not being removed, is put on the
\* carrier list as available again (JobOffer.save and cancel).
ReleasedToCarrier ==
  [][\A o \in Offers :
       status[o] = "accepted" /\ status'[o] \notin {"accepted", "deleted"}
         => o \in carrier']_vars

\* A rejection is queued only for an offer that has no place, of a shift that
\* has all its workers (_cancel_for_filled_quota, check_job_quota).
RejectedOnlyWhenFull ==
  [][\A o \in rejections' \ rejections :
       /\ status'[o] # "accepted"
       /\ Filled(status', ShiftOf[o])]_vars

-----------------------------------------------------------------------------
(* Delivery *)

\* From the day of the shift on, the queued message of an offer is sent unless
\* the offer is accepted or removed first, whatever cancels it in between
\* (send_or_schedule_job_offer reopens a cancelled offer).
OfferDelivered ==
  \A o \in Offers :
    CandidateOf[o] \in SmsCandidates =>
      (queue[o] > 0 /\ now >= StartOf(o) - 1
         ~> o \in sent \/ status[o] \in {"accepted", "deleted"})

-----------------------------------------------------------------------------
(* What tests and comments of the repository say, and the code does not do *)

\* hr/tests/test_hr_models.py expects a full shift to refuse an acceptance:
\* no shift has more accepted counted offers than its workers.
NoOverbooking ==
  \A s \in Shifts : Cardinality(Accepted(status, s) \cap Counted) <= Workers[s]
=============================================================================
