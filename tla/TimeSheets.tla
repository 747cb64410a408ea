----------------------------- MODULE TimeSheets -----------------------------
(***************************************************************************)
(* One time sheet (hr/models.py TimeSheet, hr/api/viewsets.py, hr/tasks.py *)
(* and hr/utils/utils.py) from its creation to its approval: the candidate *)
(* confirms to work and submits hours, the supervisor approves or corrects *)
(* them, and tasks with a delay do it for who does not answer.             *)
(*                                                                         *)
(* Every handler reads the row and saves a copy of it, most of them every  *)
(* column.  Before it writes the row, save() creates the workflow states   *)
(* of hours, of approval and of both, and after it that of a confirmation; *)
(* each is tested, validated, makes way and is inserted in statements of   *)
(* their own.  Outside of a transaction each statement takes effect at     *)
(* once; inside, they take effect together when it commits.                *)
(***************************************************************************)
EXTENDS Workflow, FiniteSets

CONSTANTS
  Handlers,     \* the processes that serve requests and run tasks
  MaxRequests,  \* bound on the requests, replies and declines
  MaxFaults     \* bound on the handlers that are killed

ASSUME TimeSheetsAssumption == MaxRequests \in Nat /\ MaxFaults \in Nat

VARIABLES
  time,      \* before the check, before the shift, or after its start
  row, states,
  declines,  \* queued SUPERVISOR_DECLINED tasks
  confirms,  \* autoconfirm_rejected_timesheet tasks that wait
  approval,  \* whether auto_approve_timesheet waits
  proc,      \* what each handler is doing
  requests, faults,
  late,      \* the sheet was created too late for the check
  raced,     \* history: a copy was saved that was read before another change
  broken,    \* history: a handler was killed, or failed, between two statements
  doubled    \* history: states made way for one that was there by then

history == <<late, raced, broken, doubled>>
bounds == <<requests, faults>>
timers == <<declines, confirms, approval>>
vars == <<time, row, states, timers, proc, bounds, history>>

Times == {"early", "soon", "started"}
Statuses == {"new", "check_pending", "check_confirmed", "check_failed",
             "submit_pending", "approval_pending", "modified", "approved"}
Rows == [going : {"unknown", "yes", "no"}, submitted : BOOLEAN, approved : BOOLEAN,
         modified : BOOLEAN, status : Statuses]
Columns == {"all", "status", "submitted"}
Numbers == {10, 20, 30, 40, 70}
NewRow == [going |-> "unknown", submitted |-> FALSE, approved |-> FALSE,
           modified |-> FALSE, status |-> "new"]

\* A handler: its step, the state it is about, its transaction (none, one, or
\* one that has locked the row), the states that the transaction has activated
\* and deactivated, the row it read, the copy it saves, and which columns.
Procs == [at : {"idle", "test", "clean", "clear", "activate", "insert", "write", "commit"},
          n : Numbers, mode : {"auto", "tx", "locked"},
          on : SUBSET Numbers, off : SUBSET Numbers,
          read : Rows, copy : Rows, columns : Columns]
Idle == [at |-> "idle", n |-> 10, mode |-> "auto", on |-> {}, off |-> {},
         read |-> NewRow, copy |-> NewRow, columns |-> "all"]

\* The row, the states, the timers and the handlers have their values.
TypeOK ==
  /\ time \in Times /\ row \in Rows /\ states \in SUBSET Numbers
  /\ declines \in Nat /\ confirms \in Nat /\ approval \in BOOLEAN
  /\ proc \in [Handlers -> Procs]
  /\ requests \in 0..MaxRequests /\ faults \in 0..MaxFaults
  /\ late \in BOOLEAN /\ raced \in BOOLEAN /\ broken \in BOOLEAN /\ doubled \in BOOLEAN

\* TimeSheet.update_status: the status of copy c.
UpdatedStatus(c) ==
  IF c.approved THEN "approved"
  ELSE IF c.modified THEN "modified"
  ELSE IF c.submitted THEN "approval_pending"
  ELSE CASE c.going = "no" -> "check_failed"
         [] c.going = "yes" -> IF time = "started" THEN "submit_pending" ELSE "check_confirmed"
         [] c.going = "unknown" -> IF time # "early" THEN "check_pending" ELSE c.status
WithStatus(c) == [c EXCEPT !.status = UpdatedStatus(c)]

\* get_or_create_for_job_offer_accepted and TimeSheet.save of a new sheet, in
\* the transaction of get_or_create.  Where checks are disabled the sheet is
\* confirmed from the start, with state 20.  Where they are not, a sheet that is
\* in time for its check, or whose shift has started, is not confirmed; between
\* the two it is, but going_set was computed before, so that state 20 is not
\* created.
Init ==
  /\ time \in Times
  /\ \E checked \in BOOLEAN :
       /\ late = (checked /\ time = "soon")
       /\ row = WithStatus([NewRow EXCEPT !.going = IF checked /\ ~late THEN "unknown" ELSE "yes"])
       /\ LET first == Activated(TimeSheetGraph, {}, 10)
          IN states = IF checked THEN first ELSE Activated(TimeSheetGraph, first, 20)
  /\ declines = 0 /\ confirms = 0 /\ approval = FALSE
  /\ proc = [h \in Handlers |-> Idle]
  /\ requests = 0 /\ faults = 0
  /\ raced = FALSE /\ broken = FALSE /\ doubled = FALSE

-----------------------------------------------------------------------------
(* TimeSheet.save: the states *)

Goto(h, p) == proc' = [proc EXCEPT ![h] = p]

\* The active states that a handler sees: its own changes too.
View(p) == (states \ p.off) \cup p.on

\* What it does to them: at once, or in its transaction.
Deactivate(h, p, S, at) ==
  IF p.mode = "auto"
  THEN states' = states \ S /\ Goto(h, [p EXCEPT !.at = at])
  ELSE /\ UNCHANGED states
       /\ Goto(h, [p EXCEPT !.at = at, !.on = @ \ S, !.off = @ \cup S])

\* An answer that is new creates state 20.
Confirms(p) == p.copy.going = "yes" /\ p.read.going # "yes"

\* The states that a save tries, in this order: for hours, for an approval, for
\* both, and, after the row, for a confirmation.
First(c) == IF c.submitted THEN 30 ELSE IF c.approved THEN 40 ELSE 70

\* Mutant of Further: hours that are submitted count as approved.
FurtherUnapproved(p) ==
  CASE p.n = 30 -> [p EXCEPT !.at = "test", !.n = 40]
    [] p.n = 40 -> [p EXCEPT !.at = "test", !.n = 70]
    [] p.n = 70 /\ p.at # "write" -> [p EXCEPT !.at = "write"]
    [] p.n = 70 /\ p.at = "write" /\ Confirms(p) -> [p EXCEPT !.at = "test", !.n = 20]
    [] OTHER -> [p EXCEPT !.at = "commit"]

Further(p) ==
  CASE p.n = 30 -> [p EXCEPT !.at = "test", !.n = IF p.copy.approved THEN 40 ELSE 70]
    [] p.n = 40 -> [p EXCEPT !.at = "test", !.n = 70]
    [] p.n = 70 /\ p.at # "write" -> [p EXCEPT !.at = "write"]
    [] p.n = 70 /\ p.at = "write" /\ Confirms(p) -> [p EXCEPT !.at = "test", !.n = 20]
    [] OTHER -> [p EXCEPT !.at = "commit"]

\* Mutant of Permitted: the states that are required are not asked for.
PermittedAny(p) == p.n \notin View(p)

Permitted(p) == Allowed(TimeSheetGraph, View(p), p.n)

\* is_allowed: a state that is not is passed by.
Test(h) ==
  /\ proc[h].at = "test"
  /\ Goto(h, IF Permitted(proc[h]) THEN [proc[h] EXCEPT !.at = "clean"] ELSE Further(proc[h]))
  /\ UNCHANGED <<time, row, states, timers, bounds, history>>

\* WorkflowObject.clean asks again, and raises if it is not by then: what the
\* handler has done stays, and the row is not written; a transaction leaves
\* nothing.
Clean(h) ==
  LET p == proc[h] IN
  /\ p.at = "clean"
  /\ IF Permitted(p)
     THEN Goto(h, [p EXCEPT !.at = "clear"]) /\ UNCHANGED broken
     ELSE Goto(h, Idle) /\ broken' = (broken \/ p.mode = "auto")
  /\ UNCHANGED <<time, row, states, timers, bounds, late, raced, doubled>>

\* The states that do not stay beside the new one are deactivated twice: by
\* workflow(), and by active_true_workflow() after the hooks.
MakeWay(h, from, to) ==
  LET p == proc[h] IN
  /\ p.at = from
  /\ Deactivate(h, p, View(p) \ TimeSheetGraph[p.n].active, to)
  /\ doubled' = (doubled \/ p.n \in View(p))
  /\ UNCHANGED <<time, row, timers, bounds, late, raced, broken>>
Clear(h) == MakeWay(h, "clear", "activate")
Activate(h) == MakeWay(h, "activate", "insert")

\* The row of the new state.
Insert(h) ==
  LET p == proc[h] IN
  /\ p.at = "insert"
  /\ IF p.mode = "auto"
     THEN states' = states \cup {p.n} /\ Goto(h, Further(p))
     ELSE UNCHANGED states /\ Goto(h, Further([p EXCEPT !.on = @ \cup {p.n}]))
  /\ UNCHANGED <<time, row, timers, bounds, history>>

-----------------------------------------------------------------------------
(* TimeSheet.save: the row *)

\* A transaction that has updated the row, or selected it for that, holds it.
Unlocked(h) == \A k \in Handlers \ {h} : proc[k].mode # "locked"

\* The row as it is written: all the columns of the copy, or those named.
Written(p) ==
  CASE p.columns = "all" -> WithStatus(p.copy)
    [] p.columns = "status" -> [row EXCEPT !.status = UpdatedStatus(p.copy)]
    [] p.columns = "submitted" -> [row EXCEPT !.submitted = p.copy.submitted]

\* A save of a copy loses what was written since it was read.
Save(p) ==
  /\ row' = Written(p)
  /\ raced' = (raced \/ row # p.read)

\* The columns are written; in a transaction nobody sees them before it commits,
\* and a confirmation, which comes in one, is recorded first.
Write(h) ==
  LET p == proc[h] IN
  /\ p.at = "write" /\ Unlocked(h)
  /\ IF p.mode = "auto"
     THEN Save(p) /\ Goto(h, Idle)
     ELSE /\ UNCHANGED <<row, raced>>
          /\ Goto(h, [Further(p) EXCEPT !.mode = "locked"])
  /\ UNCHANGED <<time, states, timers, bounds, late, broken, doubled>>

\* The commit of a transaction; a decline has queued the task that submits the
\* hours again, whose delay is far longer than a save.
Declines(p) == p.columns = "submitted"
Commit(h) ==
  LET p == proc[h] IN
  /\ p.at = "commit"
  /\ Save(p) /\ states' = View(p)
  /\ confirms' = IF Declines(p) THEN confirms + 1 ELSE confirms
  /\ Goto(h, Idle)
  /\ UNCHANGED <<time, declines, approval, bounds, late, broken, doubled>>

-----------------------------------------------------------------------------
(* Requests *)

\* A handler reads the row and computes the copy that it saves.
Read(h, mode, c, columns) ==
  /\ proc[h].at = "idle"
  /\ Goto(h, [at |-> "test", n |-> First(c), mode |-> mode, on |-> {}, off |-> {},
              read |-> row, copy |-> c, columns |-> columns])
  /\ UNCHANGED <<row, states, time, history>>

Request == requests < MaxRequests /\ requests' = requests + 1 /\ UNCHANGED faults

\* Mutant of Answer: the columns are updated without save().
AnswerUpdated(h, going) ==
  /\ proc[h].at = "idle" /\ Unlocked(h) /\ Request
  /\ row' = WithStatus([row EXCEPT !.going = going])
  /\ UNCHANGED <<time, states, timers, proc, history>>

\* confirm and decline select the row for an update.
Answer(h, going) ==
  /\ Unlocked(h) /\ Request
  /\ Read(h, "locked", [row EXCEPT !.going = going], "all")
  /\ UNCHANGED timers

\* process_sms_reply: the answer to the check, read without a lock in the
\* transaction of the message, counts if there is none yet.
Reply(h, going) ==
  /\ row.going = "unknown" /\ Request
  /\ Read(h, "tx", [row EXCEPT !.going = going], "all")
  /\ UNCHANGED timers

\* Mutant of Submit: hours that are submitted again are to be approved again.
SubmitReopened(h) ==
  /\ Request
  /\ Read(h, "auto", [row EXCEPT !.submitted = TRUE, !.approved = FALSE], "all")
  /\ UNCHANGED timers

\* submit and candidate_fill, in no transaction, at any time.
Submit(h) ==
  /\ Request
  /\ Read(h, "auto", [row EXCEPT !.submitted = TRUE], "all")
  /\ UNCHANGED timers

\* approve, approve_by_pin and approve_by_signature, in a transaction; the last
\* two refuse a sheet that was approved when it was read.
Approve(h) ==
  /\ Request
  /\ Read(h, "tx", [row EXCEPT !.approved = TRUE], "all")
  /\ UNCHANGED timers

\* supervisor_approve, in no transaction; it may tell the candidate, with the
\* task that declines the sheet.
ApproveManually(h) ==
  /\ Request
  /\ Read(h, "auto", [row EXCEPT !.approved = TRUE], "all")
  /\ declines' \in {declines, declines + 1}
  /\ UNCHANGED <<confirms, approval>>

\* not_agree: the supervisor corrects the hours.  The automatic approval is
\* scheduled, in place of one that waits, if no sheet of the supervisor that
\* is confirmed ends today.
NotAgree(h) ==
  /\ Request
  /\ Read(h, "tx", [row EXCEPT !.approved = FALSE, !.modified = TRUE], "all")
  /\ approval' \in {approval, TRUE}
  /\ UNCHANGED <<declines, confirms>>

\* process_status and process_pending_status, whenever a sheet is shown: a
\* status that time has passed by is saved.
Show(h) ==
  /\ \/ row.status = "check_confirmed" /\ time = "started"
     \/ row.going = "unknown" /\ time # "early"
  /\ Request
  /\ Read(h, "auto", row, "status")
  /\ UNCHANGED timers

-----------------------------------------------------------------------------
(* Tasks and time *)

\* SUPERVISOR_DECLINED: the hours are no longer submitted.  The task fails, with
\* no effect, on a shift that ended on another day than today, since it looks for
\* the template of a late message that declines do not have.
Decline(h) ==
  /\ declines > 0 /\ declines' = declines - 1
  /\ \/ Read(h, "tx", [row EXCEPT !.submitted = FALSE], "submitted")
     \/ UNCHANGED <<proc, row, states, time, history>>
  /\ UNCHANGED <<confirms, approval, bounds>>

\* Mutant of AutoConfirm: it looks at the status.
AutoConfirmPending(h) ==
  /\ proc[h].at = "idle" /\ confirms > 0 /\ confirms' = confirms - 1
  /\ IF ~row.submitted /\ row.status = "approval_pending"
     THEN Read(h, "auto", [row EXCEPT !.submitted = TRUE], "submitted")
     ELSE UNCHANGED <<proc, row, states, time, history>>
  /\ UNCHANGED <<declines, approval, bounds>>

\* autoconfirm_rejected_timesheet: the hours are submitted again when the
\* candidate did not answer in time.
AutoConfirm(h) ==
  /\ proc[h].at = "idle" /\ confirms > 0 /\ confirms' = confirms - 1
  /\ IF ~row.submitted
     THEN Read(h, "auto", [row EXCEPT !.submitted = TRUE], "submitted")
     ELSE UNCHANGED <<proc, row, states, time, history>>
  /\ UNCHANGED <<declines, approval, bounds>>

Held == \E h \in Handlers : proc[h].mode = "locked"

\* Mutant of AutoApprove: the status is left to the next save.
AutoApproveOnly ==
  /\ approval /\ approval' = FALSE /\ ~Held
  /\ row' = IF row.status = "modified" THEN [row EXCEPT !.approved = TRUE] ELSE row
  /\ UNCHANGED <<time, states, declines, confirms, proc, bounds, history>>

\* auto_approve_timesheet: one UPDATE, which creates no state.
AutoApprove ==
  /\ approval /\ approval' = FALSE /\ ~Held
  /\ IF row.status = "modified"
     THEN row' = [row EXCEPT !.status = "approved", !.approved = TRUE]
     ELSE UNCHANGED row
  /\ UNCHANGED <<time, states, declines, confirms, proc, bounds, history>>

Tick ==
  /\ time' = CASE time = "early" -> "soon" [] time = "soon" -> "started"
                [] OTHER -> time
  /\ time # "started"
  /\ UNCHANGED <<row, states, timers, proc, bounds, history>>

\* A handler is killed between two statements; a transaction leaves nothing
\* behind, as if it had not begun, but the task that a decline may have queued.
Kill(h) ==
  LET p == proc[h] IN
  /\ p.at # "idle" /\ faults < MaxFaults
  /\ \/ p.mode = "auto" /\ UNCHANGED confirms
     \/ p.at = "commit" /\ Declines(p) /\ confirms' = confirms + 1
  /\ faults' = faults + 1 /\ broken' = TRUE
  /\ Goto(h, Idle)
  /\ UNCHANGED <<time, row, states, declines, approval, requests, late, raced, doubled>>

Step(h) ==
  \/ Test(h) \/ Clean(h) \/ Clear(h) \/ Activate(h) \/ Insert(h)
  \/ Write(h) \/ Commit(h)

Next ==
  \/ \E h \in Handlers :
       \/ Step(h)
       \/ \E going \in {"yes", "no"} : Answer(h, going) \/ Reply(h, going)
       \/ Submit(h) \/ Approve(h) \/ ApproveManually(h) \/ NotAgree(h) \/ Show(h)
       \/ Decline(h) \/ AutoConfirm(h) \/ Kill(h)
  \/ AutoApprove \/ Tick

\* A worker runs the task whose delay has passed, and handlers finish; nobody must
\* ask anything.
Spec ==
  /\ Init /\ [][Next]_vars
  /\ \A h \in Handlers : WF_vars(Step(h))
  /\ WF_vars(\E h \in Handlers : AutoConfirm(h))

-----------------------------------------------------------------------------

\* No handler is amid a save.
Quiet == \A h \in Handlers : proc[h].at = "idle"

\* Invoices and payslips take sheets by their approval, people by the status:
\* the two agree, in both directions, unless a stale copy was saved.
StatusOfRow ==
  ~raced => /\ row.status = "approved" <=> row.approved
            /\ row.status = "modified" <=> row.modified /\ ~row.approved

\* An approval stands: only the supervisor's correction takes it back, or a copy
\* read before it.
ApprovalStands ==
  [][row.approved /\ ~row'.approved => row'.modified \/ raced']_vars

\* A sheet that is ready to sync has been confirmed, submitted and approved,
\* whatever the handlers overlap; only a correction can have reopened it, and only
\* a stale copy, or a handler that was killed or that failed on a state which
\* another one had created, can have left the state without the row.
ReadyWasApproved ==
  70 \in states /\ Quiet /\ ~raced /\ ~broken => row.approved \/ row.modified

\* A confirmation is recorded as a state, together with the row, except that a
\* sheet created late has none.
ConfirmedIsRecorded ==
  row.going = "yes" /\ ~raced /\ ~late => 20 \in states

\* States come in the order of the graph whatever the handlers overlap, but for
\* one way out: a handler that was slow to create the state of the hours takes
\* away the approval that followed when another one had created it, and a third
\* finds the sheet ready.
StatesInOrder ==
  /\ 70 \in states => {20, 30} \subseteq states /\ (40 \in states \/ doubled)
  /\ 40 \in states => {20, 30} \subseteq states
  /\ 30 \in states => 20 \in states

\* Hours that a supervisor declined are submitted again, by the candidate or by
\* the task, unless its worker is killed or fails on a state which another handler
\* had created.
DeclinedIsResubmitted == confirms > 0 ~> row.submitted \/ broken
=============================================================================
