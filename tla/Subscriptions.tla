--------------------------- MODULE Subscriptions ---------------------------
(***************************************************************************)
(* The subscriptions of one company (billing/models.py Subscription,       *)
(* billing/views.py, billing/tasks.py sync_subscriptions), the payment     *)
(* provider's copies of them, and the access of the company's user         *)
(* (core/tasks.py).  Nothing runs in a transaction: a step is one          *)
(* statement or one call of the provider.                                  *)
(***************************************************************************)
EXTENDS Integers, FiniteSets

CONSTANTS
  Subs, NoSub,
  Servers,     \* the processes that serve requests
  Syncers,     \* the workers that run sync_subscriptions
  TrialOver,   \* whether the trial of the company's user is over
  MaxRequests, \* bound on the requests
  MaxFaults    \* bound on the errors and refusals of the provider, and on kills

ASSUME SubscriptionsAssumption ==
  NoSub \notin Subs /\ TrialOver \in BOOLEAN /\ MaxRequests \in Nat /\ MaxFaults \in Nat

VARIABLES
  row,     \* the Subscription rows
  remote,  \* the subscriptions at the provider
  access,  \* whether the user has all permissions, or a task waits to take them
  proc,    \* what each worker is doing
  refused, \* history: the subscriptions that the provider last refused to end
  cut,     \* history: a save was cut short, and no one looked for the others since
  requests, faults

Workers == Servers \cup Syncers
bounds == <<requests, faults>>
history == <<refused, cut>>
vars == <<row, remote, access, proc, history, bounds>>

\* ALLOWED_STATUSES; unpaid stands for past_due too, canceled for those over.
Allowed == {"active", "incomplete"}
Statuses == Allowed \cup {"unpaid", "canceled"}

Rows == [exists : BOOLEAN, active : BOOLEAN, status : Statuses, late : BOOLEAN]
NoRow == [exists |-> FALSE, active |-> FALSE, status |-> "canceled", late |-> FALSE]
Remotes == [status : Statuses, ending : BOOLEAN]
NoRemote == [status |-> "canceled", ending |-> FALSE]

Syncing == {"periods", "permissions"}
Requests == {"cancel", "check", "grant"}
Saving == {"write", "others", "end", "close"}

\* A worker: its step, its subscription with its copy of the row, the columns it
\* writes and the step after, the subscriptions it has still to deactivate, and the
\* one it is deactivating.
Procs == [at : {"idle"} \cup Syncing \cup Requests \cup Saving, on : Subs \cup {NoSub},
          copy : Rows, columns : {"status", "periods", "all"},
          next : {"idle", "check", "grant"} \cup Syncing,
          others : SUBSET Subs, other : Subs \cup {NoSub}]
Idle == [at |-> "idle", on |-> NoSub, copy |-> NoRow,
         columns |-> "all", next |-> "idle", others |-> {}, other |-> NoSub]

\* The rows, the provider and the workers have their values.
TypeOK ==
  /\ row \in [Subs -> Rows] /\ remote \in [Subs -> Remotes]
  /\ access \in {"all", "canceling", "none"}
  /\ proc \in [Workers -> Procs]
  /\ refused \subseteq Subs /\ cut \in BOOLEAN
  /\ requests \in 0..MaxRequests /\ faults \in 0..MaxFaults

\* The company has one subscription, paid and synchronised, and its user access.
First == CHOOSE s \in Subs : TRUE
Init ==
  /\ row = [s \in Subs |-> IF s = First
              THEN [exists |-> TRUE, active |-> TRUE, status |-> "active", late |-> FALSE] ELSE NoRow]
  /\ remote = [s \in Subs |-> IF s = First
                 THEN [status |-> "active", ending |-> FALSE] ELSE NoRemote]
  /\ access = "all"
  /\ proc = [w \in Workers |-> Idle] /\ requests = 0 /\ faults = 0
  /\ refused = {} /\ cut = FALSE

-----------------------------------------------------------------------------
(* Subscription.save *)

Goto(w, p) == proc' = [proc EXCEPT ![w] = p]
Then(p, step) == IF step = "idle" THEN Idle ELSE [p EXCEPT !.at = step]
At(w, step) == Goto(w, Then(proc[w], step))

\* The worker saves the columns of copy c, and goes on to the next step.
SaveOf(w, c, columns, next) ==
  [proc[w] EXCEPT !.at = "write", !.copy = c, !.columns = columns, !.next = next]

Written(old, p) ==
  CASE p.columns = "all" -> p.copy
    [] p.columns = "status" -> [old EXCEPT !.active = p.copy.active, !.status = p.copy.status]
    [] p.columns = "periods" -> [old EXCEPT !.late = p.copy.late]

Write(w) ==
  LET p == proc[w] IN
  /\ p.at = "write"
  /\ row' = [row EXCEPT ![p.on] = Written(@, p)]
  /\ At(w, IF p.copy.active THEN "others" ELSE p.next)
  /\ UNCHANGED <<remote, access, history, bounds>>

\* An active subscription that is saved deactivates the others.
ReadOthers(w) ==
  LET p == proc[w]
      others == {s \in Subs \ {p.on} : row[s].exists /\ row[s].active}
  IN
  /\ p.at = "others"
  /\ Goto(w, IF others = {} THEN Then(p, p.next) ELSE [p EXCEPT !.at = "end", !.others = others])
  /\ cut' = FALSE
  /\ UNCHANGED <<row, remote, access, refused, bounds>>

\* Those that are not over, and of them those that the provider may end: it refuses
\* one that was never paid.
Live == {s \in Subs : remote[s].status # "canceled"}
Endable == {s \in Live : remote[s].status # "incomplete"}
EndAt(s) == remote' = [remote EXCEPT ![s].ending = TRUE]

Accept(s) ==
  /\ s \in Endable /\ EndAt(s)
  /\ refused' = refused \ {s} /\ UNCHANGED faults

\* It may refuse any other as well.
Refuse(s) ==
  /\ s \in Endable => faults < MaxFaults
  /\ faults' = IF s \in Endable THEN faults + 1 ELSE faults
  /\ refused' = refused \cup ({s} \cap Live) /\ UNCHANGED remote

\* Subscription.deactivate: it ends with its period, or a refusal is swallowed.
Deactivate(s) == Accept(s) \/ Refuse(s)

\* Mutant of EndOther: one that is not paid is left to the provider.
EndOtherPaid(w, s) ==
  /\ proc[w].at = "end" /\ s \in proc[w].others
  /\ IF remote[s].status = "active" THEN Deactivate(s) ELSE UNCHANGED <<remote, refused, faults>>
  /\ Goto(w, [proc[w] EXCEPT !.at = "close", !.other = s])
  /\ UNCHANGED <<row, access, cut, requests>>

EndOther(w, s) ==
  /\ proc[w].at = "end" /\ s \in proc[w].others
  /\ Deactivate(s)
  /\ Goto(w, [proc[w] EXCEPT !.at = "close", !.other = s])
  /\ UNCHANGED <<row, access, cut, requests>>

\* The next one, or the step after the save.
NextOther(p) ==
  LET others == p.others \ {p.other}
  IN Then([p EXCEPT !.others = others, !.other = NoSub], IF others = {} THEN p.next ELSE "end")

\* Mutant of CloseOther: the row is left to the next synchronisation.
CloseOtherLater(w) ==
  /\ proc[w].at = "close"
  /\ Goto(w, NextOther(proc[w]))
  /\ UNCHANGED <<row, remote, access, history, bounds>>

CloseOther(w) ==
  LET p == proc[w] IN
  /\ p.at = "close"
  /\ row' = [row EXCEPT ![p.other].active = FALSE, ![p.other].status = "canceled"]
  /\ Goto(w, NextOther(p))
  /\ UNCHANGED <<remote, access, history, bounds>>

-----------------------------------------------------------------------------
(* Requests *)

Request(w) ==
  /\ w \in Servers /\ proc[w].at = "idle" /\ requests < MaxRequests
  /\ requests' = requests + 1

\* SubscriptionCreateView: created at the provider, where it is paid or not.
Created(s, status) ==
  /\ remote[s].status = "canceled" /\ ~row[s].exists /\ \A v \in Workers : proc[v].on # s
  /\ remote' = [remote EXCEPT ![s] = [status |-> status, ending |-> FALSE]]

Create(w, s) ==
  /\ Request(w)
  /\ \E status \in Allowed :
       /\ Created(s, status)
       /\ Goto(w, [Idle EXCEPT !.at = "write", !.on = s, !.next = "check", !.copy =
            [exists |-> TRUE, active |-> TRUE, status |-> status, late |-> FALSE]])
  /\ UNCHANGED <<row, access, history, faults>>

\* The answer of the provider is lost: no row knows of the subscription.
CreateLost(w, s) ==
  /\ Request(w) /\ faults < MaxFaults /\ faults' = faults + 1
  /\ \E status \in Allowed : Created(s, status)
  /\ UNCHANGED <<row, access, proc, history>>

\* An invoice of it that is not paid makes it inactive again.
CheckInvoices(w) ==
  LET p == proc[w] IN
  /\ p.at = "check"
  /\ IF remote[p.on].status = "active" THEN At(w, "grant")
     ELSE Goto(w, SaveOf(w, [p.copy EXCEPT !.active = FALSE, !.status = "unpaid"],
                         "all", "grant"))
  /\ UNCHANGED <<row, remote, access, history, bounds>>

\* Access is given, paid or not; a task that waits takes it all the same.
Grant(w) ==
  /\ proc[w].at = "grant" /\ Goto(w, Idle)
  /\ access' = IF access = "none" THEN "all" ELSE access
  /\ UNCHANGED <<row, remote, history, bounds>>

\* SubscriptionCancelView, when one subscription is active.
BeginCancel(w, s) ==
  /\ Request(w) /\ {t \in Subs : row[t].exists /\ row[t].active} = {s}
  /\ Goto(w, [Idle EXCEPT !.at = "cancel", !.on = s, !.copy = row[s]])
  /\ UNCHANGED <<row, remote, access, history, faults>>

Cancel(w) ==
  LET p == proc[w] IN
  /\ p.at = "cancel"
  /\ Deactivate(p.on)
  /\ Goto(w, SaveOf(w, [p.copy EXCEPT !.active = FALSE, !.status = "canceled"], "all", "idle"))
  /\ UNCHANGED <<row, access, cut, requests>>

-----------------------------------------------------------------------------
(* sync_subscriptions *)

\* Mutant of Synced: the status is taken, and active is left as it is.
SyncedStatus(s) == [row[s] EXCEPT !.status = remote[s].status]

\* What sync_status makes of a row.
Synced(s) == [row[s] EXCEPT !.status = remote[s].status, !.active = remote[s].status \in Allowed]

\* Mutant of Retrieve: the periods are not synchronised.
RetrieveStatus(w, s) ==
  /\ w \in Syncers /\ proc[w].at = "idle" /\ row[s].exists
  /\ Goto(w, [Idle EXCEPT !.at = "write", !.on = s, !.copy = Synced(s),
                !.columns = "status", !.next = "permissions"])
  /\ UNCHANGED <<row, remote, access, history, bounds>>

\* The provider's copy is retrieved, and sync_status saves what it says.  A run of
\* the task reads all rows first, but keeps of that only the periods, which no one else
\* changes: a row is read here when its turn comes.
Retrieve(w, s) ==
  /\ w \in Syncers /\ proc[w].at = "idle" /\ row[s].exists
  /\ Goto(w, [Idle EXCEPT !.at = "write", !.on = s, !.copy = Synced(s),
                !.columns = "status", !.next = "periods"])
  /\ UNCHANGED <<row, remote, access, history, bounds>>

\* sync_periods: the period of the provider's copy is not over.
SyncPeriods(w) ==
  LET p == proc[w] IN
  /\ p.at = "periods"
  /\ IF p.copy.active
     THEN Goto(w, SaveOf(w, [p.copy EXCEPT !.late = FALSE], "periods", "permissions"))
     ELSE At(w, "permissions")
  /\ UNCHANGED <<row, remote, access, history, bounds>>

\* Mutant of Lapsed: the end of the trial is not looked at.
LapsedLate(c) == c.late

\* update_user_permissions: not paid after the trial, or two weeks after the end.
Lapsed(c) == (TrialOver /\ c.status \notin Allowed) \/ c.late

\* A lapsed subscription ends, if the provider lets it, and the user's access is to
\* be taken away; the whole row is saved.
SyncPermissions(w) ==
  LET p == proc[w] IN
  /\ p.at = "permissions"
  /\ IF Lapsed(p.copy)
     THEN Deactivate(p.on) /\ access' = "canceling"
     ELSE UNCHANGED <<remote, access, refused, faults>>
  /\ Goto(w, SaveOf(w, p.copy, "all", "idle"))
  /\ UNCHANGED <<row, cut, requests>>

-----------------------------------------------------------------------------
(* Other tasks, the provider, and time *)

\* cancel_subscription_access.
CancelAccess ==
  /\ access = "canceling" /\ access' = "none"
  /\ UNCHANGED <<row, remote, proc, history, bounds>>

\* A worker stops in the middle; it may leave other subscriptions active.
Stop(w) ==
  /\ faults < MaxFaults /\ faults' = faults + 1
  /\ Goto(w, Idle)
  /\ cut' = (cut \/ proc[w].at \in {"others", "end", "close"})
  /\ UNCHANGED <<row, access, refused, requests>>

Die(w) == proc[w].at # "idle" /\ Stop(w) /\ UNCHANGED remote

\* Those that the worker is about to end.
Ends(p) ==
  CASE p.at = "end" -> p.others
    [] p.at = "cancel" \/ (p.at = "permissions" /\ Lapsed(p.copy)) -> {p.on}
    [] OTHER -> {}

\* An error of the provider other than a refusal ends a request, and makes the task
\* go on with the next subscription; the call may have been carried out.
Error(w) ==
  /\ Stop(w)
  /\ \/ proc[w].at = "check" /\ UNCHANGED remote
     \/ \E s \in Ends(proc[w]) : UNCHANGED remote \/ (s \in Endable /\ EndAt(s))

\* A subscription is over.
Close(s) == remote' = [remote EXCEPT ![s] = NoRemote] /\ refused' = refused \ {s}

\* The customer pays, or does not in time.
Settle(s) ==
  /\ remote[s].status \in {"incomplete", "unpaid"}
  /\ \/ remote' = [remote EXCEPT ![s].status = "active"] /\ UNCHANGED refused
     \/ Close(s)
  /\ UNCHANGED <<row, access, proc, cut, bounds>>

\* A period ends: what is to end ends, what is not paid goes on unpaid.
Renew(s) ==
  /\ \/ remote[s].ending /\ Close(s)
     \/ /\ ~remote[s].ending /\ remote[s].status = "active"
        /\ remote' = [remote EXCEPT ![s].status = "unpaid"] /\ UNCHANGED refused
  /\ UNCHANGED <<row, access, proc, cut, bounds>>

\* It is two weeks after the end of the period of a row; no request or task lasts
\* as long.
Delay(s) ==
  /\ row[s].exists /\ ~row[s].late /\ \A w \in Workers : proc[w].on # s
  /\ row' = [row EXCEPT ![s].late = TRUE]
  /\ UNCHANGED <<remote, access, proc, history, bounds>>

Step(w) ==
  \/ Write(w) \/ ReadOthers(w)
  \/ \E s \in Subs : EndOther(w, s)
  \/ CloseOther(w)
  \/ CheckInvoices(w) \/ Grant(w) \/ Cancel(w)
  \/ SyncPeriods(w) \/ SyncPermissions(w)

Next ==
  \/ \E w \in Workers :
       \/ Step(w) \/ Error(w) \/ Die(w)
       \/ \E s \in Subs : Create(w, s) \/ CreateLost(w, s) \/ BeginCancel(w, s) \/ Retrieve(w, s)
  \/ CancelAccess
  \/ (\E s \in Subs : Settle(s) \/ Renew(s) \/ Delay(s))

\* The task runs each minute from three to four, and what is queued is done.
Spec ==
  /\ Init /\ [][Next]_vars
  /\ \A w \in Workers : WF_vars(Step(w))
  /\ \A s \in Subs : SF_vars(\E w \in Syncers : Retrieve(w, s))
  /\ WF_vars(CancelAccess)

-----------------------------------------------------------------------------

Quiet == \A w \in Workers : proc[w].at = "idle"
Exist == {s \in Subs : row[s].exists}
Active == {s \in Exist : row[s].active}

\* However saves overlap, at most one subscription is active once they are done,
\* unless an error or a kill cut one short and no other save came after it.
AtMostOneActive == Quiet /\ ~cut => Cardinality(Active) <= 1

\* What is canceled here is over at the provider, or ends with its period, whatever
\* errors, lost answers and kills come between the two writes: the customer goes on
\* paying only for one that the provider refused to end, which no one notices.
CanceledEnds ==
  \A s \in Exist \ refused : row[s].status = "canceled" => remote[s].ending \/ s \notin Live

\* The only subscription of a company, while it is paid, is not ended unless the
\* customer cancels it, however late the row is.  With an older one this fails:
\* until that ends, the task makes it active again, which ends the new one.
OnlyOneKept ==
  [][\A s \in Subs :
       Exist = {s} /\ ~remote[s].ending /\ remote'[s].ending
         => \E w \in Workers :
              proc[w].on = s /\ (proc[w].at = "cancel" \/ proc[w].copy.status # "active")]_vars

\* A company whose subscription is paid at the provider has an active one here,
\* again and again, although overlapping saves may deactivate each other's.
PayingIsActive ==
  \A s \in Subs : <>[](row[s].exists /\ remote[s].status = "active") => []<>(Active # {})

\* When the trial and every subscription are over, the user loses access.
EndedLosesAccess ==
  TrialOver /\ <>[](\A s \in Subs : remote[s].status = "canceled") => []<>(access = "none")
=============================================================================
