----------------------------- MODULE ClientJobs -----------------------------
(***************************************************************************)
(* A client (core/models/core.py CompanyRel) and its jobs (hr/models.py    *)
(* Job), through the workflow engine (core/models/workflow.py): suspending *)
(* the client puts its confirmed jobs on hold, activating it should        *)
(* confirm them again, and a job is confirmed only for an active client    *)
(* and only once at a jobsite and position.                                *)
(*                                                                         *)
(* WorkflowObject.save runs in no transaction: it validates the state,     *)
(* deactivates others, runs the hooks of the object, deactivates others    *)
(* again and inserts the row of the new state last.                        *)
(***************************************************************************)
EXTENDS Workflow, FiniteSets

CONSTANTS
  Jobs, Workers, NoJob,
  Place,      \* the jobsite and position of each job
  MaxFaults   \* bound on the requests killed between two statements

ASSUME ClientJobsAssumption == NoJob \notin Jobs /\ MaxFaults \in Nat

VARIABLES
  client,   \* the active states of the client
  exist,    \* the jobs that exist
  job,      \* their active states
  proc,     \* what each worker is doing
  faults,
  left,     \* history: jobs confirmed when the client left 70 for 0 or 90
  raced     \* history: the jobs of a place that two workers worked at at once;
            \* all of them, and NoJob, when one did while another changed the
            \* client

vars == <<client, exist, job, proc, faults, left, raced>>

ClientStates == DOMAIN ClientGraph
JobStates == DOMAIN JobGraph

\* A worker: its step, the state it creates for the client, if any, the jobs
\* the hook has still to do, and the job it is working on with its new state.
ClientSteps == {"clear", "hook", "jobs"}
JobSteps == {"add", "check", "jobclear", "jobinsert"}
Procs == [at : {"idle"} \cup ClientSteps \cup JobSteps,
          state : ClientStates \cup {1}, todo : SUBSET Jobs,
          on : Jobs \cup {NoJob}, number : JobStates]
None == 1  \* no state of the client
Idle == [at |-> "idle", state |-> None, todo |-> {}, on |-> NoJob, number |-> 10]

\* The states are those of the graphs, and a worker at a job knows which.
TypeOK ==
  /\ client \subseteq ClientStates
  /\ exist \subseteq Jobs /\ job \in [Jobs -> SUBSET JobStates]
  /\ proc \in [Workers -> Procs] /\ faults \in 0..MaxFaults
  /\ left \subseteq Jobs /\ raced \subseteq Jobs \cup {NoJob}
  /\ \A w \in Workers : proc[w].at \in JobSteps => proc[w].on \in Jobs

\* CompanyRel.save of a new client.
Init ==
  /\ client = Activated(ClientGraph, {}, 10)
  /\ exist = {} /\ job = [j \in Jobs |-> {}]
  /\ proc = [w \in Workers |-> Idle] /\ faults = 0
  /\ left = {} /\ raced = {}

-----------------------------------------------------------------------------

Goto(w, p) == proc' = [proc EXCEPT ![w] = p]

Others(j) == {k \in exist \ {j} : Place[k] = Place[j]}

\* is_unique_position_jobsite; Job.save asks the same of a new job.
Unique(j) == \A k \in Others(j) : 60 \in job[k]

\* is_client_active looks for the row of state 70.
ClientActive == 70 \in client

\* Mutant of JobAllowed: the client is not looked at.
JobAllowedAny(j, n) == Allowed(JobGraph, job[j], n) /\ (n \in {20, 40} => Unique(j))

\* Mutant of JobAllowed: other jobs at the place are not looked at.
JobAllowedTwice(j, n) == Allowed(JobGraph, job[j], n) /\ (n = 20 => ClientActive)

\* is_allowed of a job, with the required functions: the dates, prices and time
\* sheets they also ask for are taken to be in order.
JobAllowed(j, n) ==
  /\ Allowed(JobGraph, job[j], n)
  /\ n = 20 => ClientActive
  /\ n \in {20, 40} => Unique(j)

Peers(j) == {k \in Jobs : Place[k] = Place[j]}
At(j) == {w \in Workers : proc[w].on = j}
ClientChanges == {w \in Workers : proc[w].state # None}

\* A worker turns to job j.
Touch(w, j) ==
  raced' = IF ~(ClientChanges \subseteq {w}) THEN Jobs \cup {NoJob}
           ELSE IF UNION {At(k) : k \in Peers(j)} \subseteq {w} THEN raced
           ELSE raced \cup Peers(j)

-----------------------------------------------------------------------------
(* WorkflowObject.save for the client *)

\* A state is chosen for the client, or the last address of an active client is
\* deleted, which suspends it.
BeginClient(w, n) ==
  /\ proc[w].at = "idle" /\ Allowed(ClientGraph, client, n)
  /\ Goto(w, [Idle EXCEPT !.at = "clear", !.state = n])
  /\ raced' = IF \A v \in Workers : proc[v].at = "idle" THEN raced ELSE Jobs \cup {NoJob}
  /\ UNCHANGED <<client, exist, job, faults, left>>

\* Before the hooks, the states that do not stay are deactivated.
Clear(w) ==
  /\ proc[w].at = "clear"
  /\ client' = Kept(ClientGraph, client, proc[w].state)
  /\ left' = IF ClientActive /\ proc[w].state \in {0, 90}
             THEN left \cup {j \in Jobs : 20 \in job[j]} ELSE left
  /\ Goto(w, [proc[w] EXCEPT !.at = "hook"])
  /\ UNCHANGED <<exist, job, faults, raced>>

\* CompanyRel.after_state_activated: the jobs whose state it looks for, and the
\* state it gives them.
Looked(n) == CASE n = 70 -> 40 [] n = 80 -> 20 [] OTHER -> 0
\* Mutant of Given: a state that jobs do not have.
GivenOpen(n) == IF n = 70 THEN 20 ELSE 30

Given(n) == IF n = 70 THEN 20 ELSE 40

Hook(w) ==
  LET p == proc[w] IN
  /\ p.at = "hook"
  /\ Goto(w, [p EXCEPT !.at = "jobs", !.number = Given(p.state),
                       !.todo = {j \in Jobs : Looked(p.state) \in job[j]}])
  /\ UNCHANGED <<client, exist, job, faults, left, raced>>

\* The hook asks is_allowed of each job; a job that is not allowed is passed by.
HookJob(w, j) ==
  LET p == [proc[w] EXCEPT !.todo = @ \ {j}] IN
  /\ p.at = "jobs" /\ j \in proc[w].todo
  /\ IF JobAllowed(j, p.number)
     THEN Goto(w, [p EXCEPT !.at = "check", !.on = j]) /\ Touch(w, j)
     ELSE Goto(w, p) /\ UNCHANGED raced
  /\ UNCHANGED <<client, exist, job, faults, left>>

\* After the hooks: the row is inserted.
Insert(w) ==
  /\ proc[w].at = "jobs" /\ proc[w].todo = {}
  /\ client' = Activated(ClientGraph, client, proc[w].state)
  /\ Goto(w, Idle)
  /\ UNCHANGED <<exist, job, faults, left, raced>>

-----------------------------------------------------------------------------
(* Jobs *)

\* Job.save of a new job, which looks for another at its place, and inserts it.
BeginCreate(w, j) ==
  /\ proc[w].at = "idle" /\ j \notin exist /\ At(j) = {} /\ Unique(j)
  /\ Goto(w, [Idle EXCEPT !.at = "add", !.on = j])
  /\ Touch(w, j)
  /\ UNCHANGED <<client, exist, job, faults, left>>

\* Mutant of Add: whether the job is new is read after it is inserted.
AddStateless(w) ==
  /\ proc[w].at = "add"
  /\ exist' = exist \cup {proc[w].on}
  /\ Goto(w, Idle)
  /\ UNCHANGED <<client, job, faults, left, raced>>

Add(w) ==
  /\ proc[w].at = "add"
  /\ exist' = exist \cup {proc[w].on}
  /\ Goto(w, [proc[w] EXCEPT !.at = "check", !.number = 10])
  /\ UNCHANGED <<client, job, faults, left, raced>>

\* A state is chosen for a job, by a request, and validated.
BeginJob(w, j, n) ==
  /\ proc[w].at = "idle" /\ j \in exist /\ JobAllowed(j, n)
  /\ Goto(w, [Idle EXCEPT !.at = "jobclear", !.on = j, !.number = n])
  /\ Touch(w, j)
  /\ UNCHANGED <<client, exist, job, faults, left>>

\* WorkflowObject.clean: a state that is not allowed raises, and ends the whole
\* request, the hook of a client included.
Check(w) ==
  LET p == proc[w] IN
  /\ p.at = "check"
  /\ Goto(w, IF JobAllowed(p.on, p.number) THEN [p EXCEPT !.at = "jobclear"] ELSE Idle)
  /\ UNCHANGED <<client, exist, job, faults, left, raced>>

\* Before the hooks, and after them with the row of the new state; a confirmed
\* job gets its first shift date, and its contact a message, in between.
JobClear(w) ==
  LET p == proc[w] IN
  /\ p.at = "jobclear"
  /\ job' = [job EXCEPT ![p.on] = Kept(JobGraph, @, p.number)]
  /\ Goto(w, [p EXCEPT !.at = "jobinsert"])
  /\ UNCHANGED <<client, exist, faults, left, raced>>

JobInsert(w) ==
  LET p == proc[w] IN
  /\ p.at = "jobinsert"
  /\ job' = [job EXCEPT ![p.on] = Activated(JobGraph, @, p.number)]
  /\ left' = IF p.number = 20 /\ ClientActive THEN left \ {p.on} ELSE left
  /\ Goto(w, IF p.state = None THEN Idle ELSE [p EXCEPT !.at = "jobs", !.on = NoJob])
  /\ UNCHANGED <<client, exist, faults, raced>>

\* A request dies between two statements.
Kill(w) ==
  /\ proc[w].at # "idle" /\ faults < MaxFaults
  /\ faults' = faults + 1
  /\ Goto(w, Idle)
  /\ UNCHANGED <<client, exist, job, left, raced>>

Next ==
  \E w \in Workers :
    \/ \E n \in ClientStates : BeginClient(w, n)
    \/ Clear(w) \/ Hook(w) \/ Insert(w)
    \/ \E j \in Jobs : HookJob(w, j) \/ BeginCreate(w, j)
    \/ Add(w) \/ (\E j \in Jobs, n \in JobStates : BeginJob(w, j, n))
    \/ Check(w) \/ JobClear(w) \/ JobInsert(w) \/ Kill(w)

Spec == Init /\ [][Next]_vars

-----------------------------------------------------------------------------

Quiet == \A w \in Workers : proc[w].at = "idle"

\* No job is confirmed for a client that is not active, except one that was when
\* the client was banned or cancelled, for which there is no hook; one beside
\* which a completed job was reopened, which nothing puts on hold any more; and
\* after a race or a kill.
ConfirmedForClient ==
  Quiet /\ faults = 0 =>
    \A j \in Jobs \ (left \cup raced) : 20 \in job[j] /\ Unique(j) => ClientActive

\* Two jobs at one jobsite and position are never both confirmed, whatever
\* states their users choose, unless two workers worked on one of them at once.
ConfirmedUnique ==
  \A j, k \in Jobs \ raced :
    Place[j] = Place[k] /\ 20 \in job[j] /\ 20 \in job[k] => j = k

\* No object is left without a state, unless a request was killed: the states
\* that do not stay are deactivated before the new one is there.
SomeState ==
  Quiet /\ faults = 0 =>
    /\ NoJob \notin raced => client # {}
    /\ \A j \in exist \ raced : job[j] # {}
=============================================================================
