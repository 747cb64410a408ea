-------------------------- MODULE ClientJobsProofs --------------------------
(***************************************************************************)
(* Proofs about ClientJobs, for any jobs at any places, any workers and    *)
(* any bound on the requests killed: type correctness, that a place has    *)
(* one confirmed job, that no object is left without a state, and that     *)
(* jobs are confirmed for active clients.                                  *)
(***************************************************************************)
EXTENDS ClientJobs, TLAPS

-----------------------------------------------------------------------------
(* The inductive invariant *)

\* A job has at most one active state; one that does not exist has none.
JobsOK ==
  /\ \A j \in Jobs : \E n \in JobStates : job[j] \subseteq {n}
  /\ \A j \in Jobs \ exist : job[j] = {}

\* What a worker does: only a worker at a job has one, the job exists unless it
\* is about to be inserted, and the hook gives the state it is for.
WorkerOK(w) ==
  LET p == proc[w] IN
  /\ p.at = "idle" => p = Idle
  /\ p.at \notin JobSteps => p.on = NoJob
  /\ p.at \in JobSteps \ {"add"} => p.on \in exist
  /\ p.at = "add" => p.state = None
  /\ p.state # None /\ p.at \notin {"clear", "hook"} => p.number = Given(p.state)

\* Races are recorded for a whole place, or for all places and the client.
RacedOK ==
  /\ NoJob \in raced => Jobs \subseteq raced
  /\ \A j \in Jobs \cap raced : Peers(j) \subseteq raced

\* A worker at a job that was not raced is alone at its place; one that changes
\* the client is the only one that is not idle.
Alone(w) ==
  /\ proc[w].on \in Jobs \ raced =>
       \A v \in Workers \ {w} : proc[v].on \notin Peers(proc[w].on)
  /\ proc[w].state # None /\ NoJob \notin raced =>
       \A v \in Workers \ {w} : proc[v].at = "idle"

\* What the validation of a job's new state found holds until the state is
\* written: to be confirmed it is the only open job of its place, and the
\* client is active; when it is completed, no other there is confirmed.
Validated(w) ==
  LET p == proc[w] IN
  p.at \in {"jobclear", "jobinsert"} /\ p.on \notin raced =>
    /\ p.number = 20 => Unique(p.on) /\ ClientActive
    /\ p.number = 60 => \A k \in Peers(p.on) \ {p.on} : 20 \notin job[k]

\* A hook that asked is_allowed of a job is not refused by its validation.
Rechecked(w) ==
  LET p == proc[w] IN
  p.at = "check" /\ p.state # None /\ NoJob \notin raced =>
    JobAllowed(p.on, p.number)

\* What makes the place of a confirmed job its own.
PlaceInv ==
  /\ JobsOK /\ RacedOK
  /\ \A w \in Workers :
       WorkerOK(w) /\ Alone(w) /\ Validated(w) /\ Rechecked(w)
  /\ ConfirmedUnique

\* A job without a state is about to get one.
JobComing(j) ==
  \E w \in Workers :
    /\ proc[w].on = j
    /\ \/ proc[w].at = "jobinsert"
       \/ proc[w].at \in {"check", "jobclear"} /\ proc[w].number = 10

\* A client without a state is about to get one.
ClientComing ==
  \E w \in Workers : proc[w].state # None /\ proc[w].at \notin {"clear", "idle"}

\* What makes every object have a state.
StateInv ==
  faults = 0 =>
    /\ \A j \in exist \ raced : job[j] # {} \/ JobComing(j)
    /\ NoJob \notin raced => client # {} \/ ClientComing

\* The states of a client come in an order: each is kept with the earlier ones.
Ladder == {10, 20, 30, 40, 60, 70}
ClientOK ==
  \A m, n \in Ladder : m < n /\ n \in client => m \in client

\* While a new state of the client is on its way, the states before it are
\* active, and once others are deactivated only those that stay with it are.
ClientChange(w) ==
  LET n == proc[w].state IN
  n # None =>
    /\ n \in Ladder => \A m \in Ladder : m < n => m \in client
    /\ n \notin client
    /\ proc[w].at # "clear" => client \subseteq ClientGraph[n].active

\* A worker whose hook has job j of a suspended client still to put on hold.
Suspends(p, j) ==
  /\ p.state = 80
  /\ \/ p.at = "hook"
     \/ p.at \notin {"clear", "hook"} /\ (j \in p.todo \/ p.on = j)
Suspending(j) == \E w \in Workers : Suspends(proc[w], j)

\* The rows of a client that was not raced.
ClientRows ==
  NoJob \notin raced => ClientOK /\ \A w \in Workers : ClientChange(w)

\* A confirmed job, alone at its place, has an active client, or will be put on
\* hold.
JobsFollow ==
  \A j \in Jobs \ (left \cup raced) :
    20 \in job[j] /\ Unique(j) => ClientActive \/ Suspending(j)

\* What makes the jobs of an inactive client unconfirmed.
ClientInv == faults = 0 => ClientRows /\ JobsFollow


-----------------------------------------------------------------------------
(* The graphs *)

\* The states of a job.
LEMMA JobStatesFact == JobStates = {10, 20, 40, 60}
BY DEF JobStates, JobGraph

\* What stays active with each.
LEMMA JobActiveFacts ==
  /\ JobGraph[10].active = {10} /\ JobGraph[20].active = {20}
  /\ JobGraph[40].active = {30, 40} /\ JobGraph[60].active = {60}
BY DEF JobGraph, Node

\* What each requires.
LEMMA JobRequiredFacts ==
  /\ JobGraph[10].required = {{}} /\ JobGraph[20].required = AnyOf({10, 40})
  /\ JobGraph[40].required = AnyOf({20}) /\ JobGraph[60].required = AnyOf({20})
<1>1. /\ JobGraph[10] = Node({10}, {{}})
      /\ JobGraph[20] = Node({20}, AnyOf({10, 40}))
      /\ JobGraph[40] = Node({30, 40}, AnyOf({20}))
      /\ JobGraph[60] = Node({60}, AnyOf({20}))
  BY DEF JobGraph
<1>2. \A S, T : Node(S, T).required = T
  BY DEF Node
<1> QED BY <1>1, <1>2

\* When a state of a job is allowed.
LEMMA JobAllowedFacts ==
  ASSUME NEW s
  PROVE  /\ Allowed(JobGraph, s, 10) <=> 10 \notin s
         /\ Allowed(JobGraph, s, 20) <=> 20 \notin s /\ (10 \in s \/ 40 \in s)
         /\ Allowed(JobGraph, s, 40) <=> 40 \notin s /\ 20 \in s
         /\ Allowed(JobGraph, s, 60) <=> 60 \notin s /\ 20 \in s
<1>1. /\ \E R \in {{}} : R \subseteq s
      /\ \A n : (\E R \in AnyOf({n}) : R \subseteq s) <=> n \in s
      /\ (\E R \in AnyOf({10, 40}) : R \subseteq s) <=> 10 \in s \/ 40 \in s
  BY DEF AnyOf
<1>2. Allowed(JobGraph, s, 10) <=> 10 \notin s
  BY <1>1, JobRequiredFacts DEF Allowed
<1>3. Allowed(JobGraph, s, 20) <=> 20 \notin s /\ (10 \in s \/ 40 \in s)
  BY <1>1, JobRequiredFacts DEF Allowed
<1>4. Allowed(JobGraph, s, 40) <=> 40 \notin s /\ 20 \in s
  BY <1>1, JobRequiredFacts DEF Allowed
<1>5. Allowed(JobGraph, s, 60) <=> 60 \notin s /\ 20 \in s
  BY <1>1, JobRequiredFacts DEF Allowed
<1> QED BY <1>2, <1>3, <1>4, <1>5

\* The states of a client.
LEMMA ClientStatesFact ==
  ClientStates = {0, 10, 20, 30, 40, 60, 70, 80, 90}
BY DEF ClientStates, ClientGraph

\* The nodes of a client.
LEMMA ClientNodes ==
  LET lead == {10, 20, 30, 40} IN
  /\ ClientGraph[0] = Node({0}, AnyOf(lead))
  /\ ClientGraph[10] = Node({10}, {{}})
  /\ ClientGraph[20] = Node({k \in lead : k <= 20}, AnyOf({10}))
  /\ ClientGraph[30] = Node({k \in lead : k <= 30}, AnyOf({20}))
  /\ ClientGraph[40] = Node({k \in lead : k <= 40}, AnyOf({30}))
  /\ ClientGraph[60] = Node(lead \cup {60}, AnyOf({40}))
  /\ ClientGraph[70] = Node(lead \cup {60, 70}, AnyOf({60}))
  /\ ClientGraph[80] = Node(lead \cup {60, 80}, AnyOf(lead \cup {60, 70}))
  /\ ClientGraph[90] = Node({10, 20, 90}, AnyOf({60, 70}))
BY DEF ClientGraph

\* The parts of a node.
LEMMA NodeParts ==
  ASSUME NEW S, NEW T
  PROVE  Node(S, T).active = S /\ Node(S, T).required = T
BY DEF Node

\* What stays active with each state of a client.
LEMMA ClientActiveFacts ==
  /\ ClientGraph[0].active = {0}
  /\ ClientGraph[10].active = {10}
  /\ ClientGraph[20].active = {10, 20}
  /\ ClientGraph[30].active = {10, 20, 30}
  /\ ClientGraph[40].active = {10, 20, 30, 40}
  /\ ClientGraph[60].active = {10, 20, 30, 40, 60}
  /\ ClientGraph[70].active = {10, 20, 30, 40, 60, 70}
  /\ ClientGraph[80].active = {10, 20, 30, 40, 60, 80}
  /\ ClientGraph[90].active = {10, 20, 90}
<1> DEFINE lead == {10, 20, 30, 40}
<1>1. /\ {k \in lead : k <= 20} = {10, 20}
      /\ {k \in lead : k <= 30} = {10, 20, 30}
      /\ {k \in lead : k <= 40} = {10, 20, 30, 40}
      /\ lead \cup {60} = {10, 20, 30, 40, 60}
      /\ lead \cup {60, 70} = {10, 20, 30, 40, 60, 70}
      /\ lead \cup {60, 80} = {10, 20, 30, 40, 60, 80}
  OBVIOUS
<1>2. /\ ClientGraph[0].active = {0}
      /\ ClientGraph[10].active = {10}
      /\ ClientGraph[20].active = {k \in lead : k <= 20}
      /\ ClientGraph[30].active = {k \in lead : k <= 30}
      /\ ClientGraph[40].active = {k \in lead : k <= 40}
      /\ ClientGraph[60].active = lead \cup {60}
      /\ ClientGraph[70].active = lead \cup {60, 70}
      /\ ClientGraph[80].active = lead \cup {60, 80}
      /\ ClientGraph[90].active = {10, 20, 90}
  <2>1. ClientGraph[0].active = {0} /\ ClientGraph[10].active = {10}
    BY ClientNodes, NodeParts
  <2>2. /\ ClientGraph[20].active = {k \in lead : k <= 20}
        /\ ClientGraph[30].active = {k \in lead : k <= 30}
        /\ ClientGraph[40].active = {k \in lead : k <= 40}
    BY ClientNodes, NodeParts
  <2>3. ClientGraph[60].active = lead \cup {60}
    BY ClientNodes, NodeParts
  <2>4. ClientGraph[70].active = lead \cup {60, 70}
    BY ClientNodes, NodeParts
  <2>5. ClientGraph[80].active = lead \cup {60, 80}
    BY ClientNodes, NodeParts
  <2>6. ClientGraph[90].active = {10, 20, 90}
    BY ClientNodes, NodeParts
  <2> HIDE DEF lead
  <2> QED BY <2>1, <2>2, <2>3, <2>4, <2>5, <2>6
<1> HIDE DEF lead
<1> QED BY <1>1, <1>2

\* A state of the ladder is allowed only when the state before it is active.
LEMMA ClientAllowedFacts ==
  ASSUME NEW s
  PROVE  /\ Allowed(ClientGraph, s, 20) => 10 \in s
         /\ Allowed(ClientGraph, s, 30) => 20 \in s
         /\ Allowed(ClientGraph, s, 40) => 30 \in s
         /\ Allowed(ClientGraph, s, 60) => 40 \in s
         /\ Allowed(ClientGraph, s, 70) => 60 \in s
<1>1. /\ ClientGraph[20].required = AnyOf({10})
      /\ ClientGraph[30].required = AnyOf({20})
      /\ ClientGraph[40].required = AnyOf({30})
  BY ClientNodes, NodeParts
<1>2. /\ ClientGraph[60].required = AnyOf({40})
      /\ ClientGraph[70].required = AnyOf({60})
  BY ClientNodes, NodeParts
<1>3. \A n : (\E R \in AnyOf({n}) : R \subseteq s) => n \in s
  BY DEF AnyOf
<1> QED BY <1>1, <1>2, <1>3 DEF Allowed

-----------------------------------------------------------------------------
(* Type correctness *)

\* A worker knows the job it is at, and the state of the client it is to create.
WorkersOK ==
  /\ proc \in [Workers -> Procs]
  /\ \A w \in Workers :
       /\ proc[w].at \in JobSteps => proc[w].on \in Jobs
       /\ proc[w].at \in ClientSteps => proc[w].state # None

TypeInv == TypeOK /\ WorkersOK

\* A worker that goes on knows them.
LEMMA GotoType ==
  ASSUME WorkersOK, NEW w \in Workers, NEW p \in Procs, Goto(w, p),
         p.at \in JobSteps => p.on \in Jobs,
         p.at \in ClientSteps => p.state # None
  PROVE  WorkersOK'
BY DEF WorkersOK, Goto

\* So does one that ends.
LEMMA IdleType ==
  /\ Idle \in Procs /\ Idle.at \notin JobSteps \cup ClientSteps
  /\ \A w \in Workers : WorkersOK /\ Goto(w, Idle) => WorkersOK'
<1>1. 10 \in JobStates
  BY JobStatesFact
<1>2. Idle \in Procs /\ Idle.at \notin JobSteps \cup ClientSteps
  BY <1>1 DEF Idle, Procs, None, ClientSteps, JobSteps
<1> QED BY <1>2, GotoType

\* The fields of a worker have their values.
LEMMA ProcFields ==
  ASSUME WorkersOK, NEW w \in Workers
  PROVE  /\ proc[w] \in Procs
         /\ proc[w].at \in {"idle"} \cup ClientSteps \cup JobSteps
         /\ proc[w].state \in ClientStates \cup {None}
         /\ proc[w].todo \in SUBSET Jobs /\ proc[w].on \in Jobs \cup {NoJob}
         /\ proc[w].number \in JobStates
BY DEF WorkersOK, Procs, None

\* The type invariant after a step of a worker.
LEMMA SteppedType ==
  ASSUME TypeOK, WorkersOK', client' \subseteq ClientStates, exist' \subseteq Jobs,
         job' \in [Jobs -> SUBSET JobStates], faults' \in 0..MaxFaults,
         left' \subseteq Jobs, raced' \subseteq Jobs \cup {NoJob}
  PROVE  TypeInv'
BY DEF TypeInv, TypeOK, WorkersOK

\* A worker that turns to a job races with others for its place or for all.
LEMMA TouchType ==
  ASSUME TypeOK, NEW w \in Workers, NEW j \in Jobs, Touch(w, j)
  PROVE  raced' \subseteq Jobs \cup {NoJob} /\ raced \subseteq raced'
BY DEF TypeOK, Touch, Peers

\* The steps of a client's request keep the types ...
LEMMA ClientStepType ==
  ASSUME TypeInv, NEW w \in Workers,
         \/ \E n \in ClientStates : BeginClient(w, n)
         \/ Clear(w) \/ Hook(w) \/ Insert(w) \/ Kill(w)
  PROVE  TypeInv'
<1> DEFINE p == proc[w]
<1> USE DEF TypeInv
<1>0. /\ p \in Procs /\ p.todo \in SUBSET Jobs /\ p.on \in Jobs \cup {NoJob}
      /\ p.state \in ClientStates \cup {None}
      /\ p.at \in ClientSteps => p.state # None
  BY ProcFields DEF WorkersOK
<1>1. ASSUME NEW n \in ClientStates, BeginClient(w, n)
      PROVE  TypeInv'
  <2> DEFINE q == [Idle EXCEPT !.at = "clear", !.state = n]
  <2>1. q \in Procs /\ q.at \notin JobSteps /\ q.state = n
    BY IdleType DEF Idle, Procs, ClientSteps, JobSteps
  <2>2. Goto(w, q) /\ raced' \subseteq Jobs \cup {NoJob}
    BY <1>1 DEF BeginClient, TypeOK
  <2>3. n # None
    BY ClientStatesFact DEF None
  <2> HIDE DEF q
  <2>4. WorkersOK'
    BY <2>1, <2>2, <2>3, GotoType
  <2> QED BY <1>1, <2>2, <2>4, SteppedType DEF BeginClient, TypeOK
<1>2. CASE Clear(w)
  <2> DEFINE q == [p EXCEPT !.at = "hook"]
  <2>1. q \in Procs /\ q.at \notin JobSteps /\ q.state # None
    BY <1>0, <1>2 DEF Procs, ClientSteps, JobSteps, Clear
  <2>2. Goto(w, q) /\ client' \subseteq ClientStates /\ left' \subseteq Jobs
    BY <1>2 DEF Clear, TypeOK, Kept
  <2> HIDE DEF q
  <2>3. WorkersOK'
    BY <2>1, <2>2, GotoType
  <2> QED BY <1>2, <2>2, <2>3, SteppedType DEF Clear, TypeOK
<1>3. CASE Hook(w)
  <2> DEFINE q == [p EXCEPT !.at = "jobs", !.number = Given(p.state),
                            !.todo = {j \in Jobs : Looked(p.state) \in job[j]}]
  <2>1. Given(p.state) \in JobStates
    BY JobStatesFact DEF Given
  <2>2. {j \in Jobs : Looked(p.state) \in job[j]} \in SUBSET Jobs
    OBVIOUS
  <2>3. q \in Procs /\ q.at \notin JobSteps /\ q.state # None
    BY <1>0, <1>3, <2>1, <2>2 DEF Procs, ClientSteps, JobSteps, Hook
  <2>4. Goto(w, q)
    BY <1>3 DEF Hook
  <2> HIDE DEF q
  <2>5. WorkersOK'
    BY <2>3, <2>4, GotoType
  <2> QED BY <1>3, <2>5, SteppedType DEF Hook, TypeOK
<1>4. CASE Insert(w)
  <2>1. p.state \in ClientStates
    BY <1>0, <1>4 DEF Insert, ClientSteps
  <2>2. client' \subseteq ClientStates
    BY <1>4, <2>1 DEF Insert, Activated, Kept, TypeOK
  <2> QED BY <1>4, <2>2, IdleType, SteppedType DEF Insert, TypeOK
<1>5. CASE Kill(w)
  <2>1. faults' \in 0..MaxFaults
    BY <1>5, ClientJobsAssumption DEF Kill, TypeOK
  <2> QED BY <1>5, <2>1, IdleType, SteppedType DEF Kill, TypeOK
<1> QED BY <1>1, <1>2, <1>3, <1>4, <1>5

\* ... and so do those of a job.
LEMMA JobStepType ==
  ASSUME TypeInv, NEW w \in Workers,
         \/ \E j \in Jobs : HookJob(w, j) \/ BeginCreate(w, j)
         \/ Add(w) \/ (\E j \in Jobs, n \in JobStates : BeginJob(w, j, n))
         \/ Check(w) \/ JobClear(w) \/ JobInsert(w)
  PROVE  TypeInv'
<1> DEFINE p == proc[w]
<1> USE DEF TypeInv
<1>0. /\ p \in Procs /\ p.todo \in SUBSET Jobs /\ p.on \in Jobs \cup {NoJob}
      /\ p.number \in JobStates /\ 10 \in JobStates
      /\ p.at \in ClientSteps => p.state # None
      /\ p.at \in JobSteps => p.on \in Jobs
  BY ProcFields, JobStatesFact DEF WorkersOK
<1>1. ASSUME NEW j \in Jobs, HookJob(w, j)
      PROVE  TypeInv'
  <2> DEFINE q == [p EXCEPT !.todo = @ \ {j}]
             r == [q EXCEPT !.at = "check", !.on = j]
  <2>1. p.todo \ {j} \in SUBSET Jobs
    BY <1>0
  <2>2. /\ q \in Procs /\ q.at \notin JobSteps /\ q.state # None
        /\ r \in Procs /\ r.on = j /\ r.at \notin ClientSteps
    BY <1>0, <1>1, <2>1 DEF Procs, ClientSteps, JobSteps, HookJob
  <2>3. \/ Goto(w, r) /\ Touch(w, j)
        \/ Goto(w, q) /\ UNCHANGED raced
    BY <1>1 DEF HookJob
  <2> HIDE DEF q, r
  <2>4. WorkersOK'
    BY <2>2, <2>3, GotoType
  <2>5. raced' \subseteq Jobs \cup {NoJob}
    BY <2>3, TouchType DEF TypeOK
  <2> QED BY <1>1, <2>4, <2>5, SteppedType DEF HookJob, TypeOK
<1>2. ASSUME NEW j \in Jobs, BeginCreate(w, j)
      PROVE  TypeInv'
  <2> DEFINE q == [Idle EXCEPT !.at = "add", !.on = j]
  <2>1. q \in Procs /\ q.on = j /\ q.at \notin ClientSteps
    BY IdleType DEF Idle, Procs, ClientSteps, JobSteps
  <2>2. Goto(w, q) /\ Touch(w, j)
    BY <1>2 DEF BeginCreate
  <2> HIDE DEF q
  <2>3. WorkersOK'
    BY <2>1, <2>2, GotoType
  <2> QED BY <1>2, <2>2, <2>3, TouchType, SteppedType DEF BeginCreate, TypeOK
<1>3. ASSUME NEW j \in Jobs, NEW n \in JobStates, BeginJob(w, j, n)
      PROVE  TypeInv'
  <2> DEFINE q == [Idle EXCEPT !.at = "jobclear", !.on = j, !.number = n]
  <2>1. q \in Procs /\ q.on = j /\ q.at \notin ClientSteps
    BY IdleType DEF Idle, Procs, ClientSteps, JobSteps
  <2>2. Goto(w, q) /\ Touch(w, j)
    BY <1>3 DEF BeginJob
  <2> HIDE DEF q
  <2>3. WorkersOK'
    BY <2>1, <2>2, GotoType
  <2> QED BY <1>3, <2>2, <2>3, TouchType, SteppedType DEF BeginJob, TypeOK
<1>4. CASE Add(w)
  <2> DEFINE q == [p EXCEPT !.at = "check", !.number = 10]
  <2>1. /\ q \in Procs /\ q.on = p.on /\ q.at \notin ClientSteps /\ p.on \in Jobs
    BY <1>0, <1>4 DEF Procs, ClientSteps, JobSteps, Add
  <2>2. Goto(w, q)
    BY <1>4 DEF Add
  <2> HIDE DEF q
  <2>3. WorkersOK'
    BY <2>1, <2>2, GotoType
  <2> QED BY <1>4, <2>1, <2>3, SteppedType DEF Add, TypeOK
<1>5. CASE Check(w)
  <2> DEFINE q == [p EXCEPT !.at = "jobclear"]
  <2>1. q \in Procs /\ q.on = p.on /\ q.at \notin ClientSteps /\ p.on \in Jobs
    BY <1>0, <1>5 DEF Procs, ClientSteps, JobSteps, Check
  <2>2. Goto(w, q) \/ Goto(w, Idle)
    BY <1>5 DEF Check
  <2> HIDE DEF q
  <2>3. WorkersOK'
    BY <2>1, <2>2, GotoType, IdleType
  <2> QED BY <1>5, <2>3, SteppedType DEF Check, TypeOK
<1>6. CASE JobClear(w)
  <2> DEFINE q == [p EXCEPT !.at = "jobinsert"]
  <2>1. q \in Procs /\ q.on = p.on /\ q.at \notin ClientSteps /\ p.on \in Jobs
    BY <1>0, <1>6 DEF Procs, ClientSteps, JobSteps, JobClear
  <2>2. Goto(w, q) /\ job' \in [Jobs -> SUBSET JobStates]
    BY <1>6, <2>1 DEF JobClear, Kept, TypeOK
  <2> HIDE DEF q
  <2>3. WorkersOK'
    BY <2>1, <2>2, GotoType
  <2> QED BY <1>6, <2>2, <2>3, SteppedType DEF JobClear, TypeOK
<1>7. CASE JobInsert(w)
  <2> DEFINE q == [p EXCEPT !.at = "jobs", !.on = NoJob]
  <2>1. q \in Procs /\ q.at \notin JobSteps /\ q.state = p.state
    BY <1>0 DEF Procs, ClientSteps, JobSteps
  <2>2. Goto(w, Idle) \/ (Goto(w, q) /\ p.state # None)
    BY <1>7 DEF JobInsert
  <2>3. job' \in [Jobs -> SUBSET JobStates]
    BY <1>0, <1>7 DEF JobInsert, JobSteps, Activated, Kept, TypeOK
  <2> HIDE DEF q
  <2>4. WorkersOK'
    BY <2>1, <2>2, GotoType, IdleType
  <2> QED BY <1>7, <2>3, <2>4, SteppedType DEF JobInsert, TypeOK
<1> QED BY <1>1, <1>2, <1>3, <1>4, <1>5, <1>6, <1>7

\* Every step keeps the types.
LEMMA NextType ==
  ASSUME TypeInv, [Next]_vars
  PROVE  TypeInv'
<1>1. CASE UNCHANGED vars
  BY <1>1 DEF vars, TypeInv, TypeOK, WorkersOK
<1> QED BY <1>1, ClientStepType, JobStepType DEF Next

\* At the start all workers are idle.
LEMMA InitType ==
  ASSUME Init
  PROVE  TypeInv
<1>1. client \subseteq ClientStates
  BY ClientStatesFact DEF Init, Activated, Kept
<1>2. WorkersOK
  BY IdleType DEF Init, WorkersOK
<1>3. TypeOK
  BY <1>1, <1>2, ClientJobsAssumption DEF Init, TypeOK, WorkersOK
<1> QED BY <1>2, <1>3 DEF TypeInv

\* The rows and the workers stay well typed: the hook of a client never gives a
\* job a state that jobs do not have.
THEOREM TypeCorrect == Spec => []TypeOK
<1>1. Init => TypeInv
  BY InitType
<1>2. TypeInv /\ [Next]_vars => TypeInv'
  BY NextType
<1>3. TypeInv => TypeOK
  BY DEF TypeInv
<1> QED BY <1>1, <1>2, <1>3, PTL DEF Spec

-----------------------------------------------------------------------------
(* Races and places *)

\* A worker that steps leaves the others as they are.
LEMMA GotoOthers ==
  ASSUME WorkersOK, NEW w \in Workers, NEW p, Goto(w, p)
  PROVE  proc'[w] = p /\ \A v \in Workers \ {w} : proc'[v] = proc[v]
BY DEF WorkersOK, Goto

\* What a worker that turns to a job records.
LEMMA TouchRaced ==
  ASSUME TypeInv, RacedOK, NEW w \in Workers, NEW j \in Jobs, Touch(w, j)
  PROVE  RacedOK' /\ raced \subseteq raced'
BY TouchType, ClientJobsAssumption DEF TypeInv, RacedOK, Touch, Peers

\* Whoever steps on is as alone as before.
LEMMA AloneKept ==
  ASSUME TypeInv, NEW w \in Workers, NEW p, Goto(w, p), UNCHANGED raced,
         \A v \in Workers : Alone(v),
         proc[w].at # "idle",
         p.on \in {proc[w].on, NoJob}, p.state \in {proc[w].state, None}
  PROVE  \A v \in Workers : Alone(v)'
<1>1. proc'[w] = p /\ \A v \in Workers \ {w} : proc'[v] = proc[v]
  BY GotoOthers DEF TypeInv
<1>2. \A j : NoJob \notin Peers(j)
  BY ClientJobsAssumption DEF Peers
<1> QED BY <1>1, <1>2, ClientJobsAssumption DEF Alone, Peers

\* Whoever turns to a job is alone at its place, or raced.
LEMMA AloneTouched ==
  ASSUME TypeInv, NEW w \in Workers, NEW j \in Jobs, NEW p, Goto(w, p), Touch(w, j),
         \A v \in Workers : Alone(v),
         p.on = j, p.state \in {proc[w].state, None}
  PROVE  \A v \in Workers : Alone(v)'
<1>1. proc'[w] = p /\ \A v \in Workers \ {w} : proc'[v] = proc[v]
  BY GotoOthers DEF TypeInv
<1>2. CASE ~(ClientChanges \subseteq {w})
  <2>1. raced' = Jobs \cup {NoJob}
    BY <1>2 DEF Touch
  <2> QED BY <2>1 DEF Alone
<1>3. CASE ClientChanges \subseteq {w}
  <2>1. \A v \in Workers \ {w} : proc'[v].state = None
    BY <1>1, <1>3 DEF ClientChanges
  <2>2. /\ raced \subseteq raced'
        /\ \/ \A v \in Workers \ {w} : proc[v].on \notin Peers(j)
           \/ Peers(j) \subseteq raced'
    BY <1>3 DEF Touch, At
  <2>3. ASSUME NEW v \in Workers
        PROVE  proc'[v].on \in Jobs \ raced' =>
                 \A u \in Workers \ {v} : proc'[u].on \notin Peers(proc'[v].on)
    BY <1>1, <2>2 DEF Alone, Peers
  <2>4. ASSUME NEW v \in Workers
        PROVE  proc'[v].state # None /\ NoJob \notin raced' =>
                 \A u \in Workers \ {v} : proc'[u].at = "idle"
    BY <1>1, <2>1, <2>2 DEF Alone
  <2> QED BY <2>3, <2>4 DEF Alone, Peers
<1> QED BY <1>2, <1>3

\* Nobody else works at the place of a job that was not raced, and nobody at
\* any while the client changes.
LEMMA Apart ==
  ASSUME TypeInv, PlaceInv, NEW w \in Workers, NEW v \in Workers \ {w}
  PROVE  /\ proc[v].on \in Jobs \ raced /\ proc[w].on \in Jobs =>
              Place[proc[w].on] # Place[proc[v].on]
         /\ proc[v].state # None /\ NoJob \notin raced => proc[w].at = "idle"
         /\ proc[v].on \in Jobs \ raced => proc[w].state = None \/ proc[v].at = "idle"
<1>1. Alone(v) /\ Alone(w) /\ RacedOK
  BY DEF PlaceInv
<1> QED BY <1>1 DEF Alone, RacedOK, Peers

\* A new state that is allowed is validated.
LEMMA AllowedValid ==
  ASSUME TypeInv, PlaceInv, NEW j \in Jobs, NEW n \in JobStates, JobAllowed(j, n),
         j \notin raced
  PROVE  /\ n = 20 => Unique(j) /\ ClientActive
         /\ n = 60 => \A k \in Peers(j) \ {j} : 20 \notin job[k]
<1>1. n = 20 => Unique(j) /\ ClientActive
  BY DEF JobAllowed
<1>2. n = 60 => 20 \in job[j]
  BY JobAllowedFacts DEF JobAllowed
<1>3. \A k \in Peers(j) : k \in Jobs \ raced /\ Place[k] = Place[j]
  BY DEF PlaceInv, RacedOK, Peers
<1>4. ConfirmedUnique
  BY DEF PlaceInv
<1> QED BY <1>1, <1>2, <1>3, <1>4 DEF ConfirmedUnique

\* A job has one state.
LEMMA OneState ==
  ASSUME TypeInv, JobsOK, NEW j \in Jobs
  PROVE  /\ \A m, n \in job[j] : m = n
         /\ job[j] # {} => j \in exist
BY DEF JobsOK

\* A job whose state the hook may change exists.
LEMMA HookedExists ==
  ASSUME TypeInv, JobsOK, NEW j \in Jobs, NEW n \in {20, 40}, JobAllowed(j, n)
  PROVE  j \in exist
<1>1. job[j] # {}
  BY JobAllowedFacts DEF JobAllowed
<1> QED BY <1>1, OneState

\* What the rows say of a job depends on them alone.
LEMMA RowsKept ==
  ASSUME UNCHANGED <<client, exist, job>>, NEW j, NEW n
  PROVE  /\ Unique(j)' <=> Unique(j)
         /\ JobAllowed(j, n)' <=> JobAllowed(j, n)
         /\ ClientActive' <=> ClientActive
BY DEF Unique, Others, JobAllowed, ClientActive, Allowed

\* A step of worker w that writes no row, and may race.
LEMMA PlaceUnwritten ==
  ASSUME TypeInv, PlaceInv, UNCHANGED <<client, exist, job>>,
         RacedOK', raced \subseteq raced', NEW w \in Workers, NEW p, Goto(w, p),
         \A v \in Workers : Alone(v)',
         WorkerOK(w)', Validated(w)', Rechecked(w)'
  PROVE  PlaceInv'
<1>1. proc'[w] = p /\ \A v \in Workers \ {w} : proc'[v] = proc[v]
  BY GotoOthers DEF TypeInv
<1>2. JobsOK' /\ ConfirmedUnique'
  BY DEF PlaceInv, JobsOK, ConfirmedUnique
<1>3. ASSUME NEW v \in Workers \ {w}
      PROVE  WorkerOK(v)' /\ Validated(v)' /\ Rechecked(v)'
  <2>1. WorkerOK(v) /\ Validated(v) /\ Rechecked(v)
    BY DEF PlaceInv
  <2>2. WorkerOK(v)'
    BY <1>1, <2>1 DEF WorkerOK
  <2>3. Validated(v)'
    BY <1>1, <2>1, RowsKept DEF Validated, Peers
  <2>4. Rechecked(v)'
    BY <1>1, <2>1, RowsKept DEF Rechecked
  <2> QED BY <2>2, <2>3, <2>4
<1> QED BY <1>2, <1>3 DEF PlaceInv

\* A request that starts on the client.
LEMMA BeginClientPlace ==
  ASSUME TypeInv, PlaceInv, NEW w \in Workers, NEW n \in ClientStates,
         BeginClient(w, n)
  PROVE  PlaceInv'
<1> DEFINE p == [Idle EXCEPT !.at = "clear", !.state = n]
<1>1. p.at = "clear" /\ p.state = n /\ p.on = NoJob
  BY DEF Idle
<1>2. Goto(w, p) /\ UNCHANGED <<client, exist, job>>
  BY DEF BeginClient
<1>3. \/ raced' = raced /\ \A v \in Workers : proc[v].at = "idle"
      \/ raced' = Jobs \cup {NoJob}
  BY DEF BeginClient
<1> HIDE DEF p
<1>4. proc'[w] = p /\ \A v \in Workers \ {w} : proc'[v] = proc[v]
  BY <1>2, GotoOthers DEF TypeInv
<1>5. RacedOK' /\ raced \subseteq raced'
  BY <1>3 DEF PlaceInv, RacedOK, Peers, TypeInv, TypeOK
<1>6. ASSUME NEW v \in Workers
      PROVE  Alone(v)'
  <2>1. CASE raced' = Jobs \cup {NoJob}
    BY <2>1 DEF Alone
  <2>2. CASE \A u \in Workers : proc[u].at = "idle"
    <3>1. \A u \in Workers : proc[u].on = NoJob /\ proc[u].state = None
      BY <2>2 DEF PlaceInv, WorkerOK, Idle
    <3>2. \A u \in Workers : proc'[u].on \notin Jobs
      BY <1>1, <1>4, <3>1, ClientJobsAssumption
    <3>3. \A u \in Workers \ {w} : proc'[u].at = "idle" /\ proc'[u].state = None
      BY <1>4, <2>2, <3>1
    <3> QED BY <3>2, <3>3 DEF Alone
  <2> QED BY <1>3, <2>1, <2>2
<1>7. WorkerOK(w)' /\ Validated(w)' /\ Rechecked(w)'
  BY <1>1, <1>4 DEF WorkerOK, Validated, Rechecked, JobSteps
<1> QED BY <1>2, <1>5, <1>6, <1>7, PlaceUnwritten

\* A worker that turns to a job: a new one, one that it looked at, or one whose
\* new state it validated.
LEMMA TouchPlace ==
  ASSUME TypeInv, PlaceInv, NEW w \in Workers, NEW j \in Jobs, NEW p, Goto(w, p),
         Touch(w, j), UNCHANGED <<client, exist, job>>,
         p.on = j, p.state \in {proc[w].state, None}, p.at \in JobSteps,
         p.at # "add" => j \in exist, p.at = "add" => p.state = None,
         p.state # None => p.number = Given(p.state),
         p.number \in JobStates,
         p.at # "add" => JobAllowed(j, p.number)
  PROVE  PlaceInv'
<1>1. proc'[w] = p
  BY GotoOthers DEF TypeInv
<1>2. RacedOK' /\ raced \subseteq raced'
  BY TouchRaced DEF PlaceInv
<1>3. \A v \in Workers : Alone(v)'
  BY AloneTouched DEF PlaceInv
<1>4. WorkerOK(w)'
  BY <1>1 DEF WorkerOK, JobSteps
<1>5. Validated(w)'
  <2>1. CASE p.at \in {"jobclear", "jobinsert"} /\ j \notin raced
    <3>1. /\ p.number = 20 => Unique(j) /\ ClientActive
          /\ p.number = 60 => \A k \in Peers(j) \ {j} : 20 \notin job[k]
      BY <2>1, AllowedValid
    <3>2. (Unique(j)' <=> Unique(j)) /\ (ClientActive' <=> ClientActive)
      BY RowsKept
    <3> QED BY <1>1, <3>1, <3>2 DEF Validated, Peers
  <2>2. CASE ~(p.at \in {"jobclear", "jobinsert"} /\ j \notin raced)
    BY <1>1, <1>2, <2>2 DEF Validated
  <2> QED BY <2>1, <2>2
<1>6. Rechecked(w)'
  <2>1. JobAllowed(j, p.number)' <=> JobAllowed(j, p.number)
    BY RowsKept
  <2> QED BY <1>1, <2>1 DEF Rechecked
<1> QED BY <1>2, <1>3, <1>4, <1>5, <1>6, PlaceUnwritten

\* A worker that goes on without writing a row or turning to another job.
LEMMA PlaceGoesOn ==
  ASSUME TypeInv, PlaceInv, UNCHANGED <<client, exist, job, raced>>,
         NEW w \in Workers, NEW p, Goto(w, p), proc[w].at # "idle",
         p.on \in {proc[w].on, NoJob}, p.state \in {proc[w].state, None},
         WorkerOK(w)', Validated(w)', Rechecked(w)'
  PROVE  PlaceInv'
<1>1. \A v \in Workers : Alone(v)'
  BY AloneKept DEF PlaceInv
<1>2. RacedOK'
  BY DEF PlaceInv, RacedOK, Peers
<1> QED BY <1>1, <1>2, PlaceUnwritten

\* A worker that ends.
LEMMA IdlePlace ==
  ASSUME TypeInv, PlaceInv, UNCHANGED <<client, exist, job, raced>>,
         NEW w \in Workers, Goto(w, Idle), proc[w].at # "idle"
  PROVE  PlaceInv'
<1>1. proc'[w] = Idle
  BY GotoOthers DEF TypeInv
<1>2. WorkerOK(w)' /\ Validated(w)' /\ Rechecked(w)'
  BY <1>1 DEF WorkerOK, Validated, Rechecked, Idle, JobSteps
<1>3. Idle.on = NoJob /\ Idle.state = None
  BY DEF Idle
<1> QED BY <1>2, <1>3, PlaceGoesOn

\* The hook of a client turns to a job, or passes it by.
LEMMA HookPlace ==
  ASSUME TypeInv, PlaceInv, NEW w \in Workers,
         Hook(w) \/ \E j \in Jobs : HookJob(w, j)
  PROVE  PlaceInv'
<1> DEFINE p == proc[w]
<1>0. /\ p \in Procs /\ p.state \in ClientStates \cup {None}
      /\ p.at \in ClientSteps => p.state # None
      /\ WorkerOK(w)
  BY ProcFields DEF TypeInv, WorkersOK, PlaceInv
<1>1. CASE Hook(w)
  <2> DEFINE q == [p EXCEPT !.at = "jobs", !.number = Given(p.state),
                            !.todo = {j \in Jobs : Looked(p.state) \in job[j]}]
  <2>1. /\ q.at = "jobs" /\ q.number = Given(q.state) /\ q.on = p.on
        /\ q.state = p.state /\ p.on = NoJob /\ p.at = "hook"
    BY <1>0, <1>1 DEF Hook, Procs, WorkerOK, JobSteps
  <2>2. Goto(w, q) /\ UNCHANGED <<client, exist, job, raced>>
    BY <1>1 DEF Hook
  <2> HIDE DEF q
  <2>3. proc'[w] = q
    BY <2>2, GotoOthers DEF TypeInv
  <2>4. WorkerOK(w)' /\ Validated(w)' /\ Rechecked(w)'
    BY <2>1, <2>3 DEF WorkerOK, Validated, Rechecked, JobSteps
  <2> QED BY <2>1, <2>2, <2>4, PlaceGoesOn
<1>2. ASSUME NEW j \in Jobs, HookJob(w, j)
      PROVE  PlaceInv'
  <2> DEFINE q == [p EXCEPT !.todo = @ \ {j}]
             r == [q EXCEPT !.at = "check", !.on = j]
  <2>2. /\ q.at = p.at /\ q.state = p.state /\ q.number = p.number /\ q.on = p.on
        /\ r.at = "check" /\ r.state = p.state /\ r.number = p.number /\ r.on = j
    BY <1>0 DEF Procs
  <2>3. UNCHANGED <<client, exist, job>> /\ q.at = "jobs"
    BY <1>2 DEF HookJob
  <2>4. \/ JobAllowed(j, q.number) /\ Goto(w, r) /\ Touch(w, j)
        \/ Goto(w, q) /\ raced' = raced
    BY <1>2 DEF HookJob
  <2> HIDE DEF p, q, r
  <2>1. /\ p.at = "jobs" /\ p.state # None /\ p.number = Given(p.state)
        /\ p.number \in {20, 40} /\ p.on = NoJob
    <3>1. p.at = "jobs" /\ p.state # None
      BY <1>0, <2>2, <2>3 DEF ClientSteps
    <3>2. p.number = Given(p.state) /\ p.on = NoJob
      BY <1>0, <3>1 DEF p, WorkerOK, JobSteps
    <3> QED BY <3>1, <3>2 DEF Given
  <2>5. CASE JobAllowed(j, q.number) /\ Goto(w, r) /\ Touch(w, j)
    <3>1. j \in exist
      BY <2>1, <2>2, <2>5, HookedExists DEF PlaceInv
    <3>2. r.number \in JobStates /\ r.at \in JobSteps
      BY <2>1, <2>2, JobStatesFact DEF JobSteps
    <3> QED BY <2>1, <2>2, <2>3, <2>5, <3>1, <3>2, TouchPlace DEF p
  <2>6. CASE Goto(w, q) /\ raced' = raced
    <3>1. proc'[w] = q
      BY <2>6, GotoOthers DEF TypeInv
    <3>2. WorkerOK(w)' /\ Validated(w)' /\ Rechecked(w)'
      BY <2>1, <2>2, <3>1 DEF WorkerOK, Validated, Rechecked, JobSteps
    <3> QED BY <2>1, <2>2, <2>3, <2>6, <3>2, PlaceGoesOn DEF p
  <2> QED BY <2>4, <2>5, <2>6
<1> QED BY <1>1, <1>2

\* A request that starts on a job.
LEMMA BeginJobPlace ==
  ASSUME TypeInv, PlaceInv, NEW w \in Workers, NEW j \in Jobs,
         BeginCreate(w, j) \/ \E n \in JobStates : BeginJob(w, j, n)
  PROVE  PlaceInv'
<1>1. CASE BeginCreate(w, j)
  <2> DEFINE q == [Idle EXCEPT !.at = "add", !.on = j]
  <2>1. q.at = "add" /\ q.on = j /\ q.state = None /\ q.number = 10
    BY DEF Idle
  <2>2. Goto(w, q) /\ Touch(w, j) /\ UNCHANGED <<client, exist, job>>
    BY <1>1 DEF BeginCreate
  <2>3. q.number \in JobStates /\ q.at \in JobSteps
    BY <2>1, JobStatesFact DEF JobSteps
  <2> HIDE DEF q
  <2> QED BY <2>1, <2>2, <2>3, TouchPlace
<1>2. ASSUME NEW n \in JobStates, BeginJob(w, j, n)
      PROVE  PlaceInv'
  <2> DEFINE q == [Idle EXCEPT !.at = "jobclear", !.on = j, !.number = n]
  <2>1. /\ q.at = "jobclear" /\ q.on = j /\ q.state = None /\ q.number = n
        /\ q.at \in JobSteps
    BY DEF Idle, JobSteps
  <2>2. /\ Goto(w, q) /\ Touch(w, j) /\ UNCHANGED <<client, exist, job>>
        /\ j \in exist /\ JobAllowed(j, n)
    BY <1>2 DEF BeginJob
  <2> HIDE DEF q
  <2> QED BY <2>1, <2>2, TouchPlace
<1> QED BY <1>1, <1>2

\* The validation of a job's new state.
LEMMA CheckPlace ==
  ASSUME TypeInv, PlaceInv, NEW w \in Workers, Check(w)
  PROVE  PlaceInv'
<1> DEFINE p == proc[w]
           q == [p EXCEPT !.at = "jobclear"]
<1>0. /\ p \in Procs /\ p.at = "check" /\ p.on \in Jobs /\ p.number \in JobStates
      /\ WorkerOK(w) /\ UNCHANGED <<client, exist, job, raced>>
  BY ProcFields DEF TypeInv, WorkersOK, PlaceInv, Check, JobSteps
<1>4. p.on \in exist /\ (p.state # None => p.number = Given(p.state))
  BY <1>0 DEF WorkerOK, JobSteps
<1>1. /\ q.at = "jobclear" /\ q.on = p.on /\ q.state = p.state /\ q.number = p.number
  BY <1>0 DEF Procs
<1>2. CASE ~JobAllowed(p.on, p.number)
  <2>1. Goto(w, Idle)
    BY <1>2 DEF Check
  <2> QED BY <1>0, <2>1, IdlePlace
<1>3. CASE JobAllowed(p.on, p.number)
  <2>1. Goto(w, q)
    BY <1>3 DEF Check
  <2> HIDE DEF q
  <2>2. proc'[w] = q
    BY <2>1, GotoOthers DEF TypeInv
  <2> HIDE DEF p
  <2>3. WorkerOK(w)' /\ Rechecked(w)'
    BY <1>0, <1>1, <1>4, <2>2 DEF WorkerOK, Rechecked, JobSteps
  <2>4. p.on \notin raced =>
          /\ p.number = 20 => Unique(p.on) /\ ClientActive
          /\ p.number = 60 => \A k \in Peers(p.on) \ {p.on} : 20 \notin job[k]
    BY <1>0, <1>3, AllowedValid
  <2>5. \A j : (Unique(j)' <=> Unique(j)) /\ (ClientActive' <=> ClientActive)
    BY <1>0, RowsKept
  <2>6. Validated(w)'
    BY <1>0, <1>1, <2>2, <2>4, <2>5 DEF Validated, Peers
  <2> QED BY <1>0, <1>1, <2>1, <2>3, <2>6, PlaceGoesOn DEF p
<1> QED BY <1>2, <1>3

\* The steps that write the client: no other worker is at a job that was not
\* raced, so none has validated one.
LEMMA ClientPlace ==
  ASSUME TypeInv, PlaceInv, NEW w \in Workers, Clear(w) \/ Insert(w)
  PROVE  PlaceInv'
<1> DEFINE p == proc[w]
           q == [p EXCEPT !.at = "hook"]
<1>0. /\ p \in Procs /\ p.at \in ClientSteps /\ p.state # None
      /\ WorkerOK(w) /\ UNCHANGED <<exist, job, raced>> /\ p.on = NoJob
  BY ProcFields DEF TypeInv, WorkersOK, PlaceInv, Clear, Insert, ClientSteps,
     JobSteps, WorkerOK
<1>1. /\ q.at = "hook" /\ q.on = p.on /\ q.state = p.state
      /\ Idle.at = "idle" /\ Idle.on = NoJob /\ Idle.state = None
  BY <1>0 DEF Procs, Idle
<1>2. Goto(w, q) \/ Goto(w, Idle)
  BY DEF Clear, Insert
<1> HIDE DEF q
<1>3. \A v \in Workers : Alone(v)'
  BY <1>0, <1>1, <1>2, AloneKept DEF PlaceInv, ClientSteps
<1>4. /\ proc'[w] \in {q, Idle}
      /\ \A v \in Workers \ {w} : proc'[v] = proc[v]
  BY <1>2, GotoOthers DEF TypeInv
<1>5. WorkerOK(w)' /\ Validated(w)' /\ Rechecked(w)'
  BY <1>0, <1>1, <1>4 DEF WorkerOK, Validated, Rechecked, JobSteps
<1>6. ASSUME NEW v \in Workers \ {w}
      PROVE  WorkerOK(v)' /\ Validated(v)' /\ Rechecked(v)'
  <2>1. WorkerOK(v)'
    BY <1>0, <1>4 DEF PlaceInv, WorkerOK
  <2>2. NoJob \notin raced => proc[v].at = "idle"
    BY <1>0 DEF PlaceInv, Alone
  <2>3. Rechecked(v)'
    BY <1>0, <1>4, <2>2 DEF Rechecked
  <2>4. proc[v].at \in JobSteps => proc[v].on \in Jobs
    BY DEF TypeInv, WorkersOK
  <2>5. Validated(v)'
    BY <1>0, <1>4, <2>2, <2>4 DEF Validated, JobSteps, PlaceInv, RacedOK
  <2> QED BY <2>1, <2>3, <2>5
<1>7. JobsOK' /\ ConfirmedUnique' /\ RacedOK'
  BY <1>0 DEF PlaceInv, JobsOK, ConfirmedUnique, RacedOK, Peers
<1> QED BY <1>3, <1>5, <1>6, <1>7 DEF PlaceInv

\* What another worker has validated of a job concerns other places than that
\* of the job that is written.
LEMMA OthersKept ==
  ASSUME TypeInv, PlaceInv, NEW w \in Workers, proc[w].at \in JobSteps,
         NEW q, Goto(w, q), UNCHANGED <<client, raced>>,
         exist \subseteq exist', exist' \subseteq exist \cup {proc[w].on},
         \A k \in Jobs \ {proc[w].on} : job'[k] = job[k],
         NEW v \in Workers \ {w}
  PROVE  WorkerOK(v)' /\ Validated(v)' /\ Rechecked(v)'
<1> DEFINE i == proc[v].on
           j == proc[w].on
<1>0. /\ proc'[v] = proc[v] /\ j \in Jobs /\ proc[w].at # "idle"
      /\ proc[v].at \in JobSteps => i \in Jobs
      /\ exist \subseteq Jobs
  BY GotoOthers DEF TypeInv, WorkersOK, JobSteps, TypeOK
<1>1. WorkerOK(v)'
  BY <1>0 DEF PlaceInv, WorkerOK
<1>2. Rechecked(v)'
  BY <1>0, Apart DEF Rechecked
<1>3. Validated(v)'
  <2>1. CASE proc[v].at \in {"jobclear", "jobinsert"} /\ i \notin raced
    <3>1. i \in Jobs \ raced /\ Place[j] # Place[i]
      BY <1>0, <2>1, Apart DEF JobSteps
    <3>2. Others(i)' = Others(i) /\ j \notin Others(i)
      BY <1>0, <3>1 DEF Others
    <3>3. \A k \in Others(i) : job'[k] = job[k]
      BY <1>0, <3>2 DEF Others
    <3>4. Unique(i)' <=> Unique(i)
      BY <1>0, <3>2, <3>3 DEF Unique
    <3>5. \A k \in Peers(i) : job'[k] = job[k]
      BY <3>1 DEF Peers
    <3>6. Validated(v)
      BY DEF PlaceInv
    <3> QED BY <1>0, <2>1, <3>4, <3>5, <3>6 DEF Validated, Peers, ClientActive
  <2>2. CASE ~(proc[v].at \in {"jobclear", "jobinsert"} /\ i \notin raced)
    BY <1>0, <2>2 DEF Validated
  <2> QED BY <2>1, <2>2
<1> QED BY <1>1, <1>2, <1>3

\* A step that writes the job it is at.
LEMMA WritePlace ==
  ASSUME TypeInv, PlaceInv, NEW w \in Workers, proc[w].at \in JobSteps,
         NEW q, Goto(w, q), UNCHANGED <<client, raced>>,
         exist \subseteq exist', exist' \subseteq exist \cup {proc[w].on},
         \A k \in Jobs \ {proc[w].on} : job'[k] = job[k],
         q.on \in {proc[w].on, NoJob}, q.state \in {proc[w].state, None},
         WorkerOK(w)', Validated(w)', Rechecked(w)', JobsOK', ConfirmedUnique'
  PROVE  PlaceInv'
<1>1. \A v \in Workers : Alone(v)'
  BY AloneKept DEF PlaceInv, JobSteps
<1>2. \A v \in Workers \ {w} : WorkerOK(v)' /\ Validated(v)' /\ Rechecked(v)'
  BY OthersKept
<1>3. RacedOK'
  BY DEF PlaceInv, RacedOK, Peers
<1> QED BY <1>1, <1>2, <1>3 DEF PlaceInv

\* A new job is inserted.
LEMMA AddPlace ==
  ASSUME TypeInv, PlaceInv, NEW w \in Workers, Add(w)
  PROVE  PlaceInv'
<1> DEFINE p == proc[w]
           q == [p EXCEPT !.at = "check", !.number = 10]
<1>0. /\ p \in Procs /\ p.at = "add" /\ p.on \in Jobs /\ p.state = None
      /\ exist' = exist \cup {p.on} /\ UNCHANGED <<client, job, raced>>
      /\ Goto(w, q)
  BY ProcFields DEF TypeInv, WorkersOK, PlaceInv, WorkerOK, Add, JobSteps
<1>1. q.at = "check" /\ q.on = p.on /\ q.state = None
  BY <1>0 DEF Procs
<1> HIDE DEF q
<1>2. proc'[w] = q
  BY <1>0, GotoOthers DEF TypeInv
<1> HIDE DEF p
<1>3. WorkerOK(w)' /\ Validated(w)' /\ Rechecked(w)'
  BY <1>0, <1>1, <1>2 DEF WorkerOK, Validated, Rechecked, JobSteps
<1>4. JobsOK' /\ ConfirmedUnique'
  BY <1>0 DEF PlaceInv, JobsOK, ConfirmedUnique
<1> QED BY <1>0, <1>1, <1>3, <1>4, WritePlace DEF p, JobSteps

\* What a job keeps of its states, and gets.
LEMMA JobWritten ==
  ASSUME TypeInv, NEW j \in Jobs, NEW n \in JobStates
  PROVE  /\ Kept(JobGraph, job[j], n) \subseteq job[j]
         /\ Activated(JobGraph, job[j], n) = {n}
<1>1. job[j] \subseteq {10, 20, 40, 60}
  BY JobStatesFact DEF TypeInv, TypeOK
<1>2. n \in {10, 20, 40, 60}
  BY JobStatesFact
<1>3. job[j] \cap JobGraph[n].active \subseteq {n}
  <2>1. CASE n = 10
    BY <2>1, JobActiveFacts
  <2>2. CASE n = 20
    BY <2>2, JobActiveFacts
  <2>3. CASE n = 40
    BY <1>1, <2>3, JobActiveFacts
  <2>4. CASE n = 60
    BY <2>4, JobActiveFacts
  <2> QED BY <1>2, <2>1, <2>2, <2>3, <2>4
<1> QED BY <1>3 DEF Kept, Activated

\* The states of the job that do not stay are deactivated.
LEMMA JobClearPlace ==
  ASSUME TypeInv, PlaceInv, NEW w \in Workers, JobClear(w)
  PROVE  PlaceInv'
<1> DEFINE p == proc[w]
           q == [p EXCEPT !.at = "jobinsert"]
<1>0. /\ p \in Procs /\ p.at = "jobclear" /\ p.on \in Jobs /\ p.number \in JobStates
      /\ WorkerOK(w) /\ UNCHANGED <<client, exist, raced>> /\ Goto(w, q)
      /\ job' = [job EXCEPT ![p.on] = Kept(JobGraph, @, p.number)]
  BY ProcFields DEF TypeInv, WorkersOK, PlaceInv, JobClear, JobSteps
<1>1. /\ q.at = "jobinsert" /\ q.on = p.on /\ q.state = p.state /\ q.number = p.number
  BY <1>0 DEF Procs
<1> HIDE DEF q
<1>2. proc'[w] = q
  BY <1>0, GotoOthers DEF TypeInv
<1>3. /\ job'[p.on] \subseteq job[p.on]
      /\ \A k \in Jobs \ {p.on} : job'[k] = job[k]
  <2>1. Kept(JobGraph, job[p.on], p.number) \subseteq job[p.on]
    BY <1>0, JobWritten
  <2> QED BY <1>0, <2>1 DEF TypeInv, TypeOK
<1>4. p.on \in exist /\ (p.state # None => p.number = Given(p.state))
  BY <1>0 DEF WorkerOK, JobSteps
<1>5. Unique(p.on) => (\A k \in Others(p.on) : 60 \in job'[k])
  BY <1>3, <1>0 DEF Unique, Others, TypeInv, TypeOK
<1>6. p.on \notin raced =>
        /\ p.number = 20 => Unique(p.on) /\ ClientActive
        /\ p.number = 60 => \A k \in Peers(p.on) \ {p.on} : 20 \notin job[k]
  BY <1>0 DEF PlaceInv, Validated
<1>7. JobsOK' /\ ConfirmedUnique'
  <2>1. \A k \in Jobs : job'[k] \subseteq job[k]
    BY <1>3
  <2>2. \A k \in Jobs : \A n : job[k] \subseteq {n} => job'[k] \subseteq {n}
    BY <2>1
  <2>3. JobsOK'
    BY <1>0, <2>1, <2>2 DEF PlaceInv, JobsOK
  <2> QED BY <2>1, <2>3, <1>0 DEF PlaceInv, ConfirmedUnique
<1> HIDE DEF p
<1>8. WorkerOK(w)' /\ Rechecked(w)'
  BY <1>0, <1>1, <1>2, <1>4 DEF WorkerOK, Rechecked, JobSteps
<1>9. Validated(w)'
  BY <1>0, <1>1, <1>2, <1>3, <1>5, <1>6
     DEF Validated, Unique, Others, Peers, ClientActive
<1> QED BY <1>0, <1>1, <1>3, <1>7, <1>8, <1>9, WritePlace DEF p, JobSteps

\* The row of its new state is inserted.
LEMMA JobInsertPlace ==
  ASSUME TypeInv, PlaceInv, NEW w \in Workers, JobInsert(w)
  PROVE  PlaceInv'
<1> DEFINE p == proc[w]
           q == [p EXCEPT !.at = "jobs", !.on = NoJob]
           j == p.on
<1>0. /\ p \in Procs /\ p.at = "jobinsert" /\ j \in Jobs /\ p.number \in JobStates
      /\ WorkerOK(w) /\ UNCHANGED <<client, exist, raced>>
      /\ job' = [job EXCEPT ![j] = Activated(JobGraph, @, p.number)]
      /\ Goto(w, Idle) \/ (p.state # None /\ Goto(w, q))
  BY ProcFields DEF TypeInv, WorkersOK, PlaceInv, JobInsert, JobSteps
<1>1. /\ q.at = "jobs" /\ q.on = NoJob /\ q.state = p.state /\ q.number = p.number
      /\ Idle.at = "idle" /\ Idle.on = NoJob /\ Idle.state = None
  BY <1>0 DEF Procs, Idle
<1> HIDE DEF q
<1>2. proc'[w] \in {q, Idle}
  BY <1>0, GotoOthers DEF TypeInv
<1>3. /\ job'[j] = {p.number}
      /\ \A k \in Jobs \ {j} : job'[k] = job[k]
  <2>1. Activated(JobGraph, job[j], p.number) = {p.number}
    BY <1>0, JobWritten
  <2> QED BY <1>0, <2>1 DEF TypeInv, TypeOK
<1>4. j \in exist /\ (p.state # None => p.number = Given(p.state))
  BY <1>0 DEF WorkerOK, JobSteps
<1>5. j \notin raced /\ p.number = 20 => \A k \in Peers(j) \ {j} : 20 \notin job[k]
  <2> SUFFICES ASSUME j \notin raced, p.number = 20, NEW k \in Peers(j) \ {j}
               PROVE  20 \notin job[k]
    OBVIOUS
  <2>1. k \in Jobs /\ Place[k] = Place[j] /\ JobsOK
    BY DEF Peers, PlaceInv
  <2>2. Unique(j)
    BY <1>0 DEF PlaceInv, Validated
  <2>3. CASE k \in exist
    <3>1. 60 \in job[k]
      BY <2>1, <2>2, <2>3 DEF Unique, Others
    <3> QED BY <2>1, <3>1, OneState
  <2>4. CASE k \notin exist
    BY <2>1, <2>4 DEF JobsOK
  <2> QED BY <2>3, <2>4
<1>6. JobsOK'
  BY <1>0, <1>3, <1>4 DEF PlaceInv, JobsOK
<1>7. ConfirmedUnique'
  <2> SUFFICES ASSUME NEW i \in Jobs \ raced, NEW k \in Jobs \ raced,
                      Place[i] = Place[k], 20 \in job'[i], 20 \in job'[k]
               PROVE  i = k
    BY <1>0 DEF ConfirmedUnique
  <2>1. CASE i # j /\ k # j
    BY <1>3, <2>1 DEF PlaceInv, ConfirmedUnique
  <2>2. CASE i = j /\ k # j
    BY <1>3, <1>5, <2>2 DEF Peers
  <2>3. CASE k = j /\ i # j
    BY <1>3, <1>5, <2>3 DEF Peers
  <2> QED BY <2>1, <2>2, <2>3
<1> HIDE DEF p, j
<1>8. WorkerOK(w)' /\ Rechecked(w)' /\ Validated(w)'
  <2>1. CASE proc'[w] = q /\ p.state # None
    BY <1>0, <1>1, <1>4, <2>1 DEF WorkerOK, Rechecked, Validated, JobSteps
  <2>2. CASE proc'[w] = Idle
    BY <1>1, <2>2 DEF WorkerOK, Rechecked, Validated, JobSteps
  <2>3. proc'[w] = Idle \/ (proc'[w] = q /\ p.state # None)
    BY <1>0, GotoOthers DEF TypeInv
  <2> QED BY <2>1, <2>2, <2>3
<1>9. \A k \in Jobs \ {p.on} : job'[k] = job[k]
  BY <1>3 DEF j
<1> QED BY <1>0, <1>1, <1>6, <1>7, <1>8, <1>9, WritePlace DEF p, JobSteps

\* Every step keeps the places.
LEMMA NextPlace ==
  ASSUME TypeInv, PlaceInv, [Next]_vars
  PROVE  PlaceInv'
<1>1. ASSUME NEW w \in Workers, Kill(w)
      PROVE  PlaceInv'
  BY <1>1, IdlePlace DEF Kill
<1>2. CASE UNCHANGED vars
  <2>1. JobsOK' /\ RacedOK' /\ ConfirmedUnique'
    BY <1>2 DEF vars, PlaceInv, JobsOK, RacedOK, Peers, ConfirmedUnique
  <2>2. ASSUME NEW v \in Workers
        PROVE  WorkerOK(v)' /\ Alone(v)' /\ Validated(v)' /\ Rechecked(v)'
    BY <1>2, RowsKept DEF vars, PlaceInv, WorkerOK, Alone, Validated, Rechecked, Peers
  <2> QED BY <2>1, <2>2 DEF PlaceInv
<1> QED BY <1>1, <1>2, BeginClientPlace, ClientPlace, HookPlace, BeginJobPlace,
           AddPlace, CheckPlace, JobClearPlace, JobInsertPlace DEF Next

\* At the start there is no job.
LEMMA InitPlace ==
  ASSUME Init
  PROVE  PlaceInv
<1>1. JobsOK /\ RacedOK /\ ConfirmedUnique
  BY JobStatesFact DEF Init, JobsOK, RacedOK, ConfirmedUnique
<1>2. \A w \in Workers : proc[w] = Idle
  BY DEF Init
<1>3. Idle.at = "idle" /\ Idle.on = NoJob /\ Idle.state = None
  BY DEF Idle
<1>4. \A w \in Workers : WorkerOK(w) /\ Alone(w) /\ Validated(w) /\ Rechecked(w)
  BY <1>2, <1>3, ClientJobsAssumption
     DEF WorkerOK, Alone, Validated, Rechecked, JobSteps
<1> QED BY <1>1, <1>4 DEF PlaceInv

\* However users' choices, suspensions and kills interleave, two jobs that were
\* not raced are never both confirmed at one jobsite and position
\* (is_unique_position_jobsite).
THEOREM PlacesUnique == Spec => []ConfirmedUnique
<1>1. Init => TypeInv /\ PlaceInv
  BY InitType, InitPlace
<1>2. TypeInv /\ PlaceInv /\ [Next]_vars => (TypeInv /\ PlaceInv)'
  BY NextType, NextPlace
<1>3. PlaceInv => ConfirmedUnique
  BY DEF PlaceInv
<1> QED BY <1>1, <1>2, <1>3, PTL DEF Spec

-----------------------------------------------------------------------------
(* Every object has a state *)

\* A job that waits for its state still does after a step of worker w, unless w
\* was the one that brings it.
LEMMA JobComingStays ==
  ASSUME TypeInv, NEW w \in Workers, NEW q, Goto(w, q), NEW j \in Jobs, JobComing(j),
         proc[w].on = j /\ proc[w].at \in {"check", "jobclear", "jobinsert"} =>
           q.on = j /\ (q.at = "jobinsert" \/ (q.at \in {"check", "jobclear"} /\ q.number = 10))
  PROVE  JobComing(j)'
<1>1. proc'[w] = q /\ \A v \in Workers \ {w} : proc'[v] = proc[v]
  BY GotoOthers DEF TypeInv
<1>2. PICK v \in Workers :
        /\ proc[v].on = j
        /\ \/ proc[v].at = "jobinsert"
           \/ proc[v].at \in {"check", "jobclear"} /\ proc[v].number = 10
  BY DEF JobComing
<1>3. CASE v = w
  BY <1>1, <1>2, <1>3 DEF JobComing
<1>4. CASE v # w
  BY <1>1, <1>2, <1>4 DEF JobComing
<1> QED BY <1>3, <1>4

\* A client that waits for its state does, unless the worker that brings it ends.
LEMMA ClientComingStays ==
  ASSUME TypeInv, PlaceInv, NEW w \in Workers, NEW q, Goto(w, q), ClientComing,
         proc[w].state # None /\ proc[w].at # "clear" =>
           q.state # None /\ q.at \notin {"clear", "idle"}
  PROVE  ClientComing'
<1>1. proc'[w] = q /\ \A v \in Workers \ {w} : proc'[v] = proc[v]
  BY GotoOthers DEF TypeInv
<1>2. PICK v \in Workers : proc[v].state # None /\ proc[v].at \notin {"clear", "idle"}
  BY DEF ClientComing
<1>3. CASE v = w
  BY <1>1, <1>2, <1>3 DEF ClientComing
<1>4. CASE v # w
  BY <1>1, <1>2, <1>4 DEF ClientComing
<1> QED BY <1>3, <1>4

\* A worker that turns to a request, or begins to work on a job.
LEMMA BeginState ==
  ASSUME TypeInv, PlaceInv, StateInv, NEW w \in Workers, NEW q, Goto(w, q),
         UNCHANGED <<client, exist, job, faults>>, raced \subseteq raced',
         proc[w].at \in {"idle", "hook", "jobs"},
         proc[w].at # "idle" => q.state # None /\ q.at \notin {"clear", "idle"}
  PROVE  StateInv'
<1>1. proc[w].at = "idle" => proc[w].state = None
  BY DEF PlaceInv, WorkerOK, Idle
<1>2. ASSUME NEW j \in Jobs, JobComing(j)
      PROVE  JobComing(j)'
  BY <1>2, JobComingStays
<1>3. ClientComing => ClientComing'
  BY <1>1, ClientComingStays
<1>4. exist \subseteq Jobs
  BY DEF TypeInv, TypeOK
<1> QED BY <1>2, <1>3, <1>4 DEF StateInv

\* The client's request writes its states.
LEMMA ClientState ==
  ASSUME TypeInv, PlaceInv, StateInv, NEW w \in Workers, Clear(w) \/ Insert(w)
  PROVE  StateInv'
<1> DEFINE p == proc[w]
           q == [p EXCEPT !.at = "hook"]
<1>0. /\ p \in Procs /\ p.at \in {"clear", "jobs"} /\ p.state # None
      /\ UNCHANGED <<exist, job, raced, faults>> /\ exist \subseteq Jobs
  BY ProcFields DEF TypeInv, TypeOK, WorkersOK, Clear, Insert, ClientSteps
<1>1. q.at = "hook" /\ q.state = p.state
  BY <1>0 DEF Procs
<1>2. Goto(w, q) \/ Goto(w, Idle)
  BY DEF Clear, Insert
<1>3. ASSUME NEW j \in Jobs, JobComing(j)
      PROVE  JobComing(j)'
  <2> HIDE DEF q
  <2> QED BY <1>0, <1>2, <1>3, JobComingStays
<1>4. CASE Clear(w)
  <2>1. Goto(w, q)
    BY <1>4 DEF Clear
  <2> HIDE DEF q
  <2>2. proc'[w] = q
    BY <2>1, GotoOthers DEF TypeInv
  <2>3. ClientComing'
    BY <1>0, <1>1, <2>2 DEF ClientComing
  <2> QED BY <1>0, <1>3, <2>3 DEF StateInv
<1>5. CASE Insert(w)
  <2>1. client' # {}
    BY <1>5 DEF Insert, Activated
  <2> QED BY <1>0, <1>3, <2>1 DEF StateInv
<1> QED BY <1>4, <1>5

\* A new job waits for its first state.
LEMMA AddState ==
  ASSUME TypeInv, PlaceInv, StateInv, NEW w \in Workers, Add(w)
  PROVE  StateInv'
<1> DEFINE p == proc[w]
           q == [p EXCEPT !.at = "check", !.number = 10]
<1>0. /\ p \in Procs /\ p.at = "add" /\ p.on \in Jobs /\ p.state = None
      /\ exist' = exist \cup {p.on} /\ UNCHANGED <<client, job, raced, faults>>
      /\ Goto(w, q) /\ exist \subseteq Jobs
  BY ProcFields DEF TypeInv, TypeOK, WorkersOK, PlaceInv, WorkerOK, Add, JobSteps
<1>1. q.at = "check" /\ q.on = p.on /\ q.number = 10
  BY <1>0 DEF Procs
<1> HIDE DEF q
<1>2. proc'[w] = q
  BY <1>0, GotoOthers DEF TypeInv
<1>3. ASSUME NEW j \in Jobs, JobComing(j)
      PROVE  JobComing(j)'
  BY <1>0, <1>3, JobComingStays
<1>4. ASSUME NEW j, j = p.on
      PROVE  JobComing(j)'
  BY <1>1, <1>2, <1>4 DEF JobComing
<1>5. ClientComing => ClientComing'
  BY <1>0, ClientComingStays
<1> QED BY <1>0, <1>3, <1>4, <1>5 DEF StateInv

\* The validation refuses no first state, and no job of a hook.
LEMMA CheckState ==
  ASSUME TypeInv, PlaceInv, StateInv, NEW w \in Workers, Check(w)
  PROVE  StateInv'
<1> DEFINE p == proc[w]
           q == [p EXCEPT !.at = "jobclear"]
<1>0. /\ p \in Procs /\ p.at = "check" /\ p.on \in Jobs
      /\ UNCHANGED <<client, exist, job, raced, faults>> /\ exist \subseteq Jobs
  BY ProcFields DEF TypeInv, TypeOK, WorkersOK, Check, JobSteps
<1>1. /\ q.at = "jobclear" /\ q.on = p.on /\ q.number = p.number /\ q.state = p.state
  BY <1>0 DEF Procs
<1>2. CASE JobAllowed(p.on, p.number)
  <2>1. Goto(w, q)
    BY <1>2 DEF Check
  <2> HIDE DEF q
  <2>2. ASSUME NEW j \in Jobs, JobComing(j)
        PROVE  JobComing(j)'
    <3>1. CASE p.on = j /\ p.number # 10
      <4>1. PICK v \in Workers :
              /\ proc[v].on = j
              /\ \/ proc[v].at = "jobinsert"
                 \/ proc[v].at \in {"check", "jobclear"} /\ proc[v].number = 10
        BY <2>2 DEF JobComing
      <4>2. v # w
        BY <1>0, <3>1, <4>1
      <4>3. proc'[v] = proc[v]
        BY <2>1, <4>2, GotoOthers DEF TypeInv
      <4> QED BY <4>1, <4>3 DEF JobComing
    <3>2. CASE p.on # j \/ p.number = 10
      BY <1>1, <2>1, <2>2, <3>2, JobComingStays
    <3> QED BY <3>1, <3>2
  <2>3. ClientComing => ClientComing'
    BY <1>1, <2>1, ClientComingStays
  <2> QED BY <1>0, <2>2, <2>3 DEF StateInv
<1>3. CASE ~JobAllowed(p.on, p.number)
  <2>1. Goto(w, Idle)
    BY <1>3 DEF Check
  <2>2. ASSUME NEW j \in exist \ raced, job[j] = {}, JobComing(j)
        PROVE  JobComing(j)'
    <3>1. CASE p.on = j /\ p.number = 10
      <4>1. JobAllowed(j, 10)
        BY <2>2, JobAllowedFacts DEF JobAllowed
      <4> QED BY <1>3, <3>1, <4>1
    <3>2. CASE ~(p.on = j /\ p.number = 10)
      <4>1. PICK v \in Workers :
              /\ proc[v].on = j
              /\ \/ proc[v].at = "jobinsert"
                 \/ proc[v].at \in {"check", "jobclear"} /\ proc[v].number = 10
        BY <2>2 DEF JobComing
      <4>2. v # w
        BY <1>0, <3>2, <4>1
      <4>3. proc'[v] = proc[v]
        BY <2>1, <4>2, GotoOthers DEF TypeInv
      <4> QED BY <4>1, <4>3 DEF JobComing
    <3> QED BY <3>1, <3>2
  <2>3. NoJob \notin raced /\ ClientComing => ClientComing'
    <3>1. NoJob \notin raced => p.state = None
      BY <1>0, <1>3 DEF PlaceInv, Rechecked
    <3> QED BY <2>1, <3>1, ClientComingStays
  <2> QED BY <1>0, <2>2, <2>3 DEF StateInv
<1> QED BY <1>2, <1>3

\* A job loses its state only to get another.
LEMMA JobWriteState ==
  ASSUME TypeInv, PlaceInv, StateInv, NEW w \in Workers, JobClear(w) \/ JobInsert(w)
  PROVE  StateInv'
<1> DEFINE p == proc[w]
           q == [p EXCEPT !.at = "jobinsert"]
           r == [p EXCEPT !.at = "jobs", !.on = NoJob]
           i == p.on
<1>0. /\ p \in Procs /\ p.at \in {"jobclear", "jobinsert"} /\ i \in Jobs
      /\ p.number \in JobStates
      /\ UNCHANGED <<client, exist, raced, faults>> /\ exist \subseteq Jobs
      /\ \A k \in Jobs \ {i} : job'[k] = job[k]
  BY ProcFields DEF TypeInv, TypeOK, WorkersOK, JobClear, JobInsert, JobSteps
<1>1. /\ q.at = "jobinsert" /\ q.on = i /\ q.state = p.state
      /\ r.at = "jobs" /\ r.state = p.state
      /\ Idle.at = "idle"
  BY <1>0 DEF Procs, Idle
<1>2. /\ JobClear(w) => Goto(w, q)
      /\ JobInsert(w) => \/ Goto(w, Idle) /\ p.state = None
                         \/ Goto(w, r) /\ p.state # None
  BY DEF JobClear, JobInsert
<1>3. JobInsert(w) => job'[i] # {}
  <2>1. Activated(JobGraph, job[i], p.number) # {}
    BY DEF Activated
  <2> QED BY <1>0, <2>1 DEF JobInsert, TypeInv, TypeOK
<1> HIDE DEF q, r
<1>4. ClientComing => ClientComing'
  <2>1. CASE Goto(w, q)
    BY <1>1, <2>1, ClientComingStays
  <2>2. CASE Goto(w, r) /\ p.state # None
    BY <1>1, <2>2, ClientComingStays
  <2>3. CASE Goto(w, Idle) /\ p.state = None
    BY <2>3, ClientComingStays
  <2> QED BY <1>2, <2>1, <2>2, <2>3
<1>5. ASSUME NEW j \in Jobs, j # i, JobComing(j)
      PROVE  JobComing(j)'
  BY <1>2, <1>5, JobComingStays
<1>6. ASSUME JobClear(w), NEW j, j = i
      PROVE  JobComing(j)'
  <2>1. proc'[w] = q
    BY <1>2, <1>6, GotoOthers DEF TypeInv
  <2> QED BY <1>1, <1>6, <2>1 DEF JobComing
<1> HIDE DEF i
<1> QED BY <1>0, <1>3, <1>4, <1>5, <1>6 DEF StateInv

\* Every step keeps the states.
LEMMA NextState ==
  ASSUME TypeInv, PlaceInv, StateInv, [Next]_vars
  PROVE  StateInv'
<1>1. CASE UNCHANGED vars
  BY <1>1 DEF vars, StateInv, JobComing, ClientComing
<1>2. ASSUME NEW w \in Workers, NEW n \in ClientStates, BeginClient(w, n)
      PROVE  StateInv'
  <2>1. raced \subseteq raced'
    BY <1>2 DEF BeginClient, TypeInv, TypeOK
  <2> QED BY <1>2, <2>1, BeginState DEF BeginClient
<1>3. ASSUME NEW w \in Workers, NEW j \in Jobs,
             BeginCreate(w, j) \/ \E n \in JobStates : BeginJob(w, j, n)
      PROVE  StateInv'
  <2>1. raced \subseteq raced'
    BY <1>3, TouchType DEF BeginCreate, BeginJob, TypeInv
  <2> QED BY <1>3, <2>1, BeginState DEF BeginCreate, BeginJob
<1>4. ASSUME NEW w \in Workers, Hook(w) \/ \E j \in Jobs : HookJob(w, j)
      PROVE  StateInv'
  <2> DEFINE p == proc[w]
  <2>0. p \in Procs
    BY ProcFields DEF TypeInv
  <2>1. PICK q : /\ Goto(w, q) /\ q.state = p.state /\ q.at \in {"jobs", "check"}
                 /\ UNCHANGED <<client, exist, job, faults>> /\ raced \subseteq raced'
                 /\ p.at \in {"hook", "jobs"}
    <3>1. CASE Hook(w)
      <4> DEFINE s == [p EXCEPT !.at = "jobs", !.number = Given(p.state),
                                !.todo = {j \in Jobs : Looked(p.state) \in job[j]}]
      <4>1. s.state = p.state /\ s.at = "jobs"
        BY <2>0 DEF Procs
      <4>2. Goto(w, s)
        BY <3>1 DEF Hook
      <4> HIDE DEF s
      <4> QED BY <3>1, <4>1, <4>2 DEF Hook
    <3>2. ASSUME NEW j \in Jobs, HookJob(w, j)
          PROVE  \E q : /\ Goto(w, q) /\ q.state = p.state /\ q.at \in {"jobs", "check"}
                        /\ UNCHANGED <<client, exist, job, faults>>
                        /\ raced \subseteq raced' /\ p.at \in {"hook", "jobs"}
      <4> DEFINE s == [p EXCEPT !.todo = @ \ {j}]
                 r == [s EXCEPT !.at = "check", !.on = j]
      <4>1. s.state = p.state /\ r.state = p.state /\ r.at = "check" /\ s.at = p.at
        BY <2>0 DEF Procs
      <4>2. s.at = "jobs" /\ UNCHANGED <<client, exist, job, faults>>
        BY <3>2 DEF HookJob
      <4>3. (Goto(w, r) /\ Touch(w, j)) \/ (Goto(w, s) /\ UNCHANGED raced)
        BY <3>2 DEF HookJob
      <4> HIDE DEF s, r
      <4>4. raced \subseteq raced'
        BY <4>3, TouchType DEF TypeInv
      <4> QED BY <4>1, <4>2, <4>3, <4>4
    <3> QED BY <1>4, <3>1, <3>2
  <2>2. p.state # None
    BY <2>1 DEF TypeInv, WorkersOK, ClientSteps
  <2> QED BY <2>1, <2>2, BeginState
<1>5. ASSUME NEW w \in Workers, Kill(w)
      PROVE  StateInv'
  <2>1. faults' # 0
    BY <1>5, ClientJobsAssumption DEF Kill, TypeInv, TypeOK
  <2> QED BY <2>1 DEF StateInv
<1> QED BY <1>1, <1>2, <1>3, <1>4, <1>5, ClientState, AddState, CheckState,
           JobWriteState DEF Next

\* At the start the client has a state, and there is no job.
LEMMA InitState ==
  ASSUME Init
  PROVE  StateInv
BY DEF Init, StateInv, Activated

\* Unless a request was killed, neither the client nor a job is left without a
\* state when the requests have ended: no validation fails after the states that
\* do not stay were deactivated (WorkflowObject.save and clean).
THEOREM NoStateless == Spec => []SomeState
<1>1. Init => TypeInv /\ PlaceInv /\ StateInv
  BY InitType, InitPlace, InitState
<1>2. TypeInv /\ PlaceInv /\ StateInv /\ [Next]_vars => (TypeInv /\ PlaceInv /\ StateInv)'
  BY NextType, NextPlace, NextState
<1>3. StateInv => SomeState
  BY DEF StateInv, SomeState, Quiet, JobComing, ClientComing
<1> QED BY <1>1, <1>2, <1>3, PTL DEF Spec

-----------------------------------------------------------------------------
(* Jobs are confirmed for active clients *)

\* A new state of a client finds the states before it active.
LEMMA LadderAllowed ==
  ASSUME ClientOK, NEW n \in Ladder, Allowed(ClientGraph, client, n),
         NEW m \in Ladder, m < n
  PROVE  m \in client
<1>1. n \in {10, 20, 30, 40, 60, 70} /\ m \in {10, 20, 30, 40, 60, 70}
  BY DEF Ladder
<1>2. CASE n = 10
  BY <1>1, <1>2
<1>3. CASE n = 20
  <2>1. 10 \in client
    BY <1>3, ClientAllowedFacts
  <2> QED BY <1>1, <1>3, <2>1
<1>4. CASE n = 30
  <2>1. 20 \in client
    BY <1>4, ClientAllowedFacts
  <2>2. m = 20 \/ m < 20
    BY <1>1, <1>4
  <2> QED BY <2>1, <2>2, <1>1 DEF ClientOK, Ladder
<1>5. CASE n = 40
  <2>1. 30 \in client
    BY <1>5, ClientAllowedFacts
  <2>2. m = 30 \/ m < 30
    BY <1>1, <1>5
  <2> QED BY <2>1, <2>2, <1>1 DEF ClientOK, Ladder
<1>6. CASE n = 60
  <2>1. 40 \in client
    BY <1>6, ClientAllowedFacts
  <2>2. m = 40 \/ m < 40
    BY <1>1, <1>6
  <2> QED BY <2>1, <2>2, <1>1 DEF ClientOK, Ladder
<1>7. CASE n = 70
  <2>1. 60 \in client
    BY <1>7, ClientAllowedFacts
  <2>2. m = 60 \/ m < 60
    BY <1>1, <1>7
  <2> QED BY <2>1, <2>2, <1>1 DEF ClientOK, Ladder
<1> QED BY <1>1, <1>2, <1>3, <1>4, <1>5, <1>6, <1>7

\* The states that stay with a state come with those before them.
LEMMA ActiveLadder ==
  ASSUME NEW n \in ClientStates, NEW m \in Ladder
  PROVE  /\ \A k \in Ladder : m < k /\ k \in ClientGraph[n].active =>
              m \in ClientGraph[n].active
         /\ n \in Ladder /\ m < n => m \in ClientGraph[n].active
<1>0. m \in {10, 20, 30, 40, 60, 70}
  BY DEF Ladder
<1>1. CASE n = 0
  BY <1>1, ClientActiveFacts DEF Ladder
<1>2. CASE n = 10
  BY <1>0, <1>2, ClientActiveFacts DEF Ladder
<1>3. CASE n = 20
  BY <1>0, <1>3, ClientActiveFacts DEF Ladder
<1>4. CASE n = 30
  BY <1>0, <1>4, ClientActiveFacts DEF Ladder
<1>5. CASE n = 40
  BY <1>0, <1>5, ClientActiveFacts DEF Ladder
<1>6. CASE n = 60
  BY <1>0, <1>6, ClientActiveFacts DEF Ladder
<1>7. CASE n = 70
  BY <1>0, <1>7, ClientActiveFacts DEF Ladder
<1>8. CASE n = 80
  BY <1>0, <1>8, ClientActiveFacts DEF Ladder
<1>9. CASE n = 90
  BY <1>0, <1>9, ClientActiveFacts DEF Ladder
<1> QED BY ClientStatesFact, <1>1, <1>2, <1>3, <1>4, <1>5, <1>6, <1>7, <1>8, <1>9

\* An active client stays active with a new state, except with three.
LEMMA ActiveStays ==
  ASSUME NEW n \in ClientStates, 70 \notin ClientGraph[n].active
  PROVE  n \in {0, 80, 90} \/ (n \in Ladder /\ n < 70)
<1>1. n # 70
  BY ClientActiveFacts
<1> QED BY <1>1, ClientStatesFact DEF Ladder

\* A worker that goes on without writing the client.
LEMMA RowsGoOn ==
  ASSUME TypeInv, ClientRows, UNCHANGED client, raced \subseteq raced',
         NEW w \in Workers, NEW q, Goto(w, q),
         q.state \in {proc[w].state, None},
         proc[w].at = "clear" => q.at = "clear" \/ q.state = None
  PROVE  ClientRows'
<1>1. proc'[w] = q /\ \A v \in Workers \ {w} : proc'[v] = proc[v]
  BY GotoOthers DEF TypeInv
<1>2. ASSUME NoJob \notin raced'
      PROVE  ClientOK' /\ \A v \in Workers : ClientChange(v)'
  <2>1. ClientOK /\ \A v \in Workers : ClientChange(v)
    BY <1>2 DEF ClientRows
  <2>2. ClientOK'
    BY <2>1 DEF ClientOK
  <2>3. ASSUME NEW v \in Workers
        PROVE  ClientChange(v)'
    <3>1. CASE v # w
      BY <1>1, <2>1, <3>1 DEF ClientChange
    <3>2. CASE v = w
      BY <1>1, <2>1, <3>2 DEF ClientChange
    <3> QED BY <3>1, <3>2
  <2> QED BY <2>2, <2>3
<1> QED BY <1>2 DEF ClientRows

\* A request that starts on the client.
LEMMA BeginRows ==
  ASSUME TypeInv, PlaceInv, ClientRows, NEW w \in Workers, NEW n \in ClientStates,
         BeginClient(w, n)
  PROVE  ClientRows'
<1> DEFINE q == [Idle EXCEPT !.at = "clear", !.state = n]
<1>1. q.at = "clear" /\ q.state = n
  BY DEF Idle
<1>2. Goto(w, q) /\ UNCHANGED client /\ Allowed(ClientGraph, client, n)
  BY DEF BeginClient
<1> HIDE DEF q
<1>3. proc'[w] = q /\ \A v \in Workers \ {w} : proc'[v] = proc[v]
  BY <1>2, GotoOthers DEF TypeInv
<1>4. ASSUME NoJob \notin raced'
      PROVE  ClientOK' /\ \A v \in Workers : ClientChange(v)'
  <2>1. raced' = raced /\ \A v \in Workers : proc[v].at = "idle"
    BY <1>4 DEF BeginClient
  <2>2. ClientOK
    BY <1>4, <2>1 DEF ClientRows
  <2>3. ClientOK'
    BY <1>2, <2>2 DEF ClientOK
  <2>4. ASSUME NEW v \in Workers \ {w}
        PROVE  ClientChange(v)'
    <3>1. proc[v].state = None
      BY <2>1 DEF PlaceInv, WorkerOK, Idle
    <3> QED BY <1>3, <3>1 DEF ClientChange
  <2>5. ClientChange(w)'
    <3>1. n \notin client
      BY <1>2 DEF Allowed
    <3>2. n \in Ladder => \A m \in Ladder : m < n => m \in client
      BY <1>2, <2>2, LadderAllowed
    <3> QED BY <1>1, <1>2, <1>3, <3>1, <3>2 DEF ClientChange
  <2> QED BY <2>3, <2>4, <2>5
<1> QED BY <1>4 DEF ClientRows

\* While a client that was not raced changes, all others are idle.
LEMMA OthersIdle ==
  ASSUME TypeInv, PlaceInv, NEW w \in Workers, proc[w].at \in ClientSteps,
         NoJob \notin raced, NEW v \in Workers \ {w}
  PROVE  proc[v] = Idle /\ proc[v].state = None
<1>1. proc[w].state # None
  BY DEF TypeInv, WorkersOK
<1>2. proc[v].at = "idle"
  BY <1>1 DEF PlaceInv, Alone
<1> QED BY <1>2 DEF PlaceInv, WorkerOK, Idle

\* The states that do not stay are deactivated.
LEMMA ClearRows ==
  ASSUME TypeInv, PlaceInv, ClientRows, NEW w \in Workers, Clear(w)
  PROVE  ClientRows'
<1> DEFINE p == proc[w]
           n == p.state
           q == [p EXCEPT !.at = "hook"]
<1>0. /\ p \in Procs /\ p.at = "clear" /\ n \in ClientStates /\ n # None
      /\ client' = client \cap ClientGraph[n].active /\ raced' = raced
      /\ Goto(w, q)
  BY ProcFields DEF TypeInv, WorkersOK, Clear, Kept, ClientSteps
<1>1. q.at = "hook" /\ q.state = n
  BY <1>0 DEF Procs
<1> HIDE DEF q
<1>2. proc'[w] = q /\ \A v \in Workers \ {w} : proc'[v] = proc[v]
  BY <1>0, GotoOthers DEF TypeInv
<1>3. ASSUME NoJob \notin raced
      PROVE  ClientOK' /\ \A v \in Workers : ClientChange(v)'
  <2>1. ClientOK /\ ClientChange(w)
    BY <1>3 DEF ClientRows
  <2>2. ClientOK'
    BY <1>0, <2>1, ActiveLadder DEF ClientOK
  <2>3. ClientChange(w)'
    BY <1>0, <1>1, <1>2, <2>1, ActiveLadder DEF ClientChange
  <2>4. ASSUME NEW v \in Workers \ {w}
        PROVE  ClientChange(v)'
    <3>1. proc[v].state = None
      BY <1>0, <1>3, OthersIdle DEF ClientSteps
    <3> QED BY <1>2, <3>1 DEF ClientChange
  <2> QED BY <2>2, <2>3, <2>4
<1> QED BY <1>0, <1>3 DEF ClientRows

\* The row of the new state of the client: what is active stays with it.
LEMMA InsertRows ==
  ASSUME TypeInv, PlaceInv, ClientRows, NEW w \in Workers, Insert(w)
  PROVE  ClientRows' /\ (NoJob \notin raced => client \subseteq client')
<1> DEFINE p == proc[w]
           n == p.state
<1>0. /\ p.at = "jobs" /\ n \in ClientStates /\ n # None
      /\ client' = (client \cap ClientGraph[n].active) \cup {n} /\ raced' = raced
      /\ Goto(w, Idle)
  BY ProcFields DEF TypeInv, WorkersOK, Insert, Activated, Kept, ClientSteps
<1>1. proc'[w] = Idle /\ Idle.state = None /\ \A v \in Workers \ {w} : proc'[v] = proc[v]
  BY <1>0, GotoOthers DEF TypeInv, Idle
<1>3. ASSUME NoJob \notin raced
      PROVE  ClientOK' /\ (\A v \in Workers : ClientChange(v)') /\ client \subseteq client'
  <2>1. ClientOK /\ ClientChange(w)
    BY <1>3 DEF ClientRows
  <2>2. client' = client \cup {n}
    BY <1>0, <2>1 DEF ClientChange
  <2>3. n \in Ladder => \A m \in Ladder : m < n => m \in client
    BY <1>0, <2>1 DEF ClientChange
  <2>4. ClientOK'
    BY <2>1, <2>2, <2>3 DEF ClientOK
  <2>5. ASSUME NEW v \in Workers \ {w}
        PROVE  ClientChange(v)'
    <3>1. proc[v].state = None
      BY <1>0, <1>3, OthersIdle DEF ClientSteps
    <3> QED BY <1>1, <3>1 DEF ClientChange
  <2>6. ClientChange(w)'
    BY <1>1 DEF ClientChange
  <2> QED BY <2>2, <2>4, <2>5, <2>6
<1> QED BY <1>0, <1>3 DEF ClientRows

\* A hook that goes on still has the job to put on hold.
LEMMA SuspendingStays ==
  ASSUME TypeInv, NEW w \in Workers, NEW q, Goto(w, q), NEW j, Suspending(j),
         Suspends(proc[w], j) => Suspends(q, j)
  PROVE  Suspending(j)'
<1>1. proc'[w] = q /\ \A v \in Workers \ {w} : proc'[v] = proc[v]
  BY GotoOthers DEF TypeInv
<1>2. PICK v \in Workers : Suspends(proc[v], j)
  BY DEF Suspending
<1>3. Suspends(proc'[v], j)
  BY <1>1, <1>2
<1> QED BY <1>3 DEF Suspending

\* A job that was not raced, beside the client.
LEMMA NotRaced ==
  ASSUME RacedOK, NEW j \in Jobs \ raced
  PROVE  NoJob \notin raced /\ \A k \in Jobs : Place[k] = Place[j] => k \notin raced
BY DEF RacedOK, Peers

\* A worker that starts a request.
LEMMA BeginFollow ==
  ASSUME TypeInv, PlaceInv, JobsFollow, NEW w \in Workers, proc[w].at = "idle",
         NEW q, Goto(w, q), raced \subseteq raced',
         UNCHANGED <<client, exist, job, left>>
  PROVE  JobsFollow'
<1>1. proc[w].state = None
  BY DEF PlaceInv, WorkerOK, Idle
<1>2. ASSUME NEW j \in Jobs \ (left' \cup raced'), 20 \in job'[j], Unique(j)'
      PROVE  ClientActive' \/ Suspending(j)'
  <2>1. ClientActive \/ Suspending(j)
    BY <1>2, RowsKept DEF JobsFollow
  <2>2. ~Suspends(proc[w], j)
    BY <1>1 DEF Suspends, None
  <2> QED BY <2>1, <2>2, RowsKept, SuspendingStays
<1> QED BY <1>2 DEF JobsFollow

\* The hook of a suspended client looks for the confirmed jobs.
LEMMA HookFollow ==
  ASSUME TypeInv, PlaceInv, JobsFollow, NEW w \in Workers, Hook(w)
  PROVE  JobsFollow'
<1> DEFINE p == proc[w]
           q == [p EXCEPT !.at = "jobs", !.number = Given(p.state),
                          !.todo = {j \in Jobs : Looked(p.state) \in job[j]}]
<1>0. /\ p \in Procs /\ Goto(w, q) /\ UNCHANGED <<client, exist, job, left, raced>>
  BY ProcFields DEF TypeInv, Hook
<1>1. q.at = "jobs" /\ q.state = p.state
  BY <1>0 DEF Procs
<1>2. q.todo = {j \in Jobs : Looked(p.state) \in job[j]}
  BY <1>0 DEF Procs
<1>3. Looked(80) = 20
  BY DEF Looked
<1> HIDE DEF q
<1>4. ASSUME NEW j \in Jobs \ (left' \cup raced'), 20 \in job'[j], Unique(j)'
      PROVE  ClientActive' \/ Suspending(j)'
  <2>1. ClientActive \/ Suspending(j)
    BY <1>0, <1>4, RowsKept DEF JobsFollow
  <2>2. Suspends(p, j) => Suspends(q, j)
    BY <1>0, <1>1, <1>2, <1>3, <1>4 DEF Suspends
  <2> HIDE DEF p
  <2> QED BY <1>0, <2>1, <2>2, RowsKept, SuspendingStays DEF p
<1> QED BY <1>4 DEF JobsFollow

\* It turns to a job: one that is passed by was not confirmed, or not alone.
LEMMA HookJobFollow ==
  ASSUME TypeInv, PlaceInv, JobsFollow, NEW w \in Workers, NEW i \in Jobs,
         HookJob(w, i)
  PROVE  JobsFollow'
<1> DEFINE p == proc[w]
           q == [p EXCEPT !.todo = @ \ {i}]
           r == [q EXCEPT !.at = "check", !.on = i]
<1>0. /\ p \in Procs /\ UNCHANGED <<client, exist, job, left>> /\ q.at = "jobs"
      /\ JobsOK
  BY ProcFields DEF TypeInv, PlaceInv, HookJob
<1>1. /\ q.at = p.at /\ q.state = p.state /\ q.number = p.number /\ q.on = p.on
      /\ q.todo = p.todo \ {i}
      /\ r.at = "check" /\ r.state = p.state /\ r.on = i /\ r.todo = p.todo \ {i}
  BY <1>0 DEF Procs
<1>2. \/ Goto(w, r) /\ Touch(w, i)
      \/ Goto(w, q) /\ raced' = raced /\ ~JobAllowed(i, q.number)
  BY DEF HookJob
<1> HIDE DEF q, r
<1>3. p.on = NoJob /\ p.state # None /\ p.number = Given(p.state)
  BY <1>0, <1>1 DEF PlaceInv, WorkerOK, JobSteps, TypeInv, WorkersOK, ClientSteps
<1>4. raced \subseteq raced'
  BY <1>2, TouchType DEF TypeInv
<1>5. ASSUME NEW j \in Jobs \ (left' \cup raced'), 20 \in job'[j], Unique(j)'
      PROVE  ClientActive' \/ Suspending(j)'
  <2>0. 20 \in job[j] /\ Unique(j)
    BY <1>0, <1>5, RowsKept
  <2>1. ClientActive \/ Suspending(j)
    BY <1>0, <1>4, <1>5, <2>0 DEF JobsFollow
  <2>2. Suspends(p, j) => p.state = 80 /\ j \in p.todo
    BY <1>0, <1>1, <1>3, ClientJobsAssumption DEF Suspends
  <2>3. CASE Goto(w, r) /\ Touch(w, i)
    <3>1. Suspends(p, j) => Suspends(r, j)
      BY <1>1, <2>2 DEF Suspends
    <3> HIDE DEF p
    <3> QED BY <1>0, <2>1, <2>3, <3>1, RowsKept, SuspendingStays DEF p
  <2>4. CASE Goto(w, q) /\ raced' = raced /\ ~JobAllowed(i, q.number)
    <3>1. p.state = 80 => i # j
      <4> SUFFICES ASSUME p.state = 80, i = j
                   PROVE  FALSE
        OBVIOUS
      <4>1. q.number = 40
        BY <1>1, <1>3 DEF Given
      <4>2. 40 \notin job[j]
        BY <1>0, <2>0, OneState
      <4>3. Allowed(JobGraph, job[j], 40)
        BY <2>0, <4>2, JobAllowedFacts
      <4>4. JobAllowed(j, 40)
        BY <2>0, <4>3 DEF JobAllowed
      <4> QED BY <2>4, <4>1, <4>4
    <3>2. Suspends(p, j) => Suspends(q, j)
      BY <1>0, <1>1, <2>2, <3>1 DEF Suspends
    <3> HIDE DEF p
    <3> QED BY <1>0, <2>1, <2>4, <3>2, RowsKept, SuspendingStays DEF p
  <2> QED BY <1>2, <2>3, <2>4
<1> QED BY <1>5 DEF JobsFollow

\* A state that is deactivated is that of a client that is suspended, or banned
\* or cancelled.
LEMMA ClearFollow ==
  ASSUME TypeInv, PlaceInv, ClientRows, JobsFollow, NEW w \in Workers, Clear(w)
  PROVE  JobsFollow'
<1> DEFINE p == proc[w]
           n == p.state
           q == [p EXCEPT !.at = "hook"]
<1>0. /\ p \in Procs /\ p.at = "clear" /\ n \in ClientStates /\ n # None
      /\ client' = client \cap ClientGraph[n].active
      /\ UNCHANGED <<raced, exist, job>> /\ RacedOK
      /\ Goto(w, q)
  BY ProcFields DEF TypeInv, PlaceInv, WorkersOK, Clear, Kept, ClientSteps
<1>1. q.at = "hook" /\ q.state = n
  BY <1>0 DEF Procs
<1>2. /\ left \subseteq left'
      /\ ClientActive /\ n \in {0, 90} => \A j \in Jobs : 20 \in job[j] => j \in left'
  BY DEF Clear
<1> HIDE DEF q
<1>3. proc'[w] = q
  BY <1>0, GotoOthers DEF TypeInv
<1>4. ASSUME NEW j \in Jobs \ (left' \cup raced'), 20 \in job'[j], Unique(j)'
      PROVE  ClientActive' \/ Suspending(j)'
  <2>0. 20 \in job[j] /\ Unique(j)
    BY <1>0, <1>4 DEF Unique, Others
  <2>1. NoJob \notin raced
    BY <1>0, <1>4, NotRaced
  <2>2. ClientOK /\ ClientChange(w)
    BY <2>1 DEF ClientRows
  <2>3. ClientActive
    <3>1. ~Suspending(j)
      <4>1. ~Suspends(proc[w], j)
        BY <1>0 DEF Suspends
      <4>2. ASSUME NEW v \in Workers \ {w}
            PROVE  ~Suspends(proc[v], j)
        <5>1. proc[v].state = None
          BY <1>0, <2>1, OthersIdle DEF ClientSteps
        <5> QED BY <5>1 DEF Suspends, None
      <4> QED BY <4>1, <4>2 DEF Suspending
    <3> QED BY <1>0, <1>2, <1>4, <2>0, <3>1 DEF JobsFollow
  <2>4. CASE 70 \in ClientGraph[n].active
    BY <1>0, <2>3, <2>4 DEF ClientActive
  <2>5. CASE n \in {0, 90}
    BY <1>2, <1>4, <2>0, <2>3, <2>5
  <2>6. CASE n = 80
    <3>1. Suspends(proc'[w], j)
      BY <1>1, <1>3, <2>6 DEF Suspends
    <3> QED BY <3>1 DEF Suspending
  <2>7. ~(n \in Ladder /\ n < 70)
    BY <1>0, <2>2, <2>3 DEF ClientOK, ClientChange, ClientActive, Ladder
  <2> QED BY <1>0, <2>4, <2>5, <2>6, <2>7, ActiveStays
<1> QED BY <1>4 DEF JobsFollow

\* The row of the client is inserted when its hook has no more jobs.
LEMMA InsertFollow ==
  ASSUME TypeInv, PlaceInv, ClientRows, JobsFollow, NEW w \in Workers, Insert(w)
  PROVE  JobsFollow'
<1>0. /\ proc[w].at = "jobs" /\ proc[w].todo = {} /\ Goto(w, Idle)
      /\ UNCHANGED <<raced, exist, job, left>> /\ RacedOK
  BY DEF PlaceInv, Insert
<1>1. proc[w].on = NoJob
  BY <1>0 DEF PlaceInv, WorkerOK, JobSteps
<1>2. ASSUME NEW j \in Jobs \ (left' \cup raced'), 20 \in job'[j], Unique(j)'
      PROVE  ClientActive' \/ Suspending(j)'
  <2>1. ClientActive \/ Suspending(j)
    BY <1>0, <1>2 DEF Unique, Others, JobsFollow
  <2>2. NoJob \notin raced
    BY <1>0, <1>2, NotRaced
  <2>3. ClientActive => ClientActive'
    BY <2>2, InsertRows DEF ClientActive
  <2>4. ~Suspends(proc[w], j)
    BY <1>0, <1>1, ClientJobsAssumption DEF Suspends
  <2> QED BY <1>0, <2>1, <2>3, <2>4, SuspendingStays
<1> QED BY <1>2 DEF JobsFollow

\* A new job can only make others less alone.
LEMMA AddFollow ==
  ASSUME TypeInv, PlaceInv, JobsFollow, NEW w \in Workers, Add(w)
  PROVE  JobsFollow'
<1> DEFINE q == [proc[w] EXCEPT !.at = "check", !.number = 10]
<1>0. /\ proc[w].state = None /\ exist \subseteq exist' /\ Goto(w, q)
      /\ UNCHANGED <<client, job, left, raced>>
  BY DEF PlaceInv, WorkerOK, Add
<1> HIDE DEF q
<1>1. ASSUME NEW j \in Jobs \ (left' \cup raced'), 20 \in job'[j], Unique(j)'
      PROVE  ClientActive' \/ Suspending(j)'
  <2>1. Unique(j)
    BY <1>0, <1>1 DEF Unique, Others
  <2>2. ClientActive \/ Suspending(j)
    BY <1>0, <1>1, <2>1 DEF JobsFollow
  <2>3. ~Suspends(proc[w], j)
    BY <1>0 DEF Suspends, None
  <2> QED BY <1>0, <2>2, <2>3, SuspendingStays DEF ClientActive
<1> QED BY <1>1 DEF JobsFollow

\* The validation of a hold does not fail.
LEMMA CheckFollow ==
  ASSUME TypeInv, PlaceInv, JobsFollow, NEW w \in Workers, Check(w)
  PROVE  JobsFollow'
<1> DEFINE p == proc[w]
           q == [p EXCEPT !.at = "jobclear"]
<1>0. /\ p \in Procs /\ p.at = "check" /\ RacedOK
      /\ UNCHANGED <<client, exist, job, left, raced>>
      /\ IF JobAllowed(p.on, p.number) THEN Goto(w, q) ELSE Goto(w, Idle)
  BY ProcFields DEF TypeInv, PlaceInv, Check
<1>1. q.at = "jobclear" /\ q.on = p.on /\ q.state = p.state /\ q.todo = p.todo
  BY <1>0 DEF Procs
<1> HIDE DEF q
<1>2. ASSUME NEW j \in Jobs \ (left' \cup raced'), 20 \in job'[j], Unique(j)'
      PROVE  ClientActive' \/ Suspending(j)'
  <2>1. ClientActive \/ Suspending(j)
    BY <1>0, <1>2, RowsKept DEF JobsFollow
  <2>2. NoJob \notin raced
    BY <1>0, <1>2, NotRaced
  <2>3. Suspends(p, j) => JobAllowed(p.on, p.number)
    BY <1>0, <2>2 DEF Suspends, None, PlaceInv, Rechecked
  <2>4. Suspends(p, j) => Suspends(q, j)
    BY <1>0, <1>1 DEF Suspends
  <2>5. CASE JobAllowed(p.on, p.number)
    BY <1>0, <2>1, <2>4, <2>5, RowsKept, SuspendingStays
  <2>6. CASE ~JobAllowed(p.on, p.number)
    BY <1>0, <2>1, <2>3, <2>6, RowsKept, SuspendingStays
  <2> QED BY <2>5, <2>6
<1> QED BY <1>2 DEF JobsFollow

\* A job loses its states.
LEMMA JobClearFollow ==
  ASSUME TypeInv, PlaceInv, JobsFollow, NEW w \in Workers, JobClear(w)
  PROVE  JobsFollow'
<1> DEFINE p == proc[w]
           q == [p EXCEPT !.at = "jobinsert"]
<1>0. /\ p \in Procs /\ p.at = "jobclear" /\ p.on \in Jobs /\ p.number \in JobStates
      /\ UNCHANGED <<client, exist, left, raced>> /\ Goto(w, q)
      /\ job' = [job EXCEPT ![p.on] = Kept(JobGraph, @, p.number)]
      /\ exist \subseteq Jobs /\ job \in [Jobs -> SUBSET JobStates]
  BY ProcFields DEF TypeInv, TypeOK, WorkersOK, JobClear, JobSteps
<1>1. q.at = "jobinsert" /\ q.on = p.on /\ q.state = p.state /\ q.todo = p.todo
  BY <1>0 DEF Procs
<1> HIDE DEF q
<1>2. \A k \in Jobs : job'[k] \subseteq job[k]
  BY <1>0 DEF Kept
<1>3. ASSUME NEW j \in Jobs \ (left' \cup raced'), 20 \in job'[j], Unique(j)'
      PROVE  ClientActive' \/ Suspending(j)'
  <2>1. 20 \in job[j] /\ Unique(j)
    BY <1>0, <1>2, <1>3 DEF Unique, Others
  <2>2. ClientActive \/ Suspending(j)
    BY <1>0, <1>3, <2>1 DEF JobsFollow
  <2>3. Suspends(p, j) => Suspends(q, j)
    BY <1>0, <1>1 DEF Suspends
  <2> QED BY <1>0, <2>2, <2>3, SuspendingStays DEF ClientActive
<1> QED BY <1>3 DEF JobsFollow

\* And gets one: it is confirmed for an active client, and completed where no
\* other is confirmed.
LEMMA JobInsertFollow ==
  ASSUME TypeInv, PlaceInv, JobsFollow, NEW w \in Workers, JobInsert(w)
  PROVE  JobsFollow'
<1> DEFINE p == proc[w]
           q == [p EXCEPT !.at = "jobs", !.on = NoJob]
           i == p.on
<1>0. /\ p \in Procs /\ p.at = "jobinsert" /\ i \in Jobs /\ p.number \in JobStates
      /\ UNCHANGED <<client, exist, raced>> /\ RacedOK /\ exist \subseteq Jobs
      /\ \/ p.state = None /\ Goto(w, Idle)
         \/ p.state # None /\ Goto(w, q)
      /\ left \ {i} \subseteq left'
  BY ProcFields DEF TypeInv, TypeOK, WorkersOK, PlaceInv, JobInsert, JobSteps
<1>1. q.at = "jobs" /\ q.state = p.state /\ q.todo = p.todo
  BY <1>0 DEF Procs
<1> HIDE DEF q
<1>2. job'[i] = {p.number} /\ \A k \in Jobs \ {i} : job'[k] = job[k]
  <2>1. Activated(JobGraph, job[i], p.number) = {p.number}
    BY <1>0, JobWritten
  <2> QED BY <1>0, <2>1 DEF TypeInv, TypeOK, JobInsert
<1>3. i \notin raced =>
        /\ p.number = 20 => ClientActive
        /\ p.number = 60 => \A k \in Peers(i) \ {i} : 20 \notin job[k]
  BY <1>0 DEF PlaceInv, Validated
<1>4. ASSUME NEW j \in Jobs \ (left' \cup raced'), 20 \in job'[j], Unique(j)'
      PROVE  ClientActive' \/ Suspending(j)'
  <2>1. CASE j = i
    BY <1>0, <1>2, <1>3, <1>4, <2>1 DEF ClientActive
  <2>2. CASE j # i
    <3>1. 20 \in job[j]
      BY <1>2, <1>4, <2>2
    <3>2. ASSUME NEW k \in Others(j)
          PROVE  60 \in job[k]
      <4>1. k \in Jobs /\ Place[k] = Place[j] /\ 60 \in job'[k]
        BY <1>0, <1>4 DEF Unique, Others
      <4>2. k # i
        <5> SUFFICES ASSUME k = i PROVE FALSE
          OBVIOUS
        <5>1. i \notin raced
          BY <1>0, <1>4, <4>1, NotRaced
        <5>2. p.number = 60
          BY <1>2, <4>1
        <5> QED BY <1>3, <2>2, <3>1, <4>1, <5>1, <5>2 DEF Peers
      <4> QED BY <1>2, <4>1, <4>2
    <3>3. ClientActive \/ Suspending(j)
      BY <1>0, <1>4, <2>2, <3>1, <3>2 DEF Unique, JobsFollow
    <3>4. CASE p.state = None /\ Goto(w, Idle)
      <4>1. ~Suspends(p, j)
        BY <3>4 DEF Suspends, None
      <4> QED BY <1>0, <3>3, <3>4, <4>1, SuspendingStays DEF ClientActive
    <3>5. CASE Goto(w, q)
      <4>1. Suspends(p, j) => Suspends(q, j)
        BY <1>0, <1>1, <2>2 DEF Suspends
      <4> QED BY <1>0, <3>3, <3>5, <4>1, SuspendingStays DEF ClientActive
    <3> QED BY <1>0, <3>4, <3>5
  <2> QED BY <2>1, <2>2
<1> QED BY <1>4 DEF JobsFollow

\* A step of a job, or of the hook, writes no row of the client.
LEMMA OtherRows ==
  ASSUME TypeInv, PlaceInv, ClientRows, NEW w \in Workers,
         \/ Hook(w) \/ Add(w) \/ Check(w) \/ JobClear(w) \/ JobInsert(w)
         \/ \E j \in Jobs : \/ HookJob(w, j) \/ BeginCreate(w, j)
                            \/ \E n \in JobStates : BeginJob(w, j, n)
  PROVE  ClientRows'
<1> DEFINE p == proc[w]
<1>0. p \in Procs
  BY ProcFields DEF TypeInv
<1>1. PICK q : /\ Goto(w, q) /\ q.state \in {p.state, None} /\ q.at # "clear"
               /\ p.at # "clear" /\ UNCHANGED client /\ raced \subseteq raced'
  <2>1. ASSUME Hook(w) \/ Add(w) \/ Check(w) \/ JobClear(w) \/ JobInsert(w)
        PROVE  \E q : /\ Goto(w, q) /\ q.state \in {p.state, None} /\ q.at # "clear"
                      /\ p.at # "clear" /\ UNCHANGED client /\ raced \subseteq raced'
    <3> DEFINE h == [p EXCEPT !.at = "jobs", !.number = Given(p.state),
                              !.todo = {j \in Jobs : Looked(p.state) \in job[j]}]
               a == [p EXCEPT !.at = "check", !.number = 10]
               c == [p EXCEPT !.at = "jobclear"]
               i == [p EXCEPT !.at = "jobinsert"]
               s == [p EXCEPT !.at = "jobs", !.on = NoJob]
    <3>1. /\ h.at = "jobs" /\ h.state = p.state /\ a.at = "check" /\ a.state = p.state
          /\ c.at = "jobclear" /\ c.state = p.state
          /\ i.at = "jobinsert" /\ i.state = p.state
          /\ s.at = "jobs" /\ s.state = p.state
          /\ Idle.at = "idle" /\ Idle.state = None
      BY <1>0 DEF Procs, Idle
    <3>2. /\ \E q \in {h, a, c, i, s, Idle} : Goto(w, q)
          /\ p.at # "clear" /\ UNCHANGED client /\ raced' = raced
      BY <2>1 DEF Hook, Add, Check, JobClear, JobInsert
    <3> HIDE DEF h, a, c, i, s
    <3> QED BY <3>1, <3>2
  <2>2. ASSUME NEW j \in Jobs, HookJob(w, j)
        PROVE  \E q : /\ Goto(w, q) /\ q.state \in {p.state, None} /\ q.at # "clear"
                      /\ p.at # "clear" /\ UNCHANGED client /\ raced \subseteq raced'
    <3> DEFINE h == [p EXCEPT !.todo = @ \ {j}]
               c == [h EXCEPT !.at = "check", !.on = j]
    <3>1. h.at = p.at /\ h.state = p.state /\ c.at = "check" /\ c.state = p.state
      BY <1>0 DEF Procs
    <3>2. /\ h.at = "jobs" /\ UNCHANGED client
          /\ (Goto(w, c) /\ Touch(w, j)) \/ (Goto(w, h) /\ raced' = raced)
      BY <2>2 DEF HookJob
    <3> HIDE DEF h, c
    <3>3. raced \subseteq raced'
      BY <3>2, TouchType DEF TypeInv
    <3> QED BY <3>1, <3>2, <3>3
  <2>3. ASSUME NEW j \in Jobs,
               BeginCreate(w, j) \/ \E n \in JobStates : BeginJob(w, j, n)
        PROVE  \E q : /\ Goto(w, q) /\ q.state \in {p.state, None} /\ q.at # "clear"
                      /\ p.at # "clear" /\ UNCHANGED client /\ raced \subseteq raced'
    <3> DEFINE a == [Idle EXCEPT !.at = "add", !.on = j]
               c(n) == [Idle EXCEPT !.at = "jobclear", !.on = j, !.number = n]
    <3>1. /\ a.at = "add" /\ a.state = None
          /\ \A n : c(n).at = "jobclear" /\ c(n).state = None
      BY DEF Idle
    <3>2. /\ Goto(w, a) \/ \E n : Goto(w, c(n))
          /\ p.at = "idle" /\ UNCHANGED client /\ Touch(w, j)
      BY <2>3 DEF BeginCreate, BeginJob
    <3> HIDE DEF a, c
    <3>3. raced \subseteq raced'
      BY <3>2, TouchType DEF TypeInv
    <3> QED BY <3>1, <3>2, <3>3
  <2> QED BY <2>1, <2>2, <2>3
<1> HIDE DEF p
<1> QED BY <1>1, RowsGoOn DEF p

\* Every step keeps confirmed jobs for active clients.
LEMMA NextClient ==
  ASSUME TypeInv, PlaceInv, ClientInv, [Next]_vars
  PROVE  ClientInv'
<1>1. CASE UNCHANGED vars
  BY <1>1, RowsKept
     DEF vars, ClientInv, ClientRows, ClientOK, ClientChange, JobsFollow, Suspending
<1>2. ASSUME NEW w \in Workers, Kill(w)
      PROVE  ClientInv'
  <2>1. faults' # 0
    BY <1>2, ClientJobsAssumption DEF Kill, TypeInv, TypeOK
  <2> QED BY <2>1 DEF ClientInv
<1> DEFINE Step(w) ==
      \/ \E n \in ClientStates : BeginClient(w, n)
      \/ Clear(w) \/ Hook(w) \/ Insert(w)
      \/ \E j \in Jobs : HookJob(w, j) \/ BeginCreate(w, j)
      \/ Add(w) \/ (\E j \in Jobs, n \in JobStates : BeginJob(w, j, n))
      \/ Check(w) \/ JobClear(w) \/ JobInsert(w)
<1>3. ASSUME NEW w \in Workers, Step(w), faults = 0, ClientRows, JobsFollow
      PROVE  ClientRows' /\ JobsFollow'
  <2>1. ASSUME NEW n \in ClientStates, BeginClient(w, n)
        PROVE  ClientRows' /\ JobsFollow'
    <3>1. raced \subseteq raced'
      BY <2>1 DEF BeginClient, TypeInv, TypeOK
    <3>2. JobsFollow'
      BY <2>1, <3>1, <1>3, BeginFollow DEF BeginClient
    <3> QED BY <1>3, <2>1, <3>2, BeginRows
  <2>2. ASSUME NEW j \in Jobs,
               BeginCreate(w, j) \/ \E n \in JobStates : BeginJob(w, j, n)
        PROVE  ClientRows' /\ JobsFollow'
    <3>1. raced \subseteq raced'
      BY <2>2, TouchType DEF BeginCreate, BeginJob, TypeInv
    <3>2. JobsFollow'
      BY <2>2, <3>1, <1>3, BeginFollow DEF BeginCreate, BeginJob
    <3> QED BY <1>3, <2>2, <3>2, OtherRows
  <2>3. CASE Clear(w)
    BY <1>3, <2>3, ClearRows, ClearFollow
  <2>4. CASE Insert(w)
    BY <1>3, <2>4, InsertRows, InsertFollow
  <2>5. CASE Hook(w) \/ \E j \in Jobs : HookJob(w, j)
    BY <1>3, <2>5, OtherRows, HookFollow, HookJobFollow
  <2>6. CASE Add(w) \/ Check(w) \/ JobClear(w) \/ JobInsert(w)
    BY <1>3, <2>6, OtherRows, AddFollow, CheckFollow, JobClearFollow, JobInsertFollow
  <2> QED BY <1>3, <2>1, <2>2, <2>3, <2>4, <2>5, <2>6
<1>4. ASSUME NEW w \in Workers, Step(w)
      PROVE  ClientInv'
  <2>1. UNCHANGED faults
    BY <1>4 DEF BeginClient, Clear, Hook, Insert, HookJob, BeginCreate, Add, BeginJob,
       Check, JobClear, JobInsert
  <2> HIDE DEF Step
  <2> QED BY <1>3, <1>4, <2>1 DEF ClientInv
<1> QED BY <1>1, <1>2, <1>4 DEF Next

\* A new client has its first state.
LEMMA InitClient ==
  ASSUME Init
  PROVE  ClientInv
<1>1. client = {10}
  BY ClientActiveFacts DEF Init, Activated, Kept
<1>2. ClientOK
  BY <1>1 DEF ClientOK, Ladder
<1>3. \A w \in Workers : ClientChange(w)
  BY DEF Init, ClientChange, Idle
<1>4. JobsFollow
  BY DEF Init, JobsFollow
<1> QED BY <1>2, <1>3, <1>4 DEF ClientInv, ClientRows

\* Whenever no request runs, and none was killed, a confirmed job that is alone
\* at its place is that of an active client: suspending a client holds all its
\* jobs, and none is confirmed or reopened behind it (after_state_activated,
\* is_client_active).
THEOREM JobsConfirmedForClient == Spec => []ConfirmedForClient
<1>1. Init => TypeInv /\ PlaceInv /\ ClientInv
  BY InitType, InitPlace, InitClient
<1>2. TypeInv /\ PlaceInv /\ ClientInv /\ [Next]_vars => (TypeInv /\ PlaceInv /\ ClientInv)'
  BY NextType, NextPlace, NextClient
<1>3. PlaceInv /\ ClientInv => ConfirmedForClient
  <2> SUFFICES ASSUME PlaceInv, ClientInv, Quiet, faults = 0,
                      NEW j \in Jobs \ (left \cup raced), 20 \in job[j], Unique(j)
               PROVE  ClientActive
    BY DEF ConfirmedForClient
  <2>1. \A w \in Workers : proc[w].state = None
    BY DEF Quiet, PlaceInv, WorkerOK, Idle
  <2>2. ~Suspending(j)
    BY <2>1 DEF Suspending, Suspends, None
  <2> QED BY <2>2 DEF ClientInv, JobsFollow
<1> QED BY <1>1, <1>2, <1>3, PTL DEF Spec
=============================================================================
