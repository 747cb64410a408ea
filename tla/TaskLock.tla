----------------------------- MODULE TaskLock -----------------------------
(***************************************************************************)
(* The cache lock around the Celery tasks that must not run twice at a     *)
(* time (core/tasks.py memcache_lock, one_task_at_the_same_time): each run *)
(* tries to add one key to the cache, works if it added it, and at the end *)
(* reads the clock and deletes the key unless too much time has passed.    *)
(* The clock is read in one step and the key deleted in a later one: a run *)
(* may be held up between them for as long as its host likes.              *)
(*                                                                         *)
(* Time is kept as the time left: of each run's right to delete the key,   *)
(* and of the key each run added.                                          *)
(***************************************************************************)
EXTENDS Integers, FiniteSets

CONSTANTS
  Runs,    \* the runs of the tasks that share the key
  None,    \* no run
  Expire,  \* LOCK_EXPIRE
  Margin   \* the 3 seconds a run leaves before the key expires

ASSUME TaskLockAssumption ==
  /\ None \notin Runs
  /\ Expire \in Nat /\ Margin \in 1 .. Expire

VARIABLES
  state,  \* where each run is
  key,    \* the run whose key is in the cache, or None
  grace,  \* time before the run's timeout_at
  own,    \* time before the key that the run added expires
  late,   \* history: time since the run read the clock, Margin + 1 for longer
  freed   \* history: the runs whose key was deleted by a stray run (Stray)

vars == <<state, key, grace, own, late, freed>>

\* A run that found the time not yet over is "ending" if it worked, and
\* "leaving" if it was refused.
States ==
  {"new", "arrived", "working", "refused", "ending", "leaving", "done"}

\* Every counter is a time no longer than the life of a key.
TypeOK ==
  /\ state \in [Runs -> States]
  /\ key \in Runs \cup {None}
  /\ grace \in [Runs -> 0 .. Expire]
  /\ own \in [Runs -> 0 .. Expire]
  /\ late \in [Runs -> 0 .. Margin + 1]
  /\ freed \in SUBSET Runs

Init ==
  /\ state = [r \in Runs |-> "new"]
  /\ key = None
  /\ grace = [r \in Runs |-> 0]
  /\ own = [r \in Runs |-> 0]
  /\ late = [r \in Runs |-> 0]
  /\ freed = {}

Goto(r, to) == state' = [state EXCEPT ![r] = to]

\* Mutant of Timeout: the run keeps its right for the whole life of a key.
TimeoutOfKey == Expire

Timeout == Expire - Margin

\* timeout_at is computed before the key is added.
Arrive(r) ==
  /\ state[r] = "new"
  /\ Goto(r, "arrived")
  /\ grace' = [grace EXCEPT ![r] = Timeout]
  /\ UNCHANGED <<key, own, late, freed>>

\* cache.add fails when the key is there.
Add(r) ==
  /\ state[r] = "arrived"
  /\ IF key = None
     THEN /\ key' = r
          /\ own' = [own EXCEPT ![r] = Expire]
          /\ Goto(r, "working")
     ELSE Goto(r, "refused") /\ UNCHANGED <<key, own>>
  /\ UNCHANGED <<grace, late, freed>>

\* The finally block, of a run that added the key and of one that did not,
\* begins by reading the clock.
Check(r) ==
  /\ state[r] \in {"working", "refused"}
  /\ Goto(r, IF grace[r] = 0 THEN "done"
             ELSE IF state[r] = "working" THEN "ending" ELSE "leaving")
  /\ UNCHANGED <<key, grace, own, late, freed>>

\* The runs that may delete another's key: one that was refused, one that was
\* held up for longer than the margin, and one whose own key was deleted so.
Stray(r) == state[r] = "leaving" \/ late[r] > Margin \/ r \in freed

\* The key is deleted, whoever added it.
Delete(r) ==
  /\ state[r] \in {"ending", "leaving"}
  /\ Goto(r, "done")
  /\ key' = None
  /\ freed' = IF Stray(r) THEN freed \cup ({key} \ {None, r}) ELSE freed
  /\ UNCHANGED <<grace, own, late>>

\* The worker is killed (by the memory limit of its host, a deployment, or a
\* revoke with SIGKILL): the rest of the finally block does not run.
Crash(r) ==
  /\ state[r] \notin {"new", "done"}
  /\ Goto(r, "done")
  /\ UNCHANGED <<key, grace, own, late, freed>>

Less(n) == IF n > 0 THEN n - 1 ELSE 0

\* A run that has read the clock grows late.
More(r) == IF state[r] \in {"ending", "leaving"} /\ late[r] <= Margin
           THEN late[r] + 1 ELSE late[r]

\* Mutant of Lives: the key is added without a timeout.
LivesForEver(r) == TRUE

\* The key of a run outlives one more unit of time.
Lives(r) == own[r] > 1

\* One unit of time passes, as long as one is being counted.
Tick ==
  /\ \E r \in Runs : grace[r] > 0 \/ own[r] > 0 \/ More(r) # late[r]
  /\ key' = IF key # None /\ Lives(key) THEN key ELSE None
  /\ grace' = [r \in Runs |-> Less(grace[r])]
  /\ own' = [r \in Runs |-> Less(own[r])]
  /\ late' = [r \in Runs |-> More(r)]
  /\ UNCHANGED <<state, freed>>

Next ==
  \/ \E r \in Runs : Arrive(r) \/ Add(r) \/ Check(r) \/ Delete(r) \/ Crash(r)
  \/ Tick

Spec == Init /\ [][Next]_vars

\* Time passes; a run may work, and be held up, for as long as it likes.
FairSpec == Spec /\ WF_vars(Tick)

-----------------------------------------------------------------------------

\* Two runs work at a time only when one of them has outlived its key, or the
\* key of one of them was deleted by a stray run. A run that added the key and
\* ends, however near to its timeout, deletes no other run's key as long as it
\* is not held up for longer than the margin, whoever crashes (memcache_lock,
\* timeout_at); and what a stray run breaks is only the turn of the key it
\* deleted.
OverlapOnlyIfFreed ==
  \A r, q \in Runs :
    r # q /\ state[r] = "working" /\ state[q] = "working"
      => own[r] = 0 \/ own[q] = 0 \/ r \in freed \/ q \in freed

\* What makes it inductive: the key of a run that works or ends is in the cache,
\* for every other run to find, and a run that reads the clock in time has more
\* than the margin left.
LockInv ==
  /\ \A r \in Runs : grace[r] + Margin <= Expire
  /\ \A r \in Runs : state[r] \in {"new", "arrived", "working", "refused"}
       => late[r] = 0
  /\ \A r \in Runs : state[r] = "working" /\ grace[r] > 0
       => own[r] >= grace[r] + Margin
  /\ \A r \in Runs : state[r] = "ending" /\ late[r] <= Margin
       => own[r] + late[r] > Margin
  /\ \A r \in Runs : state[r] \in {"working", "ending"} /\ own[r] > 0
       => key = r \/ r \in freed

\* Whoever crashes, the key does not stay in the cache for ever.
LockFreed == key # None ~> key = None
=============================================================================
