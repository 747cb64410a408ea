--------------------------- MODULE TaskLockProofs ---------------------------
(***************************************************************************)
(* However many runs of a task there are, two work together while their    *)
(* keys live only if a stray run has deleted the key of one of them: one   *)
(* that was refused, one that was held up for longer than the margin after *)
(* it read the clock, or one whose own key was deleted so.                 *)
(***************************************************************************)
EXTENDS TaskLock, TLAPS

USE TaskLockAssumption

\* A time left stays one as time passes, and so does a delay.
LEMMA TimesPass ==
  ASSUME TypeOK, NEW r \in Runs
  PROVE  /\ Less(grace[r]) \in 0 .. Expire
         /\ Less(own[r]) \in 0 .. Expire
         /\ More(r) \in 0 .. Margin + 1
BY DEF TypeOK, Less, More

\* Every step keeps the times within the life of a key.
LEMMA NextType == TypeOK /\ [Next]_vars => TypeOK'
<1> SUFFICES ASSUME TypeOK, [Next]_vars PROVE TypeOK'
  OBVIOUS
<1>1. ASSUME NEW r \in Runs, Arrive(r) PROVE TypeOK'
  BY <1>1 DEF Arrive, Goto, Timeout, TypeOK, States
<1>2. ASSUME NEW r \in Runs, Add(r) PROVE TypeOK'
  BY <1>2 DEF Add, Goto, TypeOK, States
<1>3. ASSUME NEW r \in Runs, Check(r) PROVE TypeOK'
  BY <1>3 DEF Check, Goto, TypeOK, States
<1>4. ASSUME NEW r \in Runs, Delete(r) PROVE TypeOK'
  BY <1>4 DEF Delete, Goto, TypeOK, States
<1>5. ASSUME NEW r \in Runs, Crash(r) PROVE TypeOK'
  BY <1>5 DEF Crash, Goto, TypeOK, States
<1>6. CASE Tick
  BY <1>6, TimesPass DEF Tick, TypeOK
<1>7. CASE UNCHANGED vars
  BY <1>7 DEF vars, TypeOK
<1> QED BY <1>1, <1>2, <1>3, <1>4, <1>5, <1>6, <1>7 DEF Next

\* No time left is ever negative or longer than the life of a key.
THEOREM LockTypeCorrect == Spec => []TypeOK
<1>1. Init => TypeOK
  BY DEF Init, TypeOK, States
<1> QED BY <1>1, NextType, PTL DEF Spec

\* As time passes, a run that works keeps the margin between its timeout and
\* the end of its key, and one that ends uses it up no faster than it grows
\* late; a key that still lives stays in the cache.
LEMMA TickLock == TypeOK /\ LockInv /\ Tick => LockInv'
<1> SUFFICES ASSUME TypeOK, LockInv, Tick, NEW r \in Runs
             PROVE  /\ grace'[r] + Margin <= Expire
                    /\ state[r] \in {"new", "arrived", "working", "refused"}
                         => late'[r] = 0
                    /\ state[r] = "working" /\ grace'[r] > 0
                         => own'[r] >= grace'[r] + Margin
                    /\ state[r] = "ending" /\ late'[r] <= Margin
                         => own'[r] + late'[r] > Margin
                    /\ state[r] \in {"working", "ending"} /\ own'[r] > 0
                         => key' = r \/ r \in freed
  BY DEF LockInv, Tick
<1>1. /\ late'[r] = More(r)
      /\ grace'[r] = Less(grace[r])
      /\ own'[r] = Less(own[r])
  BY DEF Tick, TypeOK
<1>2. own[r] \in Nat /\ grace[r] \in Nat /\ late[r] \in 0 .. Margin + 1
  BY DEF TypeOK
<1>3. own'[r] > 0 => Lives(r)
  BY <1>1, <1>2 DEF Less, Lives
<1>4. key = r /\ Lives(r) => key' = r
  BY DEF Tick
<1>5. state[r] \in {"working", "ending"} /\ own'[r] > 0 => key' = r \/ r \in freed
  BY <1>2, <1>3, <1>4 DEF LockInv, Lives
<1>6. state[r] \in {"new", "arrived", "working", "refused"} => late'[r] = 0
  BY <1>1 DEF LockInv, More
<1>7. state[r] = "working" /\ grace'[r] > 0 => own'[r] >= grace'[r] + Margin
  BY <1>1, <1>2 DEF LockInv, Less
<1>8. state[r] = "ending" /\ late'[r] <= Margin => own'[r] + late'[r] > Margin
  BY <1>1, <1>2 DEF LockInv, Less, More
<1>9. grace'[r] + Margin <= Expire
  BY <1>1, <1>2 DEF LockInv, Less
<1> QED BY <1>5, <1>6, <1>7, <1>8, <1>9

\* A run that ends in time is the one whose key is in the cache, unless a stray
\* run has deleted it: it takes the key of no other run that counts on it.
LEMMA DeleteLock ==
  ASSUME TypeOK, LockInv, NEW r \in Runs, Delete(r)
  PROVE  LockInv'
<1>1. /\ state' = [state EXCEPT ![r] = "done"] /\ key' = None
      /\ grace' = grace /\ own' = own /\ late' = late
      /\ freed \subseteq freed'
  BY DEF Delete, Goto
<1>2. ASSUME NEW q \in Runs, state'[q] \in {"working", "ending"}, own[q] > 0
      PROVE  q \in freed'
  <2>1. q # r /\ state[q] \in {"working", "ending"}
    BY <1>1, <1>2 DEF TypeOK
  <2>2. CASE q \in freed
    BY <1>1, <2>2
  <2>3. CASE q \notin freed
    <3>1. key = q
      BY <1>2, <2>1, <2>3 DEF LockInv
    <3>2. Stray(r)
      <4>1. state[r] \in {"ending", "leaving"}
        BY DEF Delete
      <4>2. state[r] = "ending" /\ late[r] <= Margin => own[r] > 0
        BY DEF LockInv, TypeOK
      <4>3. state[r] = "ending" /\ own[r] > 0 => r \in freed
        BY <2>1, <3>1 DEF LockInv
      <4> QED BY <4>1, <4>2, <4>3 DEF Stray, TypeOK
    <3> QED BY <2>1, <3>1, <3>2 DEF Delete
  <2> QED BY <2>2, <2>3
<1>3. \A q \in Runs : state'[q] = state[q] \/ state'[q] = "done"
  BY <1>1 DEF TypeOK
<1> QED BY <1>1, <1>2, <1>3 DEF LockInv

\* Every step keeps the invariant: the key of a run at work lives longer than
\* the run may delete it, and no other run adds one meanwhile.
LEMMA NextLock == TypeOK /\ LockInv /\ [Next]_vars => LockInv'
<1> SUFFICES ASSUME TypeOK, LockInv, [Next]_vars PROVE LockInv'
  OBVIOUS
<1>1. ASSUME NEW r \in Runs, Arrive(r) PROVE LockInv'
  BY <1>1 DEF Arrive, Goto, Timeout, LockInv, TypeOK, States
<1>2. ASSUME NEW r \in Runs, Add(r) PROVE LockInv'
  <2>1. CASE key = None
    <3>1. /\ state[r] = "arrived" /\ late' = late /\ freed' = freed
          /\ state' = [state EXCEPT ![r] = "working"]
          /\ key' = r /\ own' = [own EXCEPT ![r] = Expire] /\ grace' = grace
      BY <1>2, <2>1 DEF Add, Goto
    <3>2. grace[r] + Margin <= Expire
      BY DEF LockInv
    <3> QED BY <3>1, <3>2, <2>1 DEF LockInv, TypeOK
  <2>2. CASE key # None
    BY <1>2, <2>2 DEF Add, Goto, LockInv, TypeOK
  <2> QED BY <2>1, <2>2
<1>3. ASSUME NEW r \in Runs, Check(r) PROVE LockInv'
  BY <1>3 DEF Check, Goto, LockInv, TypeOK
<1>4. ASSUME NEW r \in Runs, Delete(r) PROVE LockInv'
  BY <1>4, DeleteLock
<1>5. ASSUME NEW r \in Runs, Crash(r) PROVE LockInv'
  BY <1>5 DEF Crash, Goto, LockInv, TypeOK
<1>6. CASE Tick
  BY <1>6, TickLock
<1>7. CASE UNCHANGED vars
  BY <1>7 DEF vars, LockInv
<1> QED BY <1>1, <1>2, <1>3, <1>4, <1>5, <1>6, <1>7 DEF Next

\* The key of a run that works or ends, and still lives, is in the cache unless
\* a stray run has deleted it; a run that reads the clock in time has more than
\* the margin left.
THEOREM LockInvariant == Spec => []LockInv
<1>1. Init => LockInv
  BY DEF Init, LockInv
<1> QED BY <1>1, NextLock, LockTypeCorrect, PTL DEF Spec

\* Two runs work together only when one has outlived its key, or a stray run
\* has deleted the key of one of them.
THEOREM RunsExclude == Spec => []OverlapOnlyIfFreed
<1>1. TypeOK /\ LockInv => OverlapOnlyIfFreed
  BY DEF TypeOK, LockInv, OverlapOnlyIfFreed
<1> QED BY <1>1, LockInvariant, LockTypeCorrect, PTL
=============================================================================
