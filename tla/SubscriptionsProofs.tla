------------------------ MODULE SubscriptionsProofs ------------------------
(***************************************************************************)
(* For any number of subscriptions, servers, workers of the task, errors,  *)
(* refusals and kills: what is canceled here ends at the payment provider  *)
(* or was refused by it, at most one subscription stays active unless a    *)
(* save was cut short, and the only one is kept.                           *)
(***************************************************************************)
EXTENDS Subscriptions, FiniteSetTheorems, TLAPS

\* The subscriptions that are over at the provider, or end with their period, or
\* that it refused to end.
Over == {s \in Subs : remote[s].ending \/ remote[s].status = "canceled" \/ s \in refused}

\* A worker saves "canceled" of those only, and closes only those.
Sound(p, E, O) ==
  /\ p.at # "idle" => /\ p.on \in Subs /\ p.copy.exists
                      /\ p.copy.status = "canceled" => p.on \in O
  /\ p.others \subseteq E
  /\ p.at = "close" => p.other \in E /\ p.other \in O

SoundInv == \A w \in Workers : Sound(proc[w], Exist, Over)

IInv == TypeOK /\ CanceledEnds /\ SoundInv

\* The steps that may follow a save, or its part for the other subscriptions.
Nexts == {"idle", "check", "grant", "others", "end"} \cup Syncing

-----------------------------------------------------------------------------
(* Types of the steps' values *)

LEMMA IdleType == Idle \in Procs
  BY DEF Idle, Procs, NoRow, Rows, Statuses, Allowed

LEMMA ThenType ==
  ASSUME NEW p \in Procs, NEW step \in Nexts
  PROVE  Then(p, step) \in Procs
  BY IdleType DEF Then, Procs, Nexts, Syncing, Saving, Requests

LEMMA ProcFields ==
  ASSUME NEW p \in Procs
  PROVE  /\ p.copy \in Rows /\ p.next \in Nexts /\ p.others \subseteq Subs
         /\ p.other \in Subs \cup {NoSub} /\ p.on \in Subs \cup {NoSub}
  BY DEF Procs, Nexts

LEMMA SaveType ==
  ASSUME TypeOK, NEW w \in Workers, NEW c \in Rows,
         NEW columns \in {"status", "periods", "all"}, NEW next \in {"idle", "check", "grant"} \cup Syncing
  PROVE  /\ SaveOf(w, c, columns, next) \in Procs
         /\ SaveOf(w, c, columns, next).copy = c
         /\ SaveOf(w, c, columns, next).on = proc[w].on
         /\ SaveOf(w, c, columns, next).others = proc[w].others
         /\ SaveOf(w, c, columns, next).at = "write"
  <1>1. proc[w] \in Procs
    BY DEF TypeOK
  <1> QED BY <1>1 DEF SaveOf, Procs, Saving

LEMMA NextOtherType ==
  ASSUME NEW p \in Procs
  PROVE  NextOther(p) \in Procs
  <1> DEFINE q == [p EXCEPT !.others = p.others \ {p.other}, !.other = NoSub]
  <1>1. q \in Procs
    BY DEF Procs
  <1>2. (IF p.others \ {p.other} = {} THEN p.next ELSE "end") \in Nexts
    BY ProcFields DEF Nexts
  <1>3. NextOther(p) = Then(q, IF p.others \ {p.other} = {} THEN p.next ELSE "end")
    BY DEF NextOther
  <1> HIDE DEF q
  <1> QED BY <1>1, <1>2, <1>3, ThenType

LEMMA WrittenType ==
  ASSUME NEW old \in Rows, NEW p \in Procs
  PROVE  Written(old, p) \in Rows
  <1>1. p.copy \in Rows /\ p.columns \in {"status", "periods", "all"}
    BY DEF Procs
  <1> QED BY <1>1 DEF Written, Rows

LEMMA WrittenFields ==
  ASSUME NEW old \in Rows, NEW p \in Procs, p.copy.exists
  PROVE  /\ old.exists => Written(old, p).exists
         /\ Written(old, p).status = "canceled"
              => (p.columns = "periods" /\ old.status = "canceled") \/ p.copy.status = "canceled"
         /\ p.columns = "periods" => Written(old, p).exists = old.exists
  <1>1. p.copy \in Rows
    BY ProcFields
  <1>2. CASE p.columns = "all"
    BY <1>2 DEF Written
  <1>3. CASE p.columns = "status"
    BY <1>1, <1>3 DEF Written, Rows
  <1>4. CASE p.columns = "periods"
    BY <1>1, <1>4 DEF Written, Rows
  <1>5. p.columns \in {"status", "periods", "all"}
    BY DEF Procs
  <1> QED BY <1>2, <1>3, <1>4, <1>5

-----------------------------------------------------------------------------
(* Soundness of a worker *)

LEMMA SoundGrows ==
  ASSUME NEW p, NEW E, NEW O, NEW E2, NEW O2, E \subseteq E2, O \subseteq O2, Sound(p, E, O)
  PROVE  Sound(p, E2, O2)
  BY DEF Sound

LEMMA SoundIdle == ASSUME NEW E, NEW O PROVE Sound(Idle, E, O)
  BY DEF Sound, Idle

LEMMA SoundThen ==
  ASSUME NEW p \in Procs, NEW step \in Nexts, NEW E, NEW O,
         p.at # "idle", Sound(p, E, O)
  PROVE  Sound(Then(p, step), E, O)
  <1>1. CASE step = "idle"
    BY <1>1, SoundIdle DEF Then
  <1>2. CASE step # "idle"
    <2> DEFINE q == [p EXCEPT !.at = step]
    <2>1. Then(p, step) = q
      BY <1>2 DEF Then
    <2>2. q.on = p.on /\ q.copy = p.copy /\ q.others = p.others /\ q.at # "close"
      BY DEF Procs, Nexts, Syncing
    <2> QED BY <2>1, <2>2 DEF Sound
  <1> QED BY <1>1, <1>2

LEMMA SoundNextOther ==
  ASSUME NEW p \in Procs, NEW E, NEW O, p.at # "idle", Sound(p, E, O)
  PROVE  Sound(NextOther(p), E, O)
  <1> DEFINE q == [p EXCEPT !.others = p.others \ {p.other}, !.other = NoSub]
             step == IF p.others \ {p.other} = {} THEN p.next ELSE "end"
  <1>1. step \in Nexts /\ NextOther(p) = Then(q, step)
    BY ProcFields DEF Nexts, NextOther
  <1> HIDE DEF step
  <1>2. q.at = p.at /\ q.on = p.on /\ q.copy = p.copy /\ q.others \subseteq p.others
    BY DEF Procs
  <1> HIDE DEF q
  <1>3. CASE step = "idle"
    BY <1>1, <1>3, SoundIdle DEF Then
  <1>4. CASE step # "idle"
    <2>1. NextOther(p) = [q EXCEPT !.at = step]
      BY <1>1, <1>4 DEF Then
    <2>2. [q EXCEPT !.at = step].at = step /\ step # "close"
      BY <1>1 DEF Nexts, Syncing, q, Procs
    <2>3. [q EXCEPT !.at = step].on = p.on /\ [q EXCEPT !.at = step].copy = p.copy
          /\ [q EXCEPT !.at = step].others = q.others
      BY <1>2 DEF q, Procs
    <2> QED BY <1>2, <2>1, <2>2, <2>3 DEF Sound
  <1> QED BY <1>3, <1>4

\* What a step must show of the rows, the provider and the worker it moves.
LEMMA Moved ==
  ASSUME IInv, NEW w \in Workers, NEW p \in Procs, Goto(w, p),
         row' \in [Subs -> Rows], remote' \in [Subs -> Remotes],
         access' \in {"all", "canceling", "none"}, refused' \subseteq Subs, cut' \in BOOLEAN,
         requests' \in 0..MaxRequests, faults' \in 0..MaxFaults,
         Exist \subseteq Exist', Over \subseteq Over',
         Sound(p, Exist', Over'), CanceledEnds'
  PROVE  IInv'
  <1>1. proc' = [proc EXCEPT ![w] = p] /\ proc \in [Workers -> Procs]
    BY DEF Goto, IInv, TypeOK
  <1>2. TypeOK'
    BY <1>1 DEF TypeOK
  <1>3. ASSUME NEW v \in Workers
        PROVE  Sound(proc'[v], Exist', Over')
    <2>1. CASE v = w
      BY <1>1, <2>1
    <2>2. CASE v # w
      <3>1. proc'[v] = proc[v] /\ Sound(proc[v], Exist, Over)
        BY <1>1, <2>2 DEF IInv, SoundInv
      <3> QED BY <3>1, SoundGrows
    <2> QED BY <2>1, <2>2
  <1> QED BY <1>2, <1>3 DEF IInv, SoundInv

\* What is canceled is over, if no row changes and what is over stays so.
LEMMA AsOver ==
  ASSUME CanceledEnds, UNCHANGED row, Over \subseteq Over'
  PROVE  CanceledEnds'
  BY DEF CanceledEnds, Exist, Live, Over

\* A step of a worker that writes nothing.
LEMMA MovedOnly ==
  ASSUME IInv, NEW w \in Workers, NEW p \in Procs, Goto(w, p), Sound(p, Exist, Over),
         UNCHANGED <<row, remote, refused>>, access' \in {"all", "canceling", "none"},
         cut' \in BOOLEAN, requests' \in 0..MaxRequests, faults' \in 0..MaxFaults
  PROVE  IInv'
  <1>1. Exist' = Exist /\ Over' = Over
    BY DEF Exist, Over
  <1>2. CanceledEnds'
    BY <1>1, AsOver DEF IInv
  <1>3. row' \in [Subs -> Rows] /\ remote' \in [Subs -> Remotes] /\ refused' \subseteq Subs
    BY DEF IInv, TypeOK
  <1> QED BY <1>1, <1>2, <1>3, Moved

\* A step that writes to the provider only: what is over stays so.
LEMMA MovedRemote ==
  ASSUME IInv, NEW w \in Workers, NEW p \in Procs, Goto(w, p),
         remote' \in [Subs -> Remotes], Over \subseteq Over', Sound(p, Exist, Over'),
         refused' \subseteq Subs, cut' \in BOOLEAN, faults' \in 0..MaxFaults,
         UNCHANGED <<row, requests>>, access' \in {"all", "canceling", "none"}
  PROVE  IInv'
  <1>1. Exist' = Exist
    BY DEF Exist
  <1>2. CanceledEnds'
    BY AsOver DEF IInv
  <1>3. row' \in [Subs -> Rows] /\ requests' \in 0..MaxRequests
    BY DEF IInv, TypeOK
  <1> QED BY <1>1, <1>2, <1>3, Moved

\* A step that ends subscription s.
LEMMA EndAtGrows ==
  ASSUME TypeOK, NEW s \in Subs, EndAt(s)
  PROVE  /\ remote' \in [Subs -> Remotes] /\ remote'[s].ending
         /\ \A u \in Subs : remote[u].ending \/ remote[u].status = "canceled"
                              => remote'[u].ending \/ remote'[u].status = "canceled"
  BY DEF EndAt, TypeOK, Remotes

\* It ends, or its refusal is known.
LEMMA DeactivateGrows ==
  ASSUME TypeOK, NEW s \in Subs, Deactivate(s)
  PROVE  /\ remote' \in [Subs -> Remotes] /\ refused' \subseteq Subs /\ faults' \in 0..MaxFaults
         /\ Over \subseteq Over' /\ s \in Over'
  <1>1. CASE Accept(s)
    <2>1. /\ remote' \in [Subs -> Remotes] /\ remote'[s].ending
          /\ \A u \in Subs : remote[u].ending \/ remote[u].status = "canceled"
                               => remote'[u].ending \/ remote'[u].status = "canceled"
      BY <1>1, EndAtGrows DEF Accept
    <2>2. refused' = refused \ {s} /\ faults' = faults
      BY <1>1 DEF Accept
    <2>3. Over \subseteq Over' /\ s \in Over'
      BY <2>1, <2>2 DEF Over
    <2> QED BY <2>1, <2>2, <2>3 DEF TypeOK
  <1>2. CASE Refuse(s)
    <2>1. remote' = remote /\ refused' = refused \cup ({s} \cap Live)
      BY <1>2 DEF Refuse
    <2>2. faults' \in 0..MaxFaults
      BY <1>2, SubscriptionsAssumption DEF Refuse, TypeOK
    <2>3. Over \subseteq Over' /\ s \in Over'
      BY <2>1 DEF Over, Live
    <2> QED BY <2>1, <2>2, <2>3 DEF TypeOK
  <1> QED BY <1>1, <1>2 DEF Deactivate

\* A worker's record is typed and sound.
LEMMA Worker ==
  ASSUME IInv, NEW w \in Workers
  PROVE  proc[w] \in Procs /\ Sound(proc[w], Exist, Over)
  BY DEF IInv, TypeOK, SoundInv

\* The bounds and the access that a step leaves alone.
LEMMA Rest ==
  ASSUME IInv
  PROVE  /\ access' = access => access' \in {"all", "canceling", "none"}
         /\ refused' = refused => refused' \subseteq Subs
         /\ cut' = cut => cut' \in BOOLEAN
         /\ requests' = requests => requests' \in 0..MaxRequests
         /\ faults' = faults => faults' \in 0..MaxFaults
  BY DEF IInv, TypeOK
-----------------------------------------------------------------------------
(* One lemma per action *)

LEMMA WriteKeeps ==
  ASSUME IInv, NEW w \in Workers, Write(w)
  PROVE  IInv'
  <1> DEFINE p == proc[w]
  <1>1. p \in Procs /\ Sound(p, Exist, Over) /\ p.at = "write"
    BY Worker DEF Write
  <1>2. p.on \in Subs /\ p.copy \in Rows /\ p.copy.exists
        /\ (p.copy.status = "canceled" => p.on \in Over)
    BY <1>1, ProcFields DEF Sound
  <1>3. row \in [Subs -> Rows] /\ row' = [row EXCEPT ![p.on] = Written(row[p.on], p)]
        /\ remote' = remote /\ remote \in [Subs -> Remotes] /\ refused' = refused
    BY DEF Write, IInv, TypeOK, history
  <1>4. row' \in [Subs -> Rows]
    BY <1>1, <1>2, <1>3, WrittenType
  <1>5. p.columns \in {"status", "periods", "all"}
    BY <1>1 DEF Procs
  <1>6. /\ row[p.on].exists => Written(row[p.on], p).exists
        /\ Written(row[p.on], p).status = "canceled"
             => (p.columns = "periods" /\ row[p.on].status = "canceled")
                \/ p.copy.status = "canceled"
        /\ p.columns = "periods" => Written(row[p.on], p).exists = row[p.on].exists
    BY <1>1, <1>2, <1>3, <1>5, WrittenFields
  <1>7. Over' = Over
    BY <1>3 DEF Over
  <1>8. Exist \subseteq Exist'
    BY <1>2, <1>3, <1>6 DEF Exist
  <1>9. CanceledEnds'
    <2> SUFFICES ASSUME NEW s \in Subs, row'[s].exists, row'[s].status = "canceled"
                 PROVE  s \in Over
      BY <1>3 DEF CanceledEnds, Exist, Live, Over
    <2>1. row[s].exists /\ row[s].status = "canceled" => s \in Over
      BY DEF IInv, CanceledEnds, Exist, Live, Over
    <2>2. CASE s # p.on
      BY <1>3, <2>1, <2>2
    <2>3. CASE s = p.on
      BY <1>2, <1>3, <1>6, <2>1, <2>3
    <2> QED BY <2>2, <2>3
  <1>10. PICK step \in Nexts : Goto(w, Then(p, step))
    <2>1. "others" \in Nexts /\ p.next \in Nexts
      BY <1>1, ProcFields DEF Nexts
    <2> QED BY <2>1 DEF Write, At
  <1>11. Then(p, step) \in Procs /\ Sound(Then(p, step), Exist, Over)
    BY <1>1, <1>10, ThenType, SoundThen
  <1>12. Sound(Then(p, step), Exist', Over')
    BY <1>7, <1>8, <1>11, SoundGrows
  <1>13. access' = access /\ cut' = cut /\ requests' = requests /\ faults' = faults
    BY DEF Write, history, bounds
  <1> HIDE DEF p
  <1> QED BY <1>3, <1>4, <1>7, <1>8, <1>9, <1>10, <1>11, <1>12, <1>13, Rest, Moved

LEMMA ReadOthersKeeps ==
  ASSUME IInv, NEW w \in Workers, ReadOthers(w)
  PROVE  IInv'
  <1> DEFINE p == proc[w]
             others == {s \in Subs \ {p.on} : row[s].exists /\ row[s].active}
             q == [p EXCEPT !.at = "end", !.others = others]
  <1>1. p \in Procs /\ Sound(p, Exist, Over) /\ p.at = "others"
    BY Worker DEF ReadOthers
  <1>2. /\ UNCHANGED <<row, remote, refused>> /\ cut' \in BOOLEAN
        /\ access' = access /\ requests' = requests /\ faults' = faults
    BY DEF ReadOthers, bounds
  <1>3. others \subseteq Exist /\ others \subseteq Subs
    BY DEF Exist
  <1>4. CASE others = {}
    <2>1. Goto(w, Then(p, p.next))
      BY <1>4 DEF ReadOthers
    <2>2. Then(p, p.next) \in Procs /\ Sound(Then(p, p.next), Exist, Over)
      BY <1>1, ProcFields, ThenType, SoundThen
    <2> QED BY <1>2, <2>1, <2>2, Rest, MovedOnly
  <1>5. CASE others # {}
    <2>1. Goto(w, q)
      BY <1>5 DEF ReadOthers
    <2> HIDE DEF others
    <2>2. q \in Procs /\ q.on = p.on /\ q.copy = p.copy /\ q.others = others /\ q.at = "end"
      BY <1>1, <1>3 DEF Procs, Saving
    <2> HIDE DEF q
    <2>3. Sound(q, Exist, Over)
      BY <1>1, <1>3, <2>2 DEF Sound
    <2> QED BY <1>2, <2>1, <2>2, <2>3, Rest, MovedOnly
  <1> QED BY <1>4, <1>5

LEMMA EndOtherKeeps ==
  ASSUME IInv, NEW w \in Workers, NEW s \in Subs, EndOther(w, s)
  PROVE  IInv'
  <1> DEFINE p == proc[w]
             q == [p EXCEPT !.at = "close", !.other = s]
  <1>1. p \in Procs /\ Sound(p, Exist, Over) /\ p.at = "end" /\ s \in p.others
    BY Worker DEF EndOther
  <1>2. UNCHANGED <<row, cut, requests>> /\ access' = access /\ Goto(w, q) /\ Deactivate(s)
    BY DEF EndOther
  <1>3. /\ remote' \in [Subs -> Remotes] /\ Over \subseteq Over' /\ s \in Over'
        /\ refused' \subseteq Subs /\ faults' \in 0..MaxFaults
    BY <1>2, DeactivateGrows DEF IInv
  <1>4. q \in Procs /\ q.on = p.on /\ q.copy = p.copy /\ q.others = p.others /\ q.other = s
        /\ q.at # "idle"
    BY <1>1 DEF Procs, Saving
  <1> HIDE DEF p, q
  <1>5. Sound(q, Exist, Over')
    BY <1>1, <1>3, <1>4 DEF Sound
  <1> QED BY <1>2, <1>3, <1>4, <1>5, Rest, MovedRemote

LEMMA CloseOtherKeeps ==
  ASSUME IInv, NEW w \in Workers, CloseOther(w)
  PROVE  IInv'
  <1> DEFINE p == proc[w]
             t == p.other
             c == [row[t] EXCEPT !.active = FALSE, !.status = "canceled"]
  <1>1. p \in Procs /\ Sound(p, Exist, Over) /\ p.at = "close"
    BY Worker DEF CloseOther
  <1>2. t \in Exist /\ t \in Over /\ t \in Subs
    BY <1>1 DEF Sound, Exist
  <1>3. row \in [Subs -> Rows] /\ remote' = remote /\ remote \in [Subs -> Remotes]
        /\ row' = [row EXCEPT ![t].active = FALSE, ![t].status = "canceled"]
        /\ refused' = refused
    BY DEF CloseOther, IInv, TypeOK, history
  <1>4. c \in Rows /\ c.exists = row[t].exists
    BY <1>2, <1>3 DEF Rows, Statuses
  <1>5. row' = [row EXCEPT ![t] = c]
    BY <1>2, <1>3
  <1> HIDE DEF c
  <1>6. row' \in [Subs -> Rows] /\ \A s \in Subs : row'[s].exists = row[s].exists
    BY <1>2, <1>3, <1>4, <1>5
  <1>7. Over' = Over /\ Exist' = Exist
    BY <1>3, <1>6 DEF Over, Exist
  <1>8. CanceledEnds'
    <2> SUFFICES ASSUME NEW s \in Exist, row'[s].status = "canceled" PROVE s \in Over
      BY <1>3, <1>7 DEF CanceledEnds, Live, Over
    <2>1. s \in Subs
      BY DEF Exist
    <2>2. CASE s = t
      BY <1>2, <2>2
    <2>3. CASE s # t
      BY <1>3, <1>5, <2>1, <2>3 DEF IInv, CanceledEnds, Live, Over
    <2> QED BY <2>2, <2>3
  <1>9. Goto(w, NextOther(p)) /\ NextOther(p) \in Procs /\ Sound(NextOther(p), Exist, Over)
    <2>1. Goto(w, NextOther(p))
      BY DEF CloseOther
    <2> QED BY <1>1, <2>1, NextOtherType, SoundNextOther
  <1>10. access' = access /\ cut' = cut /\ requests' = requests /\ faults' = faults
    BY DEF CloseOther, history, bounds
  <1> HIDE DEF p
  <1> QED BY <1>3, <1>6, <1>7, <1>8, <1>9, <1>10, Rest, Moved

\* A new subscription is nobody's: no row, no worker and no list of others has it.
LEMMA CreatedKeeps ==
  ASSUME IInv, NEW s \in Subs, NEW status \in Allowed, Created(s, status), row' = row,
         refused' = refused
  PROVE  /\ remote' \in [Subs -> Remotes] /\ CanceledEnds' /\ Exist' = Exist
         /\ \A v \in Workers : Sound(proc[v], Exist', Over')
  <1>1. TypeOK
    BY DEF IInv
  <1>2. status \in Statuses
    BY DEF Allowed, Statuses
  <1>3. remote' \in [Subs -> Remotes] /\ \A t \in Subs \ {s} : remote'[t] = remote[t]
    BY <1>1, <1>2 DEF Created, TypeOK, Remotes
  <1>4. Exist' = Exist /\ s \notin Exist /\ Over \ {s} \subseteq Over'
    BY <1>3 DEF Created, Exist, Over
  <1>5. CanceledEnds'
    BY <1>3, <1>4 DEF IInv, CanceledEnds, Exist, Live
  <1>6. ASSUME NEW v \in Workers PROVE Sound(proc[v], Exist', Over')
    <2>1. Sound(proc[v], Exist, Over) /\ proc[v].on # s
      BY Worker DEF Created
    <2> QED BY <1>4, <2>1 DEF Sound
  <1> QED BY <1>3, <1>4, <1>5, <1>6

LEMMA CreateLostKeeps ==
  ASSUME IInv, NEW w \in Workers, NEW s \in Subs, CreateLost(w, s)
  PROVE  IInv'
  <1>1. PICK status \in Allowed : Created(s, status)
    BY DEF CreateLost
  <1>2. /\ row' = row /\ proc' = proc /\ access' = access /\ cut' = cut /\ refused' = refused
        /\ requests' = requests + 1 /\ requests < MaxRequests
        /\ faults' = faults + 1 /\ faults < MaxFaults
    BY DEF CreateLost, Request, history
  <1>3. /\ remote' \in [Subs -> Remotes] /\ CanceledEnds'
        /\ \A v \in Workers : Sound(proc[v], Exist', Over')
    BY <1>1, <1>2, CreatedKeeps
  <1>4. requests' \in 0..MaxRequests /\ faults' \in 0..MaxFaults
    BY <1>2, SubscriptionsAssumption DEF IInv, TypeOK
  <1>5. TypeOK'
    BY <1>2, <1>3, <1>4 DEF IInv, TypeOK
  <1>6. SoundInv'
    BY <1>2, <1>3 DEF SoundInv
  <1> QED BY <1>3, <1>5, <1>6 DEF IInv

LEMMA CreateKeeps ==
  ASSUME IInv, NEW w \in Workers, NEW s \in Subs, Create(w, s)
  PROVE  IInv'
  <1>1. PICK status \in Allowed :
          /\ Created(s, status)
          /\ Goto(w, [Idle EXCEPT !.at = "write", !.on = s, !.next = "check", !.copy =
                 [exists |-> TRUE, active |-> TRUE, status |-> status, late |-> FALSE]])
    BY DEF Create
  <1> DEFINE c == [exists |-> TRUE, active |-> TRUE, status |-> status, late |-> FALSE]
             q == [Idle EXCEPT !.at = "write", !.on = s, !.next = "check", !.copy = c]
  <1>2. /\ row' = row /\ access' = access /\ cut' = cut /\ refused' = refused
        /\ requests' = requests + 1 /\ requests < MaxRequests /\ faults' = faults
    BY DEF Create, Request, history
  <1>3. TypeOK
    BY DEF IInv
  <1>4. status \in Statuses /\ status # "canceled"
    BY DEF Allowed, Statuses
  <1>5. /\ remote' \in [Subs -> Remotes] /\ CanceledEnds'
        /\ \A v \in Workers : Sound(proc[v], Exist', Over')
    BY <1>1, <1>2, CreatedKeeps
  <1>6. c \in Rows /\ c.exists /\ c.status = status
    BY <1>4 DEF Rows
  <1> HIDE DEF c
  <1>7. q \in Procs /\ q.at = "write" /\ q.on = s /\ q.copy = c /\ q.others = {}
    BY <1>6, IdleType DEF Procs, Idle, Saving
  <1>8. proc' = [proc EXCEPT ![w] = q]
    BY <1>1 DEF Goto, c
  <1> HIDE DEF q
  <1>9. TypeOK'
    <2>1. requests' \in 0..MaxRequests
      BY <1>2, <1>3, SubscriptionsAssumption DEF TypeOK
    <2> QED BY <1>2, <1>3, <1>5, <1>7, <1>8, <2>1 DEF TypeOK
  <1>10. ASSUME NEW v \in Workers
         PROVE  Sound(proc'[v], Exist', Over')
    <2>1. CASE v = w
      <3>1. proc'[v] = q
        BY <1>3, <1>8, <2>1 DEF TypeOK
      <3> QED BY <1>4, <1>6, <1>7, <3>1 DEF Sound
    <2>2. CASE v # w
      <3>1. proc'[v] = proc[v]
        BY <1>3, <1>8, <2>2 DEF TypeOK
      <3> QED BY <1>5, <3>1
    <2> QED BY <2>1, <2>2
  <1> QED BY <1>5, <1>9, <1>10 DEF IInv, SoundInv

LEMMA CheckInvoicesKeeps ==
  ASSUME IInv, NEW w \in Workers, CheckInvoices(w)
  PROVE  IInv'
  <1> DEFINE p == proc[w]
             c == [p.copy EXCEPT !.active = FALSE, !.status = "unpaid"]
             q == SaveOf(w, c, "all", "grant")
  <1>1. p \in Procs /\ Sound(p, Exist, Over) /\ p.at = "check"
    BY Worker DEF CheckInvoices
  <1>2. UNCHANGED <<row, remote, refused, cut>> /\ access' = access
        /\ requests' = requests /\ faults' = faults
    BY DEF CheckInvoices, history, bounds
  <1>3. CASE Goto(w, Then(p, "grant"))
    <2>1. Then(p, "grant") \in Procs /\ Sound(Then(p, "grant"), Exist, Over)
      BY <1>1, ThenType, SoundThen DEF Nexts
    <2> QED BY <1>2, <1>3, <2>1, Rest, MovedOnly
  <1>4. CASE Goto(w, q)
    <2>1. c \in Rows /\ c.exists = p.copy.exists /\ c.status = "unpaid"
      BY <1>1, ProcFields DEF Rows, Statuses
    <2> HIDE DEF c
    <2>2. q \in Procs /\ q.copy = c /\ q.on = p.on /\ q.others = p.others /\ q.at = "write"
      BY <2>1, SaveType DEF IInv
    <2> HIDE DEF q
    <2>3. Sound(q, Exist, Over)
      BY <1>1, <2>1, <2>2 DEF Sound
    <2> QED BY <1>2, <1>4, <2>2, <2>3, Rest, MovedOnly
  <1> QED BY <1>3, <1>4 DEF CheckInvoices, At

LEMMA GrantKeeps ==
  ASSUME IInv, NEW w \in Workers, Grant(w)
  PROVE  IInv'
  <1>1. /\ UNCHANGED <<row, remote, refused, cut>> /\ Goto(w, Idle)
        /\ requests' = requests /\ faults' = faults
    BY DEF Grant, history, bounds
  <1>2. access' \in {"all", "canceling", "none"}
    BY DEF Grant, IInv, TypeOK
  <1> QED BY <1>1, <1>2, IdleType, SoundIdle, Rest, MovedOnly

LEMMA BeginCancelKeeps ==
  ASSUME IInv, NEW w \in Workers, NEW s \in Subs, BeginCancel(w, s)
  PROVE  IInv'
  <1> DEFINE q == [Idle EXCEPT !.at = "cancel", !.on = s, !.copy = row[s]]
  <1>1. /\ UNCHANGED <<row, remote, refused, cut>> /\ access' = access /\ Goto(w, q)
        /\ s \in Exist /\ requests' = requests + 1 /\ requests < MaxRequests
        /\ faults' = faults
    BY DEF BeginCancel, Request, Exist, history
  <1>2. requests' \in 0..MaxRequests
    BY <1>1, SubscriptionsAssumption DEF IInv, TypeOK
  <1>3. row[s] \in Rows /\ row[s].exists /\ (row[s].status = "canceled" => s \in Over)
    BY <1>1 DEF IInv, TypeOK, Exist, CanceledEnds, Live, Over
  <1>4. q \in Procs /\ q.at = "cancel" /\ q.on = s /\ q.copy = row[s] /\ q.others = {}
    BY <1>3, IdleType DEF Procs, Idle, Requests
  <1> HIDE DEF q
  <1>5. Sound(q, Exist, Over)
    BY <1>3, <1>4 DEF Sound
  <1> QED BY <1>1, <1>2, <1>4, <1>5, Rest, MovedOnly

LEMMA CancelKeeps ==
  ASSUME IInv, NEW w \in Workers, Cancel(w)
  PROVE  IInv'
  <1> DEFINE p == proc[w]
             c == [p.copy EXCEPT !.active = FALSE, !.status = "canceled"]
             q == SaveOf(w, c, "all", "idle")
  <1>1. p \in Procs /\ Sound(p, Exist, Over) /\ p.at = "cancel"
    BY Worker DEF Cancel
  <1>2. UNCHANGED <<row, cut, requests>> /\ access' = access /\ Goto(w, q) /\ Deactivate(p.on)
    BY DEF Cancel
  <1>3. p.on \in Subs
    BY <1>1 DEF Sound
  <1>4. /\ remote' \in [Subs -> Remotes] /\ Over \subseteq Over' /\ p.on \in Over'
        /\ refused' \subseteq Subs /\ faults' \in 0..MaxFaults
    BY <1>2, <1>3, DeactivateGrows DEF IInv
  <1>5. c \in Rows /\ c.exists = p.copy.exists
    <2>1. p.copy \in Rows /\ "canceled" \in Statuses
      BY <1>1, ProcFields DEF Statuses
    <2> HIDE DEF p
    <2> QED BY <2>1 DEF Rows
  <1> HIDE DEF c
  <1>6. q \in Procs /\ q.copy = c /\ q.on = p.on /\ q.others = p.others /\ q.at = "write"
    BY <1>5, SaveType DEF IInv
  <1> HIDE DEF q
  <1>7. Sound(q, Exist, Over')
    BY <1>1, <1>4, <1>5, <1>6 DEF Sound
  <1> HIDE DEF p
  <1> QED BY <1>2, <1>4, <1>6, <1>7, Rest, MovedRemote

LEMMA RetrieveKeeps ==
  ASSUME IInv, NEW w \in Workers, NEW s \in Subs, Retrieve(w, s)
  PROVE  IInv'
  <1> DEFINE q == [Idle EXCEPT !.at = "write", !.on = s, !.copy = Synced(s),
                     !.columns = "status", !.next = "periods"]
  <1>1. UNCHANGED <<row, remote, refused, cut>> /\ access' = access /\ Goto(w, q) /\ row[s].exists
        /\ requests' = requests /\ faults' = faults
    BY DEF Retrieve, history, bounds
  <1>2. row[s] \in Rows /\ remote[s].status \in Statuses
    BY DEF IInv, TypeOK, Remotes
  <1>3. Synced(s) \in Rows /\ Synced(s).exists = row[s].exists
        /\ Synced(s).status = remote[s].status
    <2> DEFINE allowed == remote[s].status \in Allowed
    <2>1. allowed \in BOOLEAN
      BY SMT DEF Allowed
    <2>2. Synced(s) = [row[s] EXCEPT !.status = remote[s].status, !.active = allowed]
      BY DEF Synced
    <2> HIDE DEF allowed
    <2> QED BY <1>2, <2>1, <2>2 DEF Rows
  <1>4. q \in Procs /\ q.at = "write" /\ q.on = s /\ q.copy = Synced(s) /\ q.others = {}
    BY <1>3, IdleType DEF Procs, Idle, Saving, Syncing
  <1> HIDE DEF q
  <1>5. Sound(q, Exist, Over)
    BY <1>1, <1>3, <1>4 DEF Sound, Over
  <1> QED BY <1>1, <1>4, <1>5, Rest, MovedOnly

LEMMA SyncPeriodsKeeps ==
  ASSUME IInv, NEW w \in Workers, SyncPeriods(w)
  PROVE  IInv'
  <1> DEFINE p == proc[w]
             c == [p.copy EXCEPT !.late = FALSE]
             q == SaveOf(w, c, "periods", "permissions")
  <1>1. p \in Procs /\ Sound(p, Exist, Over) /\ p.at = "periods"
    BY Worker DEF SyncPeriods
  <1>2. UNCHANGED <<row, remote, refused, cut>> /\ access' = access
        /\ requests' = requests /\ faults' = faults
    BY DEF SyncPeriods, history, bounds
  <1>3. CASE Goto(w, Then(p, "permissions"))
    <2>1. Then(p, "permissions") \in Procs /\ Sound(Then(p, "permissions"), Exist, Over)
      BY <1>1, ThenType, SoundThen DEF Nexts, Syncing
    <2> QED BY <1>2, <1>3, <2>1, Rest, MovedOnly
  <1>4. CASE Goto(w, q)
    <2>1. c \in Rows /\ c.exists = p.copy.exists /\ c.status = p.copy.status
      BY <1>1, ProcFields DEF Rows
    <2> HIDE DEF c
    <2>2. q \in Procs /\ q.copy = c /\ q.on = p.on /\ q.others = p.others /\ q.at = "write"
      BY <2>1, SaveType DEF IInv, Syncing
    <2> HIDE DEF q
    <2>3. Sound(q, Exist, Over)
      BY <1>1, <2>1, <2>2 DEF Sound
    <2> QED BY <1>2, <1>4, <2>2, <2>3, Rest, MovedOnly
  <1> QED BY <1>3, <1>4 DEF SyncPeriods, At

LEMMA SyncPermissionsKeeps ==
  ASSUME IInv, NEW w \in Workers, SyncPermissions(w)
  PROVE  IInv'
  <1> DEFINE p == proc[w]
             q == SaveOf(w, p.copy, "all", "idle")
  <1>1. p \in Procs /\ Sound(p, Exist, Over) /\ p.at = "permissions"
    BY Worker DEF SyncPermissions
  <1>2. UNCHANGED <<row, cut, requests>> /\ Goto(w, q)
    BY DEF SyncPermissions
  <1>3. q \in Procs /\ q.copy = p.copy /\ q.on = p.on /\ q.others = p.others /\ q.at = "write"
    BY <1>1, ProcFields, SaveType DEF IInv
  <1>4. p.on \in Subs
    BY <1>1 DEF Sound
  <1>5. Sound(q, Exist, Over)
    BY <1>1, <1>3 DEF Sound
  <1>6. CASE Lapsed(p.copy)
    <2>1. Deactivate(p.on) /\ access' \in {"all", "canceling", "none"}
      BY <1>6 DEF SyncPermissions
    <2>2. /\ remote' \in [Subs -> Remotes] /\ Over \subseteq Over'
          /\ refused' \subseteq Subs /\ faults' \in 0..MaxFaults
      BY <1>4, <2>1, DeactivateGrows DEF IInv
    <2>3. Sound(q, Exist, Over')
      BY <1>5, <2>2, SoundGrows
    <2> HIDE DEF p, q
    <2> QED BY <1>2, <1>3, <2>1, <2>2, <2>3, Rest, MovedRemote
  <1>7. CASE ~Lapsed(p.copy)
    <2>1. UNCHANGED <<remote, refused, faults>> /\ access' = access
      BY <1>7 DEF SyncPermissions
    <2> HIDE DEF p, q
    <2> QED BY <1>2, <1>3, <1>5, <2>1, Rest, MovedOnly
  <1> QED BY <1>6, <1>7

LEMMA StopKeeps ==
  ASSUME IInv, NEW w \in Workers, Error(w) \/ Die(w)
  PROVE  IInv'
  <1>1. /\ UNCHANGED <<row, access, refused, requests>> /\ Goto(w, Idle) /\ cut' \in BOOLEAN
        /\ faults' = faults + 1 /\ faults < MaxFaults
    BY DEF Error, Die, Stop, IInv, TypeOK
  <1>2. faults' \in 0..MaxFaults
    BY <1>1, SubscriptionsAssumption DEF IInv, TypeOK
  <1>3. proc[w] \in Procs /\ Sound(proc[w], Exist, Over)
    BY Worker
  <1>4. CASE remote' = remote
    BY <1>1, <1>2, <1>4, IdleType, SoundIdle, Rest, MovedOnly
  <1>5. CASE \E s \in Ends(proc[w]) : EndAt(s)
    <2>1. PICK s \in Ends(proc[w]) : EndAt(s)
      BY <1>5
    <2>2. s \in Subs
      BY <1>3, <2>1, ProcFields DEF Ends, Sound
    <2>3. /\ remote' \in [Subs -> Remotes]
          /\ \A u \in Subs : remote[u].ending \/ remote[u].status = "canceled"
                               => remote'[u].ending \/ remote'[u].status = "canceled"
      BY <2>1, <2>2, EndAtGrows DEF IInv
    <2>4. Over \subseteq Over'
      BY <1>1, <2>3 DEF Over
    <2> QED BY <1>1, <1>2, <2>3, <2>4, IdleType, SoundIdle, Rest, MovedRemote
  <1> QED BY <1>4, <1>5 DEF Error, Die

\* The provider, time and the task of access move no worker.
LEMMA Unmoved ==
  ASSUME IInv, proc' = proc, row' \in [Subs -> Rows], remote' \in [Subs -> Remotes],
         access' \in {"all", "canceling", "none"}, refused' \subseteq Subs, cut' = cut,
         UNCHANGED bounds, Exist' = Exist, Over \subseteq Over',
         \A s \in Subs : row'[s].status = row[s].status
  PROVE  IInv'
  <1>1. TypeOK'
    BY DEF IInv, TypeOK, bounds
  <1>2. CanceledEnds'
    BY DEF IInv, CanceledEnds, Exist, Live, Over
  <1>3. \A w \in Workers : Sound(proc[w], Exist', Over')
    BY SoundGrows DEF IInv, SoundInv
  <1> QED BY <1>1, <1>2, <1>3 DEF IInv, SoundInv

LEMMA OutsideKeeps ==
  ASSUME IInv, CancelAccess \/ \E s \in Subs : Settle(s) \/ Renew(s) \/ Delay(s)
  PROVE  IInv'
  <1> USE DEF IInv, TypeOK
  <1>1. CASE CancelAccess
    <2>1. /\ proc' = proc /\ row' = row /\ remote' = remote /\ UNCHANGED bounds
          /\ access' = "none" /\ refused' = refused /\ cut' = cut
      BY <1>1 DEF CancelAccess, history
    <2>2. Exist' = Exist /\ Over' = Over
      BY <2>1 DEF Exist, Over
    <2>3. row' \in [Subs -> Rows] /\ remote' \in [Subs -> Remotes] /\ refused' \subseteq Subs
      BY <2>1
    <2> QED BY <2>1, <2>2, <2>3, Unmoved
  <1>2. ASSUME NEW s \in Subs, Settle(s) \/ Renew(s)
        PROVE  IInv'
    <2>1. row' = row /\ access' = access /\ proc' = proc /\ cut' = cut /\ UNCHANGED bounds
      BY <1>2 DEF Settle, Renew
    <2>2. row' \in [Subs -> Rows] /\ access' \in {"all", "canceling", "none"}
      BY <2>1
    <2>3. CASE Close(s)
      <3>1. remote' \in [Subs -> Remotes] /\ refused' \subseteq Subs
        BY <2>3 DEF Close, NoRemote, Remotes, Statuses
      <3>2. remote'[s].status = "canceled" /\ \A u \in Subs \ {s} : remote'[u] = remote[u]
        BY <2>3 DEF Close, NoRemote
      <3>3. Exist' = Exist /\ Over \subseteq Over'
        BY <2>1, <2>3, <3>2 DEF Close, Exist, Over
      <3> QED BY <2>1, <2>2, <3>1, <3>3, Unmoved
    <2>4. CASE refused' = refused /\ \E status \in {"active", "unpaid"} :
                 remote' = [remote EXCEPT ![s].status = status]
      <3>1. PICK status \in {"active", "unpaid"} : remote' = [remote EXCEPT ![s].status = status]
        BY <2>4
      <3>2. remote' \in [Subs -> Remotes]
        BY <3>1 DEF Remotes, Statuses, Allowed
      <3>3. /\ remote'[s].ending = remote[s].ending
            /\ \A u \in Subs \ {s} : remote'[u] = remote[u]
        BY <3>1 DEF Remotes
      <3>4. remote[s].status # "canceled" \/ Close(s)
        BY <1>2 DEF Settle, Renew
      <3>5. Exist' = Exist /\ Over \subseteq Over'
        <4>1. CASE Close(s)
          <5>1. remote'[s].status = "canceled"
            BY <4>1 DEF Close, NoRemote
          <5> QED BY <2>1, <2>4, <3>3, <5>1 DEF Exist, Over
        <4>2. CASE remote[s].status # "canceled"
          BY <2>1, <2>4, <3>3, <4>2 DEF Exist, Over
        <4> QED BY <3>4, <4>1, <4>2
      <3> QED BY <2>1, <2>2, <2>4, <3>2, <3>5, Unmoved
    <2> QED BY <1>2, <2>3, <2>4 DEF Settle, Renew
  <1>3. ASSUME NEW s \in Subs, Delay(s)
        PROVE  IInv'
    <2>1. row' = [row EXCEPT ![s].late = TRUE] /\ remote' = remote /\ access' = access
          /\ proc' = proc /\ UNCHANGED bounds /\ refused' = refused /\ cut' = cut
      BY <1>3 DEF Delay, history
    <2>2. row' \in [Subs -> Rows]
      BY <2>1 DEF Rows
    <2>3. \A t \in Subs : row'[t].status = row[t].status /\ row'[t].exists = row[t].exists
      BY <2>1 DEF Rows
    <2>4. Exist' = Exist /\ Over' = Over
      BY <2>1, <2>3 DEF Exist, Over
    <2>5. /\ remote' \in [Subs -> Remotes] /\ access' \in {"all", "canceling", "none"}
          /\ refused' \subseteq Subs
      BY <2>1
    <2> QED BY <2>1, <2>2, <2>3, <2>4, <2>5, Unmoved
  <1> QED BY <1>1, <1>2, <1>3

-----------------------------------------------------------------------------

LEMMA InitInvariant == Init => IInv
  <1> SUFFICES ASSUME Init PROVE IInv
    OBVIOUS
  <1>1. \A s \in Subs : row[s] \in Rows /\ row[s].status \in {"active", "canceled"}
                         /\ (row[s].status = "canceled" => ~row[s].exists)
    BY DEF Init, Rows, NoRow, Statuses, Allowed
  <1>2. row \in [Subs -> Rows] /\ remote \in [Subs -> Remotes]
    BY <1>1 DEF Init, Remotes, NoRemote, Statuses, Allowed
  <1>3. requests \in 0..MaxRequests /\ faults \in 0..MaxFaults
    BY SubscriptionsAssumption DEF Init
  <1>4. proc \in [Workers -> Procs] /\ \A w \in Workers : proc[w] = Idle
    BY IdleType DEF Init
  <1>5. TypeOK
    BY <1>2, <1>3, <1>4 DEF TypeOK, Init
  <1>6. CanceledEnds
    BY <1>1 DEF CanceledEnds, Exist, Live
  <1>7. SoundInv
    BY <1>4, SoundIdle DEF SoundInv
  <1> QED BY <1>5, <1>6, <1>7 DEF IInv

LEMMA NextInvariant == IInv /\ [Next]_vars => IInv'
  <1> SUFFICES ASSUME IInv, [Next]_vars PROVE IInv'
    OBVIOUS
  <1>1. ASSUME NEW w \in Workers, NEW s \in Subs, EndOther(w, s) \/ Create(w, s)
               \/ CreateLost(w, s) \/ BeginCancel(w, s) \/ Retrieve(w, s)
        PROVE  IInv'
    BY <1>1, EndOtherKeeps, CreateKeeps, CreateLostKeeps, BeginCancelKeeps, RetrieveKeeps
  <1>2. ASSUME NEW w \in Workers, Write(w) \/ ReadOthers(w) \/ CloseOther(w) \/ CheckInvoices(w)
               \/ Grant(w)
        PROVE  IInv'
    BY <1>2, WriteKeeps, ReadOthersKeeps, CloseOtherKeeps, CheckInvoicesKeeps, GrantKeeps
  <1>3. ASSUME NEW w \in Workers, Cancel(w) \/ SyncPeriods(w) \/ SyncPermissions(w) \/ Error(w)
               \/ Die(w)
        PROVE  IInv'
    BY <1>3, CancelKeeps, SyncPeriodsKeeps, SyncPermissionsKeeps, StopKeeps
  <1>4. CASE CancelAccess \/ \E s \in Subs : Settle(s) \/ Renew(s) \/ Delay(s)
    BY <1>4, OutsideKeeps
  <1>5. CASE UNCHANGED vars
    <2>1. Exist' = Exist /\ Over' = Over /\ proc' = proc /\ row' = row /\ remote' = remote
          /\ access' = access /\ refused' = refused /\ cut' = cut /\ UNCHANGED bounds
      BY <1>5 DEF vars, history, Exist, Over
    <2>2. row' \in [Subs -> Rows] /\ remote' \in [Subs -> Remotes]
          /\ access' \in {"all", "canceling", "none"} /\ refused' \subseteq Subs
      BY <2>1 DEF IInv, TypeOK
    <2> QED BY <2>1, <2>2, Unmoved
  <1> QED BY <1>1, <1>2, <1>3, <1>4, <1>5 DEF Next, Step

LEMMA Invariant == Spec => []IInv
  BY InitInvariant, NextInvariant, PTL DEF Spec

\* The rows, the provider's copies and the workers keep their types.
THEOREM TypeCorrect == Spec => []TypeOK
  <1>1. IInv => TypeOK
    BY DEF IInv
  <1> QED BY <1>1, Invariant, PTL

\* However saves, cancellations and sync_subscriptions overlap, and wherever an error,
\* a lost answer or a kill comes between, a subscription that is canceled here is over
\* at the provider, or ends with its period, or is one that the provider last refused
\* to end (Subscription.deactivate, which swallows that, before the save of the row).
THEOREM CanceledEndsThere == Spec => []CanceledEnds
  <1>1. IInv => CanceledEnds
    BY DEF IInv
  <1> QED BY <1>1, Invariant, PTL

-----------------------------------------------------------------------------
(* At most one subscription stays active, and the only one is kept *)

\* A worker at work has a subscription that exists, unless it is the first to
\* save it, and does not deactivate that one.
Placed(p, E) ==
  /\ p.at # "idle" /\ (p.at = "write" => p.columns # "all") => p.on \in E
  /\ p.on \notin p.others

\* A worker of the synchronisation takes the status and whether it is active
\* together, and has moved the period before it looks at the access.
TakenTogether(p) ==
  /\ p.at = "periods" => p.next = "periods"
  /\ p.next \in Syncing => (p.copy.status = "active" => p.copy.active)
  /\ p.next = "permissions" => ~p.copy.late
  /\ p.at = "permissions" => (p.copy.status = "active" => ~p.copy.late)

WorkInv == \A w \in Workers : Placed(proc[w], Exist) /\ TakenTogether(proc[w])

\* A worker that is about to deactivate s or t, or to read that it has to.
Settling(p, s, t) ==
  \/ p.at = "others" /\ p.on \in {s, t}
  \/ p.at \in {"end", "close"} /\ p.others \cap {s, t} # {}

\* Of two subscriptions that are active some worker settles one, unless one was cut
\* short.
OneInv ==
  ~cut =>
    \A s, t \in Active : s = t \/ \E w \in Workers : Settling(proc[w], s, t)

Good == WorkInv /\ OneInv

LEMMA IdleWorks == ASSUME NEW E PROVE Placed(Idle, E) /\ TakenTogether(Idle)
  BY DEF Placed, TakenTogether, Idle, Syncing, NoRow

\* A worker that goes to a step with the copy it has.
LEMMA ThenWorks ==
  ASSUME NEW p \in Procs, NEW step \in Nexts, NEW E,
         p.on \in E, p.on \notin p.others, TakenTogether(p),
         step = "periods" => p.next = "periods",
         step = "permissions" => (p.copy.status = "active" => ~p.copy.late)
  PROVE  /\ Placed(Then(p, step), E) /\ TakenTogether(Then(p, step))
         /\ step # "idle" => /\ Then(p, step).at = step
                             /\ Then(p, step).on = p.on /\ Then(p, step).others = p.others
  <1>1. CASE step = "idle"
    BY <1>1, IdleWorks DEF Then
  <1>2. CASE step # "idle"
    <2> DEFINE q == [p EXCEPT !.at = step]
    <2>1. Then(p, step) = q
      BY <1>2 DEF Then
    <2>2. /\ q.at = step /\ q.on = p.on /\ q.copy = p.copy /\ q.others = p.others
          /\ q.next = p.next
      BY DEF Procs
    <2> HIDE DEF q
    <2>3. Placed(q, E)
      BY <2>2 DEF Placed
    <2>4. TakenTogether(q)
      BY <2>2 DEF TakenTogether
    <2> QED BY <1>2, <2>1, <2>2, <2>3, <2>4
  <1> QED BY <1>1, <1>2

\* After a save the access may be looked at, if that is the step that follows.
LEMMA NextFollows ==
  ASSUME NEW p \in Procs, TakenTogether(p)
  PROVE  p.next = "permissions" => (p.copy.status = "active" => ~p.copy.late)
  BY DEF TakenTogether

\* A worker that is to save another copy of its row.
LEMMA SaveWorks ==
  ASSUME TypeOK, NEW w \in Workers, NEW c \in Rows, NEW columns \in {"status", "periods", "all"},
         NEW next \in {"idle", "check", "grant"} \cup Syncing, NEW E,
         proc[w].on \in E, proc[w].on \notin proc[w].others,
         next \in Syncing => (c.status = "active" => c.active),
         next = "permissions" => ~c.late
  PROVE  Placed(SaveOf(w, c, columns, next), E) /\ TakenTogether(SaveOf(w, c, columns, next))
  <1> DEFINE q == SaveOf(w, c, columns, next)
  <1>1. proc[w] \in Procs
    BY DEF TypeOK
  <1>2. /\ q.at = "write" /\ q.on = proc[w].on /\ q.others = proc[w].others
        /\ q.copy = c /\ q.next = next
    BY <1>1 DEF SaveOf, Procs
  <1> HIDE DEF q
  <1> QED BY <1>2 DEF Placed, TakenTogether, q

\* A step of one worker keeps the workers as they are to be.
LEMMA OneWorks ==
  ASSUME IInv, WorkInv, NEW w \in Workers, NEW p, Goto(w, p), Exist \subseteq Exist',
         Placed(p, Exist'), TakenTogether(p)
  PROVE  /\ WorkInv' /\ proc'[w] = p
         /\ \A v \in Workers \ {w} : proc'[v] = proc[v]
  <1>1. proc' = [proc EXCEPT ![w] = p] /\ proc \in [Workers -> Procs]
    BY DEF Goto, IInv, TypeOK
  <1>2. \A v \in Workers : proc'[v] = IF v = w THEN p ELSE proc[v]
    BY <1>1
  <1>3. \A v \in Workers : Placed(proc'[v], Exist') /\ TakenTogether(proc'[v])
    BY <1>2 DEF WorkInv, Placed
  <1> QED BY <1>2, <1>3 DEF WorkInv

\* A worker that does not settle anything, and activates nothing, takes a step.
LEMMA OneStays ==
  ASSUME OneInv, NEW w \in Workers, proc[w].at \notin {"others", "end", "close"},
         \A v \in Workers \ {w} : proc'[v] = proc[v],
         Active' \subseteq Active, cut' = cut
  PROVE  OneInv'
  <1> SUFFICES ASSUME ~cut, NEW s \in Active', NEW t \in Active', s # t
               PROVE  \E v \in Workers : Settling(proc'[v], s, t)
    BY DEF OneInv
  <1>1. PICK v \in Workers : Settling(proc[v], s, t)
    BY DEF OneInv
  <1>2. v # w
    BY <1>1 DEF Settling
  <1> QED BY <1>1, <1>2

\* What is known of a worker that takes a step.
LEMMA WorkerNow ==
  ASSUME IInv, WorkInv, NEW w \in Workers
  PROVE  /\ proc[w] \in Procs /\ Sound(proc[w], Exist, Over)
         /\ proc[w].at # "idle" => proc[w].on \in Subs
         /\ proc[w].at \notin {"idle", "write"} => proc[w].on \in Exist
         /\ proc[w].at = "write" /\ proc[w].columns # "all" => proc[w].on \in Exist
         /\ proc[w].on \notin proc[w].others /\ TakenTogether(proc[w])
  BY Worker DEF WorkInv, Placed, Sound

LEMMA SameRows ==
  ASSUME row' = row
  PROVE  Exist' = Exist /\ Active' = Active
  BY DEF Exist, Active

\* The row is written: if it is active, the others are looked at next.
LEMMA WriteOne ==
  ASSUME IInv, Good, NEW w \in Workers, Write(w)
  PROVE  Good'
  <1> DEFINE p == proc[w]
             step == IF p.copy.active THEN "others" ELSE p.next
             q == Then(p, step)
  <1>0. IInv /\ WorkInv /\ OneInv
    BY DEF Good
  <1>1. /\ p \in Procs /\ p.at = "write" /\ p.on \in Subs /\ p.copy \in Rows /\ p.copy.exists
        /\ p.columns # "all" => p.on \in Exist
        /\ p.on \notin p.others /\ TakenTogether(p)
    BY <1>0, WorkerNow, ProcFields DEF Write, Sound
  <1>2. /\ row \in [Subs -> Rows] /\ row' = [row EXCEPT ![p.on] = Written(row[p.on], p)]
        /\ cut' = cut /\ Goto(w, q)
    BY DEF Write, IInv, TypeOK, At, history
  <1>3. p.columns \in {"status", "periods", "all"}
    BY <1>1 DEF Procs
  <1>4. /\ Written(row[p.on], p).exists
        /\ Written(row[p.on], p).active
             => p.copy.active \/ (p.columns = "periods" /\ row[p.on].active)
    <2>1. row[p.on] \in Rows /\ (p.on \in Exist => row[p.on].exists)
      BY <1>1, <1>2 DEF Exist
    <2>2. CASE p.columns = "all"
      BY <1>1, <2>2 DEF Written
    <2>3. CASE p.columns = "status"
      BY <1>1, <2>1, <2>3 DEF Written, Rows
    <2>4. CASE p.columns = "periods"
      BY <1>1, <2>1, <2>4 DEF Written, Rows
    <2> QED BY <1>3, <2>2, <2>3, <2>4
  <1>5. Exist \subseteq Exist' /\ p.on \in Exist'
    BY <1>1, <1>2, <1>4 DEF Exist
  <1>6. step \in Nexts /\ (step = "periods" => p.next = "periods")
        /\ (step = "permissions" => (p.copy.status = "active" => ~p.copy.late))
    BY <1>1, ProcFields, NextFollows DEF Nexts
  <1>7. /\ Placed(q, Exist') /\ TakenTogether(q)
        /\ step # "idle" => q.at = step /\ q.on = p.on /\ q.others = p.others
    <2> HIDE DEF p, step
    <2> QED BY <1>1, <1>5, <1>6, ThenWorks
  <1> HIDE DEF q
  <1>8. WorkInv' /\ proc'[w] = q /\ \A v \in Workers \ {w} : proc'[v] = proc[v]
    BY <1>0, <1>2, <1>5, <1>7, OneWorks
  <1>9. \A s \in Subs \ {p.on} : row'[s] = row[s]
    BY <1>2
  <1>10. OneInv'
    <2> SUFFICES ASSUME ~cut, NEW s \in Active', NEW t \in Active', s # t
                 PROVE  \E v \in Workers : Settling(proc'[v], s, t)
      BY <1>2 DEF OneInv
    <2>1. CASE p.copy.active /\ p.on \in {s, t}
      <3>1. q.at = "others" /\ q.on = p.on
        BY <1>7, <2>1
      <3> QED BY <1>8, <2>1, <3>1 DEF Settling
    <2>2. CASE ~(p.copy.active /\ p.on \in {s, t})
      <3>1. s \in Active /\ t \in Active
        <4>1. ASSUME NEW u \in Active', u \in {s, t} PROVE u \in Active
          <5>1. u \in Subs /\ row'[u].exists /\ row'[u].active
            BY <4>1 DEF Active, Exist
          <5>2. CASE u # p.on
            BY <1>9, <5>1, <5>2 DEF Active, Exist
          <5>3. CASE u = p.on
            <6>1. row'[u] = Written(row[p.on], p)
              BY <1>1, <1>2, <5>3
            <6>2. p.columns = "periods" /\ row[u].active
              BY <1>4, <2>2, <4>1, <5>1, <5>3, <6>1
            <6> QED BY <1>1, <5>3, <6>2 DEF Active
          <5> QED BY <5>2, <5>3
        <4> QED BY <4>1
      <3>2. PICK v \in Workers : Settling(proc[v], s, t)
        BY <1>0, <3>1 DEF OneInv
      <3>3. v # w
        BY <1>1, <3>2 DEF Settling
      <3> QED BY <1>8, <3>2, <3>3
    <2> QED BY <2>1, <2>2
  <1> QED BY <1>8, <1>10 DEF Good

\* The others that are active are all to be deactivated.
LEMMA ReadOthersOne ==
  ASSUME IInv, Good, NEW w \in Workers, ReadOthers(w)
  PROVE  Good'
  <1> DEFINE p == proc[w]
             others == {s \in Subs \ {p.on} : row[s].exists /\ row[s].active}
             q == IF others = {} THEN Then(p, p.next)
                  ELSE [p EXCEPT !.at = "end", !.others = others]
  <1>0. IInv /\ WorkInv /\ OneInv
    BY DEF Good
  <1>1. /\ p \in Procs /\ p.at = "others" /\ p.on \in Exist
        /\ p.on \notin p.others /\ TakenTogether(p)
    BY <1>0, WorkerNow DEF ReadOthers
  <1>2. Goto(w, q) /\ row' = row
    BY DEF ReadOthers
  <1>3. Exist' = Exist /\ Active' = Active
    BY <1>2, SameRows
  <1>4. others = Active \ {p.on}
    BY DEF Active, Exist
  <1> HIDE DEF others
  <1>5. /\ Placed(q, Exist) /\ TakenTogether(q)
        /\ others # {} => q.at = "end" /\ q.others = others
    <2>1. CASE others = {}
      <3>1. q = Then(p, p.next) /\ p.next \in Nexts
        BY <1>1, <2>1, ProcFields
      <3>2. Placed(Then(p, p.next), Exist) /\ TakenTogether(Then(p, p.next))
        BY <1>1, <3>1, NextFollows, ThenWorks
      <3> QED BY <2>1, <3>1, <3>2
    <2>2. CASE others # {}
      <3>1. q = [p EXCEPT !.at = "end", !.others = others]
        BY <2>2
      <3>2. /\ q.at = "end" /\ q.on = p.on /\ q.copy = p.copy /\ q.others = others
            /\ q.next = p.next
        BY <1>1, <3>1 DEF Procs
      <3> HIDE DEF q, p
      <3> QED BY <1>1, <1>4, <3>2 DEF Placed, TakenTogether
    <2> QED BY <2>1, <2>2
  <1> HIDE DEF q
  <1>6. WorkInv' /\ proc'[w] = q /\ \A v \in Workers \ {w} : proc'[v] = proc[v]
    BY <1>0, <1>2, <1>3, <1>5, OneWorks
  <1>7. OneInv'
    <2> SUFFICES ASSUME NEW s \in Active, NEW t \in Active, s # t
                 PROVE  \E v \in Workers : Settling(proc'[v], s, t)
      BY <1>3 DEF OneInv
    <2>1. others \cap {s, t} # {}
      BY <1>4
    <2> QED BY <1>5, <1>6, <2>1 DEF Settling
  <1> QED BY <1>6, <1>7 DEF Good

\* One of them is ended at the provider ...
LEMMA EndOtherOne ==
  ASSUME IInv, Good, NEW w \in Workers, NEW u \in Subs, EndOther(w, u)
  PROVE  Good'
  <1> DEFINE p == proc[w]
             q == [p EXCEPT !.at = "close", !.other = u]
  <1>0. IInv /\ WorkInv /\ OneInv
    BY DEF Good
  <1>1. /\ p \in Procs /\ p.at = "end" /\ p.on \in Exist
        /\ p.on \notin p.others /\ TakenTogether(p)
    BY <1>0, WorkerNow DEF EndOther
  <1>2. Goto(w, q) /\ row' = row /\ cut' = cut
    BY DEF EndOther
  <1>3. Exist' = Exist /\ Active' = Active
    BY <1>2, SameRows
  <1>4. q.at = "close" /\ q.on = p.on /\ q.copy = p.copy /\ q.others = p.others /\ q.next = p.next
    BY <1>1 DEF Procs
  <1> HIDE DEF p, q
  <1>5. Placed(q, Exist) /\ TakenTogether(q)
    BY <1>1, <1>4 DEF Placed, TakenTogether
  <1>6. WorkInv' /\ proc'[w] = q /\ \A v \in Workers \ {w} : proc'[v] = proc[v]
    BY <1>0, <1>2, <1>3, <1>5, OneWorks
  <1>7. OneInv'
    <2> SUFFICES ASSUME ~cut, NEW s \in Active, NEW t \in Active, s # t
                 PROVE  \E v \in Workers : Settling(proc'[v], s, t)
      BY <1>2, <1>3 DEF OneInv
    <2>1. PICK v \in Workers : Settling(proc[v], s, t)
      BY <1>0 DEF OneInv
    <2>2. CASE v = w
      BY <1>1, <1>4, <1>6, <2>1, <2>2 DEF Settling, p
    <2>3. CASE v # w
      BY <1>6, <2>1, <2>3
    <2> QED BY <2>2, <2>3
  <1> QED BY <1>6, <1>7 DEF Good

\* ... and closed here, which settles it.
LEMMA CloseOtherOne ==
  ASSUME IInv, Good, NEW w \in Workers, CloseOther(w)
  PROVE  Good'
  <1> DEFINE p == proc[w]
             rest == p.others \ {p.other}
             d == [p EXCEPT !.others = rest, !.other = NoSub]
             step == IF rest = {} THEN p.next ELSE "end"
             q == Then(d, step)
  <1>0. IInv /\ WorkInv /\ OneInv
    BY DEF Good
  <1>1. /\ p \in Procs /\ p.at = "close" /\ p.on \in Exist /\ p.other \in Subs
        /\ p.on \notin p.others /\ TakenTogether(p)
    BY <1>0, WorkerNow DEF CloseOther, Sound, Exist
  <1>2. Goto(w, q) /\ cut' = cut /\ row \in [Subs -> Rows]
        /\ row' = [row EXCEPT ![p.other].active = FALSE, ![p.other].status = "canceled"]
    BY DEF CloseOther, NextOther, history, IInv, TypeOK
  <1>3. /\ ~row'[p.other].active /\ row'[p.other].exists = row[p.other].exists
        /\ \A s \in Subs \ {p.other} : row'[s] = row[s]
    BY <1>1, <1>2 DEF Rows
  <1>4. Exist' = Exist /\ Active' \subseteq Active \ {p.other}
    <2>1. \A s \in Subs : row'[s].exists = row[s].exists
      BY <1>3
    <2>2. Exist' = Exist
      BY <2>1 DEF Exist
    <2> QED BY <1>3, <2>2 DEF Active, Exist
  <1>5. /\ d \in Procs /\ d.at = "close" /\ d.on = p.on /\ d.copy = p.copy /\ d.others = rest
        /\ d.next = p.next
    BY <1>1 DEF Procs
  <1> HIDE DEF d
  <1>6. TakenTogether(d) /\ d.on \notin d.others
    BY <1>1, <1>5 DEF TakenTogether
  <1>7. step \in Nexts /\ (step = "periods" => d.next = "periods")
        /\ (step = "permissions" => (d.copy.status = "active" => ~d.copy.late))
    BY <1>1, <1>5, <1>6, ProcFields, NextFollows DEF Nexts
  <1>8. /\ Placed(q, Exist) /\ TakenTogether(q)
        /\ step # "idle" => q.at = step /\ q.others = rest
    <2> HIDE DEF p, step, rest
    <2> QED BY <1>1, <1>5, <1>6, <1>7, ThenWorks
  <1> HIDE DEF q
  <1>9. WorkInv' /\ proc'[w] = q /\ \A v \in Workers \ {w} : proc'[v] = proc[v]
    BY <1>0, <1>2, <1>4, <1>8, OneWorks
  <1>10. OneInv'
    <2> SUFFICES ASSUME ~cut, NEW s \in Active', NEW t \in Active', s # t
                 PROVE  \E v \in Workers : Settling(proc'[v], s, t)
      BY <1>2 DEF OneInv
    <2>1. s # p.other /\ t # p.other /\ s \in Active /\ t \in Active
      BY <1>4
    <2>2. PICK v \in Workers : Settling(proc[v], s, t)
      BY <1>0, <2>1 DEF OneInv
    <2>3. CASE v = w
      <3>1. rest \cap {s, t} # {}
        BY <1>1, <2>1, <2>2, <2>3 DEF Settling
      <3>2. q.at = "end" /\ q.others = rest
        BY <1>8, <3>1
      <3> QED BY <1>9, <3>1, <3>2 DEF Settling
    <2>4. CASE v # w
      BY <1>9, <2>2, <2>4
    <2> QED BY <2>3, <2>4
  <1> QED BY <1>9, <1>10 DEF Good

\* A step of a worker that writes no row, and neither reads nor ends the others.
LEMMA QuietOne ==
  ASSUME IInv, Good, NEW w \in Workers, NEW p, Goto(w, p), row' = row, cut' = cut,
         proc[w].at \notin {"others", "end", "close"},
         Placed(p, Exist), TakenTogether(p)
  PROVE  Good'
  <1>1. Exist' = Exist /\ Active' = Active
    BY SameRows
  <1>2. WorkInv' /\ \A v \in Workers \ {w} : proc'[v] = proc[v]
    BY <1>1, OneWorks DEF Good
  <1>3. OneInv'
    BY <1>1, <1>2, OneStays DEF Good
  <1> QED BY <1>2, <1>3 DEF Good

\* The requests and the synchronisation begin.
LEMMA BeginOne ==
  ASSUME IInv, Good, NEW w \in Workers, NEW s \in Subs,
         Create(w, s) \/ BeginCancel(w, s) \/ Retrieve(w, s)
  PROVE  Good'
  <1>1. CASE Create(w, s)
    <2>1. PICK status \in Allowed :
            Goto(w, [Idle EXCEPT !.at = "write", !.on = s, !.next = "check", !.copy =
                   [exists |-> TRUE, active |-> TRUE, status |-> status, late |-> FALSE]])
      BY <1>1 DEF Create
    <2> DEFINE c == [exists |-> TRUE, active |-> TRUE, status |-> status, late |-> FALSE]
               q == [Idle EXCEPT !.at = "write", !.on = s, !.next = "check", !.copy = c]
    <2>2. q.at = "write" /\ q.columns = "all" /\ q.on = s /\ q.next = "check" /\ q.others = {}
      BY DEF Idle
    <2>3. Goto(w, q) /\ row' = row /\ cut' = cut /\ proc[w].at = "idle"
      BY <1>1, <2>1 DEF Create, Request, history
    <2> HIDE DEF q
    <2>4. Placed(q, Exist) /\ TakenTogether(q)
      BY <2>2 DEF Placed, TakenTogether, Syncing
    <2> QED BY <2>3, <2>4, QuietOne
  <1>2. CASE BeginCancel(w, s)
    <2> DEFINE q == [Idle EXCEPT !.at = "cancel", !.on = s, !.copy = row[s]]
    <2>1. q.at = "cancel" /\ q.on = s /\ q.next = "idle" /\ q.others = {}
      BY DEF Idle
    <2>2. Goto(w, q) /\ row' = row /\ cut' = cut /\ proc[w].at = "idle" /\ s \in Exist
      BY <1>2 DEF BeginCancel, Request, Exist, history
    <2> HIDE DEF q
    <2>3. Placed(q, Exist) /\ TakenTogether(q)
      BY <2>1, <2>2 DEF Placed, TakenTogether, Syncing
    <2> QED BY <2>2, <2>3, QuietOne
  <1>3. CASE Retrieve(w, s)
    <2> DEFINE q == [Idle EXCEPT !.at = "write", !.on = s, !.copy = Synced(s),
                       !.columns = "status", !.next = "periods"]
    <2>1. q.at = "write" /\ q.on = s /\ q.next = "periods" /\ q.others = {} /\ q.copy = Synced(s)
      BY DEF Idle
    <2>2. Goto(w, q) /\ row' = row /\ cut' = cut /\ proc[w].at = "idle" /\ s \in Exist
      BY <1>3 DEF Retrieve, Exist, history
    <2>3. Synced(s).status = "active" => Synced(s).active
      <3> DEFINE allowed == remote[s].status \in Allowed
      <3>1. row[s] \in Rows
        BY DEF IInv, TypeOK
      <3>2. Synced(s) = [row[s] EXCEPT !.status = remote[s].status, !.active = allowed]
        BY DEF Synced
      <3>3. remote[s].status = "active" => allowed
        BY DEF Allowed
      <3> HIDE DEF allowed
      <3>4. Synced(s).status = remote[s].status /\ Synced(s).active = allowed
        BY <3>1, <3>2 DEF Rows
      <3> QED BY <3>3, <3>4
    <2> HIDE DEF q
    <2>4. Placed(q, Exist)
      BY <2>1, <2>2 DEF Placed
    <2>5. TakenTogether(q)
      BY <2>1, <2>3 DEF TakenTogether
    <2> QED BY <2>2, <2>4, <2>5, QuietOne
  <1> QED BY <1>1, <1>2, <1>3

\* The steps that read, or write at the provider.
LEMMA WorkingOne ==
  ASSUME IInv, Good, NEW w \in Workers,
         CheckInvoices(w) \/ Grant(w) \/ Cancel(w) \/ SyncPeriods(w) \/ SyncPermissions(w)
  PROVE  Good'
  <1> DEFINE p == proc[w]
  <1>0. TypeOK /\ row' = row /\ cut' = cut
    BY DEF IInv, CheckInvoices, Grant, Cancel, SyncPeriods, SyncPermissions, history
  <1>1. /\ p \in Procs /\ p.copy \in Rows /\ p.on \notin p.others /\ TakenTogether(p)
        /\ p.at \in {"check", "grant", "cancel", "periods", "permissions"} => p.on \in Exist
    BY WorkerNow, ProcFields DEF Good
  <1>2. CASE CheckInvoices(w)
    <2> DEFINE c == [p.copy EXCEPT !.active = FALSE, !.status = "unpaid"]
    <2>1. c \in Rows
      BY <1>1 DEF Rows, Statuses
    <2> HIDE DEF c
    <2>2. /\ Placed(SaveOf(w, c, "all", "grant"), Exist)
          /\ TakenTogether(SaveOf(w, c, "all", "grant"))
      BY <1>0, <1>1, <1>2, <2>1, SaveWorks DEF CheckInvoices, Syncing
    <2>3. Placed(Then(p, "grant"), Exist) /\ TakenTogether(Then(p, "grant"))
      BY <1>1, <1>2, ThenWorks DEF CheckInvoices, Nexts
    <2>4. Goto(w, Then(p, "grant")) \/ Goto(w, SaveOf(w, c, "all", "grant"))
      BY <1>2 DEF CheckInvoices, At, c
    <2>5. p.at = "check"
      BY <1>2 DEF CheckInvoices
    <2> QED BY <1>0, <2>2, <2>3, <2>4, <2>5, QuietOne
  <1>3. CASE Grant(w)
    BY <1>0, <1>3, IdleWorks, QuietOne DEF Grant
  <1>4. CASE Cancel(w)
    <2> DEFINE c == [p.copy EXCEPT !.active = FALSE, !.status = "canceled"]
    <2>1. c \in Rows
      BY <1>1 DEF Rows, Statuses
    <2> HIDE DEF c
    <2>2. /\ Placed(SaveOf(w, c, "all", "idle"), Exist)
          /\ TakenTogether(SaveOf(w, c, "all", "idle"))
      BY <1>0, <1>1, <1>4, <2>1, SaveWorks DEF Cancel, Syncing
    <2>3. Goto(w, SaveOf(w, c, "all", "idle")) /\ p.at = "cancel"
      BY <1>4 DEF Cancel, c
    <2> QED BY <1>0, <2>2, <2>3, QuietOne
  <1>5. CASE SyncPeriods(w)
    <2> DEFINE c == [p.copy EXCEPT !.late = FALSE]
    <2>0. p.at = "periods" /\ p.next = "periods" /\ (p.copy.status = "active" => p.copy.active)
      BY <1>1, <1>5 DEF SyncPeriods, TakenTogether, Syncing
    <2>1. CASE p.copy.active
      <3>1. c \in Rows /\ c.status = p.copy.status /\ c.active = p.copy.active /\ ~c.late
        BY <1>1 DEF Rows
      <3>2. Goto(w, SaveOf(w, c, "periods", "permissions"))
        BY <1>5, <2>1 DEF SyncPeriods
      <3> HIDE DEF c
      <3>3. /\ Placed(SaveOf(w, c, "periods", "permissions"), Exist)
            /\ TakenTogether(SaveOf(w, c, "periods", "permissions"))
        BY <1>0, <1>1, <2>0, <3>1, SaveWorks DEF Syncing
      <3> QED BY <1>0, <2>0, <3>2, <3>3, QuietOne
    <2>2. CASE ~p.copy.active
      <3>1. Goto(w, Then(p, "permissions"))
        BY <1>5, <2>2 DEF SyncPeriods, At
      <3>2. Placed(Then(p, "permissions"), Exist) /\ TakenTogether(Then(p, "permissions"))
        BY <1>1, <2>0, <2>2, ThenWorks DEF Nexts, Syncing
      <3> QED BY <1>0, <2>0, <3>1, <3>2, QuietOne
    <2> QED BY <2>1, <2>2
  <1>6. CASE SyncPermissions(w)
    <2>1. Goto(w, SaveOf(w, p.copy, "all", "idle")) /\ p.at = "permissions"
      BY <1>6 DEF SyncPermissions
    <2>2. /\ Placed(SaveOf(w, p.copy, "all", "idle"), Exist)
          /\ TakenTogether(SaveOf(w, p.copy, "all", "idle"))
      BY <1>0, <1>1, <2>1, SaveWorks DEF Syncing
    <2> QED BY <1>0, <2>1, <2>2, QuietOne
  <1> QED BY <1>2, <1>3, <1>4, <1>5, <1>6

\* An error or a kill leaves a worker that settles nothing, or is known to cut.
LEMMA StopOne ==
  ASSUME IInv, Good, NEW w \in Workers, Error(w) \/ Die(w)
  PROVE  Good'
  <1>1. /\ Goto(w, Idle) /\ row' = row
        /\ cut' = (cut \/ proc[w].at \in {"others", "end", "close"})
    BY DEF Error, Die, Stop
  <1>2. CASE proc[w].at \in {"others", "end", "close"}
    <2>1. WorkInv'
      BY <1>1, SameRows, IdleWorks, OneWorks DEF Good
    <2> QED BY <1>1, <1>2, <2>1 DEF Good, OneInv
  <1>3. CASE proc[w].at \notin {"others", "end", "close"}
    <2>1. cut' = cut
      BY <1>1, <1>3 DEF IInv, TypeOK
    <2> QED BY <1>1, <1>3, <2>1, IdleWorks, QuietOne
  <1> QED BY <1>2, <1>3

\* A lost answer moves no worker and no row.
LEMMA CreateLostOne ==
  ASSUME IInv, Good, NEW w \in Workers, NEW s \in Subs, CreateLost(w, s)
  PROVE  Good'
  <1>1. proc' = proc /\ row' = row /\ cut' = cut
    BY DEF CreateLost, history
  <1> QED BY <1>1, SameRows DEF Good, WorkInv, OneInv

\* The steps of no worker.
LEMMA OutsideOne ==
  ASSUME IInv, Good, proc' = proc, cut' = cut, Exist' = Exist, Active' = Active
  PROVE  Good'
  BY DEF Good, WorkInv, OneInv

\* Every step keeps the invariant.
LEMMA NextOne == IInv /\ Good /\ [Next]_vars => Good'
  <1> SUFFICES ASSUME IInv, Good, [Next]_vars PROVE Good'
    OBVIOUS
  <1>1. ASSUME NEW w \in Workers, NEW s \in Subs,
               \/ EndOther(w, s) \/ Create(w, s) \/ CreateLost(w, s)
               \/ BeginCancel(w, s) \/ Retrieve(w, s)
        PROVE  Good'
    BY <1>1, EndOtherOne, BeginOne, CreateLostOne
  <1>2. ASSUME NEW w \in Workers, Write(w) \/ ReadOthers(w) \/ CloseOther(w) \/ Error(w)
               \/ Die(w)
        PROVE  Good'
    BY <1>2, WriteOne, ReadOthersOne, CloseOtherOne, StopOne
  <1>3. ASSUME NEW w \in Workers,
               CheckInvoices(w) \/ Grant(w) \/ Cancel(w) \/ SyncPeriods(w) \/ SyncPermissions(w)
        PROVE  Good'
    BY <1>3, WorkingOne
  <1>4. CASE CancelAccess \/ UNCHANGED vars
    <2>1. proc' = proc /\ cut' = cut /\ row' = row
      BY <1>4 DEF CancelAccess, vars, history
    <2> QED BY <2>1, SameRows, OutsideOne
  <1>5. ASSUME NEW s \in Subs, Settle(s) \/ Renew(s)
        PROVE  Good'
    <2>1. proc' = proc /\ cut' = cut /\ row' = row
      BY <1>5 DEF Settle, Renew
    <2> QED BY <2>1, SameRows, OutsideOne
  <1>6. ASSUME NEW s \in Subs, Delay(s)
        PROVE  Good'
    <2>1. proc' = proc /\ cut' = cut /\ row' = [row EXCEPT ![s].late = TRUE]
          /\ row \in [Subs -> Rows]
      BY <1>6 DEF Delay, history, IInv, TypeOK
    <2>2. \A t \in Subs : row'[t].exists = row[t].exists /\ row'[t].active = row[t].active
      BY <2>1 DEF Rows
    <2>3. Exist' = Exist /\ Active' = Active
      BY <2>2 DEF Exist, Active
    <2> QED BY <2>1, <2>3, OutsideOne
  <1> QED BY <1>1, <1>2, <1>3, <1>4, <1>5, <1>6 DEF Next, Step

LEMMA InitOne == Init => Good
  <1> SUFFICES ASSUME Init PROVE Good
    OBVIOUS
  <1>1. \A w \in Workers : proc[w] = Idle
    BY DEF Init
  <1>2. WorkInv
    BY <1>1, IdleWorks DEF WorkInv
  <1>3. Active \subseteq {First}
    BY DEF Init, Active, Exist, NoRow
  <1>4. OneInv
    BY <1>3 DEF OneInv
  <1> QED BY <1>2, <1>4 DEF Good

LEMMA GoodInvariant == Spec => [](IInv /\ Good)
  BY Invariant, InitOne, NextOne, PTL DEF Spec

\* However saves and sync_subscriptions overlap, when all workers are done at most
\* one subscription is active, unless an error or a kill cut a save short after which
\* no other looked for the active ones (Subscription.save).
THEOREM OneStaysActive == Spec => []AtMostOneActive
  <1>1. Good => AtMostOneActive
    <2> SUFFICES ASSUME Good, Quiet, ~cut PROVE Cardinality(Active) <= 1
      BY DEF AtMostOneActive
    <2>1. \A w \in Workers : proc[w].at = "idle"
      BY DEF Quiet
    <2>2. \A s, t \in Active : s = t
      BY <2>1 DEF Good, OneInv, Settling
    <2>3. CASE Active = {}
      BY <2>3, FS_EmptySet
    <2>4. CASE Active # {}
      <3>1. PICK s \in Active : Active = {s}
        BY <2>2, <2>4
      <3> QED BY <3>1, FS_Singleton
    <2> QED BY <2>3, <2>4
  <1> QED BY <1>1, GoodInvariant, PTL

\* The only subscription that there is ends by a cancellation or by a worker that
\* read that it is not paid.
OnlyKept ==
  \A s \in Subs :
    Exist = {s} /\ ~remote[s].ending /\ remote'[s].ending
      => \E w \in Workers :
           proc[w].on = s /\ (proc[w].at = "cancel" \/ proc[w].copy.status # "active")

LEMMA NextKept == IInv /\ Good /\ [Next]_vars => OnlyKept
  <1> SUFFICES ASSUME IInv, Good, [Next]_vars, NEW s \in Subs,
                      Exist = {s}, ~remote[s].ending, remote'[s].ending
               PROVE  \E w \in Workers :
                        proc[w].on = s /\ (proc[w].at = "cancel" \/ proc[w].copy.status # "active")
    BY DEF OnlyKept
  <1>0. remote \in [Subs -> Remotes]
    BY DEF IInv, TypeOK
  <1>1. ASSUME NEW u \in Subs, Deactivate(u) \/ EndAt(u)
        PROVE  u = s
    BY <1>0, <1>1 DEF Deactivate, Accept, Refuse, EndAt
  <1>2. ASSUME NEW w \in Workers, proc[w].at = "end", s \in proc[w].others
        PROVE  FALSE
    <2>1. proc[w].on \in Exist /\ proc[w].on \notin proc[w].others
      BY <1>2, WorkerNow DEF Good
    <2> QED BY <1>2, <2>1
  <1>3. ASSUME NEW w \in Workers, proc[w].at = "permissions", Lapsed(proc[w].copy)
        PROVE  proc[w].copy.status # "active"
    <2>1. proc[w].copy.status = "active" => ~proc[w].copy.late
      BY <1>3 DEF Good, WorkInv, TakenTogether
    <2> QED BY <1>3, <2>1 DEF Lapsed, Allowed
  <1>4. ASSUME NEW w \in Workers, Cancel(w) \/ SyncPermissions(w)
        PROVE  proc[w].on = s /\ (proc[w].at = "cancel" \/ proc[w].copy.status # "active")
    <2>1. proc[w].on \in Subs /\ remote' # remote
      BY <1>4, WorkerNow DEF Cancel, SyncPermissions, Good
    <2>2. CASE Cancel(w)
      BY <1>1, <2>1, <2>2 DEF Cancel
    <2>3. CASE SyncPermissions(w)
      <3>1. proc[w].at = "permissions" /\ Lapsed(proc[w].copy) /\ Deactivate(proc[w].on)
        BY <2>1, <2>3 DEF SyncPermissions
      <3> QED BY <1>1, <1>3, <2>1, <3>1
    <2> QED BY <1>4, <2>2, <2>3
  <1>5. ASSUME NEW w \in Workers, Error(w)
        PROVE  proc[w].on = s /\ (proc[w].at = "cancel" \/ proc[w].copy.status # "active")
    <2>1. PICK u \in Ends(proc[w]) : EndAt(u)
      BY <1>5 DEF Error
    <2>2. proc[w] \in Procs /\ (proc[w].at # "idle" => proc[w].on \in Subs)
      BY WorkerNow DEF Good
    <2>3. u \in Subs
      BY <2>1, <2>2, ProcFields DEF Ends
    <2>4. u = s
      BY <1>1, <2>1, <2>3
    <2> QED BY <1>2, <1>3, <2>1, <2>4 DEF Ends
  <1>6. ASSUME NEW u \in Subs, Settle(u) \/ Renew(u)
        PROVE  FALSE
    <2>1. CASE Close(u)
      BY <1>0, <2>1 DEF Close, NoRemote
    <2>2. CASE \E status : remote' = [remote EXCEPT ![u].status = status]
      <3>1. PICK status : remote' = [remote EXCEPT ![u].status = status]
        BY <2>2
      <3>2. remote'[s].ending = remote[s].ending
        BY <1>0, <3>1 DEF Remotes
      <3> QED BY <3>2
    <2> QED BY <1>6, <2>1, <2>2 DEF Settle, Renew
  <1>7. remote' # remote
    OBVIOUS
  <1>8. ASSUME NEW w \in Workers,
               \/ Write(w) \/ ReadOthers(w) \/ CloseOther(w) \/ CheckInvoices(w) \/ Grant(w)
               \/ SyncPeriods(w) \/ Die(w)
               \/ \E u \in Subs : BeginCancel(w, u) \/ Retrieve(w, u)
        PROVE  FALSE
    BY <1>7, <1>8 DEF Write, ReadOthers, CloseOther, CheckInvoices, Grant, SyncPeriods, Die,
                      BeginCancel, Retrieve
  <1>9. ~(CancelAccess \/ UNCHANGED vars) /\ \A u \in Subs : ~Delay(u)
    BY <1>7 DEF CancelAccess, vars, Delay
  <1>10. ASSUME NEW w \in Workers, NEW u \in Subs, Create(w, u) \/ CreateLost(w, u)
         PROVE  FALSE
    <2>1. PICK status \in Allowed : Created(u, status)
      BY <1>10 DEF Create, CreateLost
    <2>2. remote' = [remote EXCEPT ![u] = [status |-> status, ending |-> FALSE]]
      BY <2>1 DEF Created
    <2> QED BY <1>0, <2>2
  <1>11. ASSUME NEW w \in Workers, NEW u \in Subs, EndOther(w, u)
         PROVE  FALSE
    <2>1. u = s
      BY <1>1, <1>11 DEF EndOther
    <2> QED BY <1>2, <1>11, <2>1 DEF EndOther
  <1> QED BY <1>4, <1>5, <1>6, <1>8, <1>9, <1>10, <1>11 DEF Next, Step

\* A company's only subscription is not ended behind its back: whoever ends it is
\* a cancellation, or has read that it is not paid, however late the row is
\* (update_user_permissions after sync_periods).
THEOREM OnlyOneIsKept == Spec => OnlyOneKept
  <1>1. IInv /\ Good /\ [Next]_vars => [OnlyKept]_vars
    BY NextKept
  <1> QED BY <1>1, GoodInvariant, PTL DEF Spec, OnlyOneKept, OnlyKept
=============================================================================
