------------------------- MODULE TimeSheetsProofs -------------------------
(***************************************************************************)
(* Proofs about TimeSheets, for any number of handlers and any bounds:     *)
(* type correctness, the order of the workflow states that handlers create *)
(* statement by statement, and what a status, an approval and a state are  *)
(* worth as long as no stale copy was saved.                               *)
(***************************************************************************)
EXTENDS TimeSheets, TLAPS

-----------------------------------------------------------------------------
(* Rows and their copies *)

\* What StatusOfRow says of a row.
Consistent(r) ==
  /\ r.status = "approved" <=> r.approved
  /\ r.status = "modified" <=> r.modified /\ ~r.approved

\* A copy keeps the status it was read with, and who takes an approval back
\* leaves a correction.
CopyOf(c, r) ==
  /\ c.status = r.status
  /\ c.approved \/ c.modified \/ (~r.approved /\ ~r.modified)

CopyInv ==
  \A h \in Handlers : /\ CopyOf(proc[h].copy, proc[h].read)
                      /\ proc[h].columns = "status" => proc[h].copy = proc[h].read

IInv == TypeOK /\ CopyInv /\ StatusOfRow

\* The status computed from a copy agrees with it.
LEMMA UpdatedAgrees ==
  ASSUME NEW c \in Rows, c.approved \/ c.modified \/ c.status \notin {"approved", "modified"}
  PROVE  /\ UpdatedStatus(c) \in Statuses
         /\ UpdatedStatus(c) = "approved" <=> c.approved
         /\ UpdatedStatus(c) = "modified" <=> c.modified /\ ~c.approved
  <1>1. CASE c.approved
    BY <1>1 DEF UpdatedStatus, Statuses
  <1>2. CASE ~c.approved /\ c.modified
    BY <1>2 DEF UpdatedStatus, Statuses
  <1>3. CASE ~c.approved /\ ~c.modified
    BY <1>3 DEF UpdatedStatus, Statuses, Rows
  <1> QED BY <1>1, <1>2, <1>3

\* Whatever its status, it is one of them.
LEMMA UpdatedType ==
  ASSUME NEW c \in Rows
  PROVE  UpdatedStatus(c) \in Statuses
  BY DEF UpdatedStatus, Statuses, Rows

LEMMA WithStatusType ==
  ASSUME NEW c \in Rows
  PROVE  /\ WithStatus(c) \in Rows
         /\ WithStatus(c).status = UpdatedStatus(c)
         /\ WithStatus(c).approved = c.approved
         /\ WithStatus(c).modified = c.modified
  BY UpdatedType DEF WithStatus, Rows

LEMMA WithStatusAgrees ==
  ASSUME NEW c \in Rows, c.approved \/ c.modified \/ c.status \notin {"approved", "modified"}
  PROVE  Consistent(WithStatus(c))
  <1>1. /\ UpdatedStatus(c) = "approved" <=> c.approved
        /\ UpdatedStatus(c) = "modified" <=> c.modified /\ ~c.approved
    BY UpdatedAgrees
  <1>2. /\ WithStatus(c).status = UpdatedStatus(c)
        /\ WithStatus(c).approved = c.approved
        /\ WithStatus(c).modified = c.modified
    BY WithStatusType
  <1> QED BY <1>1, <1>2, Zenon DEF Consistent

\* A copy of a consistent row may be saved.
LEMMA CopySavable ==
  ASSUME NEW r \in Rows, NEW c \in Rows, CopyOf(c, r), Consistent(r)
  PROVE  c.approved \/ c.modified \/ c.status \notin {"approved", "modified"}
  BY DEF CopyOf, Consistent

\* The copies that the handlers make.
LEMMA SetGoing ==
  ASSUME NEW r \in Rows, NEW going \in {"yes", "no"}
  PROVE  /\ [r EXCEPT !.going = going] \in Rows
         /\ CopyOf([r EXCEPT !.going = going], r)
  <1> DEFINE c == [r EXCEPT !.going = going]
  <1>1. c \in Rows /\ c.status = r.status
    BY DEF Rows
  <1>2. c.approved = r.approved /\ c.modified = r.modified
    BY DEF Rows
  <1> HIDE DEF c
  <1>3. CopyOf(c, r)
    BY <1>1, <1>2, Zenon DEF CopyOf
  <1> QED BY <1>1, <1>3 DEF c

LEMMA SetSubmitted ==
  ASSUME NEW r \in Rows, NEW b \in BOOLEAN
  PROVE  /\ [r EXCEPT !.submitted = b] \in Rows
         /\ CopyOf([r EXCEPT !.submitted = b], r)
  <1> DEFINE c == [r EXCEPT !.submitted = b]
  <1>1. c \in Rows /\ c.status = r.status
    BY DEF Rows
  <1>2. c.approved = r.approved /\ c.modified = r.modified
    BY DEF Rows
  <1> HIDE DEF c
  <1>3. CopyOf(c, r)
    BY <1>1, <1>2, Zenon DEF CopyOf
  <1> QED BY <1>1, <1>3 DEF c

LEMMA SetApproved ==
  ASSUME NEW r \in Rows
  PROVE  /\ [r EXCEPT !.approved = TRUE] \in Rows
         /\ CopyOf([r EXCEPT !.approved = TRUE], r)
  BY DEF Rows, CopyOf

LEMMA SetModified ==
  ASSUME NEW r \in Rows
  PROVE  /\ [r EXCEPT !.approved = FALSE, !.modified = TRUE] \in Rows
         /\ CopyOf([r EXCEPT !.approved = FALSE, !.modified = TRUE], r)
  BY DEF Rows, CopyOf

LEMMA SetNothing ==
  ASSUME NEW r \in Rows
  PROVE  CopyOf(r, r)
  <1>1. r.approved \/ r.modified \/ (~r.approved /\ ~r.modified)
    BY Zenon
  <1> QED BY <1>1, Zenon DEF CopyOf

\* A copy of each column is written over the row, or all of them.
LEMMA WrittenType ==
  ASSUME NEW p \in Procs, row \in Rows
  PROVE  Written(p) \in Rows
  <1>0. p.copy \in Rows /\ p.columns \in Columns
    BY DEF Procs
  <1>1. CASE p.columns = "all"
    BY <1>0, <1>1, WithStatusType DEF Written
  <1>2. CASE p.columns = "status"
    <2>1. Written(p) = [row EXCEPT !.status = UpdatedStatus(p.copy)]
      BY <1>2 DEF Written
    <2>2. UpdatedStatus(p.copy) \in Statuses
      BY <1>0, UpdatedType
    <2> QED BY <2>1, <2>2 DEF Rows
  <1>3. CASE p.columns = "submitted"
    <2>1. Written(p) = [row EXCEPT !.submitted = p.copy.submitted]
      BY <1>3 DEF Written
    <2>2. p.copy.submitted \in BOOLEAN
      BY <1>0, Zenon DEF Rows
    <2> QED BY <2>1, <2>2, SetSubmitted
  <1> QED BY <1>0, <1>1, <1>2, <1>3 DEF Columns

\* A save that is not stale writes a consistent row, and an approval that it takes
\* back leaves a correction.
LEMMA WrittenAgrees ==
  ASSUME NEW p \in Procs, row \in Rows, Consistent(row), p.read = row,
         CopyOf(p.copy, p.read), p.columns = "status" => p.copy = p.read
  PROVE  /\ Consistent(Written(p))
         /\ row.approved \/ row.modified => Written(p).approved \/ Written(p).modified
  <1>0. p.copy \in Rows /\ p.columns \in Columns
    BY DEF Procs
  <1>s. p.copy.approved \/ p.copy.modified \/ p.copy.status \notin {"approved", "modified"}
    BY <1>0, CopySavable
  <1>1. CASE p.columns = "all"
    <2>1. Written(p) = WithStatus(p.copy)
      BY <1>1 DEF Written
    <2>2. Consistent(WithStatus(p.copy))
      BY <1>0, <1>s, WithStatusAgrees
    <2>3. /\ WithStatus(p.copy).approved = p.copy.approved
          /\ WithStatus(p.copy).modified = p.copy.modified
      BY <1>0, WithStatusType
    <2>4. row.approved \/ row.modified => p.copy.approved \/ p.copy.modified
      BY DEF CopyOf
    <2>5. row.approved \/ row.modified
            => WithStatus(p.copy).approved \/ WithStatus(p.copy).modified
      BY <2>3, <2>4, Zenon
    <2> QED BY <2>1, <2>2, <2>5
  <1>2. CASE p.columns = "status"
    <2>1. Written(p) = WithStatus(p.copy)
      BY <1>2 DEF Written, WithStatus
    <2>2. Consistent(WithStatus(p.copy))
      BY <1>0, <1>s, WithStatusAgrees
    <2>3. /\ WithStatus(p.copy).approved = row.approved
          /\ WithStatus(p.copy).modified = row.modified
      BY <1>0, <1>2, WithStatusType
    <2> QED BY <2>1, <2>2, <2>3, Zenon
  <1>3. CASE p.columns = "submitted"
    <2>1. Written(p) = [row EXCEPT !.submitted = p.copy.submitted]
      BY <1>3 DEF Written
    <2>2. /\ Written(p).status = row.status
          /\ Written(p).approved = row.approved
          /\ Written(p).modified = row.modified
      BY <2>1 DEF Rows
    <2>3. Consistent(Written(p))
      BY <2>2, Zenon DEF Consistent
    <2> QED BY <2>2, <2>3, Zenon
  <1> QED BY <1>0, <1>1, <1>2, <1>3 DEF Columns
\* What a step must keep of the row.
RowStep ==
  /\ row' \in Rows /\ raced' \in BOOLEAN /\ StatusOfRow'
  /\ row.approved \/ row.modified => row'.approved \/ row'.modified \/ raced'

\* A save, by any handler.
LEMMA SaveStep ==
  ASSUME IInv, NEW h \in Handlers, Save(proc[h])
  PROVE  RowStep
  <1>1. proc[h] \in Procs /\ row \in Rows /\ raced \in BOOLEAN
    BY DEF IInv, TypeOK
  <1>2. row' = Written(proc[h]) /\ raced' = (raced \/ row # proc[h].read)
    BY DEF Save
  <1>3. row' \in Rows
    BY <1>1, <1>2, WrittenType
  <1>4. raced' \in BOOLEAN
    BY <1>2, Zenon
  <1>5. CASE raced'
    BY <1>3, <1>4, <1>5 DEF RowStep, StatusOfRow
  <1>6. CASE ~raced'
    <2>1. ~raced /\ row = proc[h].read
      BY <1>2, <1>6, Zenon
    <2>2. Consistent(row)
      BY <2>1 DEF IInv, StatusOfRow, Consistent
    <2>3. /\ Consistent(row')
          /\ row.approved \/ row.modified => row'.approved \/ row'.modified
      BY <1>1, <1>2, <2>1, <2>2, WrittenAgrees DEF IInv, CopyInv
    <2> QED BY <1>3, <1>4, <2>3, Zenon DEF RowStep, StatusOfRow, Consistent
  <1> QED BY <1>5, <1>6, <1>4

\* The row and its history stay as they are.
LEMMA SameRow ==
  ASSUME IInv, UNCHANGED <<row, raced>>
  PROVE  RowStep
  <1>1. row' = row /\ raced' = raced
    OBVIOUS
  <1>2. row \in Rows /\ raced \in BOOLEAN /\ StatusOfRow
    BY DEF IInv, TypeOK
  <1> QED BY <1>1, <1>2 DEF RowStep, StatusOfRow

-----------------------------------------------------------------------------
(* The handlers *)

LEMMA IdleType == Idle \in Procs
  BY DEF Idle, Procs, NewRow, Rows, Statuses, Columns, Numbers

\* What a handler read and saves, and how, stays the same from step to step.
SameCopy(q, p) ==
  q.copy = p.copy /\ q.read = p.read /\ q.columns = p.columns

\* A handler at another step, about another state.
Gone(p, at, n) == [p EXCEPT !.at = at, !.n = n]

LEMMA GoneStep ==
  ASSUME NEW p \in Procs, NEW at \in {"test", "clean", "clear", "write", "commit"}, NEW n \in Numbers
  PROVE  /\ Gone(p, at, n) \in Procs /\ SameCopy(Gone(p, at, n), p)
         /\ Gone(p, at, n).at = at /\ Gone(p, at, n).n = n
         /\ Gone(p, at, n).mode = p.mode
         /\ Gone(p, at, n).on = p.on /\ Gone(p, at, n).off = p.off
  <1> DEFINE q == Gone(p, at, n)
  <1>1. /\ q.at = at /\ q.n = n /\ q.mode = p.mode /\ q.on = p.on /\ q.off = p.off
        /\ q.copy = p.copy /\ q.read = p.read /\ q.columns = p.columns
    BY DEF Gone, Procs
  <1>2. q \in Procs
    BY DEF Gone, Procs
  <1> QED BY <1>1, <1>2 DEF SameCopy

\* The next state to try, or the write, or the commit.
LEMMA FurtherCases ==
  ASSUME NEW p \in Procs
  PROVE  \/ p.n = 30 /\ p.copy.approved /\ Further(p) = Gone(p, "test", 40)
         \/ p.n = 30 /\ Further(p) = Gone(p, "test", 70)
         \/ p.n = 40 /\ Further(p) = Gone(p, "test", 70)
         \/ p.n = 70 /\ p.at # "write" /\ Further(p) = Gone(p, "write", 70)
         \/ p.n = 70 /\ p.at = "write" /\ Confirms(p) /\ Further(p) = Gone(p, "test", 20)
         \/ p.n = 70 /\ p.at = "write" /\ ~Confirms(p) /\ Further(p) = Gone(p, "commit", 70)
         \/ p.n \in {10, 20} /\ Further(p) = Gone(p, "commit", p.n)
  <1>1. p.n \in {10, 20, 30, 40, 70}
    BY DEF Procs, Numbers
  <1>2. CASE p.n = 30 /\ p.copy.approved
    BY <1>2 DEF Further, Gone
  <1>8. CASE p.n = 30 /\ ~p.copy.approved
    BY <1>8 DEF Further, Gone
  <1>3. CASE p.n = 40
    BY <1>3 DEF Further, Gone
  <1>4. CASE p.n = 70 /\ p.at # "write"
    <2>1. Further(p) = [p EXCEPT !.at = "write"]
      BY <1>4 DEF Further
    <2>2. [p EXCEPT !.at = "write"] = Gone(p, "write", 70)
      BY <1>4 DEF Gone, Procs
    <2> QED BY <1>4, <2>1, <2>2
  <1>5. CASE p.n = 70 /\ p.at = "write" /\ Confirms(p)
    BY <1>5 DEF Further, Gone
  <1>6. CASE p.n = 70 /\ p.at = "write" /\ ~Confirms(p)
    <2>1. Further(p) = [p EXCEPT !.at = "commit"]
      BY <1>6 DEF Further
    <2>2. [p EXCEPT !.at = "commit"] = Gone(p, "commit", 70)
      BY <1>6 DEF Gone, Procs
    <2> QED BY <1>6, <2>1, <2>2
  <1>7. CASE p.n \in {10, 20}
    <2>1. Further(p) = [p EXCEPT !.at = "commit"]
      BY <1>7 DEF Further
    <2>2. [p EXCEPT !.at = "commit"] = Gone(p, "commit", p.n)
      BY <1>7 DEF Gone, Procs
    <2> QED BY <1>7, <2>1, <2>2
  <1> QED BY <1>1, <1>2, <1>3, <1>4, <1>5, <1>6, <1>7, <1>8

LEMMA FurtherStep ==
  ASSUME NEW p \in Procs
  PROVE  /\ Further(p) \in Procs /\ SameCopy(Further(p), p)
         /\ Further(p).mode = p.mode /\ Further(p).on = p.on /\ Further(p).off = p.off
         /\ Further(p).at \in {"test", "write", "commit"}
  <1>1. p.n \in Numbers
    BY DEF Procs
  <1> QED BY <1>1, FurtherCases, GoneStep DEF Numbers

\* Where it goes, by the state that it was about.
LEMMA FurtherWhere ==
  ASSUME NEW p \in Procs, p.n \in {20, 30, 40, 70}
  PROVE  /\ Further(p).n \in {20, 30, 40, 70}
         /\ Further(p).n = 40 => p.copy.approved
         /\ Further(p).at = "write" => Further(p).n = 70
         /\ Further(p).n = 20 => p.n = 20 \/ p.at = "write"
         /\ Further(p).at = "commit" => Further(p).n \in {20, 70} /\ (p.n = 20 \/ p.at = "write")
         /\ p.n = 20 => Further(p).at = "commit" /\ Further(p).n = 20
         /\ Further(p).at = "commit" /\ Confirms(p) => p.n = 20
  <1>1. p.n \in Numbers
    BY DEF Procs
  <1> QED BY <1>1, FurtherCases, GoneStep DEF Numbers

\* A handler that changes states, at once or in its transaction.
Cleared(p, S, at) ==
  IF p.mode = "auto" THEN [p EXCEPT !.at = at]
  ELSE [p EXCEPT !.at = at, !.on = @ \ S, !.off = @ \cup S]
Inserted(p) == IF p.mode = "auto" THEN p ELSE [p EXCEPT !.on = @ \cup {p.n}]

LEMMA ClearedStep ==
  ASSUME NEW p \in Procs, NEW S \in SUBSET Numbers, NEW at \in {"activate", "insert"}
  PROVE  /\ Cleared(p, S, at) \in Procs /\ SameCopy(Cleared(p, S, at), p)
         /\ Cleared(p, S, at).mode = p.mode /\ Cleared(p, S, at).n = p.n
         /\ Cleared(p, S, at).at = at
         /\ p.mode = "auto" => Cleared(p, S, at).on = p.on /\ Cleared(p, S, at).off = p.off
         /\ p.mode # "auto" => /\ Cleared(p, S, at).on = p.on \ S
                              /\ Cleared(p, S, at).off = p.off \cup S
  BY DEF Cleared, Procs, SameCopy

LEMMA InsertedStep ==
  ASSUME NEW p \in Procs
  PROVE  /\ Inserted(p) \in Procs /\ SameCopy(Inserted(p), p)
         /\ Inserted(p).mode = p.mode /\ Inserted(p).n = p.n /\ Inserted(p).at = p.at
         /\ Inserted(p).off = p.off
         /\ p.mode = "auto" => Inserted(p).on = p.on
         /\ p.mode # "auto" => Inserted(p).on = p.on \cup {p.n}
  BY DEF Inserted, Procs, SameCopy

\* The states that a handler sees are states.
LEMMA ViewType ==
  ASSUME NEW p \in Procs, states \in SUBSET Numbers
  PROVE  View(p) \in SUBSET Numbers
  BY DEF View, Procs

\* A handler that reads the row.
Reading(mode, c, columns) ==
  [at |-> "test", n |-> First(c), mode |-> mode, on |-> {}, off |-> {},
   read |-> row, copy |-> c, columns |-> columns]

LEMMA ReadingStep ==
  ASSUME row \in Rows, NEW mode \in {"auto", "tx", "locked"}, NEW c \in Rows,
         NEW columns \in Columns
  PROVE  /\ Reading(mode, c, columns) \in Procs
         /\ Reading(mode, c, columns).copy = c /\ Reading(mode, c, columns).read = row
         /\ Reading(mode, c, columns).columns = columns /\ Reading(mode, c, columns).mode = mode
         /\ Reading(mode, c, columns).at = "test" /\ Reading(mode, c, columns).n = First(c)
         /\ Reading(mode, c, columns).on = {} /\ Reading(mode, c, columns).off = {}
  <1>1. First(c) \in Numbers
    BY DEF First, Numbers
  <1>2. {} \in SUBSET Numbers
    OBVIOUS
  <1> QED BY <1>1, <1>2 DEF Reading, Procs

\* The graph of time sheets, node by node.
LEMMA GraphNodes ==
  /\ TimeSheetGraph[10] = Node({10}, {{}})
  /\ TimeSheetGraph[20] = Node({20}, AnyOf({10}))
  /\ TimeSheetGraph[30] = Node({20, 30}, AnyOf({20}))
  /\ TimeSheetGraph[40] = Node({20, 30, 40}, {{20, 30}})
  /\ TimeSheetGraph[70] = Node({20, 30, 40, 70}, {{20, 30, 40}})
  BY DEF TimeSheetGraph

\* A handler that goes to another step keeps its copy, or drops it, or makes one.
LEMMA GotoStep ==
  ASSUME IInv, NEW h \in Handlers, NEW q \in Procs, Goto(h, q),
         \/ q = Idle
         \/ SameCopy(q, proc[h])
         \/ CopyOf(q.copy, q.read) /\ (q.columns = "status" => q.copy = q.read)
  PROVE  /\ proc' \in [Handlers -> Procs] /\ CopyInv'
         /\ \A k \in Handlers : proc'[k] = IF k = h THEN q ELSE proc[k]
  <1>1. proc' = [proc EXCEPT ![h] = q] /\ proc \in [Handlers -> Procs]
    BY DEF Goto, IInv, TypeOK
  <1>2. /\ CopyOf(q.copy, q.read)
        /\ q.columns = "status" => q.copy = q.read
    <2>1. CASE q = Idle
      <3>1. q.copy = NewRow /\ q.read = NewRow /\ NewRow \in Rows
        BY <2>1 DEF Idle, NewRow, Rows, Statuses
      <3> QED BY <3>1, SetNothing
    <2>2. CASE SameCopy(q, proc[h])
      BY <2>2 DEF IInv, CopyInv, SameCopy
    <2> QED BY <2>1, <2>2
  <1>3. \A k \in Handlers : proc'[k] = IF k = h THEN q ELSE proc[k]
    BY <1>1
  <1>4. CopyInv'
    BY <1>2, <1>3 DEF IInv, CopyInv
  <1> QED BY <1>1, <1>3, <1>4

\* What TypeOK says of the rest of the state.
RestType ==
  /\ time \in Times /\ states \in SUBSET Numbers
  /\ declines \in Nat /\ confirms \in Nat /\ approval \in BOOLEAN
  /\ requests \in 0..MaxRequests /\ faults \in 0..MaxFaults
  /\ late \in BOOLEAN /\ broken \in BOOLEAN /\ doubled \in BOOLEAN

\* What every step does: it keeps the invariant, and ApprovalStands.
GoodStep ==
  IInv' /\ (row.approved \/ row.modified => row'.approved \/ row'.modified \/ raced')

LEMMA Assembled ==
  ASSUME RestType', RowStep, proc' \in [Handlers -> Procs], CopyInv'
  PROVE  GoodStep
  BY DEF GoodStep, IInv, TypeOK, RestType, RowStep

LEMMA RestNow ==
  ASSUME IInv
  PROVE  RestType /\ row \in Rows /\ raced \in BOOLEAN /\ proc \in [Handlers -> Procs] /\ CopyInv
  BY DEF IInv, TypeOK, RestType

\* A request is counted within its bound.
LEMMA RequestType ==
  ASSUME IInv, Request
  PROVE  requests' \in 0..MaxRequests /\ faults' \in 0..MaxFaults
  BY TimeSheetsAssumption DEF IInv, TypeOK, Request

\* The steps of a save.
LEMMA TestGood ==
  ASSUME IInv, NEW h \in Handlers, Test(h)
  PROVE  GoodStep
  <1>p. proc[h] \in Procs /\ proc[h].n \in Numbers
    BY DEF IInv, TypeOK, Procs
  <1> DEFINE q == IF Permitted(proc[h]) THEN [proc[h] EXCEPT !.at = "clean"] ELSE Further(proc[h])
  <1>1. q \in Procs /\ SameCopy(q, proc[h])
    <2>1. [proc[h] EXCEPT !.at = "clean"] \in Procs
          /\ SameCopy([proc[h] EXCEPT !.at = "clean"], proc[h])
      BY <1>p DEF Procs, SameCopy
    <2> QED BY <1>p, <2>1, FurtherStep
  <1>2. Goto(h, q)
    BY DEF Test
  <1> HIDE DEF q
  <1>3. proc' \in [Handlers -> Procs] /\ CopyInv'
    BY <1>1, <1>2, GotoStep
  <1>4. RestType'
    BY RestNow DEF Test, RestType, timers, bounds, history
  <1>5. RowStep
    BY SameRow DEF Test, history
  <1> QED BY <1>3, <1>4, <1>5, Assembled

LEMMA CleanGood ==
  ASSUME IInv, NEW h \in Handlers, Clean(h)
  PROVE  GoodStep
  <1>p. proc[h] \in Procs
    BY DEF IInv, TypeOK
  <1>1. RestType'
    <2>1. broken' \in BOOLEAN
      <3>1. CASE Permitted(proc[h])
        BY <3>1, RestNow DEF Clean, RestType
      <3>2. CASE ~Permitted(proc[h])
        <4>1. broken' = (broken \/ proc[h].mode = "auto")
          BY <3>2 DEF Clean
        <4> QED BY <4>1, Zenon
      <3> QED BY <3>1, <3>2
    <2> QED BY <2>1, RestNow DEF Clean, RestType, timers, bounds
  <1>2. RowStep
    BY SameRow DEF Clean
  <1>3. CASE Permitted(proc[h])
    <2> DEFINE q == [proc[h] EXCEPT !.at = "clear"]
    <2>1. q \in Procs /\ SameCopy(q, proc[h])
      BY <1>p DEF Procs, SameCopy
    <2>2. Goto(h, q)
      BY <1>3 DEF Clean
    <2> HIDE DEF q
    <2> QED BY <1>1, <1>2, <2>1, <2>2, GotoStep, Assembled
  <1>4. CASE ~Permitted(proc[h])
    <2>1. Goto(h, Idle)
      BY <1>4 DEF Clean
    <2> QED BY <1>1, <1>2, <2>1, IdleType, GotoStep, Assembled
  <1> QED BY <1>3, <1>4

\* How it makes way, in terms of one formula for both modes.
LEMMA MakeWayFacts ==
  ASSUME IInv, NEW h \in Handlers, NEW from, NEW to \in {"activate", "insert"},
         MakeWay(h, from, to)
  PROVE  LET p == proc[h]
             R == View(p) \ TimeSheetGraph[p.n].active
         IN /\ p \in Procs /\ p.at = from /\ R \in SUBSET Numbers
            /\ Goto(h, Cleared(p, R, to))
            /\ states' = IF p.mode = "auto" THEN states \ R ELSE states
            /\ doubled' = (doubled \/ p.n \in View(p))
            /\ UNCHANGED <<time, row, timers, bounds, late, raced, broken>>
  <1> DEFINE p == proc[h]
  <1> DEFINE R == View(p) \ TimeSheetGraph[p.n].active
  <1>1. p \in Procs /\ R \in SUBSET Numbers
    BY ViewType DEF IInv, TypeOK
  <1>2. Deactivate(h, p, R, to) /\ p.at = from
    BY DEF MakeWay
  <1>3. /\ doubled' = (doubled \/ p.n \in View(p))
        /\ UNCHANGED <<time, row, timers, bounds, late, raced, broken>>
    BY DEF MakeWay
  <1> HIDE DEF R
  <1>4. /\ Goto(h, Cleared(p, R, to))
        /\ states' = IF p.mode = "auto" THEN states \ R ELSE states
    <2>1. CASE p.mode = "auto"
      BY <1>2, <2>1 DEF Deactivate, Cleared
    <2>2. CASE p.mode # "auto"
      BY <1>2, <2>2 DEF Deactivate, Cleared
    <2> QED BY <2>1, <2>2
  <1> QED BY <1>1, <1>2, <1>3, <1>4 DEF R

LEMMA MakeWayGood ==
  ASSUME IInv, NEW h \in Handlers, NEW from, NEW to \in {"activate", "insert"},
         MakeWay(h, from, to)
  PROVE  GoodStep
  <1> DEFINE p == proc[h]
  <1> DEFINE R == View(p) \ TimeSheetGraph[p.n].active
  <1> DEFINE q == Cleared(p, R, to)
  <1>1. /\ p \in Procs /\ R \in SUBSET Numbers /\ Goto(h, q)
        /\ states' = IF p.mode = "auto" THEN states \ R ELSE states
        /\ doubled' = (doubled \/ p.n \in View(p))
        /\ UNCHANGED <<time, row, timers, bounds, late, raced, broken>>
    BY MakeWayFacts
  <1>2. q \in Procs /\ SameCopy(q, p)
    BY <1>1, ClearedStep
  <1> HIDE DEF q
  <1>3. proc' \in [Handlers -> Procs] /\ CopyInv'
    BY <1>1, <1>2, GotoStep
  <1>4. RestType'
    <2>1. states' \in SUBSET Numbers
      BY <1>1, RestNow DEF RestType
    <2>2. doubled' \in BOOLEAN
      BY <1>1, Zenon
    <2> QED BY <1>1, <2>1, <2>2, RestNow DEF RestType, timers, bounds
  <1>5. RowStep
    BY <1>1, SameRow
  <1> QED BY <1>3, <1>4, <1>5, Assembled

\* How it inserts, in terms of one formula for both modes.
LEMMA InsertFacts ==
  ASSUME IInv, NEW h \in Handlers, Insert(h)
  PROVE  LET p == proc[h]
         IN /\ p \in Procs /\ p.at = "insert" /\ Inserted(p) \in Procs
            /\ Goto(h, Further(Inserted(p)))
            /\ states' = IF p.mode = "auto" THEN states \cup {p.n} ELSE states
            /\ UNCHANGED <<time, row, timers, bounds, history>>
  <1> DEFINE p == proc[h]
  <1>1. p \in Procs
    BY DEF IInv, TypeOK
  <1>2. Inserted(p) \in Procs
    BY <1>1, InsertedStep
  <1>3. CASE p.mode = "auto"
    BY <1>1, <1>2, <1>3 DEF Insert, Inserted
  <1>4. CASE p.mode # "auto"
    BY <1>1, <1>2, <1>4 DEF Insert, Inserted
  <1> QED BY <1>3, <1>4

LEMMA InsertGood ==
  ASSUME IInv, NEW h \in Handlers, Insert(h)
  PROVE  GoodStep
  <1> DEFINE p == proc[h]
  <1> DEFINE q == Further(Inserted(p))
  <1>1. /\ p \in Procs /\ Inserted(p) \in Procs /\ Goto(h, q)
        /\ states' = IF p.mode = "auto" THEN states \cup {p.n} ELSE states
        /\ UNCHANGED <<time, row, timers, bounds, history>>
    BY InsertFacts
  <1>2. q \in Procs /\ SameCopy(q, Inserted(p)) /\ SameCopy(Inserted(p), p)
    BY <1>1, FurtherStep, InsertedStep
  <1>3. SameCopy(q, p)
    BY <1>2 DEF SameCopy
  <1> HIDE DEF q
  <1>4. proc' \in [Handlers -> Procs] /\ CopyInv'
    BY <1>1, <1>2, <1>3, GotoStep
  <1>5. RestType'
    <2>1. p.n \in Numbers
      BY <1>1 DEF Procs
    <2> QED BY <1>1, <2>1, RestNow DEF RestType, timers, bounds, history
  <1>6. RowStep
    BY <1>1, SameRow DEF history
  <1> QED BY <1>4, <1>5, <1>6, Assembled

LEMMA WriteGood ==
  ASSUME IInv, NEW h \in Handlers, Write(h)
  PROVE  GoodStep
  <1> DEFINE p == proc[h]
  <1>p. p \in Procs
    BY DEF IInv, TypeOK
  <1>1. RestType'
    BY RestNow DEF Write, RestType, timers, bounds
  <1>2. CASE p.mode = "auto"
    <2>1. Save(p) /\ Goto(h, Idle)
      BY <1>2 DEF Write
    <2>2. RowStep
      BY <2>1, SaveStep
    <2> QED BY <1>1, <2>1, <2>2, IdleType, GotoStep, Assembled
  <1>3. CASE p.mode # "auto"
    <2> DEFINE q == [Further(p) EXCEPT !.mode = "locked"]
    <2>1. Goto(h, q) /\ UNCHANGED <<row, raced>>
      BY <1>3 DEF Write
    <2>2. Further(p) \in Procs /\ SameCopy(Further(p), p)
      BY <1>p, FurtherStep
    <2>3. q \in Procs /\ SameCopy(q, p)
      BY <2>2 DEF Procs, SameCopy
    <2>4. RowStep
      BY <2>1, SameRow
    <2> HIDE DEF q
    <2> QED BY <1>1, <2>1, <2>3, <2>4, GotoStep, Assembled
  <1> QED BY <1>2, <1>3

LEMMA CommitGood ==
  ASSUME IInv, NEW h \in Handlers, Commit(h)
  PROVE  GoodStep
  <1>1. Save(proc[h]) /\ Goto(h, Idle) /\ states' = View(proc[h]) /\ proc[h] \in Procs
    BY DEF Commit, IInv, TypeOK
  <1>2. RestType'
    <2>1. states' \in SUBSET Numbers
      BY <1>1, ViewType, RestNow DEF RestType
    <2>2. confirms' \in Nat
      BY RestNow DEF Commit, RestType
    <2> QED BY <2>1, <2>2, RestNow DEF Commit, RestType, timers, bounds
  <1>3. RowStep
    BY <1>1, SaveStep
  <1> QED BY <1>1, <1>2, <1>3, IdleType, GotoStep, Assembled

\* A handler that starts changes nothing but its copy and what is counted.
LEMMA ReadGood ==
  ASSUME IInv, NEW h \in Handlers, NEW c \in Rows, CopyOf(c, row),
         NEW mode \in {"auto", "tx", "locked"}, NEW columns \in Columns,
         columns = "status" => c = row, Read(h, mode, c, columns), RestType'
  PROVE  GoodStep
  <1> DEFINE q == Reading(mode, c, columns)
  <1>1. q \in Procs /\ q.copy = c /\ q.read = row /\ q.columns = columns
    BY RestNow, ReadingStep
  <1>2. Goto(h, q)
    BY DEF Read, Reading
  <1> HIDE DEF q
  <1>3. proc' \in [Handlers -> Procs] /\ CopyInv'
    BY <1>1, <1>2, GotoStep
  <1>4. RowStep
    BY SameRow DEF Read, history
  <1> QED BY <1>3, <1>4, Assembled

\* What it takes to be well typed after a request, a reply or a task has begun.
LEMMA ReadRest ==
  ASSUME IInv, NEW h \in Handlers, NEW mode, NEW c, NEW columns, Read(h, mode, c, columns),
         requests' \in 0..MaxRequests, faults' \in 0..MaxFaults,
         declines' \in Nat, confirms' \in Nat, approval' \in BOOLEAN
  PROVE  RestType'
  BY RestNow DEF Read, RestType, history

\* The requests.
LEMMA RequestsGood ==
  ASSUME IInv, NEW h \in Handlers,
         \/ \E going \in {"yes", "no"} : Answer(h, going) \/ Reply(h, going)
         \/ Submit(h) \/ Approve(h) \/ ApproveManually(h) \/ NotAgree(h) \/ Show(h)
  PROVE  GoodStep
  <1>0. row \in Rows /\ declines \in Nat /\ confirms \in Nat /\ approval \in BOOLEAN
    BY RestNow DEF RestType
  <1> DEFINE sub == [row EXCEPT !.submitted = TRUE]
  <1> DEFINE app == [row EXCEPT !.approved = TRUE]
  <1> DEFINE mod == [row EXCEPT !.approved = FALSE, !.modified = TRUE]
  <1>c. /\ sub \in Rows /\ CopyOf(sub, row)
        /\ app \in Rows /\ CopyOf(app, row)
        /\ mod \in Rows /\ CopyOf(mod, row)
        /\ CopyOf(row, row)
    BY <1>0, SetSubmitted, SetApproved, SetModified, SetNothing
  <1>1. ASSUME NEW going \in {"yes", "no"}, Answer(h, going) \/ Reply(h, going) PROVE GoodStep
    <2> DEFINE c == [row EXCEPT !.going = going]
    <2>1. c \in Rows /\ CopyOf(c, row)
      BY <1>0, SetGoing
    <2>2. PICK mode \in {"tx", "locked"} : Read(h, mode, c, "all")
      BY <1>1 DEF Answer, Reply
    <2>3. Request /\ UNCHANGED timers
      BY <1>1 DEF Answer, Reply
    <2> HIDE DEF c
    <2>4. RestType'
      BY <1>0, <2>2, <2>3, RequestType, ReadRest DEF timers
    <2> QED BY <2>1, <2>2, <2>4, ReadGood DEF Columns
  <1>2. CASE Submit(h)
    <2>1. Read(h, "auto", sub, "all") /\ Request /\ UNCHANGED timers
      BY <1>2 DEF Submit
    <2> HIDE DEF sub
    <2>2. RestType'
      BY <1>0, <2>1, RequestType, ReadRest DEF timers
    <2> QED BY <1>c, <2>1, <2>2, ReadGood DEF Columns
  <1>3. CASE Approve(h)
    <2>1. Read(h, "tx", app, "all") /\ Request /\ UNCHANGED timers
      BY <1>3 DEF Approve
    <2> HIDE DEF app
    <2>2. RestType'
      BY <1>0, <2>1, RequestType, ReadRest DEF timers
    <2> QED BY <1>c, <2>1, <2>2, ReadGood DEF Columns
  <1>4. CASE ApproveManually(h)
    <2>1. Read(h, "auto", app, "all") /\ Request /\ UNCHANGED <<confirms, approval>>
      BY <1>4 DEF ApproveManually
    <2>2. declines' \in Nat
      BY <1>0, <1>4 DEF ApproveManually
    <2> HIDE DEF app
    <2>3. RestType'
      BY <1>0, <2>1, <2>2, RequestType, ReadRest
    <2> QED BY <1>c, <2>1, <2>3, ReadGood DEF Columns
  <1>5. CASE NotAgree(h)
    <2>1. Read(h, "tx", mod, "all") /\ Request /\ UNCHANGED <<declines, confirms>>
      BY <1>5 DEF NotAgree
    <2>2. approval' \in BOOLEAN
      BY <1>0, <1>5 DEF NotAgree
    <2> HIDE DEF mod
    <2>3. RestType'
      BY <1>0, <2>1, <2>2, RequestType, ReadRest
    <2> QED BY <1>c, <2>1, <2>3, ReadGood DEF Columns
  <1>6. CASE Show(h)
    <2>1. Read(h, "auto", row, "status") /\ Request /\ UNCHANGED timers
      BY <1>6 DEF Show
    <2>2. RestType'
      BY <1>0, <2>1, RequestType, ReadRest DEF timers
    <2> QED BY <1>0, <1>c, <2>1, <2>2, ReadGood DEF Columns
  <1> QED BY <1>1, <1>2, <1>3, <1>4, <1>5, <1>6

\* A task that has nothing to do.
LEMMA NothingGood ==
  ASSUME IInv, UNCHANGED <<proc, row, states, time, history>>, RestType'
  PROVE  GoodStep
  <1>1. RowStep
    BY SameRow DEF history
  <1>2. proc' \in [Handlers -> Procs] /\ CopyInv'
    BY RestNow DEF CopyInv
  <1> QED BY <1>1, <1>2, Assembled

\* The tasks of a decline.
LEMMA TasksGood ==
  ASSUME IInv, NEW h \in Handlers, Decline(h) \/ AutoConfirm(h)
  PROVE  GoodStep
  <1>0. /\ row \in Rows /\ declines \in Nat /\ confirms \in Nat /\ approval \in BOOLEAN
        /\ requests \in 0..MaxRequests /\ faults \in 0..MaxFaults
    BY RestNow DEF RestType
  <1>1. CASE Decline(h)
    <2> DEFINE c == [row EXCEPT !.submitted = FALSE]
    <2>1. c \in Rows /\ CopyOf(c, row)
      BY <1>0, SetSubmitted
    <2>2. declines' \in Nat /\ UNCHANGED <<confirms, approval, requests, faults>>
      BY <1>0, <1>1 DEF Decline, bounds
    <2>3. \/ Read(h, "tx", c, "submitted")
          \/ UNCHANGED <<proc, row, states, time, history>>
      BY <1>1 DEF Decline
    <2> HIDE DEF c
    <2>4. CASE Read(h, "tx", c, "submitted")
      <3>1. RestType'
        BY <1>0, <2>2, <2>4, ReadRest
      <3> QED BY <2>1, <2>4, <3>1, ReadGood DEF Columns
    <2>5. CASE UNCHANGED <<proc, row, states, time, history>>
      <3>1. RestType'
        BY <2>2, <2>5, RestNow DEF RestType, history
      <3> QED BY <2>5, <3>1, NothingGood
    <2> QED BY <2>3, <2>4, <2>5
  <1>2. CASE AutoConfirm(h)
    <2> DEFINE c == [row EXCEPT !.submitted = TRUE]
    <2>1. c \in Rows /\ CopyOf(c, row)
      BY <1>0, SetSubmitted
    <2>2. confirms' \in Nat /\ UNCHANGED <<declines, approval, requests, faults>>
      BY <1>0, <1>2 DEF AutoConfirm, bounds
    <2>3. \/ Read(h, "auto", c, "submitted")
          \/ UNCHANGED <<proc, row, states, time, history>>
      BY <1>2 DEF AutoConfirm
    <2> HIDE DEF c
    <2>4. CASE Read(h, "auto", c, "submitted")
      <3>1. RestType'
        BY <1>0, <2>2, <2>4, ReadRest
      <3> QED BY <2>1, <2>4, <3>1, ReadGood DEF Columns
    <2>5. CASE UNCHANGED <<proc, row, states, time, history>>
      <3>1. RestType'
        BY <2>2, <2>5, RestNow DEF RestType, history
      <3> QED BY <2>5, <3>1, NothingGood
    <2> QED BY <2>3, <2>4, <2>5
  <1> QED BY <1>1, <1>2

\* A handler that is killed forgets its copy.
LEMMA KillGood ==
  ASSUME IInv, NEW h \in Handlers, Kill(h)
  PROVE  GoodStep
  <1>1. RestType'
    <2>1. confirms' \in Nat
      BY RestNow DEF Kill, RestType
    <2>2. faults' \in 0..MaxFaults
      BY TimeSheetsAssumption, RestNow DEF Kill, RestType
    <2>3. broken' \in BOOLEAN
      BY DEF Kill
    <2> QED BY <2>1, <2>2, <2>3, RestNow DEF Kill, RestType
  <1>2. RowStep
    BY SameRow DEF Kill
  <1>3. Goto(h, Idle)
    BY DEF Kill
  <1> QED BY <1>1, <1>2, <1>3, GotoStep, IdleType, Assembled

\* The automatic approval writes both columns that must agree.
LEMMA AutoApproveGood ==
  ASSUME IInv, AutoApprove
  PROVE  GoodStep
  <1>1. RestType'
    BY RestNow DEF AutoApprove, RestType, bounds, history
  <1>2. RowStep
    <2>1. CASE row.status = "modified"
      <3>1. row' = [row EXCEPT !.status = "approved", !.approved = TRUE]
        BY <2>1 DEF AutoApprove
      <3>2. row' \in Rows /\ row'.status = "approved" /\ row'.approved
        BY <3>1, RestNow DEF Rows, Statuses
      <3>3. StatusOfRow'
        BY <3>2 DEF StatusOfRow
      <3>4. raced' \in BOOLEAN
        BY RestNow DEF AutoApprove, history
      <3> QED BY <3>2, <3>3, <3>4 DEF RowStep
    <2>2. CASE row.status # "modified"
      BY <2>2, SameRow DEF AutoApprove, history
    <2> QED BY <2>1, <2>2
  <1>3. proc' \in [Handlers -> Procs] /\ CopyInv'
    BY RestNow DEF AutoApprove, CopyInv
  <1> QED BY <1>1, <1>2, <1>3, Assembled

LEMMA TickGood ==
  ASSUME IInv, Tick
  PROVE  GoodStep
  <1>1. time' \in Times
    BY RestNow DEF Tick, RestType, Times
  <1>2. RestType'
    BY <1>1, RestNow DEF Tick, RestType, timers, bounds, history
  <1>3. RowStep
    BY SameRow DEF Tick, history
  <1>4. proc' \in [Handlers -> Procs] /\ CopyInv'
    BY RestNow DEF Tick, CopyInv
  <1> QED BY <1>2, <1>3, <1>4, Assembled

LEMMA StutterGood ==
  ASSUME IInv, UNCHANGED vars
  PROVE  GoodStep
  <1>1. RestType'
    BY RestNow DEF RestType, vars, timers, bounds, history
  <1> QED BY <1>1, NothingGood DEF vars, history

\* Every step keeps the invariant.
LEMMA NextGood ==
  ASSUME IInv, [Next]_vars
  PROVE  GoodStep
  <1>1. ASSUME NEW h \in Handlers, Step(h) PROVE GoodStep
    BY <1>1, TestGood, CleanGood, MakeWayGood, InsertGood, WriteGood, CommitGood
       DEF Step, Clear, Activate
  <1>2. ASSUME NEW h \in Handlers, NEW going \in {"yes", "no"},
               Answer(h, going) \/ Reply(h, going)
        PROVE  GoodStep
    BY <1>2, RequestsGood
  <1>3. ASSUME NEW h \in Handlers,
               Submit(h) \/ Approve(h) \/ ApproveManually(h) \/ NotAgree(h) \/ Show(h)
        PROVE  GoodStep
    BY <1>3, RequestsGood
  <1>4. ASSUME NEW h \in Handlers, Decline(h) \/ AutoConfirm(h) \/ Kill(h)
        PROVE  GoodStep
    BY <1>4, TasksGood, KillGood
  <1>5. CASE AutoApprove \/ Tick \/ UNCHANGED vars
    BY <1>5, AutoApproveGood, TickGood, StutterGood
  <1> QED BY <1>1, <1>2, <1>3, <1>4, <1>5 DEF Next

\* What a new sheet is: its states by whether its check is enabled.
LEMMA InitFacts ==
  ASSUME Init
  PROVE  \E going \in {"unknown", "yes"} :
           /\ row = WithStatus([NewRow EXCEPT !.going = going])
           /\ states = {10} \/ states = {20}
           /\ going = "yes" => late \/ states = {20}
           /\ late \in BOOLEAN
  <1>1. PICK checked \in BOOLEAN :
          /\ late = (checked /\ time = "soon")
          /\ row = WithStatus([NewRow EXCEPT !.going = IF checked /\ ~late THEN "unknown" ELSE "yes"])
          /\ states = IF checked THEN Activated(TimeSheetGraph, {}, 10)
                      ELSE Activated(TimeSheetGraph, Activated(TimeSheetGraph, {}, 10), 20)
    BY DEF Init
  <1>2. Activated(TimeSheetGraph, {}, 10) = {10}
    BY GraphNodes DEF Activated, Kept, Node
  <1>3. Activated(TimeSheetGraph, {10}, 20) = {20}
    BY GraphNodes DEF Activated, Kept, Node
  <1>4. late \in BOOLEAN
    BY <1>1, Zenon
  <1>5. CASE checked /\ ~late
    BY <1>1, <1>2, <1>4, <1>5
  <1>6. CASE ~(checked /\ ~late)
    BY <1>1, <1>2, <1>3, <1>4, <1>6
  <1> QED BY <1>5, <1>6

\* A new sheet is consistent.
LEMMA InitGood == Init => IInv
  <1> SUFFICES ASSUME Init PROVE IInv
    OBVIOUS
  <1>0. PICK going \in {"unknown", "yes"} :
          /\ row = WithStatus([NewRow EXCEPT !.going = going])
          /\ states = {10} \/ states = {20}
          /\ late \in BOOLEAN
    BY InitFacts
  <1> DEFINE c == [NewRow EXCEPT !.going = going]
  <1>1. c \in Rows /\ c.status = "new" /\ ~c.approved
    BY DEF NewRow, Rows, Statuses
  <1>2. row = WithStatus(c)
    BY <1>0
  <1> HIDE DEF c
  <1>3. row \in Rows /\ Consistent(row)
    BY <1>1, <1>2, WithStatusType, WithStatusAgrees
  <1>5. TypeOK
    <2>1. proc \in [Handlers -> Procs]
      BY IdleType DEF Init
    <2>2. requests \in 0..MaxRequests /\ faults \in 0..MaxFaults
      BY TimeSheetsAssumption DEF Init
    <2>3. time \in Times /\ states \in SUBSET Numbers
      BY <1>0 DEF Init, Times, Numbers
    <2>4. declines \in Nat /\ confirms \in Nat
      BY DEF Init
    <2>5. approval \in BOOLEAN /\ raced \in BOOLEAN /\ broken \in BOOLEAN /\ doubled \in BOOLEAN
      BY Zenon DEF Init
    <2> QED BY <1>0, <1>3, <2>1, <2>2, <2>3, <2>4, <2>5, Zenon DEF TypeOK
  <1>7. StatusOfRow
    BY <1>3 DEF StatusOfRow, Consistent
  <1>8. CopyInv
    <2>1. Idle.copy = NewRow /\ Idle.read = NewRow /\ NewRow \in Rows
      BY DEF Idle, NewRow, Rows, Statuses
    <2>2. \A h \in Handlers : proc[h] = Idle
      BY DEF Init
    <2> QED BY <2>1, <2>2, SetNothing DEF CopyInv
  <1> QED BY <1>5, <1>7, <1>8 DEF IInv

LEMMA Invariant == Spec => []IInv
  <1>1. IInv /\ [Next]_vars => IInv'
    BY NextGood DEF GoodStep
  <1> QED BY <1>1, InitGood, PTL DEF Spec

-----------------------------------------------------------------------------
(* The workflow states *)

\* The states that handler p sees when those that are committed are S.
Seen(p, S) == (S \ p.off) \cup p.on

\* It has asked for the last time whether its state is allowed.
Past(p) == p.at \in {"clear", "activate", "insert"}

\* The states S that are committed; e says that one was created twice.
SetOK(S, e) ==
  /\ 20 \notin S => S = {10}
  /\ 20 \in S => 10 \notin S
  /\ 40 \in S => 30 \in S
  /\ 70 \in S => 30 \in S /\ (40 \in S \/ e)

\* Where a handler can be.
PlaceOK(p) ==
  /\ p.at = "idle" => p = Idle
  /\ p.at # "idle" => p.n \in {20, 30, 40, 70}
  /\ p.mode = "auto" => p.on = {} /\ p.off = {}
  /\ p.at = "write" => p.n = 70
  /\ p.at = "commit" => p.n \in {20, 70} /\ p.mode = "locked"
  /\ p.n = 20 => p.mode = "locked"

\* The confirmation comes before all else, and whoever creates it holds the row.
FirstOK(p, S) ==
  /\ p.on \subseteq {20, 30, 40, 70} /\ p.off \subseteq {10, 40, 70}
  /\ 20 \notin S => p.on \subseteq {20} /\ p.off \subseteq {10} /\ (Past(p) => p.n = 20)
  /\ Past(p) /\ p.n = 20 => 20 \notin S
  /\ 10 \in p.off => /\ p.n = 20 /\ p.at \in {"activate", "insert", "commit"} /\ 20 \notin S
                     /\ p.at = "commit" => 20 \in p.on
  /\ 20 \in p.on => p.at = "commit" /\ 10 \in p.off
  /\ p.n = 20 /\ p.at \in {"activate", "insert"} => 10 \in p.off

\* The states that p creates, or has created, have those before them.
OrderOK(p, S, e) ==
  /\ (Past(p) /\ p.n = 40) \/ 40 \in p.on => 30 \in Seen(p, S)
  /\ (Past(p) /\ p.n = 70) \/ 70 \in p.on => 30 \in Seen(p, S) /\ (40 \in Seen(p, S) \/ e)
  /\ 40 \in p.off \/ 70 \in p.off => e

\* What no step does to the states: those of confirmation and hours stay, and
\* that of approval goes only when another is created twice.
Moves(S, e, T, f) ==
  /\ 20 \in S => 20 \in T
  /\ 30 \in S => 30 \in T
  /\ 40 \in S /\ 40 \notin T => f
  /\ e => f
  /\ SetOK(T, f)

StateInv ==
  /\ SetOK(states, doubled)
  /\ \A h \in Handlers : /\ PlaceOK(proc[h]) /\ FirstOK(proc[h], states)
                         /\ OrderOK(proc[h], states, doubled)
  /\ \A h, k \in Handlers : proc[h].mode = "locked" /\ proc[k].mode = "locked" => h = k

\* A handler bears what another one does to the states.
LEMMA OthersOK ==
  ASSUME NEW p \in Procs, NEW S \in SUBSET Numbers, NEW T \in SUBSET Numbers,
         NEW e \in BOOLEAN, NEW f \in BOOLEAN,
         PlaceOK(p), FirstOK(p, S), OrderOK(p, S, e), SetOK(S, e), Moves(S, e, T, f),
         20 \notin S /\ 20 \in T => p.mode # "locked"
  PROVE  FirstOK(p, T) /\ OrderOK(p, T, f)
  <1>1. FirstOK(p, T)
    BY DEF FirstOK, PlaceOK, Moves, Past
  <1>2. OrderOK(p, T, f)
    <2>1. 30 \notin p.off
      BY DEF FirstOK
    <2>2. 30 \in Seen(p, S) => 30 \in Seen(p, T)
      BY <2>1 DEF Seen, Moves
    <2>3. 40 \in Seen(p, S) => 40 \in Seen(p, T) \/ f
      BY DEF Seen, Moves
    <2> QED BY <2>2, <2>3 DEF OrderOK, Moves
  <1> QED BY <1>1, <1>2

\* Where nothing happens to the states.
LEMMA MovesNot ==
  ASSUME NEW S, NEW e, SetOK(S, e)
  PROVE  Moves(S, e, S, e)
  BY DEF Moves

\* A step of one handler, put together.
LEMMA StateStep ==
  ASSUME TypeOK, TypeOK', StateInv, NEW h \in Handlers, NEW q \in Procs,
         \A k \in Handlers : proc'[k] = IF k = h THEN q ELSE proc[k],
         PlaceOK(q), FirstOK(q, states'), OrderOK(q, states', doubled'),
         Moves(states, doubled, states', doubled'),
         q.mode = "locked" => proc[h].mode = "locked" \/ Unlocked(h),
         20 \notin states /\ 20 \in states' => proc[h].mode = "locked"
  PROVE  StateInv'
  <1>1. SetOK(states', doubled')
    BY DEF Moves
  <1>2. ASSUME NEW k \in Handlers
        PROVE  /\ PlaceOK(proc'[k]) /\ FirstOK(proc'[k], states')
               /\ OrderOK(proc'[k], states', doubled')
    <2>1. CASE k = h
      BY <2>1
    <2>2. CASE k # h
      <3>1. proc'[k] = proc[k] /\ proc[k] \in Procs
        BY <2>2 DEF TypeOK
      <3>2. 20 \notin states /\ 20 \in states' => proc[k].mode # "locked"
        BY <2>2 DEF StateInv
      <3>3. /\ states \in SUBSET Numbers /\ states' \in SUBSET Numbers
            /\ doubled \in BOOLEAN /\ doubled' \in BOOLEAN
        BY DEF TypeOK
      <3>4. /\ PlaceOK(proc[k]) /\ FirstOK(proc[k], states)
            /\ OrderOK(proc[k], states, doubled) /\ SetOK(states, doubled)
        BY DEF StateInv
      <3>5. FirstOK(proc[k], states') /\ OrderOK(proc[k], states', doubled')
        BY <3>1, <3>2, <3>3, <3>4, OthersOK
      <3> QED BY <3>1, <3>4, <3>5
    <2> QED BY <2>1, <2>2
  <1>3. ASSUME NEW j \in Handlers, NEW k \in Handlers,
               proc'[j].mode = "locked", proc'[k].mode = "locked"
        PROVE  j = k
    BY <1>3 DEF StateInv, Unlocked
  <1> QED BY <1>1, <1>2, <1>3 DEF StateInv

\* What a handler is before its step.
Before(p, S, e) == PlaceOK(p) /\ FirstOK(p, S) /\ OrderOK(p, S, e) /\ SetOK(S, e)

\* A handler that has not asked yet, or no longer has to, needs little.
LEMMA BetweenOK ==
  ASSUME NEW p \in Procs, NEW q \in Procs, NEW S \in SUBSET Numbers, NEW e \in BOOLEAN,
         Before(p, S, e), p.at \in {"test", "write"}, q.on = p.on, q.off = p.off,
         q.at \in {"test", "clean", "write", "commit"}
  PROVE  FirstOK(q, S) /\ OrderOK(q, S, e)
  <1>1. 20 \notin p.on /\ 10 \notin p.off
    BY DEF Before, FirstOK
  <1>2. Seen(q, S) = Seen(p, S)
    BY DEF Seen
  <1>3. FirstOK(q, S)
    BY <1>1 DEF Before, FirstOK, Past
  <1>4. OrderOK(q, S, e)
    BY <1>2 DEF Before, OrderOK, Past
  <1> QED BY <1>3, <1>4

\* A state that is allowed at the last question.
LEMMA CleanOK ==
  ASSUME NEW p \in Procs, NEW q \in Procs, NEW S \in SUBSET Numbers, NEW e \in BOOLEAN,
         Before(p, S, e), p.at = "clean", q.on = p.on, q.off = p.off, q.n = p.n, q.at = "clear",
         Allowed(TimeSheetGraph, Seen(p, S), p.n)
  PROVE  FirstOK(q, S) /\ OrderOK(q, S, e)
  <1>1. 20 \notin p.on /\ 10 \notin p.off /\ 20 \notin p.off /\ p.n \in {20, 30, 40, 70}
    BY DEF Before, FirstOK, PlaceOK
  <1>2. Seen(q, S) = Seen(p, S)
    BY DEF Seen
  <1>3. p.n = 20 => 20 \notin S
    BY <1>1 DEF Allowed, Seen
  <1>4. p.n # 20 => 20 \in Seen(p, S)
    BY <1>1, GraphNodes DEF Allowed, Node, AnyOf
  <1>5. p.n # 20 => 20 \in S
    BY <1>1, <1>4 DEF Seen
  <1>6. p.n = 40 => 30 \in Seen(p, S)
    BY GraphNodes DEF Allowed, Node
  <1>7. p.n = 70 => 30 \in Seen(p, S) /\ 40 \in Seen(p, S)
    BY GraphNodes DEF Allowed, Node
  <1>8. FirstOK(q, S)
    BY <1>1, <1>3, <1>5 DEF Before, FirstOK, Past
  <1>9. OrderOK(q, S, e)
    BY <1>2, <1>6, <1>7 DEF Before, OrderOK, Past
  <1> QED BY <1>8, <1>9

\* The states that make way, by the state they make way for.
LEMMA WayFacts ==
  ASSUME NEW p \in Procs, NEW S \in SUBSET Numbers, NEW e \in BOOLEAN,
         Before(p, S, e), Past(p), p.at # "insert"
  PROVE  LET R == Seen(p, S) \ TimeSheetGraph[p.n].active
             f == e \/ p.n \in Seen(p, S)
         IN /\ p.n = 20 => p.on = {} /\ S = {10} /\ R \subseteq {10} /\ p.off \cup R = {10}
            /\ p.n # 20 => 20 \in S /\ R \subseteq {40, 70} /\ 10 \notin S
            /\ 40 \in R => p.n = 30
            /\ p.n = 70 => R = {}
            /\ 40 \in R \/ 70 \in R => f
  <1> DEFINE R == Seen(p, S) \ TimeSheetGraph[p.n].active
  <1> DEFINE f == e \/ p.n \in Seen(p, S)
  <1>1. /\ 20 \notin p.on /\ p.n \in {20, 30, 40, 70}
        /\ p.on \subseteq {20, 30, 40, 70} /\ p.off \subseteq {10, 40, 70}
    BY DEF Before, FirstOK, PlaceOK, Past
  <1>2. CASE p.n = 20
    <2>1. 20 \notin S
      BY <1>2 DEF Before, FirstOK
    <2>2. S = {10} /\ p.on = {} /\ p.off \subseteq {10}
      BY <1>1, <2>1 DEF Before, FirstOK, SetOK
    <2>3. R = Seen(p, S) \ {20}
      BY <1>2, GraphNodes DEF Node
    <2>4. R = {10} \ p.off
      BY <2>2, <2>3 DEF Seen
    <2> QED BY <1>2, <2>2, <2>4
  <1>3. CASE p.n # 20
    <2>1. 20 \in S /\ 10 \notin S
      BY <1>3 DEF Before, FirstOK, SetOK
    <2>2. Seen(p, S) \subseteq {20, 30, 40, 70}
      <3>1. S \subseteq {20, 30, 40, 70}
        BY <2>1 DEF Numbers
      <3> QED BY <1>1, <3>1 DEF Seen
    <2>3. /\ p.n = 30 => R = Seen(p, S) \ {20, 30}
          /\ p.n = 40 => R = Seen(p, S) \ {20, 30, 40}
          /\ p.n = 70 => R = Seen(p, S) \ {20, 30, 40, 70}
      BY GraphNodes DEF Node
    <2>4. R \subseteq {40, 70} /\ (40 \in R => p.n = 30) /\ (p.n = 70 => R = {})
      BY <1>1, <1>3, <2>2, <2>3
    <2>5. 40 \in Seen(p, S) => 30 \in Seen(p, S)
      BY <1>1 DEF Before, OrderOK, SetOK, Seen
    <2>6. 70 \in Seen(p, S) => 30 \in Seen(p, S) /\ (40 \in Seen(p, S) \/ e)
      BY <1>1 DEF Before, OrderOK, SetOK, Seen
    <2>7. 40 \in R \/ 70 \in R => f
      <3>1. R \subseteq Seen(p, S)
        OBVIOUS
      <3>2. p.n \in {30, 40, 70}
        BY <1>1, <1>3
      <3> HIDE DEF R
      <3> QED BY <2>4, <2>5, <2>6, <3>1, <3>2
    <2> QED BY <1>3, <2>1, <2>4, <2>7
  <1> QED BY <1>2, <1>3

\* Making way outside of a transaction, and in one.
LEMMA ClearAutoOK ==
  ASSUME NEW p \in Procs, NEW q \in Procs, NEW S \in SUBSET Numbers, NEW e \in BOOLEAN,
         NEW T \in SUBSET Numbers,
         Before(p, S, e), Past(p), p.at # "insert", p.mode = "auto",
         q.on = p.on, q.off = p.off, q.n = p.n, q.mode = p.mode, q.at \in {"activate", "insert"},
         T = S \ (Seen(p, S) \ TimeSheetGraph[p.n].active)
  PROVE  LET f == e \/ p.n \in Seen(p, S)
         IN FirstOK(q, T) /\ OrderOK(q, T, f) /\ Moves(S, e, T, f)
  <1> DEFINE f == e \/ p.n \in Seen(p, S)
  <1> DEFINE R == Seen(p, S) \ TimeSheetGraph[p.n].active
  <1>1. p.on = {} /\ p.off = {} /\ p.n \in {30, 40, 70}
    BY DEF Before, PlaceOK, Past
  <1>2. /\ 20 \in S /\ R \subseteq {40, 70} /\ 10 \notin S
        /\ 40 \in R => p.n = 30
        /\ p.n = 70 => R = {}
        /\ 40 \in R \/ 70 \in R => f
    BY <1>1, WayFacts
  <1>3. T = S \ R
    OBVIOUS
  <1>4. Seen(p, S) = S /\ Seen(q, T) = T
    BY <1>1 DEF Seen
  <1>5. p.n = 30 => T \cap {40, 70} = {}
    BY <1>4, GraphNodes DEF Node
  <1> HIDE DEF R
  <1>6. e => f
    OBVIOUS
  <1>7. /\ p.n \in {40, 70} => 30 \in S
        /\ p.n = 70 => 40 \in S \/ e
        /\ 40 \in S => 30 \in S
        /\ 70 \in S => 30 \in S /\ (40 \in S \/ e)
    BY <1>4 DEF Before, OrderOK, SetOK
  <1> HIDE DEF f
  <1>8. 20 \in T /\ 10 \notin T /\ (30 \in S <=> 30 \in T)
    BY <1>2, <1>3
  <1>9. SetOK(T, f)
    BY <1>1, <1>2, <1>3, <1>5, <1>6, <1>7, <1>8 DEF SetOK
  <1>10. Moves(S, e, T, f)
    BY <1>2, <1>3, <1>6, <1>8, <1>9 DEF Moves
  <1>11. FirstOK(q, T)
    BY <1>1, <1>8 DEF FirstOK
  <1>12. OrderOK(q, T, f)
    BY <1>1, <1>2, <1>3, <1>4, <1>6, <1>7, <1>8 DEF OrderOK
  <1> QED BY <1>10, <1>11, <1>12 DEF f

LEMMA ClearInOK ==
  ASSUME NEW p \in Procs, NEW q \in Procs, NEW S \in SUBSET Numbers, NEW e \in BOOLEAN,
         Before(p, S, e), Past(p), p.at # "insert",
         q.on = p.on \ (Seen(p, S) \ TimeSheetGraph[p.n].active),
         q.off = p.off \cup (Seen(p, S) \ TimeSheetGraph[p.n].active),
         q.n = p.n, q.at \in {"activate", "insert"}
  PROVE  LET f == e \/ p.n \in Seen(p, S)
         IN FirstOK(q, S) /\ OrderOK(q, S, f) /\ Moves(S, e, S, f)
  <1> DEFINE f == e \/ p.n \in Seen(p, S)
  <1> DEFINE R == Seen(p, S) \ TimeSheetGraph[p.n].active
  <1>1. /\ 20 \notin p.on /\ p.n \in {20, 30, 40, 70}
        /\ p.on \subseteq {20, 30, 40, 70} /\ p.off \subseteq {10, 40, 70}
        /\ 10 \in p.off => p.n = 20
    BY DEF Before, FirstOK, PlaceOK, Past
  <1>2. /\ p.n = 20 => p.on = {} /\ S = {10} /\ R \subseteq {10} /\ p.off \cup R = {10}
        /\ p.n # 20 => 20 \in S /\ R \subseteq {40, 70} /\ 10 \notin S
        /\ 40 \in R => p.n = 30
        /\ p.n = 70 => R = {}
        /\ 40 \in R \/ 70 \in R => f
    BY WayFacts
  <1>3. q.on = p.on \ R /\ q.off = p.off \cup R
    OBVIOUS
  <1>4. e => f
    OBVIOUS
  <1>5. p.n = 30 => Seen(p, S) \cap {40, 70} \subseteq R
    BY GraphNodes DEF Node
  <1> HIDE DEF R, f
  <1>6. Moves(S, e, S, f)
    BY <1>4 DEF Moves, Before, SetOK
  <1>7. FirstOK(q, S)
    BY <1>1, <1>2, <1>3 DEF FirstOK, Past
  <1>8. 30 \in Seen(p, S) => 30 \in Seen(q, S)
    BY <1>2, <1>3 DEF Seen
  <1>9. 40 \in Seen(p, S) => 40 \in Seen(q, S) \/ f
    BY <1>2, <1>3 DEF Seen
  <1>10. 40 \in q.off \/ 70 \in q.off => f
    BY <1>2, <1>3, <1>4 DEF Before, OrderOK
  <1>11. OrderOK(q, S, f)
    BY <1>3, <1>4, <1>8, <1>9, <1>10 DEF Before, OrderOK, Past
  <1> QED BY <1>6, <1>7, <1>11 DEF f

\* The new state, outside of a transaction, and in one.
LEMMA InsertAutoOK ==
  ASSUME NEW p \in Procs, NEW q \in Procs, NEW S \in SUBSET Numbers, NEW e \in BOOLEAN,
         NEW T \in SUBSET Numbers,
         Before(p, S, e), p.at = "insert", p.mode = "auto",
         q.on = p.on, q.off = p.off, q.at \in {"test", "write", "commit"},
         T = S \cup {p.n}
  PROVE  FirstOK(q, T) /\ OrderOK(q, T, e) /\ Moves(S, e, T, e)
  <1>1. p.on = {} /\ p.off = {} /\ p.n \in {30, 40, 70} /\ Past(p)
    BY DEF Before, PlaceOK, Past
  <1>2. 20 \in S /\ 10 \notin S
    BY <1>1 DEF Before, FirstOK, SetOK
  <1>3. Seen(p, S) = S
    BY <1>1 DEF Seen
  <1>4. /\ p.n \in {40, 70} => 30 \in S
        /\ p.n = 70 => 40 \in S \/ e
    BY <1>1, <1>3 DEF Before, OrderOK
  <1>5. SetOK(T, e)
    BY <1>1, <1>2, <1>4 DEF Before, SetOK
  <1>6. Moves(S, e, T, e)
    BY <1>5 DEF Moves
  <1>7. FirstOK(q, T)
    BY <1>1, <1>2 DEF FirstOK, Past
  <1>8. OrderOK(q, T, e)
    BY <1>1 DEF OrderOK, Past
  <1> QED BY <1>6, <1>7, <1>8

LEMMA InsertInOK ==
  ASSUME NEW p \in Procs, NEW q \in Procs, NEW S \in SUBSET Numbers, NEW e \in BOOLEAN,
         Before(p, S, e), p.at = "insert",
         q.on = p.on \cup {p.n}, q.off = p.off, q.at \in {"test", "write", "commit"},
         p.n = 20 => q.at = "commit" /\ q.n = 20
  PROVE  FirstOK(q, S) /\ OrderOK(q, S, e)
  <1>1. p.n \in {20, 30, 40, 70} /\ Past(p) /\ ~Past(q)
    BY DEF Before, PlaceOK, Past
  <1>2. FirstOK(q, S)
    BY <1>1 DEF Before, FirstOK, Past
  <1>3. Seen(p, S) \subseteq Seen(q, S)
    BY DEF Seen
  <1>4. OrderOK(q, S, e)
    BY <1>1, <1>3 DEF Before, OrderOK
  <1> QED BY <1>2, <1>4

\* What a commit leaves.
LEMMA CommitOK ==
  ASSUME NEW p \in Procs, NEW S \in SUBSET Numbers, NEW e \in BOOLEAN,
         Before(p, S, e), p.at = "commit"
  PROVE  Moves(S, e, Seen(p, S), e)
  <1> DEFINE T == Seen(p, S)
  <1>1. /\ p.on \subseteq {20, 30, 40, 70} /\ p.off \subseteq {10, 40, 70}
        /\ 20 \notin S => p.on \subseteq {20} /\ p.off \subseteq {10} /\ S = {10}
        /\ 10 \in p.off <=> 20 \in p.on
        /\ 20 \in S => 10 \notin S
    BY DEF Before, FirstOK, SetOK
  <1>2. T = (S \ p.off) \cup p.on
    BY DEF Seen
  <1>3. /\ 20 \in S => 20 \in T
        /\ 30 \in S => 30 \in T
    BY <1>1, <1>2
  <1>4. 40 \in S /\ 40 \notin T => e
    BY <1>2 DEF Before, OrderOK
  <1>5. 20 \notin T => T = {10}
    BY <1>1, <1>2
  <1>6. 20 \in T => 10 \notin T
    BY <1>1, <1>2
  <1>7. 40 \in T => 30 \in T
    BY <1>2, <1>3 DEF Before, OrderOK, SetOK
  <1>8. 70 \in T => 30 \in T /\ (40 \in T \/ e)
    BY <1>2, <1>3, <1>4 DEF Before, OrderOK, SetOK
  <1>9. SetOK(T, e)
    BY <1>5, <1>6, <1>7, <1>8 DEF SetOK
  <1> QED BY <1>3, <1>4, <1>9 DEF Moves

\* An idle handler, and one that begins.
LEMMA FreshOK ==
  ASSUME NEW q, NEW S, NEW e, q.on = {}, q.off = {}, q.at \in {"idle", "test"}
  PROVE  FirstOK(q, S) /\ OrderOK(q, S, e)
  BY DEF FirstOK, OrderOK, Past

LEMMA IdleOK ==
  ASSUME NEW S, NEW e
  PROVE  /\ PlaceOK(Idle) /\ FirstOK(Idle, S) /\ OrderOK(Idle, S, e)
         /\ Idle.mode = "auto" /\ Idle.at = "idle" /\ Idle.n = 10
         /\ Idle.on = {} /\ Idle.off = {}
  <1>1. /\ Idle.at = "idle" /\ Idle.on = {} /\ Idle.off = {} /\ Idle.n = 10
        /\ Idle.mode = "auto"
    BY DEF Idle
  <1>2. FirstOK(Idle, S) /\ OrderOK(Idle, S, e)
    BY <1>1, FreshOK
  <1>3. PlaceOK(Idle)
    BY <1>1 DEF PlaceOK
  <1> QED BY <1>1, <1>2, <1>3

\* What is known of the handler that takes a step.
LEMMA BeforeNow ==
  ASSUME IInv, StateInv, NEW h \in Handlers
  PROVE  /\ proc[h] \in Procs /\ Before(proc[h], states, doubled)
         /\ states \in SUBSET Numbers /\ doubled \in BOOLEAN
         /\ Moves(states, doubled, states, doubled)
         /\ View(proc[h]) = Seen(proc[h], states)
  BY MovesNot DEF IInv, TypeOK, StateInv, Before, View, Seen

\* A step that leaves the states as they are.
LEMMA QuietStep ==
  ASSUME IInv, IInv', StateInv, NEW h \in Handlers, NEW q \in Procs, Goto(h, q),
         UNCHANGED <<states, doubled>>,
         PlaceOK(q), FirstOK(q, states), OrderOK(q, states, doubled),
         q.mode = "locked" => proc[h].mode = "locked" \/ Unlocked(h)
  PROVE  StateInv'
  <1>1. \A k \in Handlers : proc'[k] = IF k = h THEN q ELSE proc[k]
    BY DEF Goto, IInv, TypeOK
  <1>2. TypeOK /\ TypeOK'
    BY DEF IInv
  <1>3. Moves(states, doubled, states', doubled')
    BY BeforeNow
  <1>4. FirstOK(q, states') /\ OrderOK(q, states', doubled')
    OBVIOUS
  <1> QED BY <1>1, <1>2, <1>3, <1>4, StateStep

LEMMA TestStates ==
  ASSUME IInv, IInv', StateInv, NEW h \in Handlers, Test(h)
  PROVE  StateInv'
  <1> DEFINE p == proc[h]
  <1>0. /\ p \in Procs /\ Before(p, states, doubled) /\ p.at = "test"
        /\ states \in SUBSET Numbers /\ doubled \in BOOLEAN
    BY BeforeNow DEF Test
  <1>1. UNCHANGED <<states, doubled>>
    BY DEF Test, history
  <1>n. p.n \in {20, 30, 40, 70} /\ p.n \in Numbers
    BY <1>0 DEF Before, PlaceOK, Numbers
  <1>2. CASE Permitted(p)
    <2> DEFINE q == [p EXCEPT !.at = "clean"]
    <2>1. Goto(h, q)
      BY <1>2 DEF Test
    <2>2. /\ q \in Procs /\ q.at = "clean" /\ q.n = p.n /\ q.mode = p.mode
          /\ q.on = p.on /\ q.off = p.off
      BY <1>0 DEF Procs
    <2> HIDE DEF q
    <2>3. PlaceOK(q)
      BY <1>0, <1>n, <2>2 DEF Before, PlaceOK
    <2>4. FirstOK(q, states) /\ OrderOK(q, states, doubled)
      BY <1>0, <2>2, BetweenOK
    <2> QED BY <1>1, <2>1, <2>2, <2>3, <2>4, QuietStep
  <1>3. CASE ~Permitted(p)
    <2> DEFINE q == Further(p)
    <2>1. Goto(h, q)
      BY <1>3 DEF Test
    <2>2. /\ q \in Procs /\ q.at \in {"test", "write", "commit"} /\ q.mode = p.mode
          /\ q.on = p.on /\ q.off = p.off
      BY <1>0, FurtherStep
    <2>3. /\ q.n \in {20, 30, 40, 70}
          /\ q.at = "write" => q.n = 70
          /\ q.n = 20 => p.n = 20
          /\ q.at = "commit" => q.n \in {20, 70} /\ p.n = 20
      BY <1>0, <1>n, FurtherWhere
    <2> HIDE DEF q
    <2>4. PlaceOK(q)
      BY <1>0, <2>2, <2>3 DEF Before, PlaceOK
    <2>5. FirstOK(q, states) /\ OrderOK(q, states, doubled)
      BY <1>0, <2>2, BetweenOK
    <2> QED BY <1>1, <2>1, <2>2, <2>4, <2>5, QuietStep
  <1> QED BY <1>2, <1>3

LEMMA CleanStates ==
  ASSUME IInv, IInv', StateInv, NEW h \in Handlers, Clean(h)
  PROVE  StateInv'
  <1> DEFINE p == proc[h]
  <1>0. /\ p \in Procs /\ Before(p, states, doubled) /\ p.at = "clean"
        /\ states \in SUBSET Numbers /\ doubled \in BOOLEAN /\ View(p) = Seen(p, states)
    BY BeforeNow DEF Clean
  <1>1. UNCHANGED <<states, doubled>>
    BY DEF Clean
  <1>2. CASE Permitted(p)
    <2> DEFINE q == [p EXCEPT !.at = "clear"]
    <2>1. Goto(h, q)
      BY <1>2 DEF Clean
    <2>2. /\ q \in Procs /\ q.at = "clear" /\ q.n = p.n /\ q.mode = p.mode
          /\ q.on = p.on /\ q.off = p.off
      BY <1>0 DEF Procs
    <2>a. Allowed(TimeSheetGraph, Seen(p, states), p.n)
      BY <1>0, <1>2 DEF Permitted
    <2> HIDE DEF q
    <2>3. PlaceOK(q)
      BY <1>0, <2>2 DEF Before, PlaceOK
    <2>4. FirstOK(q, states) /\ OrderOK(q, states, doubled)
      BY <1>0, <2>2, <2>a, CleanOK
    <2> QED BY <1>1, <2>1, <2>2, <2>3, <2>4, QuietStep
  <1>3. CASE ~Permitted(p)
    <2>1. Goto(h, Idle)
      BY <1>3 DEF Clean
    <2> QED BY <1>1, <2>1, IdleOK, IdleType, QuietStep
  <1> QED BY <1>2, <1>3

LEMMA MakeWayStates ==
  ASSUME IInv, IInv', StateInv, NEW h \in Handlers, NEW from \in {"clear", "activate"},
         NEW to \in {"activate", "insert"}, MakeWay(h, from, to)
  PROVE  StateInv'
  <1> DEFINE p == proc[h]
  <1> DEFINE R == Seen(p, states) \ TimeSheetGraph[p.n].active
  <1> DEFINE f == doubled \/ p.n \in Seen(p, states)
  <1> DEFINE q == Cleared(p, R, to)
  <1>0. /\ p \in Procs /\ Before(p, states, doubled)
        /\ states \in SUBSET Numbers /\ doubled \in BOOLEAN /\ View(p) = Seen(p, states)
    BY BeforeNow
  <1>1. /\ p.at = from /\ R \in SUBSET Numbers /\ Goto(h, q)
        /\ states' = IF p.mode = "auto" THEN states \ R ELSE states
        /\ doubled' = f
    BY <1>0, MakeWayFacts
  <1>2. Past(p) /\ p.at # "insert" /\ p.n \in {20, 30, 40, 70}
    BY <1>0, <1>1 DEF Past, Before, PlaceOK
  <1>3. /\ q \in Procs /\ q.mode = p.mode /\ q.n = p.n /\ q.at = to
        /\ p.mode = "auto" => q.on = p.on /\ q.off = p.off
        /\ p.mode # "auto" => q.on = p.on \ R /\ q.off = p.off \cup R
    BY <1>0, <1>1, ClearedStep
  <1>4. PlaceOK(q)
    <2> HIDE DEF q
    <2> QED BY <1>0, <1>2, <1>3 DEF Before, PlaceOK
  <1>5. \A k \in Handlers : proc'[k] = IF k = h THEN q ELSE proc[k]
    BY <1>1 DEF Goto, IInv, TypeOK
  <1>6. TypeOK /\ TypeOK'
    BY DEF IInv
  <1>7. /\ FirstOK(q, states') /\ OrderOK(q, states', f)
        /\ Moves(states, doubled, states', f)
    <2>1. CASE p.mode = "auto"
      <3>1. states' = states \ R /\ states' \in SUBSET Numbers
        BY <1>0, <1>1, <2>1
      <3>2. q.on = p.on /\ q.off = p.off /\ q.n = p.n /\ q.mode = p.mode /\ q \in Procs
            /\ q.at \in {"activate", "insert"}
        BY <1>3, <2>1
      <3> HIDE DEF q
      <3>3. FirstOK(q, states') /\ OrderOK(q, states', f) /\ Moves(states, doubled, states', f)
        BY <1>0, <1>2, <2>1, <3>1, <3>2, ClearAutoOK, SMTT(60)
      <3> QED BY <3>3
    <2>2. CASE p.mode # "auto"
      <3>1. states' = states
        BY <1>1, <2>2
      <3> HIDE DEF q
      <3> QED BY <1>0, <1>2, <1>3, <2>2, <3>1, ClearInOK
    <2> QED BY <2>1, <2>2
  <1>8. ~(20 \notin states /\ 20 \in states')
    BY <1>1
  <1> HIDE DEF q, f
  <1> QED BY <1>1, <1>3, <1>4, <1>5, <1>6, <1>7, <1>8, StateStep

LEMMA InsertStates ==
  ASSUME IInv, IInv', StateInv, NEW h \in Handlers, Insert(h)
  PROVE  StateInv'
  <1> DEFINE p == proc[h]
  <1> DEFINE i == Inserted(p)
  <1> DEFINE q == Further(i)
  <1>0. /\ p \in Procs /\ Before(p, states, doubled)
        /\ states \in SUBSET Numbers /\ doubled \in BOOLEAN /\ SetOK(states, doubled)
    BY BeforeNow DEF Before
  <1>1. /\ p.at = "insert" /\ i \in Procs /\ Goto(h, q)
        /\ states' = IF p.mode = "auto" THEN states \cup {p.n} ELSE states
        /\ doubled' = doubled
    BY InsertFacts DEF history
  <1>2. /\ i.mode = p.mode /\ i.n = p.n /\ i.at = p.at /\ i.off = p.off
        /\ p.mode = "auto" => i.on = p.on
        /\ p.mode # "auto" => i.on = p.on \cup {p.n}
    BY <1>0, InsertedStep
  <1>n. p.n \in {20, 30, 40, 70}
    BY <1>0, <1>1 DEF Before, PlaceOK
  <1> HIDE DEF i
  <1>3. /\ q \in Procs /\ q.at \in {"test", "write", "commit"} /\ q.mode = i.mode
        /\ q.on = i.on /\ q.off = i.off
    BY <1>1, FurtherStep
  <1>4. /\ q.n \in {20, 30, 40, 70}
        /\ q.at = "write" => q.n = 70
        /\ q.n = 20 => i.n = 20
        /\ q.at = "commit" => q.n \in {20, 70} /\ i.n = 20
        /\ i.n = 20 => q.at = "commit" /\ q.n = 20
    BY <1>1, <1>2, <1>n, FurtherWhere
  <1> HIDE DEF q
  <1>5. PlaceOK(q)
    BY <1>0, <1>1, <1>2, <1>3, <1>4 DEF Before, PlaceOK
  <1>6. \A k \in Handlers : proc'[k] = IF k = h THEN q ELSE proc[k]
    BY <1>1 DEF Goto, IInv, TypeOK
  <1>7. TypeOK /\ TypeOK'
    BY DEF IInv
  <1>8. /\ FirstOK(q, states') /\ OrderOK(q, states', doubled)
        /\ Moves(states, doubled, states', doubled)
    <2>1. CASE p.mode = "auto"
      <3>1. states' = states \cup {p.n} /\ states' \in SUBSET Numbers
        BY <1>1, <1>7, <2>1 DEF TypeOK
      <3>2. q.on = p.on /\ q.off = p.off
        BY <1>2, <1>3, <2>1
      <3> QED BY <1>0, <1>1, <1>3, <2>1, <3>1, <3>2, InsertAutoOK
    <2>2. CASE p.mode # "auto"
      <3>1. states' = states
        BY <1>1, <2>2
      <3>2. q.on = p.on \cup {p.n} /\ q.off = p.off
        BY <1>2, <1>3, <2>2
      <3>3. p.n = 20 => q.at = "commit" /\ q.n = 20
        BY <1>2, <1>4
      <3> QED BY <1>0, <1>1, <1>3, <3>1, <3>2, <3>3, InsertInOK, MovesNot
    <2> QED BY <2>1, <2>2
  <1>9. ~(20 \notin states /\ 20 \in states')
    <2>1. p.mode = "auto" => p.n # 20
      BY <1>0 DEF Before, PlaceOK
    <2> QED BY <1>1, <2>1
  <1> QED BY <1>1, <1>2, <1>3, <1>5, <1>6, <1>7, <1>8, <1>9, StateStep

LEMMA WriteStates ==
  ASSUME IInv, IInv', StateInv, NEW h \in Handlers, Write(h)
  PROVE  StateInv'
  <1> DEFINE p == proc[h]
  <1>0. /\ p \in Procs /\ Before(p, states, doubled) /\ p.at = "write" /\ Unlocked(h)
        /\ states \in SUBSET Numbers /\ doubled \in BOOLEAN
    BY BeforeNow DEF Write
  <1>1. UNCHANGED <<states, doubled>>
    BY DEF Write
  <1>2. CASE p.mode = "auto"
    <2>1. Goto(h, Idle)
      BY <1>2 DEF Write
    <2> QED BY <1>1, <2>1, IdleOK, IdleType, QuietStep
  <1>3. CASE p.mode # "auto"
    <2> DEFINE m == Further(p)
    <2> DEFINE q == [m EXCEPT !.mode = "locked"]
    <2>n. p.n = 70
      BY <1>0 DEF Before, PlaceOK
    <2>1. Goto(h, q)
      BY <1>3 DEF Write
    <2>2. /\ m \in Procs /\ m.at \in {"test", "write", "commit"}
          /\ m.on = p.on /\ m.off = p.off
      BY <1>0, FurtherStep
    <2>3. /\ m.n \in {20, 30, 40, 70}
          /\ m.at = "write" => m.n = 70
          /\ m.at = "commit" => m.n \in {20, 70}
      BY <1>0, <2>n, FurtherWhere
    <2> HIDE DEF m
    <2>4. /\ q \in Procs /\ q.at = m.at /\ q.n = m.n /\ q.on = m.on /\ q.off = m.off
          /\ q.mode = "locked"
      BY <2>2 DEF Procs
    <2> HIDE DEF q
    <2>5. PlaceOK(q)
      BY <2>2, <2>3, <2>4 DEF PlaceOK
    <2>6. FirstOK(q, states) /\ OrderOK(q, states, doubled)
      BY <1>0, <2>2, <2>4, BetweenOK
    <2> QED BY <1>0, <1>1, <2>1, <2>4, <2>5, <2>6, QuietStep
  <1> QED BY <1>2, <1>3

LEMMA CommitStates ==
  ASSUME IInv, IInv', StateInv, NEW h \in Handlers, Commit(h)
  PROVE  StateInv'
  <1> DEFINE p == proc[h]
  <1>0. /\ p \in Procs /\ Before(p, states, doubled) /\ p.at = "commit" /\ p.mode = "locked"
        /\ states \in SUBSET Numbers /\ doubled \in BOOLEAN /\ View(p) = Seen(p, states)
    <2>1. p.at = "commit"
      BY DEF Commit
    <2> QED BY <2>1, BeforeNow DEF Before, PlaceOK
  <1>1. states' = Seen(p, states) /\ Goto(h, Idle) /\ doubled' = doubled
    BY <1>0 DEF Commit
  <1>2. Moves(states, doubled, states', doubled')
    BY <1>0, <1>1, CommitOK
  <1>3. \A k \in Handlers : proc'[k] = IF k = h THEN Idle ELSE proc[k]
    BY <1>1 DEF Goto, IInv, TypeOK
  <1>4. TypeOK /\ TypeOK'
    BY DEF IInv
  <1> QED BY <1>0, <1>2, <1>3, <1>4, IdleOK, IdleType, StateStep

LEMMA ReadStates ==
  ASSUME IInv, IInv', StateInv, NEW h \in Handlers, NEW c \in Rows,
         NEW mode \in {"auto", "tx", "locked"}, NEW columns \in Columns,
         Read(h, mode, c, columns), mode = "locked" => Unlocked(h)
  PROVE  StateInv'
  <1> DEFINE q == Reading(mode, c, columns)
  <1>1. /\ q \in Procs /\ q.mode = mode /\ q.at = "test" /\ q.n = First(c)
        /\ q.on = {} /\ q.off = {}
    BY RestNow, ReadingStep
  <1>2. Goto(h, q)
    BY DEF Read, Reading
  <1> HIDE DEF q
  <1>3. First(c) \in {30, 40, 70}
    BY DEF First
  <1>4. PlaceOK(q)
    BY <1>1, <1>3 DEF PlaceOK
  <1>5. FirstOK(q, states) /\ OrderOK(q, states, doubled)
    BY <1>1, FreshOK
  <1>6. UNCHANGED <<states, doubled>>
    BY DEF Read, history
  <1> QED BY <1>1, <1>2, <1>4, <1>5, <1>6, QuietStep

\* Who begins reads the row; only an answer locks it.
LEMMA Begins ==
  ASSUME IInv, NEW h \in Handlers,
         \/ \E going \in {"yes", "no"} : Answer(h, going) \/ Reply(h, going)
         \/ Submit(h) \/ Approve(h) \/ ApproveManually(h) \/ NotAgree(h) \/ Show(h)
         \/ Decline(h) \/ AutoConfirm(h)
  PROVE  \/ \E mode \in {"auto", "tx", "locked"}, c \in Rows, columns \in Columns :
              /\ Read(h, mode, c, columns)
              /\ mode = "locked" => Unlocked(h)
              /\ mode = "auto" => c.going = row.going
              /\ columns # "all" => c.approved = row.approved
         \/ UNCHANGED <<proc, row, states, history>>
  <1>0. row \in Rows
    BY RestNow
  <1> DEFINE Begun(mode, c, columns) ==
        /\ Read(h, mode, c, columns)
        /\ mode = "locked" => Unlocked(h)
        /\ mode = "auto" => c.going = row.going
        /\ columns # "all" => c.approved = row.approved
  <1> DEFINE sub == [row EXCEPT !.submitted = TRUE]
  <1> DEFINE uns == [row EXCEPT !.submitted = FALSE]
  <1> DEFINE app == [row EXCEPT !.approved = TRUE]
  <1> DEFINE mod == [row EXCEPT !.approved = FALSE, !.modified = TRUE]
  <1>c. /\ sub \in Rows /\ sub.going = row.going /\ sub.approved = row.approved
        /\ uns \in Rows /\ uns.going = row.going /\ uns.approved = row.approved
        /\ app \in Rows /\ app.going = row.going
        /\ mod \in Rows
    BY <1>0 DEF Rows
  <1> SUFFICES \/ \E mode \in {"auto", "tx", "locked"}, c \in Rows, columns \in Columns :
                    Begun(mode, c, columns)
               \/ UNCHANGED <<proc, row, states, history>>
    OBVIOUS
  <1>k. "all" \in Columns /\ "status" \in Columns /\ "submitted" \in Columns
    BY DEF Columns
  <1>1. ASSUME NEW going \in {"yes", "no"}, Answer(h, going) \/ Reply(h, going)
        PROVE  \E mode \in {"auto", "tx", "locked"}, c \in Rows, columns \in Columns :
                 Begun(mode, c, columns)
    <2> DEFINE c == [row EXCEPT !.going = going]
    <2>1. c \in Rows
      BY <1>0, SetGoing
    <2>2. CASE Answer(h, going)
      <3>1. Begun("locked", c, "all")
        BY <2>2 DEF Answer
      <3> HIDE DEF c, Begun
      <3> QED BY <1>k, <2>1, <3>1
    <2>3. CASE Reply(h, going)
      <3>1. Begun("tx", c, "all")
        BY <2>3 DEF Reply
      <3> HIDE DEF c, Begun
      <3> QED BY <1>k, <2>1, <3>1
    <2> QED BY <1>1, <2>2, <2>3
  <1>2. CASE Submit(h)
    <2>1. Begun("auto", sub, "all")
      BY <1>2, <1>c DEF Submit
    <2> HIDE DEF sub, Begun
    <2> QED BY <1>c, <1>k, <2>1
  <1>3. CASE Approve(h)
    <2>1. Begun("tx", app, "all")
      BY <1>3 DEF Approve
    <2> HIDE DEF app, Begun
    <2> QED BY <1>c, <1>k, <2>1
  <1>4. CASE ApproveManually(h)
    <2>1. Begun("auto", app, "all")
      BY <1>4, <1>c DEF ApproveManually
    <2> HIDE DEF app, Begun
    <2> QED BY <1>c, <1>k, <2>1
  <1>5. CASE NotAgree(h)
    <2>1. Begun("tx", mod, "all")
      BY <1>5 DEF NotAgree
    <2> HIDE DEF mod, Begun
    <2> QED BY <1>c, <1>k, <2>1
  <1>6. CASE Show(h)
    <2>1. Begun("auto", row, "status")
      BY <1>6 DEF Show
    <2> HIDE DEF Begun
    <2> QED BY <1>0, <1>k, <2>1
  <1>7. CASE Decline(h)
    <2>1. Begun("tx", uns, "submitted") \/ UNCHANGED <<proc, row, states, history>>
      BY <1>7, <1>c DEF Decline
    <2> HIDE DEF uns, Begun
    <2> QED BY <1>c, <1>k, <2>1
  <1>8. CASE AutoConfirm(h)
    <2>1. Begun("auto", sub, "submitted") \/ UNCHANGED <<proc, row, states, history>>
      BY <1>8, <1>c DEF AutoConfirm
    <2> HIDE DEF sub, Begun
    <2> QED BY <1>c, <1>k, <2>1
  <1> QED BY <1>1, <1>2, <1>3, <1>4, <1>5, <1>6, <1>7, <1>8

LEMMA SameStates ==
  ASSUME StateInv, UNCHANGED <<proc, states, doubled>>
  PROVE  StateInv'
  BY DEF StateInv

LEMMA NextStates ==
  ASSUME IInv, IInv', StateInv, [Next]_vars
  PROVE  StateInv'
  <1>1. ASSUME NEW h \in Handlers, Step(h) PROVE StateInv'
    <2>1. CASE Test(h) \/ Clean(h) \/ Insert(h) \/ Write(h) \/ Commit(h)
      BY <2>1, TestStates, CleanStates, InsertStates, WriteStates, CommitStates
    <2>2. CASE Clear(h) \/ Activate(h)
      BY <2>2, MakeWayStates DEF Clear, Activate
    <2> QED BY <1>1, <2>1, <2>2 DEF Step
  <1>2. ASSUME NEW h \in Handlers,
               \/ \E going \in {"yes", "no"} : Answer(h, going) \/ Reply(h, going)
               \/ Submit(h) \/ Approve(h) \/ ApproveManually(h) \/ NotAgree(h) \/ Show(h)
               \/ Decline(h) \/ AutoConfirm(h)
        PROVE  StateInv'
    <2>1. CASE UNCHANGED <<proc, row, states, history>>
      BY <2>1, SameStates DEF history
    <2>2. CASE ~UNCHANGED <<proc, row, states, history>>
      <3>1. PICK mode \in {"auto", "tx", "locked"}, c \in Rows, columns \in Columns :
              Read(h, mode, c, columns) /\ (mode = "locked" => Unlocked(h))
        BY <1>2, <2>2, Begins
      <3> QED BY <3>1, ReadStates
    <2> QED BY <2>1, <2>2
  <1>3. ASSUME NEW h \in Handlers, Kill(h) PROVE StateInv'
    <2>1. Goto(h, Idle) /\ UNCHANGED <<states, doubled>>
      BY <1>3 DEF Kill
    <2> QED BY <2>1, IdleOK, IdleType, QuietStep
  <1>4. CASE AutoApprove \/ Tick \/ UNCHANGED vars
    BY <1>4, SameStates DEF AutoApprove, Tick, vars, history
  <1> QED BY <1>1, <1>2, <1>3, <1>4 DEF Next

LEMMA InitStates == Init => StateInv
  <1> SUFFICES ASSUME Init PROVE StateInv
    OBVIOUS
  <1>1. states = {10} \/ states = {20}
    BY InitFacts
  <1>2. SetOK(states, doubled)
    BY <1>1 DEF SetOK
  <1>3. \A h \in Handlers : proc[h] = Idle
    BY DEF Init
  <1> QED BY <1>2, <1>3, IdleOK DEF StateInv

LEMMA StateInvariant == Spec => [](IInv /\ StateInv)
  <1>1. IInv /\ StateInv /\ [Next]_vars => IInv' /\ StateInv'
    BY NextGood, NextStates DEF GoodStep
  <1> QED BY <1>1, InitGood, InitStates, PTL DEF Spec

-----------------------------------------------------------------------------
(* What the states say of the row *)

\* What a handler has in hand: columns that are saved alone keep the approval,
\* only a transaction gives an answer, the state of an approval is created by who
\* approves, and that of a confirmation by who confirms.
KeepsOK(p, S) ==
  /\ p.columns # "all" => p.copy.approved = p.read.approved
  /\ p.mode = "auto" => p.copy.going = p.read.going
  /\ p.n = 40 \/ 40 \in p.on => p.copy.approved
  /\ p.at = "commit" /\ Confirms(p) => 20 \in Seen(p, S)

\* A handler outside of a transaction that is about to approve.
Approving(p) == p.at # "idle" /\ p.mode = "auto" /\ p.copy.approved

\* The sheet is approved, or corrected, or will be, or something went wrong.
Meant ==
  \/ row.approved \/ row.modified \/ raced \/ broken
  \/ \E h \in Handlers : Approving(proc[h])

ReadyOK(p) == (Past(p) /\ p.n = 70) \/ 70 \in p.on => p.copy.approved \/ Meant

MeansInv ==
  /\ 40 \in states \/ 70 \in states => Meant
  /\ \A h \in Handlers : KeepsOK(proc[h], states) /\ ReadyOK(proc[h])
  /\ row.going = "yes" /\ ~raced /\ ~late => 20 \in states

Inv == IInv /\ StateInv /\ MeansInv

\* An approval under way stays so, or is written, unless something goes wrong.
LEMMA MeantStays ==
  ASSUME IInv, GoodStep, NEW h \in Handlers,
         \A k \in Handlers \ {h} : proc'[k] = proc[k],
         raced => raced', broken => broken',
         Approving(proc[h]) => Approving(proc'[h]) \/ row'.approved \/ raced' \/ broken'
  PROVE  Meant => Meant'
  <1>1. row.approved \/ row.modified => row'.approved \/ row'.modified \/ raced'
    BY DEF GoodStep
  <1>2. ASSUME NEW k \in Handlers, Approving(proc[k])
        PROVE  Meant'
    <2>1. CASE k = h
      <3>1. Approving(proc'[h]) \/ row'.approved \/ raced' \/ broken'
        BY <1>2, <2>1
      <3> QED BY <3>1 DEF Meant, Approving
    <2>2. CASE k # h
      <3>1. proc'[k] = proc[k]
        BY <2>2
      <3> QED BY <1>2, <3>1 DEF Meant, Approving
    <2> QED BY <2>1, <2>2
  <1> QED BY <1>1, <1>2 DEF Meant

\* A step of one handler, put together.
LEMMA MeansStep ==
  ASSUME IInv, StateInv, MeansInv, GoodStep, NEW h \in Handlers, NEW q \in Procs, Goto(h, q),
         20 \in states => 20 \in states',
         Meant => Meant', KeepsOK(q, states'),
         (Past(q) /\ q.n = 70) \/ 70 \in q.on => q.copy.approved \/ Meant',
         40 \in states' \/ 70 \in states' => Meant',
         row'.going = "yes" /\ ~raced' /\ ~late' => 20 \in states'
  PROVE  MeansInv'
  <1>1. \A k \in Handlers : proc'[k] = IF k = h THEN q ELSE proc[k]
    BY DEF Goto, IInv, TypeOK
  <1>2. ASSUME NEW k \in Handlers
        PROVE  /\ KeepsOK(proc'[k], states')
               /\ (Past(proc'[k]) /\ proc'[k].n = 70) \/ 70 \in proc'[k].on
                     => proc'[k].copy.approved \/ Meant'
    <2>1. CASE k = h
      BY <1>1, <2>1
    <2>2. CASE k # h
      <3>1. proc'[k] = proc[k]
        BY <1>1, <2>2
      <3>2. KeepsOK(proc[k], states) /\ ReadyOK(proc[k])
        BY DEF MeansInv
      <3>3. 20 \notin proc[k].off
        BY DEF StateInv, FirstOK
      <3>4. 20 \in Seen(proc[k], states) => 20 \in Seen(proc[k], states')
        BY <3>3 DEF Seen
      <3>5. KeepsOK(proc[k], states')
        BY <3>2, <3>4 DEF KeepsOK
      <3> QED BY <3>1, <3>2, <3>5 DEF ReadyOK
    <2> QED BY <2>1, <2>2
  <1>3. \A k \in Handlers : ReadyOK(proc[k])'
    BY <1>2 DEF ReadyOK, Past
  <1>4. \A k \in Handlers : KeepsOK(proc'[k], states')
    BY <1>2
  <1> QED BY <1>3, <1>4 DEF MeansInv

\* What is known of the handler that takes a step, and of the others.
LEMMA MeansNow ==
  ASSUME Inv, NEW h \in Handlers
  PROVE  /\ KeepsOK(proc[h], states)
         /\ (Past(proc[h]) /\ proc[h].n = 70) \/ 70 \in proc[h].on => proc[h].copy.approved \/ Meant
         /\ 40 \in states \/ 70 \in states => Meant
         /\ row.going = "yes" /\ ~raced /\ ~late => 20 \in states
  BY DEF Inv, MeansInv, ReadyOK

\* The same copy in hand, and the same states.
LEMMA KeepsSame ==
  ASSUME NEW p \in Procs, NEW q \in Procs, NEW S, NEW T, KeepsOK(p, S), SameCopy(q, p),
         q.mode = p.mode \/ q.mode = "locked", q.on \subseteq p.on \cup {p.n},
         q.n = 40 => p.copy.approved,
         q.at = "commit" /\ Confirms(p) => 20 \in Seen(q, T)
  PROVE  KeepsOK(q, T)
  <1>1. q.copy = p.copy /\ q.read = p.read /\ q.columns = p.columns
    BY DEF SameCopy
  <1>2. Confirms(q) <=> Confirms(p)
    BY <1>1 DEF Confirms
  <1>3. 40 \in q.on => p.copy.approved
    BY DEF KeepsOK
  <1> QED BY <1>1, <1>2, <1>3 DEF KeepsOK

LEMMA KeepsIdle ==
  ASSUME NEW S
  PROVE  KeepsOK(Idle, S) /\ ~((Past(Idle) /\ Idle.n = 70) \/ 70 \in Idle.on)
  <1>1. /\ Idle.at = "idle" /\ Idle.on = {} /\ Idle.n = 10
        /\ Idle.copy = Idle.read /\ Idle.columns = "all"
    BY DEF Idle
  <1> QED BY <1>1 DEF KeepsOK, Past

\* A save that is not stale writes the approval and the answer of its copy, or
\* leaves those of the row.
LEMMA SavedMeans ==
  ASSUME IInv, NEW h \in Handlers, KeepsOK(proc[h], states), Save(proc[h])
  PROVE  /\ raced => raced'
         /\ proc[h].copy.approved => row'.approved \/ raced'
         /\ row'.going = "yes" /\ ~raced' => row.going = "yes" \/ Confirms(proc[h])
         /\ row'.going = "yes" /\ ~raced' /\ proc[h].mode = "auto" => row.going = "yes"
  <1> DEFINE p == proc[h]
  <1>0. row \in Rows /\ p \in Procs /\ p.copy \in Rows /\ p.columns \in Columns
    BY RestNow DEF Procs
  <1>1. row' = Written(p) /\ (~raced' => ~raced /\ row = p.read)
    <2>1. row' = Written(p) /\ raced' = (raced \/ row # p.read)
      BY DEF Save
    <2> QED BY <2>1, Zenon
  <1>2. raced => raced'
    BY DEF Save
  <1>k. /\ p.columns # "all" => p.copy.approved = p.read.approved
        /\ p.mode = "auto" => p.copy.going = p.read.going
    BY DEF KeepsOK
  <1>3. CASE p.columns = "all"
    <2>1. row' = WithStatus(p.copy)
      BY <1>1, <1>3 DEF Written
    <2>2. row'.approved = p.copy.approved /\ row'.going = p.copy.going
      BY <1>0, <2>1, UpdatedType DEF WithStatus, Rows
    <2>3. row'.going = "yes" /\ ~raced' => row.going = "yes" \/ Confirms(p)
      BY <1>1, <2>2 DEF Confirms
    <2>4. row'.going = "yes" /\ ~raced' /\ p.mode = "auto" => row.going = "yes"
      BY <1>1, <1>k, <2>2
    <2> QED BY <1>2, <2>2, <2>3, <2>4
  <1>4. CASE p.columns # "all"
    <2>1. row'.approved = row.approved /\ row'.going = row.going
      <3>1. CASE p.columns = "status"
        <4>1. row' = [row EXCEPT !.status = UpdatedStatus(p.copy)]
          BY <1>1, <3>1 DEF Written
        <4> QED BY <1>0, <4>1 DEF Rows
      <3>2. CASE p.columns = "submitted"
        <4>1. row' = [row EXCEPT !.submitted = p.copy.submitted]
          BY <1>1, <3>2 DEF Written
        <4> QED BY <1>0, <4>1 DEF Rows
      <3> QED BY <1>0, <1>4, <3>1, <3>2 DEF Columns
    <2>2. p.copy.approved => row'.approved \/ raced'
      BY <1>1, <1>4, <1>k, <2>1
    <2> QED BY <1>2, <2>1, <2>2
  <1> QED BY <1>3, <1>4

\* A step of a handler that leaves the row alone.
LEMMA QuietMeans ==
  ASSUME Inv, IInv', GoodStep, NEW h \in Handlers, NEW q \in Procs, Goto(h, q),
         SameCopy(q, proc[h]), q.mode = proc[h].mode, q.at # "idle",
         UNCHANGED <<row, late, raced, broken>>,
         q.on \subseteq proc[h].on \cup {proc[h].n},
         q.n = 40 => proc[h].copy.approved,
         q.at = "commit" /\ Confirms(proc[h]) => 20 \in Seen(q, states'),
         20 \in states => 20 \in states',
         (Past(q) /\ q.n = 70) \/ 70 \in q.on => proc[h].copy.approved \/ Meant,
         40 \in states' \/ 70 \in states' =>
            \/ 40 \in states \/ 70 \in states
            \/ (proc[h].mode = "auto" /\ (proc[h].copy.approved \/ Meant))
  PROVE  MeansInv'
  <1> DEFINE p == proc[h]
  <1>0. p \in Procs /\ IInv /\ StateInv /\ MeansInv /\ KeepsOK(p, states)
    BY MeansNow DEF Inv, IInv, TypeOK
  <1>1. \A k \in Handlers : proc'[k] = IF k = h THEN q ELSE proc[k]
    BY <1>0 DEF Goto, IInv, TypeOK
  <1>2. Approving(p) => Approving(proc'[h])
    <2>1. proc'[h] = q /\ q.copy = p.copy
      BY <1>1 DEF SameCopy
    <2> QED BY <2>1 DEF Approving
  <1>3. Meant => Meant'
    BY <1>0, <1>1, <1>2, MeantStays
  <1>4. KeepsOK(q, states')
    BY <1>0, KeepsSame
  <1>5. q.copy = p.copy
    BY DEF SameCopy
  <1>6. 40 \in states' \/ 70 \in states' => Meant'
    <2>1. ASSUME p.mode = "auto", p.copy.approved PROVE Meant'
      <3>1. proc'[h] = q /\ q.at # "idle" /\ q.mode = "auto" /\ q.copy.approved
        BY <1>1, <1>5, <2>1
      <3> QED BY <3>1 DEF Meant, Approving
    <2>2. 40 \in states \/ 70 \in states => Meant
      BY MeansNow
    <2> QED BY <1>3, <2>1, <2>2
  <1>7. row'.going = "yes" /\ ~raced' /\ ~late' => 20 \in states'
    BY MeansNow
  <1> QED BY <1>0, <1>3, <1>4, <1>5, <1>6, <1>7, MeansStep

\* A handler that drops what it had: it approved nothing, or all is written.
LEMMA DropMeans ==
  ASSUME Inv, IInv', GoodStep, NEW h \in Handlers, Goto(h, Idle),
         raced => raced', broken => broken',
         Approving(proc[h]) => row'.approved \/ raced' \/ broken',
         20 \in states => 20 \in states',
         40 \in states' \/ 70 \in states' =>
            40 \in states \/ 70 \in states \/ row'.approved \/ raced' \/ Meant,
         row'.going = "yes" /\ ~raced' /\ ~late' => 20 \in states'
  PROVE  MeansInv'
  <1>0. IInv /\ StateInv /\ MeansInv
    BY DEF Inv
  <1>1. \A k \in Handlers : proc'[k] = IF k = h THEN Idle ELSE proc[k]
    BY <1>0 DEF Goto, IInv, TypeOK
  <1>2. Meant => Meant'
    BY <1>0, <1>1, MeantStays
  <1>3. 40 \in states' \/ 70 \in states' => Meant'
    <2>1. row'.approved \/ raced' => Meant'
      BY DEF Meant
    <2> QED BY <1>2, <2>1, MeansNow
  <1> QED BY <1>0, <1>2, <1>3, IdleType, KeepsIdle, MeansStep

LEMMA TestMeans ==
  ASSUME Inv, IInv', GoodStep, NEW h \in Handlers, Test(h)
  PROVE  MeansInv'
  <1> DEFINE p == proc[h]
  <1>0. /\ p \in Procs /\ Before(p, states, doubled) /\ p.at = "test"
        /\ View(p) = Seen(p, states)
    BY BeforeNow DEF Test, Inv
  <1>1. UNCHANGED <<row, states, late, raced, broken>>
    BY DEF Test, history
  <1>n. p.n \in {20, 30, 40, 70}
    BY <1>0 DEF Before, PlaceOK
  <1>m. /\ KeepsOK(p, states)
        /\ 70 \in p.on => p.copy.approved \/ Meant
    BY MeansNow
  <1>2. CASE Permitted(p)
    <2> DEFINE q == [p EXCEPT !.at = "clean"]
    <2>1. Goto(h, q)
      BY <1>2 DEF Test
    <2>2. /\ q \in Procs /\ q.at = "clean" /\ q.n = p.n /\ q.mode = p.mode /\ q.on = p.on
          /\ SameCopy(q, p)
      BY <1>0 DEF Procs, SameCopy
    <2> HIDE DEF q
    <2>3. q.n = 40 => p.copy.approved
      BY <1>m, <2>2 DEF KeepsOK
    <2>4. ~Past(q)
      BY <2>2 DEF Past
    <2> QED BY <1>1, <1>m, <2>1, <2>2, <2>3, <2>4, QuietMeans
  <1>3. CASE ~Permitted(p)
    <2> DEFINE q == Further(p)
    <2>1. Goto(h, q)
      BY <1>3 DEF Test
    <2>2. /\ q \in Procs /\ q.at \in {"test", "write", "commit"} /\ q.mode = p.mode
          /\ q.on = p.on /\ q.off = p.off /\ SameCopy(q, p)
      BY <1>0, FurtherStep
    <2>3. /\ q.n = 40 => p.copy.approved
          /\ q.at = "commit" /\ Confirms(p) => p.n = 20
      BY <1>0, <1>n, FurtherWhere
    <2> HIDE DEF q
    <2>4. ~Past(q)
      BY <2>2 DEF Past
    <2>5. p.n = 20 => 20 \in Seen(p, states)
      <3>1. SUFFICES ASSUME p.n = 20, 20 \notin Seen(p, states) PROVE FALSE
        OBVIOUS
      <3>2. 20 \notin p.off /\ 10 \notin p.off
        BY <1>0 DEF Before, FirstOK
      <3>3. states = {10}
        BY <1>0, <3>1, <3>2 DEF Before, SetOK, Seen
      <3>4. 10 \in Seen(p, states)
        BY <3>2, <3>3 DEF Seen
      <3>5. Allowed(TimeSheetGraph, Seen(p, states), 20)
        BY <3>1, <3>4, GraphNodes DEF Allowed, Node, AnyOf
      <3> QED BY <1>0, <1>3, <3>1, <3>5 DEF Permitted
    <2>6. q.at = "commit" /\ Confirms(p) => 20 \in Seen(q, states')
      BY <1>1, <2>2, <2>3, <2>5 DEF Seen
    <2> QED BY <1>1, <1>m, <2>1, <2>2, <2>3, <2>4, <2>6, QuietMeans
  <1> QED BY <1>2, <1>3

LEMMA CleanMeans ==
  ASSUME Inv, IInv', GoodStep, NEW h \in Handlers, Clean(h)
  PROVE  MeansInv'
  <1> DEFINE p == proc[h]
  <1>0. /\ p \in Procs /\ Before(p, states, doubled) /\ p.at = "clean"
        /\ View(p) = Seen(p, states)
    BY BeforeNow DEF Clean, Inv
  <1>1. UNCHANGED <<row, states, late, raced>>
    BY DEF Clean
  <1>m. /\ KeepsOK(p, states)
        /\ 70 \in p.on => p.copy.approved \/ Meant
        /\ 40 \in states \/ 70 \in states => Meant
        /\ row.going = "yes" /\ ~raced /\ ~late => 20 \in states
    BY MeansNow
  <1>2. CASE Permitted(p)
    <2> DEFINE q == [p EXCEPT !.at = "clear"]
    <2>1. Goto(h, q) /\ UNCHANGED broken
      BY <1>2 DEF Clean
    <2>2. /\ q \in Procs /\ q.at = "clear" /\ q.n = p.n /\ q.mode = p.mode /\ q.on = p.on
          /\ SameCopy(q, p)
      BY <1>0 DEF Procs, SameCopy
    <2> HIDE DEF q
    <2>3. q.n = 40 => p.copy.approved
      BY <1>m, <2>2 DEF KeepsOK
    <2>4. p.n = 70 => 40 \in Seen(p, states)
      BY <1>0, <1>2, GraphNodes DEF Permitted, Allowed, Node
    <2>5. p.n = 70 => p.copy.approved \/ Meant
      BY <1>m, <2>4 DEF Seen, KeepsOK
    <2> QED BY <1>1, <1>m, <2>1, <2>2, <2>3, <2>5, QuietMeans
  <1>3. CASE ~Permitted(p)
    <2>1. Goto(h, Idle) /\ broken' = (broken \/ p.mode = "auto")
      BY <1>3 DEF Clean
    <2>2. (broken => broken') /\ (Approving(p) => broken')
      BY <2>1 DEF Approving
    <2> QED BY <1>1, <1>m, <2>1, <2>2, DropMeans
  <1> QED BY <1>2, <1>3

LEMMA MakeWayMeans ==
  ASSUME Inv, IInv', GoodStep, NEW h \in Handlers, NEW from \in {"clear", "activate"},
         NEW to \in {"activate", "insert"}, MakeWay(h, from, to)
  PROVE  MeansInv'
  <1> DEFINE p == proc[h]
  <1> DEFINE R == Seen(p, states) \ TimeSheetGraph[p.n].active
  <1> DEFINE q == Cleared(p, R, to)
  <1>i. IInv /\ StateInv
    BY DEF Inv
  <1>0. /\ p \in Procs /\ Before(p, states, doubled)
        /\ states \in SUBSET Numbers /\ doubled \in BOOLEAN /\ View(p) = Seen(p, states)
    BY <1>i, BeforeNow
  <1>1. /\ p.at = from /\ R \in SUBSET Numbers /\ Goto(h, q)
        /\ states' = IF p.mode = "auto" THEN states \ R ELSE states
        /\ UNCHANGED <<row, late, raced, broken>>
    BY <1>0, <1>i, MakeWayFacts
  <1>2. Past(p) /\ p.at # "insert"
    BY <1>1 DEF Past
  <1>3. /\ q \in Procs /\ q.mode = p.mode /\ q.n = p.n /\ q.at = to /\ SameCopy(q, p)
        /\ q.on \subseteq p.on
    BY <1>0, <1>1, ClearedStep
  <1>4. p.mode = "auto" => 20 \notin R
    <2>1. p.mode = "auto" => p.n # 20
      BY <1>0 DEF Before, PlaceOK
    <2>2. p.n # 20 => R \subseteq {40, 70}
      BY <1>0, <1>2, WayFacts
    <2> QED BY <2>1, <2>2
  <1>5. states' \subseteq states /\ (20 \in states => 20 \in states')
    BY <1>1, <1>4
  <1>m. /\ p.n = 40 => p.copy.approved
        /\ p.n = 70 \/ 70 \in p.on => p.copy.approved \/ Meant
    BY <1>2, MeansNow DEF KeepsOK
  <1> HIDE DEF q, R
  <1> QED BY <1>1, <1>3, <1>5, <1>m, QuietMeans

LEMMA InsertMeans ==
  ASSUME Inv, IInv', GoodStep, NEW h \in Handlers, Insert(h)
  PROVE  MeansInv'
  <1> DEFINE p == proc[h]
  <1> DEFINE i == Inserted(p)
  <1> DEFINE q == Further(i)
  <1>i. IInv /\ StateInv
    BY DEF Inv
  <1>0. p \in Procs /\ Before(p, states, doubled)
    BY <1>i, BeforeNow
  <1>1. /\ p.at = "insert" /\ i \in Procs /\ Goto(h, q)
        /\ states' = IF p.mode = "auto" THEN states \cup {p.n} ELSE states
        /\ UNCHANGED <<row, late, raced, broken>>
    BY <1>i, InsertFacts DEF history
  <1>2. /\ i.mode = p.mode /\ i.n = p.n /\ i.at = p.at /\ SameCopy(i, p)
        /\ p.mode = "auto" => i.on = p.on
        /\ p.mode # "auto" => i.on = p.on \cup {p.n}
    BY <1>0, InsertedStep
  <1>n. p.n \in {20, 30, 40, 70} /\ (p.n = 20 => p.mode # "auto") /\ Past(p)
    BY <1>0, <1>1 DEF Before, PlaceOK, Past
  <1> HIDE DEF i
  <1>3. /\ q \in Procs /\ q.at \in {"test", "write", "commit"} /\ q.mode = i.mode
        /\ q.on = i.on /\ SameCopy(q, i)
    BY <1>1, FurtherStep
  <1>4. /\ q.n = 40 => i.copy.approved
        /\ q.at = "commit" /\ Confirms(i) => i.n = 20
    BY <1>1, <1>2, <1>n, FurtherWhere
  <1> HIDE DEF q
  <1>5. SameCopy(q, p) /\ i.copy = p.copy /\ i.read = p.read
    BY <1>2, <1>3 DEF SameCopy
  <1>6. q.at = "commit" /\ Confirms(p) => 20 \in Seen(q, states')
    BY <1>2, <1>3, <1>4, <1>5, <1>n DEF Confirms, Seen
  <1>m. /\ p.n = 40 => p.copy.approved
        /\ p.n = 70 \/ 70 \in p.on => p.copy.approved \/ Meant
    BY <1>n, MeansNow DEF KeepsOK
  <1>7. ~Past(q)
    BY <1>3 DEF Past
  <1>8. 70 \in q.on => p.copy.approved \/ Meant
    BY <1>2, <1>3, <1>m
  <1>9. 40 \in states' \/ 70 \in states' =>
            \/ 40 \in states \/ 70 \in states
            \/ (p.mode = "auto" /\ (p.copy.approved \/ Meant))
    BY <1>1, <1>m
  <1>10. q.on \subseteq p.on \cup {p.n} /\ q.mode = p.mode /\ q.at # "idle"
         /\ (20 \in states => 20 \in states') /\ (q.n = 40 => p.copy.approved)
    BY <1>1, <1>2, <1>3, <1>4, <1>5
  <1> QED BY <1>1, <1>3, <1>5, <1>6, <1>7, <1>8, <1>9, <1>10, QuietMeans

LEMMA WriteMeans ==
  ASSUME Inv, IInv', GoodStep, NEW h \in Handlers, Write(h)
  PROVE  MeansInv'
  <1> DEFINE p == proc[h]
  <1>i. IInv /\ StateInv /\ MeansInv
    BY DEF Inv
  <1>0. p \in Procs /\ Before(p, states, doubled) /\ p.at = "write"
    BY <1>i, BeforeNow DEF Write
  <1>1. UNCHANGED <<states, late, broken>>
    BY DEF Write
  <1>m. /\ KeepsOK(p, states)
        /\ 70 \in p.on => p.copy.approved \/ Meant
        /\ 40 \in states \/ 70 \in states => Meant
        /\ row.going = "yes" /\ ~raced /\ ~late => 20 \in states
    BY MeansNow
  <1>2. CASE p.mode = "auto"
    <2>1. Save(p) /\ Goto(h, Idle)
      BY <1>2 DEF Write
    <2>2. /\ raced => raced'
          /\ p.copy.approved => row'.approved \/ raced'
          /\ row'.going = "yes" /\ ~raced' => row.going = "yes"
      BY <1>2, <1>i, <1>m, <2>1, SavedMeans
    <2>3. Approving(p) => row'.approved \/ raced'
      BY <2>2 DEF Approving
    <2> QED BY <1>1, <1>m, <2>1, <2>2, <2>3, DropMeans
  <1>3. CASE p.mode # "auto"
    <2> DEFINE m == Further(p)
    <2> DEFINE q == [m EXCEPT !.mode = "locked"]
    <2>n. p.n = 70
      BY <1>0 DEF Before, PlaceOK
    <2>1. Goto(h, q) /\ UNCHANGED <<row, raced>>
      BY <1>3 DEF Write
    <2>2. /\ m \in Procs /\ m.at \in {"test", "write", "commit"} /\ m.on = p.on
          /\ SameCopy(m, p)
      BY <1>0, FurtherStep
    <2>3. /\ m.n = 40 => p.copy.approved
          /\ m.at = "commit" /\ Confirms(p) => p.n = 20
      BY <1>0, <2>n, FurtherWhere
    <2> HIDE DEF m
    <2>4. /\ q \in Procs /\ q.at = m.at /\ q.n = m.n /\ q.on = m.on /\ q.mode = "locked"
          /\ SameCopy(q, m)
      BY <2>2 DEF Procs, SameCopy
    <2> HIDE DEF q
    <2>5. SameCopy(q, p) /\ q.copy = p.copy
      BY <2>2, <2>4 DEF SameCopy
    <2>6. KeepsOK(q, states')
      BY <1>0, <1>m, <2>2, <2>3, <2>4, <2>5, <2>n, KeepsSame
    <2>7. \A k \in Handlers : proc'[k] = IF k = h THEN q ELSE proc[k]
      BY <1>i, <2>1 DEF Goto, IInv, TypeOK
    <2>8. ~Approving(p)
      BY <1>3 DEF Approving
    <2>9. Meant => Meant'
      BY <1>1, <1>i, <2>1, <2>7, <2>8, MeantStays
    <2>10. ~Past(q)
      BY <2>2, <2>4 DEF Past
    <2> QED BY <1>1, <1>i, <1>m, <2>1, <2>2, <2>4, <2>5, <2>6, <2>9, <2>10, MeansStep
  <1> QED BY <1>2, <1>3

LEMMA CommitMeans ==
  ASSUME Inv, IInv', GoodStep, NEW h \in Handlers, Commit(h)
  PROVE  MeansInv'
  <1> DEFINE p == proc[h]
  <1>i. IInv /\ StateInv /\ MeansInv
    BY DEF Inv
  <1>0. /\ p \in Procs /\ Before(p, states, doubled) /\ p.at = "commit" /\ p.mode = "locked"
        /\ View(p) = Seen(p, states)
    <2>1. p.at = "commit"
      BY DEF Commit
    <2> QED BY <1>i, <2>1, BeforeNow DEF Before, PlaceOK
  <1>1. /\ Save(p) /\ states' = Seen(p, states) /\ Goto(h, Idle)
        /\ UNCHANGED <<late, broken>>
    BY <1>0 DEF Commit
  <1>m. /\ KeepsOK(p, states)
        /\ 70 \in p.on => p.copy.approved \/ Meant
        /\ row.going = "yes" /\ ~raced /\ ~late => 20 \in states
    BY MeansNow
  <1>2. /\ raced => raced'
        /\ p.copy.approved => row'.approved \/ raced'
        /\ row'.going = "yes" /\ ~raced' => row.going = "yes" \/ Confirms(p)
    BY <1>1, <1>i, <1>m, SavedMeans
  <1>3. 20 \in states => 20 \in states'
    BY <1>0, <1>1 DEF Before, FirstOK, Seen
  <1>4. Confirms(p) => 20 \in states'
    BY <1>0, <1>1, <1>m DEF KeepsOK
  <1>5. row'.going = "yes" /\ ~raced' /\ ~late' => 20 \in states'
    BY <1>1, <1>2, <1>3, <1>4, <1>m
  <1>6. 40 \in states' \/ 70 \in states' =>
            40 \in states \/ 70 \in states \/ row'.approved \/ raced' \/ Meant
    BY <1>1, <1>2, <1>m DEF Seen, KeepsOK
  <1>7. ~Approving(p)
    BY <1>0 DEF Approving
  <1> QED BY <1>1, <1>2, <1>3, <1>5, <1>6, <1>7, DropMeans

LEMMA ReadMeans ==
  ASSUME Inv, IInv', GoodStep, NEW h \in Handlers, NEW c \in Rows,
         NEW mode \in {"auto", "tx", "locked"}, NEW columns \in Columns,
         Read(h, mode, c, columns), mode = "auto" => c.going = row.going,
         columns # "all" => c.approved = row.approved
  PROVE  MeansInv'
  <1> DEFINE q == Reading(mode, c, columns)
  <1>i. IInv /\ StateInv /\ MeansInv
    BY DEF Inv
  <1>1. /\ q \in Procs /\ q.mode = mode /\ q.at = "test" /\ q.n = First(c)
        /\ q.on = {} /\ q.copy = c /\ q.read = row /\ q.columns = columns
    BY <1>i, RestNow, ReadingStep
  <1>2. Goto(h, q) /\ proc[h].at = "idle" /\ UNCHANGED <<row, states, late, raced, broken>>
    BY DEF Read, Reading, history
  <1> HIDE DEF q
  <1>3. First(c) = 40 => c.approved
    BY DEF First
  <1>4. KeepsOK(q, states')
    BY <1>1, <1>3 DEF KeepsOK
  <1>5. ~Past(q) /\ ~Approving(proc[h])
    BY <1>1, <1>2 DEF Past, Approving
  <1>6. \A k \in Handlers : proc'[k] = IF k = h THEN q ELSE proc[k]
    BY <1>i, <1>2 DEF Goto, IInv, TypeOK
  <1>7. Meant => Meant'
    BY <1>i, <1>2, <1>5, <1>6, MeantStays
  <1>8. /\ 40 \in states \/ 70 \in states => Meant
        /\ row.going = "yes" /\ ~raced /\ ~late => 20 \in states
    BY MeansNow
  <1> QED BY <1>1, <1>2, <1>4, <1>5, <1>7, <1>8, <1>i, MeansStep

\* Where no handler moves and the answer stays.
LEMMA SameMeans ==
  ASSUME Inv, GoodStep, UNCHANGED <<proc, states, late, raced, broken>>,
         row'.going = row.going
  PROVE  MeansInv'
  <1>1. Meant => Meant'
    BY DEF GoodStep, Meant, Approving
  <1>2. ASSUME NEW k \in Handlers
        PROVE  KeepsOK(proc'[k], states') /\ ReadyOK(proc[k])'
    <2>1. KeepsOK(proc[k], states) /\ ReadyOK(proc[k])
      BY DEF Inv, MeansInv
    <2> QED BY <1>1, <2>1 DEF ReadyOK, Past
  <1>3. /\ 40 \in states \/ 70 \in states => Meant
        /\ row.going = "yes" /\ ~raced /\ ~late => 20 \in states
    BY DEF Inv, MeansInv
  <1>4. \A k \in Handlers : KeepsOK(proc'[k], states') /\ ReadyOK(proc[k])'
    BY <1>2
  <1> QED BY <1>1, <1>3, <1>4 DEF MeansInv

LEMMA NextMeans ==
  ASSUME Inv, [Next]_vars
  PROVE  Inv'
  <1>i. IInv /\ StateInv /\ MeansInv
    BY DEF Inv
  <1>g. GoodStep /\ IInv' /\ StateInv'
    BY <1>i, NextGood, NextStates DEF GoodStep
  <1> SUFFICES MeansInv'
    BY <1>g DEF Inv
  <1>1. ASSUME NEW h \in Handlers, Step(h) PROVE MeansInv'
    <2>1. CASE Test(h) \/ Clean(h) \/ Insert(h) \/ Write(h) \/ Commit(h)
      BY <1>g, <2>1, TestMeans, CleanMeans, InsertMeans, WriteMeans, CommitMeans
    <2>2. CASE Clear(h) \/ Activate(h)
      BY <1>g, <2>2, MakeWayMeans DEF Clear, Activate
    <2> QED BY <1>1, <2>1, <2>2 DEF Step
  <1>2. ASSUME NEW h \in Handlers,
               \/ \E going \in {"yes", "no"} : Answer(h, going) \/ Reply(h, going)
               \/ Submit(h) \/ Approve(h) \/ ApproveManually(h) \/ NotAgree(h) \/ Show(h)
               \/ Decline(h) \/ AutoConfirm(h)
        PROVE  MeansInv'
    <2>1. CASE UNCHANGED <<proc, row, states, history>>
      BY <1>g, <2>1, SameMeans DEF history
    <2>2. CASE ~UNCHANGED <<proc, row, states, history>>
      <3>1. PICK mode \in {"auto", "tx", "locked"}, c \in Rows, columns \in Columns :
              /\ Read(h, mode, c, columns)
              /\ mode = "auto" => c.going = row.going
              /\ columns # "all" => c.approved = row.approved
        BY <1>i, <1>2, <2>2, Begins
      <3> QED BY <1>g, <3>1, ReadMeans
    <2> QED BY <2>1, <2>2
  <1>3. ASSUME NEW h \in Handlers, Kill(h) PROVE MeansInv'
    <2>1. Goto(h, Idle) /\ broken' /\ UNCHANGED <<row, states, late, raced>>
      BY <1>3 DEF Kill
    <2>2. /\ 40 \in states \/ 70 \in states => Meant
          /\ row.going = "yes" /\ ~raced /\ ~late => 20 \in states
      BY <1>i DEF MeansInv
    <2> QED BY <1>g, <2>1, <2>2, DropMeans
  <1>4. CASE AutoApprove
    <2>1. row'.going = row.going
      <3>1. row \in Rows
        BY <1>i, RestNow
      <3>2. row' = row \/ row' = [row EXCEPT !.status = "approved", !.approved = TRUE]
        BY <1>4 DEF AutoApprove
      <3> QED BY <3>1, <3>2 DEF Rows
    <2> QED BY <1>4, <1>g, <2>1, SameMeans DEF AutoApprove, history
  <1>5. CASE Tick \/ UNCHANGED vars
    BY <1>5, <1>g, SameMeans DEF Tick, vars, history
  <1> QED BY <1>1, <1>2, <1>3, <1>4, <1>5 DEF Next

\* A new sheet is not approved, and has its state if it is confirmed, in time.
LEMMA InitMeans == Init => MeansInv
  <1> SUFFICES ASSUME Init PROVE MeansInv
    OBVIOUS
  <1>1. PICK going \in {"unknown", "yes"} :
          /\ row = WithStatus([NewRow EXCEPT !.going = going])
          /\ states = {10} \/ states = {20}
          /\ going = "yes" => late \/ states = {20}
    BY InitFacts
  <1>2. [NewRow EXCEPT !.going = going] \in Rows
    BY DEF NewRow, Rows, Statuses
  <1>3. row.going = going
    BY <1>1, <1>2 DEF WithStatus, NewRow
  <1>4. \A h \in Handlers : proc[h] = Idle
    BY DEF Init
  <1>5. \A h \in Handlers : KeepsOK(proc[h], states) /\ ReadyOK(proc[h])
    BY <1>4, KeepsIdle DEF ReadyOK
  <1> QED BY <1>1, <1>3, <1>5 DEF MeansInv

LEMMA MeansInvariant == Spec => []Inv
  <1>1. Inv /\ [Next]_vars => Inv'
    BY NextMeans
  <1>2. Init => Inv
    BY InitGood, InitStates, InitMeans DEF Inv
  <1> QED BY <1>1, <1>2, PTL DEF Spec

-----------------------------------------------------------------------------
(* Theorems *)

\* The row, the states, the timers and the handlers keep their types, for any
\* handlers and bounds.
THEOREM TypeCorrect == Spec => []TypeOK
  <1>1. IInv => TypeOK
    BY DEF IInv
  <1> QED BY <1>1, Invariant, PTL

\* The states of a sheet come in the order of the graph, although every handler
\* asks, makes way and inserts in statements of its own; only a state that was
\* created twice can take away the approval that a sheet ready to sync needs.
THEOREM StatesFollowGraph == Spec => []StatesInOrder
  <1>1. IInv /\ StateInv => StatesInOrder
    <2> SUFFICES ASSUME IInv, StateInv PROVE StatesInOrder
      OBVIOUS
    <2>1. SetOK(states, doubled)
      BY DEF StateInv
    <2>2. 30 \in states \/ 40 \in states \/ 70 \in states => 20 \in states
      BY <2>1 DEF SetOK
    <2> QED BY <2>1, <2>2 DEF StatesInOrder, SetOK
  <1> QED BY <1>1, StateInvariant, PTL

\* The status column and the approval agree as long as no stale copy is saved.
THEOREM StatusAgrees == Spec => []StatusOfRow
  <1>1. IInv => StatusOfRow
    BY DEF IInv
  <1> QED BY <1>1, Invariant, PTL

\* No handler and no task takes an approval back, but the supervisor's correction
\* and a stale copy.
THEOREM ApprovalIsKept == Spec => ApprovalStands
  <1>1. IInv /\ [Next]_vars => [row.approved /\ ~row'.approved => row'.modified \/ raced']_vars
    BY NextGood DEF GoodStep
  <1> QED BY <1>1, Invariant, PTL DEF Spec, ApprovalStands

\* A sheet that is ready to sync is approved or was corrected, whatever handlers
\* overlap between the statements that create its states, unless a stale copy was
\* saved or a handler stopped half way.
THEOREM ReadyApproved == Spec => []ReadyWasApproved
  <1>1. Inv => ReadyWasApproved
    <2> SUFFICES ASSUME Inv, 70 \in states, Quiet, ~raced, ~broken
                 PROVE  row.approved \/ row.modified
      BY DEF ReadyWasApproved
    <2>1. Meant
      BY DEF Inv, MeansInv
    <2>2. \A h \in Handlers : ~Approving(proc[h])
      BY DEF Quiet, Approving
    <2> QED BY <2>1, <2>2 DEF Meant
  <1> QED BY <1>1, MeansInvariant, PTL

\* A sheet that the candidate has confirmed has the state that says so, unless it
\* was created late or a stale copy was saved: the transaction that writes the
\* answer commits the state with it.
THEOREM ConfirmationRecorded == Spec => []ConfirmedIsRecorded
  <1>1. Inv => ConfirmedIsRecorded
    BY DEF Inv, MeansInv, ConfirmedIsRecorded
  <1> QED BY <1>1, MeansInvariant, PTL
=============================================================================
