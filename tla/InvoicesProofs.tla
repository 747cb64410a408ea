--------------------------- MODULE InvoicesProofs ---------------------------
(***************************************************************************)
(* Proofs about Invoices, for any sheets, days and groups, any invoices,   *)
(* workers and rules: type correctness, that a sheet is billed once, and   *)
(* on request, that numbers are unique, that totals are those of the       *)
(* lines, that approved invoices keep their lines, and that what is shown  *)
(* as being sent or sent is.                                               *)
(***************************************************************************)
EXTENDS Invoices, FiniteSetTheorems, TLAPS

-----------------------------------------------------------------------------
(* The inductive invariant *)

\* A row that is not there has no lines and no document.
RowsOK ==
  \A i \in Invoices : row[i].state = "none" =>
    lines[i] = Empty /\ remote[i].copies = 0

\* What a worker works on at each step.
PlaceOK(w) ==
  LET j == job[w] IN
  /\ j.at \in {"old", "delete", "total"} \cup Syncing \cup Requests => j.on \in Invoices
  /\ j.at \in {"idle", "number", "rule", "insert"} => j.on = NoInvoice
  /\ j.given => j.at \in Generating \ {"number", "rule", "insert"} /\ j.on \in Invoices
  /\ j.at = "select" /\ ~j.given => j.on = NoInvoice
TypeInv ==
  /\ TypeOK /\ ready \cap gone = {}
  /\ \A w \in Workers : PlaceOK(w)

\* Whoever works on an invoice that is not mixed is alone.
Alone ==
  \A i \in Invoices \ mixed : \A v, w \in Busy(i) : v = w

\* The copy of a request is that of the row, but for its payment; a request that
\* deletes it found it not approved.
RequestOK(w) ==
  LET j == job[w] IN
  j.at \in Requests =>
    /\ j.copy.state = "live" /\ j.copy.number = row[j.on].number
    /\ j.on \notin mixed =>
         /\ Live(j.on) /\ j.copy.sync = row[j.on].sync
         /\ j.at = "destroy" => ~row[j.on].approved

\* A generation works on no invoice that it must leave alone.
UpdateOK(w) ==
  LET j == job[w] IN
  j.at \in Generating /\ j.on \in Invoices \ mixed =>
    /\ ~row[j.on].approved
    /\ row[j.on].sync \notin {"sync_scheduled", "syncing", "synced"}

WorkInv ==
  /\ RowsOK /\ Alone
  /\ \A w \in Workers :
       /\ job[w].on \in Invoices => row[job[w].on].state # "none"
       /\ RequestOK(w) /\ UpdateOK(w)

\* A total that is not that of the lines is about to be saved; that of an invoice
\* that lost the line of a deleted sheet may be too high.
Fair(i, n) == n >= Count(i) /\ (i \notin cut => n = Count(i))
TotalInv ==
  \A i \in Invoices : Live(i) /\ i \notin broken \cup mixed =>
    \/ Fair(i, row[i].total)
    \/ \E w \in Busy(i) : job[w].at \in {"delete", "total"}

\* An invoice that is being sent has a task that is amid sending it.
SyncInv ==
  \A i \in Invoices :
    Live(i) /\ row[i].sync \in {"sync_scheduled", "syncing"} /\ i \notin mixed \cup broken
      => \E w \in Busy(i) : job[w].at \in Syncing \ {"schedule"}

\* One generation at a time: the numbers that it counts up are new, and the
\* sheets that it read as not billed still are not.
NumberOK(w) ==
  LET j == job[w] IN
  /\ j.at = "rule" => j.num = counter
  /\ j.at = "insert" =>
       counter = j.num + 1 /\ \A i \in Invoices : row[i].state # "none" => row[i].number < j.num
NumberInv ==
  ~overlap =>
    /\ \A v, w \in Workers : job[v].at \in Generating /\ job[w].at \in Generating => v = w
    /\ \A w \in Workers : NumberOK(w)
    /\ \A i \in Invoices : row[i].state # "none" => row[i].number < counter
    /\ NumbersUnique

BilledInv ==
  ~overlap =>
    /\ \A w \in Workers : job[w].at \in {"number", "rule", "insert", "old", "delete"} =>
         \A s \in job[w].todo : ~Billed(s)
    /\ \A s \in Sheets, i, k \in Invoices :
         lines[i][s] > 0 /\ lines[k][s] > 0 => i = k /\ lines[i][s] = 1

Writing == {"number", "rule", "insert", "old", "delete"}

\* The sheet that a generation was queued for is in a group still to do, is about
\* to be billed or is billed.  A given invoice gets one group, whose sheets are
\* read before the old lines are deleted; a new one has no old lines.
ToBill(w) ==
  LET j == job[w]
      s == j.for
  IN
  /\ j.at \in Generating /\ s \notin {NoSheet} \cup gone /\ ~Missed(s, j.to)
  /\ rule.separation = "one_invoice" \/ ~j.given
  => /\ s \in ready /\ Day[s] < j.to
     /\ s \in UNION j.groups \/ (j.at \in Writing /\ s \in j.todo) \/ Billed(s)
     /\ j.given =>
          /\ j.groups = {} \/ (j.at = "select" /\ j.groups = {Sheets} /\ ~Billed(s))
          /\ j.at \in Writing => s \in j.todo
     /\ ~j.given =>
          /\ j.at = "old" => lines[j.on] = Empty
          /\ j.at = "delete" => j.old = Empty
RecreateInv == ~overlap /\ Intact => \A w \in Workers : ToBill(w)

\* What a task that sends an invoice has seen of the accounting service holds.
Sent(i) == remote[i].copies = 1 /\ Fair(i, remote[i].lines)
SendOK(w) ==
  LET j == job[w] IN
  /\ j.at \in {"schedule", "get"} => j.seen.copies = 0
  /\ ~overlap /\ j.on \in Invoices \ mixed =>
       /\ j.at \in {"mark", "compare"} =>
            /\ j.seen.copies = remote[j.on].copies
            /\ j.seen.copies = 1 => j.seen.lines = remote[j.on].lines
       /\ j.at = "post" => remote[j.on].copies = 0
       /\ j.at = "put" => remote[j.on].copies = 1
       /\ j.at = "done" /\ j.on \notin skipped => Sent(j.on)
SentInv ==
  /\ \A w \in Workers : SendOK(w)
  /\ SyncedIsSent

-----------------------------------------------------------------------------
(* Sums and bounds over finite sets *)

\* What holds of a finite set when it holds of its proper subsets holds of all.
LEMMA Subsets ==
  ASSUME NEW S, IsFiniteSet(S), NEW F,
         \A T \in SUBSET S : (\A U \in SUBSET T : U # T => U \in F) => T \in F
  PROVE  \A T \in SUBSET S : T \in F
<1> DEFINE B == {T \in SUBSET S : T \notin F}
<1>1. B \subseteq FiniteSubsetsOf(S)
  BY FS_Subset DEF FiniteSubsetsOf
<1>2. SUFFICES ASSUME B # {} PROVE FALSE
  OBVIOUS
<1>3. IsWellFoundedOn(StrictSubsetOrdering(S), FiniteSubsetsOf(S))
  BY FS_StrictSubsetOrderingWellFounded
<1> HIDE DEF B
<1>4. PICK T \in B : \A U \in B : <<U, T>> \notin StrictSubsetOrdering(S)
  BY <1>1, <1>2, <1>3, WFMin
<1>5. T \in SUBSET S /\ T \notin F
  BY DEF B
<1>6. \A U \in SUBSET T : U # T => U \in F
  BY <1>4, <1>5 DEF B, StrictSubsetOrdering
<1> QED BY <1>5, <1>6

\* SumFunctionOnSet is the value at the whole set of a recursive function.
Pick(s) == CHOOSE x \in s : TRUE
Part(f, g, s) == IF s = {} THEN 0 ELSE f[Pick(s)] + g[s \ {Pick(s)}]
Sums(f, S) == CHOOSE g : g = [s \in SUBSET S |-> Part(f, g, s)]

\* The sum of the library is the one that Sums defines.
LEMMA SumIsRecursive ==
  ASSUME NEW f, NEW S
  PROVE  SumFunctionOnSet(f, S) = Sums(f, S)[S]
BY DEF SumFunctionOnSet, FoldFunctionOnSet, MapThenFoldSet, Sums, Part, Pick

\* That function exists: it is defined on the subsets of each size in turn.
LEMMA SumsExist ==
  ASSUME NEW f, NEW S, IsFiniteSet(S)
  PROVE  \A T \in SUBSET S : Sums(f, S)[T] = Part(f, Sums(f, S), T)
<1> DEFINE Up(n) == {s \in SUBSET S : Cardinality(s) <= n}
           Fits(g, n) == g = [s \in Up(n) |-> Part(f, g, s)]
           F == {T \in SUBSET S : \E g : Fits(g, Cardinality(T))}
<1>0. \A T \in SUBSET S : IsFiniteSet(T) /\ Cardinality(T) \in Nat
  BY FS_Subset, FS_CardinalityType
<1>1. ASSUME NEW T \in SUBSET S, \A U \in SUBSET T : U # T => U \in F
      PROVE  T \in F
  <2>1. CASE T = {}
    <3> DEFINE g == [s \in Up(0) |-> 0]
    <3>1. Cardinality(T) = 0 /\ \A s \in Up(0) : s = {}
      BY <1>0, <2>1, FS_EmptySet
    <3>2. \A s \in Up(0) : Part(f, g, s) = 0
      BY <3>1 DEF Part
    <3>3. Fits(g, 0)
      BY <3>2
    <3> HIDE DEF g, Fits
    <3> QED BY <3>1, <3>3
  <2>2. CASE T # {}
    <3> DEFINE U == T \ {Pick(T)}
    <3>1. Pick(T) \in T
      BY <2>2 DEF Pick
    <3>2. U \in F /\ Cardinality(T) = Cardinality(U) + 1
      <4>1. U \in F
        <5> HIDE DEF F
        <5> QED BY <1>1, <3>1
      <4>2. Cardinality(U) = Cardinality(T) - 1
        BY <1>0, <3>1, FS_RemoveElement
      <4>3. Cardinality(T) \in Nat
        BY <1>0
      <4> HIDE DEF F, U
      <4> QED BY <4>1, <4>2, <4>3
    <3>3. PICK h : Fits(h, Cardinality(U))
      BY <3>2
    <3> DEFINE g == [s \in Up(Cardinality(T)) |-> Part(f, h, s)]
    <3>4. ASSUME NEW s \in Up(Cardinality(T))
          PROVE  Part(f, g, s) = Part(f, h, s)
      <4>1. CASE s = {}
        BY <4>1 DEF Part
      <4>2. CASE s # {}
        <5> DEFINE r == s \ {Pick(s)}
        <5>1. Pick(s) \in s
          BY <4>2 DEF Pick
        <5>2. Cardinality(r) + 1 = Cardinality(s)
          BY <1>0, <5>1, FS_RemoveElement
        <5>3. Cardinality(r) <= Cardinality(U) /\ Cardinality(r) <= Cardinality(T)
          BY <1>0, <3>2, <5>2
        <5>4. r \in Up(Cardinality(U)) /\ r \in Up(Cardinality(T))
          BY <5>3
        <5>5. g[r] = h[r]
          BY <3>3, <5>4
        <5> QED BY <5>5 DEF Part
      <4> QED BY <4>1, <4>2
    <3>5. Fits(g, Cardinality(T))
      BY <3>4
    <3> HIDE DEF g, Fits
    <3> QED BY <3>5
  <2> QED BY <2>1, <2>2
<1>2. S \in F
  <2> HIDE DEF F
  <2> QED BY <1>1, Subsets
<1>3. PICK g : Fits(g, Cardinality(S))
  BY <1>2
<1>4. Up(Cardinality(S)) = SUBSET S
  BY <1>0, FS_Subset
<1>5. g = [s \in SUBSET S |-> Part(f, g, s)]
  BY <1>3, <1>4
<1> DEFINE h == Sums(f, S)
<1>6. h = [s \in SUBSET S |-> Part(f, h, s)]
  BY <1>5 DEF Sums
<1> HIDE DEF h
<1>7. \A T \in SUBSET S : h[T] = Part(f, h, T)
  BY <1>6
<1> QED BY <1>7 DEF h

\* The sum of an empty set, and of one with elements.
LEMMA SumsAt ==
  ASSUME NEW f, NEW S, IsFiniteSet(S), NEW T \in SUBSET S
  PROVE  /\ T = {} => Sums(f, S)[T] = 0
         /\ T # {} => \E x \in T : Sums(f, S)[T] = f[x] + Sums(f, S)[T \ {x}]
<1>1. Sums(f, S)[T] = Part(f, Sums(f, S), T)
  BY SumsExist
<1>2. T # {} => Pick(T) \in T
  BY DEF Pick
<1> QED BY <1>1, <1>2 DEF Part

\* A sum of natural numbers is one.
LEMMA SumNat ==
  ASSUME NEW S, IsFiniteSet(S), NEW f, \A x \in S : f[x] \in Nat
  PROVE  SumFunctionOnSet(f, S) \in Nat
<1> DEFINE F == {T \in SUBSET S : Sums(f, S)[T] \in Nat}
<1>1. ASSUME NEW T \in SUBSET S, \A U \in SUBSET T : U # T => U \in F
      PROVE  T \in F
  <2>1. CASE T = {}
    BY <2>1, SumsAt
  <2>2. CASE T # {}
    <3>1. PICK x \in T : Sums(f, S)[T] = f[x] + Sums(f, S)[T \ {x}]
      BY <2>2, SumsAt
    <3>2. Sums(f, S)[T \ {x}] \in Nat
      BY <1>1
    <3> QED BY <3>1, <3>2
  <2> QED BY <2>1, <2>2
<1>2. S \in F
  <2> HIDE DEF F
  <2> QED BY <1>1, Subsets
<1> QED BY <1>2, SumIsRecursive

\* A sum of lesser parts is no greater.
LEMMA SumLess ==
  ASSUME NEW S, IsFiniteSet(S), NEW f, NEW g,
         \A x \in S : f[x] \in Nat /\ g[x] \in Nat /\ f[x] <= g[x]
  PROVE  SumFunctionOnSet(f, S) <= SumFunctionOnSet(g, S)
<1> DEFINE a == Sums(f, S)
           b == Sums(g, S)
           F == {T \in SUBSET S : a[T] \in Nat /\ b[T] \in Nat /\ a[T] <= b[T]}
<1>0. \A T \in SUBSET S : a[T] = Part(f, a, T) /\ b[T] = Part(g, b, T)
  BY SumsExist
<1> HIDE DEF a, b
<1>1. ASSUME NEW T \in SUBSET S, \A U \in SUBSET T : U # T => U \in F
      PROVE  T \in F
  <2>1. CASE T = {}
    <3>1. a[T] = 0 /\ b[T] = 0
      BY <1>0, <2>1 DEF Part
    <3> QED BY <3>1
  <2>2. CASE T # {}
    <3> DEFINE x == Pick(T)
    <3>1. x \in T
      BY <2>2 DEF Pick
    <3>2. a[T] = f[x] + a[T \ {x}] /\ b[T] = g[x] + b[T \ {x}]
      BY <1>0, <2>2 DEF Part
    <3> HIDE DEF x
    <3>3. a[T \ {x}] \in Nat /\ b[T \ {x}] \in Nat /\ a[T \ {x}] <= b[T \ {x}]
      BY <1>1, <3>1
    <3>4. f[x] \in Nat /\ g[x] \in Nat /\ f[x] <= g[x]
      BY <3>1
    <3> QED BY <3>2, <3>3, <3>4
  <2> QED BY <2>1, <2>2
<1>2. S \in F
  <2> HIDE DEF F
  <2> QED BY <1>1, Subsets
<1> QED BY <1>2, SumIsRecursive DEF a, b

\* A sum with no more than one part, of no more than one.
LEMMA SumOne ==
  ASSUME NEW S, IsFiniteSet(S), NEW f, \A x \in S : f[x] \in {0, 1},
         \A x, y \in S : f[x] = 1 /\ f[y] = 1 => x = y
  PROVE  /\ SumFunctionOnSet(f, S) <= 1
         /\ (\A x \in S : f[x] = 0) => SumFunctionOnSet(f, S) = 0
<1> DEFINE Good(T) == IF \A x \in T : f[x] = 0 THEN Sums(f, S)[T] = 0 ELSE Sums(f, S)[T] = 1
           F == {T \in SUBSET S : Good(T)}
<1>1. ASSUME NEW T \in SUBSET S, \A U \in SUBSET T : U # T => U \in F
      PROVE  T \in F
  <2>1. CASE T = {}
    BY <2>1, SumsAt
  <2>2. CASE T # {}
    <3>1. PICK x \in T : Sums(f, S)[T] = f[x] + Sums(f, S)[T \ {x}]
      BY <2>2, SumsAt
    <3>2. Good(T \ {x})
      BY <1>1
    <3>3. f[x] = 1 => \A y \in T \ {x} : f[y] = 0
      OBVIOUS
    <3> QED BY <3>1, <3>2, <3>3
  <2> QED BY <2>1, <2>2
<1>2. S \in F
  <2> HIDE DEF F
  <2> QED BY <1>1, Subsets
<1> QED BY <1>2, SumIsRecursive

\* A sum of one part.
LEMMA SumSingle ==
  ASSUME NEW f, NEW x, f[x] \in Nat
  PROVE  SumFunctionOnSet(f, {x}) = f[x] /\ SumFunctionOnSet(f, {}) = 0
<1>1. IsFiniteSet({x}) /\ IsFiniteSet({})
  BY FS_Singleton, FS_EmptySet
<1>2. Sums(f, {x})[{}] = 0 /\ Sums(f, {})[{}] = 0
  BY <1>1, SumsAt
<1>3. Sums(f, {x})[{x}] = f[x] + Sums(f, {x})[{}]
  <2>1. \E y \in {x} : Sums(f, {x})[{x}] = f[y] + Sums(f, {x})[{x} \ {y}]
    BY <1>1, SumsAt
  <2>2. {x} \ {x} = {}
    OBVIOUS
  <2> QED BY <2>1, <2>2
<1> QED BY <1>2, <1>3, SumIsRecursive

\* A set of natural numbers with an element has a least one.
LEMMA MinNat ==
  ASSUME NEW S \in SUBSET Nat, S # {}
  PROVE  Min(S) \in S
<1>1. IsWellFoundedOn(OpToRel(<, Nat), Nat)
  BY NatLessThanWellFounded
<1> DEFINE R == OpToRel(<, Nat)
<1>2. R = {p \in Nat \X Nat : p[1] < p[2]}
  BY DEF OpToRel
<1>3. IsWellFoundedOn(R, Nat)
  BY <1>1
<1> HIDE DEF R
<1>4. PICK x \in S : \A y \in S : <<y, x>> \notin R
  BY <1>3, WFMin
<1>5. ASSUME NEW y \in S PROVE x =< y
  <2>1. x \in Nat /\ y \in Nat
    OBVIOUS
  <2>2. <<y, x>> \in Nat \X Nat /\ <<y, x>>[1] = y /\ <<y, x>>[2] = x
    BY <2>1
  <2>3. ~(y < x)
    BY <1>2, <1>4, <2>2
  <2> QED BY <2>1, <2>3
<1> QED BY <1>4, <1>5 DEF Min

\* The largest of finitely many natural numbers, or 0.
LEMMA MaxNat ==
  ASSUME NEW S, IsFiniteSet(S), NEW g, \A i \in S : g[i] \in Nat
  PROVE  Max({0} \cup {g[i] : i \in S}) \in Nat
<1> DEFINE V(T) == {0} \cup {g[i] : i \in T}
           F == {T \in SUBSET S : \E m \in V(T) : \A y \in V(T) : m >= y}
<1>1. ASSUME NEW T \in SUBSET S, \A U \in SUBSET T : U # T => U \in F
      PROVE  T \in F
  <2>1. CASE T = {}
    <3>1. V(T) = {0}
      BY <2>1
    <3> HIDE DEF V
    <3> QED BY <3>1
  <2>2. CASE T # {}
    <3>1. PICK x \in T : TRUE
      BY <2>2
    <3>2. PICK m \in V(T \ {x}) : \A y \in V(T \ {x}) : m >= y
      BY <1>1
    <3>3. V(T) = V(T \ {x}) \cup {g[x]}
      OBVIOUS
    <3>4. m \in Nat /\ g[x] \in Nat /\ V(T) \subseteq Nat
      BY <3>1, <3>2
    <3> HIDE DEF V
    <3>5. CASE g[x] >= m
      <4>1. \A y \in V(T) : g[x] >= y
        BY <3>2, <3>3, <3>4, <3>5
      <4> QED BY <3>3, <4>1
    <3>6. CASE m > g[x]
      <4>1. \A y \in V(T) : m >= y
        BY <3>2, <3>3, <3>4, <3>6
      <4> QED BY <3>2, <3>3, <4>1
    <3> QED BY <3>4, <3>5, <3>6
  <2> QED BY <2>1, <2>2
<1>2. S \in F
  <2> HIDE DEF F
  <2> QED BY <1>1, Subsets
<1>3. Max(V(S)) \in V(S)
  <2>1. \E m \in V(S) : \A y \in V(S) : m >= y
    BY <1>2
  <2> HIDE DEF V
  <2> QED BY <2>1 DEF Max
<1> QED BY <1>3

-----------------------------------------------------------------------------
(* What the actions do, field by field *)

\* Only worker w takes a step.
Only(w) == job' \in [Workers -> Jobs] /\ \A v \in Workers \ {w} : job'[v] = job[v]

\* It goes on with the same task: up to the same day, for the same sheet.
Goes(w) == job'[w].to = job[w].to /\ job'[w].for = job[w].for

\* And with the same groups still to do.
Keeps(w) == Goes(w) /\ job'[w].groups = job[w].groups

\* The fields of a worker.
LEMMA JobFields ==
  ASSUME NEW j \in Jobs
  PROVE  /\ j.at \in {"idle"} \cup Generating \cup Syncing \cup Requests
         /\ j.on \in Invoices \cup {NoInvoice} /\ j.given \in BOOLEAN /\ j.to \in Int
         /\ j.groups \subseteq SUBSET Sheets /\ j.todo \subseteq Sheets /\ j.old \in Bags
         /\ j.num \in Nat /\ j.seen \in [copies : Nat, lines : Nat]
         /\ j.seen.copies \in Nat /\ j.seen.lines \in Nat
         /\ j.copy \in Rows /\ j.for \in Sheets \cup {NoSheet}
<1>1. /\ j.at \in {"idle"} \cup Generating \cup Syncing \cup Requests
      /\ j.on \in Invoices \cup {NoInvoice} /\ j.given \in BOOLEAN /\ j.to \in Int
  BY DEF Jobs
<1>2. j.groups \subseteq SUBSET Sheets /\ j.todo \subseteq Sheets /\ j.old \in Bags
  BY DEF Jobs
<1>3. j.num \in Nat /\ j.copy \in Rows /\ j.for \in Sheets \cup {NoSheet}
  BY DEF Jobs
<1>4. j.seen \in [copies : Nat, lines : Nat]
  BY DEF Jobs
<1> QED BY <1>1, <1>2, <1>3, <1>4

\* The fields of a row.
LEMMA RowFields ==
  ASSUME NEW r \in Rows
  PROVE  /\ r.state \in {"none", "live", "deleted"} /\ r.number \in Nat /\ r.date \in Nat
         /\ r.approved \in BOOLEAN /\ r.sync \in SyncStates /\ r.paid \in BOOLEAN
         /\ r.total \in Nat
BY DEF Rows

\* A worker that does nothing.
LEMMA IdleType ==
  /\ Idle \in Jobs /\ NoRow \in Rows /\ Empty \in Bags
  /\ Idle.at = "idle" /\ Idle.on = NoInvoice /\ Idle.given = FALSE /\ Idle.todo = {}
  /\ Idle.num = 0 /\ Idle.seen.copies = 0 /\ Idle.old = Empty
  /\ Idle.seen = [copies |-> 0, lines |-> 0]
<1>1. Empty \in Bags
  BY DEF Empty, Bags
<1>2. NoRow \in Rows
  BY DEF NoRow, Rows, SyncStates
<1>3. Idle \in Jobs
  BY <1>1, <1>2 DEF Idle, Jobs
<1> QED BY <1>1, <1>2, <1>3 DEF Idle

\* A worker's step goes where it is told to.
LEMMA Step ==
  ASSUME NEW w \in Workers, job \in [Workers -> Jobs], NEW j \in Jobs, Goto(w, j)
  PROVE  Only(w) /\ job'[w] = j
BY DEF Goto, Only

\* A worker that changes its step keeps all else.
LEMMA AtFacts ==
  ASSUME NEW w \in Workers, job \in [Workers -> Jobs],
         NEW s \in {"idle"} \cup Generating \cup Syncing \cup Requests, At(w, s)
  PROVE  /\ Only(w) /\ job'[w].at = s
         /\ job'[w].on = job[w].on /\ job'[w].given = job[w].given
         /\ job'[w].todo = job[w].todo /\ job'[w].num = job[w].num
         /\ job'[w].seen = job[w].seen /\ job'[w].copy = job[w].copy
         /\ Keeps(w)
<1> DEFINE p == job[w]
           q == [p EXCEPT !.at = s]
<1>1. p \in Jobs
  OBVIOUS
<1>2. q \in Jobs /\ q.at = s
  BY <1>1 DEF Jobs
<1>3. /\ q.on = p.on /\ q.given = p.given /\ q.todo = p.todo /\ q.num = p.num
      /\ q.seen = p.seen /\ q.copy = p.copy
      /\ q.to = p.to /\ q.for = p.for /\ q.groups = p.groups
  BY <1>1 DEF Jobs
<1>4. Goto(w, q)
  BY DEF At
<1> HIDE DEF q
<1>5. Only(w) /\ job'[w] = q
  BY <1>2, <1>4, Step
<1> QED BY <1>2, <1>3, <1>5 DEF Keeps, Goes

\* A worker that ends its task is idle.
LEMMA EndFacts ==
  ASSUME NEW w \in Workers, job \in [Workers -> Jobs], End(w)
  PROVE  Only(w) /\ job'[w] = Idle
BY IdleType, Step DEF End

\* The latest invoice's date.
LEMMA LastType ==
  ASSUME TypeOK
  PROVE  LastInvoice \in Nat
<1> DEFINE S == {k \in Invoices : Live(k)}
           g == [i \in Invoices |-> row[i].date]
<1>1. IsFiniteSet(S)
  BY InvoicesAssumption, FS_Subset DEF InvoicesAssumption
<1>2. \A i \in S : g[i] \in Nat
  BY RowFields DEF TypeOK
<1>3. {row[i].date : i \in S} = {g[i] : i \in S}
  OBVIOUS
<1> HIDE DEF S, g
<1>4. Max({0} \cup {g[i] : i \in S}) \in Nat
  BY <1>1, <1>2, MaxNat
<1> QED BY <1>3, <1>4 DEF LastInvoice, S

\* The days that invoices bill up to.
LEMMA DatesType ==
  ASSUME TypeOK
  PROVE  /\ \A s \in Sheets : InvoiceDates(Day[s]).to \in Int
         /\ \A d \in NightDates : d.to \in Int
<1>1. /\ rule.period \in Periods /\ rule.ref \in Nat /\ today \in Nat
      /\ \A s \in Sheets : Day[s] \in Nat
  BY InvoicesAssumption DEF InvoicesAssumption, TypeOK
<1>2. LastInvoice \in Nat
  BY LastType
<1>3. \A f \in Int, d \in Int : Fortnight(f, d) \in Int
  BY DEF Fortnight
<1>4. \A d \in Int : Weekday(d) \in Int /\ MonthDay(d) \in Int /\ Monday(d) \in Int
  BY DEF Weekday, MonthDay, Monday
<1>5. ASSUME NEW s \in Sheets PROVE InvoiceDates(Day[s]).to \in Int
  <2>1. Day[s] \in Int /\ Monday(Day[s]) \in Int /\ MonthDay(Day[s]) \in Int
    BY <1>1, <1>4
  <2>2. CASE rule.period = "daily"
    BY <2>1, <2>2 DEF InvoiceDates
  <2>3. CASE rule.period = "weekly"
    BY <2>1, <2>3 DEF InvoiceDates
  <2>4. CASE rule.period = "fortnightly"
    <3>1. Monday(LastInvoice) \in Int
      BY <1>2, <1>4
    <3>2. Fortnight(Monday(LastInvoice), Day[s]) \in Int
      BY <1>3, <2>1, <3>1
    <3> QED BY <2>1, <2>4, <3>2 DEF InvoiceDates
  <2>5. CASE rule.period = "monthly"
    BY <2>1, <2>5 DEF InvoiceDates
  <2> QED BY <1>1, <2>2, <2>3, <2>4, <2>5 DEF Periods
<1>6. ASSUME NEW d \in NightDates PROVE d.to \in Int
  <2>1. CASE rule.period = "daily"
    BY <1>1, <1>6, <2>1 DEF NightDates
  <2>2. CASE rule.period = "weekly"
    BY <1>1, <1>6, <2>2 DEF NightDates
  <2>3. CASE rule.period = "fortnightly"
    BY <1>1, <1>2, <1>6, <2>3 DEF NightDates
  <2>4. CASE rule.period = "monthly"
    BY <1>1, <1>6, <2>4 DEF NightDates
  <2> QED BY <1>1, <2>1, <2>2, <2>3, <2>4 DEF Periods
<1> QED BY <1>5, <1>6

\* A fortnight that moves on reaches the day, or ends with it.
LEMMA FortnightReach ==
  ASSUME NEW f \in Int, NEW d \in Int
  PROVE  Fortnight(f, d) \in Int /\ d <= Fortnight(f, d) + 14
<1> DEFINE n == d - f - 1
           q == n \div 14
<1>1. CASE d - f > 14
  <2>1. n \in Nat
    BY <1>1
  <2>2. q \in Nat /\ n < 14 * q + 14
    BY <2>1
  <2>3. Fortnight(f, d) = f + 14 * q
    BY <1>1 DEF Fortnight
  <2> HIDE DEF q
  <2> QED BY <2>2, <2>3
<1>2. CASE ~(d - f > 14)
  BY <1>2 DEF Fortnight
<1> QED BY <1>1, <1>2

\* The period of a day ends after it, unless it misses it.
LEMMA DatesReach ==
  ASSUME TypeOK, NEW s \in Sheets, ~Missed(s, InvoiceDates(Day[s]).to)
  PROVE  Day[s] < InvoiceDates(Day[s]).to
<1>1. rule.period \in Periods /\ Day[s] \in Nat \ {0}
  BY InvoicesAssumption DEF InvoicesAssumption, TypeOK
<1>2. \A d \in Nat : Weekday(d) \in -6..6
  BY DEF Weekday
<1>3. \A d \in Nat \ {0} : Weekday(d) \in 0..6 /\ MonthDay(d) \in 1..31
  BY DEF Weekday, MonthDay
<1>4. CASE rule.period = "daily"
  BY <1>1, <1>4 DEF InvoiceDates
<1>5. CASE rule.period = "weekly"
  BY <1>1, <1>3, <1>5 DEF InvoiceDates, Monday
<1>6. CASE rule.period = "monthly"
  <2>1. MonthDay(Day[s]) # 31
    BY <1>6 DEF Missed
  <2> QED BY <1>1, <1>3, <1>6, <2>1 DEF InvoiceDates
<1>7. CASE rule.period = "fortnightly"
  <2> DEFINE f == IF LastInvoice = 0 THEN Monday(Day[s])
                  ELSE Fortnight(Monday(LastInvoice), Day[s])
  <2>1. InvoiceDates(Day[s]).to = f + 14
    BY <1>7 DEF InvoiceDates
  <2>2. Monday(Day[s]) \in Int /\ Day[s] <= Monday(Day[s]) + 6
    BY <1>1, <1>3 DEF Monday
  <2>3. Monday(LastInvoice) \in Int
    BY <1>2, LastType DEF Monday
  <2>4. /\ Fortnight(Monday(LastInvoice), Day[s]) \in Int
        /\ Day[s] <= Fortnight(Monday(LastInvoice), Day[s]) + 14
    <3>1. Day[s] \in Int
      BY <1>1
    <3> QED BY <2>3, <3>1, FortnightReach, Zenon
  <2>5. f \in Int /\ Day[s] <= f + 14
    BY <1>1, <2>2, <2>4
  <2>6. Day[s] # f + 14
    BY <1>7, <2>1 DEF Missed
  <2> HIDE DEF f
  <2> QED BY <1>1, <2>1, <2>5, <2>6
<1> QED BY <1>1, <1>4, <1>5, <1>6, <1>7 DEF Periods

\* The numbers of lines of the invoices after a step.
LEMMA CountAfter ==
  ASSUME lines' \in [Invoices -> Bags], NEW i \in Invoices
  PROVE  Count(i)' \in Nat
<1>1. lines'[i] \in Bags /\ DOMAIN lines'[i] = Sheets /\ \A s \in Sheets : lines'[i][s] \in Nat
  BY DEF Bags
<1>2. IsFiniteSet(Sheets)
  BY InvoicesAssumption DEF InvoicesAssumption
<1>3. SumFunctionOnSet(lines'[i], Sheets) \in Nat
  BY <1>1, <1>2, SumNat
<1>4. Count(i)' = SumFunctionOnSet(lines'[i], Sheets)
  BY <1>1 DEF Count, SumFunction
<1> QED BY <1>3, <1>4

\* The numbers of lines and of documents.
LEMMA CountType ==
  ASSUME TypeOK
  PROVE  \A i \in Invoices : Count(i) \in Nat /\ Copies(i) \in Nat
<1> TAKE i \in Invoices
<1>1. Count(i) \in Nat
  <2>1. lines[i] \in Bags /\ DOMAIN lines[i] = Sheets /\ \A s \in Sheets : lines[i][s] \in Nat
    BY DEF TypeOK, Bags
  <2>2. IsFiniteSet(Sheets)
    BY InvoicesAssumption DEF InvoicesAssumption
  <2> QED BY <2>1, <2>2, SumNat DEF Count, SumFunction, SumFunctionOnSet
<1>2. Copies(i) \in Nat
  <2> DEFINE g == [k \in Invoices |-> remote[k].copies]
  <2>1. IsFiniteSet(Documents(i))
    BY InvoicesAssumption, FS_Subset DEF InvoicesAssumption, Documents
  <2>2. \A k \in Documents(i) : g[k] \in Nat
    BY DEF TypeOK, Documents
  <2> HIDE DEF g
  <2>3. SumFunctionOnSet(g, Documents(i)) \in Nat
    BY <2>1, <2>2, SumNat
  <2> QED BY <2>3 DEF Copies, g
<1> QED BY <1>1, <1>2

-----------------------------------------------------------------------------
(* Generation *)

\* The beginning of a task or a request.
LEMMA BeginFacts ==
  ASSUME TypeInv, NEW w \in Workers, NEW i, NEW j \in Jobs, Begin(w, i, j)
  PROVE  /\ job[w].at = "idle" /\ job[w].on = NoInvoice
         /\ Only(w) /\ job'[w] = j /\ tasks' \in 0..MaxTasks
         /\ mixed' \subseteq mixed \cup ({i} \cap Invoices) /\ mixed \subseteq mixed'
         /\ i \in Invoices /\ i \notin mixed' => Busy(i) = {}
<1>1. job \in [Workers -> Jobs] /\ tasks \in 0..MaxTasks /\ MaxTasks \in Nat
  BY InvoicesAssumption DEF InvoicesAssumption, TypeInv, TypeOK
<1>2. job[w].at = "idle" /\ job[w].on = NoInvoice
  BY DEF Begin, TypeInv, PlaceOK
<1>3. Goto(w, j)
  BY DEF Begin
<1>4. Only(w) /\ job'[w] = j
  BY <1>1, <1>3, Step
<1>5. tasks' \in 0..MaxTasks
  BY <1>1 DEF Begin
<1>6. mixed' = IF i \in Invoices /\ Busy(i) # {} THEN mixed \cup {i} ELSE mixed
  BY DEF Begin
<1> QED BY <1>2, <1>4, <1>5, <1>6

\* The beginning of a generation.
LEMMA StartFacts ==
  ASSUME TypeInv, NEW w \in Workers, NEW i \in Invoices \cup {NoInvoice},
         NEW to \in Int, NEW s \in Sheets \cup {NoSheet}, Start(w, i, to, s)
  PROVE  /\ job[w].at = "idle" /\ job[w].on = NoInvoice
         /\ Only(w) /\ tasks' \in 0..MaxTasks
         /\ mixed' \subseteq mixed \cup ({i} \cap Invoices) /\ mixed \subseteq mixed'
         /\ i \in Invoices /\ i \notin mixed' => Busy(i) = {}
         /\ job'[w].at = "select" /\ job'[w].on = i /\ job'[w].given = (i # NoInvoice)
         /\ job'[w].to = to /\ job'[w].groups = GroupsToDo(to)
         /\ job'[w].for # NoSheet => job'[w].for = s /\ s \in ready /\ ~Billed(s)
         /\ ~overlap' => ~overlap /\ \A v \in Workers : job[v].at \notin Generating
         /\ overlap' \in BOOLEAN
         /\ UNCHANGED <<business, row, lines, counter, remote, faults, broken, skipped>>
<1> DEFINE fr == IF s \in ready /\ ~Billed(s) THEN s ELSE NoSheet
           j == [Idle EXCEPT !.at = "select", !.on = i, !.given = i # NoInvoice,
                             !.to = to, !.groups = GroupsToDo(to), !.for = fr]
<1>1. GroupsToDo(to) \subseteq SUBSET Sheets
  <2>1. Groups \subseteq SUBSET Sheets
    BY DEF Groups
  <2>2. rule.separation \in Separations
    BY InvoicesAssumption DEF InvoicesAssumption, TypeInv, TypeOK
  <2> QED BY <2>1, <2>2 DEF GroupsToDo, Separations
<1>2. /\ fr \in Sheets \cup {NoSheet}
      /\ fr # NoSheet => fr = s /\ s \in ready /\ ~Billed(s)
  OBVIOUS
<1>3. Begin(w, i, j)
  BY DEF Start
<1> HIDE DEF fr
<1>4. /\ j \in Jobs /\ j.at = "select" /\ j.on = i /\ j.given = (i # NoInvoice)
      /\ j.to = to /\ j.groups = GroupsToDo(to) /\ j.for = fr
  BY <1>1, <1>2, IdleType DEF Jobs, Generating
<1> HIDE DEF j
<1>5. /\ job[w].at = "idle" /\ job[w].on = NoInvoice
      /\ Only(w) /\ job'[w] = j /\ tasks' \in 0..MaxTasks
      /\ mixed' \subseteq mixed \cup ({i} \cap Invoices) /\ mixed \subseteq mixed'
      /\ i \in Invoices /\ i \notin mixed' => Busy(i) = {}
  BY <1>3, <1>4, BeginFacts
<1>6. overlap' = (overlap \/ \E v \in Workers : job[v].at \in Generating)
  BY DEF Start
<1>7. overlap' \in BOOLEAN
  BY <1>6 DEF TypeInv, TypeOK
<1>8. ~overlap' => ~overlap /\ \A v \in Workers : job[v].at \notin Generating
  BY <1>6
<1>9. UNCHANGED <<business, row, lines, counter, remote, faults, broken, skipped>>
  BY DEF Start
<1> QED BY <1>2, <1>4, <1>5, <1>7, <1>8, <1>9

\* A generation begins on an invoice that it need not leave alone, or on none; it
\* bills up to a day after that of its sheet, unless the period misses that.
Begins(w, i) ==
  /\ i \in Invoices \cup {NoInvoice}
  /\ i \in Invoices => Live(i) /\ ~Denied(i)
  /\ \E to \in Int, s \in Sheets \cup {NoSheet} :
       (s \in Sheets /\ ~Missed(s, to) => Day[s] < to) /\ Start(w, i, to, s)

\* Both the nightly task and the request to recreate an invoice begin so.
LEMMA StartsFacts ==
  ASSUME TypeInv, NEW w \in Workers,
         Nightly(w) \/ \E s \in Sheets : Recreate(w, s)
  PROVE  \E i : Begins(w, i)
<1>1. CASE Nightly(w)
  <2>1. PICK d \in NightDates : Start(w, NoInvoice, d.to, NoSheet)
    BY <1>1 DEF Nightly
  <2>2. d.to \in Int
    BY DatesType DEF TypeInv
  <2> QED BY <2>1, <2>2, InvoicesAssumption DEF Begins, InvoicesAssumption
<1>2. ASSUME NEW s \in Sheets, Recreate(w, s) PROVE \E i : Begins(w, i)
  <2> DEFINE d == InvoiceDates(Day[s])
             found == Latest(Matching(s, d))
  <2>1. d.to \in Int /\ (~Missed(s, d.to) => Day[s] < d.to)
    BY DatesType, DatesReach DEF TypeInv
  <2>2. found \subseteq {k \in Invoices : Live(k)}
    BY DEF Latest, Matching
  <2>3. \/ Start(w, NoInvoice, d.to, s)
        \/ \E i \in found : ~Denied(i) /\ Start(w, i, d.to, s)
    BY <1>2 DEF Recreate
  <2> HIDE DEF found, d
  <2> QED BY <2>1, <2>2, <2>3, InvoicesAssumption DEF Begins, InvoicesAssumption
<1> QED BY <1>1, <1>2

\* The sheets of one group that have no line.
LEMMA SelectFacts ==
  ASSUME TypeInv, NEW w \in Workers, NEW g \in SUBSET Sheets, Select(w, g)
  PROVE  /\ job[w].at = "select" /\ Only(w)
         /\ job'[w].at \in {"select", "old", "number"}
         /\ job'[w].at = "old" => job[w].given
         /\ job'[w].at = "number" => ~job[w].given
         /\ job'[w].on = job[w].on /\ job'[w].given = job[w].given
         /\ \A s \in job'[w].todo : ~Billed(s)
         /\ g \in job[w].groups /\ job'[w].groups = job[w].groups \ {g} /\ Goes(w)
         /\ job'[w].todo = Billable(job[w].to) \cap g
         /\ job'[w].todo # {} => job'[w].at # "select"
         /\ UNCHANGED <<business, row, lines, counter, remote, bounds, history>>
<1> DEFINE p == job[w]
           todo == Billable(p.to) \cap g
           next == IF todo = {} THEN "select" ELSE IF p.given THEN "old" ELSE "number"
           q == [p EXCEPT !.at = next, !.todo = todo, !.groups = @ \ {g}]
<1>1. job \in [Workers -> Jobs] /\ p \in Jobs
  BY DEF TypeInv, TypeOK
<1>2. /\ p.at = "select" /\ g \in p.groups /\ Goto(w, q)
      /\ UNCHANGED <<business, row, lines, counter, remote, bounds, history>>
  BY DEF Select
<1>3. next \in {"select", "old", "number"} /\ todo \subseteq Sheets
  OBVIOUS
<1>4. (next = "old" => p.given) /\ (next = "number" => ~p.given)
      /\ (todo # {} => next # "select")
  OBVIOUS
<1>5. \A s \in todo : ~Billed(s)
  BY DEF Billable
<1> HIDE DEF todo, next
<1>6. q \in Jobs /\ q.at = next /\ q.on = p.on /\ q.given = p.given /\ q.todo = todo
      /\ q.to = p.to /\ q.for = p.for /\ q.groups = p.groups \ {g}
  BY <1>1, <1>3 DEF Jobs, Generating
<1> HIDE DEF p, q
<1>7. Only(w) /\ job'[w] = q
  BY <1>1, <1>2, <1>6, Step
<1> QED BY <1>2, <1>3, <1>4, <1>5, <1>6, <1>7 DEF p, todo, Goes

\* The number of the rule.
LEMMA ReadRuleFacts ==
  ASSUME TypeInv, NEW w \in Workers, ReadRule(w)
  PROVE  /\ job[w].at = "number" /\ Only(w)
         /\ job'[w].at = "rule" /\ job'[w].num = counter
         /\ job'[w].on = job[w].on /\ job'[w].given = job[w].given
         /\ job'[w].todo = job[w].todo
         /\ Keeps(w)
         /\ UNCHANGED <<business, row, lines, counter, remote, bounds, history>>
<1> DEFINE p == job[w]
           q == [p EXCEPT !.at = "rule", !.num = counter]
<1>1. job \in [Workers -> Jobs] /\ p \in Jobs /\ counter \in Nat
  BY DEF TypeInv, TypeOK
<1>2. /\ p.at = "number" /\ Goto(w, q)
      /\ UNCHANGED <<business, row, lines, counter, remote, bounds, history>>
  BY DEF ReadRule
<1>3. /\ q \in Jobs /\ q.at = "rule" /\ q.num = counter
      /\ q.on = p.on /\ q.given = p.given /\ q.todo = p.todo
      /\ q.to = p.to /\ q.for = p.for /\ q.groups = p.groups
  BY <1>1 DEF Jobs, Generating
<1> HIDE DEF q
<1>4. Only(w) /\ job'[w] = q
  BY <1>1, <1>2, <1>3, Step
<1> QED BY <1>2, <1>3, <1>4 DEF Keeps, Goes

\* The rule's next number.
LEMMA SaveRuleFacts ==
  ASSUME TypeInv, NEW w \in Workers, SaveRule(w)
  PROVE  /\ job[w].at = "rule" /\ Only(w)
         /\ job'[w].at = "insert" /\ job'[w].num = job[w].num
         /\ job'[w].on = job[w].on /\ job'[w].given = job[w].given
         /\ job'[w].todo = job[w].todo /\ Keeps(w)
         /\ counter' = job[w].num + 1 /\ counter' \in Nat
         /\ UNCHANGED <<business, row, lines, remote, bounds, history>>
<1>1. job \in [Workers -> Jobs]
  BY DEF TypeInv, TypeOK
<1>2. /\ job[w].at = "rule" /\ At(w, "insert") /\ counter' = job[w].num + 1
      /\ UNCHANGED <<business, row, lines, remote, bounds, history>>
  BY DEF SaveRule
<1>3. job[w].num \in Nat
  BY <1>1, JobFields
<1> QED BY <1>1, <1>2, <1>3, AtFacts DEF Generating

\* The row of a new invoice.
LEMMA InsertFacts ==
  ASSUME TypeInv, NEW w \in Workers, Insert(w)
  PROVE  \E i \in Invoices :
           /\ job[w].at = "insert" /\ Only(w)
           /\ job'[w].at = "old" /\ job'[w].on = i
           /\ job'[w].given = job[w].given /\ job'[w].todo = job[w].todo
           /\ Keeps(w)
           /\ row[i].state = "none" /\ row' \in [Invoices -> Rows]
           /\ \A k \in Invoices \ {i} : row'[k] = row[k]
           /\ row'[i].state = "live" /\ row'[i].number = job[w].num
           /\ row'[i].sync = "not_synced" /\ row'[i].approved = FALSE
           /\ row'[i].total = 0
           /\ UNCHANGED <<business, lines, counter, remote, bounds, history>>
<1> DEFINE p == job[w]
           r == [NoRow EXCEPT !.state = "live", !.number = p.num, !.date = today]
           q(i) == [p EXCEPT !.at = "old", !.on = i, !.num = 0]
<1>1. job \in [Workers -> Jobs] /\ p \in Jobs /\ row \in [Invoices -> Rows] /\ today \in Nat
  BY InvoicesAssumption DEF InvoicesAssumption, TypeInv, TypeOK
<1>2. PICK i \in Invoices :
        row[i].state = "none" /\ row' = [row EXCEPT ![i] = r] /\ Goto(w, q(i))
  BY DEF Insert
<1>3. /\ p.at = "insert"
      /\ UNCHANGED <<business, lines, counter, remote, bounds, history>>
  BY DEF Insert
<1>4. p.num \in Nat
  BY <1>1, JobFields
<1>5. /\ r \in Rows /\ r.state = "live" /\ r.number = p.num /\ r.sync = "not_synced"
      /\ r.approved = FALSE /\ r.total = 0
  BY <1>1, <1>4 DEF NoRow, Rows, SyncStates
<1>6. /\ q(i) \in Jobs /\ q(i).at = "old" /\ q(i).on = i
      /\ q(i).given = p.given /\ q(i).todo = p.todo
      /\ q(i).to = p.to /\ q(i).for = p.for /\ q(i).groups = p.groups
  BY <1>1 DEF Jobs, Generating
<1> HIDE DEF q, r
<1>7. Only(w) /\ job'[w] = q(i)
  BY <1>1, <1>2, <1>6, Step
<1>8. row' \in [Invoices -> Rows] /\ row'[i] = r /\ \A k \in Invoices \ {i} : row'[k] = row[k]
  BY <1>1, <1>2, <1>5
<1> QED BY <1>2, <1>3, <1>5, <1>6, <1>7, <1>8 DEF Keeps, Goes

\* The lines that an invoice has.
LEMMA ReadLinesFacts ==
  ASSUME TypeInv, NEW w \in Workers, ReadLines(w)
  PROVE  /\ job[w].at = "old" /\ job[w].on \in Invoices /\ Only(w)
         /\ job'[w].at = "delete" /\ job'[w].on = job[w].on
         /\ job'[w].given = job[w].given /\ job'[w].todo = job[w].todo
         /\ Keeps(w) /\ job'[w].old = lines[job[w].on]
         /\ UNCHANGED <<business, row, lines, counter, remote, bounds, history>>
<1> DEFINE p == job[w]
           q == [p EXCEPT !.at = "delete", !.old = lines[p.on]]
<1>1. job \in [Workers -> Jobs] /\ p \in Jobs
  BY DEF TypeInv, TypeOK
<1>2. /\ p.at = "old" /\ Goto(w, q)
      /\ UNCHANGED <<business, row, lines, counter, remote, bounds, history>>
  BY DEF ReadLines
<1>3. p.on \in Invoices
  BY <1>2 DEF TypeInv, PlaceOK
<1>4. lines[p.on] \in Bags
  BY <1>3 DEF TypeInv, TypeOK
<1>5. /\ q \in Jobs /\ q.at = "delete" /\ q.on = p.on
      /\ q.given = p.given /\ q.todo = p.todo /\ q.old = lines[p.on]
      /\ q.to = p.to /\ q.for = p.for /\ q.groups = p.groups
  BY <1>1, <1>4 DEF Jobs, Generating
<1> HIDE DEF q
<1>6. Only(w) /\ job'[w] = q
  BY <1>1, <1>2, <1>5, Step
<1> QED BY <1>2, <1>3, <1>5, <1>6 DEF Keeps, Goes

\* A line less, if it is still there.
LEMMA DeleteLineFacts ==
  ASSUME TypeInv, NEW w \in Workers, NEW s \in Sheets, DeleteLine(w, s)
  PROVE  /\ job[w].at = "delete" /\ job[w].on \in Invoices /\ Only(w)
         /\ job'[w].at = "delete" /\ job'[w].on = job[w].on
         /\ job'[w].given = job[w].given /\ job'[w].todo = job[w].todo
         /\ Keeps(w) /\ job[w].old[s] > 0
         /\ lines' \in [Invoices -> Bags]
         /\ \A k \in Invoices \ {job[w].on} : lines'[k] = lines[k]
         /\ \A r \in Sheets : lines'[job[w].on][r] <= lines[job[w].on][r]
         /\ UNCHANGED <<business, row, counter, remote, bounds, history>>
<1> DEFINE p == job[w]
           q == [p EXCEPT !.old[s] = @ - 1]
           b == lines[p.on]
           c == [b EXCEPT ![s] = IF @ = 0 THEN 0 ELSE @ - 1]
<1>1. job \in [Workers -> Jobs] /\ p \in Jobs /\ lines \in [Invoices -> Bags]
  BY DEF TypeInv, TypeOK
<1>2. /\ p.at = "delete" /\ p.old[s] > 0 /\ Goto(w, q) /\ lines' = [lines EXCEPT ![p.on] = c]
      /\ UNCHANGED <<business, row, counter, remote, bounds, history>>
  BY DEF DeleteLine
<1>3. p.on \in Invoices
  BY <1>2 DEF TypeInv, PlaceOK
<1>4. p.old \in [Sheets -> Nat]
  BY <1>1, JobFields DEF Bags
<1>5. [p.old EXCEPT ![s] = @ - 1] \in Bags
  BY <1>2, <1>4 DEF Bags
<1>6. /\ q \in Jobs /\ q.at = p.at /\ q.on = p.on
      /\ q.given = p.given /\ q.todo = p.todo
      /\ q.to = p.to /\ q.for = p.for /\ q.groups = p.groups
  BY <1>1, <1>5 DEF Jobs
<1>7. b \in [Sheets -> Nat]
  BY <1>1, <1>3 DEF Bags
<1> HIDE DEF b
<1>8. c \in Bags /\ \A r \in Sheets : c[r] <= b[r]
  BY <1>7 DEF Bags
<1> HIDE DEF q, c
<1>9. Only(w) /\ job'[w] = q
  BY <1>1, <1>2, <1>6, Step
<1>10. /\ lines' \in [Invoices -> Bags] /\ lines'[p.on] = c
       /\ \A k \in Invoices \ {p.on} : lines'[k] = lines[k]
  BY <1>1, <1>2, <1>3, <1>8
<1> QED BY <1>2, <1>3, <1>6, <1>8, <1>9, <1>10 DEF b, Keeps, Goes

\* A line for each sheet to bill, or the end of the task.
LEMMA InsertLinesFacts ==
  ASSUME TypeInv, NEW w \in Workers, InsertLines(w)
  PROVE  /\ job[w].at = "delete" /\ job[w].on \in Invoices /\ Only(w)
         /\ UNCHANGED <<business, row, counter, remote, bounds, overlap, mixed, skipped>>
         /\ \/ /\ job'[w] = Idle /\ broken' = broken \cup {job[w].on}
               /\ UNCHANGED lines
            \/ /\ Live(job[w].on) /\ UNCHANGED broken
               /\ job'[w].at = "total" /\ job'[w].on = job[w].on
               /\ job'[w].given = job[w].given /\ job'[w].todo = {}
               /\ Keeps(w)
               /\ lines' \in [Invoices -> Bags]
               /\ \A k \in Invoices \ {job[w].on} : lines'[k] = lines[k]
               /\ \A s \in Sheets : lines'[job[w].on][s] =
                    lines[job[w].on][s] + (IF s \in job[w].todo THEN 1 ELSE 0)
<1> DEFINE p == job[w]
           q == [p EXCEPT !.at = "total", !.todo = {}]
           b == lines[p.on]
           c == [s \in Sheets |-> b[s] + (IF s \in p.todo THEN 1 ELSE 0)]
<1>1. job \in [Workers -> Jobs] /\ p \in Jobs /\ lines \in [Invoices -> Bags]
  BY DEF TypeInv, TypeOK
<1>2. /\ p.at = "delete"
      /\ UNCHANGED <<business, row, counter, remote, bounds, overlap, mixed, skipped>>
  BY DEF InsertLines
<1>3. p.on \in Invoices
  BY <1>2 DEF TypeInv, PlaceOK
<1>4. CASE Live(p.on) /\ p.todo \cap gone = {}
  <2>1. Goto(w, q) /\ lines' = [lines EXCEPT ![p.on] = c] /\ UNCHANGED broken
    BY <1>4 DEF InsertLines
  <2>2. /\ q \in Jobs /\ q.at = "total" /\ q.on = p.on
        /\ q.given = p.given /\ q.todo = {}
        /\ q.to = p.to /\ q.for = p.for /\ q.groups = p.groups
    BY <1>1 DEF Jobs, Generating
  <2>3. b \in [Sheets -> Nat]
    BY <1>1, <1>3 DEF Bags
  <2> HIDE DEF b
  <2>4. c \in Bags /\ \A s \in Sheets : c[s] = b[s] + (IF s \in p.todo THEN 1 ELSE 0)
    BY <2>3 DEF Bags
  <2> HIDE DEF q, c
  <2>5. Only(w) /\ job'[w] = q
    BY <1>1, <2>1, <2>2, Step
  <2>6. /\ lines' \in [Invoices -> Bags] /\ lines'[p.on] = c
        /\ \A k \in Invoices \ {p.on} : lines'[k] = lines[k]
    BY <1>1, <1>3, <2>1, <2>4
  <2> QED BY <1>2, <1>3, <1>4, <2>1, <2>2, <2>4, <2>5, <2>6 DEF b, Keeps, Goes
<1>5. CASE ~(Live(p.on) /\ p.todo \cap gone = {})
  <2>1. End(w) /\ broken' = broken \cup {p.on} /\ UNCHANGED lines
    BY <1>5 DEF InsertLines
  <2> QED BY <1>1, <1>2, <1>3, <1>5, <2>1, EndFacts
<1> QED BY <1>4, <1>5

\* The total, or the end of the task.
LEMMA SaveTotalFacts ==
  ASSUME TypeInv, NEW w \in Workers, SaveTotal(w)
  PROVE  /\ job[w].at = "total" /\ job[w].on \in Invoices /\ Only(w)
         /\ UNCHANGED <<business, lines, counter, remote, bounds, history>>
         /\ \/ ~Live(job[w].on) /\ job'[w] = Idle /\ UNCHANGED row
            \/ /\ Live(job[w].on)
               /\ job'[w].at = "select" /\ job'[w].given = job[w].given
               /\ job'[w].on = IF job[w].given THEN job[w].on ELSE NoInvoice
               /\ job'[w].todo = job[w].todo /\ Keeps(w)
               /\ row' \in [Invoices -> Rows]
               /\ \A k \in Invoices \ {job[w].on} : row'[k] = row[k]
               /\ row'[job[w].on].total = Count(job[w].on)
               /\ row'[job[w].on].state = "live"
               /\ row'[job[w].on].number = row[job[w].on].number
               /\ row'[job[w].on].approved = row[job[w].on].approved
               /\ row'[job[w].on].sync = row[job[w].on].sync
<1> DEFINE p == job[w]
           q == [p EXCEPT !.at = "select", !.on = IF p.given THEN p.on ELSE NoInvoice]
           a == row[p.on]
           b == [a EXCEPT !.total = Count(p.on)]
<1>1. job \in [Workers -> Jobs] /\ p \in Jobs /\ row \in [Invoices -> Rows]
  BY DEF TypeInv, TypeOK
<1>2. /\ p.at = "total"
      /\ UNCHANGED <<business, lines, counter, remote, bounds, history>>
  BY DEF SaveTotal
<1>3. p.on \in Invoices
  BY <1>2 DEF TypeInv, PlaceOK
<1>4. CASE Live(p.on)
  <2>1. Goto(w, q) /\ row' = [row EXCEPT ![p.on] = b]
    BY <1>4 DEF SaveTotal
  <2>2. /\ q \in Jobs /\ q.at = "select" /\ q.given = p.given /\ q.todo = p.todo
        /\ q.on = IF p.given THEN p.on ELSE NoInvoice
        /\ q.to = p.to /\ q.for = p.for /\ q.groups = p.groups
    BY <1>1, <1>3 DEF Jobs, Generating
  <2>3. Count(p.on) \in Nat
    BY <1>3, CountType DEF TypeInv
  <2>4. a \in Rows /\ a.state = "live"
    BY <1>1, <1>3, <1>4 DEF Live
  <2> HIDE DEF a
  <2>5. /\ b \in Rows /\ b.total = Count(p.on) /\ b.state = "live"
        /\ b.number = a.number /\ b.approved = a.approved /\ b.sync = a.sync
    BY <2>3, <2>4 DEF Rows
  <2> HIDE DEF q, b
  <2>6. Only(w) /\ job'[w] = q
    BY <1>1, <2>1, <2>2, Step
  <2>7. /\ row' \in [Invoices -> Rows] /\ row'[p.on] = b
        /\ \A k \in Invoices \ {p.on} : row'[k] = row[k]
    BY <1>1, <1>3, <2>1, <2>5
  <2> QED BY <1>2, <1>3, <1>4, <2>2, <2>5, <2>6, <2>7 DEF a, Keeps, Goes
<1>5. CASE ~Live(p.on)
  <2>1. End(w) /\ UNCHANGED row
    BY <1>5 DEF SaveTotal
  <2> QED BY <1>1, <1>2, <1>3, <1>5, <2>1, EndFacts
<1> QED BY <1>4, <1>5

-----------------------------------------------------------------------------
(* Sending *)

\* A row with another status.
Marked(i, status) ==
  /\ row' \in [Invoices -> Rows] /\ \A k \in Invoices \ {i} : row'[k] = row[k]
  /\ row'[i].sync = status /\ row'[i].state = row[i].state
  /\ row'[i].number = row[i].number /\ row'[i].approved = row[i].approved
  /\ row'[i].total = row[i].total

\* set_sync_status writes the status only.
LEMMA SetSyncFacts ==
  ASSUME TypeInv, NEW i \in Invoices, NEW status \in SyncStates,
         row' = [row EXCEPT ![i].sync = status]
  PROVE  Marked(i, status)
<1> DEFINE a == row[i]
           b == [a EXCEPT !.sync = status]
<1>1. row \in [Invoices -> Rows] /\ a \in Rows
  BY DEF TypeInv, TypeOK
<1>2. row' = [row EXCEPT ![i] = b]
  OBVIOUS
<1> HIDE DEF a
<1>3. /\ b \in Rows /\ b.sync = status /\ b.state = a.state /\ b.number = a.number
      /\ b.approved = a.approved /\ b.total = a.total
  BY <1>1 DEF Rows
<1> HIDE DEF b
<1>4. row' \in [Invoices -> Rows] /\ row'[i] = b /\ \A k \in Invoices \ {i} : row'[k] = row[k]
  BY <1>1, <1>2, <1>3
<1> QED BY <1>3, <1>4 DEF Marked, a

\* A task that sends an invoice begins.
LEMMA BeginSyncFacts ==
  ASSUME TypeInv, NEW w \in Workers, NEW i \in Invoices, BeginSync(w, i)
  PROVE  /\ Live(i) /\ row[i].sync \notin {"sync_scheduled", "syncing"}
         /\ job[w].at = "idle" /\ job[w].on = NoInvoice
         /\ Only(w) /\ tasks' \in 0..MaxTasks
         /\ mixed' \subseteq mixed \cup {i} /\ mixed \subseteq mixed'
         /\ i \notin mixed' => Busy(i) = {}
         /\ job'[w].at = "schedule" /\ job'[w].on = i /\ job'[w].given = FALSE
         /\ job'[w].todo = {} /\ job'[w].seen.copies = 0
         /\ UNCHANGED <<business, row, lines, counter, remote, faults,
                        overlap, broken, skipped>>
<1> DEFINE j == [Idle EXCEPT !.at = "schedule", !.on = i]
<1>1. /\ j \in Jobs /\ j.at = "schedule" /\ j.on = i /\ j.given = FALSE
      /\ j.todo = {} /\ j.seen.copies = 0
  BY IdleType DEF Jobs, Syncing
<1>2. /\ Live(i) /\ row[i].sync \notin {"sync_scheduled", "syncing"} /\ Begin(w, i, j)
      /\ UNCHANGED <<business, row, lines, counter, remote, faults,
                     overlap, broken, skipped>>
  BY DEF BeginSync
<1> HIDE DEF j
<1>3. /\ job[w].at = "idle" /\ job[w].on = NoInvoice
      /\ Only(w) /\ job'[w] = j /\ tasks' \in 0..MaxTasks
      /\ mixed' \subseteq mixed \cup {i} /\ mixed \subseteq mixed'
      /\ i \notin mixed' => Busy(i) = {}
  BY <1>1, <1>2, BeginFacts
<1> QED BY <1>1, <1>2, <1>3

\* The invoice is scheduled.
LEMMA ScheduleFacts ==
  ASSUME TypeInv, NEW w \in Workers, Schedule(w)
  PROVE  /\ job[w].at = "schedule" /\ job[w].on \in Invoices /\ Only(w)
         /\ UNCHANGED <<business, lines, counter, remote, bounds, history>>
         /\ \/ ~Live(job[w].on) /\ job'[w] = Idle /\ UNCHANGED row
            \/ /\ Live(job[w].on) /\ Marked(job[w].on, "sync_scheduled")
               /\ job'[w].at = "get" /\ job'[w].on = job[w].on
               /\ job'[w].given = job[w].given /\ job'[w].todo = job[w].todo
               /\ job'[w].seen = job[w].seen
<1>1. job \in [Workers -> Jobs]
  BY DEF TypeInv, TypeOK
<1>2. /\ job[w].at = "schedule"
      /\ UNCHANGED <<business, lines, counter, remote, bounds, history>>
  BY DEF Schedule
<1>3. job[w].on \in Invoices
  BY <1>2 DEF TypeInv, PlaceOK, Syncing
<1>4. CASE Live(job[w].on)
  <2>1. row' = [row EXCEPT ![job[w].on].sync = "sync_scheduled"] /\ At(w, "get")
    BY <1>4 DEF Schedule, SetSync
  <2>2. Marked(job[w].on, "sync_scheduled")
    BY <1>3, <2>1, SetSyncFacts DEF SyncStates
  <2> QED BY <1>1, <1>2, <1>3, <1>4, <2>1, <2>2, AtFacts DEF Syncing
<1>5. CASE ~Live(job[w].on)
  <2>1. End(w) /\ UNCHANGED row
    BY <1>5 DEF Schedule, SetSync
  <2> QED BY <1>1, <1>2, <1>3, <1>5, <2>1, EndFacts
<1> QED BY <1>4, <1>5

\* The invoice is being sent.
LEMMA MarkFacts ==
  ASSUME TypeInv, NEW w \in Workers, Mark(w)
  PROVE  /\ job[w].at = "mark" /\ job[w].on \in Invoices /\ Only(w)
         /\ UNCHANGED <<business, lines, counter, remote, bounds, history>>
         /\ \/ ~Live(job[w].on) /\ job'[w] = Idle /\ UNCHANGED row
            \/ /\ Live(job[w].on) /\ Marked(job[w].on, "syncing")
               /\ job'[w].at = "compare" /\ job'[w].on = job[w].on
               /\ job'[w].given = job[w].given /\ job'[w].todo = job[w].todo
               /\ job'[w].seen = job[w].seen
<1>1. job \in [Workers -> Jobs]
  BY DEF TypeInv, TypeOK
<1>2. /\ job[w].at = "mark"
      /\ UNCHANGED <<business, lines, counter, remote, bounds, history>>
  BY DEF Mark
<1>3. job[w].on \in Invoices
  BY <1>2 DEF TypeInv, PlaceOK, Syncing
<1>4. CASE Live(job[w].on)
  <2>1. row' = [row EXCEPT ![job[w].on].sync = "syncing"] /\ At(w, "compare")
    BY <1>4 DEF Mark, SetSync
  <2>2. Marked(job[w].on, "syncing")
    BY <1>3, <2>1, SetSyncFacts DEF SyncStates
  <2> QED BY <1>1, <1>2, <1>3, <1>4, <2>1, <2>2, AtFacts DEF Syncing
<1>5. CASE ~Live(job[w].on)
  <2>1. End(w) /\ UNCHANGED row
    BY <1>5 DEF Mark, SetSync
  <2> QED BY <1>1, <1>2, <1>3, <1>5, <2>1, EndFacts
<1> QED BY <1>4, <1>5

\* The invoice could not be sent.
LEMMA FailFacts ==
  ASSUME TypeInv, NEW w \in Workers, Fail(w)
  PROVE  /\ job[w].at = "fail" /\ job[w].on \in Invoices /\ Only(w)
         /\ UNCHANGED <<business, lines, counter, remote, bounds, history>>
         /\ \/ ~Live(job[w].on) /\ job'[w] = Idle /\ UNCHANGED row
            \/ /\ Live(job[w].on) /\ Marked(job[w].on, "sync_failed")
               /\ job'[w] = Idle
<1>1. job \in [Workers -> Jobs]
  BY DEF TypeInv, TypeOK
<1>2. /\ job[w].at = "fail"
      /\ UNCHANGED <<business, lines, counter, remote, bounds, history>>
  BY DEF Fail
<1>3. job[w].on \in Invoices
  BY <1>2 DEF TypeInv, PlaceOK, Syncing
<1>4. CASE Live(job[w].on)
  <2>1. row' = [row EXCEPT ![job[w].on].sync = "sync_failed"] /\ End(w)
    BY <1>4 DEF Fail, SetSync
  <2>2. Marked(job[w].on, "sync_failed")
    BY <1>3, <2>1, SetSyncFacts DEF SyncStates
  <2> QED BY <1>1, <1>2, <1>3, <1>4, <2>1, <2>2, EndFacts DEF Syncing
<1>5. CASE ~Live(job[w].on)
  <2>1. End(w) /\ UNCHANGED row
    BY <1>5 DEF Fail, SetSync
  <2> QED BY <1>1, <1>2, <1>3, <1>5, <2>1, EndFacts
<1> QED BY <1>4, <1>5

\* The invoice is sent.
LEMMA DoneFacts ==
  ASSUME TypeInv, NEW w \in Workers, Done(w)
  PROVE  /\ job[w].at = "done" /\ job[w].on \in Invoices /\ Only(w)
         /\ UNCHANGED <<business, lines, counter, remote, bounds, history>>
         /\ \/ ~Live(job[w].on) /\ job'[w] = Idle /\ UNCHANGED row
            \/ /\ Live(job[w].on) /\ Marked(job[w].on, "synced")
               /\ job'[w] = Idle
<1>1. job \in [Workers -> Jobs]
  BY DEF TypeInv, TypeOK
<1>2. /\ job[w].at = "done"
      /\ UNCHANGED <<business, lines, counter, remote, bounds, history>>
  BY DEF Done
<1>3. job[w].on \in Invoices
  BY <1>2 DEF TypeInv, PlaceOK, Syncing
<1>4. CASE Live(job[w].on)
  <2>1. row' = [row EXCEPT ![job[w].on].sync = "synced"] /\ End(w)
    BY <1>4 DEF Done, SetSync
  <2>2. Marked(job[w].on, "synced")
    BY <1>3, <2>1, SetSyncFacts DEF SyncStates
  <2> QED BY <1>1, <1>2, <1>3, <1>4, <2>1, <2>2, EndFacts DEF Syncing
<1>5. CASE ~Live(job[w].on)
  <2>1. End(w) /\ UNCHANGED row
    BY <1>5 DEF Done, SetSync
  <2> QED BY <1>1, <1>2, <1>3, <1>5, <2>1, EndFacts
<1> QED BY <1>4, <1>5

\* The documents of the accounting service, as the task sees them.
LEMMA GetFacts ==
  ASSUME TypeInv, NEW w \in Workers, Get(w)
  PROVE  /\ job[w].at = "get" /\ job[w].on \in Invoices /\ Only(w)
         /\ job'[w].at = "mark" /\ job'[w].on = job[w].on
         /\ job'[w].given = job[w].given /\ job'[w].todo = job[w].todo
         /\ \/ Documents(job[w].on) = {} /\ job'[w].seen = job[w].seen
            \/ \E k \in Documents(job[w].on) :
                 job'[w].seen = [copies |-> Copies(job[w].on), lines |-> remote[k].lines]
         /\ UNCHANGED <<business, row, lines, counter, remote, bounds, history>>
<1> DEFINE p == job[w]
           q(x) == [p EXCEPT !.at = "mark", !.seen = x]
<1>1. job \in [Workers -> Jobs] /\ p \in Jobs
  BY DEF TypeInv, TypeOK
<1>2. /\ p.at = "get"
      /\ UNCHANGED <<business, row, lines, counter, remote, bounds, history>>
  BY DEF Get
<1>3. p.on \in Invoices
  BY <1>2 DEF TypeInv, PlaceOK, Syncing
<1>4. ASSUME NEW x \in [copies : Nat, lines : Nat]
      PROVE  /\ q(x) \in Jobs /\ q(x).at = "mark" /\ q(x).on = p.on
             /\ q(x).given = p.given /\ q(x).todo = p.todo /\ q(x).seen = x
  BY <1>1 DEF Jobs, Syncing
<1>5. CASE Documents(p.on) = {} /\ Goto(w, [p EXCEPT !.at = "mark"])
  <2>1. Only(w) /\ At(w, "mark")
    BY <1>1, <1>5, AtFacts DEF At, Syncing
  <2> QED BY <1>1, <1>2, <1>3, <1>5, <2>1, AtFacts DEF Syncing
<1>6. ASSUME NEW k \in Documents(p.on),
             Goto(w, q([copies |-> Copies(p.on), lines |-> remote[k].lines]))
      PROVE  /\ Only(w)
             /\ job'[w].at = "mark" /\ job'[w].on = p.on
             /\ job'[w].given = p.given /\ job'[w].todo = p.todo
             /\ job'[w].seen = [copies |-> Copies(p.on), lines |-> remote[k].lines]
  <2> DEFINE x == [copies |-> Copies(p.on), lines |-> remote[k].lines]
  <2>1. k \in Invoices
    BY DEF Documents
  <2>2. Copies(p.on) \in Nat /\ remote[k].lines \in Nat
    BY <1>3, <2>1, CountType DEF TypeInv, TypeOK
  <2>3. x \in [copies : Nat, lines : Nat]
    BY <2>2
  <2>4. Goto(w, q(x))
    BY <1>6
  <2> HIDE DEF x
  <2>5. /\ q(x) \in Jobs /\ q(x).at = "mark" /\ q(x).on = p.on
        /\ q(x).given = p.given /\ q(x).todo = p.todo /\ q(x).seen = x
    BY <1>4, <2>3
  <2> HIDE DEF q
  <2>6. Only(w) /\ job'[w] = q(x)
    BY <1>1, <2>4, <2>5, Step
  <2> QED BY <2>5, <2>6 DEF x
<1>7. \/ Documents(p.on) = {} /\ Goto(w, [p EXCEPT !.at = "mark"])
      \/ \E k \in Documents(p.on) :
           Goto(w, q([copies |-> Copies(p.on), lines |-> remote[k].lines]))
  BY DEF Get
<1> QED BY <1>2, <1>3, <1>5, <1>6, <1>7

\* What there is to send.
LEMMA CompareFacts ==
  ASSUME TypeInv, NEW w \in Workers, Compare(w)
  PROVE  /\ job[w].at = "compare" /\ job[w].on \in Invoices /\ Only(w)
         /\ UNCHANGED <<business, row, lines, counter, remote, bounds,
                        overlap, mixed, skipped>>
         /\ \/ job'[w] = Idle /\ broken' = broken \cup {job[w].on}
            \/ /\ job'[w].at \in {"fail", "post", "put", "done"} /\ UNCHANGED broken
               /\ job'[w].on = job[w].on /\ job'[w].given = job[w].given
               /\ job'[w].todo = job[w].todo
               /\ job'[w].at = "post" => job[w].seen.copies = 0
               /\ job'[w].at \in {"put", "done"} => job[w].seen.copies = 1
               /\ job'[w].at = "done" => job[w].seen.lines = Count(job[w].on)
<1> DEFINE p == job[w]
           next == CASE p.seen.copies > 1 -> "fail"
                     [] p.seen.copies = 0 -> "post"
                     [] p.seen.copies = 1 /\ p.seen.lines < Count(p.on) -> "put"
                     [] p.seen.copies = 1 /\ p.seen.lines = Count(p.on) -> "done"
                     [] OTHER -> "idle"
           q(s) == [p EXCEPT !.at = s, !.seen = Idle.seen]
<1>1. job \in [Workers -> Jobs] /\ p \in Jobs
  BY DEF TypeInv, TypeOK
<1>2. /\ p.at = "compare"
      /\ IF next = "idle" THEN End(w) /\ broken' = broken \cup {p.on}
         ELSE Goto(w, q(next)) /\ UNCHANGED broken
      /\ UNCHANGED <<business, row, lines, counter, remote, bounds,
                     overlap, mixed, skipped>>
  BY DEF Compare
<1>3. p.on \in Invoices
  BY <1>2 DEF TypeInv, PlaceOK, Syncing
<1>4. p.seen.copies \in Nat /\ p.seen.lines \in Nat /\ Count(p.on) \in Nat
  BY <1>1, <1>3, JobFields, CountType DEF TypeInv
<1>5. /\ next \in {"idle", "fail", "post", "put", "done"}
      /\ next = "post" => p.seen.copies = 0
      /\ next \in {"put", "done"} => p.seen.copies = 1
      /\ next = "done" => p.seen.lines = Count(p.on)
  <2>1. CASE p.seen.copies > 1
    BY <1>4, <2>1
  <2>2. CASE p.seen.copies = 0
    BY <1>4, <2>2
  <2>3. CASE p.seen.copies = 1 /\ p.seen.lines < Count(p.on)
    BY <1>4, <2>3
  <2>4. CASE p.seen.copies = 1 /\ p.seen.lines = Count(p.on)
    BY <1>4, <2>4
  <2>5. CASE p.seen.copies = 1 /\ p.seen.lines > Count(p.on)
    BY <1>4, <2>5
  <2> QED BY <1>4, <2>1, <2>2, <2>3, <2>4, <2>5
<1> HIDE DEF next
<1>6. CASE next = "idle"
  BY <1>1, <1>2, <1>3, <1>6, EndFacts
<1>7. CASE next # "idle"
  <2>1. /\ q(next) \in Jobs /\ q(next).at = next /\ q(next).on = p.on
        /\ q(next).given = p.given /\ q(next).todo = p.todo
    BY <1>1, <1>5, IdleType DEF Jobs, Syncing
  <2> HIDE DEF q
  <2>2. Only(w) /\ job'[w] = q(next)
    BY <1>1, <1>2, <1>7, <2>1, Step
  <2> QED BY <1>2, <1>3, <1>5, <1>7, <2>1, <2>2
<1> QED BY <1>6, <1>7

\* A request to the accounting service, its refusal, or no request.
LEMMA AnswerFacts ==
  ASSUME TypeInv, NEW w \in Workers, NEW sent, Answer(w, sent)
  PROVE  /\ Only(w) /\ job'[w].at \in {"done", "fail"}
         /\ job'[w].on = job[w].on /\ job'[w].given = job[w].given
         /\ job'[w].todo = job[w].todo
         /\ \/ job'[w].at = "done" /\ remote' = sent /\ UNCHANGED skipped
            \/ job'[w].at = "fail" /\ UNCHANGED <<remote, skipped>>
            \/ /\ job'[w].at = "done" /\ skipped' = skipped \cup {job[w].on}
               /\ UNCHANGED remote
<1>1. job \in [Workers -> Jobs]
  BY DEF TypeInv, TypeOK
<1>2. CASE At(w, "done") /\ remote' = sent /\ UNCHANGED skipped
  BY <1>1, <1>2, AtFacts DEF Syncing
<1>3. CASE At(w, "fail") /\ UNCHANGED <<remote, skipped>>
  BY <1>1, <1>3, AtFacts DEF Syncing
<1>4. CASE At(w, "done") /\ skipped' = skipped \cup {job[w].on} /\ UNCHANGED remote
  BY <1>1, <1>4, AtFacts DEF Syncing
<1> QED BY <1>2, <1>3, <1>4 DEF Answer

\* A document with every line is posted.
LEMMA PostFacts ==
  ASSUME TypeInv, NEW w \in Workers, Post(w)
  PROVE  /\ job[w].at = "post" /\ job[w].on \in Invoices /\ Only(w)
         /\ job'[w].at \in {"done", "fail"}
         /\ job'[w].on = job[w].on /\ job'[w].given = job[w].given
         /\ job'[w].todo = job[w].todo
         /\ remote' \in [Invoices -> [copies : Nat, lines : Nat]]
         /\ \A k \in Invoices \ {job[w].on} : remote'[k] = remote[k]
         /\ \/ /\ job'[w].at = "done" /\ UNCHANGED skipped
               /\ remote'[job[w].on].copies = remote[job[w].on].copies + 1
               /\ remote'[job[w].on].lines = Count(job[w].on)
            \/ job'[w].at = "fail" /\ UNCHANGED <<remote, skipped>>
            \/ /\ job'[w].at = "done" /\ skipped' = skipped \cup {job[w].on}
               /\ UNCHANGED remote
         /\ UNCHANGED <<business, row, lines, counter, bounds, overlap, mixed, broken>>
<1> DEFINE i == job[w].on
           a == remote[i]
           b == [copies |-> a.copies + 1, lines |-> Count(i)]
           sent == [remote EXCEPT ![i].copies = @ + 1, ![i].lines = Count(i)]
<1>1. /\ job[w].at = "post" /\ Answer(w, sent)
      /\ UNCHANGED <<business, row, lines, counter, bounds, overlap, mixed, broken>>
  BY DEF Post
<1>2. i \in Invoices
  BY <1>1 DEF TypeInv, PlaceOK, Syncing
<1>3. /\ remote \in [Invoices -> [copies : Nat, lines : Nat]] /\ Count(i) \in Nat
      /\ a \in [copies : Nat, lines : Nat]
  BY <1>2, CountType DEF TypeInv, TypeOK
<1>4. b \in [copies : Nat, lines : Nat] /\ b.copies = a.copies + 1 /\ b.lines = Count(i)
  BY <1>3
<1> DEFINE c == [a EXCEPT !.copies = @ + 1]
           m == [remote EXCEPT ![i] = c]
<1>5. c \in [copies : Nat, lines : Nat] /\ [c EXCEPT !.lines = Count(i)] = b
  <2> HIDE DEF a
  <2>1. c \in [copies : Nat, lines : Nat] /\ c.copies = a.copies + 1 /\ c.lines = a.lines
    BY <1>3
  <2> HIDE DEF c
  <2> DEFINE e == [c EXCEPT !.lines = Count(i)]
  <2>2. e \in [copies : Nat, lines : Nat] /\ e.copies = a.copies + 1 /\ e.lines = Count(i)
    BY <1>3, <2>1
  <2> HIDE DEF e
  <2>3. e = b
    BY <2>2
  <2> QED BY <2>1, <2>3 DEF e
<1>6. /\ sent \in [Invoices -> [copies : Nat, lines : Nat]] /\ sent[i] = b
      /\ \A k \in Invoices \ {i} : sent[k] = remote[k]
  <2>1. sent = [m EXCEPT ![i].lines = Count(i)]
    BY <1>2, <1>3
  <2> HIDE DEF a, c, sent
  <2>2. /\ m \in [Invoices -> [copies : Nat, lines : Nat]] /\ m[i] = c
        /\ \A k \in Invoices \ {i} : m[k] = remote[k]
    BY <1>2, <1>3, <1>5
  <2> HIDE DEF m
  <2>3. sent = [m EXCEPT ![i] = [c EXCEPT !.lines = Count(i)]]
    BY <1>2, <2>1, <2>2
  <2>4. sent = [m EXCEPT ![i] = b]
    BY <1>5, <2>3
  <2> HIDE DEF b
  <2> QED BY <1>2, <1>4, <2>2, <2>4
<1> HIDE DEF sent
<1>7. /\ Only(w) /\ job'[w].at \in {"done", "fail"}
      /\ job'[w].on = job[w].on /\ job'[w].given = job[w].given
      /\ job'[w].todo = job[w].todo
      /\ \/ job'[w].at = "done" /\ remote' = sent /\ UNCHANGED skipped
         \/ job'[w].at = "fail" /\ UNCHANGED <<remote, skipped>>
         \/ /\ job'[w].at = "done" /\ skipped' = skipped \cup {i} /\ UNCHANGED remote
  BY <1>1, AnswerFacts
<1> QED BY <1>1, <1>2, <1>3, <1>4, <1>6, <1>7

\* A document is given every line.
LEMMA PutFacts ==
  ASSUME TypeInv, NEW w \in Workers, Put(w)
  PROVE  /\ job[w].at = "put" /\ job[w].on \in Invoices /\ Only(w)
         /\ job'[w].at \in {"done", "fail"}
         /\ job'[w].on = job[w].on /\ job'[w].given = job[w].given
         /\ job'[w].todo = job[w].todo
         /\ remote' \in [Invoices -> [copies : Nat, lines : Nat]]
         /\ \A k \in Invoices : remote'[k].copies = remote[k].copies
         /\ \/ \E k \in Documents(job[w].on) :
                 /\ job'[w].at = "done" /\ UNCHANGED skipped
                 /\ \A l \in Invoices \ {k} : remote'[l] = remote[l]
                 /\ remote'[k].lines = Count(job[w].on)
            \/ job'[w].at = "fail" /\ UNCHANGED <<remote, skipped>>
            \/ /\ job'[w].at = "done" /\ skipped' = skipped \cup {job[w].on}
               /\ UNCHANGED remote
         /\ UNCHANGED <<business, row, lines, counter, bounds, overlap, mixed, broken>>
<1> DEFINE i == job[w].on
           sent(k) == [remote EXCEPT ![k].lines = Count(i)]
<1>1. /\ job[w].at = "put"
      /\ UNCHANGED <<business, row, lines, counter, bounds, overlap, mixed, broken>>
  BY DEF Put
<1>2. i \in Invoices
  BY <1>1 DEF TypeInv, PlaceOK, Syncing
<1>3. remote \in [Invoices -> [copies : Nat, lines : Nat]] /\ Count(i) \in Nat
  BY <1>2, CountType DEF TypeInv, TypeOK
<1>4. PICK k \in Documents(i) : Answer(w, sent(k))
  BY DEF Put
<1>5. k \in Invoices
  BY DEF Documents
<1> DEFINE a == remote[k]
           b == [a EXCEPT !.lines = Count(i)]
<1>6. a \in [copies : Nat, lines : Nat]
  BY <1>3, <1>5
<1>7. sent(k) = [remote EXCEPT ![k] = b]
  BY <1>3, <1>5
<1> HIDE DEF a
<1>8. b \in [copies : Nat, lines : Nat] /\ b.copies = a.copies /\ b.lines = Count(i)
  BY <1>3, <1>6
<1> HIDE DEF b, sent
<1>9. /\ sent(k) \in [Invoices -> [copies : Nat, lines : Nat]] /\ sent(k)[k] = b
      /\ \A l \in Invoices \ {k} : sent(k)[l] = remote[l]
  BY <1>3, <1>5, <1>7, <1>8
<1>10. /\ Only(w) /\ job'[w].at \in {"done", "fail"}
       /\ job'[w].on = job[w].on /\ job'[w].given = job[w].given
       /\ job'[w].todo = job[w].todo
       /\ \/ job'[w].at = "done" /\ remote' = sent(k) /\ UNCHANGED skipped
          \/ job'[w].at = "fail" /\ UNCHANGED <<remote, skipped>>
          \/ /\ job'[w].at = "done" /\ skipped' = skipped \cup {i} /\ UNCHANGED remote
  BY <1>4, AnswerFacts
<1>11. \A l \in Invoices : sent(k)[l].copies = remote[l].copies
  BY <1>8, <1>9 DEF a
<1> QED BY <1>1, <1>2, <1>3, <1>8, <1>9, <1>10, <1>11

-----------------------------------------------------------------------------
(* Requests, payments and time *)

\* A request begins.
LEMMA BeginRequestFacts ==
  ASSUME TypeInv, NEW w \in Workers, NEW i \in Invoices, NEW what \in Requests,
         BeginRequest(w, i, what)
  PROVE  /\ Live(i) /\ (what = "destroy" => ~row[i].approved)
         /\ job[w].at = "idle" /\ job[w].on = NoInvoice
         /\ Only(w) /\ tasks' \in 0..MaxTasks
         /\ mixed' \subseteq mixed \cup {i} /\ mixed \subseteq mixed'
         /\ i \notin mixed' => Busy(i) = {}
         /\ job'[w].at = what /\ job'[w].on = i /\ job'[w].given = FALSE
         /\ job'[w].todo = {} /\ job'[w].copy = row[i]
         /\ UNCHANGED <<business, row, lines, counter, remote, faults,
                        overlap, broken, skipped>>
<1> DEFINE j == [Idle EXCEPT !.at = what, !.on = i, !.copy = row[i]]
<1>1. row[i] \in Rows
  BY DEF TypeInv, TypeOK
<1>2. /\ j \in Jobs /\ j.at = what /\ j.on = i /\ j.given = FALSE
      /\ j.todo = {} /\ j.copy = row[i]
  BY <1>1, IdleType DEF Jobs, Requests
<1>3. /\ Live(i) /\ (what = "destroy" => ~row[i].approved) /\ Begin(w, i, j)
      /\ UNCHANGED <<business, row, lines, counter, remote, faults,
                     overlap, broken, skipped>>
  BY DEF BeginRequest
<1> HIDE DEF j
<1>4. /\ job[w].at = "idle" /\ job[w].on = NoInvoice
      /\ Only(w) /\ job'[w] = j /\ tasks' \in 0..MaxTasks
      /\ mixed' \subseteq mixed \cup {i} /\ mixed \subseteq mixed'
      /\ i \notin mixed' => Busy(i) = {}
  BY <1>2, <1>3, BeginFacts
<1> QED BY <1>2, <1>3, <1>4

\* Every column of the copy is saved.
LEMMA ApproveFacts ==
  ASSUME TypeInv, NEW w \in Workers, Approve(w)
  PROVE  /\ job[w].at = "approve" /\ job[w].on \in Invoices /\ Only(w) /\ job'[w] = Idle
         /\ row' \in [Invoices -> Rows] /\ \A k \in Invoices \ {job[w].on} : row'[k] = row[k]
         /\ row'[job[w].on].state = job[w].copy.state
         /\ row'[job[w].on].number = job[w].copy.number
         /\ row'[job[w].on].sync = job[w].copy.sync
         /\ row'[job[w].on].approved = TRUE
         /\ row'[job[w].on].total = Count(job[w].on)
         /\ UNCHANGED <<business, lines, counter, remote, bounds, history>>
<1> DEFINE i == job[w].on
           c == job[w].copy
           b == [c EXCEPT !.approved = TRUE, !.total = Count(i)]
<1>1. job \in [Workers -> Jobs] /\ row \in [Invoices -> Rows]
  BY DEF TypeInv, TypeOK
<1>2. /\ job[w].at = "approve" /\ End(w) /\ row' = [row EXCEPT ![i] = b]
      /\ UNCHANGED <<business, lines, counter, remote, bounds, history>>
  BY DEF Approve
<1>3. i \in Invoices
  BY <1>2 DEF TypeInv, PlaceOK, Requests
<1>4. c \in Rows /\ Count(i) \in Nat
  BY <1>1, <1>3, JobFields, CountType DEF TypeInv
<1> HIDE DEF c
<1>5. /\ b \in Rows /\ b.state = c.state /\ b.number = c.number /\ b.sync = c.sync
      /\ b.approved = TRUE /\ b.total = Count(i)
  BY <1>4 DEF Rows
<1> HIDE DEF b
<1>6. row' \in [Invoices -> Rows] /\ row'[i] = b /\ \A k \in Invoices \ {i} : row'[k] = row[k]
  BY <1>1, <1>2, <1>3, <1>5
<1>7. Only(w) /\ job'[w] = Idle
  BY <1>1, <1>2, EndFacts
<1> QED BY <1>2, <1>3, <1>5, <1>6, <1>7 DEF c

\* A row is deleted, with its lines.
LEMMA DestroyFacts ==
  ASSUME TypeInv, NEW w \in Workers, Destroy(w)
  PROVE  /\ job[w].at = "destroy" /\ job[w].on \in Invoices /\ Only(w) /\ job'[w] = Idle
         /\ row' \in [Invoices -> Rows] /\ \A k \in Invoices \ {job[w].on} : row'[k] = row[k]
         /\ row'[job[w].on].state = "deleted"
         /\ row'[job[w].on].number = row[job[w].on].number
         /\ row'[job[w].on].sync = row[job[w].on].sync
         /\ row'[job[w].on].approved = row[job[w].on].approved
         /\ lines' \in [Invoices -> Bags]
         /\ \A k \in Invoices \ {job[w].on} : lines'[k] = lines[k]
         /\ lines'[job[w].on] = Empty
         /\ UNCHANGED <<business, counter, remote, bounds, history>>
<1> DEFINE i == job[w].on
           a == row[i]
           b == [a EXCEPT !.state = "deleted"]
<1>1. job \in [Workers -> Jobs] /\ row \in [Invoices -> Rows] /\ lines \in [Invoices -> Bags]
  BY DEF TypeInv, TypeOK
<1>2. /\ job[w].at = "destroy" /\ End(w) /\ row' = [row EXCEPT ![i] = b]
      /\ lines' = [lines EXCEPT ![i] = Empty]
      /\ UNCHANGED <<business, counter, remote, bounds, history>>
  BY DEF Destroy
<1>3. i \in Invoices
  BY <1>2 DEF TypeInv, PlaceOK, Requests
<1>4. a \in Rows
  BY <1>1, <1>3
<1> HIDE DEF a
<1>5. /\ b \in Rows /\ b.state = "deleted" /\ b.number = a.number /\ b.sync = a.sync
      /\ b.approved = a.approved
  BY <1>4 DEF Rows
<1> HIDE DEF b
<1>6. row' \in [Invoices -> Rows] /\ row'[i] = b /\ \A k \in Invoices \ {i} : row'[k] = row[k]
  BY <1>1, <1>2, <1>3, <1>5
<1>7. /\ lines' \in [Invoices -> Bags] /\ lines'[i] = Empty
      /\ \A k \in Invoices \ {i} : lines'[k] = lines[k]
  BY <1>1, <1>2, <1>3, IdleType
<1>8. Only(w) /\ job'[w] = Idle
  BY <1>1, <1>2, EndFacts
<1> QED BY <1>2, <1>3, <1>5, <1>6, <1>7, <1>8 DEF a

\* Invoices are paid.
LEMMA CheckUnpaidFacts ==
  ASSUME TypeInv, NEW k \in Invoices, CheckUnpaid(k)
  PROVE  /\ row' \in [Invoices -> Rows]
         /\ \A i \in Invoices :
              /\ row'[i].state = row[i].state /\ row'[i].number = row[i].number
              /\ row'[i].sync = row[i].sync /\ row'[i].approved = row[i].approved
              /\ row'[i].total = row[i].total
         /\ UNCHANGED <<business, lines, counter, remote, job, bounds, history>>
<1> DEFINE b(i) == [row[i] EXCEPT !.paid = TRUE]
<1>1. /\ row' = [i \in Invoices |-> IF Live(i) /\ k \in Documents(i) THEN b(i) ELSE row[i]]
      /\ UNCHANGED <<business, lines, counter, remote, job, bounds, history>>
  BY DEF CheckUnpaid
<1>2. ASSUME NEW i \in Invoices
      PROVE  /\ b(i) \in Rows /\ b(i).state = row[i].state /\ b(i).number = row[i].number
             /\ b(i).sync = row[i].sync /\ b(i).approved = row[i].approved
             /\ b(i).total = row[i].total /\ row[i] \in Rows
  BY DEF TypeInv, TypeOK, Rows
<1> HIDE DEF b
<1> QED BY <1>1, <1>2

\* A sheet is deleted, and its lines.
LEMMA DeleteSheetFacts ==
  ASSUME TypeInv, NEW s \in Sheets, DeleteSheet(s)
  PROVE  /\ tasks' \in 0..MaxTasks /\ ready' = ready \ {s} /\ gone' = gone \cup {s}
         /\ s \notin gone /\ cut \subseteq cut' /\ cut' \subseteq Invoices
         /\ lines' \in [Invoices -> Bags]
         /\ \A i \in Invoices : /\ \A r \in Sheets : lines'[i][r] <= lines[i][r]
                                /\ \A r \in Sheets \ {s} : lines'[i][r] = lines[i][r]
                                /\ i \notin cut' => lines'[i] = lines[i]
                                /\ Count(i)' <= Count(i)
         /\ UNCHANGED <<rule, today, row, counter, remote, job, faults, history>>
<1> DEFINE c(i) == [lines[i] EXCEPT ![s] = 0]
<1>1. /\ s \in ready /\ tasks < MaxTasks /\ tasks' = tasks + 1
      /\ ready' = ready \ {s} /\ gone' = gone \cup {s}
      /\ cut' = cut \cup {i \in Invoices : lines[i][s] > 0}
      /\ lines' = [i \in Invoices |-> c(i)]
      /\ UNCHANGED <<rule, today, row, counter, remote, job, faults, history>>
  BY DEF DeleteSheet
<1>2. /\ tasks \in 0..MaxTasks /\ MaxTasks \in Nat /\ ready \cap gone = {}
      /\ cut \subseteq Invoices
  BY InvoicesAssumption DEF InvoicesAssumption, TypeInv, TypeOK
<1>3. ASSUME NEW i \in Invoices
      PROVE  /\ c(i) \in Bags /\ lines[i] \in Bags
             /\ \A r \in Sheets : c(i)[r] <= lines[i][r]
             /\ \A r \in Sheets \ {s} : c(i)[r] = lines[i][r]
             /\ ~(lines[i][s] > 0) => c(i) = lines[i]
  <2>1. lines[i] \in [Sheets -> Nat]
    BY DEF TypeInv, TypeOK, Bags
  <2> QED BY <2>1 DEF Bags
<1> HIDE DEF c
<1>4. ASSUME NEW i \in Invoices PROVE Count(i)' <= Count(i)
  <2>1. lines'[i] = c(i)
    BY <1>1
  <2>2. /\ IsFiniteSet(Sheets) /\ DOMAIN c(i) = Sheets /\ DOMAIN lines[i] = Sheets
        /\ \A r \in Sheets : c(i)[r] \in Nat /\ lines[i][r] \in Nat /\ c(i)[r] <= lines[i][r]
    BY <1>3, InvoicesAssumption DEF InvoicesAssumption, Bags
  <2>3. SumFunctionOnSet(c(i), Sheets) <= SumFunctionOnSet(lines[i], Sheets)
    BY <2>2, SumLess
  <2>4. Count(i)' = SumFunctionOnSet(c(i), Sheets)
    BY <2>1, <2>2 DEF Count, SumFunction
  <2>5. Count(i) = SumFunctionOnSet(lines[i], Sheets)
    BY <2>2 DEF Count, SumFunction
  <2> QED BY <2>3, <2>4, <2>5
<1> QED BY <1>1, <1>2, <1>3, <1>4

\* A task dies.
LEMMA DieFacts ==
  ASSUME TypeInv, NEW w \in Workers, Die(w)
  PROVE  /\ job[w].at \notin {"idle", "number", "rule", "schedule"} \cup Requests
         /\ Only(w) /\ job'[w] = Idle /\ faults' \in 0..MaxFaults
         /\ broken' = broken \cup ({job[w].on} \ {NoInvoice}) /\ broken' \subseteq Invoices
         /\ UNCHANGED <<business, row, lines, counter, remote, tasks, overlap, mixed, skipped>>
<1>1. job \in [Workers -> Jobs] /\ broken \subseteq Invoices
      /\ faults \in 0..MaxFaults /\ MaxFaults \in Nat
  BY InvoicesAssumption DEF InvoicesAssumption, TypeInv, TypeOK
<1>2. job[w].on \in Invoices \cup {NoInvoice}
  BY <1>1, JobFields
<1>3. Only(w) /\ job'[w] = Idle
  BY <1>1, EndFacts DEF Die
<1> QED BY <1>1, <1>2, <1>3 DEF Die

-----------------------------------------------------------------------------
(* Type correctness *)

\* The other workers stay where they are.
LEMMA PlaceStep ==
  ASSUME TypeInv, NEW w \in Workers, Only(w), PlaceOK(w)'
  PROVE  job' \in [Workers -> Jobs] /\ \A v \in Workers : PlaceOK(v)'
<1>1. ASSUME NEW v \in Workers PROVE PlaceOK(v)'
  <2>1. CASE v = w
    BY <2>1
  <2>2. CASE v # w
    <3>1. job'[v] = job[v]
      BY <2>2 DEF Only
    <3> QED BY <3>1 DEF TypeInv, PlaceOK
  <2> QED BY <2>1, <2>2
<1> QED BY <1>1 DEF Only

\* An idle worker is where it should be.
LEMMA PlaceIdle ==
  ASSUME NEW w \in Workers, job'[w] = Idle
  PROVE  PlaceOK(w)'
BY IdleType DEF PlaceOK, Syncing, Requests

\* Every action, one by one.
LEMMA NextCases ==
  ASSUME TypeInv, Next
  PROVE  \/ \E w \in Workers :
              \/ \E i : Begins(w, i)
              \/ \E g \in SUBSET Sheets : Select(w, g)
              \/ Finish(w) \/ ReadRule(w) \/ SaveRule(w) \/ Insert(w) \/ ReadLines(w)
              \/ \E s \in Sheets : DeleteLine(w, s)
              \/ InsertLines(w) \/ SaveTotal(w)
              \/ \E i \in Invoices : BeginSync(w, i)
              \/ Schedule(w) \/ Get(w) \/ Mark(w) \/ Compare(w) \/ Post(w) \/ Put(w)
              \/ Fail(w) \/ Done(w)
              \/ \E i \in Invoices, what \in Requests : BeginRequest(w, i, what)
              \/ Approve(w) \/ Destroy(w) \/ Die(w)
         \/ \E k \in Invoices : CheckUnpaid(k)
         \/ NextDay
         \/ \E s \in Sheets : SheetReady(s)
         \/ \E s \in Sheets : DeleteSheet(s)
<1>1. ASSUME NEW w \in Workers, Generation(w)
      PROVE  \/ \E i : Begins(w, i)
             \/ \E g \in SUBSET Sheets : Select(w, g)
             \/ Finish(w) \/ ReadRule(w) \/ SaveRule(w) \/ Insert(w) \/ ReadLines(w)
             \/ \E s \in Sheets : DeleteLine(w, s)
             \/ InsertLines(w) \/ SaveTotal(w)
  <2>1. Nightly(w) \/ (\E s \in Sheets : Recreate(w, s)) => \E i : Begins(w, i)
    BY StartsFacts
  <2> QED BY <1>1, <2>1 DEF Generation
<1> QED BY <1>1 DEF Next, Sync, Request

\* No other step deletes a sheet.
LEMMA OtherSteps ==
  ASSUME TypeInv, Next, ~\E s \in Sheets : DeleteSheet(s)
  PROVE  UNCHANGED <<gone, cut>>
<1>1. ASSUME NEW w \in Workers, Generation(w)
      PROVE  UNCHANGED <<gone, cut>>
  BY <1>1 DEF Generation, Nightly, Recreate, Start, Select, Finish, ReadRule, SaveRule,
     Insert, ReadLines, DeleteLine, InsertLines, SaveTotal, business
<1>2. ASSUME NEW w \in Workers, Sync(w)
      PROVE  UNCHANGED <<gone, cut>>
  BY <1>2 DEF Sync, BeginSync, Schedule, Get, Mark, Compare, Post, Put, Fail, Done, business
<1>3. ASSUME NEW w \in Workers, Request(w) \/ Die(w)
      PROVE  UNCHANGED <<gone, cut>>
  BY <1>3 DEF Request, BeginRequest, Approve, Destroy, Die, business
<1>4. ASSUME (\E k \in Invoices : CheckUnpaid(k)) \/ NextDay \/ \E s \in Sheets : SheetReady(s)
      PROVE  UNCHANGED <<gone, cut>>
  BY <1>4 DEF CheckUnpaid, NextDay, SheetReady, business
<1> QED BY <1>1, <1>2, <1>3, <1>4 DEF Next

\* What a worker has done, for its type.
LEMMA TypeStep ==
  ASSUME TypeInv, Next
  PROVE  TypeInv'
<1>1. ASSUME NEW w \in Workers, NEW i, Begins(w, i) PROVE TypeInv'
  <2>1. PICK to \in Int, s \in Sheets \cup {NoSheet} : Start(w, i, to, s)
    BY <1>1 DEF Begins
  <2>2. i \in Invoices \cup {NoInvoice}
    BY <1>1 DEF Begins
  <2>3. /\ Only(w) /\ tasks' \in 0..MaxTasks /\ overlap' \in BOOLEAN
        /\ mixed' \subseteq mixed \cup ({i} \cap Invoices)
        /\ job'[w].at = "select" /\ job'[w].on = i /\ job'[w].given = (i # NoInvoice)
        /\ UNCHANGED <<business, row, lines, counter, remote, faults, broken, skipped>>
    BY <2>1, <2>2, StartFacts
  <2>4. PlaceOK(w)'
    BY <2>2, <2>3 DEF PlaceOK, Generating, Syncing, Requests
  <2>5. job' \in [Workers -> Jobs] /\ \A v \in Workers : PlaceOK(v)'
    BY <2>3, <2>4, PlaceStep
  <2>6. mixed' \subseteq Invoices
    BY <2>3 DEF TypeInv, TypeOK
  <2> QED BY <2>3, <2>5, <2>6 DEF TypeInv, TypeOK, business
<1>2. ASSUME NEW w \in Workers, NEW g \in SUBSET Sheets, Select(w, g) PROVE TypeInv'
  <2>1. /\ Only(w) /\ job[w].at = "select" /\ job'[w].at \in {"select", "old", "number"}
        /\ job'[w].at = "old" => job[w].given
        /\ job'[w].at = "number" => ~job[w].given
        /\ job'[w].on = job[w].on /\ job'[w].given = job[w].given
        /\ UNCHANGED <<business, row, lines, counter, remote, bounds, history>>
    BY <1>2, SelectFacts
  <2>2. PlaceOK(w)'
    BY <2>1 DEF TypeInv, PlaceOK, Generating, Syncing, Requests
  <2>3. job' \in [Workers -> Jobs] /\ \A v \in Workers : PlaceOK(v)'
    BY <2>1, <2>2, PlaceStep
  <2> QED BY <2>1, <2>3 DEF TypeInv, TypeOK, business, bounds, history
<1>3. ASSUME NEW w \in Workers, Finish(w) PROVE TypeInv'
  <2>1. /\ End(w)
        /\ UNCHANGED <<business, row, lines, counter, remote, bounds, history>>
    BY <1>3 DEF Finish
  <2>2. Only(w) /\ job'[w] = Idle
    BY <2>1, EndFacts DEF TypeInv, TypeOK
  <2>3. job' \in [Workers -> Jobs] /\ \A v \in Workers : PlaceOK(v)'
    BY <2>2, PlaceStep, PlaceIdle
  <2> QED BY <2>1, <2>3 DEF TypeInv, TypeOK, business, bounds, history
<1>4. ASSUME NEW w \in Workers, NEW s \in Sheets, DeleteLine(w, s) PROVE TypeInv'
  <2>1. /\ job[w].at = "delete" /\ job[w].on \in Invoices /\ Only(w)
        /\ job'[w].at = "delete" /\ job'[w].on = job[w].on
        /\ job'[w].given = job[w].given /\ lines' \in [Invoices -> Bags]
        /\ UNCHANGED <<business, row, counter, remote, bounds, history>>
    BY <1>4, DeleteLineFacts
  <2>2. PlaceOK(w)'
    BY <2>1 DEF TypeInv, PlaceOK, Generating, Syncing, Requests
  <2>3. job' \in [Workers -> Jobs] /\ \A v \in Workers : PlaceOK(v)'
    BY <2>1, <2>2, PlaceStep
  <2> QED BY <2>1, <2>3 DEF TypeInv, TypeOK, business, bounds, history
<1>5. ASSUME NEW w \in Workers, Insert(w) PROVE TypeInv'
  <2>1. PICK i \in Invoices :
          /\ Only(w) /\ job'[w].at = "old" /\ job'[w].on = i
          /\ job'[w].given = job[w].given /\ row' \in [Invoices -> Rows]
          /\ UNCHANGED <<business, lines, counter, remote, bounds, history>>
    BY <1>5, InsertFacts
  <2>2. PlaceOK(w)'
    BY <2>1, <1>5 DEF Insert, TypeInv, PlaceOK, Generating, Syncing, Requests
  <2>3. job' \in [Workers -> Jobs] /\ \A v \in Workers : PlaceOK(v)'
    BY <2>1, <2>2, PlaceStep
  <2> QED BY <2>1, <2>3 DEF TypeInv, TypeOK, business, bounds, history
<1>6. ASSUME NEW w \in Workers, NEW i \in Invoices, BeginSync(w, i) PROVE TypeInv'
  <2>1. /\ Only(w) /\ tasks' \in 0..MaxTasks /\ mixed' \subseteq mixed \cup {i}
        /\ job'[w].at = "schedule" /\ job'[w].on = i /\ job'[w].given = FALSE
        /\ UNCHANGED <<business, row, lines, counter, remote, faults,
                       overlap, broken, skipped>>
    BY <1>6, BeginSyncFacts
  <2>2. PlaceOK(w)'
    BY <2>1 DEF PlaceOK, Generating, Syncing, Requests
  <2>3. job' \in [Workers -> Jobs] /\ \A v \in Workers : PlaceOK(v)'
    BY <2>1, <2>2, PlaceStep
  <2> QED BY <2>1, <2>3 DEF TypeInv, TypeOK, business
<1>7. ASSUME NEW w \in Workers, NEW i \in Invoices, NEW what \in Requests, BeginRequest(w, i, what) PROVE TypeInv'
  <2>1. /\ Only(w) /\ tasks' \in 0..MaxTasks /\ mixed' \subseteq mixed \cup {i}
        /\ job'[w].at = what /\ job'[w].on = i /\ job'[w].given = FALSE
        /\ UNCHANGED <<business, row, lines, counter, remote, faults,
                       overlap, broken, skipped>>
    BY <1>7, BeginRequestFacts
  <2>2. PlaceOK(w)'
    BY <2>1 DEF PlaceOK, Generating, Syncing, Requests
  <2>3. job' \in [Workers -> Jobs] /\ \A v \in Workers : PlaceOK(v)'
    BY <2>1, <2>2, PlaceStep
  <2> QED BY <2>1, <2>3 DEF TypeInv, TypeOK, business
<1>8. ASSUME NEW w \in Workers, ReadRule(w) PROVE TypeInv'
  <2>1. /\ job[w].at = "number" /\ Only(w) /\ job'[w].at = "rule"
        /\ job'[w].on = job[w].on /\ job'[w].given = job[w].given
        /\ UNCHANGED <<business, row, lines, counter, remote, bounds, history>>
    BY <1>8, ReadRuleFacts
  <2>2. PlaceOK(w)'
    BY <2>1 DEF TypeInv, PlaceOK, Generating, Syncing, Requests
  <2>3. job' \in [Workers -> Jobs] /\ \A v \in Workers : PlaceOK(v)'
    BY <2>1, <2>2, PlaceStep
  <2> QED BY <2>1, <2>3 DEF TypeInv, TypeOK, business, bounds, history
<1>9. ASSUME NEW w \in Workers, SaveRule(w) PROVE TypeInv'
  <2>1. /\ job[w].at = "rule" /\ Only(w) /\ job'[w].at = "insert" /\ counter' \in Nat
        /\ job'[w].on = job[w].on /\ job'[w].given = job[w].given
        /\ UNCHANGED <<business, row, lines, remote, bounds, history>>
    BY <1>9, SaveRuleFacts
  <2>2. PlaceOK(w)'
    BY <2>1 DEF TypeInv, PlaceOK, Generating, Syncing, Requests
  <2>3. job' \in [Workers -> Jobs] /\ \A v \in Workers : PlaceOK(v)'
    BY <2>1, <2>2, PlaceStep
  <2> QED BY <2>1, <2>3 DEF TypeInv, TypeOK, business, bounds, history
<1>10. ASSUME NEW w \in Workers, ReadLines(w) PROVE TypeInv'
  <2>1. /\ job[w].at = "old" /\ job[w].on \in Invoices /\ Only(w) /\ job'[w].at = "delete"
        /\ job'[w].on = job[w].on /\ job'[w].given = job[w].given
        /\ UNCHANGED <<business, row, lines, counter, remote, bounds, history>>
    BY <1>10, ReadLinesFacts
  <2>2. PlaceOK(w)'
    BY <2>1 DEF TypeInv, PlaceOK, Generating, Syncing, Requests
  <2>3. job' \in [Workers -> Jobs] /\ \A v \in Workers : PlaceOK(v)'
    BY <2>1, <2>2, PlaceStep
  <2> QED BY <2>1, <2>3 DEF TypeInv, TypeOK, business, bounds, history
<1>11. ASSUME NEW w \in Workers, InsertLines(w) PROVE TypeInv'
  <2>1. /\ job[w].at = "delete" /\ job[w].on \in Invoices /\ Only(w)
        /\ lines' \in [Invoices -> Bags]
        /\ \/ job'[w] = Idle
           \/ /\ job'[w].at = "total" /\ job'[w].on = job[w].on
              /\ job'[w].given = job[w].given
        /\ broken' \subseteq Invoices
        /\ UNCHANGED <<business, row, counter, remote, bounds, overlap, mixed, skipped>>
    BY <1>11, InsertLinesFacts DEF TypeInv, TypeOK
  <2>2. PlaceOK(w)'
    BY <2>1, PlaceIdle DEF TypeInv, PlaceOK, Generating, Syncing, Requests
  <2>3. job' \in [Workers -> Jobs] /\ \A v \in Workers : PlaceOK(v)'
    BY <2>1, <2>2, PlaceStep
  <2> QED BY <2>1, <2>3 DEF TypeInv, TypeOK, business, bounds, history
<1>12. ASSUME NEW w \in Workers, SaveTotal(w) PROVE TypeInv'
  <2>1. /\ job[w].at = "total" /\ job[w].on \in Invoices /\ Only(w)
        /\ row' \in [Invoices -> Rows]
        /\ \/ job'[w] = Idle
           \/ /\ job'[w].at = "select" /\ job'[w].given = job[w].given
              /\ job'[w].on = IF job[w].given THEN job[w].on ELSE NoInvoice
        /\ UNCHANGED <<business, lines, counter, remote, bounds, history>>
    BY <1>12, SaveTotalFacts DEF TypeInv, TypeOK
  <2>2. PlaceOK(w)'
    BY <2>1, PlaceIdle DEF TypeInv, PlaceOK, Generating, Syncing, Requests
  <2>3. job' \in [Workers -> Jobs] /\ \A v \in Workers : PlaceOK(v)'
    BY <2>1, <2>2, PlaceStep
  <2> QED BY <2>1, <2>3 DEF TypeInv, TypeOK, business, bounds, history
<1>13. ASSUME NEW w \in Workers, Schedule(w) PROVE TypeInv'
  <2>1. /\ job[w].at = "schedule" /\ job[w].on \in Invoices /\ Only(w)
        /\ row' \in [Invoices -> Rows]
        /\ \/ job'[w] = Idle
           \/ /\ job'[w].at = "get" /\ job'[w].on = job[w].on
              /\ job'[w].given = job[w].given
        /\ UNCHANGED <<business, lines, counter, remote, bounds, history>>
    BY <1>13, ScheduleFacts DEF TypeInv, TypeOK, Marked
  <2>2. PlaceOK(w)'
    BY <2>1, PlaceIdle DEF TypeInv, PlaceOK, Generating, Syncing, Requests
  <2>3. job' \in [Workers -> Jobs] /\ \A v \in Workers : PlaceOK(v)'
    BY <2>1, <2>2, PlaceStep
  <2> QED BY <2>1, <2>3 DEF TypeInv, TypeOK, business, bounds, history
<1>14. ASSUME NEW w \in Workers, Get(w) PROVE TypeInv'
  <2>1. /\ job[w].at = "get" /\ job[w].on \in Invoices /\ Only(w) /\ job'[w].at = "mark"
        /\ job'[w].on = job[w].on /\ job'[w].given = job[w].given
        /\ UNCHANGED <<business, row, lines, counter, remote, bounds, history>>
    BY <1>14, GetFacts
  <2>2. PlaceOK(w)'
    BY <2>1 DEF TypeInv, PlaceOK, Generating, Syncing, Requests
  <2>3. job' \in [Workers -> Jobs] /\ \A v \in Workers : PlaceOK(v)'
    BY <2>1, <2>2, PlaceStep
  <2> QED BY <2>1, <2>3 DEF TypeInv, TypeOK, business, bounds, history
<1>15. ASSUME NEW w \in Workers, Mark(w) PROVE TypeInv'
  <2>1. /\ job[w].at = "mark" /\ job[w].on \in Invoices /\ Only(w)
        /\ row' \in [Invoices -> Rows]
        /\ \/ job'[w] = Idle
           \/ /\ job'[w].at = "compare" /\ job'[w].on = job[w].on
              /\ job'[w].given = job[w].given
        /\ UNCHANGED <<business, lines, counter, remote, bounds, history>>
    BY <1>15, MarkFacts DEF TypeInv, TypeOK, Marked
  <2>2. PlaceOK(w)'
    BY <2>1, PlaceIdle DEF TypeInv, PlaceOK, Generating, Syncing, Requests
  <2>3. job' \in [Workers -> Jobs] /\ \A v \in Workers : PlaceOK(v)'
    BY <2>1, <2>2, PlaceStep
  <2> QED BY <2>1, <2>3 DEF TypeInv, TypeOK, business, bounds, history
<1>16. ASSUME NEW w \in Workers, Compare(w) PROVE TypeInv'
  <2>1. /\ job[w].at = "compare" /\ job[w].on \in Invoices /\ Only(w)
        /\ \/ job'[w] = Idle
           \/ /\ job'[w].at \in {"fail", "post", "put", "done"} /\ job'[w].on = job[w].on
              /\ job'[w].given = job[w].given
        /\ broken' \subseteq broken \cup {job[w].on}
        /\ UNCHANGED <<business, row, lines, counter, remote, bounds,
                       overlap, mixed, skipped>>
    BY <1>16, CompareFacts
  <2>2. PlaceOK(w)'
    BY <2>1, PlaceIdle DEF TypeInv, PlaceOK, Generating, Syncing, Requests
  <2>3. job' \in [Workers -> Jobs] /\ \A v \in Workers : PlaceOK(v)'
    BY <2>1, <2>2, PlaceStep
  <2> QED BY <2>1, <2>3 DEF TypeInv, TypeOK, business, bounds, history
<1>17. ASSUME NEW w \in Workers, Post(w) PROVE TypeInv'
  <2>1. /\ job[w].at = "post" /\ job[w].on \in Invoices /\ Only(w)
        /\ job'[w].at \in {"done", "fail"} /\ job'[w].on = job[w].on
        /\ job'[w].given = job[w].given
        /\ remote' \in [Invoices -> [copies : Nat, lines : Nat]]
        /\ skipped' \subseteq skipped \cup {job[w].on}
        /\ UNCHANGED <<business, row, lines, counter, bounds, overlap, mixed, broken>>
    BY <1>17, PostFacts
  <2>2. PlaceOK(w)'
    BY <2>1 DEF TypeInv, PlaceOK, Generating, Syncing, Requests
  <2>3. job' \in [Workers -> Jobs] /\ \A v \in Workers : PlaceOK(v)'
    BY <2>1, <2>2, PlaceStep
  <2> QED BY <2>1, <2>3 DEF TypeInv, TypeOK, business, bounds, history
<1>18. ASSUME NEW w \in Workers, Put(w) PROVE TypeInv'
  <2>1. /\ job[w].at = "put" /\ job[w].on \in Invoices /\ Only(w)
        /\ job'[w].at \in {"done", "fail"} /\ job'[w].on = job[w].on
        /\ job'[w].given = job[w].given
        /\ remote' \in [Invoices -> [copies : Nat, lines : Nat]]
        /\ skipped' \subseteq skipped \cup {job[w].on}
        /\ UNCHANGED <<business, row, lines, counter, bounds, overlap, mixed, broken>>
    BY <1>18, PutFacts
  <2>2. PlaceOK(w)'
    BY <2>1 DEF TypeInv, PlaceOK, Generating, Syncing, Requests
  <2>3. job' \in [Workers -> Jobs] /\ \A v \in Workers : PlaceOK(v)'
    BY <2>1, <2>2, PlaceStep
  <2> QED BY <2>1, <2>3 DEF TypeInv, TypeOK, business, bounds, history
<1>19. ASSUME NEW w \in Workers, Fail(w) PROVE TypeInv'
  <2>1. /\ Only(w) /\ row' \in [Invoices -> Rows] /\ job'[w] = Idle
        /\ UNCHANGED <<business, lines, counter, remote, bounds, history>>
    BY <1>19, FailFacts DEF TypeInv, TypeOK, Marked
  <2>2. PlaceOK(w)'
    BY <2>1, PlaceIdle
  <2>3. job' \in [Workers -> Jobs] /\ \A v \in Workers : PlaceOK(v)'
    BY <2>1, <2>2, PlaceStep
  <2> QED BY <2>1, <2>3 DEF TypeInv, TypeOK, business, bounds, history
<1>20. ASSUME NEW w \in Workers, Done(w) PROVE TypeInv'
  <2>1. /\ Only(w) /\ row' \in [Invoices -> Rows] /\ job'[w] = Idle
        /\ UNCHANGED <<business, lines, counter, remote, bounds, history>>
    BY <1>20, DoneFacts DEF TypeInv, TypeOK, Marked
  <2>2. PlaceOK(w)'
    BY <2>1, PlaceIdle
  <2>3. job' \in [Workers -> Jobs] /\ \A v \in Workers : PlaceOK(v)'
    BY <2>1, <2>2, PlaceStep
  <2> QED BY <2>1, <2>3 DEF TypeInv, TypeOK, business, bounds, history
<1>21. ASSUME NEW w \in Workers, Approve(w) PROVE TypeInv'
  <2>1. /\ Only(w) /\ row' \in [Invoices -> Rows] /\ job'[w] = Idle
        /\ UNCHANGED <<business, lines, counter, remote, bounds, history>>
    BY <1>21, ApproveFacts
  <2>2. PlaceOK(w)'
    BY <2>1, PlaceIdle
  <2>3. job' \in [Workers -> Jobs] /\ \A v \in Workers : PlaceOK(v)'
    BY <2>1, <2>2, PlaceStep
  <2> QED BY <2>1, <2>3 DEF TypeInv, TypeOK, business, bounds, history
<1>22. ASSUME NEW w \in Workers, Destroy(w) PROVE TypeInv'
  <2>1. /\ Only(w) /\ row' \in [Invoices -> Rows] /\ job'[w] = Idle
        /\ lines' \in [Invoices -> Bags]
        /\ UNCHANGED <<business, counter, remote, bounds, history>>
    BY <1>22, DestroyFacts
  <2>2. PlaceOK(w)'
    BY <2>1, PlaceIdle
  <2>3. job' \in [Workers -> Jobs] /\ \A v \in Workers : PlaceOK(v)'
    BY <2>1, <2>2, PlaceStep
  <2> QED BY <2>1, <2>3 DEF TypeInv, TypeOK, business, bounds, history
<1>23. ASSUME NEW w \in Workers, Die(w) PROVE TypeInv'
  <2>1. /\ Only(w) /\ job'[w] = Idle /\ faults' \in 0..MaxFaults
        /\ broken' \subseteq Invoices
        /\ UNCHANGED <<business, row, lines, counter, remote, tasks, overlap, mixed, skipped>>
    BY <1>23, DieFacts
  <2>2. PlaceOK(w)'
    BY <2>1, PlaceIdle
  <2>3. job' \in [Workers -> Jobs] /\ \A v \in Workers : PlaceOK(v)'
    BY <2>1, <2>2, PlaceStep
  <2> QED BY <2>1, <2>3 DEF TypeInv, TypeOK, business, bounds, history
<1>24. ASSUME NEW k \in Invoices, CheckUnpaid(k) PROVE TypeInv'
  <2>1. /\ row' \in [Invoices -> Rows]
        /\ UNCHANGED <<business, lines, counter, remote, job, bounds, history>>
    BY <1>24, CheckUnpaidFacts
  <2> QED BY <2>1 DEF TypeInv, TypeOK, PlaceOK, business, bounds, history
<1>25. CASE NextDay
  <2> DEFINE S == {d \in Nights : d > today}
  <2>1. S # {} /\ S \subseteq Nat /\ S \subseteq Nights
    BY <1>25, InvoicesAssumption DEF InvoicesAssumption, NextDay
  <2>2. /\ today' = Min(S)
        /\ UNCHANGED <<rule, ready, gone, cut, row, lines, counter, remote, job, bounds,
                       history>>
    BY <1>25 DEF NextDay
  <2> HIDE DEF S
  <2>3. today' \in Nights
    BY <2>1, <2>2, MinNat
  <2> QED BY <2>2, <2>3 DEF TypeInv, TypeOK, PlaceOK, bounds, history
<1>26. ASSUME NEW s \in Sheets, SheetReady(s) PROVE TypeInv'
  <2>1. /\ ready' \subseteq Sheets /\ ready' \cap gone = {}
        /\ UNCHANGED <<rule, today, gone, cut, row, lines, counter, remote, job, bounds,
                       history>>
    BY <1>26 DEF SheetReady, TypeInv, TypeOK
  <2> QED BY <2>1 DEF TypeInv, TypeOK, PlaceOK, bounds, history
<1>27. ASSUME NEW s \in Sheets, DeleteSheet(s) PROVE TypeInv'
  <2>1. /\ tasks' \in 0..MaxTasks /\ ready' = ready \ {s} /\ gone' = gone \cup {s}
        /\ cut' \subseteq Invoices /\ lines' \in [Invoices -> Bags]
        /\ UNCHANGED <<rule, today, row, counter, remote, job, faults, history>>
    BY <1>27, DeleteSheetFacts
  <2>2. ready' \subseteq Sheets /\ gone' \subseteq Sheets /\ ready' \cap gone' = {}
    BY <2>1 DEF TypeInv, TypeOK
  <2> QED BY <2>1, <2>2 DEF TypeInv, TypeOK, PlaceOK, history
<1> QED
  BY <1>1, <1>2, <1>3, <1>4, <1>5, <1>6, <1>7, <1>8, <1>9, <1>10, <1>11,
     <1>12, <1>13, <1>14, <1>15, <1>16, <1>17, <1>18, <1>19, <1>20, <1>21,
     <1>22, <1>23, <1>24, <1>25, <1>26, <1>27, NextCases

\* It holds at first.
LEMMA TypeInit ==
  ASSUME Init
  PROVE  TypeInv
<1>1. today \in Nights
  BY InvoicesAssumption, MinNat DEF InvoicesAssumption, Init
<1>2. row \in [Invoices -> Rows] /\ lines \in [Invoices -> Bags] /\ job \in [Workers -> Jobs]
  BY IdleType DEF Init
<1>3. /\ counter \in Nat /\ faults \in 0..MaxFaults /\ tasks \in 0..MaxTasks
      /\ remote \in [Invoices -> [copies : Nat, lines : Nat]]
  BY InvoicesAssumption DEF InvoicesAssumption, Init
<1>4. /\ rule \in Rules /\ ready \subseteq Sheets /\ overlap \in BOOLEAN
      /\ mixed \subseteq Invoices /\ broken \subseteq Invoices /\ skipped \subseteq Invoices
      /\ gone \subseteq Sheets /\ cut \subseteq Invoices /\ ready \cap gone = {}
  BY DEF Init
<1>5. \A w \in Workers : PlaceOK(w)
  BY IdleType DEF Init, PlaceOK, Syncing, Requests
<1> QED BY <1>1, <1>2, <1>3, <1>4, <1>5 DEF TypeInv, TypeOK

\* Nor does a step that changes nothing disturb it.
LEMMA TypeStutter ==
  ASSUME TypeInv, UNCHANGED vars
  PROVE  TypeInv'
BY DEF vars, business, bounds, history, TypeInv, TypeOK, PlaceOK

\* The workers are at their places throughout.
LEMMA Typed == Spec => []TypeInv
<1>1. Init => TypeInv
  BY TypeInit
<1>2. TypeInv /\ [Next]_vars => TypeInv'
  BY TypeStep, TypeStutter
<1> QED BY <1>1, <1>2, PTL DEF Spec

\* The rows, the lines, the documents and the workers have their values, and so
\* have the day and the dates that generate_invoice bills up to.
THEOREM TypeCorrect == Spec => []TypeOK
<1>1. TypeInv => TypeOK
  BY DEF TypeInv
<1> QED BY <1>1, Typed, PTL

-----------------------------------------------------------------------------
(* Work on the invoices *)

\* What the rows keep whoever works on them.
RowsKept ==
  \A k \in Invoices : row[k].state # "none" =>
    row'[k].state # "none" /\ row'[k].number = row[k].number
\* What a row keeps unless its worker changes it.
RowKept(k) ==
  /\ row'[k].state = row[k].state /\ row'[k].sync = row[k].sync
  /\ row'[k].approved = row[k].approved

\* A worker changes its own invoice only, and the others stay alone on theirs.
LEMMA WorkStep ==
  ASSUME TypeInv, WorkInv, NEW w \in Workers, Only(w), mixed \subseteq mixed',
         RowsKept, RowsOK',
         \A k \in Invoices : row[k].state = "none" \/ w \in Busy(k) \/ RowKept(k),
         job'[w].on \in Invoices => row'[job'[w].on].state # "none",
         job'[w].on \in Invoices \ mixed' =>
           w \in Busy(job'[w].on) \/ Busy(job'[w].on) = {},
         RequestOK(w)', UpdateOK(w)'
  PROVE  WorkInv'
<1>1. ASSUME NEW v \in Workers, v # w
      PROVE  /\ job'[v] = job[v]
             /\ job[v].on \in Invoices => row[job[v].on].state # "none"
             /\ RequestOK(v) /\ UpdateOK(v)
  BY <1>1 DEF Only, WorkInv
<1>2. Alone'
  <2> SUFFICES ASSUME NEW i \in Invoices, i \notin mixed',
                      NEW u \in Workers, NEW v \in Workers,
                      job'[u].at # "idle", job'[u].on = i,
                      job'[v].at # "idle", job'[v].on = i
               PROVE  u = v
    BY DEF Alone, Busy
  <2>1. \A x, y \in Busy(i) : x = y
    BY DEF WorkInv, Alone
  <2>2. CASE u # w /\ v # w
    BY <1>1, <2>1, <2>2 DEF Busy
  <2>3. CASE u = w /\ v # w
    <3>1. v \in Busy(i)
      BY <1>1, <2>3 DEF Busy
    <3>2. w \in Busy(i)
      BY <2>3, <3>1
    <3> QED BY <2>1, <2>3, <3>1, <3>2
  <2>4. CASE u # w /\ v = w
    <3>1. u \in Busy(i)
      BY <1>1, <2>4 DEF Busy
    <3>2. w \in Busy(i)
      BY <2>4, <3>1
    <3> QED BY <2>1, <2>4, <3>1, <3>2
  <2> QED BY <2>2, <2>3, <2>4
<1>3. ASSUME NEW v \in Workers, v # w, job[v].on \in Invoices, job[v].at # "idle",
             job[v].on \notin mixed'
      PROVE  RowKept(job[v].on)
  <2>1. v \in Busy(job[v].on) /\ job[v].on \notin mixed
    BY <1>3 DEF Busy
  <2>2. w \notin Busy(job[v].on)
    BY <1>3, <2>1 DEF WorkInv, Alone
  <2>3. row[job[v].on].state # "none"
    BY <1>1, <1>3
  <2> QED BY <1>3, <2>2, <2>3
<1>4. ASSUME NEW v \in Workers
      PROVE  /\ job'[v].on \in Invoices => row'[job'[v].on].state # "none"
             /\ RequestOK(v)' /\ UpdateOK(v)'
  <2>1. CASE v = w
    BY <2>1
  <2>2. CASE v # w
    <3>1. job'[v] = job[v]
      BY <1>1, <2>2
    <3>2. job'[v].on \in Invoices => row'[job'[v].on].state # "none"
      BY <1>1, <2>2 DEF RowsKept
    <3>3. RequestOK(v)'
      <4> SUFFICES ASSUME job[v].at \in Requests
                   PROVE  /\ job[v].copy.state = "live"
                          /\ job[v].copy.number = row'[job[v].on].number
                          /\ job[v].on \notin mixed' =>
                               /\ row'[job[v].on].state = "live"
                               /\ job[v].copy.sync = row'[job[v].on].sync
                               /\ job[v].at = "destroy" => ~row'[job[v].on].approved
        BY <3>1 DEF RequestOK, Live
      <4>1. job[v].on \in Invoices /\ job[v].at # "idle"
        BY DEF TypeInv, PlaceOK, Requests
      <4>2. RequestOK(v) /\ row[job[v].on].state # "none"
        BY <1>1, <2>2, <4>1
      <4>3. /\ job[v].copy.state = "live"
            /\ job[v].copy.number = row'[job[v].on].number
        BY <4>1, <4>2 DEF RequestOK, RowsKept
      <4>4. ASSUME job[v].on \notin mixed'
            PROVE  /\ row'[job[v].on].state = "live"
                   /\ job[v].copy.sync = row'[job[v].on].sync
                   /\ job[v].at = "destroy" => ~row'[job[v].on].approved
        <5>1. RowKept(job[v].on) /\ job[v].on \notin mixed
          BY <1>3, <2>2, <4>1, <4>4
        <5> QED BY <4>2, <5>1 DEF RequestOK, RowKept, Live
      <4> QED BY <4>3, <4>4
    <3>4. UpdateOK(v)'
      <4> SUFFICES ASSUME job[v].at \in Generating, job[v].on \in Invoices,
                          job[v].on \notin mixed'
                   PROVE  /\ ~row'[job[v].on].approved
                          /\ row'[job[v].on].sync \notin
                               {"sync_scheduled", "syncing", "synced"}
        BY <3>1 DEF UpdateOK
      <4>1. job[v].at # "idle"
        BY DEF Generating
      <4>2. RowKept(job[v].on) /\ job[v].on \notin mixed /\ UpdateOK(v)
        BY <1>1, <1>3, <2>2, <4>1
      <4> QED BY <4>2 DEF UpdateOK, RowKept
    <3> QED BY <3>2, <3>3, <3>4
  <2> QED BY <2>1, <2>2
<1> QED BY <1>2, <1>4 DEF WorkInv

\* A worker that ends its task, or does not touch the rows.
LEMMA WorkIdle ==
  ASSUME TypeInv, WorkInv, NEW w \in Workers, Only(w), job'[w] = Idle,
         UNCHANGED row, RowsOK', mixed' = mixed
  PROVE  WorkInv'
<1>1. RowsKept /\ \A k \in Invoices : RowKept(k)
  BY DEF RowsKept, RowKept
<1>2. RequestOK(w)' /\ UpdateOK(w)'
  BY IdleType DEF RequestOK, UpdateOK, Requests, Generating
<1>3. job'[w].on \notin Invoices
  BY IdleType, InvoicesAssumption DEF InvoicesAssumption
<1> QED BY <1>1, <1>2, <1>3, WorkStep

\* A worker that goes on with its invoice and leaves the rows alone.
LEMMA WorkQuiet ==
  ASSUME TypeInv, WorkInv, NEW w \in Workers, Only(w), UNCHANGED row, RowsOK',
         mixed' = mixed, job[w].at # "idle", job'[w].on = job[w].on,
         job'[w].at \notin Requests,
         job'[w].at \in Generating => job[w].at \in Generating
  PROVE  WorkInv'
<1>1. RowsKept /\ \A k \in Invoices : RowKept(k)
  BY DEF RowsKept, RowKept
<1>2. UpdateOK(w) /\ (job[w].on \in Invoices => row[job[w].on].state # "none")
  BY DEF WorkInv
<1>3. RequestOK(w)' /\ UpdateOK(w)'
  BY <1>2 DEF RequestOK, UpdateOK
<1>4. job'[w].on \in Invoices => w \in Busy(job'[w].on)
  BY DEF Busy
<1> QED BY <1>1, <1>2, <1>3, <1>4, WorkStep

\* A worker that changes the status of its invoice.
LEMMA WorkMarked ==
  ASSUME TypeInv, WorkInv, NEW w \in Workers, Only(w), UNCHANGED <<lines, remote>>,
         mixed' = mixed, job[w].at # "idle", job[w].on \in Invoices,
         \/ job'[w] = Idle /\ UNCHANGED row
         \/ /\ \E st \in SyncStates : Marked(job[w].on, st)
            /\ \/ job'[w] = Idle
               \/ /\ job'[w].on = job[w].on
                  /\ job'[w].at \notin Requests \cup Generating
  PROVE  WorkInv'
<1>1. \A k \in Invoices :
        row'[k].state = row[k].state /\ row'[k].number = row[k].number
  BY DEF Marked
<1>2. RowsKept
  BY <1>1 DEF RowsKept
<1>3. w \in Busy(job[w].on)
  BY DEF Busy
<1>4. \A k \in Invoices : w \in Busy(k) \/ RowKept(k)
  BY <1>3 DEF RowKept, Marked
<1>5. RowsOK'
  BY <1>1 DEF RowsOK, WorkInv
<1>6. job'[w].on \in Invoices => job'[w].on = job[w].on
  BY IdleType, InvoicesAssumption DEF InvoicesAssumption
<1>7. job'[w].at \notin Requests \cup Generating
  BY IdleType DEF Requests, Generating
<1>8. RequestOK(w)' /\ UpdateOK(w)'
  BY <1>7 DEF RequestOK, UpdateOK
<1>9. job'[w].on \in Invoices => row'[job'[w].on].state # "none"
  BY <1>1, <1>6 DEF WorkInv
<1> QED BY <1>2, <1>3, <1>4, <1>5, <1>6, <1>8, <1>9, WorkStep

\* Every action keeps that.
LEMMA WorkNext ==
  ASSUME TypeInv, WorkInv, Next
  PROVE  WorkInv'
<1> USE DEF RowsOK
<1>1. ASSUME NEW w \in Workers, NEW i, Begins(w, i) PROVE WorkInv'
  <2>1. PICK to \in Int, s \in Sheets \cup {NoSheet} : Start(w, i, to, s)
    BY <1>1 DEF Begins
  <2>2. i \in Invoices \cup {NoInvoice} /\ (i \in Invoices => Live(i) /\ ~Denied(i))
    BY <1>1 DEF Begins
  <2>3. /\ Only(w) /\ mixed \subseteq mixed'
        /\ i \in Invoices /\ i \notin mixed' => Busy(i) = {}
        /\ job'[w].at = "select" /\ job'[w].on = i
        /\ UNCHANGED <<row, lines, remote>>
    BY <2>1, <2>2, StartFacts
  <2>4. RowsKept /\ \A k \in Invoices : RowKept(k)
    BY <2>3 DEF RowsKept, RowKept
  <2>5. RowsOK'
    BY <2>3 DEF WorkInv
  <2>6. RequestOK(w)' /\ UpdateOK(w)'
    BY <2>2, <2>3 DEF RequestOK, UpdateOK, Requests, Denied
  <2>7. job'[w].on \in Invoices => row'[job'[w].on].state # "none"
    BY <2>2, <2>3 DEF Live
  <2> QED BY <2>3, <2>4, <2>5, <2>6, <2>7, WorkStep
<1>2. ASSUME NEW w \in Workers, NEW g \in SUBSET Sheets, Select(w, g) PROVE WorkInv'
  <2>1. /\ Only(w) /\ UNCHANGED <<row, lines, remote, mixed>>
        /\ job[w].at = "select" /\ job'[w].at \in {"select", "old", "number"}
        /\ job'[w].on = job[w].on
    BY <1>2, SelectFacts DEF history
  <2>2. RowsOK'
    BY <2>1 DEF WorkInv
  <2> QED BY <2>1, <2>2, WorkQuiet DEF Requests, Generating, Syncing
<1>3. ASSUME NEW w \in Workers, Finish(w) PROVE WorkInv'
  <2>1. End(w) /\ UNCHANGED <<row, lines, remote, mixed>>
    BY <1>3 DEF Finish, history
  <2>2. Only(w) /\ job'[w] = Idle
    BY <2>1, EndFacts DEF TypeInv, TypeOK
  <2>3. RowsOK'
    BY <2>1 DEF WorkInv
  <2> QED BY <2>1, <2>2, <2>3, WorkIdle
<1>4. ASSUME NEW w \in Workers, ReadRule(w) PROVE WorkInv'
  <2>1. /\ Only(w) /\ UNCHANGED <<row, lines, remote, mixed>>
        /\ job[w].at = "number" /\ job'[w].at = "rule" /\ job'[w].on = job[w].on
    BY <1>4, ReadRuleFacts DEF history
  <2>2. RowsOK'
    BY <2>1 DEF WorkInv
  <2> QED BY <2>1, <2>2, WorkQuiet DEF Requests, Generating, Syncing
<1>5. ASSUME NEW w \in Workers, SaveRule(w) PROVE WorkInv'
  <2>1. /\ Only(w) /\ UNCHANGED <<row, lines, remote, mixed>>
        /\ job[w].at = "rule" /\ job'[w].at = "insert" /\ job'[w].on = job[w].on
    BY <1>5, SaveRuleFacts DEF history
  <2>2. RowsOK'
    BY <2>1 DEF WorkInv
  <2> QED BY <2>1, <2>2, WorkQuiet DEF Requests, Generating, Syncing
<1>6. ASSUME NEW w \in Workers, Insert(w) PROVE WorkInv'
  <2>1. PICK i \in Invoices :
          /\ job[w].at = "insert" /\ Only(w)
          /\ job'[w].at = "old" /\ job'[w].on = i
          /\ row[i].state = "none" /\ row' \in [Invoices -> Rows]
          /\ \A k \in Invoices \ {i} : row'[k] = row[k]
          /\ row'[i].state = "live" /\ row'[i].sync = "not_synced"
          /\ row'[i].approved = FALSE
          /\ UNCHANGED <<lines, remote, mixed>>
    BY <1>6, InsertFacts DEF history
  <2>2. RowsKept /\ \A k \in Invoices : row[k].state = "none" \/ RowKept(k)
    BY <2>1 DEF RowsKept, RowKept
  <2>3. RowsOK'
    BY <2>1 DEF WorkInv
  <2>4. Busy(i) = {}
    BY <2>1 DEF WorkInv, Busy
  <2>5. RequestOK(w)' /\ UpdateOK(w)'
    BY <2>1 DEF RequestOK, UpdateOK, Requests
  <2> QED BY <2>1, <2>2, <2>3, <2>4, <2>5, WorkStep
<1>7. ASSUME NEW w \in Workers, ReadLines(w) PROVE WorkInv'
  <2>1. /\ Only(w) /\ UNCHANGED <<row, lines, remote, mixed>>
        /\ job[w].at = "old" /\ job'[w].at = "delete" /\ job'[w].on = job[w].on
    BY <1>7, ReadLinesFacts DEF history
  <2>2. RowsOK'
    BY <2>1 DEF WorkInv
  <2> QED BY <2>1, <2>2, WorkQuiet DEF Requests, Generating, Syncing
<1>8. ASSUME NEW w \in Workers, NEW s \in Sheets, DeleteLine(w, s) PROVE WorkInv'
  <2>1. /\ job[w].at = "delete" /\ job[w].on \in Invoices /\ Only(w)
        /\ job'[w].at = "delete" /\ job'[w].on = job[w].on
        /\ \A k \in Invoices \ {job[w].on} : lines'[k] = lines[k]
        /\ UNCHANGED <<row, remote, mixed>>
    BY <1>8, DeleteLineFacts DEF history
  <2>2. RowsOK'
    BY <2>1 DEF WorkInv
  <2> QED BY <2>1, <2>2, WorkQuiet DEF Requests, Generating
<1>9. ASSUME NEW w \in Workers, InsertLines(w) PROVE WorkInv'
  <2>1. /\ job[w].at = "delete" /\ job[w].on \in Invoices /\ Only(w)
        /\ UNCHANGED <<row, remote, mixed>>
        /\ \/ job'[w] = Idle /\ UNCHANGED lines
           \/ /\ job'[w].at = "total" /\ job'[w].on = job[w].on
              /\ \A k \in Invoices \ {job[w].on} : lines'[k] = lines[k]
    BY <1>9, InsertLinesFacts DEF history
  <2>2. RowsOK'
    BY <2>1 DEF WorkInv
  <2>3. CASE job'[w] = Idle
    BY <2>1, <2>2, <2>3, WorkIdle
  <2>4. CASE job'[w].at = "total" /\ job'[w].on = job[w].on
    BY <2>1, <2>2, <2>4, WorkQuiet DEF Requests, Generating
  <2> QED BY <2>1, <2>3, <2>4
<1>10. ASSUME NEW w \in Workers, SaveTotal(w) PROVE WorkInv'
  <2>1. /\ job[w].at = "total" /\ job[w].on \in Invoices /\ Only(w)
        /\ UNCHANGED <<lines, remote, mixed>>
        /\ \/ job'[w] = Idle /\ UNCHANGED row
           \/ /\ Live(job[w].on) /\ job'[w].at = "select"
              /\ job'[w].on = IF job[w].given THEN job[w].on ELSE NoInvoice
              /\ \A k \in Invoices \ {job[w].on} : row'[k] = row[k]
              /\ row'[job[w].on].number = row[job[w].on].number
              /\ row'[job[w].on].state = "live"
              /\ row'[job[w].on].approved = row[job[w].on].approved
              /\ row'[job[w].on].sync = row[job[w].on].sync
    BY <1>10, SaveTotalFacts DEF history
  <2>2. CASE job'[w] = Idle /\ UNCHANGED row
    <3>1. RowsOK'
      BY <2>1, <2>2 DEF WorkInv
    <3> QED BY <2>1, <2>2, <3>1, WorkIdle
  <2>3. CASE ~(job'[w] = Idle /\ UNCHANGED row)
    <3>1. RowsKept /\ \A k \in Invoices : RowKept(k)
      BY <2>1, <2>3 DEF RowsKept, RowKept, Live
    <3>2. RowsOK'
      BY <2>1, <3>1 DEF WorkInv, RowKept
    <3>3. RequestOK(w)'
      BY <2>1, <2>3 DEF RequestOK, Requests
    <3>4. UpdateOK(w)
      BY DEF WorkInv
    <3>5. UpdateOK(w)'
      <4>1. job'[w].on = job[w].on \/ job'[w].on \notin Invoices
        BY <2>1, <2>3, InvoicesAssumption DEF InvoicesAssumption
      <4> QED BY <2>1, <2>3, <3>4, <4>1 DEF UpdateOK, Generating
    <3>6. job'[w].on \in Invoices =>
            row'[job'[w].on].state # "none" /\ w \in Busy(job'[w].on)
      BY <2>1, <2>3, InvoicesAssumption DEF InvoicesAssumption, Busy
    <3> QED BY <2>1, <3>1, <3>2, <3>3, <3>5, <3>6, WorkStep
  <2> QED BY <2>2, <2>3
<1>11. ASSUME NEW w \in Workers, NEW i \in Invoices, BeginSync(w, i) PROVE WorkInv'
  <2>1. /\ Live(i) /\ Only(w) /\ mixed \subseteq mixed'
        /\ i \notin mixed' => Busy(i) = {}
        /\ job'[w].at = "schedule" /\ job'[w].on = i
        /\ UNCHANGED <<row, lines, remote>>
    BY <1>11, BeginSyncFacts
  <2>2. RowsKept /\ \A k \in Invoices : RowKept(k)
    BY <2>1 DEF RowsKept, RowKept
  <2>3. RowsOK'
    BY <2>1 DEF WorkInv
  <2>4. RequestOK(w)' /\ UpdateOK(w)'
    BY <2>1 DEF RequestOK, UpdateOK, Requests, Generating
  <2>5. row'[i].state # "none"
    BY <2>1 DEF Live
  <2> QED BY <2>1, <2>2, <2>3, <2>4, <2>5, WorkStep
<1>12. ASSUME NEW w \in Workers, NEW i \in Invoices, NEW what \in Requests, BeginRequest(w, i, what) PROVE WorkInv'
  <2>1. /\ Live(i) /\ (what = "destroy" => ~row[i].approved)
        /\ Only(w) /\ mixed \subseteq mixed'
        /\ i \notin mixed' => Busy(i) = {}
        /\ job'[w].at = what /\ job'[w].on = i /\ job'[w].copy = row[i]
        /\ UNCHANGED <<row, lines, remote>>
    BY <1>12, BeginRequestFacts
  <2>2. RowsKept /\ \A k \in Invoices : RowKept(k)
    BY <2>1 DEF RowsKept, RowKept
  <2>3. RowsOK'
    BY <2>1 DEF WorkInv
  <2>4. RequestOK(w)'
    BY <2>1 DEF RequestOK, Live
  <2>5. UpdateOK(w)'
    BY <2>1 DEF UpdateOK, Requests, Generating
  <2>6. row'[i].state # "none"
    BY <2>1 DEF Live
  <2> QED BY <2>1, <2>2, <2>3, <2>4, <2>5, <2>6, WorkStep
<1>13. ASSUME NEW w \in Workers, Schedule(w) PROVE WorkInv'
  <2>1. /\ job[w].at = "schedule" /\ job[w].on \in Invoices /\ Only(w)
        /\ UNCHANGED <<lines, remote, mixed>>
        /\ \/ job'[w] = Idle /\ UNCHANGED row
           \/ /\ \E st \in SyncStates : Marked(job[w].on, st)
              /\ job'[w].at = "get" /\ job'[w].on = job[w].on
    BY <1>13, ScheduleFacts DEF history, SyncStates
  <2> QED BY <2>1, WorkMarked DEF Requests, Generating
<1>14. ASSUME NEW w \in Workers, Mark(w) PROVE WorkInv'
  <2>1. /\ job[w].at = "mark" /\ job[w].on \in Invoices /\ Only(w)
        /\ UNCHANGED <<lines, remote, mixed>>
        /\ \/ job'[w] = Idle /\ UNCHANGED row
           \/ /\ \E st \in SyncStates : Marked(job[w].on, st)
              /\ job'[w].at = "compare" /\ job'[w].on = job[w].on
    BY <1>14, MarkFacts DEF history, SyncStates
  <2> QED BY <2>1, WorkMarked DEF Requests, Generating
<1>15. ASSUME NEW w \in Workers, Fail(w) PROVE WorkInv'
  <2>1. /\ job[w].at = "fail" /\ job[w].on \in Invoices /\ Only(w)
        /\ UNCHANGED <<lines, remote, mixed>>
        /\ \/ job'[w] = Idle /\ UNCHANGED row
           \/ /\ \E st \in SyncStates : Marked(job[w].on, st)
              /\ job'[w] = Idle
    BY <1>15, FailFacts DEF history, SyncStates
  <2> QED BY <2>1, WorkMarked DEF Requests, Generating
<1>16. ASSUME NEW w \in Workers, Done(w) PROVE WorkInv'
  <2>1. /\ job[w].at = "done" /\ job[w].on \in Invoices /\ Only(w)
        /\ UNCHANGED <<lines, remote, mixed>>
        /\ \/ job'[w] = Idle /\ UNCHANGED row
           \/ /\ \E st \in SyncStates : Marked(job[w].on, st)
              /\ job'[w] = Idle
    BY <1>16, DoneFacts DEF history, SyncStates
  <2> QED BY <2>1, WorkMarked DEF Requests, Generating
<1>17. ASSUME NEW w \in Workers, Get(w) PROVE WorkInv'
  <2>1. /\ Only(w) /\ UNCHANGED <<row, lines, remote, mixed>>
        /\ job[w].at = "get" /\ job'[w].at = "mark" /\ job'[w].on = job[w].on
    BY <1>17, GetFacts DEF history
  <2>2. RowsOK'
    BY <2>1 DEF WorkInv
  <2> QED BY <2>1, <2>2, WorkQuiet DEF Requests, Generating, Syncing
<1>18. ASSUME NEW w \in Workers, Compare(w) PROVE WorkInv'
  <2>1. /\ job[w].at = "compare" /\ Only(w)
        /\ UNCHANGED <<row, lines, remote, mixed>>
        /\ \/ job'[w] = Idle
           \/ /\ job'[w].at \in {"fail", "post", "put", "done"} /\ job'[w].on = job[w].on
    BY <1>18, CompareFacts
  <2>2. RowsOK'
    BY <2>1 DEF WorkInv
  <2>3. CASE job'[w] = Idle
    BY <2>1, <2>2, <2>3, WorkIdle
  <2>4. CASE job'[w].at \in {"fail", "post", "put", "done"} /\ job'[w].on = job[w].on
    BY <2>1, <2>2, <2>4, WorkQuiet DEF Requests, Generating
  <2> QED BY <2>1, <2>3, <2>4
<1>19. ASSUME NEW w \in Workers, Post(w) PROVE WorkInv'
  <2>1. /\ job[w].at = "post" /\ job[w].on \in Invoices /\ Only(w)
        /\ job'[w].at \in {"done", "fail"} /\ job'[w].on = job[w].on
        /\ \A k \in Invoices \ {job[w].on} : remote'[k] = remote[k]
        /\ UNCHANGED <<row, lines, mixed>>
    BY <1>19, PostFacts
  <2>2. RowsOK'
    BY <2>1 DEF WorkInv
  <2> QED BY <2>1, <2>2, WorkQuiet DEF Requests, Generating
<1>20. ASSUME NEW w \in Workers, Put(w) PROVE WorkInv'
  <2>1. /\ job[w].at = "put" /\ Only(w)
        /\ job'[w].at \in {"done", "fail"} /\ job'[w].on = job[w].on
        /\ \A k \in Invoices : remote'[k].copies = remote[k].copies
        /\ UNCHANGED <<row, lines, mixed>>
    BY <1>20, PutFacts
  <2>2. RowsOK'
    BY <2>1 DEF WorkInv
  <2> QED BY <2>1, <2>2, WorkQuiet DEF Requests, Generating
<1>21. ASSUME NEW w \in Workers, Approve(w) PROVE WorkInv'
  <2>1. /\ job[w].at = "approve" /\ job[w].on \in Invoices /\ Only(w) /\ job'[w] = Idle
        /\ \A k \in Invoices \ {job[w].on} : row'[k] = row[k]
        /\ row'[job[w].on].state = job[w].copy.state
        /\ row'[job[w].on].number = job[w].copy.number
        /\ UNCHANGED <<lines, remote, mixed>>
    BY <1>21, ApproveFacts DEF history
  <2>2. job[w].copy.state = "live" /\ job[w].copy.number = row[job[w].on].number
    BY <2>1 DEF WorkInv, RequestOK, Requests
  <2>3. w \in Busy(job[w].on)
    BY <2>1 DEF Busy
  <2>4. RowsKept /\ \A k \in Invoices : w \in Busy(k) \/ RowKept(k)
    BY <2>1, <2>2, <2>3 DEF RowsKept, RowKept
  <2>5. RowsOK'
    BY <2>1, <2>2 DEF WorkInv
  <2>6. RequestOK(w)' /\ UpdateOK(w)' /\ job'[w].on \notin Invoices
    BY <2>1, IdleType, InvoicesAssumption
       DEF InvoicesAssumption, RequestOK, UpdateOK, Requests, Generating
  <2> QED BY <2>1, <2>4, <2>5, <2>6, WorkStep
<1>22. ASSUME NEW w \in Workers, Destroy(w) PROVE WorkInv'
  <2>1. /\ job[w].at = "destroy" /\ job[w].on \in Invoices /\ Only(w) /\ job'[w] = Idle
        /\ \A k \in Invoices \ {job[w].on} : row'[k] = row[k]
        /\ row'[job[w].on].state = "deleted"
        /\ row'[job[w].on].number = row[job[w].on].number
        /\ \A k \in Invoices \ {job[w].on} : lines'[k] = lines[k]
        /\ UNCHANGED <<remote, mixed>>
    BY <1>22, DestroyFacts DEF history
  <2>2. w \in Busy(job[w].on)
    BY <2>1 DEF Busy
  <2>3. RowsKept /\ \A k \in Invoices : w \in Busy(k) \/ RowKept(k)
    BY <2>1, <2>2 DEF RowsKept, RowKept
  <2>4. RowsOK'
    BY <2>1 DEF WorkInv
  <2>5. RequestOK(w)' /\ UpdateOK(w)' /\ job'[w].on \notin Invoices
    BY <2>1, IdleType, InvoicesAssumption
       DEF InvoicesAssumption, RequestOK, UpdateOK, Requests, Generating
  <2> QED BY <2>1, <2>3, <2>4, <2>5, WorkStep
<1>23. ASSUME NEW w \in Workers, Die(w) PROVE WorkInv'
  <2>1. Only(w) /\ job'[w] = Idle /\ UNCHANGED <<row, lines, remote, mixed>>
    BY <1>23, DieFacts
  <2>2. RowsOK'
    BY <2>1 DEF WorkInv
  <2> QED BY <2>1, <2>2, WorkIdle
<1>24. ASSUME NEW k \in Invoices, CheckUnpaid(k) PROVE WorkInv'
  <2>1. /\ \A i \in Invoices :
              /\ row'[i].state = row[i].state /\ row'[i].number = row[i].number
              /\ row'[i].sync = row[i].sync /\ row'[i].approved = row[i].approved
        /\ UNCHANGED <<lines, remote, job, mixed>>
    BY <1>24, CheckUnpaidFacts DEF history
  <2>2. RowsOK' /\ Alone'
    BY <2>1 DEF WorkInv, Alone, Busy
  <2>3. ASSUME NEW v \in Workers
        PROVE  /\ job'[v].on \in Invoices => row'[job'[v].on].state # "none"
               /\ RequestOK(v)' /\ UpdateOK(v)'
    <3>1. /\ job[v].on \in Invoices => row[job[v].on].state # "none"
          /\ RequestOK(v) /\ UpdateOK(v)
      BY DEF WorkInv
    <3>2. job[v].at \in Requests => job[v].on \in Invoices
      BY DEF TypeInv, PlaceOK
    <3>3. RequestOK(v)'
      BY <2>1, <3>1, <3>2 DEF RequestOK, Live
    <3>4. UpdateOK(v)'
      BY <2>1, <3>1 DEF UpdateOK
    <3> QED BY <2>1, <3>1, <3>3, <3>4
  <2> QED BY <2>2, <2>3 DEF WorkInv
<1>25. CASE NextDay
  BY <1>25 DEF NextDay, history, WorkInv, Alone, Busy, RequestOK, UpdateOK, Live
<1>26. ASSUME NEW s \in Sheets, SheetReady(s) PROVE WorkInv'
  BY <1>26 DEF SheetReady, history, WorkInv, Alone, Busy, RequestOK, UpdateOK, Live
<1>27. ASSUME NEW s \in Sheets, DeleteSheet(s) PROVE WorkInv'
  <2>1. /\ \A i \in Invoices : lines[i] \in [Sheets -> Nat] /\ lines'[i] \in [Sheets -> Nat]
        /\ \A i \in Invoices, r \in Sheets : lines'[i][r] <= lines[i][r]
        /\ UNCHANGED <<row, remote, job, mixed>>
    BY <1>27, DeleteSheetFacts DEF history, TypeInv, TypeOK, Bags
  <2>2. RowsOK'
    <3> SUFFICES ASSUME NEW i \in Invoices, row[i].state = "none"
                 PROVE  lines'[i] = Empty /\ remote[i].copies = 0
      BY <2>1
    <3>1. lines[i] = Empty /\ remote[i].copies = 0
      BY DEF WorkInv
    <3>2. \A r \in Sheets : lines'[i][r] = 0
      BY <2>1, <3>1 DEF Empty
    <3> QED BY <2>1, <3>1, <3>2 DEF Empty
  <2> QED BY <2>1, <2>2 DEF WorkInv, Alone, Busy, RequestOK, UpdateOK, Live
<1> QED
  BY <1>1, <1>2, <1>3, <1>4, <1>5, <1>6, <1>7, <1>8, <1>9, <1>10, <1>11,
     <1>12, <1>13, <1>14, <1>15, <1>16, <1>17, <1>18, <1>19, <1>20, <1>21,
     <1>22, <1>23, <1>24, <1>25, <1>26, <1>27, NextCases

\* It holds at first, and when nothing changes.
LEMMA WorkInit ==
  ASSUME Init
  PROVE  WorkInv
<1>1. RowsOK
  BY DEF Init, RowsOK
<1>2. \A w \in Workers : job[w].at = "idle" /\ job[w].on \notin Invoices
  BY IdleType, InvoicesAssumption DEF InvoicesAssumption, Init
<1> QED BY <1>1, <1>2 DEF WorkInv, Alone, Busy, RequestOK, UpdateOK, Requests, Generating

\* Nor does a step that changes nothing disturb it.
LEMMA WorkStutter ==
  ASSUME WorkInv, UNCHANGED vars
  PROVE  WorkInv'
BY DEF vars, business, bounds, history, WorkInv, RowsOK, Alone, Busy, RequestOK, UpdateOK, Live

\* Who works on what, throughout.
LEMMA Working == Spec => [](TypeInv /\ WorkInv)
<1>1. Init => TypeInv /\ WorkInv
  BY TypeInit, WorkInit
<1>2. TypeInv /\ WorkInv /\ [Next]_vars => (TypeInv /\ WorkInv)'
  BY TypeStep, TypeStutter, WorkNext, WorkStutter
<1> QED BY <1>1, <1>2, PTL DEF Spec

-----------------------------------------------------------------------------
(* Approved invoices *)

\* Only a generation or a deletion, of the invoice or of a sheet, changes the
\* lines of an invoice.
LEMMA LinesChange ==
  ASSUME TypeInv, Next, NEW i \in Invoices
  PROVE  \/ lines'[i] = lines[i]
         \/ \E w \in Busy(i) : job[w].at \in {"delete", "destroy"}
         \/ \E s \in Sheets : DeleteSheet(s)
<1>1. ASSUME NEW w \in Workers, NEW s \in Sheets, DeleteLine(w, s)
      PROVE  lines'[i] = lines[i] \/ (w \in Busy(i) /\ job[w].at = "delete")
  BY <1>1, DeleteLineFacts DEF Busy
<1>2. ASSUME NEW w \in Workers, InsertLines(w)
      PROVE  lines'[i] = lines[i] \/ (w \in Busy(i) /\ job[w].at = "delete")
  BY <1>2, InsertLinesFacts DEF Busy
<1>3. ASSUME NEW w \in Workers, Destroy(w)
      PROVE  lines'[i] = lines[i] \/ (w \in Busy(i) /\ job[w].at = "destroy")
  BY <1>3, DestroyFacts DEF Busy
<1>4. ASSUME NEW w \in Workers,
             \/ \E k : Begins(w, k)
             \/ \E g \in SUBSET Sheets : Select(w, g)
             \/ Finish(w) \/ ReadRule(w) \/ SaveRule(w) \/ Insert(w) \/ ReadLines(w)
             \/ SaveTotal(w)
      PROVE  lines'[i] = lines[i]
  BY <1>4 DEF Begins, Start, Select, Finish, ReadRule, SaveRule, Insert, ReadLines, SaveTotal
<1>5. ASSUME NEW w \in Workers,
             \/ \E k \in Invoices : BeginSync(w, k)
             \/ Schedule(w) \/ Get(w) \/ Mark(w) \/ Compare(w) \/ Post(w) \/ Put(w)
             \/ Fail(w) \/ Done(w)
      PROVE  lines'[i] = lines[i]
  BY <1>5 DEF BeginSync, Schedule, Get, Mark, Compare, Post, Put, Fail, Done
<1>6. ASSUME NEW w \in Workers,
             \/ \E k \in Invoices, what \in Requests : BeginRequest(w, k, what)
             \/ Approve(w) \/ Die(w)
      PROVE  lines'[i] = lines[i]
  BY <1>6 DEF BeginRequest, Approve, Die
<1>7. ASSUME (\E k \in Invoices : CheckUnpaid(k)) \/ NextDay \/ \E s \in Sheets : SheetReady(s)
      PROVE  lines'[i] = lines[i]
  BY <1>7 DEF CheckUnpaid, NextDay, SheetReady
<1> QED BY <1>1, <1>2, <1>3, <1>4, <1>5, <1>6, <1>7, NextCases

\* Only a deletion takes a row away.
LEMMA LiveChange ==
  ASSUME TypeInv, WorkInv, Next, NEW i \in Invoices, Live(i)
  PROVE  row'[i].state = "live" \/ \E w \in Busy(i) : job[w].at = "destroy"
<1>1. ASSUME NEW w \in Workers, Insert(w)
      PROVE  row'[i].state = "live"
  BY <1>1, InsertFacts DEF Live
<1>2. ASSUME NEW w \in Workers, SaveTotal(w)
      PROVE  row'[i].state = "live"
  BY <1>2, SaveTotalFacts DEF Live
<1>3. ASSUME NEW w \in Workers, Schedule(w) \/ Mark(w) \/ Fail(w) \/ Done(w)
      PROVE  row'[i].state = "live"
  BY <1>3, ScheduleFacts, MarkFacts, FailFacts, DoneFacts DEF Live, Marked
<1>4. ASSUME NEW w \in Workers, Approve(w)
      PROVE  row'[i].state = "live"
  <2>1. job[w].copy.state = "live"
    BY <1>4 DEF Approve, WorkInv, RequestOK, Requests
  <2> QED BY <1>4, <2>1, ApproveFacts DEF Live
<1>5. ASSUME NEW w \in Workers, Destroy(w)
      PROVE  row'[i].state = "live" \/ (w \in Busy(i) /\ job[w].at = "destroy")
  BY <1>5, DestroyFacts DEF Live, Busy
<1>6. ASSUME NEW k \in Invoices, CheckUnpaid(k)
      PROVE  row'[i].state = "live"
  BY <1>6, CheckUnpaidFacts DEF Live
<1>7. ASSUME NEW w \in Workers,
             \/ \E k : Begins(w, k)
             \/ \E g \in SUBSET Sheets : Select(w, g)
             \/ Finish(w) \/ ReadRule(w) \/ SaveRule(w) \/ ReadLines(w)
             \/ (\E s \in Sheets : DeleteLine(w, s)) \/ InsertLines(w)
      PROVE  row'[i].state = "live"
  BY <1>7 DEF Begins, Start, Select, Finish, ReadRule, SaveRule, ReadLines, DeleteLine,
     InsertLines, Live
<1>8. ASSUME NEW w \in Workers,
             \/ \E k \in Invoices : BeginSync(w, k)
             \/ Get(w) \/ Compare(w) \/ Post(w) \/ Put(w)
             \/ \E k \in Invoices, what \in Requests : BeginRequest(w, k, what)
             \/ Die(w)
      PROVE  row'[i].state = "live"
  BY <1>8 DEF BeginSync, Get, Compare, Post, Put, BeginRequest, Die, Live
<1>9. ASSUME NextDay \/ \E s \in Sheets : SheetReady(s) \/ DeleteSheet(s)
      PROVE  row'[i].state = "live"
  BY <1>9 DEF NextDay, SheetReady, DeleteSheet, Live
<1> QED BY <1>1, <1>2, <1>3, <1>4, <1>5, <1>6, <1>7, <1>8, <1>9, NextCases

\* The lines of an approved invoice change only with the sheets that are deleted,
\* and it is not deleted itself, unless it was approved while a task or a request
\* had already begun on it: generate_invoice leaves approved invoices alone, and
\* so does perform_destroy of an invoice, but not that of a job offer.
THEOREM ApprovedKept == Spec => ApprovedKeepsLines
<1> DEFINE Kept(i) == /\ row'[i].state = "live"
                      /\ \A s \in Sheets \ (gone' \ gone) : lines'[i][s] = lines[i][s]
                      /\ \A s \in gone' \ gone : lines'[i][s] <= lines[i][s]
<1>1. ASSUME TypeInv, WorkInv, Next, NEW i \in Invoices, Live(i), row[i].approved,
             i \notin mixed
      PROVE  Kept(i)
  <2>1. ASSUME NEW w \in Busy(i) PROVE job[w].at \notin {"delete", "destroy"}
    <3>1. /\ w \in Workers /\ job[w].on = i
          /\ RequestOK(w) /\ UpdateOK(w)
      BY <1>1 DEF Busy, WorkInv
    <3> QED BY <1>1, <3>1 DEF RequestOK, UpdateOK, Requests, Generating
  <2>2. row'[i].state = "live"
    BY <1>1, <2>1, LiveChange
  <2>3. ASSUME NEW s \in Sheets, DeleteSheet(s)
        PROVE  /\ \A r \in Sheets \ (gone' \ gone) : lines'[i][r] = lines[i][r]
               /\ \A r \in gone' \ gone : lines'[i][r] <= lines[i][r]
    <3>1. /\ gone' = gone \cup {s} /\ s \notin gone
          /\ \A r \in Sheets : lines'[i][r] <= lines[i][r]
          /\ \A r \in Sheets \ {s} : lines'[i][r] = lines[i][r]
      BY <1>1, <2>3, DeleteSheetFacts
    <3> QED BY <3>1
  <2>4. CASE ~\E s \in Sheets : DeleteSheet(s)
    <3>1. lines'[i] = lines[i] /\ gone' = gone
      BY <1>1, <2>1, <2>4, LinesChange, OtherSteps
    <3> QED BY <2>2, <3>1
  <2> QED BY <2>2, <2>3, <2>4
<1> DEFINE A == \A i \in Invoices : Live(i) /\ row[i].approved /\ i \notin mixed => Kept(i)
<1>2. TypeInv /\ WorkInv /\ [Next]_vars => [A]_vars
  BY <1>1
<1>3. [][A]_vars => ApprovedKeepsLines
  BY PTL DEF ApprovedKeepsLines
<1> HIDE DEF A
<1> QED BY <1>2, <1>3, Working, PTL DEF Spec

-----------------------------------------------------------------------------
(* Invoices being sent *)

\* A worker that keeps the status of an invoice that it is not sending, ends
\* the sending with another status, or goes on, leaves no other abandoned.
LEMMA SyncStep ==
  ASSUME SyncInv, NEW w \in Workers, Only(w), mixed \subseteq mixed', broken \subseteq broken',
         \A k \in Invoices \ (mixed' \cup broken') :
           \/ row'[k].state # "live"
           \/ row'[k].sync \notin {"sync_scheduled", "syncing"}
           \/ job'[w].on = k /\ job'[w].at \in Syncing \ {"schedule"}
           \/ /\ row'[k].state = row[k].state /\ row'[k].sync = row[k].sync
              /\ job[w].on # k \/ job[w].at \notin Syncing \ {"schedule"}
  PROVE  SyncInv'
<1> SUFFICES ASSUME NEW k \in Invoices, row'[k].state = "live",
                    row'[k].sync \in {"sync_scheduled", "syncing"},
                    k \notin mixed' \cup broken'
             PROVE  \E v \in Workers : /\ job'[v].at # "idle" /\ job'[v].on = k
                                       /\ job'[v].at \in Syncing \ {"schedule"}
  BY DEF SyncInv, Live, Busy
<1>1. CASE job'[w].on = k /\ job'[w].at \in Syncing \ {"schedule"}
  BY <1>1 DEF Syncing
<1>2. CASE /\ row'[k].state = row[k].state /\ row'[k].sync = row[k].sync
           /\ job[w].on # k \/ job[w].at \notin Syncing \ {"schedule"}
  <2>1. PICK v \in Busy(k) : job[v].at \in Syncing \ {"schedule"}
    BY <1>2 DEF SyncInv, Live
  <2>2. v \in Workers /\ v # w /\ job[v].on = k /\ job[v].at # "idle"
    BY <1>2, <2>1 DEF Busy
  <2>3. job'[v] = job[v]
    BY <2>2 DEF Only
  <2> QED BY <2>1, <2>2, <2>3
<1> QED BY <1>1, <1>2

\* Every action keeps that.
LEMMA SyncNext ==
  ASSUME TypeInv, WorkInv, SyncInv, Next
  PROVE  SyncInv'
<1> USE DEF Syncing
<1>1. ASSUME NEW w \in Workers, NEW i, Begins(w, i) PROVE SyncInv'
  <2>1. /\ Only(w) /\ mixed \subseteq mixed' /\ job[w].at = "idle"
        /\ UNCHANGED <<row, broken>>
    BY <1>1, StartFacts DEF Begins
  <2> QED BY <2>1, SyncStep
<1>2. ASSUME NEW w \in Workers, NEW g \in SUBSET Sheets, Select(w, g) PROVE SyncInv'
  <2>1. Only(w) /\ job[w].at = "select" /\ UNCHANGED <<row, broken, mixed>>
    BY <1>2, SelectFacts DEF history
  <2> QED BY <2>1, SyncStep
<1>3. ASSUME NEW w \in Workers, Finish(w) PROVE SyncInv'
  <2>1. Only(w) /\ job[w].at = "select" /\ UNCHANGED <<row, broken, mixed>>
    BY <1>3, EndFacts DEF Finish, history, TypeInv, TypeOK
  <2> QED BY <2>1, SyncStep
<1>4. ASSUME NEW w \in Workers, ReadRule(w) PROVE SyncInv'
  <2>1. Only(w) /\ job[w].at = "number" /\ UNCHANGED <<row, broken, mixed>>
    BY <1>4, ReadRuleFacts DEF history
  <2> QED BY <2>1, SyncStep
<1>5. ASSUME NEW w \in Workers, SaveRule(w) PROVE SyncInv'
  <2>1. Only(w) /\ job[w].at = "rule" /\ UNCHANGED <<row, broken, mixed>>
    BY <1>5, SaveRuleFacts DEF history
  <2> QED BY <2>1, SyncStep
<1>6. ASSUME NEW w \in Workers, ReadLines(w) PROVE SyncInv'
  <2>1. Only(w) /\ job[w].at = "old" /\ UNCHANGED <<row, broken, mixed>>
    BY <1>6, ReadLinesFacts DEF history
  <2> QED BY <2>1, SyncStep
<1>7. ASSUME NEW w \in Workers, InsertLines(w) PROVE SyncInv'
  <2>1. Only(w) /\ job[w].at = "delete" /\ UNCHANGED <<row, mixed>> /\ broken \subseteq broken'
    BY <1>7, InsertLinesFacts
  <2> QED BY <2>1, SyncStep
<1>8. ASSUME NEW w \in Workers, NEW s \in Sheets, DeleteLine(w, s) PROVE SyncInv'
  <2>1. Only(w) /\ job[w].at = "delete" /\ UNCHANGED <<row, broken, mixed>>
    BY <1>8, DeleteLineFacts DEF history
  <2> QED BY <2>1, SyncStep
<1>9. ASSUME NEW w \in Workers, Insert(w) PROVE SyncInv'
  <2>1. PICK i \in Invoices :
          /\ job[w].at = "insert" /\ Only(w)
          /\ \A k \in Invoices \ {i} : row'[k] = row[k]
          /\ row'[i].sync = "not_synced" /\ UNCHANGED <<broken, mixed>>
    BY <1>9, InsertFacts DEF history
  <2> QED BY <2>1, SyncStep
<1>10. ASSUME NEW w \in Workers, SaveTotal(w) PROVE SyncInv'
  <2>1. /\ job[w].at = "total" /\ Only(w) /\ UNCHANGED <<broken, mixed>>
        /\ \A k \in Invoices : row'[k].state = row[k].state /\ row'[k].sync = row[k].sync
    BY <1>10, SaveTotalFacts DEF history, Live
  <2> QED BY <2>1, SyncStep
<1>11. ASSUME NEW w \in Workers, NEW i \in Invoices, BeginSync(w, i) PROVE SyncInv'
  <2>1. /\ Only(w) /\ mixed \subseteq mixed' /\ job[w].at = "idle"
        /\ UNCHANGED <<row, broken>>
    BY <1>11, BeginSyncFacts
  <2> QED BY <2>1, SyncStep
<1>12. ASSUME NEW w \in Workers, NEW i \in Invoices, NEW what \in Requests, BeginRequest(w, i, what) PROVE SyncInv'
  <2>1. /\ Only(w) /\ mixed \subseteq mixed' /\ job[w].at = "idle"
        /\ UNCHANGED <<row, broken>>
    BY <1>12, BeginRequestFacts
  <2> QED BY <2>1, SyncStep
<1>13. ASSUME NEW w \in Workers, Schedule(w) PROVE SyncInv'
  <2>1. /\ job[w].at = "schedule" /\ Only(w) /\ UNCHANGED <<broken, mixed>>
        /\ \A k \in Invoices \ {job[w].on} : row'[k] = row[k]
        /\ \/ ~Live(job[w].on) /\ UNCHANGED row
           \/ job'[w].at = "get" /\ job'[w].on = job[w].on
    BY <1>13, ScheduleFacts DEF history, Marked
  <2> QED BY <2>1, SyncStep DEF Live
<1>14. ASSUME NEW w \in Workers, Mark(w) PROVE SyncInv'
  <2>1. /\ job[w].at = "mark" /\ Only(w) /\ UNCHANGED <<broken, mixed>>
        /\ \A k \in Invoices \ {job[w].on} : row'[k] = row[k]
        /\ \/ ~Live(job[w].on) /\ UNCHANGED row
           \/ job'[w].at = "compare" /\ job'[w].on = job[w].on
    BY <1>14, MarkFacts DEF history, Marked
  <2> QED BY <2>1, SyncStep DEF Live
<1>15. ASSUME NEW w \in Workers, Fail(w) PROVE SyncInv'
  <2>1. /\ job[w].at = "fail" /\ Only(w) /\ UNCHANGED <<broken, mixed>>
        /\ \A k \in Invoices \ {job[w].on} : row'[k] = row[k]
        /\ \/ ~Live(job[w].on) /\ UNCHANGED row
           \/ row'[job[w].on].sync = "sync_failed"
    BY <1>15, FailFacts DEF history, Marked
  <2> QED BY <2>1, SyncStep DEF Live
<1>16. ASSUME NEW w \in Workers, Done(w) PROVE SyncInv'
  <2>1. /\ job[w].at = "done" /\ Only(w) /\ UNCHANGED <<broken, mixed>>
        /\ \A k \in Invoices \ {job[w].on} : row'[k] = row[k]
        /\ \/ ~Live(job[w].on) /\ UNCHANGED row
           \/ row'[job[w].on].sync = "synced"
    BY <1>16, DoneFacts DEF history, Marked
  <2> QED BY <2>1, SyncStep DEF Live
<1>17. ASSUME NEW w \in Workers, Get(w) PROVE SyncInv'
  <2>1. /\ job[w].at = "get" /\ Only(w) /\ UNCHANGED <<row, broken, mixed>>
        /\ job'[w].at = "mark" /\ job'[w].on = job[w].on
    BY <1>17, GetFacts DEF history
  <2> QED BY <2>1, SyncStep
<1>18. ASSUME NEW w \in Workers, Compare(w) PROVE SyncInv'
  <2>1. /\ job[w].at = "compare" /\ Only(w) /\ UNCHANGED <<row, mixed>>
        /\ \/ broken' = broken \cup {job[w].on}
           \/ /\ job'[w].at \in {"fail", "post", "put", "done"}
              /\ job'[w].on = job[w].on /\ UNCHANGED broken
    BY <1>18, CompareFacts
  <2> QED BY <2>1, SyncStep
<1>19. ASSUME NEW w \in Workers, Post(w) PROVE SyncInv'
  <2>1. /\ job[w].at = "post" /\ Only(w) /\ UNCHANGED <<row, broken, mixed>>
        /\ job'[w].at \in {"done", "fail"} /\ job'[w].on = job[w].on
    BY <1>19, PostFacts
  <2> QED BY <2>1, SyncStep
<1>20. ASSUME NEW w \in Workers, Put(w) PROVE SyncInv'
  <2>1. /\ job[w].at = "put" /\ Only(w) /\ UNCHANGED <<row, broken, mixed>>
        /\ job'[w].at \in {"done", "fail"} /\ job'[w].on = job[w].on
    BY <1>20, PutFacts
  <2> QED BY <2>1, SyncStep
<1>21. ASSUME NEW w \in Workers, Approve(w) PROVE SyncInv'
  <2>1. /\ job[w].at = "approve" /\ Only(w) /\ UNCHANGED <<broken, mixed>>
        /\ \A k \in Invoices \ {job[w].on} : row'[k] = row[k]
        /\ row'[job[w].on].state = job[w].copy.state
        /\ row'[job[w].on].sync = job[w].copy.sync
    BY <1>21, ApproveFacts DEF history
  <2>2. job[w].on \notin mixed => /\ job[w].copy.state = row[job[w].on].state
                                  /\ job[w].copy.sync = row[job[w].on].sync
    BY <2>1 DEF WorkInv, RequestOK, Requests, Live
  <2> QED BY <2>1, <2>2, SyncStep
<1>22. ASSUME NEW w \in Workers, Destroy(w) PROVE SyncInv'
  <2>1. /\ job[w].at = "destroy" /\ Only(w) /\ UNCHANGED <<broken, mixed>>
        /\ \A k \in Invoices \ {job[w].on} : row'[k] = row[k]
        /\ row'[job[w].on].state = "deleted"
    BY <1>22, DestroyFacts DEF history
  <2> QED BY <2>1, SyncStep
<1>23. ASSUME NEW w \in Workers, Die(w) PROVE SyncInv'
  <2>1. /\ Only(w) /\ broken' = broken \cup ({job[w].on} \ {NoInvoice})
        /\ UNCHANGED <<row, mixed>>
    BY <1>23, DieFacts
  <2> QED BY <2>1, SyncStep, InvoicesAssumption DEF InvoicesAssumption
<1>24. ASSUME NEW k \in Invoices, CheckUnpaid(k) PROVE SyncInv'
  <2>1. /\ \A i \in Invoices : row'[i].state = row[i].state /\ row'[i].sync = row[i].sync
        /\ UNCHANGED <<job, mixed, broken>>
    BY <1>24, CheckUnpaidFacts DEF history
  <2> QED BY <2>1 DEF SyncInv, Live, Busy
<1>25. CASE NextDay
  BY <1>25 DEF NextDay, history, SyncInv, Live, Busy
<1>26. ASSUME NEW s \in Sheets, SheetReady(s) PROVE SyncInv'
  BY <1>26 DEF SheetReady, history, SyncInv, Live, Busy
<1>27. ASSUME NEW s \in Sheets, DeleteSheet(s) PROVE SyncInv'
  BY <1>27 DEF DeleteSheet, history, SyncInv, Live, Busy
<1> QED
  BY <1>1, <1>2, <1>3, <1>4, <1>5, <1>6, <1>7, <1>8, <1>9, <1>10, <1>11,
     <1>12, <1>13, <1>14, <1>15, <1>16, <1>17, <1>18, <1>19, <1>20, <1>21,
     <1>22, <1>23, <1>24, <1>25, <1>26, <1>27, NextCases

\* An invoice shown as scheduled or being sent has a task that sends it, unless
\* a task died on it or two worked on it: sync_invoice leaves such an invoice
\* alone, so nobody else would send it.
THEOREM SyncingHasItsTask == Spec => []SyncingHasTask
<1>1. Init => SyncInv
  BY DEF Init, SyncInv, NoRow, Live
<1>2. TypeInv /\ WorkInv /\ SyncInv /\ [Next]_vars => SyncInv'
  <2>1. SyncInv /\ UNCHANGED vars => SyncInv'
    BY DEF vars, business, bounds, history, SyncInv, Live, Busy
  <2> QED BY <2>1, SyncNext
<1>3. SyncInv => SyncingHasTask
  BY DEF SyncInv, SyncingHasTask
<1> QED BY <1>1, <1>2, <1>3, Working, PTL DEF Spec

-----------------------------------------------------------------------------
(* Totals *)

\* A worker that leaves a row and its lines alone, saves the total, or is about
\* to, leaves no other total wrong.
LEMMA TotalStep ==
  ASSUME TypeInv', TotalInv, cut' = cut, NEW w \in Workers, Only(w),
         mixed \subseteq mixed', broken \subseteq broken',
         \A k \in Invoices \ (mixed' \cup broken') :
           \/ row'[k].state # "live"
           \/ row'[k].total = Count(k)'
           \/ job'[w].on = k /\ job'[w].at \in {"delete", "total"}
           \/ /\ row'[k].state = row[k].state /\ row'[k].total = row[k].total
              /\ lines'[k] = lines[k]
              /\ job[w].on # k \/ job[w].at \notin {"delete", "total"}
  PROVE  TotalInv'
<1> SUFFICES ASSUME NEW k \in Invoices, row'[k].state = "live",
                    k \notin mixed' \cup broken', ~Fair(k, row[k].total)'
             PROVE  \E v \in Workers : /\ job'[v].at # "idle" /\ job'[v].on = k
                                       /\ job'[v].at \in {"delete", "total"}
  BY DEF TotalInv, Live, Busy
<1>0. row'[k].total # Count(k)'
  <2>1. Count(k)' \in Nat
    BY CountAfter DEF TypeInv, TypeOK
  <2> QED BY <2>1 DEF Fair
<1>1. CASE job'[w].on = k /\ job'[w].at \in {"delete", "total"}
  BY <1>1
<1>2. CASE /\ row'[k].state = row[k].state /\ row'[k].total = row[k].total
           /\ lines'[k] = lines[k]
           /\ job[w].on # k \/ job[w].at \notin {"delete", "total"}
  <2>1. Count(k)' = Count(k)
    BY <1>2 DEF Count
  <2>2. PICK v \in Busy(k) : job[v].at \in {"delete", "total"}
    BY <1>2, <2>1 DEF TotalInv, Live, Fair
  <2>3. v \in Workers /\ v # w /\ job[v].on = k /\ job[v].at # "idle"
    BY <1>2, <2>2 DEF Busy
  <2>4. job'[v] = job[v]
    BY <2>3 DEF Only
  <2> QED BY <2>2, <2>3, <2>4
<1> QED BY <1>0, <1>1, <1>2

\* Without lines there is nothing to pay.
LEMMA CountEmpty ==
  ASSUME NEW i, lines[i] = Empty
  PROVE  Count(i) = 0
<1>1. IsFiniteSet(Sheets) /\ DOMAIN Empty = Sheets /\ \A s \in Sheets : Empty[s] = 0
  BY InvoicesAssumption DEF InvoicesAssumption, Empty
<1>2. SumFunctionOnSet(Empty, Sheets) = 0
  <2>1. \A s \in Sheets : Empty[s] \in {0, 1}
    BY <1>1
  <2>2. \A r, s \in Sheets : Empty[r] = 1 /\ Empty[s] = 1 => r = s
    BY <1>1
  <2> QED BY <1>1, <2>1, <2>2, SumOne
<1> QED BY <1>1, <1>2 DEF Count, SumFunction, SumFunctionOnSet

\* Every action keeps that.
LEMMA TotalNext ==
  ASSUME TypeInv, WorkInv, TotalInv, Next
  PROVE  TotalInv'
<1>27. ASSUME NEW s \in Sheets, DeleteSheet(s) PROVE TotalInv'
  <2>1. /\ cut \subseteq cut' /\ UNCHANGED <<row, job, mixed, broken>>
        /\ \A i \in Invoices : Count(i)' <= Count(i) /\ (i \notin cut' => lines'[i] = lines[i])
    BY <1>27, DeleteSheetFacts DEF history
  <2>2. \A i \in Invoices : Count(i) \in Nat /\ Count(i)' \in Nat /\ row[i].total \in Nat
    <3>1. TypeInv'
      BY TypeStep
    <3>2. \A i \in Invoices : Count(i) \in Nat
      BY CountType DEF TypeInv
    <3>3. \A i \in Invoices : Count(i)' \in Nat
      BY <3>1, CountAfter DEF TypeInv, TypeOK
    <3> QED BY <3>2, <3>3, RowFields DEF TypeInv, TypeOK
  <2>3. \A i \in Invoices : i \notin cut' => Count(i)' = Count(i)
    BY <2>1 DEF Count
  <2>4. \A i \in Invoices : Fair(i, row[i].total) => Fair(i, row[i].total)'
    BY <2>1, <2>2, <2>3 DEF Fair
  <2> QED BY <2>1, <2>4 DEF TotalInv, Live, Busy
<1> SUFFICES ASSUME ~\E s \in Sheets : DeleteSheet(s) PROVE TotalInv'
  BY <1>27
<1> TypeInv' /\ cut' = cut
  BY TypeStep, OtherSteps
<1>1. ASSUME NEW w \in Workers, NEW i, Begins(w, i) PROVE TotalInv'
  <2>1. /\ Only(w) /\ mixed \subseteq mixed' /\ job[w].at = "idle"
        /\ UNCHANGED <<row, lines, broken>>
    BY <1>1, StartFacts DEF Begins
  <2> QED BY <2>1, TotalStep
<1>2. ASSUME NEW w \in Workers, NEW g \in SUBSET Sheets, Select(w, g) PROVE TotalInv'
  <2>1. Only(w) /\ job[w].at = "select" /\ UNCHANGED <<row, lines, broken, mixed>>
    BY <1>2, SelectFacts DEF history
  <2> QED BY <2>1, TotalStep
<1>3. ASSUME NEW w \in Workers, Finish(w) PROVE TotalInv'
  <2>1. Only(w) /\ job[w].at = "select" /\ UNCHANGED <<row, lines, broken, mixed>>
    BY <1>3, EndFacts DEF Finish, history, TypeInv, TypeOK
  <2> QED BY <2>1, TotalStep
<1>4. ASSUME NEW w \in Workers, ReadRule(w) PROVE TotalInv'
  <2>1. Only(w) /\ job[w].at = "number" /\ UNCHANGED <<row, lines, broken, mixed>>
    BY <1>4, ReadRuleFacts DEF history
  <2> QED BY <2>1, TotalStep
<1>5. ASSUME NEW w \in Workers, SaveRule(w) PROVE TotalInv'
  <2>1. Only(w) /\ job[w].at = "rule" /\ UNCHANGED <<row, lines, broken, mixed>>
    BY <1>5, SaveRuleFacts DEF history
  <2> QED BY <2>1, TotalStep
<1>6. ASSUME NEW w \in Workers, ReadLines(w) PROVE TotalInv'
  <2>1. Only(w) /\ job[w].at = "old" /\ UNCHANGED <<row, lines, broken, mixed>>
    BY <1>6, ReadLinesFacts DEF history
  <2> QED BY <2>1, TotalStep
<1>7. ASSUME NEW w \in Workers, Insert(w) PROVE TotalInv'
  <2>1. PICK i \in Invoices :
          /\ job[w].at = "insert" /\ Only(w) /\ row[i].state = "none"
          /\ \A k \in Invoices \ {i} : row'[k] = row[k]
          /\ row'[i].total = 0 /\ UNCHANGED <<lines, broken, mixed>>
    BY <1>7, InsertFacts DEF history
  <2>2. Count(i) = 0
    BY <2>1, CountEmpty DEF WorkInv, RowsOK
  <2>3. Count(i)' = Count(i)
    BY <2>1 DEF Count
  <2> QED BY <2>1, <2>2, <2>3, TotalStep
<1>8. ASSUME NEW w \in Workers, NEW s \in Sheets, DeleteLine(w, s) PROVE TotalInv'
  <2>1. /\ Only(w) /\ job'[w].at = "delete" /\ job'[w].on = job[w].on
        /\ \A k \in Invoices \ {job[w].on} : lines'[k] = lines[k]
        /\ UNCHANGED <<row, broken, mixed>>
    BY <1>8, DeleteLineFacts DEF history
  <2> QED BY <2>1, TotalStep
<1>9. ASSUME NEW w \in Workers, InsertLines(w) PROVE TotalInv'
  <2>1. /\ Only(w) /\ UNCHANGED <<row, mixed>> /\ broken \subseteq broken'
        /\ \A k \in Invoices \ {job[w].on} : lines'[k] = lines[k]
        /\ \/ job[w].on \in broken'
           \/ job'[w].at = "total" /\ job'[w].on = job[w].on
    BY <1>9, InsertLinesFacts
  <2> QED BY <2>1, TotalStep
<1>10. ASSUME NEW w \in Workers, SaveTotal(w) PROVE TotalInv'
  <2>1. /\ job[w].at = "total" /\ Only(w) /\ UNCHANGED <<lines, broken, mixed>>
        /\ \A k \in Invoices \ {job[w].on} : row'[k] = row[k]
        /\ \/ ~Live(job[w].on) /\ UNCHANGED row
           \/ row'[job[w].on].total = Count(job[w].on)
    BY <1>10, SaveTotalFacts DEF history
  <2>2. \A k \in Invoices : Count(k)' = Count(k)
    BY <2>1 DEF Count
  <2> QED BY <2>1, <2>2, TotalStep DEF Live
<1>11. ASSUME NEW w \in Workers, NEW i \in Invoices, BeginSync(w, i) PROVE TotalInv'
  <2>1. /\ Only(w) /\ mixed \subseteq mixed' /\ job[w].at = "idle"
        /\ UNCHANGED <<row, lines, broken>>
    BY <1>11, BeginSyncFacts
  <2> QED BY <2>1, TotalStep
<1>12. ASSUME NEW w \in Workers, NEW i \in Invoices, NEW what \in Requests, BeginRequest(w, i, what) PROVE TotalInv'
  <2>1. /\ Only(w) /\ mixed \subseteq mixed' /\ job[w].at = "idle"
        /\ UNCHANGED <<row, lines, broken>>
    BY <1>12, BeginRequestFacts
  <2> QED BY <2>1, TotalStep
<1>13. ASSUME NEW w \in Workers, Schedule(w) PROVE TotalInv'
  <2>1. /\ job[w].at = "schedule" /\ Only(w) /\ UNCHANGED <<lines, broken, mixed>>
        /\ \A k \in Invoices : row'[k].state = row[k].state /\ row'[k].total = row[k].total
    BY <1>13, ScheduleFacts DEF history, Marked
  <2> QED BY <2>1, TotalStep
<1>14. ASSUME NEW w \in Workers, Mark(w) PROVE TotalInv'
  <2>1. /\ job[w].at = "mark" /\ Only(w) /\ UNCHANGED <<lines, broken, mixed>>
        /\ \A k \in Invoices : row'[k].state = row[k].state /\ row'[k].total = row[k].total
    BY <1>14, MarkFacts DEF history, Marked
  <2> QED BY <2>1, TotalStep
<1>15. ASSUME NEW w \in Workers, Fail(w) PROVE TotalInv'
  <2>1. /\ job[w].at = "fail" /\ Only(w) /\ UNCHANGED <<lines, broken, mixed>>
        /\ \A k \in Invoices : row'[k].state = row[k].state /\ row'[k].total = row[k].total
    BY <1>15, FailFacts DEF history, Marked
  <2> QED BY <2>1, TotalStep
<1>16. ASSUME NEW w \in Workers, Done(w) PROVE TotalInv'
  <2>1. /\ job[w].at = "done" /\ Only(w) /\ UNCHANGED <<lines, broken, mixed>>
        /\ \A k \in Invoices : row'[k].state = row[k].state /\ row'[k].total = row[k].total
    BY <1>16, DoneFacts DEF history, Marked
  <2> QED BY <2>1, TotalStep
<1>17. ASSUME NEW w \in Workers, Get(w) PROVE TotalInv'
  <2>1. /\ job[w].at = "get" /\ Only(w) /\ UNCHANGED <<row, lines, mixed>>
        /\ broken \subseteq broken'
    BY <1>17, GetFacts DEF history
  <2> QED BY <2>1, TotalStep
<1>18. ASSUME NEW w \in Workers, Compare(w) PROVE TotalInv'
  <2>1. /\ job[w].at = "compare" /\ Only(w) /\ UNCHANGED <<row, lines, mixed>>
        /\ broken \subseteq broken'
    BY <1>18, CompareFacts DEF history
  <2> QED BY <2>1, TotalStep
<1>19. ASSUME NEW w \in Workers, Post(w) PROVE TotalInv'
  <2>1. /\ job[w].at = "post" /\ Only(w) /\ UNCHANGED <<row, lines, mixed>>
        /\ broken \subseteq broken'
    BY <1>19, PostFacts DEF history
  <2> QED BY <2>1, TotalStep
<1>20. ASSUME NEW w \in Workers, Put(w) PROVE TotalInv'
  <2>1. /\ job[w].at = "put" /\ Only(w) /\ UNCHANGED <<row, lines, mixed>>
        /\ broken \subseteq broken'
    BY <1>20, PutFacts DEF history
  <2> QED BY <2>1, TotalStep
<1>21. ASSUME NEW w \in Workers, Approve(w) PROVE TotalInv'
  <2>1. /\ job[w].at = "approve" /\ Only(w) /\ UNCHANGED <<lines, broken, mixed>>
        /\ \A k \in Invoices \ {job[w].on} : row'[k] = row[k]
        /\ row'[job[w].on].total = Count(job[w].on)
    BY <1>21, ApproveFacts DEF history
  <2>2. \A k \in Invoices : Count(k)' = Count(k)
    BY <2>1 DEF Count
  <2> QED BY <2>1, <2>2, TotalStep
<1>22. ASSUME NEW w \in Workers, Destroy(w) PROVE TotalInv'
  <2>1. /\ job[w].at = "destroy" /\ Only(w) /\ UNCHANGED <<broken, mixed>>
        /\ \A k \in Invoices \ {job[w].on} : row'[k] = row[k] /\ lines'[k] = lines[k]
        /\ row'[job[w].on].state = "deleted"
    BY <1>22, DestroyFacts DEF history
  <2> QED BY <2>1, TotalStep
<1>23. ASSUME NEW w \in Workers, Die(w) PROVE TotalInv'
  <2>1. /\ Only(w) /\ broken' = broken \cup ({job[w].on} \ {NoInvoice})
        /\ UNCHANGED <<row, lines, mixed>>
    BY <1>23, DieFacts
  <2> QED BY <2>1, TotalStep, InvoicesAssumption DEF InvoicesAssumption
<1>24. ASSUME NEW k \in Invoices, CheckUnpaid(k) PROVE TotalInv'
  <2>1. /\ \A i \in Invoices : row'[i].state = row[i].state /\ row'[i].total = row[i].total
        /\ UNCHANGED <<lines, job, mixed, broken>>
    BY <1>24, CheckUnpaidFacts DEF history
  <2> QED BY <2>1 DEF TotalInv, Live, Busy, Count, Fair
<1>25. CASE NextDay
  BY <1>25 DEF NextDay, history, TotalInv, Live, Busy, Count, Fair
<1>26. ASSUME NEW s \in Sheets, SheetReady(s) PROVE TotalInv'
  BY <1>26 DEF SheetReady, history, TotalInv, Live, Busy, Count, Fair
<1> QED
  BY <1>1, <1>2, <1>3, <1>4, <1>5, <1>6, <1>7, <1>8, <1>9, <1>10, <1>11,
     <1>12, <1>13, <1>14, <1>15, <1>16, <1>17, <1>18, <1>19, <1>20, <1>21,
     <1>22, <1>23, <1>24, <1>25, <1>26, <1>27, NextCases

\* The total of an invoice is that of its lines whenever nobody works on it,
\* unless a task died on it or two worked on it, and too high rather than too low
\* with the line of a deleted sheet: _prepare_invoice deletes, inserts and sums
\* in statements of their own, and an approval sums again.
THEOREM TotalsAreOfLines == Spec => []TotalOfLines
<1>1. Init => TotalInv
  BY DEF Init, TotalInv, NoRow, Live, Fair
<1>2. TypeInv /\ WorkInv /\ TotalInv /\ [Next]_vars => TotalInv'
  <2>1. TotalInv /\ UNCHANGED vars => TotalInv'
    BY DEF vars, business, bounds, history, TotalInv, Live, Busy, Count, Fair
  <2> QED BY <2>1, TotalNext
<1>3. TotalInv => TotalOfLines
  BY DEF TotalInv, TotalOfLines, Fair
<1> QED BY <1>1, <1>2, <1>3, Working, PTL DEF Spec

-----------------------------------------------------------------------------
(* Numbers *)

\* A worker that takes no number and inserts no row leaves the numbers unique.
LEMMA NumberStep ==
  ASSUME NumberInv, NEW w \in Workers, Only(w), UNCHANGED <<overlap, counter>>,
         \A k \in Invoices : row'[k].state # "none" =>
           row[k].state # "none" /\ row'[k].number = row[k].number,
         job'[w].at \in Generating => job[w].at \in Generating,
         job'[w].at \notin {"rule", "insert"}
  PROVE  NumberInv'
<1> SUFFICES ASSUME ~overlap
             PROVE  /\ \A u, v \in Workers :
                         job'[u].at \in Generating /\ job'[v].at \in Generating => u = v
                    /\ \A v \in Workers : NumberOK(v)'
                    /\ \A k \in Invoices : row'[k].state # "none" => row'[k].number < counter
                    /\ NumbersUnique'
  BY DEF NumberInv
<1>1. ASSUME NEW v \in Workers
      PROVE  job'[v].at \in Generating => job[v].at \in Generating
  BY DEF Only
<1>2. ASSUME NEW v \in Workers PROVE NumberOK(v)'
  <2>1. CASE v = w
    BY <2>1 DEF NumberOK
  <2>2. CASE v # w
    <3>1. job'[v] = job[v] /\ NumberOK(v)
      BY <2>2 DEF Only, NumberInv
    <3> QED BY <3>1 DEF NumberOK
  <2> QED BY <2>1, <2>2
<1>3. NumbersUnique'
  BY DEF NumberInv, NumbersUnique
<1> QED BY <1>1, <1>2, <1>3 DEF NumberInv

\* Every action keeps that.
LEMMA NumberNext ==
  ASSUME TypeInv, WorkInv, NumberInv, Next
  PROVE  NumberInv'
<1> USE DEF Generating
<1>1. ASSUME NEW w \in Workers, NEW i, Begins(w, i) PROVE NumberInv'
  <2>1. /\ Only(w) /\ job'[w].at = "select"
        /\ ~overlap' => ~overlap /\ \A v \in Workers : job[v].at \notin Generating
        /\ UNCHANGED <<row, counter>>
    BY <1>1, StartFacts DEF Begins
  <2> SUFFICES ASSUME ~overlap'
               PROVE  /\ \A u, v \in Workers :
                           job'[u].at \in Generating /\ job'[v].at \in Generating => u = v
                      /\ \A v \in Workers : NumberOK(v)'
                      /\ \A k \in Invoices : row[k].state # "none" => row[k].number < counter
                      /\ NumbersUnique'
    BY <2>1 DEF NumberInv
  <2>2. ~overlap /\ \A v \in Workers : v = w \/ job'[v].at \notin Generating
    BY <2>1 DEF Only
  <2>3. \A v \in Workers : NumberOK(v)'
    BY <2>1, <2>2 DEF NumberOK
  <2>4. NumbersUnique'
    BY <2>1, <2>2 DEF NumberInv, NumbersUnique
  <2> QED BY <2>2, <2>3, <2>4 DEF NumberInv
<1>2. ASSUME NEW w \in Workers, NEW g \in SUBSET Sheets, Select(w, g) PROVE NumberInv'
  <2>1. /\ Only(w) /\ job[w].at = "select" /\ job'[w].at \in {"select", "old", "number"}
        /\ UNCHANGED <<row, counter, overlap>>
    BY <1>2, SelectFacts DEF history
  <2> QED BY <2>1, NumberStep
<1>3. ASSUME NEW w \in Workers, Finish(w) PROVE NumberInv'
  <2>1. Only(w) /\ job'[w] = Idle /\ UNCHANGED <<row, counter, overlap>>
    BY <1>3, EndFacts DEF Finish, history, TypeInv, TypeOK
  <2> QED BY <2>1, NumberStep, IdleType
<1>4. ASSUME NEW w \in Workers, ReadRule(w) PROVE NumberInv'
  <2>1. /\ Only(w) /\ job[w].at = "number" /\ job'[w].at = "rule" /\ job'[w].num = counter
        /\ UNCHANGED <<row, counter, overlap>>
    BY <1>4, ReadRuleFacts DEF history
  <2>2. ASSUME ~overlap, NEW v \in Workers, v # w PROVE job'[v].at \notin Generating
    BY <2>1, <2>2 DEF NumberInv, Only
  <2>3. ASSUME ~overlap, NEW v \in Workers PROVE NumberOK(v)'
    BY <2>1, <2>2, <2>3 DEF NumberOK
  <2>4. ~overlap => NumbersUnique'
    BY <2>1 DEF NumberInv, NumbersUnique
  <2> QED BY <2>1, <2>2, <2>3, <2>4 DEF NumberInv
<1>5. ASSUME NEW w \in Workers, SaveRule(w) PROVE NumberInv'
  <2>1. /\ Only(w) /\ job[w].at = "rule" /\ job'[w].at = "insert"
        /\ job'[w].num = job[w].num /\ counter' = job[w].num + 1
        /\ UNCHANGED <<row, overlap>>
    BY <1>5, SaveRuleFacts DEF history
  <2>2. counter \in Nat /\ \A k \in Invoices : row[k].number \in Nat
    BY RowFields DEF TypeInv, TypeOK
  <2>3. ASSUME ~overlap, NEW v \in Workers, v # w PROVE job'[v].at \notin Generating
    BY <2>1, <2>3 DEF NumberInv, Only
  <2>4. ~overlap => job[w].num = counter
    BY <2>1 DEF NumberInv, NumberOK
  <2>5. ~overlap => \A k \in Invoices : row[k].state # "none" => row[k].number < counter
    BY DEF NumberInv
  <2>6. ~overlap => \A k \in Invoices : row'[k].state # "none" => row'[k].number < counter'
    BY <2>1, <2>2, <2>4, <2>5
  <2>7. ASSUME ~overlap, NEW v \in Workers PROVE NumberOK(v)'
    BY <2>1, <2>3, <2>4, <2>5, <2>7 DEF NumberOK
  <2>8. ~overlap => NumbersUnique'
    BY <2>1 DEF NumberInv, NumbersUnique
  <2> QED BY <2>1, <2>3, <2>6, <2>7, <2>8 DEF NumberInv
<1>6. ASSUME NEW w \in Workers, Insert(w) PROVE NumberInv'
  <2>1. PICK i \in Invoices :
          /\ Only(w) /\ job[w].at = "insert" /\ job'[w].at = "old"
          /\ row[i].state = "none" /\ row'[i].state = "live" /\ row'[i].number = job[w].num
          /\ \A k \in Invoices \ {i} : row'[k] = row[k]
          /\ UNCHANGED <<counter, overlap>>
    BY <1>6, InsertFacts DEF history
  <2>2. /\ counter \in Nat /\ job[w].num \in Nat /\ \A k \in Invoices : row[k].number \in Nat
    BY RowFields, JobFields DEF TypeInv, TypeOK
  <2>3. ASSUME ~overlap, NEW v \in Workers, v # w PROVE job'[v].at \notin Generating
    BY <2>1, <2>3 DEF NumberInv, Only
  <2>4. ~overlap =>
          /\ counter = job[w].num + 1
          /\ \A k \in Invoices : row[k].state # "none" => row[k].number < job[w].num
    BY <2>1 DEF NumberInv, NumberOK
  <2>5. ~overlap => \A k \in Invoices : row'[k].state # "none" => row'[k].number < counter'
    BY <2>1, <2>2, <2>4
  <2>6. ASSUME ~overlap, NEW v \in Workers PROVE NumberOK(v)'
    BY <2>1, <2>3, <2>6 DEF NumberOK
  <2>7. ASSUME ~overlap PROVE NumbersUnique'
    <3> SUFFICES ASSUME NEW j \in Invoices, NEW k \in Invoices,
                        row'[j].state # "none", row'[k].state # "none",
                        row'[j].number = row'[k].number
                 PROVE  j = k
      BY DEF NumbersUnique
    <3>1. CASE j # i /\ k # i
      BY <2>1, <2>7, <3>1 DEF NumberInv, NumbersUnique
    <3>2. CASE j = i /\ k # i
      BY <2>1, <2>2, <2>4, <2>7, <3>2
    <3>3. CASE j # i /\ k = i
      BY <2>1, <2>2, <2>4, <2>7, <3>3
    <3> QED BY <3>1, <3>2, <3>3
  <2> QED BY <2>1, <2>3, <2>5, <2>6, <2>7 DEF NumberInv
<1>7. ASSUME NEW w \in Workers, ReadLines(w) PROVE NumberInv'
  <2>1. /\ Only(w) /\ job[w].at = "old" /\ job'[w].at = "delete"
        /\ UNCHANGED <<row, counter, overlap>>
    BY <1>7, ReadLinesFacts DEF history
  <2> QED BY <2>1, NumberStep
<1>8. ASSUME NEW w \in Workers, NEW s \in Sheets, DeleteLine(w, s) PROVE NumberInv'
  <2>1. /\ Only(w) /\ job[w].at = "delete" /\ job'[w].at = "delete"
        /\ UNCHANGED <<row, counter, overlap>>
    BY <1>8, DeleteLineFacts DEF history
  <2> QED BY <2>1, NumberStep
<1>9. ASSUME NEW w \in Workers, InsertLines(w) PROVE NumberInv'
  <2>1. /\ Only(w) /\ job[w].at = "delete" /\ job'[w].at \in {"idle", "total"}
        /\ UNCHANGED <<row, counter, overlap>>
    BY <1>9, InsertLinesFacts, IdleType
  <2> QED BY <2>1, NumberStep
<1>10. ASSUME NEW w \in Workers, SaveTotal(w) PROVE NumberInv'
  <2>1. /\ Only(w) /\ job[w].at = "total" /\ job'[w].at \in {"idle", "select"}
        /\ \A k \in Invoices : row'[k].state = row[k].state /\ row'[k].number = row[k].number
        /\ UNCHANGED <<counter, overlap>>
    BY <1>10, SaveTotalFacts, IdleType DEF history, Live
  <2> QED BY <2>1, NumberStep
<1>11. ASSUME NEW w \in Workers, NEW i \in Invoices, BeginSync(w, i) PROVE NumberInv'
  <2>1. Only(w) /\ job'[w].at = "schedule" /\ UNCHANGED <<row, counter, overlap>>
    BY <1>11, BeginSyncFacts
  <2> QED BY <2>1, NumberStep
<1>12. ASSUME NEW w \in Workers, NEW i \in Invoices, NEW what \in Requests, BeginRequest(w, i, what) PROVE NumberInv'
  <2>1. Only(w) /\ job'[w].at \in Requests /\ UNCHANGED <<row, counter, overlap>>
    BY <1>12, BeginRequestFacts
  <2> QED BY <2>1, NumberStep DEF Requests
<1>13. ASSUME NEW w \in Workers, Schedule(w) PROVE NumberInv'
  <2>1. /\ Only(w) /\ job'[w].at \in {"idle", "get"} /\ UNCHANGED <<counter, overlap>>
        /\ \A k \in Invoices : row'[k].state = row[k].state /\ row'[k].number = row[k].number
    BY <1>13, ScheduleFacts, IdleType DEF history, Marked
  <2> QED BY <2>1, NumberStep
<1>14. ASSUME NEW w \in Workers, Mark(w) PROVE NumberInv'
  <2>1. /\ Only(w) /\ job'[w].at \in {"idle", "compare"} /\ UNCHANGED <<counter, overlap>>
        /\ \A k \in Invoices : row'[k].state = row[k].state /\ row'[k].number = row[k].number
    BY <1>14, MarkFacts, IdleType DEF history, Marked
  <2> QED BY <2>1, NumberStep
<1>15. ASSUME NEW w \in Workers, Fail(w) PROVE NumberInv'
  <2>1. /\ Only(w) /\ job'[w].at = "idle" /\ UNCHANGED <<counter, overlap>>
        /\ \A k \in Invoices : row'[k].state = row[k].state /\ row'[k].number = row[k].number
    BY <1>15, FailFacts, IdleType DEF history, Marked
  <2> QED BY <2>1, NumberStep
<1>16. ASSUME NEW w \in Workers, Done(w) PROVE NumberInv'
  <2>1. /\ Only(w) /\ job'[w].at = "idle" /\ UNCHANGED <<counter, overlap>>
        /\ \A k \in Invoices : row'[k].state = row[k].state /\ row'[k].number = row[k].number
    BY <1>16, DoneFacts, IdleType DEF history, Marked
  <2> QED BY <2>1, NumberStep
<1>17. ASSUME NEW w \in Workers, Get(w) PROVE NumberInv'
  <2>1. /\ Only(w) /\ job'[w].at = "mark"
        /\ UNCHANGED <<row, counter, overlap>>
    BY <1>17, GetFacts, IdleType DEF history
  <2> QED BY <2>1, NumberStep
<1>18. ASSUME NEW w \in Workers, Compare(w) PROVE NumberInv'
  <2>1. /\ Only(w) /\ job'[w].at \in {"idle", "fail", "post", "put", "done"}
        /\ UNCHANGED <<row, counter, overlap>>
    BY <1>18, CompareFacts, IdleType DEF history
  <2> QED BY <2>1, NumberStep
<1>19. ASSUME NEW w \in Workers, Post(w) PROVE NumberInv'
  <2>1. /\ Only(w) /\ job'[w].at \in {"done", "fail"}
        /\ UNCHANGED <<row, counter, overlap>>
    BY <1>19, PostFacts, IdleType DEF history
  <2> QED BY <2>1, NumberStep
<1>20. ASSUME NEW w \in Workers, Put(w) PROVE NumberInv'
  <2>1. /\ Only(w) /\ job'[w].at \in {"done", "fail"}
        /\ UNCHANGED <<row, counter, overlap>>
    BY <1>20, PutFacts, IdleType DEF history
  <2> QED BY <2>1, NumberStep
<1>21. ASSUME NEW w \in Workers, Approve(w) PROVE NumberInv'
  <2>1. /\ job[w].at = "approve" /\ job[w].on \in Invoices /\ Only(w) /\ job'[w] = Idle
        /\ \A k \in Invoices \ {job[w].on} : row'[k] = row[k]
        /\ row'[job[w].on].number = job[w].copy.number
        /\ UNCHANGED <<counter, overlap>>
    BY <1>21, ApproveFacts DEF history
  <2>2. row[job[w].on].state # "none" /\ job[w].copy.number = row[job[w].on].number
    BY <2>1 DEF WorkInv, RequestOK, Requests
  <2> QED BY <2>1, <2>2, NumberStep, IdleType
<1>22. ASSUME NEW w \in Workers, Destroy(w) PROVE NumberInv'
  <2>1. /\ job[w].at = "destroy" /\ job[w].on \in Invoices /\ Only(w) /\ job'[w] = Idle
        /\ \A k \in Invoices \ {job[w].on} : row'[k] = row[k]
        /\ row'[job[w].on].number = row[job[w].on].number
        /\ UNCHANGED <<counter, overlap>>
    BY <1>22, DestroyFacts DEF history
  <2>2. row[job[w].on].state # "none"
    BY <2>1 DEF WorkInv
  <2> QED BY <2>1, <2>2, NumberStep, IdleType
<1>23. ASSUME NEW w \in Workers, Die(w) PROVE NumberInv'
  <2>1. Only(w) /\ job'[w] = Idle /\ UNCHANGED <<row, counter, overlap>>
    BY <1>23, DieFacts
  <2> QED BY <2>1, NumberStep, IdleType
<1>24. ASSUME NEW k \in Invoices, CheckUnpaid(k) PROVE NumberInv'
  <2>1. /\ \A i \in Invoices : row'[i].state = row[i].state /\ row'[i].number = row[i].number
        /\ UNCHANGED <<job, counter, overlap>>
    BY <1>24, CheckUnpaidFacts DEF history
  <2> QED BY <2>1 DEF NumberInv, NumberOK, NumbersUnique
<1>25. CASE NextDay
  BY <1>25 DEF NextDay, history, NumberInv, NumberOK, NumbersUnique
<1>26. ASSUME NEW s \in Sheets, SheetReady(s) PROVE NumberInv'
  BY <1>26 DEF SheetReady, history, NumberInv, NumberOK, NumbersUnique
<1>27. ASSUME NEW s \in Sheets, DeleteSheet(s) PROVE NumberInv'
  BY <1>27 DEF DeleteSheet, history, NumberInv, NumberOK, NumbersUnique
<1> QED
  BY <1>1, <1>2, <1>3, <1>4, <1>5, <1>6, <1>7, <1>8, <1>9, <1>10, <1>11,
     <1>12, <1>13, <1>14, <1>15, <1>16, <1>17, <1>18, <1>19, <1>20, <1>21,
     <1>22, <1>23, <1>24, <1>25, <1>26, <1>27, NextCases

\* The numbers, throughout.
LEMMA Numbering == Spec => []NumberInv
<1>1. Init => NumberInv
  BY DEF Init, NumberInv, NumberOK, NumbersUnique, NoRow, Idle, Generating
<1>2. TypeInv /\ WorkInv /\ NumberInv /\ [Next]_vars => NumberInv'
  <2>1. NumberInv /\ UNCHANGED vars => NumberInv'
    BY DEF vars, business, bounds, history, NumberInv, NumberOK, NumbersUnique
  <2> QED BY <2>1, NumberNext
<1> QED BY <1>1, <1>2, Working, PTL DEF Spec

\* No two invoices have one number unless two generations overlapped:
\* Invoice.save reads the number of the rule and writes the next one back.
THEOREM InvoiceNumbersUnique == Spec => []NumbersUnique
<1>1. NumberInv => NumbersUnique
  BY DEF NumberInv, NumbersUnique
<1> QED BY <1>1, Numbering, PTL

-----------------------------------------------------------------------------
(* Sheets billed once *)

\* A worker that adds no line leaves every sheet billed once.
LEMMA BilledStep ==
  ASSUME TypeInv, TypeInv', BilledInv, NEW w \in Workers, Only(w), overlap => overlap',
         \A k \in Invoices, s \in Sheets : lines'[k][s] <= lines[k][s],
         job'[w].at \in Writing =>
           \/ job[w].at \in Writing /\ job'[w].todo = job[w].todo
           \/ \A s \in job'[w].todo : ~Billed(s)
  PROVE  BilledInv'
<1>1. /\ \A k \in Invoices, s \in Sheets : lines[k][s] \in Nat /\ lines'[k][s] \in Nat
      /\ \A v \in Workers : job'[v].todo \subseteq Sheets
  BY JobFields DEF TypeInv, TypeOK, Bags
<1>2. \A k \in Invoices, s \in Sheets : lines'[k][s] > 0 => lines[k][s] > 0
  BY <1>1
<1> SUFFICES ASSUME ~overlap
             PROVE  /\ \A v \in Workers : job'[v].at \in Writing =>
                         \A s \in job'[v].todo : ~Billed(s)'
                    /\ \A s \in Sheets, i, k \in Invoices :
                         lines'[i][s] > 0 /\ lines'[k][s] > 0 => i = k /\ lines'[i][s] = 1
  BY DEF BilledInv, Writing
<1>3. ASSUME NEW v \in Workers, job'[v].at \in Writing, NEW s \in job'[v].todo
      PROVE  ~Billed(s)'
  <2>1. ~Billed(s)
    <3>1. CASE v = w
      BY <1>3, <3>1 DEF BilledInv, Writing
    <3>2. CASE v # w
      BY <1>3, <3>2 DEF BilledInv, Writing, Only
    <3> QED BY <3>1, <3>2
  <2>2. s \in Sheets
    BY <1>1, <1>3
  <2> QED BY <1>2, <2>1, <2>2 DEF Billed
<1>4. ASSUME NEW s \in Sheets, NEW i \in Invoices, NEW k \in Invoices,
             lines'[i][s] > 0, lines'[k][s] > 0
      PROVE  i = k /\ lines'[i][s] = 1
  <2>1. lines[i][s] > 0 /\ lines[k][s] > 0
    BY <1>2, <1>4
  <2>2. i = k /\ lines[i][s] = 1
    BY <2>1 DEF BilledInv
  <2>3. lines'[i][s] \in Nat /\ lines'[i][s] <= 1 /\ lines'[i][s] > 0
    BY <1>1, <1>4, <2>2
  <2>4. lines'[i][s] = 1
    BY <2>3
  <2> QED BY <2>2, <2>4
<1> QED BY <1>3, <1>4

\* One line more for each sheet that had none.
LEMMA BilledInsert ==
  ASSUME TypeInv, NumberInv, BilledInv, NEW w \in Workers, InsertLines(w)
  PROVE  BilledInv'
<1>1. /\ job[w].at = "delete" /\ job[w].on \in Invoices /\ Only(w) /\ UNCHANGED overlap
      /\ \/ job'[w] = Idle /\ UNCHANGED lines
         \/ /\ job'[w].at = "total"
            /\ \A k \in Invoices \ {job[w].on} : lines'[k] = lines[k]
            /\ \A s \in Sheets : lines'[job[w].on][s] =
                 lines[job[w].on][s] + (IF s \in job[w].todo THEN 1 ELSE 0)
  BY InsertLinesFacts
<1>2. \A k \in Invoices, s \in Sheets : lines[k][s] \in Nat
  BY DEF TypeInv, TypeOK, Bags
<1> SUFFICES ASSUME ~overlap
             PROVE  /\ \A v \in Workers : job'[v].at \notin Writing
                    /\ \A s \in Sheets, i, k \in Invoices :
                         lines'[i][s] > 0 /\ lines'[k][s] > 0 => i = k /\ lines'[i][s] = 1
  BY <1>1 DEF BilledInv, Writing
<1>3. ASSUME NEW v \in Workers PROVE job'[v].at \notin Writing
  <2>1. CASE v = w
    BY <1>1, <2>1, IdleType DEF Writing
  <2>2. CASE v # w
    <3>1. job[v].at \notin Generating
      BY <1>1, <2>2 DEF NumberInv, Generating
    <3> QED BY <1>1, <2>2, <3>1 DEF Only, Generating, Writing
  <2> QED BY <2>1, <2>2
<1>4. ASSUME NEW s \in Sheets, NEW i \in Invoices, NEW k \in Invoices,
             lines'[i][s] > 0, lines'[k][s] > 0
      PROVE  i = k /\ lines'[i][s] = 1
  <2>1. CASE lines'[i][s] = lines[i][s] /\ lines'[k][s] = lines[k][s]
    BY <1>4, <2>1 DEF BilledInv
  <2>2. CASE ~(lines'[i][s] = lines[i][s] /\ lines'[k][s] = lines[k][s])
    <3> DEFINE o == job[w].on
    <3>1. /\ s \in job[w].todo /\ lines'[o][s] = lines[o][s] + 1
          /\ \A l \in Invoices \ {o} : lines'[l] = lines[l]
      <4>1. CASE s \in job[w].todo
        BY <1>1, <2>2, <4>1
      <4>2. CASE s \notin job[w].todo
        <5>1. \A l \in Invoices : lines'[l][s] = lines[l][s]
          BY <1>1, <1>2, <4>2
        <5> QED BY <2>2, <5>1
      <4> QED BY <4>1, <4>2
    <3>2. ~Billed(s)
      BY <1>1, <3>1 DEF BilledInv
    <3>3. \A l \in Invoices : lines[l][s] = 0
      BY <1>2, <3>2 DEF Billed
    <3> QED BY <1>1, <1>4, <3>1, <3>3
  <2> QED BY <2>1, <2>2
<1> QED BY <1>3, <1>4

\* Every action keeps that.
LEMMA BilledNext ==
  ASSUME TypeInv, TypeInv', NumberInv, BilledInv, Next
  PROVE  BilledInv'
<1> USE DEF Writing
<1>0. /\ \A k \in Invoices, s \in Sheets : lines[k][s] \in Nat
      /\ UNCHANGED lines => \A k \in Invoices, s \in Sheets : lines'[k][s] <= lines[k][s]
  BY DEF TypeInv, TypeOK, Bags
<1>1. ASSUME NEW w \in Workers, NEW i, Begins(w, i) PROVE BilledInv'
  <2>1. /\ Only(w) /\ job'[w].at = "select" /\ (overlap => overlap') /\ UNCHANGED lines
    BY <1>1, StartFacts DEF Begins
  <2> QED BY <1>0, <2>1, BilledStep
<1>2. ASSUME NEW w \in Workers, NEW g \in SUBSET Sheets, Select(w, g) PROVE BilledInv'
  <2>1. /\ Only(w) /\ UNCHANGED <<lines, overlap>> /\ \A s \in job'[w].todo : ~Billed(s)
    BY <1>2, SelectFacts DEF history
  <2> QED BY <1>0, <2>1, BilledStep
<1>3. ASSUME NEW w \in Workers, Finish(w) PROVE BilledInv'
  <2>1. Only(w) /\ job'[w].at = "idle" /\ UNCHANGED <<lines, overlap>>
    BY <1>3, EndFacts, IdleType DEF Finish, history, TypeInv, TypeOK
  <2> QED BY <1>0, <2>1, BilledStep
<1>4. ASSUME NEW w \in Workers, ReadRule(w) PROVE BilledInv'
  <2>1. /\ Only(w) /\ job[w].at = "number" /\ job'[w].todo = job[w].todo
        /\ UNCHANGED <<lines, overlap>>
    BY <1>4, ReadRuleFacts DEF history
  <2> QED BY <1>0, <2>1, BilledStep
<1>5. ASSUME NEW w \in Workers, SaveRule(w) PROVE BilledInv'
  <2>1. /\ Only(w) /\ job[w].at = "rule" /\ job'[w].todo = job[w].todo
        /\ UNCHANGED <<lines, overlap>>
    BY <1>5, SaveRuleFacts DEF history
  <2> QED BY <1>0, <2>1, BilledStep
<1>6. ASSUME NEW w \in Workers, ReadLines(w) PROVE BilledInv'
  <2>1. /\ Only(w) /\ job[w].at = "old" /\ job'[w].todo = job[w].todo
        /\ UNCHANGED <<lines, overlap>>
    BY <1>6, ReadLinesFacts DEF history
  <2> QED BY <1>0, <2>1, BilledStep
<1>7. ASSUME NEW w \in Workers, Insert(w) PROVE BilledInv'
  <2>1. /\ Only(w) /\ job[w].at = "insert" /\ job'[w].todo = job[w].todo
        /\ UNCHANGED <<lines, overlap>>
    BY <1>7, InsertFacts DEF history
  <2> QED BY <1>0, <2>1, BilledStep
<1>8. ASSUME NEW w \in Workers, NEW s \in Sheets, DeleteLine(w, s) PROVE BilledInv'
  <2>1. /\ Only(w) /\ job[w].at = "delete" /\ job'[w].todo = job[w].todo
        /\ \A k \in Invoices \ {job[w].on} : lines'[k] = lines[k]
        /\ \A r \in Sheets : lines'[job[w].on][r] <= lines[job[w].on][r]
        /\ UNCHANGED overlap
    BY <1>8, DeleteLineFacts DEF history
  <2>2. \A k \in Invoices, r \in Sheets : lines'[k][r] <= lines[k][r]
    BY <1>0, <2>1
  <2> QED BY <2>1, <2>2, BilledStep
<1>9. ASSUME NEW w \in Workers, SaveTotal(w) PROVE BilledInv'
  <2>1. /\ Only(w) /\ job'[w].at \in {"idle", "select"} /\ UNCHANGED <<lines, overlap>>
    BY <1>9, SaveTotalFacts, IdleType DEF history
  <2> QED BY <1>0, <2>1, BilledStep
<1>10. ASSUME NEW w \in Workers, NEW i \in Invoices, BeginSync(w, i) PROVE BilledInv'
  <2>1. Only(w) /\ job'[w].at = "schedule" /\ UNCHANGED <<lines, overlap>>
    BY <1>10, BeginSyncFacts
  <2> QED BY <1>0, <2>1, BilledStep
<1>11. ASSUME NEW w \in Workers, NEW i \in Invoices, NEW what \in Requests, BeginRequest(w, i, what) PROVE BilledInv'
  <2>1. Only(w) /\ job'[w].at \in Requests /\ UNCHANGED <<lines, overlap>>
    BY <1>11, BeginRequestFacts
  <2> QED BY <1>0, <2>1, BilledStep DEF Requests
<1>12. ASSUME NEW w \in Workers, Schedule(w) PROVE BilledInv'
  <2>1. Only(w) /\ job'[w].at \in {"idle", "get"} /\ UNCHANGED <<lines, overlap>>
    BY <1>12, ScheduleFacts, IdleType DEF history
  <2> QED BY <1>0, <2>1, BilledStep
<1>13. ASSUME NEW w \in Workers, Mark(w) PROVE BilledInv'
  <2>1. Only(w) /\ job'[w].at \in {"idle", "compare"} /\ UNCHANGED <<lines, overlap>>
    BY <1>13, MarkFacts, IdleType DEF history
  <2> QED BY <1>0, <2>1, BilledStep
<1>14. ASSUME NEW w \in Workers, Fail(w) PROVE BilledInv'
  <2>1. Only(w) /\ job'[w].at = "idle" /\ UNCHANGED <<lines, overlap>>
    BY <1>14, FailFacts, IdleType DEF history
  <2> QED BY <1>0, <2>1, BilledStep
<1>15. ASSUME NEW w \in Workers, Done(w) PROVE BilledInv'
  <2>1. Only(w) /\ job'[w].at = "idle" /\ UNCHANGED <<lines, overlap>>
    BY <1>15, DoneFacts, IdleType DEF history
  <2> QED BY <1>0, <2>1, BilledStep
<1>16. ASSUME NEW w \in Workers, Get(w) PROVE BilledInv'
  <2>1. /\ Only(w) /\ job'[w].at = "mark"
        /\ UNCHANGED <<lines, overlap>>
    BY <1>16, GetFacts, IdleType DEF history
  <2> QED BY <1>0, <2>1, BilledStep
<1>17. ASSUME NEW w \in Workers, Compare(w) PROVE BilledInv'
  <2>1. /\ Only(w) /\ job'[w].at \in {"idle", "fail", "post", "put", "done"}
        /\ UNCHANGED <<lines, overlap>>
    BY <1>17, CompareFacts, IdleType DEF history
  <2> QED BY <1>0, <2>1, BilledStep
<1>18. ASSUME NEW w \in Workers, Post(w) PROVE BilledInv'
  <2>1. /\ Only(w) /\ job'[w].at \in {"done", "fail"}
        /\ UNCHANGED <<lines, overlap>>
    BY <1>18, PostFacts, IdleType DEF history
  <2> QED BY <1>0, <2>1, BilledStep
<1>19. ASSUME NEW w \in Workers, Put(w) PROVE BilledInv'
  <2>1. /\ Only(w) /\ job'[w].at \in {"done", "fail"}
        /\ UNCHANGED <<lines, overlap>>
    BY <1>19, PutFacts, IdleType DEF history
  <2> QED BY <1>0, <2>1, BilledStep
<1>20. ASSUME NEW w \in Workers, Approve(w) PROVE BilledInv'
  <2>1. Only(w) /\ job'[w].at = "idle" /\ UNCHANGED <<lines, overlap>>
    BY <1>20, ApproveFacts, IdleType DEF history
  <2> QED BY <1>0, <2>1, BilledStep
<1>21. ASSUME NEW w \in Workers, Destroy(w) PROVE BilledInv'
  <2>1. /\ Only(w) /\ job'[w].at = "idle" /\ UNCHANGED overlap
        /\ \A k \in Invoices \ {job[w].on} : lines'[k] = lines[k]
        /\ lines'[job[w].on] = Empty
    BY <1>21, DestroyFacts, IdleType DEF history
  <2>2. \A k \in Invoices, r \in Sheets : lines'[k][r] <= lines[k][r]
    BY <1>0, <2>1 DEF Empty
  <2> QED BY <2>1, <2>2, BilledStep
<1>22. ASSUME NEW w \in Workers, Die(w) PROVE BilledInv'
  <2>1. Only(w) /\ job'[w].at = "idle" /\ UNCHANGED <<lines, overlap>>
    BY <1>22, DieFacts, IdleType
  <2> QED BY <1>0, <2>1, BilledStep
<1>23. ASSUME NEW w \in Workers, InsertLines(w) PROVE BilledInv'
  BY <1>23, BilledInsert
<1>24. ASSUME NEW k \in Invoices, CheckUnpaid(k) PROVE BilledInv'
  BY <1>24 DEF CheckUnpaid, history, BilledInv, Billed
<1>25. CASE NextDay
  BY <1>25 DEF NextDay, history, BilledInv, Billed
<1>26. ASSUME NEW s \in Sheets, SheetReady(s) PROVE BilledInv'
  BY <1>26 DEF SheetReady, history, BilledInv, Billed
<1>27. ASSUME NEW s \in Sheets, DeleteSheet(s) PROVE BilledInv'
  <2>1. /\ UNCHANGED <<job, overlap>>
        /\ \A i \in Invoices, r \in Sheets : lines'[i][r] <= lines[i][r]
    BY <1>27, DeleteSheetFacts DEF history
  <2>2. \A i \in Invoices, r \in Sheets : lines[i][r] \in Nat /\ lines'[i][r] \in Nat
    BY DEF TypeInv, TypeOK, Bags
  <2>3. \A r \in Sheets : ~Billed(r) => ~Billed(r)'
    BY <2>1, <2>2 DEF Billed
  <2>4. \A w \in Workers : job[w].todo \subseteq Sheets
    BY JobFields DEF TypeInv, TypeOK
  <2>5. ASSUME ~overlap, NEW w \in Workers,
               job[w].at \in {"number", "rule", "insert", "old", "delete"}, NEW r \in job[w].todo
        PROVE  ~Billed(r)'
    BY <2>3, <2>4, <2>5 DEF BilledInv
  <2>6. ASSUME ~overlap, NEW r \in Sheets, NEW i \in Invoices, NEW k \in Invoices,
               lines'[i][r] > 0, lines'[k][r] > 0
        PROVE  i = k /\ lines'[i][r] = 1
    <3>1. lines[i][r] > 0 /\ lines[k][r] > 0 /\ lines'[i][r] <= lines[i][r]
      BY <2>1, <2>2, <2>6
    <3>2. i = k /\ lines[i][r] = 1
      BY <2>6, <3>1 DEF BilledInv
    <3> QED BY <2>2, <2>6, <3>1, <3>2
  <2> QED BY <2>1, <2>5, <2>6 DEF BilledInv
<1> QED
  BY <1>1, <1>2, <1>3, <1>4, <1>5, <1>6, <1>7, <1>8, <1>9, <1>10, <1>11,
     <1>12, <1>13, <1>14, <1>15, <1>16, <1>17, <1>18, <1>19, <1>20, <1>21,
     <1>22, <1>23, <1>24, <1>25, <1>26, <1>27, NextCases

\* A sheet is on one invoice only, once, unless two generations overlapped: the
\* time sheets without a line are selected statements before their lines are
\* inserted, and the old lines deleted one by one in between.
THEOREM SheetsBilledOnce == Spec => []BilledOnce
<1>1. Init => BilledInv
  BY DEF Init, BilledInv, Billed, Idle, Empty
<1>2. TypeInv /\ WorkInv /\ NumberInv /\ BilledInv /\ [Next]_vars => BilledInv'
  <2>1. BilledInv /\ UNCHANGED vars => BilledInv'
    BY DEF vars, business, bounds, history, BilledInv, Billed
  <2> QED BY <2>1, TypeStep, BilledNext
<1>3. TypeInv /\ BilledInv => BilledOnce
  <2> SUFFICES ASSUME TypeInv, BilledInv, ~overlap, NEW s \in Sheets
               PROVE  SumFunction([i \in Invoices |-> lines[i][s]]) <= 1
    BY DEF BilledOnce
  <2> DEFINE f == [i \in Invoices |-> lines[i][s]]
  <2>1. \A i \in Invoices : f[i] \in Nat
    BY DEF TypeInv, TypeOK, Bags
  <2>2. \A i, k \in Invoices : f[i] > 0 /\ f[k] > 0 => i = k /\ f[i] = 1
    BY DEF BilledInv
  <2>3. DOMAIN f = Invoices /\ IsFiniteSet(Invoices)
    BY InvoicesAssumption DEF InvoicesAssumption
  <2> HIDE DEF f
  <2>4. \A i \in Invoices : f[i] \in {0, 1}
    BY <2>1, <2>2
  <2>5. \A i, k \in Invoices : f[i] = 1 /\ f[k] = 1 => i = k
    BY <2>2
  <2>6. SumFunctionOnSet(f, Invoices) <= 1
    BY <2>3, <2>4, <2>5, SumOne
  <2>7. SumFunction(f) <= 1
    BY <2>3, <2>6 DEF SumFunction, SumFunctionOnSet
  <2> QED BY <2>7 DEF f
<1> QED BY <1>1, <1>2, <1>3, Working, Numbering, PTL DEF Spec

-----------------------------------------------------------------------------
(* Sheets billed on request *)

\* A row that was deleted, or inserted again, never is as before.
LEMMA IntactBefore ==
  ASSUME TypeInv, WorkInv, Next, Intact'
  PROVE  Intact
<1> DEFINE Marred(i) == row[i].state = "deleted" \/ (Live(i) /\ row[i].approved /\ i \in mixed)
<1> SUFFICES ASSUME NEW i \in Invoices, Marred(i) PROVE Marred(i)'
  BY DEF Intact
<1>0. /\ mixed \subseteq mixed'
      /\ row[i].state # "none"
  <2>1. mixed \subseteq mixed'
    <3>1. \A w \in Workers : \A k, j : Begin(w, k, j) => mixed \subseteq mixed'
      BY DEF Begin
    <3>2. \A w \in Workers : (\E k : Begins(w, k)) => mixed \subseteq mixed'
      BY <3>1 DEF Begins, Start
    <3>3. \A w \in Workers : (\E k \in Invoices : BeginSync(w, k)) => mixed \subseteq mixed'
      BY <3>1 DEF BeginSync
    <3>4. \A w \in Workers : (\E k \in Invoices, what \in Requests : BeginRequest(w, k, what))
            => mixed \subseteq mixed'
      BY <3>1 DEF BeginRequest
    <3>5. ASSUME NEW w \in Workers,
                 \/ \E g \in SUBSET Sheets : Select(w, g)
                 \/ Finish(w) \/ ReadRule(w) \/ SaveRule(w) \/ Insert(w) \/ ReadLines(w)
                 \/ (\E s \in Sheets : DeleteLine(w, s)) \/ InsertLines(w) \/ SaveTotal(w)
          PROVE  UNCHANGED mixed
      BY <3>5 DEF Select, Finish, ReadRule, SaveRule, Insert, ReadLines, DeleteLine,
         InsertLines, SaveTotal, history
    <3>6. ASSUME NEW w \in Workers,
                 \/ Schedule(w) \/ Get(w) \/ Mark(w) \/ Compare(w) \/ Post(w) \/ Put(w)
                 \/ Fail(w) \/ Done(w) \/ Approve(w) \/ Destroy(w) \/ Die(w)
          PROVE  UNCHANGED mixed
      BY <3>6 DEF Schedule, Get, Mark, Compare, Post, Put, Fail, Done, Approve, Destroy,
         Die, history
    <3>7. ASSUME (\E k \in Invoices : CheckUnpaid(k)) \/ NextDay \/ \E s \in Sheets : SheetReady(s)
          PROVE  UNCHANGED mixed
      BY <3>7 DEF CheckUnpaid, NextDay, SheetReady, history
    <3>8. ASSUME \E s \in Sheets : DeleteSheet(s)
          PROVE  UNCHANGED mixed
      BY <3>8 DEF DeleteSheet, history
    <3> QED BY <3>8, <3>2, <3>3, <3>4, <3>5, <3>6, <3>7, NextCases
  <2> QED BY <2>1 DEF Live
<1> DEFINE Same == row'[i].state = row[i].state /\ row'[i].approved = row[i].approved
<1>1. Same => Marred(i)'
  BY <1>0 DEF Live
<1>2. ASSUME NEW w \in Workers, Insert(w) PROVE Same
  BY <1>0, <1>2, InsertFacts
<1>3. ASSUME NEW w \in Workers, SaveTotal(w) PROVE Same
  BY <1>3, SaveTotalFacts DEF Live
<1>4. ASSUME NEW w \in Workers, Schedule(w) \/ Mark(w) \/ Fail(w) \/ Done(w) PROVE Same
  BY <1>4, ScheduleFacts, MarkFacts, FailFacts, DoneFacts DEF Marked
<1>5. ASSUME NEW w \in Workers, Approve(w) PROVE Same \/ Marred(i)'
  <2>1. CASE job[w].on = i
    <3>1. job[w].copy.state = "live" /\ (i \notin mixed => Live(i))
      BY <1>5, <2>1 DEF Approve, WorkInv, RequestOK, Requests
    <3>2. row'[i].state = "live" /\ row'[i].approved = TRUE
      BY <1>5, <2>1, <3>1, ApproveFacts
    <3>3. i \in mixed
      BY <3>1 DEF Live
    <3> QED BY <1>0, <3>2, <3>3 DEF Live
  <2>2. CASE job[w].on # i
    BY <1>5, <2>2, ApproveFacts
  <2> QED BY <2>1, <2>2
<1>6. ASSUME NEW w \in Workers, Destroy(w) PROVE Same \/ Marred(i)'
  BY <1>6, DestroyFacts
<1>7. ASSUME NEW k \in Invoices, CheckUnpaid(k) PROVE Same
  BY <1>7, CheckUnpaidFacts
<1>8. ASSUME NEW w \in Workers,
             \/ \E k : Begins(w, k)
             \/ \E g \in SUBSET Sheets : Select(w, g)
             \/ Finish(w) \/ ReadRule(w) \/ SaveRule(w) \/ ReadLines(w)
             \/ (\E s \in Sheets : DeleteLine(w, s)) \/ InsertLines(w)
      PROVE  Same
  BY <1>8 DEF Begins, Start, Select, Finish, ReadRule, SaveRule, ReadLines, DeleteLine,
     InsertLines
<1>9. ASSUME NEW w \in Workers,
             \/ \E k \in Invoices : BeginSync(w, k)
             \/ Get(w) \/ Compare(w) \/ Post(w) \/ Put(w)
             \/ \E k \in Invoices, what \in Requests : BeginRequest(w, k, what)
             \/ Die(w)
      PROVE  Same
  BY <1>9 DEF BeginSync, Get, Compare, Post, Put, BeginRequest, Die
<1>10. ASSUME NextDay \/ \E s \in Sheets : SheetReady(s) \/ DeleteSheet(s) PROVE Same
  BY <1>10 DEF NextDay, SheetReady, DeleteSheet
<1> QED BY <1>1, <1>2, <1>3, <1>4, <1>5, <1>6, <1>7, <1>8, <1>9, <1>10, NextCases

\* A worker that keeps the rule and the lines leaves what the others are to bill.
LEMMA RecreateStep ==
  ASSUME TypeInv, RecreateInv, NEW w \in Workers, Only(w), overlap => overlap',
         Intact' => Intact, UNCHANGED <<rule, ready, gone, lines>>,
         ~overlap' /\ Intact' => ToBill(w)'
  PROVE  RecreateInv'
<1> SUFFICES ASSUME ~overlap', Intact', NEW v \in Workers PROVE ToBill(v)'
  BY DEF RecreateInv
<1>1. CASE v = w
  BY <1>1
<1>2. CASE v # w
  <2>1. ToBill(v) /\ job'[v] = job[v]
    BY <1>2 DEF RecreateInv, Only
  <2> QED BY <2>1 DEF ToBill, Billed, Missed
<1> QED BY <1>1, <1>2

\* A generation that changes the lines is the only one.
LEMMA RecreateAlone ==
  ASSUME TypeInv, NumberInv, RecreateInv, NEW w \in Workers, Only(w), UNCHANGED overlap,
         job[w].at \in Generating, ~overlap' /\ Intact' => ToBill(w)'
  PROVE  RecreateInv'
<1> SUFFICES ASSUME ~overlap', Intact', NEW v \in Workers PROVE ToBill(v)'
  BY DEF RecreateInv
<1>1. CASE v = w
  BY <1>1
<1>2. CASE v # w
  <2>1. job'[v].at \notin Generating
    BY <1>2 DEF NumberInv, Only
  <2> QED BY <2>1 DEF ToBill
<1> QED BY <1>1, <1>2

\* The groups to do hold the sheet that a generation begins with.
LEMMA GroupsHold ==
  ASSUME TypeInv, NEW to \in Int, NEW s \in Sheets, s \in ready, Day[s] < to, ~Billed(s)
  PROVE  /\ s \in UNION GroupsToDo(to)
         /\ rule.separation = "one_invoice" => GroupsToDo(to) = {Sheets}
<1> DEFINE g == {r \in Sheets : Group[r] = Group[s]}
<1>1. rule.separation \in Separations
  BY InvoicesAssumption DEF InvoicesAssumption, TypeInv, TypeOK
<1>2. g \in Groups /\ s \in g
  BY DEF Groups
<1>3. s \in Billable(to)
  BY DEF Billable
<1> HIDE DEF g
<1>4. CASE rule.separation = "one_invoice"
  BY <1>4 DEF GroupsToDo
<1>5. CASE rule.separation = "per_jobsite"
  <2>1. GroupsToDo(to) = Groups
    BY <1>5 DEF GroupsToDo
  <2> QED BY <1>2, <1>5, <2>1
<1>6. CASE rule.separation = "per_candidate"
  <2>1. GroupsToDo(to) = {h \in Groups : h \cap Billable(to) # {}}
    BY <1>6 DEF GroupsToDo
  <2>2. g \in GroupsToDo(to)
    BY <1>2, <1>3, <2>1
  <2> QED BY <1>2, <1>6, <2>2
<1> QED BY <1>1, <1>4, <1>5, <1>6 DEF Separations

\* The lines are inserted, and the sheet's among them.
LEMMA RecreateInsert ==
  ASSUME TypeInv, TypeInv', NumberInv, RecreateInv, Intact' => Intact,
         NEW w \in Workers, InsertLines(w)
  PROVE  RecreateInv'
<1>1. /\ job[w].at = "delete" /\ job[w].on \in Invoices /\ Only(w)
      /\ UNCHANGED <<overlap, rule, ready, gone>>
      /\ \/ job'[w] = Idle
         \/ /\ job'[w].at = "total" /\ job'[w].given = job[w].given /\ Keeps(w)
            /\ \A k \in Invoices \ {job[w].on} : lines'[k] = lines[k]
            /\ \A s \in Sheets : lines'[job[w].on][s] =
                 lines[job[w].on][s] + (IF s \in job[w].todo THEN 1 ELSE 0)
  BY InsertLinesFacts DEF business
<1>2. ASSUME ~overlap', Intact' PROVE ToBill(w)'
  <2>1. ToBill(w)
    BY <1>1, <1>2 DEF RecreateInv
  <2>2. CASE job'[w] = Idle
    BY <2>2, IdleType DEF ToBill, Generating
  <2>3. CASE job'[w] # Idle
    <3> DEFINE s == job[w].for
               o == job[w].on
    <3> SUFFICES ASSUME s \notin {NoSheet} \cup gone, ~Missed(s, job[w].to), rule.separation = "one_invoice" \/ ~job[w].given
                 PROVE  ToBill(w)'
      BY <1>1, <2>3 DEF ToBill, Missed, Keeps, Goes
    <3>1. s \in Sheets /\ \A k \in Invoices, r \in Sheets : lines[k][r] \in Nat
      BY JobFields DEF TypeInv, TypeOK, Bags
    <3>2. \A k \in Invoices, r \in Sheets : lines'[k][r] >= lines[k][r]
      BY <1>1, <2>3, <3>1
    <3>3. /\ s \in ready /\ Day[s] < job[w].to
          /\ s \in UNION job[w].groups \/ s \in job[w].todo \/ Billed(s)
          /\ job[w].given => job[w].groups = {}
      BY <1>1, <2>1 DEF ToBill, Generating
    <3>4. Billed(s) => Billed(s)'
      BY <1>1, <2>3, <3>1, <3>2 DEF Billed, Keeps, Goes
    <3>5. s \in job[w].todo => lines'[o][s] > 0
      BY <1>1, <2>3, <3>1
    <3>6. s \in job[w].todo => Billed(s)'
      BY <1>1, <2>3, <3>1, <3>5 DEF Billed, Keeps, Goes
    <3>7. job'[w].for = s /\ job'[w].to = job[w].to /\ job'[w].groups = job[w].groups
      BY <1>1, <2>3 DEF Keeps, Goes
    <3> HIDE DEF o
    <3> QED BY <1>1, <2>3, <3>3, <3>4, <3>6, <3>7 DEF ToBill, Writing
  <2> QED BY <2>2, <2>3
<1>3. job[w].at \in Generating
  BY <1>1 DEF Generating
<1> QED BY <1>1, <1>2, <1>3, RecreateAlone

\* A line is deleted, while the sheet to bill is among those read before.
LEMMA RecreateDelete ==
  ASSUME TypeInv, NumberInv, RecreateInv, Intact' => Intact,
         NEW w \in Workers, NEW r \in Sheets, DeleteLine(w, r)
  PROVE  RecreateInv'
<1>1. /\ job[w].at = "delete" /\ job'[w].at = "delete" /\ Only(w) /\ Keeps(w)
      /\ job'[w].given = job[w].given /\ job'[w].todo = job[w].todo
      /\ job[w].old[r] > 0 /\ UNCHANGED <<overlap, rule, ready, gone>>
  BY DeleteLineFacts DEF history, business
<1>2. ASSUME ~overlap', Intact' PROVE ToBill(w)'
  <2>1. ToBill(w)
    BY <1>1, <1>2 DEF RecreateInv
  <2>2. job[w].given \in BOOLEAN
    BY JobFields DEF TypeInv, TypeOK
  <2>3. CASE job[w].given
    BY <1>1, <2>1, <2>3 DEF ToBill, Missed, Keeps, Goes, Writing
  <2>4. CASE ~job[w].given
    <3>1. job[w].old # Empty
      BY <1>1 DEF Empty
    <3> QED BY <1>1, <2>1, <2>4, <3>1 DEF ToBill, Missed, Keeps, Goes, Generating
  <2> QED BY <2>2, <2>3, <2>4
<1>3. job[w].at \in Generating
  BY <1>1 DEF Generating
<1> QED BY <1>1, <1>2, <1>3, RecreateAlone

\* The sheets of a group are read: with the group of the sheet, the sheet.
LEMMA RecreateSelect ==
  ASSUME TypeInv, RecreateInv, Intact' => Intact,
         NEW w \in Workers, NEW g \in SUBSET Sheets, Select(w, g)
  PROVE  RecreateInv'
<1>1. /\ job[w].at = "select" /\ Only(w) /\ Goes(w)
      /\ job'[w].at \in {"select", "old", "number"}
      /\ job'[w].at = "old" => job[w].given
      /\ job'[w].given = job[w].given
      /\ g \in job[w].groups /\ job'[w].groups = job[w].groups \ {g}
      /\ job'[w].todo = Billable(job[w].to) \cap g
      /\ job'[w].todo # {} => job'[w].at # "select"
      /\ UNCHANGED <<overlap, rule, ready, gone, lines>>
  BY SelectFacts DEF history, business
<1>2. ASSUME ~overlap', Intact' PROVE ToBill(w)'
  <2> DEFINE s == job[w].for
  <2>1. ToBill(w)
    BY <1>1, <1>2 DEF RecreateInv
  <2> SUFFICES ASSUME s \notin {NoSheet} \cup gone, ~Missed(s, job[w].to), rule.separation = "one_invoice" \/ ~job[w].given
               PROVE  ToBill(w)'
    BY <1>1 DEF ToBill, Missed, Goes
  <2>2. /\ s \in ready /\ Day[s] < job[w].to
        /\ s \in UNION job[w].groups \/ Billed(s)
        /\ job[w].given => job[w].groups = {Sheets} /\ ~Billed(s)
    BY <1>1, <2>1 DEF ToBill, Generating, Writing
  <2>3. s \in Sheets /\ ready \subseteq Sheets
    BY JobFields DEF TypeInv, TypeOK
  <2>4. s \in g /\ ~Billed(s) => s \in job'[w].todo
    BY <1>1, <2>2 DEF Billable
  <2>5. job'[w].todo # {} => job'[w].at \in Writing
    BY <1>1 DEF Writing
  <2>6. job'[w].for = s /\ job'[w].to = job[w].to /\ Billed(s)' = Billed(s)
    BY <1>1 DEF Goes, Billed
  <2>7. s \in UNION job'[w].groups \/ (job'[w].at \in Writing /\ s \in job'[w].todo) \/ Billed(s)
    BY <1>1, <2>2, <2>4, <2>5
  <2>8. job[w].given => job'[w].groups = {} /\ s \in job'[w].todo
    BY <1>1, <2>2, <2>3, <2>4
  <2>9. ~job[w].given => job'[w].at # "old" /\ job'[w].at # "delete"
    BY <1>1
  <2> QED BY <1>1, <2>2, <2>6, <2>7, <2>8, <2>9 DEF ToBill
<1> QED BY <1>1, <1>2, RecreateStep

\* Every action keeps that.
LEMMA RecreateNext ==
  ASSUME TypeInv, TypeInv', WorkInv, NumberInv, RecreateInv, Next
  PROVE  RecreateInv'
<1>0. Intact' => Intact
  BY IntactBefore
<1>1. ASSUME NEW w \in Workers, NEW i, Begins(w, i) PROVE RecreateInv'
  <2>1. PICK to \in Int, s \in Sheets \cup {NoSheet} :
          (s \in Sheets /\ ~Missed(s, to) => Day[s] < to) /\ Start(w, i, to, s)
    BY <1>1 DEF Begins
  <2>2. /\ Only(w) /\ job'[w].at = "select" /\ (overlap => overlap')
        /\ job'[w].to = to /\ job'[w].groups = GroupsToDo(to)
        /\ job'[w].for # NoSheet => job'[w].for = s /\ s \in ready /\ ~Billed(s)
        /\ UNCHANGED <<rule, ready, gone, lines>>
    BY <1>1, <2>1, StartFacts DEF Begins, business
  <2>3. ToBill(w)'
    <3> SUFFICES ASSUME job'[w].for # NoSheet, ~Missed(s, to)
                 PROVE  ToBill(w)'
      BY <2>2 DEF ToBill, Missed
    <3>1. s \in Sheets /\ Day[s] < to
      BY <2>1, <2>2, InvoicesAssumption DEF InvoicesAssumption
    <3>2. /\ s \in UNION GroupsToDo(to)
          /\ rule.separation = "one_invoice" => GroupsToDo(to) = {Sheets}
      BY <2>2, <3>1, GroupsHold
    <3>3. Billed(s)' = Billed(s)
      BY <2>2 DEF Billed
    <3> QED BY <2>2, <3>1, <3>2, <3>3 DEF ToBill, Writing
  <2> QED BY <1>0, <2>2, <2>3, RecreateStep
<1>2. ASSUME NEW w \in Workers, NEW g \in SUBSET Sheets, Select(w, g) PROVE RecreateInv'
  BY <1>0, <1>2, RecreateSelect
<1>3. ASSUME NEW w \in Workers, Only(w), job'[w].at \notin Generating,
             UNCHANGED <<overlap, rule, ready, gone, lines>>
      PROVE  RecreateInv'
  BY <1>0, <1>3, RecreateStep DEF ToBill
<1>4. ASSUME NEW w \in Workers, Only(w), Keeps(w), job[w].at \in Writing,
             job'[w].at \in Writing, job'[w].given = job[w].given,
             job'[w].todo = job[w].todo, UNCHANGED <<overlap, rule, ready, gone, lines>>,
             job'[w].at # "delete", job'[w].at = "old" => lines[job'[w].on] = Empty
      PROVE  RecreateInv'
  <2>1. ASSUME ~overlap', Intact' PROVE ToBill(w)'
    <3>1. ToBill(w)
      BY <1>0, <1>4, <2>1 DEF RecreateInv
    <3>2. Billed(job[w].for)' = Billed(job[w].for) /\ Missed(job[w].for, job[w].to)' = Missed(job[w].for, job[w].to)
      BY <1>4 DEF Billed, Missed, Keeps, Goes
    <3>3. job[w].at # "select" /\ job[w].at \in Generating
      BY <1>4 DEF Writing, Generating
    <3> QED BY <1>4, <3>1, <3>2, <3>3 DEF ToBill, Keeps, Goes
  <2> QED BY <1>0, <1>4, <2>1, RecreateStep
<1>5. ASSUME NEW w \in Workers, Finish(w) PROVE RecreateInv'
  <2>1. /\ Only(w) /\ job'[w].at = "idle"
        /\ UNCHANGED <<overlap, rule, ready, gone, lines>>
    BY <1>5, EndFacts, IdleType DEF Finish, history, business, TypeInv, TypeOK
  <2> QED BY <1>3, <2>1 DEF Generating
<1>6. ASSUME NEW w \in Workers, ReadRule(w) PROVE RecreateInv'
  <2>1. /\ Only(w) /\ Keeps(w) /\ job[w].at = "number" /\ job'[w].at = "rule"
        /\ job'[w].given = job[w].given /\ job'[w].todo = job[w].todo
        /\ UNCHANGED <<overlap, rule, ready, gone, lines>>
    BY <1>6, ReadRuleFacts DEF history, business
  <2> QED BY <1>4, <2>1 DEF Writing
<1>7. ASSUME NEW w \in Workers, SaveRule(w) PROVE RecreateInv'
  <2>1. /\ Only(w) /\ Keeps(w) /\ job[w].at = "rule" /\ job'[w].at = "insert"
        /\ job'[w].given = job[w].given /\ job'[w].todo = job[w].todo
        /\ UNCHANGED <<overlap, rule, ready, gone, lines>>
    BY <1>7, SaveRuleFacts DEF history, business
  <2> QED BY <1>4, <2>1 DEF Writing
<1>8. ASSUME NEW w \in Workers, Insert(w) PROVE RecreateInv'
  <2>1. PICK i \in Invoices :
          /\ Only(w) /\ Keeps(w) /\ job[w].at = "insert" /\ job'[w].at = "old"
          /\ job'[w].on = i /\ row[i].state = "none"
          /\ job'[w].given = job[w].given /\ job'[w].todo = job[w].todo
          /\ UNCHANGED <<overlap, rule, ready, gone, lines>>
    BY <1>8, InsertFacts DEF history, business
  <2>2. lines[i] = Empty
    BY <2>1 DEF WorkInv, RowsOK
  <2> QED BY <1>4, <2>1, <2>2 DEF Writing
<1>9. ASSUME NEW w \in Workers, ReadLines(w) PROVE RecreateInv'
  <2>1. /\ Only(w) /\ Keeps(w) /\ job[w].at = "old" /\ job'[w].at = "delete"
        /\ job'[w].given = job[w].given /\ job'[w].todo = job[w].todo
        /\ job'[w].old = lines[job[w].on]
        /\ UNCHANGED <<overlap, rule, ready, gone, lines>>
    BY <1>9, ReadLinesFacts DEF history, business
  <2>2. ASSUME ~overlap', Intact' PROVE ToBill(w)'
    <3>1. ToBill(w)
      BY <1>0, <2>1, <2>2 DEF RecreateInv
    <3>2. Billed(job[w].for)' = Billed(job[w].for) /\ Missed(job[w].for, job[w].to)' = Missed(job[w].for, job[w].to)
      BY <2>1 DEF Billed, Missed, Keeps, Goes
    <3> QED BY <2>1, <3>1, <3>2 DEF ToBill, Keeps, Goes, Writing, Generating
  <2> QED BY <1>0, <2>1, <2>2, RecreateStep
<1>10. ASSUME NEW w \in Workers, SaveTotal(w) PROVE RecreateInv'
  <2>1. /\ job[w].at = "total" /\ Only(w) /\ UNCHANGED <<overlap, rule, ready, gone, lines>>
        /\ \/ job'[w] = Idle
           \/ job'[w].at = "select" /\ job'[w].given = job[w].given /\ Keeps(w)
    BY <1>10, SaveTotalFacts DEF history, business
  <2>2. CASE job'[w] = Idle
    BY <1>3, <2>1, <2>2, IdleType DEF Generating
  <2>3. CASE job'[w] # Idle
    <3>1. ASSUME ~overlap', Intact' PROVE ToBill(w)'
      <4>1. ToBill(w)
        BY <1>0, <2>1, <3>1 DEF RecreateInv
      <4>2. Billed(job[w].for)' = Billed(job[w].for) /\ Missed(job[w].for, job[w].to)' = Missed(job[w].for, job[w].to)
        BY <2>1, <2>3 DEF Billed, Missed, Keeps, Goes
      <4> QED BY <2>1, <2>3, <4>1, <4>2 DEF ToBill, Keeps, Goes, Writing, Generating
    <3> QED BY <1>0, <2>1, <3>1, RecreateStep
  <2> QED BY <2>2, <2>3
<1>11. ASSUME NEW w \in Workers, NEW s \in Sheets, DeleteLine(w, s) PROVE RecreateInv'
  BY <1>0, <1>11, RecreateDelete
<1>12. ASSUME NEW w \in Workers, InsertLines(w) PROVE RecreateInv'
  BY <1>0, <1>12, RecreateInsert
<1>13. ASSUME NEW w \in Workers, NEW i \in Invoices, BeginSync(w, i) PROVE RecreateInv'
  <2>1. Only(w) /\ job'[w].at = "schedule" /\ UNCHANGED <<overlap, rule, ready, gone, lines>>
    BY <1>13, BeginSyncFacts DEF business
  <2> QED BY <1>3, <2>1 DEF Generating
<1>14. ASSUME NEW w \in Workers, NEW i \in Invoices, NEW what \in Requests,
              BeginRequest(w, i, what)
       PROVE  RecreateInv'
  <2>1. Only(w) /\ job'[w].at \in Requests /\ UNCHANGED <<overlap, rule, ready, gone, lines>>
    BY <1>14, BeginRequestFacts DEF business
  <2> QED BY <1>3, <2>1 DEF Generating, Requests
<1>15. ASSUME NEW w \in Workers, Schedule(w) \/ Mark(w) \/ Fail(w) \/ Done(w) PROVE RecreateInv'
  <2>1. /\ Only(w) /\ job'[w].at \in {"idle", "get", "compare"}
        /\ UNCHANGED <<overlap, rule, ready, gone, lines>>
    BY <1>15, ScheduleFacts, MarkFacts, FailFacts, DoneFacts, IdleType DEF history, business
  <2> QED BY <1>3, <2>1 DEF Generating
<1>16. ASSUME NEW w \in Workers, Get(w) \/ Compare(w) PROVE RecreateInv'
  <2>1. /\ Only(w) /\ job'[w].at \in {"idle", "mark", "fail", "post", "put", "done"}
        /\ UNCHANGED <<overlap, rule, ready, gone, lines>>
    BY <1>16, GetFacts, CompareFacts, IdleType DEF history, business
  <2> QED BY <1>3, <2>1 DEF Generating
<1>17. ASSUME NEW w \in Workers, Post(w) \/ Put(w) PROVE RecreateInv'
  <2>1. /\ Only(w) /\ job'[w].at \in {"fail", "done"}
        /\ UNCHANGED <<overlap, rule, ready, gone, lines>>
    BY <1>17, PostFacts, PutFacts DEF history, business
  <2> QED BY <1>3, <2>1 DEF Generating
<1>18. ASSUME NEW w \in Workers, Approve(w) \/ Die(w) PROVE RecreateInv'
  <2>1. /\ Only(w) /\ job'[w].at = "idle"
        /\ UNCHANGED <<overlap, rule, ready, gone, lines>>
    BY <1>18, ApproveFacts, DieFacts, IdleType DEF history, business
  <2> QED BY <1>3, <2>1 DEF Generating
<1>19. ASSUME NEW w \in Workers, Destroy(w) PROVE RecreateInv'
  <2>1. ~Intact'
    BY <1>19, DestroyFacts DEF Intact
  <2> QED BY <2>1 DEF RecreateInv
<1>20. ASSUME NEW k \in Invoices, CheckUnpaid(k) PROVE RecreateInv'
  BY <1>0, <1>20 DEF CheckUnpaid, history, business, RecreateInv, ToBill, Billed, Missed
<1>21. CASE NextDay
  BY <1>0, <1>21 DEF NextDay, history, RecreateInv, ToBill, Billed, Missed
<1>22. ASSUME NEW s \in Sheets, SheetReady(s) PROVE RecreateInv'
  BY <1>0, <1>22 DEF SheetReady, history, RecreateInv, ToBill, Billed, Missed
<1>23. ASSUME NEW r \in Sheets, DeleteSheet(r) PROVE RecreateInv'
  <2>1. /\ ready' = ready \ {r} /\ gone' = gone \cup {r} /\ UNCHANGED <<rule, job, overlap>>
        /\ \A i \in Invoices : lines[i] \in [Sheets -> Nat] /\ lines'[i] \in [Sheets -> Nat]
        /\ \A i \in Invoices : /\ \A s \in Sheets : lines'[i][s] <= lines[i][s]
                               /\ \A s \in Sheets \ {r} : lines'[i][s] = lines[i][s]
    BY <1>23, DeleteSheetFacts DEF history, TypeInv, TypeOK, Bags
  <2> SUFFICES ASSUME ~overlap', Intact', NEW w \in Workers PROVE ToBill(w)'
    BY DEF RecreateInv
  <2>2. ToBill(w)
    BY <1>0, <2>1 DEF RecreateInv
  <2> DEFINE j == job[w]
             s == j.for
  <2> SUFFICES ASSUME j.at \in Generating, s \notin {NoSheet} \cup gone \cup {r},
                      ~Missed(s, j.to), rule.separation = "one_invoice" \/ ~j.given
               PROVE  ToBill(w)'
    BY <2>1 DEF ToBill, Missed
  <2>3. s \in Sheets \ {r} /\ (j.at = "old" /\ ~j.given => j.on \in Invoices)
    BY JobFields DEF TypeInv, TypeOK, PlaceOK
  <2>4. Billed(s)' = Billed(s)
    BY <2>1, <2>3 DEF Billed
  <2>5. ~j.given /\ j.at = "old" => lines'[j.on] = Empty
    <3> SUFFICES ASSUME ~j.given, j.at = "old" PROVE lines'[j.on] = Empty
      OBVIOUS
    <3>1. j.on \in Invoices /\ lines[j.on] = Empty
      BY <2>2, <2>3 DEF ToBill
    <3>2. \A q \in Sheets : lines'[j.on][q] = 0
      BY <2>1, <3>1 DEF Empty
    <3> QED BY <2>1, <3>1, <3>2 DEF Empty
  <2>6. job' = job /\ s \in ready'
    BY <2>1, <2>2, <2>3 DEF ToBill
  <2> QED BY <2>2, <2>4, <2>5, <2>6 DEF ToBill
<1> QED
  BY <1>23, <1>1, <1>2, <1>5, <1>6, <1>7, <1>8, <1>9, <1>10, <1>11, <1>12, <1>13, <1>14,
     <1>15, <1>16, <1>17, <1>18, <1>19, <1>20, <1>21, <1>22, NextCases

\* A request to recreate the invoice of an approved sheet that is not billed bills
\* it, whatever the sheets and the workers: recreate_invoice queues
\* generate_invoice, which takes every sheet of the period, however it groups them.
THEOREM RequestedIsBilled == Spec => RecreateBills
<1> DEFINE A == \A w \in Workers :
       /\ job[w].at = "select" /\ job'[w].at = "idle" /\ job[w].groups = {}
       /\ job[w].for \notin {NoSheet} \cup gone /\ ~overlap /\ Intact
       /\ ~Missed(job[w].for, job[w].to)
       /\ rule.separation = "one_invoice" \/ ~job[w].given
       => Billed(job[w].for)
<1>1. Init => RecreateInv
  BY IdleType DEF Init, RecreateInv, ToBill, Generating
<1>2. TypeInv /\ WorkInv /\ NumberInv /\ RecreateInv /\ [Next]_vars => RecreateInv'
  <2>1. RecreateInv /\ UNCHANGED vars => RecreateInv'
    <3> SUFFICES ASSUME RecreateInv, UNCHANGED vars PROVE RecreateInv'
      OBVIOUS
    <3>1. /\ rule' = rule /\ ready' = ready /\ gone' = gone /\ lines' = lines /\ job' = job
          /\ overlap' = overlap /\ mixed' = mixed /\ row' = row
      BY DEF vars, business, history
    <3>2. Intact' = Intact
      BY <3>1 DEF Intact, Live
    <3>3. \A s, d : Billed(s)' = Billed(s) /\ Missed(s, d)' = Missed(s, d)
      BY <3>1 DEF Billed, Missed
    <3>4. \A w \in Workers : ToBill(w) => ToBill(w)'
      BY <3>1, <3>3 DEF ToBill
    <3> QED BY <3>1, <3>2, <3>4 DEF RecreateInv
  <2> QED BY <2>1, TypeStep, RecreateNext
<1>3. RecreateInv => A
  BY DEF RecreateInv, ToBill, Generating, Writing
<1>4. TypeInv /\ RecreateInv /\ [Next]_vars => [A]_vars
  BY <1>3
<1>5. [][A]_vars => RecreateBills
  BY PTL DEF RecreateBills
<1> HIDE DEF A
<1> QED BY <1>1, <1>2, <1>4, <1>5, Working, Numbering, PTL DEF Spec

-----------------------------------------------------------------------------
(* What is sent *)

\* With unique numbers, the only documents under the number of an invoice are
\* its own.
LEMMA OwnDocuments ==
  ASSUME TypeInv, WorkInv, NumberInv, ~overlap, NEW i \in Invoices, row[i].state # "none"
  PROVE  /\ Documents(i) \subseteq {i} /\ Copies(i) = remote[i].copies
         /\ Documents(i) = {} => remote[i].copies = 0
<1>1. remote[i].copies \in Nat
  BY DEF TypeInv, TypeOK
<1>2. Documents(i) \subseteq {i}
  BY DEF Documents, WorkInv, RowsOK, NumberInv, NumbersUnique
<1>3. remote[i].copies > 0 => i \in Documents(i)
  BY DEF Documents
<1> DEFINE f == [k \in Invoices |-> remote[k].copies]
<1>4. f[i] = remote[i].copies
  OBVIOUS
<1>5. Copies(i) = SumFunctionOnSet(f, Documents(i))
  BY DEF Copies
<1> HIDE DEF f
<1>6. SumFunctionOnSet(f, {i}) = f[i] /\ SumFunctionOnSet(f, {}) = 0
  BY <1>1, <1>4, SumSingle
<1>7. CASE remote[i].copies > 0
  <2>1. Documents(i) = {i}
    BY <1>2, <1>3, <1>7
  <2> QED BY <1>4, <1>5, <1>6, <2>1
<1>8. CASE remote[i].copies = 0
  <2>1. Documents(i) = {}
    BY <1>2, <1>8 DEF Documents
  <2> QED BY <1>5, <1>6, <1>8, <2>1
<1> QED BY <1>1, <1>7, <1>8

\* A worker that leaves the document and the lines of an invoice alone, or
\* shows it as sent when it is, leaves what is shown true.
LEMMA SentStep ==
  ASSUME TypeInv, TypeInv', WorkInv, SentInv, cut' = cut, NEW w \in Workers, Only(w),
         overlap => overlap', mixed \subseteq mixed', skipped \subseteq skipped', SendOK(w)',
         ~overlap' => \A k \in Invoices \ mixed' :
           w \in Busy(k) \/ (remote'[k] = remote[k] /\ lines'[k] = lines[k]),
         ~overlap' => \A k \in Invoices \ (mixed' \cup skipped') :
           \/ row'[k].state # "live" \/ row'[k].sync # "synced"
           \/ Sent(k)'
           \/ /\ row'[k].state = row[k].state /\ row'[k].sync = row[k].sync
              /\ remote'[k] = remote[k] /\ lines'[k] = lines[k]
  PROVE  SentInv'
<1>1. ASSUME NEW v \in Workers PROVE SendOK(v)'
  <2>1. CASE v = w
    BY <2>1
  <2>2. CASE v # w
    <3>1. job'[v] = job[v] /\ SendOK(v)
      BY <2>2 DEF Only, SentInv
    <3> SUFFICES ASSUME ~overlap', job[v].on \in Invoices, job[v].on \notin mixed',
                        job[v].at \in {"mark", "compare", "post", "put", "done"}
                 PROVE  /\ remote'[job[v].on] = remote[job[v].on]
                        /\ lines'[job[v].on] = lines[job[v].on]
      BY <3>1 DEF SendOK, Sent, Fair, Count
    <3>2. v \in Busy(job[v].on)
      BY DEF Busy
    <3>3. w \notin Busy(job[v].on)
      BY <2>2, <3>2 DEF WorkInv, Alone
    <3> QED BY <3>3
  <2> QED BY <2>1, <2>2
<1>2. SyncedIsSent'
  <2> SUFFICES ASSUME NEW k \in Invoices, row'[k].state = "live", row'[k].sync = "synced",
                      ~overlap', k \notin mixed' \cup skipped'
               PROVE  Sent(k)'
    BY DEF SyncedIsSent, Sent, Fair, Live
  <2>1. CASE /\ row'[k].state = row[k].state /\ row'[k].sync = row[k].sync
             /\ remote'[k] = remote[k] /\ lines'[k] = lines[k]
    <3>1. Sent(k)
      BY <2>1 DEF SentInv, SyncedIsSent, Sent, Fair, Live
    <3> QED BY <2>1, <3>1 DEF Sent, Fair, Count
  <2> QED BY <2>1
<1> QED BY <1>1, <1>2 DEF SentInv

\* A worker that does not send, and touches no row, line or document.
LEMMA SentQuiet ==
  ASSUME TypeInv, TypeInv', WorkInv, SentInv, cut' = cut, NEW w \in Workers, Only(w),
         overlap => overlap', mixed \subseteq mixed', UNCHANGED <<row, lines, remote, skipped>>,
         job'[w].at \notin Syncing
  PROVE  SentInv'
<1>1. SendOK(w)'
  BY DEF SendOK, Syncing
<1> QED BY <1>1, SentStep

\* Every action keeps that.
LEMMA SentNext ==
  ASSUME TypeInv, WorkInv, NumberInv, SentInv, Next
  PROVE  SentInv'
<1> USE DEF Syncing
<1>27. ASSUME NEW s \in Sheets, DeleteSheet(s) PROVE SentInv'
  <2>1. /\ cut \subseteq cut' /\ UNCHANGED <<row, remote, job, mixed, skipped, overlap>>
        /\ \A i \in Invoices : Count(i)' <= Count(i) /\ (i \notin cut' => lines'[i] = lines[i])
    BY <1>27, DeleteSheetFacts DEF history
  <2>2. \A i \in Invoices : Count(i) \in Nat /\ Count(i)' \in Nat /\ remote[i].lines \in Nat
    <3>1. TypeInv'
      BY TypeStep
    <3>2. \A i \in Invoices : Count(i) \in Nat
      BY CountType DEF TypeInv
    <3>3. \A i \in Invoices : Count(i)' \in Nat
      BY <3>1, CountAfter DEF TypeInv, TypeOK
    <3> QED BY <3>2, <3>3 DEF TypeInv, TypeOK
  <2>3. \A i \in Invoices : i \notin cut' => Count(i)' = Count(i)
    BY <2>1 DEF Count
  <2>4. \A i \in Invoices : Sent(i) => Sent(i)'
    BY <2>1, <2>2, <2>3 DEF Sent, Fair
  <2>5. \A w \in Workers : SendOK(w)'
    <3> SUFFICES ASSUME NEW w \in Workers PROVE SendOK(w)'
      OBVIOUS
    <3>1. SendOK(w)
      BY DEF SentInv
    <3> QED BY <2>1, <2>4, <3>1 DEF SendOK
  <2>6. SyncedIsSent'
    <3> SUFFICES ASSUME NEW i \in Invoices, Live(i), row[i].sync = "synced", ~overlap,
                        i \notin mixed \cup skipped
                 PROVE  Sent(i)'
      BY <2>1 DEF SyncedIsSent, Sent, Fair, Live
    <3>1. Sent(i)
      BY DEF SentInv, SyncedIsSent, Sent, Fair
    <3> QED BY <2>4, <3>1
  <2> QED BY <2>5, <2>6 DEF SentInv
<1> SUFFICES ASSUME ~\E s \in Sheets : DeleteSheet(s) PROVE SentInv'
  BY <1>27
<1> TypeInv' /\ cut' = cut
  BY TypeStep, OtherSteps
<1>0. /\ \A k \in Invoices : Count(k) \in Nat
      /\ \A k \in Invoices : Count(k)' \in Nat
  BY CountType, CountAfter DEF TypeInv, TypeOK
<1>1. ASSUME NEW w \in Workers, NEW i, Begins(w, i) PROVE SentInv'
  <2>1. /\ Only(w) /\ job'[w].at = "select" /\ (overlap => overlap')
        /\ mixed \subseteq mixed' /\ UNCHANGED <<row, lines, remote, skipped>>
    BY <1>1, StartFacts DEF Begins
  <2> QED BY <2>1, SentQuiet
<1>2. ASSUME NEW w \in Workers, NEW g \in SUBSET Sheets, Select(w, g) PROVE SentInv'
  <2>1. /\ Only(w) /\ job'[w].at \in {"select", "old", "number"}
        /\ UNCHANGED <<row, lines, remote, skipped, mixed, overlap>>
    BY <1>2, SelectFacts DEF history
  <2> QED BY <2>1, SentQuiet
<1>3. ASSUME NEW w \in Workers, Finish(w) PROVE SentInv'
  <2>1. Only(w) /\ job'[w].at = "idle" /\ UNCHANGED <<row, lines, remote, skipped, mixed, overlap>>
    BY <1>3, EndFacts, IdleType DEF Finish, history, TypeInv, TypeOK
  <2> QED BY <2>1, SentQuiet
<1>4. ASSUME NEW w \in Workers, ReadRule(w) PROVE SentInv'
  <2>1. /\ Only(w) /\ job'[w].at = "rule"
        /\ UNCHANGED <<row, lines, remote, skipped, mixed, overlap>>
    BY <1>4, ReadRuleFacts DEF history
  <2> QED BY <2>1, SentQuiet
<1>5. ASSUME NEW w \in Workers, SaveRule(w) PROVE SentInv'
  <2>1. /\ Only(w) /\ job'[w].at = "insert"
        /\ UNCHANGED <<row, lines, remote, skipped, mixed, overlap>>
    BY <1>5, SaveRuleFacts DEF history
  <2> QED BY <2>1, SentQuiet
<1>6. ASSUME NEW w \in Workers, ReadLines(w) PROVE SentInv'
  <2>1. /\ Only(w) /\ job'[w].at = "delete"
        /\ UNCHANGED <<row, lines, remote, skipped, mixed, overlap>>
    BY <1>6, ReadLinesFacts DEF history
  <2> QED BY <2>1, SentQuiet
<1>7. ASSUME NEW w \in Workers, Insert(w) PROVE SentInv'
  <2>1. PICK i \in Invoices :
          /\ Only(w) /\ job'[w].at = "old" /\ row'[i].sync = "not_synced"
          /\ \A k \in Invoices \ {i} : row'[k] = row[k]
          /\ UNCHANGED <<lines, remote, skipped, mixed, overlap>>
    BY <1>7, InsertFacts DEF history
  <2>2. SendOK(w)'
    BY <2>1 DEF SendOK
  <2> QED BY <2>1, <2>2, SentStep
<1>8. ASSUME NEW w \in Workers, NEW s \in Sheets, DeleteLine(w, s) PROVE SentInv'
  <2>1. /\ Only(w) /\ job[w].at = "delete" /\ job[w].on \in Invoices
        /\ job'[w].at = "delete"
        /\ \A k \in Invoices \ {job[w].on} : lines'[k] = lines[k]
        /\ UNCHANGED <<row, remote, skipped, mixed, overlap>>
    BY <1>8, DeleteLineFacts, IdleType DEF history
  <2>2. SendOK(w)'
    BY <2>1 DEF SendOK
  <2>3. job[w].on \notin mixed => row[job[w].on].sync # "synced"
    BY <2>1 DEF WorkInv, UpdateOK, Generating
  <2>4. w \in Busy(job[w].on)
    BY <2>1 DEF Busy
  <2> QED BY <2>1, <2>2, <2>3, <2>4, SentStep
<1>9. ASSUME NEW w \in Workers, InsertLines(w) PROVE SentInv'
  <2>1. /\ Only(w) /\ job[w].at = "delete" /\ job[w].on \in Invoices
        /\ job'[w].at \in {"idle", "total"}
        /\ \A k \in Invoices \ {job[w].on} : lines'[k] = lines[k]
        /\ UNCHANGED <<row, remote, skipped, mixed, overlap>>
    BY <1>9, InsertLinesFacts, IdleType
  <2>2. SendOK(w)'
    BY <2>1 DEF SendOK
  <2>3. job[w].on \notin mixed => row[job[w].on].sync # "synced"
    BY <2>1 DEF WorkInv, UpdateOK, Generating
  <2>4. w \in Busy(job[w].on)
    BY <2>1 DEF Busy
  <2> QED BY <2>1, <2>2, <2>3, <2>4, SentStep
<1>10. ASSUME NEW w \in Workers, SaveTotal(w) PROVE SentInv'
  <2>1. /\ Only(w) /\ job'[w].at \in {"idle", "select"}
        /\ \A k \in Invoices : row'[k].state = row[k].state /\ row'[k].sync = row[k].sync
        /\ UNCHANGED <<lines, remote, skipped, mixed, overlap>>
    BY <1>10, SaveTotalFacts, IdleType DEF history, Live
  <2>2. SendOK(w)'
    BY <2>1 DEF SendOK
  <2> QED BY <2>1, <2>2, SentStep
<1>11. ASSUME NEW w \in Workers, NEW i \in Invoices, BeginSync(w, i) PROVE SentInv'
  <2>1. /\ Only(w) /\ job'[w].at = "schedule" /\ job'[w].seen.copies = 0
        /\ mixed \subseteq mixed' /\ UNCHANGED <<row, lines, remote, skipped, overlap>>
    BY <1>11, BeginSyncFacts
  <2>2. SendOK(w)'
    BY <2>1 DEF SendOK
  <2> QED BY <2>1, <2>2, SentStep
<1>12. ASSUME NEW w \in Workers, NEW i \in Invoices, NEW what \in Requests, BeginRequest(w, i, what) PROVE SentInv'
  <2>1. /\ Only(w) /\ job'[w].at \in Requests
        /\ mixed \subseteq mixed' /\ UNCHANGED <<row, lines, remote, skipped, overlap>>
    BY <1>12, BeginRequestFacts
  <2> QED BY <2>1, SentQuiet DEF Requests
<1>13. ASSUME NEW w \in Workers, Schedule(w) PROVE SentInv'
  <2>1. /\ Only(w) /\ job[w].at = "schedule" /\ job[w].on \in Invoices
        /\ UNCHANGED <<lines, remote, skipped, mixed, overlap>>
        /\ \/ job'[w] = Idle /\ UNCHANGED row
           \/ /\ job'[w].at = "get" /\ job'[w].seen = job[w].seen
              /\ \A k \in Invoices \ {job[w].on} : row'[k] = row[k]
              /\ row'[job[w].on].sync = "sync_scheduled"
    BY <1>13, ScheduleFacts DEF history, Marked
  <2>2. SendOK(w)'
    BY <2>1, IdleType DEF SentInv, SendOK
  <2> QED BY <2>1, <2>2, SentStep
<1>14. ASSUME NEW w \in Workers, Get(w) PROVE SentInv'
  <2> DEFINE i == job[w].on
  <2>1. /\ Only(w) /\ job[w].at = "get" /\ i \in Invoices
        /\ job'[w].at = "mark" /\ job'[w].on = i
        /\ \/ Documents(i) = {} /\ job'[w].seen = job[w].seen
           \/ \E k \in Documents(i) :
                job'[w].seen = [copies |-> Copies(i), lines |-> remote[k].lines]
        /\ UNCHANGED <<row, lines, remote, skipped, mixed, overlap>>
    BY <1>14, GetFacts DEF history
  <2>2. job[w].seen.copies = 0 /\ row[i].state # "none"
    BY <2>1 DEF SentInv, SendOK, WorkInv
  <2>3. ASSUME ~overlap
        PROVE  /\ job'[w].seen.copies = remote[i].copies
               /\ job'[w].seen.copies = 1 => job'[w].seen.lines = remote[i].lines
    <3>1. /\ Documents(i) \subseteq {i} /\ Copies(i) = remote[i].copies
          /\ Documents(i) = {} => remote[i].copies = 0
      BY <2>1, <2>2, <2>3, OwnDocuments
    <3>2. CASE Documents(i) = {} /\ job'[w].seen = job[w].seen
      BY <2>2, <3>1, <3>2
    <3>3. ASSUME NEW k \in Documents(i),
                 job'[w].seen = [copies |-> Copies(i), lines |-> remote[k].lines]
          PROVE  job'[w].seen.copies = remote[i].copies /\ job'[w].seen.lines = remote[i].lines
      BY <3>1, <3>3
    <3> QED BY <2>1, <3>2, <3>3
  <2>4. SendOK(w)'
    BY <2>1, <2>3 DEF SendOK
  <2> QED BY <2>1, <2>4, SentStep
<1>15. ASSUME NEW w \in Workers, Mark(w) PROVE SentInv'
  <2>1. /\ Only(w) /\ job[w].at = "mark" /\ job[w].on \in Invoices
        /\ UNCHANGED <<lines, remote, skipped, mixed, overlap>>
        /\ \/ job'[w] = Idle /\ UNCHANGED row
           \/ /\ job'[w].at = "compare" /\ job'[w].seen = job[w].seen
              /\ job'[w].on = job[w].on
              /\ \A k \in Invoices \ {job[w].on} : row'[k] = row[k]
              /\ row'[job[w].on].sync = "syncing"
    BY <1>15, MarkFacts DEF history, Marked
  <2>2. SendOK(w)'
    BY <2>1, IdleType DEF SentInv, SendOK
  <2> QED BY <2>1, <2>2, SentStep
<1>16. ASSUME NEW w \in Workers, Compare(w) PROVE SentInv'
  <2>1. /\ Only(w) /\ job[w].at = "compare" /\ job[w].on \in Invoices
        /\ UNCHANGED <<row, lines, remote, skipped, mixed, overlap>>
        /\ \/ job'[w] = Idle
           \/ /\ job'[w].at \in {"fail", "post", "put", "done"}
              /\ job'[w].on = job[w].on
              /\ job'[w].at = "post" => job[w].seen.copies = 0
              /\ job'[w].at \in {"put", "done"} => job[w].seen.copies = 1
              /\ job'[w].at = "done" => job[w].seen.lines = Count(job[w].on)
    BY <1>16, CompareFacts
  <2>2. SendOK(w)
    BY DEF SentInv
  <2>3. SendOK(w)'
    <3>1. CASE job'[w] = Idle
      BY <3>1, IdleType DEF SendOK
    <3>2. CASE job'[w] # Idle
      BY <1>0, <2>1, <2>2, <3>2 DEF SendOK, Sent, Fair, Count
    <3> QED BY <3>1, <3>2
  <2> QED BY <2>1, <2>3, SentStep
<1>17. ASSUME NEW w \in Workers, Post(w) PROVE SentInv'
  <2>0. PICK i \in Invoices : i = job[w].on
    BY <1>17, PostFacts
  <2>1. /\ Only(w) /\ job[w].at = "post" /\ i \in Invoices
        /\ job'[w].at \in {"done", "fail"} /\ job'[w].on = i
        /\ \A k \in Invoices \ {i} : remote'[k] = remote[k]
        /\ \/ /\ job'[w].at = "done" /\ UNCHANGED skipped
              /\ remote'[i].copies = remote[i].copies + 1
              /\ remote'[i].lines = Count(i)
           \/ job'[w].at = "fail" /\ UNCHANGED <<remote, skipped>>
           \/ /\ job'[w].at = "done" /\ skipped' = skipped \cup {i}
              /\ UNCHANGED remote
        /\ UNCHANGED <<row, lines, overlap, mixed>>
    BY <2>0, <1>17, PostFacts
  <2>2. ~overlap /\ i \notin mixed => remote[i].copies = 0
    BY <2>0, <2>1 DEF SentInv, SendOK
  <2>3. \A k \in Invoices : Count(k)' = Count(k)
    BY <2>1 DEF Count
  <2>4. ~overlap /\ i \notin mixed =>
          \/ Sent(i)'
          \/ job'[w].at = "fail" /\ UNCHANGED remote
          \/ i \in skipped' /\ UNCHANGED remote
    BY <1>0, <2>1, <2>2, <2>3 DEF Sent, Fair
  <2>5. SendOK(w)'
    BY <2>1, <2>4 DEF SendOK
  <2>6. w \in Busy(i) /\ skipped \subseteq skipped'
    BY <2>0, <2>1 DEF Busy
  <2> QED BY <2>1, <2>4, <2>5, <2>6, SentStep
<1>18. ASSUME NEW w \in Workers, Put(w) PROVE SentInv'
  <2>0. PICK i \in Invoices : i = job[w].on
    BY <1>18, PutFacts
  <2>1. /\ Only(w) /\ job[w].at = "put" /\ i \in Invoices
        /\ job'[w].at \in {"done", "fail"} /\ job'[w].on = i
        /\ \A k \in Invoices : remote'[k].copies = remote[k].copies
        /\ \/ \E k \in Documents(i) :
                /\ job'[w].at = "done" /\ UNCHANGED skipped
                /\ \A l \in Invoices \ {k} : remote'[l] = remote[l]
                /\ remote'[k].lines = Count(i)
           \/ job'[w].at = "fail" /\ UNCHANGED <<remote, skipped>>
           \/ /\ job'[w].at = "done" /\ skipped' = skipped \cup {i}
              /\ UNCHANGED remote
        /\ UNCHANGED <<row, lines, overlap, mixed>>
    BY <2>0, <1>18, PutFacts
  <2>2. ~overlap /\ i \notin mixed => remote[i].copies = 1
    BY <2>0, <2>1 DEF SentInv, SendOK
  <2>3. \A k \in Invoices : Count(k)' = Count(k)
    BY <2>1 DEF Count
  <2>4. ~overlap => Documents(i) \subseteq {i}
    BY <2>0, <2>1, OwnDocuments DEF WorkInv
  <2>5. ~overlap => \A k \in Invoices \ {i} : remote'[k] = remote[k]
    BY <2>1, <2>4
  <2>6. ~overlap /\ i \notin mixed =>
          \/ Sent(i)'
          \/ job'[w].at = "fail" /\ UNCHANGED remote
          \/ i \in skipped' /\ UNCHANGED remote
    BY <1>0, <2>1, <2>2, <2>3, <2>4 DEF Sent, Fair
  <2>7. SendOK(w)'
    BY <2>1, <2>6 DEF SendOK
  <2>8. w \in Busy(i) /\ skipped \subseteq skipped'
    BY <2>0, <2>1 DEF Busy
  <2> QED BY <2>1, <2>5, <2>6, <2>7, <2>8, SentStep
<1>19. ASSUME NEW w \in Workers, Fail(w) PROVE SentInv'
  <2>1. /\ Only(w) /\ job[w].at = "fail" /\ job'[w].at = "idle"
        /\ UNCHANGED <<lines, remote, skipped, mixed, overlap>>
        /\ \A k \in Invoices : row'[k] = row[k] \/ row'[k].sync = "sync_failed"
    BY <1>19, FailFacts, IdleType DEF history, Marked
  <2>2. SendOK(w)'
    BY <2>1 DEF SendOK
  <2> QED BY <2>1, <2>2, SentStep
<1>20. ASSUME NEW w \in Workers, Done(w) PROVE SentInv'
  <2>1. /\ Only(w) /\ job[w].at = "done" /\ job[w].on \in Invoices /\ job'[w].at = "idle"
        /\ UNCHANGED <<lines, remote, skipped, mixed, overlap>>
        /\ \A k \in Invoices : k = job[w].on \/ row'[k] = row[k]
    BY <1>20, DoneFacts, IdleType DEF history, Marked
  <2>2. SendOK(w)'
    BY <2>1 DEF SendOK
  <2>3. ~overlap /\ job[w].on \notin mixed \cup skipped => Sent(job[w].on)
    BY <2>1 DEF SentInv, SendOK
  <2>4. \A k \in Invoices : Count(k)' = Count(k)
    BY <2>1 DEF Count
  <2> QED BY <2>1, <2>2, <2>3, <2>4, SentStep DEF Sent, Fair
<1>21. ASSUME NEW w \in Workers, Approve(w) PROVE SentInv'
  <2>1. /\ job[w].at = "approve" /\ job[w].on \in Invoices /\ Only(w) /\ job'[w].at = "idle"
        /\ \A k \in Invoices \ {job[w].on} : row'[k] = row[k]
        /\ row'[job[w].on].state = job[w].copy.state
        /\ row'[job[w].on].sync = job[w].copy.sync
        /\ UNCHANGED <<lines, remote, skipped, mixed, overlap>>
    BY <1>21, ApproveFacts, IdleType DEF history
  <2>2. job[w].on \notin mixed => /\ job[w].copy.state = row[job[w].on].state
                                  /\ job[w].copy.sync = row[job[w].on].sync
    BY <2>1 DEF WorkInv, RequestOK, Requests, Live
  <2>3. SendOK(w)'
    BY <2>1 DEF SendOK
  <2> QED BY <2>1, <2>2, <2>3, SentStep
<1>22. ASSUME NEW w \in Workers, Destroy(w) PROVE SentInv'
  <2>1. /\ job[w].at = "destroy" /\ job[w].on \in Invoices /\ Only(w) /\ job'[w].at = "idle"
        /\ \A k \in Invoices \ {job[w].on} : row'[k] = row[k] /\ lines'[k] = lines[k]
        /\ row'[job[w].on].state = "deleted"
        /\ UNCHANGED <<remote, skipped, mixed, overlap>>
    BY <1>22, DestroyFacts, IdleType DEF history
  <2>2. SendOK(w)'
    BY <2>1 DEF SendOK
  <2>3. w \in Busy(job[w].on)
    BY <2>1 DEF Busy
  <2> QED BY <2>1, <2>2, <2>3, SentStep
<1>23. ASSUME NEW w \in Workers, Die(w) PROVE SentInv'
  <2>1. /\ Only(w) /\ job'[w].at = "idle"
        /\ UNCHANGED <<row, lines, remote, skipped, mixed, overlap>>
    BY <1>23, DieFacts, IdleType
  <2> QED BY <2>1, SentQuiet
<1>24. ASSUME NEW k \in Invoices, CheckUnpaid(k) PROVE SentInv'
  <2>1. /\ \A i \in Invoices : row'[i].state = row[i].state /\ row'[i].sync = row[i].sync
        /\ UNCHANGED <<lines, remote, job, skipped, mixed, overlap>>
    BY <1>24, CheckUnpaidFacts DEF history
  <2> QED BY <2>1 DEF SentInv, SendOK, SyncedIsSent, Sent, Fair, Live, Count
<1>25. CASE NextDay
  BY <1>25 DEF NextDay, history, SentInv, SendOK, SyncedIsSent, Sent, Fair, Live, Count
<1>26. ASSUME NEW s \in Sheets, SheetReady(s) PROVE SentInv'
  BY <1>26 DEF SheetReady, history, SentInv, SendOK, SyncedIsSent, Sent, Fair, Live, Count
<1> QED
  BY <1>1, <1>2, <1>3, <1>4, <1>5, <1>6, <1>7, <1>8, <1>9, <1>10, <1>11,
     <1>12, <1>13, <1>14, <1>15, <1>16, <1>17, <1>18, <1>19, <1>20, <1>21,
     <1>22, <1>23, <1>24, <1>25, <1>26, <1>27, NextCases

\* An invoice shown as synced is at the accounting service once, with all its
\* lines, and with no others but those of sheets that were deleted, unless the
\* company file is disabled, two tasks mixed on it, or two generations
\* overlapped: sync_invoice looks for a document by the number, and
\* posts or updates it before it sets the status.
THEOREM SyncedInvoicesSent == Spec => []SyncedIsSent
<1>1. Init => SentInv
  BY IdleType DEF Init, SentInv, SendOK, SyncedIsSent, NoRow, Live
<1>2. TypeInv /\ WorkInv /\ NumberInv /\ SentInv /\ [Next]_vars => SentInv'
  <2>1. SentInv /\ UNCHANGED vars => SentInv'
    BY DEF vars, business, bounds, history, SentInv, SendOK, SyncedIsSent, Sent, Fair, Live, Count
  <2> QED BY <2>1, SentNext
<1>3. SentInv => SyncedIsSent
  BY DEF SentInv
<1> QED BY <1>1, <1>2, <1>3, Working, Numbering, PTL DEF Spec
=============================================================================
