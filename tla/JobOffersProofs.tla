-------------------------- MODULE JobOffersProofs --------------------------
(***************************************************************************)
(* Proofs about JobOffers, for any set of offers, shifts and processes:    *)
(* type correctness, the bound on overbooking, and that the accepted       *)
(* offers evolve as the Roster.                                            *)
(***************************************************************************)
EXTENDS JobOffers, FiniteSetTheorems, TLAPS

-----------------------------------------------------------------------------
(* Type correctness *)

\* The sweep of a full shift leaves every status well typed.
LEMMA SweptType ==
  ASSUME NEW st \in [Offers -> Statuses], NEW sh, NEW s
  PROVE  Swept(st, sh, s) \in [Offers -> Statuses]
BY DEF Swept, Statuses

\* A sweep rejects offers.
LEMMA RejectedType ==
  ASSUME NEW st, NEW sh, NEW s
  PROVE  Rejected(st, sh, s) \subseteq Offers
BY DEF Rejected, Sweepable, OffersOf

\* An acceptance leaves a well-typed sheet, or fails.
LEMMA NewSheetsType ==
  ASSUME TypeOK, NEW o \in Offers
  PROVE  NewSheets(o) \ {"fail"} \subseteq Sheets
BY DEF NewSheets, TypeOK, Sheets

\* So does a cancellation.
LEMMA UnbookedType ==
  ASSUME TypeOK, NEW o \in Offers
  PROVE  Unbooked(o) \in Sheets
BY DEF Unbooked, TypeOK, Sheets

\* A request that begins, goes on or ends keeps the control well typed.
LEMMA BeginType ==
  ASSUME ControlOK, NEW h \in Handlers, NEW o \in Offers,
         NEW step \in Pcs, NEW aim \in Plans, Begin(h, o, step, aim)
  PROVE  ControlOK'
BY DEF ControlOK, Begin

\* (the same for a step that goes on)
LEMMA GotoType ==
  ASSUME ControlOK, NEW h \in Handlers, pc[h] # "idle",
         NEW step \in Pcs, Goto(h, step)
  PROVE  ControlOK'
BY DEF ControlOK, Goto

\* (the same for a step that ends)
LEMMA FinishType ==
  ASSUME ControlOK, NEW h \in Handlers, Finish(h)
  PROVE  ControlOK'
BY DEF ControlOK, Finish, Pcs, Plans

\* Every step of a handler keeps the types.
LEMMA HandlerStepType ==
  ASSUME TypeOK, NEW h \in Handlers, HandlerStep(h)
  PROVE  TypeOK'
<1> DEFINE o == on[h]
<1> USE DEF TypeOK
<1>0. ControlOK /\ (pc[h] # "idle" => o \in Offers)
  BY DEF ControlOK
<1>1. CASE AcceptCheck(h)
  <2>1. o \in Offers
    BY <1>0, <1>1 DEF AcceptCheck
  <2>2. ControlOK'
    <3>1. CASE status[o] = "deleted"
      BY <1>0, <1>1, <3>1, FinishType DEF AcceptCheck
    <3>2. CASE status[o] # "deleted"
      BY <1>0, <1>1, <2>1, <3>2 DEF AcceptCheck, ControlOK, Decision, Plans, Pcs
    <3> QED BY <3>1, <3>2
  <2> QED BY <1>1, <2>2 DEF AcceptCheck, messaging
<1>2. CASE AcceptRefuse(h)
  <2>1. o \in Offers
    BY <1>0, <1>2 DEF AcceptRefuse
  <2>2. ControlOK'
    BY <1>0, <1>2, GotoType DEF AcceptRefuse, Pcs
  <2>3. status' \in [Offers -> Statuses]
    BY <1>2, SweptType DEF AcceptRefuse
  <2>4. rejections' \subseteq Offers /\ carrier' \subseteq Offers
    BY <1>2, <2>1, RejectedType DEF AcceptRefuse
  <2> QED BY <1>2, <2>2, <2>3, <2>4 DEF AcceptRefuse, messaging
<1>3. CASE AcceptSave(h)
  <2>1. ControlOK'
    BY <1>0, <1>3, GotoType DEF AcceptSave, Pcs
  <2> QED BY <1>3, <2>1 DEF AcceptSave, messaging, Statuses
<1>4. CASE AcceptSheet(h)
  <2>1. o \in Offers
    BY <1>0, <1>4 DEF AcceptSheet
  <2>2. PICK new \in (IF status[o] = "deleted" THEN {"fail"} ELSE NewSheets(o)) :
          IF new = "fail"
          THEN Finish(h) /\ UNCHANGED sheet
          ELSE sheet' = [sheet EXCEPT ![o] = new] /\ Goto(h, "close")
    BY <1>4 DEF AcceptSheet
  <2>3. CASE new = "fail"
    BY <1>0, <1>4, <2>2, <2>3, FinishType DEF AcceptSheet, messaging
  <2>4. CASE new # "fail"
    <3>1. new \in Sheets
      BY <2>1, <2>2, <2>4, NewSheetsType
    <3>2. ControlOK'
      BY <1>0, <1>4, <2>2, <2>4, GotoType DEF AcceptSheet, Pcs
    <3> QED BY <1>4, <2>2, <2>4, <3>1, <3>2 DEF AcceptSheet, messaging
  <2> QED BY <2>3, <2>4
<1>5. CASE AcceptClose(h)
  <2>1. ControlOK'
    BY <1>0, <1>5, GotoType, FinishType DEF AcceptClose, Pcs
  <2> QED BY <1>5, <2>1 DEF AcceptClose, messaging
<1>6. CASE AcceptSweep(h)
  <2>1. ControlOK'
    BY <1>0, <1>6, FinishType DEF AcceptSweep
  <2>2. status' \in [Offers -> Statuses]
    BY <1>6, SweptType DEF AcceptSweep
  <2>3. rejections' \subseteq Offers
    BY <1>6, RejectedType DEF AcceptSweep
  <2> QED BY <1>6, <2>1, <2>2, <2>3 DEF AcceptSweep, messaging
<1>7. CASE CancelSave(h)
  <2>1. o \in Offers
    BY <1>0, <1>7 DEF CancelSave
  <2>2. ControlOK'
    BY <1>0, <1>7, GotoType, FinishType DEF CancelSave, Pcs
  <2> QED BY <1>7, <2>1, <2>2 DEF CancelSave, messaging, Statuses
<1>8. CASE CancelSheet(h)
  <2>1. Unbooked(o) \in Sheets
    BY <1>0, <1>8, UnbookedType DEF CancelSheet
  <2>2. ControlOK'
    BY <1>0, <1>8, FinishType DEF CancelSheet
  <2> QED BY <1>8, <2>1, <2>2 DEF CancelSheet, messaging
<1>9. CASE ResendSave(h)
  <2>1. ControlOK'
    BY <1>0, <1>9, FinishType DEF ResendSave
  <2>2. o \in Offers
    BY <1>0, <1>9 DEF ResendSave
  <2>3. queue' \in [Offers -> Nat]
    BY <1>9, <2>2 DEF ResendSave
  <2>4. status' \in [Offers -> Statuses]
    BY <1>9 DEF ResendSave, Statuses
  <2> QED BY <1>9, <2>1, <2>3, <2>4 DEF ResendSave
<1>10. CASE CommitReply(h)
  <2>1. o \in Offers
    BY <1>0, <1>10 DEF CommitReply
  <2>2. ControlOK'
    BY <1>0, <1>10, FinishType DEF CommitReply
  <2>3. unreplied' \subseteq Offers /\ UNCHANGED <<sent, queue, now>>
    BY <1>10 DEF CommitReply, MarkReplied
  <2>4. /\ status' \in [Offers -> Statuses] /\ sheet' \in [Offers -> Sheets]
        /\ rejections' \subseteq Offers /\ carrier' \subseteq Offers
    <3>1. CASE CommitBook(h)
      <4> DEFINE booked == [status EXCEPT ![o] = "accepted"]
      <4>1. booked \in [Offers -> Statuses]
        BY DEF Statuses
      <4>2. PICK new \in NewSheets(o) \ {"fail"} :
              LET sheets == [sheet EXCEPT ![o] = new] IN
              /\ sheet' = sheets
              /\ IF Filled(booked, ShiftOf[o])
                 THEN /\ status' = Swept(booked, sheets, ShiftOf[o])
                      /\ rejections' = rejections
                           \cup (Rejected(booked, sheets, ShiftOf[o]) \ {o})
                 ELSE status' = booked /\ UNCHANGED rejections
        BY <3>1 DEF CommitBook
      <4>3. new \in Sheets
        BY <2>1, NewSheetsType
      <4>4. sheet' \in [Offers -> Sheets]
        BY <4>2, <4>3
      <4>5. status' \in [Offers -> Statuses]
        <5>1. Swept(booked, [sheet EXCEPT ![o] = new], ShiftOf[o])
                \in [Offers -> Statuses]
          BY <4>1, SweptType
        <5> QED BY <4>1, <4>2, <5>1
      <4>6. rejections' \subseteq Offers
        BY <4>2, RejectedType
      <4> QED BY <3>1, <4>4, <4>5, <4>6 DEF CommitBook
    <3>2. CASE CommitRefuse(h)
      <4>1. Swept(status, sheet, ShiftOf[o]) \in [Offers -> Statuses]
        BY SweptType
      <4>2. rejections' \subseteq Offers /\ carrier' \subseteq Offers
        BY <2>1, <3>2, RejectedType DEF CommitRefuse
      <4> QED BY <3>2, <4>1, <4>2 DEF CommitRefuse, Statuses
    <3>3. CASE CommitCancel(h)
      BY <2>1, <3>3, UnbookedType DEF CommitCancel, Statuses
    <3> QED BY <1>10, <3>1, <3>2, <3>3 DEF CommitReply
  <2> QED BY <2>2, <2>3, <2>4
<1>11. CASE RollbackReply(h)
  BY <1>0, <1>11, FinishType DEF RollbackReply, messaging
<1> QED BY <1>1, <1>2, <1>3, <1>4, <1>5, <1>6, <1>7, <1>8, <1>9, <1>10, <1>11
        DEF HandlerStep

\* So do the requests that begin ...
LEMMA RequestType ==
  ASSUME TypeOK, NEW h \in Handlers, NEW o \in Offers, Request(h, o)
  PROVE  TypeOK'
<1> USE DEF TypeOK
<1>1. CASE BeginAccept(h, o)
  BY <1>1, BeginType DEF BeginAccept, messaging, Pcs, Plans
<1>2. CASE BeginCancel(h, o)
  BY <1>2, BeginType DEF BeginCancel, messaging, Pcs, Plans
<1>3. CASE BeginResend(h, o)
  BY <1>3, BeginType DEF BeginResend, messaging, Pcs, Plans
<1>4. CASE BeginSend(h, o)
  BY <1>4, BeginType DEF BeginSend, messaging, Pcs, Plans
<1>5. CASE \E positive \in BOOLEAN : ReadReply(h, o, positive)
  <2>1. PICK positive \in BOOLEAN : ReadReply(h, o, positive)
    BY <1>5
  <2>2. (IF positive THEN Decision(o) ELSE "cancel") \in Plans
    BY DEF Decision, Plans
  <2> QED BY <2>1, <2>2, BeginType DEF ReadReply, messaging, Pcs
<1> QED BY <1>1, <1>2, <1>3, <1>4, <1>5 DEF Request

\* ... and the steps that leave the handlers alone.
LEMMA OfferStepType ==
  ASSUME TypeOK, NEW o \in Offers, OfferStep(o)
  PROVE  TypeOK'
<1> USE DEF TypeOK
<1>1. CASE Create(o)
  <2>1. queue' \in [Offers -> Nat]
    BY <1>1 DEF Create
  <2> QED BY <1>1, <2>1 DEF Create, Statuses, ControlOK
<1>2. CASE Destroy(o)
  BY <1>2 DEF Destroy, Statuses, Sheets, ControlOK
<1>3. CASE SheetConfirm(o)
  BY <1>3 DEF SheetConfirm, SheetStep, Sheets, messaging, ControlOK
<1>4. CASE SheetDecline(o)
  BY <1>4 DEF SheetDecline, SheetStep, Sheets, messaging, ControlOK
<1>5. CASE SheetSubmit(o)
  BY <1>5 DEF SheetSubmit, SheetStep, Sheets, messaging, ControlOK
<1>6. CASE Task(o)
  <2>1. TakeTask(o)
    BY <1>6 DEF Task, SkipOffer, SendOffer, DeferOffer
  <2>2. queue' \in [Offers -> Nat]
    BY <2>1 DEF TakeTask
  <2>3. /\ status' \in [Offers -> Statuses]
        /\ sent' \subseteq Offers /\ unreplied' \subseteq Offers
    BY <1>6 DEF Task, SkipOffer, SendOffer, DeferOffer, Statuses
  <2> QED BY <2>1, <2>2, <2>3 DEF TakeTask, ControlOK
<1>7. CASE RejectOffer(o)
  BY <1>7 DEF RejectOffer, messaging, ControlOK
<1> QED BY <1>1, <1>2, <1>3, <1>4, <1>5, <1>6, <1>7 DEF OfferStep

\* Every step keeps the types.
LEMMA NextType ==
  ASSUME TypeOK, [Next]_vars
  PROVE  TypeOK'
<1>1. CASE Tick
  BY <1>1 DEF Tick, TypeOK, ControlOK, messaging
<1>2. CASE UNCHANGED vars
  BY <1>2 DEF vars, TypeOK, ControlOK
<1> QED BY <1>1, <1>2, HandlerStepType, RequestType, OfferStepType DEF Next

\* The rows and the processes stay well typed, and a busy process works on an
\* offer: no handler reads an offer it never loaded.
THEOREM TypeCorrect == Spec => []TypeOK
<1>1. Init => TypeOK
  BY DEF Init, TypeOK, ControlOK, Statuses, Sheets, Pcs, Plans
<1>2. TypeOK /\ [Next]_vars => TypeOK'
  BY NextType
<1> QED BY <1>1, <1>2, PTL DEF Spec

-----------------------------------------------------------------------------
(* The bound on overbooking *)

\* A sweep accepts nothing and leaves accepted offers alone.
LEMMA SweptKeepsAccepted ==
  ASSUME NEW st \in [Offers -> Statuses], NEW sh, NEW s, NEW o \in Offers
  PROVE  Swept(st, sh, s)[o] = "accepted" <=> st[o] = "accepted"
BY DEF Swept, Sweepable

\* The places taken on a shift are finitely many.
LEMMA TakenFinite ==
  ASSUME NEW s
  PROVE  IsFiniteSet(Taken(s)) /\ Cardinality(Taken(s)) \in Nat
<1>1. IsFiniteSet(Taken(s))
  BY JobOffersAssumption, FS_Subset DEF Taken, OffersOf
<1> QED BY <1>1, FS_CardinalityType

\* The limit of a shift is a number.
LEMMA LimitType == Limit \in [Shifts -> Int]
<1>1. Cardinality(Handlers) \in Nat
  BY JobOffersAssumption, FS_CardinalityType
<1> QED BY <1>1, JobOffersAssumption DEF Limit

\* A step that takes no place keeps the bound.
LEMMA ShrinkKeepsLimit ==
  ASSUME \A s \in Shifts : Cardinality(Taken(s)) <= Limit[s],
         \A s \in Shifts : Taken(s)' \subseteq Taken(s)
  PROVE  \A s \in Shifts : Cardinality(Taken(s)') <= Limit[s]
<1> TAKE s \in Shifts
<1>1. Taken(s)' \subseteq Taken(s)
  OBVIOUS
<1>2. Cardinality(Taken(s)') <= Cardinality(Taken(s))
      /\ Cardinality(Taken(s)') \in Nat
  BY <1>1, TakenFinite, FS_Subset, FS_CardinalityType
<1> QED BY <1>2, TakenFinite, LimitType

\* A set of offers that processes are about to accept is no larger than the
\* set of processes.
LEMMA OnePerHandler ==
  ASSUME NEW f \in [Handlers -> Offers \cup {NoOffer}], NEW H \in SUBSET Handlers
  PROVE  LET T == {f[h] : h \in H} IN
         /\ IsFiniteSet(T) /\ Cardinality(T) \in Nat
         /\ Cardinality(T) <= Cardinality(Handlers)
<1> DEFINE T == {f[h] : h \in H}
           g == [h \in H |-> f[h]]
<1>1. IsFiniteSet(H) /\ Cardinality(H) <= Cardinality(Handlers)
  BY JobOffersAssumption, FS_Subset
<1>2. g \in Surjection(H, T)
  BY DEF Surjection
<1>3. IsFiniteSet(T) /\ Cardinality(T) <= Cardinality(H)
  BY <1>1, <1>2, FS_Surjection
<1>4. /\ Cardinality(T) \in Nat /\ Cardinality(H) \in Nat
      /\ Cardinality(Handlers) \in Nat
  BY <1>1, <1>3, JobOffersAssumption, FS_CardinalityType
<1> QED BY <1>1, <1>3, <1>4

\* A handler that reads the quota and finds a place keeps the bound: the
\* accepted offers are fewer than the workers, and every other place taken is
\* one of a process.
LEMMA CheckKeepsLimit ==
  ASSUME TypeOK, TypeOK', UNCHANGED status,
         NEW s \in Shifts, ~Filled(status, s)
  PROVE  Cardinality(Taken(s)') <= Limit[s]
<1> DEFINE A == Accepted(status, s)
           H == {h \in Handlers : WillBook(h)'}
           P == {on'[h] : h \in H}
<1>1. on' \in [Handlers -> Offers \cup {NoOffer}]
  BY DEF TypeOK, ControlOK
<1>2. /\ IsFiniteSet(P) /\ Cardinality(P) \in Nat
      /\ Cardinality(P) <= Cardinality(Handlers)
  <2> HIDE DEF H
  <2>1. H \in SUBSET Handlers
    BY DEF H
  <2> QED BY <1>1, <2>1, OnePerHandler
<1>3. IsFiniteSet(A) /\ Cardinality(A) \in Nat
  BY JobOffersAssumption, FS_Subset, FS_CardinalityType DEF Accepted, OffersOf
<1>4. Cardinality(A) <= Workers[s] - 1
  BY <1>3, JobOffersAssumption DEF Filled
<1>5. Taken(s)' \subseteq A \cup P
  BY DEF Taken, Accepted, OffersOf
<1>6. /\ IsFiniteSet(A \cup P)
      /\ Cardinality(A \cup P) <= Cardinality(A) + Cardinality(P)
  <2> HIDE DEF A, P
  <2>1. /\ IsFiniteSet(A \cup P) /\ IsFiniteSet(A \cap P)
        /\ Cardinality(A \cup P)
             = Cardinality(A) + Cardinality(P) - Cardinality(A \cap P)
    BY <1>2, <1>3, FS_Union, FS_Intersection
  <2>2. Cardinality(A \cap P) \in Nat
    BY <2>1, FS_CardinalityType
  <2> QED BY <1>2, <1>3, <2>1, <2>2
<1>7. Cardinality(Taken(s)') <= Cardinality(A \cup P)
      /\ Cardinality(Taken(s)') \in Nat /\ Cardinality(A \cup P) \in Nat
  <2> HIDE DEF A, P
  <2> QED BY <1>5, <1>6, FS_Subset, FS_CardinalityType
<1>8. Limit[s] = Workers[s] + Cardinality(Handlers) - 1
  BY DEF Limit
<1>9. Cardinality(Handlers) \in Nat /\ Workers[s] \in Nat
  BY JobOffersAssumption, FS_CardinalityType
<1> HIDE DEF A, P
<1> QED BY <1>2, <1>3, <1>4, <1>6, <1>7, <1>8, <1>9

\* The two parts of QuotaInv after a step that takes no place.
LEMMA ShrinkKeepsQuota ==
  ASSUME QuotaInv,
         \A s \in Shifts : Taken(s)' \subseteq Taken(s),
         \A h \in Handlers : pc'[h] = "refuse" => plan'[h] = "refuse"
  PROVE  QuotaInv'
<1>1. \A s \in Shifts : Cardinality(Taken(s)') <= Limit[s]
  BY ShrinkKeepsLimit DEF QuotaInv
<1> QED BY <1>1 DEF QuotaInv, Limit

\* A handler that goes on to a step that writes nothing accepted.
LEMMA GotoKeepsQuota ==
  ASSUME TypeOK, QuotaInv, NEW h \in Handlers, NEW step \in Pcs,
         step \notin {"refuse", "save", "commit"}, Goto(h, step) \/ Finish(h),
         \A o \in Offers : status'[o] = "accepted" =>
           status[o] = "accepted" \/ (WillBook(h) /\ on[h] = o)
  PROVE  QuotaInv'
<1>1. \A g \in Handlers : WillBook(g)' => WillBook(g) /\ on'[g] = on[g]
  BY DEF WillBook, Goto, Finish, TypeOK, ControlOK
<1>2. \A s \in Shifts : Taken(s)' \subseteq Taken(s)
  BY <1>1 DEF Taken, OffersOf
<1>3. \A g \in Handlers : pc'[g] = "refuse" => plan'[g] = "refuse"
  BY DEF QuotaInv, Goto, Finish, TypeOK, ControlOK
<1> QED BY <1>2, <1>3, ShrinkKeepsQuota

\* A request that begins neither accepts nor means to accept an offer.
LEMMA BeginKeepsQuota ==
  ASSUME TypeOK, QuotaInv, NEW h \in Handlers, NEW o \in Offers,
         NEW step \in Pcs, NEW aim \in Plans, Begin(h, o, step, aim),
         step \notin {"refuse", "save"}, step = "commit" => aim # "book",
         UNCHANGED status
  PROVE  QuotaInv'
<1>1. \A g \in Handlers : WillBook(g)' => WillBook(g) /\ on'[g] = on[g]
  BY DEF WillBook, Begin, TypeOK, ControlOK
<1>2. \A s \in Shifts : Taken(s)' \subseteq Taken(s)
  BY <1>1 DEF Taken, OffersOf
<1>3. \A g \in Handlers : pc'[g] = "refuse" => plan'[g] = "refuse"
  BY DEF QuotaInv, Begin, TypeOK, ControlOK
<1> QED BY <1>2, <1>3, ShrinkKeepsQuota

\* A step that leaves the handlers alone and accepts nothing.
LEMMA QuietKeepsQuota ==
  ASSUME QuotaInv, UNCHANGED <<pc, on, plan>>,
         \A o \in Offers : status'[o] = "accepted" => status[o] = "accepted"
  PROVE  QuotaInv'
<1>1. \A s \in Shifts : Taken(s)' \subseteq Taken(s)
  BY DEF Taken, OffersOf, WillBook
<1>2. \A g \in Handlers : pc'[g] = "refuse" => plan'[g] = "refuse"
  BY DEF QuotaInv
<1> QED BY <1>1, <1>2, ShrinkKeepsQuota

\* A handler h that decides on offer o, alone to change, keeps the quota: it
\* takes a place when the quota lets it, or when o is recurring or accepted.
LEMMA DecideKeepsQuota ==
  ASSUME TypeOK, TypeOK', QuotaInv, NEW h \in Handlers, NEW o \in Offers,
         UNCHANGED status, on'[h] = o, plan'[h] = Decision(o),
         pc'[h] = "refuse" => plan'[h] = "refuse",
         pc'[h] \in {"refuse", "save"} \/ (pc'[h] = "commit" /\ status[o] # "accepted"),
         \A g \in Handlers \ {h} :
           on'[g] = on[g] /\ pc'[g] = pc[g] /\ plan'[g] = plan[g]
  PROVE  QuotaInv'
<1>1. ASSUME NEW s \in Shifts
      PROVE  Cardinality(Taken(s)') <= Limit[s]
  <2>1. CASE s = ShiftOf[o] /\ ~Filled(status, s)
    BY <2>1, CheckKeepsLimit
  <2>2. CASE s # ShiftOf[o] \/ o \notin Counted \/ status[o] = "accepted"
             \/ plan'[h] \notin {"book", "keep"}
    <3>1. Taken(s)' \subseteq Taken(s)
      <4> SUFFICES ASSUME NEW p \in Taken(s)'
                   PROVE  p \in Taken(s)
        OBVIOUS
      <4>1. p \in OffersOf(s) \cap Counted
        BY DEF Taken, OffersOf, Counted, EarlierOffers, StartOf
      <4>2. CASE status[p] = "accepted"
        BY <4>1, <4>2 DEF Taken
      <4>3. CASE status[p] # "accepted"
        <5>1. PICK g \in Handlers : WillBook(g)' /\ on'[g] = p
          BY <4>3 DEF Taken
        <5>2. CASE g = h
          <6>1. p = o /\ s = ShiftOf[o] /\ o \in Counted
            BY <4>1, <5>1, <5>2 DEF OffersOf
          <6>2. plan'[h] \notin {"book", "keep"}
            BY <2>2, <4>3, <6>1
          <6>3. plan'[h] = "refuse"
            BY <6>2 DEF Decision
          <6> QED BY <5>1, <5>2, <6>3 DEF WillBook
        <5>3. CASE g # h
          BY <4>1, <5>1, <5>3 DEF Taken, WillBook
        <5> QED BY <5>2, <5>3
      <4> QED BY <4>2, <4>3
    <3>2. Cardinality(Taken(s)') <= Cardinality(Taken(s))
          /\ Cardinality(Taken(s)') \in Nat
      BY <3>1, TakenFinite, FS_Subset, FS_CardinalityType
    <3>3. Cardinality(Taken(s)) <= Limit[s]
      BY DEF QuotaInv
    <3> QED BY <3>2, <3>3, TakenFinite, LimitType
  <2>3. CASE s = ShiftOf[o] /\ Filled(status, s) /\ o \in Counted
             /\ status[o] # "accepted" /\ plan'[h] \in {"book", "keep"}
    <3>1. ~IsRecurring(o)
      BY <2>3 DEF Counted, IsRecurring
    <3> QED BY <2>3, <3>1 DEF Decision
  <2> QED BY <2>1, <2>2, <2>3
<1>2. \A g \in Handlers : pc'[g] = "refuse" => plan'[g] = "refuse"
  BY DEF QuotaInv
<1> QED BY <1>1, <1>2 DEF QuotaInv, Limit

\* Every step of a handler keeps the quota.
LEMMA HandlerStepQuota ==
  ASSUME TypeOK, TypeOK', QuotaInv, NEW h \in Handlers, HandlerStep(h)
  PROVE  QuotaInv'
<1> DEFINE o == on[h]
<1>0. /\ status \in [Offers -> Statuses] /\ pc \in [Handlers -> Pcs]
      /\ plan \in [Handlers -> Plans]
      /\ pc[h] # "idle" => o \in Offers
  BY DEF TypeOK, ControlOK
<1>1. CASE AcceptCheck(h)
  <2>1. CASE status[o] = "deleted"
    BY <1>1, <2>1, GotoKeepsQuota DEF AcceptCheck, Pcs
  <2>2. CASE status[o] # "deleted"
    <3>1. o \in Offers
      BY <1>0, <1>1 DEF AcceptCheck
    <3>2. /\ UNCHANGED status /\ on'[h] = o /\ plan'[h] = Decision(o)
          /\ pc'[h] = IF Decision(o) = "refuse" THEN "refuse" ELSE "save"
          /\ \A g \in Handlers \ {h} :
               on'[g] = on[g] /\ pc'[g] = pc[g] /\ plan'[g] = plan[g]
      BY <1>0, <1>1, <2>2 DEF AcceptCheck
    <3> QED BY <3>1, <3>2, DecideKeepsQuota
  <2> QED BY <2>1, <2>2
<1>2. CASE AcceptRefuse(h)
  <2>1. \A p \in Offers : status'[p] = "accepted" <=> status[p] = "accepted"
    BY <1>0, <1>2, SweptKeepsAccepted DEF AcceptRefuse
  <2>2. plan[h] = "refuse"
    BY <1>2 DEF AcceptRefuse, QuotaInv
  <2>3. \A g \in Handlers : WillBook(g)' => WillBook(g) /\ on'[g] = on[g]
    BY <1>0, <1>2, <2>2 DEF WillBook, AcceptRefuse, Goto
  <2>4. \A s \in Shifts : Taken(s)' \subseteq Taken(s)
    BY <2>1, <2>3 DEF Taken, OffersOf
  <2>5. \A g \in Handlers : pc'[g] = "refuse" => plan'[g] = "refuse"
    BY <1>0, <1>2 DEF QuotaInv, AcceptRefuse, Goto
  <2> QED BY <2>4, <2>5, ShrinkKeepsQuota
<1>3. CASE AcceptSave(h)
  <2>1. \A p \in Offers : status'[p] = "accepted" =>
          status[p] = "accepted" \/ (WillBook(h) /\ o = p)
    BY <1>0, <1>3 DEF AcceptSave, WillBook
  <2> QED BY <1>3, <2>1, GotoKeepsQuota DEF AcceptSave, Pcs
<1>4. CASE AcceptSheet(h)
  <2>1. Goto(h, "close") \/ Finish(h)
    BY <1>4 DEF AcceptSheet
  <2> QED BY <1>4, <2>1, GotoKeepsQuota DEF AcceptSheet, Pcs
<1>5. CASE AcceptClose(h)
  <2>1. Goto(h, "sweep") \/ Finish(h)
    BY <1>5 DEF AcceptClose
  <2> QED BY <1>5, <2>1, GotoKeepsQuota DEF AcceptClose, Pcs
<1>6. CASE AcceptSweep(h)
  <2>1. \A p \in Offers : status'[p] = "accepted" => status[p] = "accepted"
    BY <1>0, <1>6, SweptKeepsAccepted DEF AcceptSweep
  <2> QED BY <1>6, <2>1, GotoKeepsQuota DEF AcceptSweep, Pcs
<1>7. CASE CancelSave(h)
  <2>1. Goto(h, "unbook") \/ Finish(h)
    BY <1>7 DEF CancelSave
  <2>2. \A p \in Offers : status'[p] = "accepted" => status[p] = "accepted"
    BY <1>0, <1>7 DEF CancelSave
  <2> QED BY <2>1, <2>2, GotoKeepsQuota DEF Pcs
<1>8. CASE CancelSheet(h)
  BY <1>8, GotoKeepsQuota DEF CancelSheet, Pcs
<1>9. CASE ResendSave(h)
  <2>1. \A p \in Offers : status'[p] = "accepted" => status[p] = "accepted"
    BY <1>0, <1>9 DEF ResendSave
  <2> QED BY <1>9, <2>1, GotoKeepsQuota DEF ResendSave, Pcs
<1>10. CASE CommitReply(h)
  <2>1. Finish(h) /\ o \in Offers
    BY <1>0, <1>10 DEF CommitReply
  <2>2. \A p \in Offers : status'[p] = "accepted" =>
          status[p] = "accepted" \/ (WillBook(h) /\ o = p)
    <3> TAKE p \in Offers
    <3>1. CASE CommitBook(h)
      <4> DEFINE booked == [status EXCEPT ![o] = "accepted"]
      <4>1. booked \in [Offers -> Statuses]
        BY <1>0 DEF Statuses
      <4>2. \/ status' = booked
            \/ \E new : status' = Swept(booked, [sheet EXCEPT ![o] = new], ShiftOf[o])
        BY <3>1 DEF CommitBook
      <4>3. status'[p] = "accepted" <=> booked[p] = "accepted"
        <5>1. ASSUME NEW new,
                     status' = Swept(booked, [sheet EXCEPT ![o] = new], ShiftOf[o])
              PROVE  status'[p] = "accepted" <=> booked[p] = "accepted"
          <6> HIDE DEF booked
          <6> QED BY <4>1, <5>1, SweptKeepsAccepted
        <5> QED BY <4>2, <5>1
      <4>4. WillBook(h)
        BY <1>10, <3>1 DEF CommitReply, CommitBook, WillBook
      <4>5. booked[p] = "accepted" => status[p] = "accepted" \/ o = p
        BY <1>0
      <4> HIDE DEF booked
      <4> QED BY <4>3, <4>4, <4>5
    <3>2. CASE CommitRefuse(h)
      BY <1>0, <2>1, <3>2, SweptKeepsAccepted, SweptType DEF CommitRefuse
    <3>3. CASE CommitCancel(h)
      BY <1>0, <2>1, <3>3 DEF CommitCancel
    <3> QED BY <1>10, <3>1, <3>2, <3>3 DEF CommitReply
  <2> QED BY <2>1, <2>2, GotoKeepsQuota DEF Pcs
<1>11. CASE RollbackReply(h)
  BY <1>11, GotoKeepsQuota DEF RollbackReply, Pcs
<1> QED BY <1>1, <1>2, <1>3, <1>4, <1>5, <1>6, <1>7, <1>8, <1>9, <1>10, <1>11
        DEF HandlerStep

\* So does a request that begins.
LEMMA RequestQuota ==
  ASSUME TypeOK, TypeOK', QuotaInv, NEW h \in Handlers, NEW o \in Offers,
         Request(h, o)
  PROVE  QuotaInv'
<1>1. CASE BeginAccept(h, o)
  BY <1>1, BeginKeepsQuota DEF BeginAccept, Pcs, Plans
<1>2. CASE BeginCancel(h, o)
  BY <1>2, BeginKeepsQuota DEF BeginCancel, Pcs, Plans
<1>3. CASE BeginResend(h, o)
  BY <1>3, BeginKeepsQuota DEF BeginResend, Pcs, Plans
<1>4. CASE BeginSend(h, o)
  BY <1>4, BeginKeepsQuota DEF BeginSend, Pcs, Plans
<1>5. CASE \E positive \in BOOLEAN : ReadReply(h, o, positive)
  <2>1. CASE ReadReply(h, o, TRUE)
    <3>1. /\ UNCHANGED status /\ status[o] = "undefined"
          /\ on'[h] = o /\ plan'[h] = Decision(o) /\ pc'[h] = "commit"
          /\ \A g \in Handlers \ {h} :
               on'[g] = on[g] /\ pc'[g] = pc[g] /\ plan'[g] = plan[g]
      BY <2>1 DEF ReadReply, Begin, TypeOK, ControlOK
    <3> QED BY <3>1, DecideKeepsQuota
  <2>2. CASE ReadReply(h, o, FALSE)
    BY <2>2, BeginKeepsQuota DEF ReadReply, Pcs, Plans
  <2> QED BY <1>5, <2>1, <2>2
<1> QED BY <1>1, <1>2, <1>3, <1>4, <1>5 DEF Request

\* So do the steps that leave the handlers alone.
LEMMA OfferStepQuota ==
  ASSUME TypeOK, QuotaInv, NEW o \in Offers, OfferStep(o)
  PROVE  QuotaInv'
<1>1. UNCHANGED <<pc, on, plan>>
  BY DEF OfferStep, Create, Destroy, SheetConfirm, SheetDecline, SheetSubmit,
         SheetStep, Task, SkipOffer, SendOffer, DeferOffer, TakeTask, RejectOffer
<1>2. \A p \in Offers : status'[p] = "accepted" => status[p] = "accepted"
  BY DEF OfferStep, Create, Destroy, SheetConfirm, SheetDecline, SheetSubmit,
         SheetStep, Task, SkipOffer, SendOffer, DeferOffer, RejectOffer, TypeOK
<1> QED BY <1>1, <1>2, QuietKeepsQuota

\* So does every step.
LEMMA NextQuota ==
  ASSUME TypeOK, TypeOK', QuotaInv, [Next]_vars
  PROVE  QuotaInv'
<1>1. CASE Tick \/ UNCHANGED vars
  BY <1>1, QuietKeepsQuota DEF Tick, vars
<1> QED BY <1>1, HandlerStepQuota, RequestQuota, OfferStepQuota DEF Next

\* At the start no place is taken.
LEMMA InitQuota ==
  ASSUME Init
  PROVE  QuotaInv
<1>1. \A h \in Handlers : pc[h] = "idle"
  BY DEF Init
<1>2. \A s \in Shifts : Taken(s) = {}
  BY <1>1 DEF Init, Taken, WillBook, OffersOf
<1>3. \A s \in Shifts : 0 <= Limit[s]
  <2>1. Cardinality(Handlers) \in Nat /\ Cardinality(Handlers) # 0
    BY JobOffersAssumption, FS_EmptySet, FS_CardinalityType
  <2> QED BY <2>1, JobOffersAssumption DEF Limit
<1> QED BY <1>1, <1>2, <1>3, FS_EmptySet DEF QuotaInv

\* However the requests interleave, a place that is found is never taken twice
\* over: accepted offers and those about to be accepted stay under the limit.
THEOREM QuotaInvariant == Spec => []QuotaInv
<1>1. Init => QuotaInv
  BY InitQuota
<1>2. TypeOK /\ TypeOK' /\ QuotaInv /\ [Next]_vars => QuotaInv'
  BY NextQuota
<1> QED BY <1>1, <1>2, TypeCorrect, PTL DEF Spec

\* The invariant bounds the accepted offers.
LEMMA QuotaBounds ==
  ASSUME QuotaInv
  PROVE  OverbookingBounded
<1> SUFFICES ASSUME NEW s \in Shifts
             PROVE  Cardinality(Accepted(status, s) \cap Counted) <= Limit[s]
  BY DEF OverbookingBounded
<1> DEFINE B == Accepted(status, s) \cap Counted
<1>1. B \subseteq Taken(s)
  BY DEF Accepted, Taken
<1>2. Cardinality(B) <= Cardinality(Taken(s)) /\ Cardinality(B) \in Nat
  <2> HIDE DEF B
  <2> QED BY <1>1, TakenFinite, FS_Subset, FS_CardinalityType
<1> QED BY <1>2, TakenFinite, LimitType DEF QuotaInv

\* A shift is overbooked by at most one counted offer for each further process
\* that runs requests; with a single process its quota is exact.
THEOREM OverbookingIsBounded == Spec => []OverbookingBounded
<1>1. QuotaInv => OverbookingBounded
  BY QuotaBounds
<1> QED BY <1>1, QuotaInvariant, PTL

-----------------------------------------------------------------------------
(* The accepted offers evolve as the Roster *)

Booked == {o \in Offers : status[o] = "accepted"}

\* The roster counts its offers as JobOffers does.
LEMMA RosterCardinality ==
  ASSUME NEW S
  PROVE  R!Cardinality(S) = Cardinality(S)
BY Zenon DEF R!Cardinality, Cardinality

\* A step after which the same offers are accepted, one less, or one more that
\* a handler had found a place for.
LEMMA RosterStep ==
  ASSUME TypeOK, QuotaInv, NEW o \in Offers,
         \A p \in Offers \ {o} : status'[p] = "accepted" <=> status[p] = "accepted",
         status'[o] = "accepted" =>
           status[o] = "accepted" \/ \E h \in Handlers : WillBook(h) /\ on[h] = o
  PROVE  R!Next \/ UNCHANGED Booked
<1>1. CASE status'[o] = "accepted" /\ status[o] # "accepted"
  <2> DEFINE s == ShiftOf[o]
             B == {p \in Booked \cap Counted : ShiftOf[p] = s}
  <2>1. o \notin Booked /\ Booked' = Booked \cup {o}
    BY <1>1 DEF Booked
  <2>2. ASSUME o \in Counted
        PROVE  Cardinality(B) < Limit[s]
    <3>1. B \cup {o} \subseteq Taken(s) /\ o \notin B
      BY <1>1, <2>2 DEF Booked, Taken, OffersOf
    <3> HIDE DEF B
    <3>2. IsFiniteSet(B)
      BY <3>1, TakenFinite, FS_Subset
    <3>3. /\ Cardinality(B \cup {o}) = Cardinality(B) + 1
          /\ Cardinality(B) \in Nat
      BY <3>1, <3>2, FS_AddElement, FS_CardinalityType
    <3>4. Cardinality(B \cup {o}) <= Cardinality(Taken(s))
      BY <3>1, TakenFinite, FS_Subset
    <3>5. s \in Shifts
      BY JobOffersAssumption
    <3>6. Cardinality(Taken(s)) <= Limit[s] /\ Limit[s] \in Int
      BY <3>5, LimitType DEF QuotaInv
    <3> QED BY <3>3, <3>4, <3>6, TakenFinite
  <2>3. R!Book(o)
    <3>1. R!Held(s) = B
      BY DEF R!Held, Booked
    <3>2. o \in Counted => Cardinality(R!Held(s)) < Limit[s]
      BY <2>2, <3>1
    <3>3. /\ o \notin {p \in Offers : status[p] = "accepted"}
          /\ {p \in Offers : status[p] = "accepted"}'
               = {p \in Offers : status[p] = "accepted"} \cup {o}
      BY <2>1 DEF Booked
    <3> QED BY <3>2, <3>3, RosterCardinality DEF R!Book
  <2> QED BY <2>3 DEF R!Next
<1>2. CASE status'[o] # "accepted" /\ status[o] = "accepted"
  <2>1. R!Release(o)
    BY <1>2 DEF R!Release
  <2> QED BY <2>1 DEF R!Next
<1>3. CASE status'[o] = "accepted" <=> status[o] = "accepted"
  BY <1>3 DEF Booked
<1> QED BY <1>1, <1>2, <1>3

\* The handler that steps changes at most its own offer.
LEMMA HandlerStepRoster ==
  ASSUME TypeOK, QuotaInv, NEW h \in Handlers, HandlerStep(h)
  PROVE  R!Next \/ UNCHANGED Booked
<1> DEFINE o == on[h]
<1>0. status \in [Offers -> Statuses] /\ o \in Offers
  BY DEF TypeOK, ControlOK, HandlerStep, AcceptCheck, AcceptRefuse, AcceptSave,
         AcceptSheet, AcceptClose, AcceptSweep, CancelSave, CancelSheet,
         ResendSave, CommitReply, RollbackReply
<1>1. CASE UNCHANGED status
  BY <1>1 DEF Booked
<1>2. CASE AcceptRefuse(h) \/ AcceptSweep(h)
  <2>1. \A p \in Offers : status'[p] = "accepted" <=> status[p] = "accepted"
    BY <1>0, <1>2, SweptKeepsAccepted DEF AcceptRefuse, AcceptSweep
  <2> QED BY <2>1 DEF Booked
<1>3. CASE AcceptSave(h)
  <2>1. \A p \in Offers \ {o} : status'[p] = status[p]
    BY <1>0, <1>3 DEF AcceptSave
  <2>2. status'[o] = "accepted" => WillBook(h)
    BY <1>0, <1>3 DEF AcceptSave, WillBook
  <2> QED BY <1>0, <2>1, <2>2, RosterStep
<1>4. CASE CancelSave(h) \/ ResendSave(h)
  <2>1. \A p \in Offers \ {o} : status'[p] = status[p]
    BY <1>0, <1>4 DEF CancelSave, ResendSave
  <2>2. status'[o] = "accepted" => status[o] = "accepted"
    BY <1>0, <1>4 DEF CancelSave, ResendSave
  <2> QED BY <1>0, <2>1, <2>2, RosterStep
<1>5. CASE CommitReply(h) /\ CommitBook(h)
  <2> DEFINE booked == [status EXCEPT ![o] = "accepted"]
  <2>1. booked \in [Offers -> Statuses]
    BY <1>0 DEF Statuses
  <2>2. \/ status' = booked
        \/ \E new : status' = Swept(booked, [sheet EXCEPT ![o] = new], ShiftOf[o])
    BY <1>5 DEF CommitBook
  <2>3. \A p \in Offers : status'[p] = "accepted" <=> booked[p] = "accepted"
    <3> TAKE p \in Offers
    <3>1. ASSUME NEW new,
                 status' = Swept(booked, [sheet EXCEPT ![o] = new], ShiftOf[o])
          PROVE  status'[p] = "accepted" <=> booked[p] = "accepted"
      <4> HIDE DEF booked
      <4> QED BY <2>1, <3>1, SweptKeepsAccepted
    <3> QED BY <2>2, <3>1
  <2>4. \A p \in Offers \ {o} : booked[p] = status[p]
    BY <1>0
  <2>5. WillBook(h)
    BY <1>5 DEF CommitReply, CommitBook, WillBook
  <2> HIDE DEF booked
  <2> QED BY <1>0, <2>3, <2>4, <2>5, RosterStep
<1>6. CASE CommitReply(h) /\ (CommitRefuse(h) \/ CommitCancel(h))
  <2>1. \A p \in Offers \ {o} : status'[p] = "accepted" <=> status[p] = "accepted"
    BY <1>0, <1>6, SweptKeepsAccepted, SweptType DEF CommitRefuse, CommitCancel
  <2>2. status'[o] # "accepted"
    BY <1>0, <1>6, SweptType DEF CommitRefuse, CommitCancel
  <2> QED BY <1>0, <2>1, <2>2, RosterStep
<1>7. CASE AcceptCheck(h) \/ AcceptSheet(h) \/ AcceptClose(h) \/ CancelSheet(h)
             \/ RollbackReply(h)
  BY <1>1, <1>7
  DEF AcceptCheck, AcceptSheet, AcceptClose, CancelSheet, RollbackReply
<1>8. CommitReply(h) => CommitBook(h) \/ CommitRefuse(h) \/ CommitCancel(h)
  BY DEF CommitReply
<1> QED BY <1>2, <1>3, <1>4, <1>5, <1>6, <1>7, <1>8 DEF HandlerStep

\* The steps that leave the handlers alone give no place.
LEMMA OfferStepRoster ==
  ASSUME TypeOK, QuotaInv, NEW o \in Offers, OfferStep(o)
  PROVE  R!Next \/ UNCHANGED Booked
<1>1. /\ \A p \in Offers \ {o} : status'[p] = status[p]
      /\ status'[o] = "accepted" => status[o] = "accepted"
  BY DEF OfferStep, Create, Destroy, SheetConfirm, SheetDecline, SheetSubmit,
         SheetStep, Task, SkipOffer, SendOffer, DeferOffer, RejectOffer, TypeOK
<1> QED BY <1>1, RosterStep

\* Whatever the interleaving, JobOffers implements the Roster: a step gives or
\* takes at most one place, and gives one only under the limit.
THEOREM RosterImplemented == Spec => ImplementsRoster
<1>1. Init => R!Init
  BY DEF Init, R!Init
<1>2. TypeOK /\ QuotaInv /\ [Next]_vars => R!Next \/ UNCHANGED Booked
  <2> SUFFICES ASSUME TypeOK, QuotaInv, [Next]_vars
               PROVE  R!Next \/ UNCHANGED Booked
    OBVIOUS
  <2>1. CASE UNCHANGED status
    BY <2>1 DEF Booked
  <2>2. ASSUME NEW h \in Handlers, NEW o \in Offers, Request(h, o)
        PROVE  UNCHANGED status
    BY <2>2 DEF Request, BeginAccept, BeginCancel, BeginResend, BeginSend, ReadReply
  <2> QED BY <2>1, <2>2, HandlerStepRoster, OfferStepRoster DEF Next, Tick, vars
<1>3. TypeOK /\ QuotaInv /\ [Next]_vars
        => [R!Next]_{o \in Offers : status[o] = "accepted"}
  BY <1>2 DEF Booked
<1> QED BY <1>1, <1>3, TypeCorrect, QuotaInvariant, PTL
        DEF Spec, ImplementsRoster, R!Spec
=============================================================================
