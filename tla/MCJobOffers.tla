---------------------------- MODULE MCJobOffers ----------------------------
EXTENDS JobOffers, TLC

CONSTANTS o1, o2, o3, s1, s2, a, b, c, h1, h2, n

(* Two candidates compete for the one place of shift s1. *)
PairShiftOf == o1 :> s1 @@ o2 :> s1
PairCandidateOf == o1 :> a @@ o2 :> b

(* Three candidates do. *)
CrowdShiftOf == o1 :> s1 @@ o2 :> s1 @@ o3 :> s1
CrowdCandidateOf == o1 :> a @@ o2 :> b @@ o3 :> c

(* Candidate a is offered shift s1 and the next day's shift s2, where he   *)
(* competes with candidate b.                                              *)
RecurringShiftOf == o1 :> s1 @@ o2 :> s2 @@ o3 :> s2
RecurringCandidateOf == o1 :> a @@ o2 :> b @@ o3 :> a

OnePlace == s1 :> 1 @@ s2 :> 1

\* The clock starts in the last hour before shift s1 ...
LateStart == s1 :> 1 @@ s2 :> 2
\* ... or earlier.
EarlyStart == s1 :> 2 @@ s2 :> 3

\* The two processes are alike, and so are candidates a and b with their offers.
CrowdSymmetry ==
  Permutations({h1, h2}) \cup {o1 :> o2 @@ o2 :> o1 @@ a :> b @@ b :> a}

\* The carrier list and the queued rejections guide no step but the task that
\* removes a rejection.
QuotaView == <<status, sheet, sent, unreplied, queue, now, pc, on, plan>>

\* Early and without the pre-shift check, a time sheet guides only the sweep of
\* an offer that was sent, and the plan of a handler what it writes.
CrowdView ==
  <<status, {o \in Offers : CandidateOf[o] \in SmsCandidates /\ sheet[o] = "none"},
    sent, unreplied, queue, now, pc, on,
    [h \in Handlers |-> IF pc[h] \in {"refuse", "save", "resend", "commit"}
                        THEN plan[h] ELSE "none"]>>
=============================================================================
