------------------------------- MODULE Roster -------------------------------
(***************************************************************************)
(* What the job offers of a Job promise its client, with no messages, no   *)
(* time sheets and no processes: the set of offers that hold a place grows *)
(* and shrinks one offer at a time, and a shift never has more than        *)
(* Limit[s] places held by counted offers (the first offers of their       *)
(* candidates; a candidate who works an earlier day of the job keeps his   *)
(* place on the later days whatever the number of workers asked for).      *)
(***************************************************************************)
EXTENDS Integers, FiniteSets

CONSTANTS
  Offers, Shifts,
  ShiftOf,   \* the shift of each offer
  Counted,   \* the offers that count towards the limit of their shift
  Limit      \* the places of each shift

VARIABLE booked  \* the offers that hold a place

Held(s) == {o \in booked \cap Counted : ShiftOf[o] = s}

Init == booked = {}

Book(o) ==
  /\ o \notin booked
  /\ o \in Counted => Cardinality(Held(ShiftOf[o])) < Limit[ShiftOf[o]]
  /\ booked' = booked \cup {o}

Release(o) ==
  /\ o \in booked
  /\ booked' = booked \ {o}

Next == \E o \in Offers : Book(o) \/ Release(o)

Spec == Init /\ [][Next]_booked
=============================================================================
