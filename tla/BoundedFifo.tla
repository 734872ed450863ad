---------------------------- MODULE BoundedFifo ----------------------------
(***************************************************************************)
(* What the queue between the poll thread and the dashboard thread         *)
(* promises: a first-in first-out queue of at most Size records, that      *)
(* refuses a record only when it is full and reports empty only when it is *)
(* empty.                                                                  *)
(***************************************************************************)
EXTENDS Naturals, Sequences

CONSTANTS Records, Size, Nullopt

VARIABLES q, accepted, popped

vars == <<q, accepted, popped>>

Init == q = <<>> /\ accepted = TRUE /\ popped = Nullopt

Push(v) == Len(q) < Size /\ q' = Append(q, v) /\ accepted' = TRUE /\ UNCHANGED popped

Refuse == Len(q) = Size /\ accepted' = FALSE /\ UNCHANGED <<q, popped>>

Pop == q # <<>> /\ popped' = Head(q) /\ q' = Tail(q) /\ UNCHANGED accepted

PopEmpty == q = <<>> /\ popped' = Nullopt /\ UNCHANGED <<q, accepted>>

Next == (\E v \in Records : Push(v)) \/ Refuse \/ Pop \/ PopEmpty

Spec == Init /\ [][Next]_vars
=============================================================================
