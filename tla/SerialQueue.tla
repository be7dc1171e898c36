----------------------------- MODULE SerialQueue -----------------------------
(***************************************************************************)
(* What the softwares install queue promises to those who enqueue work:    *)
(* pieces of work are numbered as they are accepted, are started in that   *)
(* order, one at a time, and each at most once.  Work that has not been    *)
(* started may be withdrawn.                                               *)
(***************************************************************************)
EXTENDS Integers, FiniteSetsExt

VARIABLES
  accepted,   \* how many pieces of work were ever accepted
  waiting,    \* the accepted ones that are neither started nor withdrawn
  current     \* the one being worked on, 0 if none

vars == <<accepted, waiting, current>>

Init == accepted = 0 /\ waiting = {} /\ current = 0

\* Accept new work, withdraw waiting work, or both.
Amend ==
  /\ accepted' \in Nat /\ accepted' >= accepted
  /\ waiting' \subseteq waiting \cup (accepted + 1)..accepted'
  /\ UNCHANGED current

StartNext ==
  /\ current = 0 /\ waiting # {}
  /\ current' = Min(waiting)
  /\ waiting' = waiting \ {current'}
  /\ UNCHANGED accepted

Complete ==
  /\ current # 0 /\ current' = 0
  /\ UNCHANGED <<accepted, waiting>>

Next == Amend \/ StartNext \/ Complete

Spec == Init /\ [][Next]_vars
=============================================================================
