----------------------------- MODULE SharedTrip -----------------------------
(***************************************************************************)
(* What refreshAccessToken promises its callers                            *)
(* (frontend/src/lib/network/refresh.ts:14-15, 116-132): the first caller  *)
(* starts a round trip, everybody who calls while it is under way joins    *)
(* it, nobody leaves it before it lands, and its landing releases all of   *)
(* them at once.  What a caller is, why it calls, what the trip brings     *)
(* back and what becomes of the caller afterwards is not said.             *)
(***************************************************************************)

CONSTANTS
    Callers,
    None

VARIABLES
    trip,       \* the caller that started the trip under way, None without
    waiters     \* who awaits it

sharedVars == <<trip, waiters>>

Init ==
    /\ trip = None
    /\ waiters = {}

(* There is no trip under way: r starts one and awaits it.                 *)
Launch(r) ==
    /\ trip = None
    /\ trip' = r
    /\ waiters' = {r}

(* There is one: r awaits it with the others.                              *)
Join(r) ==
    /\ trip # None
    /\ r \notin waiters
    /\ waiters' = waiters \cup {r}
    /\ UNCHANGED trip

(* The trip ends, with a token or without one, for all who await it.       *)
Land ==
    /\ trip # None
    /\ trip' = None
    /\ waiters' = {}

Next ==
    \/ \E r \in Callers : Launch(r) \/ Join(r)
    \/ Land

Spec == Init /\ [][Next]_sharedVars

=============================================================================
