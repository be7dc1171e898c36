----------------------------- MODULE ShellServer ----------------------------
(***************************************************************************)
(* The cloud shell's sessions on the server (modules/cloudshell): PTYs     *)
(* that outlive their WebSocket, the single writer attached to each, and *)
(* the idle timer that ends an unattached one.                             *)
(*                                                                         *)
(* What a client does to a connection (Dial, HangUp, Receive, Cut) is here *)
(* too, so that the module is a specification of its own; ShellPage puts   *)
(* the browser behind it.  Terminal output and input are left out, and so  *)
(* are the rows of shell_sessions: the list filters them by the sessions   *)
(* in memory and adds those that have none, so they decide nothing.        *)
(***************************************************************************)
EXTENDS Naturals, Sequences, FiniteSets

CONSTANTS
    Sessions,   \* the ids uuid.New may hand out: a bound on creations
    Conns,      \* WebSocket connections, reused when both ends are done
    None

ASSUME NoneAssumption == None \notin Sessions /\ None \notin Conns

VARIABLES
    state,      \* session: "unborn", "live", "gone"
    attach,     \* session: the connection whose sink gets its output
    timer,      \* session: idleTimer is armed
    doomed,     \* sessions a goroutine is about to call Destroy on
    pc,         \* connection: where its handler stands
    of,         \* connection: the session_id of its URL, then its handler's ms
    link,       \* connection: "own", "other", "broken" or "closed"
    inbox,      \* connection: messages under way to the page
    listing,    \* GET /sessions
    kills       \* DELETE /sessions/:id under way

sessVars == <<state, attach, timer, doomed>>
connVars == <<pc, of, link, inbox>>
restVars == <<listing, kills>>
serverVars == <<state, attach, timer, doomed, pc, of, link, inbox,
                listing, kills>>

PCs      == {"free", "accept", "attach", "loop", "schedule", "done"}
Links    == {"own", "other", "broken", "closed"}
Messages == {"ready", "notfound", "error", "exit"}
Listings == [phase : {"idle", "sent", "answered"}, ids : SUBSET Sessions]

Live   == {s \in Sessions : state[s] = "live"}
Unborn == {s \in Sessions : state[s] = "unborn"}

ServerInit ==
    /\ state  = [s \in Sessions |-> "unborn"]
    /\ attach = [s \in Sessions |-> None]
    /\ timer  = [s \in Sessions |-> FALSE]
    /\ doomed = {}
    /\ pc     = [c \in Conns |-> "free"]
    /\ of     = [c \in Conns |-> None]
    /\ link   = [c \in Conns |-> "closed"]
    /\ inbox  = [c \in Conns |-> <<>>]
    /\ listing = [phase |-> "sent", ids |-> {}]
    /\ kills  = {}

-----------------------------------------------------------------------------
(* What clients do to connections.  Of a connection that is not the        *)
(* page's own one ("other", "closed") nobody reads the messages: none is   *)
(* kept, and it is free again once its handler has returned.               *)

Heard(c) == link[c] \in {"own", "broken"}

(* A new socket that asks for session s, or for a new one; the page drops  *)
(* its former socket d and listens to it no more.                          *)
Dial(c, s, d, by) ==
    /\ pc[c] = "free"
    /\ LET over == d # None /\ pc[d] = "done"
       IN  /\ pc' = [e \in Conns |-> CASE e = c -> "accept"
                                      [] e = d /\ over -> "free"
                                      [] OTHER -> pc[e]]
           /\ of' = [e \in Conns |-> CASE e = c -> s
                                      [] e = d /\ over -> None
                                      [] OTHER -> of[e]]
    /\ link' = [e \in Conns |-> CASE e = c -> by
                                 [] e = d -> "closed"
                                 [] OTHER -> link[e]]
    /\ inbox' = [e \in Conns |-> IF e \in {c, d} THEN <<>> ELSE inbox[e]]

HangUp(d) ==
    /\ IF pc[d] = "done"
         THEN /\ pc' = [pc EXCEPT ![d] = "free"]
              /\ of' = [of EXCEPT ![d] = None]
         ELSE UNCHANGED <<pc, of>>
    /\ link' = [link EXCEPT ![d] = "closed"]
    /\ inbox' = [inbox EXCEPT ![d] = <<>>]

Receive(d) ==
    /\ inbox[d] # <<>>
    /\ inbox' = [inbox EXCEPT ![d] = Tail(@)]
    /\ UNCHANGED <<pc, of, link>>

(* The link breaks, or another page lets its socket go.                    *)
Cut(c) ==
    /\ pc[c] \notin {"free", "done"}
    /\ link[c] \in {"own", "other"}
    /\ link' = [link EXCEPT ![c] = IF @ = "own" THEN "broken" ELSE "closed"]
    /\ UNCHANGED <<pc, of, inbox, sessVars, restVars>>

-----------------------------------------------------------------------------
(* HandleTerminalWS, one action per critical section or write to the       *)
(* database.                                                               *)

Go(c, to) == pc' = [pc EXCEPT ![c] = to]
Return(c) ==
    IF Heard(c)
      THEN Go(c, "done") /\ UNCHANGED <<of, link>>
      ELSE /\ Go(c, "free")
           /\ of' = [of EXCEPT ![c] = None]
           /\ link' = [link EXCEPT ![c] = "closed"]
Send(c, m) == inbox' = [inbox EXCEPT ![c] = IF link[c] = "own" THEN Append(@, m) ELSE @]

(* The handshake never completes.                                          *)
NeverAccepted(c) ==
    /\ pc[c] = "accept" /\ link[c] \in {"broken", "closed"}
    /\ Return(c)
    /\ UNCHANGED <<inbox, sessVars, restVars>>

(* Faulty: the answer to a session that is gone is forgotten.              *)
ResumeSilently(c) ==
    /\ pc[c] = "accept" /\ of[c] # None
    /\ of[c] \in Live
    /\ Go(c, "attach")
    /\ UNCHANGED <<of, link, inbox, sessVars, restVars>>

Resume(c) ==
    /\ pc[c] = "accept" /\ of[c] # None
    /\ IF of[c] \in Live
         THEN Go(c, "attach") /\ UNCHANGED <<of, link, inbox>>
         ELSE Return(c) /\ Send(c, "notfound")
    /\ UNCHANGED <<sessVars, restVars>>

(* sessions.create: the PTY starts and the session is registered.          *)
Create(c) ==
    /\ pc[c] = "accept" /\ of[c] = None
    /\ Unborn # {}
    /\ LET s == CHOOSE u \in Unborn : TRUE
       IN  /\ state' = [state EXCEPT ![s] = "live"]
           /\ of' = [of EXCEPT ![c] = s]
    /\ Go(c, "attach")
    /\ UNCHANGED <<attach, timer, doomed, link, inbox, restVars>>

CreateFails(c) ==
    /\ pc[c] = "accept" /\ of[c] = None
    /\ Return(c)
    /\ Send(c, "error")
    /\ UNCHANGED <<sessVars, restVars>>

(* Faulty: the closed flag is not looked at again.                         *)
AttachUnchecked(c) ==
    /\ pc[c] = "attach"
    /\ attach' = [attach EXCEPT ![of[c]] = c]
    /\ timer' = [timer EXCEPT ![of[c]] = FALSE]
    /\ Send(c, "ready")
    /\ Go(c, "loop")
    /\ UNCHANGED <<of, link, state, doomed, restVars>>

(* Attach: the newest connection takes the session over.                   *)
Attach(c) ==
    /\ pc[c] = "attach"
    /\ LET s == of[c]
       IN  IF s \in Live
             THEN /\ attach' = [attach EXCEPT ![s] = c]
                  /\ timer' = [timer EXCEPT ![s] = FALSE]
                  /\ Send(c, "ready")
                  /\ Go(c, "loop")
                  /\ UNCHANGED <<of, link>>
             ELSE /\ Send(c, "error")
                  /\ Return(c)
                  /\ UNCHANGED <<attach, timer>>
    /\ UNCHANGED <<state, doomed, restVars>>

(* Faulty: whoever ends detaches, whoever is attached.                     *)
DetachAny(c) ==
    /\ pc[c] = "loop"
    /\ link[c] \in {"broken", "closed"} \/ of[c] \notin Live
    /\ attach' = [attach EXCEPT ![of[c]] = None]
    /\ Go(c, "schedule")
    /\ UNCHANGED <<of, link, state, timer, doomed, inbox, restVars>>

(* Faulty: the session is let go of, and no timer is armed.                *)
DetachWithoutTimer(c) ==
    /\ pc[c] = "loop"
    /\ link[c] \in {"broken", "closed"} \/ of[c] \notin Live
    /\ attach' = [attach EXCEPT ![of[c]] = IF @ = c THEN None ELSE @]
    /\ Return(c)
    /\ UNCHANGED <<state, timer, doomed, inbox, restVars>>

(* The loop ends on a read error or a closed session; the deferred Detach  *)
(* lets go of the session only when it is still this connection's.         *)
Detach(c) ==
    /\ pc[c] = "loop"
    /\ link[c] \in {"broken", "closed"} \/ of[c] \notin Live
    /\ IF attach[of[c]] = c
         THEN /\ attach' = [attach EXCEPT ![of[c]] = None]
              /\ Go(c, "schedule")
              /\ UNCHANGED <<of, link>>
         ELSE /\ Return(c)
              /\ UNCHANGED attach
    /\ UNCHANGED <<state, timer, doomed, inbox, restVars>>

(* The rest of Detach runs without the session's lock.  (The timer of a    *)
(* destroyed session finds nothing to do: it is left out.)                 *)
ScheduleIdle(c) ==
    /\ pc[c] = "schedule"
    /\ timer' = [timer EXCEPT ![of[c]] = of[c] \in Live]
    /\ Return(c)
    /\ UNCHANGED <<state, attach, doomed, inbox, restVars>>

-----------------------------------------------------------------------------
(* The end of a session.                                                   *)

(* Destroy up to its unlock; whoever comes later finds the session closed. *)
Destroy(s) ==
    /\ state' = [state EXCEPT ![s] = "gone"]
    /\ timer' = [timer EXCEPT ![s] = FALSE]
    /\ attach' = [attach EXCEPT ![s] = None]
    /\ doomed' = doomed \ {s}

(* Faulty: the test for an attached connection is the wrong way round.     *)
TimerFiresAttached(s) ==
    /\ timer[s]
    /\ attach[s] # None
    /\ timer' = [timer EXCEPT ![s] = FALSE]
    /\ UNCHANGED <<state, attach, doomed, connVars, restVars>>

(* The timer's callback looks whether the session is attached and destroys *)
(* it after it gave the lock back.                                         *)
TimerFires(s) ==
    /\ timer[s]
    /\ timer' = [timer EXCEPT ![s] = FALSE]
    /\ doomed' = IF attach[s] = None THEN doomed \cup {s} ELSE doomed
    /\ UNCHANGED <<state, attach, connVars, restVars>>

(* The shell exits: readLoop tells the client that is attached and then    *)
(* destroys the session.                                                   *)
ShellExits(s) ==
    /\ s \in Live \ doomed
    /\ doomed' = doomed \cup {s}
    /\ IF attach[s] = None THEN UNCHANGED inbox ELSE Send(attach[s], "exit")
    /\ UNCHANGED <<state, attach, timer, pc, of, link, restVars>>

Reap(s) ==
    /\ s \in doomed
    /\ Destroy(s)
    /\ UNCHANGED <<connVars, restVars>>

(* KillSessionAPI; a call that is lost is one that never arrives.          *)
Kill(s) ==
    /\ s \in kills
    /\ kills' = kills \ {s}
    /\ IF s \in Live
         THEN Destroy(s)
         ELSE UNCHANGED sessVars
    /\ UNCHANGED <<connVars, listing>>

(* ListSessionsAPI answers with the live sessions.                         *)
ListAnswers ==
    /\ listing.phase = "sent"
    /\ listing' = [phase |-> "answered", ids |-> Live]
    /\ UNCHANGED <<sessVars, connVars, kills>>

(* The server restarts: the sessions were its children.                    *)
Restart ==
    /\ Live # {}
    /\ state' = [s \in Sessions |-> IF state[s] = "unborn" THEN "unborn" ELSE "gone"]
    /\ attach' = [s \in Sessions |-> None]
    /\ timer' = [s \in Sessions |-> FALSE]
    /\ doomed' = {}
    /\ pc' = [c \in Conns |-> IF Heard(c) THEN "done" ELSE "free"]
    /\ of' = [c \in Conns |-> IF Heard(c) THEN of[c] ELSE None]
    /\ link' = [c \in Conns |-> IF Heard(c) THEN "broken" ELSE "closed"]
    /\ listing' = [phase |-> "idle", ids |-> {}]
    /\ kills' = {}
    /\ UNCHANGED inbox

-----------------------------------------------------------------------------
Handle(c) ==
    \/ NeverAccepted(c)
    \/ Resume(c)
    \/ Create(c)
    \/ CreateFails(c)
    \/ Attach(c)
    \/ Detach(c)
    \/ ScheduleIdle(c)

Work ==
    \/ \E c \in Conns : Handle(c)
    \/ \E s \in Sessions : Reap(s) \/ TimerFires(s) \/ Kill(s)
    \/ ListAnswers

Disturbance ==
    \/ \E c \in Conns : Cut(c)
    \/ \E s \in Sessions : ShellExits(s)
    \/ Restart

(* What the clients may do, in any order.                                  *)
ClientStep ==
    /\ UNCHANGED sessVars
    /\ listing' \in Listings /\ kills' \in SUBSET Sessions
    /\ \/ \E c \in Conns, s \in Sessions \cup {None}, d \in Conns \cup {None} :
             \E by \in {"own", "other"} : c # d /\ Dial(c, s, d, by)
       \/ \E d \in Conns : pc[d] # "free" /\ (HangUp(d) \/ Receive(d))
       \/ UNCHANGED connVars

ServerNext == Work \/ Disturbance \/ ClientStep

ServerSpec == ServerInit /\ [][ServerNext]_serverVars

-----------------------------------------------------------------------------
(* Types of the server's variables.                                        *)
ServerTypeOK ==
    /\ state \in [Sessions -> {"unborn", "live", "gone"}]
    /\ attach \in [Sessions -> Conns \cup {None}]
    /\ timer \in [Sessions -> BOOLEAN]
    /\ doomed \in SUBSET Sessions
    /\ pc \in [Conns -> PCs]
    /\ of \in [Conns -> Sessions \cup {None}]
    /\ link \in [Conns -> Links]
    /\ inbox \in [Conns -> Seq(Messages)]
    /\ listing \in Listings
    /\ kills \in SUBSET Sessions

(* Every shell that runs has somebody who will end it or hand it on: the   *)
(* connection it is attached to, a handler that is about to attach to it   *)
(* or to arm its timer, the armed timer, or a goroutine about to destroy   *)
(* it.  Else its PTY and its process stay until the server stops.          *)
Working(s) == \E c \in Conns :
    of[c] = s /\ pc[c] \in {"attach", "schedule"}

NobodyForgotten ==
    \A s \in Live : attach[s] # None \/ timer[s] \/ s \in doomed \/ Working(s)

(* A session's output goes to a handler that runs and serves it, and only  *)
(* while the session is live (no sink is left behind by a late Attach, a   *)
(* Destroy or an end of the handler).                                      *)
SinkIsServed ==
    \A s \in Sessions : attach[s] # None =>
        state[s] = "live" /\ pc[attach[s]] = "loop" /\ of[attach[s]] = s

(* An old connection that ends late does not take the session from the     *)
(* newer one: a sink is replaced, or dropped by its own handler, or goes   *)
(* with the session.                                                       *)
NewestKeepsSession ==
    [][\A s \in Sessions :
         attach[s] # None /\ attach'[s] = None =>
            pc'[attach[s]] = "schedule" \/ state'[s] # "live"]_serverVars

(* A shell that nobody is attached to is attached to again or ends         *)
(* (sessions.go: idle sessions are destroyed after sessionIdleTTL).        *)
IdleEnds ==
    \A s \in Sessions :
        (state[s] = "live" /\ attach[s] = None) ~> (state[s] # "live" \/ attach[s] # None)

(* The inductive invariant: a handler past its Create has a session that   *)
(* was born, and the sink and somebody's care as above.                    *)
HandlersOK ==
    \A c \in Conns : pc[c] \in {"attach", "loop", "schedule"} =>
        of[c] \in Sessions /\ state[of[c]] # "unborn"

ServerInv ==
    ServerTypeOK /\ HandlersOK /\ SinkIsServed /\ NobodyForgotten

=============================================================================
