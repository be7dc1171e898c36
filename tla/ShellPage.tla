----------------------------- MODULE ShellPage ------------------------------
(***************************************************************************)
(* The cloud shell in the browser (frontend/src/components/cloudshell): a  *)
(* page with a tab per shell, of which only the active one is mounted and  *)
(* holds a socket, in front of ShellServer.  Other pages (the popped-out   *)
(* /shell) appear as sockets of their own that resume a session.           *)
(*                                                                         *)
(* A change of the store and the effects it causes are one step: updates   *)
(* of the store render synchronously, and the terminal's effect hangs up   *)
(* and dials again in the same task when its session id or reconnectToken  *)
(* changed.  Tabs lose their order: where the code takes the first or the  *)
(* last one, any one is taken.  Sizes, titles and what is typed are left   *)
(* out.                                                                    *)
(***************************************************************************)
EXTENDS ShellServer

CONSTANTS
    Others,         \* those of Conns that other pages open
    Tabs,           \* ids of tabs made by newTab, reused once closed
    MaxTabs,        \* bound of the model on the tabs that are open
    MaxTries,       \* RECONNECT_MAX_ATTEMPTS
    MaxEvents       \* bound of the model on what users and faults do

ASSUME PageAssumption ==
    /\ Others \subseteq Conns
    /\ Tabs \cap Sessions = {} /\ None \notin Tabs
    /\ Tabs # {} /\ \A t \in Tabs : Tabs # {t}
    /\ MaxTabs \in Nat /\ MaxTries \in Nat /\ MaxEvents \in Nat

VARIABLES
    open,       \* the shell is shown
    tabs,       \* id -> sessionId, for the tabs there are
    active,     \* activeTabId
    term,       \* the mounted terminal: liveSessionId, shellExited, ...
    ws,         \* its socket
    events      \* of the model: how much users and faults have done

tabVars == <<open, tabs, active>>
pageVars == <<open, tabs, active, term, ws>>
vars == <<serverVars, pageVars, events>>

(* A tab that came from the server's list is named after its session.      *)
TabIds == Tabs \cup Sessions
Ids    == Sessions \cup {None}
TabMaps == UNION {[T -> Ids] : T \in (SUBSET TabIds) \ {{}}}
Terms  == [live : Ids, exited : BOOLEAN, tries : 0..MaxTries, timer : BOOLEAN]

ASSUME TermAssumption == None \notin Terms

Mounted(id) == [live |-> id, exited |-> FALSE, tries |-> 0, timer |-> FALSE]

Init ==
    /\ ServerInit
    /\ open \in BOOLEAN
    /\ active = CHOOSE t \in Tabs : TRUE
    /\ tabs = [t \in {active} |-> None]
    /\ term = None /\ ws = None
    /\ events = 0

-----------------------------------------------------------------------------
(* connect: whatever socket there was is dropped before another opens.     *)
Connect(s) ==
    LET free == {c \in Conns \ Others : pc[c] = "free"}
        c == CHOOSE d \in free : TRUE
    IN  /\ free # {}
        /\ Dial(c, s, ws, "own")
        /\ ws' = c

Unplug ==
    /\ ws' = None
    /\ IF ws = None THEN UNCHANGED connVars ELSE HangUp(ws)

(* The effect of the terminal: clean up, then connect to the session of    *)
(* the active tab.                                                         *)
Mount(ts, t) ==
    /\ term' = Mounted(ts[t])
    /\ Connect(ts[t])

Unmount == term' = None /\ Unplug

(* Faulty: the effect does not depend on the session id.                   *)
RemountOnTab(ts, t) ==
    IF term # None /\ t # active
      THEN Mount(ts, t)
      ELSE UNCHANGED <<term, ws, connVars>>

(* The terminal is mounted anew only when what it depends on changed.      *)
Remount(ts, t) ==
    IF term # None /\ (t # active \/ ts[t] # tabs[active])
      THEN Mount(ts, t)
      ELSE UNCHANGED <<term, ws, connVars>>

-----------------------------------------------------------------------------
(* The page was loaded with the shell open.                                *)
FirstMount ==
    /\ open /\ term = None
    /\ Mount(tabs, active)
    /\ UNCHANGED <<tabVars, sessVars, restVars>>

(* The user.                                                               *)

OpenShell ==
    /\ ~open
    /\ open' = TRUE
    /\ Mount(tabs, active)
    /\ UNCHANGED <<tabs, active, sessVars, restVars>>

CloseShell ==
    /\ term # None
    /\ open' = FALSE
    /\ Unmount
    /\ UNCHANGED <<tabs, active, sessVars, restVars>>

NewTab == CHOOSE t \in Tabs : t \notin DOMAIN tabs

AddTab ==
    /\ term # None
    /\ Cardinality(DOMAIN tabs) < MaxTabs /\ ~(Tabs \subseteq DOMAIN tabs)
    /\ tabs' = [u \in DOMAIN tabs \cup {NewTab} |->
                   IF u = NewTab THEN None ELSE tabs[u]]
    /\ active' = NewTab
    /\ Mount(tabs', active')
    /\ UNCHANGED <<open, sessVars, restVars>>

(* killSessionQuiet: without waiting, and not at all without an id.        *)
KillQuiet(s) == kills' = IF s = None THEN kills ELSE kills \cup {s}

CloseTab(t) ==
    /\ term # None /\ t \in DOMAIN tabs
    /\ KillQuiet(tabs[t])
    /\ IF DOMAIN tabs = {t}
         THEN /\ tabs' = [u \in {NewTab} |-> None]
              /\ active' = NewTab
              /\ open' = FALSE
              /\ Unmount
         ELSE /\ tabs' = [u \in DOMAIN tabs \ {t} |-> tabs[u]]
              /\ active' \in IF active = t THEN DOMAIN tabs' ELSE {active}
              /\ Remount(tabs', active')
              /\ UNCHANGED open
    /\ UNCHANGED <<sessVars, listing>>

SelectTab(t) ==
    /\ term # None /\ t \in DOMAIN tabs \ {active}
    /\ active' = t
    /\ Mount(tabs, t)
    /\ UNCHANGED <<open, tabs, sessVars, restVars>>

Reconnect ==
    /\ term # None
    /\ Mount(tabs, active)
    /\ UNCHANGED <<tabVars, sessVars, restVars>>

NewShell ==
    /\ term # None
    /\ KillQuiet(tabs[active])
    /\ tabs' = [tabs EXCEPT ![active] = None]
    /\ Mount(tabs', active)
    /\ UNCHANGED <<open, active, sessVars, listing>>

(* A full reload: tabs come back from localStorage, the list is asked for  *)
(* again; the answer to the former request finds nobody.                   *)
Reload ==
    /\ IF term # None THEN Mount(tabs, active) ELSE UNCHANGED <<term, ws, connVars>>
    /\ listing' = [phase |-> "sent", ids |-> {}]
    /\ UNCHANGED <<tabVars, sessVars, kills>>

-----------------------------------------------------------------------------
(* The socket's events.                                                    *)

Arrives(m) ==
    /\ ws # None /\ inbox[ws] # <<>> /\ Head(inbox[ws]) = m
    /\ UNCHANGED <<sessVars, restVars>>

(* Faulty: every tab gets the id.                                          *)
GetReadyEverywhere ==
    /\ Arrives("ready")
    /\ tabs' = [t \in DOMAIN tabs |-> of[ws]]
    /\ IF tabs[active] = of[ws]
         THEN /\ term' = [term EXCEPT !.live = of[ws], !.tries = 0]
              /\ Receive(ws)
              /\ UNCHANGED ws
         ELSE Mount(tabs', active)
    /\ UNCHANGED <<open, active>>

(* "ready": setTabSessionId, which mounts the terminal anew with the id    *)
(* when the tab did not know it: a new shell is dialled twice.             *)
GetReady ==
    /\ Arrives("ready")
    /\ tabs' = [tabs EXCEPT ![active] = of[ws]]
    /\ IF tabs[active] = of[ws]
         THEN /\ term' = [term EXCEPT !.live = of[ws], !.tries = 0]
              /\ Receive(ws)
              /\ UNCHANGED ws
         ELSE Mount(tabs', active)
    /\ UNCHANGED <<open, active>>

(* SESSION_NOT_FOUND: clearTabSession, and a fresh mount without an id.    *)
GetNotFound ==
    /\ Arrives("notfound")
    /\ tabs' = [tabs EXCEPT ![active] = None]
    /\ Mount(tabs', active)
    /\ UNCHANGED <<open, active>>

(* Any other error: the close that follows it is acted on.                 *)
GetError ==
    /\ Arrives("error")
    /\ Receive(ws)
    /\ UNCHANGED pageVars

GetExit ==
    /\ Arrives("exit")
    /\ term' = [term EXCEPT !.exited = TRUE, !.timer = FALSE]
    /\ Receive(ws)
    /\ UNCHANGED <<tabVars, ws>>

(* Faulty: attempts are counted and never run out.                         *)
SocketClosesForever ==
    /\ ws # None
    /\ link[ws] = "broken" \/ (pc[ws] = "done" /\ inbox[ws] = <<>>)
    /\ Unplug
    /\ term' = IF term.exited THEN term
               ELSE [term EXCEPT !.tries = @ + 1, !.timer = TRUE]
    /\ UNCHANGED <<tabVars, sessVars, restVars>>

(* onclose and scheduleReconnect, up to MaxTries in a row.                 *)
SocketCloses ==
    /\ ws # None
    /\ link[ws] = "broken" \/ (pc[ws] = "done" /\ inbox[ws] = <<>>)
    /\ Unplug
    /\ term' = IF term.exited \/ term.tries >= MaxTries THEN term
               ELSE [term EXCEPT !.tries = @ + 1, !.timer = TRUE]
    /\ UNCHANGED <<tabVars, sessVars, restVars>>

Retry ==
    /\ term # None /\ term.timer
    /\ Connect(term.live)
    /\ term' = [term EXCEPT !.timer = FALSE]
    /\ UNCHANGED <<tabVars, sessVars, restVars>>

(* Faulty: the pending retry is not cancelled.                             *)
OnlineKeepsTimer ==
    /\ term # None /\ ~term.exited
    /\ ws # None => pc[ws] = "accept"
    /\ Connect(term.live)
    /\ term' = [term EXCEPT !.tries = IF @ > 1 THEN 1 ELSE @]
    /\ UNCHANGED <<tabVars, sessVars, restVars>>

(* The network or the browser tab comes back: dial unless the socket is    *)
(* open.                                                                   *)
Online ==
    /\ term # None /\ ~term.exited
    /\ ws # None => pc[ws] = "accept"
    /\ Connect(term.live)
    /\ term' = [term EXCEPT !.timer = FALSE,
                            !.tries = IF @ > 1 THEN 1 ELSE @]
    /\ UNCHANGED <<tabVars, sessVars, restVars>>

-----------------------------------------------------------------------------
(* hydrateFromServer: one tab per session of the answer, or, without any,  *)
(* the tabs there are without their ids.  A list that fails changes        *)
(* nothing, as one that never arrives.                                     *)
Hydrate ==
    /\ listing.phase = "answered"
    /\ listing' = [listing EXCEPT !.phase = "idle", !.ids = {}]
    /\ IF listing.ids = {}
         THEN /\ tabs' = [t \in DOMAIN tabs |-> None]
              /\ active' = active
         ELSE /\ tabs' = [s \in listing.ids |-> s]
              /\ active' \in IF active \in listing.ids THEN {active} ELSE listing.ids
    /\ Remount(tabs', active')
    /\ UNCHANGED <<open, sessVars, kills>>

(* Another page opens, or resumes, a session the server has.               *)
OtherDials(c, s) ==
    /\ s \in Live
    /\ Dial(c, s, None, "other")
    /\ UNCHANGED <<sessVars, restVars, pageVars>>

-----------------------------------------------------------------------------
User ==
    \/ OpenShell
    \/ CloseShell
    \/ AddTab
    \/ \E t \in TabIds : CloseTab(t) \/ SelectTab(t)
    \/ Reconnect
    \/ NewShell
    \/ Reload

Socket ==
    \/ GetReady
    \/ GetNotFound
    \/ GetError
    \/ GetExit
    \/ SocketCloses

Event == events < MaxEvents /\ events' = events + 1

Next ==
    \/ /\ Event
       /\ \/ Disturbance /\ UNCHANGED pageVars
          \/ \E c \in Others, s \in Sessions : OtherDials(c, s)
          \/ User
          \/ Online
          \/ Hydrate
    \/ /\ UNCHANGED events
       /\ \/ Work /\ UNCHANGED pageVars
          \/ Socket
          \/ FirstMount
          \/ Retry

Spec == Init /\ [][Next]_vars

(***************************************************************************)
(* Handlers, timers and goroutines of the server run; a socket's messages  *)
(* and its close are delivered; the event loop fires the retry timer.      *)
(***************************************************************************)
Fairness ==
    /\ \A c \in Conns :
          WF_vars(Handle(c) /\ UNCHANGED <<pageVars, events>>)
    /\ \A s \in Sessions :
          /\ WF_vars(Reap(s) /\ UNCHANGED <<pageVars, events>>)
          /\ WF_vars(TimerFires(s) /\ UNCHANGED <<pageVars, events>>)
    /\ WF_vars(Socket /\ UNCHANGED events)
    /\ WF_vars((FirstMount \/ Retry) /\ UNCHANGED events)

FairSpec == Spec /\ Fairness

-----------------------------------------------------------------------------
(* Types of all variables.                                                 *)
TypeOK ==
    /\ ServerTypeOK
    /\ open \in BOOLEAN
    /\ tabs \in TabMaps
    /\ active \in DOMAIN tabs
    /\ term \in Terms \cup {None}
    /\ ws \in Conns \cup {None}
    /\ events \in 0..MaxEvents

(* No two tabs show the same shell, whatever lists, new shells and late    *)
(* answers replace their ids.                                              *)
TabsDistinct ==
    \A t, u \in DOMAIN tabs : tabs[t] = tabs[u] /\ tabs[t] # None => t = u

(* The terminal resumes what its tab shows, and once it was told "ready"   *)
(* the server's handler at the other end of its socket serves that shell:  *)
(* what the user types goes to the shell whose tab is active.              *)
Told == "ready" \notin {inbox[ws][i] : i \in 1..Len(inbox[ws])}

ServesActiveTab ==
    term # None =>
        /\ term.live = tabs[active]
        /\ ws # None /\ pc[ws] = "loop" /\ link[ws] = "own" /\ Told =>
              of[ws] = tabs[active]

(* A terminal without a socket has a retry ahead, or the shell exited, or  *)
(* it used up its attempts and says so: it never just stops.               *)
RetryAhead ==
    /\ term # None => open
    /\ term # None /\ ws = None =>
          term.timer \/ term.exited \/ term.tries >= MaxTries
    /\ term # None /\ term.timer => ws = None

(* A socket does not hang: it comes to serve the terminal, or is closed or *)
(* replaced.                                                               *)
SocketAnswered ==
    \A c \in Conns :
        ws = c ~> (ws # c \/ (pc[c] = "loop" /\ inbox[c] = <<>>))

(* A shell that the page asks the server to end is the one of the tab that *)
(* is closed or made new, and afterwards the page shows it nowhere: no     *)
(* other tab has its id, and neither the terminal nor its socket, which    *)
(* may be one step ahead of the tab it serves, belongs to it.              *)
KillsWhatItDrops ==
    [][\A s \in kills' \ kills :
         /\ \E t \in DOMAIN tabs : tabs[t] = s
         /\ \A t \in DOMAIN tabs' : tabs'[t] # s
         /\ term' # None => term'.live # s
         /\ ws' # None => of'[ws'] # s]_vars

(* The inductive invariant: the page listens to its socket until it drops  *)
(* it; tabs and lists know only shells that were created; a socket serves  *)
(* the shell of the active tab, or one just created that no tab has yet.   *)
SocketHeard ==
    ws # None => term # None /\ Heard(ws) /\ pc[ws] # "free" /\ ws \notin Others

NoneUnborn ==
    /\ \A t \in DOMAIN tabs : tabs[t] \notin Unborn
    /\ listing.ids \cap Unborn = {}
    /\ ws # None => of[ws] \notin Unborn

OwnShell ==
    ws # None /\ of[ws] # tabs[active] =>
        tabs[active] = None /\ \A t \in DOMAIN tabs : tabs[t] # of[ws]

PageInv ==
    /\ TypeOK /\ ServerInv
    /\ SocketHeard /\ NoneUnborn /\ OwnShell
    /\ TabsDistinct /\ ServesActiveTab /\ RetryAhead

=============================================================================
