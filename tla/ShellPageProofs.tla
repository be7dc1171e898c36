--------------------------- MODULE ShellPageProofs --------------------------
(***************************************************************************)
(* Proofs about ShellPage: the page with its socket implements the client  *)
(* of ShellServer, so what holds there holds behind it; and whatever users *)
(* and faults do, tabs, terminal and socket agree.                         *)
(***************************************************************************)
EXTENDS ShellPage, ShellServerProofs

(* "ready" is under way to the page.                                       *)
HasReady(c) == "ready" \in {inbox[c][i] : i \in 1..Len(inbox[c])}

(* What a message behind others, and a message read, leave in an inbox.    *)
LEMMA AppendKeeps ==
  ASSUME NEW q \in Seq(Messages), NEW m \in Messages
  PROVE  /\ {q[i] : i \in 1..Len(q)} \subseteq
                {Append(q, m)[i] : i \in 1..Len(Append(q, m))}
         /\ m \in {Append(q, m)[i] : i \in 1..Len(Append(q, m))}
<1> DEFINE r == Append(q, m)
<1>1. /\ Len(r) = Len(q) + 1 /\ Len(q) \in Nat
      /\ \A i \in 1..Len(q) : r[i] = q[i]
      /\ r[Len(q) + 1] = m
  OBVIOUS
<1> HIDE DEF r
<1>2. m \in {r[i] : i \in 1..Len(r)}
  BY <1>1
<1>3. \A i \in 1..Len(q) : i \in 1..Len(r) /\ r[i] = q[i]
  BY <1>1
<1>4. {q[i] : i \in 1..Len(q)} \subseteq {r[i] : i \in 1..Len(r)}
  BY <1>3
<1> QED
  BY <1>2, <1>4 DEF r

LEMMA TailKeeps ==
  ASSUME NEW q \in Seq(Messages), q # <<>>
  PROVE  \A m \in {q[i] : i \in 1..Len(q)} :
            m = Head(q) \/ m \in {Tail(q)[i] : i \in 1..Len(Tail(q))}
<1> DEFINE r == Tail(q)
<1>1. /\ Len(q) \in Nat /\ Len(r) = Len(q) - 1 /\ Head(q) = q[1]
      /\ \A i \in 1..Len(r) : r[i] = q[i + 1]
  OBVIOUS
<1> HIDE DEF r
<1>2. ASSUME NEW i \in 1..Len(q), q[i] # Head(q)
      PROVE  q[i] \in {r[j] : j \in 1..Len(r)}
  <2>1. i # 1 /\ i - 1 \in 1..Len(r)
    BY <1>1, <1>2
  <2>2. r[i - 1] = q[i]
    BY <1>1, <2>1
  <2> QED
    BY <2>1, <2>2
<1>3. \A m \in {q[i] : i \in 1..Len(q)} : m = Head(q) \/ m \in {r[j] : j \in 1..Len(r)}
  BY <1>2
<1> QED
  BY <1>3 DEF r

LEMMA SendKeeps ==
  ASSUME ServerTypeOK, NEW d \in Conns, NEW m \in Messages, Send(d, m),
         NEW c \in Conns
  PROVE  /\ HasReady(c) => HasReady(c)'
         /\ c = d /\ link[c] = "own" /\ m = "ready" => HasReady(c)'
<1>1. inbox[c] \in Seq(Messages) /\ inbox'[c] \in {inbox[c], Append(inbox[c], m)}
  BY DEF Send, ServerTypeOK
<1>2. c = d /\ link[c] = "own" => inbox'[c] = Append(inbox[c], m)
  BY DEF Send, ServerTypeOK
<1>3. CASE inbox'[c] = inbox[c]
  <2>1. HasReady(c) => HasReady(c)'
    BY <1>3 DEF HasReady
  <2>2. CASE c = d /\ link[c] = "own"
    BY <1>1, <1>2, <2>1, <2>2, AppendKeeps DEF HasReady
  <2> QED
    BY <2>1, <2>2
<1>4. CASE inbox'[c] = Append(inbox[c], m)
  BY <1>1, <1>4, AppendKeeps DEF HasReady
<1> QED
  BY <1>1, <1>3, <1>4

LEMMA ReturnKeeps ==
  ASSUME ServerTypeOK, NEW d \in Conns, Return(d),
         NEW c \in Conns, Heard(c)
  PROVE  /\ pc'[c] = pc[c] \/ (c = d /\ pc'[c] = "done")
         /\ of'[c] = of[c] /\ link'[c] = link[c]
BY DEF Return, Go, Heard, ServerTypeOK

(* What the server does to a connection that the page listens to: its      *)
(* handler is not forgotten, it is given at most a shell just created, and *)
(* it comes to serve only with "ready" sent.                               *)
SameEnd(c) ==
    /\ Heard(c)' /\ pc'[c] # "free"
    /\ of'[c] = of[c] \/ (of[c] = None /\ of'[c] \in Unborn \ Unborn')
    /\ HasReady(c) => HasReady(c)'
    /\ pc'[c] = "loop" /\ link'[c] = "own" =>
          HasReady(c)' \/ (pc[c] = "loop" /\ link[c] = "own" /\ of'[c] = of[c])

LEMMA ServerKeepsSocket ==
  ASSUME ServerTypeOK, Work \/ Disturbance,
         NEW e \in Conns, Heard(e), pc[e] # "free"
  PROVE  SameEnd(e)
<1> USE DEF sessVars, connVars, restVars
<1>0. ASSUME UNCHANGED <<pc, of, link, inbox>> PROVE SameEnd(e)
  BY <1>0 DEF SameEnd, Heard, HasReady
<1>r. ASSUME NEW c \in Conns, Return(c), HasReady(e) => HasReady(e)' PROVE SameEnd(e)
  BY <1>r, ReturnKeeps DEF SameEnd, Heard
<1>i. ASSUME UNCHANGED inbox PROVE HasReady(e) => HasReady(e)'
  BY <1>i DEF HasReady
<1>1. ASSUME NEW c \in Conns, NeverAccepted(c) PROVE SameEnd(e)
  BY <1>1, <1>i, <1>r DEF NeverAccepted
<1>2. ASSUME NEW c \in Conns, Resume(c) PROVE SameEnd(e)
  <2>1. CASE Go(c, "attach") /\ UNCHANGED <<of, link, inbox>>
    BY <1>2, <1>i, <2>1 DEF Go, SameEnd, Heard, ServerTypeOK
  <2>2. CASE Return(c) /\ Send(c, "notfound")
    BY <2>2, <1>r, SendKeeps DEF Messages
  <2> QED
    BY <1>2, <2>1, <2>2 DEF Resume
<1>3. ASSUME NEW c \in Conns, Create(c) PROVE SameEnd(e)
  <2>1. /\ pc' = [pc EXCEPT ![c] = "attach"] /\ UNCHANGED <<link, inbox>>
        /\ \E s \in Unborn : of' = [of EXCEPT ![c] = s] /\ state'[s] = "live"
        /\ of[c] = None
    BY <1>3 DEF Create, Go, Unborn, ServerTypeOK
  <2>2. of'[e] = of[e] \/ (of[e] = None /\ of'[e] \in Unborn \ Unborn')
    BY <2>1 DEF ServerTypeOK, Unborn
  <2>3. pc'[e] \in {pc[e], "attach"} /\ (pc'[e] = "loop" => of'[e] = of[e])
    BY <2>1 DEF ServerTypeOK
  <2> QED
    BY <2>1, <2>2, <2>3, <1>i DEF SameEnd, Heard
<1>4. ASSUME NEW c \in Conns, CreateFails(c) PROVE SameEnd(e)
  BY <1>4, <1>r, SendKeeps DEF CreateFails, Messages
<1>5. ASSUME NEW c \in Conns, Attach(c) PROVE SameEnd(e)
  <2>1. CASE of[c] \in Live
    <3>1. /\ Send(c, "ready") /\ pc' = [pc EXCEPT ![c] = "loop"]
          /\ UNCHANGED <<of, link>>
      BY <1>5, <2>1 DEF Attach, Go
    <3>2. /\ HasReady(e) => HasReady(e)'
          /\ c = e /\ link[e] = "own" => HasReady(e)'
      BY <3>1, SendKeeps DEF Messages
    <3> QED
      BY <3>1, <3>2 DEF SameEnd, Heard, ServerTypeOK
  <2>2. CASE of[c] \notin Live
    BY <1>5, <2>2, <1>r, SendKeeps DEF Attach, Messages
  <2> QED
    BY <2>1, <2>2
<1>6. ASSUME NEW c \in Conns, Detach(c) PROVE SameEnd(e)
  <2>1. CASE attach[of[c]] = c
    <3>1. pc' = [pc EXCEPT ![c] = "schedule"] /\ UNCHANGED <<of, link, inbox>>
      BY <1>6, <2>1 DEF Detach, Go
    <3> QED
      BY <3>1, <1>i DEF SameEnd, Heard, ServerTypeOK
  <2>2. CASE attach[of[c]] # c
    BY <1>6, <2>2, <1>i, <1>r DEF Detach
  <2> QED
    BY <2>1, <2>2
<1>7. ASSUME NEW c \in Conns, ScheduleIdle(c) PROVE SameEnd(e)
  BY <1>7, <1>i, <1>r DEF ScheduleIdle
<1>8. ASSUME NEW c \in Conns, Cut(c) PROVE SameEnd(e)
  <2>1. /\ UNCHANGED <<pc, of, inbox>>
        /\ link' = [link EXCEPT ![c] = IF @ = "own" THEN "broken" ELSE "closed"]
        /\ link[c] \in {"own", "other"}
    BY <1>8 DEF Cut
  <2>2. link'[e] = link[e] \/ (link[e] = "own" /\ link'[e] = "broken")
    BY <2>1 DEF Heard, ServerTypeOK
  <2> QED
    BY <2>1, <2>2, <1>i DEF SameEnd, Heard
<1>9. ASSUME NEW s \in Sessions, Reap(s) \/ TimerFires(s) \/ Kill(s) PROVE SameEnd(e)
  BY <1>9, <1>0 DEF Reap, TimerFires, Kill
<1>10. ASSUME NEW s \in Sessions, ShellExits(s) PROVE SameEnd(e)
  <2>1. CASE attach[s] = None
    BY <1>10, <2>1, <1>0 DEF ShellExits
  <2>2. CASE attach[s] # None
    <3>1. Send(attach[s], "exit") /\ UNCHANGED <<pc, of, link>> /\ attach[s] \in Conns
      BY <1>10, <2>2 DEF ShellExits, ServerTypeOK
    <3>2. HasReady(e) => HasReady(e)'
      BY <3>1, SendKeeps DEF Messages
    <3> QED
      BY <3>1, <3>2 DEF SameEnd, Heard
  <2> QED
    BY <2>1, <2>2
<1>11. ASSUME ListAnswers PROVE SameEnd(e)
  BY <1>11, <1>0 DEF ListAnswers
<1>12. ASSUME Restart PROVE SameEnd(e)
  <2>1. pc'[e] = "done" /\ of'[e] = of[e] /\ link'[e] = "broken" /\ UNCHANGED inbox
    BY <1>12 DEF Restart
  <2> QED
    BY <2>1, <1>i DEF SameEnd, Heard
<1> QED
  BY <1>1, <1>2, <1>3, <1>4, <1>5, <1>6, <1>7, <1>8, <1>9, <1>10, <1>11, <1>12
  DEF Work, Handle, Disturbance

LEMMA UnbornShrinks ==
  ASSUME ServerTypeOK, Work \/ Disturbance \/ UNCHANGED sessVars
  PROVE  Unborn' \subseteq Unborn
<1> USE DEF sessVars, Unborn, Destroy, ServerTypeOK
<1>1. ASSUME NEW c \in Conns, Handle(c) \/ Cut(c) PROVE Unborn' \subseteq Unborn
  <2>1. CASE Create(c)
    BY <2>1 DEF Create
  <2>2. CASE ~Create(c)
    <3>1. UNCHANGED state
      BY <1>1, <2>2 DEF Handle, NeverAccepted, Resume, CreateFails, Attach, Detach,
                        ScheduleIdle, Cut
    <3> QED
      BY <3>1
  <2> QED
    BY <2>1, <2>2
<1>2. ASSUME NEW s \in Sessions, Reap(s) PROVE Unborn' \subseteq Unborn
  BY <1>2 DEF Reap
<1>3. ASSUME NEW s \in Sessions, Kill(s) PROVE Unborn' \subseteq Unborn
  <2>1. CASE s \in Live
    BY <1>3, <2>1 DEF Kill
  <2>2. CASE s \notin Live
    BY <1>3, <2>2 DEF Kill
  <2> QED
    BY <2>1, <2>2
<1>4. CASE Restart
  BY <1>4 DEF Restart
<1>5. ASSUME UNCHANGED state PROVE Unborn' \subseteq Unborn
  BY <1>5
<1>6. ASSUME NEW s \in Sessions, TimerFires(s) \/ ShellExits(s) PROVE UNCHANGED state
  BY <1>6 DEF TimerFires, ShellExits
<1>7. CASE ListAnswers
  BY <1>5, <1>7 DEF ListAnswers
<1> QED
  BY <1>1, <1>2, <1>3, <1>4, <1>5, <1>6, <1>7 DEF Work, Disturbance

-----------------------------------------------------------------------------
(* What the page does to its connections.                                  *)

LEMMA ConnectEffect ==
  ASSUME TypeOK, SocketHeard, NEW s \in Ids, Connect(s)
  PROVE  /\ ws' \in Conns \ Others /\ ws' # ws
         /\ Dial(ws', s, ws, "own")
         /\ pc'[ws'] = "accept" /\ of'[ws'] = s
         /\ link'[ws'] = "own" /\ inbox'[ws'] = <<>>
<1>1. ws' \in Conns \ Others /\ pc[ws'] = "free" /\ Dial(ws', s, ws, "own")
  BY DEF Connect
<1>2. ws' # ws
  BY <1>1, NoneAssumption DEF SocketHeard
<1> QED
  BY <1>1, <1>2 DEF Dial, TypeOK, ServerTypeOK

(* Every move of the page is one of ShellServer's clients.                 *)
Moves ==
    \/ \E s \in Ids : Connect(s)
    \/ Unplug
    \/ ws # None /\ Receive(ws)
    \/ UNCHANGED connVars

LEMMA MovesAreClients ==
  ASSUME TypeOK, SocketHeard, Moves, UNCHANGED sessVars,
         listing' \in Listings, kills' \in SUBSET Sessions
  PROVE  ClientStep
<1>1. ASSUME NEW s \in Ids, Connect(s) PROVE ClientStep
  <2>1. Dial(ws', s, ws, "own") /\ ws' \in Conns /\ ws' # ws
    BY <1>1, ConnectEffect
  <2> QED
    BY <2>1 DEF ClientStep, TypeOK, Ids
<1>2. CASE Unplug
  BY <1>2 DEF Unplug, ClientStep, TypeOK, SocketHeard
<1>3. CASE ws # None /\ Receive(ws)
  BY <1>3 DEF ClientStep, TypeOK, SocketHeard
<1>4. CASE UNCHANGED connVars
  BY <1>4 DEF ClientStep
<1> QED
  BY <1>1, <1>2, <1>3, <1>4 DEF Moves

LEMMA TabTypes ==
  ASSUME TypeOK
  PROVE  /\ tabs = [t \in DOMAIN tabs |-> tabs[t]]
         /\ DOMAIN tabs \in SUBSET TabIds
         /\ active \in DOMAIN tabs
         /\ \A t \in DOMAIN tabs : tabs[t] \in Ids
         /\ term # None => term \in Terms /\ term.live \in Ids
         /\ listing.ids \in SUBSET Sessions
         /\ ws # None => of[ws] \in Ids
BY DEF TypeOK, TabMaps, Terms, ServerTypeOK, Listings, Ids

LEMMA TabMapsIntro ==
  ASSUME NEW T \in SUBSET TabIds, T # {}, NEW f \in [T -> Ids]
  PROVE  f \in TabMaps
<1>1. T \in (SUBSET TabIds) \ {{}}
  OBVIOUS
<1>2. [T -> Ids] \in {[U -> Ids] : U \in (SUBSET TabIds) \ {{}}}
  BY <1>1
<1> QED
  BY <1>2, Zenon DEF TabMaps

-----------------------------------------------------------------------------
(* Tabs.  They hold distinct shells that were created.                     *)
TabsGood ==
    /\ open \in BOOLEAN
    /\ tabs \in TabMaps
    /\ active \in DOMAIN tabs
    /\ TabsDistinct
    /\ \A t \in DOMAIN tabs : tabs[t] \notin Unborn

PageStep ==
    \/ User \/ Socket \/ FirstMount \/ Retry \/ Online \/ Hydrate

LEMMA TabsGoodIntro ==
  ASSUME NEW D \in SUBSET TabIds, NEW ids, NEW f, f = [u \in D |-> ids[u]],
         tabs' = f, active' \in D, open' \in BOOLEAN,
         \A u \in D : ids[u] \in Ids /\ ids[u] \notin Unborn',
         \A u, v \in D : ids[u] = ids[v] /\ ids[u] # None => u = v
  PROVE  TabsGood'
<1>1. f \in [D -> Ids] /\ DOMAIN f = D /\ D # {} /\ \A u \in D : f[u] = ids[u]
  OBVIOUS
<1>2. f \in TabMaps
  BY <1>1, TabMapsIntro
<1> HIDE DEF TabMaps
<1>3. TabsDistinct'
  BY <1>1 DEF TabsDistinct
<1> QED
  BY <1>1, <1>2, <1>3 DEF TabsGood

(* The shells of the tabs after "newTab" or a cleared session.             *)
LEMMA TabsStep ==
  ASSUME PageInv, PageStep
  PROVE  /\ TabsGood'
         /\ UNCHANGED sessVars /\ listing' \in Listings /\ kills' \in SUBSET Sessions
         /\ listing'.ids \cap Unborn = {}
<1> DEFINE Good ==
       /\ TabsGood'
       /\ UNCHANGED sessVars /\ listing' \in Listings /\ kills' \in SUBSET Sessions
       /\ listing'.ids \cap Unborn = {}
<1>t. /\ tabs = [t \in DOMAIN tabs |-> tabs[t]]
      /\ DOMAIN tabs \in SUBSET TabIds /\ active \in DOMAIN tabs
      /\ \A t \in DOMAIN tabs : tabs[t] \in Ids
      /\ listing.ids \in SUBSET Sessions
  BY TabTypes DEF PageInv
<1>d. \A u, v \in DOMAIN tabs : tabs[u] = tabs[v] /\ tabs[u] # None => u = v
  BY DEF PageInv, TabsDistinct
<1>b. /\ \A t \in DOMAIN tabs : tabs[t] \notin Unborn
      /\ listing.ids \cap Unborn = {}
      /\ None \notin Unborn
  BY NoneAssumption DEF PageInv, NoneUnborn, Unborn
<1>u. UNCHANGED sessVars => Unborn' = Unborn
  BY DEF sessVars, Unborn
<1>o. /\ open \in BOOLEAN /\ tabs \in TabMaps
      /\ listing \in Listings /\ kills \in SUBSET Sessions
  BY DEF PageInv, TypeOK, ServerTypeOK
<1>g. TabsGood
  BY <1>t, <1>b, <1>o DEF TabsGood, PageInv
<1>n. None \in Ids
  BY DEF Ids
<1>0. ASSUME UNCHANGED <<tabs, active>>, open' \in BOOLEAN, UNCHANGED sessVars,
             listing' \in {listing, [phase |-> "sent", ids |-> {}]}, UNCHANGED kills
      PROVE  Good
  <2>1. TabsGood'
    BY <1>0, <1>g, <1>u DEF TabsGood, TabsDistinct
  <2>2. listing' \in Listings /\ listing'.ids \cap Unborn = {}
    BY <1>0, <1>o, <1>b DEF Listings
  <2> QED
    BY <1>0, <1>o, <2>1, <2>2
<1>k. ASSUME NEW s \in Ids, KillQuiet(s) PROVE kills' \in SUBSET Sessions
  BY <1>k, <1>o DEF KillQuiet, Ids
<1>c. ASSUME tabs' = [tabs EXCEPT ![active] = None], active' = active, open' \in BOOLEAN,
             UNCHANGED <<sessVars, listing>>, kills' \in SUBSET Sessions
      PROVE  Good
  <2> DEFINE ids == [u \in DOMAIN tabs |-> IF u = active THEN None ELSE tabs[u]]
  <2>1. tabs' = [u \in DOMAIN tabs |-> ids[u]]
    BY <1>c, <1>t
  <2>2. \A u \in DOMAIN tabs : ids[u] \in Ids /\ ids[u] \notin Unborn'
    BY <1>c, <1>t, <1>b, <1>n, <1>u
  <2>3. \A u, v \in DOMAIN tabs : ids[u] = ids[v] /\ ids[u] # None => u = v
    BY <1>d
  <2> HIDE DEF ids
  <2>4. TabsGood'
    BY <1>t, <1>c, <2>1, <2>2, <2>3, TabsGoodIntro
  <2> QED
    BY <2>4, <1>c, <1>o, <1>b
<1>1. CASE FirstMount \/ CloseShell \/ Reconnect \/ OpenShell \/ Retry \/ Online \/ GetError
            \/ GetExit \/ SocketCloses
  <2>1. UNCHANGED <<tabs, active, sessVars, listing, kills>> /\ open' \in BOOLEAN
    BY <1>1, <1>o DEF FirstMount, CloseShell, Reconnect, OpenShell, Retry, Online, GetError,
       GetExit, SocketCloses, Arrives, tabVars, pageVars, restVars
  <2> QED
    BY <2>1, <1>0
<1>2. CASE Reload
  BY <1>2, <1>0, <1>o DEF Reload, tabVars
<1>3. ASSUME NEW t \in TabIds, SelectTab(t) PROVE Good
  <2>1. /\ t \in DOMAIN tabs /\ active' = t /\ tabs' = tabs
        /\ UNCHANGED <<open, sessVars, listing, kills>>
    BY <1>3 DEF SelectTab, restVars
  <2>2. TabsGood'
    BY <2>1, <1>g, <1>u DEF TabsGood, TabsDistinct
  <2> QED
    BY <2>1, <2>2, <1>o, <1>b
<1>4. CASE NewShell
  <2>1. tabs[active] \in Ids
    BY <1>t
  <2> QED
    BY <1>4, <2>1, <1>k, <1>c, <1>o DEF NewShell
<1>5. CASE GetNotFound
  BY <1>5, <1>c, <1>o DEF GetNotFound, Arrives, restVars
<1>6. CASE GetReady
  <2>1. /\ tabs' = [tabs EXCEPT ![active] = of[ws]] /\ active' = active /\ open' = open
        /\ UNCHANGED <<sessVars, listing, kills>> /\ ws # None
    BY <1>6 DEF GetReady, Arrives, restVars
  <2>2. of[ws] \in Ids /\ of[ws] \notin Unborn
    BY <2>1, TabTypes DEF PageInv, NoneUnborn
  <2>3. of[ws] \in {None, tabs[active]} \/ \A t \in DOMAIN tabs : tabs[t] # of[ws]
    BY <2>1 DEF PageInv, OwnShell
  <2> DEFINE ids == [u \in DOMAIN tabs |-> IF u = active THEN of[ws] ELSE tabs[u]]
  <2>4. tabs' = [u \in DOMAIN tabs |-> ids[u]]
    BY <2>1, <1>t
  <2>5. \A u \in DOMAIN tabs : ids[u] \in Ids /\ ids[u] \notin Unborn'
    BY <2>1, <2>2, <1>t, <1>b, <1>u
  <2>6. \A u, v \in DOMAIN tabs : ids[u] = ids[v] /\ ids[u] # None => u = v
    BY <2>3, <1>d, <1>t
  <2> HIDE DEF ids
  <2>7. TabsGood'
    BY <1>t, <1>o, <2>1, <2>4, <2>5, <2>6, TabsGoodIntro
  <2> QED
    BY <2>1, <2>7, <1>o, <1>b
<1>7. CASE AddTab
  <2>1. NewTab \in Tabs /\ NewTab \notin DOMAIN tabs
    BY <1>7 DEF AddTab, NewTab
  <2> DEFINE D == DOMAIN tabs \cup {NewTab}
  <2> DEFINE ids == [u \in D |-> IF u = NewTab THEN None ELSE tabs[u]]
  <2>2. /\ tabs' = [u \in D |-> ids[u]] /\ active' = NewTab
        /\ UNCHANGED <<open, sessVars, listing, kills>>
    BY <1>7 DEF AddTab, restVars
  <2> HIDE DEF NewTab
  <2>3. \A u \in D : ids[u] \in Ids /\ ids[u] \notin Unborn'
    BY <2>2, <1>t, <1>b, <1>n, <1>u
  <2>4. \A u, v \in D : ids[u] = ids[v] /\ ids[u] # None => u = v
    BY <1>d
  <2>5. D \in SUBSET TabIds /\ NewTab \in D
    BY <2>1, <1>t DEF TabIds
  <2> HIDE DEF D, ids
  <2>6. TabsGood'
    BY <1>o, <2>2, <2>3, <2>4, <2>5, TabsGoodIntro
  <2> QED
    BY <2>2, <2>6, <1>o, <1>b
<1>8. ASSUME NEW t \in TabIds, CloseTab(t) PROVE Good
  <2>1. /\ t \in DOMAIN tabs /\ KillQuiet(tabs[t])
        /\ UNCHANGED <<sessVars, listing>>
    BY <1>8 DEF CloseTab
  <2>2. kills' \in SUBSET Sessions
    BY <2>1, <1>k, <1>t
  <2>3. CASE DOMAIN tabs = {t}
    <3>1. NewTab \in Tabs
      BY <2>3, PageAssumption DEF NewTab
    <3> DEFINE D == {NewTab}
    <3> DEFINE ids == [u \in D |-> None]
    <3>2. tabs' = [u \in D |-> ids[u]] /\ active' = NewTab /\ open' = FALSE
      BY <1>8, <2>3 DEF CloseTab
    <3> HIDE DEF NewTab
    <3>3. \A u \in D : ids[u] \in Ids /\ ids[u] \notin Unborn'
      BY <2>1, <1>b, <1>n, <1>u
    <3>4. \A u, v \in D : ids[u] = ids[v] /\ ids[u] # None => u = v
      OBVIOUS
    <3>5. D \in SUBSET TabIds /\ NewTab \in D
      BY <3>1 DEF TabIds
    <3> HIDE DEF D, ids
    <3>6. TabsGood'
      BY <3>2, <3>3, <3>4, <3>5, TabsGoodIntro
    <3> QED
      BY <2>1, <2>2, <3>6, <1>o, <1>b
  <2>4. CASE DOMAIN tabs # {t}
    <3> DEFINE D == DOMAIN tabs \ {t}
    <3>1. /\ tabs' = [u \in D |-> tabs[u]] /\ open' = open
          /\ active' \in IF active = t THEN DOMAIN tabs' ELSE {active}
      BY <1>8, <2>4 DEF CloseTab
    <3>2. DOMAIN tabs' = D /\ active' \in D
      BY <3>1, <1>t
    <3>3. \A u \in D : tabs[u] \in Ids /\ tabs[u] \notin Unborn'
      BY <2>1, <1>t, <1>b, <1>u
    <3>4. \A u, v \in D : tabs[u] = tabs[v] /\ tabs[u] # None => u = v
      BY <1>d
    <3>5. D \in SUBSET TabIds
      BY <1>t
    <3> HIDE DEF D
    <3>6. TabsGood'
      BY <1>o, <3>1, <3>2, <3>3, <3>4, <3>5, TabsGoodIntro
    <3> QED
      BY <2>1, <2>2, <3>6, <1>o, <1>b
  <2> QED
    BY <2>3, <2>4
<1>9. CASE Hydrate
  <2>1. /\ listing' = [listing EXCEPT !.phase = "idle", !.ids = {}]
        /\ UNCHANGED <<open, sessVars, kills>>
    BY <1>9 DEF Hydrate
  <2>2. listing' \in Listings /\ listing'.ids = {}
    BY <2>1, <1>o DEF Listings
  <2>3. CASE listing.ids = {}
    <3> DEFINE D == DOMAIN tabs
    <3> DEFINE ids == [u \in D |-> None]
    <3>1. tabs' = [u \in D |-> ids[u]] /\ active' = active
      BY <1>9, <2>3 DEF Hydrate
    <3>2. \A u \in D : ids[u] \in Ids /\ ids[u] \notin Unborn'
      BY <2>1, <1>b, <1>n, <1>u
    <3>3. \A u, v \in D : ids[u] = ids[v] /\ ids[u] # None => u = v
      OBVIOUS
    <3> HIDE DEF D, ids
    <3>4. D \in SUBSET TabIds /\ active' \in D
      BY <1>t, <3>1 DEF D
    <3>5. TabsGood'
      BY <1>o, <2>1, <3>1, <3>2, <3>3, <3>4, TabsGoodIntro
    <3> QED
      BY <2>1, <2>2, <3>5, <1>o
  <2>4. CASE listing.ids # {}
    <3> DEFINE D == listing.ids
    <3> DEFINE ids == [u \in D |-> u]
    <3>1. /\ tabs' = [u \in D |-> ids[u]]
          /\ active' \in D
      BY <1>9, <2>4 DEF Hydrate
    <3>2. \A u \in D : ids[u] \in Ids /\ ids[u] \notin Unborn'
      BY <2>1, <1>b, <1>t, <1>u DEF Ids
    <3>3. \A u, v \in D : ids[u] = ids[v] /\ ids[u] # None => u = v
      OBVIOUS
    <3>4. D \in SUBSET TabIds
      BY <1>t DEF TabIds
    <3> HIDE DEF D, ids
    <3>5. TabsGood'
      BY <1>o, <2>1, <3>1, <3>2, <3>3, <3>4, TabsGoodIntro
    <3> QED
      BY <2>1, <2>2, <3>5, <1>o
  <2> QED
    BY <2>3, <2>4
<1> QED
  BY <1>1, <1>2, <1>3, <1>4, <1>5, <1>6, <1>7, <1>8, <1>9 DEF PageStep, User, Socket

-----------------------------------------------------------------------------
(* Terminal and socket.                                                    *)
Serving ==
    ws # None /\ pc[ws] = "loop" /\ link[ws] = "own" =>
        HasReady(ws) \/ of[ws] = tabs[active]

SocketGood ==
    /\ ws \in Conns \cup {None} /\ term \in Terms \cup {None}
    /\ SocketHeard /\ OwnShell /\ RetryAhead
    /\ ws # None => of[ws] \notin Unborn
    /\ term # None => term.live = tabs[active]
    /\ Serving

LEMMA SocketGoodInv == PageInv => SocketGood
BY Zenon DEF PageInv, SocketGood, Serving, ServesActiveTab, Told, HasReady, TypeOK,
   NoneUnborn, SocketHeard

LEMMA TermFields ==
  ASSUME NEW m \in Terms
  PROVE  /\ m # None
         /\ m.live \in Ids /\ m.exited \in BOOLEAN /\ m.timer \in BOOLEAN
         /\ m.tries \in 0..MaxTries
BY TermAssumption DEF Terms

LEMMA MountGood ==
  ASSUME PageInv, UNCHANGED sessVars, TabsGood', open', Mount(tabs', active')
  PROVE  Moves /\ SocketGood'
<1>1. term' = Mounted(tabs'[active']) /\ Connect(tabs'[active'])
  BY DEF Mount
<1>2. tabs'[active'] \in Ids /\ tabs'[active'] \notin Unborn'
  BY DEF TabsGood, TabMaps
<1>3. /\ ws' \in Conns \ Others
      /\ pc'[ws'] = "accept" /\ of'[ws'] = tabs'[active']
      /\ link'[ws'] = "own"
  BY <1>1, <1>2, ConnectEffect DEF PageInv
<1>4. /\ term' \in Terms /\ term' # None
      /\ term'.live = tabs'[active'] /\ term'.timer = FALSE
  <2>1. 0 \in 0..MaxTries
    BY PageAssumption
  <2>2. term' = [live |-> tabs'[active'], exited |-> FALSE, tries |-> 0, timer |-> FALSE]
    BY <1>1 DEF Mounted
  <2>3. term' \in Terms
    BY <1>2, <2>1, <2>2 DEF Terms
  <2> QED
    BY <2>2, <2>3, TermAssumption
<1>5. SocketHeard' /\ OwnShell' /\ Serving'
  BY <1>3, <1>4 DEF SocketHeard, Heard, OwnShell, Serving
<1>6. RetryAhead'
  BY <1>3, <1>4, NoneAssumption DEF RetryAhead
<1> QED
  BY <1>1, <1>2, <1>3, <1>4, <1>5, <1>6 DEF SocketGood, Moves

LEMMA UnmountGood ==
  ASSUME PageInv, Unmount
  PROVE  Moves /\ SocketGood'
<1>1. term' = None /\ ws' = None
  BY DEF Unmount, Unplug
<1>2. Moves
  BY DEF Unmount, Moves
<1> QED
  BY <1>1, <1>2 DEF SocketGood, SocketHeard, OwnShell, RetryAhead, Serving

(* The socket stays, and so does what its tab shows.                       *)
LEMMA KeepGood ==
  ASSUME PageInv, UNCHANGED <<term, ws, connVars, sessVars>>,
         term # None => open' = open /\ active' = active /\ tabs'[active] = tabs[active],
         tabs[active] # None \/ \A t \in DOMAIN tabs' :
            tabs'[t] = None \/ \E u \in DOMAIN tabs : tabs'[t] = tabs[u]
  PROVE  Moves /\ SocketGood'
<1>1. SocketGood
  BY SocketGoodInv
<1>2. Moves
  BY DEF Moves
<1>3. UNCHANGED <<pc, of, link, inbox>> /\ Unborn' = Unborn
  BY DEF connVars, sessVars, Unborn
<1>4. CASE term = None
  <2>1. ws = None
    BY <1>1, <1>4 DEF SocketGood, SocketHeard
  <2> QED
    BY <1>2, <1>4, <2>1, <1>1
    DEF SocketGood, SocketHeard, OwnShell, RetryAhead, Serving
<1>5. CASE term # None
  <2>1. SocketHeard' /\ Serving'
    BY <1>1, <1>3, <1>5 DEF SocketGood, SocketHeard, Heard, Serving, HasReady
  <2>2. OwnShell'
    BY <1>1, <1>3, <1>5 DEF SocketGood, OwnShell
  <2>3. RetryAhead'
    BY <1>1, <1>5 DEF SocketGood, RetryAhead
  <2> QED
    BY <1>1, <1>2, <1>3, <1>5, <2>1, <2>2, <2>3 DEF SocketGood
<1> QED
  BY <1>4, <1>5

LEMMA RemountGood ==
  ASSUME PageInv, UNCHANGED <<sessVars, open>>, TabsGood', Remount(tabs', active'),
         tabs[active] # None \/ \A t \in DOMAIN tabs' :
            tabs'[t] = None \/ \E u \in DOMAIN tabs : tabs'[t] = tabs[u]
  PROVE  Moves /\ SocketGood'
<1>1. CASE term # None /\ (active' # active \/ tabs'[active'] # tabs[active])
  <2>1. Mount(tabs', active')
    BY <1>1 DEF Remount
  <2>2. open'
    BY <1>1 DEF PageInv, RetryAhead
  <2> QED
    BY <2>1, <2>2, MountGood
<1>2. CASE ~(term # None /\ (active' # active \/ tabs'[active'] # tabs[active]))
  <2>1. UNCHANGED <<term, ws, connVars>>
    BY <1>2 DEF Remount
  <2> QED
    BY <1>2, <2>1, KeepGood
<1> QED
  BY <1>1, <1>2

(* A message is read.                                                      *)
LEMMA ReceiveGood ==
  ASSUME PageInv, ws # None, Receive(ws), UNCHANGED <<tabVars, ws, sessVars>>,
         Head(inbox[ws]) # "ready" \/ of[ws] = tabs[active],
         term' \in Terms, term'.live = term.live, ~term'.timer
  PROVE  Moves /\ SocketGood'
<1>1. SocketGood
  BY SocketGoodInv
<1>2. Moves
  BY DEF Moves
<1>3. /\ UNCHANGED <<pc, of, link, open, tabs, active>> /\ Unborn' = Unborn
      /\ inbox[ws] # <<>> /\ inbox'[ws] = Tail(inbox[ws])
      /\ inbox[ws] \in Seq(Messages) /\ ws \in Conns
  BY NoneAssumption DEF Receive, tabVars, sessVars, Unborn, PageInv, TypeOK, ServerTypeOK
<1>4. term' # None /\ term # None
  BY <1>1, TermAssumption DEF SocketGood, SocketHeard
<1>5. SocketHeard'
  BY <1>1, <1>3, <1>4 DEF SocketGood, SocketHeard, Heard
<1>6. OwnShell'
  BY <1>1, <1>3 DEF SocketGood, OwnShell
<1>7. RetryAhead'
  BY <1>1, <1>3, <1>4 DEF SocketGood, RetryAhead
<1>8. Serving'
  <2>1. HasReady(ws) /\ Head(inbox[ws]) # "ready" => HasReady(ws)'
    BY <1>3, TailKeeps DEF HasReady
  <2> QED
    BY <1>1, <1>3, <2>1 DEF SocketGood, Serving
<1> QED
  BY <1>1, <1>2, <1>3, <1>4, <1>5, <1>6, <1>7, <1>8 DEF SocketGood

(* The terminal dials again.                                               *)
LEMMA DialAgainGood ==
  ASSUME PageInv, term # None, Connect(term.live), UNCHANGED <<tabVars, sessVars>>,
         term' \in Terms, term'.live = term.live, ~term'.timer
  PROVE  Moves /\ SocketGood'
<1>1. SocketGood
  BY SocketGoodInv
<1>2. term.live = tabs[active] /\ tabs[active] \in Ids /\ tabs[active] \notin Unborn
  BY <1>1, TabTypes DEF SocketGood, PageInv, NoneUnborn
<1>3. /\ ws' \in Conns \ Others
      /\ pc'[ws'] = "accept" /\ of'[ws'] = tabs[active]
      /\ link'[ws'] = "own"
  BY <1>2, ConnectEffect DEF PageInv
<1>4. UNCHANGED <<open, tabs, active>> /\ Unborn' = Unborn /\ term' # None
  BY TermAssumption DEF tabVars, sessVars, Unborn
<1>5. SocketHeard' /\ OwnShell' /\ Serving'
  BY <1>3, <1>4 DEF SocketHeard, Heard, OwnShell, Serving
<1>6. RetryAhead'
  BY <1>1, <1>3, <1>4, NoneAssumption DEF SocketGood, RetryAhead
<1> QED
  BY <1>2, <1>3, <1>4, <1>5, <1>6 DEF SocketGood, Moves

LEMMA TermWith ==
  ASSUME PageInv, term # None, NEW m,
         m \in {[term EXCEPT !.timer = FALSE], [term EXCEPT !.live = term.live, !.tries = 0],
                [term EXCEPT !.exited = TRUE, !.timer = FALSE],
                [term EXCEPT !.timer = FALSE, !.tries = IF @ > 1 THEN 1 ELSE @]}
  PROVE  /\ m \in Terms /\ m.live = term.live
         /\ m.timer = FALSE \/ m.timer = term.timer
<1>1. /\ term.live \in Ids /\ term.exited \in BOOLEAN /\ term.timer \in BOOLEAN
      /\ term.tries \in 0..MaxTries
      /\ term = [live |-> term.live, exited |-> term.exited, tries |-> term.tries,
                 timer |-> term.timer]
  BY DEF PageInv, TypeOK, Terms
<1>2. 0 \in 0..MaxTries /\ (term.tries > 1 => 1 \in 0..MaxTries)
  BY <1>1, PageAssumption
<1> DEFINE tries == IF term.tries > 1 THEN 1 ELSE term.tries
<1>3. tries \in 0..MaxTries
  BY <1>1, <1>2
<1>4. m \in {[live |-> term.live, exited |-> term.exited, tries |-> term.tries,
              timer |-> FALSE],
             [live |-> term.live, exited |-> term.exited, tries |-> 0,
              timer |-> term.timer],
             [live |-> term.live, exited |-> TRUE, tries |-> term.tries,
              timer |-> FALSE],
             [live |-> term.live, exited |-> term.exited, tries |-> tries,
              timer |-> FALSE]}
  BY <1>1
<1> HIDE DEF tries
<1> QED
  BY <1>1, <1>2, <1>3, <1>4 DEF Terms

(* What "onclose" leaves of the terminal.                                  *)
LEMMA ClosedGood ==
  ASSUME PageInv, SocketCloses
  PROVE  Moves /\ SocketGood'
<1>1. SocketGood
  BY SocketGoodInv
<1>2. /\ ws # None /\ ws' = None /\ term # None /\ term \in Terms
      /\ UNCHANGED <<open, tabs, active>>
  BY <1>1 DEF SocketCloses, Unplug, SocketGood, SocketHeard, tabVars
<1>3. /\ term.live \in Ids /\ term.exited \in BOOLEAN /\ term.timer \in BOOLEAN
      /\ term.tries \in 0..MaxTries
      /\ term = [live |-> term.live, exited |-> term.exited, tries |-> term.tries,
                 timer |-> term.timer]
  BY <1>2 DEF Terms
<1>4. CASE term.exited \/ term.tries >= MaxTries
  <2>1. term' = term
    BY <1>4 DEF SocketCloses
  <2>2. RetryAhead'
    BY <1>1, <1>2, <1>4, <2>1 DEF SocketGood, RetryAhead
  <2> QED
    BY <1>1, <1>2, <2>1, <2>2
    DEF SocketGood, SocketHeard, OwnShell, Serving, Moves, SocketCloses
<1>5. CASE ~(term.exited \/ term.tries >= MaxTries)
  <2>1. term.tries + 1 \in 0..MaxTries
    BY <1>3, <1>5, PageAssumption
  <2>2. term' = [live |-> term.live, exited |-> term.exited, tries |-> term.tries + 1,
                 timer |-> TRUE]
    <3>1. term' = [term EXCEPT !.tries = @ + 1, !.timer = TRUE]
      BY <1>5 DEF SocketCloses
    <3> QED
      BY <1>3, <3>1
  <2>3. term' \in Terms /\ term'.live = term.live /\ term'.timer = TRUE
    BY <1>3, <2>1, <2>2 DEF Terms
  <2>4. RetryAhead'
    BY <1>1, <1>2, <2>3 DEF SocketGood, RetryAhead
  <2> QED
    BY <1>1, <1>2, <2>3, <2>4
    DEF SocketGood, SocketHeard, OwnShell, Serving, Moves, SocketCloses
<1> QED
  BY <1>4, <1>5

LEMMA SocketStep ==
  ASSUME PageInv, PageStep
  PROVE  Moves /\ SocketGood'
<1>t. TabsGood' /\ UNCHANGED sessVars
  BY TabsStep
<1>g. SocketGood /\ SocketHeard
  BY SocketGoodInv DEF SocketGood
<1>o. term # None => open
  BY DEF PageInv, RetryAhead
<1>a. active \in DOMAIN tabs
  BY TabTypes DEF PageInv
<1>1. CASE FirstMount
  <2>1. open' /\ tabs' = tabs /\ active' = active /\ Mount(tabs', active')
    BY <1>1 DEF FirstMount, tabVars
  <2> QED
    BY <2>1, <1>t, MountGood
<1>2. CASE OpenShell
  <2>1. open' /\ Mount(tabs', active')
    BY <1>2 DEF OpenShell
  <2> QED
    BY <2>1, <1>t, MountGood
<1>3. CASE CloseShell
  BY <1>3, UnmountGood DEF CloseShell
<1>4. CASE Reconnect \/ NewShell \/ GetNotFound
  <2>1. open' /\ Mount(tabs', active')
    <3>1. CASE Reconnect
      BY <1>o, <3>1 DEF Reconnect, tabVars
    <3>2. CASE NewShell
      BY <1>o, <3>2 DEF NewShell
    <3>3. CASE GetNotFound
      BY <1>g, <1>o, <3>3 DEF GetNotFound, Arrives, SocketHeard
    <3> QED
      BY <1>4, <3>1, <3>2, <3>3
  <2> QED
    BY <2>1, <1>t, MountGood
<1>5. CASE AddTab
  <2>1. open' /\ Mount(tabs', active')
    BY <1>o, <1>5 DEF AddTab
  <2> QED
    BY <2>1, <1>t, MountGood
<1>6. ASSUME NEW t \in TabIds, SelectTab(t) PROVE Moves /\ SocketGood'
  <2>1. open' /\ Mount(tabs', active')
    BY <1>o, <1>6 DEF SelectTab
  <2> QED
    BY <2>1, <1>t, MountGood
<1>7. CASE Reload
  <2>1. CASE term # None
    <3>1. open' /\ Mount(tabs', active')
      BY <1>o, <1>7, <2>1 DEF Reload, tabVars
    <3> QED
      BY <3>1, <1>t, MountGood
  <2>2. CASE term = None
    <3>1. UNCHANGED <<term, ws, connVars, tabs, active, open>>
      BY <1>7, <2>2 DEF Reload, tabVars
    <3> QED
      BY <3>1, <1>t, KeepGood
  <2> QED
    BY <2>1, <2>2
<1>8. ASSUME NEW t \in TabIds, CloseTab(t) PROVE Moves /\ SocketGood'
  <2>1. CASE DOMAIN tabs = {t}
    BY <1>8, <2>1, UnmountGood DEF CloseTab
  <2>2. CASE DOMAIN tabs # {t}
    <3>1. /\ tabs' = [u \in DOMAIN tabs \ {t} |-> tabs[u]]
          /\ Remount(tabs', active') /\ UNCHANGED open
      BY <1>8, <2>2 DEF CloseTab
    <3>2. \A u \in DOMAIN tabs' : \E v \in DOMAIN tabs : tabs'[u] = tabs[v]
      BY <3>1
    <3> QED
      BY <3>1, <3>2, <1>t, RemountGood
  <2> QED
    BY <2>1, <2>2
<1>9. CASE Hydrate
  <2>1. Remount(tabs', active') /\ UNCHANGED open
    BY <1>9 DEF Hydrate
  <2>2. CASE listing.ids = {}
    <3>1. tabs' = [u \in DOMAIN tabs |-> None]
      BY <1>9, <2>2 DEF Hydrate
    <3>2. \A u \in DOMAIN tabs' : tabs'[u] = None
      BY <3>1
    <3> QED
      BY <2>1, <3>2, <1>t, RemountGood
  <2>3. CASE listing.ids # {} /\ tabs[active] # None
    BY <2>1, <2>3, <1>t, RemountGood
  <2>4. CASE listing.ids # {} /\ tabs[active] = None
    <3>1. active' \in listing.ids /\ tabs'[active'] = active' /\ active' # None
      BY <1>9, <2>4, TabTypes, NoneAssumption DEF Hydrate, PageInv
    <3>2. CASE term # None
      <4>1. Mount(tabs', active')
        BY <2>1, <2>4, <3>1, <3>2 DEF Remount
      <4> QED
        BY <1>o, <1>t, <2>1, <3>2, <4>1, MountGood
    <3>3. CASE term = None
      <4>1. UNCHANGED <<term, ws, connVars>> /\ ws = None
        BY <1>g, <2>1, <3>3 DEF Remount, SocketHeard
      <4> QED
        BY <1>g, <3>3, <4>1
        DEF Moves, SocketGood, SocketHeard, OwnShell, RetryAhead, Serving
    <3> QED
      BY <3>2, <3>3
  <2> QED
    BY <2>2, <2>3, <2>4
<1>10. CASE GetReady
  <2>1. ws # None /\ term # None /\ inbox[ws] # <<>> /\ Head(inbox[ws]) = "ready"
    BY <1>10, <1>g DEF GetReady, Arrives, SocketHeard
  <2>2. CASE tabs[active] = of[ws]
    <3>1. /\ term' = [term EXCEPT !.live = of[ws], !.tries = 0]
          /\ Receive(ws) /\ UNCHANGED <<ws, open, active, sessVars>>
          /\ tabs' = [tabs EXCEPT ![active] = of[ws]]
      BY <1>10, <2>2, <1>t DEF GetReady
    <3>2. tabs' = tabs
      BY <2>2, <3>1, TabTypes DEF PageInv
    <3>3. of[ws] = term.live /\ term.timer = FALSE
      BY <1>g, <2>1, <2>2, TermFields DEF SocketGood, RetryAhead
    <3>4. term' \in Terms /\ term'.live = term.live /\ ~term'.timer
      BY <2>1, <3>1, <3>3, TermWith
    <3> QED
      BY <2>1, <2>2, <3>1, <3>2, <3>4, ReceiveGood DEF tabVars
  <2>3. CASE tabs[active] # of[ws]
    <3>1. Mount(tabs', active') /\ open'
      BY <1>10, <1>o, <2>1, <2>3 DEF GetReady
    <3> QED
      BY <3>1, <1>t, MountGood
  <2> QED
    BY <2>2, <2>3
<1>11. CASE GetError
  <2>1. /\ ws # None /\ term # None /\ Head(inbox[ws]) = "error" /\ Receive(ws)
        /\ UNCHANGED <<tabVars, term, ws>>
    BY <1>11, <1>g DEF GetError, Arrives, SocketHeard, pageVars, tabVars
  <2>2. term' \in Terms /\ term'.live = term.live /\ ~term'.timer
    BY <1>g, <2>1 DEF SocketGood, RetryAhead
  <2> QED
    BY <2>1, <2>2, <1>t, ReceiveGood
<1>12. CASE GetExit
  <2>1. /\ ws # None /\ term # None /\ Head(inbox[ws]) = "exit" /\ Receive(ws)
        /\ UNCHANGED <<tabVars, ws>>
        /\ term' = [term EXCEPT !.exited = TRUE, !.timer = FALSE]
    BY <1>12, <1>g DEF GetExit, Arrives, SocketHeard
  <2>2. term' \in Terms /\ term'.live = term.live
    BY <2>1, TermWith
  <2>3. ~term'.timer
    BY <1>g, <2>1, TermWith, TermFields DEF SocketGood, RetryAhead
  <2> QED
    BY <2>1, <2>2, <2>3, <1>t, ReceiveGood
<1>13. CASE SocketCloses
  BY <1>13, ClosedGood
<1>14. CASE Retry \/ Online
  <2>1. /\ term # None /\ Connect(term.live) /\ UNCHANGED tabVars
        /\ term' \in {[term EXCEPT !.timer = FALSE],
                      [term EXCEPT !.timer = FALSE, !.tries = IF @ > 1 THEN 1 ELSE @]}
    BY <1>14 DEF Retry, Online
  <2>2. term' \in Terms /\ term'.live = term.live
    BY <2>1, TermWith
  <2>3. ~term'.timer
    <3>1. term \in Terms
      BY <2>1 DEF PageInv, TypeOK
    <3> QED
      BY <2>1, <3>1 DEF Terms
  <2> QED
    BY <2>1, <2>2, <2>3, <1>t, DialAgainGood
<1> QED
  BY <1>1, <1>2, <1>3, <1>4, <1>5, <1>6, <1>7, <1>8, <1>9, <1>10, <1>11, <1>12, <1>13, <1>14
  DEF PageStep, User, Socket

(* What the server does leaves tabs and terminal alone.                    *)
LEMMA ServerStepGood ==
  ASSUME PageInv, UNCHANGED pageVars,
         \/ Work \/ Disturbance
         \/ \E c \in Others, s \in Sessions : OtherDials(c, s)
  PROVE  TabsGood' /\ SocketGood' /\ listing'.ids \cap Unborn' = {}
<1>1. SocketGood /\ ServerTypeOK
  BY SocketGoodInv DEF PageInv, TypeOK
<1>2. UNCHANGED <<open, tabs, active, term, ws>>
  BY DEF pageVars
<1>3. Unborn' \subseteq Unborn
  <2>1. CASE Work \/ Disturbance
    BY <1>1, <2>1, UnbornShrinks
  <2>2. CASE \E c \in Others, s \in Sessions : OtherDials(c, s)
    BY <1>1, <2>2, UnbornShrinks DEF OtherDials
  <2> QED
    BY <2>1, <2>2
<1>4. TabsGood'
  <2>1. TabsGood
    BY TabTypes DEF PageInv, TypeOK, TabsGood, NoneUnborn
  <2> QED
    BY <1>2, <1>3, <2>1 DEF TabsGood, TabsDistinct
<1>5. listing'.ids \cap Unborn' = {}
  <2>1. listing' = listing \/ listing'.ids = {}
           \/ (listing'.ids = Live /\ state' = state)
    BY DEF Work, Disturbance, Handle, NeverAccepted, Resume, Create, CreateFails,
       Attach, Detach, ScheduleIdle, Reap, TimerFires, Kill, ListAnswers, Cut,
       ShellExits, Restart, OtherDials, restVars, sessVars
  <2>2. listing.ids \cap Unborn = {}
    BY DEF PageInv, NoneUnborn
  <2> QED
    BY <1>3, <2>1, <2>2 DEF Live, Unborn
<1>6. RetryAhead'
  BY <1>1, <1>2 DEF SocketGood, RetryAhead
<1>7. /\ ws' \in Conns \cup {None} /\ term' \in Terms \cup {None}
      /\ term' # None => term'.live = tabs'[active']
  BY <1>1, <1>2 DEF SocketGood
<1>8. SocketHeard' /\ OwnShell' /\ Serving' /\ (ws' # None => of'[ws'] \notin Unborn')
  <2>1. CASE ws = None
    BY <1>2, <2>1 DEF SocketHeard, OwnShell, Serving
  <2>2. CASE ws # None
    <3>1. PICK e \in Conns : e = ws
      BY <1>1, <2>2 DEF SocketGood
    <3>2. Heard(e) /\ pc[e] # "free" /\ e \notin Others /\ term # None
      BY <1>1, <2>2, <3>1 DEF SocketGood, SocketHeard
    <3>3. SameEnd(e)
      <4>1. CASE Work \/ Disturbance
        BY <1>1, <3>2, <4>1, ServerKeepsSocket
      <4>2. ASSUME NEW c \in Others, NEW s \in Sessions, OtherDials(c, s)
            PROVE  SameEnd(e)
        <5>1. Dial(c, s, None, "other") /\ c # e /\ e # None
          BY <3>2, <4>2, NoneAssumption DEF OtherDials
        <5>2. /\ pc'[e] = pc[e] /\ of'[e] = of[e]
              /\ link'[e] = link[e] /\ inbox'[e] = inbox[e]
          BY <5>1 DEF Dial
        <5>3. HasReady(e) => HasReady(e)'
          BY <5>2 DEF HasReady
        <5> QED
          BY <3>2, <5>2, <5>3 DEF SameEnd, Heard
      <4> QED
        BY <4>1, <4>2
    <3>4. SocketHeard'
      BY <1>2, <3>1, <3>2, <3>3 DEF SameEnd, SocketHeard, Heard
    <3>5. of'[e] \notin Unborn'
      <4>1. of[e] \notin Unborn
        BY <1>1, <2>2, <3>1 DEF SocketGood
      <4> QED
        BY <1>3, <3>3, <4>1 DEF SameEnd
    <3>6. OwnShell'
      <4>1. CASE of'[e] = of[e]
        BY <1>1, <1>2, <3>1, <4>1 DEF SocketGood, OwnShell
      <4>2. CASE of[e] = None /\ of'[e] \in Unborn
        <5>1. \A t \in DOMAIN tabs : tabs[t] # of'[e]
          BY <4>2 DEF PageInv, NoneUnborn
        <5>2. tabs[active] = None
          BY <1>1, <2>2, <3>1, <4>2 DEF SocketGood, OwnShell
        <5> QED
          BY <1>2, <3>1, <5>1, <5>2 DEF OwnShell
      <4> QED
        BY <3>3, <4>1, <4>2 DEF SameEnd
    <3>7. Serving'
      <4>1. HasReady(e) => HasReady(e)'
        BY <3>3 DEF SameEnd
      <4>2. pc'[e] = "loop" /\ link'[e] = "own" =>
               HasReady(e)' \/ (pc[e] = "loop" /\ link[e] = "own" /\ of'[e] = of[e])
        BY <3>3 DEF SameEnd
      <4>3. pc[e] = "loop" /\ link[e] = "own" => HasReady(e) \/ of[e] = tabs[active]
        BY <1>1, <2>2, <3>1 DEF SocketGood, Serving, HasReady
      <4> HIDE DEF HasReady
      <4>4. pc'[e] = "loop" /\ link'[e] = "own" => HasReady(e)' \/ of'[e] = tabs[active]
        BY <4>1, <4>2, <4>3
      <4> QED
        BY <1>2, <3>1, <4>4 DEF Serving, HasReady
    <3> QED
      BY <1>2, <3>1, <3>4, <3>5, <3>6, <3>7
  <2> QED
    BY <2>1, <2>2
<1> QED
  BY <1>4, <1>5, <1>6, <1>7, <1>8, Zenon DEF SocketGood

-----------------------------------------------------------------------------
(* A step of the page, or of the server behind it, is a step of            *)
(* ShellServer: the page is one of the clients it allows for.              *)
LEMMA PageSimulates ==
  ASSUME PageInv, [Next]_vars
  PROVE  [ServerNext]_serverVars
<1>t. TypeOK /\ SocketHeard /\ listing \in Listings /\ kills \in SUBSET Sessions
  BY DEF PageInv, TypeOK, ServerTypeOK
<1>1. CASE UNCHANGED vars
  BY <1>1 DEF vars, serverVars
<1>2. CASE PageStep
  <2>1. ClientStep
    BY <1>t, <1>2, TabsStep, SocketStep, MovesAreClients
  <2> QED
    BY <2>1 DEF ServerNext
<1>3. CASE Work \/ Disturbance
  BY <1>3 DEF ServerNext
<1>4. ASSUME NEW c \in Others, NEW s \in Sessions, OtherDials(c, s)
      PROVE  ServerNext
  <2>1. /\ Dial(c, s, None, "other") /\ c \in Conns /\ c # None
        /\ UNCHANGED <<sessVars, listing, kills>>
    BY <1>4, PageAssumption, NoneAssumption DEF OtherDials, restVars
  <2>2. ClientStep
    BY <1>t, <2>1 DEF ClientStep
  <2> QED
    BY <2>2 DEF ServerNext
<1> QED
  BY <1>1, <1>2, <1>3, <1>4 DEF Next, PageStep

LEMMA PageInvStep ==
  ASSUME PageInv, [Next]_vars
  PROVE  PageInv'
<1>1. ServerInv'
  BY PageSimulates, ServerInvStep DEF PageInv
<1>2. CASE UNCHANGED vars
  <2>1. UNCHANGED serverVars /\ UNCHANGED <<open, tabs, active, term, ws, events>>
    BY <1>2 DEF vars, pageVars
  <2>2. Unborn' = Unborn
    BY <2>1 DEF serverVars, Unborn
  <2> QED
    BY <1>1, <2>1, <2>2
    DEF PageInv, serverVars, ServerInv, TypeOK, SocketHeard, Heard, NoneUnborn, OwnShell,
        TabsDistinct, ServesActiveTab, Told, RetryAhead
<1>3. CASE ~UNCHANGED vars
  <2>1. Next
    BY <1>3
  <2>2. TabsGood' /\ SocketGood' /\ listing'.ids \cap Unborn' = {}
    <3>1. CASE PageStep
      <4>1. TabsGood' /\ UNCHANGED sessVars /\ listing'.ids \cap Unborn = {}
        BY <3>1, TabsStep
      <4>2. Unborn' = Unborn
        BY <4>1 DEF sessVars, Unborn
      <4> QED
        BY <3>1, <4>1, <4>2, SocketStep
    <3>2. CASE UNCHANGED pageVars /\ (Work \/ Disturbance)
      BY <3>2, ServerStepGood
    <3>3. ASSUME NEW c \in Others, NEW s \in Sessions, OtherDials(c, s)
          PROVE  TabsGood' /\ SocketGood' /\ listing'.ids \cap Unborn' = {}
      <4>1. UNCHANGED pageVars
        BY <3>3 DEF OtherDials
      <4> QED
        BY <3>3, <4>1, ServerStepGood
    <3> QED
      BY <2>1, <3>1, <3>2, <3>3 DEF Next, PageStep
  <2>3. events' \in 0..MaxEvents
    <3>1. events \in 0..MaxEvents /\ MaxEvents \in Nat
      BY PageAssumption DEF PageInv, TypeOK
    <3>2. events' = events \/ (events < MaxEvents /\ events' = events + 1)
      BY <2>1 DEF Next, Event
    <3> QED
      BY <3>1, <3>2
  <2>4. TypeOK'
    BY <1>1, <2>2, <2>3 DEF ServerInv, TypeOK, TabsGood, SocketGood
  <2>5. SocketHeard' /\ OwnShell' /\ TabsDistinct' /\ RetryAhead'
    BY <2>2 DEF TabsGood, SocketGood
  <2>6. NoneUnborn'
    BY <2>2 DEF TabsGood, SocketGood, NoneUnborn
  <2>7. ServesActiveTab'
    BY <2>2 DEF SocketGood, Serving, ServesActiveTab, Told, HasReady
  <2> QED
    BY <1>1, <2>4, <2>5, <2>6, <2>7 DEF PageInv
<1> QED
  BY <1>2, <1>3

LEMMA InitPageInv == Init => PageInv
<1> SUFFICES ASSUME Init PROVE PageInv
  OBVIOUS
<1>1. ServerInv
  BY InitServerInv DEF Init
<1>2. /\ open \in BOOLEAN /\ active \in Tabs /\ tabs = [t \in {active} |-> None]
      /\ term = None /\ ws = None /\ events = 0 /\ listing.ids = {}
  BY PageAssumption DEF Init, ServerInit
<1>3. tabs \in TabMaps
  <2>1. {active} \in SUBSET TabIds /\ {active} # {}
    BY <1>2 DEF TabIds
  <2>2. tabs \in [{active} -> Ids]
    BY <1>2 DEF Ids
  <2> QED
    BY <2>1, <2>2, TabMapsIntro
<1>4. TypeOK
  BY <1>1, <1>2, <1>3, PageAssumption DEF TypeOK, ServerInv
<1> QED
  BY <1>1, <1>2, <1>4, NoneAssumption
  DEF PageInv, SocketHeard, NoneUnborn, OwnShell, TabsDistinct, ServesActiveTab,
      RetryAhead, Unborn

(* Whatever users, faults, other pages and the server do, in any order,    *)
(* page, tabs, terminal, socket and server agree as PageInv says.          *)
THEOREM PageInvariance == Spec => []PageInv
<1>1. Init => PageInv
  BY InitPageInv
<1>2. PageInv /\ [Next]_vars => PageInv'
  BY PageInvStep
<1> QED
  BY <1>1, <1>2, PTL DEF Spec

(* The page in front of the server is one of the clients ShellServer       *)
(* allows for: live-terminal.tsx and store.ts behind HandleTerminalWS.     *)
THEOREM PageImplementsServer == Spec => ServerSpec
<1>1. Init => ServerInit
  BY DEF Init
<1>2. PageInv /\ [Next]_vars => [ServerNext]_serverVars
  BY PageSimulates
<1> QED
  BY <1>1, <1>2, PageInvariance, PTL DEF Spec, ServerSpec

(* Types of all variables.                                                 *)
THEOREM Types == Spec => []TypeOK
<1>1. PageInv => TypeOK
  BY DEF PageInv
<1> QED
  BY <1>1, PageInvariance, PTL

(* No live shell is left with nobody to end it or hand it on.              *)
THEOREM NoShellForgotten == Spec => []NobodyForgotten
<1>1. PageInv => NobodyForgotten
  BY DEF PageInv, ServerInv
<1> QED
  BY <1>1, PageInvariance, PTL

(* A sink has a handler that runs and serves it, and a live session.       *)
THEOREM SinkServed == Spec => []SinkIsServed
<1>1. PageInv => SinkIsServed
  BY DEF PageInv, ServerInv
<1> QED
  BY <1>1, PageInvariance, PTL

(* An old connection never takes the session from the newer one.           *)
THEOREM NewestWins == Spec => NewestKeepsSession
BY PageImplementsServer, NewestKeeps

(* No shell appears in two tabs, whatever lists and late answers do.       *)
THEOREM NoShellTwice == Spec => []TabsDistinct
<1>1. PageInv => TabsDistinct
  BY DEF PageInv
<1> QED
  BY <1>1, PageInvariance, PTL

(* What the user types goes to the shell of the active tab.                *)
THEOREM ActiveTabServed == Spec => []ServesActiveTab
<1>1. PageInv => ServesActiveTab
  BY DEF PageInv
<1> QED
  BY <1>1, PageInvariance, PTL

(* A terminal without a socket tries again, exited, or gave up.            *)
THEOREM RetryIsAhead == Spec => []RetryAhead
<1>1. PageInv => RetryAhead
  BY DEF PageInv
<1> QED
  BY <1>1, PageInvariance, PTL

(* Only a closed tab and a new shell ask the server to end one.            *)
LEMMA KillsCome ==
  ASSUME [Next]_vars, NEW s \in kills' \ kills
  PROVE  (\E t \in TabIds : CloseTab(t)) \/ NewShell
<1>0. kills' # kills
  OBVIOUS
<1>1. CASE Work
  <2>1. kills' \subseteq kills
    BY <1>1 DEF Work, Handle, NeverAccepted, Resume, Create, CreateFails, Attach, Detach,
       ScheduleIdle, Reap, TimerFires, Kill, ListAnswers, restVars
  <2> QED
    BY <2>1
<1>2. CASE Disturbance \/ \E c \in Others, r \in Sessions : OtherDials(c, r)
  <2>1. kills' \subseteq kills
    BY <1>2 DEF Disturbance, Cut, ShellExits, Restart, OtherDials, restVars
  <2> QED
    BY <2>1
<1>3. CASE User
  BY <1>0, <1>3 DEF User, OpenShell, CloseShell, AddTab, SelectTab, Reconnect, Reload, restVars
<1>4. CASE Socket \/ FirstMount \/ Retry \/ Online \/ Hydrate
  BY <1>0, <1>4 DEF Socket, GetReady, GetNotFound, GetError, GetExit, SocketCloses, Arrives,
     FirstMount, Retry, Online, Hydrate, restVars
<1>5. CASE UNCHANGED vars
  BY <1>0, <1>5 DEF vars, serverVars
<1> QED
  BY <1>1, <1>2, <1>3, <1>4, <1>5 DEF Next

(* The shell of a tab that is closed, or made new, is shown nowhere after. *)
LEMMA KillsStep ==
  ASSUME PageInv, [Next]_vars, NEW s \in kills' \ kills
  PROVE  /\ \E t \in DOMAIN tabs : tabs[t] = s
         /\ \A t \in DOMAIN tabs' : tabs'[t] # s
         /\ term' # None => term'.live # s
         /\ ws' # None => of'[ws'] # s
<1>0. TypeOK /\ TabsDistinct /\ OwnShell /\ SocketHeard /\ active \in DOMAIN tabs
  BY DEF PageInv, TypeOK
<1>1. \A t \in DOMAIN tabs : tabs[t] \in Ids
  BY <1>0, TabTypes DEF TypeOK
<1>2. /\ active' \in DOMAIN tabs'
      /\ term' # None => term'.live = tabs'[active']
  BY PageInvStep DEF PageInv, TypeOK, ServesActiveTab
\* The terminal that is mounted anew asks for the shell of its tab.
<1>3. ASSUME tabs'[active'] \in Ids, tabs'[active'] # s, Mount(tabs', active')
      PROVE  of'[ws'] # s
  BY <1>0, <1>3, ConnectEffect DEF Mount
<1>4. ASSUME NEW t \in TabIds, CloseTab(t)
      PROVE  /\ \E u \in DOMAIN tabs : tabs[u] = s
             /\ \A u \in DOMAIN tabs' : tabs'[u] # s
             /\ ws' # None => of'[ws'] # s
  <2>1. t \in DOMAIN tabs /\ tabs[t] = s /\ s # None
    BY <1>4 DEF CloseTab, KillQuiet
  <2>2. CASE DOMAIN tabs = {t}
    <3>1. tabs' = [u \in {NewTab} |-> None] /\ ws' = None
      BY <1>4, <2>2 DEF CloseTab, Unmount, Unplug
    <3> QED
      BY <2>1, <3>1
  <2>3. CASE DOMAIN tabs # {t}
    <3>1. tabs' = [u \in DOMAIN tabs \ {t} |-> tabs[u]] /\ Remount(tabs', active')
      BY <1>4, <2>3 DEF CloseTab
    <3>2. \A u \in DOMAIN tabs' : tabs'[u] # s /\ tabs'[u] \in Ids
      BY <1>0, <1>1, <2>1, <3>1 DEF TabsDistinct
    <3>3. CASE Mount(tabs', active')
      BY <1>2, <1>3, <2>1, <3>2, <3>3
    <3>4. CASE UNCHANGED <<term, ws, connVars>> /\ tabs'[active'] = tabs[active]
      <4>1. tabs[active] # s
        BY <1>2, <3>2, <3>4
      <4>2. ws' = ws /\ of' = of
        BY <3>4 DEF connVars
      <4>3. ws # None => of[ws] # s
        BY <1>0, <2>1, <4>1 DEF OwnShell
      <4> QED
        BY <2>1, <3>2, <4>2, <4>3
    <3>5. term # None
      BY <1>4 DEF CloseTab
    <3> QED
      BY <3>1, <3>3, <3>4, <3>5 DEF Remount
  <2> QED
    BY <2>2, <2>3
<1>5. CASE NewShell
  <2>1. tabs[active] = s /\ s # None
    BY <1>5 DEF NewShell, KillQuiet
  <2>2. tabs' = [tabs EXCEPT ![active] = None] /\ active' = active /\ Mount(tabs', active')
    BY <1>5 DEF NewShell
  <2>3. /\ DOMAIN tabs' = DOMAIN tabs /\ tabs'[active] = None
        /\ \A u \in DOMAIN tabs : u # active => tabs'[u] = tabs[u]
    BY <1>0, <2>2, TabTypes DEF TypeOK
  <2>4. \A u \in DOMAIN tabs' : tabs'[u] # s
    BY <1>0, <2>1, <2>3 DEF TabsDistinct
  <2>5. of'[ws'] # s
    BY <1>3, <2>1, <2>2, <2>3 DEF Ids
  <2> QED
    BY <1>0, <2>1, <2>4, <2>5, <1>2
<1> QED
  BY <1>2, <1>4, <1>5, KillsCome

(* The page ends the shell of the tab that the user dropped, and goes on   *)
(* showing no shell it asked to end (closeTab, newShellForTab).            *)
THEOREM KillsOnlyDropped == Spec => KillsWhatItDrops
<1>1. PageInv /\ [Next]_vars =>
        [\A s \in kills' \ kills :
           /\ \E t \in DOMAIN tabs : tabs[t] = s
           /\ \A t \in DOMAIN tabs' : tabs'[t] # s
           /\ term' # None => term'.live # s
           /\ ws' # None => of'[ws'] # s]_vars
  BY KillsStep
<1> QED
  BY <1>1, PageInvariance, PTL DEF Spec, KillsWhatItDrops

=============================================================================
