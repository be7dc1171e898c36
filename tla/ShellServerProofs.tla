-------------------------- MODULE ShellServerProofs -------------------------
(***************************************************************************)
(* Proofs about ShellServer: whatever the clients do, a live shell has     *)
(* somebody who cares for it, and a sink has a handler that serves it.     *)
(***************************************************************************)
EXTENDS ShellServer, TLAPS

(* A handler that returns leaves the other connections alone.              *)
LEMMA ReturnEffect ==
  ASSUME ServerTypeOK, NEW c \in Conns, Return(c)
  PROVE  /\ pc' \in [Conns -> PCs]
         /\ of' \in [Conns -> Sessions \cup {None}]
         /\ link' \in [Conns -> Links]
         /\ pc'[c] \in {"done", "free"}
         /\ \A e \in Conns : e # c => pc'[e] = pc[e] /\ of'[e] = of[e]
BY DEF Return, Go, ServerTypeOK, PCs, Links

(* A message is kept or dropped.                                           *)
LEMMA SendEffect ==
  ASSUME ServerTypeOK, NEW c \in Conns, NEW m \in Messages, Send(c, m)
  PROVE  inbox' \in [Conns -> Seq(Messages)]
<1>1. inbox[c] \in Seq(Messages) /\ Append(inbox[c], m) \in Seq(Messages)
  BY DEF ServerTypeOK
<1>2. inbox' = [inbox EXCEPT ![c] = IF link[c] = "own" THEN Append(inbox[c], m)
                                                      ELSE inbox[c]]
  BY DEF Send
<1> QED
  BY <1>1, <1>2 DEF ServerTypeOK

(* A handler that returns has no session left to answer for.               *)
LEMMA HandlersKept ==
  ASSUME ServerTypeOK, HandlersOK, NEW c \in Conns, Return(c), state' = state
  PROVE  HandlersOK'
<1>1. /\ pc'[c] \in {"done", "free"}
      /\ \A e \in Conns : e # c => pc'[e] = pc[e] /\ of'[e] = of[e]
  BY ReturnEffect
<1> QED
  BY <1>1 DEF HandlersOK

(* A session keeps the handler that works for it while only another        *)
(* connection, or one that worked for nobody, moves.                       *)
LEMMA WorkingKept ==
  ASSUME NEW c \in Conns, NEW s \in Sessions, Working(s),
         \A e \in Conns : e # c => pc'[e] = pc[e] /\ of'[e] = of[e],
         of[c] # s \/ pc[c] \notin {"attach", "schedule"}
  PROVE  Working(s)'
BY DEF Working

(* Every step keeps the types.                                             *)
LEMMA ServerTypeStep == ServerTypeOK /\ HandlersOK /\ ServerNext => ServerTypeOK'
<1> SUFFICES ASSUME ServerTypeOK /\ HandlersOK, ServerNext PROVE ServerTypeOK'
  OBVIOUS
<1> USE NoneAssumption DEF ServerTypeOK, HandlersOK, PCs, Links, Messages, Listings, Live, Unborn, sessVars, connVars, restVars
<1>1. ASSUME NEW c \in Conns, NeverAccepted(c) PROVE ServerTypeOK'
  BY <1>1 DEF NeverAccepted, Return, Go
<1>2. ASSUME NEW c \in Conns, Resume(c) PROVE ServerTypeOK'
  <2>1. CASE Go(c, "attach") /\ UNCHANGED <<of, link, inbox>>
    BY <1>2, <2>1 DEF Resume, Go
  <2>2. CASE Return(c) /\ Send(c, "notfound")
    BY <1>2, <2>2, ReturnEffect, SendEffect DEF Resume
  <2> QED
    BY <1>2, <2>1, <2>2 DEF Resume
<1>3. ASSUME NEW c \in Conns, Create(c) PROVE ServerTypeOK'
  BY <1>3 DEF Create, Go
<1>4. ASSUME NEW c \in Conns, CreateFails(c) PROVE ServerTypeOK'
  BY <1>4, ReturnEffect, SendEffect DEF CreateFails
<1>5. ASSUME NEW c \in Conns, Attach(c) PROVE ServerTypeOK'
  <2>1. inbox' \in [Conns -> Seq(Messages)]
    BY <1>5, SendEffect DEF Attach
  <2>2. CASE of[c] \in Live
    <3>1. /\ attach' = [attach EXCEPT ![of[c]] = c]
          /\ timer' = [timer EXCEPT ![of[c]] = FALSE]
          /\ pc' = [pc EXCEPT ![c] = "loop"]
          /\ UNCHANGED <<of, link, state, doomed, listing, kills>>
      BY <1>5, <2>2 DEF Attach, Go
    <3>2. timer' \in [Sessions -> BOOLEAN]
      BY <3>1
    <3>3. attach' \in [Sessions -> Conns \cup {None}]
      BY <3>1
    <3>4. pc' \in [Conns -> PCs]
      BY <3>1
    <3> QED
      BY <2>1, <3>1, <3>2, <3>3, <3>4
  <2>3. CASE of[c] \notin Live
    BY <1>5, <2>1, <2>3, ReturnEffect DEF Attach
  <2> QED
    BY <2>2, <2>3
<1>6. ASSUME NEW c \in Conns, Detach(c) PROVE ServerTypeOK'
  BY <1>6 DEF Detach, Return, Go
<1>7. ASSUME NEW c \in Conns, ScheduleIdle(c) PROVE ServerTypeOK'
  <2>1. timer' \in [Sessions -> BOOLEAN]
    <3>1. timer' = [timer EXCEPT ![of[c]] = of[c] \in Live]
      BY <1>7 DEF ScheduleIdle
    <3>2. CASE of[c] \in Live
      <4>1. timer' = [timer EXCEPT ![of[c]] = TRUE]
        BY <3>1, <3>2, Zenon
      <4> QED
        BY <4>1
    <3>3. CASE of[c] \notin Live
      <4>1. timer' = [timer EXCEPT ![of[c]] = FALSE]
        <5>1. (of[c] \in Live) = FALSE
          BY <3>3
        <5> QED
          BY <3>1, <5>1, Zenon
      <4> QED
        BY <4>1
    <3> QED
      BY <3>2, <3>3
  <2> QED
    BY <1>7, <2>1, ReturnEffect DEF ScheduleIdle
<1>8. ASSUME NEW c \in Conns, Cut(c) PROVE ServerTypeOK'
  BY <1>8 DEF Cut
<1>9. ASSUME NEW s \in Sessions, Reap(s) PROVE ServerTypeOK'
  BY <1>9 DEF Reap, Destroy
<1>10. ASSUME NEW s \in Sessions, TimerFires(s) PROVE ServerTypeOK'
  BY <1>10 DEF TimerFires
<1>11. ASSUME NEW s \in Sessions, Kill(s) PROVE ServerTypeOK'
  BY <1>11 DEF Kill, Destroy
<1>12. ASSUME NEW s \in Sessions, ShellExits(s) PROVE ServerTypeOK'
  <2>1. inbox' \in [Conns -> Seq(Messages)]
    BY <1>12, SendEffect DEF ShellExits
  <2> QED
    BY <1>12, <2>1 DEF ShellExits
<1>13. ASSUME ListAnswers PROVE ServerTypeOK'
  BY <1>13 DEF ListAnswers
<1>14. ASSUME Restart PROVE ServerTypeOK'
  BY <1>14 DEF Restart
<1>15. ASSUME ClientStep PROVE ServerTypeOK'
  <2>1. UNCHANGED sessVars /\ listing' \in Listings /\ kills' \in SUBSET Sessions
    BY <1>15 DEF ClientStep
  <2>2. ASSUME NEW c \in Conns, NEW s \in Sessions \cup {None},
               NEW d \in Conns \cup {None}, NEW by \in {"own", "other"},
               Dial(c, s, d, by)
        PROVE  ServerTypeOK'
    <3>1. pc' \in [Conns -> PCs] /\ of' \in [Conns -> Sessions \cup {None}]
      BY <2>2 DEF Dial
    <3>2. link' \in [Conns -> Links]
      BY <2>2 DEF Dial
    <3>3. inbox' \in [Conns -> Seq(Messages)]
      BY <2>2 DEF Dial
    <3> QED
      BY <2>1, <3>1, <3>2, <3>3
  <2>3. ASSUME NEW d \in Conns, HangUp(d) PROVE ServerTypeOK'
    <3>1. pc' \in [Conns -> PCs] /\ of' \in [Conns -> Sessions \cup {None}]
      BY <2>3 DEF HangUp
    <3>2. link' \in [Conns -> Links] /\ inbox' \in [Conns -> Seq(Messages)]
      BY <2>3 DEF HangUp
    <3> QED
      BY <2>1, <3>1, <3>2
  <2>4. ASSUME NEW d \in Conns, Receive(d) PROVE ServerTypeOK'
    BY <2>1, <2>4 DEF Receive
  <2>5. CASE UNCHANGED connVars
    BY <2>1, <2>5
  <2> QED
    BY <1>15, <2>2, <2>3, <2>4, <2>5 DEF ClientStep
<1> QED
  BY <1>1, <1>2, <1>3, <1>4, <1>5, <1>6, <1>7, <1>8, <1>9, <1>10, <1>11, <1>12, <1>13, <1>14, <1>15 DEF ServerNext, Work, Handle, Disturbance

(* A handler past its start has a session.                                 *)
LEMMA HandlersStep == ServerTypeOK /\ HandlersOK /\ ServerNext => HandlersOK'
<1> SUFFICES ASSUME ServerTypeOK /\ HandlersOK, ServerNext PROVE HandlersOK'
  OBVIOUS
<1> USE NoneAssumption DEF ServerTypeOK, HandlersOK, PCs, Live, Unborn, sessVars, connVars, restVars
<1>1. ASSUME NEW c \in Conns, NeverAccepted(c) PROVE HandlersOK'
  BY <1>1, HandlersKept DEF NeverAccepted
<1>2. ASSUME NEW c \in Conns, Resume(c) PROVE HandlersOK'
  <2>1. CASE of[c] \in Live
    BY <1>2, <2>1 DEF Resume, Go
  <2>2. CASE of[c] \notin Live
    BY <1>2, <2>2, HandlersKept DEF Resume
  <2> QED
    BY <2>1, <2>2
<1>3. ASSUME NEW c \in Conns, Create(c) PROVE HandlersOK'
  BY <1>3 DEF Create, Go
<1>4. ASSUME NEW c \in Conns, CreateFails(c) PROVE HandlersOK'
  BY <1>4, HandlersKept DEF CreateFails
<1>5. ASSUME NEW c \in Conns, Attach(c) PROVE HandlersOK'
  <2>1. CASE of[c] \in Live
    BY <1>5, <2>1 DEF Attach, Go
  <2>2. CASE of[c] \notin Live
    BY <1>5, <2>2, HandlersKept DEF Attach
  <2> QED
    BY <2>1, <2>2
<1>6. ASSUME NEW c \in Conns, Detach(c) PROVE HandlersOK'
  <2>1. CASE attach[of[c]] = c
    BY <1>6, <2>1 DEF Detach, Go
  <2>2. CASE attach[of[c]] # c
    BY <1>6, <2>2, HandlersKept DEF Detach
  <2> QED
    BY <2>1, <2>2
<1>7. ASSUME NEW c \in Conns, ScheduleIdle(c) PROVE HandlersOK'
  BY <1>7, HandlersKept DEF ScheduleIdle
<1>8. ASSUME NEW c \in Conns, Cut(c) PROVE HandlersOK'
  BY <1>8 DEF Cut
<1>9. ASSUME NEW s \in Sessions, Reap(s) PROVE HandlersOK'
  BY <1>9 DEF Reap, Destroy
<1>10. ASSUME NEW s \in Sessions, TimerFires(s) PROVE HandlersOK'
  BY <1>10 DEF TimerFires
<1>11. ASSUME NEW s \in Sessions, Kill(s) PROVE HandlersOK'
  BY <1>11 DEF Kill, Destroy
<1>12. ASSUME NEW s \in Sessions, ShellExits(s) PROVE HandlersOK'
  BY <1>12 DEF ShellExits, Send
<1>13. ASSUME ListAnswers PROVE HandlersOK'
  BY <1>13 DEF ListAnswers
<1>14. ASSUME Restart PROVE HandlersOK'
  BY <1>14 DEF Restart
<1>15. ASSUME ClientStep PROVE HandlersOK'
  <2>1. \A c \in Conns : pc'[c] \in {"attach", "loop", "schedule"} =>
           pc[c] = pc'[c] /\ of[c] = of'[c]
    <3>1. ASSUME NEW c \in Conns, NEW s \in Sessions \cup {None},
                 NEW d \in Conns \cup {None}, NEW by \in {"own", "other"},
                 Dial(c, s, d, by)
          PROVE  \A e \in Conns : pc'[e] \in {"attach", "loop", "schedule"} =>
                    pc[e] = pc'[e] /\ of[e] = of'[e]
      BY <3>1 DEF Dial
    <3> QED
      BY <1>15, <3>1 DEF ClientStep, HangUp, Receive
  <2> QED
    BY <1>15, <2>1 DEF ClientStep
<1> QED
  BY <1>1, <1>2, <1>3, <1>4, <1>5, <1>6, <1>7, <1>8, <1>9, <1>10, <1>11, <1>12, <1>13, <1>14, <1>15 DEF ServerNext, Work, Handle, Disturbance

(* A sink keeps a handler that serves it.                                  *)
LEMMA SinkStep == ServerTypeOK /\ HandlersOK /\ SinkIsServed /\ ServerNext => SinkIsServed'
<1> SUFFICES ASSUME ServerTypeOK /\ HandlersOK /\ SinkIsServed, ServerNext PROVE SinkIsServed'
  OBVIOUS
<1> USE NoneAssumption DEF ServerTypeOK, HandlersOK, SinkIsServed, PCs, Live, Unborn, sessVars, connVars, restVars
<1>1. ASSUME NEW c \in Conns, NeverAccepted(c) PROVE SinkIsServed'
  BY <1>1 DEF NeverAccepted, Return, Go
<1>2. ASSUME NEW c \in Conns, Resume(c) PROVE SinkIsServed'
  BY <1>2 DEF Resume, Return, Go, Send
<1>3. ASSUME NEW c \in Conns, Create(c) PROVE SinkIsServed'
  BY <1>3 DEF Create, Go
<1>4. ASSUME NEW c \in Conns, CreateFails(c) PROVE SinkIsServed'
  BY <1>4 DEF CreateFails, Return, Go, Send
<1>5. ASSUME NEW c \in Conns, Attach(c) PROVE SinkIsServed'
  BY <1>5 DEF Attach, Return, Go, Send
<1>6. ASSUME NEW c \in Conns, Detach(c) PROVE SinkIsServed'
  BY <1>6 DEF Detach, Return, Go
<1>7. ASSUME NEW c \in Conns, ScheduleIdle(c) PROVE SinkIsServed'
  BY <1>7 DEF ScheduleIdle, Return, Go
<1>8. ASSUME NEW c \in Conns, Cut(c) PROVE SinkIsServed'
  BY <1>8 DEF Cut
<1>9. ASSUME NEW s \in Sessions, Reap(s) PROVE SinkIsServed'
  BY <1>9 DEF Reap, Destroy
<1>10. ASSUME NEW s \in Sessions, TimerFires(s) PROVE SinkIsServed'
  BY <1>10 DEF TimerFires
<1>11. ASSUME NEW s \in Sessions, Kill(s) PROVE SinkIsServed'
  <2>1. CASE s \in Live
    BY <1>11, <2>1 DEF Kill, Destroy
  <2>2. CASE s \notin Live
    BY <1>11, <2>2 DEF Kill
  <2> QED
    BY <2>1, <2>2
<1>12. ASSUME NEW s \in Sessions, ShellExits(s) PROVE SinkIsServed'
  BY <1>12 DEF ShellExits, Send
<1>13. ASSUME ListAnswers PROVE SinkIsServed'
  BY <1>13 DEF ListAnswers
<1>14. ASSUME Restart PROVE SinkIsServed'
  BY <1>14 DEF Restart
<1>15. ASSUME ClientStep PROVE SinkIsServed'
  BY <1>15 DEF ClientStep, Dial, HangUp, Receive
<1> QED
  BY <1>1, <1>2, <1>3, <1>4, <1>5, <1>6, <1>7, <1>8, <1>9, <1>10, <1>11, <1>12, <1>13, <1>14, <1>15 DEF ServerNext, Work, Handle, Disturbance

(* Whoever lets go of a live session hands its care on.                    *)
LEMMA CareStep == ServerTypeOK /\ HandlersOK /\ NobodyForgotten /\ ServerNext => NobodyForgotten'
<1> SUFFICES ASSUME ServerTypeOK /\ HandlersOK /\ NobodyForgotten, ServerNext PROVE NobodyForgotten'
  OBVIOUS
<1> USE NoneAssumption DEF ServerTypeOK, HandlersOK, NobodyForgotten, PCs, Live, Unborn, sessVars, connVars, restVars
<1>1. ASSUME NEW c \in Conns, NeverAccepted(c) PROVE NobodyForgotten'
  <2>1. \A s \in Sessions : Working(s) => Working(s)'
    BY <1>1, ReturnEffect, WorkingKept DEF NeverAccepted
  <2> QED
    BY <1>1, <2>1 DEF NeverAccepted
<1>2. ASSUME NEW c \in Conns, Resume(c) PROVE NobodyForgotten'
  <2>1. CASE of[c] \in Live
    <3>1. /\ pc' = [pc EXCEPT ![c] = "attach"]
          /\ UNCHANGED <<of, state, attach, timer, doomed>>
      BY <1>2, <2>1 DEF Resume, Go
    <3>2. \A s \in Sessions : Working(s) => Working(s)'
      BY <1>2, <3>1, WorkingKept DEF Resume
    <3> QED
      BY <3>1, <3>2
  <2>2. CASE of[c] \notin Live
    <3>1. \A s \in Sessions : Working(s) => Working(s)'
      BY <1>2, <2>2, ReturnEffect, WorkingKept DEF Resume
    <3> QED
      BY <1>2, <3>1 DEF Resume
  <2> QED
    BY <2>1, <2>2
<1>3. ASSUME NEW c \in Conns, Create(c) PROVE NobodyForgotten'
  BY <1>3 DEF Create, Go, Working
<1>4. ASSUME NEW c \in Conns, CreateFails(c) PROVE NobodyForgotten'
  <2>1. \A s \in Sessions : Working(s) => Working(s)'
    BY <1>4, ReturnEffect, WorkingKept DEF CreateFails
  <2> QED
    BY <1>4, <2>1 DEF CreateFails
<1>5. ASSUME NEW c \in Conns, Attach(c) PROVE NobodyForgotten'
  <2>1. of[c] \in Sessions
    BY <1>5 DEF Attach
  <2>2. CASE of[c] \in Live
    <3>1. /\ attach' = [attach EXCEPT ![of[c]] = c]
          /\ timer' = [timer EXCEPT ![of[c]] = FALSE]
          /\ pc' = [pc EXCEPT ![c] = "loop"]
          /\ UNCHANGED <<state, doomed, of>>
      BY <1>5, <2>2 DEF Attach, Go
    <3>2. \A s \in Sessions : s # of[c] /\ Working(s) => Working(s)'
      BY <3>1, WorkingKept
    <3> QED
      BY <2>1, <3>1, <3>2
  <2>3. CASE of[c] \notin Live
    <3>1. Return(c) /\ UNCHANGED <<state, attach, timer, doomed>>
      BY <1>5, <2>3 DEF Attach
    <3>2. \A s \in Live : Working(s) => Working(s)'
      BY <2>3, <3>1, ReturnEffect, WorkingKept
    <3> QED
      BY <3>1, <3>2
  <2> QED
    BY <2>2, <2>3
<1>6. ASSUME NEW c \in Conns, Detach(c) PROVE NobodyForgotten'
  <2>1. CASE attach[of[c]] = c
    <3>1. /\ attach' = [attach EXCEPT ![of[c]] = None]
          /\ pc' = [pc EXCEPT ![c] = "schedule"]
          /\ UNCHANGED <<state, timer, doomed, of>>
      BY <1>6, <2>1 DEF Detach, Go
    <3>2. \A s \in Sessions : Working(s) \/ s = of[c] => Working(s)'
      BY <1>6, <3>1 DEF Detach, Working
    <3> QED
      BY <3>1, <3>2
  <2>2. CASE attach[of[c]] # c
    <3>1. Return(c) /\ UNCHANGED <<state, attach, timer, doomed>> /\ pc[c] = "loop"
      BY <1>6, <2>2 DEF Detach
    <3>2. \A s \in Sessions : Working(s) => Working(s)'
      BY <3>1, ReturnEffect, WorkingKept
    <3> QED
      BY <3>1, <3>2
  <2> QED
    BY <2>1, <2>2
<1>7. ASSUME NEW c \in Conns, ScheduleIdle(c) PROVE NobodyForgotten'
  <2>1. of[c] \in Sessions
    BY <1>7 DEF ScheduleIdle
  <2>2. /\ timer' = [timer EXCEPT ![of[c]] = of[c] \in Live]
        /\ Return(c) /\ UNCHANGED <<state, attach, doomed>>
    BY <1>7 DEF ScheduleIdle
  <2>3. \A s \in Sessions : s # of[c] /\ Working(s) => Working(s)'
    BY <2>2, ReturnEffect, WorkingKept
  <2>4. ASSUME NEW s \in Live, s = of[c] PROVE timer'[s]
    BY <2>1, <2>2, <2>4
  <2>5. ASSUME NEW s \in Sessions, s # of[c] PROVE timer'[s] = timer[s]
    BY <2>1, <2>2, <2>5
  <2> QED
    BY <2>2, <2>3, <2>4, <2>5
<1>8. ASSUME NEW c \in Conns, Cut(c) PROVE NobodyForgotten'
  BY <1>8 DEF Cut, Working
<1>9. ASSUME NEW s \in Sessions, Reap(s) PROVE NobodyForgotten'
  BY <1>9 DEF Reap, Destroy, Working
<1>10. ASSUME NEW s \in Sessions, TimerFires(s) PROVE NobodyForgotten'
  BY <1>10 DEF TimerFires, Working
<1>11. ASSUME NEW s \in Sessions, Kill(s) PROVE NobodyForgotten'
  BY <1>11 DEF Kill, Destroy, Working
<1>12. ASSUME NEW s \in Sessions, ShellExits(s) PROVE NobodyForgotten'
  BY <1>12 DEF ShellExits, Working
<1>13. ASSUME ListAnswers PROVE NobodyForgotten'
  BY <1>13 DEF ListAnswers, Working
<1>14. ASSUME Restart PROVE NobodyForgotten'
  BY <1>14 DEF Restart, Working
<1>15. ASSUME ClientStep PROVE NobodyForgotten'
  BY <1>15 DEF Working, ClientStep, Dial, HangUp, Receive
<1> QED
  BY <1>1, <1>2, <1>3, <1>4, <1>5, <1>6, <1>7, <1>8, <1>9, <1>10, <1>11, <1>12, <1>13, <1>14, <1>15 DEF ServerNext, Work, Handle, Disturbance

(* The initial states have no session to care for.                        *)
LEMMA InitServerInv == ServerInit => ServerInv
<1> SUFFICES ASSUME ServerInit PROVE ServerInv
  OBVIOUS
<1>1. ServerTypeOK
  BY NoneAssumption DEF ServerInit, ServerTypeOK, PCs, Links, Messages, Listings
<1>2. HandlersOK /\ SinkIsServed /\ NobodyForgotten
  BY NoneAssumption DEF ServerInit, HandlersOK, SinkIsServed, NobodyForgotten, Live
<1> QED
  BY <1>1, <1>2 DEF ServerInv

(* The invariant is inductive.                                             *)
LEMMA ServerInvStep == ServerInv /\ [ServerNext]_serverVars => ServerInv'
<1> SUFFICES ASSUME ServerInv, [ServerNext]_serverVars PROVE ServerInv'
  OBVIOUS
<1>1. CASE ServerNext
  BY <1>1, ServerTypeStep, HandlersStep, SinkStep, CareStep DEF ServerInv
<1>2. CASE UNCHANGED serverVars
  <2>1. ServerTypeOK' /\ HandlersOK' /\ SinkIsServed'
    BY <1>2 DEF ServerInv, serverVars, ServerTypeOK, HandlersOK, SinkIsServed
  <2>2. NobodyForgotten'
    BY <1>2 DEF ServerInv, serverVars, NobodyForgotten, Working, Live
  <2> QED
    BY <2>1, <2>2 DEF ServerInv
<1> QED
  BY <1>1, <1>2

(* Whatever clients do, and in whatever order handlers, timers, kills and  *)
(* readLoops run: types, handlers, sinks and care hold (sessions.go).      *)
THEOREM ServerInvariance == ServerSpec => []ServerInv
<1>1. ServerInit => ServerInv
  BY InitServerInv
<1>2. ServerInv /\ [ServerNext]_serverVars => ServerInv'
  BY ServerInvStep
<1> QED
  BY <1>1, <1>2, PTL DEF ServerSpec

(* A sink that goes away was let go of by its own handler or went with the *)
(* session: Detach compares the connection (sessions.go).                  *)
LEMMA NewestStep ==
  ASSUME ServerTypeOK, SinkIsServed, ServerNext,
         NEW r \in Sessions, attach[r] # None, attach'[r] = None
  PROVE  pc'[attach[r]] = "schedule" \/ state'[r] # "live"
<1> USE NoneAssumption DEF ServerTypeOK, sessVars, connVars, restVars
<1>1. ASSUME NEW c \in Conns, NeverAccepted(c)
      PROVE  pc'[attach[r]] = "schedule" \/ state'[r] # "live"
  BY <1>1 DEF NeverAccepted
<1>2. ASSUME NEW c \in Conns, Resume(c)
      PROVE  pc'[attach[r]] = "schedule" \/ state'[r] # "live"
  BY <1>2 DEF Resume
<1>3. ASSUME NEW c \in Conns, Create(c)
      PROVE  pc'[attach[r]] = "schedule" \/ state'[r] # "live"
  BY <1>3 DEF Create
<1>4. ASSUME NEW c \in Conns, CreateFails(c)
      PROVE  pc'[attach[r]] = "schedule" \/ state'[r] # "live"
  BY <1>4 DEF CreateFails
<1>5. ASSUME NEW c \in Conns, Attach(c)
      PROVE  pc'[attach[r]] = "schedule" \/ state'[r] # "live"
  BY <1>5 DEF Attach
<1>6. ASSUME NEW c \in Conns, Detach(c)
      PROVE  pc'[attach[r]] = "schedule" \/ state'[r] # "live"
  BY <1>6 DEF Detach, Go
<1>7. ASSUME NEW c \in Conns, ScheduleIdle(c)
      PROVE  pc'[attach[r]] = "schedule" \/ state'[r] # "live"
  BY <1>7 DEF ScheduleIdle
<1>8. ASSUME NEW c \in Conns, Cut(c)
      PROVE  pc'[attach[r]] = "schedule" \/ state'[r] # "live"
  BY <1>8 DEF Cut
<1>9. ASSUME NEW s \in Sessions, Reap(s)
      PROVE  pc'[attach[r]] = "schedule" \/ state'[r] # "live"
  BY <1>9 DEF Reap, Destroy
<1>10. ASSUME NEW s \in Sessions, TimerFires(s)
      PROVE  pc'[attach[r]] = "schedule" \/ state'[r] # "live"
  BY <1>10 DEF TimerFires
<1>11. ASSUME NEW s \in Sessions, Kill(s)
      PROVE  pc'[attach[r]] = "schedule" \/ state'[r] # "live"
  BY <1>11 DEF Kill, Destroy
<1>12. ASSUME NEW s \in Sessions, ShellExits(s)
      PROVE  pc'[attach[r]] = "schedule" \/ state'[r] # "live"
  BY <1>12 DEF ShellExits
<1>13. ASSUME ListAnswers
      PROVE  pc'[attach[r]] = "schedule" \/ state'[r] # "live"
  BY <1>13 DEF ListAnswers
<1>14. ASSUME Restart
      PROVE  pc'[attach[r]] = "schedule" \/ state'[r] # "live"
  BY <1>14 DEF Restart
<1>15. ASSUME ClientStep
      PROVE  pc'[attach[r]] = "schedule" \/ state'[r] # "live"
  BY <1>15 DEF ClientStep
<1> QED
  BY <1>1, <1>2, <1>3, <1>4, <1>5, <1>6, <1>7, <1>8, <1>9, <1>10, <1>11, <1>12, <1>13, <1>14, <1>15 DEF ServerNext, Work, Handle, Disturbance

(* An old connection that ends late never takes the session from the newer *)
(* one (the deferred Detach of ws.go).                                     *)
THEOREM NewestKeeps == ServerSpec => NewestKeepsSession
<1> DEFINE Keeps == \A s \in Sessions :
             attach[s] # None /\ attach'[s] = None =>
                pc'[attach[s]] = "schedule" \/ state'[s] # "live"
<1>1. ServerInv /\ [ServerNext]_serverVars => [Keeps]_serverVars
  BY NewestStep DEF ServerInv
<1> QED
  BY <1>1, ServerInvariance, PTL DEF ServerSpec, NewestKeepsSession

(* No step brings back a session that ended: Create takes an id that was    *)
(* never used, and Attach, Detach and the timer look before they act.      *)
LEMMA GoneStays ==
  ASSUME ServerInv, NEW s \in Sessions, state[s] = "gone", [ServerNext]_serverVars
  PROVE  state'[s] = "gone"
<1> USE DEF ServerInv, ServerTypeOK, Live, Unborn, sessVars, connVars, restVars
<1>1. ASSUME NEW c \in Conns, Handle(c) PROVE state'[s] = "gone"
  <2>1. CASE Create(c)
    <3>1. PICK u \in Sessions : state[u] = "unborn" /\ state' = [state EXCEPT ![u] = "live"]
      BY <2>1 DEF Create
    <3>2. u # s
      BY <3>1
    <3> QED
      BY <3>1, <3>2
  <2>2. CASE ~Create(c)
    <3>1. UNCHANGED state
      BY <1>1, <2>2 DEF Handle, NeverAccepted, Resume, CreateFails, Attach, Detach, ScheduleIdle
    <3> QED
      BY <3>1
  <2> QED
    BY <2>1, <2>2
<1>2. ASSUME NEW t \in Sessions, Reap(t) \/ TimerFires(t) \/ Kill(t) \/ ShellExits(t)
      PROVE  state'[s] = "gone"
  <2>1. state' = state \/ state' = [state EXCEPT ![t] = "gone"]
    BY <1>2 DEF Reap, TimerFires, Kill, ShellExits, Destroy
  <2> QED
    BY <2>1
<1>3. CASE Restart
  BY <1>3 DEF Restart
<1>4. CASE ListAnswers \/ ClientStep \/ \E c \in Conns : Cut(c)
  BY <1>4 DEF ListAnswers, ClientStep, Cut
<1>5. CASE UNCHANGED serverVars
  BY <1>5 DEF serverVars
<1> QED
  BY <1>1, <1>2, <1>3, <1>4, <1>5 DEF ServerNext, Work, Disturbance

(* A shell that ended, by a kill, its exit, its timer or a restart, stays   *)
(* ended, and no late Attach puts a sink on it (sessions.go: Destroy).     *)
THEOREM EndedForGood ==
  ASSUME NEW s \in Sessions
  PROVE  ServerSpec => [](state[s] = "gone" => [](state[s] = "gone" /\ attach[s] = None))
<1>1. ServerInv /\ state[s] = "gone" /\ [ServerNext]_serverVars => (state[s] = "gone")'
  BY GoneStays
<1>2. ServerInv /\ state[s] = "gone" => attach[s] = None
  BY DEF ServerInv, SinkIsServed
<1> QED
  BY <1>1, <1>2, ServerInvariance, PTL DEF ServerSpec

=============================================================================
