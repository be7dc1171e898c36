-------------------------- MODULE AuthClientProofs --------------------------
(***************************************************************************)
(* Proofs about AuthClient: its inductive invariant AuthInv, one lemma per *)
(* part with one step per action, and what follows from it.                *)
(***************************************************************************)
EXTENDS AuthClient, FiniteSetTheorems, TLAPS

(* A minted token is a token of its account.                               *)
LEMMA MintIsToken ==
  ASSUME NEW a \in Accounts
  PROVE  Mint(a) \in Tokens /\ Mint(a) # None /\ Mint(a).acct = a
<1>1. Mint(a) \in Tokens /\ Mint(a).acct = a
  BY DEF Mint, Tokens
<1> QED
  BY <1>1, RequestsAssumption DEF Tokens

(* What a sign-in, from whatever answer, does to the store.                *)
LEMMA SignInEffect ==
  ASSUME TypeOK, NEW a \in Accounts, SignIn(a)
  PROVE  /\ store' \in [Accounts -> Tokens \cup {None}]
         /\ current' = a
         /\ store'[a] # None /\ store'[a].acct = a
         /\ \A b \in Accounts : b # a => store'[b] = store[b]
         /\ CurrentIsStored'
<1>1. /\ store' \in [Accounts -> Tokens \cup {None}]
      /\ store'[a] = Mint(a)
      /\ \A b \in Accounts : b # a => store'[b] = store[b]
  BY MintIsToken DEF SignIn, TypeOK
<1>2. current' = a
  BY DEF SignIn
<1> QED
  BY <1>1, <1>2, MintIsToken DEF CurrentIsStored, Stored

(* A sign-out takes the current account away and no other.                 *)
LEMMA SignOutEffect ==
  ASSUME TypeOK, CurrentIsStored, SignOut
  PROVE  /\ store' \in [Accounts -> Tokens \cup {None}]
         /\ current' \in Accounts \cup {None}
         /\ \A b \in Stored(store') : store'[b] = store[b]
         /\ CurrentIsStored'
BY RequestsAssumption DEF SignOut, Successor, TypeOK, CurrentIsStored, Stored

(* Whoever asks for a refresh has one in flight afterwards; a new one is   *)
(* for the current account.                                                *)
LEMMA RefreshEffect ==
  ASSUME TypeOK, TripsOK, NEW r \in Requests, current \in Accounts,
         RefreshAccessToken(r)
  PROVE  /\ trips' \in SUBSET Trips
         /\ inFlight' \in Requests
         /\ \E a \in Accounts : trips' = {[by |-> inFlight', acct |-> a]}
         /\ \A t \in trips' : t \in trips \/ t.acct = current
<1>1. CASE inFlight # None
  BY <1>1 DEF RefreshAccessToken, TypeOK, TripsOK, tripVars
<1>2. CASE inFlight = None
  <2>1. trips' = {[by |-> r, acct |-> current]} /\ inFlight' = r
    BY <1>2 DEF RefreshAccessToken, TripsOK
  <2> QED
    BY <2>1 DEF Trips
<1> QED
  BY <1>1, <1>2

(* What the end of a request does to it, and to no other.                  *)
LEMMA EndsEffect ==
  ASSUME TypeOK, NEW r \in Requests, NEW how \in Ended, Ends(r, how)
  PROVE  /\ pc'[r] = how
         /\ \A q \in Requests : q # r => /\ pc'[q] = pc[q]
                                        /\ as'[q] = as[q]
                                        /\ tok'[q] = tok[q]
         /\ \A q \in Requests :
              pc'[q] \in {"wait1", "wait2"} => pc[q] \in {"wait1", "wait2"}
<1>1. pc' = [pc EXCEPT ![r] = how] /\ pc \in [Requests -> PCs]
  BY DEF Ends, TypeOK
<1>2. as' = [as EXCEPT ![r] = None] /\ as \in [Requests -> Accounts \cup {None}]
  BY DEF Ends, TypeOK
<1>3. tok' = [tok EXCEPT ![r] = None] /\ tok \in [Requests -> Tokens \cup {None}]
  BY DEF Ends, TypeOK
<1>4. how \notin {"wait1", "wait2"}
  BY DEF Ended
<1>5. pc'[r] = how /\ \A q \in Requests : q # r => pc'[q] = pc[q]
  BY <1>1
<1>6. \A q \in Requests : q # r => as'[q] = as[q] /\ tok'[q] = tok[q]
  BY <1>2, <1>3
<1> QED
  BY <1>4, <1>5, <1>6

(* A server that signs a request in lets it end or start again.            *)
LEMMA ReauthorizeEffect ==
  ASSUME TypeOK, NEW r \in Requests, AnswerReauthorize(r)
  PROVE  /\ pc'[r] \in {"ok", "start"}
         /\ \A q \in Requests : q # r => /\ pc'[q] = pc[q]
                                        /\ as'[q] = as[q]
                                        /\ tok'[q] = tok[q]
<1>1. CASE retried[r]
  <2>1. Ends(r, "ok") /\ "ok" \in Ended
    BY <1>1 DEF AnswerReauthorize, Ended
  <2> QED
    BY <2>1, EndsEffect
<1>2. CASE ~retried[r]
  <2>1. pc' = [pc EXCEPT ![r] = "start"] /\ UNCHANGED <<as, tok>>
    BY <1>2 DEF AnswerReauthorize
  <2>2. pc \in [Requests -> PCs]
    BY DEF TypeOK
  <2> QED
    BY <2>1, <2>2
<1> QED
  BY <1>1, <1>2

(* A token that reaches its expiry stays a token of its account.           *)
LEMMA ExpireEffect ==
  ASSUME TypeOK, NEW a \in Accounts, Expire(a)
  PROVE  /\ store' \in [Accounts -> Tokens \cup {None}]
         /\ tok' \in [Requests -> Tokens \cup {None}]
         /\ \A b \in Accounts : /\ store'[b] = None <=> store[b] = None
                                /\ store[b] # None => store'[b].acct = store[b].acct
         /\ \A r \in Requests : /\ tok'[r] = None <=> tok[r] = None
                                /\ tok[r] # None => tok'[r].acct = tok[r].acct
<1> DEFINE Old(t) == IF t # None /\ t.acct = a THEN [t EXCEPT !.fresh = FALSE] ELSE t
<1>1. \A t \in Tokens : Old(t) \in Tokens /\ Old(t).acct = t.acct
  BY DEF Tokens
<1>2. Old(None) = None /\ \A t \in Tokens : t # None
  BY RequestsAssumption DEF Tokens
<1>3. /\ store' = [b \in Accounts |-> Old(store[b])]
      /\ tok' = [r \in Requests |-> Old(tok[r])]
  BY DEF Expire
<1> HIDE DEF Old
<1> QED
  BY <1>1, <1>2, <1>3 DEF TypeOK

(* Every action keeps the types.                                           *)
LEMMA TypeStep == TypeOK /\ CurrentIsStored /\ TripsOK /\ Next => TypeOK'
<1> SUFFICES ASSUME TypeOK /\ CurrentIsStored /\ TripsOK, Step, History PROVE TypeOK'
  BY DEF Next
<1> USE RequestsAssumption DEF TypeOK, History, Tokens, PCs, Ended, Trips,
   Picks, Stored, authVars, reqVars, cfgVars, tripVars
<1>1. ASSUME NEW r \in Requests, Issue(r) PROVE TypeOK'
  BY <1>1 DEF Issue
<1>2. ASSUME NEW r \in Requests, Dispatch(r) PROVE TypeOK'
  <2>1. UNCHANGED <<authVars, page, pick, retried, revoked>>
    BY <1>2 DEF Dispatch
  <2>2. as' \in [Requests -> Accounts \cup {None}]
    BY <1>2 DEF Dispatch
  <2>3. pc' \in [Requests -> PCs]
    BY <1>2 DEF Dispatch
  <2>4. sends' \in [Requests -> Nat]
    BY <1>2 DEF Dispatch
  <2>5. tok' \in [Requests -> Tokens \cup {None}]
    BY <1>2 DEF Dispatch
  <2>6. trips' \in SUBSET Trips /\ inFlight' \in Requests \cup {None}
    BY <1>2, RefreshEffect DEF Dispatch
  <2> QED
    BY <2>1, <2>2, <2>3, <2>4, <2>5, <2>6
<1>3. ASSUME NEW r \in Requests, SendAfterRefresh(r) PROVE TypeOK'
  <2>1. sends' \in [Requests -> Nat]
    BY <1>3 DEF SendAfterRefresh
  <2>2. pc' \in [Requests -> PCs]
    BY <1>3 DEF SendAfterRefresh
  <2> QED
    BY <1>3, <2>1, <2>2 DEF SendAfterRefresh
<1>4. ASSUME NEW r \in Requests, GiveUp(r) PROVE TypeOK'
  BY <1>4 DEF GiveUp, SignOut, Successor, Ends
<1>5. ASSUME NEW r \in Requests, AnswerOk(r) PROVE TypeOK'
  <2>1. CASE r \in Forms
    <3>1. PICK a \in Accounts : SignIn(a)
      BY <1>5, <2>1 DEF AnswerOk
    <3> QED
      BY <1>5, <2>1, <3>1, SignInEffect DEF AnswerOk, Answered, Ends
  <2>2. CASE r \notin Forms
    BY <1>5, <2>2 DEF AnswerOk, Answered, Ends
  <2> QED
    BY <2>1, <2>2
<1>6. ASSUME NEW r \in Requests, AnswerReauthorize(r) PROVE TypeOK'
  <2>1. PICK a \in Accounts : SignIn(a)
    BY <1>6 DEF AnswerReauthorize
  <2>2. store' \in [Accounts -> Tokens \cup {None}] /\ current' \in Accounts \cup {None}
    BY <2>1, SignInEffect
  <2>3. UNCHANGED <<page, pick, tripVars, revoked>>
    BY <1>6 DEF AnswerReauthorize, Answered
  <2>4. CASE retried[r]
    <3>1. Ends(r, "ok")
      BY <1>6, <2>4 DEF AnswerReauthorize
    <3>2. pc' \in [Requests -> PCs] /\ sends' \in [Requests -> Nat]
      BY <3>1 DEF Ends
    <3>3. retried' \in [Requests -> BOOLEAN] /\ as' \in [Requests -> Accounts \cup {None}]
      BY <3>1 DEF Ends
    <3>4. tok' \in [Requests -> Tokens \cup {None}]
      BY <3>1 DEF Ends
    <3> QED
      BY <2>2, <2>3, <3>2, <3>3, <3>4
  <2>5. CASE ~retried[r]
    <3>1. /\ retried' = [retried EXCEPT ![r] = TRUE]
          /\ pc' = [pc EXCEPT ![r] = "start"]
          /\ UNCHANGED <<as, sends, tok>>
      BY <1>6, <2>5 DEF AnswerReauthorize
    <3> QED
      BY <2>2, <2>3, <3>1
  <2> QED
    BY <2>4, <2>5
<1>7. ASSUME NEW r \in Requests, AnswerFailed(r) PROVE TypeOK'
  BY <1>7 DEF AnswerFailed, Answered, Ends
<1>8. ASSUME NEW r \in Requests, Answer401(r) PROVE TypeOK'
  <2>1. CASE /\ current # None
            /\ retried' = [retried EXCEPT ![r] = TRUE]
            /\ pc' = [pc EXCEPT ![r] = "wait2"]
            /\ RefreshAccessToken(r)
            /\ UNCHANGED <<authVars, as, sends, tok>>
    BY <1>8, <2>1, RefreshEffect DEF Answer401, Answered
  <2>2. CASE SignOut /\ Ends(r, "refused") /\ UNCHANGED tripVars
    BY <1>8, <2>2, SignOutEffect DEF Answer401, Answered, Ends
  <2> QED
    BY <1>8, <2>1, <2>2 DEF Answer401
<1>9. ASSUME NEW r \in Requests, LogOut(r) PROVE TypeOK'
  BY <1>9 DEF LogOut, SignOut, Successor
<1>10. ASSUME NEW t \in trips, NEW ok \in BOOLEAN, RefreshSettles(t, ok) PROVE TypeOK'
  <2>1. t.acct \in Accounts /\ Mint(t.acct) \in Tokens
    BY MintIsToken
  <2>2. store' \in [Accounts -> Tokens \cup {None}]
    BY <1>10, <2>1 DEF RefreshSettles, SetAccessToken
  <2>3. pc' \in [Requests -> PCs]
    BY <1>10 DEF RefreshSettles
  <2>4. tok' \in [Requests -> Tokens \cup {None}]
    BY <1>10, <2>1 DEF RefreshSettles
  <2> QED
    BY <1>10, <2>2, <2>3, <2>4 DEF RefreshSettles
<1>11. ASSUME CheckOk PROVE TypeOK'
  BY <1>11 DEF CheckOk, SignIn, Mint
<1>12. ASSUME CheckFails PROVE TypeOK'
  BY <1>12 DEF CheckFails, RemoveStoredSession, Successor
<1>13. ASSUME NEW a \in Accounts, PickAccount(a) PROVE TypeOK'
  BY <1>13 DEF PickAccount
<1>14. ASSUME NEW a \in Accounts, RemoveAccount(a) PROVE TypeOK'
  BY <1>14 DEF RemoveAccount, RemoveStoredSession, Successor
<1>15. ASSUME NEW a \in Accounts, Expire(a) PROVE TypeOK'
  BY <1>15, ExpireEffect DEF Expire
<1>16. ASSUME NEW a \in Accounts, Revoke(a) PROVE TypeOK'
  BY <1>16 DEF Revoke
<1>17. ASSUME LayoutRedirect PROVE TypeOK'
  BY <1>17 DEF LayoutRedirect
<1>18. ASSUME Reload PROVE TypeOK'
  BY <1>18 DEF Reload, Successor
<1> QED
BY <1>1, <1>2, <1>3, <1>4, <1>5, <1>6, <1>7, <1>8, <1>9, <1>10, <1>11, <1>12,
     <1>13, <1>14, <1>15, <1>16, <1>17, <1>18 DEF Step, Continue, Respond,
     RefreshEnds, CheckEnds

(* Every action leaves a current session exactly when one is stored.       *)
LEMMA StoreStep == TypeOK /\ CurrentIsStored /\ Next => CurrentIsStored'
<1> SUFFICES ASSUME TypeOK, CurrentIsStored, Step PROVE CurrentIsStored'
  BY DEF Next
<1>0. /\ store \in [Accounts -> Tokens \cup {None}]
      /\ pick \in Picks \cup {None}
      /\ current \in Accounts \cup {None}
  BY DEF TypeOK
<1>1. ASSUME UNCHANGED authVars PROVE CurrentIsStored'
  BY <1>1 DEF CurrentIsStored, Stored, authVars
<1>2. ASSUME NEW a \in Accounts, SignIn(a) PROVE CurrentIsStored'
  BY <1>2, SignInEffect
<1>3. ASSUME SignOut PROVE CurrentIsStored'
  BY <1>3, SignOutEffect
<1>4. ASSUME NEW a \in Accounts, RemoveStoredSession(a) PROVE CurrentIsStored'
  <2>1. store'[a] = None /\ \A b \in Accounts : b # a => store'[b] = store[b]
    BY <1>0, <1>4 DEF RemoveStoredSession
  <2>2. CASE current = a
    BY <1>4, <2>2 DEF RemoveStoredSession, Successor, CurrentIsStored
  <2>3. CASE current # a
    <3>1. current' = current
      BY <1>4, <2>3 DEF RemoveStoredSession
    <3> QED
      BY <2>1, <2>3, <3>1, RequestsAssumption DEF CurrentIsStored, Stored
  <2> QED
    BY <2>2, <2>3
<1>5. ASSUME UNCHANGED current,
             \A a \in Accounts : store'[a] = None <=> store[a] = None
      PROVE  CurrentIsStored'
  BY <1>5 DEF CurrentIsStored, Stored
<1>6. ASSUME NEW r \in Requests, Issue(r) \/ Continue(r) PROVE CurrentIsStored'
  BY <1>1, <1>3, <1>6 DEF Issue, Continue, Dispatch, SendAfterRefresh, GiveUp
<1>7. ASSUME NEW r \in Requests, Respond(r) PROVE CurrentIsStored'
  <2>1. UNCHANGED authVars \/ SignOut \/ \E a \in Accounts : SignIn(a)
    BY <1>7 DEF Respond, AnswerOk, AnswerReauthorize, AnswerFailed, Answer401, authVars
  <2> QED
    BY <1>1, <1>2, <1>3, <2>1
<1>8. ASSUME NEW r \in Requests, LogOut(r) PROVE CurrentIsStored'
  BY <1>3, <1>8 DEF LogOut
<1>9. ASSUME NEW t \in trips, NEW ok \in BOOLEAN, RefreshSettles(t, ok) PROVE CurrentIsStored'
  <2>1. Mint(t.acct) # None
    BY MintIsToken DEF TypeOK, Trips
  <2>2. \/ UNCHANGED store
        \/ current # None /\ store' = [store EXCEPT ![current] = Mint(t.acct)]
    BY <1>9 DEF RefreshSettles, SetAccessToken
  <2>3. UNCHANGED current
    BY <1>9 DEF RefreshSettles
  <2>4. current # None => store[current] # None
    BY DEF CurrentIsStored, Stored
  <2> QED
    BY <1>0, <1>5, <2>1, <2>2, <2>3, <2>4
<1>10. CASE CheckOk
  <2>1. pick.acct \in Accounts /\ SignIn(pick.acct)
    BY <1>0, <1>10 DEF CheckOk, Picks
  <2> QED
    BY <1>2, <2>1
<1>11. CASE CheckFails
  <2>1. pick.acct \in Accounts
    BY <1>0, <1>11 DEF CheckFails, Picks
  <2>2. CASE RemoveStoredSession(pick.acct)
    BY <1>4, <2>1, <2>2
  <2>3. CASE /\ pick.prev # pick.acct /\ pick.prev \in Stored(store)
            /\ store' = [store EXCEPT ![pick.acct] = None]
            /\ current' = pick.prev
    <3>1. current' \in Stored(store')
      BY <1>0, <2>1, <2>3 DEF Stored
    <3> QED
      BY <3>1 DEF CurrentIsStored
  <2> QED
    BY <1>11, <2>2, <2>3 DEF CheckFails
<1>12. ASSUME NEW a \in Accounts, PickAccount(a) PROVE CurrentIsStored'
  BY <1>12 DEF PickAccount, CurrentIsStored, Stored
<1>13. ASSUME NEW a \in Accounts, RemoveAccount(a) PROVE CurrentIsStored'
  BY <1>4, <1>13 DEF RemoveAccount
<1>14. ASSUME NEW a \in Accounts, Expire(a) PROVE CurrentIsStored'
  <2>1. UNCHANGED current
    BY <1>14 DEF Expire
  <2> QED
    BY <1>5, <1>14, <2>1, ExpireEffect
<1>15. ASSUME NEW a \in Accounts, Revoke(a) PROVE CurrentIsStored'
  BY <1>1, <1>15 DEF Revoke
<1>16. CASE LayoutRedirect
  BY <1>1, <1>16 DEF LayoutRedirect
<1>17. CASE Reload
  BY <1>17 DEF Reload, Successor, CurrentIsStored, Stored
<1> QED
BY <1>6, <1>7, <1>8, <1>9, <1>10, <1>11, <1>12, <1>13, <1>14, <1>15, <1>16, <1>17
DEF Step, RefreshEnds, CheckEnds

(* inFlight keeps naming the one trip, and whoever awaits has one.         *)
LEMMA TripsStep == TypeOK /\ CurrentIsStored /\ TripsOK /\ Next => TripsOK'
<1> SUFFICES ASSUME TypeOK /\ CurrentIsStored /\ TripsOK, Step, History PROVE TripsOK'
  BY DEF Next
<1> USE RequestsAssumption DEF TripsOK, TypeOK, CurrentIsStored, PCs, Ended,
   Stored, authVars, reqVars, cfgVars, tripVars
<1>1. ASSUME NEW r \in Requests, Issue(r) PROVE TripsOK'
  BY <1>1 DEF Issue
<1>2. ASSUME NEW r \in Requests, Dispatch(r) PROVE TripsOK'
  BY <1>2 DEF Dispatch, RefreshAccessToken
<1>3. ASSUME NEW r \in Requests, SendAfterRefresh(r) PROVE TripsOK'
  BY <1>3 DEF SendAfterRefresh
<1>4. ASSUME NEW r \in Requests, GiveUp(r) PROVE TripsOK'
  BY <1>4 DEF GiveUp, SignOut, Successor, Ends
<1>5. ASSUME NEW r \in Requests, AnswerOk(r) PROVE TripsOK'
  BY <1>5 DEF AnswerOk, Answered, Ends
<1>6. ASSUME NEW r \in Requests, AnswerReauthorize(r) PROVE TripsOK'
  <2>1. UNCHANGED tripVars
    BY <1>6 DEF AnswerReauthorize
  <2>2. \A q \in Requests : pc'[q] \in {"wait1", "wait2"} => pc[q] \in {"wait1", "wait2"}
    BY <1>6, ReauthorizeEffect
  <2> QED
    BY <2>1, <2>2
<1>7. ASSUME NEW r \in Requests, AnswerFailed(r) PROVE TripsOK'
  BY <1>7 DEF AnswerFailed, Answered, Ends
<1>8. ASSUME NEW r \in Requests, Answer401(r) PROVE TripsOK'
  <2>1. CASE /\ current # None
            /\ pc' = [pc EXCEPT ![r] = "wait2"]
            /\ RefreshAccessToken(r)
    BY <2>1 DEF RefreshAccessToken
  <2>2. CASE Ends(r, "refused") /\ UNCHANGED tripVars
    BY <2>2 DEF Ends
  <2> QED
    BY <1>8, <2>1, <2>2 DEF Answer401
<1>9. ASSUME NEW r \in Requests, LogOut(r) PROVE TripsOK'
  BY <1>9 DEF LogOut, SignOut, Successor
<1>10. ASSUME NEW t \in trips, NEW ok \in BOOLEAN, RefreshSettles(t, ok) PROVE TripsOK'
  BY <1>10 DEF RefreshSettles, SetAccessToken, Mint
<1>11. ASSUME CheckOk PROVE TripsOK'
  BY <1>11 DEF CheckOk, SignIn, Mint
<1>12. ASSUME CheckFails PROVE TripsOK'
  BY <1>12 DEF CheckFails, RemoveStoredSession, Successor
<1>13. ASSUME NEW a \in Accounts, PickAccount(a) PROVE TripsOK'
  BY <1>13 DEF PickAccount
<1>14. ASSUME NEW a \in Accounts, RemoveAccount(a) PROVE TripsOK'
  BY <1>14 DEF RemoveAccount, RemoveStoredSession, Successor
<1>15. ASSUME NEW a \in Accounts, Expire(a) PROVE TripsOK'
  BY <1>15 DEF Expire
<1>16. ASSUME NEW a \in Accounts, Revoke(a) PROVE TripsOK'
  BY <1>16 DEF Revoke
<1>17. ASSUME LayoutRedirect PROVE TripsOK'
  BY <1>17 DEF LayoutRedirect
<1>18. ASSUME Reload PROVE TripsOK'
  BY <1>18 DEF Reload, Successor
<1> QED
BY <1>1, <1>2, <1>3, <1>4, <1>5, <1>6, <1>7, <1>8, <1>9, <1>10, <1>11, <1>12,
     <1>13, <1>14, <1>15, <1>16, <1>17, <1>18 DEF Step, Continue, Respond,
     RefreshEnds, CheckEnds

(* A retry is counted before the request goes out again.                   *)
LEMMA SendsStep == TypeOK /\ SendsOK /\ Next => SendsOK'
<1> SUFFICES ASSUME TypeOK /\ SendsOK, Step, History PROVE SendsOK'
  BY DEF Next
<1> USE RequestsAssumption DEF SendsOK, TypeOK, PCs, Ended, authVars, reqVars,
   cfgVars, tripVars
<1>1. ASSUME NEW r \in Requests, Issue(r) PROVE SendsOK'
  BY <1>1 DEF Issue
<1>2. ASSUME NEW r \in Requests, Dispatch(r) PROVE SendsOK'
  BY <1>2 DEF Dispatch, RefreshAccessToken
<1>3. ASSUME NEW r \in Requests, SendAfterRefresh(r) PROVE SendsOK'
  BY <1>3 DEF SendAfterRefresh
<1>4. ASSUME NEW r \in Requests, GiveUp(r) PROVE SendsOK'
  BY <1>4 DEF GiveUp, SignOut, Successor, Ends
<1>5. ASSUME NEW r \in Requests, AnswerOk(r) PROVE SendsOK'
  BY <1>5 DEF AnswerOk, Answered, Ends
<1>6. ASSUME NEW r \in Requests, AnswerReauthorize(r) PROVE SendsOK'
  <2>1. CASE retried[r]
    <3>1. Ends(r, "ok")
      BY <1>6, <2>1 DEF AnswerReauthorize
    <3> QED
      BY <3>1 DEF Ends
  <2>2. CASE ~retried[r]
    <3>1. /\ pc[r] = "wire"
          /\ retried' = [retried EXCEPT ![r] = TRUE]
          /\ pc' = [pc EXCEPT ![r] = "start"]
          /\ UNCHANGED <<as, sends, tok>>
      BY <1>6, <2>2 DEF AnswerReauthorize, Answered
    <3> QED
      BY <2>2, <3>1
  <2> QED
    BY <2>1, <2>2
<1>7. ASSUME NEW r \in Requests, AnswerFailed(r) PROVE SendsOK'
  BY <1>7 DEF AnswerFailed, Answered, Ends
<1>8. ASSUME NEW r \in Requests, Answer401(r) PROVE SendsOK'
  <2>1. CASE /\ ~retried[r]
            /\ retried' = [retried EXCEPT ![r] = TRUE]
            /\ pc' = [pc EXCEPT ![r] = "wait2"]
            /\ UNCHANGED <<as, sends, tok>>
    <3>1. pc[r] = "wire"
      BY <1>8 DEF Answer401, Answered
    <3> QED
      BY <2>1, <3>1
  <2>2. CASE Ends(r, "refused")
    BY <2>2 DEF Ends
  <2> QED
    BY <1>8, <2>1, <2>2 DEF Answer401
<1>9. ASSUME NEW r \in Requests, LogOut(r) PROVE SendsOK'
  BY <1>9 DEF LogOut, SignOut, Successor
<1>10. ASSUME NEW t \in trips, NEW ok \in BOOLEAN, RefreshSettles(t, ok) PROVE SendsOK'
  BY <1>10 DEF RefreshSettles, SetAccessToken, Mint
<1>11. ASSUME CheckOk PROVE SendsOK'
  BY <1>11 DEF CheckOk, SignIn, Mint
<1>12. ASSUME CheckFails PROVE SendsOK'
  BY <1>12 DEF CheckFails, RemoveStoredSession, Successor
<1>13. ASSUME NEW a \in Accounts, PickAccount(a) PROVE SendsOK'
  BY <1>13 DEF PickAccount
<1>14. ASSUME NEW a \in Accounts, RemoveAccount(a) PROVE SendsOK'
  BY <1>14 DEF RemoveAccount, RemoveStoredSession, Successor
<1>15. ASSUME NEW a \in Accounts, Expire(a) PROVE SendsOK'
  BY <1>15 DEF Expire
<1>16. ASSUME NEW a \in Accounts, Revoke(a) PROVE SendsOK'
  BY <1>16 DEF Revoke
<1>17. ASSUME LayoutRedirect PROVE SendsOK'
  BY <1>17 DEF LayoutRedirect
<1>18. ASSUME Reload PROVE SendsOK'
  <2>1. \A r \in Requests : sends'[r] = 0 /\ ~retried'[r]
    BY <1>18 DEF Reload
  <2>2. \A r \in Requests : pc'[r] \in {"idle"} \cup Ended
    BY <1>18 DEF Reload, Busy
  <2> QED
    BY <2>1, <2>2
<1> QED
BY <1>1, <1>2, <1>3, <1>4, <1>5, <1>6, <1>7, <1>8, <1>9, <1>10, <1>11, <1>12,
     <1>13, <1>14, <1>15, <1>16, <1>17, <1>18 DEF Step, Continue, Respond,
     RefreshEnds, CheckEnds

(* A step that leaves the trip, and with it the current account, alone and *)
(* lets no request but those that already have their token near the wire.  *)
LEMMA HomeKept ==
  ASSUME TypeOK, TripsOK, AtHome, UNCHANGED tripVars,
         trips = {} \/ current' = current,
         \A a \in Stored(store') : store'[a].acct = a,
         \A q \in Requests : pc'[q] \in {"wait1", "ready", "wire"} =>
            /\ pc[q] \in {"wait1", "ready", "wire"}
            /\ pc'[q] = "wait1" => pc[q] = "wait1"
            /\ as'[q] = as[q] /\ tok'[q] = tok[q]
  PROVE  AtHome'
<1>1. \A t \in trips' : t.acct = current'
  BY DEF AtHome, tripVars
<1>2. \A q \in Requests : pc'[q] = "wait1" => as'[q] = current' /\ as'[q] # None
  <2> SUFFICES ASSUME NEW q \in Requests, pc'[q] = "wait1"
               PROVE  as'[q] = current' /\ as'[q] # None
    OBVIOUS
  <2>1. pc[q] = "wait1" /\ as'[q] = as[q]
    OBVIOUS
  <2>2. trips # {}
    BY <2>1 DEF TripsOK
  <2> QED
    BY <2>1, <2>2 DEF AtHome
<1>3. \A q \in Requests :
        pc'[q] \in {"wait1", "ready", "wire"} /\ as'[q] # None =>
          tok'[q] # None /\ tok'[q].acct = as'[q]
  BY DEF AtHome
<1> QED
  BY <1>1, <1>2, <1>3 DEF AtHome

(* Tokens stay with their account until a change crosses a refresh.        *)
LEMMA HomeStep == TypeOK /\ CurrentIsStored /\ TripsOK /\ HomeOK /\ Next => HomeOK'
<1> SUFFICES ASSUME TypeOK, CurrentIsStored, TripsOK, AtHome, Step,
                    trips = {} \/ trips' = {} \/ current' = current
             PROVE  AtHome'
  BY DEF Next, History, HomeOK
<1> DEFINE Near == {"wait1", "ready", "wire"}
           Homely == \A a \in Stored(store') : store'[a].acct = a
<1>0. /\ store \in [Accounts -> Tokens \cup {None}]
      /\ pc \in [Requests -> PCs]
      /\ as \in [Requests -> Accounts \cup {None}]
      /\ tok \in [Requests -> Tokens \cup {None}]
      /\ \A a \in Stored(store) : store[a].acct = a
      /\ UNCHANGED store => Homely
  BY DEF TypeOK, AtHome
<1> USE DEF authVars, reqVars, cfgVars, tripVars
(* The cases of HomeKept: a request ends, one moves on, or none does.      *)
<1>a. ASSUME NEW r \in Requests, NEW how \in Ended, Ends(r, how),
             UNCHANGED tripVars, Homely
      PROVE  AtHome'
  <2>1. \A q \in Requests : pc'[q] \in Near =>
          pc'[q] = pc[q] /\ as'[q] = as[q] /\ tok'[q] = tok[q]
    BY <1>a, EndsEffect DEF Ended
  <2> QED
    BY <1>a, <2>1, HomeKept
<1>b. ASSUME NEW r \in Requests, NEW p, pc' = [pc EXCEPT ![r] = p],
             p \in Near => p = "wire" /\ pc[r] = "ready",
             UNCHANGED <<as, tok>>, UNCHANGED tripVars, Homely
      PROVE  AtHome'
  <2>1. \A q \in Requests : pc'[q] \in Near =>
          /\ pc[q] \in Near
          /\ pc'[q] = "wait1" => pc[q] = "wait1"
    BY <1>0, <1>b
  <2> QED
    BY <1>b, <2>1, HomeKept
<1>c. ASSUME UNCHANGED <<pc, as, tok>>, UNCHANGED tripVars, Homely
      PROVE  AtHome'
  BY <1>c, HomeKept
<1>d. ASSUME NEW a \in Accounts, SignIn(a)
      PROVE  Homely
  BY <1>0, <1>d, SignInEffect DEF Stored
<1>e. ASSUME SignOut
      PROVE  Homely
  BY <1>0, <1>e, SignOutEffect DEF Stored
<1>f. ASSUME NEW a \in Accounts, store' = [store EXCEPT ![a] = None]
      PROVE  Homely
  BY <1>0, <1>f DEF Stored
<1>1. ASSUME NEW r \in Requests, Issue(r) PROVE AtHome'
  BY <1>0, <1>1, <1>b DEF Issue
<1>2. ASSUME NEW r \in Requests, Dispatch(r) PROVE AtHome'
  <2>1. /\ UNCHANGED authVars /\ as' = [as EXCEPT ![r] = current] /\ pc[r] = "start"
        /\ Homely
    BY <1>0, <1>2 DEF Dispatch
  <2>2. \A q \in Requests : q # r => as'[q] = as[q]
    BY <1>0, <2>1
  <2>3. CASE current = None
    <3>1. pc' = [pc EXCEPT ![r] = "wire"] /\ UNCHANGED <<tok, tripVars>>
      BY <1>2, <2>3 DEF Dispatch
    <3>2. \A q \in Requests : q # r => pc'[q] = pc[q]
      BY <1>0, <3>1
    <3>3. pc'[r] = "wire" /\ as'[r] = None
      BY <1>0, <2>1, <2>3, <3>1
    <3> QED
      BY <2>1, <2>2, <3>1, <3>2, <3>3 DEF AtHome
  <2>4. CASE current # None
    <3>1. store[current] \in Tokens /\ current \in Accounts /\ store[current].acct = current
      BY <1>0, <2>4 DEF CurrentIsStored, Stored
    <3>2. tok' = [tok EXCEPT ![r] = store[current]]
      BY <1>2, <2>4 DEF Dispatch
    <3>3. /\ pc' = [pc EXCEPT ![r] = "wire"] \/ pc' = [pc EXCEPT ![r] = "wait1"]
          /\ UNCHANGED tripVars \/ RefreshAccessToken(r)
      BY <1>2, <2>4 DEF Dispatch
    <3>4. \A t \in trips' : t.acct = current'
      BY <2>1, <3>1, <3>3, RefreshEffect DEF AtHome
    <3>5. tok'[r] # None /\ tok'[r].acct = current /\ as'[r] = current
      <4>1. tok'[r] = store[current] /\ as'[r] = current
        BY <1>0, <2>1, <3>2
      <4> QED
        BY <3>1, <4>1, RequestsAssumption DEF Tokens
    <3>6. \A q \in Requests : q # r => pc'[q] = pc[q] /\ tok'[q] = tok[q]
      BY <1>0, <3>2, <3>3
    <3>7. \A q \in Requests : pc'[q] = "wait1" => as'[q] = current' /\ as'[q] # None
      <4>1. as'[r] = current' /\ as'[r] # None
        BY <2>1, <2>4, <3>5
      <4>2. ASSUME NEW q \in Requests, q # r, pc'[q] = "wait1"
            PROVE  as'[q] = current' /\ as'[q] # None
        <5>1. pc[q] = "wait1" /\ as'[q] = as[q]
          BY <2>2, <3>6, <4>2
        <5> QED
          BY <2>1, <5>1 DEF AtHome
      <4> QED
        BY <4>1, <4>2
    <3>8. \A q \in Requests :
            pc'[q] \in {"wait1", "ready", "wire"} /\ as'[q] # None =>
              tok'[q] # None /\ tok'[q].acct = as'[q]
      BY <2>2, <3>5, <3>6 DEF AtHome
    <3> QED
      BY <2>1, <3>4, <3>7, <3>8 DEF AtHome
  <2> QED
    BY <2>3, <2>4
<1>3. ASSUME NEW r \in Requests, SendAfterRefresh(r) PROVE AtHome'
  BY <1>0, <1>3, <1>b DEF SendAfterRefresh
<1>4. ASSUME NEW r \in Requests, GiveUp(r) PROVE AtHome'
  BY <1>4, <1>a, <1>e DEF GiveUp, Ended
<1>5. ASSUME NEW r \in Requests, AnswerOk(r) PROVE AtHome'
  <2>1. Ends(r, "ok") /\ UNCHANGED tripVars
    BY <1>5 DEF AnswerOk
  <2>2. Homely
    BY <1>0, <1>5, <1>d DEF AnswerOk
  <2> QED
    BY <1>a, <2>1, <2>2 DEF Ended
<1>6. ASSUME NEW r \in Requests, AnswerReauthorize(r) PROVE AtHome'
  <2>1. UNCHANGED tripVars /\ Homely
    BY <1>6, <1>d DEF AnswerReauthorize
  <2>2. \A q \in Requests : pc'[q] \in Near =>
          pc'[q] = pc[q] /\ as'[q] = as[q] /\ tok'[q] = tok[q]
    BY <1>6, ReauthorizeEffect
  <2> QED
    BY <2>1, <2>2, HomeKept
<1>7. ASSUME NEW r \in Requests, AnswerFailed(r) PROVE AtHome'
  BY <1>0, <1>7, <1>a DEF AnswerFailed, Ended
<1>8. ASSUME NEW r \in Requests, Answer401(r) PROVE AtHome'
  <2>1. CASE /\ current # None
            /\ pc' = [pc EXCEPT ![r] = "wait2"]
            /\ RefreshAccessToken(r)
            /\ UNCHANGED <<authVars, as, sends, tok>>
    <3>1. current \in Accounts /\ current' = current /\ Homely
      BY <1>0, <2>1 DEF TypeOK
    <3>2. \A t \in trips' : t.acct = current'
      BY <2>1, <3>1, RefreshEffect DEF AtHome
    <3>3. \A q \in Requests : pc'[q] \in Near => pc'[q] = pc[q]
      BY <1>0, <2>1
    <3> QED
      BY <2>1, <3>1, <3>2, <3>3 DEF AtHome
  <2>2. CASE SignOut /\ Ends(r, "refused") /\ UNCHANGED tripVars
    BY <1>a, <1>e, <2>2 DEF Ended
  <2> QED
    BY <1>8, <2>1, <2>2 DEF Answer401
<1>9. ASSUME NEW r \in Requests, LogOut(r) PROVE AtHome'
  BY <1>0, <1>9, <1>b, <1>e DEF LogOut
<1>10. ASSUME NEW t \in trips, NEW ok \in BOOLEAN, RefreshSettles(t, ok) PROVE AtHome'
  <2>1. t.acct \in Accounts /\ t.acct = current
    BY DEF Trips, TypeOK, AtHome
  <2>2. trips' = {}
    <3>1. trips' = trips \ {t} /\ \A u \in trips : u = t
      BY <1>10 DEF RefreshSettles, TripsOK
    <3> QED
      BY <3>1
  <2>3. Homely
    <3>1. store' = IF ok THEN [store EXCEPT ![current] = Mint(current)] ELSE store
      BY <1>10, <2>1, RequestsAssumption DEF RefreshSettles, SetAccessToken
    <3>2. Mint(current).acct = current
      BY <2>1, MintIsToken
    <3> QED
      BY <1>0, <2>1, <3>1, <3>2 DEF Stored
  <2>4. /\ UNCHANGED as
        /\ \A q \in Requests :
             /\ pc'[q] # "wait1"
             /\ pc'[q] \in {"ready", "wire"} => pc[q] = pc'[q] \/ pc[q] = "wait1"
             /\ tok'[q] = tok[q] \/ (pc[q] \in {"wait1", "wait2"} /\ tok'[q] = Mint(t.acct))
    BY <1>10 DEF RefreshSettles
  <2>5. Mint(t.acct) # None /\ Mint(t.acct).acct = t.acct
    BY <2>1, MintIsToken
  <2>6. \A q \in Requests : pc'[q] \in {"ready", "wire"} /\ as'[q] # None =>
           tok'[q] # None /\ tok'[q].acct = as'[q]
    BY <2>1, <2>4, <2>5 DEF AtHome
  <2> QED
    BY <2>2, <2>3, <2>4, <2>6 DEF AtHome
<1>11. ASSUME CheckOk PROVE AtHome'
  <2>1. pick.acct \in Accounts /\ SignIn(pick.acct) /\ UNCHANGED <<reqVars, tripVars>>
    BY <1>11 DEF CheckOk, TypeOK, Picks
  <2> QED
    BY <1>c, <1>d, <2>1
<1>12. ASSUME CheckFails PROVE AtHome'
  <2>1. pick.acct \in Accounts /\ UNCHANGED <<reqVars, tripVars>>
    BY <1>12 DEF CheckFails, TypeOK, Picks
  <2>2. store' = [store EXCEPT ![pick.acct] = None]
    BY <1>12 DEF CheckFails, RemoveStoredSession
  <2> QED
    BY <1>c, <1>f, <2>1, <2>2
<1>13. ASSUME NEW a \in Accounts, PickAccount(a) PROVE AtHome'
  BY <1>0, <1>13, <1>c DEF PickAccount
<1>14. ASSUME NEW a \in Accounts, RemoveAccount(a) PROVE AtHome'
  BY <1>14, <1>c, <1>f DEF RemoveAccount, RemoveStoredSession
<1>15. ASSUME NEW a \in Accounts, Expire(a) PROVE AtHome'
  <2>1. UNCHANGED <<current, pc, as, tripVars>>
    BY <1>15 DEF Expire
  <2>2. Homely
    BY <1>0, <1>15, ExpireEffect DEF Stored
  <2>3. \A r \in Requests : tok[r] # None => tok'[r] # None /\ tok'[r].acct = tok[r].acct
    BY <1>15, ExpireEffect
  <2> QED
    BY <2>1, <2>2, <2>3 DEF AtHome
<1>16. ASSUME NEW a \in Accounts, Revoke(a) PROVE AtHome'
  BY <1>0, <1>16, <1>c DEF Revoke
<1>17. ASSUME LayoutRedirect PROVE AtHome'
  BY <1>0, <1>17, <1>c DEF LayoutRedirect
<1>18. ASSUME Reload PROVE AtHome'
  <2>1. Homely /\ trips' = {} /\ \A q \in Requests : as'[q] = None
    BY <1>0, <1>18 DEF Reload
  <2>2. \A q \in Requests : pc'[q] # "wait1"
    BY <1>18 DEF Reload
  <2> QED
    BY <2>1, <2>2 DEF AtHome
<1> QED
BY <1>1, <1>2, <1>3, <1>4, <1>5, <1>6, <1>7, <1>8, <1>9, <1>10, <1>11, <1>12,
     <1>13, <1>14, <1>15, <1>16, <1>17, <1>18 DEF Step, Continue, Respond,
     RefreshEnds, CheckEnds

(* The first state satisfies the invariant.                                *)
LEMMA InitInv == Init => AuthInv
<1> SUFFICES ASSUME Init PROVE AuthInv
  OBVIOUS
<1> USE RequestsAssumption DEF Init
<1>1. TypeOK
  BY DEF TypeOK, PCs, Tokens, Stored
<1>2. CurrentIsStored
  BY DEF CurrentIsStored
<1>3. TripsOK /\ SendsOK /\ HomeOK
  BY DEF TripsOK, SendsOK, HomeOK, AtHome, Ended
<1> QED
  BY <1>1, <1>2, <1>3 DEF AuthInv

(* No step and no stuttering leaves the invariant.                         *)
LEMMA AuthStep == AuthInv /\ [Next]_vars => AuthInv'
<1>1. CASE Next
  BY <1>1, TypeStep, StoreStep, TripsStep, SendsStep, HomeStep DEF AuthInv
<1>2. CASE UNCHANGED vars
  BY <1>2 DEF vars, AuthInv, TypeOK, CurrentIsStored, Stored, TripsOK,
              SendsOK, HomeOK, AtHome
<1> QED
  BY <1>1, <1>2

(* AuthInv holds in every reachable state of the client, for any accounts  *)
(* and requests.                                                           *)
THEOREM AuthInvariance == Spec => []AuthInv
BY InitInv, AuthStep, PTL DEF Spec

(* The client's variables keep their types.                                *)
THEOREM Types == Spec => []TypeOK
<1>1. AuthInv => TypeOK
  BY DEF AuthInv
<1> QED
  BY <1>1, AuthInvariance, PTL

(* Some session is current exactly when one is stored.                     *)
THEOREM StoreHasCurrent == Spec => []CurrentIsStored
<1>1. AuthInv => CurrentIsStored
  BY DEF AuthInv
<1> QED
  BY <1>1, AuthInvariance, PTL

(* All callers of refreshAccessToken share one round trip (refresh.ts).    *)
THEOREM OneTrip == Spec => []SingleFlight
<1>1. AuthInv => SingleFlight
  BY DEF AuthInv, TripsOK, SingleFlight
<1> QED
  BY <1>1, AuthInvariance, PTL

(* Whoever awaits a refresh awaits one that is on the wire.                *)
THEOREM NobodyStranded == Spec => []WaitersHaveTrip
<1>1. AuthInv => WaitersHaveTrip
  BY DEF AuthInv, TripsOK, WaitersHaveTrip
<1> QED
  BY <1>1, AuthInvariance, PTL

(* No request goes out more than twice, retries of both kinds included.    *)
THEOREM BoundedRetries == Spec => []AtMostTwoSends
<1>1. AuthInv => AtMostTwoSends
  <2> SUFFICES ASSUME AuthInv, NEW r \in Requests PROVE sends[r] <= 2
    BY DEF AtMostTwoSends
  <2>1. pc[r] \in PCs /\ sends[r] \in Nat
    BY DEF AuthInv, TypeOK
  <2>2. pc[r] \in {"start", "wait1", "ready", "wire", "wait2", "giveup", "idle"} \cup Ended
    BY <2>1 DEF PCs
  <2> QED
    BY <2>1, <2>2 DEF AuthInv, SendsOK
<1> QED
  BY <1>1, AuthInvariance, PTL

(* Tokens stay with their account unless an account change crosses a       *)
(* refresh.                                                                *)
THEOREM TokensAtHome == Spec => []TokensStayHome
<1>1. AuthInv => TokensStayHome
  BY DEF AuthInv, HomeOK, AtHome, TokensStayHome
<1> QED
  BY <1>1, AuthInvariance, PTL

(* Of a step that keeps every account but one in the store, at most that   *)
(* one is lost.                                                            *)
LEMMA OneLost ==
  ASSUME NEW a \in Accounts,
         \A b \in Accounts : b # a /\ store[b] # None => store'[b] # None
  PROVE  LET lost == Stored(store) \ Stored(store')
         IN  lost # {} => lost = {a} /\ Cardinality(lost) = 1
<1> DEFINE lost == Stored(store) \ Stored(store')
<1>1. lost \subseteq {a}
  BY DEF Stored
<1>2. Cardinality({a}) = 1
  BY FS_Singleton
<1>3. lost # {} => lost = {a}
  BY <1>1
<1> QED
  BY <1>2, <1>3

(* Without a lost account there is nothing to show.                        *)
LEMMA NoneLost ==
  ASSUME \A b \in Accounts : store[b] # None => store'[b] # None
  PROVE  Stored(store) \ Stored(store') = {}
BY DEF Stored

(* A sign-out loses the account that was current, or none.                 *)
LEMMA SignOutLoses ==
  ASSUME TypeOK, SignOut
  PROVE  LET lost == Stored(store) \ Stored(store')
         IN  lost # {} => lost = {current} /\ Cardinality(lost) = 1
<1>1. CASE current = None
  BY <1>1 DEF SignOut
<1>2. CASE current # None
  <2>1. current \in Accounts
    BY <1>2 DEF TypeOK
  <2>2. store' = [store EXCEPT ![current] = None]
    BY <1>2 DEF SignOut
  <2>3. \A b \in Accounts : b # current /\ store[b] # None => store'[b] # None
    BY <2>1, <2>2 DEF TypeOK
  <2> QED
    BY <2>1, <2>3, OneLost
<1> QED
  BY <1>1, <1>2

(* The action of LossHasCause, step by step.                               *)
LEMMA LossStep ==
  ASSUME AuthInv, [Next]_vars,
         Stored(store) \ Stored(store') # {}
  PROVE  LET lost == Stored(store) \ Stored(store')
         IN  /\ Cardinality(lost) = 1
             /\ \/ pick # None /\ UNCHANGED pc
                \/ page = "signin" /\ UNCHANGED pc
                \/ page = "app" /\ page' = "leaving" /\ current \in lost
                \/ \E r \in Requests :
                      pc[r] \in {"wire", "giveup"} /\ pc'[r] = "refused"
<1> DEFINE lost == Stored(store) \ Stored(store')
           Goal == /\ Cardinality(lost) = 1
                   /\ \/ pick # None /\ UNCHANGED pc
                      \/ page = "signin" /\ UNCHANGED pc
                      \/ page = "app" /\ page' = "leaving" /\ current \in lost
                      \/ \E r \in Requests :
                            pc[r] \in {"wire", "giveup"} /\ pc'[r] = "refused"
<1>0. TypeOK /\ CurrentIsStored /\ pc \in [Requests -> PCs]
  BY DEF AuthInv, TypeOK
<1>1. ~UNCHANGED store
  OBVIOUS
<1>2. ASSUME NEW a \in Accounts, SignIn(a) PROVE FALSE
  <2>1. \A b \in Accounts : store[b] # None => store'[b] # None
    BY <1>0, <1>2, SignInEffect
  <2> QED
    BY <2>1, NoneLost
<1>3. ASSUME NEW r \in Requests, SignOut, Ends(r, "refused"),
             pc[r] \in {"wire", "giveup"}
      PROVE  Goal
  <2>1. pc'[r] = "refused"
    BY <1>0, <1>3 DEF Ends
  <2> QED
    BY <1>0, <1>3, <2>1, SignOutLoses
<1>4. ASSUME NEW r \in Requests, Issue(r) \/ Continue(r) PROVE Goal
  BY <1>1, <1>3, <1>4 DEF Issue, Continue, Dispatch, SendAfterRefresh, GiveUp, authVars
<1>5. ASSUME NEW r \in Requests, Respond(r) PROVE Goal
  <2>1. CASE AnswerOk(r) \/ AnswerReauthorize(r) \/ AnswerFailed(r)
    BY <1>1, <1>2, <2>1 DEF AnswerOk, AnswerReauthorize, AnswerFailed, authVars
  <2>2. CASE Answer401(r)
    BY <1>1, <1>3, <2>2 DEF Answer401, Answered, authVars
  <2> QED
    BY <1>5, <2>1, <2>2 DEF Respond
<1>6. ASSUME NEW r \in Requests, LogOut(r) PROVE Goal
  BY <1>0, <1>6, SignOutLoses DEF LogOut
<1>7. ASSUME NEW t \in trips, NEW ok \in BOOLEAN, RefreshSettles(t, ok) PROVE Goal
  <2>1. store' = IF current = None THEN store
                 ELSE [store EXCEPT ![current] = Mint(t.acct)]
    BY <1>1, <1>7 DEF RefreshSettles, SetAccessToken
  <2>2. Mint(t.acct) # None
    <3>1. t.acct \in Accounts
      BY <1>0 DEF TypeOK, Trips
    <3> QED
      BY <3>1, MintIsToken
  <2>3. \A b \in Accounts : store[b] # None => store'[b] # None
    BY <1>0, <2>1, <2>2 DEF TypeOK
  <2> QED
    BY <2>3, NoneLost
<1>8. CASE CheckOk
  <2>1. pick.acct \in Accounts
    BY <1>0, <1>8 DEF CheckOk, TypeOK, Picks
  <2> QED
    BY <1>2, <1>8, <2>1 DEF CheckOk
<1>9. ASSUME NEW a \in Accounts, store' = [store EXCEPT ![a] = None], UNCHANGED pc,
             pick # None \/ page = "signin"
      PROVE  Goal
  <2>1. \A b \in Accounts : b # a /\ store[b] # None => store'[b] # None
    BY <1>0, <1>9 DEF TypeOK
  <2> QED
    BY <1>9, <2>1, OneLost
<1>10. CASE CheckFails
  <2>1. pick.acct \in Accounts /\ pick # None /\ UNCHANGED pc
    BY <1>0, <1>10 DEF CheckFails, TypeOK, Picks, reqVars
  <2>2. store' = [store EXCEPT ![pick.acct] = None]
    BY <1>10 DEF CheckFails, RemoveStoredSession
  <2> QED
    BY <1>9, <2>1, <2>2
<1>11. ASSUME NEW a \in Accounts, RemoveAccount(a) PROVE Goal
  BY <1>9, <1>11 DEF RemoveAccount, RemoveStoredSession, reqVars
<1>12. ASSUME NEW a \in Accounts, Expire(a) PROVE Goal
  BY <1>0, <1>12, ExpireEffect, NoneLost
<1>13. CASE \/ \E a \in Accounts : PickAccount(a) \/ Revoke(a)
            \/ LayoutRedirect \/ Reload
  BY <1>1, <1>13 DEF PickAccount, Revoke, LayoutRedirect, Reload, authVars
<1>14. CASE UNCHANGED vars
  BY <1>1, <1>14 DEF vars
<1> QED
  BY <1>4, <1>5, <1>6, <1>7, <1>8, <1>10, <1>11, <1>12, <1>13, <1>14
  DEF Next, Step, RefreshEnds, CheckEnds

(* An account is lost by the user's hand, a failed check or one refused    *)
(* request, one at a time (interceptors.ts, switch-account.ts).            *)
THEOREM LossesHaveCauses == Spec => LossHasCause
<1>1. AuthInv /\ [Next]_vars =>
        [LET lost == Stored(store) \ Stored(store')
         IN  lost # {} =>
               /\ Cardinality(lost) = 1
               /\ \/ pick # None /\ UNCHANGED pc
                  \/ page = "signin" /\ UNCHANGED pc
                  \/ page = "app" /\ page' = "leaving" /\ current \in lost
                  \/ \E r \in Requests :
                        pc[r] \in {"wire", "giveup"} /\ pc'[r] = "refused"]_vars
  BY LossStep
<1> QED
  BY <1>1, AuthInvariance, PTL DEF Spec, LossHasCause

(* Without a gained account there is nothing to show.                      *)
LEMMA NoneGained ==
  ASSUME \A b \in Accounts : store'[b] # None => store[b] # None
  PROVE  Stored(store') \ Stored(store) = {}
BY DEF Stored

(* A sign-out brings no account back.                                      *)
LEMMA SignOutGainsNone ==
  ASSUME TypeOK, SignOut
  PROVE  Stored(store') \ Stored(store) = {}
<1>1. \A b \in Accounts : store'[b] # None => store[b] # None
  <2>1. CASE current = None
    BY <2>1 DEF SignOut
  <2>2. CASE current # None
    BY <2>2 DEF SignOut, TypeOK
  <2> QED
    BY <2>1, <2>2
<1> QED
  BY <1>1, NoneGained

(* A sign-in adds its own account, with a fresh token, or none.            *)
LEMMA SignInGains ==
  ASSUME TypeOK, NEW a \in Accounts, SignIn(a)
  PROVE  /\ current' = a /\ store'[a] = Mint(a)
         /\ LET gained == Stored(store') \ Stored(store)
            IN  gained # {} => gained = {a}
<1>1. current' = a /\ \A b \in Accounts : b # a => store'[b] = store[b]
  BY SignInEffect
<1>2. store'[a] = Mint(a)
  BY DEF SignIn, TypeOK
<1>3. Stored(store') \ Stored(store) \subseteq {a}
  BY <1>1 DEF Stored
<1> QED
  BY <1>1, <1>2, <1>3

(* A refresh that settles writes into a session that is stored, or nowhere.*)
LEMMA SettlingGainsNone ==
  ASSUME TypeOK, CurrentIsStored, NEW t \in trips, NEW ok \in BOOLEAN,
         RefreshSettles(t, ok)
  PROVE  Stored(store') \ Stored(store) = {}
<1>1. CASE UNCHANGED store
  BY <1>1
<1>2. CASE current # None /\ store' = [store EXCEPT ![current] = Mint(t.acct)]
  <2>1. current \in Accounts /\ store[current] # None
    BY <1>2 DEF TypeOK, CurrentIsStored, Stored
  <2>2. \A b \in Accounts : b # current => store'[b] = store[b]
    BY <1>2, <2>1 DEF TypeOK
  <2>3. \A b \in Accounts : store'[b] # None => store[b] # None
    BY <2>1, <2>2
  <2> QED
    BY <2>3, NoneGained
<1> QED
  BY <1>1, <1>2 DEF RefreshSettles, SetAccessToken

(* The action of GainHasCause, step by step.                               *)
LEMMA GainStep ==
  ASSUME AuthInv, [Next]_vars,
         Stored(store') \ Stored(store) # {}
  PROVE  LET gained == Stored(store') \ Stored(store)
         IN  /\ gained = {current'} /\ store'[current'] = Mint(current')
             /\ \/ pick # None /\ pick' = None /\ current' = pick.acct
                \/ \E r \in Requests :
                      /\ pc[r] = "wire" /\ pc'[r] \in {"ok", "start"}
                      /\ r \in Forms \/ as[r] = None
<1> DEFINE gained == Stored(store') \ Stored(store)
           Goal == /\ gained = {current'} /\ store'[current'] = Mint(current')
                   /\ \/ pick # None /\ pick' = None /\ current' = pick.acct
                      \/ \E r \in Requests :
                            /\ pc[r] = "wire" /\ pc'[r] \in {"ok", "start"}
                            /\ r \in Forms \/ as[r] = None
<1>0. TypeOK /\ CurrentIsStored /\ pc \in [Requests -> PCs]
  BY DEF AuthInv, TypeOK
<1>1. ~UNCHANGED store
  OBVIOUS
<1>2. ~SignOut
  BY <1>0, SignOutGainsNone
<1>3. ASSUME NEW r \in Requests, Issue(r) \/ Continue(r) \/ LogOut(r) PROVE Goal
  BY <1>1, <1>2, <1>3 DEF Issue, Continue, Dispatch, SendAfterRefresh, GiveUp, LogOut, authVars
<1>4. ASSUME NEW r \in Requests, Respond(r) PROVE Goal
  <2>1. CASE AnswerOk(r)
    <3>1. r \in Forms /\ pc[r] = "wire" /\ pc'[r] = "ok"
      BY <1>0, <1>1, <2>1 DEF AnswerOk, Answered, Ends, authVars
    <3>2. PICK a \in Accounts : SignIn(a)
      BY <2>1, <3>1 DEF AnswerOk
    <3> QED
      BY <1>0, <3>1, <3>2, SignInGains
  <2>2. CASE AnswerReauthorize(r)
    <3>1. as[r] = None /\ pc[r] = "wire" /\ pc'[r] \in {"ok", "start"}
      BY <1>0, <2>2 DEF AnswerReauthorize, Answered, Ends
    <3>2. PICK a \in Accounts : SignIn(a)
      BY <2>2 DEF AnswerReauthorize
    <3> QED
      BY <1>0, <3>1, <3>2, SignInGains
  <2>3. CASE AnswerFailed(r) \/ Answer401(r)
    BY <1>1, <1>2, <2>3 DEF AnswerFailed, Answer401, authVars
  <2> QED
    BY <1>4, <2>1, <2>2, <2>3 DEF Respond
<1>5. ASSUME NEW t \in trips, NEW ok \in BOOLEAN, RefreshSettles(t, ok) PROVE Goal
  BY <1>0, <1>5, SettlingGainsNone
<1>6. CASE CheckOk
  <2>1. pick.acct \in Accounts /\ pick # None /\ pick' = None /\ SignIn(pick.acct)
    BY <1>0, <1>6 DEF CheckOk, TypeOK, Picks
  <2> QED
    BY <1>0, <2>1, SignInGains
<1>7. ASSUME NEW a \in Accounts, store' = [store EXCEPT ![a] = None] PROVE Goal
  <2>1. \A b \in Accounts : store'[b] # None => store[b] # None
    BY <1>0, <1>7 DEF TypeOK
  <2> QED
    BY <2>1, NoneGained
<1>8. CASE CheckFails
  <2>1. pick.acct \in Accounts
    BY <1>0, <1>8 DEF CheckFails, TypeOK, Picks
  <2>2. store' = [store EXCEPT ![pick.acct] = None]
    BY <1>8 DEF CheckFails, RemoveStoredSession
  <2> QED
    BY <1>7, <2>1, <2>2
<1>9. ASSUME NEW a \in Accounts, RemoveAccount(a) PROVE Goal
  BY <1>7, <1>9 DEF RemoveAccount, RemoveStoredSession
<1>10. ASSUME NEW a \in Accounts, Expire(a) PROVE Goal
  <2>1. \A b \in Accounts : store'[b] # None => store[b] # None
    BY <1>0, <1>10, ExpireEffect
  <2> QED
    BY <2>1, NoneGained
<1>11. CASE \/ \E a \in Accounts : PickAccount(a) \/ Revoke(a)
            \/ LayoutRedirect \/ Reload \/ UNCHANGED vars
  BY <1>1, <1>11 DEF PickAccount, Revoke, LayoutRedirect, Reload, authVars, vars
<1> QED
  BY <1>3, <1>4, <1>5, <1>6, <1>8, <1>9, <1>10, <1>11
  DEF Next, Step, RefreshEnds, CheckEnds

(* An account comes into the store by a sign-in and by nothing else: a     *)
(* late refresh or retry never brings back one that was signed out.        *)
THEOREM GainsHaveCauses == Spec => GainHasCause
<1>1. AuthInv /\ [Next]_vars =>
        [LET gained == Stored(store') \ Stored(store)
         IN  gained # {} =>
               /\ gained = {current'} /\ store'[current'] = Mint(current')
               /\ \/ pick # None /\ pick' = None /\ current' = pick.acct
                  \/ \E r \in Requests :
                        /\ pc[r] = "wire" /\ pc'[r] \in {"ok", "start"}
                        /\ r \in Forms \/ as[r] = None]_vars
  BY GainStep
<1> QED
  BY <1>1, AuthInvariance, PTL DEF Spec, GainHasCause

-----------------------------------------------------------------------------
(* The refinement of SharedTrip.                                           *)

Stutter == UNCHANGED <<inFlight, Waiters>>

(* A step that leaves inFlight alone and takes nobody to or from an await. *)
LEMMA NobodyMoves ==
  ASSUME UNCHANGED inFlight,
         \A q \in Requests :
            pc'[q] \in {"wait1", "wait2"} <=> pc[q] \in {"wait1", "wait2"}
  PROVE  Stutter
BY DEF Stutter, Waiters

(* A request that is answered, not awaiting, ends without having awaited.  *)
LEMMA EndsApart ==
  ASSUME TypeOK, NEW r \in Requests, NEW how \in Ended,
         pc[r] \in {"wire", "giveup"}, Ends(r, how), UNCHANGED inFlight
  PROVE  Stutter
<1>1. \A q \in Requests :
         pc'[q] \in {"wait1", "wait2"} <=> pc[q] \in {"wait1", "wait2"}
  BY DEF TypeOK, Ends, Ended
<1> QED
  BY <1>1, NobodyMoves

(* Whoever calls refreshAccessToken and awaits it starts a trip when there *)
(* is none, with nobody waiting, and joins the one there is otherwise.     *)
LEMMA CallerBoards ==
  ASSUME TypeOK, TripsOK, NEW r \in Requests,
         pc[r] \notin {"wait1", "wait2"}, RefreshAccessToken(r),
         NEW w \in {"wait1", "wait2"}, pc' = [pc EXCEPT ![r] = w]
  PROVE  Shared!Launch(r) \/ Shared!Join(r)
<1>1. r \notin Waiters /\ Waiters' = Waiters \cup {r}
  BY DEF Waiters, TypeOK
<1>2. CASE inFlight = None
  <2>1. Waiters = {}
    BY <1>2 DEF TripsOK, Waiters
  <2>2. inFlight' = r
    BY <1>2 DEF RefreshAccessToken
  <2> QED
    BY <1>1, <1>2, <2>1, <2>2 DEF Shared!Launch
<1>3. CASE inFlight # None
  <2>1. UNCHANGED inFlight
    BY <1>3 DEF RefreshAccessToken, tripVars
  <2> QED
    BY <1>1, <1>3, <2>1 DEF Shared!Join
<1> QED
  BY <1>2, <1>3

(* After a step that clears inFlight and resumes all who awaited it a trip *)
(* has landed, if there was one.                                           *)
LEMMA AllReleased ==
  ASSUME TripsOK, inFlight' = None,
         \A q \in Requests : pc'[q] \notin {"wait1", "wait2"}
  PROVE  Shared!Land \/ Stutter
<1>1. Waiters' = {}
  BY DEF Waiters
<1>2. CASE inFlight = None
  <2>1. Waiters = {}
    BY <1>2 DEF TripsOK, Waiters
  <2> QED
    BY <1>1, <1>2, <2>1 DEF Stutter
<1>3. CASE inFlight # None
  BY <1>1, <1>3 DEF Shared!Land
<1> QED
  BY <1>2, <1>3

(* Every step of the client is one of SharedTrip, or none of its business. *)
LEMMA SharedStep ==
  ASSUME TypeOK, CurrentIsStored, TripsOK, Next
  PROVE  Shared!Next \/ Stutter
<1> DEFINE Goal == Shared!Next \/ Stutter
<1>0. Step
  BY DEF Next
<1> USE DEF authVars, reqVars, cfgVars, tripVars
<1>1. ASSUME UNCHANGED <<pc, inFlight>> PROVE Goal
  BY <1>1 DEF Stutter, Waiters
<1>2. ASSUME NEW r \in Requests, UNCHANGED inFlight,
             pc[r] \notin {"wait1", "wait2"},
             NEW p \in PCs \ {"wait1", "wait2"}, pc' = [pc EXCEPT ![r] = p]
      PROVE  Goal
  <2>1. \A q \in Requests :
           pc'[q] \in {"wait1", "wait2"} <=> pc[q] \in {"wait1", "wait2"}
    BY <1>2 DEF TypeOK
  <2> QED
    BY <1>2, <2>1, NobodyMoves
<1>3. {"start", "ready", "wire", "giveup"} \subseteq PCs \ {"wait1", "wait2"}
  BY DEF PCs
<1>4. ASSUME NEW r \in Requests, Issue(r) \/ LogOut(r) PROVE Goal
  BY <1>2, <1>3, <1>4 DEF Issue, LogOut
<1>5. ASSUME NEW r \in Requests, Dispatch(r) PROVE Goal
  <2>1. CASE pc' = [pc EXCEPT ![r] = "wire"] /\ UNCHANGED tripVars
    BY <1>2, <1>3, <1>5, <2>1 DEF Dispatch
  <2>2. CASE pc' = [pc EXCEPT ![r] = "wait1"] /\ RefreshAccessToken(r)
    BY <1>5, <2>2, CallerBoards DEF Dispatch, Shared!Next
  <2> QED
    BY <1>5, <2>1, <2>2 DEF Dispatch
<1>6. ASSUME NEW r \in Requests, SendAfterRefresh(r) PROVE Goal
  BY <1>2, <1>3, <1>6 DEF SendAfterRefresh
<1>7. ASSUME NEW r \in Requests, GiveUp(r) PROVE Goal
  BY <1>7, EndsApart DEF GiveUp, Ended
<1>8. ASSUME NEW r \in Requests, AnswerOk(r) \/ AnswerFailed(r) PROVE Goal
  BY <1>8, EndsApart DEF AnswerOk, AnswerFailed, Answered, Ended
<1>9. ASSUME NEW r \in Requests, AnswerReauthorize(r) PROVE Goal
  <2>1. pc[r] = "wire" /\ UNCHANGED inFlight
    BY <1>9 DEF AnswerReauthorize, Answered
  <2>2. CASE Ends(r, "ok")
    BY <2>1, <2>2, EndsApart DEF Ended
  <2>3. CASE pc' = [pc EXCEPT ![r] = "start"]
    BY <1>2, <1>3, <2>1, <2>3
  <2> QED
    BY <1>9, <2>2, <2>3 DEF AnswerReauthorize
<1>10. ASSUME NEW r \in Requests, Answer401(r) PROVE Goal
  <2>1. pc[r] = "wire"
    BY <1>10 DEF Answer401, Answered
  <2>2. CASE pc' = [pc EXCEPT ![r] = "wait2"] /\ RefreshAccessToken(r)
    BY <2>1, <2>2, CallerBoards DEF Shared!Next
  <2>3. CASE Ends(r, "refused") /\ UNCHANGED tripVars
    BY <2>1, <2>3, EndsApart DEF Ended
  <2> QED
    BY <1>10, <2>2, <2>3 DEF Answer401
<1>11. ASSUME NEW t \in trips, NEW ok \in BOOLEAN, RefreshSettles(t, ok) PROVE Goal
  <2>1. inFlight' = None /\ \A q \in Requests : pc'[q] \notin {"wait1", "wait2"}
    BY <1>11 DEF RefreshSettles
  <2> QED
    BY <2>1, AllReleased DEF Shared!Next
<1>12. CASE Reload
  <2>1. inFlight' = None /\ \A q \in Requests : pc'[q] \notin {"wait1", "wait2"}
    BY <1>12 DEF Reload
  <2> QED
    BY <2>1, AllReleased DEF Shared!Next
<1>13. CASE CheckEnds \/ LayoutRedirect
  BY <1>1, <1>13 DEF CheckEnds, CheckOk, CheckFails, LayoutRedirect
<1>14. ASSUME NEW a \in Accounts,
              PickAccount(a) \/ RemoveAccount(a) \/ Expire(a) \/ Revoke(a)
       PROVE  Goal
  BY <1>1, <1>14 DEF PickAccount, RemoveAccount, Expire, Revoke
<1> QED
  BY <1>0, <1>4, <1>5, <1>6, <1>7, <1>8, <1>9, <1>10, <1>11, <1>12, <1>13, <1>14
  DEF Step, Continue, Respond, RefreshEnds

(* The client implements SharedTrip: callers of refreshAccessToken share   *)
(* the round trip under way and are released together by its end.          *)
THEOREM RefreshIsShared == Spec => IsSharedTrip
<1>1. Init => Shared!Init
  BY DEF Init, Shared!Init, Waiters
<1>2. AuthInv /\ [Next]_vars => [Shared!Next]_<<inFlight, Waiters>>
  <2>1. CASE Next
    BY <2>1, SharedStep DEF AuthInv, Stutter
  <2>2. CASE UNCHANGED vars
    BY <2>2 DEF vars, Waiters
  <2> QED
    BY <2>1, <2>2
<1> QED
  BY <1>1, <1>2, AuthInvariance, PTL
  DEF Spec, IsSharedTrip, Shared!Spec, Shared!sharedVars

(* No trip is under way for nobody, and its starter awaits it with the     *)
(* others until it lands: from the promise alone, by its own steps.        *)
THEOREM StarterAwaits ==
  IsSharedTrip => [](inFlight # None => inFlight \in Waiters)
<1> DEFINE Awaited == inFlight # None => inFlight \in Waiters
<1>1. Shared!Init => Awaited
  BY DEF Shared!Init
<1>2. Awaited /\ [Shared!Next]_<<inFlight, Waiters>> => Awaited'
  BY DEF Shared!Next, Shared!Launch, Shared!Join, Shared!Land
<1> HIDE DEF Awaited
<1>3. Shared!Init /\ [][Shared!Next]_<<inFlight, Waiters>> => []Awaited
  BY <1>1, <1>2, PTL
<1> QED
  BY <1>3 DEF IsSharedTrip, Shared!Spec, Shared!sharedVars, Awaited

=============================================================================
