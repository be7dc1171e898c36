----------------------------- MODULE AuthClient -----------------------------
(***************************************************************************)
(* The browser's side of authentication: the axios interceptors, the       *)
(* single-flight refresh of the access token, the store of signed-in       *)
(* accounts and the account picker (frontend/src/lib/network,              *)
(* store/authorization.ts, lib/switch-account.ts).                         *)
(*                                                                         *)
(* JavaScript runs one macrotask (a response, a timer, a click) and then   *)
(* every promise continuation it made ready, before the next macrotask.    *)
(* Requests in the states "start", "ready" and "giveup" are such           *)
(* continuations: while one exists (Busy) no macrotask runs.               *)
(*                                                                         *)
(* Data is abstracted: an access token is its account and whether it is    *)
(* still fresh, a stored session always has a refresh token of its own     *)
(* account, and sessions[0], the session that becomes current when the     *)
(* current one goes, is any of the remaining ones.                         *)
(***************************************************************************)
EXTENDS Naturals, FiniteSets

CONSTANTS
    Accounts,       \* user ids, which are also the session ids
    Requests,       \* every request the page may issue, each issued once
    Forms,          \* those of them that post the sign-in form
    Losses,         \* whether an answer may be lost (network, timeout, 5xx)
    None

ASSUME RequestsAssumption ==
    /\ Forms \subseteq Requests
    /\ Losses \in BOOLEAN
    /\ None \notin Accounts
    /\ None \notin Requests
    /\ None \notin [acct : Accounts, fresh : BOOLEAN]
    /\ None \notin [acct : Accounts, prev : Accounts \cup {None}]

VARIABLES
    store,      \* account -> its access token, None when it is not stored
    current,    \* current_session
    page,       \* "app", "signin", or "leaving": a full reload is requested
    pick,       \* the account check of the picker that awaits its answer
    pc,         \* where each request stands in the pipeline
    as,         \* the account that was current when its token was chosen
    retried,    \* cfg._authRetried
    sends,      \* how often it went on the wire
    tok,        \* its Authorization header
    trips,      \* refresh round trips on the wire
    inFlight,   \* the module variable of refresh.ts: a trip, by its starter
    revoked,    \* server: accounts whose refresh token it refuses
    crossed     \* history: the account changed while a trip was on the wire

cfgVars  == <<as, retried, sends, tok>>
reqVars  == <<pc, cfgVars>>
tripVars == <<trips, inFlight>>
authVars == <<store, current>>
vars == <<store, current, page, pick, pc, as, retried, sends, tok, trips,
          inFlight, revoked, crossed>>

Tokens == [acct : Accounts, fresh : BOOLEAN]
Ended  == {"ok", "failed", "refused"}
PCs    == {"idle", "start", "wait1", "ready", "wire", "wait2", "giveup"} \cup Ended
Trips  == [by : Requests, acct : Accounts]
Picks  == [acct : Accounts, prev : Accounts \cup {None}]

Mint(a) == [acct |-> a, fresh |-> TRUE]
Stored(s) == {a \in Accounts : s[a] # None}

(***************************************************************************)
(* A promise continuation is ready: it runs before any event does.         *)
(***************************************************************************)
Busy == \E r \in Requests : pc[r] \in {"start", "ready", "giveup"}

-----------------------------------------------------------------------------
(* The operations of the store, as their effect on authVars.               *)

SignIn(a) ==
    /\ store' = [store EXCEPT ![a] = Mint(a)]
    /\ current' = a

(* The session that is current after one was removed from the list.        *)
Successor(s) ==
    IF Stored(s) = {} THEN current' = None ELSE current' \in Stored(s)

(* Faulty: the session goes, current_session keeps naming it.              *)
SignOutKeepsCurrent ==
    /\ store' = IF current = None THEN store
                                  ELSE [store EXCEPT ![current] = None]
    /\ UNCHANGED current

SignOut ==
    /\ store' = IF current = None THEN store
                                  ELSE [store EXCEPT ![current] = None]
    /\ Successor(store')

(* Faulty: the new token is written into every session.                    *)
SetAccessTokenEverywhere(t) ==
    store' = [a \in Accounts |-> IF store[a] = None THEN None ELSE t]

(* Faulty: the token goes to its own account, stored or not.               *)
SetAccessTokenOfOwner(t) == store' = [store EXCEPT ![t.acct] = t]

SetAccessToken(t) ==
    store' = IF current = None THEN store ELSE [store EXCEPT ![current] = t]

RemoveStoredSession(a) ==
    /\ store' = [store EXCEPT ![a] = None]
    /\ IF current = a THEN Successor(store') ELSE current' = current

-----------------------------------------------------------------------------
Init ==
    /\ store \in [Accounts -> Tokens \cup {None}]
    /\ \A a \in Stored(store) : store[a].acct = a
    /\ current \in IF Stored(store) = {} THEN {None} ELSE Stored(store)
    /\ page \in IF current = None THEN {"signin"} ELSE {"app", "signin"}
    /\ pick = None
    /\ pc = [r \in Requests |-> "idle"]
    /\ as = [r \in Requests |-> None]
    /\ retried = [r \in Requests |-> FALSE]
    /\ sends = [r \in Requests |-> 0]
    /\ tok = [r \in Requests |-> None]
    /\ trips = {}
    /\ inFlight = None
    /\ revoked = {}
    /\ crossed = FALSE

-----------------------------------------------------------------------------
(* Faulty: no look at the refresh in flight.                               *)
RefreshAlways(r) ==
    /\ trips' = trips \cup {[by |-> r, acct |-> current]}
    /\ inFlight' = r

(* refreshAccessToken: join the round trip in flight, whatever account it  *)
(* is for, or start one with the refresh token of the current account.     *)
RefreshAccessToken(r) ==
    IF inFlight # None
      THEN UNCHANGED tripVars
      ELSE /\ trips' = trips \cup {[by |-> r, acct |-> current]}
           /\ inFlight' = r

(* A page asks for data, or the user submits the sign-in form.             *)
Issue(r) ==
    /\ ~Busy
    /\ pc[r] = "idle"
    /\ page = "signin" \/ (page = "app" /\ r \notin Forms)
    /\ pc' = [pc EXCEPT ![r] = "start"]
    /\ UNCHANGED <<authVars, page, pick, as, retried, sends, tok, tripVars,
                   revoked>>

(* The request interceptor up to its await, for a first send and a retry:  *)
(* without a session the header stays as it is, a fresh token goes out at  *)
(* once, a stale one is kept aside while the request awaits a refresh.     *)
Dispatch(r) ==
    /\ pc[r] = "start"
    /\ as' = [as EXCEPT ![r] = current]
    /\ IF current = None
         THEN /\ pc' = [pc EXCEPT ![r] = "wire"]
              /\ sends' = [sends EXCEPT ![r] = @ + 1]
              /\ UNCHANGED <<tok, tripVars>>
         ELSE /\ tok' = [tok EXCEPT ![r] = store[current]]
              /\ IF store[current].fresh
                   THEN /\ pc' = [pc EXCEPT ![r] = "wire"]
                        /\ sends' = [sends EXCEPT ![r] = @ + 1]
                        /\ UNCHANGED tripVars
                   ELSE /\ pc' = [pc EXCEPT ![r] = "wait1"]
                        /\ RefreshAccessToken(r)
                        /\ UNCHANGED sends
    /\ UNCHANGED <<authVars, page, pick, retried, revoked>>

(* The request interceptor after its await: with the new token, or, when   *)
(* there is none, with the one read before it.                             *)
SendAfterRefresh(r) ==
    /\ pc[r] = "ready"
    /\ pc' = [pc EXCEPT ![r] = "wire"]
    /\ sends' = [sends EXCEPT ![r] = @ + 1]
    /\ UNCHANGED <<authVars, page, pick, as, retried, tok, tripVars, revoked>>

(* Faulty: only the request that started the refresh gets the result.      *)
RefreshSettlesForStarter(t, ok) ==
    /\ ~Busy
    /\ IF ok THEN t.acct \notin revoked ELSE t.acct \in revoked \/ Losses
    /\ IF ok THEN SetAccessToken(Mint(t.acct)) ELSE UNCHANGED store
    /\ trips' = trips \ {t}
    /\ inFlight' = None
    /\ pc' = [pc EXCEPT ![t.by] = "ready"]
    /\ UNCHANGED <<current, page, pick, cfgVars, revoked>>

(***************************************************************************)
(* performRefresh settles: the token goes into the session that is current *)
(* now, inFlight is cleared, and every caller that awaited it is resumed.  *)
(***************************************************************************)
RefreshSettles(t, ok) ==
    /\ ~Busy
    /\ IF ok THEN t.acct \notin revoked ELSE t.acct \in revoked \/ Losses
    /\ IF ok THEN SetAccessToken(Mint(t.acct)) ELSE UNCHANGED store
    /\ trips' = trips \ {t}
    /\ inFlight' = None
    /\ pc' = [r \in Requests |->
                CASE pc[r] = "wait1" -> "ready"
                  [] pc[r] = "wait2" -> IF ok THEN "start" ELSE "giveup"
                  [] OTHER -> pc[r]]
    /\ tok' = [r \in Requests |->
                 IF ok /\ pc[r] \in {"wait1", "wait2"} THEN Mint(t.acct) ELSE tok[r]]
    /\ UNCHANGED <<current, page, pick, as, retried, sends, revoked>>

-----------------------------------------------------------------------------
(* The response interceptor, one action per kind of answer.                *)

Answered(r) ==
    /\ ~Busy
    /\ pc[r] = "wire"
    /\ UNCHANGED <<pick, revoked>>

(* The caller gets its answer and the request's config is dropped.         *)
Ends(r, how) ==
    /\ pc' = [pc EXCEPT ![r] = how]
    /\ as' = [as EXCEPT ![r] = None]
    /\ retried' = [retried EXCEPT ![r] = FALSE]
    /\ sends' = [sends EXCEPT ![r] = 0]
    /\ tok' = [tok EXCEPT ![r] = None]

(* A success; that of the sign-in form signs the user in and reloads.      *)
AnswerOk(r) ==
    /\ Answered(r)
    /\ Ends(r, "ok")
    /\ IF r \in Forms
         THEN /\ \E a \in Accounts : SignIn(a)
              /\ page' = "leaving"
         ELSE UNCHANGED <<authVars, page>>
    /\ UNCHANGED tripVars

(* Faulty: the retry is not marked.                                        *)
AnswerReauthorizeUnmarked(r) ==
    /\ Answered(r)
    /\ as[r] = None
    /\ \E a \in Accounts : SignIn(a)
    /\ pc' = [pc EXCEPT ![r] = "start"]
    /\ UNCHANGED <<cfgVars, page, tripVars>>

(* The server signs in a request that was sent without tokens (cra = t).   *)
AnswerReauthorize(r) ==
    /\ Answered(r)
    /\ as[r] = None
    /\ \E a \in Accounts : SignIn(a)
    /\ IF retried[r]
         THEN Ends(r, "ok")
         ELSE /\ retried' = [retried EXCEPT ![r] = TRUE]
              /\ pc' = [pc EXCEPT ![r] = "start"]
              /\ UNCHANGED <<as, sends, tok>>
    /\ UNCHANGED <<page, tripVars>>

(* Faulty: whatever fails signs out.                                       *)
AnswerFailedSignsOut(r) ==
    /\ Answered(r)
    /\ SignOut
    /\ Ends(r, "failed")
    /\ UNCHANGED <<page, tripVars>>

(* No response, an error that is no matter of authentication, a permission *)
(* code, a 403, or UNAUTHORIZED for a signed-in user: nothing changes but  *)
(* the page that is shown.                                                 *)
AnswerFailed(r) ==
    /\ Answered(r)
    /\ Ends(r, "failed")
    /\ UNCHANGED <<authVars, page, tripVars>>

(* The codes of the 401s with which the server may answer what r sent.     *)
Refused(r) ==
    LET gone == tok[r] # None /\ tok[r].acct \in revoked
    IN  (IF tok[r] = None \/ gone \/ ~tok[r].fresh THEN {"expired"} ELSE {})
        \cup (IF r \in Forms \/ gone THEN {"fatal"} ELSE {})
        \cup (IF current = None THEN {"unauthorized"} ELSE {})

(* 401: one refresh and one retry, else the current session is signed out. *)
Answer401(r) ==
    /\ Answered(r)
    /\ \E code \in Refused(r) :
         IF code = "expired" /\ ~retried[r] /\ current # None
           THEN /\ retried' = [retried EXCEPT ![r] = TRUE]
                /\ pc' = [pc EXCEPT ![r] = "wait2"]
                /\ RefreshAccessToken(r)
                /\ UNCHANGED <<authVars, as, sends, tok>>
           ELSE /\ SignOut
                /\ Ends(r, "refused")
                /\ UNCHANGED tripVars
    /\ UNCHANGED page

(* The refresh a 401 asked for brought no token: sign out.                 *)
GiveUp(r) ==
    /\ pc[r] = "giveup"
    /\ SignOut
    /\ Ends(r, "refused")
    /\ UNCHANGED <<page, pick, tripVars, revoked>>

-----------------------------------------------------------------------------
(* The account picker: the picked account becomes current before its       *)
(* refresh token is checked (verifyStoredSession).                         *)
PickAccount(a) ==
    /\ ~Busy
    /\ page = "signin" /\ pick = None
    /\ a \in Stored(store)
    /\ pick' = [acct |-> a, prev |-> current]
    /\ current' = a
    /\ UNCHANGED <<store, page, reqVars, tripVars, revoked>>

CheckOk ==
    /\ ~Busy
    /\ pick # None /\ pick.acct \notin revoked
    /\ SignIn(pick.acct)
    /\ pick' = None
    /\ page' = "leaving"
    /\ UNCHANGED <<reqVars, tripVars, revoked>>

(* Faulty: the picker keeps waiting for the check that failed.             *)
CheckFailsSilently ==
    /\ ~Busy
    /\ pick # None /\ (pick.acct \in revoked \/ Losses)
    /\ RemoveStoredSession(pick.acct)
    /\ UNCHANGED <<page, pick, reqVars, tripVars, revoked>>

(* Any failure, a lost connection too: the picked session is removed and   *)
(* the previous one, when it is still stored, made current again.          *)
CheckFails ==
    /\ ~Busy
    /\ pick # None /\ (pick.acct \in revoked \/ Losses)
    /\ LET restore == pick.prev # pick.acct /\ pick.prev \in Stored(store)
       IN  IF restore
             THEN /\ store' = [store EXCEPT ![pick.acct] = None]
                  /\ current' = pick.prev
             ELSE RemoveStoredSession(pick.acct)
    /\ pick' = None
    /\ UNCHANGED <<page, reqVars, tripVars, revoked>>

(* "Sign out" in the picker's menu.                                        *)
RemoveAccount(a) ==
    /\ ~Busy
    /\ page = "signin" /\ pick = None
    /\ a \in Stored(store)
    /\ RemoveStoredSession(a)
    /\ UNCHANGED <<page, pick, reqVars, tripVars, revoked>>

(* "Log out": the store first, then the call of the sign-out endpoint,     *)
(* which goes through the interceptors like any request, then a reload.    *)
LogOut(r) ==
    /\ ~Busy
    /\ page = "app" /\ current # None
    /\ pc[r] = "idle" /\ r \notin Forms
    /\ SignOut
    /\ pc' = [pc EXCEPT ![r] = "start"]
    /\ page' = "leaving"
    /\ UNCHANGED <<pick, as, retried, sends, tok, tripVars, revoked>>

(* The layout without a current session leaves for the sign-in page.       *)
LayoutRedirect ==
    /\ ~Busy
    /\ page = "app" /\ current = None
    /\ page' = "leaving"
    /\ UNCHANGED <<authVars, pick, reqVars, tripVars, revoked>>

(* A full reload: what the page awaited is gone, the persisted sessions    *)
(* come back with a current one among them.                                *)
Reload ==
    /\ ~Busy
    /\ pc' = [r \in Requests |->
                IF pc[r] \in {"wait1", "wire", "wait2"} THEN "failed" ELSE pc[r]]
    /\ as' = [r \in Requests |-> None]
    /\ retried' = [r \in Requests |-> FALSE]
    /\ sends' = [r \in Requests |-> 0]
    /\ tok' = [r \in Requests |-> None]
    /\ trips' = {}
    /\ inFlight' = None
    /\ pick' = None
    /\ IF current \in Stored(store) THEN current' = current ELSE Successor(store)
    /\ page' \in IF current' = None THEN {"signin"} ELSE {"app", "signin"}
    /\ UNCHANGED <<store, revoked>>

-----------------------------------------------------------------------------
(* Time passes: the access tokens of an account reach their expiry.        *)
Expire(a) ==
    LET Old(t) == IF t # None /\ t.acct = a THEN [t EXCEPT !.fresh = FALSE] ELSE t
    IN  /\ ~Busy
        /\ store' = [b \in Accounts |-> Old(store[b])]
        /\ tok' = [r \in Requests |-> Old(tok[r])]
        /\ UNCHANGED <<current, page, pick, pc, as, retried, sends,
                       tripVars, revoked>>

(* The server ends the sessions of an account.                             *)
Revoke(a) ==
    /\ ~Busy
    /\ a \notin revoked
    /\ revoked' = revoked \cup {a}
    /\ UNCHANGED <<authVars, page, pick, reqVars, tripVars>>

-----------------------------------------------------------------------------
Respond(r) ==
    \/ AnswerOk(r)
    \/ AnswerReauthorize(r)
    \/ AnswerFailed(r)
    \/ Answer401(r)

Continue(r) == Dispatch(r) \/ SendAfterRefresh(r) \/ GiveUp(r)

RefreshEnds == \E t \in trips, ok \in BOOLEAN : RefreshSettles(t, ok)

CheckEnds == CheckOk \/ CheckFails

Step ==
    \/ \E r \in Requests :
          \/ Issue(r)
          \/ Continue(r)
          \/ Respond(r)
          \/ LogOut(r)
    \/ RefreshEnds
    \/ CheckEnds
    \/ \E a \in Accounts :
          \/ PickAccount(a)
          \/ RemoveAccount(a)
          \/ Expire(a)
          \/ Revoke(a)
    \/ LayoutRedirect
    \/ Reload

History == crossed' = (crossed \/ (trips # {} /\ trips' # {} /\ current' # current))

Next == Step /\ History

Spec == Init /\ [][Next]_vars

(***************************************************************************)
(* The event loop runs what is ready; every request and check is bounded   *)
(* by the 60 s timeout of the client and a refresh by its own 15 s.        *)
(***************************************************************************)
Fairness ==
    /\ \A r \in Requests :
          /\ WF_vars(Continue(r) /\ History)
          /\ WF_vars(Respond(r) /\ History)
    /\ WF_vars(RefreshEnds /\ History)
    /\ WF_vars(CheckEnds /\ History)

FairSpec == Spec /\ Fairness

-----------------------------------------------------------------------------
(* Types of all variables.                                                 *)
TypeOK ==
    /\ store \in [Accounts -> Tokens \cup {None}]
    /\ current \in Accounts \cup {None}
    /\ page \in {"app", "signin", "leaving"}
    /\ pick \in Picks \cup {None}
    /\ pc \in [Requests -> PCs]
    /\ as \in [Requests -> Accounts \cup {None}]
    /\ retried \in [Requests -> BOOLEAN]
    /\ sends \in [Requests -> Nat]
    /\ tok \in [Requests -> Tokens \cup {None}]
    /\ trips \in SUBSET Trips
    /\ inFlight \in Requests \cup {None}
    /\ revoked \in SUBSET Accounts
    /\ crossed \in BOOLEAN

(* Some session is current exactly when some session is stored, and it is  *)
(* one of them: the six operations that remove, add and restore sessions   *)
(* (authorization.ts:229-280, switch-account.ts:28-100) agree on it in any *)
(* order, with a check of the picker pending while requests sign out.      *)
CurrentIsStored == IF Stored(store) = {} THEN current = None
                                         ELSE current \in Stored(store)

(* refresh.ts:14-15: all callers share one network round trip, however     *)
(* many requests find a stale token or get a 401, before and after it ends *)
(* and across retries.                                                     *)
SingleFlight == \A t, u \in trips : t = u

(* Whoever awaits a refresh awaits one that is on the wire: its end will   *)
(* resume them, and no caller is left behind on a promise that is gone.    *)
WaitersHaveTrip ==
    (\E r \in Requests : pc[r] \in {"wait1", "wait2"}) => trips # {}

(* interceptors.ts:125-126 and 177-179: the two retries, after a           *)
(* reauthorization and after a 401, share one flag: no request goes out    *)
(* more than twice, through whatever mix of answers and refreshes.         *)
AtMostTwoSends == \A r \in Requests : sends[r] <= 2

(* Unless the account changed while a refresh was on the wire, every       *)
(* session holds a token of its own account, and every request that is on  *)
(* the wire carries the account that was current when it was dispatched    *)
(* (refresh.ts:101 stores the token in whatever session is current).       *)
TokensStayHome ==
    crossed \/
      /\ \A a \in Stored(store) : store[a].acct = a
      /\ \A r \in Requests :
            pc[r] = "wire" /\ as[r] # None => tok[r].acct = as[r]

(* An account leaves the store by the user's hand, by a check that fails,  *)
(* or by one request that ends refused: not by one that got no response    *)
(* (interceptors.ts:147) or a permission code (constants.ts:49), nor by a  *)
(* refresh as such.  One step takes at most one account away.              *)
LossHasCause ==
    [][LET lost == Stored(store) \ Stored(store')
       IN  lost # {} =>
             /\ Cardinality(lost) = 1
             /\ \/ pick # None /\ UNCHANGED pc
                \/ page = "signin" /\ UNCHANGED pc
                \/ page = "app" /\ page' = "leaving" /\ current \in lost
                \/ \E r \in Requests :
                      pc[r] \in {"wire", "giveup"} /\ pc'[r] = "refused"]_vars

(* An account comes into the store only by a success of the sign-in form,  *)
(* by an answer that signs in a request sent without a token, or by the    *)
(* check of a picked account, one at a time, with a fresh token of its own *)
(* and as the current one: a refresh that ends after its account was       *)
(* signed out (refresh.ts:101), and a retry that was under way then, never *)
(* bring it back.                                                          *)
GainHasCause ==
    [][LET gained == Stored(store') \ Stored(store)
       IN  gained # {} =>
             /\ gained = {current'} /\ store'[current'] = Mint(current')
             /\ \/ pick # None /\ pick' = None /\ current' = pick.acct
                \/ \E r \in Requests :
                      /\ pc[r] = "wire" /\ pc'[r] \in {"ok", "start"}
                      /\ r \in Forms \/ as[r] = None]_vars

(* The inductive invariant behind them: inFlight names the only round trip *)
(* there is, a request has been sent as often as its flag allows where it  *)
(* stands, and until an account change crosses a refresh the account of a  *)
(* trip is the current one and that of everybody who awaits it.            *)
TripsOK ==
    /\ inFlight = None => trips = {}
    /\ inFlight # None =>
         \E a \in Accounts : trips = {[by |-> inFlight, acct |-> a]}
    /\ \A r \in Requests : pc[r] \in {"wait1", "wait2"} => inFlight # None

SendsOK ==
    \A r \in Requests :
        LET before == IF retried[r] THEN 1 ELSE 0
        IN  /\ pc[r] \in {"start", "wait1", "ready"} => sends[r] <= before
            /\ pc[r] = "wire" => sends[r] <= before + 1
            /\ pc[r] \in {"wait2", "giveup"} => retried[r] /\ sends[r] <= 1
            /\ pc[r] \in {"idle"} \cup Ended => sends[r] = 0

AtHome ==
    /\ \A a \in Stored(store) : store[a].acct = a
    /\ \A t \in trips : t.acct = current
    /\ \A r \in Requests :
         /\ pc[r] = "wait1" => as[r] = current /\ as[r] # None
         /\ pc[r] \in {"wait1", "ready", "wire"} /\ as[r] # None =>
              tok[r] # None /\ tok[r].acct = as[r]

HomeOK == crossed \/ AtHome

AuthInv == TypeOK /\ CurrentIsStored /\ TripsOK /\ SendsOK /\ HomeOK

(***************************************************************************)
(* The refresh as SharedTrip describes it: the module variable inFlight is *)
(* the trip, the requests in their two awaits of refreshAccessToken, the   *)
(* one of the request and the one of the response interceptor, are those   *)
(* who wait for it.                                                        *)
(***************************************************************************)
Waiters == {r \in Requests : pc[r] \in {"wait1", "wait2"}}

Shared == INSTANCE SharedTrip
            WITH Callers <- Requests, trip <- inFlight, waiters <- Waiters

(* refresh.ts:14-15 and 116-119: "all callers share one network            *)
(* round-trip".  Whoever calls while one is under way joins it, nobody     *)
(* leaves it early, also when the user signs out or picks another account  *)
(* meanwhile, and its end releases every one of them.                      *)
IsSharedTrip == Shared!Spec

(* Every request that is issued comes to an end, through refreshes,        *)
(* retries and waits on a refresh another request started, and so does     *)
(* every check: nothing is blocked indefinitely (refresh.ts:78).           *)
RequestsEnd ==
    /\ \A r \in Requests : pc[r] = "start" ~> pc[r] \in Ended
    /\ pick # None ~> pick = None

(* interceptors.ts:193-194: when a request signs out, "the session is      *)
(* genuinely gone": the server refuses the account that is signed out.     *)
SignedOutIsGone ==
    [][\A a \in Stored(store) \ Stored(store') :
         (page = "app" /\ \E r \in Requests : pc[r] # "refused" /\ pc'[r] = "refused") =>
            a \in revoked]_vars

=============================================================================
