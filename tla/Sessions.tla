------------------------------ MODULE Sessions ------------------------------
(***************************************************************************)
(* Refresh-token rotation between the authentication service and the       *)
(* session managers of the mobile app and of the web client.               *)
(*                                                                         *)
(* A session is named by the number of its token pair: the access and the  *)
(* refresh token issued together.  The server runs a refresh as two        *)
(* statements (read the row, then rotate it) because the row is not        *)
(* locked.  A client keeps the session in memory (`held') and in a store   *)
(* (SecureStore on the phone, localStorage shared by all tabs on the web), *)
(* lets concurrent API calls wait for one refresh (`pending'), and repeats *)
(* each call once with the new token.  `platform' is fixed by Init: one    *)
(* person on a phone, or one person with several browser tabs.             *)
(***************************************************************************)
EXTENDS Naturals, FiniteSets

CONSTANTS Phone,     \* the mobile app
          Tabs,      \* browser tabs
          Calls,     \* authenticated API calls a client has open at once
          Slots,     \* refresh requests open at once (a bound)
          NoSlot,    \* no refresh is pending
          MaxToken,  \* token pairs issued in a behaviour (a bound)
          WebTokens  \* the same for the web client, whose tabs multiply the states

ASSUME SessionAssumption == /\ Phone \notin Tabs
                            /\ NoSlot \notin Slots
                            /\ MaxToken \in Nat \ {0}
                            /\ WebTokens \in 1..MaxToken

VARIABLES platform,  \* "mobile" or "web", never changes
          server,    \* the refresh_token rows: family and state of each token
          expired,   \* access tokens whose lifetime is over
          store,     \* the session in SecureStore or localStorage (0: none)
          held,      \* the session in each client's memory (0: none)
          pending,   \* refreshPromise / pendingRefresh of each client
          attempts,  \* the refresh requests
          calls,     \* the API calls
          flow,      \* signing in and out of each client
          disturbed  \* history: how far the session has been disturbed (see Worse)

server_vars == <<server, expired>>
client_vars == <<store, held, pending>>
vars == <<platform, server, expired, store, held, pending, attempts, calls,
          flow, disturbed>>

Token   == 1..MaxToken
Token0  == 0..MaxToken
Clients == Tabs \union {Phone}
Active  == IF platform = "mobile" THEN {Phone} ELSE Tabs

NoAttempt == [phase |-> "idle", client |-> Phone, base |-> 0, changed |-> FALSE,
              seen |-> "none", answer |-> "none", result |-> 0]
NoCall    == [phase |-> "idle", client |-> Phone, token |-> 0, slot |-> NoSlot,
              retried |-> FALSE]
NoFlow    == [step |-> "idle", token |-> 0]

TokenState == {"none", "live", "revoked", "lapsed"}

\* What a disturbance can lead to: 1, a client gives up a session that the server
\* still keeps (an error answer or a refused profile on the web); 2, also that a
\* client repeats a refresh token (lost answer, sign-out, restart, two tabs at once; a
\* lapsed token, whose refusal makes the phone forget the pending refresh before it
\* forgets the session, so that a late refusal meets the next sign-in).
\* A behaviour has one disturbance of the second kind (a bound).
Worse(level) ==
  /\ level < 2 \/ disturbed < 2
  /\ disturbed' = IF level > disturbed THEN level ELSE disturbed

\* Type invariant.
TypeOK ==
  /\ platform \in {"mobile", "web"}
  /\ server \in [Token -> [family : Token0, state : TokenState]]
  /\ expired \subseteq Token
  /\ store \in Token0 /\ held \in [Clients -> Token0]
  /\ pending \in [Clients -> Slots \union {NoSlot}]
  /\ attempts \in [Slots -> [phase : {"idle", "sent", "read", "answered",
                                      "writing", "clearing"},
                             client : Clients, base : Token0, changed : BOOLEAN,
                             seen : TokenState, result : Token0,
                             answer : {"none", "ok", "denied", "error", "lost"}]]
  /\ calls \in [Calls -> [phase : {"idle", "sent", "waiting"}, client : Clients,
                          token : Token0, slot : Slots \union {NoSlot},
                          retried : BOOLEAN]]
  /\ flow \in [Clients -> [step : {"idle", "revoking", "clearing", "saving"},
                           token : Token0]]
  /\ disturbed \in 0..2

-----------------------------------------------------------------------------
(* The server. *)

Limit  == IF platform = "mobile" THEN MaxToken ELSE WebTokens
Issued == Cardinality({t \in Token : server[t].state # "none"})
Row(f, st) == [family |-> f, state |-> st]

\* issueSession: a sign-in opens a family of its own.
IssueSession(t) == server' = [server EXCEPT ![t] = Row(t, "live")]

\* issueRotatedSession, RevokeRefreshToken and SetRefreshTokenReplacement of one
\* transaction: the replacement joins the family of the token it replaces.
Rotate(old, t) ==
  server' = [server EXCEPT ![t] = Row(server[old].family, "live"),
                           ![old].state = IF @ = "live" THEN "revoked" ELSE @]

\* GetRefreshTokenByHash: the row is read without a lock.
RefreshReads(s) ==
  /\ attempts[s].phase = "sent"
  /\ attempts' = [attempts EXCEPT ![s].phase = "read",
                                  ![s].seen = server[attempts[s].base].state]
  /\ UNCHANGED <<platform, server_vars, client_vars, calls, flow, disturbed>>

\* The rest of Refresh.  For a token already revoked the family's revocation is
\* written in the transaction that the returned error rolls back.
RefreshAnswers(s) ==
  LET a == attempts[s] IN
  /\ a.phase = "read"
  /\ IF a.seen = "live"
     THEN /\ Issued < Limit
          /\ Rotate(a.base, Issued + 1)
          /\ attempts' = [attempts EXCEPT ![s].phase = "answered",
                              ![s].answer = "ok", ![s].result = Issued + 1]
     ELSE /\ attempts' = [attempts EXCEPT ![s].phase = "answered",
                              ![s].answer = "denied"]
          /\ UNCHANGED server
  /\ UNCHANGED <<platform, expired, client_vars, calls, flow, disturbed>>

\* A 5xx or 429 answer: nothing was written.
RefreshErrors(s) ==
  /\ attempts[s].phase = "read"
  /\ attempts' = [attempts EXCEPT ![s].phase = "answered", ![s].answer = "error"]
  /\ Worse(IF platform = "web" THEN 1 ELSE 0)
  /\ UNCHANGED <<platform, server_vars, client_vars, calls, flow>>

\* The connection drops: before the request reached the server, or after the
\* server answered, when the rotation is already committed.
RefreshLost(s) ==
  /\ attempts[s].phase \in {"sent", "answered"}
  /\ attempts' = [attempts EXCEPT ![s].phase = "answered", ![s].answer = "lost"]
  /\ Worse(2)
  /\ UNCHANGED <<platform, server_vars, client_vars, calls, flow>>

\* Only the expiry of a token some client still uses can be observed.
AccessExpires(t) ==
  /\ t \notin expired
  /\ \E c \in Active : held[c] = t
  /\ expired' = expired \union {t}
  /\ UNCHANGED <<platform, server, client_vars, attempts, calls, flow, disturbed>>

\* The refresh token's own lifetime, or that of its family, is over.
RefreshLapses(t) ==
  /\ server[t].state = "live"
  /\ server' = [server EXCEPT ![t].state = "lapsed"]
  /\ Worse(2)
  /\ UNCHANGED <<platform, expired, client_vars, attempts, calls, flow>>

\* Logout: only a live token is revoked, any other is answered with 401.
Revoked(t) == [server EXCEPT ![t].state = IF @ = "live" THEN "revoked" ELSE @]

-----------------------------------------------------------------------------
(* What both session managers do. *)

FreeSlot(s) == attempts[s].phase = "idle"
NextSlot == CHOOSE s \in Slots : FreeSlot(s)

Ask(c, s, t) ==
  attempts' = [attempts EXCEPT ![s] =
                 [NoAttempt EXCEPT !.phase = "sent", !.client = c, !.base = t]]

\* sessionVersion += 1 is seen by every refresh that is under way.
Touch(as) == [s \in Slots |-> [as[s] EXCEPT !.changed =
                                 @ \/ as[s].phase # "idle"]]

\* (mutant) only the refresh that is still the pending one wakes its callers
WakeCurrent(s, t) ==
  calls' = [k \in Calls |->
              IF /\ calls[k].phase = "waiting" /\ calls[k].slot = s
                 /\ pending[calls[k].client] = s
              THEN IF t = 0 THEN NoCall
                   ELSE [calls[k] EXCEPT !.phase = "sent", !.token = t,
                                         !.slot = NoSlot, !.retried = TRUE]
              ELSE calls[k]]

\* The promise of slot s settles: who waits for it repeats the call once with the
\* new token, or fails with it.
WakeWith(s, t) ==
  calls' = [k \in Calls |->
              IF calls[k].phase = "waiting" /\ calls[k].slot = s
              THEN IF t = 0 THEN NoCall
                   ELSE [calls[k] EXCEPT !.phase = "sent", !.token = t,
                                         !.slot = NoSlot, !.retried = TRUE]
              ELSE calls[k]]

StartCall(k, c) ==
  /\ calls[k].phase = "idle" /\ held[c] # 0
  /\ calls' = [calls EXCEPT ![k] = [NoCall EXCEPT !.phase = "sent",
                                      !.client = c, !.token = held[c]]]
  /\ UNCHANGED <<platform, server_vars, client_vars, attempts, flow, disturbed>>

\* The call is over: served, failed, or refused for good.
EndCall(k) ==
  /\ calls' = [calls EXCEPT ![k] = NoCall]
  /\ UNCHANGED <<platform, server_vars, client_vars, attempts, flow, disturbed>>

CallServed(k) ==
  /\ calls[k].phase = "sent"
  /\ calls[k].token \notin expired \/ calls[k].retried
  /\ EndCall(k)

-----------------------------------------------------------------------------
(* The mobile session manager. *)

\* (mutant) every caller starts a refresh of its own
MobileRefreshAlone(k) ==
  /\ \E q \in Slots : FreeSlot(q)
  /\ Ask(Phone, NextSlot, held[Phone])
  /\ pending' = [pending EXCEPT ![Phone] = NextSlot]
  /\ calls' = [calls EXCEPT ![k].phase = "waiting", ![k].slot = NextSlot]

\* refreshSession: callers share the refresh that is under way.
MobileRefresh(k) ==
  IF pending[Phone] # NoSlot
  THEN /\ calls' = [calls EXCEPT ![k].phase = "waiting", ![k].slot = pending[Phone]]
       /\ UNCHANGED <<pending, attempts>>
  ELSE LET s == NextSlot IN
         /\ \E q \in Slots : FreeSlot(q)
         /\ Ask(Phone, s, held[Phone])
         /\ pending' = [pending EXCEPT ![Phone] = s]
         /\ calls' = [calls EXCEPT ![k].phase = "waiting", ![k].slot = s]

\* requestJson: a 401 is repeated once, after a refresh, while a session is held.
MobileUnauthorized(k) ==
  LET r == calls[k] IN
  /\ platform = "mobile"
  /\ r.phase = "sent" /\ r.token \in expired /\ ~r.retried
  /\ IF held[Phone] = 0
     THEN /\ calls' = [calls EXCEPT ![k] = NoCall]
          /\ UNCHANGED <<pending, attempts>>
     ELSE MobileRefresh(k)
  /\ UNCHANGED <<platform, server_vars, store, held, flow, disturbed>>

\* The finally block clears refreshPromise, whoever's it is by now.
MobileSettle(s, t, as) ==
  /\ attempts' = [as EXCEPT ![s] = NoAttempt]
  /\ pending' = [pending EXCEPT ![Phone] = NoSlot]
  /\ WakeWith(s, t)

\* (mutant) any refusal ends the session
TerminalAny(a) == a.answer \in {"denied", "error"}

\* isTerminalRefreshError: only a 401 ends the session.
Terminal(a) == a.answer = "denied"
SessionChanged(a) == held[Phone] = 0 \/ a.changed \/ held[Phone] # a.base

\* The answer reaches refreshSession; storing or clearing is awaited.
MobileAnswered(s) ==
  LET a == attempts[s] IN
  /\ platform = "mobile" /\ a.phase = "answered"
  /\ CASE a.answer = "ok" /\ ~SessionChanged(a) ->
            /\ attempts' = [attempts EXCEPT ![s].phase = "writing"]
            /\ UNCHANGED <<pending, calls>>
       [] Terminal(a) ->
            /\ attempts' = [attempts EXCEPT ![s].phase = "clearing"]
            /\ pending' = [pending EXCEPT ![Phone] = NoSlot]
            /\ UNCHANGED calls
       [] OTHER -> MobileSettle(s, 0, attempts)
  /\ UNCHANGED <<platform, server_vars, store, held, flow, disturbed>>

MobileWritten(s) ==
  LET a == attempts[s] IN
  /\ platform = "mobile" /\ a.phase = "writing"
  /\ store' = a.result /\ held' = [held EXCEPT ![Phone] = a.result]
  /\ MobileSettle(s, a.result, Touch(attempts))
  /\ UNCHANGED <<platform, server_vars, flow, disturbed>>

MobileCleared(s) ==
  /\ platform = "mobile" /\ attempts[s].phase = "clearing"
  /\ store' = 0 /\ held' = [held EXCEPT ![Phone] = 0]
  /\ MobileSettle(s, 0, Touch(attempts))
  /\ UNCHANGED <<platform, server_vars, flow, disturbed>>

\* setSession after a sign-in, whose write to the store is awaited.
MobileSignIn ==
  /\ platform = "mobile"
  /\ held[Phone] = 0 /\ flow[Phone].step = "idle" /\ Issued < Limit
  /\ IssueSession(Issued + 1)
  /\ flow' = [flow EXCEPT ![Phone] = [step |-> "saving", token |-> Issued + 1]]
  /\ UNCHANGED <<platform, expired, client_vars, attempts, calls, disturbed>>

MobileSignedIn ==
  /\ platform = "mobile" /\ flow[Phone].step = "saving"
  /\ store' = flow[Phone].token
  /\ held' = [held EXCEPT ![Phone] = flow[Phone].token]
  /\ attempts' = Touch(attempts)
  /\ flow' = [flow EXCEPT ![Phone] = NoFlow]
  /\ UNCHANGED <<platform, server_vars, pending, calls, disturbed>>

\* handleLogout revokes the token at the server first ...
MobileLogout ==
  /\ platform = "mobile" /\ held[Phone] # 0 /\ flow[Phone].step = "idle"
  /\ flow' = [flow EXCEPT ![Phone] = [step |-> "revoking", token |-> held[Phone]]]
  /\ Worse(2)
  /\ UNCHANGED <<platform, server_vars, client_vars, attempts, calls>>

\* ... gives up on an error other than 401, when the server may have acted ...
MobileLogoutFails ==
  /\ platform = "mobile" /\ flow[Phone].step = "revoking"
  /\ server' \in {server, Revoked(flow[Phone].token)}
  /\ flow' = [flow EXCEPT ![Phone] = NoFlow]
  /\ UNCHANGED <<platform, expired, client_vars, attempts, calls, disturbed>>

\* ... and otherwise calls clearSession, which forgets the pending refresh at once
\* and the session only when the store is cleared.
MobileLogoutServed ==
  /\ platform = "mobile" /\ flow[Phone].step = "revoking"
  /\ server' = Revoked(flow[Phone].token)
  /\ flow' = [flow EXCEPT ![Phone].step = "clearing"]
  /\ pending' = [pending EXCEPT ![Phone] = NoSlot]
  /\ UNCHANGED <<platform, expired, store, held, attempts, calls, disturbed>>

MobileLoggedOut ==
  /\ platform = "mobile" /\ flow[Phone].step = "clearing"
  /\ store' = 0 /\ held' = [held EXCEPT ![Phone] = 0]
  /\ attempts' = Touch(attempts)
  /\ flow' = [flow EXCEPT ![Phone] = NoFlow]
  /\ UNCHANGED <<platform, server_vars, pending, calls, disturbed>>

\* The app is killed and hydrateSession reads the store at the next start; a store
\* operation under way may or may not have taken effect.
MobileRestart ==
  /\ platform = "mobile"
  /\ store' \in {store}
       \union {a.result : a \in {attempts[s] : s \in {q \in Slots :
                                    attempts[q].phase = "writing"}}}
       \union {0 : s \in {q \in Slots : attempts[q].phase = "clearing"}}
       \union (IF flow[Phone].step = "saving" THEN {flow[Phone].token} ELSE {})
       \union (IF flow[Phone].step = "clearing" THEN {0} ELSE {})
  /\ held' = [held EXCEPT ![Phone] = store']
  /\ pending' = [pending EXCEPT ![Phone] = NoSlot]
  /\ attempts' = [s \in Slots |-> NoAttempt]
  /\ calls' = [k \in Calls |-> NoCall]
  /\ flow' = [flow EXCEPT ![Phone] = NoFlow]
  /\ Worse(2)
  /\ UNCHANGED <<platform, server_vars>>

-----------------------------------------------------------------------------
(* The web session manager. *)

\* attemptTokenRefresh: one refresh per tab, with the refresh token that is in
\* localStorage at that moment.
WebRefresh(k, c) ==
  IF pending[c] # NoSlot
  THEN /\ calls' = [calls EXCEPT ![k].phase = "waiting", ![k].slot = pending[c]]
       /\ UNCHANGED <<pending, attempts, disturbed>>
  ELSE IF store = 0
  THEN /\ calls' = [calls EXCEPT ![k] = NoCall]
       /\ UNCHANGED <<pending, attempts, disturbed>>
  ELSE LET s == NextSlot IN
         /\ \E q \in Slots : FreeSlot(q)
         /\ Ask(c, s, store)
         /\ pending' = [pending EXCEPT ![c] = s]
         /\ calls' = [calls EXCEPT ![k].phase = "waiting", ![k].slot = s]
         /\ Worse(IF \A q \in Slots : FreeSlot(q) THEN 0 ELSE 2)

\* executeWithRefresh: the answer to the repeated request is final.
WebUnauthorized(k) ==
  LET r == calls[k] IN
  /\ platform = "web"
  /\ r.phase = "sent" /\ r.token \in expired /\ ~r.retried
  /\ WebRefresh(k, r.client)
  /\ UNCHANGED <<platform, server_vars, store, held, flow>>

\* setSession of the AuthContext: localStorage and the tab's own state.
WebSet(c, t) == store' = t /\ held' = [held EXCEPT ![c] = t]

\* onRefreshSuccess stores the new pair, onRefreshFailure (any answer that is not
\* ok) is clearAuth, a lost answer changes nothing.
WebAnswered(s) ==
  LET a == attempts[s] IN
  /\ platform = "web" /\ a.phase = "answered"
  /\ CASE a.answer = "ok" -> WebSet(a.client, a.result)
       [] a.answer \in {"denied", "error"} -> WebSet(a.client, 0)
       [] OTHER -> UNCHANGED <<store, held>>
  /\ attempts' = [attempts EXCEPT ![s] = NoAttempt]
  /\ pending' = [pending EXCEPT ![a.client] = NoSlot]
  /\ WakeWith(s, IF a.answer = "ok" THEN a.result ELSE 0)
  /\ UNCHANGED <<platform, server_vars, flow, disturbed>>

WebSignIn(c) ==
  /\ platform = "web" /\ held[c] = 0 /\ Issued < Limit
  /\ IssueSession(Issued + 1)
  /\ WebSet(c, Issued + 1)
  /\ Worse(IF store = 0 THEN 0 ELSE 2)
  /\ UNCHANGED <<platform, expired, pending, attempts, calls, flow>>

\* handleLogout revokes the token of the tab's own state ...
WebLogout(c) ==
  /\ platform = "web" /\ held[c] # 0 /\ flow[c].step = "idle"
  /\ flow' = [flow EXCEPT ![c] = [step |-> "revoking", token |-> held[c]]]
  /\ Worse(2)
  /\ UNCHANGED <<platform, server_vars, client_vars, attempts, calls>>

\* ... and clears the session whatever the server answered.
WebLoggedOut(c) ==
  /\ platform = "web" /\ flow[c].step = "revoking"
  /\ server' \in {server, Revoked(flow[c].token)}
  /\ WebSet(c, 0)
  /\ flow' = [flow EXCEPT ![c] = NoFlow]
  /\ UNCHANGED <<platform, expired, pending, attempts, calls, disturbed>>

\* The profile of a new token is refused (401, 403 or 404): clearAuth.
WebProfileRejected(c) ==
  /\ platform = "web" /\ held[c] # 0
  /\ WebSet(c, 0)
  /\ Worse(1)
  /\ UNCHANGED <<platform, server_vars, pending, attempts, calls, flow>>

\* The tab is loaded again: its requests are gone, its state is read from
\* localStorage.
WebReload(c) ==
  /\ platform = "web"
  /\ held' = [held EXCEPT ![c] = store]
  /\ pending' = [pending EXCEPT ![c] = NoSlot]
  /\ attempts' = [s \in Slots |-> IF attempts[s].client = c THEN NoAttempt
                                  ELSE attempts[s]]
  /\ calls' = [k \in Calls |-> IF calls[k].client = c THEN NoCall ELSE calls[k]]
  /\ flow' = [flow EXCEPT ![c] = NoFlow]
  /\ Worse(IF \E s \in Slots : attempts[s].client = c /\ ~FreeSlot(s) THEN 2 ELSE 0)
  /\ UNCHANGED <<platform, server_vars, store>>

-----------------------------------------------------------------------------
Init ==
  /\ platform \in {"mobile", "web"}
  /\ server = [t \in Token |-> Row(0, "none")]
  /\ expired = {}
  /\ store = 0 /\ held = [c \in Clients |-> 0]
  /\ pending = [c \in Clients |-> NoSlot]
  /\ attempts = [s \in Slots |-> NoAttempt]
  /\ calls = [k \in Calls |-> NoCall]
  /\ flow = [c \in Clients |-> NoFlow]
  /\ disturbed = 0

AttemptStep(s) ==
  \/ RefreshReads(s) \/ RefreshAnswers(s) \/ RefreshErrors(s)
  \/ MobileAnswered(s) \/ MobileWritten(s) \/ MobileCleared(s) \/ WebAnswered(s)

CallStep(k) == CallServed(k) \/ MobileUnauthorized(k) \/ WebUnauthorized(k)

MobileStep == MobileSignIn \/ MobileSignedIn \/ MobileLogout \/ MobileLogoutFails
              \/ MobileLogoutServed \/ MobileLoggedOut \/ MobileRestart

WebStep(c) == WebSignIn(c) \/ WebLogout(c) \/ WebLoggedOut(c)
              \/ WebProfileRejected(c) \/ WebReload(c)

Next ==
  \/ \E s \in Slots : AttemptStep(s) \/ RefreshLost(s)
  \/ \E k \in Calls : CallStep(k)
  \/ \E k \in Calls, c \in Active : StartCall(k, c)
  \/ \E t \in Token : AccessExpires(t) \/ RefreshLapses(t)
  \/ MobileStep
  \/ \E c \in Tabs : WebStep(c)

\* Requests are answered, and the code after an await runs; nobody has to sign in,
\* to sign out or to make a call.
Fairness ==
  /\ \A s \in Slots : WF_vars(AttemptStep(s))
  /\ \A k \in Calls : WF_vars(CallStep(k))
  /\ WF_vars(MobileSignedIn) /\ WF_vars(MobileLoggedOut)

Spec == Init /\ [][Next]_vars
FairSpec == Spec /\ Fairness

-----------------------------------------------------------------------------
\* An undisturbed client never presents a refresh token that was already used:
\* many calls failing together, also with an access token that expired during a
\* refresh, end in one rotation after the other.  Only a lost answer, a restart, a
\* sign-out or two tabs at once can make a client repeat a used token.
ReuseNeedsDisturbance ==
  /\ TypeOK
  /\ \A s \in Slots : attempts[s].seen = "revoked" => disturbed = 2

\* While undisturbed, a live refresh token is never orphaned: it is in the store,
\* or on its way there.  The web client gives the session up at any error answer,
\* the mobile app only at a 401.
LiveTokenIsKept ==
  disturbed = 0 => \A t \in Token : server[t].state = "live" =>
       \/ t = store
       \/ \E s \in Slots : attempts[s].answer = "ok" /\ attempts[s].result = t
       \/ \E c \in Clients : flow[c].step = "saving" /\ flow[c].token = t

\* A call is never left waiting: each one is served, repeated or refused, also when
\* the refresh it waits for is overtaken by a sign-out.
CallsSettle == \A k \in Calls : calls[k].phase # "idle" ~> calls[k].phase = "idle"
=============================================================================
