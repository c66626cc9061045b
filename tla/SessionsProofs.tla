---------------------------- MODULE SessionsProofs ----------------------------
(***************************************************************************)
(* Proofs about Sessions, for any number of tabs, calls, refresh requests  *)
(* and token pairs.  They need no fairness: the theorems are about Spec.   *)
(***************************************************************************)
EXTENDS Sessions, FiniteSetTheorems, TLAPS

Attempt == [phase : {"idle", "sent", "read", "answered", "writing", "clearing"},
            client : Clients, base : Token0, changed : BOOLEAN,
            seen : TokenState, result : Token0,
            answer : {"none", "ok", "denied", "error", "lost"}]
Call == [phase : {"idle", "sent", "waiting"}, client : Clients, token : Token0,
         slot : Slots \union {NoSlot}, retried : BOOLEAN]
Flow == [step : {"idle", "revoking", "clearing", "saving"}, token : Token0]

-----------------------------------------------------------------------------
\* The pairs issued so far are a number, and the next one has a number too.
LEMMA IssuedTyped ==
  /\ Issued \in Nat /\ Limit \in Nat /\ Limit <= MaxToken
  /\ Issued < Limit => Issued + 1 \in Token
<1>1. IsFiniteSet(Token)
  BY FS_Interval, SessionAssumption DEF Token
<1>2. Issued \in Nat
  BY <1>1, FS_Subset, FS_CardinalityType DEF Issued
<1> QED
  BY <1>2, SessionAssumption DEF Limit, Token

\* Numbers and clients are what the tables hold.
LEMMA Names ==
  /\ Token \subseteq Token0 /\ 0 \in Token0 /\ \A t \in Token0 : t # 0 => t \in Token
  /\ Phone \in Clients /\ Tabs \subseteq Clients /\ Active \subseteq Clients
<1>1. /\ Token \subseteq Token0 /\ 0 \in Token0
      /\ \A t \in Token0 : t # 0 => t \in Token
  BY SessionAssumption DEF Token, Token0
<1>2. Phone \in Clients /\ Tabs \subseteq Clients /\ Active \subseteq Clients
  BY DEF Clients, Active
<1> QED
  BY <1>1, <1>2

\* A request that is put aside is an attempt, and so is a new one.
LEMMA FreshRecords ==
  /\ NoAttempt \in Attempt /\ NoCall \in Call /\ NoFlow \in Flow
  /\ \A c \in Clients, t \in Token0 :
       [NoAttempt EXCEPT !.phase = "sent", !.client = c, !.base = t] \in Attempt
<1>1. NoAttempt \in Attempt
  BY Names DEF NoAttempt, Attempt, TokenState
<1>2. NoCall \in Call /\ NoFlow \in Flow
  BY Names DEF NoCall, NoFlow, Call, Flow
<1>3. ASSUME NEW c \in Clients, NEW t \in Token0
      PROVE  [NoAttempt EXCEPT !.phase = "sent", !.client = c, !.base = t] \in Attempt
  BY <1>1 DEF Attempt
<1> QED
  BY <1>1, <1>2, <1>3

\* A refresh that starts finds a free slot.
LEMMA SlotIsFree ==
  ASSUME NEW q \in Slots, FreeSlot(q) PROVE NextSlot \in Slots /\ FreeSlot(NextSlot)
BY DEF NextSlot

\* What the updates of the client's tables do to their types.
LEMMA TouchTyped ==
  ASSUME NEW as \in [Slots -> Attempt] PROVE Touch(as) \in [Slots -> Attempt]
<1> SUFFICES ASSUME NEW s \in Slots
             PROVE  [as[s] EXCEPT !.changed = @ \/ as[s].phase # "idle"] \in Attempt
  BY DEF Touch
<1>1. (as[s].changed \/ as[s].phase # "idle") \in BOOLEAN
  BY Zenon
<1> QED
  BY <1>1 DEF Attempt

\* Waking the calls that waited for a refresh, or failing them, keeps calls calls.
LEMMA WakeTyped ==
  ASSUME NEW s, NEW t \in Token0, calls \in [Calls -> Call], WakeWith(s, t)
  PROVE  calls' \in [Calls -> Call]
<1>1. ASSUME NEW k \in Calls
      PROVE  /\ NoCall \in Call
             /\ [calls[k] EXCEPT !.phase = "sent", !.token = t, !.slot = NoSlot,
                                 !.retried = TRUE] \in Call
  BY FreshRecords DEF Call
<1> QED
  BY <1>1 DEF WakeWith

\* Rows change state, or are written with a family, and stay rows.
LEMMA RowsTyped ==
  ASSUME server \in [Token -> [family : Token0, state : TokenState]]
  PROVE  /\ \A t : Revoked(t) \in [Token -> [family : Token0, state : TokenState]]
         /\ \A t \in Token : IssueSession(t) =>
              server' \in [Token -> [family : Token0, state : TokenState]]
         /\ \A b \in Token0, t \in Token : b # 0 /\ Rotate(b, t) =>
              server' \in [Token -> [family : Token0, state : TokenState]]
<1> USE DEF TokenState
<1>1. ASSUME NEW t PROVE Revoked(t) \in [Token -> [family : Token0, state : TokenState]]
  BY DEF Revoked
<1>2. ASSUME NEW t \in Token, IssueSession(t)
      PROVE  server' \in [Token -> [family : Token0, state : TokenState]]
  BY <1>2, Names DEF IssueSession, Row
<1>3. ASSUME NEW b \in Token0, NEW t \in Token, b # 0, Rotate(b, t)
      PROVE  server' \in [Token -> [family : Token0, state : TokenState]]
  <2>1. b \in Token
    BY <1>3, SessionAssumption DEF Token, Token0
  <2>2. Row(server[b].family, "live") \in [family : Token0, state : TokenState]
    BY <2>1 DEF Row
  <2> QED
    BY <1>3, <2>1, <2>2 DEF Rotate
<1> QED
  BY <1>1, <1>2, <1>3

\* The type invariant with the tables' types by name.
Tables ==
  /\ platform \in {"mobile", "web"}
  /\ server \in [Token -> [family : Token0, state : TokenState]]
  /\ expired \subseteq Token
  /\ store \in Token0 /\ held \in [Clients -> Token0]
  /\ pending \in [Clients -> Slots \union {NoSlot}]
  /\ attempts \in [Slots -> Attempt]
  /\ calls \in [Calls -> Call]
  /\ flow \in [Clients -> Flow]
  /\ disturbed \in 0..2

Busy(s) == attempts[s].phase # "idle"

\* A request that is under way was made with a token.  (Rotating the row of no token
\* would write a family that is none.)
Based == \A s \in Slots : Busy(s) => attempts[s].base \in Token

Typed == Tables /\ Based

\* Init has the types.
LEMMA InitTyped == Init => Typed
<1> SUFFICES ASSUME Init PROVE Typed
  OBVIOUS
<1>1. server \in [Token -> [family : Token0, state : TokenState]]
  BY Names DEF Init, Row, TokenState
<1>2. /\ attempts \in [Slots -> Attempt] /\ calls \in [Calls -> Call]
      /\ flow \in [Clients -> Flow]
  BY FreshRecords DEF Init
<1>3. /\ platform \in {"mobile", "web"} /\ expired \subseteq Token /\ store \in Token0
      /\ held \in [Clients -> Token0] /\ pending \in [Clients -> Slots \union {NoSlot}]
      /\ disturbed \in 0..2
  BY Names DEF Init
<1>4. Based
  BY DEF Init, Based, Busy, NoAttempt
<1> QED
  BY <1>1, <1>2, <1>3, <1>4 DEF Typed, Tables

\* What a refresh request is given keeps its type and its token.
LEMMA AttemptSet ==
  ASSUME NEW as \in [Slots -> Attempt],
         \A q \in Slots : as[q].phase # "idle" => as[q].base \in Token,
         NEW s \in Slots, NEW r \in Attempt, r.phase # "idle" => r.base \in Token,
         attempts' = [as EXCEPT ![s] = r]
  PROVE  attempts' \in [Slots -> Attempt] /\ Based'
BY DEF Based, Busy

\* A sign-in or a refresh seen by the others leaves their tokens alone.
LEMMA TouchKeeps ==
  ASSUME NEW as \in [Slots -> Attempt]
  PROVE  \A s \in Slots : /\ Touch(as)[s].phase = as[s].phase
                          /\ Touch(as)[s].base = as[s].base
                          /\ Touch(as)[s].seen = as[s].seen
                          /\ Touch(as)[s].answer = as[s].answer
                          /\ Touch(as)[s].result = as[s].result
BY DEF Touch, Attempt

\* A disturbance is a number of 0..2.
LEMMA WorseTyped ==
  ASSUME disturbed \in 0..2, NEW l \in 0..2, Worse(l)
  PROVE  /\ disturbed' \in 0..2 /\ disturbed' >= disturbed
         /\ disturbed' >= l
         /\ disturbed' = l \/ disturbed' = disturbed
BY DEF Worse

\* A call that waits for a slot is a call.
LEMMA CallSet ==
  ASSUME calls \in [Calls -> Call], NEW k \in Calls, NEW s \in Slots
  PROVE  [calls EXCEPT ![k].phase = "waiting", ![k].slot = s] \in [Calls -> Call]
BY DEF Call

\* Every request after its tables: what a step leaves alone keeps its type.
LEMMA TypedAfter ==
  ASSUME Typed, platform' = platform,
         server' \in [Token -> [family : Token0, state : TokenState]],
         expired' \subseteq Token, store' \in Token0, held' \in [Clients -> Token0],
         pending' \in [Clients -> Slots \union {NoSlot}],
         attempts' \in [Slots -> Attempt], Based',
         calls' \in [Calls -> Call], flow' \in [Clients -> Flow], disturbed' \in 0..2
  PROVE  Typed'
BY DEF Typed, Tables

-----------------------------------------------------------------------------
\* The server's part of a refresh keeps the types.
LEMMA RefreshTyped ==
  ASSUME Typed, NEW s \in Slots,
         RefreshReads(s) \/ RefreshAnswers(s) \/ RefreshErrors(s) \/ RefreshLost(s)
  PROVE  Typed'
<1> DEFINE a == attempts[s]
<1>1. a \in Attempt /\ (a.phase # "idle" => a.base \in Token)
  BY DEF Typed, Tables, Based, Busy
<1>2. attempts \in [Slots -> Attempt] /\ \A q \in Slots :
        attempts[q].phase # "idle" => attempts[q].base \in Token
  BY DEF Typed, Tables, Based, Busy
<1>3. CASE RefreshReads(s)
  <2> DEFINE r == [a EXCEPT !.phase = "read", !.seen = server[a.base].state]
  <2>1. r \in Attempt /\ r.base \in Token /\ attempts' = [attempts EXCEPT ![s] = r]
    BY <1>1, <1>2, <1>3 DEF RefreshReads, Attempt, Typed, Tables
  <2>2. attempts' \in [Slots -> Attempt] /\ Based'
    BY <2>1, <1>2, AttemptSet
  <2> QED
    BY <1>3, <2>2, TypedAfter DEF RefreshReads, server_vars, client_vars, Typed, Tables
<1>4. CASE RefreshAnswers(s)
  <2> DEFINE r == IF a.seen = "live"
                  THEN [a EXCEPT !.phase = "answered", !.answer = "ok",
                                 !.result = Issued + 1]
                  ELSE [a EXCEPT !.phase = "answered", !.answer = "denied"]
  <2>1. a.seen = "live" => Issued + 1 \in Token
    BY <1>4, IssuedTyped DEF RefreshAnswers
  <2>2. r \in Attempt /\ r.base = a.base /\ attempts' = [attempts EXCEPT ![s] = r]
    BY <1>1, <1>2, <1>4, <2>1, Names DEF RefreshAnswers, Attempt
  <2>3. attempts' \in [Slots -> Attempt] /\ Based'
    BY <1>1, <1>4, <2>2, <1>2, AttemptSet DEF RefreshAnswers
  <2>4. server' \in [Token -> [family : Token0, state : TokenState]]
    <3>1. CASE a.seen = "live"
      <4>1. Rotate(a.base, Issued + 1) /\ a.base \in Token0 /\ a.base # 0
        BY <1>1, <1>4, <3>1, Names, SessionAssumption DEF RefreshAnswers, Token
      <4> QED
        BY <4>1, <2>1, <3>1, RowsTyped DEF Typed, Tables
    <3>2. CASE a.seen # "live"
      BY <1>4, <3>2 DEF RefreshAnswers, Typed, Tables
    <3> QED
      BY <3>1, <3>2
  <2> QED
    BY <1>4, <2>3, <2>4, TypedAfter DEF RefreshAnswers, client_vars, Typed, Tables
<1>5. CASE RefreshErrors(s)
  <2> DEFINE r == [a EXCEPT !.phase = "answered", !.answer = "error"]
  <2>1. r \in Attempt /\ r.base \in Token /\ attempts' = [attempts EXCEPT ![s] = r]
    BY <1>1, <1>2, <1>5 DEF RefreshErrors, Attempt
  <2>2. attempts' \in [Slots -> Attempt] /\ Based'
    BY <2>1, <1>2, AttemptSet
  <2>3. disturbed' \in 0..2
    BY <1>5, WorseTyped DEF RefreshErrors, Typed, Tables
  <2> QED
    BY <1>5, <2>2, <2>3, TypedAfter
    DEF RefreshErrors, server_vars, client_vars, Typed, Tables
<1>6. CASE RefreshLost(s)
  <2> DEFINE r == [a EXCEPT !.phase = "answered", !.answer = "lost"]
  <2>1. r \in Attempt /\ r.base \in Token /\ attempts' = [attempts EXCEPT ![s] = r]
    BY <1>1, <1>2, <1>6 DEF RefreshLost, Attempt
  <2>2. attempts' \in [Slots -> Attempt] /\ Based'
    BY <2>1, <1>2, AttemptSet
  <2>3. disturbed' \in 0..2
    BY <1>6, WorseTyped DEF RefreshLost, Typed, Tables
  <2> QED
    BY <1>6, <2>2, <2>3, TypedAfter
    DEF RefreshLost, server_vars, client_vars, Typed, Tables
<1> QED
  BY <1>3, <1>4, <1>5, <1>6

\* Signing in and out, and what lapses, keep the types.
LEMMA AccountTyped ==
  ASSUME Typed,
         \/ \E t \in Token : AccessExpires(t) \/ RefreshLapses(t)
         \/ MobileSignIn \/ MobileSignedIn \/ MobileLogout \/ MobileLogoutFails
         \/ MobileLogoutServed \/ MobileLoggedOut
         \/ \E c \in Tabs : \/ WebSignIn(c) \/ WebLogout(c) \/ WebLoggedOut(c)
                            \/ WebProfileRejected(c)
  PROVE  Typed'
<1> USE Names
<1>1. Touch(attempts) \in [Slots -> Attempt] /\ (attempts' = Touch(attempts) => Based')
  BY TouchTyped, TouchKeeps DEF Typed, Tables, Based, Busy
<1>2. \A t : Revoked(t) \in [Token -> [family : Token0, state : TokenState]]
  BY RowsTyped DEF Typed, Tables
<1>3. Issued < Limit => Issued + 1 \in Token
  BY IssuedTyped
<1>4. attempts' = attempts => Based'
  BY DEF Typed, Based, Busy
<1>5. NoFlow \in Flow /\ \A c \in Clients : flow[c] \in Flow /\ flow[c].token \in Token0
  BY FreshRecords DEF Typed, Tables, Flow
<1>6. \A t \in Token0, st \in {"idle", "revoking", "clearing", "saving"} :
        [step |-> st, token |-> t] \in Flow
  BY DEF Flow
<1>7. ASSUME NEW t \in Token, AccessExpires(t) PROVE Typed'
  BY <1>7, <1>4, TypedAfter DEF AccessExpires, client_vars, Typed, Tables
<1>8. ASSUME NEW t \in Token, RefreshLapses(t) PROVE Typed'
  <2>1. server' \in [Token -> [family : Token0, state : TokenState]]
    BY <1>8 DEF RefreshLapses, Typed, Tables, TokenState
  <2>2. disturbed' \in 0..2
    BY <1>8, WorseTyped DEF RefreshLapses, Typed, Tables
  <2> QED
    BY <1>8, <1>4, <2>1, <2>2, TypedAfter DEF RefreshLapses, client_vars, Typed, Tables
<1>9. CASE MobileSignIn
  <2>1. server' \in [Token -> [family : Token0, state : TokenState]]
    BY <1>9, <1>3, RowsTyped DEF MobileSignIn, Typed, Tables
  <2>2. flow' \in [Clients -> Flow]
    BY <1>9, <1>3, <1>6 DEF MobileSignIn, Typed, Tables
  <2> QED
    BY <1>9, <1>4, <2>1, <2>2, TypedAfter DEF MobileSignIn, client_vars, Typed, Tables
<1>10. CASE MobileSignedIn
  BY <1>10, <1>1, <1>5, TypedAfter DEF MobileSignedIn, server_vars, Typed, Tables
<1>11. CASE MobileLogout
  <2>1. disturbed' \in 0..2
    BY <1>11, WorseTyped DEF MobileLogout, Typed, Tables
  <2>2. flow' \in [Clients -> Flow]
    BY <1>11, <1>6 DEF MobileLogout, Typed, Tables
  <2> QED
    BY <1>11, <1>4, <2>1, <2>2, TypedAfter
    DEF MobileLogout, server_vars, client_vars, Typed, Tables
<1>12. CASE MobileLogoutFails
  BY <1>12, <1>2, <1>4, <1>5, TypedAfter
  DEF MobileLogoutFails, client_vars, Typed, Tables
<1>13. CASE MobileLogoutServed
  <2>1. flow' \in [Clients -> Flow]
    BY <1>13 DEF MobileLogoutServed, Typed, Tables, Flow
  <2> QED
    BY <1>13, <1>2, <1>4, <2>1, TypedAfter DEF MobileLogoutServed, Typed, Tables
<1>14. CASE MobileLoggedOut
  BY <1>14, <1>1, <1>5, TypedAfter DEF MobileLoggedOut, server_vars, Typed, Tables
<1>15. ASSUME NEW c \in Tabs, WebSignIn(c) PROVE Typed'
  <2>1. server' \in [Token -> [family : Token0, state : TokenState]]
    BY <1>15, <1>3, RowsTyped DEF WebSignIn, Typed, Tables
  <2>2. disturbed' \in 0..2
    BY <1>15, WorseTyped DEF WebSignIn, Typed, Tables
  <2> QED
    BY <1>15, <1>3, <1>4, <2>1, <2>2, TypedAfter DEF WebSignIn, WebSet, Typed, Tables
<1>16. ASSUME NEW c \in Tabs, WebLogout(c) PROVE Typed'
  <2>1. disturbed' \in 0..2
    BY <1>16, WorseTyped DEF WebLogout, Typed, Tables
  <2>2. flow' \in [Clients -> Flow]
    BY <1>16, <1>6 DEF WebLogout, Typed, Tables
  <2> QED
    BY <1>16, <1>4, <2>1, <2>2, TypedAfter
    DEF WebLogout, server_vars, client_vars, Typed, Tables
<1>17. ASSUME NEW c \in Tabs, WebLoggedOut(c) PROVE Typed'
  BY <1>17, <1>2, <1>4, <1>5, TypedAfter DEF WebLoggedOut, WebSet, Typed, Tables
<1>18. ASSUME NEW c \in Tabs, WebProfileRejected(c) PROVE Typed'
  <2>1. disturbed' \in 0..2
    BY <1>18, WorseTyped DEF WebProfileRejected, Typed, Tables
  <2> QED
    BY <1>18, <1>4, <2>1, TypedAfter
    DEF WebProfileRejected, WebSet, server_vars, Typed, Tables
<1> QED
  BY <1>7, <1>8, <1>9, <1>10, <1>11, <1>12, <1>13, <1>14, <1>15, <1>16, <1>17, <1>18

\* A refresh that starts is a request made with a token.
LEMMA AskTyped ==
  ASSUME Typed, NEW c \in Clients, NEW t \in Token, NEW q \in Slots, FreeSlot(q),
         Ask(c, NextSlot, t)
  PROVE  attempts' \in [Slots -> Attempt] /\ Based'
<1> DEFINE r == [NoAttempt EXCEPT !.phase = "sent", !.client = c, !.base = t]
<1>1. r \in Attempt /\ NextSlot \in Slots
  BY FreshRecords, Names, SlotIsFree
<1>2. attempts' = [attempts EXCEPT ![NextSlot] = r] /\ r.base \in Token
  BY DEF Ask, NoAttempt
<1>3. attempts \in [Slots -> Attempt] /\ \A p \in Slots :
        attempts[p].phase # "idle" => attempts[p].base \in Token
  BY DEF Typed, Tables, Based, Busy
<1> HIDE DEF r
<1> QED
  BY <1>1, <1>2, <1>3, AttemptSet

\* A refresh that is over leaves an idle slot and calls that are repeated or failed.
LEMMA SettleTyped ==
  ASSUME Typed, NEW s \in Slots, NEW t \in Token0, NEW as \in [Slots -> Attempt],
         \A q \in Slots : as[q].phase # "idle" => as[q].base \in Token,
         MobileSettle(s, t, as)
  PROVE  /\ attempts' \in [Slots -> Attempt] /\ Based'
         /\ pending' \in [Clients -> Slots \union {NoSlot}]
         /\ calls' \in [Calls -> Call]
<1>1. attempts' = [as EXCEPT ![s] = NoAttempt] /\ NoAttempt.phase = "idle"
  BY DEF MobileSettle, NoAttempt
<1>2. attempts' \in [Slots -> Attempt] /\ Based'
  BY <1>1, FreshRecords, AttemptSet
<1>3. calls' \in [Calls -> Call]
  BY WakeTyped DEF MobileSettle, Typed, Tables
<1> QED
  BY <1>2, <1>3 DEF MobileSettle, Typed, Tables

\* Calls, and the refresh a refused one starts, keep the types.
LEMMA CallTyped ==
  ASSUME Typed, NEW k \in Calls,
         \/ CallServed(k) \/ MobileUnauthorized(k) \/ WebUnauthorized(k)
         \/ \E c \in Active : StartCall(k, c)
  PROVE  Typed'
<1>1. attempts' = attempts => Based'
  BY DEF Typed, Based, Busy
<1>2. calls \in [Calls -> Call] /\ NoCall \in Call
      /\ [calls EXCEPT ![k] = NoCall] \in [Calls -> Call]
  BY FreshRecords DEF Typed, Tables
<1>3. \A s \in Slots :
        [calls EXCEPT ![k].phase = "waiting", ![k].slot = s] \in [Calls -> Call]
  BY <1>2, CallSet
<1>4. CASE CallServed(k)
  BY <1>1, <1>2, <1>4, TypedAfter
  DEF CallServed, EndCall, server_vars, client_vars, Typed, Tables
<1>5. ASSUME NEW c \in Active, StartCall(k, c) PROVE Typed'
  <2>1. c \in Clients /\ held[c] \in Token0
    BY Names DEF Typed, Tables
  <2>2. [NoCall EXCEPT !.phase = "sent", !.client = c, !.token = held[c]] \in Call
    BY <2>1, <1>2 DEF Call
  <2>3. calls' \in [Calls -> Call]
    BY <1>2, <1>5, <2>2 DEF StartCall
  <2> QED
    BY <1>5, <1>1, <2>3, TypedAfter
    DEF StartCall, server_vars, client_vars, Typed, Tables
<1>6. CASE MobileUnauthorized(k)
  <2>1. /\ attempts' \in [Slots -> Attempt] /\ Based' /\ calls' \in [Calls -> Call]
        /\ pending' \in [Clients -> Slots \union {NoSlot}]
    <3>1. CASE held[Phone] = 0
      BY <1>1, <1>2, <1>6, <3>1 DEF MobileUnauthorized, Typed, Tables
    <3>2. CASE held[Phone] # 0 /\ pending[Phone] # NoSlot
      <4>1. MobileRefresh(k) /\ pending[Phone] \in Slots
        BY <1>6, <3>2, Names DEF MobileUnauthorized, Typed, Tables
      <4>2. /\ calls' = [calls EXCEPT ![k].phase = "waiting", ![k].slot = pending[Phone]]
            /\ UNCHANGED <<pending, attempts>>
        BY <3>2, <4>1 DEF MobileRefresh
      <4> QED
        BY <1>1, <1>3, <4>1, <4>2 DEF Typed, Tables
    <3>3. CASE held[Phone] # 0 /\ pending[Phone] = NoSlot
      <4>1. /\ \E q \in Slots : FreeSlot(q)
            /\ Ask(Phone, NextSlot, held[Phone])
            /\ pending' = [pending EXCEPT ![Phone] = NextSlot]
            /\ calls' = [calls EXCEPT ![k].phase = "waiting", ![k].slot = NextSlot]
        BY <1>6, <3>3 DEF MobileUnauthorized, MobileRefresh
      <4>2. NextSlot \in Slots /\ held[Phone] \in Token
        BY <4>1, <3>3, SlotIsFree, Names DEF Typed, Tables
      <4>3. attempts' \in [Slots -> Attempt] /\ Based'
        BY <4>1, <4>2, AskTyped, Names
      <4> QED
        BY <1>3, <4>1, <4>2, <4>3 DEF Typed, Tables
    <3> QED
      BY <3>1, <3>2, <3>3
  <2> QED
    BY <1>6, <2>1, TypedAfter DEF MobileUnauthorized, server_vars, Typed, Tables
<1>7. CASE WebUnauthorized(k)
  <2> DEFINE c == calls[k].client
  <2>1. WebRefresh(k, c) /\ c \in Clients
    BY <1>7, <1>2 DEF WebUnauthorized, Call
  <2> HIDE DEF c
  <2>2. /\ attempts' \in [Slots -> Attempt] /\ Based' /\ calls' \in [Calls -> Call]
        /\ pending' \in [Clients -> Slots \union {NoSlot}] /\ disturbed' \in 0..2
    <3>1. CASE pending[c] # NoSlot
      <4>1. pending[c] \in Slots
        BY <2>1, <3>1 DEF Typed, Tables
      <4> QED
        BY <1>1, <1>3, <2>1, <3>1, <4>1 DEF WebRefresh, Typed, Tables
    <3>2. CASE pending[c] = NoSlot /\ store = 0
      BY <1>1, <1>2, <2>1, <3>2 DEF WebRefresh, Typed, Tables
    <3>3. CASE pending[c] = NoSlot /\ store # 0
      <4>1. /\ \E q \in Slots : FreeSlot(q)
            /\ Ask(c, NextSlot, store)
            /\ pending' = [pending EXCEPT ![c] = NextSlot]
            /\ calls' = [calls EXCEPT ![k].phase = "waiting", ![k].slot = NextSlot]
            /\ Worse(IF \A q \in Slots : FreeSlot(q) THEN 0 ELSE 2)
        BY <2>1, <3>3 DEF WebRefresh
      <4>2. NextSlot \in Slots /\ store \in Token
        BY <4>1, <3>3, SlotIsFree, Names DEF Typed, Tables
      <4>3. attempts' \in [Slots -> Attempt] /\ Based'
        BY <2>1, <4>1, <4>2, AskTyped
      <4>4. disturbed' \in 0..2
        BY <4>1, WorseTyped DEF Typed, Tables
      <4> QED
        BY <1>3, <4>1, <4>2, <4>3, <4>4 DEF Typed, Tables
    <3> QED
      BY <3>1, <3>2, <3>3
  <2> QED
    BY <1>7, <2>2, TypedAfter DEF WebUnauthorized, server_vars, Typed, Tables
<1> QED
  BY <1>4, <1>5, <1>6, <1>7

\* The end of a refresh at the client, a restart and a reload keep the types.
LEMMA AnswerTyped ==
  ASSUME Typed,
         \/ \E s \in Slots : \/ MobileAnswered(s) \/ MobileWritten(s)
                             \/ MobileCleared(s) \/ WebAnswered(s)
         \/ MobileRestart
         \/ \E c \in Tabs : WebReload(c)
  PROVE  Typed'
<1>1. attempts \in [Slots -> Attempt] /\ \A q \in Slots :
        attempts[q].phase # "idle" => attempts[q].base \in Token
  BY DEF Typed, Tables, Based, Busy
<1>2. Touch(attempts) \in [Slots -> Attempt] /\ \A q \in Slots :
        Touch(attempts)[q].phase # "idle" => Touch(attempts)[q].base \in Token
  BY <1>1, TouchTyped, TouchKeeps
<1>3. \A s \in Slots : attempts[s].result \in Token0 /\ attempts[s].client \in Clients
  BY <1>1 DEF Attempt
<1>4. NoAttempt \in Attempt /\ NoCall \in Call /\ NoFlow \in Flow
      /\ NoAttempt.phase = "idle"
  BY FreshRecords DEF NoAttempt
<1>5. ASSUME NEW s \in Slots, MobileAnswered(s) PROVE Typed'
  <2> DEFINE a == attempts[s]
  <2>1. /\ attempts' \in [Slots -> Attempt] /\ Based' /\ calls' \in [Calls -> Call]
        /\ pending' \in [Clients -> Slots \union {NoSlot}]
    <3>1. CASE a.answer = "ok" /\ ~SessionChanged(a)
      <4> DEFINE r == [a EXCEPT !.phase = "writing"]
      <4>1. /\ attempts' = [attempts EXCEPT ![s].phase = "writing"]
            /\ UNCHANGED <<pending, calls>>
        BY <1>5, <3>1, Zenon DEF MobileAnswered, Terminal
      <4>2. r \in Attempt /\ r.base \in Token /\ attempts' = [attempts EXCEPT ![s] = r]
        BY <1>1, <1>5, <4>1 DEF Attempt, MobileAnswered
      <4>3. attempts' \in [Slots -> Attempt] /\ Based'
        BY <1>1, <4>2, AttemptSet
      <4> QED
        BY <4>1, <4>3 DEF Typed, Tables
    <3>2. CASE Terminal(a)
      <4> DEFINE r == [a EXCEPT !.phase = "clearing"]
      <4>1. /\ attempts' = [attempts EXCEPT ![s].phase = "clearing"]
            /\ pending' = [pending EXCEPT ![Phone] = NoSlot]
            /\ UNCHANGED calls
        BY <1>5, <3>2 DEF MobileAnswered, Terminal
      <4>2. r \in Attempt /\ r.base \in Token /\ attempts' = [attempts EXCEPT ![s] = r]
        BY <1>1, <1>5, <4>1 DEF Attempt, MobileAnswered
      <4>3. attempts' \in [Slots -> Attempt] /\ Based'
        BY <1>1, <4>2, AttemptSet
      <4> QED
        BY <4>1, <4>3 DEF Typed, Tables
    <3>3. CASE ~(a.answer = "ok" /\ ~SessionChanged(a)) /\ ~Terminal(a)
      <4>1. MobileSettle(s, 0, attempts)
        BY <1>5, <3>3, Zenon DEF MobileAnswered
      <4> QED
        BY <1>1, <4>1, SettleTyped, Names
    <3> QED
      BY <3>1, <3>2, <3>3
  <2> QED
    BY <1>5, <2>1, TypedAfter DEF MobileAnswered, server_vars, Typed, Tables
<1>6. ASSUME NEW s \in Slots, MobileWritten(s) PROVE Typed'
  <2>1. MobileSettle(s, attempts[s].result, Touch(attempts))
    BY <1>6 DEF MobileWritten
  <2>2. /\ attempts' \in [Slots -> Attempt] /\ Based' /\ calls' \in [Calls -> Call]
        /\ pending' \in [Clients -> Slots \union {NoSlot}]
    BY <1>2, <1>3, <2>1, SettleTyped
  <2> QED
    BY <1>3, <1>6, <2>2, TypedAfter DEF MobileWritten, server_vars, Typed, Tables
<1>7. ASSUME NEW s \in Slots, MobileCleared(s) PROVE Typed'
  <2>1. MobileSettle(s, 0, Touch(attempts))
    BY <1>7 DEF MobileCleared
  <2>2. /\ attempts' \in [Slots -> Attempt] /\ Based' /\ calls' \in [Calls -> Call]
        /\ pending' \in [Clients -> Slots \union {NoSlot}]
    BY <1>2, <2>1, SettleTyped, Names
  <2> QED
    BY <1>7, <2>2, TypedAfter, Names DEF MobileCleared, server_vars, Typed, Tables
<1>8. ASSUME NEW s \in Slots, WebAnswered(s) PROVE Typed'
  <2> DEFINE a == attempts[s]
             t == IF a.answer = "ok" THEN a.result ELSE 0
  <2>1. a.client \in Clients /\ t \in Token0 /\ a.result \in Token0
    BY <1>3, Names
  <2>2. store' \in Token0 /\ held' \in [Clients -> Token0]
    BY <1>8, <2>1, Names DEF WebAnswered, WebSet, Typed, Tables
  <2>3. attempts' \in [Slots -> Attempt] /\ Based'
    <3>1. attempts' = [attempts EXCEPT ![s] = NoAttempt]
      BY <1>8 DEF WebAnswered
    <3> QED
      BY <1>1, <1>4, <3>1, AttemptSet
  <2>4. calls' \in [Calls -> Call]
    <3>1. WakeWith(s, t)
      BY <1>8 DEF WebAnswered
    <3> QED
      BY <2>1, <3>1, WakeTyped DEF Typed, Tables
  <2>5. pending' \in [Clients -> Slots \union {NoSlot}]
    BY <1>8, <2>1 DEF WebAnswered, Typed, Tables
  <2> QED
    BY <1>8, <2>2, <2>3, <2>4, <2>5, TypedAfter DEF WebAnswered, server_vars, Typed, Tables
<1>9. CASE MobileRestart
  <2>1. store' \in Token0
    <3>1. flow[Phone].token \in Token0
      BY Names DEF Typed, Tables, Flow
    <3> QED
      BY <1>3, <1>9, <3>1, Names DEF MobileRestart, Typed, Tables
  <2>2. attempts' \in [Slots -> Attempt] /\ Based' /\ calls' \in [Calls -> Call]
    BY <1>4, <1>9 DEF MobileRestart, Based, Busy
  <2>3. disturbed' \in 0..2
    BY <1>9, WorseTyped DEF MobileRestart, Typed, Tables
  <2> QED
    BY <1>4, <1>9, <2>1, <2>2, <2>3, TypedAfter
    DEF MobileRestart, server_vars, Typed, Tables
<1>10. ASSUME NEW c \in Tabs, WebReload(c) PROVE Typed'
  <2>1. attempts' \in [Slots -> Attempt] /\ Based'
    BY <1>1, <1>4, <1>10 DEF WebReload, Based, Busy
  <2>2. calls' \in [Calls -> Call]
    BY <1>4, <1>10 DEF WebReload, Typed, Tables
  <2>3. disturbed' \in 0..2
    BY <1>10, WorseTyped DEF WebReload, Typed, Tables
  <2> QED
    BY <1>4, <1>10, <2>1, <2>2, <2>3, TypedAfter DEF WebReload, server_vars, Typed, Tables
<1> QED
  BY <1>5, <1>6, <1>7, <1>8, <1>9, <1>10

\* Every step keeps the types.
LEMMA TypePreserved == Typed /\ [Next]_vars => Typed'
<1> SUFFICES ASSUME Typed, [Next]_vars PROVE Typed'
  OBVIOUS
<1>1. CASE UNCHANGED vars
  BY <1>1 DEF vars, Typed, Tables, Based, Busy
<1>2. CASE Next
  BY <1>2, RefreshTyped, AccountTyped, CallTyped, AnswerTyped
  DEF Next, AttemptStep, CallStep, MobileStep, WebStep
<1> QED
  BY <1>1, <1>2

\* Every variable has its type, and a refresh is always asked for with a token, in
\* both clients and whatever is lost, refused or signed out.
THEOREM TypeCorrect == Spec => []TypeOK
<1>1. Typed => TypeOK
  BY DEF Typed, Tables, TypeOK, Attempt, Call, Flow
<1> QED
  BY <1>1, InitTyped, TypePreserved, PTL DEF Spec

-----------------------------------------------------------------------------
\* The pairs issued are numbered from 1, in the order they were issued.
Numbered ==
  \E n \in Token0 : \A t \in Token : server[t].state # "none" <=> t <= n

Live(t) == t \in Token /\ server[t].state = "live"

\* What holds of a session disturbed less than by a repeated token.  At most one
\* refresh is under way ...
OneRefresh == \A s, q \in Slots : Busy(s) /\ Busy(q) => s = q

\* ... whose token is live until the server rotates it, and whose answer, when it has
\* one, is a new live pair in exchange for a spent one, or a refusal to try now ...
Progress(s) ==
  LET a == attempts[s] IN
  /\ a.phase = "idle" => a.answer = "none" /\ a.seen = "none"
  /\ a.phase = "sent" => a.answer = "none" /\ a.seen = "none" /\ Live(a.base)
  /\ a.phase = "read" => a.answer = "none" /\ a.seen = "live" /\ Live(a.base)
  /\ a.phase = "answered" => a.answer \in {"ok", "error"} /\ a.seen = "live"
  /\ a.phase = "writing" => a.answer = "ok" /\ a.seen = "live"
  /\ a.phase # "clearing"
  /\ a.answer = "ok" => Live(a.result) /\ server[a.base].state = "revoked"

\* ... the token in the store can be used, unless its replacement is on its way ...
StoreUsable ==
  \/ store = 0 \/ Live(store)
  \/ \E s \in Slots : attempts[s].answer = "ok" /\ attempts[s].base = store

\* ... nobody signs out, and only a phone without a session signs in ...
FlowQuiet == \A c \in Clients :
  /\ flow[c].step \in {"idle", "saving"}
  /\ flow[c].step = "saving" => /\ platform = "mobile" /\ c = Phone /\ held[c] = 0
                                /\ Live(flow[c].token)

\* ... the phone's memory and store agree, and the refresh is the one its calls wait
\* for; a browser not even disturbed by an error refreshes the token it stores.
PhoneInStep == platform = "mobile" =>
  /\ store = held[Phone]
  /\ \A s \in Slots : Busy(s) => /\ attempts[s].base = store /\ pending[Phone] = s
                                 /\ ~attempts[s].changed

WebInStep == platform = "web" /\ disturbed = 0 =>
  \A s \in Slots : Busy(s) => attempts[s].base = store /\ attempts[s].answer # "error"

Quiet == /\ OneRefresh /\ (\A s \in Slots : Progress(s)) /\ StoreUsable
         /\ FlowQuiet /\ PhoneInStep /\ WebInStep /\ LiveTokenIsKept

Calm == disturbed < 2 => Quiet

\* The next pair's number is that of no row yet.
LEMMA NextIsFresh ==
  ASSUME Numbered
  PROVE  /\ \A t \in Token : server[t].state # "none" <=> t <= Issued
         /\ Issued + 1 \in Token => server[Issued + 1].state = "none"
         /\ Issued \in Token0
<1>1. PICK n \in Token0 : \A t \in Token : server[t].state # "none" <=> t <= n
  BY DEF Numbered
<1>2. {t \in Token : server[t].state # "none"} = 1..n
  BY <1>1, SessionAssumption DEF Token, Token0
<1>3. n \in Nat /\ n <= MaxToken
  BY SessionAssumption DEF Token0
<1>4. Cardinality(1..n) = n
  BY <1>3, FS_Interval
<1>5. Issued = n
  BY <1>2, <1>4 DEF Issued
<1> QED
  BY <1>1, <1>3, <1>5 DEF Token

\* Rows are only added in order.
LEMMA NumberedKept ==
  ASSUME Numbered,
         \/ \A t \in Token : server'[t].state = "none" <=> server[t].state = "none"
         \/ /\ Issued + 1 \in Token
            /\ \A t \in Token : server'[t].state = "none" <=>
                                  server[t].state = "none" /\ t # Issued + 1
  PROVE  Numbered'
<1>1. CASE \A t \in Token : server'[t].state = "none" <=> server[t].state = "none"
  BY <1>1 DEF Numbered
<1>2. CASE /\ Issued + 1 \in Token
           /\ \A t \in Token : server'[t].state = "none" <=>
                                 server[t].state = "none" /\ t # Issued + 1
  <2> DEFINE n == Issued
  <2>1. /\ \A t \in Token : server[t].state # "none" <=> t <= n
        /\ n \in Token0 /\ n + 1 \in Token
    BY <1>2, NextIsFresh
  <2>2. \A t \in Token : server'[t].state = "none" <=>
                           server[t].state = "none" /\ t # n + 1
    BY <1>2
  <2> HIDE DEF n
  <2>3. \A t \in Token : server'[t].state # "none" <=> t <= n + 1
    BY <2>1, <2>2, SessionAssumption DEF Token, Token0
  <2>4. n + 1 \in Token0
    BY <2>1, Names
  <2> QED
    BY <2>3, <2>4 DEF Numbered
<1> QED
  BY <1>1, <1>2

\* What the server's operations do to the rows.
LEMMA RowsAfter ==
  ASSUME Typed, Numbered
  PROVE  /\ \A x : server' = Revoked(x) => \A t \in Token :
              server'[t].state = "none" <=> server[t].state = "none"
         /\ \A n \in Token : IssueSession(n) => \A t \in Token :
              server'[t].state = IF t = n THEN "live" ELSE server[t].state
         /\ \A o, n \in Token : o # n /\ Rotate(o, n) => \A t \in Token :
              server'[t].state = IF t = n THEN "live"
                                 ELSE IF t = o /\ server[t].state = "live"
                                      THEN "revoked" ELSE server[t].state
<1> USE DEF Typed, Tables
<1>1. ASSUME NEW x, server' = Revoked(x), NEW t \in Token
      PROVE  server'[t].state = "none" <=> server[t].state = "none"
  BY <1>1 DEF Revoked
<1>2. ASSUME NEW n \in Token, IssueSession(n), NEW t \in Token
      PROVE  server'[t].state = IF t = n THEN "live" ELSE server[t].state
  BY <1>2 DEF IssueSession, Row
<1>3. ASSUME NEW o \in Token, NEW n \in Token, o # n, Rotate(o, n), NEW t \in Token
      PROVE  server'[t].state = IF t = n THEN "live"
                                ELSE IF t = o /\ server[t].state = "live"
                                     THEN "revoked" ELSE server[t].state
  BY <1>3 DEF Rotate, Row
<1> QED
  BY <1>1, <1>2, <1>3

\* A step only adds the next row, or ends the life of one.
LEMMA NumberedPreserved ==
  ASSUME Typed, Numbered, [Next]_vars PROVE Numbered'
<1>1. CASE server' = server
  BY <1>1 DEF Numbered
<1>2. ASSUME NEW t \in Token, RefreshLapses(t) PROVE Numbered'
  <2>1. \A u \in Token : server'[u].state = "none" <=> server[u].state = "none"
    BY <1>2 DEF RefreshLapses, Typed, Tables
  <2> QED
    BY <2>1, NumberedKept
<1>3. ASSUME NEW x, server' = Revoked(x) PROVE Numbered'
  BY <1>3, RowsAfter, NumberedKept
<1>4. ASSUME Issued < Limit, IssueSession(Issued + 1) PROVE Numbered'
  <2>1. Issued + 1 \in Token
    BY <1>4, IssuedTyped
  <2>2. \A t \in Token : server'[t].state = "none" <=>
                           server[t].state = "none" /\ t # Issued + 1
    BY <1>4, <2>1, RowsAfter
  <2> QED
    BY <2>1, <2>2, NumberedKept
<1>5. ASSUME NEW s \in Slots, RefreshAnswers(s), server' # server PROVE Numbered'
  <2>1. /\ Issued + 1 \in Token /\ attempts[s].base \in Token
        /\ Rotate(attempts[s].base, Issued + 1)
        /\ server[Issued + 1].state = "none"
    BY <1>5, IssuedTyped, NextIsFresh DEF RefreshAnswers, Typed, Based, Busy
  <2>2. CASE attempts[s].base = Issued + 1
    <3>1. \A t \in Token : server'[t].state = "none" <=>
                             server[t].state = "none" /\ t # Issued + 1
      BY <2>1, <2>2 DEF Rotate, Row, Typed, Tables
    <3> QED
      BY <2>1, <3>1, NumberedKept
  <2>3. CASE attempts[s].base # Issued + 1
    <3>1. \A t \in Token : server'[t].state = "none" <=>
                             server[t].state = "none" /\ t # Issued + 1
      BY <2>1, <2>3, RowsAfter
    <3> QED
      BY <2>1, <3>1, NumberedKept
  <2> QED
    BY <2>2, <2>3
<1>6. CASE UNCHANGED vars
  BY <1>1, <1>6 DEF vars
<1>7. ASSUME NEW s \in Slots, AttemptStep(s) \/ RefreshLost(s) PROVE Numbered'
  BY <1>1, <1>5, <1>7
  DEF AttemptStep, RefreshReads, RefreshErrors, RefreshLost, MobileAnswered,
      MobileWritten, MobileCleared, WebAnswered, server_vars
<1>8. ASSUME NEW k \in Calls, CallStep(k) \/ \E c \in Active : StartCall(k, c)
      PROVE  Numbered'
  BY <1>1, <1>8
  DEF CallStep, CallServed, EndCall, MobileUnauthorized, WebUnauthorized, StartCall,
      server_vars
<1>9. ASSUME NEW t \in Token, AccessExpires(t) PROVE Numbered'
  BY <1>1, <1>9 DEF AccessExpires
<1>10. CASE MobileStep
  BY <1>1, <1>3, <1>4, <1>10
  DEF MobileStep, MobileSignIn, MobileSignedIn, MobileLogout, MobileLogoutFails,
      MobileLogoutServed, MobileLoggedOut, MobileRestart, server_vars
<1>11. ASSUME NEW c \in Tabs, WebStep(c) PROVE Numbered'
  BY <1>1, <1>3, <1>4, <1>11
  DEF WebStep, WebSignIn, WebLogout, WebLoggedOut, WebProfileRejected, WebReload,
      server_vars
<1> QED
  BY <1>2, <1>6, <1>7, <1>8, <1>9, <1>10, <1>11 DEF Next

-----------------------------------------------------------------------------
\* Where only one request changed, only that one has to be looked at.
LEMMA OneChanged ==
  ASSUME NEW as \in [Slots -> Attempt], NEW s \in Slots, NEW r,
         attempts' = [as EXCEPT ![s] = r]
  PROVE  attempts'[s] = r /\ \A q \in Slots : q # s => attempts'[q] = as[q]
OBVIOUS

\* A step that leaves the session alone leaves it in order.
LEMMA QuietFrame ==
  ASSUME Quiet, UNCHANGED <<platform, server, store, held, flow, pending, attempts>>,
         disturbed' = 0 => disturbed = 0
  PROVE  Quiet'
<1>1. OneRefresh' /\ StoreUsable' /\ FlowQuiet' /\ PhoneInStep' /\ WebInStep'
  BY DEF Quiet, OneRefresh, StoreUsable, FlowQuiet, PhoneInStep, WebInStep, Busy, Live
<1>2. \A s \in Slots : Progress(s)'
  BY DEF Quiet, Progress, Live
<1>3. LiveTokenIsKept'
  BY DEF Quiet, LiveTokenIsKept
<1> QED
  BY <1>1, <1>2, <1>3 DEF Quiet

\* The server reads the row of a token that is live.
LEMMA ReadQuiet ==
  ASSUME Typed, Quiet, NEW s \in Slots, RefreshReads(s) PROVE Quiet'
<1> DEFINE a == attempts[s]
<1>1. /\ UNCHANGED <<platform, server, store, held, pending, flow, disturbed>>
      /\ a.phase = "sent" /\ a \in Attempt
  BY DEF RefreshReads, server_vars, client_vars, Typed, Tables
<1>2. a.answer = "none" /\ Live(a.base)
  BY <1>1 DEF Quiet, Progress
<1>3. attempts' = [attempts EXCEPT ![s] = [a EXCEPT !.phase = "read", !.seen = "live"]]
  BY <1>2 DEF RefreshReads, Live, Typed, Tables
<1>4. /\ attempts'[s] = [a EXCEPT !.phase = "read", !.seen = "live"]
      /\ \A q \in Slots : q # s => attempts'[q] = attempts[q]
  BY <1>3, OneChanged DEF Typed, Tables
<1>5. /\ attempts'[s].phase = "read" /\ attempts'[s].seen = "live"
      /\ attempts'[s].answer = "none" /\ attempts'[s].base = a.base
      /\ attempts'[s].changed = a.changed
  BY <1>1, <1>2, <1>4 DEF Attempt
<1>6. OneRefresh'
  BY <1>1, <1>4, <1>5 DEF Quiet, OneRefresh, Busy
<1>7. \A q \in Slots : Progress(q)'
  <2>1. \A t : Live(t)' <=> Live(t)
    BY <1>1 DEF Live
  <2>2. Progress(s)'
    BY <1>2, <1>5, <2>1 DEF Progress
  <2> QED
    <3>1. ASSUME NEW q \in Slots, q # s PROVE Progress(q)'
      <4>1. Progress(q) /\ attempts'[q] = attempts[q] /\ server' = server
        BY <1>1, <1>4, <3>1 DEF Quiet
      <4> QED
        BY <2>1, <4>1 DEF Progress
    <3> QED
      BY <2>2, <3>1
<1>8. StoreUsable' /\ FlowQuiet'
  BY <1>1, <1>2, <1>4, <1>5 DEF Quiet, StoreUsable, FlowQuiet, Live
<1>9. PhoneInStep' /\ WebInStep'
  BY <1>1, <1>2, <1>4, <1>5 DEF Quiet, PhoneInStep, WebInStep, Busy
<1>10. LiveTokenIsKept'
  BY <1>1, <1>2, <1>4, <1>5 DEF Quiet, LiveTokenIsKept
<1> QED
  BY <1>6, <1>7, <1>8, <1>9, <1>10 DEF Quiet

\* The server rotates it.
LEMMA RotateQuiet ==
  ASSUME Typed, Numbered, Quiet, NEW s \in Slots, RefreshAnswers(s) PROVE Quiet'
<1> DEFINE a == attempts[s]
           n == Issued + 1
<1>1. /\ UNCHANGED <<platform, store, held, pending, flow, disturbed>>
      /\ a.phase = "read" /\ a \in Attempt
  BY DEF RefreshAnswers, client_vars, Typed, Tables
<1>2. a.answer = "none" /\ a.seen = "live" /\ Live(a.base)
  BY <1>1 DEF Quiet, Progress
<1>3. /\ n \in Token /\ Rotate(a.base, n) /\ server[n].state = "none"
      /\ attempts' = [attempts EXCEPT ![s] =
             [a EXCEPT !.phase = "answered", !.answer = "ok", !.result = n]]
  BY <1>2, IssuedTyped, NextIsFresh DEF RefreshAnswers, Typed, Tables
<1>4. /\ attempts'[s] = [a EXCEPT !.phase = "answered", !.answer = "ok", !.result = n]
      /\ \A q \in Slots : q # s => attempts'[q] = attempts[q]
  BY <1>3, OneChanged DEF Typed, Tables
<1>5. /\ attempts'[s].phase = "answered" /\ attempts'[s].seen = "live"
      /\ attempts'[s].answer = "ok" /\ attempts'[s].base = a.base
      /\ attempts'[s].changed = a.changed /\ attempts'[s].result = n
  BY <1>1, <1>2, <1>4 DEF Attempt
<1>6. a.base \in Token /\ a.base # n
  BY <1>2, <1>3 DEF Live
<1>7. \A t : Live(t)' <=> t = n \/ (Live(t) /\ t # a.base)
  BY <1>2, <1>3, <1>6, RowsAfter DEF Live
<1> HIDE DEF n
<1>8. OneRefresh'
  BY <1>1, <1>4, <1>5 DEF Quiet, OneRefresh, Busy
<1>9. \A q \in Slots : q # s => ~Busy(q) /\ attempts[q].answer = "none"
  BY <1>1 DEF Quiet, OneRefresh, Busy, Progress
<1>10. \A q \in Slots : Progress(q)'
  <2>1. Progress(s)'
    <3>1. server'[a.base].state = "revoked"
      BY <1>2, <1>3, <1>6, RowsAfter DEF Live
    <3> QED
      BY <1>5, <1>6, <1>7, <3>1 DEF Progress
  <2>2. ASSUME NEW q \in Slots, q # s PROVE Progress(q)'
    <3>1. attempts[q].phase = "idle" /\ Progress(q) /\ attempts'[q] = attempts[q]
      BY <1>4, <1>9, <2>2 DEF Quiet, Busy
    <3> QED
      BY <3>1 DEF Progress
  <2> QED
    BY <2>1, <2>2
<1>11. StoreUsable'
  BY <1>1, <1>2, <1>4, <1>5, <1>7, <1>9 DEF Quiet, StoreUsable
<1>12. FlowQuiet'
  <2>1. platform = "mobile" => a.base = held[Phone] /\ a.base # 0
    BY <1>1, <1>2, SessionAssumption DEF Quiet, PhoneInStep, Busy, Live, Token
  <2> QED
    BY <1>1, <1>7, <2>1 DEF Quiet, FlowQuiet
<1>13. PhoneInStep' /\ WebInStep'
  BY <1>1, <1>4, <1>5, <1>9 DEF Quiet, PhoneInStep, WebInStep, Busy
<1>14. LiveTokenIsKept'
  <2> SUFFICES ASSUME disturbed = 0, NEW t \in Token, Live(t)'
               PROVE  \/ t = store
                      \/ \E q \in Slots : attempts'[q].answer = "ok" /\ attempts'[q].result = t
                      \/ \E c \in Clients : flow[c].step = "saving" /\ flow[c].token = t
    BY <1>1 DEF LiveTokenIsKept, Live
  <2>1. CASE t = n
    BY <1>5, <2>1
  <2>2. CASE Live(t) /\ t # a.base
    BY <1>9, <2>2, <1>2 DEF Quiet, LiveTokenIsKept, Live
  <2> QED
    BY <1>7, <2>1, <2>2
<1> QED
  BY <1>8, <1>10, <1>11, <1>12, <1>13, <1>14 DEF Quiet

\* The server fails, having written nothing.
LEMMA ErrorQuiet ==
  ASSUME Typed, Quiet, NEW s \in Slots, RefreshErrors(s) PROVE Quiet'
<1> DEFINE a == attempts[s]
<1>1. /\ UNCHANGED <<platform, server, store, held, pending, flow>>
      /\ a.phase = "read" /\ a \in Attempt
      /\ attempts' = [attempts EXCEPT ![s] =
             [a EXCEPT !.phase = "answered", !.answer = "error"]]
  BY DEF RefreshErrors, server_vars, client_vars, Typed, Tables
<1>2. a.answer = "none" /\ a.seen = "live" /\ Live(a.base)
  BY <1>1 DEF Quiet, Progress
<1>3. /\ attempts'[s] = [a EXCEPT !.phase = "answered", !.answer = "error"]
      /\ \A q \in Slots : q # s => attempts'[q] = attempts[q]
  BY <1>1, OneChanged DEF Typed, Tables
<1>4. /\ attempts'[s].phase = "answered" /\ attempts'[s].seen = "live"
      /\ attempts'[s].answer = "error" /\ attempts'[s].base = a.base
      /\ attempts'[s].changed = a.changed
  <2>1. a \in Attempt /\ a.seen = "live"
    BY <1>1, <1>2
  <2> HIDE DEF a
  <2> QED
    BY <1>3, <2>1 DEF Attempt
<1>5. (disturbed' = 0 => disturbed = 0) /\ (platform = "web" => disturbed' # 0)
  BY WorseTyped DEF RefreshErrors, Typed, Tables
<1>6. OneRefresh'
  BY <1>1, <1>3, <1>4 DEF Quiet, OneRefresh, Busy
<1>7. \A q \in Slots : Progress(q)'
  <2>1. \A t : Live(t)' <=> Live(t)
    BY <1>1 DEF Live
  <2>2. Progress(s)'
    BY <1>4, <2>1 DEF Progress
  <2> QED
    BY <1>1, <1>3, <2>1, <2>2 DEF Quiet, Progress
<1>8. StoreUsable' /\ FlowQuiet'
  BY <1>1, <1>2, <1>3, <1>4 DEF Quiet, StoreUsable, FlowQuiet, Live
<1>9. PhoneInStep' /\ WebInStep'
  BY <1>1, <1>2, <1>3, <1>4, <1>5 DEF Quiet, PhoneInStep, WebInStep, Busy
<1>10. LiveTokenIsKept'
  BY <1>1, <1>2, <1>3, <1>4, <1>5 DEF Quiet, LiveTokenIsKept
<1> QED
  BY <1>6, <1>7, <1>8, <1>9, <1>10 DEF Quiet

\* When no refresh is under way, the session is in order if its store is.
LEMMA NothingUnderWay ==
  ASSUME \A q \in Slots : /\ attempts'[q].phase = "idle" /\ attempts'[q].answer = "none"
                          /\ attempts'[q].seen = "none",
         store' = 0 \/ Live(store)', FlowQuiet',
         platform' = "mobile" => store' = held'[Phone], LiveTokenIsKept'
  PROVE  Quiet'
<1>1. OneRefresh' /\ PhoneInStep' /\ WebInStep' /\ \A q \in Slots : ~Busy(q)'
  BY DEF OneRefresh, PhoneInStep, WebInStep, Busy
<1>2. StoreUsable' /\ \A q \in Slots : Progress(q)'
  BY DEF StoreUsable, Progress
<1> QED
  BY <1>1, <1>2 DEF Quiet

\* A request that is over leaves none under way.
LEMMA RequestOver ==
  ASSUME Typed, Quiet, NEW s \in Slots, Busy(s),
         \/ attempts' = [attempts EXCEPT ![s] = NoAttempt]
         \/ attempts' = [Touch(attempts) EXCEPT ![s] = NoAttempt]
  PROVE  /\ \A q \in Slots : /\ attempts'[q].phase = "idle" /\ attempts'[q].seen = "none"
                             /\ attempts'[q].answer = "none"
         /\ \A q \in Slots : attempts[q].answer = "ok" => q = s
<1>1. \A q \in Slots : q # s =>
        attempts[q].phase = "idle" /\ attempts[q].answer = "none" /\ attempts[q].seen = "none"
  BY DEF Quiet, OneRefresh, Busy, Progress
<1>2. attempts \in [Slots -> Attempt] /\ Touch(attempts) \in [Slots -> Attempt]
  BY TouchTyped DEF Typed, Tables
<1>3. /\ attempts'[s] = NoAttempt
      /\ \A q \in Slots : q # s =>
           attempts'[q] = attempts[q] \/ attempts'[q] = Touch(attempts)[q]
  BY <1>2, OneChanged
<1>4. \A q \in Slots : q # s => /\ attempts'[q].phase = attempts[q].phase
                                /\ attempts'[q].answer = attempts[q].answer
                                /\ attempts'[q].seen = attempts[q].seen
  BY <1>2, <1>3, TouchKeeps
<1>5. NoAttempt.phase = "idle" /\ NoAttempt.answer = "none" /\ NoAttempt.seen = "none"
  BY DEF NoAttempt
<1>6. \A q \in Slots : attempts[q].answer = "ok" => q = s
  BY <1>1
<1> QED
  BY <1>1, <1>3, <1>4, <1>5, <1>6

\* The phone receives an answer: the new pair is on its way into the store, or the
\* refresh is over.
LEMMA MobileAnsweredQuiet ==
  ASSUME Typed, Quiet, NEW s \in Slots, MobileAnswered(s) PROVE Quiet'
<1> DEFINE a == attempts[s]
<1>1. /\ UNCHANGED <<platform, server, store, held, flow, disturbed>>
      /\ a.phase = "answered" /\ a \in Attempt /\ platform = "mobile"
  BY DEF MobileAnswered, server_vars, Typed, Tables
<1>2. a.answer \in {"ok", "error"} /\ a.seen = "live" /\ Busy(s) /\ Progress(s)
  BY <1>1 DEF Quiet, Progress, Busy
<1>3. ~Terminal(a)
  BY <1>2 DEF Terminal
<1>4. a.base = store /\ a.base \in Token /\ held[Phone] = store /\ ~a.changed
  BY <1>1, <1>2 DEF Quiet, PhoneInStep, Typed, Based
<1>5. ~SessionChanged(a)
  BY <1>4, SessionAssumption DEF SessionChanged, Token
<1>6. \A t : Live(t)' <=> Live(t)
  BY <1>1 DEF Live
<1>7. CASE a.answer = "ok"
  <2>1. /\ attempts' = [attempts EXCEPT ![s].phase = "writing"]
        /\ UNCHANGED <<pending, calls>>
    BY <1>3, <1>5, <1>7, Zenon DEF MobileAnswered
  <2>2. /\ attempts'[s] = [a EXCEPT !.phase = "writing"]
        /\ \A q \in Slots : q # s => attempts'[q] = attempts[q]
    <3>1. attempts' = [attempts EXCEPT ![s] = [a EXCEPT !.phase = "writing"]]
      BY <2>1
    <3> QED
      BY <3>1, OneChanged DEF Typed, Tables
  <2>3. /\ attempts'[s].phase = "writing" /\ attempts'[s].seen = "live"
        /\ attempts'[s].answer = "ok" /\ attempts'[s].base = a.base
        /\ attempts'[s].changed = a.changed /\ attempts'[s].result = a.result
    BY <1>1, <1>2, <1>7, <2>2 DEF Attempt
  <2>4. OneRefresh'
    BY <1>2, <2>2 DEF Quiet, OneRefresh, Busy
  <2>5. \A q \in Slots : Progress(q)'
    <3>1. Progress(s)'
      BY <1>1, <1>2, <1>6, <1>7, <2>3 DEF Progress
    <3> QED
      BY <1>1, <1>6, <2>2, <3>1 DEF Quiet, Progress
  <2>6. StoreUsable' /\ FlowQuiet'
    BY <1>1, <1>4, <1>6, <2>3 DEF Quiet, StoreUsable, FlowQuiet
  <2>7. PhoneInStep' /\ WebInStep'
    BY <1>1, <1>2, <2>1, <2>2, <2>3 DEF Quiet, PhoneInStep, WebInStep, Busy
  <2>8. LiveTokenIsKept'
    <3>1. \A q \in Slots : attempts'[q].answer = attempts[q].answer
                           /\ attempts'[q].result = attempts[q].result
      BY <1>7, <2>2, <2>3
    <3> QED
      BY <1>1, <3>1 DEF Quiet, LiveTokenIsKept
  <2> QED
    BY <2>4, <2>5, <2>6, <2>7, <2>8 DEF Quiet
<1>8. CASE a.answer = "error"
  <2>1. MobileSettle(s, 0, attempts)
    BY <1>3, <1>8, Zenon DEF MobileAnswered
  <2>2. /\ \A q \in Slots : /\ attempts'[q].phase = "idle" /\ attempts'[q].seen = "none"
                            /\ attempts'[q].answer = "none"
        /\ \A q \in Slots : attempts[q].answer = "ok" => q = s
    BY <1>2, <2>1, RequestOver DEF MobileSettle
  <2>3. \A q \in Slots : attempts[q].answer # "ok"
    BY <1>8, <2>2
  <2>4. (store' = 0 \/ Live(store)') /\ FlowQuiet' /\ store' = held'[Phone]
    BY <1>1, <1>4, <1>6, <2>3 DEF Quiet, StoreUsable, FlowQuiet
  <2>5. LiveTokenIsKept'
    BY <1>1, <2>3 DEF Quiet, LiveTokenIsKept
  <2> QED
    BY <2>2, <2>4, <2>5, NothingUnderWay
<1> QED
  BY <1>2, <1>7, <1>8

\* The phone has stored the new pair, which is the only one that was on its way.
LEMMA MobileWrittenQuiet ==
  ASSUME Typed, Quiet, NEW s \in Slots, MobileWritten(s) PROVE Quiet'
<1> DEFINE a == attempts[s]
<1>1. /\ UNCHANGED <<platform, server, flow, disturbed>> /\ platform = "mobile"
      /\ store' = a.result /\ held' = [held EXCEPT ![Phone] = a.result]
      /\ MobileSettle(s, a.result, Touch(attempts))
      /\ Busy(s) /\ a.phase = "writing"
  BY DEF MobileWritten, server_vars, Busy
<1>2. a.answer = "ok" /\ Live(a.result) /\ server[a.base].state = "revoked"
  BY <1>1 DEF Quiet, Progress
<1>3. a.base = store /\ held[Phone] = store /\ store \in Token
  BY <1>1 DEF Quiet, PhoneInStep, Typed, Based
<1>4. /\ \A q \in Slots : /\ attempts'[q].phase = "idle" /\ attempts'[q].seen = "none"
                          /\ attempts'[q].answer = "none"
      /\ \A q \in Slots : attempts[q].answer = "ok" => q = s
  BY <1>1, RequestOver DEF MobileSettle
<1>5. Live(store)' /\ held'[Phone] = store'
  BY <1>1, <1>2, Names DEF Live, Typed, Tables
<1>6. \A c \in Clients : flow[c].step # "saving"
  BY <1>3, SessionAssumption DEF Quiet, FlowQuiet, Token
<1>7. FlowQuiet'
  BY <1>1, <1>6 DEF Quiet, FlowQuiet
<1>8. LiveTokenIsKept'
  <2>1. \A t \in Token : disturbed = 0 /\ server[t].state = "live" => t = a.result
    BY <1>2, <1>3, <1>4, <1>6 DEF Quiet, LiveTokenIsKept
  <2> QED
    BY <1>1, <2>1 DEF LiveTokenIsKept
<1> QED
  BY <1>4, <1>5, <1>7, <1>8, NothingUnderWay

\* The browser stores the new pair, or gives the session up at an error.
LEMMA WebAnsweredQuiet ==
  ASSUME Typed, Quiet, NEW s \in Slots, WebAnswered(s) PROVE Quiet'
<1> DEFINE a == attempts[s]
<1>1. /\ UNCHANGED <<platform, server, flow, disturbed>> /\ platform = "web"
      /\ attempts' = [attempts EXCEPT ![s] = NoAttempt]
      /\ Busy(s) /\ a.phase = "answered"
  BY DEF WebAnswered, server_vars, Busy
<1>2. /\ a.answer \in {"ok", "error"}
      /\ a.answer = "ok" => Live(a.result) /\ server[a.base].state = "revoked"
  BY <1>1 DEF Quiet, Progress
<1>3. store' = IF a.answer = "ok" THEN a.result ELSE 0
  BY <1>2 DEF WebAnswered, WebSet
<1>4. /\ \A q \in Slots : /\ attempts'[q].phase = "idle" /\ attempts'[q].seen = "none"
                          /\ attempts'[q].answer = "none"
      /\ \A q \in Slots : attempts[q].answer = "ok" => q = s
  BY <1>1, RequestOver
<1>5. store' = 0 \/ Live(store)'
  BY <1>1, <1>2, <1>3 DEF Live
<1>6. \A c \in Clients : flow[c].step # "saving"
  BY <1>1 DEF Quiet, FlowQuiet
<1>7. FlowQuiet'
  BY <1>1, <1>6 DEF Quiet, FlowQuiet
<1>8. LiveTokenIsKept'
  <2> SUFFICES ASSUME disturbed = 0, NEW t \in Token, server[t].state = "live"
               PROVE  t = store'
    BY <1>1 DEF LiveTokenIsKept
  <2>1. a.base = store /\ a.answer = "ok"
    BY <1>1, <1>2 DEF Quiet, WebInStep
  <2>2. t # store
    BY <1>2, <2>1
  <2> QED
    BY <1>3, <1>4, <1>6, <2>1, <2>2 DEF Quiet, LiveTokenIsKept
<1> QED
  BY <1>1, <1>4, <1>5, <1>7, <1>8, NothingUnderWay

\* A refresh that starts is the only one, for the token in the store.
LEMMA AskQuiet ==
  ASSUME Typed, Quiet, NEW c \in Clients, NEW q \in Slots, FreeSlot(q), store # 0,
         \A p \in Slots : ~Busy(p),
         Ask(c, NextSlot, store), pending' = [pending EXCEPT ![c] = NextSlot],
         platform = "mobile" => c = Phone,
         UNCHANGED <<platform, server, store, held, flow>>,
         disturbed' = 0 => disturbed = 0
  PROVE  Quiet'
<1>1. PICK s \in Slots : s = NextSlot
  BY SlotIsFree
<1> DEFINE r == [NoAttempt EXCEPT !.phase = "sent", !.client = c, !.base = store]
<1>2. attempts'[s] = r /\ \A p \in Slots : p # s => attempts'[p] = attempts[p]
  <2>1. attempts' = [attempts EXCEPT ![s] = r]
    BY <1>1 DEF Ask
  <2> HIDE DEF r
  <2> QED
    BY <1>1, <2>1, OneChanged DEF Typed, Tables
<1>3. /\ attempts'[s].phase = "sent" /\ attempts'[s].seen = "none"
      /\ attempts'[s].answer = "none" /\ attempts'[s].base = store
      /\ ~attempts'[s].changed
  BY <1>2 DEF NoAttempt
<1>4. \A p \in Slots : attempts[p].phase = "idle" /\ attempts[p].answer = "none"
  BY DEF Quiet, Busy, Progress
<1>5. (\A t : Live(t)' <=> Live(t)) /\ Live(store)
  BY <1>4 DEF Live, Quiet, StoreUsable
<1>6. OneRefresh'
  BY <1>2, <1>4 DEF OneRefresh, Busy
<1>7. \A p \in Slots : Progress(p)'
  <2>1. Progress(s)'
    BY <1>3, <1>5 DEF Progress
  <2>2. ASSUME NEW p \in Slots, p # s PROVE Progress(p)'
    BY <1>2, <1>4, <2>2 DEF Quiet, Progress
  <2> QED
    BY <2>1, <2>2
<1>8. StoreUsable' /\ FlowQuiet'
  BY <1>5 DEF Quiet, StoreUsable, FlowQuiet
<1>9. PhoneInStep'
  <2>1. platform = "mobile" => pending'[Phone] = s
    BY <1>1, Names DEF Typed, Tables
  <2> QED
    BY <1>2, <1>3, <1>4, <2>1 DEF Quiet, PhoneInStep, Busy
<1>10. WebInStep'
  BY <1>2, <1>3, <1>4 DEF Quiet, WebInStep, Busy
<1>11. LiveTokenIsKept'
  BY <1>4 DEF Quiet, LiveTokenIsKept
<1> QED
  BY <1>6, <1>7, <1>8, <1>9, <1>10, <1>11 DEF Quiet

\* While no repeated token is possible, a refused call starts a refresh only when
\* none is under way.
LEMMA CallQuiet ==
  ASSUME Typed, Typed', Quiet, NEW k \in Calls, disturbed' < 2,
         \/ CallServed(k) \/ MobileUnauthorized(k) \/ WebUnauthorized(k)
         \/ \E c \in Active : StartCall(k, c)
  PROVE  Quiet' /\ (disturbed' = 0 => disturbed = 0) /\ disturbed < 2
<1>1. CASE CallServed(k) \/ \E c \in Active : StartCall(k, c)
  <2>1. UNCHANGED <<platform, server, store, held, flow, pending, attempts, disturbed>>
    BY <1>1 DEF CallServed, EndCall, StartCall, server_vars, client_vars
  <2> QED
    BY <2>1, QuietFrame
<1>2. CASE MobileUnauthorized(k)
  <2>1. UNCHANGED <<platform, server, store, held, flow, disturbed>> /\ platform = "mobile"
    BY <1>2 DEF MobileUnauthorized, server_vars
  <2>2. CASE UNCHANGED <<pending, attempts>>
    BY <2>1, <2>2, QuietFrame
  <2>3. CASE ~UNCHANGED <<pending, attempts>>
    <3>1. /\ pending[Phone] = NoSlot /\ held[Phone] # 0
          /\ \E q \in Slots : FreeSlot(q)
          /\ Ask(Phone, NextSlot, held[Phone])
          /\ pending' = [pending EXCEPT ![Phone] = NextSlot]
      BY <1>2, <2>3 DEF MobileUnauthorized, MobileRefresh
    <3>2. held[Phone] = store /\ \A p \in Slots : ~Busy(p)
      BY <2>1, <3>1, SessionAssumption DEF Quiet, PhoneInStep
    <3> QED
      BY <2>1, <3>1, <3>2, AskQuiet, Names
  <2> QED
    BY <2>2, <2>3
<1>3. CASE WebUnauthorized(k)
  <2> DEFINE c == calls[k].client
  <2>1. /\ UNCHANGED <<platform, server, store, held, flow>> /\ platform = "web"
        /\ WebRefresh(k, c) /\ c \in Clients
    BY <1>3 DEF WebUnauthorized, server_vars, Typed, Tables, Call
  <2> HIDE DEF c
  <2>2. CASE UNCHANGED <<pending, attempts, disturbed>>
    BY <2>1, <2>2, QuietFrame
  <2>3. CASE ~UNCHANGED <<pending, attempts, disturbed>>
    <3>1. /\ store # 0
          /\ \E q \in Slots : FreeSlot(q)
          /\ Ask(c, NextSlot, store)
          /\ pending' = [pending EXCEPT ![c] = NextSlot]
          /\ Worse(IF \A q \in Slots : FreeSlot(q) THEN 0 ELSE 2)
      BY <2>1, <2>3 DEF WebRefresh
    <3>2. \A q \in Slots : FreeSlot(q)
      BY <3>1 DEF Worse, Typed, Tables
    <3>3. disturbed' = disturbed
      BY <3>1, <3>2 DEF Worse, Typed, Tables
    <3>4. \A p \in Slots : ~Busy(p)
      BY <3>2 DEF FreeSlot, Busy
    <3> QED
      BY <2>1, <3>1, <3>3, <3>4, AskQuiet
  <2> QED
    BY <2>2, <2>3
<1> QED
  BY <1>1, <1>2, <1>3

\* A phone that holds no session refreshes none.
LEMMA NoSessionNoRefresh ==
  ASSUME Typed, Quiet, platform = "mobile", held[Phone] = 0
  PROVE  store = 0 /\ \A q \in Slots : /\ attempts[q].phase = "idle"
                                       /\ attempts[q].answer = "none"
                                       /\ attempts[q].seen = "none"
<1>1. store = 0 /\ \A q \in Slots : ~Busy(q)
  BY SessionAssumption DEF Quiet, PhoneInStep, Typed, Based, Token
<1> QED
  BY <1>1 DEF Quiet, Busy, Progress

\* A sign-in on the phone: the new pair is live and on its way into the store.
LEMMA MobileSignInQuiet ==
  ASSUME Typed, Numbered, Quiet, MobileSignIn \/ MobileSignedIn PROVE Quiet'
<1>1. CASE MobileSignIn
  <2> DEFINE n == Issued + 1
  <2>1. /\ UNCHANGED <<platform, store, held, attempts, disturbed>>
        /\ platform = "mobile" /\ held[Phone] = 0
        /\ n \in Token /\ IssueSession(n)
        /\ flow' = [flow EXCEPT ![Phone] = [step |-> "saving", token |-> n]]
    BY <1>1, IssuedTyped DEF MobileSignIn, client_vars
  <2> HIDE DEF n
  <2>2. store = 0 /\ \A q \in Slots : /\ attempts[q].phase = "idle"
                                      /\ attempts[q].answer = "none"
                                      /\ attempts[q].seen = "none"
    BY <2>1, NoSessionNoRefresh
  <2>3. \A t : Live(t)' <=> t = n \/ Live(t)
    BY <2>1, RowsAfter DEF Live
  <2>4. /\ flow'[Phone].step = "saving" /\ flow'[Phone].token = n
        /\ \A c \in Clients : c # Phone => flow'[c] = flow[c]
    BY <2>1, Names DEF Typed, Tables
  <2>5. FlowQuiet'
    BY <2>1, <2>3, <2>4 DEF Quiet, FlowQuiet
  <2>6. LiveTokenIsKept'
    <3> SUFFICES ASSUME disturbed = 0, NEW t \in Token, Live(t)'
                 PROVE  \E c \in Clients : flow'[c].step = "saving" /\ flow'[c].token = t
      BY <2>1 DEF LiveTokenIsKept, Live
    <3>1. t # n => FALSE
      <4>1. \A u \in Token : ~Live(u)
        <5>1. \A c \in Clients : flow[c].step = "saving" => c = Phone
          BY DEF Quiet, FlowQuiet
        <5>2. flow[Phone].step = "idle"
          BY <1>1 DEF MobileSignIn
        <5> QED
          BY <2>2, <5>1, <5>2, SessionAssumption DEF Quiet, LiveTokenIsKept, Live, Token
      <4> QED
        BY <2>3, <4>1
    <3> QED
      BY <2>4, <3>1, Names
  <2> QED
    BY <2>1, <2>2, <2>5, <2>6, NothingUnderWay DEF Quiet, PhoneInStep
<1>2. CASE MobileSignedIn
  <2>1. /\ UNCHANGED <<platform, server, disturbed>>
        /\ platform = "mobile" /\ flow[Phone].step = "saving"
        /\ store' = flow[Phone].token /\ attempts' = Touch(attempts)
        /\ held' = [held EXCEPT ![Phone] = flow[Phone].token]
        /\ flow' = [flow EXCEPT ![Phone] = NoFlow]
    BY <1>2 DEF MobileSignedIn, server_vars
  <2>2. held[Phone] = 0 /\ Live(flow[Phone].token)
    BY <2>1, Names DEF Quiet, FlowQuiet
  <2>3. store = 0 /\ \A q \in Slots : /\ attempts[q].phase = "idle"
                                      /\ attempts[q].answer = "none"
                                      /\ attempts[q].seen = "none"
    BY <2>1, <2>2, NoSessionNoRefresh
  <2>4. \A q \in Slots : /\ attempts'[q].phase = "idle" /\ attempts'[q].answer = "none"
                         /\ attempts'[q].seen = "none"
    BY <2>1, <2>3, TouchKeeps DEF Typed, Tables
  <2>5. /\ flow'[Phone].step = "idle"
        /\ \A c \in Clients : c # Phone => flow'[c] = flow[c]
    BY <2>1, Names DEF NoFlow, Typed, Tables
  <2>6. Live(store)' /\ store' = held'[Phone]
    BY <2>1, <2>2, Names DEF Live, Typed, Tables
  <2>7. \A c \in Clients : flow[c].step = "saving" => c = Phone
    BY DEF Quiet, FlowQuiet
  <2>8. FlowQuiet'
    BY <2>5, <2>7 DEF Quiet, FlowQuiet
  <2>9. LiveTokenIsKept'
    <3> SUFFICES ASSUME disturbed = 0, NEW t \in Token, server[t].state = "live"
                 PROVE  t = store'
      BY <2>1 DEF LiveTokenIsKept
    <3> QED
      BY <2>1, <2>3, <2>7, SessionAssumption DEF Quiet, LiveTokenIsKept, Token
  <2> QED
    BY <2>4, <2>6, <2>8, <2>9, NothingUnderWay
<1> QED
  BY <1>1, <1>2

\* Signing in to a browser whose store is empty, a refused profile, and loading a tab
\* again that waits for no refresh.
LEMMA WebStepQuiet ==
  ASSUME Typed, Typed', Numbered, Quiet, disturbed' < 2, NEW c \in Tabs,
         WebSignIn(c) \/ WebProfileRejected(c) \/ WebReload(c)
  PROVE  Quiet' /\ (disturbed' = 0 => disturbed = 0) /\ disturbed < 2
<1>1. /\ (disturbed' = 0 => disturbed = 0) /\ disturbed < 2
      /\ platform = "web" /\ UNCHANGED <<platform>>
  BY WorseTyped DEF WebSignIn, WebProfileRejected, WebReload, Worse, Typed, Tables
<1>2. \A d \in Clients : flow[d].step = "idle"
  BY <1>1 DEF Quiet, FlowQuiet
<1>3. CASE WebSignIn(c)
  <2> DEFINE n == Issued + 1
  <2>1. /\ UNCHANGED <<flow, attempts>> /\ store' = n
        /\ n \in Token /\ IssueSession(n) /\ server[n].state = "none"
    BY <1>3, IssuedTyped, NextIsFresh DEF WebSignIn, WebSet
  <2> HIDE DEF n
  <2>2. store = 0
    <3>1. Worse(IF store = 0 THEN 0 ELSE 2)
      BY <1>3 DEF WebSignIn
    <3> QED
      BY <3>1 DEF Worse, Typed, Tables
  <2>3. \A t : Live(t)' <=> t = n \/ Live(t)
    BY <2>1, RowsAfter DEF Live
  <2>4. OneRefresh' /\ FlowQuiet' /\ PhoneInStep' /\ StoreUsable'
    BY <1>1, <1>2, <2>1, <2>3
    DEF Quiet, OneRefresh, FlowQuiet, PhoneInStep, StoreUsable, Busy
  <2>5. \A q \in Slots : Progress(q)'
    <3> SUFFICES ASSUME NEW q \in Slots PROVE Progress(q)'
      OBVIOUS
    <3>1. Progress(q) /\ attempts'[q] = attempts[q]
      BY <2>1 DEF Quiet
    <3>2. attempts[q].answer = "ok" => server'[attempts[q].base].state = "revoked"
      <4>1. attempts[q].answer = "ok" => attempts[q].base \in Token
                                         /\ server[attempts[q].base].state = "revoked"
        BY <3>1 DEF Progress, Typed, Based, Busy
      <4> QED
        BY <2>1, <4>1, RowsAfter
    <3> QED
      BY <2>3, <3>1, <3>2 DEF Progress
  <2>6. disturbed' = 0 => \A q \in Slots : ~Busy(q)
    BY <1>1, <2>2, SessionAssumption DEF Quiet, WebInStep, Typed, Based, Token
  <2>7. WebInStep'
    BY <2>1, <2>6 DEF WebInStep, Busy
  <2>8. LiveTokenIsKept'
    <3> SUFFICES ASSUME disturbed' = 0, NEW t \in Token, Live(t)'
                 PROVE  t = n
      BY <2>1 DEF LiveTokenIsKept, Live
    <3>1. \A q \in Slots : attempts[q].answer = "none"
      BY <2>6 DEF Quiet, Progress, Busy
    <3>2. ~Live(t)
      BY <1>1, <1>2, <2>2, <3>1, SessionAssumption DEF Quiet, LiveTokenIsKept, Live, Token
    <3> QED
      BY <2>3, <3>2
  <2> QED
    BY <1>1, <2>4, <2>5, <2>7, <2>8 DEF Quiet
<1>4. CASE WebProfileRejected(c)
  <2>1. /\ UNCHANGED <<server, flow, attempts>> /\ store' = 0
        /\ disturbed' # 0
    BY <1>4, WorseTyped DEF WebProfileRejected, WebSet, server_vars, Typed, Tables
  <2>2. \A t : Live(t)' <=> Live(t)
    BY <2>1 DEF Live
  <2>3. OneRefresh' /\ FlowQuiet' /\ PhoneInStep' /\ StoreUsable' /\ WebInStep'
    BY <1>1, <1>2, <2>1
    DEF Quiet, OneRefresh, FlowQuiet, PhoneInStep, StoreUsable, WebInStep, Busy
  <2>4. \A q \in Slots : Progress(q)'
    BY <2>1, <2>2 DEF Quiet, Progress
  <2>5. LiveTokenIsKept'
    BY <2>1 DEF LiveTokenIsKept
  <2> QED
    BY <1>1, <2>3, <2>4, <2>5 DEF Quiet
<1>5. CASE WebReload(c)
  <2>1. /\ UNCHANGED <<server, store>> /\ flow' = [flow EXCEPT ![c] = NoFlow]
        /\ Worse(IF \E s \in Slots : attempts[s].client = c /\ ~FreeSlot(s) THEN 2 ELSE 0)
        /\ \A q \in Slots : attempts'[q] = IF attempts[q].client = c THEN NoAttempt
                                           ELSE attempts[q]
    BY <1>5 DEF WebReload, server_vars
  <2>2. \A q \in Slots : attempts[q].client = c => attempts[q].phase = "idle"
    BY <2>1 DEF Worse, FreeSlot, Typed, Tables
  <2>3. NoAttempt.phase = "idle" /\ NoAttempt.answer = "none" /\ NoAttempt.seen = "none"
    BY DEF NoAttempt
  <2>4. \A q \in Slots :
          \/ attempts'[q] = attempts[q]
          \/ /\ attempts[q].phase = "idle" /\ attempts'[q].phase = "idle"
             /\ attempts[q].answer = "none" /\ attempts'[q].answer = "none"
             /\ attempts'[q].seen = "none"
    BY <2>1, <2>2, <2>3 DEF Quiet, Progress
  <2>5. \A t : Live(t)' <=> Live(t)
    BY <2>1 DEF Live
  <2>6. OneRefresh' /\ PhoneInStep' /\ StoreUsable' /\ WebInStep'
    BY <1>1, <2>1, <2>4, <2>5
    DEF Quiet, OneRefresh, PhoneInStep, StoreUsable, WebInStep, Busy
  <2>7. FlowQuiet'
    BY <1>2, <2>1 DEF FlowQuiet, NoFlow, Typed, Tables
  <2>8. \A q \in Slots : Progress(q)'
    BY <2>1, <2>4, <2>5 DEF Quiet, Progress
  <2>9. LiveTokenIsKept'
    BY <1>1, <1>2, <2>1, <2>4 DEF Quiet, LiveTokenIsKept
  <2> QED
    BY <1>1, <2>6, <2>7, <2>8, <2>9 DEF Quiet
<1> QED
  BY <1>3, <1>4, <1>5

\* The session stays in order until a token can be repeated.
LEMMA CalmPreserved ==
  ASSUME Typed, Typed', Numbered, Calm, [Next]_vars PROVE Calm'
<1> SUFFICES ASSUME disturbed' < 2 PROVE Quiet'
  BY DEF Calm
<1>1. ASSUME disturbed < 2 PROVE Quiet
  BY <1>1 DEF Calm
<1>2. CASE UNCHANGED vars
  <2>1. UNCHANGED <<platform, server, store, held, flow, pending, attempts, disturbed>>
    BY <1>2 DEF vars
  <2> QED
    BY <1>1, <2>1, QuietFrame
<1>3. ASSUME NEW s \in Slots, AttemptStep(s) PROVE Quiet'
  <2>1. disturbed < 2
    BY <1>3, WorseTyped
    DEF AttemptStep, RefreshReads, RefreshAnswers, RefreshErrors, MobileAnswered,
        MobileWritten, MobileCleared, WebAnswered, Typed, Tables
  <2>2. ~MobileCleared(s)
    BY <1>1, <2>1 DEF Quiet, Progress, MobileCleared
  <2> QED
    BY <1>1, <1>3, <2>1, <2>2, ReadQuiet, RotateQuiet, ErrorQuiet, MobileAnsweredQuiet,
       MobileWrittenQuiet, WebAnsweredQuiet DEF AttemptStep
<1>4. ASSUME NEW s \in Slots, RefreshLost(s) PROVE FALSE
  BY <1>4 DEF RefreshLost, Worse, Typed, Tables
<1>5. ASSUME NEW k \in Calls, CallStep(k) \/ \E c \in Active : StartCall(k, c)
      PROVE  Quiet'
  <2>1. disturbed < 2
    <3>1. CASE CallServed(k) \/ MobileUnauthorized(k) \/ \E c \in Active : StartCall(k, c)
      BY <3>1 DEF CallServed, EndCall, MobileUnauthorized, StartCall
    <3>2. CASE WebUnauthorized(k)
      <4>1. disturbed' = disturbed \/ \E l \in {0, 2} : Worse(l)
        BY <3>2 DEF WebUnauthorized, WebRefresh
      <4> QED
        BY <4>1, WorseTyped DEF Typed, Tables
    <3> QED
      BY <1>5, <3>1, <3>2 DEF CallStep
  <2> QED
    BY <1>1, <1>5, <2>1, CallQuiet DEF CallStep
<1>6. ASSUME NEW t \in Token, AccessExpires(t) PROVE Quiet'
  <2>1. UNCHANGED <<platform, server, store, held, flow, pending, attempts, disturbed>>
    BY <1>6 DEF AccessExpires, client_vars
  <2> QED
    BY <1>1, <2>1, QuietFrame
<1>7. ASSUME NEW t \in Token, RefreshLapses(t) PROVE FALSE
  BY <1>7 DEF RefreshLapses, Worse, Typed, Tables
<1>8. CASE MobileStep
  <2>1. ~MobileLogout /\ ~MobileRestart
    BY DEF MobileLogout, MobileRestart, Worse, Typed, Tables
  <2>2. disturbed < 2
    BY <1>8, <2>1 DEF MobileStep, MobileSignIn, MobileSignedIn, MobileLogoutFails,
                      MobileLogoutServed, MobileLoggedOut
  <2>3. ~MobileLogoutFails /\ ~MobileLogoutServed /\ ~MobileLoggedOut
    BY <1>1, <2>2, Names
    DEF Quiet, FlowQuiet, MobileLogoutFails, MobileLogoutServed, MobileLoggedOut
  <2> QED
    BY <1>1, <1>8, <2>1, <2>2, <2>3, MobileSignInQuiet DEF MobileStep
<1>9. ASSUME NEW c \in Tabs, WebStep(c) PROVE Quiet'
  <2>1. ~WebLogout(c)
    BY DEF WebLogout, Worse, Typed, Tables
  <2>2. disturbed < 2
    <3>1. disturbed' = disturbed \/ \E l \in 0..2 : Worse(l)
      BY <1>9, <2>1
      DEF WebStep, WebSignIn, WebLoggedOut, WebProfileRejected, WebReload
    <3> QED
      BY <3>1, WorseTyped DEF Typed, Tables
  <2>3. ~WebLoggedOut(c)
    BY <1>1, <2>2, Names DEF Quiet, FlowQuiet, WebLoggedOut
  <2> QED
    BY <1>1, <1>9, <2>1, <2>2, <2>3, WebStepQuiet DEF WebStep
<1> QED
  BY <1>2, <1>3, <1>4, <1>5, <1>6, <1>7, <1>8, <1>9 DEF Next

\* Nothing has been issued at the start.
LEMMA InitCalm == Init => Numbered /\ Calm
<1> SUFFICES ASSUME Init PROVE Numbered /\ Quiet
  BY DEF Calm
<1>1. \A t \in Token : server[t].state = "none"
  BY DEF Init, Row
<1>2. Numbered
  <2>1. \A t \in Token : server[t].state # "none" <=> t <= 0
    BY <1>1, SessionAssumption DEF Token
  <2> QED
    BY <2>1, Names DEF Numbered
<1>3. \A q \in Slots : /\ attempts[q].phase = "idle" /\ attempts[q].answer = "none"
                       /\ attempts[q].seen = "none"
  BY DEF Init, NoAttempt
<1>4. OneRefresh /\ PhoneInStep /\ WebInStep /\ StoreUsable
  BY <1>3, Names DEF OneRefresh, PhoneInStep, WebInStep, StoreUsable, Busy, Init
<1>5. \A q \in Slots : Progress(q)
  BY <1>3 DEF Progress
<1>6. FlowQuiet
  BY DEF FlowQuiet, Init, NoFlow
<1>7. LiveTokenIsKept
  BY <1>1 DEF LiveTokenIsKept
<1> QED
  BY <1>2, <1>4, <1>5, <1>6, <1>7 DEF Quiet

\* The inductive invariant: while no token can have been repeated, one refresh at a
\* time is under way, for a token that is live until its replacement is.
THEOREM InOrder == Spec => [](Typed /\ Numbered /\ Calm)
<1> DEFINE IInv == Typed /\ Numbered /\ Calm
<1>1. Init => IInv
  BY InitTyped, InitCalm
<1>2. IInv /\ [Next]_vars => IInv'
  BY TypePreserved, NumberedPreserved, CalmPreserved
<1> HIDE DEF IInv
<1>3. Spec => []IInv
  BY <1>1, <1>2, PTL DEF Spec
<1> QED
  BY <1>3 DEF IInv

\* Only a lost answer, a lapsed token, a restart, a sign-out or two tabs at once make a
\* client present a refresh token that was already used, however many calls fail together.
THEOREM ReuseExplained == Spec => []ReuseNeedsDisturbance
<1>1. Typed /\ Numbered /\ Calm => ReuseNeedsDisturbance
  <2> SUFFICES ASSUME Typed, Calm PROVE ReuseNeedsDisturbance
    OBVIOUS
  <2>1. TypeOK
    BY DEF Typed, Tables, TypeOK, Attempt, Call, Flow
  <2>2. ASSUME NEW s \in Slots, attempts[s].seen = "revoked" PROVE disturbed = 2
    <3>1. CASE disturbed < 2
      <4>1. Progress(s) /\ attempts[s] \in Attempt
        BY <3>1 DEF Calm, Quiet, Typed, Tables
      <4> QED
        BY <2>2, <4>1 DEF Progress, Attempt
    <3>2. CASE ~(disturbed < 2)
      BY <3>2 DEF Typed, Tables
    <3> QED
      BY <3>1, <3>2
  <2> QED
    BY <2>1, <2>2 DEF ReuseNeedsDisturbance
<1> QED
  BY <1>1, InOrder, PTL

\* While undisturbed, no live refresh token is orphaned: it is in the store, or on its
\* way there.
THEOREM NoTokenOrphaned == Spec => []LiveTokenIsKept
<1>1. Typed /\ Numbered /\ Calm => LiveTokenIsKept
  BY DEF Calm, Quiet, LiveTokenIsKept
<1> QED
  BY <1>1, InOrder, PTL
=============================================================================
