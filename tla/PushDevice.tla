------------------------------ MODULE PushDevice ------------------------------
(***************************************************************************)
(* Mobile: how one installation of the app is registered for push messages *)
(* as its user signs in and out, access tokens are renewed, the messaging  *)
(* service hands out a new token and the setting is switched.              *)
(***************************************************************************)
EXTENDS Exchange

CONSTANTS PushUsers,   \* users of the installation
          MaxTurns     \* bound: what happens to the session, the setting and
                       \* the messaging token, together

ASSUME PushAssumption == MaxTurns \in Nat

VARIABLES
  device,    \* the server: the messaging token stored for each user, 0 for none
  session,   \* who is signed in, and the number of the access token
  setting,   \* push messages: stored, shown by the switch, being saved
  enabled,   \* pushNotificationsEnabled of the host component
  effective, \* previousEffectiveAuthTokenRef
  fcm,       \* the messaging service's token
  known,     \* currentFcmTokenRef, 0 for none
  synced,    \* lastSyncedKeyRef
  asking,    \* getToken is under way for the listeners in force
  turns,     \* what has happened so far
  trouble    \* what the property leaves out

pushVars == <<device, session, setting, enabled, effective, fcm, known, synced, asking, turns, trouble>>

Nobody == [user |-> "nobody", nr |-> 0]
SignedIn == session # Nobody
NoKey == [auth |-> Nobody, fcm |-> 0]

Register(auth, f) == [op |-> "register", auth |-> auth, fcm |-> f]
Unregister(auth) == [op |-> "unregister", auth |-> auth, fcm |-> 0]

SyncKey(auth, f) == [auth |-> auth, fcm |-> f]

(* syncTokenToBackend: nothing if this was the last key registered.        *)
Sync(auth, f) == IF synced = SyncKey(auth, f) THEN <<>> ELSE <<Register(auth, f)>>

Turn == turns < MaxTurns /\ Bounded /\ turns' = turns + 1

(* Two different calls under way together may be executed in either order, *)
(* and a key may be stored after it was cleared.                           *)
Overlaps(calls) == calls # <<>> /\ \E c \in Calls : c \notin Range(calls)

-----------------------------------------------------------------------------
(* The effect that follows the session and the setting.                    *)

\* Mutant: the key of the last registration outlives the registration.
KeyAfterwards(now) == synced
KeyAfter(now) == IF now = Nobody /\ effective # Nobody THEN NoKey ELSE synced

Follow(auth, on) ==
  LET now == IF on THEN auth ELSE Nobody
      calls == IF now # Nobody THEN IF known # 0 THEN Sync(now, known) ELSE <<>>
               ELSE IF effective # Nobody THEN <<Unregister(effective)>> ELSE <<>>
  IN  /\ effective' = now
      /\ synced' = KeyAfter(now)
      /\ Send(calls)
      /\ trouble' = (trouble \/ Overlaps(calls))

Users == {[user |-> u, nr |-> turns] : u \in PushUsers}

SignIn ==
  /\ Turn /\ ~SignedIn
  /\ \E s \in Users : session' = s /\ Follow(s, enabled)
  /\ UNCHANGED <<device, setting, enabled, fcm, known, asking>>

SignOut ==
  /\ Turn /\ SignedIn
  /\ session' = Nobody
  /\ Follow(Nobody, enabled)
  /\ UNCHANGED <<device, setting, enabled, fcm, known, asking>>

RenewAccess ==
  /\ Turn /\ SignedIn
  /\ session' = [session EXCEPT !.nr = turns]
  /\ Follow(session', enabled)
  /\ UNCHANGED <<device, setting, enabled, fcm, known, asking>>

(* The switch shows the new setting at once; the host component hears of   *)
(* it when it has been stored.                                             *)
Switch ==
  /\ Turn /\ ~setting.saving
  /\ setting' = [setting EXCEPT !.shown = ~@, !.saving = TRUE]
  /\ UNCHANGED <<device, session, enabled, effective, fcm, known, synced, asking, trouble, exchange>>

(* Switched on: permission and token are asked for again; switched off:    *)
(* the listeners are removed and a token on its way is dropped.            *)
SettingStored ==
  /\ setting.saving
  /\ setting' = [setting EXCEPT !.stored = setting.shown, !.saving = FALSE]
  /\ enabled' = setting.shown
  /\ asking' = setting.shown
  /\ Follow(session, setting.shown)
  /\ UNCHANGED <<device, session, fcm, known, turns>>

SettingFails ==
  /\ Lose /\ setting.saving
  /\ setting' = [setting EXCEPT !.shown = setting.stored, !.saving = FALSE]
  /\ UNCHANGED <<device, session, enabled, effective, fcm, known, synced, asking, turns, trouble,
                 sent, answers>>

(* The app is started anew: the session and the setting are stored, the    *)
(* rest is forgotten.  What a call under way becomes then is left open.    *)
Restart ==
  /\ Turn /\ Quiet
  /\ setting' = [setting EXCEPT !.shown = setting.stored, !.saving = FALSE]
  /\ enabled' = setting.stored /\ asking' = setting.stored
  /\ effective' = IF setting.stored THEN session ELSE Nobody
  /\ known' = 0 /\ synced' = NoKey
  /\ UNCHANGED <<device, session, fcm, trouble, exchange>>

-----------------------------------------------------------------------------
(* The messaging service.  Permission may be refused: then nothing is      *)
(* registered, and the setting stays on.                                   *)

NewToken ==
  /\ Turn
  /\ fcm' = fcm + 1
  /\ asking' = (asking \/ (enabled /\ known # 0))
  /\ UNCHANGED <<device, session, setting, enabled, effective, known, synced, trouble, exchange>>

(* pushTokenToServer: the token for whoever is signed in now.              *)
TokenArrives ==
  LET calls == IF SignedIn THEN Sync(session, fcm) ELSE <<>>
  IN  /\ enabled /\ asking
      /\ asking' = FALSE
      /\ known' = fcm
      /\ Send(calls)
      /\ trouble' = (trouble \/ Overlaps(calls))
      /\ UNCHANGED <<device, session, setting, enabled, effective, fcm, synced, turns>>

-----------------------------------------------------------------------------
(* The server.  A token belongs to one user; the installation to each      *)
(* user who has registered it.                                             *)

Upserted(u, f) == [v \in PushUsers |-> IF v = u THEN f ELSE IF device[v] = f THEN 0 ELSE device[v]]

PushExecute(i) ==
  LET c == sent[i]
  IN  /\ device' = IF c.op = "register" THEN Upserted(c.auth.user, c.fcm)
                   ELSE [device EXCEPT ![c.auth.user] = 0]
      /\ Executed(i, [call |-> c])
      /\ UNCHANGED <<session, setting, enabled, effective, fcm, known, synced, asking, turns, trouble>>

PushAnswer(i) ==
  LET c == answers[i].call
  IN  /\ Received(i)
      /\ synced' = IF c.op = "register" THEN SyncKey(c.auth, c.fcm) ELSE synced
      /\ UNCHANGED <<device, session, setting, enabled, effective, fcm, known, asking, turns, trouble>>

(* A failure is swallowed, and nothing is tried again.                     *)
Swallowed ==
  /\ trouble' = TRUE
  /\ UNCHANGED <<device, session, setting, enabled, effective, fcm, known, synced, asking, turns>>

PushCallLost(i) == LoseCall(i, <<>>) /\ Swallowed
PushAnswerLost(i) == LoseAnswer(i, <<>>) /\ Swallowed

-----------------------------------------------------------------------------
PushInit ==
  /\ device = [u \in PushUsers |-> 0]
  /\ session = Nobody
  /\ \E on \in IF screen = "push" THEN BOOLEAN ELSE {TRUE} :
       /\ setting = [stored |-> on, shown |-> on, saving |-> FALSE]
       /\ enabled = on /\ asking = on
  /\ effective = Nobody /\ fcm = 1 /\ known = 0 /\ synced = NoKey
  /\ turns = 1 /\ trouble = FALSE

PushNext ==
  \/ SignIn \/ SignOut \/ RenewAccess \/ Switch \/ SettingStored \/ SettingFails
  \/ Restart \/ NewToken \/ TokenArrives
  \/ \E i \in DOMAIN sent : PushExecute(i) \/ PushCallLost(i)
  \/ \E i \in DOMAIN answers : PushAnswer(i) \/ PushAnswerLost(i)

-----------------------------------------------------------------------------
(* Properties.                                                             *)

(* Once nothing is under way, the server pushes to this installation       *)
(* exactly for the user who is signed in, under the messaging token in     *)
(* force, and only while the setting is on: whatever was switched, renewed *)
(* or signed in and out before.  Left out: calls that failed, which nobody *)
(* repeats, and two calls that were under way together.                    *)
PushesReachTheUser ==
  Quiet /\ ~asking /\ ~setting.saving /\ ~trouble =>
    \A u \in PushUsers :
      device[u] = IF setting.stored /\ SignedIn /\ session.user = u THEN fcm ELSE 0
=============================================================================
