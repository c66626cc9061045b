----------------------------- MODULE ProfileForm -----------------------------
(***************************************************************************)
(* The profile of a user and the form that changes it: a screen of its own *)
(* on mobile, a mode of the profile's page on the web.  One name stands    *)
(* for the text fields, the gender also for the birth date.  The profile   *)
(* may also be changed elsewhere, on another device.                       *)
(***************************************************************************)
EXTENDS Exchange

CONSTANTS NumSpots,        \* bound: places to choose from
          NumNames,        \* bound: names to choose from
          MaxProfileActs   \* bound: what the user does, and changes elsewhere

ASSUME ProfileAssumption ==
  {NumSpots, NumNames, MaxProfileActs} \subseteq Nat

VARIABLES
  account,    \* the server: the profile
  loaded,     \* the web: the profile as it was read last
  draft,      \* the fields of the form, and what its search offers
  profile,    \* the page: isLoading, a profile that was read, isEditing, isSaving, error, success
  profActs,   \* what was done so far
  profMemory  \* what the properties remember

profileVars == <<account, loaded, draft, profile, profActs, profMemory>>

Spot == 1 .. NumSpots
NoSpot == 0

(* Mobile saves the whole address of a place, the web its first two parts, *)
(* in which two places may agree.                                          *)
NoAddress == [of |-> 0, whole |-> FALSE]
WholeAddress(p) == [of |-> p, whole |-> TRUE]
FirstParts(p) == [of |-> p \div 2 + 1, whole |-> FALSE]
FormatAddress(a) == IF a.whole THEN FirstParts(a.of) ELSE a

\* 0 stands for a name or a picture that was not given.
NewAccount == [name |-> 0, address |-> NoAddress, point |-> NoSpot, gender |-> FALSE, picture |-> 0]

Saving == {"patch", "picture"}
ProfileOthers(i) == Range(sent) \cup {answers[j].call : j \in DOMAIN answers \ {i}}

(* A call carries the form it saves and the visit of the form it is for; a *)
(* reading knows whether it could cross with a save.                       *)
ProfileCall(op, request, others) ==
  [op |-> op, request |-> request, visit |-> profile.visit, saves |-> profMemory.saves,
   alone |-> \A c \in others : c.op = "search"]

ProfileAct == profActs < MaxProfileActs /\ Bounded /\ profActs' = profActs + 1

-----------------------------------------------------------------------------
(* What the pages let the user do.  The web's inputs are disabled during a *)
(* save, the places it offers are not; mobile's form stays open.           *)
MobileFormShown == profile.editing /\ ~profile.loading
WebFormShown == profile.editing /\ ~profile.loading
FormShown == IF Web THEN WebFormShown ELSE MobileFormShown
Editable == FormShown /\ (Web => ~profile.saving)

\* The web shows either the place or the search.
Searchable == Web => draft.address = NoAddress

WebChanged ==
  \/ draft.picture # 0 \/ draft.cleared
  \/ draft.name # loaded.name \/ draft.address # loaded.address

-----------------------------------------------------------------------------
(* Reading.                                                                *)

FormOf(a) ==
  [name |-> a.name, address |-> IF Web THEN FormatAddress(a.address) ELSE a.address,
   point |-> a.point, gender |-> a.gender, picture |-> 0, cleared |-> FALSE, once |-> ~a.gender,
   timer |-> FALSE, offered |-> NoSpot]

EmptyForm == FormOf(NewAccount)

Forgotten(c) == Mobile /\ c.op = "load"

(* Mobile waits for the last reading only, so that there is one at most.   *)
Dropped(s, readings) == IF readings = {} THEN s ELSE RemoveAt(s, CHOOSE i \in readings : TRUE)
ForgetReadings(coming, new) ==
  /\ sent' = Dropped(sent, {i \in DOMAIN sent : Forgotten(sent[i])}) \o new
  /\ answers' = Dropped(coming, {i \in DOMAIN coming : Forgotten(coming[i].call)})
  /\ UNCHANGED lost

(* The web reads when the page is opened, when the access token is renewed *)
(* and when an event was edited in another tab; mobile's form when it is   *)
(* opened and when the token is renewed, without a sign of it.             *)
LoadProfile ==
  /\ ProfileAct
  /\ Mobile => profile.editing
  /\ profile' = IF Web THEN [profile EXCEPT !.loading = TRUE, !.failed = FALSE] ELSE profile
  /\ ForgetReadings(answers, <<ProfileCall("load", NewAccount, Calls)>>)
  /\ UNCHANGED <<account, loaded, draft, profMemory>>

OpenForm ==
  /\ ProfileAct /\ Mobile /\ ~profile.editing
  /\ profile' = [loading |-> TRUE, there |-> FALSE, editing |-> TRUE, saving |-> FALSE,
                 failed |-> FALSE, done |-> FALSE, visit |-> profile.visit + 1]
  /\ draft' = EmptyForm
  /\ Send(<<[ProfileCall("load", NewAccount, Calls) EXCEPT !.visit = @ + 1]>>)
  /\ UNCHANGED <<account, loaded, profMemory>>

LeaveForm ==
  /\ Mobile /\ profile.editing
  /\ profile' = [profile EXCEPT !.editing = FALSE]
  /\ ForgetReadings(answers, <<>>)
  /\ UNCHANGED <<account, loaded, draft, profActs, profMemory>>

(* Leaving the web's form takes back what was typed.                       *)
ToggleEditing ==
  /\ Web /\ ~profile.loading /\ ~profile.saving /\ profile.there
  /\ profile' = [profile EXCEPT !.editing = ~@, !.failed = @ /\ ~profile.editing,
                                !.done = @ /\ ~profile.editing]
  /\ draft' = IF profile.editing THEN [FormOf(loaded) EXCEPT !.timer = draft.timer] ELSE draft
  /\ UNCHANGED <<account, loaded, profActs, profMemory, exchange>>

-----------------------------------------------------------------------------
(* Editing.                                                                *)

Edited(d) ==
  /\ draft' = d
  /\ profile' = IF Mobile THEN [profile EXCEPT !.failed = FALSE] ELSE profile
  /\ UNCHANGED <<account, loaded, profMemory>>

NameYourself ==
  /\ ProfileAct /\ Editable
  /\ \E n \in 0 .. NumNames : Edited([draft EXCEPT !.name = n])
  /\ UNCHANGED exchange

\* Mobile: once it is known the gender cannot be changed.
ChooseGender ==
  /\ ProfileAct /\ Editable /\ Mobile /\ draft.once
  /\ Edited([draft EXCEPT !.gender = ~@])
  /\ UNCHANGED exchange

(* Mobile's form knows how to take a picture, but has no button for it.    *)
TakePicture ==
  /\ ProfileAct /\ Editable /\ Web
  /\ \E f \in {0, 1} : Edited([draft EXCEPT !.picture = f])
  /\ UNCHANGED exchange

(* Mobile searches at every character, the web 300 ms after the last one.  *)
TypeSpot ==
  /\ ProfileAct /\ Editable /\ Searchable
  /\ \E enough \in BOOLEAN :
       /\ draft' = [draft EXCEPT !.timer = Web /\ enough, !.offered = IF enough THEN @ ELSE NoSpot]
       /\ Send(IF Mobile /\ enough THEN <<ProfileCall("search", NewAccount, {})>> ELSE <<>>)
  /\ UNCHANGED <<account, loaded, profile, profMemory>>

SpotTimerFires ==
  /\ draft.timer /\ Bounded
  /\ draft' = [draft EXCEPT !.timer = FALSE]
  /\ Send(<<ProfileCall("search", NewAccount, {})>>)
  /\ UNCHANGED <<account, loaded, profile, profActs, profMemory>>

PickSpot ==
  /\ FormShown /\ Searchable /\ draft.offered # NoSpot
  /\ draft' = [draft EXCEPT !.point = draft.offered, !.offered = NoSpot, !.cleared = FALSE,
                            !.address = IF Web THEN FirstParts(draft.offered)
                                        ELSE WholeAddress(draft.offered)]
  /\ UNCHANGED <<account, loaded, profile, profActs, profMemory, exchange>>

ClearSpot ==
  /\ Editable /\ draft.point # NoSpot
  /\ draft' = [draft EXCEPT !.address = NoAddress, !.point = NoSpot, !.offered = NoSpot,
                            !.cleared = Web]
  /\ UNCHANGED <<account, loaded, profile, profActs, profMemory, exchange>>

-----------------------------------------------------------------------------
(* Saving.                                                                 *)

(* Mobile sends all fields, the web the place only if its address is not   *)
(* the one that was read.                                                  *)
MobileRequest ==
  [name |-> draft.name, address |-> draft.address, point |-> draft.point,
   gender |-> draft.once /\ draft.gender, picture |-> 0]

WebRequest ==
  LET moved == draft.address # loaded.address
  IN  [name |-> draft.name, address |-> IF moved THEN draft.address ELSE NoAddress,
       point |-> IF moved THEN draft.point ELSE NoSpot, gender |-> FALSE, picture |-> draft.picture]

Request == IF Web THEN WebRequest ELSE MobileRequest

(* The web saves a picture first.                                          *)
SaveProfile ==
  /\ ProfileAct /\ FormShown /\ ~profile.saving
  /\ Web => WebChanged
  /\ profile' = [profile EXCEPT !.saving = TRUE, !.failed = FALSE, !.done = FALSE]
  /\ Send(<<ProfileCall(IF Request.picture = 0 THEN "patch" ELSE "picture", Request, Calls)>>)
  /\ profMemory' = [profMemory EXCEPT !.saves = @ + 1,
                      !.asked = [Request EXCEPT !.address = draft.address],
                      !.sure = ~UnderWay(Saving) /\ (Web => profMemory.fresh)]
  /\ UNCHANGED <<account, loaded, draft>>

-----------------------------------------------------------------------------
(* The server.  A field that is empty or missing is left as it is, so that *)
(* no field can be emptied.                                                *)
UpdatedProfile(a, r) ==
  [a EXCEPT !.name = IF r.name = 0 THEN @ ELSE r.name,
            !.address = IF r.address = NoAddress THEN @ ELSE r.address,
            !.point = IF r.point = NoSpot THEN @ ELSE r.point,
            !.gender = @ \/ r.gender]

ProfileServes(i) ==
  LET c == sent[i]
  IN  /\ account' = CASE c.op = "patch" -> UpdatedProfile(account, c.request)
                      [] c.op = "picture" -> [account EXCEPT !.picture = c.request.picture]
                      [] OTHER -> account
      /\ Executed(i, [call |-> c, account |-> account', others |-> profMemory.others])
      /\ UNCHANGED <<loaded, draft, profile, profActs, profMemory>>

ProfileChangesElsewhere ==
  /\ profActs < MaxProfileActs /\ profActs' = profActs + 1
  /\ \/ \E n \in 1 .. NumNames : account' = [account EXCEPT !.name = n]
     \/ \E p \in Spot : \E address \in {WholeAddress(p), FirstParts(p)} :
          account' = [account EXCEPT !.address = address, !.point = p]
  /\ profMemory' = [profMemory EXCEPT !.fresh = FALSE, !.sure = FALSE, !.others = @ + 1]
  /\ UNCHANGED <<loaded, draft, profile, exchange>>

-----------------------------------------------------------------------------
(* Answers.                                                                *)

(* The profile was read: it replaces what is in the form.  After a save    *)
(* this ends it.                                                           *)
ProfileSaved(p) == [p EXCEPT !.editing = FALSE, !.saving = FALSE, !.done = TRUE]

ProfileRead(i) ==
  LET a == answers[i]
      again == a.call.op = "again"
      read == [profile EXCEPT !.loading = FALSE, !.there = TRUE]
  IN  /\ a.call.op \in {"load", "again"}
      /\ Received(i)
      /\ loaded' = IF Web THEN a.account ELSE loaded
      /\ draft' = [FormOf(a.account) EXCEPT
                     !.picture = IF Web /\ ~again THEN draft.picture ELSE 0,
                     !.timer = draft.timer, !.offered = draft.offered]
      /\ profile' = IF again THEN ProfileSaved(read) ELSE read
      /\ profMemory' = [profMemory EXCEPT
                          !.fresh = a.call.alone /\ a.call.saves = profMemory.saves
                                    /\ a.others = profMemory.others]
      /\ UNCHANGED <<account, profActs>>

SpotsFound(i) ==
  /\ answers[i].call.op = "search"
  /\ Received(i)
  /\ IF Mobile /\ answers[i].call.visit # profile.visit THEN UNCHANGED draft
     ELSE \E p \in Spot \cup {NoSpot} : draft' = [draft EXCEPT !.offered = p]
  /\ UNCHANGED <<account, loaded, profile, profActs, profMemory>>

PictureSaved(i) ==
  LET c == answers[i].call
  IN  /\ c.op = "picture"
      /\ Continued(i, <<[c EXCEPT !.op = "patch"]>>)
      /\ UNCHANGED profileVars

(* The web reads the profile again; mobile goes to the user's page, also   *)
(* if the form was left and opened again meanwhile, and forgets a reading  *)
(* of the form.                                                            *)
ProfileUpdated(i) ==
  LET c == answers[i].call
  IN  /\ c.op = "patch"
      /\ \/ /\ Web
            /\ Continued(i, <<ProfileCall("again", NewAccount, ProfileOthers(i))>>)
            /\ profile' = [profile EXCEPT !.loading = TRUE, !.failed = FALSE]
         \/ /\ Mobile
            /\ ForgetReadings(RemoveAt(answers, i), <<>>)
            /\ profile' = ProfileSaved(profile)
      /\ UNCHANGED <<account, loaded, draft, profActs, profMemory>>

(* Nothing more is heard of a call, or it is refused: the forms' checks    *)
(* are the server's, and lengths are not told apart.  What a save that     *)
(* failed has done before is not read again, and a failed reading after a  *)
(* save does not make the save fail.                                       *)
GivesUpProfile(c, made) ==
  /\ profile' =
       CASE c.op = "load" -> [profile EXCEPT !.loading = FALSE, !.failed = TRUE]
         [] c.op = "again" -> ProfileSaved([profile EXCEPT !.loading = FALSE, !.failed = TRUE])
         [] c.op \in Saving -> IF Mobile /\ c.visit # profile.visit THEN profile
                               ELSE [profile EXCEPT !.saving = FALSE, !.failed = TRUE]
         [] OTHER -> profile
  /\ draft' = CASE c.op = "search" /\ Web -> [draft EXCEPT !.offered = NoSpot]
                [] c.op = "again" -> [draft EXCEPT !.picture = 0]
                [] OTHER -> draft
  /\ profMemory' = [profMemory EXCEPT !.fresh = @ /\ ~made]
  /\ UNCHANGED <<account, loaded, profActs>>

ProfileCallLost(i) ==
  LoseCall(i, <<>>) /\ GivesUpProfile(sent[i], sent[i].op = "again" \/ sent[i].request.picture # 0)
ProfileAnswerLost(i) ==
  LET c == answers[i].call
  IN  LoseAnswer(i, <<>>) /\ GivesUpProfile(c, c.op \in Saving \cup {"again"})

-----------------------------------------------------------------------------
ProfileInit ==
  /\ \E p \in IF screen = "profile" THEN {NoSpot, 1} ELSE {NoSpot} :
       account = [NewAccount EXCEPT
                    !.point = p, !.address = IF p = NoSpot THEN NoAddress ELSE WholeAddress(p)]
  /\ loaded = NewAccount /\ draft = EmptyForm /\ profActs = 0
  /\ profile = [loading |-> TRUE, there |-> FALSE, editing |-> FALSE, saving |-> FALSE,
                failed |-> FALSE, done |-> FALSE, visit |-> 0]
  /\ profMemory = [fresh |-> FALSE, sure |-> FALSE, saves |-> 0, others |-> 0,
                 asked |-> NewAccount]

ProfileNext ==
  \/ LoadProfile \/ OpenForm \/ LeaveForm \/ ToggleEditing
  \/ NameYourself \/ ChooseGender \/ TakePicture
  \/ TypeSpot \/ SpotTimerFires \/ PickSpot \/ ClearSpot
  \/ SaveProfile \/ ProfileChangesElsewhere
  \/ \E i \in DOMAIN sent : ProfileServes(i) \/ ProfileCallLost(i)
  \/ \E i \in DOMAIN answers :
       \/ ProfileRead(i) \/ SpotsFound(i) \/ PictureSaved(i) \/ ProfileUpdated(i)
       \/ ProfileAnswerLost(i)

-----------------------------------------------------------------------------
(* Properties.                                                             *)

Fits(address, p) ==
  IF p = NoSpot THEN address = NoAddress ELSE address \in {WholeAddress(p), FirstParts(p)}

(* A save that was reported has stored every field the form held, the      *)
(* place up to the first two parts of its address; the address always      *)
(* belongs to the place on the map, in the form too; and when nothing is   *)
(* under way the web's page shows the stored profile.  Left out: fields    *)
(* that were emptied, which the server does not store, changes made        *)
(* elsewhere, two forms saved at once, a reading that crossed with a save  *)
(* and a save of which only a part was confirmed.                          *)
ProfileIsStored ==
  /\ profile.done /\ profMemory.sure =>
       LET r == profMemory.asked
       IN  /\ r.name # 0 => account.name = r.name
           /\ r.address # NoAddress => FormatAddress(account.address) = FormatAddress(r.address)
           /\ r.gender => account.gender
           /\ r.picture # 0 => account.picture = r.picture
  /\ Fits(account.address, account.point) /\ Fits(draft.address, draft.point)
  /\ Web /\ Quiet /\ profMemory.fresh => loaded = account
=============================================================================
