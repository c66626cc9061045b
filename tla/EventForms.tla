------------------------------ MODULE EventForms ------------------------------
(***************************************************************************)
(* The forms of both clients: the one that creates an event (CreateForm),  *)
(* the one that edits it (EditForm), the place, which both pick with the   *)
(* same controls (PlacePicker), and those of registration, the forgotten   *)
(* password and sign-in (AccountForms).  They share no state: a form reads *)
(* the place when it is submitted, and counts it among its texts.  A       *)
(* behaviour follows one of the four; the variables of the others keep the *)
(* values they have without them.                                          *)
(***************************************************************************)
EXTENDS Integers, Sequences, FiniteSets

CONSTANTS
  Host, User, Tag, Other, Image, MaxTags, MaxAsked, MaxTime, MaxLost,  \* of CreateForm
  Need, MaxNeeds, MaxEditTime, MaxEdits, MaxTrouble,                   \* of EditForm
  Place, MaxRoute,                                                     \* of PlacePicker
  Device, Email, Name, Password, MaxAttempts, Lifetime, Cooldown,      \* of AccountForms
  MaxMinute, MaxIssued, MaxFills, MaxLosses,
  None, MaxInput

ASSUME FormsAssumption ==
  /\ Host \in User /\ None \notin User \union Tag \union Other \union Image \union Place
  /\ IsFiniteSet(User) /\ IsFiniteSet(Tag) /\ IsFiniteSet(Other) /\ IsFiniteSet(Need)
  /\ {MaxTags, MaxAsked, MaxTime, MaxLost, MaxNeeds, MaxEditTime, MaxEdits, MaxTrouble,
      MaxInput, MaxAttempts, Lifetime, Cooldown, MaxMinute, MaxIssued, MaxFills,
      MaxLosses} \subseteq Nat
  /\ Email # {} /\ Image # {} /\ MaxNeeds >= 1 /\ MaxTime >= 1
  /\ MaxRoute \in Nat \ {0, 1} /\ MaxEditTime \in Nat \ {0, 1}

VARIABLES
  part,                                    \* the part that is followed, never changes
  client, focus, now, form, save, left,    \* of both forms
  inputs,                                  \* of all
  language, errors, touched, attempted, reading, people, events, lost,
  event, taken, loaded, editable, image, loading, modal, notice, trouble, typed, applied,
  screen, place, shown, searching, timer, calls, drawn, fetching, sent, picked, mishaps,
  role, scene, minute, accounts, rows, issued, mail, spent, grants, forms, running, losses

formVars == <<client, focus, now, form, save, left>>
createVars == <<language, errors, touched, attempted, reading, people, events, lost>>
editVars == <<event, taken, loaded, editable, image, loading, modal, notice, trouble,
              typed, applied>>
placeVars == <<screen, place, shown, searching, timer, calls, drawn, fetching, sent,
               picked, mishaps>>
accountVars == <<role, scene, minute, accounts, rows, issued, mail, spent, grants, forms,
                 running, losses>>
vars == <<part, inputs, formVars, createVars, editVars, placeVars, accountVars>>

Create == INSTANCE CreateForm
Edit == INSTANCE EditForm WITH MaxTime <- MaxEditTime, MaxInput <- MaxEdits
Picker == INSTANCE PlacePicker
Account == INSTANCE AccountForms WITH MaxInput <- MaxFills, calls <- running

(* None is told apart from what it stands for the absence of: a message of *)
(* a screen, a call, a request, which gives fields their values, a line    *)
(* through places.                                                         *)
ASSUME NoneAssumption ==
  /\ None \notin {"unloaded", "uneditable", "invalid", "unchanged", "refused", "failed", "image",
                 "saved"} \union Nat
  /\ \A D \in SUBSET {"text", "start", "end", "capacity", "needs"} :
       None \notin [D -> {"old", "new", "bad", "unnamed", "derived"}
                         \union Int \union SUBSET Need]
  /\ None \notin Create!Save
  /\ \A n \in 0 .. MaxRoute : None \notin [1 .. n -> Place]

-----------------------------------------------------------------------------
NoForm ==
  client = "none" /\ focus = "none" /\ now = 0 /\ form = None /\ save = None /\ left = FALSE

NoCreate ==
  /\ language = "none" /\ errors = {} /\ touched = {} /\ attempted = FALSE
  /\ reading = {} /\ people = None /\ events = {} /\ lost = 0

NoEdit ==
  /\ event = None /\ taken = 0 /\ loaded = None /\ editable = FALSE /\ image = FALSE
  /\ loading = FALSE /\ modal = None /\ notice = None /\ trouble = 0 /\ typed = {}
  /\ applied = None

NoPicker ==
  /\ screen = None /\ place = None /\ shown = None /\ searching = FALSE /\ timer = None
  /\ calls = {} /\ drawn = None /\ fetching = None /\ sent = None /\ picked = None
  /\ mishaps = {}

NoAccount ==
  /\ role = None /\ scene = None /\ minute = 0 /\ accounts = {} /\ rows = None
  /\ issued = 0 /\ mail = {} /\ spent = {} /\ grants = {} /\ forms = None
  /\ running = None /\ losses = 0

Init ==
  \/ part = "create" /\ Create!Init /\ NoEdit /\ NoPicker /\ NoAccount
  \/ part = "edit" /\ Edit!Init /\ NoCreate /\ NoPicker /\ NoAccount
  \/ part = "place" /\ Picker!Init /\ NoForm /\ NoCreate /\ NoEdit /\ NoAccount
  \/ part = "account" /\ Account!Init /\ NoForm /\ NoCreate /\ NoEdit /\ NoPicker

Next ==
  /\ \/ part = "create" /\ Create!Next /\ UNCHANGED <<editVars, placeVars, accountVars>>
     \/ part = "edit" /\ Edit!Next /\ UNCHANGED <<createVars, placeVars, accountVars>>
     \/ part = "place" /\ Picker!Next /\ UNCHANGED <<formVars, createVars, editVars, accountVars>>
     \/ part = "account" /\ Account!Next
          /\ UNCHANGED <<formVars, createVars, editVars, placeVars>>
  /\ UNCHANGED part

Spec == Init /\ [][Next]_vars

-----------------------------------------------------------------------------
(* The properties of the parts, each stated in full in its module.         *)

(* The form that creates an event makes one of it, however calls fail,     *)
(* invites to private events only, and shows the errors it has; the one    *)
(* that registers makes one account, with the name and address it shows.   *)
OneResultPerForm ==
  /\ part = "create" =>
       Create!FormOK /\ Create!OneEventPerForm /\ Create!InvitesArePrivate
  /\ part = "account" => Account!OneAccountPerForm

(* While a form is submitted, it shows what was sent, and what it sets is  *)
(* set by the owner of the address.                                        *)
WhatIsSavedIsOnTheForm ==
  /\ part = "edit" => Edit!TypeOK /\ Edit!WhatIsSavedIsOnTheForm
  /\ part = "account" =>
       Account!TypeOK /\ Account!WhatIsSentIsOnTheForm /\ Account!AddressIsVerified

(* A save leaves alone the fields its host did not fill in, except what    *)
(* the form cannot show: seconds, and a route without an address.          *)
NoFieldIsReverted == Edit!NoFieldIsReverted

(* What the form says of a save comes true: whatever makes participants    *)
(* confirm again was named before, and what it lets through is taken.      *)
SaveKeepsItsWord == Edit!WarnedOfReconfirmation /\ Edit!RejectionHasACause

(* Saving again what was saved does nothing, nor does a code or token that *)
(* has done its work.                                                      *)
RetryIsHarmless ==
  Edit!RetryIsHarmless /\ [][part = "account" => Account!Harmless]_vars

(* The form and its request name the place the host picked last, by one    *)
(* text and one pair of coordinates, and draw the line through its points; *)
(* an edit keeps the address that a route was given.                       *)
PlaceIsThePickedOne ==
  part = "place" =>
    /\ Picker!TypeOK /\ Picker!PickIsKept /\ Picker!LabelNamesItsPoint
    /\ Picker!RequestNamesOnePlace /\ Picker!DrawnRouteIsCurrent /\ Picker!SpinnerStops
=============================================================================
