------------------------------ MODULE EditForm ------------------------------
(***************************************************************************)
(* The form on which the host of an event edits it, on the phone and on    *)
(* the web, against the server's UpdateEvent.  The form is filled from the *)
(* event as it was loaded; saving sends the fields that differ from that,  *)
(* after a warning which of them make the participants confirm again, and  *)
(* then uploads a new image and loads the event again.  Meanwhile the      *)
(* event starts, is edited from another device, is joined or canceled,     *)
(* answers are lost and the session is renewed, which loads the form anew. *)
(* Title, description, category and place are told apart in nothing here   *)
(* but their limits and a route without an address, so one field `text'    *)
(* stands for them.  Two ticks of the clock make a minute: the form knows  *)
(* whole minutes only, the even times.                                     *)
(***************************************************************************)
EXTENDS Integers, FiniteSets

CONSTANTS Need,        \* participation constraints
          None,
          MaxNeeds,    \* MAX_CONSTRAINTS, 5 in the code
          MaxTime,     \* bound: the clock
          MaxInput,    \* bound: fields the host fills in
          MaxTrouble   \* bound: what others do, losses and renewed sessions

VARIABLES
  client,    \* "web" or "mobile", never changes
  focus,     \* the fields this host and others change, never changes (a bound)
  now,       \* the clock
  event,     \* the row of the event
  taken,     \* its approved and pending participants
  loaded,    \* event of the view model: what the form was filled from, or None
  editable,  \* canEdit as the screen last computed it
  form,      \* formData
  image,     \* selectedImageUri is set
  loading,   \* isLoading
  modal,     \* pendingPreview
  save,      \* the running handleSubmit, None when isSaving is off
  notice,    \* apiError, imageError or successMessage
  left,      \* the screen was left
  inputs, trouble,
  typed,     \* history: the fields the host filled in
  applied    \* history: the last request the server took, until others edit

setting == <<client, focus>>
server == <<now, event, taken>>
counters == <<inputs, trouble>>
history == <<typed, applied>>
screen == <<loaded, editable, form, image, loading, modal, save, notice, left>>
vars == <<setting, server, screen, counters, history>>

Web == client = "web"
Mobile == client = "mobile"

Field == {"text", "start", "end", "capacity", "needs"}
Text ==                             \* "bad" is too short or too long; "unnamed" has a
  {"old", "new", "bad", "unnamed", "derived"}  \* route without address, "derived" one made up
Time == 1 .. MaxTime
Minute == {t \in Time : t % 2 = 0}
CapacityMin == 2
Capacity == 0 .. 3                  \* 0 is none

Domain(f) ==
  CASE f = "text" -> Text
    [] f = "start" -> Time \union {0}
    [] f = "end" -> Time \union {0}
    [] f = "capacity" -> Capacity
    [] f = "needs" -> {n \in SUBSET Need : Cardinality(n) <= MaxNeeds}

(* What another device saves in a field.                                   *)
Storable(f) ==
  CASE f = "text" -> {"old", "new"}
    [] f = "start" -> Minute
    [] f = "end" -> Minute \union {0}
    [] f \in {"capacity", "needs"} -> Domain(f)

EmptyForm == [text |-> "old", start |-> 0, end |-> 0, capacity |-> 0, needs |-> {}]

(* formFromEvent of the two view models: hours and minutes of the start    *)
(* and the end, everything else as it is.                                  *)
CutToMinute(t) == t - (t % 2)

WebFormOf(e) ==
  [f \in Field |-> IF f \in {"start", "end"} THEN CutToMinute(e[f]) ELSE e[f]]
MobileFormOf(e) == WebFormOf(e)
FormOf(e) == IF Web THEN WebFormOf(e) ELSE MobileFormOf(e)

(* What buildUpdateRequest reads from a form: a route without an address   *)
(* gets one that is derived from its points.                               *)
Said(f) == [f EXCEPT !.text = IF @ = "unnamed" THEN "derived" ELSE @]

(* What it reads from a form nobody touched since it was filled.           *)
Untouched(e) == Said(FormOf(e))

(* A bound: two fields change in one behaviour, and the others hold one    *)
(* value; people join only where the capacity matters.                     *)
Foci == {{"start", "end"}, {"text", "capacity"}, {"text", "needs"}}

(* Events may start and end within a minute, MaxTime, if that is odd.      *)
StoredTimes ==
  IF "start" \in focus THEN {<<2, 0>>, <<MaxTime, 0>>, <<2, MaxTime>>} ELSE {<<2, 0>>}

StoredEvents ==
  { [text |-> x, start |-> t[1], end |-> t[2], capacity |-> c, needs |-> n,
     status |-> "ACTIVE", version |-> 1] :
      x \in IF "needs" \in focus THEN {"unnamed"} ELSE {"old"},
      t \in StoredTimes,
      c \in IF "capacity" \in focus THEN {2} ELSE {0},
      n \in IF "needs" \in focus THEN {{x} : x \in Need} ELSE {{}} }

Init ==
  /\ client \in {"web", "mobile"}
  /\ focus \in Foci
  /\ now = 1
  /\ event \in StoredEvents
  /\ taken = IF "capacity" \in focus THEN 1 ELSE 0
  /\ loaded = None /\ editable = FALSE /\ form = EmptyForm /\ image = FALSE
  /\ loading = TRUE /\ modal = None /\ save = None /\ notice = None /\ left = FALSE
  /\ inputs = 0 /\ trouble = 0 /\ typed = {} /\ applied = None

-----------------------------------------------------------------------------
(* The server.                                                             *)

(* Everything but the capacity makes the participants confirm again, the   *)
(* constraints only when one is added.                                     *)
ChangedOrSent(e, request) == DOMAIN request
ChangedFields(e, request) == {f \in DOMAIN request : request[f] # e[f]}

Reconfirms(e, request) ==
  {f \in ChangedFields(e, request) \ {"capacity"} :
     f = "needs" => request.needs \ e.needs # {}}

Merged(e, request) == [f \in DOMAIN e |-> IF f \in DOMAIN request THEN request[f] ELSE e[f]]

Refuses(request) ==
  LET e == Merged(event, request) IN
  \/ event.status # "ACTIVE" \/ now >= event.start
  \/ "start" \in DOMAIN request /\ request.start <= now
  \/ e.end # 0 /\ e.end <= e.start
  \/ e.capacity # 0 /\ e.capacity # event.capacity /\ e.capacity < taken

Updated(request) ==
  IF ChangedFields(event, request) = {} THEN event
  ELSE [Merged(event, request) EXCEPT !.version = @ + 1]

-----------------------------------------------------------------------------
(* Loading the form.                                                       *)

CanEdit(l) == l # None /\ l.event.status = "ACTIVE" /\ l.event.start > now

(* The page computes canEdit whenever it is drawn, the app when the event  *)
(* is set.                                                                 *)
Redrawn == editable' = IF Web THEN CanEdit(loaded) ELSE editable

WebLoad(ok) ==
  IF ok THEN /\ loaded' = [event |-> event, taken |-> taken]
             /\ form' = WebFormOf(event)
             /\ notice' = None
             /\ UNCHANGED image
  ELSE loaded' = None /\ notice' = "unloaded" /\ UNCHANGED <<form, image>>

MobileLoad(ok) ==
  IF ok THEN /\ loaded' = [event |-> event, taken |-> taken]
             /\ form' = MobileFormOf(event)
             /\ notice' = None
             /\ image' = FALSE
  ELSE loaded' = None /\ notice' = "unloaded" /\ UNCHANGED <<form, image>>

Loaded ==
  /\ loading /\ ~left
  /\ \E ok \in BOOLEAN :
       /\ ok \/ trouble < MaxTrouble
       /\ trouble' = IF ok THEN trouble ELSE trouble + 1
       /\ IF Web THEN WebLoad(ok) ELSE MobileLoad(ok)
  /\ loading' = FALSE
  /\ editable' = CanEdit(loaded')
  /\ UNCHANGED <<setting, server, modal, save, left, inputs, history>>

(* load depends on the token: a renewed session loads the form again.      *)
SessionRenewed ==
  /\ ~loading /\ ~left /\ trouble < MaxTrouble
  /\ loading' = TRUE /\ notice' = None
  /\ trouble' = trouble + 1
  /\ UNCHANGED <<setting, server, loaded, editable, form, image, modal, save, left, inputs, history>>

-----------------------------------------------------------------------------
(* What the screens offer.  While the form is loading, or could not be,    *)
(* they show nothing of it; under an open question or the success message  *)
(* of the page nothing can be reached.                                     *)

Shown == ~left /\ ~loading /\ loaded # None
Covered == modal # None \/ (Web /\ notice = "saved")
EnabledWhileSaving == Shown /\ ~Covered /\ editable
Enabled == Shown /\ ~Covered /\ save = None /\ editable

WebTextOffers == IF Enabled THEN {"text"} ELSE {}
WebTimeOffers == IF Enabled THEN {"start", "end"} ELSE {}
WebLimitOffers == IF Enabled THEN {"capacity", "needs"} ELSE {}

(* The success message of the page, and its error when there is no event,  *)
(* leave but one way: out.                                                 *)
WebActionOffers ==
  (IF Enabled THEN {"save"} ELSE {}) \union
  (IF Shown /\ modal # None /\ save = None THEN {"confirm", "cancel"} ELSE {}) \union
  (IF ~loading /\ modal = None THEN {"leave"} ELSE {})

MobileTextOffers == IF Enabled THEN {"text"} ELSE {}
MobileTimeOffers == IF Enabled THEN {"start", "end"} ELSE {}
MobileLimitOffers == IF Enabled THEN {"capacity", "needs"} ELSE {}
MobileImageOffers == IF Enabled THEN {"image"} ELSE {}

MobileActionOffers ==
  (IF Enabled THEN {"save"} ELSE {}) \union
  (IF Shown /\ modal # None /\ save = None THEN {"confirm", "cancel"} ELSE {}) \union
  (IF ~left /\ ~loading /\ loaded = None THEN {"retry"} ELSE {}) \union
  (IF ~loading /\ modal = None THEN {"leave"} ELSE {})

Offers ==
  IF Web THEN WebTextOffers \union WebTimeOffers \union WebLimitOffers \union WebActionOffers
  ELSE MobileTextOffers \union MobileTimeOffers \union MobileLimitOffers \union MobileImageOffers
       \union MobileActionOffers

Retry ==
  /\ "retry" \in Offers
  /\ loading' = TRUE /\ notice' = None
  /\ UNCHANGED <<setting, server, loaded, editable, form, image, modal, save, left, counters, history>>

Leave ==
  /\ "leave" \in Offers /\ ~left
  /\ left' = TRUE
  /\ UNCHANGED <<setting, server, loaded, editable, form, image, loading, modal, save, notice,
                 counters, history>>

(* addConstraint and removeConstraint of the two view models.              *)
WebNeeds ==
  {form.needs \ {n} : n \in Need}
  \union (IF Cardinality(form.needs) < MaxNeeds THEN {form.needs \union {n} : n \in Need} ELSE {})
MobileNeeds == WebNeeds

(* Date and time inputs of the page can be emptied, the pickers of the app *)
(* always give a value; it has a button that clears the end.               *)
WebTimes == Minute \union {0}
MobileTimes(f) == IF f = "end" /\ form.end # 0 THEN Minute \union {0} ELSE Minute

(* What the host can make of a field: updateField takes any value.         *)
Typeable(f) == IF f = "text" THEN Text \ {"derived"} ELSE Domain(f)

WebEdits(f) ==
  IF f = "needs" THEN WebNeeds ELSE IF f \in {"start", "end"} THEN WebTimes ELSE Typeable(f)
MobileEdits(f) ==
  IF f = "needs" THEN MobileNeeds
  ELSE IF f \in {"start", "end"} THEN MobileTimes(f) ELSE Typeable(f)
Edits(f) == IF Web THEN WebEdits(f) ELSE MobileEdits(f)

Fill ==
  /\ inputs < MaxInput
  /\ \E f \in focus \intersect Offers :
       /\ \E v \in Edits(f) \ {form[f]} : form' = [form EXCEPT ![f] = v]
       /\ typed' = typed \union {f}
  /\ inputs' = inputs + 1
  /\ notice' = None
  /\ Redrawn
  /\ UNCHANGED <<setting, server, loaded, image, loading, modal, save, left, trouble, applied>>

(* pickImage and removeImage.                                              *)
ChooseImage ==
  /\ "image" \in Offers /\ inputs < MaxInput
  /\ inputs' = inputs + 1
  /\ image' = ~image
  /\ notice' = None
  /\ UNCHANGED <<setting, server, loaded, editable, form, loading, modal, save, left, trouble,
                 history>>

-----------------------------------------------------------------------------
(* Saving.                                                                 *)

(* validate and validateForm: against the event as it was loaded.          *)
WebValid ==
  /\ form.text # "bad"
  /\ form.start > now
  /\ form.end # 0 => form.end > form.start
  /\ form.capacity # 0 => form.capacity >= CapacityMin /\ form.capacity >= loaded.taken

MobileValid == WebValid

(* buildUpdateRequest and its criticalChangeLabels: what the form says and *)
(* the event as it was loaded does not.                                    *)
RequestOfAll == Said(form)

WebRequest ==
  [f \in {g \in Field : Said(form)[g] # loaded.event[g]} |-> Said(form)[f]]
MobileRequest == WebRequest
Request == IF Web THEN WebRequest ELSE MobileRequest

LabelsOfChangedNeeds(request) == DOMAIN request \ {"capacity", "needs"}

WebLabels(request) ==
  {f \in DOMAIN request \ {"capacity"} : f = "needs" => request.needs \ loaded.event.needs # {}}
MobileLabels(request) == WebLabels(request)
Labels(request) == IF Web THEN WebLabels(request) ELSE MobileLabels(request)

Preview == [request |-> Request, labels |-> Labels(Request), base |-> loaded, at |-> now]

Started(preview) ==
  [preview |-> preview, upload |-> Mobile /\ image, updated |-> FALSE,
   step |-> IF DOMAIN preview.request = {} THEN "image" ELSE "update"]

(* previewChanges, and what the two screens do with it.                    *)
SaveProblem ==
  IF ~editable THEN "uneditable"
  ELSE IF ~(IF Web THEN WebValid ELSE MobileValid) THEN "invalid"
  ELSE IF DOMAIN Request = {} /\ ~(Mobile /\ image) THEN "unchanged"
  ELSE None

WebPressSave == modal' = Preview /\ notice' = None /\ UNCHANGED save

(* The app asks only when a field of the warning changed.                  *)
MobilePressSave ==
  /\ notice' = None
  /\ IF Labels(Request) # {} THEN modal' = Preview /\ UNCHANGED save
     ELSE save' = Started(Preview) /\ UNCHANGED modal

PressSave ==
  /\ "save" \in Offers
  /\ IF SaveProblem # None THEN notice' = SaveProblem /\ UNCHANGED <<modal, save>>
     ELSE IF Web THEN WebPressSave ELSE MobilePressSave
  /\ Redrawn
  /\ UNCHANGED <<setting, server, loaded, form, image, loading, left, counters, history>>

(* The page keeps the question open until the save succeeds, the app       *)
(* closes it first.                                                        *)
WebConfirm == save' = Started(modal) /\ UNCHANGED modal
MobileConfirm == save' = Started(modal) /\ modal' = None

Confirm ==
  /\ "confirm" \in Offers
  /\ IF Web THEN WebConfirm ELSE MobileConfirm
  /\ notice' = None
  /\ Redrawn
  /\ UNCHANGED <<setting, server, loaded, form, image, loading, left, counters, history>>

Cancel ==
  /\ "cancel" \in Offers
  /\ modal' = None
  /\ UNCHANGED <<setting, server, loaded, editable, form, image, loading, save, notice, left,
                 counters, history>>

(* handleSubmit step by step.  A call may fail before or after the server  *)
(* did what it asks.                                                       *)
Fails(what) == save' = None /\ notice' = what

Lose == trouble < MaxTrouble /\ trouble' = trouble + 1

UpdateRefused ==
  /\ Refuses(save.preview.request)
  /\ Fails("refused")
  /\ UNCHANGED <<event, applied, trouble>>

UpdateTaken ==
  /\ ~Refuses(save.preview.request)
  /\ event' = Updated(save.preview.request)
  /\ applied' = save.preview.request
  /\ \/ /\ save' = [save EXCEPT !.updated = TRUE,
                                !.step = IF save.upload THEN "image" ELSE "reload"]
        /\ UNCHANGED <<notice, trouble>>
     \/ Fails("failed") /\ Lose

UpdateLost ==
  /\ Lose /\ Fails("failed")
  /\ UNCHANGED <<event, applied>>

Update ==
  /\ save # None /\ save.step = "update"
  /\ UpdateRefused \/ UpdateTaken \/ UpdateLost
  /\ UNCHANGED <<setting, now, taken, loaded, editable, form, image, loading, modal, left, inputs,
                 typed>>

(* uploadEventImage: a failure ends the save when nothing else was saved.  *)
ImageFailed ==
  /\ notice' = "image"
  /\ save' = IF save.updated THEN [save EXCEPT !.step = "reload"] ELSE None

UploadImage ==
  /\ save # None /\ save.step = "image"
  /\ \/ /\ save' = [save EXCEPT !.step = "reload"]
        /\ image' = FALSE
        /\ UNCHANGED <<notice, trouble>>
     \/ Lose /\ ImageFailed /\ UNCHANGED image
  /\ UNCHANGED <<setting, server, loaded, editable, form, loading, modal, left, inputs, history>>

(* The event is loaded again; the app then leaves the screen, the page     *)
(* puts its success message over it.                                       *)
WebSaved == modal' = None /\ notice' = "saved" /\ UNCHANGED left
MobileSaved == left' = TRUE /\ notice' = "saved" /\ UNCHANGED modal

Reloaded ==
  /\ save # None /\ save.step = "reload"
  /\ \/ /\ loaded' = [event |-> event, taken |-> taken]
        /\ form' = FormOf(event)
        /\ save' = None
        /\ editable' = CanEdit(loaded')
        /\ IF Web THEN WebSaved ELSE MobileSaved
        /\ UNCHANGED trouble
     \/ Lose /\ Fails("failed") /\ UNCHANGED <<loaded, form, editable, modal, left>>
  /\ UNCHANGED <<setting, server, image, loading, inputs, history>>

-----------------------------------------------------------------------------
(* Time and others.                                                        *)

(* The clock stops at the start of the event, a bound.                     *)
Tick ==
  /\ now < MaxTime /\ now < event.start
  /\ now' = now + 1
  /\ UNCHANGED <<setting, event, taken, screen, counters, history>>

(* The host saves one field on another device.                             *)
EditElsewhere ==
  /\ Lose
  /\ \E f \in focus : \E v \in Storable(f) \ {event[f]} :
       LET request == [g \in {f} |-> v] IN
       /\ ~Refuses(request)
       /\ event' = Updated(request)
  /\ applied' = None
  /\ UNCHANGED <<setting, now, taken, screen, inputs, typed>>

OthersJoin ==
  /\ Lose
  /\ "capacity" \in focus /\ event.status = "ACTIVE" /\ taken < 3 /\ (event.capacity # 0 => taken < event.capacity)
  /\ taken' = taken + 1
  /\ UNCHANGED <<setting, now, event, screen, inputs, history>>

CanceledElsewhere ==
  /\ Lose
  /\ event.status = "ACTIVE"
  /\ event' = [event EXCEPT !.status = "CANCELED"]
  /\ UNCHANGED <<setting, now, taken, screen, inputs, history>>

Next ==
  \/ Loaded \/ SessionRenewed \/ Retry \/ Leave \/ Fill \/ ChooseImage
  \/ PressSave \/ Confirm \/ Cancel \/ Update \/ UploadImage \/ Reloaded
  \/ Tick \/ EditElsewhere \/ OthersJoin \/ CanceledElsewhere

Spec == Init /\ [][Next]_vars

-----------------------------------------------------------------------------
(* Properties.                                                             *)

(* The type invariant of the row, of the form and of the running save.     *)
TypeOK ==
  /\ now \in Time /\ taken \in 0 .. 3
  /\ \A f \in Field : event[f] \in Domain(f) /\ form[f] \in Domain(f)
  /\ event.status \in {"ACTIVE", "CANCELED"} /\ event.version \in Nat
  /\ editable \in BOOLEAN /\ image \in BOOLEAN /\ loading \in BOOLEAN /\ left \in BOOLEAN
  /\ modal # None => DOMAIN modal.request \subseteq Field
  /\ save # None => save.step \in {"update", "image", "reload"}
  /\ notice \in {None, "unloaded", "uneditable", "invalid", "unchanged", "refused", "failed",
                 "image", "saved"}
  /\ typed \subseteq Field

(* The step in which the server takes up the running save.                 *)
Saves == save # None /\ save.step = "update" /\ save' # save

(* A save leaves the fields alone its host did not fill in: what another   *)
(* device saved in them meanwhile stays, because buildUpdateRequest        *)
(* compares with the event the form was filled from.  Two fields are an    *)
(* exception, which the form does not show as they were loaded: a start or *)
(* an end within a minute, which any save moves to the minute, and a route *)
(* without an address, which any save gives one; these replace also what   *)
(* another device has put in their place.                                  *)
NoFieldIsReverted ==
  [][Saves =>
       LET base == save.preview.base.event IN
       \A f \in Field \ typed :
         \/ event'[f] = event[f]
         \/ Untouched(base)[f] # base[f] /\ event'[f] = Untouched(base)[f]]_vars

(* The host is warned of every field that makes the participants confirm   *)
(* again, and is asked before any does; only a constraint another device   *)
(* removed since can count as added without a warning.                     *)
WarnedOfReconfirmation ==
  [][Saves /\ event' # event =>
       Reconfirms(event, save.preview.request) \subseteq
         save.preview.labels
         \union (IF save.preview.base.event.needs = event.needs THEN {} ELSE {"needs"})]_vars

(* What the form lets through the server takes, unless the event was       *)
(* edited, joined or canceled since the form was filled, time went on      *)
(* since Save was pressed, or the event started with the form still open.  *)
RejectionHasACause ==
  [][Saves /\ notice' = "refused" =>
       \/ save.preview.base.event # event
       \/ save.preview.base.taken < taken
       \/ save.preview.at < now \/ save.preview.base.event.start <= now]_vars

(* Saving again what was saved, because the answer was lost or the reload  *)
(* failed, neither writes a version nor asks anybody to confirm again.     *)
RetryIsHarmless ==
  [][Saves /\ save.preview.request = applied => event' = event]_vars

(* While a save runs the form says what is being saved, or what a renewed  *)
(* session loaded over it; the host types nothing the answer would wipe.   *)
WhatIsSavedIsOnTheForm ==
  save # None /\ loaded # None =>
    \A f \in DOMAIN save.preview.request :
      Said(form)[f] \in {save.preview.request[f], Untouched(loaded.event)[f]}
=============================================================================
