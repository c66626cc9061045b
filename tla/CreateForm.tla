----------------------------- MODULE CreateForm -----------------------------
(***************************************************************************)
(* The form on which an event is created, on the phone and on the web: its *)
(* fields, the errors shown beside them, the search for people to invite,  *)
(* and the chain of calls that creates the event, invites and uploads the  *)
(* cover.  The place of the event is the module PlacePicker.  Every call   *)
(* may fail before or after the server did what it asks, the clock goes on *)
(* and answers of the people search come late.                             *)
(***************************************************************************)
EXTENDS Integers, FiniteSets

CONSTANTS Host, User,  \* people, the host among them
          Tag, Other,  \* tags, and participation constraints of type "other"
          Image,
          None,
          MaxTags,     \* MAX_TAGS, 5 in the code
          MaxAsked,    \* MAX_CONSTRAINTS, 5 in the code
          MaxTime,     \* bound: the clock
          MaxInput,    \* bound: what the host does on the form
          MaxLost      \* bound: calls that fail

VARIABLES
  client,    \* "web" or "mobile", never changes
  language,  \* of the app, never changes
  focus,     \* the part of the form the host still fills in, never changes (a bound)
  now,       \* the clock
  form,      \* form and formData
  errors,    \* the fields an error is shown beside
  touched,   \* the fields touchField named, on the web
  attempted, \* submitAttempted, hasAttemptedSubmit
  reading,   \* images the browser is still reading
  people,    \* the search for people: its timer, its calls, its list
  save,      \* the running handleSubmit, None when isLoading is off
  left,      \* the form was left for the new event
  events,    \* the events the server created from this form
  inputs, lost

setting == <<client, language, focus>>
screen == <<form, errors, touched, attempted, reading, people, save, left>>
vars == <<setting, now, screen, events, inputs, lost>>

Web == client = "web"
Mobile == client = "mobile"

(* Title, description, category and place are one field `text'.            *)
Time == 1 .. MaxTime
CapacityMin == 2
Gender == {"MALE", "FEMALE"}
Section == {"text", "times", "cover", "invites", "lists", "audience"}

(* Who may come: what the web form keeps in fields of their own and the    *)
(* app as constraints of a type, at most one each of gender, age and       *)
(* capacity.                                                               *)
Anybody == [gender |-> None, min |-> FALSE, max |-> FALSE, capacity |-> 0, other |-> {}]

NoSearch == [timer |-> FALSE, calls |-> 0, list |-> {}]

Emptied(part, filled) ==
  [text |-> IF part = "text" THEN "none" ELSE "good",
   start |-> IF part = "times" THEN 0 ELSE MaxTime - 1, end |-> 0,
   image |-> IF part = "cover" THEN None ELSE filled,
   privacy |-> "PUBLIC", invited |-> {}, tags |-> {}, ask |-> Anybody]

Init ==
  /\ client \in {"web", "mobile"} /\ language \in {"en", "tr"} /\ focus \in Section
  /\ now = 1
  /\ form = Emptied(focus, CHOOSE i \in Image : TRUE)
  /\ errors = {} /\ touched = {} /\ attempted = FALSE
  /\ reading = {} /\ people = NoSearch /\ save = None /\ left = FALSE
  /\ events = {} /\ inputs = 0 /\ lost = 0

-----------------------------------------------------------------------------
(* What is wrong with the form.                                            *)

TimeProblems(f) ==
  (IF f.start <= now THEN {"start"} ELSE {}) \union
  (IF f.end # 0 /\ f.start # 0 /\ f.end <= f.start THEN {"end"} ELSE {})

(* getDateTimeErrors: before the first submit an empty start is no error.  *)
MobileTimeProblems(f, missing) ==
  TimeProblems(f) \ (IF f.start = 0 /\ ~missing THEN {"start"} ELSE {})

MobileProblems(f) ==
  (IF f.text = "good" THEN {} ELSE {"text"}) \union MobileTimeProblems(f, TRUE)

WebProblems(f) ==
  (IF f.text = "good" THEN {} ELSE {"text"}) \union TimeProblems(f)
  \union (IF f.image = None THEN {"cover"} ELSE {})
  \union (IF f.ask.capacity \in 1 .. CapacityMin - 1 THEN {"capacity"} ELSE {})

Problems(f) == IF Web THEN WebProblems(f) ELSE MobileProblems(f)

(* The page works all errors out anew after every change.                  *)
WebErrors(f, fields, all) == IF all THEN WebProblems(f) ELSE WebProblems(f) \intersect fields

(* The app clears the error of the field that changes; those of the times  *)
(* follow both of them.                                                    *)
MobileErrors(f, field) ==
  LET times == {"start", "end"} IN
  IF f.start = form.start /\ f.end = form.end THEN errors \ {field}
  ELSE (errors \ times) \union MobileTimeProblems(f, attempted)

-----------------------------------------------------------------------------
(* What the host fills in.                                                 *)

(* The buttons that remove a tag or a constraint, and on the phone those   *)
(* that add a tag, remove a person or take a suggestion, are not off while *)
(* the event is being created.                                             *)
Enabled == IF save = None THEN Section ELSE {}

WebTextOffers == Enabled \intersect {"text"}
WebTimeOffers == Enabled \intersect {"times"}
WebCoverOffers == Enabled \intersect {"cover"}
WebListOffers == {"lists"}
WebAudienceOffers == Enabled \intersect {"audience"}

MobileTextOffers == Enabled \intersect {"text"}
MobileTimeOffers == Enabled \intersect {"times"}
MobileCoverOffers == Enabled \intersect {"cover"}
MobileInviteOffers == {"invites"}
MobileListOffers == {"lists"}
MobileAudienceOffers == Enabled \intersect {"audience"}

Offers ==
  IF left THEN {}
  ELSE IF Web
  THEN WebTextOffers \union WebTimeOffers \union WebCoverOffers \union WebListOffers
       \union WebAudienceOffers
  ELSE MobileTextOffers \union MobileTimeOffers \union MobileCoverOffers \union MobileInviteOffers
       \union MobileListOffers \union MobileAudienceOffers

Input(part) ==
  /\ part = focus /\ part \in Offers /\ inputs < MaxInput
  /\ inputs' = inputs + 1
  /\ UNCHANGED <<setting, now, save, left, events, lost>>

(* The effect of a changed field on form and errors; leaving an input of   *)
(* the page touches it.                                                    *)
Changed(f, field) ==
  /\ form' = f
  /\ IF Web THEN \E t \in {touched, touched \union {field}} :
                    touched' = t /\ errors' = WebErrors(f, t, attempted)
     ELSE errors' = MobileErrors(f, field) /\ UNCHANGED touched
  /\ UNCHANGED attempted

FillText ==
  /\ Input("text")
  /\ \E t \in {"none", "good", "bad"} \ {form.text} : Changed([form EXCEPT !.text = t], "text")
  /\ UNCHANGED <<reading, people>>

FillTimes ==
  /\ Input("times")
  /\ \/ \E t \in Time : Changed([form EXCEPT !.start = t], "start")
     \/ \E t \in Time \union {0} : Changed([form EXCEPT !.end = t], "end")
  /\ UNCHANGED <<reading, people>>

(* The picker of the app returns when the image is there, the browser      *)
(* reads a file and puts it on the form when it is done, whatever was      *)
(* chosen or removed meanwhile.                                            *)
WebChooseImage ==
  \/ /\ form.image = None
     /\ \E i \in Image : reading' = reading \union {i}
     /\ UNCHANGED <<form, errors, touched>>
  \/ /\ form.image # None
     /\ form' = [form EXCEPT !.image = None]
     /\ touched' = touched \union {"cover"}
     /\ errors' = WebErrors(form', touched', attempted)
     /\ UNCHANGED reading

MobileChooseImage ==
  /\ \E i \in Image \union {None} : form' = [form EXCEPT !.image = i]
  /\ UNCHANGED <<errors, touched, reading>>

ChooseImage ==
  /\ Input("cover")
  /\ IF Web THEN WebChooseImage ELSE MobileChooseImage
  /\ UNCHANGED <<attempted, people>>

ImageRead ==
  /\ \E i \in reading :
       /\ form' = [form EXCEPT !.image = i]
       /\ reading' = reading \ {i}
  /\ touched' = touched \union {"cover"}
  /\ errors' = WebErrors(form', touched', attempted)
  /\ UNCHANGED <<setting, now, attempted, people, save, left, events, inputs, lost>>

(* addTag and removeTag; addConstraint and removeConstraint of type other. *)
TagLists(most) ==
  {form.tags \ {t} : t \in Tag}
  \union {form.tags \union {t} : t \in IF Cardinality(form.tags) < most THEN Tag ELSE {}}

WebTags == TagLists(MaxTags)
MobileTags == TagLists(MaxTags)

AskedOnApp(ask) ==
  Cardinality(ask.other) + (IF ask.gender = None THEN 0 ELSE 1)
  + (IF ask.min \/ ask.max THEN 1 ELSE 0) + (IF ask.capacity = 0 THEN 0 ELSE 1)

WebOthers ==
  {form.ask.other \ {o} : o \in Other}
  \union {form.ask.other \union {o} :
            o \in IF Cardinality(form.ask.other) < MaxAsked THEN Other ELSE {}}

MobileOthers ==
  {form.ask.other \ {o} : o \in Other}
  \union {form.ask.other \union {o} : o \in IF AskedOnApp(form.ask) < MaxAsked THEN Other ELSE {}}

FillLists ==
  /\ Input("lists")
  /\ \/ \E tags \in IF Web THEN WebTags ELSE MobileTags : Changed([form EXCEPT !.tags = tags], "tags")
     \/ \E o \in IF Web THEN WebOthers ELSE MobileOthers :
          Changed([form EXCEPT !.ask.other = o], "constraints")
  /\ UNCHANGED <<reading, people>>

(* The audience: any value on the page; on the phone a constraint of a     *)
(* type that has none yet, checked when it is added, or one removed.       *)
WebAudiences ==
  {[form.ask EXCEPT !.gender = g] : g \in Gender \union {None}}
  \union {[form.ask EXCEPT !.min = a] : a \in BOOLEAN}
  \union {[form.ask EXCEPT !.max = a] : a \in BOOLEAN}
  \union {[form.ask EXCEPT !.capacity = c] : c \in 0 .. CapacityMin}

AddedAudiences(ask) ==
  (IF ask.gender = None THEN {[ask EXCEPT !.gender = g] : g \in Gender} ELSE {})
  \union (IF ask.min \/ ask.max THEN {}
          ELSE UNION {{[ask EXCEPT !.min = a, !.max = b] : b \in BOOLEAN} : a \in BOOLEAN})
  \union (IF ask.capacity = 0 THEN {[ask EXCEPT !.capacity = CapacityMin]} ELSE {})

MobileAudiences ==
  (IF AskedOnApp(form.ask) < MaxAsked THEN AddedAudiences(form.ask) ELSE {})
  \union {[form.ask EXCEPT !.gender = None], [form.ask EXCEPT !.min = FALSE, !.max = FALSE],
          [form.ask EXCEPT !.capacity = 0]}

FillAudience ==
  /\ Input("audience")
  /\ \E ask \in IF Web THEN WebAudiences ELSE MobileAudiences :
       Changed([form EXCEPT !.ask = ask], "capacity")
  /\ UNCHANGED <<reading, people>>

-----------------------------------------------------------------------------
(* The people to invite, on the phone.                                     *)

InvitesOffered == Mobile /\ form.privacy = "PRIVATE"

SetPrivacy ==
  /\ Input("invites") /\ save = None
  /\ form' = [form EXCEPT !.privacy = IF form.privacy = "PUBLIC" THEN "PRIVATE" ELSE "PUBLIC"]
  /\ UNCHANGED <<errors, touched, attempted, reading, people>>

(* handleUserSearch: the timer of the text before is stopped, its call is  *)
(* not.                                                                    *)
SearchPeople ==
  /\ Input("invites") /\ InvitesOffered /\ save = None
  /\ people' \in {[people EXCEPT !.timer = TRUE], [people EXCEPT !.timer = FALSE, !.list = {}]}
  /\ UNCHANGED <<form, errors, touched, attempted, reading>>

PeopleAsked ==
  /\ people.timer
  /\ people' = [people EXCEPT !.timer = FALSE, !.calls = @ + 1]
  /\ UNCHANGED <<setting, now, form, errors, touched, attempted, reading, save, left, events,
                 inputs, lost>>

PeopleFound ==
  /\ people.calls > 0
  /\ \E found \in {{}, people.list, User \ {Host}} :
       people' = [people EXCEPT !.calls = @ - 1, !.list = found]
  /\ UNCHANGED <<setting, now, form, errors, touched, attempted, reading, save, left, events,
                 inputs, lost>>

(* addInvitedUser leaves the timer and the calls alone, so the list may    *)
(* come back.                                                              *)
Invite ==
  /\ Input("invites") /\ InvitesOffered
  /\ \E u \in people.list :
       /\ form' = [form EXCEPT !.invited = @ \union {u}]
       /\ people' = [people EXCEPT !.list = {}]
  /\ UNCHANGED <<errors, touched, attempted, reading>>

(* A file of names may hold the host's own.                                *)
InviteFromFile ==
  /\ Input("invites") /\ InvitesOffered /\ save = None
  /\ \E names \in SUBSET User \ {{}} : form' = [form EXCEPT !.invited = @ \union (names \ {Host})]
  /\ UNCHANGED <<errors, touched, attempted, reading, people>>

RemoveInvited ==
  /\ Input("invites") /\ InvitesOffered
  /\ \E u \in form.invited : form' = [form EXCEPT !.invited = @ \ {u}]
  /\ UNCHANGED <<errors, touched, attempted, reading, people>>

-----------------------------------------------------------------------------
(* Creating the event.                                                     *)

(* How the app turns its constraints into the fields of the request: the   *)
(* gender by comparing the text it wrote with the English one, the age by  *)
(* its lower end.                                                          *)
MobileAudience(ask) ==
  [ask EXCEPT !.gender = IF @ = None THEN None
                         ELSE IF @ = "MALE" /\ language = "en" THEN "MALE" ELSE "FEMALE",
              !.max = FALSE]

(* The page sends an age limit above too, which the server does not know.  *)
WebAudience(ask) == [ask EXCEPT !.max = FALSE]

Invited(f) == IF f.privacy = "PRIVATE" THEN f.invited ELSE {}

IdleOnceCreated == IF save = None THEN TRUE ELSE save.step # "create"
Idle == save = None

PressCreate ==
  /\ ~left /\ Idle
  /\ attempted' = TRUE
  /\ errors' = IF Problems(form) = {} /\ Mobile THEN errors ELSE Problems(form)
  /\ save' = IF Problems(form) = {} THEN [step |-> "create", form |-> form, at |-> now] ELSE None
  /\ UNCHANGED <<setting, now, form, touched, reading, people, left, events, inputs, lost>>

Lose == lost < MaxLost /\ lost' = lost + 1

CreatedEvent ==
  [id |-> Cardinality(events) + 1, privacy |-> save.form.privacy, invited |-> {},
   ask |-> IF Web THEN WebAudience(save.form.ask) ELSE MobileAudience(save.form.ask),
   asked |-> save.form.ask, cover |-> None]

(* createEvent; the server only looks at the times again.                  *)
Create ==
  /\ save # None /\ save.step = "create"
  /\ \/ /\ save.form.start <= now
        /\ save' = None
        /\ errors' = IF Mobile THEN {"start"} ELSE errors
        /\ UNCHANGED <<events, lost>>
     \/ /\ save.form.start > now
        /\ events' = events \union {CreatedEvent}
        /\ \/ save' = [save EXCEPT !.step = "invite"] /\ UNCHANGED lost
           \/ save' = None /\ Lose
        /\ UNCHANGED errors
     \/ save' = None /\ Lose /\ UNCHANGED <<events, errors>>
  /\ UNCHANGED <<setting, now, form, touched, attempted, reading, people, left, inputs>>

(* The last event is the one this save created.                            *)
Latest == CHOOSE e \in events : e.id = Cardinality(events)

Amended(change) == events' = (events \ {Latest}) \union {change}

(* A failure of the invitations, or of the cover, ends nothing.            *)
CreateInvitations ==
  /\ save # None /\ save.step = "invite"
  /\ save' = [save EXCEPT !.step = "cover"]
  /\ \/ Amended([Latest EXCEPT !.invited = IF Mobile THEN Invited(save.form) ELSE {}]) /\ UNCHANGED lost
     \/ Mobile /\ Invited(save.form) # {} /\ Lose /\ UNCHANGED events
  /\ UNCHANGED <<setting, now, form, errors, touched, attempted, reading, people, left, inputs>>

UploadCover ==
  /\ save # None /\ save.step = "cover"
  /\ save' = None /\ left' = TRUE
  /\ \/ Amended([Latest EXCEPT !.cover = save.form.image]) /\ UNCHANGED lost
     \/ save.form.image # None /\ Lose /\ UNCHANGED events
  /\ UNCHANGED <<setting, now, form, errors, touched, attempted, reading, people, inputs>>

Tick ==
  /\ now < MaxTime
  /\ now' = now + 1
  /\ UNCHANGED <<setting, screen, events, inputs, lost>>

Next ==
  \/ FillText \/ FillTimes \/ ChooseImage \/ ImageRead \/ FillLists \/ FillAudience
  \/ SetPrivacy \/ SearchPeople \/ PeopleAsked \/ PeopleFound \/ Invite \/ InviteFromFile
  \/ RemoveInvited \/ PressCreate \/ Create \/ CreateInvitations \/ UploadCover \/ Tick

Spec == Init /\ [][Next]_vars

-----------------------------------------------------------------------------
(* Properties.                                                             *)

Audience ==
  [gender : Gender \union {None}, min : BOOLEAN, max : BOOLEAN, capacity : 0 .. CapacityMin,
   other : SUBSET Other]
Form ==
  [text : {"none", "good", "bad"}, start : Time \union {0}, end : Time \union {0},
   image : Image \union {None}, privacy : {"PUBLIC", "PRIVATE"}, invited : SUBSET User,
   tags : SUBSET Tag, ask : Audience]
Save == [step : {"create", "invite", "cover"}, form : Form, at : Time]

(* The types of the form, of its search and of the running save.           *)
TypeOK ==
  /\ now \in Time /\ form \in Form
  /\ Cardinality(form.tags) <= MaxTags /\ Cardinality(form.ask.other) <= MaxAsked
  /\ errors \subseteq {"text", "start", "end", "cover", "capacity"}
  /\ people.list \subseteq User /\ people.calls \in Nat
  /\ save \in Save \union {None}
  /\ \A e \in events : e.id \in 1 .. Cardinality(events)

(* An error on the screen is one of the form as it stands: also that of    *)
(* the end, which a change of the start mends, and that of the cover,      *)
(* which the browser reads late.                                           *)
FormOK == TypeOK /\ errors \subseteq Problems(form)

(* One form makes one event, unless the answer of a call was lost and the  *)
(* host, told of a failure, pressed again.                                 *)
OneEventPerForm == Cardinality(events) <= 1 + lost

(* Only to a private event is anybody invited, whoever was chosen before   *)
(* the host made it public, and never the host.                            *)
InvitesArePrivate ==
  \A e \in events : e.invited # {} => e.privacy = "PRIVATE" /\ Host \notin e.invited
=============================================================================
