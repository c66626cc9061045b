--------------------------- MODULE EventFormsProofs ---------------------------
(***************************************************************************)
(* Proofs about the forms that create and edit an event, pick its place,   *)
(* register, reset a password and sign in, for any number of people,       *)
(* devices, addresses, tags, needs, places, times, inputs, calls, codes    *)
(* and lost answers.  Each part of EventForms has an inductive invariant   *)
(* of its own: CreateInv, EditInv, PickerInv and AccountInv.               *)
(***************************************************************************)
EXTENDS EventForms, FiniteSetTheorems, SequenceTheorems, TLAPS

-----------------------------------------------------------------------------
(* The form that edits an event.                                           *)

Times == Edit!Time \cup {0}
NeedSets == {n \in SUBSET Need : Edit!Cardinality(n) <= MaxNeeds}

EventRow ==
  [text : Edit!Text, start : Times, end : Times, capacity : 0 .. 3, needs : NeedSets,
   status : {"ACTIVE", "CANCELED"}, version : Nat]
FieldsRow ==
  [text : Edit!Text, start : Times, end : Times, capacity : 0 .. 3, needs : NeedSets]

Notices ==
  {None, "unloaded", "uneditable", "invalid", "unchanged", "refused", "failed", "image", "saved"}

EditTyped ==
  /\ client \in {"web", "mobile"} /\ focus \subseteq Edit!Field
  /\ now \in Edit!Time /\ taken \in 0 .. 3 /\ event \in EventRow /\ form \in FieldsRow
  /\ editable \in BOOLEAN /\ image \in BOOLEAN /\ loading \in BOOLEAN /\ left \in BOOLEAN
  /\ notice \in Notices /\ typed \subseteq Edit!Field
  /\ loaded # None => loaded \in [event : EventRow, taken : 0 .. 3]
  /\ save # None =>
       /\ save = [preview |-> save.preview, upload |-> save.upload, updated |-> save.updated,
                  step |-> save.step]
       /\ save.step \in {"update", "image", "reload"}

\* A request gives some fields values of their kinds.
IsRequest(r) ==
  /\ r = [f \in DOMAIN r |-> r[f]] /\ DOMAIN r \subseteq Edit!Field
  /\ \A f \in DOMAIN r : r[f] \in Edit!Domain(f)

\* What a request makes of the event it was made for is valid.
Fits(e, t, at) ==
  /\ e.start > at /\ (e.end # 0 => e.end > e.start)
  /\ e.capacity # 0 => e.capacity >= t

\* What a preview says is so for the event it was made for.
IsPreview(p) ==
  /\ IsRequest(p.request)
  /\ p.base \in [event : EventRow, taken : 0 .. 3] /\ p.base.event.status = "ACTIVE"
  /\ p.at \in Nat
  /\ \A f \in DOMAIN p.request \ {"capacity"} :
       (f = "needs" => p.request.needs \ p.base.event.needs # {}) => f \in p.labels
  /\ Fits(Edit!Merged(p.base.event, p.request), p.base.taken, p.at)

\* What a form says in a field, and in one nobody touched.
Says(f, x) == IF x = "text" /\ f[x] = "unnamed" THEN "derived" ELSE f[x]
Shows(e, x) == IF x \in {"start", "end"} THEN Edit!CutToMinute(e[x]) ELSE e[x]
Rests(e, x) ==
  IF x \in {"start", "end"} THEN Edit!CutToMinute(e[x])
  ELSE IF x = "text" /\ e[x] = "unnamed" THEN "derived" ELSE e[x]

\* The fields of a request show what it says, or what was loaded over it.
ShowsRequest(r, f, l) == l # None => \A x \in DOMAIN r : Says(f, x) \in {r[x], Rests(l.event, x)}

\* A request has, besides what was typed in, what the form does not show.
IsTyped(p, ts) ==
  \A x \in DOMAIN p.request \ ts :
    p.request[x] = Rests(p.base.event, x) /\ Rests(p.base.event, x) # p.base.event[x]

Previewed(p, f, l, ts) == IsPreview(p) /\ IsTyped(p, ts) /\ ShowsRequest(p.request, f, l)

\* The host typed in what differs from what was loaded.
TypedIn(f, l, ts) == l # None => \A x \in Edit!Field \ ts : f[x] = Shows(l.event, x)

EditInv ==
  /\ EditTyped
  /\ TypedIn(form, loaded, typed)
  /\ editable => loaded # None /\ loaded.event.status = "ACTIVE"
  /\ modal # None => Previewed(modal, form, loaded, typed)
  /\ save # None => Previewed(save.preview, form, loaded, typed)
  /\ save # None /\ save.step = "update" => notice # "refused"
  /\ applied # None =>
       DOMAIN applied \subseteq Edit!Field /\ \A f \in DOMAIN applied : event[f] = applied[f]

(* None is no notice of the screen.                                        *)
LEMMA NoneIsNotRefused == None # "refused"
  BY NoneAssumption

(* Edit counts as everybody does.                                          *)
LEMMA EditCounts == \A S : Edit!Cardinality(S) = Cardinality(S)
  BY DEF Edit!Cardinality, Cardinality

(* What a field may hold, by its kind.                                     *)
LEMMA Kinds ==
  /\ Edit!Domain("text") = Edit!Text /\ Edit!Domain("start") = Times
  /\ Edit!Domain("end") = Times /\ Edit!Domain("capacity") = 0 .. 3
  /\ Edit!Domain("needs") = NeedSets
  /\ Edit!Field = {"text", "start", "end", "capacity", "needs"}
  /\ Times \subseteq Nat /\ NeedSets \subseteq SUBSET Need
<1>1. Times \subseteq Nat
  BY FormsAssumption DEF Times, Edit!Time
<1>2. NeedSets \subseteq SUBSET Need
  BY DEF NeedSets
<1>3. Edit!Domain("text") = Edit!Text
  BY DEF Edit!Domain
<1>4. Edit!Domain("start") = Times /\ Edit!Domain("end") = Times
  BY DEF Edit!Domain, Times
<1>5. Edit!Domain("capacity") = 0 .. 3
  BY DEF Edit!Domain, Edit!Capacity
<1>6. Edit!Domain("needs") = NeedSets
  BY DEF Edit!Domain, NeedSets
<1>7. QED BY <1>1, <1>2, <1>3, <1>4, <1>5, <1>6 DEF Edit!Field

(* A request that is merged into an event keeps its kinds.                 *)
LEMMA MergedKept ==
  ASSUME NEW e \in EventRow, NEW r, IsRequest(r)
  PROVE  /\ Edit!Merged(e, r) \in EventRow
         /\ \A f \in Edit!Field : Edit!Merged(e, r)[f] = IF f \in DOMAIN r THEN r[f] ELSE e[f]
         /\ Edit!Merged(e, r).status = e.status /\ Edit!Merged(e, r).version = e.version
<1> DEFINE m == Edit!Merged(e, r)
<1>1. DOMAIN e = {"text", "start", "end", "capacity", "needs", "status", "version"}
  BY DEF EventRow
<1>2. DOMAIN m = DOMAIN e /\ \A f \in DOMAIN e : m[f] = IF f \in DOMAIN r THEN r[f] ELSE e[f]
  BY DEF Edit!Merged
<1>3. \A f \in DOMAIN r : f \in {"text", "start", "end", "capacity", "needs"} /\ r[f] \in Edit!Domain(f)
  BY Kinds DEF IsRequest
<1>4. m.status = e.status /\ m.version = e.version
  BY <1>1, <1>2, <1>3
<1>5. m.text \in Edit!Text /\ m.start \in Times /\ m.end \in Times
  BY <1>1, <1>2, <1>3, Kinds DEF EventRow
<1>6. m.capacity \in 0 .. 3 /\ m.needs \in NeedSets
  BY <1>1, <1>2, <1>3, Kinds DEF EventRow
<1>7. m \in EventRow
  <2>1. m = [text |-> m.text, start |-> m.start, end |-> m.end, capacity |-> m.capacity,
             needs |-> m.needs, status |-> m.status, version |-> m.version]
    BY <1>1, <1>2 DEF Edit!Merged
  <2>2. m.status \in {"ACTIVE", "CANCELED"} /\ m.version \in Nat
    BY <1>4 DEF EventRow
  <2>3. QED BY <2>1, <2>2, <1>5, <1>6 DEF EventRow
<1>8. \A f \in Edit!Field : m[f] = IF f \in DOMAIN r THEN r[f] ELSE e[f]
  BY <1>1, <1>2, Kinds
<1>9. QED BY <1>4, <1>7, <1>8

(* What the server makes of a request it takes.                            *)
LEMMA UpdatedKept ==
  ASSUME event \in EventRow, NEW r, IsRequest(r)
  PROVE  /\ Edit!Updated(r) \in EventRow
         /\ \A f \in Edit!Field : Edit!Updated(r)[f] = IF f \in DOMAIN r THEN r[f] ELSE event[f]
         /\ Edit!Updated(r).status = event.status
         /\ (\A f \in DOMAIN r : r[f] = event[f]) => Edit!Updated(r) = event
<1>1. CASE Edit!ChangedFields(event, r) = {}
  <2>1. \A f \in DOMAIN r : r[f] = event[f]
    BY <1>1 DEF Edit!ChangedFields
  <2>2. Edit!Updated(r) = event
    BY <1>1 DEF Edit!Updated
  <2>3. QED BY <2>1, <2>2
<1>2. CASE Edit!ChangedFields(event, r) # {}
  <2>1. ~\A f \in DOMAIN r : r[f] = event[f]
    BY <1>2 DEF Edit!ChangedFields
  <2> DEFINE m == Edit!Merged(event, r)
  <2>2. Edit!Updated(r) = [m EXCEPT !.version = @ + 1]
    BY <1>2 DEF Edit!Updated
  <2>3. m \in EventRow /\ m.status = event.status
    BY MergedKept
  <2>4. \A f \in Edit!Field : m[f] = IF f \in DOMAIN r THEN r[f] ELSE event[f]
    BY MergedKept
  <2> HIDE DEF m
  <2>5. Edit!Updated(r) \in EventRow /\ Edit!Updated(r).status = event.status
    BY <2>2, <2>3 DEF EventRow
  <2>6. \A f \in Edit!Field : Edit!Updated(r)[f] = m[f]
    BY <2>2, <2>3, Kinds DEF EventRow
  <2>7. QED BY <2>1, <2>4, <2>5, <2>6
<1>3. QED BY <1>1, <1>2

(* A time that is cut to the minute is one.                                *)
LEMMA CutFits ==
  ASSUME NEW t \in Times
  PROVE  Edit!CutToMinute(t) \in Times
<1>1. t \in Nat /\ (t = 0 \/ t <= MaxEditTime) /\ MaxEditTime \in Nat
  BY FormsAssumption DEF Times, Edit!Time
<1>2. t % 2 \in {0, 1} /\ (t = 0 => t % 2 = 0)
  BY <1>1
<1>3. t - (t % 2) \in Nat /\ (t - (t % 2) = 0 \/ t - (t % 2) <= MaxEditTime)
  BY <1>1, <1>2
<1>4. QED BY <1>1, <1>3 DEF Edit!CutToMinute, Times, Edit!Time

(* A form filled from an event shows its fields.                           *)
LEMMA FormOfEvent ==
  ASSUME NEW e \in EventRow
  PROVE  /\ Edit!FormOf(e) \in FieldsRow /\ Edit!FormOf(e) = Edit!WebFormOf(e)
         /\ Edit!FormOf(e) = Edit!MobileFormOf(e)
         /\ \A f \in Edit!Field : Edit!FormOf(e)[f] = Shows(e, f)
<1>1. /\ Edit!FormOf(e) = Edit!WebFormOf(e) /\ Edit!FormOf(e) = Edit!MobileFormOf(e)
      /\ Edit!FormOf(e) = [f \in Edit!Field |-> Shows(e, f)]
  BY DEF Edit!FormOf, Edit!WebFormOf, Edit!MobileFormOf, Shows
<1>2. /\ e.text \in Edit!Text /\ e.start \in Times /\ e.end \in Times
      /\ e.capacity \in 0 .. 3 /\ e.needs \in NeedSets
  BY DEF EventRow
<1>3. /\ Shows(e, "text") = e.text /\ Shows(e, "capacity") = e.capacity /\ Shows(e, "needs") = e.needs
      /\ Shows(e, "start") \in Times /\ Shows(e, "end") \in Times
  BY <1>2, CutFits DEF Shows
<1>4. [f \in Edit!Field |-> Shows(e, f)] \in FieldsRow
  BY <1>2, <1>3, Kinds DEF FieldsRow
<1>5. QED BY <1>1, <1>4

(* What the form says, field by field.                                     *)
LEMMA SaidIs ==
  ASSUME NEW f \in FieldsRow
  PROVE  /\ Edit!Said(f) \in FieldsRow
         /\ \A x \in Edit!Field : Edit!Said(f)[x] = Says(f, x)
<1>1. DOMAIN f = Edit!Field
  BY Kinds DEF FieldsRow
<1>2. PICK v : v = IF f.text = "unnamed" THEN "derived" ELSE f.text
  OBVIOUS
<1>3. Edit!Said(f) = [f EXCEPT !.text = v] /\ v \in Edit!Text
  BY <1>2 DEF Edit!Said, Edit!Text, FieldsRow
<1>4. Edit!Said(f) \in FieldsRow
  BY <1>3 DEF FieldsRow
<1>5. \A x \in Edit!Field : Edit!Said(f)[x] = IF x = "text" THEN v ELSE f[x]
  BY <1>1, <1>3, Kinds
<1>6. QED BY <1>2, <1>4, <1>5 DEF Says

(* What an untouched form says, field by field.                            *)
LEMMA UntouchedIs ==
  ASSUME NEW e \in EventRow
  PROVE  \A x \in Edit!Field : Edit!Untouched(e)[x] = Rests(e, x)
<1>1. PICK f \in FieldsRow : f = Edit!FormOf(e)
  BY FormOfEvent
<1>2. \A x \in Edit!Field : Edit!Untouched(e)[x] = Says(f, x) /\ f[x] = Shows(e, x)
  BY <1>1, SaidIs, FormOfEvent DEF Edit!Untouched
<1>3. QED BY <1>2 DEF Says, Shows, Rests

(* A form that shows an event says what an untouched one does.             *)
LEMMA ShownRests ==
  ASSUME NEW f, NEW e, NEW x, f[x] = Shows(e, x)
  PROVE  Says(f, x) = Rests(e, x)
  BY DEF Says, Shows, Rests

(* Constraints that are removed or added keep to their number.             *)
LEMMA NeedsEdited ==
  ASSUME form \in FieldsRow, NEW v \in Edit!WebNeeds
  PROVE  v \in NeedSets
<1>1. form.needs \in SUBSET Need /\ Edit!Cardinality(form.needs) <= MaxNeeds
  BY DEF FieldsRow, NeedSets
<1>2. IsFiniteSet(form.needs) /\ Cardinality(form.needs) \in Nat
  BY <1>1, FormsAssumption, FS_Subset, FS_CardinalityType
<1>3. MaxNeeds \in Nat
  BY FormsAssumption
<1>4. ASSUME NEW n \in Need, v = form.needs \ {n}
      PROVE  v \in NeedSets
  <2>1. v \subseteq form.needs
    BY <1>4
  <2>2. Cardinality(v) <= Cardinality(form.needs) /\ Cardinality(v) \in Nat
    BY <2>1, <1>2, FS_Subset, FS_CardinalityType
  <2>3. Cardinality(v) <= MaxNeeds
    BY <2>2, <1>1, <1>2, <1>3, EditCounts
  <2>4. QED BY <2>1, <2>3, <1>1, EditCounts DEF NeedSets
<1>5. ASSUME NEW n \in Need, v = form.needs \cup {n}, Edit!Cardinality(form.needs) < MaxNeeds
      PROVE  v \in NeedSets
  <2>1. Cardinality(v) = Cardinality(form.needs) \/ Cardinality(v) = Cardinality(form.needs) + 1
    BY <1>2, <1>5, FS_AddElement
  <2>2. Cardinality(v) <= MaxNeeds
    BY <2>1, <1>2, <1>3, <1>5, EditCounts
  <2>3. QED BY <2>2, <1>1, <1>5, EditCounts DEF NeedSets
<1>6. (\E n \in Need : v = form.needs \ {n})
      \/ (Edit!Cardinality(form.needs) < MaxNeeds /\ \E n \in Need : v = form.needs \cup {n})
  BY DEF Edit!WebNeeds
<1>7. QED BY <1>4, <1>5, <1>6

(* What the host can make of a field is of its kind.                       *)
LEMMA EditsAreOfTheirKind ==
  ASSUME form \in FieldsRow, NEW f \in Edit!Field, NEW v \in Edit!Edits(f)
  PROVE  v \in Edit!Domain(f)
<1>1. Edit!WebNeeds = Edit!MobileNeeds
  BY DEF Edit!MobileNeeds
<1>2. CASE f = "needs"
  <2>1. v \in Edit!WebNeeds
    BY <1>1, <1>2 DEF Edit!Edits, Edit!WebEdits, Edit!MobileEdits
  <2>2. QED BY <2>1, <1>2, NeedsEdited, Kinds
<1>3. CASE f \in {"start", "end"}
  BY <1>3, Kinds DEF Edit!Edits, Edit!WebEdits, Edit!MobileEdits, Edit!WebTimes, Edit!MobileTimes,
     Edit!Minute, Times
<1>4. CASE f \notin {"needs", "start", "end"}
  BY <1>4, Kinds DEF Edit!Edits, Edit!WebEdits, Edit!MobileEdits, Edit!Typeable
<1>5. QED BY <1>2, <1>3, <1>4

(* A field of the form that is given a value of its kind.                  *)
LEMMA FieldSet ==
  ASSUME form \in FieldsRow, NEW f \in Edit!Field, NEW v \in Edit!Domain(f)
  PROVE  /\ [form EXCEPT ![f] = v] \in FieldsRow
         /\ \A g \in Edit!Field \ {f} : [form EXCEPT ![f] = v][g] = form[g]
<1>1. DOMAIN form = Edit!Field
  BY Kinds DEF FieldsRow
<1>2. CASE f = "text"
  BY <1>1, <1>2, Kinds DEF FieldsRow
<1>3. CASE f = "start"
  BY <1>1, <1>3, Kinds DEF FieldsRow
<1>4. CASE f = "end"
  BY <1>1, <1>4, Kinds DEF FieldsRow
<1>5. CASE f = "capacity"
  BY <1>1, <1>5, Kinds DEF FieldsRow
<1>6. CASE f = "needs"
  BY <1>1, <1>6, Kinds DEF FieldsRow
<1>7. QED BY <1>2, <1>3, <1>4, <1>5, <1>6, Kinds

(* The offers of the screens, by what they need.                           *)
LEMMA OffersNeed ==
  /\ \A f \in Edit!Field : f \in Edit!Offers => Edit!Enabled
  /\ "save" \in Edit!Offers => Edit!Enabled
  /\ "image" \in Edit!Offers => Edit!Enabled
  /\ "confirm" \in Edit!Offers => Edit!Shown /\ modal # None /\ save = None
  /\ "cancel" \in Edit!Offers => modal # None /\ save = None
  /\ "retry" \in Edit!Offers => loaded = None
<1> USE DEF Edit!Offers, Edit!WebTextOffers, Edit!WebTimeOffers, Edit!WebLimitOffers,
            Edit!WebActionOffers, Edit!MobileTextOffers, Edit!MobileTimeOffers,
            Edit!MobileLimitOffers, Edit!MobileImageOffers, Edit!MobileActionOffers
<1>1. \A f \in Edit!Field : f \in Edit!Offers => Edit!Enabled
  BY Kinds
<1>2. QED BY <1>1

(* The start: the stored event is one.                                     *)
LEMMA EditBegins ==
  ASSUME Edit!Init
  PROVE  EditInv
<1>1. 1 \in Edit!Time /\ 2 \in Edit!Time /\ MaxEditTime \in Edit!Time
  BY FormsAssumption DEF Edit!Time
<1>2. {} \in NeedSets /\ \A x \in Need : {x} \in NeedSets
  <2>1. Cardinality({}) = 0 /\ \A x \in Need : Cardinality({x}) = 1
    BY FS_EmptySet, FS_Singleton
  <2>2. QED BY <2>1, FormsAssumption, EditCounts DEF NeedSets
<1>3. event \in EventRow
  <2> DEFINE C == IF "capacity" \in focus THEN {2} ELSE {0}
             N == IF "needs" \in focus THEN {{y} : y \in Need} ELSE {{}}
             X == IF "needs" \in focus THEN {"unnamed"} ELSE {"old"}
  <2>1. PICK x \in X, t \in Edit!StoredTimes, c \in C, n \in N :
          event = [text |-> x, start |-> t[1], end |-> t[2], capacity |-> c, needs |-> n,
                   status |-> "ACTIVE", version |-> 1]
    BY DEF Edit!Init, Edit!StoredEvents
  <2>2. c \in 0 .. 3 /\ x \in Edit!Text
    BY DEF Edit!Text
  <2>3. n \in NeedSets
    BY <1>2
  <2>4. t[1] \in Times /\ t[2] \in Times
    BY <1>1 DEF Edit!StoredTimes, Times
  <2>5. event.version \in Nat /\ event.status = "ACTIVE"
    BY <2>1
  <2> HIDE DEF C, N, X
  <2>6. QED BY <2>1, <2>2, <2>3, <2>4, <2>5 DEF EventRow
<1>4. form \in FieldsRow
  BY <1>2 DEF Edit!Init, Edit!EmptyForm, FieldsRow, Times, Edit!Text
<1>5. EditTyped
  <2>1. now = 1 /\ taken \in {0, 1} /\ editable = FALSE /\ image = FALSE /\ left = FALSE
    BY DEF Edit!Init
  <2>2. loading = TRUE /\ notice = None /\ typed = {} /\ loaded = None /\ save = None
    BY DEF Edit!Init
  <2>3. client \in {"web", "mobile"} /\ focus \subseteq Edit!Field
    BY Kinds DEF Edit!Init, Edit!Foci
  <2>4. now \in Edit!Time /\ taken \in 0 .. 3
    BY <2>1, <1>1
  <2>5. notice \in Notices
    BY <2>2 DEF Notices
  <2>6. QED BY <2>1, <2>2, <2>4, <2>5, <2>3, <1>3, <1>4 DEF EditTyped
<1>6. QED BY <1>5 DEF Edit!Init, EditInv, TypedIn

(* What leaves the fields, what was loaded and the running save alone, and *)
(* the event but for its status, keeps the invariant.                      *)
LEMMA EditUntouched ==
  ASSUME EditInv, EditTyped',
         UNCHANGED <<form, loaded, typed, save>>,
         editable' => loaded # None /\ loaded.event.status = "ACTIVE",
         modal' = modal \/ modal' = None,
         notice' = "refused" => notice' = notice \/ save = None,
         applied' = None \/ (applied' = applied /\ \A f \in Edit!Field : event'[f] = event[f])
  PROVE  EditInv'
<1>1. TypedIn(form', loaded', typed')
  BY DEF EditInv
<1>2. modal' # None => Previewed(modal', form', loaded', typed')
  BY DEF EditInv
<1>3. save' # None => Previewed(save.preview', form', loaded', typed')
  BY DEF EditInv
<1>4. save' # None /\ save.step' = "update" => notice' # "refused"
  BY DEF EditInv
<1>5. applied' # None =>
        DOMAIN applied' \subseteq Edit!Field /\ \A f \in DOMAIN applied' : event'[f] = applied'[f]
  BY DEF EditInv
<1>6. QED BY <1>1, <1>2, <1>3, <1>4, <1>5 DEF EditInv

(* A load or a reload fills the form with the event it read.               *)
LEMMA EditLoaded ==
  ASSUME EditInv, Edit!Loaded
  PROVE  EditInv'
<1>1. UNCHANGED <<client, focus, now, event, taken, modal, save, left, typed, applied>> /\ loading' = FALSE
  BY DEF Edit!Loaded, Edit!setting, Edit!server, Edit!history
<1>2. editable' = Edit!CanEdit(loaded')
  BY DEF Edit!Loaded
<1>3. EditTyped /\ event \in EventRow /\ taken \in 0 .. 3
  BY DEF EditInv, EditTyped
<1>4. \/ loaded' = [event |-> event, taken |-> taken] /\ form' = Edit!FormOf(event)
         /\ notice' = None /\ image' \in BOOLEAN
      \/ loaded' = None /\ notice' = "unloaded" /\ UNCHANGED <<form, image>>
  BY <1>3, FormOfEvent DEF Edit!Loaded, Edit!WebLoad, Edit!MobileLoad, EditTyped
<1>5. loaded' # None =>
        /\ loaded' \in [event : EventRow, taken : 0 .. 3]
        /\ form' \in FieldsRow /\ \A f \in Edit!Field : form'[f] = Shows(loaded'.event, f)
  BY <1>3, <1>4, FormOfEvent
<1>6. form' \in FieldsRow
  BY <1>3, <1>4, FormOfEvent DEF EditTyped
<1>7. editable' \in BOOLEAN /\ image' \in BOOLEAN /\ notice' \in Notices /\ notice' # "refused"
  <2>1. notice' \in Notices /\ notice' # "refused"
    BY <1>4, NoneIsNotRefused DEF Notices
  <2>2. image' \in BOOLEAN
    BY <1>3, <1>4 DEF EditTyped
  <2>3. editable' \in BOOLEAN
    BY <1>2 DEF Edit!CanEdit
  <2>4. QED BY <2>1, <2>2, <2>3
<1>8. EditTyped'
  BY <1>1, <1>3, <1>5, <1>6, <1>7 DEF EditTyped
<1>9. ASSUME NEW p, Previewed(p, form, loaded, typed)
      PROVE  Previewed(p, form', loaded', typed')
  <2>1. loaded' # None => \A x \in DOMAIN p.request : Says(form', x) = Rests(loaded'.event, x)
    BY <1>5, <1>9, ShownRests DEF Previewed, IsPreview, IsRequest
  <2>2. QED BY <2>1, <1>1, <1>9 DEF Previewed, ShowsRequest, IsTyped
<1>10. TypedIn(form', loaded', typed')
  BY <1>5 DEF TypedIn
<1>11. editable' => loaded' # None /\ loaded'.event.status = "ACTIVE"
  BY <1>2 DEF Edit!CanEdit
<1>12. QED BY <1>1, <1>7, <1>8, <1>9, <1>10, <1>11 DEF EditInv

(* A renewed session, a retried load and leaving the screen.               *)
LEMMA EditRenewed ==
  ASSUME EditInv, Edit!SessionRenewed \/ Edit!Retry \/ Edit!Leave
  PROVE  EditInv'
<1>1. /\ UNCHANGED <<client, focus, now, event, taken, loaded, editable, form, image, modal, save, typed, applied>>
      /\ loading' \in BOOLEAN /\ left' \in BOOLEAN /\ notice' \in {None, notice}
  BY DEF Edit!SessionRenewed, Edit!Retry, Edit!Leave, Edit!setting, Edit!server, Edit!history,
         Edit!counters, EditInv, EditTyped
<1>2. EditTyped'
  BY <1>1 DEF EditInv, EditTyped, Notices
<1>3. notice' = "refused" => notice' = notice
  BY <1>1, NoneIsNotRefused
<1>4. QED BY <1>1, <1>2, <1>3, EditUntouched DEF EditInv

(* Time, other devices and participants change the event; the screen keeps *)
(* what it read.                                                           *)
LEMMA EditOthers ==
  ASSUME EditInv, Edit!Tick \/ Edit!OthersJoin \/ Edit!CanceledElsewhere \/ Edit!EditElsewhere
  PROVE  EditInv'
<1>1. UNCHANGED <<client, focus, loaded, editable, form, image, loading, modal, save, notice, left, typed>>
  BY DEF Edit!Tick, Edit!OthersJoin, Edit!CanceledElsewhere, Edit!EditElsewhere, Edit!screen,
         Edit!history, Edit!setting
<1>2. CASE Edit!Tick
  <2>1. now' \in Edit!Time /\ UNCHANGED <<event, taken, applied>>
    BY <1>2, FormsAssumption DEF Edit!Tick, Edit!history, EditInv, EditTyped, Edit!Time
  <2>2. EditTyped'
    BY <1>1, <2>1 DEF EditInv, EditTyped
  <2>3. QED BY <1>1, <2>1, <2>2, EditUntouched DEF EditInv
<1>3. CASE Edit!OthersJoin
  <2>1. taken' \in 0 .. 3 /\ UNCHANGED <<event, now, applied>>
    BY <1>3 DEF Edit!OthersJoin, Edit!history, EditInv, EditTyped
  <2>2. EditTyped'
    BY <1>1, <2>1 DEF EditInv, EditTyped
  <2>3. QED BY <1>1, <2>1, <2>2, EditUntouched DEF EditInv
<1>4. CASE Edit!CanceledElsewhere
  <2>1. event' = [event EXCEPT !.status = "CANCELED"] /\ UNCHANGED <<taken, now, applied>>
    BY <1>4 DEF Edit!CanceledElsewhere, Edit!history
  <2>2. event \in EventRow
    BY DEF EditInv, EditTyped
  <2>3. event' \in EventRow /\ \A f \in Edit!Field : event'[f] = event[f]
    BY <2>1, <2>2, Kinds DEF EventRow
  <2>4. EditTyped'
    BY <1>1, <2>1, <2>3 DEF EditInv, EditTyped
  <2>5. QED BY <1>1, <2>1, <2>3, <2>4, EditUntouched DEF EditInv
<1>5. CASE Edit!EditElsewhere
  <2>1. applied' = None /\ UNCHANGED <<taken, now>>
    BY <1>5 DEF Edit!EditElsewhere
  <2>2. event \in EventRow /\ focus \subseteq Edit!Field
    BY DEF EditInv, EditTyped
  <2>3. PICK f \in focus : \E x \in Edit!Storable(f) : event' = Edit!Updated([g \in {f} |-> x])
    BY <1>5 DEF Edit!EditElsewhere
  <2>4. PICK v \in Edit!Storable(f) : event' = Edit!Updated([g \in {f} |-> v])
    BY <2>3
  <2>5. f \in Edit!Field /\ v \in Edit!Domain(f)
    BY <2>2, Kinds DEF Edit!Storable, Edit!Minute, Edit!Text, Times
  <2>6. IsRequest([g \in {f} |-> v])
    BY <2>5 DEF IsRequest
  <2>7. event' \in EventRow
    BY <2>2, <2>4, <2>6, UpdatedKept
  <2>8. EditTyped'
    BY <1>1, <2>1, <2>7 DEF EditInv, EditTyped
  <2>9. QED BY <1>1, <2>1, <2>8, EditUntouched DEF EditInv
<1>6. QED BY <1>2, <1>3, <1>4, <1>5

(* The screen that computes canEdit again says no more than was loaded.    *)
LEMMA RedrawnRight ==
  ASSUME EditInv, Edit!Redrawn, UNCHANGED loaded
  PROVE  editable' \in BOOLEAN /\ (editable' => loaded # None /\ loaded.event.status = "ACTIVE")
<1>1. editable \in BOOLEAN /\ (editable => loaded # None /\ loaded.event.status = "ACTIVE")
  BY DEF EditInv, EditTyped
<1>2. Edit!CanEdit(loaded) \in BOOLEAN
      /\ (Edit!CanEdit(loaded) => loaded # None /\ loaded.event.status = "ACTIVE")
  BY DEF Edit!CanEdit
<1>3. editable' = editable \/ editable' = Edit!CanEdit(loaded)
  BY DEF Edit!Redrawn
<1>4. QED BY <1>1, <1>2, <1>3

(* What the host types in is of its kind and is counted as typed.          *)
LEMMA EditFilled ==
  ASSUME EditInv, Edit!Fill
  PROVE  EditInv'
<1>1. UNCHANGED <<client, focus, now, event, taken, loaded, image, loading, modal, save, left, applied>>
      /\ notice' = None
  BY DEF Edit!Fill, Edit!setting, Edit!server
<1>2. EditTyped /\ form \in FieldsRow /\ focus \subseteq Edit!Field /\ typed \subseteq Edit!Field
  BY DEF EditInv, EditTyped
<1>3. PICK f \in focus \cap Edit!Offers :
        /\ \E v \in Edit!Edits(f) \ {form[f]} : form' = [form EXCEPT ![f] = v]
        /\ typed' = typed \cup {f}
  BY DEF Edit!Fill
<1>4. PICK v \in Edit!Edits(f) : form' = [form EXCEPT ![f] = v]
  BY <1>3
<1>5. f \in Edit!Field /\ modal = None /\ save = None
  BY <1>2, OffersNeed DEF Edit!Enabled, Edit!Covered
<1>6. v \in Edit!Domain(f)
  BY <1>2, <1>5, EditsAreOfTheirKind
<1>7. form' \in FieldsRow /\ \A g \in Edit!Field \ {f} : form'[g] = form[g]
  BY <1>2, <1>4, <1>5, <1>6, FieldSet
<1>8. editable' \in BOOLEAN /\ (editable' => loaded # None /\ loaded.event.status = "ACTIVE")
  BY <1>1, RedrawnRight DEF Edit!Fill
<1>9. EditTyped'
  <2>1. typed' \subseteq Edit!Field /\ notice' \in Notices
    BY <1>1, <1>2, <1>3, <1>5 DEF Notices
  <2>2. QED BY <2>1, <1>1, <1>2, <1>7, <1>8 DEF EditTyped
<1>10. TypedIn(form', loaded', typed')
  BY <1>1, <1>3, <1>7 DEF EditInv, TypedIn
<1>11. QED BY <1>1, <1>5, <1>8, <1>9, <1>10 DEF EditInv

(* A chosen image is no field of the event.                                *)
LEMMA EditImageChosen ==
  ASSUME EditInv, Edit!ChooseImage
  PROVE  EditInv'
<1>1. /\ UNCHANGED <<client, focus, now, event, taken, loaded, editable, form, loading, modal, save,
                     left, typed, applied>>
      /\ notice' = None /\ image' = ~image
  BY DEF Edit!ChooseImage, Edit!setting, Edit!server, Edit!history
<1>2. EditTyped'
  BY <1>1 DEF EditInv, EditTyped, Notices
<1>3. QED BY <1>1, <1>2, NoneIsNotRefused, EditUntouched DEF EditInv

(* What is sent is what the form says, where it differs from the event.    *)
LEMMA RequestShown ==
  ASSUME form \in FieldsRow
  PROVE  Edit!Request = [f \in {g \in Edit!Field : Says(form, g) # loaded.event[g]} |-> Says(form, f)]
<1>1. Edit!Request =
        [f \in {g \in Edit!Field : Edit!Said(form)[g] # loaded.event[g]} |-> Edit!Said(form)[f]]
  BY DEF Edit!Request, Edit!WebRequest, Edit!MobileRequest
<1>2. \A x \in Edit!Field : Edit!Said(form)[x] = Says(form, x)
  BY SaidIs
<1>3. QED BY <1>1, <1>2

(* The preview of a form without a problem is valid and complete.          *)
LEMMA PreviewMade ==
  ASSUME EditInv, editable, Edit!SaveProblem = None
  PROVE  Previewed(Edit!Preview, form, loaded, typed)
<1> DEFINE p == Edit!Preview  r == Edit!Request
<1>1. /\ p.request = r /\ p.labels = Edit!Labels(r) /\ p.base = loaded /\ p.at = now
  BY DEF Edit!Preview
<1>2. /\ DOMAIN r = {g \in Edit!Field : Says(form, g) # loaded.event[g]}
      /\ \A f \in DOMAIN r : r[f] = Says(form, f)
  <2>1. form \in FieldsRow
    BY DEF EditInv, EditTyped
  <2>2. QED BY <2>1, RequestShown
<1>3. loaded # None /\ loaded \in [event : EventRow, taken : 0 .. 3] /\ loaded.event.status = "ACTIVE"
  BY DEF EditInv, EditTyped
<1>4. form \in FieldsRow /\ now \in Edit!Time
  BY DEF EditInv, EditTyped
<1>5. IsRequest(r)
  <2>1. \A f \in Edit!Field : Says(form, f) \in Edit!Domain(f)
    <3>1. Edit!Said(form) \in FieldsRow /\ \A f \in Edit!Field : Edit!Said(form)[f] = Says(form, f)
      BY <1>4, SaidIs
    <3>2. \A f \in Edit!Field : Edit!Said(form)[f] \in Edit!Domain(f)
      BY <3>1, Kinds DEF FieldsRow
    <3>3. QED BY <3>1, <3>2
  <2>2. r = [f \in DOMAIN r |-> r[f]]
    BY <1>4, RequestShown
  <2>3. QED BY <2>1, <2>2, <1>2 DEF IsRequest
<1>6. \A f \in DOMAIN r \ {"capacity"} :
        (f = "needs" => r.needs \ loaded.event.needs # {}) => f \in p.labels
  BY <1>1 DEF Edit!Labels, Edit!WebLabels, Edit!MobileLabels
<1> DEFINE m == Edit!Merged(loaded.event, r)
<1>7. \A f \in Edit!Field : m[f] = Says(form, f)
  BY <1>2, <1>3, <1>5, MergedKept
<1>8. m.start = form.start /\ m.end = form.end /\ m.capacity = form.capacity
  BY <1>7, Kinds DEF Says
<1>9. Edit!WebValid
  BY NoneAssumption DEF Edit!SaveProblem, Edit!MobileValid
<1>10. Fits(m, loaded.taken, now)
  BY <1>8, <1>9 DEF Fits, Edit!WebValid
<1>11. now \in Nat
  BY <1>4, FormsAssumption DEF Edit!Time
<1> HIDE DEF m, r
<1>12. IsPreview(p)
  BY <1>1, <1>3, <1>5, <1>6, <1>10, <1>11 DEF IsPreview, m
<1>13. IsTyped(p, typed)
  <2>1. \A x \in Edit!Field \ typed : Says(form, x) = Rests(loaded.event, x)
    BY <1>3, ShownRests DEF EditInv, TypedIn
  <2>2. \A x \in DOMAIN r \ typed :
          r[x] = Rests(loaded.event, x) /\ Rests(loaded.event, x) # loaded.event[x]
    BY <2>1, <1>2
  <2>3. QED BY <2>2, <1>1 DEF IsTyped
<1>14. ShowsRequest(p.request, form, loaded)
  BY <1>1, <1>2 DEF ShowsRequest
<1>15. QED BY <1>12, <1>13, <1>14 DEF Previewed

(* The save that is started carries its preview.                           *)
LEMMA StartedCarries ==
  ASSUME NEW p
  PROVE  LET s == Edit!Started(p) IN
         /\ s = [preview |-> s.preview, upload |-> s.upload, updated |-> s.updated, step |-> s.step]
         /\ s.preview = p /\ s.step \in {"update", "image"}
  BY DEF Edit!Started

(* A preview or a save takes the place of the last one.                    *)
LEMMA EditAsked ==
  ASSUME EditInv, UNCHANGED <<client, focus, now, event, taken, loaded, form, image, loading, left, typed,
                              applied>>,
         editable' \in BOOLEAN, editable' => loaded # None /\ loaded.event.status = "ACTIVE",
         notice' \in Notices, notice' = "refused" => save' = None \/ notice' = notice,
         modal' # None => modal' = modal \/ Previewed(modal', form, loaded, typed),
         \/ save' = save
         \/ \E p : save' = Edit!Started(p) /\ Previewed(p, form, loaded, typed) /\ notice' = None
  PROVE  EditInv'
<1>1. save' # None =>
        /\ save' = [preview |-> save'.preview, upload |-> save'.upload, updated |-> save'.updated,
                    step |-> save'.step]
        /\ save'.step \in {"update", "image", "reload"}
        /\ Previewed(save'.preview, form, loaded, typed)
        /\ save'.step = "update" => notice' # "refused"
  <2>1. CASE save' = save
    BY <2>1 DEF EditInv, EditTyped
  <2>2. ASSUME NEW p, save' = Edit!Started(p), Previewed(p, form, loaded, typed), notice' = None
        PROVE  /\ save' = [preview |-> save'.preview, upload |-> save'.upload, updated |-> save'.updated,
                           step |-> save'.step]
               /\ save'.preview = p /\ save'.step \in {"update", "image"} /\ notice' # "refused"
    BY <2>2, StartedCarries, NoneIsNotRefused
  <2>3. QED BY <2>1, <2>2
<1>2. EditTyped'
  BY <1>1 DEF EditInv, EditTyped
<1>3. modal' # None => Previewed(modal', form', loaded', typed')
  BY DEF EditInv
<1>4. QED BY <1>1, <1>2, <1>3 DEF EditInv, TypedIn

(* Pressing Save previews what differs from what was loaded.               *)
LEMMA EditPressed ==
  ASSUME EditInv, Edit!PressSave
  PROVE  EditInv'
<1>1. UNCHANGED <<client, focus, now, event, taken, loaded, form, image, loading, left, typed, applied>>
  BY DEF Edit!PressSave, Edit!setting, Edit!server, Edit!history
<1>2. editable /\ save = None
  BY OffersNeed DEF Edit!PressSave, Edit!Enabled
<1>3. editable' \in BOOLEAN /\ (editable' => loaded # None /\ loaded.event.status = "ACTIVE")
  BY <1>1, RedrawnRight DEF Edit!PressSave
<1>4. CASE Edit!SaveProblem # None
  <2>1. notice' \in {"uneditable", "invalid", "unchanged"} /\ UNCHANGED <<modal, save>>
    BY <1>4 DEF Edit!PressSave, Edit!SaveProblem
  <2>2. notice' \in Notices /\ notice' # "refused"
    BY <2>1 DEF Notices
  <2>3. QED BY <1>1, <1>3, <2>1, <2>2, EditAsked
<1>5. CASE Edit!SaveProblem = None
  <2>1. Previewed(Edit!Preview, form, loaded, typed)
    BY <1>2, <1>5, PreviewMade
  <2>2. /\ notice' = None
        /\ \/ modal' = Edit!Preview /\ save' = save
           \/ modal' = modal /\ save' = Edit!Started(Edit!Preview)
    BY <1>5 DEF Edit!PressSave, Edit!WebPressSave, Edit!MobilePressSave
  <2>3. notice' \in Notices /\ notice' # "refused"
    BY <2>2, NoneIsNotRefused DEF Notices
  <2>4. QED BY <1>1, <1>3, <2>1, <2>2, <2>3, EditAsked
<1>6. QED BY <1>4, <1>5

(* Confirming or closing the preview takes it over or drops it.            *)
LEMMA EditConfirmed ==
  ASSUME EditInv, Edit!Confirm \/ Edit!Cancel
  PROVE  EditInv'
<1>1. UNCHANGED <<client, focus, now, event, taken, loaded, form, image, loading, left, typed, applied>>
  BY DEF Edit!Confirm, Edit!Cancel, Edit!setting, Edit!server, Edit!history
<1>2. Previewed(modal, form, loaded, typed)
  BY OffersNeed DEF Edit!Confirm, Edit!Cancel, EditInv
<1>3. editable' \in BOOLEAN /\ (editable' => loaded # None /\ loaded.event.status = "ACTIVE")
  BY <1>1, RedrawnRight DEF Edit!Confirm, Edit!Cancel, EditInv, EditTyped
<1>4. \/ save' = Edit!Started(modal) /\ notice' = None /\ modal' \in {modal, None}
      \/ save' = save /\ notice' = notice /\ modal' = None
  BY DEF Edit!Confirm, Edit!Cancel, Edit!WebConfirm, Edit!MobileConfirm
<1>5. notice' \in Notices /\ (notice' = "refused" => notice' = notice)
  BY <1>4, NoneIsNotRefused DEF Notices, EditInv, EditTyped
<1>6. QED BY <1>1, <1>2, <1>3, <1>4, <1>5, EditAsked

(* The server applies the confirmed request or refuses it.                 *)
LEMMA EditUpdated ==
  ASSUME EditInv, Edit!Update
  PROVE  EditInv'
<1>1. UNCHANGED <<client, focus, now, taken, loaded, editable, form, image, loading, modal, left, typed>>
  BY DEF Edit!Update, Edit!setting
<1>2. /\ Previewed(save.preview, form, loaded, typed) /\ IsRequest(save.preview.request)
      /\ event \in EventRow /\ EditTyped /\ save # None
  BY DEF EditInv, EditTyped, Edit!Update, Previewed, IsPreview
<1>3. /\ save' = None \/ (/\ save' = [save EXCEPT !.updated = TRUE, !.step = "image"]
                             \/ save' = [save EXCEPT !.updated = TRUE, !.step = "reload"])
      /\ notice' \in {notice, "refused", "failed"}
  BY DEF Edit!Update, Edit!UpdateRefused, Edit!UpdateTaken, Edit!UpdateLost, Edit!Fails
<1>4. save' # None =>
        /\ save' = [preview |-> save'.preview, upload |-> save'.upload, updated |-> save'.updated,
                    step |-> save'.step]
        /\ save'.step \in {"image", "reload"} /\ save'.preview = save.preview
  <2>1. save = [preview |-> save.preview, upload |-> save.upload, updated |-> save.updated,
                step |-> save.step]
    BY <1>2 DEF EditTyped
  <2>2. QED BY <2>1, <1>3
<1>5. /\ event' \in EventRow
      /\ applied' # None =>
           DOMAIN applied' \subseteq Edit!Field /\ \A f \in DOMAIN applied' : event'[f] = applied'[f]
  <2>1. CASE UNCHANGED <<event, applied>>
    BY <2>1 DEF EditInv, EditTyped
  <2>2. CASE event' = Edit!Updated(save.preview.request) /\ applied' = save.preview.request
    BY <2>2, <1>2, UpdatedKept DEF IsRequest
  <2>3. QED BY <2>1, <2>2 DEF Edit!Update, Edit!UpdateRefused, Edit!UpdateTaken, Edit!UpdateLost
<1>6. notice' \in Notices
  BY <1>2, <1>3 DEF EditTyped, Notices
<1>7. EditTyped'
  BY <1>1, <1>2, <1>4, <1>5, <1>6 DEF EditTyped
<1>8. QED BY <1>1, <1>2, <1>4, <1>5, <1>7 DEF EditInv, TypedIn

(* The image is uploaded after the update and changes no field.            *)
LEMMA EditUploaded ==
  ASSUME EditInv, Edit!UploadImage
  PROVE  EditInv'
<1>1. UNCHANGED <<client, focus, now, event, taken, loaded, editable, form, loading, modal, left, typed,
                  applied>>
  BY DEF Edit!UploadImage, Edit!setting, Edit!server, Edit!history
<1>2. /\ save' = None \/ save' = [save EXCEPT !.step = "reload"]
      /\ notice' \in {notice, "image"} /\ image' \in BOOLEAN
  BY DEF Edit!UploadImage, Edit!ImageFailed, EditInv, EditTyped
<1>3. Previewed(save.preview, form, loaded, typed) /\ save # None /\ EditTyped
  BY DEF EditInv, Edit!UploadImage
<1>4. save' # None =>
        /\ save' = [preview |-> save'.preview, upload |-> save'.upload, updated |-> save'.updated,
                    step |-> save'.step]
        /\ save'.step = "reload" /\ save'.preview = save.preview
  <2>1. save = [preview |-> save.preview, upload |-> save.upload, updated |-> save.updated,
                step |-> save.step]
    BY <1>3 DEF EditTyped
  <2>2. QED BY <2>1, <1>2
<1>5. notice' \in Notices
  BY <1>2, <1>3 DEF EditTyped, Notices
<1>6. EditTyped'
  BY <1>1, <1>2, <1>3, <1>4, <1>5 DEF EditTyped
<1>7. QED BY <1>1, <1>3, <1>4, <1>6 DEF EditInv, TypedIn

(* The reload after a save.                                                *)
LEMMA EditReloaded ==
  ASSUME EditInv, Edit!Reloaded
  PROVE  EditInv'
<1>1. UNCHANGED <<client, focus, now, event, taken, image, loading, typed, applied>> /\ save' = None
  BY DEF Edit!Reloaded, Edit!setting, Edit!server, Edit!history, Edit!Fails
<1>2. EditTyped /\ event \in EventRow /\ taken \in 0 .. 3
  BY DEF EditInv, EditTyped
<1>3. \/ /\ loaded' = [event |-> event, taken |-> taken] /\ form' = Edit!FormOf(event)
         /\ editable' = Edit!CanEdit(loaded') /\ notice' = "saved"
         /\ modal' \in {modal, None} /\ left' \in BOOLEAN
      \/ UNCHANGED <<loaded, form, editable, modal, left>> /\ notice' = "failed"
  BY <1>2 DEF Edit!Reloaded, Edit!WebSaved, Edit!MobileSaved, Edit!Fails, EditTyped
<1>4. CASE UNCHANGED <<loaded, form, editable, modal, left>> /\ notice' = "failed"
  <2>1. EditTyped'
    BY <1>1, <1>2, <1>4 DEF EditTyped, Notices
  <2>2. QED BY <1>1, <1>4, <2>1 DEF EditInv, TypedIn
<1>5. CASE /\ loaded' = [event |-> event, taken |-> taken] /\ form' = Edit!FormOf(event)
           /\ editable' = Edit!CanEdit(loaded') /\ notice' = "saved"
           /\ modal' \in {modal, None} /\ left' \in BOOLEAN
  <2>1. /\ loaded' \in [event : EventRow, taken : 0 .. 3]
        /\ form' \in FieldsRow /\ \A f \in Edit!Field : form'[f] = Shows(loaded'.event, f)
    BY <1>2, <1>5, FormOfEvent
  <2>2. editable' \in BOOLEAN /\ (editable' => loaded' # None /\ loaded'.event.status = "ACTIVE")
    BY <1>5 DEF Edit!CanEdit
  <2>3. EditTyped'
    BY <1>1, <1>2, <1>5, <2>1, <2>2 DEF EditTyped, Notices
  <2>4. TypedIn(form', loaded', typed')
    BY <2>1 DEF TypedIn
  <2>5. modal' # None => Previewed(modal', form', loaded', typed')
    <3>1. ASSUME NEW p, Previewed(p, form, loaded, typed)
          PROVE  Previewed(p, form', loaded', typed')
      <4>1. \A x \in DOMAIN p.request : Says(form', x) = Rests(loaded'.event, x)
        BY <2>1, <3>1, ShownRests DEF Previewed, IsPreview, IsRequest
      <4>2. QED BY <4>1, <1>1, <3>1 DEF Previewed, ShowsRequest, IsTyped
    <3>2. QED BY <1>5, <3>1 DEF EditInv
  <2>6. QED BY <1>1, <2>2, <2>3, <2>4, <2>5 DEF EditInv
<1>6. QED BY <1>3, <1>4, <1>5

(* Every step of the form keeps the invariant.                             *)
LEMMA EditSteps ==
  ASSUME EditInv, [Edit!Next]_(Edit!vars)
  PROVE  EditInv'
<1>1. CASE UNCHANGED Edit!vars
  <2>1. UNCHANGED <<client, focus, now, event, taken, loaded, editable, form, image, loading, modal, save,
                    notice, left, typed, applied>>
    BY <1>1 DEF Edit!vars, Edit!setting, Edit!server, Edit!screen, Edit!counters, Edit!history
  <2>2. EditTyped'
    BY <2>1 DEF EditInv, EditTyped
  <2>3. QED BY <2>1, <2>2, EditUntouched DEF EditInv
<1>2. CASE Edit!Next
  BY <1>2, EditLoaded, EditRenewed, EditOthers, EditFilled, EditImageChosen, EditPressed, EditConfirmed,
     EditUpdated, EditUploaded, EditReloaded DEF Edit!Next
<1>3. QED BY <1>1, <1>2

(* The step in which the server takes up a save is one of Update.          *)
LEMMA SavesAreUpdates ==
  ASSUME Edit!Next, Edit!Saves
  PROVE  Edit!Update
<1>1. save # None /\ save.step = "update" /\ save' # save
  BY DEF Edit!Saves
<1>2. ~Edit!UploadImage /\ ~Edit!Reloaded
  BY <1>1 DEF Edit!UploadImage, Edit!Reloaded
<1>3. ~Edit!Loaded /\ ~Edit!SessionRenewed /\ ~Edit!Retry /\ ~Edit!Leave /\ ~Edit!Fill /\ ~Edit!ChooseImage
      /\ ~Edit!Cancel
  BY <1>1 DEF Edit!Loaded, Edit!SessionRenewed, Edit!Retry, Edit!Leave, Edit!Fill, Edit!ChooseImage,
              Edit!Cancel
<1>4. ~Edit!PressSave /\ ~Edit!Confirm
  BY <1>1, OffersNeed DEF Edit!PressSave, Edit!Confirm, Edit!Enabled
<1>5. ~Edit!Tick /\ ~Edit!EditElsewhere /\ ~Edit!OthersJoin /\ ~Edit!CanceledElsewhere
  BY <1>1 DEF Edit!Tick, Edit!EditElsewhere, Edit!OthersJoin, Edit!CanceledElsewhere, Edit!screen
<1>6. QED BY <1>2, <1>3, <1>4, <1>5 DEF Edit!Next

(* What an update leaves of the event.                                     *)
LEMMA UpdateWrites ==
  ASSUME EditInv, Edit!Update
  PROVE  /\ event' = event \/ event' = Edit!Updated(save.preview.request)
         /\ \A f \in Edit!Field \ DOMAIN save.preview.request : event'[f] = event[f]
         /\ (\A f \in DOMAIN save.preview.request : save.preview.request[f] = event[f]) => event' = event
         /\ Previewed(save.preview, form, loaded, typed)
<1>1. event' = event \/ event' = Edit!Updated(save.preview.request)
  BY DEF Edit!Update, Edit!UpdateRefused, Edit!UpdateTaken, Edit!UpdateLost
<1>2. Previewed(save.preview, form, loaded, typed)
  BY DEF EditInv, Edit!Update
<1>3. event \in EventRow /\ IsRequest(save.preview.request)
  BY <1>2 DEF EditInv, EditTyped, Previewed, IsPreview
<1>4. QED BY <1>1, <1>2, <1>3, UpdatedKept

\* What becomes of a field of the event that was not typed in.
Kept(e, x) == event'[x] = event[x] \/ (Edit!Untouched(e)[x] # e[x] /\ event'[x] = Edit!Untouched(e)[x])

(* A save leaves the fields alone that were not typed in and are shown as  *)
(* they are.                                                               *)
LEMMA UntypedStays ==
  ASSUME EditInv, Edit!Next, Edit!Saves
  PROVE  \A f \in Edit!Field \ typed : Kept(save.preview.base.event, f)
<1>1. Edit!Update
  BY SavesAreUpdates
<1>2. PICK p : p = save.preview
  OBVIOUS
<1>3. IsPreview(p) /\ IsTyped(p, typed)
  BY <1>1, <1>2, UpdateWrites DEF Previewed
<1>4. PICK e \in EventRow : e = p.base.event
  BY <1>3 DEF IsPreview
<1>5. SUFFICES ASSUME NEW f \in Edit!Field \ typed
               PROVE  Kept(e, f)
  BY <1>2, <1>4
<1>6. CASE f \notin DOMAIN p.request \/ event' = event
  BY <1>1, <1>2, <1>6, UpdateWrites DEF Kept
<1>7. CASE f \in DOMAIN p.request /\ event' # event
  <2>1. event \in EventRow /\ IsRequest(p.request) /\ event' = Edit!Updated(p.request)
    BY <1>1, <1>2, <1>3, <1>7, UpdateWrites DEF EditInv, EditTyped, IsPreview
  <2>2. event'[f] = p.request[f]
    BY <1>7, <2>1, UpdatedKept
  <2>3. p.request[f] = Rests(e, f) /\ Rests(e, f) # e[f]
    BY <1>3, <1>4, <1>7 DEF IsTyped
  <2>4. Rests(e, f) = Edit!Untouched(e)[f]
    BY UntouchedIs
  <2>5. QED BY <2>2, <2>3, <2>4 DEF Kept
<1>8. QED BY <1>6, <1>7

(* Whatever a save makes the participants confirm was named.               *)
LEMMA ReconfirmationNamed ==
  ASSUME EditInv, Edit!Next, Edit!Saves
  PROVE  Edit!Reconfirms(event, save.preview.request) \subseteq
           save.preview.labels
           \cup (IF save.preview.base.event.needs = event.needs THEN {} ELSE {"needs"})
<1>1. PICK p : p = save.preview
  OBVIOUS
<1>2. IsPreview(p)
  BY <1>1, SavesAreUpdates, UpdateWrites DEF Previewed
<1>3. \A f \in DOMAIN p.request \ {"capacity"} :
        (f = "needs" => p.request.needs \ p.base.event.needs # {}) => f \in p.labels
  BY <1>2 DEF IsPreview
<1>4. ASSUME NEW f \in Edit!Reconfirms(event, p.request)
      PROVE  f \in p.labels \cup (IF p.base.event.needs = event.needs THEN {} ELSE {"needs"})
  <2>1. f \in DOMAIN p.request \ {"capacity"} /\ (f = "needs" => p.request.needs \ event.needs # {})
    BY DEF Edit!Reconfirms, Edit!ChangedFields
  <2>2. QED BY <2>1, <1>3
<1>5. QED BY <1>1, <1>4

(* What is refused was overtaken.                                          *)
LEMMA RefusalHasACause ==
  ASSUME EditInv, Edit!Next, Edit!Saves, notice' = "refused"
  PROVE  \/ save.preview.base.event # event
         \/ save.preview.base.taken < taken
         \/ save.preview.at < now \/ save.preview.base.event.start <= now
<1>1. PICK p : p = save.preview
  OBVIOUS
<1>2. Edit!Update
  BY SavesAreUpdates
<1>3. IsPreview(p)
  BY <1>1, <1>2, UpdateWrites DEF Previewed
<1>4. Edit!Refuses(p.request)
  BY <1>1, <1>2 DEF Edit!Update, Edit!UpdateRefused, Edit!UpdateTaken, Edit!UpdateLost, Edit!Fails,
     EditInv
<1>5. SUFFICES ASSUME p.base.event = event, ~(p.base.taken < taken), ~(p.at < now),
                      ~(p.base.event.start <= now)
               PROVE  FALSE
  BY <1>1
<1>6. PICK m : m = Edit!Merged(event, p.request)
  OBVIOUS
<1>7. /\ event \in EventRow /\ IsRequest(p.request) /\ event.status = "ACTIVE"
      /\ Fits(m, p.base.taken, p.at) /\ p.at \in Nat /\ p.base.taken \in 0 .. 3
      /\ now \in Edit!Time /\ taken \in 0 .. 3
  BY <1>3, <1>5, <1>6 DEF IsPreview, EditInv, EditTyped
<1>8. m \in EventRow /\ \A f \in Edit!Field : m[f] = IF f \in DOMAIN p.request THEN p.request[f] ELSE event[f]
  BY <1>6, <1>7, MergedKept
<1>9. now \in Nat /\ m.start \in Nat /\ m.end \in Nat /\ m.capacity \in Nat /\ event.start \in Nat
  <2>1. now \in Nat
    BY <1>7, FormsAssumption DEF Edit!Time
  <2>2. \A e \in EventRow : e.start \in Times /\ e.end \in Times /\ e.capacity \in 0 .. 3
    BY DEF EventRow
  <2>3. Times \subseteq Nat /\ 0 .. 3 \subseteq Nat
    BY Kinds
  <2>4. \A e \in EventRow : e.start \in Nat /\ e.end \in Nat /\ e.capacity \in Nat
    BY <2>2, <2>3
  <2>5. m \in EventRow /\ event \in EventRow
    BY <1>7, <1>8
  <2>6. QED BY <2>1, <2>4, <2>5
<1>10. "start" \in DOMAIN p.request => p.request.start = m.start
  BY <1>8, Kinds
<1>11. \/ now >= event.start
       \/ "start" \in DOMAIN p.request /\ p.request.start <= now
       \/ m.end # 0 /\ m.end <= m.start
       \/ m.capacity # 0 /\ m.capacity < taken
  BY <1>4, <1>6, <1>7 DEF Edit!Refuses
<1>12. m.start > now /\ (m.end # 0 => m.end > m.start) /\ (m.capacity # 0 => m.capacity >= taken)
  BY <1>5, <1>7, <1>9 DEF Fits
<1>13. ~(now >= event.start)
  BY <1>5, <1>9
<1>14. QED BY <1>9, <1>10, <1>11, <1>12, <1>13, <1>7

(* Saving again what was saved does nothing.                               *)
LEMMA SavedAgain ==
  ASSUME EditInv, Edit!Next, Edit!Saves, save.preview.request = applied
  PROVE  event' = event
<1>1. PICK r : r = save.preview.request
  OBVIOUS
<1>2. Edit!Update
  BY SavesAreUpdates
<1>3. IsRequest(r)
  BY <1>1, <1>2, UpdateWrites DEF Previewed, IsPreview
<1>4. r # None
  <2>1. \A f \in DOMAIN r : r[f] \in {"old", "new", "bad", "unnamed", "derived"} \cup Int \cup SUBSET Need
    BY <1>3, Kinds DEF IsRequest, Edit!Text
  <2>2. r \in [DOMAIN r -> {"old", "new", "bad", "unnamed", "derived"} \cup Int \cup SUBSET Need]
    BY <2>1, <1>3 DEF IsRequest
  <2>3. DOMAIN r \in SUBSET {"text", "start", "end", "capacity", "needs"}
    BY <1>3, Kinds DEF IsRequest
  <2>4. QED BY <2>2, <2>3, NoneAssumption
<1>5. \A f \in DOMAIN r : r[f] = event[f]
  BY <1>1, <1>4 DEF EditInv
<1>6. QED BY <1>1, <1>2, <1>5, UpdateWrites

-----------------------------------------------------------------------------
(* The forms without a session: registration, the forgotten password and   *)
(* sign-in.  Of n codes and tokens issued so far, own says for which       *)
(* address and purpose, and for which row.                                 *)

Steps == {"details", "email", "code", "password", "done"}
Stages ==
  {"availability", "request", "store", "mail", "look", "count", "register", "reset", "redeem",
   "change", "signin"}
Keys == Email \X {"register", "reset", "grant"}
Slots == Device \X BOOLEAN

FormsOf(n) ==
  [step : Steps, email : Email \cup {None}, name : Name \cup {None},
   password : Password \cup {None}, code : {None, 0} \cup (1 .. n), token : {None} \cup (1 .. n)]
RowsOf(n) ==
  [id : 1 .. n, code : 1 .. n, created : 0 .. MaxMinute, expires : 0 .. (MaxMinute + Lifetime),
   attempts : Nat]
CallsOf(n) ==
  [form : FormsOf(n), stage : Stages, at : 0 .. MaxMinute, row : RowsOf(n) \cup {None},
   code : (1 .. n) \cup {None}, late : BOOLEAN]
AccountsOf(n) ==
  [email : Email, name : Name, password : Password, proof : (1 .. n) \cup {None},
   by : Device \cup {None}]
MailsOf(n) == [email : Email, purpose : {"register", "reset", "grant"}, code : 1 .. n]
GrantsOf(n) == [token : 1 .. n, email : Email, code : 1 .. n]
Owners == [Nat -> [key : Keys, id : Nat]]

\* The stages of a call, by the flow and the step it was submitted at.
StageFits(flow, step, stage) ==
  \/ stage = "availability" /\ flow = "register" /\ step = "details"
  \/ stage \in {"request", "store", "mail"} /\ flow = "register" /\ step = "details"
  \/ stage \in {"request", "store", "mail"} /\ flow = "reset" /\ step = "email"
  \/ stage \in {"look", "count"} /\ flow \in {"register", "reset"} /\ step = "code"
  \/ stage = flow /\ flow \in {"register", "reset"} /\ step = "code"
  \/ stage \in {"redeem", "change"} /\ flow = "reset" /\ step = "password"
  \/ stage = "signin" /\ flow = "signin" /\ step = "details"

\* The steps of a form, and what it holds at each.
StepFits(f, flow) ==
  /\ flow = "register" => f.step \in {"details", "code", "done"}
  /\ flow = "reset" => f.step \in {"email", "code", "password", "done"}
  /\ flow = "signin" => f.step \in {"details", "done"}
  /\ flow = "register" /\ f.step \in {"code", "done"} =>
       f.email \in Email /\ f.name \in Name /\ f.password \in Password
  /\ flow = "reset" /\ f.step \in {"code", "password", "done"} => f.email \in Email

\* A code was received by mail or is wrong; a token was given for the address.
FormOK(f, flow, n, ml, gr) ==
  /\ f \in FormsOf(n) /\ StepFits(f, flow)
  /\ f.code \notin {None, 0} => \E m \in ml : m.code = f.code
  /\ f.token # None =>
       /\ flow = "reset" /\ f.step \in {"password", "done"}
       /\ \E g \in gr : g.token = f.token /\ g.email = f.email

\* What a call was let through with: the row it has read, and its fields.
CallOK(c, flow, n, ml, gr, sp, own) ==
  /\ c \in CallsOf(n) /\ FormOK(c.form, flow, n, ml, gr)
  /\ StageFits(flow, c.form.step, c.stage)
  /\ c.stage \in {"availability", "request", "store", "mail"} =>
       c.form.email \in Email /\ (flow = "register" => c.form.name \in Name /\ c.form.password \in Password)
  /\ c.stage \in {"redeem", "change"} => c.form.password \in Password
  /\ c.stage = "mail" => c.code \in 1 .. n /\ own[c.code].key = <<c.form.email, flow>>
  /\ c.stage = "count" => c.row \in RowsOf(n)
  /\ c.stage \in {"register", "reset"} =>
       /\ c.row \in RowsOf(n) /\ c.row.code = c.form.code /\ ~c.late
       /\ own[c.row.code] = [key |-> <<c.form.email, flow>>, id |-> c.row.id]
  /\ c.stage = "change" =>
       /\ c.row \in RowsOf(n) /\ c.row.code = c.form.token /\ ~c.late
       /\ own[c.row.code] = [key |-> <<c.form.email, "grant">>, id |-> c.row.id]
  /\ c.late => Account!Key(c.form) \in sp

\* A row has its own code, which has not done its work.
RowOK(row, k, n, sp, own) ==
  row \in RowsOf(n) /\ own[row.code] = [key |-> k, id |-> row.id] /\ row.code \notin sp

\* An account was made, and its password set, with a code mailed to it.
Proved(a, ml, gr) ==
  \/ a.proof = None
  \/ [email |-> a.email, purpose |-> "register", code |-> a.proof] \in ml
  \/ \E g \in gr :
       /\ g.token = a.proof /\ g.email = a.email
       /\ [email |-> a.email, purpose |-> "reset", code |-> g.code] \in ml

\* What the user received and was given.
PapersOK(n, ml, gr, own) ==
  /\ ml \subseteq MailsOf(n) /\ gr \subseteq GrantsOf(n)
  /\ \A m \in ml : own[m.code].key = <<m.email, m.purpose>>
  /\ \A g \in gr : [email |-> g.email, purpose |-> "reset", code |-> g.code] \in ml

AccountsOK(as, n, ml, gr) ==
  /\ as \subseteq AccountsOf(n)
  /\ \A a, b \in as : a.email = b.email \/ a.name = b.name => a = b
  /\ \A a \in as : Proved(a, ml, gr)

Made(as, f, d) == \E a \in as : a.email = f.email /\ a.name = f.name /\ a.by = d

SceneOK ==
  /\ role \in [Device -> [client : {"web", "mobile"}, flow : {"register", "reset", "signin"}]]
  /\ scene.addresses \subseteq Email
  /\ scene.issues \in Int /\ scene.issues <= MaxIssued
  /\ scene.until \in Int /\ scene.until <= MaxMinute
  /\ minute \in 0 .. MaxMinute /\ issued \in 0 .. MaxIssued

RowsOK(own) ==
  /\ DOMAIN rows = Keys /\ rows = [k \in Keys |-> rows[k]]
  /\ \A k \in Keys : rows[k] # None => RowOK(rows[k], k, issued, spent, own)

FormsOK ==
  /\ forms = [d \in Device |-> forms[d]] /\ DOMAIN forms = Device
  /\ \A d \in Device :
       /\ FormOK(forms[d], role[d].flow, issued, mail, grants)
       /\ role[d].flow = "register" /\ forms[d].step = "done" => Made(accounts, forms[d], d)

CallsOK(own) ==
  /\ DOMAIN running = Slots /\ running = [s \in Slots |-> running[s]]
  /\ \A s \in Slots : running[s] # None =>
       /\ CallOK(running[s], role[s[1]].flow, issued, mail, grants, spent, own)
       /\ s[2] => running[s].form = forms[s[1]]

AccountOK(own) ==
  /\ own \in Owners /\ spent \subseteq 1 .. issued
  /\ AccountsOK(accounts, issued, mail, grants)
  /\ PapersOK(issued, mail, grants, own)
  /\ RowsOK(own) /\ FormsOK /\ CallsOK(own)

AccountInv == SceneOK /\ \E own \in Owners : AccountOK(own)

(* What is issued, received and given grows, and keeps its owners.         *)
Grown(n, n2, ml, ml2, gr, gr2, sp, sp2, own, own2) ==
  /\ n \in Nat /\ n2 \in Nat /\ n <= n2 /\ ml \subseteq ml2 /\ gr \subseteq gr2 /\ sp \subseteq sp2
  /\ \A c \in 1 .. n : own2[c] = own[c]

(* None is no number.                                                      *)
LEMMA NoneIsNoNumber == \A k \in Nat : None # k
  BY NoneAssumption

(* The slot of a form that waits.                                          *)
LEMMA SlotParts ==
  /\ \A s \in Slots : s[1] \in Device /\ (s[2] => s = <<s[1], TRUE>>)
  /\ \A d \in Device : /\ <<d, TRUE>> \in Slots /\ <<d, TRUE>>[1] = d /\ <<d, TRUE>>[2] = TRUE
                        /\ <<d, FALSE>> \in Slots /\ <<d, FALSE>>[1] = d /\ <<d, FALSE>>[2] = FALSE
<1>1. ASSUME NEW s \in Slots
      PROVE  s[1] \in Device /\ (s[2] => s = <<s[1], TRUE>>)
  <2>1. PICK d \in Device, b \in BOOLEAN : s = <<d, b>>
    BY DEF Slots
  <2>2. CASE b = TRUE
    BY <2>1, <2>2
  <2>3. CASE b = FALSE
    BY <2>1, <2>3
  <2>4. QED BY <2>2, <2>3
<1>2. QED BY <1>1 DEF Slots

(* More codes are allowed where fewer were.                                *)
LEMMA MoreIssued ==
  ASSUME NEW n \in Nat, NEW n2 \in Nat, n <= n2
  PROVE  /\ 1 .. n \subseteq 1 .. n2 /\ FormsOf(n) \subseteq FormsOf(n2)
         /\ RowsOf(n) \subseteq RowsOf(n2) /\ CallsOf(n) \subseteq CallsOf(n2)
         /\ AccountsOf(n) \subseteq AccountsOf(n2) /\ MailsOf(n) \subseteq MailsOf(n2)
         /\ GrantsOf(n) \subseteq GrantsOf(n2)
<1>1. 1 .. n \subseteq 1 .. n2
  OBVIOUS
<1>2. FormsOf(n) \subseteq FormsOf(n2)
  BY <1>1 DEF FormsOf
<1>3. RowsOf(n) \subseteq RowsOf(n2)
  BY <1>1 DEF RowsOf
<1>4. CallsOf(n) \subseteq CallsOf(n2)
  BY <1>1, <1>2, <1>3 DEF CallsOf
<1>5. QED BY <1>1, <1>2, <1>3, <1>4 DEF AccountsOf, MailsOf, GrantsOf

(* A form stays right when codes, mails and grants are added.              *)
LEMMA FormGrown ==
  ASSUME NEW f, NEW flow, NEW n, NEW n2, NEW ml, NEW ml2, NEW gr, NEW gr2, NEW sp, NEW sp2,
         NEW own, NEW own2, Grown(n, n2, ml, ml2, gr, gr2, sp, sp2, own, own2),
         FormOK(f, flow, n, ml, gr)
  PROVE  FormOK(f, flow, n2, ml2, gr2)
<1>1. f \in FormsOf(n2)
  BY MoreIssued DEF Grown, FormOK
<1>2. QED BY <1>1 DEF Grown, FormOK

(* A call stays right when codes, mails and grants are added.              *)
LEMMA CallGrown ==
  ASSUME NEW c, NEW flow, NEW n, NEW n2, NEW ml, NEW ml2, NEW gr, NEW gr2, NEW sp, NEW sp2,
         NEW own, NEW own2, Grown(n, n2, ml, ml2, gr, gr2, sp, sp2, own, own2),
         CallOK(c, flow, n, ml, gr, sp, own)
  PROVE  CallOK(c, flow, n2, ml2, gr2, sp2, own2)
<1>1. n \in Nat /\ n2 \in Nat /\ n <= n2
  BY DEF Grown
<1>2. c \in CallsOf(n2) /\ FormOK(c.form, flow, n2, ml2, gr2)
  BY <1>1, MoreIssued, FormGrown DEF CallOK
<1>3. c.stage = "mail" => c.code \in 1 .. n2 /\ own2[c.code].key = <<c.form.email, flow>>
  BY <1>1, MoreIssued DEF CallOK, Grown
<1>4. c.row \in RowsOf(n) => c.row \in RowsOf(n2) /\ own2[c.row.code] = own[c.row.code]
  BY <1>1, MoreIssued DEF Grown, RowsOf
<1>5. c.late => Account!Key(c.form) \in sp2
  BY DEF CallOK, Grown
<1>6. /\ StageFits(flow, c.form.step, c.stage)
      /\ c.stage \in {"availability", "request", "store", "mail"} =>
           c.form.email \in Email /\ (flow = "register" => c.form.name \in Name /\ c.form.password \in Password)
      /\ c.stage \in {"redeem", "change"} => c.form.password \in Password
  BY DEF CallOK
<1>7. /\ c.stage = "count" => c.row \in RowsOf(n2)
      /\ c.stage \in {"register", "reset"} =>
           /\ c.row \in RowsOf(n2) /\ c.row.code = c.form.code /\ ~c.late
           /\ own2[c.row.code] = [key |-> <<c.form.email, flow>>, id |-> c.row.id]
      /\ c.stage = "change" =>
           /\ c.row \in RowsOf(n2) /\ c.row.code = c.form.token /\ ~c.late
           /\ own2[c.row.code] = [key |-> <<c.form.email, "grant">>, id |-> c.row.id]
  BY <1>4 DEF CallOK
<1>8. QED BY <1>2, <1>3, <1>5, <1>6, <1>7 DEF CallOK

(* A stored code that is not spent stays right.                            *)
LEMMA RowGrown ==
  ASSUME NEW r, NEW k, NEW n, NEW n2, NEW ml, NEW ml2, NEW gr, NEW gr2, NEW sp, NEW sp2,
         NEW own, NEW own2, Grown(n, n2, ml, ml2, gr, gr2, sp, sp2, own, own2),
         RowOK(r, k, n, sp, own), r.code \notin sp2
  PROVE  RowOK(r, k, n2, sp2, own2)
<1>1. r \in RowsOf(n) /\ r \in RowsOf(n2)
  BY MoreIssued DEF Grown, RowOK
<1>2. own2[r.code] = own[r.code]
  BY <1>1 DEF Grown, RowsOf
<1>3. QED BY <1>1, <1>2 DEF RowOK

(* The accounts stay right when codes, mails and grants are added.         *)
LEMMA AccountsGrown ==
  ASSUME NEW as, NEW n, NEW n2, NEW ml, NEW ml2, NEW gr, NEW gr2, NEW sp, NEW sp2,
         NEW own, NEW own2, Grown(n, n2, ml, ml2, gr, gr2, sp, sp2, own, own2),
         AccountsOK(as, n, ml, gr)
  PROVE  AccountsOK(as, n2, ml2, gr2)
<1>1. as \subseteq AccountsOf(n2)
  BY MoreIssued DEF Grown, AccountsOK
<1>2. \A a \in as : Proved(a, ml2, gr2)
  BY DEF AccountsOK, Grown, Proved
<1>3. QED BY <1>1, <1>2 DEF AccountsOK

\* A form that changes waits for nothing; calls end, or are right.
FormsMove ==
  /\ DOMAIN forms' = Device /\ forms' = [d \in Device |-> forms'[d]]
  /\ \A d \in Device : forms'[d] # forms[d] =>
       /\ running'[<<d, TRUE>>] = None
       /\ FormOK(forms'[d], role[d].flow, issued', mail', grants')
       /\ role[d].flow = "register" /\ forms'[d].step = "done" => Made(accounts', forms'[d], d)

CallsMove(own) ==
  /\ DOMAIN running' = Slots /\ running' = [s \in Slots |-> running'[s]]
  /\ \A s \in Slots : running'[s] \notin {running[s], None} =>
       /\ CallOK(running'[s], role[s[1]].flow, issued', mail', grants', spent', own)
       /\ s[2] => running'[s].form = forms'[s[1]]

GrownTo(own, own2) ==
  Grown(issued, issued', mail, mail', grants, grants', spent, spent', own, own2)

\* Accounts are not lost, and keep their names and makers.
AccountsLast == \A a \in accounts : \E b \in accounts' : b.email = a.email /\ b.name = a.name /\ b.by = a.by

(* The forms after a step that moves forms along and lets the rest grow.   *)
LEMMA FormsMoved ==
  ASSUME NEW own, NEW own2, AccountOK(own), GrownTo(own, own2), FormsMove, AccountsLast, UNCHANGED role
  PROVE  FormsOK'
<1>1. ASSUME NEW d \in Device
      PROVE  /\ FormOK(forms'[d], role[d].flow, issued', mail', grants')
             /\ role[d].flow = "register" /\ forms'[d].step = "done" => Made(accounts', forms'[d], d)
  <2>1. CASE forms'[d] # forms[d]
    BY <2>1 DEF FormsMove
  <2>2. CASE forms'[d] = forms[d]
    <3>1. FormOK(forms[d], role[d].flow, issued, mail, grants)
      BY DEF AccountOK, FormsOK
    <3>2. FormOK(forms[d], role[d].flow, issued', mail', grants')
      BY <3>1, FormGrown DEF GrownTo
    <3>3. role[d].flow = "register" /\ forms[d].step = "done" => Made(accounts, forms[d], d)
      BY DEF AccountOK, FormsOK
    <3>4. Made(accounts, forms[d], d) => Made(accounts', forms[d], d)
      BY DEF Made, AccountsLast
    <3>5. QED BY <2>2, <3>2, <3>3, <3>4
  <2>3. QED BY <2>1, <2>2
<1>2. QED BY <1>1 DEF FormsMove, FormsOK

(* The calls after such a step.                                            *)
LEMMA CallsMoved ==
  ASSUME NEW own, NEW own2, AccountOK(own), GrownTo(own, own2), FormsMove, CallsMove(own2), UNCHANGED role
  PROVE  CallsOK(own2)'
<1>1. ASSUME NEW s \in Slots, running'[s] # None
      PROVE  /\ CallOK(running'[s], role[s[1]].flow, issued', mail', grants', spent', own2)
             /\ s[2] => running'[s].form = forms'[s[1]]
  <2>1. CASE running'[s] # running[s]
    BY <1>1, <2>1 DEF CallsMove
  <2>2. CASE running'[s] = running[s]
    <3>1. /\ CallOK(running[s], role[s[1]].flow, issued, mail, grants, spent, own)
          /\ s[2] => running[s].form = forms[s[1]]
      BY <1>1, <2>2 DEF AccountOK, CallsOK
    <3>2. CallOK(running[s], role[s[1]].flow, issued', mail', grants', spent', own2)
      BY <3>1, CallGrown DEF GrownTo
    <3>3. s[2] => s = <<s[1], TRUE>> /\ s[1] \in Device
      BY SlotParts
    <3>4. s[2] => forms'[s[1]] = forms[s[1]]
      BY <1>1, <3>3 DEF FormsMove
    <3>5. QED BY <2>2, <3>1, <3>2, <3>4
  <2>3. QED BY <2>1, <2>2
<1>2. QED BY <1>1 DEF CallsMove, CallsOK

(* An answer ends its call, and changes the form that waits for it.        *)
LEMMA Answered ==
  ASSUME NEW own, NEW own2, AccountOK(own), NEW s \in Slots, NEW f, Account!Answer(s, f),
         s[2] => /\ FormOK(f, role[s[1]].flow, issued', mail', grants')
                 /\ role[s[1]].flow = "register" /\ f.step = "done" => Made(accounts', f, s[1])
  PROVE  FormsMove /\ CallsMove(own2)
<1>1. /\ DOMAIN running = Slots /\ running = [x \in Slots |-> running[x]]
      /\ DOMAIN forms = Device /\ forms = [d \in Device |-> forms[d]]
  BY DEF AccountOK, CallsOK, FormsOK
<1>2. /\ running' = [running EXCEPT ![s] = None]
      /\ forms' = IF s[2] THEN [forms EXCEPT ![s[1]] = f] ELSE forms
  BY DEF Account!Answer
<1>3. s[1] \in Device /\ (s[2] => s = <<s[1], TRUE>>)
  BY SlotParts
<1>4. CallsMove(own2)
  BY <1>1, <1>2 DEF CallsMove
<1>5. CASE s[2]
  <2>1. forms' = [forms EXCEPT ![s[1]] = f] /\ running'[<<s[1], TRUE>>] = None
    BY <1>1, <1>2, <1>3, <1>5
  <2>2. QED BY <2>1, <1>1, <1>3, <1>4, <1>5 DEF FormsMove
<1>6. CASE ~s[2]
  BY <1>1, <1>2, <1>4, <1>6 DEF FormsMove
<1>7. QED BY <1>5, <1>6

(* A call that goes on keeps its form.                                     *)
LEMMA Proceeded ==
  ASSUME NEW own, NEW own2, AccountOK(own), NEW s \in Slots, NEW c, Account!Proceed(s, c),
         running[s] # None, c.form = running[s].form,
         CallOK(c, role[s[1]].flow, issued', mail', grants', spent', own2)
  PROVE  FormsMove /\ CallsMove(own2)
<1>1. /\ DOMAIN running = Slots /\ running = [x \in Slots |-> running[x]]
      /\ DOMAIN forms = Device /\ forms = [d \in Device |-> forms[d]]
  BY DEF AccountOK, CallsOK, FormsOK
<1>2. running' = [running EXCEPT ![s] = c] /\ forms' = forms
  BY DEF Account!Proceed
<1>3. s[2] => c.form = forms'[s[1]]
  BY <1>2 DEF AccountOK, CallsOK
<1>4. QED BY <1>1, <1>2, <1>3 DEF CallsMove, FormsMove

(* Nothing moves.                                                          *)
LEMMA NothingMoved ==
  ASSUME NEW own, AccountOK(own), UNCHANGED <<forms, running>>
  PROVE  FormsMove /\ CallsMove(own)
  BY DEF AccountOK, CallsOK, FormsOK, FormsMove, CallsMove

(* One form is filled in that waits for nothing.                           *)
LEMMA FormMoved ==
  ASSUME NEW own, AccountOK(own), NEW d \in Device, NEW f, UNCHANGED <<running, issued, mail, grants>>,
         forms' = [forms EXCEPT ![d] = f], running[<<d, TRUE>>] = None,
         FormOK(f, role[d].flow, issued, mail, grants), f.step # "done"
  PROVE  FormsMove /\ CallsMove(own)
  BY DEF AccountOK, CallsOK, FormsOK, FormsMove, CallsMove

(* What the server does not notice.                                        *)
LEMMA ServerQuiet ==
  ASSUME NEW own, AccountOK(own), UNCHANGED <<role, accounts, rows, issued, mail, spent, grants>>,
         issued \in Nat, FormsMove, CallsMove(own)
  PROVE  AccountOK(own)'
<1>1. GrownTo(own, own)
  BY DEF GrownTo, Grown
<1>2. AccountsLast
  BY DEF AccountsLast
<1>3. FormsOK' /\ CallsOK(own)'
  BY <1>1, <1>2, FormsMoved, CallsMoved
<1>4. RowsOK(own)'
  BY DEF AccountOK, RowsOK
<1>5. QED BY <1>3, <1>4 DEF AccountOK

(* The start: empty forms, no codes.                                       *)
LEMMA EmptyFormRight ==
  ASSUME NEW flow \in {"register", "reset", "signin"}, NEW n \in Nat, NEW ml, NEW gr
  PROVE  FormOK(Account!EmptyForm(flow), flow, n, ml, gr) /\ Account!EmptyForm(flow).step # "done"
<1>1. Account!FirstStep[flow] \in {"details", "email"}
      /\ (flow \in {"register", "signin"} => Account!FirstStep[flow] = "details")
      /\ (flow = "reset" => Account!FirstStep[flow] = "email")
  BY DEF Account!FirstStep
<1>2. Account!EmptyForm(flow) \in FormsOf(n)
  BY <1>1 DEF Account!EmptyForm, FormsOf, Steps
<1>3. StepFits(Account!EmptyForm(flow), flow)
  BY <1>1 DEF Account!EmptyForm, StepFits
<1>4. Account!EmptyForm(flow).code = None /\ Account!EmptyForm(flow).token = None
      /\ Account!EmptyForm(flow).step = Account!FirstStep[flow]
  BY DEF Account!EmptyForm
<1>5. QED BY <1>1, <1>2, <1>3, <1>4 DEF FormOK

(* The opening scenes are within the bounds.                               *)
LEMMA ScenesRight ==
  ASSUME NEW x \in Account!Scenes
  PROVE  /\ x.addresses \subseteq Email /\ x.flows \subseteq {"register", "reset", "signin"}
         /\ x.issues \in Int /\ x.issues <= MaxIssued
         /\ x.until \in Int /\ x.until <= MaxMinute
<1>1. MaxIssued \in Nat /\ MaxMinute \in Nat /\ MaxFills \in Nat
  BY FormsAssumption
<1>2. Account!OneEmail \subseteq Email
  BY FormsAssumption DEF Account!OneEmail
<1>3. PICK fl, ad, fi, is, un :
        /\ x = Account!Scene(fl, ad, fi, is, un) /\ fl \subseteq {"register", "reset", "signin"}
        /\ ad \in {Account!OneEmail, Email} /\ is \in {MaxIssued, MaxIssued - 1}
        /\ un \in {MaxMinute, MaxMinute - 1}
  BY DEF Account!Scenes
<1>4. is \in Int /\ is <= MaxIssued /\ un \in Int /\ un <= MaxMinute
  BY <1>1, <1>3
<1>5. ad \subseteq Email
  BY <1>2, <1>3
<1>6. QED BY <1>3, <1>4, <1>5 DEF Account!Scene

(* The start.                                                              *)
LEMMA AccountBegins ==
  ASSUME Account!Init
  PROVE  AccountInv
<1>1. scene \in Account!Scenes /\ minute = 0 /\ issued = 0 /\ mail = {} /\ spent = {} /\ grants = {}
  BY DEF Account!Init
<1>2. /\ scene.addresses \subseteq Email /\ scene.flows \subseteq {"register", "reset", "signin"}
      /\ scene.issues \in Int /\ scene.issues <= MaxIssued
      /\ scene.until \in Int /\ scene.until <= MaxMinute
  BY <1>1, ScenesRight
<1>3. role \in [Device -> [client : {"web", "mobile"}, flow : {"register", "reset", "signin"}]]
  <2>1. PICK cl \in {"web", "mobile"}, flow \in [Device -> scene.flows] :
          role = [d \in Device |-> [client |-> cl, flow |-> flow[d]]]
    BY DEF Account!Init
  <2>2. QED BY <2>1, <1>2
<1>4. SceneOK
  BY <1>1, <1>2, <1>3, FormsAssumption DEF SceneOK
<1>5. Email # {}
  BY FormsAssumption
<1>6. PICK e \in Email : TRUE
  BY <1>5
<1>7. PICK own : own = [n \in Nat |-> [key |-> <<e, "reset">>, id |-> 0]]
  OBVIOUS
<1>8. own \in Owners
  BY <1>7 DEF Owners, Keys
<1>9. AccountsOK(accounts, issued, mail, grants)
  <2>1. accounts = {} \/ \E a \in Account!OldAccounts : accounts = {a}
    BY DEF Account!Init
  <2>2. \A a \in Account!OldAccounts : a \in AccountsOf(0) /\ a.proof = None
    <3>1. Account!OneEmail \subseteq Email
      BY <1>5 DEF Account!OneEmail
    <3>2. QED BY <3>1 DEF Account!OldAccounts, AccountsOf
  <2>3. QED BY <2>1, <2>2, <1>1 DEF AccountsOK, Proved
<1>10. PapersOK(issued, mail, grants, own)
  BY <1>1 DEF PapersOK
<1>11. RowsOK(own)
  <2>1. rows = [k \in Keys |-> None]
    BY DEF Account!Init, Keys, Account!Purpose
  <2>2. QED BY <2>1 DEF RowsOK
<1>12. FormsOK
  <2>1. forms = [d \in Device |-> Account!EmptyForm(role[d].flow)]
    BY DEF Account!Init
  <2>2. QED BY <2>1, <1>1, <1>3, EmptyFormRight DEF FormsOK
<1>13. CallsOK(own)
  <2>1. running = [s \in Slots |-> None]
    BY DEF Account!Init, Slots, Account!Slot
  <2>2. QED BY <2>1 DEF CallsOK
<1>14. AccountOK(own)
  BY <1>1, <1>8, <1>9, <1>10, <1>11, <1>12, <1>13 DEF AccountOK
<1>15. QED BY <1>4, <1>8, <1>14 DEF AccountInv

(* The fields of a form that is sent on or back.                           *)
LEMMA FormAtStep ==
  ASSUME NEW n, NEW f \in FormsOf(n), NEW st \in Steps, NEW g, g = [f EXCEPT !.step = st]
  PROVE  /\ g \in FormsOf(n) /\ g.step = st /\ g.email = f.email /\ g.name = f.name
         /\ g.password = f.password /\ g.code = f.code /\ g.token = f.token
  BY DEF FormsOf

(* The fields of a form whose code is wiped.                               *)
LEMMA FormWiped ==
  ASSUME NEW n, NEW f \in FormsOf(n), NEW g, g = [f EXCEPT !.code = None]
  PROVE  /\ g \in FormsOf(n) /\ g.step = f.step /\ g.email = f.email /\ g.name = f.name
         /\ g.password = f.password /\ g.code = None /\ g.token = f.token
  BY DEF FormsOf

(* What a step holds after it was filled in.                               *)
LEMMA FilledRight ==
  ASSUME NEW n \in Nat, NEW flow, NEW f, FormOK(f, flow, n, mail, grants), f.step # "done",
         mail \subseteq MailsOf(n), scene.addresses \subseteq Email,
         flow \in {"register", "reset", "signin"}, NEW g \in Account!Filled(f, flow)
  PROVE  FormOK(g, flow, n, mail, grants) /\ g.step # "done"
<1>1. f \in FormsOf(n) /\ StepFits(f, flow) /\ f.step \in Steps
  BY DEF FormOK, FormsOf
<1>2. ASSUME NEW h \in FormsOf(n), NEW k \in Account!Credentials(h)
      PROVE  k \in FormsOf(n) /\ k.step = h.step /\ k.code = h.code /\ k.token = h.token
  <2>1. PICK nm \in Name : k \in Account!NewPassword([h EXCEPT !.name = nm])
    BY <1>2 DEF Account!Credentials
  <2>2. PICK h2 : h2 = [h EXCEPT !.name = nm]
    OBVIOUS
  <2>3. h2 \in FormsOf(n) /\ h2.step = h.step /\ h2.code = h.code /\ h2.token = h.token
    BY <2>2, <1>2 DEF FormsOf
  <2>4. PICK p \in Password : k = [h2 EXCEPT !.password = p]
    BY <2>1, <2>2 DEF Account!NewPassword
  <2>5. k \in FormsOf(n) /\ k.step = h2.step /\ k.code = h2.code /\ k.token = h2.token
    BY <2>3, <2>4 DEF FormsOf
  <2>6. QED BY <2>3, <2>5
<1>3. CASE f.step = "details"
  <2>1. g \in FormsOf(n) /\ g.step = f.step /\ g.code = f.code /\ g.token = f.token
    <3>1. CASE flow = "register"
      <4>1. g \in Account!Details(f)
        BY <1>3, <3>1 DEF Account!Filled
      <4>2. PICK h \in Account!Address(f) : g \in Account!Credentials(h)
        BY <4>1 DEF Account!Details
      <4>3. h \in FormsOf(n) /\ h.step = f.step /\ h.code = f.code /\ h.token = f.token
        BY <1>1 DEF Account!Address, FormsOf
      <4>4. QED BY <4>2, <4>3, <1>2
    <3>2. CASE flow = "signin"
      <4>1. g \in Account!Credentials(f)
        BY <1>3, <3>2 DEF Account!Filled
      <4>2. QED BY <4>1, <1>1, <1>2
    <3>3. QED BY <1>1, <1>3, <3>1, <3>2 DEF StepFits
  <2>2. QED BY <2>1, <1>1, <1>3 DEF FormOK, StepFits
<1>4. CASE f.step = "email"
  <2>1. PICK e \in scene.addresses : g = [f EXCEPT !.email = e]
    BY <1>4 DEF Account!Filled, Account!Address
  <2>2. g \in FormsOf(n) /\ g.step = "email" /\ g.code = f.code /\ g.token = f.token
    BY <2>1, <1>1, <1>4 DEF FormsOf
  <2>3. QED BY <2>2, <1>1, <1>4 DEF FormOK, StepFits
<1>5. CASE f.step = "code"
  <2>1. PICK c \in Account!Codes : g = [f EXCEPT !.code = c]
    BY <1>5 DEF Account!Filled, Account!CodeTyped
  <2>2. c = 0 \/ \E m \in mail : m.code = c
    BY DEF Account!Codes
  <2>3. c \in {None, 0} \cup (1 .. n)
    BY <2>2 DEF MailsOf
  <2>4. /\ g \in FormsOf(n) /\ g.step = "code" /\ g.code = c /\ g.token = f.token
        /\ g.email = f.email /\ g.name = f.name /\ g.password = f.password
    BY <2>1, <2>3, <1>1, <1>5 DEF FormsOf
  <2>5. StepFits(g, flow)
    BY <2>4, <1>1, <1>5 DEF StepFits
  <2>6. QED BY <2>2, <2>4, <2>5, <1>5 DEF FormOK
<1>6. CASE f.step = "password"
  <2>1. PICK p \in Password : g = [f EXCEPT !.password = p]
    BY <1>6 DEF Account!Filled, Account!NewPassword
  <2>2. /\ g \in FormsOf(n) /\ g.step = "password" /\ g.code = f.code /\ g.token = f.token
        /\ g.email = f.email
    BY <2>1, <1>1, <1>6 DEF FormsOf
  <2>3. StepFits(g, flow)
    BY <2>2, <1>1, <1>6 DEF StepFits
  <2>4. QED BY <2>2, <2>3, <1>6 DEF FormOK
<1>7. QED BY <1>1, <1>3, <1>4, <1>5, <1>6 DEF StepFits, Steps

(* What a way back leaves.                                                 *)
LEMMA BackRight ==
  ASSUME NEW n \in Nat, NEW flow \in {"register", "reset", "signin"}, NEW f,
         FormOK(f, flow, n, mail, grants), f.step \in {"code", "password"},
         NEW g, g = Account!MobileBack(f, flow) \/ (flow = "register" /\ g = Account!WebBack(f))
  PROVE  FormOK(g, flow, n, mail, grants) /\ g.step # "done"
<1>1. f \in FormsOf(n) /\ StepFits(f, flow)
  BY DEF FormOK
<1>2. CASE flow = "register"
  <2>1. g = [f EXCEPT !.step = "details"]
    <3>1. Account!MobileBack(f, flow) = [f EXCEPT !.step = "details"]
      BY <1>2 DEF Account!MobileBack
    <3>2. QED BY <3>1 DEF Account!WebBack
  <2>2. g \in FormsOf(n) /\ g.step = "details" /\ g.code = f.code /\ g.token = f.token
    BY <2>1, <1>1 DEF FormsOf, Steps
  <2>3. QED BY <2>2, <1>2 DEF FormOK, StepFits
<1>3. CASE flow = "reset" /\ f.step = "code"
  <2>1. g = [f EXCEPT !.step = "email", !.code = None]
    BY <1>3 DEF Account!MobileBack
  <2>2. g \in FormsOf(n) /\ g.step = "email" /\ g.code = None /\ g.token = f.token
    BY <2>1, <1>1 DEF FormsOf, Steps
  <2>3. QED BY <2>2, <1>3 DEF FormOK, StepFits
<1>4. CASE flow = "reset" /\ f.step = "password"
  <2>1. g = [f EXCEPT !.step = "code", !.code = None, !.password = None, !.token = None]
    BY <1>4 DEF Account!MobileBack
  <2>2. g \in FormsOf(n) /\ g.step = "code" /\ g.code = None /\ g.token = None /\ g.email = f.email
    BY <2>1, <1>1 DEF FormsOf, Steps
  <2>3. QED BY <2>2, <1>1, <1>4 DEF FormOK, StepFits
<1>5. QED BY <1>1, <1>2, <1>3, <1>4 DEF StepFits

(* A step the server does not notice keeps the invariant.                  *)
LEMMA AccountQuiet ==
  ASSUME SceneOK, NEW own \in Owners, AccountOK(own), UNCHANGED <<role, scene, minute>>,
         UNCHANGED <<accounts, rows, issued, mail, spent, grants>>,
         FormsMove, CallsMove(own)
  PROVE  AccountInv'
<1>1. SceneOK'
  BY DEF SceneOK
<1>2. issued \in Nat
  BY FormsAssumption DEF SceneOK
<1>3. AccountOK(own)'
  BY <1>2, ServerQuiet
<1>4. QED BY <1>1, <1>3 DEF AccountInv

(* The flow of a device.                                                   *)
LEMMA Flows ==
  ASSUME SceneOK
  PROVE  /\ \A d \in Device : role[d].flow \in {"register", "reset", "signin"}
         /\ \A s \in Slots : role[s[1]].flow \in {"register", "reset", "signin"}
         /\ issued \in Nat /\ minute \in 0 .. MaxMinute
<1>1. \A d \in Device : role[d].flow \in {"register", "reset", "signin"}
  BY DEF SceneOK
<1>2. MaxIssued \in Nat
  BY FormsAssumption
<1>3. issued \in Nat /\ minute \in 0 .. MaxMinute
  BY <1>2 DEF SceneOK
<1>4. QED BY <1>1, <1>3, SlotParts

(* Filling a field, and going back a step of the form.                     *)
LEMMA AccountFilled ==
  ASSUME SceneOK, NEW own \in Owners, AccountOK(own), NEW d \in Device,
         Account!Fill(d) \/ Account!Back(d)
  PROVE  AccountInv'
<1>1. /\ UNCHANGED <<role, scene, minute, accounts, rows, issued, mail, spent, grants, running>>
      /\ running[<<d, TRUE>>] = None /\ forms[d].step # "done"
  BY DEF Account!Fill, Account!Back, Account!setting, Account!server, Account!Enabled, Account!Loading
<1>2. FormOK(forms[d], role[d].flow, issued, mail, grants) /\ mail \subseteq MailsOf(issued)
  BY DEF AccountOK, FormsOK, PapersOK
<1>3. PICK f : /\ forms' = [forms EXCEPT ![d] = f]
               /\ FormOK(f, role[d].flow, issued, mail, grants) /\ f.step # "done"
  <2>1. CASE Account!Fill(d)
    <3>1. PICK f \in Account!Filled(forms[d], role[d].flow) : forms' = [forms EXCEPT ![d] = f]
      BY <2>1 DEF Account!Fill
    <3>2. FormOK(f, role[d].flow, issued, mail, grants) /\ f.step # "done"
      BY <1>1, <1>2, Flows, FilledRight DEF SceneOK
    <3>3. QED BY <3>1, <3>2
  <2>2. CASE Account!Back(d)
    <3>1. PICK f : /\ forms' = [forms EXCEPT ![d] = f]
                   /\ f = Account!MobileBack(forms[d], role[d].flow)
                      \/ (role[d].flow = "register" /\ f = Account!WebBack(forms[d]))
      BY <2>2 DEF Account!Back
    <3>2. forms[d].step \in {"code", "password"}
      BY <2>2 DEF Account!Back
    <3>3. FormOK(f, role[d].flow, issued, mail, grants) /\ f.step # "done"
      BY <3>1, <3>2, <1>2, Flows, BackRight
    <3>4. QED BY <3>1, <3>3
  <2>3. QED BY <2>1, <2>2
<1>4. FormsMove /\ CallsMove(own)
  BY <1>1, <1>3, FormMoved
<1>5. QED BY <1>1, <1>4, AccountQuiet

(* What a form that is submitted asks of the server.                       *)
LEMMA SubmittedRight ==
  ASSUME NEW n \in Nat, NEW flow \in {"register", "reset", "signin"}, NEW f, NEW ml, NEW gr, NEW sp,
         NEW own, FormOK(f, flow, n, ml, gr), f.step # "done", Account!Valid(f, flow), NEW c,
         c = [form |-> f, stage |-> Account!FirstStage(f.step, flow), at |-> 0, row |-> None,
              code |-> None, late |-> Account!Key(f) \in sp]
  PROVE  CallOK(c, flow, n, ml, gr, sp, own)
<1>1. f \in FormsOf(n) /\ StepFits(f, flow)
  BY DEF FormOK
<1>2. /\ c.form = f /\ c.stage = Account!FirstStage(f.step, flow) /\ c.at = 0 /\ c.row = None
      /\ c.code = None /\ (c.late <=> Account!Key(f) \in sp) /\ c.late \in BOOLEAN
  <2>1. CASE Account!Key(f) \in sp
    <3>1. c = [form |-> f, stage |-> Account!FirstStage(f.step, flow), at |-> 0, row |-> None,
               code |-> None, late |-> TRUE]
      <4>1. (Account!Key(f) \in sp) = TRUE
        BY <2>1
      <4>2. QED BY <4>1
    <3>2. QED BY <2>1, <3>1
  <2>2. CASE Account!Key(f) \notin sp
    <3>1. c = [form |-> f, stage |-> Account!FirstStage(f.step, flow), at |-> 0, row |-> None,
               code |-> None, late |-> FALSE]
      <4>1. (Account!Key(f) \in sp) = FALSE
        BY <2>2
      <4>2. QED BY <4>1
    <3>2. QED BY <2>2, <3>1
  <2>3. QED BY <2>1, <2>2
<1>3. PICK st : st = Account!FirstStage(f.step, flow)
  OBVIOUS
<1>4. st \in {"availability", "request", "look", "redeem", "signin"} /\ StageFits(flow, f.step, st)
  <2>1. CASE flow = "register"
    BY <1>1, <1>3, <2>1 DEF StepFits, Account!FirstStage, StageFits
  <2>2. CASE flow = "reset"
    BY <1>1, <1>3, <2>2 DEF StepFits, Account!FirstStage, StageFits
  <2>3. CASE flow = "signin"
    BY <1>1, <1>3, <2>3 DEF StepFits, Account!FirstStage, StageFits
  <2>4. QED BY <2>1, <2>2, <2>3
<1>5. c \in CallsOf(n)
  <2>1. st \in Stages
    BY <1>4 DEF Stages
  <2>2. 0 \in 0 .. MaxMinute
    BY FormsAssumption
  <2>3. QED BY <1>1, <1>2, <1>3, <2>1, <2>2 DEF CallsOf
<1>6. st \in {"availability", "request", "store", "mail"} =>
        f.email \in Email /\ (flow = "register" => f.name \in Name /\ f.password \in Password)
  <2>1. CASE f.step = "details" /\ flow = "register"
    <3>1. None \notin {f.name, f.password} /\ f.email # None
      BY <2>1 DEF Account!Valid
    <3>2. QED BY <3>1, <1>1 DEF FormsOf
  <2>2. CASE f.step = "email" /\ flow = "reset"
    <3>1. f.email # None
      BY <2>2 DEF Account!Valid
    <3>2. QED BY <3>1, <2>2, <1>1 DEF FormsOf
  <2>3. QED BY <2>1, <2>2, <1>4 DEF StageFits
<1>7. st \in {"redeem", "change"} => f.password \in Password
  <2>1. CASE f.step = "password"
    <3>1. f.password # None
      BY <2>1 DEF Account!Valid
    <3>2. QED BY <3>1, <1>1 DEF FormsOf
  <2>2. QED BY <2>1, <1>4 DEF StageFits
<1>8. QED BY <1>2, <1>3, <1>4, <1>5, <1>6, <1>7 DEF CallOK

(* Submitting starts a call with what the form holds.                      *)
LEMMA AccountSubmitted ==
  ASSUME SceneOK, NEW own \in Owners, AccountOK(own), NEW d \in Device, Account!Submit(d)
  PROVE  AccountInv'
<1>1. /\ UNCHANGED <<role, scene, minute, accounts, rows, issued, mail, spent, grants, forms>>
      /\ forms[d].step # "done" /\ Account!Valid(forms[d], role[d].flow)
  BY DEF Account!Submit, Account!setting, Account!server, Account!Enabled
<1>2. FormOK(forms[d], role[d].flow, issued, mail, grants)
  BY DEF AccountOK, FormsOK
<1>3. PICK c : c = [form |-> forms[d], stage |-> Account!FirstStage(forms[d].step, role[d].flow), at |-> 0,
                    row |-> None, code |-> None, late |-> Account!Key(forms[d]) \in spent]
  OBVIOUS
<1>4. running' = [running EXCEPT ![<<d, TRUE>>] = c]
  BY <1>3 DEF Account!Submit
<1>5. role[d].flow \in {"register", "reset", "signin"} /\ issued \in Nat
  BY Flows
<1>6. CallOK(c, role[d].flow, issued, mail, grants, spent, own)
  BY <1>1, <1>2, <1>3, <1>5, SubmittedRight
<1>7. c.form = forms[d]
  BY <1>3
<1>8. FormsMove /\ CallsMove(own)
  <2>1. DOMAIN running = Slots /\ running = [s \in Slots |-> running[s]]
    BY DEF AccountOK, CallsOK
  <2>2. <<d, TRUE>> \in Slots /\ <<d, TRUE>>[1] = d
    BY SlotParts
  <2>3. /\ DOMAIN running' = Slots /\ running' = [s \in Slots |-> running'[s]]
        /\ running'[<<d, TRUE>>] = c /\ \A s \in Slots : s # <<d, TRUE>> => running'[s] = running[s]
    BY <1>4, <2>1, <2>2
  <2>4. ASSUME NEW s \in Slots, running'[s] \notin {running[s], None}
        PROVE  /\ CallOK(running'[s], role[s[1]].flow, issued', mail', grants', spent', own)
               /\ s[2] => running'[s].form = forms'[s[1]]
    <3>1. s = <<d, TRUE>>
      BY <2>3, <2>4
    <3>2. running'[s] = c /\ s[1] = d
      BY <2>2, <2>3, <3>1
    <3>3. QED BY <1>1, <1>6, <1>7, <3>2
  <2>5. CallsMove(own)
    BY <2>3, <2>4 DEF CallsMove
  <2>6. FormsMove
    BY <1>1 DEF AccountOK, FormsOK, FormsMove
  <2>7. QED BY <2>5, <2>6
<1>9. QED BY <1>1, <1>8, AccountQuiet

(* A call that nobody waits for any more is as right as before.            *)
LEMMA Abandoned ==
  ASSUME NEW own, AccountOK(own), NEW d \in Device, running[<<d, TRUE>>] # None,
         UNCHANGED <<role, issued, mail, grants, spent>>,
         \/ running' = [running EXCEPT ![<<d, TRUE>>] = None]
         \/ running' = [running EXCEPT ![<<d, TRUE>>] = None, ![<<d, FALSE>>] = running[<<d, TRUE>>]]
  PROVE  CallsMove(own) /\ running'[<<d, TRUE>>] = None
<1>1. DOMAIN running = Slots /\ running = [s \in Slots |-> running[s]]
  BY DEF AccountOK, CallsOK
<1>2. /\ <<d, TRUE>> \in Slots /\ <<d, FALSE>> \in Slots /\ <<d, TRUE>> # <<d, FALSE>>
      /\ <<d, FALSE>>[1] = d /\ <<d, FALSE>>[2] = FALSE /\ <<d, TRUE>>[1] = d
  BY SlotParts
<1>3. CallOK(running[<<d, TRUE>>], role[d].flow, issued, mail, grants, spent, own)
  BY <1>2 DEF AccountOK, CallsOK
<1>4. CASE running' = [running EXCEPT ![<<d, TRUE>>] = None]
  BY <1>1, <1>2, <1>4 DEF CallsMove
<1>5. CASE running' = [running EXCEPT ![<<d, TRUE>>] = None, ![<<d, FALSE>>] = running[<<d, TRUE>>]]
  <2>1. /\ running'[<<d, TRUE>>] = None /\ running'[<<d, FALSE>>] = running[<<d, TRUE>>]
        /\ \A s \in Slots : s \notin {<<d, TRUE>>, <<d, FALSE>>} => running'[s] = running[s]
        /\ DOMAIN running' = Slots /\ running' = [s \in Slots |-> running'[s]]
    BY <1>1, <1>2, <1>5
  <2>2. ASSUME NEW s \in Slots, running'[s] \notin {running[s], None}
        PROVE  /\ CallOK(running'[s], role[s[1]].flow, issued, mail, grants, spent, own)
               /\ s[2] = FALSE
    <3>1. s = <<d, FALSE>>
      BY <2>1, <2>2
    <3>2. QED BY <3>1, <1>2, <1>3, <2>1
  <2>3. QED BY <2>1, <2>2 DEF CallsMove
<1>6. QED BY <1>4, <1>5

(* Leaving the form starts a new one.                                      *)
LEMMA AccountLeft ==
  ASSUME SceneOK, NEW own \in Owners, AccountOK(own), NEW d \in Device, Account!Leave(d)
  PROVE  AccountInv'
<1>1. /\ UNCHANGED <<role, scene, minute, accounts, rows, issued, mail, spent, grants>>
      /\ forms' = [forms EXCEPT ![d] = Account!EmptyForm(role[d].flow)]
  BY DEF Account!Leave, Account!setting, Account!server
<1>2. role[d].flow \in {"register", "reset", "signin"} /\ issued \in Nat
  BY Flows
<1>3. PICK f : f = Account!EmptyForm(role[d].flow)
  OBVIOUS
<1>4. FormOK(f, role[d].flow, issued, mail, grants) /\ f.step # "done"
  BY <1>2, <1>3, EmptyFormRight
<1>5. CASE ~Account!Loading(d)
  <2>1. UNCHANGED running /\ running[<<d, TRUE>>] = None
    BY <1>5 DEF Account!Leave, Account!Loading
  <2>2. FormsMove /\ CallsMove(own)
    BY <1>1, <1>3, <1>4, <2>1, FormMoved
  <2>3. QED BY <1>1, <2>2, AccountQuiet
<1>6. CASE Account!Loading(d)
  <2>1. CallsMove(own) /\ running'[<<d, TRUE>>] = None
    BY <1>1, <1>6, Abandoned DEF Account!Leave, Account!Loading
  <2>2. FormsMove
    BY <1>1, <1>3, <1>4, <2>1 DEF AccountOK, FormsOK, FormsMove
  <2>3. QED BY <1>1, <2>1, <2>2, AccountQuiet
<1>7. QED BY <1>5, <1>6

(* A lost answer ends the call for the form only.                          *)
LEMMA AccountAnswerLost ==
  ASSUME SceneOK, NEW own \in Owners, AccountOK(own), NEW d \in Device, Account!AnswerLost(d)
  PROVE  AccountInv'
<1>1. UNCHANGED <<role, scene, minute, accounts, rows, issued, mail, spent, grants, forms>>
  BY DEF Account!AnswerLost, Account!setting, Account!server
<1>2. CallsMove(own)
  BY <1>1, Abandoned DEF Account!AnswerLost, Account!Loading
<1>3. FormsMove
  BY <1>1 DEF AccountOK, FormsOK, FormsMove
<1>4. QED BY <1>1, <1>2, <1>3, AccountQuiet

(* Time passes, or nothing happens.                                        *)
LEMMA AccountTicked ==
  ASSUME SceneOK, NEW own \in Owners, AccountOK(own), Account!Tick \/ UNCHANGED Account!vars
  PROVE  AccountInv'
<1>1. UNCHANGED <<role, scene, accounts, rows, issued, mail, spent, grants, forms, running>>
  BY DEF Account!Tick, Account!setting, Account!server, Account!vars
<1>2. minute' \in 0 .. MaxMinute
  <2>1. CASE Account!Tick
    <3>1. minute < scene.until /\ minute' = minute + 1
      BY <2>1 DEF Account!Tick
    <3>2. scene.until \in Int /\ scene.until <= MaxMinute /\ minute \in 0 .. MaxMinute
      BY DEF SceneOK
    <3>3. MaxMinute \in Nat
      BY FormsAssumption
    <3>4. QED BY <3>1, <3>2, <3>3
  <2>2. CASE UNCHANGED Account!vars
    BY <2>2 DEF Account!vars, SceneOK
  <2>3. QED BY <2>1, <2>2
<1>3. SceneOK'
  BY <1>1, <1>2 DEF SceneOK
<1>4. FormsMove /\ CallsMove(own)
  BY <1>1, NothingMoved
<1>5. AccountOK(own)'
  BY <1>1, <1>4, Flows, ServerQuiet
<1>6. QED BY <1>3, <1>5 DEF AccountInv

(* A call that is worked on is right, and so is the form it was made for.  *)
LEMMA CallParts ==
  ASSUME SceneOK, NEW own, AccountOK(own), NEW s \in Slots, running[s] # None
  PROVE  /\ CallOK(running[s], role[s[1]].flow, issued, mail, grants, spent, own)
         /\ running[s] \in CallsOf(issued) /\ running[s].form \in FormsOf(issued)
         /\ FormOK(running[s].form, role[s[1]].flow, issued, mail, grants)
         /\ StageFits(role[s[1]].flow, running[s].form.step, running[s].stage)
         /\ running[s].form.step # "done" /\ s[1] \in Device
         /\ role[s[1]].flow \in {"register", "reset", "signin"}
         /\ issued \in Nat /\ minute \in 0 .. MaxMinute
<1>1. CallOK(running[s], role[s[1]].flow, issued, mail, grants, spent, own)
  BY DEF AccountOK, CallsOK
<1>2. /\ running[s] \in CallsOf(issued)
      /\ FormOK(running[s].form, role[s[1]].flow, issued, mail, grants)
      /\ StageFits(role[s[1]].flow, running[s].form.step, running[s].stage)
  BY <1>1 DEF CallOK
<1>3. running[s].form \in FormsOf(issued)
  BY <1>2 DEF FormOK
<1>4. running[s].form.step # "done"
  BY <1>2 DEF StageFits
<1>5. QED BY <1>1, <1>2, <1>3, <1>4, Flows, SlotParts

(* The form of a refused call stays as it was.                             *)
LEMMA Refused ==
  ASSUME SceneOK, NEW own, AccountOK(own), NEW s \in Slots, running[s] # None, Account!Unchanged(s),
         UNCHANGED <<role, issued, mail, grants>>
  PROVE  FormsMove /\ CallsMove(own)
<1>1. /\ FormOK(running[s].form, role[s[1]].flow, issued, mail, grants)
      /\ running[s].form.step # "done"
  BY CallParts
<1>2. Account!Answer(s, running[s].form)
  BY DEF Account!Unchanged
<1>3. QED BY <1>1, <1>2, Answered

(* A code that is refused is wiped from the form or stays on it.           *)
LEMMA CodeIsRefused ==
  ASSUME SceneOK, NEW own, AccountOK(own), NEW s \in Slots, running[s] # None, Account!CodeRefused(s),
         UNCHANGED <<role, issued, mail, grants>>
  PROVE  FormsMove /\ CallsMove(own)
<1>1. PICK f : f = running[s].form
  OBVIOUS
<1>2. f \in FormsOf(issued) /\ FormOK(f, role[s[1]].flow, issued, mail, grants) /\ f.step # "done"
  BY <1>1, CallParts
<1>3. PICK g : g = [f EXCEPT !.code = None]
  OBVIOUS
<1>4. /\ g \in FormsOf(issued) /\ g.step = f.step /\ g.email = f.email /\ g.name = f.name
      /\ g.password = f.password /\ g.code = None /\ g.token = f.token
  BY <1>2, <1>3, FormWiped
<1>5. FormOK(g, role[s[1]].flow, issued, mail, grants) /\ g.step # "done"
  BY <1>2, <1>4 DEF FormOK, StepFits
<1>6. Account!Answer(s, f) \/ Account!Answer(s, g)
  BY <1>1, <1>3 DEF Account!CodeRefused, Account!WebCodeRefused, Account!MobileCodeRefused
<1>7. QED BY <1>2, <1>5, <1>6, Answered

(* The form that a code was asked for goes on to the code.                 *)
LEMMA CodeStep ==
  ASSUME NEW c, NEW flow, NEW n, NEW ml, NEW gr, NEW sp, NEW own, CallOK(c, flow, n, ml, gr, sp, own),
         c.stage \in {"request", "store", "mail"}, NEW f, f = [c.form EXCEPT !.step = "code"]
  PROVE  FormOK(f, flow, n, ml, gr) /\ f.step # "done"
<1>1. PICK h : h = c.form
  OBVIOUS
<1>2. h \in FormsOf(n) /\ FormOK(h, flow, n, ml, gr) /\ StageFits(flow, h.step, c.stage)
  BY <1>1 DEF CallOK, FormOK
<1>3. h.email \in Email /\ (flow = "register" => h.name \in Name /\ h.password \in Password)
  BY <1>1 DEF CallOK
<1>4. f = [h EXCEPT !.step = "code"] /\ "code" \in Steps
  BY <1>1 DEF Steps
<1>5. /\ f \in FormsOf(n) /\ f.step = "code" /\ f.email = h.email /\ f.name = h.name
      /\ f.password = h.password /\ f.code = h.code /\ f.token = h.token
  <2>1. h \in FormsOf(n) /\ "code" \in Steps /\ f = [h EXCEPT !.step = "code"]
    BY <1>2, <1>4
  <2>2. QED BY <2>1 DEF FormsOf
<1>6. (flow = "register" /\ h.step = "details") \/ (flow = "reset" /\ h.step = "email")
  BY <1>2 DEF StageFits
<1>7. StepFits(f, flow)
  BY <1>3, <1>5, <1>6 DEF StepFits
<1>8. h.token = None
  BY <1>2, <1>6 DEF FormOK
<1>9. QED BY <1>2, <1>5, <1>7, <1>8 DEF FormOK

(* The availability of a name is answered.                                 *)
LEMMA AccountChecked ==
  ASSUME SceneOK, NEW own \in Owners, AccountOK(own), NEW s \in Slots, Account!CheckAvailability(s)
  PROVE  AccountInv'
<1>1. /\ UNCHANGED <<role, scene, minute, accounts, rows, issued, mail, spent, grants>>
      /\ running[s] # None /\ running[s].stage = "availability"
  BY DEF Account!CheckAvailability, Account!Quiet, Account!setting, Account!server, Account!At
<1>2. CASE Account!Unchanged(s)
  BY <1>1, <1>2, Refused, AccountQuiet
<1>3. CASE Account!Proceed(s, [running[s] EXCEPT !.stage = "request"])
  <2>1. PICK c : c = running[s]
    OBVIOUS
  <2>2. PICK x : x = [c EXCEPT !.stage = "request"]
    OBVIOUS
  <2>3. CallOK(c, role[s[1]].flow, issued, mail, grants, spent, own) /\ c \in CallsOf(issued)
    BY <1>1, <2>1, CallParts
  <2>4. /\ x \in CallsOf(issued) /\ x.form = c.form /\ x.stage = "request" /\ x.row = c.row
        /\ x.code = c.code /\ x.late = c.late
    BY <2>2, <2>3 DEF CallsOf, Stages
  <2>5. StageFits(role[s[1]].flow, x.form.step, x.stage)
    BY <1>1, <2>1, <2>3, <2>4 DEF CallOK, StageFits
  <2>6. CallOK(x, role[s[1]].flow, issued, mail, grants, spent, own)
    BY <1>1, <2>1, <2>3, <2>4, <2>5 DEF CallOK
  <2>7. FormsMove /\ CallsMove(own)
    BY <1>1, <1>3, <2>1, <2>2, <2>4, <2>6, Proceeded
  <2>8. QED BY <1>1, <2>7, AccountQuiet
<1>4. QED BY <1>2, <1>3 DEF Account!CheckAvailability

(* The request for a code: limited, answered without one, or gone on with. *)
LEMMA AccountRequested ==
  ASSUME SceneOK, NEW own \in Owners, AccountOK(own), NEW s \in Slots, Account!Request(s)
  PROVE  AccountInv'
<1>1. /\ UNCHANGED <<role, scene, minute, accounts, rows, issued, mail, spent, grants>>
      /\ running[s] # None /\ running[s].stage = "request"
  BY DEF Account!Request, Account!Quiet, Account!setting, Account!server, Account!At
<1>2. PICK c : c = running[s]
  OBVIOUS
<1>3. CallOK(c, role[s[1]].flow, issued, mail, grants, spent, own) /\ c \in CallsOf(issued)
      /\ minute \in 0 .. MaxMinute
  BY <1>1, <1>2, CallParts
<1>4. CASE Account!Unchanged(s)
  BY <1>1, <1>4, Refused, AccountQuiet
<1>5. CASE Account!NextStep(s, "code")
  <2>1. PICK f : f = [c.form EXCEPT !.step = "code"]
    OBVIOUS
  <2>2. FormOK(f, role[s[1]].flow, issued, mail, grants) /\ f.step # "done"
    BY <1>1, <1>2, <1>3, <2>1, CodeStep
  <2>3. Account!Answer(s, f)
    BY <1>2, <1>5, <2>1 DEF Account!NextStep
  <2>4. FormsMove /\ CallsMove(own)
    BY <1>1, <2>2, <2>3, Answered
  <2>5. QED BY <1>1, <2>4, AccountQuiet
<1>6. CASE Account!Proceed(s, [running[s] EXCEPT !.stage = "store", !.at = minute])
  <2>1. PICK x : x = [c EXCEPT !.stage = "store", !.at = minute]
    OBVIOUS
  <2>2. /\ x \in CallsOf(issued) /\ x.form = c.form /\ x.stage = "store" /\ x.row = c.row
        /\ x.code = c.code /\ x.late = c.late
    BY <1>3, <2>1 DEF CallsOf, Stages
  <2>3. StageFits(role[s[1]].flow, x.form.step, x.stage)
    BY <1>1, <1>2, <1>3, <2>2 DEF CallOK, StageFits
  <2>4. CallOK(x, role[s[1]].flow, issued, mail, grants, spent, own)
    BY <1>1, <1>2, <1>3, <2>2, <2>3 DEF CallOK
  <2>5. FormsMove /\ CallsMove(own)
    BY <1>1, <1>2, <1>6, <2>1, <2>2, <2>4, Proceeded
  <2>6. QED BY <1>1, <2>5, AccountQuiet
<1>7. QED BY <1>4, <1>5, <1>6 DEF Account!Request, Account!Limited

\* The row of an address and purpose that is there.
LEMMA RowThere ==
  ASSUME NEW own, AccountOK(own), NEW k \in Keys, rows[k] # None
  PROVE  /\ RowOK(rows[k], k, issued, spent, own) /\ rows[k] \in RowsOf(issued)
         /\ own[rows[k].code] = [key |-> k, id |-> rows[k].id] /\ rows[k].code \notin spent
  BY DEF AccountOK, RowsOK, RowOK

(* The code sent is compared with the row of its address.                  *)
LEMMA AccountLooked ==
  ASSUME SceneOK, NEW own \in Owners, AccountOK(own), NEW s \in Slots, Account!Look(s)
  PROVE  AccountInv'
<1>1. /\ UNCHANGED <<role, scene, minute, accounts, rows, issued, mail, spent, grants>>
      /\ running[s] # None /\ running[s].stage = "look"
  BY DEF Account!Look, Account!Quiet, Account!setting, Account!server, Account!At
<1>2. PICK c : c = running[s]
  OBVIOUS
<1>3. /\ CallOK(c, role[s[1]].flow, issued, mail, grants, spent, own) /\ c \in CallsOf(issued)
      /\ minute \in 0 .. MaxMinute /\ FormOK(c.form, role[s[1]].flow, issued, mail, grants)
      /\ StageFits(role[s[1]].flow, c.form.step, "look")
  BY <1>1, <1>2, CallParts
<1>4. CASE Account!CodeRefused(s)
  BY <1>1, <1>4, CodeIsRefused, AccountQuiet
<1>5. CASE ~Account!CodeRefused(s)
  <2>1. role[s[1]].flow \in {"register", "reset"} /\ c.form.step = "code"
    BY <1>3 DEF StageFits
  <2>2. c.form.email \in Email
    BY <1>3, <2>1 DEF FormOK, StepFits
  <2>3. PICK k : k = <<c.form.email, role[s[1]].flow>>
    OBVIOUS
  <2>4. k \in Keys
    BY <2>1, <2>2, <2>3 DEF Keys
  <2>5. PICK st : st = IF rows[k].code # c.form.code THEN "count" ELSE role[s[1]].flow
    OBVIOUS
  <2>6. /\ rows[k] # None
        /\ Account!Proceed(s, [c EXCEPT !.row = rows[k], !.at = minute, !.stage = st])
    BY <1>2, <1>5, <2>3, <2>5 DEF Account!Look, Account!Open
  <2>7. PICK x : x = [c EXCEPT !.row = rows[k], !.at = minute, !.stage = st]
    OBVIOUS
  <2>8. /\ rows[k] \in RowsOf(issued) /\ own[rows[k].code] = [key |-> k, id |-> rows[k].id]
        /\ rows[k].code \notin spent
    BY <2>4, <2>6, RowThere
  <2>9. st \in {"count", "register", "reset"} /\ StageFits(role[s[1]].flow, c.form.step, st) /\ st \in Stages
    BY <2>1, <2>5 DEF StageFits, Stages
  <2>10. /\ x \in CallsOf(issued) /\ x.form = c.form /\ x.stage = st /\ x.row = rows[k]
         /\ x.code = c.code /\ x.late = c.late
    BY <1>3, <2>7, <2>8, <2>9 DEF CallsOf
  <2>11. c.late => c.form.code \in spent
    BY <1>3, <2>1 DEF CallOK, Account!Key
  <2>12. st # "count" => rows[k].code = c.form.code /\ st = role[s[1]].flow
    BY <2>5
  <2>13. x.late => Account!Key(x.form) \in spent
    BY <1>3, <2>10 DEF CallOK
  <2>14. CallOK(x, role[s[1]].flow, issued, mail, grants, spent, own)
    BY <1>3, <2>3, <2>8, <2>9, <2>10, <2>11, <2>12, <2>13 DEF CallOK
  <2>15. FormsMove /\ CallsMove(own)
    BY <1>1, <1>2, <2>6, <2>7, <2>10, <2>14, Proceeded
  <2>16. QED BY <1>1, <2>15, AccountQuiet
<1>6. QED BY <1>4, <1>5

(* The token sent is compared with the row of its address.                 *)
LEMMA AccountRedeemed ==
  ASSUME SceneOK, NEW own \in Owners, AccountOK(own), NEW s \in Slots, Account!Redeem(s)
  PROVE  AccountInv'
<1>1. /\ UNCHANGED <<role, scene, minute, accounts, rows, issued, mail, spent, grants>>
      /\ running[s] # None /\ running[s].stage = "redeem"
  BY DEF Account!Redeem, Account!Quiet, Account!setting, Account!server, Account!At
<1>2. PICK c : c = running[s]
  OBVIOUS
<1>3. /\ CallOK(c, role[s[1]].flow, issued, mail, grants, spent, own) /\ c \in CallsOf(issued)
      /\ FormOK(c.form, role[s[1]].flow, issued, mail, grants)
      /\ StageFits(role[s[1]].flow, c.form.step, "redeem")
  BY <1>1, <1>2, CallParts
<1>4. CASE Account!Unchanged(s)
  BY <1>1, <1>4, Refused, AccountQuiet
<1>5. CASE ~Account!Unchanged(s)
  <2>1. role[s[1]].flow = "reset" /\ c.form.step = "password"
    BY <1>3 DEF StageFits
  <2>2. c.form.email \in Email
    BY <1>3, <2>1 DEF FormOK, StepFits
  <2>3. PICK k : k = <<c.form.email, "grant">>
    OBVIOUS
  <2>4. k \in Keys
    BY <2>2, <2>3 DEF Keys
  <2>5. /\ rows[k] # None /\ rows[k].code = c.form.token
        /\ Account!Proceed(s, [c EXCEPT !.row = rows[k], !.stage = "change"])
    BY <1>2, <1>5, <2>3 DEF Account!Redeem, Account!Open
  <2>6. PICK x : x = [c EXCEPT !.row = rows[k], !.stage = "change"]
    OBVIOUS
  <2>7. /\ rows[k] \in RowsOf(issued) /\ own[rows[k].code] = [key |-> k, id |-> rows[k].id]
        /\ rows[k].code \notin spent
    BY <2>4, <2>5, RowThere
  <2>8. StageFits(role[s[1]].flow, c.form.step, "change") /\ "change" \in Stages
    BY <2>1 DEF StageFits, Stages
  <2>9. /\ x \in CallsOf(issued) /\ x.form = c.form /\ x.stage = "change" /\ x.row = rows[k]
        /\ x.code = c.code /\ x.late = c.late
    BY <1>3, <2>6, <2>7, <2>8 DEF CallsOf
  <2>10. c.late => c.form.token \in spent
    BY <1>3, <2>1 DEF CallOK, Account!Key
  <2>11. x.late => Account!Key(x.form) \in spent
    BY <1>3, <2>9 DEF CallOK
  <2>12. c.form.password \in Password
    BY <1>1, <1>2, <1>3 DEF CallOK
  <2>13. CallOK(x, role[s[1]].flow, issued, mail, grants, spent, own)
    BY <1>3, <2>3, <2>5, <2>7, <2>8, <2>9, <2>10, <2>11, <2>12 DEF CallOK
  <2>14. FormsMove /\ CallsMove(own)
    BY <1>1, <1>2, <2>5, <2>6, <2>9, <2>13, Proceeded
  <2>15. QED BY <1>1, <2>14, AccountQuiet
<1>6. QED BY <1>4, <1>5

(* A sign-in answers from the account of the address.                      *)
LEMMA AccountSignedIn ==
  ASSUME SceneOK, NEW own \in Owners, AccountOK(own), NEW s \in Slots, Account!SignIn(s)
  PROVE  AccountInv'
<1>1. /\ UNCHANGED <<role, scene, minute, accounts, rows, issued, mail, spent, grants>>
      /\ running[s] # None /\ running[s].stage = "signin"
  BY DEF Account!SignIn, Account!Quiet, Account!setting, Account!server, Account!At
<1>2. CASE Account!Unchanged(s)
  BY <1>1, <1>2, Refused, AccountQuiet
<1>3. CASE Account!NextStep(s, "done")
  <2>1. PICK h : h = running[s].form
    OBVIOUS
  <2>2. /\ h \in FormsOf(issued) /\ FormOK(h, role[s[1]].flow, issued, mail, grants)
        /\ StageFits(role[s[1]].flow, h.step, "signin")
    BY <1>1, <2>1, CallParts
  <2>3. role[s[1]].flow = "signin"
    BY <2>2 DEF StageFits
  <2>4. PICK f : f = [h EXCEPT !.step = "done"]
    OBVIOUS
  <2>5. "done" \in Steps
    BY DEF Steps
  <2>6. f \in FormsOf(issued) /\ f.step = "done" /\ f.code = h.code /\ f.token = h.token
    BY <2>2, <2>4, <2>5, FormAtStep
  <2>7. FormOK(f, role[s[1]].flow, issued, mail, grants)
    BY <2>2, <2>3, <2>6 DEF FormOK, StepFits
  <2>8. Account!Answer(s, f)
    BY <1>3, <2>1, <2>4 DEF Account!NextStep
  <2>9. FormsMove /\ CallsMove(own)
    BY <1>1, <2>3, <2>7, <2>8, Answered
  <2>10. QED BY <1>1, <2>9, AccountQuiet
<1>4. QED BY <1>2, <1>3 DEF Account!SignIn

(* A step of the server keeps the invariant when its parts are right.      *)
LEMMA AccountServed ==
  ASSUME SceneOK, NEW own, NEW own2 \in Owners, AccountOK(own), UNCHANGED <<role, scene, minute>>,
         issued' \in 0 .. MaxIssued, GrownTo(own, own2), FormsMove, CallsMove(own2),
         AccountsOK(accounts', issued', mail', grants'), AccountsLast,
         PapersOK(issued', mail', grants', own2), RowsOK(own2)', spent' \subseteq 1 .. issued'
  PROVE  AccountInv'
<1>1. SceneOK'
  BY DEF SceneOK
<1>2. FormsOK' /\ CallsOK(own2)'
  BY FormsMoved, CallsMoved
<1>3. AccountOK(own2)'
  BY <1>2 DEF AccountOK
<1>4. QED BY <1>1, <1>3 DEF AccountInv

(* The rows are right when each is a new one, or as before and not spent.  *)
LEMMA RowsMoved ==
  ASSUME NEW own, NEW own2, AccountOK(own), GrownTo(own, own2),
         DOMAIN rows' = Keys, rows' = [k \in Keys |-> rows'[k]],
         \A k \in Keys : rows'[k] # None =>
           \/ RowOK(rows'[k], k, issued', spent', own2)
           \/ rows'[k] = rows[k] /\ rows[k].code \notin spent'
  PROVE  RowsOK(own2)'
<1>1. ASSUME NEW k \in Keys, rows'[k] # None
      PROVE  RowOK(rows'[k], k, issued', spent', own2)
  <2>1. CASE rows'[k] = rows[k] /\ rows[k].code \notin spent'
    <3>1. RowOK(rows[k], k, issued, spent, own)
      BY <1>1, <2>1, RowThere
    <3>2. RowOK(rows[k], k, issued', spent', own2)
      BY <2>1, <3>1, RowGrown DEF GrownTo
    <3>3. QED BY <2>1, <3>2
  <2>2. QED BY <1>1, <2>1
<1>2. QED BY <1>1 DEF RowsOK

(* Once a row is consumed, none is left with its code.                     *)
LEMMA ConsumedRows ==
  ASSUME NEW own, AccountOK(own), NEW r, NEW k0 \in Keys,
         own[r.code] = [key |-> k0, id |-> r.id], NEW rs, rs = Account!Consumed(k0, r)
  PROVE  /\ DOMAIN rs = Keys /\ rs = [k \in Keys |-> rs[k]]
         /\ \A k \in Keys : rs[k] # None => rs[k] = rows[k] /\ rows[k].code # r.code
<1>1. DOMAIN rows = Keys /\ rows = [k \in Keys |-> rows[k]]
  BY DEF AccountOK, RowsOK
<1>2. CASE rows[k0] # None /\ rows[k0].id = r.id
  <2>1. rs = [rows EXCEPT ![k0] = None]
    BY <1>2 DEF Account!Consumed
  <2>2. DOMAIN rs = Keys /\ rs = [k \in Keys |-> rs[k]] /\ rs[k0] = None
    BY <1>1, <2>1
  <2>3. ASSUME NEW k \in Keys, rs[k] # None
        PROVE  rs[k] = rows[k] /\ rows[k].code # r.code
    <3>1. k # k0 /\ rs[k] = rows[k]
      BY <1>1, <2>1, <2>2, <2>3
    <3>2. own[rows[k].code] = [key |-> k, id |-> rows[k].id]
      BY <2>3, <3>1, RowThere
    <3>3. QED BY <3>1, <3>2
  <2>4. QED BY <2>2, <2>3
<1>3. CASE ~(rows[k0] # None /\ rows[k0].id = r.id)
  <2>1. rs = rows
    BY <1>3 DEF Account!Consumed
  <2>2. ASSUME NEW k \in Keys, rs[k] # None
        PROVE  rows[k].code # r.code
    <3>1. own[rows[k].code] = [key |-> k, id |-> rows[k].id]
      BY <2>1, <2>2, RowThere
    <3>2. SUFFICES ASSUME rows[k].code = r.code
                   PROVE  FALSE
      OBVIOUS
    <3>3. [key |-> k, id |-> rows[k].id] = [key |-> k0, id |-> r.id]
      BY <3>1, <3>2
    <3>4. k = k0 /\ rows[k].id = r.id
      BY <3>3
    <3>5. QED BY <1>3, <2>1, <2>2, <3>4
  <2>3. QED BY <1>1, <2>1, <2>2
<1>4. QED BY <1>2, <1>3

(* A code that is stored has a row, and an owner from then on.             *)
LEMMA UpsertedRight ==
  ASSUME SceneOK, NEW own, AccountOK(own), NEW k \in Keys, NEW at \in 0 .. MaxMinute, NEW n,
         n = issued + 1, NEW row, row = Account!Upserted(k, n, at)
  PROVE  n \in Nat /\ n \in 1 .. n /\ row \in RowsOf(n) /\ row.code = n
<1>1. MaxMinute \in Nat /\ Lifetime \in Nat /\ issued \in Nat /\ minute \in 0 .. MaxMinute
  BY FormsAssumption, Flows
<1>2. n \in Nat /\ issued <= n /\ n \in 1 .. n /\ at + Lifetime \in 0 .. (MaxMinute + Lifetime)
  BY <1>1
<1>3. CASE rows[k] = None
  <2>1. row = [id |-> n, code |-> n, created |-> minute, expires |-> at + Lifetime, attempts |-> 0]
    BY <1>3 DEF Account!Upserted
  <2>2. row \in RowsOf(n) /\ row.code = n
    BY <1>1, <1>2, <2>1 DEF RowsOf
  <2>3. QED BY <1>2, <2>2
<1>4. CASE rows[k] # None
  <2>1. PICK r : r = rows[k]
    OBVIOUS
  <2>2. r \in RowsOf(n)
    BY <1>1, <1>2, <1>4, <2>1, RowThere, MoreIssued
  <2>3. PICK e : e = at + Lifetime
    OBVIOUS
  <2>4. row = [r EXCEPT !.code = n, !.expires = e, !.attempts = 0]
    BY <1>4, <2>1, <2>3 DEF Account!Upserted
  <2>5. row \in RowsOf(n) /\ row.code = n
    <3>1. e \in 0 .. (MaxMinute + Lifetime) /\ n \in 1 .. n
      BY <1>2, <2>3
    <3>2. row = [id |-> r.id, code |-> n, created |-> r.created, expires |-> e, attempts |-> 0]
      BY <2>2, <2>4 DEF RowsOf
    <3>3. r.id \in 1 .. n /\ r.created \in 0 .. MaxMinute
      BY <2>2 DEF RowsOf
    <3>4. QED BY <3>1, <3>2, <3>3 DEF RowsOf
  <2>6. QED BY <1>2, <2>5
<1>5. QED BY <1>3, <1>4

(* A new code gets its owner.                                              *)
LEMMA OwnersGrow ==
  ASSUME NEW own \in Owners, NEW n \in Nat, NEW n2, n2 = n + 1, NEW k \in Keys, NEW id \in Nat
  PROVE  \E own2 \in Owners : /\ own2[n2] = [key |-> k, id |-> id]
                              /\ \A c \in 1 .. n : own2[c] = own[c]
<1>1. n2 \in Nat /\ \A c \in 1 .. n : c \in Nat /\ c # n2
  OBVIOUS
<1>2. PICK v : v = [key |-> k, id |-> id]
  OBVIOUS
<1>3. v \in [key : Keys, id : Nat]
  BY <1>2
<1>4. PICK o : o = [own EXCEPT ![n2] = v]
  OBVIOUS
<1>5. o \in Owners /\ o[n2] = v /\ \A c \in 1 .. n : o[c] = own[c]
  BY <1>1, <1>3, <1>4 DEF Owners
<1>6. QED BY <1>2, <1>5

(* What was received stays with its owners as more is issued.              *)
LEMMA PapersGrown ==
  ASSUME NEW n \in Nat, NEW n2 \in Nat, n <= n2, NEW ml, NEW gr, NEW own, NEW own2,
         PapersOK(n, ml, gr, own), \A c \in 1 .. n : own2[c] = own[c]
  PROVE  PapersOK(n2, ml, gr, own2)
<1>1. ml \subseteq MailsOf(n2) /\ gr \subseteq GrantsOf(n2)
  BY MoreIssued DEF PapersOK
<1>2. ASSUME NEW m \in ml
      PROVE  own2[m.code].key = <<m.email, m.purpose>>
  <2>1. m.code \in 1 .. n
    BY DEF PapersOK, MailsOf
  <2>2. QED BY <2>1 DEF PapersOK
<1>3. QED BY <1>1, <1>2 DEF PapersOK

(* A wrong code is counted on its row.                                     *)
LEMMA AccountCounted ==
  ASSUME SceneOK, NEW own \in Owners, AccountOK(own), NEW s \in Slots, Account!Count(s)
  PROVE  AccountInv'
<1>1. /\ UNCHANGED <<role, scene, minute, accounts, issued, mail, spent, grants>>
      /\ running[s] # None /\ Account!CodeRefused(s)
  BY DEF Account!Count, Account!Quiet, Account!setting, Account!At
<1>2. GrownTo(own, own) /\ issued \in Nat
  BY <1>1, Flows DEF GrownTo, Grown
<1>3. FormsMove /\ CallsMove(own)
  BY <1>1, CodeIsRefused
<1>4. DOMAIN rows = Keys /\ rows = [k \in Keys |-> rows[k]]
  BY DEF AccountOK, RowsOK
<1>5. PICK key : key = <<running[s].form.email, role[s[1]].flow>>
  OBVIOUS
<1>6. RowsOK(own)'
  <2>1. CASE rows[key] # None /\ rows[key].id = running[s].row.id
    <3>1. PICK row : row = [rows[key] EXCEPT !.attempts = @ + 1]
      OBVIOUS
    <3>2. rows' = [rows EXCEPT ![key] = row]
      BY <1>5, <2>1, <3>1 DEF Account!Count
    <3>3. /\ DOMAIN rows' = Keys /\ rows' = [k \in Keys |-> rows'[k]]
          /\ key \in Keys => rows'[key] = row
          /\ \A k \in Keys : k # key => rows'[k] = rows[k]
      BY <1>4, <3>2
    <3>4. ASSUME key \in Keys
          PROVE  RowOK(row, key, issued, spent, own)
      <4>1. RowOK(rows[key], key, issued, spent, own) /\ rows[key] \in RowsOf(issued)
        BY <2>1, <3>4, RowThere
      <4>2. row \in RowsOf(issued) /\ row.code = rows[key].code /\ row.id = rows[key].id
        BY <3>1, <4>1 DEF RowsOf
      <4>3. QED BY <4>1, <4>2 DEF RowOK
    <3>5. ASSUME NEW k \in Keys, rows'[k] # None
          PROVE  \/ RowOK(rows'[k], k, issued', spent', own)
                 \/ rows'[k] = rows[k] /\ rows[k].code \notin spent'
      <4>1. CASE k = key
        BY <1>1, <3>3, <3>4, <4>1
      <4>2. CASE k # key
        BY <1>1, <3>3, <3>5, <4>2, RowThere
      <4>3. QED BY <4>1, <4>2
    <3>6. QED BY <1>2, <3>3, <3>5, RowsMoved
  <2>2. CASE ~(rows[key] # None /\ rows[key].id = running[s].row.id)
    <3>1. rows' = rows
      BY <1>5, <2>2 DEF Account!Count
    <3>2. ASSUME NEW k \in Keys, rows'[k] # None
          PROVE  rows'[k] = rows[k] /\ rows[k].code \notin spent'
      BY <1>1, <3>1, <3>2, RowThere
    <3>3. QED BY <1>2, <1>4, <3>1, <3>2, RowsMoved
  <2>3. QED BY <2>1, <2>2
<1>7. /\ AccountsOK(accounts', issued', mail', grants') /\ AccountsLast
      /\ PapersOK(issued', mail', grants', own) /\ spent' \subseteq 1 .. issued'
      /\ issued' \in 0 .. MaxIssued
  BY <1>1 DEF AccountOK, AccountsLast, SceneOK
<1>8. QED BY <1>1, <1>2, <1>3, <1>6, <1>7, AccountServed

(* A code is stored in place of the one before it.                         *)
LEMMA AccountStored ==
  ASSUME SceneOK, NEW own \in Owners, AccountOK(own), NEW s \in Slots, Account!Store(s)
  PROVE  AccountInv'
<1>1. /\ UNCHANGED <<role, scene, minute, accounts, mail, spent, grants>>
      /\ running[s] # None /\ running[s].stage = "store" /\ issued < scene.issues /\ issued' = issued + 1
  BY DEF Account!Store, Account!Quiet, Account!setting, Account!At
<1>2. PICK c : c = running[s]
  OBVIOUS
<1>3. /\ CallOK(c, role[s[1]].flow, issued, mail, grants, spent, own) /\ c \in CallsOf(issued)
      /\ StageFits(role[s[1]].flow, c.form.step, "store") /\ issued \in Nat
  BY <1>1, <1>2, CallParts
<1>4. PICK n : n = issued + 1
  OBVIOUS
<1>5. n \in Nat /\ issued <= n /\ n \in 1 .. n /\ n \notin 1 .. issued /\ issued' = n
  BY <1>1, <1>3, <1>4
<1>6. role[s[1]].flow \in {"register", "reset"} /\ c.form.email \in Email
  BY <1>1, <1>2, <1>3 DEF CallOK, StageFits
<1>7. PICK key : key = <<c.form.email, role[s[1]].flow>>
  OBVIOUS
<1>8. key \in Keys
  BY <1>6, <1>7 DEF Keys
<1>9. c.at \in 0 .. MaxMinute
  BY <1>3 DEF CallsOf
<1>10. PICK row : row = Account!Upserted(key, n, c.at)
  OBVIOUS
<1>11. row \in RowsOf(n) /\ row.code = n
  BY <1>4, <1>8, <1>9, <1>10, UpsertedRight
<1>12. row.id \in Nat
  BY <1>5, <1>11 DEF RowsOf
<1>13. PICK own2 \in Owners : /\ own2[n] = [key |-> key, id |-> row.id]
                              /\ \A i \in 1 .. issued : own2[i] = own[i]
  BY <1>3, <1>4, <1>8, <1>12, OwnersGrow
<1>14. /\ own2 \in Owners /\ own2[n] = [key |-> key, id |-> row.id]
       /\ \A i \in 1 .. issued : own2[i] = own[i]
  BY <1>13
<1>15. GrownTo(own, own2)
  BY <1>1, <1>3, <1>5, <1>14 DEF GrownTo, Grown
<1>16. RowsOK(own2)'
  <2>1. DOMAIN rows = Keys /\ rows = [k \in Keys |-> rows[k]]
    BY DEF AccountOK, RowsOK
  <2>2. rows' = [rows EXCEPT ![key] = row]
    BY <1>2, <1>4, <1>7, <1>10 DEF Account!Store
  <2>3. /\ DOMAIN rows' = Keys /\ rows' = [k \in Keys |-> rows'[k]] /\ rows'[key] = row
        /\ \A k \in Keys : k # key => rows'[k] = rows[k]
    BY <1>8, <2>1, <2>2
  <2>4. n \notin spent'
    BY <1>1, <1>5 DEF AccountOK
  <2>5. RowOK(row, key, issued', spent', own2)
    BY <1>5, <1>11, <1>14, <2>4 DEF RowOK
  <2>6. ASSUME NEW k \in Keys, rows'[k] # None
        PROVE  \/ RowOK(rows'[k], k, issued', spent', own2)
               \/ rows'[k] = rows[k] /\ rows[k].code \notin spent'
    <3>1. CASE k = key
      BY <2>3, <2>5, <3>1
    <3>2. CASE k # key
      BY <1>1, <2>3, <2>6, <3>2, RowThere
    <3>3. QED BY <3>1, <3>2
  <2>7. QED BY <1>15, <2>3, <2>6, RowsMoved
<1>17. FormsMove /\ CallsMove(own2)
  <2>1. CallOK(c, role[s[1]].flow, n, mail, grants, spent, own2)
    <3>1. Grown(issued, n, mail, mail, grants, grants, spent, spent, own, own2)
      BY <1>3, <1>5, <1>14 DEF Grown
    <3>2. QED BY <1>3, <3>1, CallGrown
  <2>2. c \in CallsOf(n)
    BY <2>1 DEF CallOK
  <2>3. PICK x : x = [c EXCEPT !.stage = "mail", !.code = n]
    OBVIOUS
  <2>4. /\ x \in CallsOf(n) /\ x.form = c.form /\ x.stage = "mail" /\ x.row = c.row
        /\ x.code = n /\ x.late = c.late
    BY <1>5, <2>2, <2>3 DEF CallsOf, Stages
  <2>5. StageFits(role[s[1]].flow, x.form.step, x.stage)
    BY <1>3, <2>4 DEF StageFits
  <2>6. own2[x.code].key = <<x.form.email, role[s[1]].flow>>
    BY <1>7, <1>14, <2>4
  <2>7. c.stage = "store"
    BY <1>1, <1>2
  <2>8. CallOK(x, role[s[1]].flow, n, mail, grants, spent, own2)
    BY <1>5, <2>1, <2>4, <2>5, <2>6, <2>7 DEF CallOK
  <2>9. Account!Proceed(s, x)
    BY <1>2, <1>4, <2>3 DEF Account!Store
  <2>10. CallOK(x, role[s[1]].flow, issued', mail', grants', spent', own2)
    BY <1>1, <1>5, <2>8
  <2>11. QED BY <1>1, <1>2, <2>4, <2>9, <2>10, Proceeded
<1>18. AccountsOK(accounts', issued', mail', grants') /\ AccountsLast
  <2>1. AccountsOK(accounts, issued', mail', grants')
    BY <1>15, AccountsGrown DEF GrownTo, AccountOK
  <2>2. QED BY <1>1, <2>1 DEF AccountsLast
<1>19. PapersOK(issued', mail', grants', own2)
  BY <1>1, <1>3, <1>5, <1>14, PapersGrown DEF AccountOK
<1>20. spent' \subseteq 1 .. issued'
  BY <1>1, <1>3, <1>5, MoreIssued DEF AccountOK
<1>21. issued' \in 0 .. MaxIssued
  BY <1>1, <1>3, FormsAssumption DEF SceneOK
<1>22. QED BY <1>1, <1>14, <1>15, <1>16, <1>17, <1>18, <1>19, <1>20, <1>21, AccountServed

(* The stored code is mailed to its address.                               *)
LEMMA AccountMailed ==
  ASSUME SceneOK, NEW own \in Owners, AccountOK(own), NEW s \in Slots, Account!Mail(s)
  PROVE  AccountInv'
<1>1. /\ UNCHANGED <<role, scene, minute, accounts, rows, issued, spent, grants>>
      /\ running[s] # None /\ running[s].stage = "mail"
  BY DEF Account!Mail, Account!Quiet, Account!setting, Account!At
<1>2. CASE Account!Unchanged(s) /\ UNCHANGED mail
  BY <1>1, <1>2, Refused, AccountQuiet
<1>3. CASE ~(Account!Unchanged(s) /\ UNCHANGED mail)
  <2>1. PICK c : c = running[s]
    OBVIOUS
  <2>2. PICK m : m = [email |-> c.form.email, purpose |-> role[s[1]].flow, code |-> c.code]
    OBVIOUS
  <2>3. mail' = mail \cup {m} /\ Account!NextStep(s, "code")
    BY <1>3, <2>1, <2>2 DEF Account!Mail
  <2>4. /\ CallOK(c, role[s[1]].flow, issued, mail, grants, spent, own)
        /\ StageFits(role[s[1]].flow, c.form.step, "mail") /\ issued \in Nat
    BY <1>1, <2>1, CallParts
  <2>5. /\ role[s[1]].flow \in {"register", "reset"} /\ c.form.email \in Email
        /\ c.code \in 1 .. issued /\ own[c.code].key = <<c.form.email, role[s[1]].flow>>
    BY <1>1, <2>1, <2>4 DEF CallOK, StageFits
  <2>6. /\ m \in MailsOf(issued) /\ m.code = c.code /\ m.email = c.form.email
        /\ m.purpose = role[s[1]].flow
    BY <2>2, <2>5 DEF MailsOf
  <2>7. GrownTo(own, own)
    BY <1>1, <2>3, <2>4 DEF GrownTo, Grown
  <2>8. PICK f : f = [c.form EXCEPT !.step = "code"]
    OBVIOUS
  <2>9. FormOK(f, role[s[1]].flow, issued, mail, grants) /\ f.step # "done"
    BY <1>1, <2>1, <2>4, <2>8, CodeStep
  <2>10. FormOK(f, role[s[1]].flow, issued', mail', grants')
    BY <2>7, <2>9, FormGrown DEF GrownTo
  <2>11. Account!Answer(s, f)
    BY <2>1, <2>3, <2>8 DEF Account!NextStep
  <2>12. FormsMove /\ CallsMove(own)
    BY <1>1, <2>9, <2>10, <2>11, Answered
  <2>13. AccountsOK(accounts', issued', mail', grants') /\ AccountsLast
    <3>1. AccountsOK(accounts, issued', mail', grants')
      BY <2>7, AccountsGrown DEF GrownTo, AccountOK
    <3>2. QED BY <1>1, <3>1 DEF AccountsLast
  <2>14. PapersOK(issued', mail', grants', own)
    BY <1>1, <2>3, <2>5, <2>6 DEF AccountOK, PapersOK
  <2>15. RowsOK(own)'
    BY <1>1 DEF AccountOK, RowsOK
  <2>16. spent' \subseteq 1 .. issued' /\ issued' \in 0 .. MaxIssued
    BY <1>1 DEF AccountOK, SceneOK
  <2>17. QED BY <1>1, <2>7, <2>12, <2>13, <2>14, <2>15, <2>16, AccountServed
<1>4. QED BY <1>2, <1>3

\* A code that was received and matched a row was mailed for it.
LEMMA MailedFor ==
  ASSUME NEW own, AccountOK(own), NEW f, NEW flow, FormOK(f, flow, issued, mail, grants),
         f.code \in 1 .. issued, issued \in Nat, NEW id,
         own[f.code] = [key |-> <<f.email, flow>>, id |-> id]
  PROVE  [email |-> f.email, purpose |-> flow, code |-> f.code] \in mail
<1>1. f.code \in Nat /\ f.code # 0
  OBVIOUS
<1>2. f.code \notin {None, 0}
  BY <1>1, NoneIsNoNumber
<1>3. PICK m \in mail : m.code = f.code
  BY <1>2 DEF FormOK
<1>4. m \in MailsOf(issued) /\ own[m.code].key = <<m.email, m.purpose>>
  BY DEF AccountOK, PapersOK
<1>5. own[f.code].key = <<f.email, flow>>
  OBVIOUS
<1>6. m.email = f.email /\ m.purpose = flow
  BY <1>3, <1>4, <1>5
<1>7. m = [email |-> m.email, purpose |-> m.purpose, code |-> m.code]
  BY <1>4 DEF MailsOf
<1>8. QED BY <1>3, <1>6, <1>7

(* A registration spends its code and makes an account.                    *)
LEMMA AccountRegistered ==
  ASSUME SceneOK, NEW own \in Owners, AccountOK(own), NEW s \in Slots, Account!Register(s)
  PROVE  AccountInv'
<1>1. /\ UNCHANGED <<role, scene, minute, issued, mail, grants>>
      /\ running[s] # None /\ running[s].stage = "register"
  BY DEF Account!Register, Account!Quiet, Account!setting, Account!At
<1>2. CASE Account!Taken(running[s].form.email, running[s].form.name)
  <2>1. Account!Unchanged(s) /\ UNCHANGED <<accounts, rows, spent>>
    BY <1>2 DEF Account!Register
  <2>2. QED BY <1>1, <2>1, Refused, AccountQuiet
<1>3. CASE ~Account!Taken(running[s].form.email, running[s].form.name)
  <2>1. PICK c : c = running[s]
    OBVIOUS
  <2>2. PICK h : h = c.form
    OBVIOUS
  <2>3. PICK a : a = [email |-> h.email, name |-> h.name, password |-> h.password,
                      proof |-> h.code, by |-> s[1]]
    OBVIOUS
  <2>4. /\ accounts' = accounts \cup {a} /\ rows' = Account!Consumed(<<h.email, "register">>, c.row)
        /\ spent' = spent \cup {h.code} /\ Account!NextStep(s, "done")
    BY <1>3, <2>1, <2>2, <2>3 DEF Account!Register
  <2>5. /\ CallOK(c, role[s[1]].flow, issued, mail, grants, spent, own) /\ h \in FormsOf(issued)
        /\ FormOK(h, role[s[1]].flow, issued, mail, grants) /\ s[1] \in Device
        /\ StageFits(role[s[1]].flow, h.step, "register") /\ issued \in Nat
    BY <1>1, <2>1, <2>2, CallParts
  <2>6. role[s[1]].flow = "register" /\ h.step = "code"
    BY <2>5 DEF StageFits
  <2>7. h.email \in Email /\ h.name \in Name /\ h.password \in Password /\ h.token = None
    BY <2>5, <2>6 DEF FormOK, StepFits
  <2>8. /\ c.row \in RowsOf(issued) /\ c.row.code = h.code
        /\ own[c.row.code] = [key |-> <<h.email, "register">>, id |-> c.row.id]
    BY <1>1, <2>1, <2>2, <2>5, <2>6 DEF CallOK
  <2>9. h.code \in 1 .. issued
    BY <2>8 DEF RowsOf
  <2>10. [email |-> h.email, purpose |-> "register", code |-> h.code] \in mail
    BY <2>5, <2>6, <2>8, <2>9, MailedFor
  <2>11. GrownTo(own, own) /\ spent' \subseteq 1 .. issued' /\ issued' \in 0 .. MaxIssued
    <3>1. spent \subseteq 1 .. issued /\ issued \in 0 .. MaxIssued
      BY DEF AccountOK, SceneOK
    <3>2. GrownTo(own, own)
      BY <1>1, <2>4, <2>5 DEF GrownTo, Grown
    <3>3. spent' \subseteq 1 .. issued
      BY <2>4, <2>9, <3>1
    <3>4. QED BY <1>1, <3>1, <3>2, <3>3
  <2>12. /\ a \in AccountsOf(issued) /\ a.email = h.email /\ a.name = h.name /\ a.by = s[1]
         /\ a.proof = h.code
    BY <2>3, <2>5, <2>7, <2>9 DEF AccountsOf
  <2>13. \A b \in accounts : b.email # a.email /\ b.name # a.name
    BY <1>3, <2>1, <2>2, <2>12 DEF Account!Taken
  <2>14. AccountsOK(accounts', issued', mail', grants') /\ AccountsLast
    <3>1. Proved(a, mail, grants)
      BY <2>10, <2>12 DEF Proved
    <3>2. AccountsOK(accounts, issued, mail, grants)
      BY DEF AccountOK
    <3>3. accounts' \subseteq AccountsOf(issued) /\ \A b \in accounts' : Proved(b, mail, grants)
      BY <2>4, <2>12, <3>1, <3>2 DEF AccountsOK
    <3>4. \A b1, b2 \in accounts' : b1.email = b2.email \/ b1.name = b2.name => b1 = b2
      BY <2>4, <2>13, <3>2 DEF AccountsOK
    <3>5. QED BY <1>1, <2>4, <3>3, <3>4 DEF AccountsOK, AccountsLast
  <2>15. PapersOK(issued', mail', grants', own)
    BY <1>1 DEF AccountOK
  <2>16. RowsOK(own)'
    <3>1. <<h.email, "register">> \in Keys
      BY <2>7 DEF Keys
    <3>2. /\ DOMAIN rows' = Keys /\ rows' = [k \in Keys |-> rows'[k]]
          /\ \A k \in Keys : rows'[k] # None => rows'[k] = rows[k] /\ rows[k].code # c.row.code
      BY <2>4, <2>8, <3>1, ConsumedRows
    <3>3. ASSUME NEW k \in Keys, rows'[k] # None
          PROVE  rows'[k] = rows[k] /\ rows[k].code \notin spent'
      BY <2>4, <2>8, <3>2, <3>3, RowThere
    <3>4. QED BY <2>11, <3>2, <3>3, RowsMoved
  <2>17. FormsMove /\ CallsMove(own)
    <3>1. PICK f : f = [h EXCEPT !.step = "done"]
      OBVIOUS
    <3>2. "done" \in Steps
      BY DEF Steps
    <3>3. /\ f \in FormsOf(issued) /\ f.step = "done" /\ f.email = h.email /\ f.name = h.name
          /\ f.password = h.password /\ f.code = h.code /\ f.token = h.token
      BY <2>5, <3>1, <3>2, FormAtStep
    <3>4. StepFits(f, "register")
      BY <2>7, <3>3 DEF StepFits
    <3>5. FormOK(f, "register", issued, mail, grants)
      BY <2>5, <2>7, <3>3, <3>4 DEF FormOK
    <3>6. Made(accounts', f, s[1])
      BY <2>4, <2>12, <3>3 DEF Made
    <3>7. Account!Answer(s, f)
      BY <2>1, <2>2, <2>4, <3>1 DEF Account!NextStep
    <3>8. QED BY <1>1, <2>6, <3>5, <3>6, <3>7, Answered
  <2>18. QED BY <1>1, <2>11, <2>14, <2>15, <2>16, <2>17, AccountServed
<1>4. QED BY <1>2, <1>3

(* A reset spends its token and sets the password.                         *)
LEMMA AccountChanged ==
  ASSUME SceneOK, NEW own \in Owners, AccountOK(own), NEW s \in Slots, Account!Change(s)
  PROVE  AccountInv'
<1>1. /\ UNCHANGED <<role, scene, minute, issued, mail, grants>>
      /\ running[s] # None /\ running[s].stage = "change"
  BY DEF Account!Change, Account!Quiet, Account!setting, Account!At
<1>2. PICK c : c = running[s]
  OBVIOUS
<1>3. PICK h : h = c.form
  OBVIOUS
<1>4. /\ rows' = Account!Consumed(<<h.email, "grant">>, c.row)
      /\ accounts' = {IF a.email = h.email
                      THEN [a EXCEPT !.password = h.password, !.proof = h.token] ELSE a :
                        a \in accounts}
      /\ spent' = spent \cup {h.token} /\ Account!Answer(s, Account!Changed(s, h))
  BY <1>2, <1>3 DEF Account!Change
<1>5. /\ CallOK(c, role[s[1]].flow, issued, mail, grants, spent, own) /\ h \in FormsOf(issued)
      /\ FormOK(h, role[s[1]].flow, issued, mail, grants) /\ s[1] \in Device
      /\ StageFits(role[s[1]].flow, h.step, "change") /\ issued \in Nat
  BY <1>1, <1>2, <1>3, CallParts
<1>6. role[s[1]].flow = "reset" /\ h.step = "password"
  BY <1>5 DEF StageFits
<1>7. h.email \in Email
  BY <1>5, <1>6 DEF FormOK, StepFits
<1>8. /\ c.row \in RowsOf(issued) /\ c.row.code = h.token /\ h.password \in Password
      /\ own[c.row.code] = [key |-> <<h.email, "grant">>, id |-> c.row.id]
  BY <1>1, <1>2, <1>3, <1>5 DEF CallOK
<1>9. h.token \in 1 .. issued /\ h.token # None
  <2>1. h.token \in 1 .. issued
    BY <1>8 DEF RowsOf
  <2>2. h.token \in Nat
    BY <2>1
  <2>3. QED BY <2>1, <2>2, NoneIsNoNumber
<1>10. PICK g \in grants : g.token = h.token /\ g.email = h.email
  BY <1>5, <1>9 DEF FormOK
<1>11. [email |-> g.email, purpose |-> "reset", code |-> g.code] \in mail
  BY DEF AccountOK, PapersOK
<1>12. GrownTo(own, own) /\ spent' \subseteq 1 .. issued' /\ issued' \in 0 .. MaxIssued
  <2>1. spent \subseteq 1 .. issued /\ issued \in 0 .. MaxIssued
    BY DEF AccountOK, SceneOK
  <2>2. GrownTo(own, own)
    <3>1. spent \subseteq spent' /\ issued \in Nat
      BY <1>4, <1>5
    <3>2. QED BY <1>1, <3>1 DEF GrownTo, Grown
  <2>3. spent' \subseteq 1 .. issued
    BY <1>4, <1>9, <2>1
  <2>4. QED BY <1>1, <2>1, <2>2, <2>3
<1>13. AccountsOK(accounts, issued, mail, grants)
  BY DEF AccountOK
<1>14. ASSUME NEW a \in accounts, NEW b,
              b = IF a.email = h.email
                  THEN [a EXCEPT !.password = h.password, !.proof = h.token] ELSE a
       PROVE  /\ b \in AccountsOf(issued) /\ b.email = a.email /\ b.name = a.name /\ b.by = a.by
              /\ Proved(b, mail, grants)
  <2>1. a \in AccountsOf(issued) /\ Proved(a, mail, grants)
    BY <1>13 DEF AccountsOK
  <2>2. CASE a.email = h.email
    <3>1. b = [a EXCEPT !.password = h.password, !.proof = h.token]
      BY <1>14, <2>2
    <3>2. /\ b \in AccountsOf(issued) /\ b.email = a.email /\ b.name = a.name /\ b.by = a.by
          /\ b.proof = h.token
      BY <1>8, <1>9, <2>1, <3>1 DEF AccountsOf
    <3>3. QED BY <1>10, <1>11, <2>2, <3>2 DEF Proved
  <2>3. CASE a.email # h.email
    BY <1>14, <2>1, <2>3
  <2>4. QED BY <2>2, <2>3
<1>15. AccountsOK(accounts', issued', mail', grants') /\ AccountsLast
  <2>1. ASSUME NEW b \in accounts'
        PROVE  \E a \in accounts : b = IF a.email = h.email
                 THEN [a EXCEPT !.password = h.password, !.proof = h.token] ELSE a
    BY <1>4
  <2>2. accounts' \subseteq AccountsOf(issued) /\ \A b \in accounts' : Proved(b, mail, grants)
    BY <1>14, <2>1
  <2>3. ASSUME NEW b1 \in accounts', NEW b2 \in accounts', b1.email = b2.email \/ b1.name = b2.name
        PROVE  b1 = b2
    <3>1. PICK a1 \in accounts : b1 = IF a1.email = h.email
            THEN [a1 EXCEPT !.password = h.password, !.proof = h.token] ELSE a1
      BY <2>1
    <3>2. PICK a2 \in accounts : b2 = IF a2.email = h.email
            THEN [a2 EXCEPT !.password = h.password, !.proof = h.token] ELSE a2
      BY <2>1
    <3>3. b1.email = a1.email /\ b1.name = a1.name
      BY <3>1, <1>14
    <3>4. b2.email = a2.email /\ b2.name = a2.name
      BY <3>2, <1>14
    <3>5. a1 = a2
      BY <2>3, <3>3, <3>4, <1>13 DEF AccountsOK
    <3>6. QED BY <3>1, <3>2, <3>5
  <2>4. ASSUME NEW a \in accounts
        PROVE  \E b \in accounts' : b.email = a.email /\ b.name = a.name /\ b.by = a.by
    <3>1. PICK b : b = IF a.email = h.email
            THEN [a EXCEPT !.password = h.password, !.proof = h.token] ELSE a
      OBVIOUS
    <3>2. b \in accounts'
      BY <1>4, <3>1
    <3>3. b.email = a.email /\ b.name = a.name /\ b.by = a.by
      BY <3>1, <1>14
    <3>4. QED BY <3>2, <3>3
  <2>5. QED BY <1>1, <2>2, <2>3, <2>4 DEF AccountsOK, AccountsLast
<1>16. PapersOK(issued', mail', grants', own)
  BY <1>1 DEF AccountOK
<1>17. RowsOK(own)'
  <2>1. PICK key : key = <<h.email, "grant">>
    OBVIOUS
  <2>2. /\ DOMAIN rows' = Keys /\ rows' = [k \in Keys |-> rows'[k]]
        /\ \A k \in Keys : rows'[k] # None => rows'[k] = rows[k] /\ rows[k].code # c.row.code
    <3>1. key \in Keys
      BY <1>7, <2>1 DEF Keys
    <3>2. rows' = Account!Consumed(key, c.row) /\ own[c.row.code] = [key |-> key, id |-> c.row.id]
      BY <1>4, <1>8, <2>1
    <3>3. QED BY <3>1, <3>2, ConsumedRows
  <2>3. ASSUME NEW k \in Keys, rows'[k] # None
        PROVE  rows'[k] = rows[k] /\ rows[k].code \notin spent'
    BY <1>4, <1>8, <2>2, <2>3, RowThere
  <2>4. QED BY <1>12, <2>2, <2>3, RowsMoved
<1>18. FormsMove /\ CallsMove(own)
  <2>1. PICK p : p = IF role[s[1]].client = "mobile" THEN None ELSE h.password
    OBVIOUS
  <2>2. PICK f : f = [h EXCEPT !.step = "done", !.password = p]
    OBVIOUS
  <2>3. p \in Password \cup {None}
    BY <1>8, <2>1
  <2>4. /\ f \in FormsOf(issued) /\ f.step = "done" /\ f.email = h.email
        /\ f.code = h.code /\ f.token = h.token
    BY <1>5, <2>2, <2>3 DEF FormsOf, Steps
  <2>5. StepFits(f, "reset")
    BY <1>7, <2>4 DEF StepFits
  <2>6. FormOK(f, "reset", issued, mail, grants)
    BY <1>5, <1>6, <2>4, <2>5 DEF FormOK
  <2>7. Account!Answer(s, f)
    BY <1>4, <2>1, <2>2 DEF Account!Changed
  <2>8. QED BY <1>1, <1>6, <2>6, <2>7, Answered
<1>19. QED BY <1>1, <1>12, <1>15, <1>16, <1>17, <1>18, AccountServed

(* The code of a reset is spent and a token granted for it.                *)
LEMMA AccountExchanged ==
  ASSUME SceneOK, NEW own \in Owners, AccountOK(own), NEW s \in Slots, Account!Exchange(s)
  PROVE  AccountInv'
<1>1. /\ UNCHANGED <<role, scene, minute, accounts, mail>>
      /\ running[s] # None /\ running[s].stage = "reset" /\ issued < scene.issues /\ issued' = issued + 1
  BY DEF Account!Exchange, Account!Quiet, Account!setting, Account!At
<1>2. PICK c : c = running[s]
  OBVIOUS
<1>3. PICK h : h = c.form
  OBVIOUS
<1>4. PICK n : n = issued + 1
  OBVIOUS
<1>5. PICK key : key = <<h.email, "grant">>
  OBVIOUS
<1>6. PICK rs : rs = Account!Consumed(<<h.email, "reset">>, c.row)
  OBVIOUS
<1>7. PICK row : row = Account!Upserted(key, n, c.at)
  OBVIOUS
<1>8. PICK g : g = [token |-> n, email |-> h.email, code |-> h.code]
  OBVIOUS
<1>9. PICK f : f = [h EXCEPT !.step = "password", !.token = n]
  OBVIOUS
<1>10. /\ rows' = [rs EXCEPT ![key] = row] /\ spent' = spent \cup {h.code}
       /\ grants' = grants \cup {g} /\ Account!Answer(s, f)
  BY <1>2, <1>3, <1>4, <1>5, <1>6, <1>7, <1>8, <1>9 DEF Account!Exchange
<1>11. /\ CallOK(c, role[s[1]].flow, issued, mail, grants, spent, own) /\ h \in FormsOf(issued)
       /\ FormOK(h, role[s[1]].flow, issued, mail, grants) /\ c \in CallsOf(issued)
       /\ StageFits(role[s[1]].flow, h.step, "reset") /\ issued \in Nat
  BY <1>1, <1>2, <1>3, CallParts
<1>12. role[s[1]].flow = "reset" /\ h.step = "code"
  BY <1>11 DEF StageFits
<1>13. h.email \in Email
  BY <1>11, <1>12 DEF FormOK, StepFits
<1>14. /\ c.row \in RowsOf(issued) /\ c.row.code = h.code
       /\ own[c.row.code] = [key |-> <<h.email, "reset">>, id |-> c.row.id]
  BY <1>1, <1>2, <1>3, <1>11, <1>12 DEF CallOK
<1>15. h.code \in 1 .. issued
  BY <1>14 DEF RowsOf
<1>16. [email |-> h.email, purpose |-> "reset", code |-> h.code] \in mail
  BY <1>11, <1>12, <1>14, <1>15, MailedFor
<1>17. n \in Nat /\ issued <= n /\ n \in 1 .. n /\ n \notin 1 .. issued /\ issued' = n
  BY <1>1, <1>4, <1>11
<1>18. key \in Keys /\ c.at \in 0 .. MaxMinute
  BY <1>5, <1>11, <1>13 DEF Keys, CallsOf
<1>19. row \in RowsOf(n) /\ row.code = n
  BY <1>4, <1>7, <1>18, UpsertedRight
<1>20. row.id \in Nat
  BY <1>17, <1>19 DEF RowsOf
<1>21. PICK own2 \in Owners : /\ own2[n] = [key |-> key, id |-> row.id]
                              /\ \A i \in 1 .. issued : own2[i] = own[i]
  BY <1>4, <1>11, <1>18, <1>20, OwnersGrow
<1>22. spent \subseteq spent' /\ grants \subseteq grants'
  BY <1>10
<1>23. GrownTo(own, own2)
  BY <1>1, <1>11, <1>17, <1>21, <1>22 DEF GrownTo, Grown
<1>24. spent' \subseteq 1 .. issued /\ n \notin spent'
  <2>1. spent \subseteq 1 .. issued
    BY DEF AccountOK
  <2>2. spent' \subseteq 1 .. issued
    BY <1>10, <1>15, <2>1
  <2>3. QED BY <1>17, <2>2
<1>25. spent' \subseteq 1 .. issued' /\ issued' \in 0 .. MaxIssued
  <2>1. spent' \subseteq 1 .. n
    BY <1>11, <1>17, <1>24, MoreIssued
  <2>2. issued' \in 0 .. MaxIssued
    BY <1>1, <1>11, FormsAssumption DEF SceneOK
  <2>3. QED BY <1>17, <2>1, <2>2
<1>26. AccountsOK(accounts', issued', mail', grants') /\ AccountsLast
  <2>1. AccountsOK(accounts, issued', mail', grants')
    BY <1>23, AccountsGrown DEF GrownTo, AccountOK
  <2>2. QED BY <1>1, <2>1 DEF AccountsLast
<1>27. g \in GrantsOf(n) /\ g.token = n /\ g.email = h.email /\ g.code = h.code
  <2>1. h.code \in 1 .. n
    BY <1>11, <1>15, <1>17, MoreIssued
  <2>2. QED BY <1>8, <1>13, <1>17, <2>1 DEF GrantsOf
<1>28. PapersOK(issued', mail', grants', own2)
  <2>1. PapersOK(n, mail, grants, own2)
    BY <1>11, <1>17, <1>21, PapersGrown DEF AccountOK
  <2>2. QED BY <1>1, <1>10, <1>16, <1>17, <1>27, <2>1 DEF PapersOK
<1>29. RowsOK(own2)'
  <2>1. /\ DOMAIN rs = Keys /\ rs = [k \in Keys |-> rs[k]]
        /\ \A k \in Keys : rs[k] # None => rs[k] = rows[k] /\ rows[k].code # c.row.code
    <3>1. PICK k0 : k0 = <<h.email, "reset">>
      OBVIOUS
    <3>2. k0 \in Keys
      BY <1>13, <3>1 DEF Keys
    <3>3. rs = Account!Consumed(k0, c.row) /\ own[c.row.code] = [key |-> k0, id |-> c.row.id]
      BY <1>6, <1>14, <3>1
    <3>4. QED BY <3>2, <3>3, ConsumedRows
  <2>2. /\ DOMAIN rows' = Keys /\ rows' = [k \in Keys |-> rows'[k]] /\ rows'[key] = row
        /\ \A k \in Keys : k # key => rows'[k] = rs[k]
    BY <1>10, <1>18, <2>1
  <2>3. RowOK(row, key, issued', spent', own2)
    BY <1>17, <1>19, <1>21, <1>24 DEF RowOK
  <2>4. ASSUME NEW k \in Keys, rows'[k] # None
        PROVE  \/ RowOK(rows'[k], k, issued', spent', own2)
               \/ rows'[k] = rows[k] /\ rows[k].code \notin spent'
    <3>1. CASE k = key
      BY <2>2, <2>3, <3>1
    <3>2. CASE k # key
      <4>1. rows'[k] = rows[k] /\ rows[k].code # h.code /\ rows[k] # None
        BY <1>14, <2>1, <2>2, <2>4, <3>2
      <4>2. rows[k].code \notin spent
        BY <4>1, RowThere
      <4>3. QED BY <1>10, <4>1, <4>2
    <3>3. QED BY <3>1, <3>2
  <2>5. QED BY <1>23, <2>2, <2>4, RowsMoved
<1>30. FormsMove /\ CallsMove(own2)
  <2>1. h \in FormsOf(n)
    BY <1>11, <1>17, MoreIssued
  <2>2. /\ f \in FormsOf(n) /\ f.step = "password" /\ f.email = h.email /\ f.code = h.code
        /\ f.token = n
    BY <1>9, <1>17, <2>1 DEF FormsOf, Steps
  <2>3. StepFits(f, "reset")
    BY <1>13, <2>2 DEF StepFits
  <2>4. f.code \notin {None, 0} => \E m \in mail : m.code = f.code
    BY <1>11, <2>2 DEF FormOK
  <2>5. \E x \in grants' : x.token = f.token /\ x.email = f.email
    BY <1>10, <1>27, <2>2
  <2>6. FormOK(f, "reset", issued', mail', grants')
    BY <1>1, <1>17, <2>2, <2>3, <2>4, <2>5 DEF FormOK
  <2>7. QED BY <1>1, <1>10, <1>12, <2>6, Answered
<1>31. QED BY <1>1, <1>21, <1>23, <1>25, <1>26, <1>28, <1>29, <1>30, AccountServed

(* Every step of the forms without a session keeps the invariant.          *)
LEMMA AccountSteps ==
  ASSUME AccountInv, [Account!Next]_(Account!vars)
  PROVE  AccountInv'
<1>1. PICK own \in Owners : AccountOK(own)
  BY DEF AccountInv
<1>2. SceneOK
  BY DEF AccountInv
<1>3. CASE \E d \in Device : Account!Fill(d) \/ Account!Submit(d) \/ Account!Back(d)
                             \/ Account!Leave(d) \/ Account!AnswerLost(d)
  BY <1>1, <1>2, <1>3, AccountFilled, AccountSubmitted, AccountLeft, AccountAnswerLost
<1>4. CASE \E s \in Account!Slot : Account!Serve(s)
  <2>1. PICK s \in Slots : Account!Serve(s)
    BY <1>4 DEF Account!Slot, Slots
  <2>2. CASE Account!CheckAvailability(s) \/ Account!Request(s) \/ Account!Look(s)
             \/ Account!Redeem(s) \/ Account!SignIn(s)
    BY <1>1, <1>2, <2>2, AccountChecked, AccountRequested, AccountLooked, AccountRedeemed, AccountSignedIn
  <2>3. CASE Account!Store(s) \/ Account!Mail(s) \/ Account!Count(s)
    BY <1>1, <1>2, <2>3, AccountStored, AccountMailed, AccountCounted
  <2>4. CASE Account!Register(s) \/ Account!Exchange(s) \/ Account!Change(s)
    BY <1>1, <1>2, <2>4, AccountRegistered, AccountExchanged, AccountChanged
  <2>5. QED BY <2>1, <2>2, <2>3, <2>4 DEF Account!Serve
<1>5. CASE Account!Tick \/ UNCHANGED Account!vars
  BY <1>1, <1>2, <1>5, AccountTicked
<1>6. QED BY <1>3, <1>4, <1>5 DEF Account!Next

(* The invariant says that the tables, forms and calls are of their types. *)
LEMMA AccountTyped ==
  ASSUME AccountInv
  PROVE  Account!TypeOK
<1>1. PICK own \in Owners : AccountOK(own)
  BY DEF AccountInv
<1>2. /\ minute \in 0 .. MaxMinute /\ issued \in 0 .. MaxIssued
      /\ MaxMinute \in Nat /\ Lifetime \in Nat
  BY FormsAssumption DEF AccountInv, SceneOK
<1>3. 0 .. MaxMinute \subseteq 0 .. (MaxMinute + Lifetime)
  BY <1>2
<1>4. FormsOf(issued) = Account!Form
  BY DEF FormsOf, Steps, Account!Form, Account!Serial
<1>5. RowsOf(issued) \subseteq Account!Row
  BY <1>3 DEF RowsOf, Account!Row, Account!Serial, Account!Minutes
<1>6. CallsOf(issued) \subseteq Account!Call
  BY <1>3, <1>4, <1>5 DEF CallsOf, Stages, Account!Call, Account!Serial, Account!Minutes, Account!Stage
<1>7. forms \in [Device -> Account!Form]
  BY <1>1, <1>4 DEF AccountOK, FormsOK, FormOK
<1>8. running \in [Account!Slot -> Account!Call \cup {None}]
  <2>1. \A s \in Slots : running[s] \in Account!Call \cup {None}
    BY <1>1, <1>6 DEF AccountOK, CallsOK, CallOK
  <2>2. QED BY <1>1, <2>1 DEF AccountOK, CallsOK, Slots, Account!Slot
<1>9. rows \in [Email \X Account!Purpose -> Account!Row \cup {None}]
  <2>1. \A k \in Keys : rows[k] \in Account!Row \cup {None}
    BY <1>1, <1>5, RowThere
  <2>2. QED BY <1>1, <2>1 DEF AccountOK, RowsOK, Keys, Account!Purpose
<1>10. /\ accounts \subseteq [email : Email, name : Name, password : Password,
                              proof : Account!Serial \cup {None}, by : Device \cup {None}]
       /\ mail \subseteq [email : Email, purpose : Account!Purpose, code : Account!Serial]
       /\ spent \subseteq Account!Serial
       /\ grants \subseteq [token : Account!Serial, email : Email, code : Account!Serial]
  BY <1>1 DEF AccountOK, AccountsOK, PapersOK, AccountsOf, MailsOf, GrantsOf, Account!Serial,
              Account!Purpose
<1>11. QED BY <1>2, <1>7, <1>8, <1>9, <1>10 DEF Account!TypeOK

(* What a device waits for was sent from the form it shows.                *)
LEMMA AccountShowsWhatIsSent ==
  ASSUME AccountInv
  PROVE  Account!WhatIsSentIsOnTheForm
<1>1. PICK own \in Owners : AccountOK(own)
  BY DEF AccountInv
<1>2. ASSUME NEW d \in Device, Account!Loading(d)
      PROVE  running[<<d, TRUE>>].form = forms[d]
  <2>1. PICK s : s = <<d, TRUE>>
    OBVIOUS
  <2>2. s \in Slots /\ s[1] = d /\ s[2] = TRUE
    BY <2>1, SlotParts
  <2>3. running[s] # None
    BY <1>2, <2>1 DEF Account!Loading
  <2>4. running[s].form = forms[s[1]]
    BY <1>1, <2>2, <2>3 DEF AccountOK, CallsOK
  <2>5. QED BY <2>1, <2>2, <2>4
<1>3. QED BY <1>2 DEF Account!WhatIsSentIsOnTheForm

(* Accounts are told apart, and a form that is done has made its own.      *)
LEMMA AccountsAreTold ==
  ASSUME AccountInv
  PROVE  Account!OneAccountPerForm /\ Account!AddressIsVerified
<1>1. PICK own \in Owners : AccountOK(own)
  BY DEF AccountInv
<1>2. \A a, b \in accounts : a.email = b.email \/ a.name = b.name => a = b
  BY <1>1 DEF AccountOK, AccountsOK
<1>3. \A d \in Device : role[d].flow = "register" /\ forms[d].step = "done" => Made(accounts, forms[d], d)
  BY <1>1 DEF AccountOK, FormsOK
<1>4. \A a \in accounts : Proved(a, mail, grants)
  BY <1>1 DEF AccountOK, AccountsOK
<1>5. Account!OneAccountPerForm
  BY <1>2, <1>3 DEF Account!OneAccountPerForm, Made
<1>6. Account!AddressIsVerified
  BY <1>4 DEF Account!AddressIsVerified, Proved
<1>7. QED BY <1>5, <1>6

(* What gives an account, a password or a token ends one call, and the     *)
(* code or token of that call had done nothing before.                     *)
LEMMA AccountHarmless ==
  ASSUME AccountInv, [Account!Next]_(Account!vars)
  PROVE  Account!Harmless
<1>1. PICK own \in Owners : AccountOK(own)
  BY DEF AccountInv
<1>2. SUFFICES ASSUME <<accounts', grants'>> # <<accounts, grants>>, NEW z \in Account!Slot,
                      running[z] # None, running'[z] = None
               PROVE  ~running[z].late
  BY DEF Account!Harmless
<1>3. PICK s \in Slots : Account!Register(s) \/ Account!Exchange(s) \/ Account!Change(s)
  <2>1. ~Account!Tick /\ ~UNCHANGED Account!vars
    BY <1>2 DEF Account!Tick, Account!vars, Account!server
  <2>2. ASSUME NEW d \in Device
        PROVE  ~(Account!Fill(d) \/ Account!Submit(d) \/ Account!Back(d)
                 \/ Account!Leave(d) \/ Account!AnswerLost(d))
    BY <1>2 DEF Account!Fill, Account!Submit, Account!Back, Account!Leave, Account!AnswerLost, Account!server
  <2>3. ASSUME NEW x \in Account!Slot
        PROVE  /\ ~Account!CheckAvailability(x) /\ ~Account!Request(x) /\ ~Account!Look(x)
               /\ ~Account!Redeem(x) /\ ~Account!SignIn(x) /\ ~Account!Store(x)
               /\ ~Account!Mail(x) /\ ~Account!Count(x)
    BY <1>2 DEF Account!CheckAvailability, Account!Request, Account!Look, Account!Redeem,
                Account!SignIn, Account!Store, Account!Mail, Account!Count, Account!server
  <2>4. QED BY <2>1, <2>2, <2>3 DEF Account!Next, Account!Serve, Account!Slot, Slots
<1>4. PICK f : Account!Answer(s, f) /\ running[s] # None /\ running[s].stage \in {"register", "reset", "change"}
  BY <1>2, <1>3 DEF Account!Register, Account!Exchange, Account!Change, Account!NextStep,
                    Account!Unchanged, Account!At
<1>5. z = s
  <2>1. DOMAIN running = Slots /\ z \in Slots
    BY <1>1 DEF AccountOK, CallsOK, Slots, Account!Slot
  <2>2. running' = [running EXCEPT ![s] = None]
    BY <1>4 DEF Account!Answer
  <2>3. QED BY <1>2, <2>1, <2>2
<1>6. CallOK(running[s], role[s[1]].flow, issued, mail, grants, spent, own)
  BY <1>1, <1>4 DEF AccountOK, CallsOK
<1>7. ~running[s].late
  BY <1>4, <1>6 DEF CallOK
<1>8. QED BY <1>5, <1>7

-----------------------------------------------------------------------------
(* The form that creates an event.                                         *)

\* What is wrong with a form f of a client at time n.
TimesWrong(f, n) ==
  (IF f.start <= n THEN {"start"} ELSE {}) \cup
  (IF f.end # 0 /\ f.start # 0 /\ f.end <= f.start THEN {"end"} ELSE {})
Wrong(cl, f, n) ==
  (IF f.text = "good" THEN {} ELSE {"text"}) \cup TimesWrong(f, n)
  \cup (IF cl = "web" /\ f.image = None THEN {"cover"} ELSE {})
  \cup (IF cl = "web" /\ f.ask.capacity = 1 THEN {"capacity"} ELSE {})

FormFits(f) ==
  /\ f \in Create!Form /\ Host \notin f.invited
  /\ Cardinality(f.tags) <= MaxTags /\ Cardinality(f.ask.other) <= MaxAsked

PeopleFit(p) ==
  /\ p = [timer |-> p.timer, calls |-> p.calls, list |-> p.list]
  /\ p.calls \in Nat /\ p.list \subseteq User \ {Host}

\* Events are numbered, and invite only where they are private.
EventFits(e) ==
  /\ e = [id |-> e.id, privacy |-> e.privacy, invited |-> e.invited, ask |-> e.ask,
          asked |-> e.asked, cover |-> e.cover]
  /\ e.invited # {} => e.privacy = "PRIVATE" /\ Host \notin e.invited
EventsFit(es) ==
  /\ IsFiniteSet(es)
  /\ \A e \in es : EventFits(e) /\ e.id \in 1 .. Cardinality(es)
  /\ \A d, e \in es : d.id = e.id => d = e
  /\ es # {} => \E e \in es : e.id = Cardinality(es)

\* A save holds the form as it was sent, and has made the last event.
SaveFits(sv, f, es) ==
  /\ sv \in Create!Save /\ FormFits(sv.form) /\ f.start = sv.form.start
  /\ sv.step # "create" =>
       es # {} /\ \A e \in es : e.id = Cardinality(es) => e.privacy = sv.form.privacy

\* The form has made its event, or has none in hand.
Finished == left \/ (save # None /\ save.step # "create")

CreateInv ==
  /\ client \in {"web", "mobile"} /\ now \in Create!Time /\ FormFits(form)
  /\ errors \subseteq Wrong(client, form, now)
  /\ reading \subseteq Image /\ (client = "mobile" => reading = {})
  /\ PeopleFit(people) /\ EventsFit(events)
  /\ left => save = None
  /\ lost \in Nat /\ Cardinality(events) <= 1 + lost /\ (~Finished => Cardinality(events) <= lost)
  /\ save # None => SaveFits(save, form, events)

(* The form that creates counts as everybody does.                         *)
LEMMA CreateCounts == \A S : Create!Cardinality(S) = Cardinality(S)
  BY DEF Create!Cardinality, Cardinality

(* What is wrong with a form is what its client says.                      *)
LEMMA ProblemsAreWrong ==
  ASSUME client \in {"web", "mobile"}, NEW f \in Create!Form
  PROVE  /\ Create!Problems(f) = Wrong(client, f, now)
         /\ client = "web" => Create!WebProblems(f) = Wrong(client, f, now)
         /\ client = "mobile" => \A b \in BOOLEAN :
              Create!MobileTimeProblems(f, b) \subseteq Wrong(client, f, now)
<1>1. Create!TimeProblems(f) = TimesWrong(f, now)
  BY DEF Create!TimeProblems, TimesWrong
<1>2. f.ask.capacity \in {0, 1, 2}
  BY DEF Create!Form, Create!Audience, Create!CapacityMin
<1>3. f.ask.capacity \in 1 .. Create!CapacityMin - 1 <=> f.ask.capacity = 1
  BY <1>2 DEF Create!CapacityMin
<1>4. ASSUME client = "web"
      PROVE  Create!WebProblems(f) = Wrong(client, f, now) /\ Create!Problems(f) = Create!WebProblems(f)
  BY <1>1, <1>3, <1>4 DEF Create!WebProblems, Wrong, Create!Problems, Create!Web
<1>5. ASSUME client = "mobile"
      PROVE  /\ Create!Problems(f) = Wrong(client, f, now)
             /\ \A b \in BOOLEAN : Create!MobileTimeProblems(f, b) \subseteq Wrong(client, f, now)
  BY <1>1, <1>5 DEF Create!MobileProblems, Create!MobileTimeProblems, Wrong, Create!Problems, Create!Web
<1>6. QED BY <1>4, <1>5

(* The errors a change leaves are errors of the form it makes.             *)
LEMMA ErrorsFollow ==
  ASSUME client \in {"web", "mobile"}, form \in Create!Form, errors \subseteq Wrong(client, form, now),
         NEW f \in Create!Form, NEW field, Create!Changed(f, field),
         f.text # form.text => field = "text" /\ f.start = form.start /\ f.end = form.end
  PROVE  form' = f /\ errors' \subseteq Wrong(client, f, now)
<1>1. form' = f
  BY DEF Create!Changed
<1>2. CASE client = "web"
  <2>1. PICK t : errors' = Create!WebErrors(f, t, attempted)
    BY <1>2 DEF Create!Changed, Create!Web
  <2>2. errors' \subseteq Create!WebProblems(f)
    BY <2>1 DEF Create!WebErrors
  <2>3. QED BY <1>1, <1>2, <2>2, ProblemsAreWrong
<1>3. CASE client = "mobile"
  <2>1. errors' = Create!MobileErrors(f, field)
    BY <1>3 DEF Create!Changed, Create!Web
  <2>2. errors \subseteq (IF form.text = "good" THEN {} ELSE {"text"}) \cup TimesWrong(form, now)
    BY <1>3 DEF Wrong
  <2>3. TimesWrong(form, now) \subseteq {"start", "end"}
    BY DEF TimesWrong
  <2>4. (IF f.text = "good" THEN {} ELSE {"text"}) \cup TimesWrong(f, now) \subseteq Wrong(client, f, now)
    BY DEF Wrong
  <2>5. CASE f.start = form.start /\ f.end = form.end
    <3>1. errors' = errors \ {field}
      BY <2>1, <2>5 DEF Create!MobileErrors
    <3>2. TimesWrong(f, now) = TimesWrong(form, now)
      BY <2>5 DEF TimesWrong
    <3>3. CASE f.text = form.text
      BY <1>1, <2>2, <2>4, <3>1, <3>2, <3>3
    <3>4. CASE f.text # form.text
      <4>1. errors' \subseteq TimesWrong(form, now)
        BY <1>3, <2>2, <3>1, <3>4
      <4>2. QED BY <1>1, <2>4, <3>2, <4>1
    <3>5. QED BY <3>3, <3>4
  <2>6. CASE ~(f.start = form.start /\ f.end = form.end)
    <3>1. errors' = (errors \ {"start", "end"}) \cup Create!MobileTimeProblems(f, attempted)
      BY <2>1, <2>6 DEF Create!MobileErrors
    <3>2. Create!MobileTimeProblems(f, attempted) \subseteq Wrong(client, f, now)
      BY <1>3 DEF Create!MobileTimeProblems, Create!TimeProblems, Wrong, TimesWrong
    <3>3. CASE f.text = form.text
      BY <1>1, <2>2, <2>3, <2>4, <3>1, <3>2, <3>3
    <3>4. CASE f.text # form.text
      BY <2>6, <3>4
    <3>5. QED BY <3>3, <3>4
  <2>7. QED BY <2>5, <2>6
<1>4. QED BY <1>2, <1>3

(* What the host fills in leaves the server and a running save alone.      *)
LEMMA Filled ==
  ASSUME CreateInv, UNCHANGED <<client, now, save, left, events, lost>>, FormFits(form'),
         save # None => form'.start = form.start, errors' \subseteq Wrong(client, form', now),
         reading' \subseteq Image /\ (client = "mobile" => reading' = {}), PeopleFit(people')
  PROVE  CreateInv'
<1>1. save # None => SaveFits(save, form', events)
  BY DEF CreateInv, SaveFits
<1>2. Finished' = Finished
  BY DEF Finished
<1>3. now' \in Create!Time
  BY DEF CreateInv
<1>4. QED BY <1>1, <1>2, <1>3 DEF CreateInv

(* What the invariant says of the form that creates.                       *)
LEMMA FormIsTyped ==
  ASSUME CreateInv
  PROVE  /\ client \in {"web", "mobile"} /\ form \in Create!Form /\ FormFits(form)
         /\ errors \subseteq Wrong(client, form, now)
         /\ reading \subseteq Image /\ (client = "mobile" => reading = {}) /\ PeopleFit(people)
  BY DEF CreateInv, FormFits

(* A text, a time or an image is another one of its kind.                  *)
LEMMA FormSet ==
  ASSUME NEW f, FormFits(f), NEW g,
         \/ \E t \in {"none", "good", "bad"} : g = [f EXCEPT !.text = t]
         \/ \E t \in Create!Time \cup {0} : g = [f EXCEPT !.start = t] \/ g = [f EXCEPT !.end = t]
         \/ \E i \in Image \cup {None} : g = [f EXCEPT !.image = i]
         \/ \E p \in {"PUBLIC", "PRIVATE"} : g = [f EXCEPT !.privacy = p]
         \/ \E n \in SUBSET (User \ {Host}) : g = [f EXCEPT !.invited = n]
         \/ \E t \in SUBSET Tag : Cardinality(t) <= MaxTags /\ g = [f EXCEPT !.tags = t]
         \/ \E a \in Create!Audience :
              Cardinality(a.other) <= MaxAsked /\ g = [f EXCEPT !.ask = a]
  PROVE  FormFits(g)
<1>1. f \in Create!Form /\ Host \notin f.invited /\ Cardinality(f.tags) <= MaxTags
      /\ Cardinality(f.ask.other) <= MaxAsked
  BY DEF FormFits
<1>2. g \in Create!Form
  BY <1>1 DEF Create!Form
<1>3. Host \notin g.invited /\ Cardinality(g.tags) <= MaxTags /\ Cardinality(g.ask.other) <= MaxAsked
  BY <1>1 DEF Create!Form
<1>4. QED BY <1>2, <1>3 DEF FormFits

(* The text and the times.                                                 *)
LEMMA CreateTextFilled ==
  ASSUME CreateInv, Create!FillText \/ Create!FillTimes
  PROVE  CreateInv'
<1>1. UNCHANGED <<client, now, save, left, events, lost, reading, people>>
  BY DEF Create!FillText, Create!FillTimes, Create!Input, Create!setting
<1>2. CASE Create!FillText
  <2>1. PICK t \in {"none", "good", "bad"} : Create!Changed([form EXCEPT !.text = t], "text")
    BY <1>2 DEF Create!FillText
  <2>2. PICK f : f = [form EXCEPT !.text = t]
    OBVIOUS
  <2>3. FormFits(f) /\ f \in Create!Form
    BY <2>2, FormIsTyped, FormSet DEF FormFits
  <2>4. f.start = form.start /\ f.end = form.end
    BY <2>2, FormIsTyped DEF Create!Form
  <2>5. form' = f /\ errors' \subseteq Wrong(client, f, now)
    BY <2>1, <2>2, <2>3, <2>4, FormIsTyped, ErrorsFollow
  <2>6. QED BY <1>1, <2>3, <2>4, <2>5, FormIsTyped, Filled
<1>3. CASE Create!FillTimes
  <2>1. PICK t \in Create!Time \cup {0}, field \in {"start", "end"} :
          Create!Changed([form EXCEPT ![field] = t], field)
    BY <1>3 DEF Create!FillTimes
  <2>2. PICK f : f = [form EXCEPT ![field] = t]
    OBVIOUS
  <2>3. FormFits(f) /\ f \in Create!Form
    <3>1. f = [form EXCEPT !.start = t] \/ f = [form EXCEPT !.end = t]
      BY <2>2
    <3>2. QED BY <3>1, FormIsTyped, FormSet DEF FormFits
  <2>4. f.text = form.text
    BY <2>2, FormIsTyped DEF Create!Form
  <2>5. form' = f /\ errors' \subseteq Wrong(client, f, now)
    BY <2>1, <2>2, <2>3, <2>4, FormIsTyped, ErrorsFollow
  <2>6. save = None
    BY <1>3 DEF Create!FillTimes, Create!Input, Create!Offers, Create!WebTextOffers, Create!WebTimeOffers,
       Create!WebCoverOffers, Create!WebListOffers, Create!WebAudienceOffers, Create!MobileTextOffers,
       Create!MobileTimeOffers, Create!MobileCoverOffers, Create!MobileInviteOffers,
       Create!MobileListOffers, Create!MobileAudienceOffers, Create!Enabled
  <2>7. QED BY <1>1, <2>3, <2>5, <2>6, FormIsTyped, Filled
<1>4. QED BY <1>2, <1>3

(* On the phone neither the image, nor the people, nor the lists are wrong. *)
LEMMA WrongKept ==
  ASSUME NEW cl, NEW f, NEW g, NEW n, g.text = f.text, g.start = f.start, g.end = f.end,
         cl = "web" => g.image = f.image /\ g.ask.capacity = f.ask.capacity
  PROVE  Wrong(cl, g, n) = Wrong(cl, f, n)
  BY DEF Wrong, TimesWrong

(* What the errors of the page are worked out from is wrong.               *)
LEMMA PageErrors ==
  ASSUME client = "web", NEW f \in Create!Form, NEW t, NEW all
  PROVE  Create!WebErrors(f, t, all) \subseteq Wrong(client, f, now)
<1>1. Create!WebErrors(f, t, all) \subseteq Create!WebProblems(f)
  BY DEF Create!WebErrors
<1>2. QED BY <1>1, ProblemsAreWrong

(* Where the picker is, the browser reads the file first.                  *)
LEMMA CreateImageChosen ==
  ASSUME CreateInv, Create!ChooseImage \/ Create!ImageRead
  PROVE  CreateInv'
<1>1. UNCHANGED <<client, now, save, left, events, lost, people>>
  BY DEF Create!ChooseImage, Create!ImageRead, Create!Input, Create!setting
<1>2. PICK f : f = form'
  OBVIOUS
<1>3. CASE UNCHANGED <<form, errors>> /\ client = "web" /\ \E i \in Image : reading' = reading \cup {i}
  BY <1>1, <1>3, FormIsTyped, Filled
<1>4. CASE /\ \E i \in Image \cup {None} : form' = [form EXCEPT !.image = i]
           /\ reading' \subseteq reading
           /\ \/ client = "web" /\ \E t : errors' = Create!WebErrors(f, t, attempted)
              \/ client = "mobile" /\ errors' = errors
  <2>1. f.text = form.text /\ f.start = form.start /\ f.end = form.end
    BY <1>2, <1>4, FormIsTyped DEF Create!Form
  <2>2. FormFits(f) /\ f \in Create!Form
    BY <1>2, <1>4, FormIsTyped, FormSet DEF FormFits
  <2>3. errors' \subseteq Wrong(client, f, now)
    <3>1. CASE client = "web"
      BY <1>4, <2>2, <3>1, PageErrors
    <3>2. CASE client = "mobile"
      BY <1>4, <2>1, <3>2, WrongKept, FormIsTyped
    <3>3. QED BY <3>1, <3>2, FormIsTyped
  <2>4. reading' \subseteq Image /\ (client = "mobile" => reading' = {})
    BY <1>4, FormIsTyped
  <2>5. QED BY <1>1, <1>2, <2>1, <2>2, <2>3, <2>4, FormIsTyped, Filled
<1>5. CASE Create!ChooseImage
  <2>1. CASE client = "web"
    <3>1. \/ form.image = None /\ (\E i \in Image : reading' = reading \cup {i}) /\ UNCHANGED <<form, errors>>
          \/ /\ form' = [form EXCEPT !.image = None] /\ UNCHANGED reading
             /\ errors' = Create!WebErrors(form', touched', attempted)
      BY <1>5, <2>1 DEF Create!ChooseImage, Create!WebChooseImage, Create!Web
    <3>2. QED BY <2>1, <3>1, <1>2, <1>3, <1>4
  <2>2. CASE client = "mobile"
    BY <1>4, <1>5, <2>2 DEF Create!ChooseImage, Create!MobileChooseImage, Create!Web
  <2>3. QED BY <2>1, <2>2, FormIsTyped
<1>6. CASE Create!ImageRead
  <2>1. PICK i \in reading : form' = [form EXCEPT !.image = i] /\ reading' = reading \ {i}
    BY <1>6 DEF Create!ImageRead
  <2>2. i \in Image /\ client = "web"
    BY <2>1, FormIsTyped
  <2>3. errors' = Create!WebErrors(form', touched', attempted)
    BY <1>6 DEF Create!ImageRead
  <2>4. QED BY <2>1, <2>2, <2>3, <1>2, <1>4
<1>7. QED BY <1>5, <1>6

(* A list grows while there is room, or shrinks.                           *)
LEMMA ListFits ==
  ASSUME NEW S, IsFiniteSet(S), NEW A \in SUBSET S, NEW most \in Nat, Cardinality(A) <= most, NEW B,
         (\E x \in S : B = A \ {x}) \/ (Cardinality(A) < most /\ \E x \in S : B = A \cup {x})
  PROVE  B \in SUBSET S /\ Cardinality(B) <= most
<1>1. IsFiniteSet(A) /\ Cardinality(A) \in Nat
  BY FS_Subset, FS_CardinalityType
<1>2. CASE \E x \in S : B = A \ {x}
  <2>1. PICK x \in S : B = A \ {x}
    BY <1>2
  <2>2. Cardinality(B) \in Nat /\ Cardinality(B) <= Cardinality(A)
    BY <1>1, <2>1, FS_Subset, FS_CardinalityType
  <2>3. QED BY <1>1, <2>1, <2>2
<1>3. CASE Cardinality(A) < most /\ \E x \in S : B = A \cup {x}
  <2>1. PICK x \in S : B = A \cup {x}
    BY <1>3
  <2>2. Cardinality(B) = IF x \in A THEN Cardinality(A) ELSE Cardinality(A) + 1
    BY <1>1, <2>1, FS_AddElement
  <2>3. QED BY <1>1, <1>3, <2>1, <2>2
<1>4. QED BY <1>2, <1>3

\* What a change of the tags or of the audience keeps.
LEMMA ListsFilled ==
  ASSUME CreateInv, UNCHANGED <<client, now, save, left, events, lost, reading, people>>,
         NEW f, NEW field, Create!Changed(f, field), FormFits(f),
         f.text = form.text, f.start = form.start
  PROVE  CreateInv'
<1>1. f \in Create!Form
  BY DEF FormFits
<1>2. form' = f /\ errors' \subseteq Wrong(client, f, now)
  BY <1>1, FormIsTyped, ErrorsFollow
<1>3. QED BY <1>2, FormIsTyped, Filled

\* The constraints the app counts are more than those of type other.
LEMMA CountedOnApp ==
  ASSUME NEW a \in Create!Audience, Create!AskedOnApp(a) < MaxAsked
  PROVE  Cardinality(a.other) < MaxAsked
<1>1. IsFiniteSet(a.other)
  BY FormsAssumption, FS_Subset DEF Create!Audience
<1>2. Cardinality(a.other) \in Nat /\ MaxAsked \in Nat
  BY <1>1, FormsAssumption, FS_CardinalityType
<1>3. PICK x \in {0, 1}, y \in {0, 1}, z \in {0, 1} : Create!AskedOnApp(a) = Cardinality(a.other) + x + y + z
  BY CreateCounts DEF Create!AskedOnApp
<1>4. QED BY <1>2, <1>3

(* The tags and the constraints.                                           *)
LEMMA CreateListsFilled ==
  ASSUME CreateInv, Create!FillLists
  PROVE  CreateInv'
<1>1. UNCHANGED <<client, now, save, left, events, lost, reading, people>>
  BY DEF Create!FillLists, Create!Input, Create!setting
<1>2. /\ form \in Create!Form /\ FormFits(form) /\ form.tags \in SUBSET Tag /\ form.ask \in Create!Audience
      /\ form.ask.other \in SUBSET Other
      /\ Cardinality(form.tags) <= MaxTags /\ Cardinality(form.ask.other) <= MaxAsked
  BY FormIsTyped DEF FormFits, Create!Form, Create!Audience
<1>3. IsFiniteSet(Tag) /\ IsFiniteSet(Other) /\ MaxTags \in Nat /\ MaxAsked \in Nat
  BY FormsAssumption
<1>4. CASE \E tags \in Create!TagLists(MaxTags) : Create!Changed([form EXCEPT !.tags = tags], "tags")
  <2>1. PICK tags \in Create!TagLists(MaxTags) : Create!Changed([form EXCEPT !.tags = tags], "tags")
    BY <1>4
  <2>2. \/ \E t \in Tag : tags = form.tags \ {t}
        \/ Cardinality(form.tags) < MaxTags /\ \E t \in Tag : tags = form.tags \cup {t}
    BY CreateCounts DEF Create!TagLists
  <2>3. tags \in SUBSET Tag /\ Cardinality(tags) <= MaxTags
    BY <1>2, <1>3, <2>2, ListFits
  <2>4. PICK f : f = [form EXCEPT !.tags = tags]
    OBVIOUS
  <2>5. FormFits(f)
    BY <1>2, <2>3, <2>4, FormSet
  <2>6. f.text = form.text /\ f.start = form.start
    BY <1>2, <2>4 DEF Create!Form
  <2>7. QED BY <1>1, <2>1, <2>4, <2>5, <2>6, ListsFilled
<1>5. CASE \E o \in IF Create!Web THEN Create!WebOthers ELSE Create!MobileOthers :
             Create!Changed([form EXCEPT !.ask.other = o], "constraints")
  <2>1. PICK o \in IF Create!Web THEN Create!WebOthers ELSE Create!MobileOthers :
          Create!Changed([form EXCEPT !.ask.other = o], "constraints")
    BY <1>5
  <2>2. \/ \E t \in Other : o = form.ask.other \ {t}
        \/ Cardinality(form.ask.other) < MaxAsked /\ \E t \in Other : o = form.ask.other \cup {t}
    <3>1. CASE Create!Web
      BY <2>1, <3>1, CreateCounts DEF Create!WebOthers
    <3>2. CASE ~Create!Web
      BY <1>2, <2>1, <3>2, CountedOnApp DEF Create!MobileOthers
    <3>3. QED BY <3>1, <3>2
  <2>3. o \in SUBSET Other /\ Cardinality(o) <= MaxAsked
    BY <1>2, <1>3, <2>2, ListFits
  <2>4. PICK a : a = [form.ask EXCEPT !.other = o]
    OBVIOUS
  <2>5. a \in Create!Audience /\ a.other = o
    BY <1>2, <2>3, <2>4 DEF Create!Audience
  <2>6. PICK f : f = [form EXCEPT !.ask = a]
    OBVIOUS
  <2>7. [form EXCEPT !.ask.other = o] = f
    BY <1>2, <2>4, <2>6 DEF Create!Form
  <2>8. FormFits(f)
    BY <1>2, <2>3, <2>5, <2>6, FormSet
  <2>9. f.text = form.text /\ f.start = form.start
    BY <1>2, <2>6 DEF Create!Form
  <2>10. QED BY <1>1, <2>1, <2>7, <2>8, <2>9, ListsFilled
<1>6. QED BY <1>4, <1>5 DEF Create!FillLists, Create!WebTags, Create!MobileTags

(* Who may come.                                                           *)
LEMMA CreateAudienceFilled ==
  ASSUME CreateInv, Create!FillAudience
  PROVE  CreateInv'
<1>1. UNCHANGED <<client, now, save, left, events, lost, reading, people>>
  BY DEF Create!FillAudience, Create!Input, Create!setting
<1>2. /\ form \in Create!Form /\ FormFits(form) /\ form.ask \in Create!Audience
      /\ Cardinality(form.ask.other) <= MaxAsked
  BY FormIsTyped DEF FormFits, Create!Form
<1>3. PICK a \in IF Create!Web THEN Create!WebAudiences ELSE Create!MobileAudiences :
        Create!Changed([form EXCEPT !.ask = a], "capacity")
  BY DEF Create!FillAudience
<1>4. PICK ask : ask = form.ask
  OBVIOUS
<1>5. \/ \E g \in Create!Gender \cup {None} : a = [ask EXCEPT !.gender = g]
      \/ \E b \in BOOLEAN : a = [ask EXCEPT !.min = b] \/ a = [ask EXCEPT !.max = b]
      \/ \E c \in 0 .. Create!CapacityMin : a = [ask EXCEPT !.capacity = c]
      \/ \E b, c \in BOOLEAN : a = [ask EXCEPT !.min = b, !.max = c]
  <2>1. 0 \in 0 .. Create!CapacityMin /\ Create!CapacityMin \in 0 .. Create!CapacityMin
    BY DEF Create!CapacityMin
  <2>2. CASE Create!Web
    BY <1>3, <1>4, <2>2 DEF Create!WebAudiences
  <2>3. CASE ~Create!Web
    <3>1. \/ a \in Create!AddedAudiences(ask)
          \/ a \in {[ask EXCEPT !.gender = None], [ask EXCEPT !.min = FALSE, !.max = FALSE],
                    [ask EXCEPT !.capacity = 0]}
      BY <1>3, <1>4, <2>3 DEF Create!MobileAudiences
    <3>2. CASE a \in Create!AddedAudiences(ask)
      <4>1. \/ a \in {[ask EXCEPT !.gender = g] : g \in Create!Gender}
            \/ a \in UNION {{[ask EXCEPT !.min = b, !.max = c] : c \in BOOLEAN} : b \in BOOLEAN}
            \/ a = [ask EXCEPT !.capacity = Create!CapacityMin]
        BY <3>2 DEF Create!AddedAudiences
      <4>2. CASE a \in UNION {{[ask EXCEPT !.min = b, !.max = c] : c \in BOOLEAN} : b \in BOOLEAN}
        <5>1. PICK b \in BOOLEAN : a \in {[ask EXCEPT !.min = b, !.max = c] : c \in BOOLEAN}
          BY <4>2
        <5>2. PICK c \in BOOLEAN : a = [ask EXCEPT !.min = b, !.max = c]
          BY <5>1
        <5>3. QED BY <5>2
      <4>3. QED BY <2>1, <4>1, <4>2
    <3>3. QED BY <2>1, <3>1, <3>2
  <2>4. QED BY <2>2, <2>3
<1>6. a \in Create!Audience /\ a.other = ask.other
  BY <1>2, <1>4, <1>5 DEF Create!Audience
<1>7. PICK f : f = [form EXCEPT !.ask = a]
  OBVIOUS
<1>8. FormFits(f)
  BY <1>2, <1>4, <1>6, <1>7, FormSet
<1>9. f.text = form.text /\ f.start = form.start
  BY <1>2, <1>7 DEF Create!Form
<1>10. QED BY <1>1, <1>3, <1>7, <1>8, <1>9, ListsFilled

(* The privacy of the event, and the people the host invites.              *)
LEMMA InvitesFilled ==
  ASSUME CreateInv, UNCHANGED <<client, now, save, left, events, lost, reading, errors>>,
         PeopleFit(people'),
         \/ form' = form
         \/ \E p \in {"PUBLIC", "PRIVATE"} : form' = [form EXCEPT !.privacy = p]
         \/ \E n \in SUBSET (User \ {Host}) : form' = [form EXCEPT !.invited = n]
  PROVE  CreateInv'
<1>1. PICK f : f = form'
  OBVIOUS
<1>2. FormFits(f)
  BY <1>1, FormIsTyped, FormSet
<1>3. /\ f.text = form.text /\ f.start = form.start /\ f.end = form.end /\ f.image = form.image
      /\ f.ask = form.ask
  BY <1>1, FormIsTyped DEF Create!Form
<1>4. Wrong(client, f, now) = Wrong(client, form, now)
  BY <1>3, WrongKept
<1>5. QED BY <1>1, <1>2, <1>3, <1>4, FormIsTyped, Filled

(* Privacy and the people invited.                                         *)
LEMMA CreateInvitesFilled ==
  ASSUME CreateInv,
         \/ Create!SetPrivacy \/ Create!SearchPeople \/ Create!PeopleAsked \/ Create!PeopleFound
         \/ Create!Invite \/ Create!InviteFromFile \/ Create!RemoveInvited
  PROVE  CreateInv'
<1>1. UNCHANGED <<client, now, save, left, events, lost, reading, errors>>
  BY DEF Create!SetPrivacy, Create!SearchPeople, Create!PeopleAsked, Create!PeopleFound,
         Create!Invite, Create!InviteFromFile, Create!RemoveInvited, Create!Input, Create!setting
<1>2. form \in Create!Form /\ form.invited \subseteq User \ {Host}
  BY FormIsTyped DEF FormFits, Create!Form
<1>3. /\ people = [timer |-> people.timer, calls |-> people.calls, list |-> people.list]
      /\ people.calls \in Nat /\ people.list \subseteq User \ {Host}
  BY FormIsTyped DEF PeopleFit
<1>4. CASE Create!SetPrivacy
  BY <1>1, <1>4, FormIsTyped, InvitesFilled DEF Create!SetPrivacy
<1>5. CASE Create!SearchPeople
  <2>1. people' = [people EXCEPT !.timer = TRUE] \/ people' = [people EXCEPT !.timer = FALSE, !.list = {}]
    BY <1>5 DEF Create!SearchPeople
  <2>2. CASE people' = [people EXCEPT !.timer = TRUE]
    <3>1. PeopleFit(people')
      BY <1>3, <2>2 DEF PeopleFit
    <3>2. QED BY <1>1, <1>5, <3>1, InvitesFilled DEF Create!SearchPeople
  <2>3. CASE people' = [people EXCEPT !.timer = FALSE, !.list = {}]
    <3>1. PeopleFit(people')
      BY <1>3, <2>3 DEF PeopleFit
    <3>2. QED BY <1>1, <1>5, <3>1, InvitesFilled DEF Create!SearchPeople
  <2>4. QED BY <2>1, <2>2, <2>3
<1>6. CASE Create!PeopleAsked
  <2>1. people' = [people EXCEPT !.timer = FALSE, !.calls = @ + 1]
    BY <1>6 DEF Create!PeopleAsked
  <2>2. PICK n \in Nat : n = people.calls + 1
    BY <1>3
  <2>3. people' = [timer |-> FALSE, calls |-> n, list |-> people.list]
    BY <1>3, <2>1, <2>2
  <2>4. PeopleFit(people')
    BY <1>3, <2>3 DEF PeopleFit
  <2>5. QED BY <1>1, <1>6, <2>4, InvitesFilled DEF Create!PeopleAsked
<1>7. CASE Create!PeopleFound
  <2>1. PICK found \in {{}, people.list, User \ {Host}} :
          people' = [people EXCEPT !.calls = @ - 1, !.list = found]
    BY <1>7 DEF Create!PeopleFound
  <2>2. found \subseteq User \ {Host} /\ people.calls - 1 \in Nat
    BY <1>3, <1>7, <2>1 DEF Create!PeopleFound
  <2>3. PeopleFit(people')
    BY <1>3, <2>1, <2>2 DEF PeopleFit
  <2>4. QED BY <1>1, <1>7, <2>3, InvitesFilled DEF Create!PeopleFound
<1>8. CASE Create!Invite
  <2>1. PICK u \in people.list : /\ form' = [form EXCEPT !.invited = @ \cup {u}]
                                 /\ people' = [people EXCEPT !.list = {}]
    BY <1>8 DEF Create!Invite
  <2>2. PeopleFit(people')
    BY <1>3, <2>1 DEF PeopleFit
  <2>3. PICK n : n = form.invited \cup {u}
    OBVIOUS
  <2>4. n \in SUBSET (User \ {Host}) /\ form' = [form EXCEPT !.invited = n]
    BY <1>2, <1>3, <2>1, <2>3
  <2>5. QED BY <1>1, <2>2, <2>4, InvitesFilled
<1>9. CASE Create!InviteFromFile
  <2>1. PICK names \in SUBSET User : form' = [form EXCEPT !.invited = @ \cup (names \ {Host})]
    BY <1>9 DEF Create!InviteFromFile
  <2>2. PICK n : n = form.invited \cup (names \ {Host})
    OBVIOUS
  <2>3. n \in SUBSET (User \ {Host}) /\ form' = [form EXCEPT !.invited = n]
    BY <1>2, <2>1, <2>2
  <2>4. QED BY <1>1, <1>9, <2>3, FormIsTyped, InvitesFilled DEF Create!InviteFromFile
<1>10. CASE Create!RemoveInvited
  <2>1. PICK u \in form.invited : form' = [form EXCEPT !.invited = @ \ {u}]
    BY <1>10 DEF Create!RemoveInvited
  <2>2. PICK n : n = form.invited \ {u}
    OBVIOUS
  <2>3. n \in SUBSET (User \ {Host}) /\ form' = [form EXCEPT !.invited = n]
    BY <1>2, <2>1, <2>2
  <2>4. QED BY <1>1, <1>10, <2>3, FormIsTyped, InvitesFilled DEF Create!RemoveInvited
<1>11. QED BY <1>4, <1>5, <1>6, <1>7, <1>8, <1>9, <1>10

(* The events, when the last of them is amended.                           *)
LEMMA EventsAmended ==
  ASSUME NEW es, EventsFit(es), NEW e \in es, e.id = Cardinality(es), NEW x, EventFits(x), x.id = e.id
  PROVE  LET fs == (es \ {e}) \cup {x} IN
         /\ EventsFit(fs) /\ Cardinality(fs) = Cardinality(es)
         /\ \A f \in fs : f.id = Cardinality(fs) => f = x
<1> DEFINE fs == (es \ {e}) \cup {x}
<1>1. IsFiniteSet(es) /\ Cardinality(es) \in Nat
  BY FS_CardinalityType DEF EventsFit
<1>2. IsFiniteSet(es \ {e}) /\ Cardinality(es \ {e}) = Cardinality(es) - 1
  BY <1>1, FS_RemoveElement
<1>3. \A d \in es \ {e} : d.id # e.id
  BY DEF EventsFit
<1>4. x \notin es \ {e}
  BY <1>3
<1>5. IsFiniteSet(fs) /\ Cardinality(fs) = Cardinality(es \ {e}) + 1
  BY <1>2, <1>4, FS_AddElement
<1>6. Cardinality(fs) = Cardinality(es)
  BY <1>1, <1>2, <1>5
<1>7. \A d \in fs : EventFits(d) /\ d.id \in 1 .. Cardinality(fs)
  BY <1>6 DEF EventsFit
<1>8. \A d, f \in fs : d.id = f.id => d = f
  BY <1>3 DEF EventsFit
<1>9. x \in fs /\ x.id = Cardinality(fs)
  BY <1>6
<1> HIDE DEF fs
<1>10. EventsFit(fs)
  BY <1>5, <1>7, <1>8, <1>9 DEF EventsFit
<1>11. \A f \in fs : f.id = Cardinality(fs) => f = x
  BY <1>8, <1>9
<1>12. QED BY <1>6, <1>10, <1>11 DEF fs

(* The events, when another is made.                                       *)
LEMMA EventsAdded ==
  ASSUME NEW es, EventsFit(es), NEW x, EventFits(x), x.id = Cardinality(es) + 1
  PROVE  LET fs == es \cup {x} IN
         /\ EventsFit(fs) /\ Cardinality(fs) = Cardinality(es) + 1 /\ fs # {}
         /\ \A f \in fs : f.id = Cardinality(fs) => f = x
<1> DEFINE fs == es \cup {x}
<1>1. IsFiniteSet(es) /\ Cardinality(es) \in Nat
  BY FS_CardinalityType DEF EventsFit
<1>2. \A d \in es : d.id \in 1 .. Cardinality(es) /\ d.id # x.id
  BY <1>1 DEF EventsFit
<1>3. x \notin es
  BY <1>2
<1>4. IsFiniteSet(fs) /\ Cardinality(fs) = Cardinality(es) + 1
  BY <1>1, <1>3, FS_AddElement
<1>5. \A d \in fs : EventFits(d) /\ d.id \in 1 .. Cardinality(fs)
  BY <1>1, <1>2, <1>4 DEF EventsFit
<1>6. \A d, f \in fs : d.id = f.id => d = f
  BY <1>2 DEF EventsFit
<1>7. x \in fs /\ x.id = Cardinality(fs)
  BY <1>4
<1> HIDE DEF fs
<1>8. EventsFit(fs) /\ fs # {}
  BY <1>4, <1>5, <1>6, <1>7 DEF EventsFit
<1>9. \A f \in fs : f.id = Cardinality(fs) => f = x
  BY <1>6, <1>7
<1>10. QED BY <1>4, <1>8, <1>9 DEF fs

(* Pressing Create validates the form and starts the calls.                *)
LEMMA CreatePressed ==
  ASSUME CreateInv, Create!PressCreate
  PROVE  CreateInv'
<1>1. /\ UNCHANGED <<client, now, form, reading, people, left, events, lost>>
      /\ ~left /\ save = None
  BY DEF Create!PressCreate, Create!Idle, Create!setting
<1>2. PICK x : x = [step |-> "create", form |-> form, at |-> now]
  OBVIOUS
<1>3. x \in Create!Save /\ x.step = "create" /\ x.form = form
  BY <1>2, FormIsTyped DEF Create!Save, CreateInv
<1>4. SaveFits(x, form, events)
  BY <1>3, FormIsTyped DEF SaveFits
<1>5. save' = x \/ save' = None
  BY <1>2 DEF Create!PressCreate
<1>6. errors' \subseteq Wrong(client, form, now)
  BY FormIsTyped, ProblemsAreWrong DEF Create!PressCreate
<1>7. ~Finished /\ ~Finished'
  BY <1>1, <1>3, <1>5 DEF Finished
<1>8. QED BY <1>1, <1>4, <1>5, <1>6, <1>7 DEF CreateInv

(* The running save, and a step of it that goes on.                        *)
LEMMA SaveIsTyped ==
  ASSUME CreateInv, save # None
  PROVE  /\ SaveFits(save, form, events) /\ save \in Create!Save /\ FormFits(save.form)
         /\ save.form \in Create!Form /\ form.start = save.form.start /\ ~left
         /\ EventsFit(events) /\ lost \in Nat /\ Cardinality(events) \in Nat
<1>1. SaveFits(save, form, events) /\ EventsFit(events) /\ lost \in Nat /\ ~left
  BY DEF CreateInv
<1>2. Cardinality(events) \in Nat
  BY <1>1, FS_CardinalityType DEF EventsFit
<1>3. QED BY <1>1, <1>2 DEF SaveFits, FormFits

(* A save that moves on to its next call keeps its form.                   *)
LEMMA NextStepFits ==
  ASSUME NEW sv \in Create!Save, NEW st \in {"invite", "cover"}, NEW x, x = [sv EXCEPT !.step = st]
  PROVE  x \in Create!Save /\ x # None /\ x.step = st /\ x.form = sv.form
<1>1. x \in Create!Save /\ x.step = st /\ x.form = sv.form
  BY DEF Create!Save
<1>2. QED BY <1>1, NoneAssumption

(* The server makes the event, and its answer arrives or is lost.          *)
LEMMA CreateCreated ==
  ASSUME CreateInv, Create!Create
  PROVE  CreateInv'
<1>1. /\ UNCHANGED <<client, now, form, reading, people, left>>
      /\ save # None /\ save.step = "create"
  BY DEF Create!Create, Create!setting
<1>2. /\ SaveFits(save, form, events) /\ save \in Create!Save /\ FormFits(save.form)
      /\ form.start = save.form.start /\ save.form \in Create!Form /\ ~left
      /\ EventsFit(events) /\ lost \in Nat /\ Cardinality(events) \in Nat
  BY <1>1, SaveIsTyped
<1>3. Cardinality(events) <= lost
  BY <1>1, <1>2 DEF CreateInv, Finished
<1>4. errors' \subseteq Wrong(client, form, now)
  <2>1. CASE errors' = errors
    BY <2>1, FormIsTyped
  <2>2. CASE errors' = {"start"} /\ save.form.start <= now
    BY <1>2, <2>2 DEF Wrong, TimesWrong
  <2>3. QED BY <2>1, <2>2 DEF Create!Create
<1>5. CASE save' = None /\ events' = events /\ (lost' = lost \/ lost' = lost + 1)
  <2>1. lost' \in Nat /\ Cardinality(events) <= lost'
    BY <1>2, <1>3, <1>5
  <2>2. QED BY <1>1, <1>2, <1>4, <1>5, <2>1 DEF CreateInv
<1>6. CASE events' = events \cup {Create!CreatedEvent}
  <2>1. PICK x : x = Create!CreatedEvent
    OBVIOUS
  <2>2. /\ EventFits(x) /\ x.id = Cardinality(events) + 1 /\ x.privacy = save.form.privacy
    BY <2>1, CreateCounts DEF Create!CreatedEvent, EventFits
  <2>3. PICK fs : fs = events'
    OBVIOUS
  <2>4. /\ EventsFit(fs) /\ Cardinality(fs) = Cardinality(events) + 1 /\ fs # {}
        /\ \A f \in fs : f.id = Cardinality(fs) => f = x
    BY <1>2, <1>6, <2>1, <2>2, <2>3, EventsAdded
  <2>5. CASE save' = [save EXCEPT !.step = "invite"] /\ UNCHANGED lost
    <3>1. PICK sv : sv = save'
      OBVIOUS
    <3>2. sv \in Create!Save /\ sv # None /\ sv.step = "invite" /\ sv.form = save.form
      BY <1>2, <2>5, <3>1, NextStepFits
    <3>3. SaveFits(sv, form, fs)
      BY <1>2, <2>2, <2>4, <3>2 DEF SaveFits
    <3>4. Finished'
      BY <3>1, <3>2 DEF Finished
    <3>5. Cardinality(fs) <= 1 + lost
      BY <1>2, <1>3, <2>4
    <3>6. QED BY <1>1, <1>2, <1>4, <2>3, <2>4, <2>5, <3>1, <3>3, <3>4, <3>5 DEF CreateInv
  <2>6. CASE save' = None /\ lost' = lost + 1
    <3>1. lost' \in Nat /\ Cardinality(fs) <= lost' /\ Cardinality(fs) <= 1 + lost'
      BY <1>2, <1>3, <2>4, <2>6
    <3>2. QED BY <1>1, <1>2, <1>4, <2>3, <2>4, <2>6, <3>1 DEF CreateInv
  <2>7. (save' = None /\ Create!Lose) \/ (save' = [save EXCEPT !.step = "invite"] /\ UNCHANGED lost)
    <3>1. events' # events
      <4>1. x \in events' /\ x \notin events
        <5>1. \A e \in events : e.id \in 1 .. Cardinality(events)
          BY <1>2 DEF EventsFit
        <5>2. x \notin events
          BY <1>2, <2>2, <5>1
        <5>3. QED BY <1>6, <2>1, <5>2
      <4>2. QED BY <4>1
    <3>2. QED BY <3>1 DEF Create!Create
  <2>8. QED BY <2>5, <2>6, <2>7 DEF Create!Lose
<1>7. QED BY <1>5, <1>6 DEF Create!Create, Create!Lose

(* The last event is there, and is the one the save made.                  *)
LEMMA LatestIsLast ==
  ASSUME CreateInv, save # None, save.step # "create"
  PROVE  /\ Create!Latest \in events /\ Create!Latest.id = Cardinality(events)
         /\ Create!Latest.privacy = save.form.privacy /\ EventFits(Create!Latest)
<1>1. SaveFits(save, form, events) /\ EventsFit(events)
  BY SaveIsTyped
<1>2. \E e \in events : e.id = Cardinality(events)
  BY <1>1 DEF SaveFits, EventsFit
<1>3. Create!Latest \in events /\ Create!Latest.id = Cardinality(events)
  BY <1>2, CreateCounts DEF Create!Latest
<1>4. QED BY <1>1, <1>3 DEF SaveFits, EventsFit

(* The calls that follow the creation.                                     *)
LEMMA CreateInvited ==
  ASSUME CreateInv, Create!CreateInvitations \/ Create!UploadCover
  PROVE  CreateInv'
<1>1. /\ UNCHANGED <<client, now, form, errors, reading, people>>
      /\ save # None /\ save.step \in {"invite", "cover"}
  BY DEF Create!CreateInvitations, Create!UploadCover, Create!setting
<1>2. /\ SaveFits(save, form, events) /\ save \in Create!Save /\ FormFits(save.form)
      /\ form.start = save.form.start /\ save.form \in Create!Form /\ ~left
      /\ EventsFit(events) /\ lost \in Nat /\ Cardinality(events) \in Nat
  BY <1>1, SaveIsTyped
<1>3. PICK e : e = Create!Latest
  OBVIOUS
<1>4. e \in events /\ e.id = Cardinality(events) /\ e.privacy = save.form.privacy /\ EventFits(e)
  BY <1>1, <1>3, LatestIsLast
<1>5. PICK fs : fs = events'
  OBVIOUS
<1>6. /\ EventsFit(fs) /\ Cardinality(fs) = Cardinality(events) /\ fs # {}
      /\ \A f \in fs : f.id = Cardinality(fs) => f.privacy = save.form.privacy
  <2>1. CASE UNCHANGED events
    BY <1>1, <1>2, <1>5, <2>1 DEF SaveFits
  <2>2. ASSUME NEW x, EventFits(x), x.id = e.id, x.privacy = e.privacy, events' = (events \ {e}) \cup {x}
        PROVE  /\ EventsFit(fs) /\ Cardinality(fs) = Cardinality(events) /\ fs # {}
               /\ \A f \in fs : f.id = Cardinality(fs) => f.privacy = save.form.privacy
    <3>1. /\ EventsFit(fs) /\ Cardinality(fs) = Cardinality(events)
          /\ \A f \in fs : f.id = Cardinality(fs) => f = x
      BY <1>2, <1>4, <1>5, <2>2, EventsAmended
    <3>2. QED BY <1>4, <1>5, <2>2, <3>1
  <2>3. ASSUME NEW i, i \in {{}, save.form.invited}, i # {} => save.form.privacy = "PRIVATE",
               Create!Amended([e EXCEPT !.invited = i])
        PROVE  /\ EventsFit(fs) /\ Cardinality(fs) = Cardinality(events) /\ fs # {}
               /\ \A f \in fs : f.id = Cardinality(fs) => f.privacy = save.form.privacy
    <3>1. PICK x : x = [e EXCEPT !.invited = i]
      OBVIOUS
    <3>2. Host \notin save.form.invited
      BY <1>2 DEF FormFits
    <3>3. EventFits(x) /\ x.id = e.id /\ x.privacy = e.privacy
      BY <1>4, <2>3, <3>1, <3>2 DEF EventFits
    <3>4. QED BY <1>3, <2>2, <2>3, <3>1, <3>3 DEF Create!Amended
  <2>4. ASSUME NEW i, Create!Amended([e EXCEPT !.cover = i])
        PROVE  /\ EventsFit(fs) /\ Cardinality(fs) = Cardinality(events) /\ fs # {}
               /\ \A f \in fs : f.id = Cardinality(fs) => f.privacy = save.form.privacy
    <3>1. PICK x : x = [e EXCEPT !.cover = i]
      OBVIOUS
    <3>2. EventFits(x) /\ x.id = e.id /\ x.privacy = e.privacy
      BY <1>4, <3>1 DEF EventFits
    <3>3. QED BY <1>3, <2>2, <2>4, <3>1, <3>2 DEF Create!Amended
  <2>5. CASE Create!CreateInvitations
    <3>1. PICK i : i = IF Create!Mobile THEN Create!Invited(save.form) ELSE {}
      OBVIOUS
    <3>2. i \in {{}, save.form.invited} /\ (i # {} => save.form.privacy = "PRIVATE")
      BY <3>1 DEF Create!Invited
    <3>3. UNCHANGED events \/ Create!Amended([e EXCEPT !.invited = i])
      BY <1>3, <2>5, <3>1 DEF Create!CreateInvitations
    <3>4. QED BY <2>1, <2>3, <3>2, <3>3
  <2>6. CASE Create!UploadCover
    BY <1>3, <2>1, <2>4, <2>6 DEF Create!UploadCover
  <2>7. QED BY <2>5, <2>6
<1>7. lost' \in Nat /\ lost <= lost'
  BY <1>2 DEF Create!CreateInvitations, Create!UploadCover, Create!Lose
<1>8. Cardinality(fs) <= 1 + lost'
  <2>1. Cardinality(events) <= 1 + lost
    BY DEF CreateInv
  <2>2. QED BY <1>2, <1>6, <1>7, <2>1
<1>9. CASE Create!CreateInvitations
  <2>1. save' = [save EXCEPT !.step = "cover"] /\ UNCHANGED left
    BY <1>9 DEF Create!CreateInvitations
  <2>2. PICK sv : sv = save'
    OBVIOUS
  <2>3. sv \in Create!Save /\ sv # None /\ sv.step = "cover" /\ sv.form = save.form
    BY <1>2, <2>1, <2>2, NextStepFits
  <2>4. SaveFits(sv, form, fs)
    BY <1>2, <1>6, <2>3 DEF SaveFits
  <2>5. Finished'
    BY <2>2, <2>3 DEF Finished
  <2>6. QED BY <1>1, <1>2, <1>5, <1>6, <1>7, <1>8, <2>1, <2>2, <2>4, <2>5 DEF CreateInv
<1>10. CASE Create!UploadCover
  <2>1. save' = None /\ left' = TRUE
    BY <1>10 DEF Create!UploadCover
  <2>2. Finished'
    BY <2>1 DEF Finished
  <2>3. QED BY <1>1, <1>2, <1>5, <1>6, <1>7, <1>8, <2>1, <2>2 DEF CreateInv
<1>11. QED BY <1>9, <1>10

(* Time passes, or nothing happens.                                        *)
LEMMA CreateTicked ==
  ASSUME CreateInv, Create!Tick \/ UNCHANGED Create!vars
  PROVE  CreateInv'
<1>1. UNCHANGED <<client, form, errors, reading, people, save, left, events, lost>>
  BY DEF Create!Tick, Create!vars, Create!setting, Create!screen
<1>2. now \in Nat /\ now' \in Create!Time /\ now <= now' /\ now' \in Nat
  <2>1. now \in Nat /\ MaxTime \in Nat /\ now \in 1 .. MaxTime
    BY FormsAssumption DEF CreateInv, Create!Time
  <2>2. CASE Create!Tick
    BY <2>1, <2>2 DEF Create!Tick, Create!Time
  <2>3. CASE UNCHANGED Create!vars
    BY <2>1, <2>3 DEF Create!vars, Create!Time
  <2>4. QED BY <2>2, <2>3
<1>3. form.start \in Nat /\ form.end \in Nat
  <2>1. Create!Time \cup {0} \subseteq Nat
    BY FormsAssumption DEF Create!Time
  <2>2. QED BY <2>1, FormIsTyped DEF Create!Form
<1>4. form.start <= now => form.start <= now'
  BY <1>2, <1>3
<1>5. Wrong(client, form, now) \subseteq Wrong(client, form, now')
  BY <1>4 DEF Wrong, TimesWrong
<1>6. Finished' = Finished
  BY <1>1 DEF Finished
<1>7. QED BY <1>1, <1>2, <1>5, <1>6 DEF CreateInv

(* The start.                                                              *)
LEMMA CreateBegins ==
  ASSUME Create!Init
  PROVE  CreateInv
<1>1. /\ client \in {"web", "mobile"} /\ now = 1 /\ errors = {} /\ reading = {}
      /\ people = Create!NoSearch /\ save = None /\ left = FALSE /\ events = {} /\ lost = 0
  BY DEF Create!Init
<1>2. PICK i \in Image : i = CHOOSE x \in Image : TRUE
  BY FormsAssumption
<1>3. form = Create!Emptied(focus, i)
  BY <1>2 DEF Create!Init
<1>4. MaxTime \in Nat /\ MaxTime >= 1 /\ MaxTags \in Nat /\ MaxAsked \in Nat
  BY FormsAssumption
<1>5. 0 \in Create!Time \cup {0} /\ MaxTime - 1 \in Create!Time \cup {0} /\ 1 \in Create!Time
  BY <1>4 DEF Create!Time
<1>6. Cardinality({}) = 0 /\ IsFiniteSet({})
  BY FS_EmptySet
<1>7. Create!Anybody \in Create!Audience /\ Create!Anybody.other = {}
  BY DEF Create!Anybody, Create!Audience, Create!CapacityMin
<1>8. PICK st, im : /\ st \in Create!Time \cup {0} /\ im \in Image \cup {None}
                    /\ st = IF focus = "times" THEN 0 ELSE MaxTime - 1
                    /\ im = IF focus = "cover" THEN None ELSE i
  BY <1>5
<1>9. /\ form.text \in {"none", "good", "bad"} /\ form.start = st /\ form.end = 0 /\ form.image = im
      /\ form.privacy = "PUBLIC" /\ form.invited = {} /\ form.tags = {} /\ form.ask = Create!Anybody
      /\ form = [text |-> form.text, start |-> form.start, end |-> form.end, image |-> form.image,
                 privacy |-> form.privacy, invited |-> form.invited, tags |-> form.tags, ask |-> form.ask]
  BY <1>3, <1>8 DEF Create!Emptied
<1>10. form \in Create!Form
  BY <1>5, <1>7, <1>8, <1>9 DEF Create!Form
<1>11. FormFits(form)
  BY <1>4, <1>6, <1>7, <1>9, <1>10 DEF FormFits
<1>12. PeopleFit(people)
  BY <1>1 DEF PeopleFit, Create!NoSearch
<1>13. EventsFit(events)
  BY <1>1, <1>6 DEF EventsFit
<1>14. QED BY <1>1, <1>5, <1>6, <1>11, <1>12, <1>13 DEF CreateInv

(* Every step of the form that creates keeps the invariant.                *)
LEMMA CreateSteps ==
  ASSUME CreateInv, [Create!Next]_(Create!vars)
  PROVE  CreateInv'
<1>1. CASE UNCHANGED Create!vars \/ Create!Tick
  BY <1>1, CreateTicked
<1>2. CASE Create!Next
  BY <1>1, <1>2, CreateTextFilled, CreateImageChosen, CreateListsFilled, CreateAudienceFilled,
     CreateInvitesFilled, CreatePressed, CreateCreated, CreateInvited DEF Create!Next
<1>3. QED BY <1>1, <1>2

(* The invariant says what the form promises.                              *)
LEMMA CreatePromises ==
  ASSUME CreateInv
  PROVE  Create!FormOK /\ Create!OneEventPerForm /\ Create!InvitesArePrivate
<1>1. Create!Problems(form) = Wrong(client, form, now) /\ errors \subseteq Wrong(client, form, now)
  BY FormIsTyped, ProblemsAreWrong
<1>2. errors \subseteq {"text", "start", "end", "cover", "capacity"}
  BY <1>1 DEF Wrong, TimesWrong
<1>3. save \in Create!Save \cup {None}
  BY SaveIsTyped
<1>4. now \in Create!Time /\ form \in Create!Form /\ EventsFit(events)
      /\ Cardinality(form.tags) <= MaxTags /\ Cardinality(form.ask.other) <= MaxAsked
      /\ people.list \subseteq User /\ people.calls \in Nat
  BY DEF CreateInv, FormFits, PeopleFit
<1>5. \A e \in events : e.id \in 1 .. Cardinality(events) /\ EventFits(e)
  BY <1>4 DEF EventsFit
<1>6. Create!FormOK
  BY <1>1, <1>2, <1>3, <1>4, <1>5, CreateCounts DEF Create!FormOK, Create!TypeOK
<1>7. Create!OneEventPerForm
  BY CreateCounts DEF CreateInv, Create!OneEventPerForm
<1>8. Create!InvitesArePrivate
  BY <1>5 DEF Create!InvitesArePrivate, EventFits
<1>9. QED BY <1>6, <1>7, <1>8

-----------------------------------------------------------------------------
(* The place, as its host picks it.                                        *)

PlaceRow ==
  [type : {"POINT", "ROUTE"}, point : Place \cup {None}, address : Picker!Address,
   query : Picker!Address, route : Seq(Picker!WayPoint)]

PickerTyped ==
  /\ screen \in [client : {"web", "mobile"}, kind : {"create", "edit"}]
  /\ place \in PlaceRow /\ Len(place.route) <= MaxRoute
  /\ shown \in Place \cup {None} /\ timer \in Place \cup {None}
  /\ searching \in BOOLEAN /\ calls \subseteq Picker!Search \cup Picker!Naming
  /\ inputs \in 0 .. MaxInput /\ picked \in Picker!Address
  /\ mishaps \subseteq {"overlap", "shuffle", "unnamed", "unrouted"}

\* The way points r and the calls that name them: the call with an index
\* past the end was made when the route was full.
LabelsOK(r, cs, ms) ==
  "shuffle" \notin ms =>
    /\ \A i \in DOMAIN r : r[i].label \in {None, r[i].at}
    /\ \A c \in cs : c.what = "route" =>
         c.index = MaxRoute + 1 \/ (c.index \in DOMAIN r /\ r[c.index].at = c.at)

\* A tap on the map that waits for its name is what the host picked; only
\* the page waits for the name before it moves the pin.  A route has the
\* address it was given, which the forms that create cannot give.
PicksOK(pl, cs, pk, ms) ==
  "overlap" \notin ms =>
    /\ \A c \in cs : c.what = "point" => pl.type = "POINT" /\ c.at = pk
    /\ pl.type = "POINT" /\ (Picker!Mobile \/ \A c \in cs : c.what # "point") => pl.point = pk
    /\ pl.type = "ROUTE" => pl.address = pk /\ (~Picker!Editing => pk = None)

\* The address follows the place, and a route brings no pin with it.
AddressOK(pl, cs, ms) ==
  ms \cap {"overlap", "unnamed"} = {} =>
    /\ pl.type = "ROUTE" => pl.point = None
    /\ pl.type = "POINT" /\ (\A c \in cs : c.what # "point") =>
         pl.point = None \/ pl.address = pl.point

\* What is being fetched is the line through the way points r.
LineOK(r, dr, fe, ms) ==
  /\ fe # None => fe = Picker!Points(r)
  /\ fe = None /\ ("unrouted" \in ms => Picker!Mobile) => dr \in {None, Picker!Points(r)}

\* What was sent is one place, of the kind that is still on the form.
SentOK == Picker!RequestNamesOnePlace /\ (sent # None => place.type = sent.type)

PickerInv ==
  /\ PickerTyped
  /\ LabelsOK(place.route, calls, mishaps)
  /\ PicksOK(place, calls, picked, mishaps)
  /\ AddressOK(place, calls, mishaps)
  /\ LineOK(place.route, drawn, fetching, mishaps)
  /\ SentOK /\ Picker!SpinnerStops

(* The way points without the one at i.                                    *)
LEMMA PointRemoved ==
  ASSUME NEW S, NEW s \in Seq(S), NEW i \in DOMAIN s
  PROVE  /\ Picker!RemoveAt(s, i) \in Seq(S) /\ Len(Picker!RemoveAt(s, i)) = Len(s) - 1
         /\ \A j \in DOMAIN Picker!RemoveAt(s, i) :
              \E k \in DOMAIN s : Picker!RemoveAt(s, i)[j] = s[k]
<1> DEFINE before == SubSeq(s, 1, i - 1)
           after == SubSeq(s, i + 1, Len(s))
<1>1. i \in 1 .. Len(s) /\ \A j \in 1 .. Len(s) : s[j] \in S
  OBVIOUS
<1>2. before \in Seq(S) /\ Len(before) = i - 1 /\ \A j \in 1 .. (i - 1) : before[j] = s[j]
  BY <1>1, SubSeqProperties
<1>3. /\ after \in Seq(S) /\ Len(after) = Len(s) - i
      /\ \A j \in 1 .. (Len(s) - i) : after[j] = s[i + j]
  BY <1>1, SubSeqProperties
<1> HIDE DEF before, after
<1>4. /\ before \o after \in Seq(S) /\ Len(before \o after) = Len(s) - 1
      /\ \A j \in 1 .. (Len(s) - 1) :
           (before \o after)[j] = IF j <= i - 1 THEN before[j] ELSE after[j - (i - 1)]
  BY <1>1, <1>2, <1>3, ConcatProperties
<1>5. \A j \in 1 .. (Len(s) - 1) : \E k \in 1 .. Len(s) : (before \o after)[j] = s[k]
  <2> SUFFICES ASSUME NEW j \in 1 .. (Len(s) - 1)
               PROVE  \E k \in 1 .. Len(s) : (before \o after)[j] = s[k]
    OBVIOUS
  <2>1. CASE j <= i - 1
    BY <2>1, <1>1, <1>2, <1>4
  <2>2. CASE j > i - 1
    <3>1. (before \o after)[j] = after[j - (i - 1)] /\ j - (i - 1) \in 1 .. (Len(s) - i)
      BY <2>2, <1>1, <1>4
    <3>2. after[j - (i - 1)] = s[i + (j - (i - 1))] /\ i + (j - (i - 1)) \in 1 .. Len(s)
      BY <3>1, <1>1, <1>3
    <3>3. QED BY <3>1, <3>2
  <2>3. j \in Int /\ i \in Int
    BY <1>1
  <2>4. j <= i - 1 \/ j > i - 1
    BY <2>3
  <2>5. QED BY <2>1, <2>2, <2>4, Zenon
<1>6. Picker!RemoveAt(s, i) = before \o after
  BY DEF Picker!RemoveAt, before, after
<1>7. DOMAIN (before \o after) = 1 .. (Len(s) - 1) /\ DOMAIN s = 1 .. Len(s)
  BY <1>4
<1>8. QED BY <1>4, <1>5, <1>6, <1>7

(* A way point is moved by one, or removed.                                *)
LEMMA PointsMoved ==
  ASSUME NEW r \in Seq(Picker!WayPoint), NEW r2 \in Picker!Rows(r)
  PROVE  /\ r2 \in Seq(Picker!WayPoint) /\ Len(r2) <= Len(r)
         /\ \A j \in DOMAIN r2 : \E k \in DOMAIN r : r2[j] = r[k]
<1>1. r2 \in Picker!Shorter(r) \cup Picker!Moved(r)
  BY DEF Picker!Rows, Picker!WebCreateRows, Picker!WebEditRows, Picker!MobileCreateRows, Picker!MobileEditRows
<1>2. CASE r2 \in Picker!Shorter(r)
  <2>1. PICK i \in DOMAIN r : r2 = Picker!RemoveAt(r, i)
    BY <1>2 DEF Picker!Shorter
  <2>2. Len(r) \in Nat
    BY LenProperties
  <2>3. QED BY <2>1, <2>2, PointRemoved
<1>3. CASE r2 \in Picker!Moved(r)
  <2>1. PICK i \in 1 .. Len(r) - 1 : r2 = [r EXCEPT ![i] = r[i + 1], ![i + 1] = r[i]]
    BY <1>3 DEF Picker!Moved
  <2>2. Len(r) \in Nat /\ DOMAIN r = 1 .. Len(r) /\ i \in DOMAIN r /\ i + 1 \in DOMAIN r
    BY LenProperties
  <2>3. r[i] \in Picker!WayPoint /\ r[i + 1] \in Picker!WayPoint
    BY <2>2, ElementOfSeq
  <2>4. [r EXCEPT ![i] = r[i + 1]] \in Seq(Picker!WayPoint) /\ Len([r EXCEPT ![i] = r[i + 1]]) = Len(r)
    BY <2>2, <2>3, ExceptSeq
  <2>5. r2 \in Seq(Picker!WayPoint) /\ Len(r2) = Len(r) /\ DOMAIN r2 = DOMAIN r
    BY <2>1, <2>2, <2>3, <2>4, ExceptSeq
  <2>6. \A j \in DOMAIN r2 : r2[j] = IF j = i + 1 THEN r[i] ELSE IF j = i THEN r[i + 1] ELSE r[j]
    BY <2>1, <2>2, <2>5
  <2>7. QED BY <2>2, <2>5, <2>6
<1>4. QED BY <1>1, <1>2, <1>3

(* A form without a route.                                                 *)
LEMMA EmptyRoute == <<>> \in Seq(Picker!WayPoint) /\ Len(<<>>) = 0 /\ DOMAIN <<>> = {}
  BY EmptySeq

(* A line through places is something.                                     *)
LEMMA LinesAre ==
  ASSUME NEW r \in Seq(Picker!WayPoint), Len(r) <= MaxRoute
  PROVE  Picker!Points(r) # None
<1>1. Len(r) \in 0 .. MaxRoute /\ DOMAIN r = 1 .. Len(r)
  BY LenProperties, FormsAssumption
<1>2. \A i \in DOMAIN r : r[i].at \in Place
  <2>1. \A i \in DOMAIN r : r[i] \in Picker!WayPoint
    OBVIOUS
  <2>2. QED BY <2>1 DEF Picker!WayPoint
<1>3. Picker!Points(r) \in [1 .. Len(r) -> Place]
  BY <1>1, <1>2 DEF Picker!Points
<1>4. QED BY <1>1, <1>3, NoneAssumption

(* A step that leaves the way points alone.                                *)
LEMMA LabelsStay ==
  ASSUME PickerInv, place'.route = place.route, mishaps \subseteq mishaps',
         \A c \in calls' \ calls : c.what # "route"
  PROVE  LabelsOK(place'.route, calls', mishaps')
  BY DEF PickerInv, LabelsOK

(* A step that leaves way points and line alone.                           *)
LEMMA LineStays ==
  ASSUME PickerInv, place'.route = place.route, mishaps \subseteq mishaps',
         UNCHANGED <<drawn, fetching, screen>>
  PROVE  LineOK(place.route, drawn, fetching, mishaps)'
  BY DEF PickerInv, LineOK, Picker!Mobile

(* A step that sends nothing, and gives a route that was sent no address.  *)
LEMMA RequestStays ==
  ASSUME PickerInv, mishaps \subseteq mishaps', UNCHANGED <<screen, sent>>,
         sent # None => place'.type = place.type /\ (place.type = "ROUTE" => picked' = picked)
  PROVE  SentOK'
<1>1. Picker!RequestNamesOnePlace /\ (sent # None => place.type = sent.type)
  BY DEF PickerInv, SentOK
<1>2. sent' # None => place'.type = sent'.type
  BY <1>1
<1>3. Picker!Editing' = Picker!Editing
  BY DEF Picker!Editing
<1>4. Picker!RequestNamesOnePlace'
  BY <1>1, <1>3 DEF Picker!RequestNamesOnePlace
<1>5. QED BY <1>2, <1>4 DEF SentOK

(* The two way points of a stored route.                                   *)
LEMMA StoredEnds ==
  ASSUME NEW p \in Place, NEW q \in Place, NEW r,
         r = [i \in DOMAIN <<p, q>> |-> [at |-> <<p, q>>[i], label |-> None]]
  PROVE  r \in Seq(Picker!WayPoint) /\ Len(r) = 2 /\ \A i \in DOMAIN r : r[i].label = None
<1>1. DOMAIN r = 1 .. 2 /\ r = [i \in 1 .. 2 |-> r[i]]
  OBVIOUS
<1>2. \A i \in 1 .. 2 : <<p, q>>[i] \in Place
  OBVIOUS
<1>3. \A i \in 1 .. 2 : r[i] \in Picker!WayPoint /\ r[i].label = None
  BY <1>2 DEF Picker!WayPoint
<1>4. [i \in 1 .. 2 |-> r[i]] \in Seq(Picker!WayPoint)
  BY <1>3, IsASeq
<1>5. QED BY <1>1, <1>3, <1>4, LenProperties

(* What a form that edits is filled with.                                  *)
LEMMA StoredFits ==
  ASSUME NEW e \in Picker!StoredPlaces, NEW pl, pl = Picker!WebPlaceOf(e)
  PROVE  /\ pl \in PlaceRow /\ Len(pl.route) <= MaxRoute
         /\ pl.type = "ROUTE" => pl.point = None
         /\ pl.type = "POINT" => pl.address = pl.point \/ (pl.address = None /\ pl.point # None)
         /\ \A i \in DOMAIN pl.route : pl.route[i].label = None
<1>1. MaxRoute >= 2 /\ MaxRoute \in Nat /\ None \notin Place
  BY FormsAssumption
<1>2. e \in Picker!StoredPoints \/ e \in Picker!StoredRoutes
  BY DEF Picker!StoredPlaces
<1>3. CASE e \in Picker!StoredPoints
  <2>1. PICK p \in Place, a \in Place \cup {None} :
          e = [type |-> "POINT", point |-> p, address |-> a, route |-> <<>>]
    BY <1>3 DEF Picker!StoredPoints
  <2>2. a \in {p, None}
    <3>1. e.address \in {e.point, None} \/ e \in Picker!StoredRoutes
      BY DEF Picker!StoredPlaces
    <3>2. e \notin Picker!StoredRoutes
      <4>1. \A x \in Picker!StoredRoutes : x.type = "ROUTE"
        BY DEF Picker!StoredRoutes
      <4>2. QED BY <2>1, <4>1
    <3>3. QED BY <2>1, <3>1, <3>2
  <2>3. pl = [type |-> "POINT", point |-> p, address |-> a, query |-> a, route |-> <<>>]
    BY <2>1 DEF Picker!WebPlaceOf
  <2>4. pl.route = <<>> /\ pl.type = "POINT" /\ pl.point = p /\ pl.address = a
    BY <2>3
  <2>5. pl \in PlaceRow
    BY <2>3, EmptyRoute DEF PlaceRow, Picker!Address
  <2>6. QED BY <1>1, <2>2, <2>4, <2>5, EmptyRoute
<1>4. CASE e \in Picker!StoredRoutes
  <2>1. PICK a \in (Place \X Place) \cup {None}, p \in Place, q \in Place :
          e = [type |-> "ROUTE", point |-> None, address |-> a, route |-> <<p, q>>]
    BY <1>4 DEF Picker!StoredRoutes
  <2>2. PICK r : r = [i \in DOMAIN <<p, q>> |-> [at |-> <<p, q>>[i], label |-> None]]
    OBVIOUS
  <2>3. r \in Seq(Picker!WayPoint) /\ Len(r) = 2 /\ \A i \in DOMAIN r : r[i].label = None
    BY <2>2, StoredEnds
  <2>4. pl = [type |-> "ROUTE", point |-> None, address |-> a, query |-> a, route |-> r]
    <3>1. e.route = <<p, q>> /\ e.type = "ROUTE" /\ e.address = a
      BY <2>1
    <3>2. QED BY <2>2, <3>1 DEF Picker!WebPlaceOf
  <2>5. pl.route = r /\ pl.type = "ROUTE" /\ pl.point = None /\ pl.address = a
    BY <2>4
  <2>6. a \in Picker!Address
    BY DEF Picker!Address
  <2>7. pl \in PlaceRow
    BY <2>3, <2>4, <2>6 DEF PlaceRow
  <2>8. QED BY <1>1, <2>3, <2>5, <2>7
<1>5. QED BY <1>2, <1>3, <1>4

(* The start.                                                              *)
LEMMA PickerBegins ==
  ASSUME Picker!Init
  PROVE  PickerInv
<1>1. /\ screen \in [client : {"web", "mobile"}, kind : {"create", "edit"}]
      /\ shown = None /\ searching = FALSE /\ timer = None /\ calls = {}
      /\ drawn = None /\ fetching = None /\ sent = None /\ inputs = 0
      /\ picked = IF place.type = "ROUTE" THEN place.address ELSE place.point
      /\ mishaps = IF place.point # None /\ place.address = None THEN {"unnamed"} ELSE {}
  BY DEF Picker!Init
<1>2. MaxRoute >= 2 /\ MaxRoute \in Nat /\ MaxInput \in Nat /\ 0 \in 0 .. MaxInput
  BY FormsAssumption
<1>3. /\ place \in PlaceRow /\ Len(place.route) <= MaxRoute
      /\ place.type = "ROUTE" => place.point = None /\ Picker!Editing
      /\ place.type = "POINT" =>
           place.address = place.point \/ (place.address = None /\ place.point # None)
      /\ \A i \in DOMAIN place.route : place.route[i].label = None
  <2>1. CASE screen.kind = "create"
    <3>1. place = Picker!EmptyPlace
      BY <2>1 DEF Picker!Init
    <3>2. /\ place = [type |-> "POINT", point |-> None, address |-> None, query |-> None, route |-> <<>>]
          /\ place.route = <<>>
      BY <3>1 DEF Picker!EmptyPlace
    <3>3. QED BY <1>2, <3>2, EmptyRoute DEF PlaceRow, Picker!Address
  <2>2. CASE screen.kind = "edit"
    <3>1. PICK e \in Picker!StoredPlaces : place = Picker!WebPlaceOf(e)
      BY <2>2 DEF Picker!Init, Picker!MobilePlaceOf
    <3>2. Picker!Editing
      BY <2>2 DEF Picker!Editing
    <3>3. QED BY <3>1, <3>2, StoredFits
  <2>3. QED BY <1>1, <2>1, <2>2
<1>4. place.address \in Picker!Address /\ place.point \in Picker!Address
  BY <1>3 DEF PlaceRow, Picker!Address
<1>5. PickerTyped
  BY <1>1, <1>2, <1>3, <1>4 DEF PickerTyped
<1>6. LabelsOK(place.route, calls, mishaps) /\ PicksOK(place, calls, picked, mishaps)
  BY <1>1, <1>3 DEF LabelsOK, PicksOK
<1>7. AddressOK(place, calls, mishaps) /\ LineOK(place.route, drawn, fetching, mishaps)
  BY <1>1, <1>3 DEF AddressOK, LineOK
<1>8. QED BY <1>1, <1>5, <1>6, <1>7 DEF PickerInv, SentOK, Picker!RequestNamesOnePlace, Picker!SpinnerStops

\* The form holds what its fields may hold.
PlaceFits(pl) == pl \in PlaceRow /\ Len(pl.route) <= MaxRoute

(* What an input leaves alone, and who may do it.                          *)
LEMMA PickerInput ==
  ASSUME PickerInv, NEW what, Picker!Input(what)
  PROVE  /\ UNCHANGED <<screen, sent>> /\ inputs' \in 0 .. MaxInput /\ what \in Picker!Offers
         /\ what = "select" => place.type = "POINT" /\ shown # None
         /\ what = "suggest" => shown # None
         /\ what = "tap" => place.type = "POINT"
         /\ what = "clear" => place.type = "POINT" /\ Picker!Mobile
         /\ what = "address" => place.type = "ROUTE" /\ Picker!Editing
         /\ what \in {"type", "switch", "address", "tap"} => sent = None
<1>1. /\ UNCHANGED <<screen, sent>> /\ what \in Picker!Offers /\ inputs < MaxInput
      /\ inputs' = inputs + 1
  BY DEF Picker!Input
<1>2. MaxInput \in Nat /\ inputs \in 0 .. MaxInput /\ place.type \in {"POINT", "ROUTE"}
  BY FormsAssumption DEF PickerInv, PickerTyped, PlaceRow
<1>3. inputs' \in 0 .. MaxInput
  BY <1>1, <1>2
<1>4. Picker!Mobile <=> ~Picker!Web
  BY DEF PickerInv, PickerTyped, Picker!Mobile, Picker!Web
<1>5. /\ what = "select" => place.type = "POINT" /\ shown # None
      /\ what = "suggest" => shown # None
      /\ what = "tap" => place.type = "POINT"
      /\ what = "clear" => place.type = "POINT" /\ Picker!Mobile
      /\ what = "address" => place.type = "ROUTE" /\ Picker!Editing
      /\ what \in {"type", "switch", "address", "tap"} => sent = None
  <2> USE DEF Picker!Busy, Picker!Arrows, Picker!Suggestions, Picker!WebRouteOffers, Picker!MobileRouteOffers
  <2>1. CASE Picker!Web /\ Picker!Editing
    BY <1>1, <1>2, <2>1 DEF Picker!Offers, Picker!WebEditOffers
  <2>2. CASE Picker!Web /\ ~Picker!Editing
    BY <1>1, <1>2, <2>2 DEF Picker!Offers, Picker!WebCreateOffers
  <2>3. CASE ~Picker!Web /\ Picker!Editing
    BY <1>1, <1>2, <1>4, <2>3 DEF Picker!Offers, Picker!MobileEditOffers
  <2>4. CASE ~Picker!Web /\ ~Picker!Editing
    BY <1>1, <1>2, <1>4, <2>4 DEF Picker!Offers, Picker!MobileCreateOffers
  <2>5. QED BY <2>1, <2>2, <2>3, <2>4
<1>6. QED BY <1>1, <1>3, <1>5

(* What happens is remembered.                                             *)
LEMMA Overlaps ==
  ASSUME PickerInv, NEW new, mishaps' = mishaps \cup new,
         new \subseteq {"overlap", "shuffle", "unnamed", "unrouted"}
  PROVE  /\ mishaps \subseteq mishaps' /\ mishaps' \subseteq {"overlap", "shuffle", "unnamed", "unrouted"}
  BY DEF PickerInv, PickerTyped

(* An input that overlaps with a tap which waits for its name counts so.   *)
LEMMA PointOverlaps ==
  ASSUME PickerInv, Picker!Mishap(Picker!PointOverlap)
  PROVE  /\ mishaps \subseteq mishaps' /\ mishaps' \subseteq {"overlap", "shuffle", "unnamed", "unrouted"}
         /\ "overlap" \notin mishaps' => \A c \in calls : c.what # "point"
<1>1. mishaps' = mishaps \cup Picker!PointOverlap
  BY DEF Picker!Mishap
<1>2. Picker!PointOverlap \subseteq {"overlap"}
  BY DEF Picker!PointOverlap
<1>3. "overlap" \notin mishaps' => \A c \in calls : c.what # "point"
  BY <1>1 DEF Picker!PointOverlap, Picker!NamingPoint
<1>4. QED BY <1>1, <1>2, <1>3, Overlaps

(* A place that is picked, cleared or typed over while no name is waited   *)
(* for, or after which that counts as an overlap.                          *)
LEMMA PlaceTaken ==
  ASSUME PickerInv, PlaceFits(place'), place'.route = place.route,
         Picker!Mishap(Picker!PointOverlap),
         place'.type = "POINT" => place'.point = picked',
         \/ place'.point = place'.address \/ place'.point = None,
         place'.type = "ROUTE" => place'.point = None /\ place'.address = None /\ picked' = None,
         sent = None \/ (place.type = "POINT" /\ place'.type = place.type),
         calls' = calls, searching' = searching, shown' \in Place \cup {None},
         timer' \in Place \cup {None}, picked' \in Picker!Address,
         UNCHANGED <<screen, sent, drawn, fetching>>, inputs' \in 0 .. MaxInput
  PROVE  PickerInv'
<1>1. /\ mishaps \subseteq mishaps' /\ mishaps' \subseteq {"overlap", "shuffle", "unnamed", "unrouted"}
      /\ "overlap" \notin mishaps' => \A c \in calls : c.what # "point"
  BY PointOverlaps
<1>2. PickerTyped'
  BY <1>1 DEF PickerInv, PickerTyped, PlaceFits
<1>3. LabelsOK(place'.route, calls', mishaps')
  BY <1>1, LabelsStay
<1>4. PicksOK(place, calls, picked, mishaps)'
  BY <1>1 DEF PicksOK, Picker!Mobile, Picker!Editing
<1>5. AddressOK(place', calls', mishaps')
  BY <1>1 DEF AddressOK
<1>6. LineOK(place.route, drawn, fetching, mishaps)'
  BY <1>1, LineStays
<1>7. SentOK'
  BY <1>1, RequestStays
<1>8. Picker!SpinnerStops'
  BY DEF PickerInv, Picker!SpinnerStops
<1>9. QED BY <1>2, <1>3, <1>4, <1>5, <1>6, <1>7, <1>8 DEF PickerInv

(* A text search leaves the place but for the text.                        *)
LEMMA OnlySearched ==
  ASSUME PickerInv, PlaceFits(place'), place'.route = place.route, place'.type = place.type,
         place'.point = place.point, place'.address = place.address,
         {c \in calls' : c.what # "search"} = {c \in calls : c.what # "search"},
         calls' \subseteq Picker!Search \cup Picker!Naming,
         searching' \in BOOLEAN, searching' => \E c \in calls' : c.what = "search",
         shown' \in Place \cup {None}, timer' \in Place \cup {None}, inputs' \in 0 .. MaxInput,
         UNCHANGED <<screen, sent, drawn, fetching, picked, mishaps>>
  PROVE  PickerInv'
<1>1. \A c \in calls' : c.what # "search" => c \in calls
  OBVIOUS
<1>2. \A c \in calls : c.what # "search" => c \in calls'
  OBVIOUS
<1>3. PickerTyped'
  BY DEF PickerInv, PickerTyped, PlaceFits
<1>4. LabelsOK(place'.route, calls', mishaps')
  BY <1>1, LabelsStay
<1>5. PicksOK(place, calls, picked, mishaps)'
  BY <1>1, <1>2 DEF PickerInv, PicksOK, Picker!Mobile, Picker!Editing
<1>6. AddressOK(place', calls', mishaps')
  BY <1>1, <1>2 DEF PickerInv, AddressOK
<1>7. LineOK(place.route, drawn, fetching, mishaps)'
  BY LineStays
<1>8. SentOK'
  BY RequestStays
<1>9. QED BY <1>3, <1>4, <1>5, <1>6, <1>7, <1>8 DEF PickerInv, Picker!SpinnerStops

(* The fields a place is given.                                            *)
LEMMA PlaceSet ==
  ASSUME PickerInv
  PROVE  /\ PlaceFits(place)
         /\ \A q \in Place \cup {None} :
              /\ PlaceFits([place EXCEPT !.query = q]) /\ [place EXCEPT !.query = q].query = q
              /\ [place EXCEPT !.query = q].type = place.type
              /\ [place EXCEPT !.query = q].point = place.point
              /\ [place EXCEPT !.query = q].address = place.address
              /\ [place EXCEPT !.query = q].route = place.route
  BY DEF PickerInv, PickerTyped, PlaceFits, PlaceRow, Picker!Address

(* A text is typed.                                                        *)
LEMMA PickerTypedIn ==
  ASSUME PickerInv, Picker!Type
  PROVE  PickerInv'
<1>1. PICK q \in Place \cup {None} :
        \/ Picker!WebSearch(q)
        \/ Picker!MobileCreateSearch(q)
        \/ Picker!MobileEditSearch(q)
  BY DEF Picker!Type, Picker!WebEditSearch
<1>2. UNCHANGED <<screen, sent>> /\ inputs' \in 0 .. MaxInput /\ sent = None
  BY PickerInput DEF Picker!Type
<1>3. CASE Picker!WebSearch(q)
  <2>1. /\ place' = [place EXCEPT !.query = q, !.point = None, !.address = None]
        /\ shown' = None /\ timer' = q /\ picked' = None /\ Picker!Mishap(Picker!PointOverlap)
        /\ UNCHANGED <<searching, calls, drawn, fetching>>
    BY <1>3 DEF Picker!WebSearch
  <2>2. PlaceFits(place') /\ place'.point = None /\ place'.address = None /\ place'.route = place.route
    <3>1. PICK x : x = place'
      OBVIOUS
    <3>2. x \in PlaceRow /\ x.point = None /\ x.address = None /\ x.route = place.route
      BY <3>1, <2>1 DEF PickerInv, PickerTyped, PlaceRow, Picker!Address
    <3>3. QED BY <3>1, <3>2 DEF PickerInv, PickerTyped, PlaceFits
  <2>3. None \in Picker!Address
    BY DEF Picker!Address
  <2>4. QED BY <1>2, <2>1, <2>2, <2>3, PlaceTaken
<1>4. CASE Picker!MobileCreateSearch(q)
  <2>1. /\ place' = [place EXCEPT !.query = q] /\ timer' = q /\ shown' \in {None, shown}
        /\ UNCHANGED <<searching, calls, drawn, fetching, picked, mishaps>>
    BY <1>4 DEF Picker!MobileCreateSearch
  <2>2. /\ PlaceFits(place') /\ place'.type = place.type /\ place'.point = place.point
        /\ place'.address = place.address /\ place'.route = place.route
    BY <2>1, PlaceSet
  <2>3. /\ calls' \subseteq Picker!Search \cup Picker!Naming /\ searching' \in BOOLEAN
        /\ searching' => \E c \in calls' : c.what = "search"
        /\ shown' \in Place \cup {None}
    BY <2>1 DEF PickerInv, PickerTyped, Picker!SpinnerStops
  <2>4. QED BY <1>2, <2>1, <2>2, <2>3, OnlySearched
<1>5. CASE Picker!MobileEditSearch(q)
  <2>1. /\ place' = [place EXCEPT !.query = q]
        /\ UNCHANGED <<timer, drawn, fetching, picked, mishaps>>
        /\ \/ q = None /\ shown' = None /\ UNCHANGED <<searching, calls>>
           \/ /\ q # None /\ calls' = calls \cup {[what |-> "search", at |-> q, index |-> 0]}
              /\ searching' = TRUE /\ UNCHANGED shown
    BY <1>5 DEF Picker!MobileEditSearch
  <2>2. /\ PlaceFits(place') /\ place'.type = place.type /\ place'.point = place.point
        /\ place'.address = place.address /\ place'.route = place.route
    BY <2>1, PlaceSet
  <2>3. PICK c : c = [what |-> "search", at |-> q, index |-> 0]
    OBVIOUS
  <2>4. c.what = "search" /\ (q # None => c \in Picker!Search)
    BY <2>3 DEF Picker!Search
  <2>5. /\ calls \subseteq Picker!Search \cup Picker!Naming /\ searching \in BOOLEAN
        /\ searching => \E d \in calls : d.what = "search"
        /\ shown \in Place \cup {None} /\ timer \in Place \cup {None}
    BY DEF PickerInv, PickerTyped, Picker!SpinnerStops
  <2>6. shown' \in Place \cup {None} /\ timer' \in Place \cup {None} /\ searching' \in BOOLEAN
    BY <2>1, <2>5
  <2>7. (calls' = calls /\ searching' = searching) \/ (calls' = calls \cup {c} /\ c \in Picker!Search)
    BY <2>1, <2>3, <2>4
  <2>8. /\ calls' \subseteq Picker!Search \cup Picker!Naming
        /\ searching' => \E d \in calls' : d.what = "search"
        /\ {d \in calls' : d.what # "search"} = {d \in calls : d.what # "search"}
    BY <2>4, <2>5, <2>7
  <2>9. QED BY <1>2, <2>1, <2>2, <2>6, <2>8, OnlySearched
<1>6. QED BY <1>1, <1>3, <1>4, <1>5

(* A search is sent, and answered.                                         *)
LEMMA PickerSearched ==
  ASSUME PickerInv, Picker!Debounced \/ Picker!Searched
  PROVE  PickerInv'
<1>1. PlaceFits(place) /\ inputs \in 0 .. MaxInput
  BY PlaceSet DEF PickerInv, PickerTyped
<1>2. CASE Picker!Debounced
  <2>1. PICK c : c = [what |-> "search", at |-> timer, index |-> 0]
    OBVIOUS
  <2>2. /\ timer # None /\ timer' = None /\ calls' = calls \cup {c} /\ searching' = TRUE
        /\ UNCHANGED <<screen, place, shown, drawn, fetching, sent, inputs, picked, mishaps>>
    BY <1>2, <2>1 DEF Picker!Debounced
  <2>3. c.what = "search" /\ c \in Picker!Search
    BY <2>1, <2>2 DEF PickerInv, PickerTyped, Picker!Search
  <2>4. /\ calls' \subseteq Picker!Search \cup Picker!Naming
        /\ {d \in calls' : d.what # "search"} = {d \in calls : d.what # "search"}
        /\ shown' \in Place \cup {None}
    BY <2>2, <2>3 DEF PickerInv, PickerTyped
  <2>5. QED BY <1>1, <2>2, <2>3, <2>4, OnlySearched
<1>3. CASE Picker!Searched
  <2>1. PICK c \in calls : \E result \in {c.at, None} :
          /\ c.what = "search" /\ calls' = calls \ {c} /\ shown' = result /\ searching' = FALSE
          /\ UNCHANGED <<screen, place, timer, drawn, fetching, sent, inputs, picked, mishaps>>
    BY <1>3 DEF Picker!Searched, Picker!SearchResults
  <2>2. c.at \in Place
    BY DEF PickerInv, PickerTyped, Picker!Search, Picker!Naming
  <2>3. /\ calls' \subseteq Picker!Search \cup Picker!Naming
        /\ {d \in calls' : d.what # "search"} = {d \in calls : d.what # "search"}
        /\ shown' \in Place \cup {None} /\ timer' \in Place \cup {None}
    BY <2>1, <2>2 DEF PickerInv, PickerTyped
  <2>4. QED BY <1>1, <2>1, <2>3, OnlySearched
<1>4. QED BY <1>2, <1>3

(* A suggestion is selected, or the place cleared.                         *)
LEMMA PickerSelected ==
  ASSUME PickerInv, Picker!Select \/ Picker!Clear
  PROVE  PickerInv'
<1>1. /\ timer \in Place \cup {None} /\ shown \in Place \cup {None}
      /\ shown \in Picker!Address /\ None \in Picker!Address
  BY DEF PickerInv, PickerTyped, Picker!Address
<1>2. CASE Picker!Select
  <2>1. /\ place' = [place EXCEPT !.point = shown, !.address = shown, !.query = shown]
        /\ shown' = None /\ picked' = shown /\ Picker!Mishap(Picker!PointOverlap)
        /\ UNCHANGED <<searching, timer, calls, drawn, fetching>>
    BY <1>2 DEF Picker!Select, Picker!WebCreatePick, Picker!WebEditPick, Picker!MobileCreatePick,
       Picker!MobileEditPick, Picker!PickedAt
  <2>2. UNCHANGED <<screen, sent>> /\ inputs' \in 0 .. MaxInput /\ place.type = "POINT"
    BY <1>2, PickerInput DEF Picker!Select
  <2>3. /\ PlaceFits(place') /\ place'.point = shown /\ place'.address = shown
        /\ place'.type = "POINT" /\ place'.route = place.route
    <3>1. PICK x : x = place'
      OBVIOUS
    <3>2. shown # None /\ shown \in Place
      BY <1>1, <1>2, PickerInput DEF Picker!Select
    <3>3. x \in PlaceRow /\ x.point = shown /\ x.address = shown /\ x.route = place.route
          /\ x.type = place.type
      BY <2>1, <3>1, <3>2 DEF PickerInv, PickerTyped, PlaceRow, Picker!Address
    <3>4. QED BY <2>2, <3>1, <3>3 DEF PickerInv, PickerTyped, PlaceFits
  <2>4. QED BY <1>1, <2>1, <2>2, <2>3, PlaceTaken
<1>3. CASE Picker!Clear
  <2>1. /\ place' = [place EXCEPT !.point = None, !.address = None, !.query = None]
        /\ shown' = None /\ picked' = None /\ Picker!Mishap(Picker!PointOverlap)
        /\ UNCHANGED <<searching, timer, calls, drawn, fetching>>
    BY <1>3 DEF Picker!Clear, Picker!MobileEditClear, Picker!MobileCreateClear, Picker!Unpicked
  <2>2. UNCHANGED <<screen, sent>> /\ inputs' \in 0 .. MaxInput /\ place.type = "POINT"
    BY <1>3, PickerInput DEF Picker!Clear
  <2>3. /\ PlaceFits(place') /\ place'.point = None /\ place'.address = None
        /\ place'.type = "POINT" /\ place'.route = place.route
    <3>1. PICK x : x = place'
      OBVIOUS
    <3>2. x \in PlaceRow /\ x.point = None /\ x.address = None /\ x.route = place.route
          /\ x.type = place.type
      BY <2>1, <3>1 DEF PickerInv, PickerTyped, PlaceRow, Picker!Address
    <3>3. QED BY <2>2, <3>1, <3>2 DEF PickerInv, PickerTyped, PlaceFits
  <2>4. QED BY <1>1, <2>1, <2>2, <2>3, PlaceTaken
<1>4. QED BY <1>2, <1>3

(* The way points change, and with them the line that is to be drawn.      *)
LEMMA LineRedrawn ==
  ASSUME PickerInv, NEW r, r \in Seq(Picker!WayPoint), Len(r) <= MaxRoute, place'.route = r,
         Picker!RouteDrawn(r), mishaps \subseteq mishaps', UNCHANGED screen
  PROVE  LineOK(place.route, drawn, fetching, mishaps)'
<1>1. Picker!Mobile' = Picker!Mobile
  BY DEF Picker!Mobile
<1>2. CASE Picker!Points(r) = Picker!Points(place.route)
  <2>1. UNCHANGED <<drawn, fetching>>
    BY <1>2 DEF Picker!RouteDrawn, Picker!KeepRouteDrawing
  <2>2. QED BY <1>1, <1>2, <2>1 DEF PickerInv, LineOK
<1>3. CASE Picker!Points(r) # Picker!Points(place.route)
  <2>1. /\ drawn' = IF Len(r) < 2 THEN None ELSE drawn
        /\ fetching' = IF Len(r) < 2 THEN None ELSE Picker!Points(r)
    BY <1>3 DEF Picker!RouteDrawn, Picker!WebRouteDrawn, Picker!MobileRouteDrawn
  <2>2. Picker!Points(r) # None
    BY LinesAre
  <2>3. QED BY <1>1, <2>1, <2>2 DEF LineOK
<1>4. QED BY <1>2, <1>3

(* The kind of place is switched.                                          *)
LEMMA PickerSwitched ==
  ASSUME PickerInv, Picker!SwitchType
  PROVE  PickerInv'
<1>1. UNCHANGED <<screen, sent>> /\ inputs' \in 0 .. MaxInput /\ sent = None
  BY PickerInput DEF Picker!SwitchType
<1>2. PICK type \in {"POINT", "ROUTE"} \ {place.type} :
        LET next == Picker!SwitchedHere(type) IN
          /\ place' = next /\ Picker!RouteDrawn(next.route) /\ picked' = next.point
  BY DEF Picker!SwitchType
<1>3. PICK x : x = Picker!SwitchedHere(type)
  OBVIOUS
<1>4. place' = x /\ Picker!RouteDrawn(x.route) /\ picked' = x.point
  BY <1>2, <1>3
<1>5. /\ shown' = None /\ UNCHANGED <<searching, timer, calls>>
      /\ mishaps' = mishaps \cup (Picker!PointOverlap \cup Picker!RouteOverlap)
  BY DEF Picker!SwitchType, Picker!Mishap
<1>6. PlaceFits(x) /\ x.route \in {place.route, <<>>} /\ x.type = type
      /\ \/ x.point = None /\ x.address = None
         \/ type = "POINT" /\ x.point = place.point /\ x.address = place.address
      /\ x.point \in Place \cup {None}
  <2>1. place \in PlaceRow /\ Len(place.route) <= MaxRoute /\ MaxRoute \in Nat
    BY FormsAssumption DEF PickerInv, PickerTyped
  <2>2. PICK y : y = [place EXCEPT !.point = None, !.address = None, !.query = None]
    OBVIOUS
  <2>3. /\ y \in PlaceRow /\ y.point = None /\ y.address = None /\ y.route = place.route
    BY <2>1, <2>2 DEF PlaceRow, Picker!Address
  <2>4. \/ x = [y EXCEPT !.type = type] /\ type = "ROUTE"
        \/ x = [place EXCEPT !.type = type, !.route = <<>>] /\ type = "POINT"
        \/ x = [y EXCEPT !.type = type, !.route = IF type = "ROUTE" THEN @ ELSE <<>>]
    BY <1>2, <1>3, <2>2 DEF Picker!SwitchedHere, Picker!WebEditSwitched, Picker!WebCreateSwitched,
       Picker!MobileEditSwitched, Picker!MobileCreateSwitched, Picker!Switched, Picker!Unpicked
  <2>5. CASE x = [y EXCEPT !.type = type] /\ type = "ROUTE"
    BY <2>1, <2>3, <2>5 DEF PlaceRow, PlaceFits
  <2>6. CASE x = [place EXCEPT !.type = type, !.route = <<>>] /\ type = "POINT"
    <3>1. x \in PlaceRow /\ x.route = <<>> /\ x.type = type /\ x.point = place.point
          /\ x.address = place.address
      BY <2>1, <2>6, EmptyRoute DEF PlaceRow
    <3>2. place.point \in Place \cup {None}
      BY <2>1 DEF PlaceRow
    <3>3. QED BY <2>1, <2>6, <3>1, <3>2, EmptyRoute DEF PlaceFits
  <2>7. CASE x = [y EXCEPT !.type = type, !.route = IF type = "ROUTE" THEN @ ELSE <<>>]
    <3>1. PICK r : r = IF type = "ROUTE" THEN y.route ELSE <<>>
      OBVIOUS
    <3>2. r \in {place.route, <<>>} /\ r \in Seq(Picker!WayPoint) /\ Len(r) <= MaxRoute
      BY <2>1, <2>3, <3>1, EmptyRoute DEF PlaceRow
    <3>3. x = [y EXCEPT !.type = type, !.route = r]
      BY <2>7, <3>1
    <3>4. x \in PlaceRow /\ x.route = r /\ x.type = type /\ x.point = None /\ x.address = None
      BY <1>2, <2>3, <3>2, <3>3 DEF PlaceRow
    <3>5. QED BY <3>2, <3>4 DEF PlaceFits
  <2>8. QED BY <2>4, <2>5, <2>6, <2>7
<1>7. /\ mishaps \subseteq mishaps' /\ mishaps' \subseteq {"overlap", "shuffle", "unnamed", "unrouted"}
      /\ "overlap" \notin mishaps' => \A c \in calls : c.what # "point"
      /\ "shuffle" \notin mishaps' => \A c \in calls : c.what # "route"
  BY <1>5 DEF Picker!PointOverlap, Picker!RouteOverlap, Picker!NamingPoint, Picker!NamingRoute,
     PickerInv, PickerTyped
<1>8. PickerTyped'
  <2>1. picked' \in Picker!Address
    BY <1>4, <1>6 DEF Picker!Address
  <2>2. QED BY <2>1, <1>1, <1>4, <1>5, <1>6, <1>7 DEF PickerInv, PickerTyped, PlaceFits, PlaceRow
<1>9. LabelsOK(x.route, calls', mishaps')
  BY <1>5, <1>6, <1>7, EmptyRoute DEF PickerInv, LabelsOK
<1>10. PicksOK(x, calls', picked', mishaps')
  BY <1>4, <1>5, <1>6, <1>7 DEF PicksOK
<1>11. AddressOK(x, calls', mishaps')
  <2>1. CASE x.point = None /\ x.address = None
    BY <2>1 DEF AddressOK
  <2>2. CASE type = "POINT" /\ x.point = place.point /\ x.address = place.address
    <3>1. place.type = "ROUTE"
      BY <1>2, <2>2 DEF PickerInv, PickerTyped, PlaceRow
    <3>2. mishaps' \cap {"overlap", "unnamed"} = {} => x.point = None
      BY <1>7, <2>2, <3>1 DEF PickerInv, AddressOK
    <3>3. QED BY <1>6, <2>2, <3>2 DEF AddressOK
  <2>3. QED BY <1>6, <2>1, <2>2
<1>12. LineOK(place.route, drawn, fetching, mishaps)'
  BY <1>1, <1>4, <1>6, <1>7, LineRedrawn DEF PlaceFits, PlaceRow
<1>13. SentOK' /\ Picker!SpinnerStops'
  BY <1>1, <1>5, <1>7, RequestStays DEF PickerInv, Picker!SpinnerStops
<1>14. PicksOK(place, calls, picked, mishaps)'
  BY <1>1, <1>4, <1>10 DEF PicksOK, Picker!Mobile, Picker!Editing
<1>15. QED BY <1>4, <1>8, <1>9, <1>11, <1>12, <1>13, <1>14 DEF PickerInv

(* The host writes the address of a route.                                 *)
LEMMA PickerAddressed ==
  ASSUME PickerInv, Picker!NameRoute
  PROVE  PickerInv'
<1>1. UNCHANGED <<screen, sent>> /\ inputs' \in 0 .. MaxInput /\ sent = None
  BY PickerInput DEF Picker!NameRoute
<1>2. PICK a \in Place \cup {None} : place' = [place EXCEPT !.address = a] /\ picked' = a
  BY DEF Picker!NameRoute
<1>3. UNCHANGED <<shown, searching, timer, calls, drawn, fetching, mishaps>>
  BY DEF Picker!NameRoute
<1>4. place.type = "ROUTE" /\ Picker!Editing
  BY PickerInput DEF Picker!NameRoute
<1>5. /\ PlaceFits(place') /\ place'.type = place.type /\ place'.point = place.point
      /\ place'.address = a /\ place'.route = place.route
  <2>1. PICK x : x = place'
    OBVIOUS
  <2>2. x \in PlaceRow /\ x.type = place.type /\ x.point = place.point /\ x.address = a
        /\ x.route = place.route
    BY <2>1, <1>2 DEF PickerInv, PickerTyped, PlaceRow, Picker!Address
  <2>3. QED BY <2>1, <2>2 DEF PickerInv, PickerTyped, PlaceFits
<1>6. PickerTyped'
  <2>1. picked' \in Picker!Address
    BY <1>2 DEF Picker!Address
  <2>2. QED BY <2>1, <1>1, <1>3, <1>5 DEF PickerInv, PickerTyped, PlaceFits
<1>7. LabelsOK(place'.route, calls', mishaps')
  BY <1>3, <1>5, LabelsStay
<1>8. PicksOK(place, calls, picked, mishaps)'
  BY <1>1, <1>2, <1>3, <1>4, <1>5 DEF PickerInv, PicksOK, Picker!Mobile, Picker!Editing
<1>9. AddressOK(place', calls', mishaps')
  BY <1>3, <1>4, <1>5 DEF PickerInv, AddressOK
<1>10. LineOK(place.route, drawn, fetching, mishaps)'
  BY <1>1, <1>3, <1>5, LineStays
<1>11. SentOK' /\ Picker!SpinnerStops'
  BY <1>1, <1>3, RequestStays DEF PickerInv, Picker!SpinnerStops
<1>12. QED BY <1>6, <1>7, <1>8, <1>9, <1>10, <1>11 DEF PickerInv

(* The pin of the app, with the name of its place or without.              *)
LEMMA PinMoved ==
  ASSUME PickerInv, NEW p \in Place, NEW label \in Place \cup {None}, Picker!MobilePoint(p, label)
  PROVE  /\ PlaceFits(place') /\ place'.type = place.type /\ place'.route = place.route
         /\ place'.point = p /\ place'.address = (IF label = None THEN place.address ELSE label)
         /\ shown' \in Place \cup {None}
<1>1. place' = Picker!PointAt(p, label) /\ shown' \in {None, shown}
  BY DEF Picker!MobilePoint, Picker!MobileCreatePoint, Picker!MobileEditPoint
<1>2. PICK x : x = place'
  OBVIOUS
<1>3. /\ x \in PlaceRow /\ x.type = place.type /\ x.route = place.route /\ x.point = p
      /\ x.address = (IF label = None THEN place.address ELSE label)
  BY <1>1, <1>2 DEF PickerInv, PickerTyped, PlaceRow, Picker!Address, Picker!PointAt
<1>4. QED BY <1>1, <1>2, <1>3 DEF PickerInv, PickerTyped, PlaceFits

(* A tap on the map.                                                       *)
LEMMA PickerTapped ==
  ASSUME PickerInv, Picker!TapMap
  PROVE  PickerInv'
<1>1. /\ UNCHANGED <<screen, sent>> /\ inputs' \in 0 .. MaxInput /\ place.type = "POINT"
      /\ sent = None
  BY PickerInput DEF Picker!TapMap
<1>2. PICK p \in Place :
        /\ IF Picker!Mobile THEN Picker!MobileTap(p) ELSE Picker!WebTap(p)
        /\ calls' = calls \cup {[what |-> "point", at |-> p, index |-> 0]}
        /\ picked' = p
  BY DEF Picker!TapMap
<1>3. PICK c : c = [what |-> "point", at |-> p, index |-> 0]
  OBVIOUS
<1>4. c.what = "point" /\ c.at = p /\ c \in Picker!Naming /\ calls' = calls \cup {c}
  BY <1>2, <1>3 DEF Picker!Naming
<1>5. Picker!Mishap(Picker!PointOverlap) /\ UNCHANGED <<searching, timer, drawn, fetching>>
  BY DEF Picker!TapMap
<1>6. /\ mishaps \subseteq mishaps' /\ mishaps' \subseteq {"overlap", "shuffle", "unnamed", "unrouted"}
      /\ "overlap" \notin mishaps' => \A d \in calls : d.what # "point"
  BY <1>5, PointOverlaps
<1>7. /\ PlaceFits(place') /\ place'.type = place.type /\ place'.route = place.route
      /\ Picker!Mobile => place'.point = p
      /\ shown' \in Place \cup {None}
  <2>1. CASE Picker!Mobile
    <3>1. Picker!MobilePoint(p, None)
      BY <1>2, <2>1 DEF Picker!MobileTap
    <3>2. QED BY <3>1, PinMoved
  <2>2. CASE ~Picker!Mobile
    BY <1>2, <2>2 DEF Picker!WebTap, PickerInv, PickerTyped, PlaceFits
  <2>3. QED BY <2>1, <2>2
<1>8. PickerTyped'
  <2>1. picked' \in Picker!Address
    BY <1>2 DEF Picker!Address
  <2>2. QED BY <2>1, <1>1, <1>4, <1>5, <1>6, <1>7 DEF PickerInv, PickerTyped, PlaceFits
<1>9. LabelsOK(place'.route, calls', mishaps')
  BY <1>4, <1>6, <1>7, LabelsStay
<1>10. PicksOK(place, calls, picked, mishaps)'
  BY <1>1, <1>2, <1>4, <1>6, <1>7 DEF PicksOK, Picker!Mobile, Picker!Editing
<1>11. AddressOK(place', calls', mishaps')
  BY <1>1, <1>4, <1>7 DEF AddressOK
<1>12. LineOK(place.route, drawn, fetching, mishaps)'
  BY <1>1, <1>5, <1>6, <1>7, LineStays
<1>13. SentOK' /\ Picker!SpinnerStops'
  BY <1>1, <1>4, <1>5, <1>6, RequestStays DEF PickerInv, Picker!SpinnerStops
<1>14. QED BY <1>8, <1>9, <1>10, <1>11, <1>12, <1>13 DEF PickerInv

(* The name of a tap comes, or does not.                                   *)
LEMMA PickerNamed ==
  ASSUME PickerInv, Picker!PointNamed
  PROVE  PickerInv'
<1>1. PICK c \in calls : \E named \in BOOLEAN :
        /\ c.what = "point" /\ calls' = calls \ {c}
        /\ IF Picker!Mobile THEN Picker!MobileNamed(c.at, named) ELSE Picker!WebNamed(c.at)
        /\ UNCHANGED <<screen, searching, timer, drawn, fetching, sent, inputs, picked>>
  BY DEF Picker!PointNamed
<1>2. c.at \in Place
  BY DEF PickerInv, PickerTyped, Picker!Search, Picker!Naming
<1>3. PICK p : p = c.at
  OBVIOUS
<1>4. /\ PlaceFits(place') /\ place'.type = place.type /\ place'.route = place.route
      /\ shown' \in Place \cup {None}
      /\ \/ place'.point = p /\ place'.address = p /\ UNCHANGED mishaps
         \/ Picker!Mobile /\ UNCHANGED place /\ mishaps' = mishaps \cup {"unnamed"}
  <2>1. CASE Picker!Mobile
    <3>1. \/ Picker!MobilePoint(p, p) /\ UNCHANGED mishaps
          \/ mishaps' = mishaps \cup {"unnamed"} /\ UNCHANGED <<place, shown>>
      BY <1>1, <1>3, <2>1 DEF Picker!MobileNamed, Picker!Mishap
    <3>2. CASE Picker!MobilePoint(p, p) /\ UNCHANGED mishaps
      <4>1. p # None
        BY <1>2, <1>3, FormsAssumption
      <4>2. QED BY <1>2, <1>3, <3>2, <4>1, PinMoved
    <3>3. CASE mishaps' = mishaps \cup {"unnamed"} /\ UNCHANGED <<place, shown>>
      BY <2>1, <3>3 DEF PickerInv, PickerTyped, PlaceFits
    <3>4. QED BY <3>1, <3>2, <3>3
  <2>2. CASE ~Picker!Mobile
    <3>1. place' = [place EXCEPT !.point = p, !.address = p, !.query = p] /\ shown' = None
          /\ UNCHANGED mishaps
      BY <1>1, <1>3, <2>2 DEF Picker!WebNamed, Picker!WebEditPick, Picker!WebCreatePick, Picker!PickedAt
    <3>2. PICK x : x = place'
      OBVIOUS
    <3>3. x \in PlaceRow /\ x.point = p /\ x.address = p /\ x.route = place.route
          /\ x.type = place.type
      BY <1>2, <1>3, <3>1, <3>2 DEF PickerInv, PickerTyped, PlaceRow, Picker!Address
    <3>4. QED BY <3>1, <3>2, <3>3 DEF PickerInv, PickerTyped, PlaceFits
  <2>3. QED BY <2>1, <2>2
<1>5. /\ mishaps \subseteq mishaps' /\ mishaps' \subseteq {"overlap", "shuffle", "unnamed", "unrouted"}
      /\ calls' \subseteq calls
  BY <1>1, <1>4 DEF PickerInv, PickerTyped
<1>6. PickerTyped'
  BY <1>1, <1>4, <1>5 DEF PickerInv, PickerTyped, PlaceFits
<1>7. LabelsOK(place'.route, calls', mishaps')
  BY <1>4, <1>5, LabelsStay
<1>8. PicksOK(place, calls, picked, mishaps)'
  <2>1. UNCHANGED <<Picker!Mobile, Picker!Editing>>
    BY <1>1 DEF Picker!Mobile, Picker!Editing
  <2>2. "overlap" \notin mishaps' =>
          /\ place.type = "POINT" /\ p = picked /\ (Picker!Mobile => place.point = picked)
          /\ \A d \in calls : d.what = "point" => d.at = picked
    BY <1>1, <1>3, <1>5 DEF PickerInv, PicksOK
  <2>3. QED BY <1>1, <1>4, <1>5, <2>1, <2>2 DEF PicksOK
<1>9. AddressOK(place', calls', mishaps')
  <2>1. mishaps' \cap {"overlap", "unnamed"} = {} => place.type = "POINT" /\ UNCHANGED mishaps
    BY <1>1, <1>4, <1>5 DEF PickerInv, PicksOK
  <2>2. QED BY <1>4, <2>1 DEF AddressOK
<1>10. LineOK(place.route, drawn, fetching, mishaps)'
  BY <1>1, <1>4, <1>5, LineStays
<1>11. SentOK' /\ Picker!SpinnerStops'
  BY <1>1, <1>4, <1>5, RequestStays DEF PickerInv, Picker!SpinnerStops
<1>12. QED BY <1>6, <1>7, <1>8, <1>9, <1>10, <1>11 DEF PickerInv

(* A step on the way points of the form that keeps all else but the text.  *)
LEMMA RouteStep ==
  ASSUME PickerInv, PlaceFits(place'), place'.type = place.type, place'.point = place.point,
         place'.address = place.address, Picker!RouteDrawn(place'.route),
         LabelsOK(place'.route, calls', mishaps'),
         calls' \subseteq Picker!Search \cup Picker!Naming, calls \subseteq calls',
         \A c \in calls' \ calls : c.what = "route",
         mishaps \subseteq mishaps', mishaps' \subseteq mishaps \cup {"shuffle"},
         shown' \in Place \cup {None}, inputs' \in 0 .. MaxInput,
         UNCHANGED <<screen, searching, timer, sent, picked>>
  PROVE  PickerInv'
<1>1. PickerTyped'
  BY DEF PickerInv, PickerTyped, PlaceFits
<1>2. UNCHANGED <<Picker!Mobile, Picker!Editing>>
  BY DEF Picker!Mobile, Picker!Editing
<1>3. PicksOK(place, calls, picked, mishaps)'
  BY <1>2 DEF PickerInv, PicksOK
<1>4. AddressOK(place', calls', mishaps')
  BY DEF PickerInv, AddressOK
<1>5. PICK r : r = place'.route
  OBVIOUS
<1>6. LineOK(place.route, drawn, fetching, mishaps)'
  BY <1>5, LineRedrawn DEF PlaceFits, PlaceRow
<1>7. SentOK' /\ Picker!SpinnerStops'
  BY RequestStays DEF PickerInv, Picker!SpinnerStops
<1>8. QED BY <1>1, <1>3, <1>4, <1>6, <1>7 DEF PickerInv

(* A way point is added at the end.                                        *)
LEMMA PointAdded ==
  ASSUME PickerInv, NEW w \in Picker!WayPoint, ~Picker!RouteFull
  PROVE  /\ Append(place.route, w) \in Seq(Picker!WayPoint) /\ Len(Append(place.route, w)) <= MaxRoute
         /\ DOMAIN Append(place.route, w) = 1 .. Len(place.route) + 1
         /\ DOMAIN place.route = 1 .. Len(place.route)
         /\ Append(place.route, w)[Len(place.route) + 1] = w
         /\ \A i \in DOMAIN place.route : Append(place.route, w)[i] = place.route[i]
<1>1. place.route \in Seq(Picker!WayPoint) /\ MaxRoute \in Nat
  BY FormsAssumption DEF PickerInv, PickerTyped, PlaceRow
<1>2. PICK r : r = place.route
  OBVIOUS
<1>3. Len(r) \in Nat /\ ~(Len(r) >= MaxRoute) /\ DOMAIN r = 1 .. Len(r)
  BY <1>1, <1>2, LenProperties DEF Picker!RouteFull
<1>4. QED BY <1>1, <1>2, <1>3, AppendProperties

(* A tap on the map of a route.                                            *)
LEMMA PickerWayPoint ==
  ASSUME PickerInv, Picker!RouteTap
  PROVE  PickerInv'
<1>1. UNCHANGED <<screen, sent>> /\ inputs' \in 0 .. MaxInput
  BY PickerInput DEF Picker!RouteTap
<1>2. PICK p \in Place :
        /\ Picker!Routed(IF Picker!RouteFull THEN place.route
                         ELSE Append(place.route, [at |-> p, label |-> None]))
        /\ calls' = calls \cup {[what |-> "route", at |-> p, index |-> Len(place.route) + 1]}
  BY DEF Picker!RouteTap, Picker!WebRouteTapped, Picker!MobileRouteTapped
<1>3. UNCHANGED <<shown, searching, timer, picked, mishaps>>
  BY DEF Picker!RouteTap
<1>4. PICK w : w = [at |-> p, label |-> None]
  OBVIOUS
<1>5. w \in Picker!WayPoint /\ w.at = p /\ w.label = None
  BY <1>4 DEF Picker!WayPoint
<1>6. PICK r : r = IF Picker!RouteFull THEN place.route ELSE Append(place.route, w)
  OBVIOUS
<1>7. place' = [place EXCEPT !.route = r] /\ Picker!RouteDrawn(r)
  BY <1>2, <1>4, <1>6 DEF Picker!Routed
<1>8. PICK n : n = Len(place.route) + 1
  OBVIOUS
<1>9. PICK c : c = [what |-> "route", at |-> p, index |-> n]
  OBVIOUS
<1>10. c.what = "route" /\ c.at = p /\ c.index = n /\ calls' = calls \cup {c}
  BY <1>2, <1>8, <1>9
<1>11. /\ place \in PlaceRow /\ place.route \in Seq(Picker!WayPoint) /\ Len(place.route) <= MaxRoute
       /\ MaxRoute \in Nat
  BY FormsAssumption DEF PickerInv, PickerTyped, PlaceRow
<1>12. Len(place.route) \in Nat /\ DOMAIN place.route = 1 .. Len(place.route)
  BY <1>11, LenProperties
<1>13. n \in 1 .. MaxRoute + 1 /\ c \in Picker!Naming
  <2>1. n \in 1 .. MaxRoute + 1
    BY <1>8, <1>11, <1>12
  <2>2. QED BY <1>9, <2>1 DEF Picker!Naming
<1>14. CASE Picker!RouteFull
  <2>1. r = place.route /\ n = MaxRoute + 1
    BY <1>6, <1>8, <1>11, <1>12, <1>14 DEF Picker!RouteFull
  <2>2. LabelsOK(r, calls', mishaps')
    BY <1>3, <1>10, <2>1 DEF PickerInv, LabelsOK
  <2>3. PICK q : q = place.query
    OBVIOUS
  <2>4. PlaceFits(place') /\ place'.type = place.type /\ place'.point = place.point
        /\ place'.address = place.address /\ place'.route = r
    BY <1>7, <1>11, <2>1 DEF PlaceFits, PlaceRow
  <2>5. QED BY <1>1, <1>3, <1>7, <1>10, <1>13, <2>2, <2>4, RouteStep DEF PickerInv, PickerTyped
<1>15. CASE ~Picker!RouteFull
  <2>1. /\ r \in Seq(Picker!WayPoint) /\ Len(r) <= MaxRoute
        /\ DOMAIN r = 1 .. n /\ DOMAIN place.route = 1 .. n - 1
        /\ r[n] = w /\ \A i \in DOMAIN place.route : r[i] = place.route[i]
    BY <1>5, <1>6, <1>8, <1>12, <1>15, PointAdded
  <2>2. LabelsOK(r, calls', mishaps')
    <3>1. SUFFICES ASSUME "shuffle" \notin mishaps
                   PROVE  /\ \A i \in DOMAIN r : r[i].label \in {None, r[i].at}
                          /\ \A d \in calls' : d.what = "route" =>
                               d.index = MaxRoute + 1 \/ (d.index \in DOMAIN r /\ r[d.index].at = d.at)
      BY <1>3 DEF LabelsOK
    <3>2. /\ \A i \in DOMAIN place.route : place.route[i].label \in {None, place.route[i].at}
          /\ \A d \in calls : d.what = "route" =>
               d.index = MaxRoute + 1
               \/ (d.index \in DOMAIN place.route /\ place.route[d.index].at = d.at)
      BY <3>1 DEF PickerInv, LabelsOK
    <3>3. \A i \in DOMAIN r : i = n \/ i \in DOMAIN place.route
      BY <1>13, <2>1
    <3>4. n \in DOMAIN r /\ DOMAIN place.route \subseteq DOMAIN r
      BY <1>13, <2>1
    <3>5. QED BY <1>5, <1>10, <2>1, <3>2, <3>3, <3>4
  <2>3. PlaceFits(place') /\ place'.type = place.type /\ place'.point = place.point
        /\ place'.address = place.address /\ place'.route = r
    BY <1>7, <1>11, <2>1 DEF PlaceFits, PlaceRow
  <2>4. QED BY <1>1, <1>3, <1>7, <1>10, <1>13, <2>2, <2>3, RouteStep DEF PickerInv, PickerTyped
<1>16. QED BY <1>14, <1>15

(* A suggestion becomes a way point.                                       *)
LEMMA PickerSuggested ==
  ASSUME PickerInv, Picker!RouteSuggestion
  PROVE  PickerInv'
<1>1. UNCHANGED <<screen, sent>> /\ inputs' \in 0 .. MaxInput /\ shown \in Place
  BY PickerInput DEF Picker!RouteSuggestion, PickerInv, PickerTyped
<1>2. /\ shown' = None /\ UNCHANGED <<searching, timer, calls, picked, mishaps>>
      /\ Picker!RouteDrawn(place'.route)
      /\ \/ Picker!RouteFull /\ (place' = place \/ place' = [place EXCEPT !.query = None])
         \/ ~Picker!RouteFull /\ place' = Picker!WithPoint(shown)
  <2>1. PICK x : x = IF Picker!Web
                     THEN IF Picker!Editing THEN Picker!WebEditSuggested(shown)
                          ELSE Picker!WebCreateSuggested(shown)
                     ELSE IF Picker!Editing THEN Picker!MobileEditSuggested(shown)
                          ELSE Picker!MobileCreateSuggested(shown)
    OBVIOUS
  <2>2. place' = x /\ Picker!RouteDrawn(x.route)
    BY <2>1 DEF Picker!RouteSuggestion
  <2>3. \/ Picker!RouteFull /\ (x = place \/ x = [place EXCEPT !.query = None])
        \/ ~Picker!RouteFull /\ x = Picker!WithPoint(shown)
    BY <2>1 DEF Picker!WebCreateSuggested, Picker!WebEditSuggested, Picker!MobileCreateSuggested,
       Picker!MobileEditSuggested
  <2>4. QED BY <2>2, <2>3 DEF Picker!RouteSuggestion
<1>3. /\ place \in PlaceRow /\ place.route \in Seq(Picker!WayPoint) /\ Len(place.route) <= MaxRoute
      /\ calls \subseteq Picker!Search \cup Picker!Naming
  BY DEF PickerInv, PickerTyped, PlaceRow
<1>4. CASE Picker!RouteFull
  <2>1. PlaceFits(place') /\ place'.type = place.type /\ place'.point = place.point
        /\ place'.address = place.address /\ place'.route = place.route
    BY <1>2, <1>3, <1>4 DEF PlaceFits, PlaceRow, Picker!Address
  <2>2. LabelsOK(place'.route, calls', mishaps')
    BY <1>2, <2>1, LabelsStay
  <2>3. QED BY <1>1, <1>2, <1>3, <2>1, <2>2, RouteStep
<1>5. CASE ~Picker!RouteFull
  <2>1. PICK w : w = [at |-> shown, label |-> shown]
    OBVIOUS
  <2>2. w \in Picker!WayPoint /\ w.at = w.label
    BY <1>1, <2>1 DEF Picker!WayPoint
  <2>3. PICK r : r = Append(place.route, w)
    OBVIOUS
  <2>4. place' = [place EXCEPT !.route = r, !.query = None]
    BY <1>2, <1>5, <2>1, <2>3 DEF Picker!WithPoint, Picker!Suggested
  <2>5. /\ r \in Seq(Picker!WayPoint) /\ Len(r) <= MaxRoute
        /\ DOMAIN r = 1 .. Len(place.route) + 1 /\ DOMAIN place.route = 1 .. Len(place.route)
        /\ r[Len(place.route) + 1] = w /\ \A i \in DOMAIN place.route : r[i] = place.route[i]
    BY <1>5, <2>2, <2>3, PointAdded
  <2>6. PICK x : x = place'
    OBVIOUS
  <2>7. PlaceFits(x) /\ x.type = place.type /\ x.point = place.point
        /\ x.address = place.address /\ x.route = r
    <3>1. PICK q \in Picker!Address : q = None
      BY DEF Picker!Address
    <3>2. x = [place EXCEPT !.route = r, !.query = q]
      BY <2>4, <2>6, <3>1
    <3>3. x \in PlaceRow /\ x.type = place.type /\ x.point = place.point
          /\ x.address = place.address /\ x.route = r
      BY <1>3, <2>5, <3>1, <3>2 DEF PlaceRow
    <3>4. QED BY <2>5, <3>3 DEF PlaceFits
  <2>8. LabelsOK(r, calls, mishaps)
    <3>1. Len(place.route) \in Nat
      BY <1>3, LenProperties
    <3>2. \A i \in DOMAIN r : i = Len(place.route) + 1 \/ i \in DOMAIN place.route
      BY <2>5, <3>1
    <3>3. DOMAIN place.route \subseteq DOMAIN r
      BY <2>5, <3>1
    <3>4. QED BY <2>2, <2>5, <3>2, <3>3 DEF PickerInv, LabelsOK
  <2>9. QED BY <1>1, <1>2, <1>3, <2>6, <2>7, <2>8, RouteStep
<1>6. QED BY <1>4, <1>5

(* A way point is removed or moved.                                        *)
LEMMA PickerRows ==
  ASSUME PickerInv, Picker!RouteRows
  PROVE  PickerInv'
<1>1. UNCHANGED <<screen, sent>> /\ inputs' \in 0 .. MaxInput
  BY PickerInput DEF Picker!RouteRows
<1>2. UNCHANGED <<shown, searching, timer, calls, picked>> /\ mishaps' = mishaps \cup Picker!RouteOverlap
  BY DEF Picker!RouteRows, Picker!Mishap
<1>3. PICK s : s = place.route
  OBVIOUS
<1>4. PICK r \in Picker!Rows(s) : place' = [place EXCEPT !.route = r] /\ Picker!RouteDrawn(r)
  BY <1>3 DEF Picker!RouteRows, Picker!Routed
<1>5. /\ place \in PlaceRow /\ s \in Seq(Picker!WayPoint) /\ Len(s) <= MaxRoute
      /\ calls \subseteq Picker!Search \cup Picker!Naming
      /\ MaxRoute \in Nat /\ shown \in Place \cup {None}
  BY <1>3, FormsAssumption DEF PickerInv, PickerTyped, PlaceRow
<1>6. /\ r \in Seq(Picker!WayPoint) /\ Len(r) <= Len(s)
      /\ \A j \in DOMAIN r : \E k \in DOMAIN s : r[j] = s[k]
  BY <1>5, PointsMoved
<1>7. Len(r) <= MaxRoute
  BY <1>5, <1>6, LenProperties
<1>8. PlaceFits(place') /\ place'.type = place.type /\ place'.point = place.point
      /\ place'.address = place.address /\ place'.route = r
  BY <1>4, <1>5, <1>6, <1>7 DEF PlaceFits, PlaceRow
<1>9. Picker!RouteOverlap \subseteq {"shuffle"}
      /\ ("shuffle" \notin mishaps' => \A c \in calls : c.what # "route")
  BY <1>2 DEF Picker!RouteOverlap, Picker!NamingRoute
<1>10. LabelsOK(r, calls', mishaps')
  BY <1>2, <1>3, <1>6, <1>9 DEF PickerInv, LabelsOK
<1>11. QED BY <1>1, <1>2, <1>4, <1>5, <1>8, <1>9, <1>10, RouteStep

(* A label that comes is written at the index its call remembers.          *)
LEMMA LabelWritten ==
  ASSUME PickerInv, NEW k \in DOMAIN place.route, NEW p \in Place, NEW x,
         x = [place EXCEPT !.route[k].label = p]
  PROVE  /\ PlaceFits(x) /\ x.type = place.type /\ x.point = place.point
         /\ x.address = place.address /\ DOMAIN x.route = DOMAIN place.route
         /\ \A i \in DOMAIN place.route :
              /\ x.route[i].at = place.route[i].at
              /\ x.route[i].label = IF i = k THEN p ELSE place.route[i].label
<1>1. place \in PlaceRow /\ place.route \in Seq(Picker!WayPoint) /\ Len(place.route) <= MaxRoute
  BY DEF PickerInv, PickerTyped, PlaceRow
<1>2. PICK s : s = place.route
  OBVIOUS
<1>3. PICK w : w = [s[k] EXCEPT !.label = p]
  OBVIOUS
<1>4. s[k] \in Picker!WayPoint /\ k \in DOMAIN s
  BY <1>1, <1>2
<1>5. w \in Picker!WayPoint /\ w.at = s[k].at /\ w.label = p
  BY <1>3, <1>4 DEF Picker!WayPoint
<1>6. PICK r : r = [s EXCEPT ![k] = w]
  OBVIOUS
<1>7. DOMAIN s = 1 .. Len(s) /\ Len(s) \in Nat
  BY <1>1, <1>2, LenProperties
<1>8. r \in Seq(Picker!WayPoint) /\ Len(r) = Len(s)
  BY <1>1, <1>2, <1>4, <1>5, <1>6, <1>7, ExceptSeq
<1>9. DOMAIN r = DOMAIN s /\ \A i \in DOMAIN s : r[i] = IF i = k THEN w ELSE s[i]
  BY <1>4, <1>6
<1>10. x = [place EXCEPT !.route = r]
  BY <1>2, <1>3, <1>6
<1>11. x \in PlaceRow /\ x.type = place.type /\ x.point = place.point
       /\ x.address = place.address /\ x.route = r
  BY <1>1, <1>8, <1>10 DEF PlaceRow
<1>12. QED BY <1>1, <1>2, <1>5, <1>8, <1>9, <1>11 DEF PlaceFits

(* The name of a way point comes.                                          *)
LEMMA PickerLabelled ==
  ASSUME PickerInv, Picker!RouteNamed
  PROVE  PickerInv'
<1>1. PICK c \in calls :
        /\ c.what = "route" /\ calls' = calls \ {c}
        /\ place' = place \/ place' = Picker!Labelled(c.index, c.at)
        /\ UNCHANGED <<screen, shown, searching, timer, drawn, fetching, sent, inputs, picked, mishaps>>
  BY DEF Picker!RouteNamed
<1>2. c.at \in Place
  BY DEF PickerInv, PickerTyped, Picker!Search, Picker!Naming
<1>3. /\ PlaceFits(place') /\ place'.type = place.type /\ place'.point = place.point
      /\ place'.address = place.address /\ DOMAIN place'.route = DOMAIN place.route
      /\ \A i \in DOMAIN place.route :
           /\ place'.route[i].at = place.route[i].at
           /\ place'.route[i].label \in {place.route[i].label} \cup (IF i = c.index THEN {c.at} ELSE {})
  <2>1. CASE place' = place
    BY <2>1 DEF PickerInv, PickerTyped, PlaceFits
  <2>2. CASE c.index \in DOMAIN place.route /\ place' = [place EXCEPT !.route[c.index].label = c.at]
    <3>1. PICK x : x = place'
      OBVIOUS
    <3>2. PICK k : k = c.index
      OBVIOUS
    <3>3. x = [place EXCEPT !.route[k].label = c.at] /\ k \in DOMAIN place.route
      BY <2>2, <3>1, <3>2
    <3>4. /\ PlaceFits(x) /\ x.type = place.type /\ x.point = place.point
          /\ x.address = place.address /\ DOMAIN x.route = DOMAIN place.route
          /\ \A i \in DOMAIN place.route :
               /\ x.route[i].at = place.route[i].at
               /\ x.route[i].label = IF i = k THEN c.at ELSE place.route[i].label
      BY <1>2, <3>3, LabelWritten
    <3>5. QED BY <3>1, <3>2, <3>4
  <2>3. QED BY <1>1, <2>1, <2>2 DEF Picker!Labelled
<1>4. Picker!Points(place'.route) = Picker!Points(place.route)
  BY <1>3 DEF Picker!Points
<1>5. PickerTyped'
  BY <1>1, <1>3 DEF PickerInv, PickerTyped, PlaceFits
<1>6. LabelsOK(place'.route, calls', mishaps')
  <2>1. SUFFICES ASSUME "shuffle" \notin mishaps
                 PROVE  LabelsOK(place'.route, calls', mishaps')
    BY <1>1 DEF LabelsOK
  <2>2. /\ \A i \in DOMAIN place.route : place.route[i].label \in {None, place.route[i].at}
        /\ \A d \in calls : d.what = "route" =>
             d.index = MaxRoute + 1 \/ (d.index \in DOMAIN place.route /\ place.route[d.index].at = d.at)
    BY <2>1 DEF PickerInv, LabelsOK
  <2>3. MaxRoute + 1 \notin DOMAIN place.route
    <3>1. place.route \in Seq(Picker!WayPoint) /\ Len(place.route) <= MaxRoute /\ MaxRoute \in Nat
      BY FormsAssumption DEF PickerInv, PickerTyped, PlaceRow
    <3>2. DOMAIN place.route = 1 .. Len(place.route) /\ Len(place.route) \in Nat
      BY <3>1, LenProperties
    <3>3. QED BY <3>1, <3>2
  <2>4. c.index \in DOMAIN place.route => place.route[c.index].at = c.at
    BY <1>1, <2>2, <2>3
  <2>5. \A i \in DOMAIN place'.route : place'.route[i].label \in {None, place'.route[i].at}
    BY <1>3, <2>2, <2>4
  <2>6. QED BY <1>1, <1>3, <2>2, <2>5 DEF LabelsOK
<1>7. PicksOK(place, calls, picked, mishaps)'
  <2>1. UNCHANGED <<Picker!Mobile, Picker!Editing>> /\ \A d \in calls : d.what = "point" => d \in calls'
    BY <1>1 DEF Picker!Mobile, Picker!Editing
  <2>2. QED BY <1>1, <1>3, <2>1 DEF PickerInv, PicksOK
<1>8. AddressOK(place', calls', mishaps')
  <2>1. \A d \in calls : d.what = "point" => d \in calls'
    BY <1>1
  <2>2. QED BY <1>1, <1>3, <2>1 DEF PickerInv, AddressOK
<1>9. LineOK(place.route, drawn, fetching, mishaps)'
  BY <1>1, <1>4 DEF PickerInv, LineOK, Picker!Mobile
<1>10. SentOK' /\ Picker!SpinnerStops'
  BY <1>1, <1>3, RequestStays DEF PickerInv, Picker!SpinnerStops
<1>11. QED BY <1>5, <1>6, <1>7, <1>8, <1>9, <1>10 DEF PickerInv

(* The line is fetched, or cannot be.                                      *)
LEMMA PickerLine ==
  ASSUME PickerInv, Picker!GeometryFetched
  PROVE  PickerInv'
<1>1. PICK found \in BOOLEAN :
        /\ drawn' = IF Picker!Mobile THEN Picker!MobileDrawn(found) ELSE Picker!WebDrawn(found)
        /\ mishaps' = mishaps \cup (IF found THEN {} ELSE {"unrouted"})
  BY DEF Picker!GeometryFetched, Picker!Mishap
<1>2. /\ fetching # None /\ fetching' = None
      /\ UNCHANGED <<screen, place, shown, searching, timer, calls, sent, inputs, picked>>
  BY DEF Picker!GeometryFetched
<1>3. /\ mishaps \subseteq mishaps' /\ mishaps' \subseteq {"overlap", "shuffle", "unnamed", "unrouted"}
      /\ mishaps' \subseteq mishaps \cup {"unrouted"}
  BY <1>1 DEF PickerInv, PickerTyped
<1>4. PickerTyped'
  BY <1>2, <1>3 DEF PickerInv, PickerTyped
<1>5. LabelsOK(place'.route, calls', mishaps')
  BY <1>2, <1>3, LabelsStay
<1>6. PicksOK(place, calls, picked, mishaps)'
  BY <1>2, <1>3 DEF PickerInv, PicksOK, Picker!Mobile, Picker!Editing
<1>7. AddressOK(place', calls', mishaps')
  BY <1>2, <1>3 DEF PickerInv, AddressOK
<1>8. LineOK(place.route, drawn, fetching, mishaps)'
  <2>1. Picker!Mobile' = Picker!Mobile /\ fetching = Picker!Points(place.route)
    BY <1>2 DEF PickerInv, LineOK, Picker!Mobile
  <2>2. QED BY <1>1, <1>2, <2>1 DEF LineOK, Picker!MobileDrawn, Picker!WebDrawn
<1>9. SentOK' /\ Picker!SpinnerStops'
  BY <1>2, <1>3, RequestStays DEF PickerInv, Picker!SpinnerStops
<1>10. QED BY <1>4, <1>5, <1>6, <1>7, <1>8, <1>9 DEF PickerInv

(* The derived address names the ends of the route, if the labels do.      *)
LEMMA EndsNamed ==
  ASSUME NEW r \in Seq(Picker!WayPoint), Len(r) >= 2, NEW cs, NEW ms, LabelsOK(r, cs, ms),
         "shuffle" \notin ms, NEW ps, ps = Picker!Points(r)
  PROVE  Picker!Derived(r) = <<ps[1], ps[Len(ps)]>>
<1>1. Len(r) \in Nat /\ DOMAIN r = 1 .. Len(r)
  BY LenProperties
<1>2. 1 \in DOMAIN r /\ Len(r) \in DOMAIN r
  BY <1>1
<1>3. \A i \in DOMAIN r : Picker!ShortLabel(r[i]) = r[i].at
  BY DEF LabelsOK, Picker!ShortLabel
<1>4. ps = [i \in DOMAIN r |-> r[i].at]
  BY DEF Picker!Points
<1>5. ps[1] = r[1].at /\ ps[Len(r)] = r[Len(r)].at
  BY <1>2, <1>4
<1>6. Len(ps) = Len(r)
  <2>1. \A i \in 1 .. Len(r) : r[i].at \in Place
    <3>1. \A i \in 1 .. Len(r) : r[i] \in Picker!WayPoint
      BY <1>1, ElementOfSeq
    <3>2. QED BY <3>1 DEF Picker!WayPoint
  <2>2. ps = [i \in 1 .. Len(r) |-> ps[i]] /\ \A i \in 1 .. Len(r) : ps[i] \in Place
    BY <1>1, <1>4, <2>1
  <2>3. ps \in Seq(Place) /\ DOMAIN ps = 1 .. Len(r)
    BY <1>1, <2>2, IsASeq
  <2>4. QED BY <1>1, <2>3, LenProperties
<1>7. QED BY <1>2, <1>3, <1>5, <1>6 DEF Picker!Derived

(* The form is sent.                                                       *)
LEMMA PickerSent ==
  ASSUME PickerInv, Picker!Submit
  PROVE  PickerInv'
<1>1. /\ sent' = Picker!PlacePart /\ Picker!Mishap(Picker!PointOverlap)
      /\ IF Picker!Web THEN Picker!WebPlaceValid ELSE Picker!MobilePlaceValid
      /\ UNCHANGED <<screen, place, shown, searching, timer, calls, drawn, fetching, inputs, picked>>
  BY DEF Picker!Submit
<1>2. /\ mishaps \subseteq mishaps' /\ mishaps' \subseteq {"overlap", "shuffle", "unnamed", "unrouted"}
      /\ "overlap" \notin mishaps' => \A c \in calls : c.what # "point"
  BY <1>1, PointOverlaps
<1>3. mishaps' \subseteq mishaps \cup {"overlap"}
  BY <1>1 DEF Picker!Mishap, Picker!PointOverlap
<1>4. PickerTyped'
  BY <1>1, <1>2 DEF PickerInv, PickerTyped
<1>5. LabelsOK(place'.route, calls', mishaps')
  BY <1>1, <1>2, LabelsStay
<1>6. PicksOK(place, calls, picked, mishaps)'
  BY <1>1, <1>2 DEF PickerInv, PicksOK, Picker!Mobile, Picker!Editing
<1>7. AddressOK(place', calls', mishaps')
  BY <1>1, <1>2 DEF PickerInv, AddressOK
<1>8. LineOK(place.route, drawn, fetching, mishaps)'
  BY <1>1, <1>2, LineStays
<1>9. SentOK'
  <2>1. place.type \in {"POINT", "ROUTE"} /\ place.route \in Seq(Picker!WayPoint)
    BY DEF PickerInv, PickerTyped, PlaceRow
  <2>2. PICK a \in {Picker!Derived(place.route), Picker!OwnAddress} :
          /\ sent' = Picker!Part(a)
          /\ Picker!Editing => a = Picker!OwnAddress
    BY <1>1 DEF Picker!PlacePart, Picker!WebCreatePart, Picker!WebEditPart, Picker!MobileCreatePart,
       Picker!MobileEditPart
  <2>3. /\ sent'.type = place.type
        /\ sent'.point = (IF place.type = "POINT" THEN place.point ELSE None)
        /\ sent'.address = (IF place.type = "ROUTE" THEN a ELSE place.address)
        /\ place.type = "ROUTE" => sent'.route = Picker!Points(place.route)
    BY <2>2 DEF Picker!Part
  <2>4. /\ place.type = "POINT" => place.point # None
        /\ place.type = "ROUTE" => Len(place.route) >= 2
    BY <1>1 DEF Picker!WebPlaceValid, Picker!MobilePlaceValid, Picker!RouteMin
  <2>5. mishaps' \cap {"overlap", "unnamed"} = {} =>
          /\ place.type = "POINT" => place.address = place.point
          /\ place.type = "ROUTE" => place.address = picked /\ (~Picker!Editing => picked = None)
    BY <1>2, <2>4 DEF PickerInv, AddressOK, PicksOK
  <2>6. place.type = "ROUTE" /\ "shuffle" \notin mishaps' =>
          Picker!Derived(place.route) = <<sent'.route[1], sent'.route[Len(sent'.route)]>>
    BY <1>2, <2>1, <2>3, <2>4, EndsNamed DEF PickerInv
  <2>7. place.type = "ROUTE" =>
          a = IF Picker!Editing /\ place.address # None THEN place.address
              ELSE IF place.address = None THEN Picker!Derived(place.route) ELSE a
    BY <2>2 DEF Picker!OwnAddress
  <2>8. UNCHANGED <<Picker!Editing, picked>>
    BY <1>1 DEF Picker!Editing
  <2>9. Picker!RequestNamesOnePlace'
    BY <2>1, <2>3, <2>5, <2>6, <2>7, <2>8 DEF Picker!RequestNamesOnePlace
  <2>10. QED BY <1>1, <2>3, <2>9 DEF SentOK
<1>10. Picker!SpinnerStops'
  BY <1>1 DEF PickerInv, Picker!SpinnerStops
<1>11. QED BY <1>4, <1>5, <1>6, <1>7, <1>8, <1>9, <1>10 DEF PickerInv

(* Every step of the picker.                                               *)
LEMMA PickerSteps ==
  ASSUME PickerInv, [Picker!Next]_(Picker!vars)
  PROVE  PickerInv'
<1>1. CASE Picker!Next
  BY <1>1, PickerTypedIn, PickerSearched, PickerSelected, PickerSwitched, PickerAddressed, PickerTapped,
     PickerNamed, PickerWayPoint, PickerLabelled, PickerSuggested, PickerRows, PickerLine, PickerSent
     DEF Picker!Next
<1>2. CASE UNCHANGED Picker!vars
  BY <1>2 DEF Picker!vars, PickerInv, PickerTyped, LabelsOK, PicksOK, AddressOK, LineOK,
     SentOK, Picker!RequestNamesOnePlace, Picker!SpinnerStops, Picker!Mobile, Picker!Editing
<1>3. QED BY <1>1, <1>2

(* The invariant says what the picker promises.                            *)
LEMMA PickerPromises ==
  ASSUME PickerInv
  PROVE  /\ Picker!TypeOK /\ Picker!PickIsKept /\ Picker!LabelNamesItsPoint
         /\ Picker!RequestNamesOnePlace /\ Picker!DrawnRouteIsCurrent /\ Picker!SpinnerStops
<1>1. Picker!TypeOK
  <2>1. place \in PlaceRow /\ place.route \in Seq(Picker!WayPoint) /\ Len(place.route) <= MaxRoute
    BY DEF PickerInv, PickerTyped, PlaceRow
  <2>2. Len(place.route) \in 0 .. MaxRoute /\ \A i \in DOMAIN place.route : place.route[i] \in Picker!WayPoint
    BY <2>1, LenProperties, FormsAssumption
  <2>3. QED BY <2>1, <2>2 DEF PickerInv, PickerTyped, PlaceRow, Picker!TypeOK
<1>2. Picker!PickIsKept
  BY DEF PickerInv, PickerTyped, PlaceRow, PicksOK, Picker!PickIsKept, Picker!NamingPoint
<1>3. Picker!LabelNamesItsPoint
  BY DEF PickerInv, LabelsOK, Picker!LabelNamesItsPoint
<1>4. Picker!DrawnRouteIsCurrent
  BY DEF PickerInv, LineOK, Picker!DrawnRouteIsCurrent
<1>5. QED BY <1>1, <1>2, <1>3, <1>4 DEF PickerInv, SentOK

-----------------------------------------------------------------------------
(* The four together: a behaviour keeps to its part.                       *)

FormsInv ==
  /\ part = "create" => CreateInv
  /\ part = "edit" => EditInv
  /\ part = "place" => PickerInv
  /\ part = "account" => AccountInv

(* The start of each part.                                                 *)
LEMMA FormsBegin == Init => FormsInv
  BY CreateBegins, EditBegins, PickerBegins, AccountBegins DEF Init, FormsInv

(* A step of each part keeps its invariant.                                *)
LEMMA FormsStep == FormsInv /\ [Next]_vars => FormsInv'
<1> SUFFICES ASSUME FormsInv, [Next]_vars
             PROVE  FormsInv'
  OBVIOUS
<1>1. UNCHANGED part
  BY DEF Next, vars
<1>2. ASSUME part = "create"
      PROVE  CreateInv'
  <2>1. CreateInv
    BY <1>2 DEF FormsInv
  <2>2. [Create!Next]_(Create!vars)
    BY <1>2 DEF Next, vars, formVars, createVars, Create!vars, Create!setting, Create!screen
  <2>3. QED BY <2>1, <2>2, CreateSteps
<1>3. ASSUME part = "edit"
      PROVE  EditInv'
  <2>1. EditInv
    BY <1>3 DEF FormsInv
  <2>2. [Edit!Next]_(Edit!vars)
    BY <1>3 DEF Next, vars, formVars, editVars, Edit!vars, Edit!setting, Edit!server, Edit!screen,
       Edit!counters, Edit!history
  <2>3. QED BY <2>1, <2>2, EditSteps
<1>4. ASSUME part = "account"
      PROVE  AccountInv'
  <2>1. AccountInv
    BY <1>4 DEF FormsInv
  <2>2. [Account!Next]_(Account!vars)
    BY <1>4 DEF Next, vars, accountVars, Account!vars, Account!setting, Account!server, Account!bounds
  <2>3. QED BY <2>1, <2>2, AccountSteps
<1>5. ASSUME part = "place"
      PROVE  PickerInv'
  <2>1. PickerInv
    BY <1>5 DEF FormsInv
  <2>2. [Picker!Next]_(Picker!vars)
    BY <1>5 DEF Next, vars, placeVars, Picker!vars
  <2>3. QED BY <2>1, <2>2, PickerSteps
<1>6. QED BY <1>1, <1>2, <1>3, <1>4, <1>5 DEF FormsInv

(* The invariant holds throughout.                                         *)
LEMMA FormsAlways == Spec => []FormsInv
  BY FormsBegin, FormsStep, PTL DEF Spec

(* A save that the server takes up is one of the form that edits.          *)
LEMMA SavesEdit ==
  ASSUME FormsInv, [Next]_vars, Edit!Saves
  PROVE  EditInv /\ Edit!Next
<1>1. save # None /\ save.step = "update" /\ save' # save
  BY DEF Edit!Saves
<1>2. part # "create"
  <2>1. ASSUME part = "create"
        PROVE  FALSE
    <3>1. save \in Create!Save
      BY <1>1, <2>1, SaveIsTyped DEF FormsInv
    <3>2. QED BY <1>1, <3>1 DEF Create!Save
  <2>2. QED BY <2>1
<1>3. part = "edit" /\ Edit!Next
  BY <1>1, <1>2 DEF Next, vars, formVars
<1>4. QED BY <1>3 DEF FormsInv

-----------------------------------------------------------------------------
(* The theorems.                                                           *)

(* However often calls fail and the host goes back and presses again, a    *)
(* form that creates makes one event more than answers were lost, invites  *)
(* to private events only and shows no error it does not have; the one     *)
(* that registers makes one account, with the name and address it shows.   *)
THEOREM FormsMakeOneResult == Spec => []OneResultPerForm
<1>1. FormsInv => OneResultPerForm
  BY CreatePromises, AccountsAreTold DEF FormsInv, OneResultPerForm
<1>2. QED BY <1>1, FormsAlways, PTL

(* What is saved is on the form until the answer comes, and every password *)
(* was set with a code or a token mailed to the address of its account.    *)
THEOREM FormsShowWhatIsSaved == Spec => []WhatIsSavedIsOnTheForm
<1>1. ASSUME EditInv
      PROVE  Edit!TypeOK /\ Edit!WhatIsSavedIsOnTheForm
  <2>1. Edit!TypeOK
    <3>1. /\ now \in Edit!Time /\ taken \in 0 .. 3
          /\ event.status \in {"ACTIVE", "CANCELED"} /\ event.version \in Nat
          /\ editable \in BOOLEAN /\ image \in BOOLEAN /\ loading \in BOOLEAN /\ left \in BOOLEAN
          /\ notice \in Notices /\ typed \subseteq Edit!Field
          /\ save # None => save.step \in {"update", "image", "reload"}
      BY <1>1 DEF EditInv, EditTyped, EventRow
    <3>2. \A f \in Edit!Field : event[f] \in Edit!Domain(f) /\ form[f] \in Edit!Domain(f)
      BY <1>1, Kinds DEF EditInv, EditTyped, EventRow, FieldsRow
    <3>3. modal # None => DOMAIN modal.request \subseteq Edit!Field
      BY <1>1 DEF EditInv, Previewed, IsPreview, IsRequest
    <3>4. QED BY <3>1, <3>2, <3>3 DEF Edit!TypeOK, Notices
  <2>2. Edit!WhatIsSavedIsOnTheForm
    <3>1. SUFFICES ASSUME save # None, loaded # None, NEW f \in DOMAIN save.preview.request
                   PROVE  Edit!Said(form)[f] \in {save.preview.request[f], Edit!Untouched(loaded.event)[f]}
      BY DEF Edit!WhatIsSavedIsOnTheForm
    <3>2. Previewed(save.preview, form, loaded, typed)
      BY <1>1, <3>1 DEF EditInv
    <3>3. /\ f \in Edit!Field /\ form \in FieldsRow
          /\ Says(form, f) \in {save.preview.request[f], Rests(loaded.event, f)}
      BY <1>1, <3>1, <3>2 DEF EditInv, EditTyped, Previewed, ShowsRequest, IsPreview, IsRequest
    <3>4. PICK e \in EventRow : e = loaded.event
      BY <1>1, <3>1 DEF EditInv, EditTyped
    <3>5. Edit!Said(form)[f] = Says(form, f) /\ Edit!Untouched(e)[f] = Rests(e, f)
      BY <3>3, SaidIs, UntouchedIs
    <3>6. QED BY <3>3, <3>4, <3>5
  <2>3. QED BY <2>1, <2>2
<1>2. FormsInv => WhatIsSavedIsOnTheForm
  BY <1>1, AccountTyped, AccountShowsWhatIsSent, AccountsAreTold DEF FormsInv, WhatIsSavedIsOnTheForm
<1>3. QED BY <1>2, FormsAlways, PTL

(* However searches, names of places and road geometry come late, the form *)
(* and its request name the place the host picked last.                    *)
THEOREM FormsNameThePlace == Spec => []PlaceIsThePickedOne
<1>1. FormsInv => PlaceIsThePickedOne
  BY PickerPromises DEF FormsInv, PlaceIsThePickedOne
<1>2. QED BY <1>1, FormsAlways, PTL

(* A save writes no field its host left alone, so that what another device *)
(* saved there meanwhile stays; only a time within a minute, and a route   *)
(* without an address, are written by any save.                            *)
THEOREM SavesRevertNothing == Spec => NoFieldIsReverted
<1>1. FormsInv /\ [Next]_vars =>
        [Edit!Saves =>
           LET base == save.preview.base.event IN
           \A f \in Edit!Field \ typed :
             \/ event'[f] = event[f]
             \/ Edit!Untouched(base)[f] # base[f] /\ event'[f] = Edit!Untouched(base)[f]]_(Edit!vars)
  BY SavesEdit, UntypedStays DEF Kept
<1>2. QED BY <1>1, FormsAlways, PTL DEF Spec, NoFieldIsReverted, Edit!NoFieldIsReverted

(* The host is warned of whatever makes the participants confirm again,    *)
(* and only what changed since the form was filled makes a save fail.      *)
THEOREM SavesKeepTheirWord == Spec => SaveKeepsItsWord
<1>1. FormsInv /\ [Next]_vars =>
        [Edit!Saves /\ event' # event =>
           Edit!Reconfirms(event, save.preview.request) \subseteq
             save.preview.labels
             \cup (IF save.preview.base.event.needs = event.needs THEN {} ELSE {"needs"})]_(Edit!vars)
  BY SavesEdit, ReconfirmationNamed
<1>2. FormsInv /\ [Next]_vars =>
        [Edit!Saves /\ notice' = "refused" =>
           \/ save.preview.base.event # event
           \/ save.preview.base.taken < taken
           \/ save.preview.at < now \/ save.preview.base.event.start <= now]_(Edit!vars)
  BY SavesEdit, RefusalHasACause
<1>3. Spec => Edit!WarnedOfReconfirmation
  BY <1>1, FormsAlways, PTL DEF Spec, Edit!WarnedOfReconfirmation
<1>4. Spec => Edit!RejectionHasACause
  BY <1>2, FormsAlways, PTL DEF Spec, Edit!RejectionHasACause
<1>5. QED BY <1>3, <1>4 DEF SaveKeepsItsWord

(* Saving again what was saved writes nothing, and a code or token that    *)
(* has done its work gives no account, password or token again.            *)
THEOREM RetriesAreHarmless == Spec => RetryIsHarmless
<1>1. FormsInv /\ [Next]_vars =>
        [Edit!Saves /\ save.preview.request = applied => event' = event]_(Edit!vars)
  BY SavesEdit, SavedAgain
<1>2. FormsInv /\ [Next]_vars => [part = "account" => Account!Harmless]_vars
  <2>1. SUFFICES ASSUME FormsInv, [Next]_vars, part = "account"
                 PROVE  Account!Harmless
    OBVIOUS
  <2>2. AccountInv
    BY <2>1 DEF FormsInv
  <2>3. [Account!Next]_(Account!vars)
    BY <2>1 DEF Next, vars, accountVars, Account!vars, Account!setting, Account!server, Account!bounds
  <2>4. QED BY <2>2, <2>3, AccountHarmless
<1>3. Spec => Edit!RetryIsHarmless
  BY <1>1, FormsAlways, PTL DEF Spec, Edit!RetryIsHarmless
<1>4. Spec => [][part = "account" => Account!Harmless]_vars
  BY <1>2, FormsAlways, PTL DEF Spec
<1>5. QED BY <1>3, <1>4 DEF RetryIsHarmless
=============================================================================
