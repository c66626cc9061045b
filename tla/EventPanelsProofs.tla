-------------------------- MODULE EventPanelsProofs --------------------------
(***************************************************************************)
(* Proofs about the panels under an event, for any number of comments,     *)
(* rows, inputs, acts, calls and lost answers.                             *)
(***************************************************************************)
EXTENDS EventPanels, FiniteSets, Ordered, SequencesExt, FiniteSetTheorems, SequenceTheorems, TLAPS

-----------------------------------------------------------------------------
(* Ordered lists.                                                          *)

\* Of sets that contain one another, each of a member of S and no two the same, every
\* number up to that of the members of S is the cardinality of exactly one.
LEMMA Ranked ==
  ASSUME NEW S, IsFiniteSet(S), NEW U \in [S -> SUBSET S], \A x \in S : x \in U[x],
         \A x, y \in S : x # y => U[x] # U[y] /\ (U[x] \subseteq U[y] \/ U[y] \subseteq U[x])
  PROVE  /\ Cardinality(S) \in Nat
         /\ \A x \in S : Cardinality(U[x]) \in 1 .. Cardinality(S)
         /\ \A i \in 1 .. Cardinality(S) : \E x \in S : Cardinality(U[x]) = i
         /\ \A x, y \in S : U[x] \subseteq U[y] => Cardinality(U[x]) <= Cardinality(U[y])
         /\ \A x, y \in S : Cardinality(U[x]) = Cardinality(U[y]) => x = y
<1> DEFINE n == Cardinality(S)
           r == [x \in S |-> Cardinality(U[x])]
<1>1. n \in Nat
  BY FS_CardinalityType
<1>2. \A x \in S : U[x] \in SUBSET S /\ IsFiniteSet(U[x]) /\ Cardinality(U[x]) \in 1 .. n
  <2> TAKE x \in S
  <2>1. U[x] \in SUBSET S /\ U[x] # {}
    OBVIOUS
  <2>2. IsFiniteSet(U[x]) /\ Cardinality(U[x]) <= n
    BY <2>1, FS_Subset
  <2>3. Cardinality(U[x]) \in Nat /\ Cardinality(U[x]) # 0
    BY <2>1, <2>2, FS_CardinalityType, FS_EmptySet
  <2> QED
    BY <1>1, <2>1, <2>2, <2>3
<1>3. \A x, y \in S : U[x] \subseteq U[y] => Cardinality(U[x]) <= Cardinality(U[y])
  BY <1>2, FS_Subset
<1>4. \A x, y \in S : Cardinality(U[x]) = Cardinality(U[y]) => x = y
  <2> SUFFICES ASSUME NEW x \in S, NEW y \in S, Cardinality(U[x]) = Cardinality(U[y]), x # y
               PROVE  FALSE
    OBVIOUS
  <2>1. CASE U[x] \subseteq U[y]
    <3>1. U[x] \in SUBSET U[y]
      BY <2>1
    <3>2. U[x] = U[y]
      BY <1>2, <3>1, FS_Subset
    <3> QED
      BY <3>2
  <2>2. CASE U[y] \subseteq U[x]
    <3>1. U[y] \in SUBSET U[x]
      BY <2>2
    <3>2. U[x] = U[y]
      BY <1>2, <3>1, FS_Subset
    <3> QED
      BY <3>2
  <2> QED
    BY <2>1, <2>2
<1>5. r \in Injection(S, 1 .. n)
  BY <1>2, <1>4 DEF Injection, IsInjective
<1>6. IsFiniteSet(1 .. n) /\ Cardinality(1 .. n) = n
  BY <1>1, FS_Interval
<1>7. r \in Surjection(S, 1 .. n)
  BY <1>5, <1>6, FS_Injection
<1>8. \A i \in 1 .. n : \E x \in S : Cardinality(U[x]) = i
  BY <1>7 DEF Surjection
<1> QED
  BY <1>1, <1>2, <1>3, <1>4, <1>8

\* A finite set of numbers, the least first.
LEMMA AscendingIs ==
  ASSUME NEW S \in SUBSET Int, IsFiniteSet(S)
  PROVE  /\ Cardinality(S) \in Nat
         /\ Ascending(S) \in [1 .. Cardinality(S) -> S]
         /\ \A x \in S : \E i \in 1 .. Cardinality(S) : Ascending(S)[i] = x
         /\ \A i, j \in 1 .. Cardinality(S) : i < j => Ascending(S)[i] < Ascending(S)[j]
<1> DEFINE U == [x \in S |-> {y \in S : y <= x}]
           n == Cardinality(S)
           a == Ascending(S)
<1>0. \A x \in S : x \in Int
  OBVIOUS
<1>1. /\ U \in [S -> SUBSET S] /\ \A x \in S : x \in U[x]
      /\ \A x, y \in S : x # y => U[x] # U[y] /\ (U[x] \subseteq U[y] \/ U[y] \subseteq U[x])
      /\ \A x, y \in S : x <= y => U[x] \subseteq U[y]
  <2>1. \A x, y \in S : x <= y => U[x] \subseteq U[y]
    <3> SUFFICES ASSUME NEW x \in S, NEW y \in S, x <= y, NEW z \in U[x] PROVE z \in U[y]
      OBVIOUS
    <3>1. z \in S /\ z <= x
      OBVIOUS
    <3>2. z <= y
      BY <3>1, <1>0
    <3> QED
      BY <3>1, <3>2
  <2>2. \A x, y \in S : U[x] = U[y] => x = y
    <3> SUFFICES ASSUME NEW x \in S, NEW y \in S, U[x] = U[y] PROVE x = y
      OBVIOUS
    <3>1. x \in U[y] /\ y \in U[x]
      OBVIOUS
    <3> QED
      BY <3>1, <1>0, <1>0
  <2>3. \A x, y \in S : x <= y \/ y <= x
    BY <1>0
  <2> QED
    BY <2>1, <2>2, <2>3
<1> HIDE DEF U
<1>2. /\ n \in Nat
      /\ \A x \in S : Cardinality(U[x]) \in 1 .. n
      /\ \A i \in 1 .. n : \E x \in S : Cardinality(U[x]) = i
      /\ \A x, y \in S : U[x] \subseteq U[y] => Cardinality(U[x]) <= Cardinality(U[y])
      /\ \A x, y \in S : Cardinality(U[x]) = Cardinality(U[y]) => x = y
  BY <1>1, Ranked
<1>3. \A x \in S : Cardinality(U[x]) = Cardinality({y \in S : y <= x})
  BY DEF U
<1>4. \A i \in 1 .. n : a[i] \in S /\ Cardinality(U[a[i]]) = i
  <2> TAKE i \in 1 .. n
  <2>1. a[i] = CHOOSE x \in S : Cardinality({y \in S : y <= x}) = i
    BY DEF Ascending
  <2>2. \E x \in S : Cardinality({y \in S : y <= x}) = i
    BY <1>2, <1>3
  <2>3. a[i] \in S /\ Cardinality({y \in S : y <= a[i]}) = i
    BY <2>1, <2>2
  <2> QED
    BY <1>3, <2>3
<1>5. a \in [1 .. n -> S]
  BY <1>4 DEF Ascending
<1> HIDE DEF a
<1>6. \A x \in S : \E i \in 1 .. n : a[i] = x
  <2> TAKE x \in S
  <2>1. Cardinality(U[x]) \in 1 .. n
    BY <1>2
  <2>2. a[Cardinality(U[x])] \in S /\ Cardinality(U[a[Cardinality(U[x])]]) = Cardinality(U[x])
    BY <1>4, <2>1
  <2>3. a[Cardinality(U[x])] = x
    BY <1>2, <2>2
  <2> QED
    BY <2>1, <2>3
<1>7. \A i, j \in 1 .. n : i < j => a[i] < a[j]
  <2> SUFFICES ASSUME NEW i \in 1 .. n, NEW j \in 1 .. n, i < j, ~(a[i] < a[j]) PROVE FALSE
    OBVIOUS
  <2>0. a[i] \in S /\ a[j] \in S
    BY <1>5
  <2>a. a[i] \in Int /\ a[j] \in Int
    BY <2>0, <1>0
  <2>1. a[j] <= a[i]
    BY <2>a
  <2>2. Cardinality(U[a[j]]) <= Cardinality(U[a[i]])
    BY <1>1, <1>2, <2>0, <2>1
  <2>3. Cardinality(U[a[j]]) = j /\ Cardinality(U[a[i]]) = i
    BY <1>4
  <2> QED
    BY <1>2, <2>2, <2>3
<1> QED
  BY <1>2, <1>5, <1>6, <1>7 DEF a

\* A finite set of numbers, the greatest first.
LEMMA DescendingIs ==
  ASSUME NEW S \in SUBSET Int, IsFiniteSet(S)
  PROVE  /\ Cardinality(S) \in Nat
         /\ Descending(S) \in [1 .. Cardinality(S) -> S]
         /\ \A x \in S : \E i \in 1 .. Cardinality(S) : Descending(S)[i] = x
         /\ \A i, j \in 1 .. Cardinality(S) : i < j => Descending(S)[i] > Descending(S)[j]
<1> DEFINE n == Cardinality(S)
           a == Ascending(S)
           back(i) == n + 1 - i
<1>1. /\ n \in Nat /\ a \in [1 .. n -> S] /\ \A x \in S : \E i \in 1 .. n : a[i] = x
      /\ \A i, j \in 1 .. n : i < j => a[i] < a[j]
  BY AscendingIs
<1>2. Descending(S) = [i \in 1 .. n |-> a[back(i)]]
  BY DEF Descending
<1> HIDE DEF a, n
<1>3. \A i \in 1 .. n : back(i) \in 1 .. n /\ back(back(i)) = i
  BY <1>1
<1>4. Descending(S) \in [1 .. n -> S]
  BY <1>1, <1>2, <1>3
<1>5. \A x \in S : \E i \in 1 .. n : Descending(S)[i] = x
  <2> TAKE x \in S
  <2>1. PICK i \in 1 .. n : a[i] = x
    BY <1>1
  <2>2. back(i) \in 1 .. n /\ a[back(back(i))] = x
    BY <2>1, <1>3
  <2> QED
    BY <2>2, <1>2
<1>6. \A i, j \in 1 .. n : i < j => Descending(S)[i] > Descending(S)[j]
  <2> SUFFICES ASSUME NEW i \in 1 .. n, NEW j \in 1 .. n, i < j
               PROVE  Descending(S)[i] > Descending(S)[j]
    OBVIOUS
  <2>1. back(j) < back(i)
    BY <1>1
  <2>2. a[back(j)] < a[back(i)] /\ a[back(j)] \in Int /\ a[back(i)] \in Int
    BY <1>1, <1>3, <2>1
  <2> QED
    BY <1>2, <2>2
<1> QED
  BY <1>1, <1>4, <1>5, <1>6 DEF n

\* Filtering a list keeps what stands at the places, in its order.
LEMMA KeptIs ==
  ASSUME NEW X, NEW s \in Seq(X), NEW P \in SUBSET DOMAIN s
  PROVE  /\ IsFiniteSet(P) /\ Cardinality(P) \in Nat
         /\ Kept(s, P) \in Seq(X) /\ DOMAIN Kept(s, P) = 1 .. Cardinality(P)
         /\ Ascending(P) \in [1 .. Cardinality(P) -> P]
         /\ \A i \in 1 .. Cardinality(P) : Kept(s, P)[i] = s[Ascending(P)[i]]
         /\ \A p \in P : \E i \in 1 .. Cardinality(P) : Ascending(P)[i] = p
         /\ \A i, j \in 1 .. Cardinality(P) : i < j => Ascending(P)[i] < Ascending(P)[j]
<1>1. IsFiniteSet(P) /\ P \in SUBSET Int
  <2>1. Len(s) \in Nat /\ DOMAIN s = 1 .. Len(s)
    OBVIOUS
  <2>2. IsFiniteSet(1 .. Len(s))
    BY <2>1, FS_Interval
  <2> QED
    BY <2>1, <2>2, FS_Subset
<1>2. /\ Cardinality(P) \in Nat /\ Ascending(P) \in [1 .. Cardinality(P) -> P]
      /\ \A p \in P : \E i \in 1 .. Cardinality(P) : Ascending(P)[i] = p
      /\ \A i, j \in 1 .. Cardinality(P) : i < j => Ascending(P)[i] < Ascending(P)[j]
  BY <1>1, AscendingIs
<1>3. /\ Kept(s, P) \in [1 .. Cardinality(P) -> X]
      /\ \A i \in 1 .. Cardinality(P) : Kept(s, P)[i] = s[Ascending(P)[i]]
  <2>1. \A i \in 1 .. Cardinality(P) : Ascending(P)[i] \in DOMAIN s
    BY <1>2
  <2>2. \A p \in DOMAIN s : s[p] \in X
    OBVIOUS
  <2> QED
    BY <2>1, <2>2 DEF Kept
<1>4. Kept(s, P) \in Seq(X) /\ DOMAIN Kept(s, P) = 1 .. Cardinality(P)
  BY <1>2, <1>3
<1> QED
  BY <1>1, <1>2, <1>3, <1>4

-----------------------------------------------------------------------------
(* The host's rating of a participant.                                     *)

\* The form has the three fields it always has.
FormTyped ==
  panel = "host" => form = [open |-> form.open, typed |-> form.typed, error |-> form.error]

\* What a render shows.
LEMMA RenderShows ==
  ASSUME NEW l, "shown" \in DOMAIN l, NEW isOpen, NEW calls_, NEW k, NEW past,
         Host!Render(l, isOpen, calls_, k, past)
  PROVE  list'.shown = l.shown /\ open' = isOpen
BY DEF Host!Render, Host!Busied

(* A half-written rating outlives what else happens: only a row that goes, *)
(* a modal or a page that closes, a rating of that participant that is     *)
(* saved, or the cancel button of the app takes it away.                   *)
THEOREM RatingDraftOutlives == Spec => RatingDraftKept
<1> DEFINE Kept1 == \A r \in Host!Shown(list) : r \in form.typed /\ r \notin form'.typed =>
                    \/ r \notin Host!Shown(list') \/ ~open' \/ ~ready'
                    \/ Host!StampOf(list, r) # Host!StampOf(list', r)
                    \/ Host!Mobile /\ Host!CancelRating(r)
<1>1. Init => FormTyped
  BY DEF Init, NoComments, Host!Init, Host!NoForm, FormTyped
<1>2. FormTyped /\ [Next]_vars => FormTyped' /\ [Kept1]_Host!vars
  <2> SUFFICES ASSUME FormTyped, [Next]_vars PROVE FormTyped' /\ (Kept1 \/ form' = form)
    BY DEF Host!vars, Host!screen
  <2>1. CASE form' = form
    BY <2>1 DEF FormTyped, Next, vars
  <2>2. CASE panel = "host" /\ Host!Next /\ panel' = panel
    <3>0. form = [open |-> form.open, typed |-> form.typed, error |-> form.error]
      BY <2>2 DEF FormTyped
    <3> SUFFICES /\ form' = [open |-> form'.open, typed |-> form'.typed, error |-> form'.error]
                 /\ Kept1 \/ form' = form
      BY <2>2 DEF FormTyped
    <3> HIDE DEF Kept1
    <3>1. ASSUME NEW r \in Host!Row, Host!ToggleEditor(r) \/ Host!Type(r) \/ Host!Rate(r)
          PROVE  /\ form' = [open |-> form'.open, typed |-> form'.typed, error |-> form'.error]
                 /\ Kept1
      <4>1. form' = [form EXCEPT !.open = form'.open, !.error = form'.error]
            \/ form' = [form EXCEPT !.typed = @ \cup {r}] \/ form' = [form EXCEPT !.error = 0]
        BY <3>0, <3>1 DEF Host!ToggleEditor, Host!Type, Host!Rate
      <4>2. form.typed \subseteq form'.typed
        BY <3>0, <4>1
      <4> QED
        BY <3>0, <4>1, <4>2 DEF Kept1
    <3>2. ASSUME NEW r \in Host!Row, Host!CancelRating(r)
          PROVE  /\ form' = [open |-> form'.open, typed |-> form'.typed, error |-> form'.error]
                 /\ Kept1
      <4>1. form' = [open |-> form.open \ {r}, error |-> 0,
                     typed |-> IF Host!Mobile THEN form.typed \ {r} ELSE form.typed]
        BY <3>2 DEF Host!CancelRating
      <4>2. CASE ~Host!Mobile
        BY <4>1, <4>2 DEF Kept1
      <4>3. CASE Host!Mobile
        <5>1. form'.typed = form.typed \ {r}
          BY <4>1, <4>3
        <5> QED
          BY <3>2, <4>1, <4>3, <5>1 DEF Kept1
      <4> QED
        BY <4>1, <4>2, <4>3
    <3>3. ASSUME Host!CloseModal \/ Host!RenewToken \/ Host!Retry
          PROVE  /\ form' = [open |-> form'.open, typed |-> form'.typed, error |-> form'.error]
                 /\ ~open' \/ ~ready'
      BY <3>0, <3>3 DEF Host!CloseModal, Host!RenewToken, Host!Retry, Host!Reset, Host!Render, Host!NoForm
    <3>4. ASSUME NEW i \in DOMAIN answers, Host!PageAnswer(i)
          PROVE  /\ form' = [open |-> form'.open, typed |-> form'.typed, error |-> form'.error]
                 /\ Kept1
      <4> DEFINE l == Host!Merged(answers[i])
      <4>1. list'.shown = l.shown /\ open' = open
        <5>1. "shown" \in DOMAIN l
          BY DEF Host!Merged
        <5>2. Host!Render(l, open, <<>>, kept, [history EXCEPT
                !.late = @ \/ Host!Late(answers[i]),
                !.known = IF answers[i].call.op = "first" THEN answers[i].all
                          ELSE {r \in @ : r <= answers[i].call.row}
                               \cup {r \in answers[i].all : r > answers[i].call.row}])
          BY <3>4 DEF Host!PageAnswer
        <5> QED
          BY <5>1, <5>2, RenderShows
      <4>2. Host!Follow(l)
        BY <3>4 DEF Host!PageAnswer
      <4> HIDE DEF l
      <4>3. /\ form' = [open |-> form'.open, typed |-> form'.typed, error |-> form'.error]
            /\ form'.typed = form.typed \ (Host!Gone(l) \cup Host!Renewed(l))
        BY <3>0, <4>2 DEF Host!Follow
      <4>4. Host!Shown(list') = Host!Shown(l)
        BY <4>1 DEF Host!Shown
      <4>5. \A r : Host!StampOf(list', r) = Host!StampOf(l, r)
        BY <4>1 DEF Host!StampOf
      <4>6. \A r \in Host!Gone(l) : r \notin Host!Shown(list')
        BY <4>4 DEF Host!Gone
      <4>7. \A r \in Host!Renewed(l) : Host!StampOf(list, r) # Host!StampOf(list', r)
        BY <4>5 DEF Host!Renewed
      <4> QED
        BY <4>3, <4>6, <4>7 DEF Kept1
    <3>5. ASSUME NEW c, NEW lost_, Host!Stops(c, lost_)
          PROVE  /\ form' = [open |-> form'.open, typed |-> form'.typed, error |-> form'.error]
                 /\ form'.typed = form.typed
      BY <3>0, <3>5 DEF Host!Stops
    <3>6. ASSUME Host!Next
          PROVE  \/ form' = form
                 \/ \E r \in Host!Row : Host!ToggleEditor(r) \/ Host!Type(r) \/ Host!Rate(r)
                 \/ \E r \in Host!Row : Host!CancelRating(r)
                 \/ Host!CloseModal \/ Host!RenewToken \/ Host!Retry
                 \/ \E i \in DOMAIN answers : Host!PageAnswer(i)
                 \/ \E c, lost_ : Host!Stops(c, lost_)
      <4>1. CASE Host!HostActs
        BY <4>1 DEF Host!HostActs, Host!Moderate, Host!Revoke, Host!Invite, Host!CancelEvent,
                    Host!CompleteEvent, Host!End, Host!OpenModal, Host!LoadMore
      <4>2. CASE \E r \in Host!Row : Host!Guest(r)
        BY <4>2 DEF Host!Guest, Host!screen
      <4>3. CASE \E i \in DOMAIN sent : Host!Execute(i) \/ Host!LoseCall(i)
        BY <4>3 DEF Host!Execute, Host!LoseCall, Host!screen
      <4>4. CASE \E i \in DOMAIN answers : Host!Arrives(i)
        BY <4>4 DEF Host!Arrives, Host!SummaryAnswer, Host!DetailAnswer, Host!ActAnswer,
                    Host!MobileInvited, Host!MobileRevoked, Host!MobileCounted, Host!Refused,
                    Host!LoseAnswer
      <4> QED
        BY <3>6, <4>1, <4>2, <4>3, <4>4 DEF Host!Next
    <3>7. (~open' \/ ~ready') => Kept1
      BY DEF Kept1
    <3>8. form'.typed = form.typed => Kept1
      BY DEF Kept1
    <3> QED
      BY <2>2, <3>0, <3>1, <3>2, <3>3, <3>4, <3>5, <3>6, <3>7, <3>8
  <2> QED
    BY <2>1, <2>2 DEF Next, vars, hostVars
<1> QED
  BY <1>1, <1>2, PTL DEF Spec, RatingDraftKept, Host!RatingDraftKept

-----------------------------------------------------------------------------
(* Comments: what is written.                                              *)

Pagings == {"first", "more"}
Postings == {"upload", "post"}

CallRow == [what : Pagings \union Postings, text : Nat, cursor : Nat, done : {"no", "yes", "refused"},
            raced : BOOLEAN, page : [items : Seq(Comments!Comment), next : Nat],
            horizon : Nat, id : Nat]

ListRow == [shown : Seq(Comments!Comment), next : Nat, busy : Pagings \union {"no"},
            failed : BOOLEAN, open : BOOLEAN, known : BOOLEAN, count : Nat, horizon : Nat,
            own : SUBSET Nat, astray : BOOLEAN]

DraftRow == [open : BOOLEAN, text : Nat, stars : {0, 1}, image : BOOLEAN, sending : BOOLEAN,
             left : BOOLEAN]

\* The types of the comments; each is known by its place.
CommentsTyped ==
  /\ client \in {"web", "mobile"} /\ kind \in {"discussion", "replies", "reviews"}
  /\ stored \in Seq(Comments!Comment) /\ \A i \in DOMAIN stored : stored[i].id = i
  /\ calls \in Seq(CallRow) /\ list \in ListRow /\ draft \in DraftRow
  /\ \A i \in DOMAIN calls : calls[i].what \in Pagings => calls[i].done # "refused"
  /\ abandoned \subseteq Nat /\ inputs \in Nat /\ lost \in Nat
  /\ inputs <= MaxInput /\ lost <= MaxLost

\* Every text was written by an input, the abandoned ones by earlier ones than the draft.
TextsKnown ==
  /\ \A i \in DOMAIN stored : stored[i].text <= inputs
  /\ draft.text <= inputs /\ draft.text \notin abandoned
  /\ abandoned \subseteq 1 .. inputs

\* One text at a time is sent, that of the draft, which stays until the answer; the server has
\* what it has accepted, unless a text of the panel before has overtaken it.
OneSent ==
  /\ \A i, j \in DOMAIN calls : calls[i].what \in Postings /\ calls[j].what \in Postings => i = j
  /\ \A i \in DOMAIN calls : calls[i].what \in Postings =>
       /\ draft.sending /\ calls[i].text = draft.text /\ draft.text # 0
       /\ calls[i].what = "post" /\ calls[i].done = "yes" =>
            \/ calls[i].raced
            \/ \E k \in DOMAIN stored : stored[k].mine /\ stored[k].text = draft.text
  /\ (Comments!Mobile /\ Comments!Replies /\ draft.sending) => draft.open

\* The own rows with a text, and whether one more of it may come without another loss.
RowsWith(text) == {i \in DOMAIN stored : stored[i].mine /\ stored[i].text = text}

PostDone == \E i \in DOMAIN calls : calls[i].what = "post" /\ calls[i].done = "yes"

Pending(text) == text \in abandoned \/ (draft.text = text /\ ~PostDone)

CountedOnce ==
  \A text \in 1 .. MaxInput :
    Cardinality(RowsWith(text)) <= lost + (IF Pending(text) THEN 0 ELSE 1)

WriteInv == panel = "comments" => CommentsTyped /\ TextsKnown /\ OneSent /\ CountedOnce

-----------------------------------------------------------------------------
(* Comments: what is read.                                                 *)

\* What comes after the cursor c in a list of kind k.
Behind(k, id, c) == c = 0 \/ IF k = "replies" THEN id > c ELSE id < c

\* What is shown was read or answered, as the rows s are, and what the buttons go by is right.
ListFits(w, k, l, s) ==
  /\ l.horizon <= Len(s) /\ l.own \subseteq 1 .. Len(s) /\ l.next <= l.horizon
  /\ \A i \in DOMAIN l.shown : /\ l.shown[i].id \in (1 .. l.horizon) \union l.own
                               /\ l.shown[i].mine = s[l.shown[i].id].mine
  /\ (k = "replies" /\ (l.busy = "first" \/ l.next # 0)) =>
       IF w = "web" THEN l.count > 0 ELSE l.known
  /\ l.failed => l.busy = "no" /\ w = "web" /\ k # "replies"

\* Replies that were not unfolded yet, or are being loaded.
Folded(w, k, l) ==
  k = "replies" /\ l.shown = <<>> /\ l.count > 0 /\ (w = "web" \/ ~l.known \/ l.busy = "first")

\* What was read is shown, once and in order, or comes with the next page.
InReach(w, k, l) ==
  /\ \A id \in (1 .. l.horizon) \union l.own :
       \/ \E i \in DOMAIN l.shown : l.shown[i].id = id
       \/ l.next # 0 /\ Behind(k, id, l.next)
       \/ Folded(w, k, l)
  /\ \A i, j \in DOMAIN l.shown : i < j =>
       /\ l.shown[i].id # l.shown[j].id
       /\ ~l.shown[i].mine /\ ~l.shown[j].mine => Behind(k, l.shown[j].id, l.shown[i].id)
  /\ l.next # 0 => l.shown # <<>> /\ \A i \in DOMAIN l.shown : ~Behind(k, l.shown[i].id, l.next)

\* A page that was read holds the rows behind its cursor, or leads to them.
PageFits(k, c, s) ==
  LET items == c.page.items
      next == c.page.next
  IN  /\ c.horizon <= Len(s)
      /\ \A i \in DOMAIN items : /\ items[i].id \in 1 .. c.horizon /\ Behind(k, items[i].id, c.cursor)
                                 /\ items[i].mine = s[items[i].id].mine
      /\ \A i, j \in DOMAIN items : i < j => Behind(k, items[j].id, items[i].id)
      /\ next # 0 => /\ items # <<>> /\ next \in 1 .. c.horizon /\ Behind(k, next, c.cursor)
                     /\ \A i \in DOMAIN items : ~Behind(k, items[i].id, next)
      /\ \A id \in 1 .. c.horizon : Behind(k, id, c.cursor) =>
           (\E i \in DOMAIN items : items[i].id = id) \/ (next # 0 /\ Behind(k, id, next))

\* A call under way fits the list its answer will change.
CallFits(k, l, c, s) ==
  /\ c.what \in Pagings => c.what = l.busy
  /\ c.what = "first" => /\ c.cursor = 0
                         /\ (c.done = "yes" /\ ~c.raced) => l.own \subseteq 1 .. c.horizon
  /\ c.what = "more" => /\ c.cursor = l.next /\ l.next # 0
                        /\ c.done = "yes" =>
                             /\ l.horizon <= c.horizon
                             /\ (k = "replies" /\ ~l.astray) => l.own \subseteq 1 .. c.horizon
  /\ c.what \in Pagings /\ c.done = "yes" => PageFits(k, c, s)
  /\ c.what = "post" /\ c.done = "yes" =>
       /\ c.id \in DOMAIN s /\ s[c.id].mine
       /\ k # "reviews" => c.id \notin l.own

\* One page at a time is under way.
OnePage(l, cs) ==
  /\ \A i, j \in DOMAIN cs : cs[i].what \in Pagings /\ cs[j].what \in Pagings => i = j
  /\ l.busy # "no" => \E i \in DOMAIN cs : cs[i].what = l.busy

\* A user has one review.
OneReview(k, s) ==
  k = "reviews" => \A i, j \in DOMAIN s : s[i].mine /\ s[j].mine => i = j

ReadInv ==
  panel = "comments" =>
    /\ OneReview(kind, stored) /\ ListFits(client, kind, list, stored) /\ OnePage(list, calls)
    /\ ~list.astray => InReach(client, kind, list)
    /\ \A i \in DOMAIN calls : CallFits(kind, list, calls[i], stored)

-----------------------------------------------------------------------------
(* Lemmas about the calls under way.                                       *)

\* The place that the j-th element had before the i-th was removed.
Former(i, j) == IF j < i THEN j ELSE j + 1

\* The sequence t is s without its i-th element.
Without(t, s, i) ==
  /\ DOMAIN t = 1 .. Len(s) - 1
  /\ \A j \in 1 .. Len(s) - 1 : Former(i, j) \in DOMAIN s \ {i} /\ t[j] = s[Former(i, j)]
  /\ \A k \in DOMAIN s : k # i => \E j \in 1 .. Len(s) - 1 : k = Former(i, j)
  /\ \A j, k \in 1 .. Len(s) - 1 : Former(i, j) = Former(i, k) => j = k

\* Removing a call leaves the others, each at its place or the one before it.
LEMMA Removed ==
  ASSUME NEW S, NEW s \in Seq(S), NEW i \in DOMAIN s
  PROVE  RemoveAt(s, i) \in Seq(S) /\ Without(RemoveAt(s, i), s, i)
<1> DEFINE left == SubSeq(s, 1, i - 1)
           right == SubSeq(s, i + 1, Len(s))
<1>0. Len(s) \in Nat /\ DOMAIN s = 1 .. Len(s)
  OBVIOUS
<1>1. i \in 1 .. Len(s) /\ \A j \in 1 .. Len(s) : s[j] \in S
  OBVIOUS
<1>2. left \in Seq(S) /\ Len(left) = i - 1 /\ \A j \in 1 .. (i - 1) : left[j] = s[j]
  BY <1>1, SubSeqProperties
<1>3. /\ right \in Seq(S) /\ Len(right) = Len(s) - i
      /\ \A j \in 1 .. (Len(s) - i) : right[j] = s[i + j]
  BY <1>1, SubSeqProperties
<1> HIDE DEF left, right
<1>4. /\ left \o right \in Seq(S) /\ Len(left \o right) = Len(s) - 1
      /\ \A j \in 1 .. (Len(s) - 1) :
           (left \o right)[j] = IF j <= i - 1 THEN left[j] ELSE right[j - (i - 1)]
  BY <1>1, <1>2, <1>3, ConcatProperties
<1>a. DOMAIN (left \o right) = 1 .. Len(s) - 1
  BY <1>4
<1>5. \A j \in 1 .. (Len(s) - 1) : (left \o right)[j] = s[Former(i, j)]
  <2> TAKE j \in 1 .. (Len(s) - 1)
  <2>1. CASE j < i
    BY <2>1, <1>1, <1>2, <1>4 DEF Former
  <2>2. CASE ~(j < i)
    <3>1. (left \o right)[j] = right[j - (i - 1)] /\ j - (i - 1) \in 1 .. (Len(s) - i)
      BY <2>2, <1>1, <1>4
    <3>2. right[j - (i - 1)] = s[i + (j - (i - 1))] /\ i + (j - (i - 1)) = j + 1
      BY <3>1, <1>1, <1>3
    <3> QED
      BY <2>2, <3>1, <3>2 DEF Former
  <2> QED
    BY <2>1, <2>2
<1>6. RemoveAt(s, i) = left \o right
  BY DEF RemoveAt, left, right
<1>8. \A j \in 1 .. Len(s) - 1 : Former(i, j) \in DOMAIN s \ {i}
  BY <1>0, <1>1 DEF Former
<1>9. \A k \in DOMAIN s : k # i => \E j \in 1 .. Len(s) - 1 : k = Former(i, j)
  <2> SUFFICES ASSUME NEW k \in DOMAIN s, k # i
               PROVE  \E j \in 1 .. Len(s) - 1 : k = Former(i, j)
    OBVIOUS
  <2>1. CASE k < i
    <3>1. k \in 1 .. Len(s) - 1
      BY <2>1, <1>0, <1>1
    <3> QED
      BY <2>1, <3>1 DEF Former
  <2>2. CASE ~(k < i)
    <3>1. k - 1 \in 1 .. Len(s) - 1 /\ ~(k - 1 < i) /\ (k - 1) + 1 = k
      BY <2>2, <1>0, <1>1
    <3> QED
      BY <3>1 DEF Former
  <2> QED
    BY <2>1, <2>2
<1>10. \A j, k \in 1 .. Len(s) - 1 : Former(i, j) = Former(i, k) => j = k
  BY <1>0, <1>1 DEF Former
<1>11. RemoveAt(s, i) \in Seq(S) /\ DOMAIN RemoveAt(s, i) = 1 .. Len(s) - 1
  BY <1>4, <1>a, <1>5, <1>6
<1>12. \A j \in 1 .. Len(s) - 1 : RemoveAt(s, i)[j] = s[Former(i, j)]
  BY <1>4, <1>a, <1>5, <1>6
<1> QED
  BY <1>8, <1>9, <1>10, <1>11, <1>12 DEF Without

\* A sequence with an element more.
LEMMA Added ==
  ASSUME NEW S, NEW s \in Seq(S), NEW c \in S
  PROVE  /\ Append(s, c) \in Seq(S) /\ DOMAIN Append(s, c) = 1 .. Len(s) + 1
         /\ \A j \in DOMAIN s : j \in 1 .. Len(s) + 1 /\ j # Len(s) + 1 /\ Append(s, c)[j] = s[j]
         /\ Append(s, c)[Len(s) + 1] = c
         /\ \A j \in DOMAIN Append(s, c) : j \in DOMAIN s \/ j = Len(s) + 1
OBVIOUS

\* The lists of a module are those of another.
LEMMA SameLists ==
  /\ \A S : Comments!Ascending(S) = Ascending(S) /\ Comments!Descending(S) = Descending(S)
  /\ \A s, P : Comments!Kept(s, P) = Kept(s, P)
  /\ \A s, i : Comments!RemoveAt(s, i) = RemoveAt(s, i)
<1>1. \A S : Comments!Ascending(S) = Ascending(S)
  BY DEF Comments!Ascending, Ascending, Comments!Cardinality, Cardinality
<1>2. \A S : Comments!Descending(S) = Descending(S)
  BY <1>1 DEF Comments!Descending, Descending, Comments!Cardinality, Cardinality
<1>3. \A s, P : Comments!Kept(s, P) = Kept(s, P)
  BY <1>1 DEF Comments!Kept, Kept, Comments!Cardinality, Cardinality
<1>4. \A s, i : Comments!RemoveAt(s, i) = RemoveAt(s, i)
  BY DEF Comments!RemoveAt, RemoveAt
<1> QED
  BY <1>1, <1>2, <1>3, <1>4

\* What a page holds.
LEMMA PageIs ==
  ASSUME PanelsAssumption, CommentsTyped, NEW c \in Nat,
         NEW row, row.cursor = c, row.page = Comments!PageAfter(c), row.horizon = Len(stored)
  PROVE  /\ Comments!PageAfter(c) \in [items : Seq(Comments!Comment), next : Nat]
         /\ PageFits(kind, row, stored)
<1> DEFINE R == {i \in DOMAIN stored : Behind(kind, i, c)}
           r == Comments!Listed(c)
           n == Cardinality(R)
           m == IF n > PageSize THEN PageSize ELSE n
           page == Comments!PageAfter(c)
<1>1. /\ PageSize \in Nat \ {0} /\ Len(stored) \in Nat /\ DOMAIN stored = 1 .. Len(stored)
      /\ \A i \in DOMAIN stored : stored[i] \in Comments!Comment /\ stored[i].id = i
      /\ kind \in {"discussion", "replies", "reviews"}
  BY DEF CommentsTyped, PanelsAssumption
<1>2. R \in SUBSET Int /\ IsFiniteSet(R) /\ R \subseteq DOMAIN stored
  <2>1. IsFiniteSet(1 .. Len(stored)) /\ R \in SUBSET (1 .. Len(stored))
    BY <1>1, FS_Interval
  <2>2. IsFiniteSet(R)
    BY <2>1, FS_Subset
  <2>3. \A x \in 1 .. Len(stored) : x \in Int
    BY <1>1
  <2> QED
    BY <1>1, <2>1, <2>2, <2>3
<1>3. r = IF Comments!Replies THEN Ascending(R) ELSE Descending(R)
  <2>1. \A i \in DOMAIN stored : Comments!Beyond(stored[i], c) <=> Behind(kind, i, c)
    BY <1>1 DEF Comments!Beyond, Behind, Comments!Replies
  <2>2. {i \in DOMAIN stored : Comments!Beyond(stored[i], c)} = R
    BY <2>1
  <2> HIDE DEF R
  <2> QED
    BY <2>2, SameLists DEF Comments!Listed
<1>4. n \in Nat /\ r \in [1 .. n -> R] /\ \A x \in R : \E i \in 1 .. n : r[i] = x
  <2> HIDE DEF R
  <2>1. /\ Cardinality(R) \in Nat /\ Ascending(R) \in [1 .. Cardinality(R) -> R]
        /\ \A x \in R : \E i \in 1 .. Cardinality(R) : Ascending(R)[i] = x
    BY <1>2, AscendingIs, Zenon
  <2>2. /\ Descending(R) \in [1 .. Cardinality(R) -> R]
        /\ \A x \in R : \E i \in 1 .. Cardinality(R) : Descending(R)[i] = x
    BY <1>2, DescendingIs, Zenon
  <2> QED
    BY <1>3, <2>1, <2>2
<1>5. \A i, j \in 1 .. n : i < j => Behind(kind, r[j], r[i]) /\ ~Behind(kind, r[i], r[j])
  <2> SUFFICES ASSUME NEW i \in 1 .. n, NEW j \in 1 .. n, i < j
               PROVE  Behind(kind, r[j], r[i]) /\ ~Behind(kind, r[i], r[j])
    OBVIOUS
  <2>1. r[i] \in 1 .. Len(stored) /\ r[j] \in 1 .. Len(stored)
    BY <1>1, <1>2, <1>4
  <2>2. CASE Comments!Replies
    <3>1. r[i] < r[j]
      BY <2>2, <1>2, <1>3, AscendingIs
    <3> QED
      BY <2>1, <2>2, <3>1, SMTT(30) DEF Behind, Comments!Replies
  <2>3. CASE ~Comments!Replies
    <3>1. r[i] > r[j]
      BY <2>3, <1>2, <1>3, DescendingIs
    <3> QED
      BY <2>1, <2>3, <3>1, SMTT(30) DEF Behind, Comments!Replies
  <2> QED
    BY <2>2, <2>3
<1>6. \A x \in R : x \in 1 .. Len(stored) /\ Behind(kind, x, c)
  BY <1>1
<1>7. Len(r) = n
  BY <1>4
<1>8. page = [items |-> [i \in 1 .. m |-> stored[r[i]]],
              next |-> IF n > PageSize THEN r[PageSize] ELSE 0]
  BY <1>7 DEF Comments!PageAfter
<1> HIDE DEF r, page, n, R
<1>9. m \in Nat /\ m <= n /\ (n > PageSize => m = PageSize /\ m \in 1 .. n) /\ \A i \in 1 .. m : i \in 1 .. n
  BY <1>1, <1>4
<1>10. /\ page.items \in Seq(Comments!Comment) /\ DOMAIN page.items = 1 .. m /\ page.next \in Nat
       /\ \A i \in 1 .. m : page.items[i] = stored[r[i]] /\ page.items[i].id = r[i] /\ r[i] \in R
       /\ page.next = IF n > PageSize THEN r[PageSize] ELSE 0
  <2>1. \A i \in 1 .. m : r[i] \in R /\ r[i] \in DOMAIN stored
    BY <1>2, <1>4, <1>9
  <2>2. [i \in 1 .. m |-> stored[r[i]]] \in [1 .. m -> Comments!Comment]
    BY <1>1, <2>1
  <2>3. page.items \in Seq(Comments!Comment) /\ DOMAIN page.items = 1 .. m
    <3>1. page.items = [i \in 1 .. m |-> stored[r[i]]]
      BY <1>8
    <3>2. \A f \in [1 .. m -> Comments!Comment] : f \in Seq(Comments!Comment) /\ DOMAIN f = 1 .. m
      BY <1>9, SMTT(30)
    <3> QED
      BY <2>2, <3>1, <3>2
  <2>4. page.next \in Nat
    BY <1>1, <1>4, <1>6, <1>8, <1>9
  <2> QED
    BY <1>1, <1>8, <2>1, <2>3, <2>4
<1>11. page \in [items : Seq(Comments!Comment), next : Nat]
  BY <1>8, <1>10
<1>12. \A i \in 1 .. m : /\ page.items[i].id \in 1 .. Len(stored) /\ Behind(kind, page.items[i].id, c)
                        /\ page.items[i].mine = stored[page.items[i].id].mine
  BY <1>6, <1>10
<1>13. \A i, j \in 1 .. m : i < j => Behind(kind, page.items[j].id, page.items[i].id)
  BY <1>5, <1>9, <1>10
<1>14. page.next # 0 => /\ page.items # <<>> /\ page.next \in 1 .. Len(stored)
                        /\ Behind(kind, page.next, c)
                        /\ \A i \in 1 .. m : ~Behind(kind, page.items[i].id, page.next)
  <2> SUFFICES ASSUME page.next # 0
               PROVE  /\ page.items # <<>> /\ page.next \in 1 .. Len(stored)
                      /\ Behind(kind, page.next, c)
                      /\ \A i \in 1 .. m : ~Behind(kind, page.items[i].id, page.next)
    OBVIOUS
  <2>1. n > PageSize /\ m = PageSize /\ m \in 1 .. n /\ m \in 1 .. m /\ page.next = r[m]
    BY <1>1, <1>9, <1>10
  <2>2. page.items # <<>>
    BY <2>1, <1>10
  <2>3. r[m] \in 1 .. Len(stored) /\ Behind(kind, r[m], c)
    BY <2>1, <1>6, <1>10
  <2>4. \A i \in 1 .. m : ~Behind(kind, r[i], r[m])
    <3> TAKE i \in 1 .. m
    <3>1. i < m \/ i = m
      BY <1>9
    <3>2. CASE i < m
      BY <3>2, <2>1, <1>5, <1>9
    <3>3. CASE i = m
      BY <3>3, <2>3, <1>1 DEF Behind
    <3> QED
      BY <3>1, <3>2, <3>3
  <2> QED
    BY <2>1, <2>2, <2>3, <2>4, <1>10
<1>15. \A id \in 1 .. Len(stored) : Behind(kind, id, c) =>
         (\E i \in 1 .. m : page.items[i].id = id) \/ (page.next # 0 /\ Behind(kind, id, page.next))
  <2> SUFFICES ASSUME NEW id \in 1 .. Len(stored), Behind(kind, id, c)
               PROVE  \/ \E i \in 1 .. m : page.items[i].id = id
                      \/ page.next # 0 /\ Behind(kind, id, page.next)
    OBVIOUS
  <2>1. PICK i \in 1 .. n : r[i] = id
    BY <1>1, <1>4 DEF R
  <2>2. CASE i \in 1 .. m
    BY <2>1, <2>2, <1>10
  <2>3. CASE i \notin 1 .. m
    <3>1. n > PageSize /\ PageSize < i /\ PageSize \in 1 .. n
      BY <2>3, <1>1, <1>4
    <3>2. page.next = r[PageSize] /\ r[PageSize] \in 1 .. Len(stored) /\ Behind(kind, r[i], r[PageSize])
      BY <3>1, <1>4, <1>5, <1>6, <1>10
    <3> QED
      BY <2>1, <3>2
  <2> QED
    BY <2>2, <2>3
<1>16. row.page = page
  BY DEF page
<1>17. DOMAIN page.items = 1 .. m
  BY <1>10
<1>18. PageFits(kind, row, stored)
  <2>1. Len(stored) <= Len(stored)
    BY <1>1
  <2> QED
    BY <2>1, <1>12, <1>13, <1>14, <1>15, <1>16, <1>17, Zenon DEF PageFits
<1> QED
  BY <1>11, <1>18 DEF page

\* What the buttons that are offered tell.
LEMMA OffersTell ==
  ASSUME CommentsTyped
  PROVE  /\ "write" \in Comments!Offers =>
              ~draft.sending /\ (Comments!Mobile /\ Comments!Replies => draft.open)
         /\ "cancel" \in Comments!Offers => ~draft.sending
         /\ "reply" \in Comments!Offers =>
              Comments!Replies /\ (draft.sending => Comments!Mobile /\ ~draft.open)
         /\ "retry" \in Comments!Offers => Comments!Web /\ ~Comments!Replies /\ list.failed
         /\ "more" \in Comments!Offers =>
              /\ list.next # 0 /\ list.busy = "no"
              /\ (Comments!Web /\ ~Comments!Replies) => ~list.failed
         /\ "toggle" \in Comments!Offers =>
              /\ Comments!Replies /\ (Comments!Web => list.busy = "no")
              /\ (Comments!Mobile /\ ~list.known) => list.count > 0
<1>1. client \in {"web", "mobile"} /\ kind \in {"discussion", "replies", "reviews"}
  BY DEF CommentsTyped
<1>2. \A b \in Comments!ListOffers :
        \/ b = "retry" /\ Comments!Web /\ ~Comments!Replies /\ list.failed
        \/ /\ b = "more" /\ list.next # 0 /\ list.busy = "no"
           /\ (Comments!Web /\ ~Comments!Replies) => ~list.failed
        \/ /\ b = "toggle" /\ Comments!Replies /\ (Comments!Web => list.busy = "no")
           /\ (Comments!Mobile /\ ~list.known) => list.count > 0
  BY <1>1 DEF Comments!ListOffers, Comments!Web, Comments!Mobile, Comments!Replies, Comments!WebDiscussionList,
              Comments!WebReviewList, Comments!WebReplyList, Comments!MobileDiscussionList,
              Comments!MobileReviewList, Comments!MobileReplyList
<1>3. \A b \in Comments!FormOffers :
        \/ b = "image"
        \/ /\ b \in {"write", "cancel", "rate"} /\ ~draft.sending
           /\ b = "write" => (Comments!Mobile /\ Comments!Replies => draft.open)
        \/ b = "reply" /\ Comments!Replies /\ (draft.sending => Comments!Mobile /\ ~draft.open)
  BY <1>1 DEF Comments!FormOffers, Comments!Web, Comments!Mobile, Comments!Replies,
              Comments!WebDiscussionForm, Comments!WebReviewForm, Comments!WebReplyForm,
              Comments!MobileDiscussionForm, Comments!MobileReviewForm, Comments!MobileReplyForm
<1>4. \A b \in Comments!Offers : b \in Comments!ListOffers \/ b \in Comments!FormOffers
  BY DEF Comments!Offers
<1> QED
  BY <1>2, <1>3, <1>4

-----------------------------------------------------------------------------
(* The types of the comments are kept.                                     *)

\* What sending a call does to those under way.
LEMMA CallsGrow ==
  ASSUME CommentsTyped, NEW what \in Pagings \union Postings, NEW text \in Nat, NEW cursor \in Nat,
         Comments!Sent(what, text, cursor)
  PROVE  /\ Comments!Call(what, text, cursor) \in CallRow
         /\ calls' \in Seq(CallRow) /\ DOMAIN calls' = 1 .. Len(calls) + 1
         /\ \A i \in DOMAIN calls : i \in DOMAIN calls' /\ i # Len(calls) + 1 /\ calls'[i] = calls[i]
         /\ calls'[Len(calls) + 1] = Comments!Call(what, text, cursor)
         /\ \A i \in DOMAIN calls' : i \in DOMAIN calls \/ i = Len(calls) + 1
<1>1. <<>> \in Seq(Comments!Comment)
  OBVIOUS
<1>2. Comments!Call(what, text, cursor) \in CallRow
  BY <1>1 DEF Comments!Call, CallRow
<1>3. calls \in Seq(CallRow) /\ calls' = Append(calls, Comments!Call(what, text, cursor))
  BY DEF CommentsTyped, Comments!Sent
<1> HIDE DEF CallRow
<1> QED
  BY <1>2, <1>3, Added

\* What the loss or the answer of a call does to the others.
LEMMA CallsShrink ==
  ASSUME CommentsTyped, NEW i \in DOMAIN calls, calls' = Comments!RemoveAt(calls, i)
  PROVE  /\ calls' \in Seq(CallRow)
         /\ \A j \in DOMAIN calls' : /\ Former(i, j) \in DOMAIN calls \ {i}
                                     /\ calls'[j] = calls[Former(i, j)]
         /\ \A j, k \in DOMAIN calls' :
              Former(i, j) = Former(i, k) => j = k
         /\ \A k \in DOMAIN calls : k # i =>
              \E j \in DOMAIN calls' : k = Former(i, j)
<1>1. calls \in Seq(CallRow)
  BY DEF CommentsTyped
<1> HIDE DEF CallRow
<1>2. /\ calls' \in Seq(CallRow) /\ DOMAIN calls' = 1 .. Len(calls) - 1
      /\ \A j \in 1 .. Len(calls) - 1 : /\ Former(i, j) \in DOMAIN calls \ {i}
                                        /\ calls'[j] = calls[Former(i, j)]
      /\ \A k \in DOMAIN calls : k # i =>
           \E j \in 1 .. Len(calls) - 1 : k = Former(i, j)
      /\ \A j, k \in 1 .. Len(calls) - 1 : Former(i, j) = Former(i, k) => j = k
  <2>1. calls' = RemoveAt(calls, i)
    BY SameLists
  <2>2. RemoveAt(calls, i) \in Seq(CallRow) /\ Without(RemoveAt(calls, i), calls, i)
    BY <1>1, Removed
  <2> QED
    BY <2>1, <2>2 DEF Without
<1> QED
  BY <1>2

\* The answer to a post marks the first page under way.
LEMMA CallsOvertaken ==
  ASSUME CommentsTyped, NEW i \in DOMAIN calls, calls' = Comments!Overtaken(i)
  PROVE  /\ calls' \in Seq(CallRow)
         /\ \A j \in DOMAIN calls' : LET k == Former(i, j) IN
              /\ k \in DOMAIN calls \ {i}
              /\ calls'[j] = [calls[k] EXCEPT !.raced = @ \/ calls[k].what = "first"]
         /\ \A j, k \in DOMAIN calls' :
              Former(i, j) = Former(i, k) => j = k
         /\ \A k \in DOMAIN calls : k # i =>
              \E j \in DOMAIN calls' : k = Former(i, j)
<1> DEFINE marked == [j \in DOMAIN calls |->
                        [calls[j] EXCEPT !.raced = @ \/ calls[j].what = "first"]]
<1>1. calls \in Seq(CallRow) /\ Len(calls) \in Nat /\ DOMAIN calls = 1 .. Len(calls)
  BY DEF CommentsTyped
<1>2. marked \in Seq(CallRow) /\ DOMAIN marked = DOMAIN calls /\ Len(marked) = Len(calls)
  <2>1. \A j \in DOMAIN calls : marked[j] \in CallRow
    <3> TAKE j \in DOMAIN calls
    <3>1. calls[j] \in CallRow
      BY <1>1
    <3> QED
      BY <3>1 DEF CallRow
  <2>2. marked \in [1 .. Len(calls) -> CallRow]
    BY <2>1, <1>1
  <2> HIDE DEF marked, CallRow
  <2>3. \A f \in [1 .. Len(calls) -> CallRow] :
          f \in Seq(CallRow) /\ DOMAIN f = 1 .. Len(calls) /\ Len(f) = Len(calls)
    BY <1>1
  <2> QED
    BY <1>1, <2>2, <2>3
<1>3. calls' = RemoveAt(marked, i)
  BY SameLists DEF Comments!Overtaken
<1>4. \A k \in DOMAIN calls : marked[k] = [calls[k] EXCEPT !.raced = @ \/ calls[k].what = "first"]
  OBVIOUS
<1> HIDE DEF marked, CallRow
<1>5. /\ calls' \in Seq(CallRow) /\ DOMAIN calls' = 1 .. Len(calls) - 1
      /\ \A j \in 1 .. Len(calls) - 1 : /\ Former(i, j) \in DOMAIN calls \ {i}
                                        /\ calls'[j] = marked[Former(i, j)]
      /\ \A k \in DOMAIN calls : k # i =>
           \E j \in 1 .. Len(calls) - 1 : k = Former(i, j)
      /\ \A j, k \in 1 .. Len(calls) - 1 : Former(i, j) = Former(i, k) => j = k
  <2>0. marked \in Seq(CallRow)
    BY <1>2
  <2>1. i \in DOMAIN marked
    BY <1>2
  <2>2. RemoveAt(marked, i) \in Seq(CallRow) /\ Without(RemoveAt(marked, i), marked, i)
    BY <2>0, <2>1, Removed
  <2> QED
    BY <1>2, <1>3, <2>2 DEF Without
<1> QED
  BY <1>4, <1>5

\* The rows after a comment was written.
LEMMA RowsWritten ==
  ASSUME CommentsTyped, NEW text \in Nat, stored' = Comments!Written(text)
  PROVE  /\ stored' \in Seq(Comments!Comment) /\ \A i \in DOMAIN stored' : stored'[i].id = i
         /\ Len(stored) <= Len(stored') /\ Comments!OwnPlace \in DOMAIN stored'
         /\ stored'[Comments!OwnPlace].mine /\ stored'[Comments!OwnPlace].text = text
         /\ \A i \in DOMAIN stored : i \in DOMAIN stored' /\ stored'[i].mine = stored[i].mine
         /\ \A i \in DOMAIN stored' : i # Comments!OwnPlace => i \in DOMAIN stored /\ stored'[i] = stored[i]
         /\ ~Comments!Reviews => Comments!OwnPlace = Len(stored) + 1
         /\ Comments!OwnPlace \notin DOMAIN stored => Comments!OwnPlace = Len(stored) + 1
         /\ (Comments!Reviews /\ Comments!OwnRows # {}) => Comments!OwnPlace \in Comments!OwnRows
         /\ DOMAIN stored = 1 .. Len(stored) /\ Len(stored) \in Nat
<1> DEFINE p == Comments!OwnPlace
<1>1. /\ stored \in Seq(Comments!Comment) /\ \A i \in DOMAIN stored : stored[i].id = i
      /\ Len(stored) \in Nat /\ DOMAIN stored = 1 .. Len(stored)
  BY DEF CommentsTyped
<1>2. p \in Comments!OwnRows \/ p = Len(stored) + 1
  BY DEF Comments!OwnPlace
<1>3. ~Comments!Reviews => p = Len(stored) + 1
  BY DEF Comments!OwnPlace
<1>4. (Comments!Reviews /\ Comments!OwnRows # {}) => p \in Comments!OwnRows
  BY DEF Comments!OwnPlace
<1> HIDE DEF p
<1>5. ASSUME p \in DOMAIN stored
      PROVE  /\ stored' \in Seq(Comments!Comment) /\ \A i \in DOMAIN stored' : stored'[i].id = i
             /\ Len(stored) <= Len(stored') /\ p \in DOMAIN stored'
             /\ stored'[p].mine /\ stored'[p].text = text
             /\ \A i \in DOMAIN stored : i \in DOMAIN stored' /\ stored'[i].mine = stored[i].mine
             /\ \A i \in DOMAIN stored' : i # p => i \in DOMAIN stored /\ stored'[i] = stored[i]
             /\ ~Comments!Reviews => p = Len(stored) + 1
             /\ p \notin DOMAIN stored => p = Len(stored) + 1
             /\ (Comments!Reviews /\ Comments!OwnRows # {}) => p \in Comments!OwnRows
  <2>1. stored' = [stored EXCEPT ![p].text = text]
    BY <1>5 DEF Comments!Written, p
  <2>2. stored[p].mine
    BY <1>1, <1>2, <1>5 DEF Comments!OwnRows
  <2>3. \A i \in DOMAIN stored : stored[i] \in Comments!Comment
    BY <1>1
  <2>4. DOMAIN stored' = DOMAIN stored /\ \A i \in DOMAIN stored : i # p => stored'[i] = stored[i]
    BY <2>1
  <2>5. stored'[p] = [stored[p] EXCEPT !.text = text] /\ stored[p] \in Comments!Comment
    BY <1>5, <2>1, <2>3
  <2>6. stored'[p] \in Comments!Comment /\ stored'[p].mine /\ stored'[p].text = text /\ stored'[p].id = p
    BY <1>1, <1>5, <2>2, <2>5 DEF Comments!Comment
  <2>7. stored' \in [1 .. Len(stored) -> Comments!Comment]
    <3>1. \A i \in 1 .. Len(stored) : stored'[i] \in Comments!Comment
      BY <1>1, <2>3, <2>4, <2>6
    <3> QED
      BY <1>1, <2>1, <3>1
  <2>8. stored' \in Seq(Comments!Comment) /\ Len(stored') = Len(stored)
    BY <1>1, <2>7
  <2> QED
    <3>1. \A i \in DOMAIN stored' : stored'[i].id = i
      BY <1>1, <2>4, <2>6
    <3>2. \A i \in DOMAIN stored : i \in DOMAIN stored' /\ stored'[i].mine = stored[i].mine
      BY <1>5, <2>2, <2>3, <2>4, <2>6 DEF Comments!Comment
    <3>3. Len(stored) <= Len(stored')
      BY <1>1, <2>8
    <3> QED
      BY <1>3, <1>4, <1>5, <2>4, <2>6, <2>8, <3>1, <3>2, <3>3
<1>6. ASSUME p \notin DOMAIN stored
      PROVE  /\ stored' \in Seq(Comments!Comment) /\ \A i \in DOMAIN stored' : stored'[i].id = i
             /\ Len(stored) <= Len(stored') /\ p \in DOMAIN stored'
             /\ stored'[p].mine /\ stored'[p].text = text
             /\ \A i \in DOMAIN stored : i \in DOMAIN stored' /\ stored'[i].mine = stored[i].mine
             /\ \A i \in DOMAIN stored' : i # p => i \in DOMAIN stored /\ stored'[i] = stored[i]
             /\ ~Comments!Reviews => p = Len(stored) + 1
             /\ p \notin DOMAIN stored => p = Len(stored) + 1
             /\ (Comments!Reviews /\ Comments!OwnRows # {}) => p \in Comments!OwnRows
  <2>1. p = Len(stored) + 1
    BY <1>2, <1>6 DEF Comments!OwnRows
  <2>2. stored' = Append(stored, Comments!Own(p, text)) /\ Comments!Own(p, text) \in Comments!Comment
    BY <1>1, <1>6, <2>1 DEF Comments!Written, Comments!Own, Comments!Comment, p
  <2>3. /\ stored' \in Seq(Comments!Comment) /\ DOMAIN stored' = 1 .. Len(stored) + 1
        /\ \A j \in DOMAIN stored : j \in 1 .. Len(stored) + 1 /\ j # Len(stored) + 1
                                    /\ stored'[j] = stored[j]
        /\ stored'[p] = Comments!Own(p, text)
        /\ \A j \in DOMAIN stored' : j \in DOMAIN stored \/ j = Len(stored) + 1
    BY <1>1, <2>1, <2>2, Added
  <2>4. Len(stored') = Len(stored) + 1
    BY <1>1, <2>3
  <2>5. stored'[p].mine /\ stored'[p].text = text /\ stored'[p].id = p
    BY <2>3 DEF Comments!Own
  <2> QED
    BY <1>1, <1>3, <1>4, <2>1, <2>3, <2>4, <2>5
<1> QED
  BY <1>1, <1>5, <1>6 DEF p

\* A list with one more at the front.
LEMMA Fronted ==
  ASSUME NEW S, NEW s \in Seq(S), NEW c \in S
  PROVE  /\ <<c>> \o s \in Seq(S) /\ DOMAIN (<<c>> \o s) = 1 .. Len(s) + 1
         /\ (<<c>> \o s)[1] = c
         /\ \A j \in 1 .. Len(s) : (<<c>> \o s)[j + 1] = s[j]
<1>1. <<c>> \in Seq(S) /\ Len(<<c>>) = 1 /\ <<c>>[1] = c /\ Len(s) \in Nat
  OBVIOUS
<1>2. /\ <<c>> \o s \in Seq(S) /\ Len(<<c>> \o s) = 1 + Len(s)
      /\ \A i \in 1 .. 1 + Len(s) : (<<c>> \o s)[i] = IF i <= 1 THEN <<c>>[i] ELSE s[i - 1]
  BY <1>1, ConcatProperties
<1>3. \A j \in 1 .. Len(s) : (<<c>> \o s)[j + 1] = s[j]
  BY <1>1, <1>2
<1> QED
  BY <1>1, <1>2, <1>3

\* The comments of others that stay when the own review moves to the front.
Others(l, id) == {k \in DOMAIN l.shown : l.shown[k].id # id}

\* What is shown after an own comment was answered, each way it is put in.
LEMMA ShownIs ==
  ASSUME CommentsTyped, NEW c \in Comments!Comment
  PROVE  /\ Comments!Shown(c) \in Seq(Comments!Comment)
         /\ kind = "discussion" => Comments!Shown(c) = <<c>> \o list.shown
         /\ kind = "replies" => Comments!Shown(c) = Append(list.shown, c)
         /\ (kind = "reviews" /\ client = "web") =>
              /\ Kept(list.shown, Others(list, c.id)) \in Seq(Comments!Comment)
              /\ Comments!Shown(c) = <<c>> \o Kept(list.shown, Others(list, c.id))
         /\ (kind = "reviews" /\ client # "web" /\ \E k \in DOMAIN list.shown : list.shown[k].mine) =>
              /\ DOMAIN Comments!Shown(c) = DOMAIN list.shown
              /\ \A k \in DOMAIN list.shown :
                   Comments!Shown(c)[k] = IF list.shown[k].mine THEN c ELSE list.shown[k]
         /\ (kind = "reviews" /\ client # "web" /\ ~\E k \in DOMAIN list.shown : list.shown[k].mine) =>
              Comments!Shown(c) = <<c>> \o list.shown
<1> DEFINE C == Comments!Comment
<1>1. list.shown \in Seq(C) /\ kind \in {"discussion", "replies", "reviews"}
  BY DEF CommentsTyped, ListRow
<1> HIDE DEF C
<1>0. c \in C
  BY DEF C
<1>2. CASE kind = "discussion"
  <2>1. Comments!Shown(c) = <<c>> \o list.shown
    BY <1>2 DEF Comments!Shown, Comments!Discussed
  <2> QED
    BY <1>0, <1>1, <1>2, <2>1, Fronted DEF C
<1>3. CASE kind = "replies"
  <2>1. Comments!Shown(c) = Append(list.shown, c)
    BY <1>3 DEF Comments!Shown, Comments!Replied
  <2> QED
    BY <1>0, <1>1, <1>3, <2>1, Added DEF C
<1>4. CASE kind = "reviews" /\ client = "web"
  <2> DEFINE kept1 == Kept(list.shown, Others(list, c.id))
  <2>1. Comments!Shown(c) = <<c>> \o kept1
    BY <1>4, SameLists DEF Comments!Shown, Comments!WebReviewed, Comments!Web, Others
  <2>2. kept1 \in Seq(C)
    <3>1. Others(list, c.id) \in SUBSET DOMAIN list.shown
      BY DEF Others
    <3> QED
      BY <1>1, <3>1, KeptIs
  <2> HIDE DEF kept1
  <2>3. <<c>> \o kept1 \in Seq(C)
    BY <1>0, <2>2, Fronted
  <2> QED
    BY <1>4, <2>1, <2>2, <2>3 DEF C, kept1
<1>5. CASE kind = "reviews" /\ client # "web"
  <2>1. Comments!Shown(c) = Comments!MobileReviewed(c)
    BY <1>5 DEF Comments!Shown, Comments!Web
  <2>2. CASE \E k \in DOMAIN list.shown : list.shown[k].mine
    <3>1. Comments!Shown(c) =
            [k \in DOMAIN list.shown |-> IF list.shown[k].mine THEN c ELSE list.shown[k]]
      BY <2>1, <2>2 DEF Comments!MobileReviewed
    <3>2. DOMAIN list.shown = 1 .. Len(list.shown) /\ Len(list.shown) \in Nat
          /\ \A k \in DOMAIN list.shown : list.shown[k] \in C
      BY <1>1
    <3>3. Comments!Shown(c) \in [1 .. Len(list.shown) -> C]
      BY <1>0, <3>1, <3>2
    <3>4. Comments!Shown(c) \in Seq(C)
      BY <3>2, <3>3
    <3> QED
      BY <1>5, <2>2, <3>1, <3>4 DEF C
  <2>3. CASE ~\E k \in DOMAIN list.shown : list.shown[k].mine
    <3>1. Comments!Shown(c) = <<c>> \o list.shown
      BY <2>1, <2>3 DEF Comments!MobileReviewed
    <3>2. <<c>> \o list.shown \in Seq(C)
      BY <1>0, <1>1, Fronted
    <3> QED
      BY <1>5, <2>3, <3>1, <3>2 DEF C
  <2> QED
    BY <2>2, <2>3
<1> QED
  BY <1>1, <1>2, <1>3, <1>4, <1>5

\* What a list becomes by an answer or a loss has the type of a list.
LEMMA ListsTyped ==
  ASSUME CommentsTyped
  PROVE  /\ \A c \in CallRow : /\ Comments!FirstPage(c) \in ListRow /\ Comments!LaterPage(c) \in ListRow
                               /\ Comments!Unpaged(c) \in ListRow
         /\ \A c \in Comments!Comment : Comments!Posted(c) \in ListRow
<1>1. list \in ListRow
  BY DEF CommentsTyped
<1>2. ASSUME NEW c \in CallRow
      PROVE  /\ Comments!FirstPage(c) \in ListRow /\ Comments!LaterPage(c) \in ListRow
             /\ Comments!Unpaged(c) \in ListRow
  <2>1. /\ c.page.items \in Seq(Comments!Comment) /\ c.page.next \in Nat /\ c.horizon \in Nat
        /\ c.raced \in BOOLEAN
    BY DEF CallRow
  <2>2. Comments!FirstPage(c) \in ListRow
    BY <1>1, <2>1 DEF Comments!FirstPage, ListRow, Pagings
  <2>3. list.shown \o c.page.items \in Seq(Comments!Comment)
    <3>1. list.shown \in Seq(Comments!Comment)
      BY <1>1 DEF ListRow
    <3> QED
      BY <2>1, <3>1, ConcatProperties
  <2>4. Comments!LaterPage(c) \in ListRow
    BY <1>1, <2>1, <2>3 DEF Comments!LaterPage, ListRow, Pagings
  <2>5. <<>> \in Seq(Comments!Comment)
    OBVIOUS
  <2>6. Comments!Unpaged(c) \in ListRow
    BY <1>1, <2>1, <2>5 DEF Comments!Unpaged, ListRow, Pagings
  <2> QED
    BY <2>2, <2>4, <2>6
<1>3. ASSUME NEW c \in Comments!Comment
      PROVE  Comments!Posted(c) \in ListRow
  <2>1. Comments!Shown(c) \in Seq(Comments!Comment) /\ c.id \in Nat
    BY ShownIs DEF Comments!Comment
  <2>2. list.own \union {c.id} \in SUBSET Nat /\ list.count + 1 \in Nat
    BY <1>1, <2>1 DEF ListRow
  <2> QED
    BY <1>1, <2>1, <2>2 DEF Comments!Posted, ListRow, Pagings
<1> QED
  BY <1>2, <1>3

\* The calls are of their types, and no page is refused.
CallsTyped(cs) == cs \in Seq(CallRow) /\ \A i \in DOMAIN cs : cs[i].what \in Pagings => cs[i].done # "refused"

\* A call that is sent is one more of their types.
LEMMA SentTyped ==
  ASSUME CommentsTyped, NEW what \in Pagings \union Postings, NEW text \in Nat, NEW cursor \in Nat,
         Comments!Sent(what, text, cursor)
  PROVE  CallsTyped(calls')
<1>1. \A i \in DOMAIN calls : calls[i].what \in Pagings => calls[i].done # "refused"
  BY DEF CommentsTyped
<1>2. Comments!Call(what, text, cursor).done # "refused"
  BY DEF Comments!Call
<1> QED
  BY <1>1, <1>2, CallsGrow DEF CallsTyped

\* An answer takes a call away or marks the others as overtaken, and leaves the types.
LEMMA AnsweredTyped ==
  ASSUME CommentsTyped, NEW i \in DOMAIN calls,
         calls' = Comments!RemoveAt(calls, i) \/ calls' = Comments!Overtaken(i)
  PROVE  CallsTyped(calls')
<1>1. /\ \A j \in DOMAIN calls : calls[j].what \in Pagings => calls[j].done # "refused"
      /\ \A j \in DOMAIN calls : calls[j] \in CallRow
  BY DEF CommentsTyped
<1>2. CASE calls' = Comments!RemoveAt(calls, i)
  BY <1>1, <1>2, CallsShrink DEF CallsTyped
<1>3. CASE calls' = Comments!Overtaken(i)
  <2>1. calls' \in Seq(CallRow)
    BY <1>3, CallsOvertaken
  <2>2. \A j \in DOMAIN calls' : calls'[j].what \in Pagings => calls'[j].done # "refused"
    <3> TAKE j \in DOMAIN calls'
    <3>1. /\ Former(i, j) \in DOMAIN calls
          /\ calls'[j] = [calls[Former(i, j)] EXCEPT
               !.raced = @ \/ calls[Former(i, j)].what = "first"]
      BY <1>3, CallsOvertaken
    <3>2. calls[Former(i, j)] \in CallRow
      BY <1>1, <3>1
    <3>3. calls'[j].what = calls[Former(i, j)].what /\ calls'[j].done = calls[Former(i, j)].done
      BY <3>1, <3>2 DEF CallRow
    <3> QED
      BY <1>1, <3>1, <3>3
  <2> QED
    BY <2>1, <2>2 DEF CallsTyped
<1> QED
  BY <1>2, <1>3

\* One call changes.
LEMMA ChangedTyped ==
  ASSUME CommentsTyped, NEW i \in DOMAIN calls, NEW c \in CallRow,
         c.what \in Pagings => c.done # "refused", calls' = [calls EXCEPT ![i] = c]
  PROVE  /\ CallsTyped(calls') /\ DOMAIN calls' = DOMAIN calls /\ calls'[i] = c
         /\ \A j \in DOMAIN calls : j # i => calls'[j] = calls[j]
<1>1. calls \in Seq(CallRow)
      /\ \A j \in DOMAIN calls : calls[j].what \in Pagings => calls[j].done # "refused"
  BY DEF CommentsTyped
<1> HIDE DEF CallRow
<1>2. /\ calls' \in Seq(CallRow) /\ DOMAIN calls' = DOMAIN calls /\ calls'[i] = c
      /\ \A j \in DOMAIN calls : j # i => calls'[j] = calls[j]
  BY <1>1
<1> QED
  BY <1>1, <1>2 DEF CallsTyped

\* Every step keeps the types.
LEMMA TypesKept ==
  ASSUME PanelsAssumption, CommentsTyped, Comments!Next
  PROVE  CommentsTyped'
<1>0. /\ client \in {"web", "mobile"} /\ kind \in {"discussion", "replies", "reviews"}
      /\ stored \in Seq(Comments!Comment) /\ \A i \in DOMAIN stored : stored[i].id = i
      /\ CallsTyped(calls) /\ list \in ListRow /\ draft \in DraftRow
      /\ abandoned \subseteq Nat /\ inputs \in Nat /\ lost \in Nat
      /\ inputs <= MaxInput /\ lost <= MaxLost /\ MaxInput \in Nat /\ MaxLost \in Nat
  BY DEF CommentsTyped, CallsTyped, PanelsAssumption
<1>1. SUFFICES /\ client' = client /\ kind' = kind
               /\ stored' \in Seq(Comments!Comment) /\ \A i \in DOMAIN stored' : stored'[i].id = i
               /\ CallsTyped(calls') /\ list' \in ListRow /\ draft' \in DraftRow
               /\ abandoned' \subseteq Nat /\ inputs' \in Nat /\ lost' \in Nat
               /\ inputs' <= MaxInput /\ lost' <= MaxLost
  BY <1>0 DEF CommentsTyped, CallsTyped
<1>2. \A what : Comments!Input(what) =>
        /\ client' = client /\ kind' = kind /\ stored' = stored /\ abandoned' = abandoned /\ lost' = lost
        /\ inputs' \in Nat /\ inputs' <= MaxInput
  BY <1>0 DEF Comments!Input, Comments!Touch, Comments!setting
<1>3. list.next \in Nat /\ draft.text \in Nat
  BY <1>0 DEF ListRow, DraftRow
<1>4. Comments!NoDraft \in DraftRow
  BY DEF Comments!NoDraft, DraftRow
<1>4a. Comments!Cleared \in DraftRow /\ Comments!Refused \in DraftRow
  <2>1. Comments!Anew \in DraftRow
    BY <1>0 DEF Comments!Anew, Comments!NoDraft, DraftRow
  <2>2. [draft EXCEPT !.sending = FALSE] \in DraftRow
    BY <1>0 DEF DraftRow
  <2> QED
    BY <1>4, <2>1, <2>2 DEF Comments!Cleared, Comments!Refused
<1>5. CASE Comments!Retry
  <2>1. list' \in ListRow
    BY <1>0, <1>5 DEF Comments!Retry, ListRow, Pagings
  <2>2. CallsTyped(calls')
    BY <1>5, SentTyped DEF Comments!Retry, Pagings
  <2> QED
    BY <1>0, <1>2, <1>5, <2>1, <2>2 DEF Comments!Retry
<1>6. CASE Comments!LoadMore
  <2>1. list' \in ListRow
    BY <1>0, <1>6 DEF Comments!LoadMore, ListRow, Pagings
  <2>2. CallsTyped(calls')
    BY <1>3, <1>6, SentTyped DEF Comments!LoadMore, Pagings
  <2> QED
    BY <1>0, <1>2, <1>6, <2>1, <2>2 DEF Comments!LoadMore
<1>7. CASE Comments!ToggleReplies
  <2>1. list' \in ListRow /\ (calls' = calls \/ Comments!Sent("first", 0, 0))
    <3>1. Comments!WebFolded \/ Comments!MobileFolded
      BY <1>7 DEF Comments!ToggleReplies
    <3>2. \/ list' = [list EXCEPT !.open = ~@] /\ calls' = calls
          \/ list' = [list EXCEPT !.busy = "first"] /\ Comments!Sent("first", 0, 0)
          \/ /\ list' = [list EXCEPT !.open = TRUE, !.known = TRUE, !.busy = "first"]
             /\ Comments!Sent("first", 0, 0)
      BY <3>1, Zenon DEF Comments!WebFolded, Comments!MobileFolded
    <3>3. list' \in ListRow
      BY <1>0, <3>2 DEF ListRow, Pagings
    <3> QED
      BY <3>2, <3>3
  <2>2. CallsTyped(calls')
    BY <1>0, <2>1, SentTyped DEF Pagings
  <2> QED
    BY <1>0, <1>2, <1>7, <2>1, <2>2 DEF Comments!ToggleReplies
<1>8. CASE Comments!OpenReply
  <2>1. draft' \in DraftRow
    BY <1>0, <1>8 DEF Comments!OpenReply, DraftRow
  <2> QED
    BY <1>0, <1>2, <1>8, <2>1 DEF Comments!OpenReply
<1>9. CASE Comments!CancelReply
  BY <1>0, <1>2, <1>4, <1>9 DEF Comments!CancelReply
<1>10. CASE Comments!Write
  <2>1. inputs' \in Nat
    BY <1>2, <1>10 DEF Comments!Write
  <2>2. draft' \in DraftRow
    BY <1>0, <1>10, <2>1 DEF Comments!Write, DraftRow
  <2> QED
    BY <1>0, <1>2, <1>10, <2>2 DEF Comments!Write
<1>11. CASE Comments!Rate
  <2>1. draft' \in DraftRow
    BY <1>0, <1>11 DEF Comments!Rate, DraftRow
  <2> QED
    BY <1>0, <1>11, <2>1 DEF Comments!Rate, Comments!Touch, Comments!setting
<1>12. CASE Comments!ChooseImage
  <2>1. draft' \in DraftRow
    BY <1>0, <1>12 DEF Comments!ChooseImage, DraftRow
  <2> QED
    BY <1>0, <1>12, <2>1 DEF Comments!ChooseImage, Comments!Touch, Comments!setting
<1>12a. CASE Comments!ChangeTabs
  <2>1. \/ draft' = Comments!NoDraft
        \/ draft' = [Comments!NoDraft EXCEPT !.text = draft.text, !.sending = TRUE, !.left = TRUE]
    BY <1>12a DEF Comments!ChangeTabs
  <2>2. draft' \in DraftRow
    BY <1>3, <1>4, <2>1 DEF Comments!NoDraft, DraftRow
  <2>3. inputs' \in Nat /\ inputs' <= MaxInput
    BY <1>0, <1>12a DEF Comments!ChangeTabs
  <2> QED
    BY <1>0, <1>12a, <2>2, <2>3 DEF Comments!ChangeTabs, Comments!setting
<1>13. CASE Comments!Submit
  <2>1. draft' \in DraftRow
    BY <1>0, <1>13 DEF Comments!Submit, DraftRow
  <2>2. \E what \in Postings : Comments!Sent(what, draft.text, 0)
    BY <1>13 DEF Comments!Submit, Postings
  <2>3. CallsTyped(calls')
    BY <1>3, <2>2, SentTyped
  <2> QED
    BY <1>0, <1>2, <1>13, <2>1, <2>3 DEF Comments!Submit
<1>14. ASSUME NEW i \in DOMAIN calls, Comments!Execute(i)
       PROVE  /\ client' = client /\ kind' = kind /\ list' = list /\ draft' = draft
              /\ abandoned' = abandoned /\ inputs' = inputs /\ lost' = lost
              /\ stored' \in Seq(Comments!Comment) /\ \A k \in DOMAIN stored' : stored'[k].id = k
              /\ CallsTyped(calls')
  <2> DEFINE c == calls[i]
  <2>0. c \in CallRow /\ c.text \in Nat /\ c.cursor \in Nat
        /\ c.what \in {"first", "more", "upload", "post"}
    <3>1. c \in CallRow
      BY <1>0 DEF CallsTyped
    <3> HIDE DEF c
    <3> QED
      BY <3>1 DEF CallRow, Pagings, Postings
  <2>1. CASE c.what \in {"first", "more"}
    <3> DEFINE d == [c EXCEPT !.done = "yes", !.page = Comments!PageAfter(c.cursor),
                              !.horizon = Len(stored)]
               row == [cursor |-> c.cursor, page |-> Comments!PageAfter(c.cursor),
                       horizon |-> Len(stored)]
    <3>1. calls' = [calls EXCEPT ![i] = d] /\ stored' = stored
      BY <1>14, <2>1 DEF Comments!Execute
    <3>2. Comments!PageAfter(c.cursor) \in [items : Seq(Comments!Comment), next : Nat]
      <4>1. row.cursor = c.cursor /\ row.page = Comments!PageAfter(c.cursor) /\ row.horizon = Len(stored)
        OBVIOUS
      <4> HIDE DEF row, c
      <4> QED
        BY <2>0, <4>1, PageIs
    <3>3. Len(stored) \in Nat
      BY <1>0
    <3>4. d \in CallRow /\ d.done = "yes"
      BY <2>0, <3>2, <3>3 DEF CallRow
    <3> HIDE DEF d
    <3>5. CallsTyped(calls')
      BY <3>1, <3>4, ChangedTyped
    <3> QED
      BY <1>0, <1>14, <3>1, <3>5 DEF Comments!Execute, Comments!setting
  <2>2. CASE c.what = "upload"
    <3> DEFINE d == [c EXCEPT !.done = "yes"]
    <3>1. calls' = [calls EXCEPT ![i] = d] /\ stored' = stored
      BY <1>14, <2>2 DEF Comments!Execute
    <3>2. d \in CallRow /\ d.done = "yes"
      BY <2>0 DEF CallRow
    <3> HIDE DEF d
    <3>3. CallsTyped(calls')
      BY <3>1, <3>2, ChangedTyped
    <3> QED
      BY <1>0, <1>14, <3>1, <3>3 DEF Comments!Execute, Comments!setting
  <2>3. CASE c.what = "post" /\ Comments!Accepts
    <3> DEFINE d == [c EXCEPT !.done = "yes", !.id = Comments!OwnPlace]
    <3>1. calls' = [calls EXCEPT ![i] = d] /\ stored' = Comments!Written(c.text)
      BY <1>14, <2>3 DEF Comments!Execute
    <3>2. /\ stored' \in Seq(Comments!Comment) /\ \A k \in DOMAIN stored' : stored'[k].id = k
          /\ Comments!OwnPlace \in DOMAIN stored'
      BY <2>0, <3>1, RowsWritten
    <3>3. Comments!OwnPlace \in Nat
      BY <3>2
    <3>4. d \in CallRow /\ d.done = "yes"
      BY <2>0, <3>3 DEF CallRow
    <3> HIDE DEF d
    <3>5. CallsTyped(calls')
      BY <3>1, <3>4, ChangedTyped
    <3> QED
      BY <1>14, <3>2, <3>5 DEF Comments!Execute, Comments!setting
  <2>4. CASE c.what = "post" /\ ~Comments!Accepts
    <3> DEFINE d == [c EXCEPT !.done = "refused"]
    <3>1. calls' = [calls EXCEPT ![i] = d] /\ stored' = stored
      BY <1>14, <2>4 DEF Comments!Execute
    <3>2. d \in CallRow /\ d.what = "post"
      BY <2>0, <2>4 DEF CallRow
    <3>3. "post" \notin Pagings
      BY DEF Pagings
    <3> HIDE DEF d
    <3>4. CallsTyped(calls')
      BY <3>1, <3>2, <3>3, ChangedTyped
    <3> QED
      BY <1>0, <1>14, <3>1, <3>4 DEF Comments!Execute, Comments!setting
  <2> QED
    BY <2>0, <2>1, <2>2, <2>3, <2>4
<1>15. ASSUME NEW i \in DOMAIN calls, Comments!Answer(i)
       PROVE  /\ client' = client /\ kind' = kind /\ stored' = stored /\ abandoned' = abandoned
              /\ inputs' = inputs /\ lost' = lost
              /\ CallsTyped(calls') /\ list' \in ListRow /\ draft' \in DraftRow
  <2> DEFINE c == calls[i]
  <2>0. c \in CallRow /\ c.text \in Nat /\ c.id \in Nat
        /\ c.what \in {"first", "more", "upload", "post"} /\ c.done \in {"no", "yes", "refused"}
    <3>1. c \in CallRow
      BY <1>0 DEF CallsTyped
    <3> HIDE DEF c
    <3> QED
      BY <3>1 DEF CallRow, Pagings, Postings
  <2>1. CASE c.what \in {"first", "more"}
    <3>1. list' = Comments!Paged(c) /\ calls' = Comments!RemoveAt(calls, i) /\ draft' = draft
      BY <1>15, <2>1 DEF Comments!Answer
    <3>2. list' \in ListRow
      BY <2>0, <3>1, ListsTyped DEF Comments!Paged
    <3> QED
      BY <1>0, <1>15, <3>1, <3>2, AnsweredTyped DEF Comments!Answer, Comments!setting
  <2>2. CASE c.what = "upload"
    <3> DEFINE d == Comments!Call("post", c.text, 0)
    <3>1. calls' = [calls EXCEPT ![i] = d] /\ list' = list /\ draft' = draft
      BY <1>15, <2>2 DEF Comments!Answer
    <3>2. <<>> \in Seq(Comments!Comment)
      OBVIOUS
    <3>3. d \in CallRow /\ d.done = "no"
      BY <2>0, <3>2 DEF CallRow, Comments!Call, Postings
    <3> HIDE DEF d
    <3>4. CallsTyped(calls')
      BY <3>1, <3>3, ChangedTyped
    <3> QED
      BY <1>0, <1>15, <3>1, <3>4 DEF Comments!Answer, Comments!setting
  <2>3. CASE c.what = "post" /\ c.done = "yes"
    <3>1. /\ list' = Comments!Posted(Comments!Own(c.id, c.text)) /\ draft' = Comments!Cleared
          /\ calls' = Comments!Overtaken(i)
      BY <1>15, <2>3 DEF Comments!Answer
    <3>2. Comments!Own(c.id, c.text) \in Comments!Comment
      BY <2>0 DEF Comments!Own, Comments!Comment
    <3>3. list' \in ListRow
      BY <3>1, <3>2, ListsTyped
    <3> QED
      BY <1>4a, <1>15, <3>1, <3>3, AnsweredTyped DEF Comments!Answer, Comments!setting
  <2>4. CASE c.what = "post" /\ c.done = "refused"
    <3>1. list' = list /\ draft' = Comments!Refused /\ calls' = Comments!RemoveAt(calls, i)
      BY <1>15, <2>4 DEF Comments!Answer
    <3>2. draft' \in DraftRow
      BY <1>4a, <3>1
    <3> QED
      BY <1>0, <1>15, <3>1, <3>2, AnsweredTyped DEF Comments!Answer, Comments!setting
  <2>5. c.done # "no"
    BY <1>15 DEF Comments!Answer
  <2> QED
    BY <2>0, <2>1, <2>2, <2>3, <2>4, <2>5
<1>16. ASSUME NEW i \in DOMAIN calls, Comments!Lose(i)
       PROVE  /\ client' = client /\ kind' = kind /\ stored' = stored /\ abandoned' = abandoned
              /\ inputs' = inputs /\ lost' \in Nat /\ lost' <= MaxLost
              /\ CallsTyped(calls') /\ list' \in ListRow /\ draft' \in DraftRow
  <2>0. calls[i] \in CallRow
    BY <1>0 DEF CallsTyped
  <2>1. calls' = Comments!RemoveAt(calls, i)
    BY <1>16 DEF Comments!Lose
  <2>2. draft' \in DraftRow
    BY <1>0, <1>4a, <1>16 DEF Comments!Lose
  <2>3. list' = list \/ list' = Comments!Unpaged(calls[i])
    BY <1>16 DEF Comments!Lose
  <2>4. list' \in ListRow
    BY <1>0, <2>0, <2>3, ListsTyped
  <2>5. CallsTyped(calls')
    BY <2>1, AnsweredTyped
  <2> QED
    BY <1>0, <1>16, <2>2, <2>4, <2>5 DEF Comments!Lose, Comments!setting
<1>17. ASSUME NEW text \in abandoned, Comments!PostAbandoned(text)
       PROVE  /\ client' = client /\ kind' = kind /\ list' = list /\ draft' = draft
              /\ abandoned' \subseteq Nat /\ inputs' = inputs /\ lost' = lost
              /\ stored' \in Seq(Comments!Comment) /\ \A k \in DOMAIN stored' : stored'[k].id = k
              /\ CallsTyped(calls')
  <2>0. abandoned' \subseteq Nat /\ text \in Nat
    BY <1>0, <1>17 DEF Comments!PostAbandoned
  <2>1. CASE Comments!Accepts
    <3>1. /\ stored' = Comments!Written(text)
          /\ calls' = [i \in DOMAIN calls |->
                        [calls[i] EXCEPT !.raced = @ \/ (Comments!Reviews /\ calls[i].what = "post"
                                                              /\ calls[i].done = "yes")]]
      BY <1>17, <2>1 DEF Comments!PostAbandoned
    <3>2. stored' \in Seq(Comments!Comment) /\ \A k \in DOMAIN stored' : stored'[k].id = k
      BY <2>0, <3>1, RowsWritten
    <3>3. DOMAIN calls = 1 .. Len(calls) /\ Len(calls) \in Nat
          /\ \A i \in DOMAIN calls : calls[i] \in CallRow
      BY <1>0 DEF CallsTyped
    <3>4. \A i \in DOMAIN calls : calls'[i] \in CallRow /\ calls'[i].what = calls[i].what
                                  /\ calls'[i].done = calls[i].done
      <4> TAKE i \in DOMAIN calls
      <4>1. calls[i] \in CallRow
        BY <3>3
      <4> QED
        BY <3>1, <4>1 DEF CallRow
    <3>5. calls' \in [1 .. Len(calls) -> CallRow]
      <4>1. \A i \in 1 .. Len(calls) : calls'[i] \in CallRow
        BY <3>3, <3>4
      <4> HIDE DEF CallRow
      <4> QED
        BY <3>1, <3>3, <4>1
    <3>6. calls' \in Seq(CallRow) /\ DOMAIN calls' = DOMAIN calls
      <4> HIDE DEF CallRow
      <4> QED
        BY <3>3, <3>5
    <3>7. CallsTyped(calls')
      BY <1>0, <3>4, <3>6 DEF CallsTyped
    <3> QED
      BY <1>17, <2>0, <3>2, <3>7 DEF Comments!PostAbandoned, Comments!setting
  <2>2. CASE ~Comments!Accepts
    <3>1. stored' = stored /\ calls' = calls
      BY <1>17, <2>2 DEF Comments!PostAbandoned
    <3> QED
      BY <1>0, <1>17, <2>0, <3>1 DEF Comments!PostAbandoned, Comments!setting
  <2> QED
    BY <2>1, <2>2
<1>18. CASE Comments!Refetch
  <2>1. /\ client' = client /\ kind' = kind /\ stored' = stored /\ lost' = lost
        /\ inputs' \in Nat /\ inputs' <= MaxInput
    BY <1>0, <1>18 DEF Comments!Refetch, Comments!setting
  <2>2. CASE Comments!Web
    <3>1. Len(stored) \in Nat /\ <<>> \in Seq(Comments!Comment)
      BY <1>0
    <3>2. list' = Comments!Opened(Len(stored)) /\ draft' = Comments!NoDraft
          /\ calls' = (IF Comments!Replies THEN <<>> ELSE <<Comments!Call("first", 0, 0)>>)
          /\ abandoned' = abandoned \union Comments!Unposted
      BY <1>18, <2>2 DEF Comments!Refetch
    <3>3. list' \in ListRow
      BY <3>1, <3>2 DEF Comments!Opened, Comments!NoList, ListRow, Pagings
    <3>4. Comments!Call("first", 0, 0) \in CallRow /\ Comments!Call("first", 0, 0).done = "no"
      BY <3>1 DEF Comments!Call, CallRow, Pagings
    <3>5. CallsTyped(<<>>)
      BY DEF CallsTyped
    <3>6. CallsTyped(<<Comments!Call("first", 0, 0)>>)
      <4> HIDE DEF CallRow
      <4> QED
        BY <3>4 DEF CallsTyped
    <3>7. Comments!Unposted \subseteq Nat
      <4>1. \A i \in DOMAIN calls : calls[i].text \in Nat
        <5>1. \A i \in DOMAIN calls : calls[i] \in CallRow
          BY <1>0 DEF CallsTyped
        <5>2. \A c \in CallRow : c.text \in Nat
          BY DEF CallRow
        <5> HIDE DEF CallRow
        <5> QED
          BY <5>1, <5>2
      <4> QED
        BY <4>1 DEF Comments!Unposted
    <3> QED
      BY <1>0, <1>4, <2>1, <3>2, <3>3, <3>5, <3>6, <3>7
  <2>3. CASE ~Comments!Web
    <3>1. UNCHANGED <<list, draft, calls, abandoned>>
      BY <1>18, <2>3 DEF Comments!Refetch
    <3> QED
      BY <1>0, <2>1, <3>1
  <2> QED
    BY <2>2, <2>3
<1>19. CASE Comments!OthersWrite
  <2> DEFINE c == [id |-> Len(stored) + 1, mine |-> FALSE, text |-> 0]
  <2>1. stored' = Append(stored, c) /\ c \in Comments!Comment
    BY <1>0, <1>19 DEF Comments!OthersWrite, Comments!Comment
  <2>2. c.id = Len(stored) + 1
    OBVIOUS
  <2> HIDE DEF c
  <2>3. stored' \in Seq(Comments!Comment) /\ \A k \in DOMAIN stored' : stored'[k].id = k
    BY <1>0, <2>1, <2>2, Added
  <2> QED
    BY <1>0, <1>19, <2>3 DEF Comments!OthersWrite, Comments!setting
<1>20. CASE Comments!EventMovesOn
  BY <1>0, <1>20 DEF Comments!EventMovesOn, Comments!setting
<1>21. CASE \E i \in DOMAIN calls : Comments!Execute(i) \/ Comments!Answer(i) \/ Comments!Lose(i)
  <2>1. PICK i \in DOMAIN calls : Comments!Execute(i) \/ Comments!Answer(i) \/ Comments!Lose(i)
    BY <1>21
  <2>2. CASE Comments!Execute(i)
    BY <1>0, <2>2, <1>14
  <2>3. CASE Comments!Answer(i)
    BY <1>0, <2>3, <1>15
  <2>4. CASE Comments!Lose(i)
    BY <1>0, <2>4, <1>16
  <2> QED
    BY <2>1, <2>2, <2>3, <2>4
<1>22. CASE \E text \in abandoned : Comments!PostAbandoned(text)
  BY <1>0, <1>17, <1>22
<1> QED
  BY <1>5, <1>6, <1>7, <1>8, <1>9, <1>10, <1>11, <1>12, <1>12a, <1>13, <1>18, <1>19, <1>20, <1>21, <1>22
     DEF Comments!Next, Comments!User, Comments!System

-----------------------------------------------------------------------------
(* What is written is stored once, and a draft survives.                   *)

\* A text is counted once across a step if the step stores none of it, takes all of it
\* away, or stores one row of it for the post that was under way.
LEMMA CountMoves ==
  ASSUME CommentsTyped, CommentsTyped', CountedOnce, MaxInput \in Nat, lost <= lost',
         \A text \in 1 .. MaxInput :
           \/ RowsWith(text)' \subseteq RowsWith(text)
              /\ (Pending(text)' => Pending(text) \/ lost < lost')
           \/ RowsWith(text)' = {}
           \/ /\ Pending(text) /\ ~Pending(text)'
              /\ \E p : RowsWith(text)' \subseteq RowsWith(text) \union {p}
  PROVE  CountedOnce'
<1> SUFFICES ASSUME NEW text \in 1 .. MaxInput
             PROVE  Cardinality(RowsWith(text)') <= lost' + (IF Pending(text)' THEN 0 ELSE 1)
  BY DEF CountedOnce
<1>1. lost \in Nat /\ lost' \in Nat
  BY DEF CommentsTyped
<1>2. IsFiniteSet(RowsWith(text)) /\ Cardinality(RowsWith(text)) \in Nat
  <2>1. IsFiniteSet(1 .. Len(stored)) /\ DOMAIN stored = 1 .. Len(stored)
    BY FS_Interval DEF CommentsTyped
  <2>2. RowsWith(text) \in SUBSET (1 .. Len(stored))
    BY <2>1 DEF RowsWith
  <2> QED
    BY <2>1, <2>2, FS_Subset, FS_CardinalityType
<1>3. Cardinality(RowsWith(text)) <= lost + (IF Pending(text) THEN 0 ELSE 1)
  BY DEF CountedOnce
<1>4. CASE RowsWith(text)' \subseteq RowsWith(text) /\ (Pending(text)' => Pending(text) \/ lost < lost')
  <2>1. Cardinality(RowsWith(text)') <= Cardinality(RowsWith(text)) /\ Cardinality(RowsWith(text)') \in Nat
    <3>1. RowsWith(text)' \in SUBSET RowsWith(text)
      BY <1>4
    <3>2. IsFiniteSet(RowsWith(text)') /\ Cardinality(RowsWith(text)') <= Cardinality(RowsWith(text))
      BY <3>1, <1>2, FS_Subset
    <3> QED
      BY <3>2, FS_CardinalityType
  <2> QED
    BY <1>1, <1>2, <1>3, <1>4, <2>1
<1>5. CASE RowsWith(text)' = {}
  BY <1>1, <1>5, FS_EmptySet
<1>6. CASE /\ Pending(text) /\ ~Pending(text)'
           /\ \E p : RowsWith(text)' \subseteq RowsWith(text) \union {p}
  <2>1. PICK p : RowsWith(text)' \subseteq RowsWith(text) \union {p}
    BY <1>6
  <2>2. /\ IsFiniteSet(RowsWith(text) \union {p})
        /\ Cardinality(RowsWith(text) \union {p}) <= Cardinality(RowsWith(text)) + 1
        /\ Cardinality(RowsWith(text) \union {p}) \in Nat
    <3>1. /\ IsFiniteSet(RowsWith(text) \union {p})
          /\ Cardinality(RowsWith(text) \union {p}) =
               IF p \in RowsWith(text) THEN Cardinality(RowsWith(text)) ELSE Cardinality(RowsWith(text)) + 1
      BY <1>2, FS_AddElement
    <3> QED
      BY <1>2, <3>1
  <2>3. RowsWith(text)' \in SUBSET (RowsWith(text) \union {p})
    BY <2>1
  <2>4. /\ Cardinality(RowsWith(text)') <= Cardinality(RowsWith(text) \union {p})
        /\ Cardinality(RowsWith(text)') \in Nat
    BY <2>2, <2>3, FS_Subset, FS_CardinalityType
  <2> QED
    BY <1>1, <1>2, <1>3, <1>6, <2>2, <2>4
<1> QED
  BY <1>4, <1>5, <1>6

\* What a step does with the draft.
DraftKept ==
  (Comments!Held # 0 /\ Comments!Held' # Comments!Held) =>
     \/ \E i \in DOMAIN stored : stored[i].mine /\ stored[i].text = Comments!Held
     \/ \E i \in DOMAIN calls : calls[i].text = Comments!Held /\ calls[i].raced
     \/ Comments!Write \/ Comments!OpenReply \/ Comments!CancelReply
     \/ Comments!ChangeTabs \/ (Comments!Web /\ Comments!Refetch)

\* What leaves the form as it is leaves the draft as it is.
LEMMA HeldStill ==
  ASSUME draft'.left = draft.left, draft'.text = draft.text
  PROVE  DraftKept
BY DEF DraftKept, Comments!Held

WriteKept == TextsKnown' /\ OneSent' /\ CountedOnce' /\ DraftKept

WriteNow ==
  PanelsAssumption /\ CommentsTyped /\ CommentsTyped' /\ TextsKnown /\ OneSent /\ CountedOnce

\* The parts of the invariant that a step needs.
LEMMA WriteFacts ==
  ASSUME WriteNow
  PROVE  /\ MaxInput \in Nat /\ inputs \in Nat /\ inputs' \in Nat /\ lost \in Nat /\ lost' \in Nat
         /\ inputs' <= MaxInput /\ draft.text \in Nat /\ draft'.text \in Nat
         /\ draft \in DraftRow /\ draft' \in DraftRow
         /\ \A i \in DOMAIN calls : calls[i] \in CallRow
         /\ \A i \in DOMAIN calls : calls[i].what \in Pagings \/ calls[i].what \in Postings
         /\ \A i \in DOMAIN stored : stored[i].text \in Nat /\ stored[i].text <= inputs
<1>1. /\ MaxInput \in Nat /\ inputs \in Nat /\ inputs' \in Nat /\ lost \in Nat /\ lost' \in Nat
      /\ inputs' <= MaxInput /\ draft \in DraftRow /\ draft' \in DraftRow
      /\ \A i \in DOMAIN calls : calls[i] \in CallRow
      /\ \A i \in DOMAIN stored : stored[i] \in Comments!Comment /\ stored[i].text <= inputs
  BY SMTT(30) DEF WriteNow, PanelsAssumption, CommentsTyped, TextsKnown
<1>2. \A c \in CallRow : c.what \in Pagings \/ c.what \in Postings
  BY DEF CallRow
<1>3. \A d \in DraftRow : d.text \in Nat
  BY DEF DraftRow
<1>4. \A c \in Comments!Comment : c.text \in Nat
  BY DEF Comments!Comment
<1> QED
  BY <1>1, <1>2, <1>3, <1>4

\* A call that posts goes on, in the same or the next stage.
GoesOn(i) ==
  \E k \in DOMAIN calls :
    /\ calls[k].what \in Postings /\ calls'[i].text = calls[k].text
    /\ (calls'[i].what = "post" /\ calls'[i].done = "yes") =>
         /\ calls[k].what = "post" /\ calls[k].done = "yes"
         /\ calls[k].raced => calls'[i].raced

OnePosting == \A i, j \in DOMAIN calls : calls[i].what \in Postings /\ calls[j].what \in Postings => i = j

\* A step that changes neither rows nor texts.
LEMMA WriteAside ==
  ASSUME WriteNow, client' = client, kind' = kind,
         stored' = stored, draft'.text = draft.text, abandoned' = abandoned,
         inputs <= inputs', lost <= lost',
         draft'.sending = draft.sending,
         Comments!Mobile /\ draft.sending => draft'.open = draft.open,
         draft'.left = draft.left \/ Comments!ChangeTabs,
         OnePosting', \A i \in DOMAIN calls' : calls'[i].what \in Postings => GoesOn(i),
         PostDone' <=> PostDone
  PROVE  WriteKept
<1>1. TextsKnown'
  BY WriteFacts DEF TextsKnown, WriteNow
<1>2. OneSent'
  <2>1. ASSUME NEW i \in DOMAIN calls', calls'[i].what \in Postings
        PROVE  /\ draft'.sending /\ calls'[i].text = draft'.text /\ draft'.text # 0
               /\ calls'[i].what = "post" /\ calls'[i].done = "yes" =>
                    \/ calls'[i].raced
                    \/ \E k \in DOMAIN stored' : stored'[k].mine /\ stored'[k].text = draft'.text
    BY <2>1 DEF OneSent, WriteNow, GoesOn
  <2>2. (Comments!Mobile /\ Comments!Replies /\ draft.sending => draft.open)'
    BY DEF OneSent, WriteNow, Comments!Mobile, Comments!Replies
  <2> QED
    BY <2>1, <2>2 DEF OneSent, OnePosting, Comments!Mobile, Comments!Replies
<1>3. CountedOnce'
  <2>1. \A text : RowsWith(text)' = RowsWith(text) /\ (Pending(text)' <=> Pending(text))
    BY DEF RowsWith, Pending
  <2> QED
    BY <2>1, WriteFacts, CountMoves DEF WriteNow
<1>4. DraftKept
  <2>1. CASE draft'.left = draft.left
    BY <2>1, HeldStill
  <2>2. CASE Comments!ChangeTabs
    BY <2>2 DEF DraftKept
  <2> QED
    BY <2>1, <2>2
<1> QED
  BY <1>1, <1>2, <1>3, <1>4 DEF WriteKept

\* A draft nobody is sending is left alone, discarded or written anew.
LEMMA WriteFresh ==
  ASSUME WriteNow, client' = client, kind' = kind, stored' = stored, calls' = calls,
         abandoned' = abandoned, lost' = lost, inputs' = inputs + 1,
         ~draft.sending, ~draft'.sending, draft'.text \in {draft.text, 0, inputs'},
         Comments!Write \/ Comments!OpenReply \/ Comments!CancelReply \/ Comments!ChangeTabs
  PROVE  WriteKept
<1>1. TextsKnown'
  BY WriteFacts DEF TextsKnown, WriteNow
<1>2. \A i \in DOMAIN calls : calls[i].what \notin Postings
  BY DEF OneSent, WriteNow
<1>3. OneSent'
  BY <1>2 DEF OneSent
<1>4. CountedOnce'
  <2>1. ASSUME NEW text \in 1 .. MaxInput
        PROVE  \/ RowsWith(text)' \subseteq RowsWith(text)
                  /\ (Pending(text)' => Pending(text) \/ lost < lost')
               \/ RowsWith(text)' = {}
    <3>1. CASE text = inputs'
      <4>1. \A i \in DOMAIN stored : stored[i].text # text
        BY <3>1, WriteFacts
      <4> QED
        BY <4>1 DEF RowsWith
    <3>2. CASE text # inputs'
      <4>1. text # 0
        BY WriteFacts
      <4>2. Pending(text)' => Pending(text)
        BY <3>2, <4>1 DEF Pending, PostDone
      <4> QED
        BY <4>2 DEF RowsWith
    <3> QED
      BY <3>1, <3>2
  <2>2. lost <= lost'
    BY WriteFacts
  <2> QED
    BY <2>1, <2>2, WriteFacts, CountMoves DEF WriteNow
<1>5. DraftKept
  BY DEF DraftKept
<1> QED
  BY <1>1, <1>3, <1>4, <1>5 DEF WriteKept

\* The sending ends, the draft stays, unless its form was left meanwhile.
LEMMA WriteEnds ==
  ASSUME WriteNow, client' = client, kind' = kind, stored' = stored, abandoned' = abandoned,
         inputs' = inputs, lost <= lost', PostDone => lost < lost',
         ~draft'.sending,
         IF draft.left THEN draft'.text = 0 ELSE draft'.text = draft.text /\ ~draft'.left,
         \A i \in DOMAIN calls' : calls'[i].what \notin Postings
  PROVE  WriteKept
<1>1. TextsKnown'
  BY WriteFacts DEF TextsKnown, WriteNow
<1>2. OneSent'
  BY DEF OneSent
<1>3. CountedOnce'
  <2>1. ASSUME NEW text \in 1 .. MaxInput
        PROVE  RowsWith(text)' = RowsWith(text) /\ (Pending(text)' => Pending(text) \/ lost < lost')
    <3>1. text # 0
      BY WriteFacts
    <3> QED
      BY <3>1 DEF RowsWith, Pending
  <2> QED
    BY <2>1, WriteFacts, CountMoves DEF WriteNow
<1>4. DraftKept
  BY DEF DraftKept, Comments!Held
<1> QED
  BY <1>1, <1>2, <1>3, <1>4 DEF WriteKept

\* What a form holds whose text was refused.
LEMMA RefusedForm ==
  ASSUME draft \in DraftRow, draft' = Comments!Refused
  PROVE  /\ ~draft'.sending
         /\ IF draft.left THEN draft'.text = 0 ELSE draft'.text = draft.text /\ ~draft'.left
<1>1. CASE draft.left
  BY <1>1 DEF Comments!Refused, Comments!Anew, Comments!NoDraft
<1>2. CASE ~draft.left
  <2>1. draft' = [draft EXCEPT !.sending = FALSE]
    BY <1>2 DEF Comments!Refused
  <2> QED
    BY <1>2, <2>1 DEF DraftRow
<1> QED
  BY <1>1, <1>2

\* A page that is asked for leaves what is being sent as it is.
LEMMA PagingSent ==
  ASSUME CommentsTyped, OneSent, NEW what \in Pagings, NEW cursor \in Nat,
         Comments!Sent(what, 0, cursor)
  PROVE  /\ OnePosting' /\ (PostDone' <=> PostDone)
         /\ \A i \in DOMAIN calls' : calls'[i].what \in Postings => GoesOn(i)
<1>1. /\ \A i \in DOMAIN calls : i \in DOMAIN calls' /\ i # Len(calls) + 1 /\ calls'[i] = calls[i]
      /\ calls'[Len(calls) + 1] = Comments!Call(what, 0, cursor)
      /\ \A i \in DOMAIN calls' : i \in DOMAIN calls \/ i = Len(calls) + 1
  BY CallsGrow
<1>2. Comments!Call(what, 0, cursor).what \notin Postings /\ Comments!Call(what, 0, cursor).what # "post"
  BY DEF Comments!Call, Pagings, Postings
<1>3. \A i \in DOMAIN calls' : calls'[i].what \in Postings => i \in DOMAIN calls /\ calls'[i] = calls[i]
  BY <1>1, <1>2
<1>4. PostDone' <=> PostDone
  BY <1>1, <1>2 DEF PostDone
<1> QED
  BY <1>3, <1>4 DEF OneSent, OnePosting, GoesOn

\* So does a page that is answered or lost.
LEMMA PagingEnded ==
  ASSUME CommentsTyped, OneSent, NEW i \in DOMAIN calls, calls[i].what \in Pagings,
         calls' = Comments!RemoveAt(calls, i)
  PROVE  /\ OnePosting' /\ (PostDone' <=> PostDone)
         /\ \A j \in DOMAIN calls' : calls'[j].what \in Postings => GoesOn(j)
<1>1. /\ \A j \in DOMAIN calls' : Former(i, j) \in DOMAIN calls \ {i} /\ calls'[j] = calls[Former(i, j)]
      /\ \A j, k \in DOMAIN calls' : Former(i, j) = Former(i, k) => j = k
      /\ \A k \in DOMAIN calls : k # i => \E j \in DOMAIN calls' : k = Former(i, j)
  BY CallsShrink
<1>2. calls[i].what # "post"
  BY DEF Pagings
<1>3. PostDone' <=> PostDone
  BY <1>1, <1>2 DEF PostDone
<1>4. \A j \in DOMAIN calls' : calls'[j].what \in Postings => GoesOn(j)
  BY <1>1 DEF GoesOn
<1>5. OnePosting'
  BY <1>1 DEF OneSent, OnePosting
<1> QED
  BY <1>3, <1>4, <1>5

\* And so does a call that changes without being stored.
LEMMA OneChanged ==
  ASSUME CommentsTyped, OneSent, NEW i \in DOMAIN calls, NEW c \in CallRow,
         c.what \in Pagings => c.done # "refused", calls' = [calls EXCEPT ![i] = c],
         c.what \in Postings => calls[i].what \in Postings /\ c.text = calls[i].text,
         ~(c.what = "post" /\ c.done = "yes"), ~(calls[i].what = "post" /\ calls[i].done = "yes")
  PROVE  /\ OnePosting' /\ (PostDone' <=> PostDone)
         /\ \A j \in DOMAIN calls' : calls'[j].what \in Postings => GoesOn(j)
<1>1. /\ DOMAIN calls' = DOMAIN calls /\ calls'[i] = c
      /\ \A j \in DOMAIN calls : j # i => calls'[j] = calls[j]
  BY ChangedTyped
<1>2. PostDone' <=> PostDone
  BY <1>1 DEF PostDone
<1>3. \A j \in DOMAIN calls' : calls'[j].what \in Postings => GoesOn(j)
  BY <1>1 DEF GoesOn
<1>4. OnePosting'
  BY <1>1 DEF OneSent, OnePosting
<1> QED
  BY <1>2, <1>3, <1>4

\* The server stores what is sent.
LEMMA WriteStored ==
  ASSUME WriteNow, NEW i \in DOMAIN calls, Comments!Execute(i), calls[i].what = "post",
         Comments!Accepts
  PROVE  WriteKept
<1> DEFINE c == calls[i]
           d == [c EXCEPT !.done = "yes", !.id = Comments!OwnPlace]
<1>1. /\ calls' = [calls EXCEPT ![i] = d] /\ stored' = Comments!Written(c.text) /\ c.done = "no"
      /\ client' = client /\ kind' = kind /\ draft' = draft /\ abandoned' = abandoned
      /\ inputs' = inputs /\ lost' = lost
  BY DEF Comments!Execute, Comments!setting
<1>2. /\ c.what \in Postings /\ draft.sending /\ c.text = draft.text /\ draft.text # 0
      /\ c \in CallRow
  BY WriteFacts DEF WriteNow, OneSent, Postings
<1>3. /\ CommentsTyped /\ stored' \in Seq(Comments!Comment)
      /\ Comments!OwnPlace \in DOMAIN stored'
      /\ stored'[Comments!OwnPlace].mine /\ stored'[Comments!OwnPlace].text = c.text
      /\ \A k \in DOMAIN stored' : k # Comments!OwnPlace => k \in DOMAIN stored /\ stored'[k] = stored[k]
  BY <1>1, <1>2, WriteFacts, RowsWritten DEF WriteNow
<1>4. d \in CallRow /\ d.done = "yes" /\ d.what = "post" /\ d.text = c.text
  <2>1. Comments!OwnPlace \in Nat
    BY <1>3
  <2>2. \A x \in CallRow, n \in Nat :
          LET y == [x EXCEPT !.done = "yes", !.id = n]
          IN  y \in CallRow /\ y.done = "yes" /\ y.what = x.what /\ y.text = x.text
    BY DEF CallRow
  <2> QED
    BY <1>2, <2>1, <2>2
<1> HIDE DEF d
<1>5. /\ DOMAIN calls' = DOMAIN calls /\ calls'[i] = d
      /\ \A j \in DOMAIN calls : j # i => calls'[j] = calls[j]
  <2>1. d.what \in Pagings => d.done # "refused"
    BY <1>4
  <2> QED
    BY <1>1, <1>3, <1>4, <2>1, ChangedTyped
<1>6. TextsKnown'
  <2>1. \A k \in DOMAIN stored' : stored'[k].text <= inputs
    BY <1>2, <1>3, WriteFacts DEF TextsKnown, WriteNow
  <2> QED
    BY <1>1, <2>1 DEF TextsKnown, WriteNow
<1>7. OneSent'
  <2>1. \A j \in DOMAIN calls' : calls'[j].what \in Postings => j = i
    BY <1>2, <1>5 DEF OneSent, WriteNow
  <2>2. \E k \in DOMAIN stored' : stored'[k].mine /\ stored'[k].text = draft'.text
    BY <1>1, <1>2, <1>3
  <2>3. calls'[i].text = draft'.text /\ draft'.sending /\ draft'.text # 0
    BY <1>1, <1>2, <1>4, <1>5
  <2>4. (Comments!Mobile /\ Comments!Replies /\ draft.sending => draft.open)'
    BY <1>1 DEF OneSent, WriteNow, Comments!Mobile, Comments!Replies
  <2> QED
    BY <2>1, <2>2, <2>3, <2>4 DEF OneSent
<1>8. CountedOnce'
  <2>1. PostDone' /\ ~PostDone
    <3>1. PostDone'
      BY <1>4, <1>5 DEF PostDone
    <3>2. ~PostDone
      BY <1>1, <1>2 DEF PostDone, OneSent, WriteNow, Postings
    <3> QED
      BY <3>1, <3>2
  <2>2. ASSUME NEW text \in 1 .. MaxInput
        PROVE  \/ RowsWith(text)' \subseteq RowsWith(text)
                  /\ (Pending(text)' => Pending(text) \/ lost < lost')
               \/ /\ Pending(text) /\ ~Pending(text)'
                  /\ \E p : RowsWith(text)' \subseteq RowsWith(text) \union {p}
    <3>1. CASE text = c.text
      <4>1. Pending(text) /\ ~Pending(text)'
        BY <1>1, <1>2, <2>1, <3>1 DEF Pending, TextsKnown, WriteNow
      <4>2. RowsWith(text)' \subseteq RowsWith(text) \union {Comments!OwnPlace}
        BY <1>3 DEF RowsWith
      <4> QED
        BY <4>1, <4>2
    <3>2. CASE text # c.text
      <4>1. RowsWith(text)' \subseteq RowsWith(text)
        BY <1>3, <3>2 DEF RowsWith
      <4>2. Pending(text)' => Pending(text)
        BY <1>1, <2>1 DEF Pending
      <4> QED
        BY <4>1, <4>2
    <3> QED
      BY <3>1, <3>2
  <2>3. lost <= lost'
    BY <1>1, WriteFacts
  <2> QED
    BY <2>2, <2>3, WriteFacts, CountMoves DEF WriteNow
<1> QED
  BY <1>1, <1>6, <1>7, <1>8, HeldStill DEF WriteKept

\* It stores what a panel that is gone has sent.
LEMMA WriteAbandoned ==
  ASSUME WriteNow, NEW text0 \in abandoned, Comments!PostAbandoned(text0)
  PROVE  WriteKept
<1>0. /\ abandoned' = abandoned \ {text0} /\ client' = client /\ kind' = kind /\ draft' = draft
      /\ inputs' = inputs /\ lost' = lost /\ text0 \in Nat /\ text0 \in 1 .. inputs
      /\ draft.text # text0
  BY WriteFacts DEF Comments!PostAbandoned, Comments!setting, WriteNow, TextsKnown
<1>1. CASE Comments!Accepts
  <2>1. /\ stored' = Comments!Written(text0)
        /\ DOMAIN calls' = DOMAIN calls
        /\ \A i \in DOMAIN calls : /\ calls'[i].what = calls[i].what /\ calls'[i].text = calls[i].text
                                   /\ calls'[i].done = calls[i].done
                                   /\ calls[i].raced => calls'[i].raced
                                   /\ (Comments!Reviews /\ calls[i].what = "post"
                                       /\ calls[i].done = "yes") => calls'[i].raced
    <3>1. /\ stored' = Comments!Written(text0)
          /\ calls' = [i \in DOMAIN calls |->
                        [calls[i] EXCEPT !.raced = @ \/ (Comments!Reviews /\ calls[i].what = "post"
                                                              /\ calls[i].done = "yes")]]
      BY <1>1 DEF Comments!PostAbandoned
    <3>2. \A i \in DOMAIN calls : /\ calls'[i].what = calls[i].what /\ calls'[i].text = calls[i].text
                                  /\ calls'[i].done = calls[i].done
                                  /\ calls[i].raced => calls'[i].raced
                                  /\ (Comments!Reviews /\ calls[i].what = "post"
                                      /\ calls[i].done = "yes") => calls'[i].raced
      <4> TAKE i \in DOMAIN calls
      <4>1. calls[i] \in CallRow
        BY WriteFacts
      <4> QED
        BY <3>1, <4>1 DEF CallRow
    <3> QED
      BY <3>1, <3>2
  <2>2. /\ CommentsTyped /\ stored' \in Seq(Comments!Comment)
        /\ Comments!OwnPlace \in DOMAIN stored'
        /\ stored'[Comments!OwnPlace].mine /\ stored'[Comments!OwnPlace].text = text0
        /\ \A k \in DOMAIN stored' : k # Comments!OwnPlace => k \in DOMAIN stored /\ stored'[k] = stored[k]
        /\ ~Comments!Reviews => Comments!OwnPlace = Len(stored) + 1
        /\ DOMAIN stored = 1 .. Len(stored) /\ Len(stored) \in Nat
        /\ \A k \in DOMAIN stored : k \in DOMAIN stored'
    BY <1>0, <2>1, RowsWritten DEF WriteNow
  <2>3. TextsKnown'
    <3>1. \A k \in DOMAIN stored' : stored'[k].text <= inputs
      <4>1. text0 <= inputs
        BY <1>0, WriteFacts
      <4>2. \A k \in DOMAIN stored : stored[k].text <= inputs
        BY WriteFacts
      <4> QED
        BY <2>2, <4>1, <4>2
    <3> QED
      BY <1>0, <3>1 DEF TextsKnown, WriteNow
  <2>4. PostDone' <=> PostDone
    BY <2>1 DEF PostDone
  <2>5. OneSent'
    <3>1. ASSUME NEW j \in DOMAIN calls', calls'[j].what = "post", calls'[j].done = "yes"
          PROVE  \/ calls'[j].raced
                 \/ \E k \in DOMAIN stored' : stored'[k].mine /\ stored'[k].text = draft'.text
      <4>1. j \in DOMAIN calls /\ calls[j].what = "post" /\ calls[j].done = "yes"
        BY <2>1, <3>1
      <4>2. CASE Comments!Reviews
        BY <2>1, <4>1, <4>2
      <4>3. CASE ~Comments!Reviews /\ ~calls[j].raced
        <5>1. PICK k \in DOMAIN stored : stored[k].mine /\ stored[k].text = draft.text
          BY <4>1, <4>3 DEF OneSent, WriteNow, Postings
        <5>2. k \in DOMAIN stored' /\ k # Comments!OwnPlace
          BY <2>2, <4>3
        <5> QED
          BY <1>0, <2>2, <5>1, <5>2
      <4>4. CASE calls[j].raced
        BY <2>1, <4>1, <4>4
      <4> QED
        BY <4>2, <4>3, <4>4
    <3>2. \A i, j \in DOMAIN calls' : calls'[i].what \in Postings /\ calls'[j].what \in Postings => i = j
      BY <2>1 DEF OneSent, WriteNow
    <3>3. \A j \in DOMAIN calls' : calls'[j].what \in Postings =>
            draft'.sending /\ calls'[j].text = draft'.text /\ draft'.text # 0
      BY <1>0, <2>1 DEF OneSent, WriteNow
    <3>4. (Comments!Mobile /\ Comments!Replies /\ draft.sending => draft.open)'
      BY <1>0 DEF OneSent, WriteNow, Comments!Mobile, Comments!Replies
    <3> QED
      BY <3>1, <3>2, <3>3, <3>4 DEF OneSent
  <2>6. CountedOnce'
    <3>1. ASSUME NEW text \in 1 .. MaxInput
          PROVE  \/ RowsWith(text)' \subseteq RowsWith(text)
                    /\ (Pending(text)' => Pending(text) \/ lost < lost')
                 \/ /\ Pending(text) /\ ~Pending(text)'
                    /\ \E p : RowsWith(text)' \subseteq RowsWith(text) \union {p}
      <4>1. CASE text = text0
        <5>1. Pending(text) /\ ~Pending(text)'
          BY <1>0, <4>1 DEF Pending
        <5>2. RowsWith(text)' \subseteq RowsWith(text) \union {Comments!OwnPlace}
          BY <2>2 DEF RowsWith
        <5> QED
          BY <5>1, <5>2
      <4>2. CASE text # text0
        <5>1. RowsWith(text)' \subseteq RowsWith(text)
          BY <2>2, <4>2 DEF RowsWith
        <5>2. Pending(text)' => Pending(text)
          BY <1>0, <2>4 DEF Pending
        <5> QED
          BY <5>1, <5>2
      <4> QED
        BY <4>1, <4>2
    <3>2. lost <= lost'
      BY <1>0, WriteFacts
    <3> QED
      BY <3>1, <3>2, WriteFacts, CountMoves DEF WriteNow
  <2> QED
    BY <1>0, <2>3, <2>5, <2>6, HeldStill DEF WriteKept
<1>2. CASE ~Comments!Accepts
  <2>1. stored' = stored /\ calls' = calls
    BY <1>2 DEF Comments!PostAbandoned
  <2>2. TextsKnown'
    BY <1>0, <2>1 DEF TextsKnown, WriteNow
  <2>3. OneSent'
    BY <1>0, <2>1 DEF OneSent, WriteNow, Comments!Mobile, Comments!Replies
  <2>4. CountedOnce'
    <3>1. \A text : RowsWith(text)' = RowsWith(text) /\ (Pending(text)' => Pending(text))
      BY <1>0, <2>1 DEF RowsWith, Pending, PostDone
    <3>2. lost <= lost'
      BY <1>0, WriteFacts
    <3> QED
      BY <3>1, <3>2, WriteFacts, CountMoves DEF WriteNow
  <2> QED
    BY <1>0, <2>2, <2>3, <2>4, HeldStill DEF WriteKept
<1> QED
  BY <1>1, <1>2

\* Every step keeps count, and the draft.
LEMMA WriteStep ==
  ASSUME WriteNow, Comments!Next
  PROVE  WriteKept
<1>0. CommentsTyped /\ OneSent /\ TextsKnown /\ draft \in DraftRow
      /\ client \in {"web", "mobile"}
      /\ \A i \in DOMAIN calls : calls[i] \in CallRow
                              /\ (calls[i].what \in Pagings \/ calls[i].what \in Postings)
  BY WriteFacts DEF WriteNow, CommentsTyped
<1>1. \A what : Comments!Input(what) =>
        /\ what \in Comments!Offers /\ inputs' = inputs + 1 /\ inputs <= inputs'
        /\ client' = client /\ kind' = kind /\ stored' = stored /\ abandoned' = abandoned
        /\ lost' = lost /\ lost <= lost'
  BY WriteFacts DEF Comments!Input, Comments!Touch, Comments!setting
<1>2. list.next \in Nat
  BY DEF WriteNow, CommentsTyped, ListRow
<1>a. /\ "write" \in Comments!Offers => ~draft.sending /\ (Comments!Mobile /\ Comments!Replies => draft.open)
      /\ "cancel" \in Comments!Offers => ~draft.sending
      /\ "reply" \in Comments!Offers => ~draft.sending
  BY <1>0, OffersTell DEF OneSent
<1>b. calls' = calls => /\ OnePosting' /\ (PostDone' <=> PostDone)
                        /\ \A i \in DOMAIN calls' : calls'[i].what \in Postings => GoesOn(i)
  BY <1>0 DEF OneSent, OnePosting, PostDone, GoesOn
<1>3. CASE Comments!Retry
  <2>1. Comments!Input("retry") /\ draft' = draft /\ Comments!Sent("first", 0, 0)
    BY <1>3 DEF Comments!Retry
  <2>2. /\ OnePosting' /\ (PostDone' <=> PostDone)
        /\ \A i \in DOMAIN calls' : calls'[i].what \in Postings => GoesOn(i)
    BY <1>0, <2>1, PagingSent DEF Pagings
  <2> QED
    BY <1>1, <2>1, <2>2, WriteAside
<1>4. CASE Comments!LoadMore
  <2>1. Comments!Input("more") /\ draft' = draft /\ Comments!Sent("more", 0, list.next)
    BY <1>4 DEF Comments!LoadMore
  <2>2. /\ OnePosting' /\ (PostDone' <=> PostDone)
        /\ \A i \in DOMAIN calls' : calls'[i].what \in Postings => GoesOn(i)
    BY <1>0, <1>2, <2>1, PagingSent DEF Pagings
  <2> QED
    BY <1>1, <2>1, <2>2, WriteAside
<1>5. CASE Comments!ToggleReplies
  <2>1. /\ Comments!Input("toggle") /\ draft' = draft
        /\ calls' = calls \/ Comments!Sent("first", 0, 0)
    BY <1>5 DEF Comments!ToggleReplies, Comments!WebFolded, Comments!MobileFolded
  <2>2. /\ OnePosting' /\ (PostDone' <=> PostDone)
        /\ \A i \in DOMAIN calls' : calls'[i].what \in Postings => GoesOn(i)
    BY <1>0, <1>b, <2>1, PagingSent DEF Pagings
  <2> QED
    BY <1>1, <2>1, <2>2, WriteAside
<1>6. CASE Comments!OpenReply
  <2>1. /\ Comments!Input("reply") /\ calls' = calls /\ ~draft.sending
        /\ draft' = [draft EXCEPT !.open = ~@, !.text = IF Comments!Web THEN @ ELSE 0]
    BY <1>1, <1>a, <1>6 DEF Comments!OpenReply
  <2>2. ~draft'.sending /\ draft'.text \in {draft.text, 0, inputs'}
    BY <1>0, <2>1 DEF DraftRow
  <2> QED
    BY <1>1, <1>6, <2>1, <2>2, WriteFresh
<1>7. CASE Comments!CancelReply
  <2>1. /\ Comments!Input("cancel") /\ calls' = calls /\ ~draft.sending /\ draft' = Comments!NoDraft
    BY <1>1, <1>a, <1>7 DEF Comments!CancelReply
  <2>2. ~draft'.sending /\ draft'.text \in {draft.text, 0, inputs'}
    BY <2>1 DEF Comments!NoDraft
  <2> QED
    BY <1>1, <1>7, <2>1, <2>2, WriteFresh
<1>8. CASE Comments!Write
  <2>1. /\ Comments!Input("write") /\ calls' = calls /\ ~draft.sending
        /\ draft' = [draft EXCEPT !.text = inputs']
    BY <1>1, <1>a, <1>8 DEF Comments!Write
  <2>2. ~draft'.sending /\ draft'.text \in {draft.text, 0, inputs'}
    BY <1>0, <2>1 DEF DraftRow
  <2> QED
    BY <1>1, <1>8, <2>1, <2>2, WriteFresh
<1>9. CASE Comments!Rate \/ Comments!ChooseImage
  <2>1. /\ calls' = calls /\ inputs' = inputs /\ client' = client /\ kind' = kind /\ stored' = stored
        /\ abandoned' = abandoned /\ lost' = lost
        /\ draft' = [draft EXCEPT !.stars = 1] \/ draft' = [draft EXCEPT !.image = ~@]
    BY <1>9 DEF Comments!Rate, Comments!ChooseImage, Comments!Touch, Comments!setting
  <2>2. /\ draft'.sending = draft.sending /\ draft'.text = draft.text /\ draft'.open = draft.open
        /\ draft'.left = draft.left
    BY <1>0, <2>1 DEF DraftRow
  <2>3. inputs <= inputs' /\ lost <= lost'
    BY <2>1, WriteFacts
  <2> QED
    BY <1>b, <2>1, <2>2, <2>3, WriteAside
<1>9a. CASE Comments!ChangeTabs
  <2>1. /\ calls' = calls /\ inputs' = inputs + 1 /\ client' = client /\ kind' = kind
        /\ stored' = stored /\ abandoned' = abandoned /\ lost' = lost /\ Comments!Web
        /\ draft' = IF draft.sending
                    THEN [Comments!NoDraft EXCEPT !.text = draft.text, !.sending = TRUE, !.left = TRUE]
                    ELSE Comments!NoDraft
    BY <1>9a DEF Comments!ChangeTabs, Comments!setting
  <2>2. CASE draft.sending
    <3>1. draft'.sending = draft.sending /\ draft'.text = draft.text
      BY <1>0, <2>1, <2>2 DEF Comments!NoDraft, DraftRow
    <3>2. ~Comments!Mobile /\ inputs <= inputs' /\ lost <= lost'
      BY <2>1, WriteFacts DEF Comments!Web, Comments!Mobile
    <3> QED
      BY <1>b, <1>9a, <2>1, <3>1, <3>2, WriteAside
  <2>3. CASE ~draft.sending
    <3>1. ~draft'.sending /\ draft'.text = 0
      BY <2>1, <2>3 DEF Comments!NoDraft
    <3>2. draft'.text \in {draft.text, 0, inputs'}
      BY <3>1
    <3> QED
      BY <1>9a, <2>1, <2>3, <3>1, <3>2, WriteFresh
  <2> QED
    BY <2>2, <2>3
<1>10. CASE Comments!Submit
  <2>1. /\ Comments!Input("write") /\ draft' = [draft EXCEPT !.sending = TRUE]
        /\ draft.text # 0 /\ ~draft.sending /\ (Comments!Mobile /\ Comments!Replies => draft.open)
        /\ \E what \in Postings : Comments!Sent(what, draft.text, 0)
    BY <1>1, <1>a, <1>10 DEF Comments!Submit, Comments!Complete, Postings
  <2>2. PICK what \in Postings : Comments!Sent(what, draft.text, 0)
    BY <2>1
  <2>3. draft'.sending /\ draft'.text = draft.text /\ draft'.open = draft.open /\ draft'.left = draft.left
    BY <1>0, <2>1 DEF DraftRow
  <2>4. /\ \A i \in DOMAIN calls : i \in DOMAIN calls' /\ i # Len(calls) + 1 /\ calls'[i] = calls[i]
        /\ calls'[Len(calls) + 1] = Comments!Call(what, draft.text, 0)
        /\ \A i \in DOMAIN calls' : i \in DOMAIN calls \/ i = Len(calls) + 1
    BY <1>0, <2>2, WriteFacts, CallsGrow
  <2>5. \A i \in DOMAIN calls : calls[i].what \notin Postings
    BY <1>0, <2>1 DEF OneSent
  <2>6. \A i \in DOMAIN calls' : calls'[i].what \in Postings =>
          i = Len(calls) + 1 /\ calls'[i].text = draft.text /\ calls'[i].done = "no"
    BY <2>4, <2>5 DEF Comments!Call
  <2>7. ~PostDone /\ ~PostDone'
    BY <2>5, <2>6 DEF PostDone, Postings
  <2>8. TextsKnown'
    BY <1>0, <1>1, <2>1, <2>3, WriteFacts DEF TextsKnown
  <2>9. OneSent'
    BY <1>1, <2>1, <2>3, <2>6 DEF OneSent, Comments!Mobile, Comments!Replies
  <2>10. CountedOnce'
    <3>1. \A text : RowsWith(text)' = RowsWith(text) /\ (Pending(text)' => Pending(text))
      BY <1>1, <2>1, <2>3, <2>7 DEF RowsWith, Pending
    <3> QED
      BY <1>1, <2>1, <3>1, WriteFacts, CountMoves DEF WriteNow
  <2> QED
    BY <2>3, <2>8, <2>9, <2>10, HeldStill DEF WriteKept
<1>11. ASSUME NEW i \in DOMAIN calls, Comments!Execute(i)
       PROVE  WriteKept
  <2> DEFINE c == calls[i]
  <2>0. c \in CallRow /\ c.done = "no" /\ client' = client /\ kind' = kind /\ draft' = draft
        /\ abandoned' = abandoned /\ inputs' = inputs /\ lost' = lost /\ inputs <= inputs' /\ lost <= lost'
    BY <1>0, <1>11, WriteFacts DEF Comments!Execute, Comments!setting
  <2>1. CASE c.what = "post" /\ Comments!Accepts
    BY <1>11, <2>1, WriteStored
  <2>2. CASE ~(c.what = "post" /\ Comments!Accepts)
    <3>1. stored' = stored
      BY <1>0, <1>11, <2>2 DEF Comments!Execute, Pagings, Postings
    <3>2. PICK d : /\ calls' = [calls EXCEPT ![i] = d] /\ d.what = c.what /\ d.text = c.text
                   /\ c.what = "post" => d.done = "refused"
      <4>1. \A b, p, n : /\ [c EXCEPT !.done = b].what = c.what
                         /\ [c EXCEPT !.done = b].text = c.text /\ [c EXCEPT !.done = b].done = b
                         /\ [c EXCEPT !.done = b, !.page = p, !.horizon = n].what = c.what
                         /\ [c EXCEPT !.done = b, !.page = p, !.horizon = n].text = c.text
        BY <2>0 DEF CallRow
      <4>2. CASE c.what \in {"first", "more"}
        <5> DEFINE e == [c EXCEPT !.done = "yes", !.page = Comments!PageAfter(c.cursor),
                                  !.horizon = Len(stored)]
        <5>1. calls' = [calls EXCEPT ![i] = e]
          BY <1>11, <4>2 DEF Comments!Execute
        <5>2. e.what = c.what /\ e.text = c.text /\ c.what # "post"
          BY <4>1, <4>2
        <5> HIDE DEF e
        <5> QED
          BY <5>1, <5>2
      <4>3. CASE c.what = "upload"
        BY <1>11, <4>1, <4>3 DEF Comments!Execute
      <4>4. CASE c.what = "post"
        BY <1>11, <2>2, <4>1, <4>4 DEF Comments!Execute
      <4> QED
        BY <1>0, <4>2, <4>3, <4>4 DEF Pagings, Postings
    <3>3. /\ DOMAIN calls' = DOMAIN calls /\ calls'[i] = d
          /\ \A j \in DOMAIN calls : j # i => calls'[j] = calls[j]
      BY <3>2
    <3>4. OnePosting'
      BY <1>0, <3>2, <3>3 DEF OneSent, OnePosting
    <3>5. PostDone' <=> PostDone
      BY <2>0, <3>2, <3>3 DEF PostDone
    <3>6. \A j \in DOMAIN calls' : calls'[j].what \in Postings => GoesOn(j)
      <4>1. ASSUME NEW j \in DOMAIN calls', calls'[j].what \in Postings
            PROVE  GoesOn(j)
        <5>1. j \in DOMAIN calls /\ calls[j].what \in Postings /\ calls'[j].text = calls[j].text
          BY <3>2, <3>3, <4>1
        <5>2. (calls'[j].what = "post" /\ calls'[j].done = "yes") => calls'[j] = calls[j]
          BY <3>2, <3>3, <4>1
        <5> QED
          BY <5>1, <5>2 DEF GoesOn
      <4> QED
        BY <4>1
    <3> QED
      BY <2>0, <3>1, <3>4, <3>5, <3>6, WriteAside
  <2> QED
    BY <2>1, <2>2
<1>12. ASSUME NEW i \in DOMAIN calls, Comments!Answer(i)
       PROVE  WriteKept
  <2> DEFINE c == calls[i]
  <2>0. c \in CallRow /\ c.done # "no" /\ client' = client /\ kind' = kind /\ stored' = stored
        /\ abandoned' = abandoned /\ inputs' = inputs /\ lost' = lost /\ inputs <= inputs' /\ lost <= lost'
        /\ c.what \in {"first", "more", "upload", "post"} /\ c.done \in {"no", "yes", "refused"}
    <3>1. \A r \in CallRow : r.what \in {"first", "more", "upload", "post"} /\ r.done \in {"no", "yes", "refused"}
      BY DEF CallRow, Pagings, Postings
    <3> QED
      BY <1>0, <1>12, <3>1, WriteFacts DEF Comments!Answer, Comments!setting
  <2>1. CASE c.what \in {"first", "more"}
    <3>1. calls' = Comments!RemoveAt(calls, i) /\ draft' = draft /\ calls[i].what \in Pagings
      BY <1>12, <2>1 DEF Comments!Answer, Pagings
    <3>2. /\ OnePosting' /\ (PostDone' <=> PostDone)
          /\ \A j \in DOMAIN calls' : calls'[j].what \in Postings => GoesOn(j)
      BY <1>0, <3>1, PagingEnded
    <3> QED
      BY <2>0, <3>1, <3>2, WriteAside
  <2>2. CASE c.what = "upload"
    <3> DEFINE d == Comments!Call("post", c.text, 0)
    <3>1. calls' = [calls EXCEPT ![i] = d] /\ draft' = draft
      BY <1>12, <2>2 DEF Comments!Answer
    <3>2. d \in CallRow /\ d.text = c.text /\ d.done = "no"
      <4>1. c.text \in Nat /\ <<>> \in Seq(Comments!Comment)
        BY <2>0 DEF CallRow
      <4> QED
        BY <4>1 DEF Comments!Call, CallRow, Postings
    <3>3. c.what \in Postings /\ c.what # "post"
      BY <2>2 DEF Postings
    <3> HIDE DEF d
    <3>4. /\ OnePosting' /\ (PostDone' <=> PostDone)
          /\ \A j \in DOMAIN calls' : calls'[j].what \in Postings => GoesOn(j)
      <4>1. d.what \in Pagings => d.done # "refused"
        BY <3>2
      <4>2. ~(d.what = "post" /\ d.done = "yes") /\ ~(calls[i].what = "post" /\ calls[i].done = "yes")
        BY <3>2, <3>3
      <4> QED
        BY <1>0, <3>1, <3>2, <3>3, <4>1, <4>2, OneChanged
    <3> QED
      BY <2>0, <3>1, <3>4, WriteAside
  <2>3. CASE c.what = "post" /\ c.done = "yes"
    <3>1. draft' = Comments!Cleared /\ calls' = Comments!Overtaken(i)
      BY <1>12, <2>3 DEF Comments!Answer
    <3>2. ~draft'.sending /\ draft'.text = 0
      BY <3>1 DEF Comments!Cleared, Comments!Anew, Comments!NoDraft
    <3>3. \A j \in DOMAIN calls' : calls'[j].what \notin Postings
      <4>1. ASSUME NEW j \in DOMAIN calls'
            PROVE  calls'[j].what \notin Postings
        <5>1. /\ Former(i, j) \in DOMAIN calls \ {i}
              /\ calls'[j] = [calls[Former(i, j)] EXCEPT
                   !.raced = @ \/ calls[Former(i, j)].what = "first"]
          BY <1>0, <3>1, CallsOvertaken
        <5>2. calls[Former(i, j)].what \notin Postings
          BY <1>0, <2>3, <5>1 DEF OneSent, Postings
        <5>3. calls'[j].what = calls[Former(i, j)].what
          <6>1. calls[Former(i, j)] \in CallRow
            BY <1>0, <5>1
          <6> QED
            BY <5>1, <6>1 DEF CallRow
        <5> QED
          BY <5>2, <5>3
      <4> QED
        BY <4>1
    <3>4. TextsKnown'
      BY <1>0, <2>0, <3>2, WriteFacts DEF TextsKnown
    <3>5. OneSent'
      BY <3>2, <3>3 DEF OneSent
    <3>6. CountedOnce'
      <4>1. \A text \in 1 .. MaxInput : RowsWith(text)' = RowsWith(text) /\ (Pending(text)' => Pending(text))
        BY <2>0, <3>2 DEF RowsWith, Pending
      <4> QED
        BY <2>0, <4>1, WriteFacts, CountMoves DEF WriteNow
    <3>7. DraftKept
      <4>1. c.text = draft.text
        BY <1>0, <2>3 DEF OneSent, Postings
      <4> QED
        BY <1>0, <2>3, <4>1 DEF DraftKept, Comments!Held, OneSent, Postings
    <3> QED
      BY <3>4, <3>5, <3>6, <3>7 DEF WriteKept
  <2>4. CASE c.what = "post" /\ c.done = "refused"
    <3>1. draft' = Comments!Refused /\ calls' = Comments!RemoveAt(calls, i)
      BY <1>12, <2>4 DEF Comments!Answer
    <3>2. /\ ~draft'.sending
          /\ IF draft.left THEN draft'.text = 0 ELSE draft'.text = draft.text /\ ~draft'.left
      BY <1>0, <3>1, RefusedForm
    <3>3. \A j \in DOMAIN calls' : calls'[j].what \notin Postings
      BY <1>0, <2>4, <3>1, CallsShrink DEF OneSent, Postings
    <3>4. ~PostDone
      BY <1>0, <2>4 DEF PostDone, OneSent, Postings
    <3> QED
      BY <2>0, <3>2, <3>3, <3>4, WriteEnds
  <2> QED
    BY <2>0, <2>1, <2>2, <2>3, <2>4
<1>13. ASSUME NEW i \in DOMAIN calls, Comments!Lose(i)
       PROVE  WriteKept
  <2>0. /\ client' = client /\ kind' = kind /\ stored' = stored /\ abandoned' = abandoned
        /\ inputs' = inputs /\ lost' = lost + 1 /\ lost < lost' /\ lost <= lost' /\ inputs <= inputs'
        /\ calls' = Comments!RemoveAt(calls, i)
    BY <1>13, WriteFacts DEF Comments!Lose, Comments!setting
  <2>1. CASE calls[i].what \in Pagings
    <3>1. draft' = draft
      BY <1>13, <2>1 DEF Comments!Lose, Pagings
    <3>2. /\ OnePosting' /\ (PostDone' <=> PostDone)
          /\ \A j \in DOMAIN calls' : calls'[j].what \in Postings => GoesOn(j)
      BY <1>0, <2>0, <2>1, PagingEnded
    <3> QED
      BY <2>0, <3>1, <3>2, WriteAside
  <2>2. CASE calls[i].what \notin Pagings
    <3>1. draft' = Comments!Refused /\ calls[i].what \in Postings
      BY <1>0, <1>13, <2>2 DEF Comments!Lose, Pagings
    <3>2. /\ ~draft'.sending
          /\ IF draft.left THEN draft'.text = 0 ELSE draft'.text = draft.text /\ ~draft'.left
      BY <1>0, <3>1, RefusedForm
    <3>3. \A j \in DOMAIN calls' : calls'[j].what \notin Postings
      BY <1>0, <2>0, <3>1, CallsShrink DEF OneSent
    <3> QED
      BY <2>0, <3>2, <3>3, WriteEnds
  <2> QED
    BY <2>1, <2>2
<1>14. CASE Comments!Refetch
  <2>1. /\ client' = client /\ kind' = kind /\ stored' = stored /\ lost' = lost
        /\ inputs' = inputs + 1 /\ inputs <= inputs' /\ lost <= lost'
    BY <1>14, WriteFacts DEF Comments!Refetch, Comments!setting
  <2>2. CASE Comments!Web
    <3>1. /\ draft' = Comments!NoDraft /\ abandoned' = abandoned \union Comments!Unposted
          /\ calls' = <<>> \/ calls' = <<Comments!Call("first", 0, 0)>>
      BY <1>14, <2>2 DEF Comments!Refetch
    <3>2. ~draft'.sending /\ draft'.text = 0
      BY <3>1 DEF Comments!NoDraft
    <3>3. \A i \in DOMAIN calls' : calls'[i].what \notin Postings
      BY <3>1 DEF Comments!Call, Postings
    <3>4. \A text \in Comments!Unposted : text = draft.text /\ text # 0 /\ ~PostDone
      <4>1. ASSUME NEW i \in DOMAIN calls,
                   calls[i].what = "upload" \/ (calls[i].what = "post" /\ calls[i].done = "no")
            PROVE  calls[i].text = draft.text /\ draft.text # 0 /\ ~PostDone
        <5>1. calls[i].what \in Postings /\ ~(calls[i].what = "post" /\ calls[i].done = "yes")
          BY <4>1 DEF Postings
        <5>2. \A j \in DOMAIN calls : calls[j].what = "post" => j = i
          BY <1>0, <5>1 DEF OneSent, Postings
        <5> QED
          BY <1>0, <5>1, <5>2 DEF OneSent, PostDone
      <4> QED
        BY <4>1 DEF Comments!Unposted
    <3>5. TextsKnown'
      <4>1. Comments!Unposted \subseteq 1 .. inputs'
        BY <2>1, <3>4, WriteFacts, <1>0 DEF TextsKnown
      <4>2. abandoned' \subseteq 1 .. inputs'
        BY <1>0, <2>1, <3>1, <4>1, WriteFacts DEF TextsKnown
      <4>3. draft'.text \notin abandoned' /\ draft'.text <= inputs'
        BY <3>2, <4>2, WriteFacts
      <4>4. \A i \in DOMAIN stored' : stored'[i].text <= inputs'
        BY <2>1, WriteFacts
      <4> QED
        BY <4>2, <4>3, <4>4 DEF TextsKnown
    <3>6. OneSent'
      BY <3>2, <3>3 DEF OneSent
    <3>7. CountedOnce'
      <4>1. \A text \in 1 .. MaxInput : RowsWith(text)' = RowsWith(text) /\ (Pending(text)' => Pending(text))
        BY <2>1, <3>1, <3>2, <3>4 DEF RowsWith, Pending
      <4> QED
        BY <2>1, <4>1, WriteFacts, CountMoves DEF WriteNow
    <3>8. DraftKept
      BY <1>14, <2>2 DEF DraftKept
    <3> QED
      BY <3>5, <3>6, <3>7, <3>8 DEF WriteKept
  <2>3. CASE ~Comments!Web
    <3>1. draft' = draft /\ calls' = calls /\ abandoned' = abandoned
      BY <1>14, <2>3 DEF Comments!Refetch
    <3> QED
      BY <1>b, <2>1, <3>1, WriteAside
  <2> QED
    BY <2>2, <2>3
<1>15. CASE Comments!OthersWrite
  <2> DEFINE r == [id |-> Len(stored) + 1, mine |-> FALSE, text |-> 0]
  <2>1. /\ stored' = Append(stored, r) /\ draft' = draft /\ calls' = calls /\ abandoned' = abandoned
        /\ inputs' = inputs /\ lost' = lost /\ client' = client /\ kind' = kind
    BY <1>15 DEF Comments!OthersWrite, Comments!setting
  <2>2. stored \in Seq(Comments!Comment) /\ r \in Comments!Comment /\ ~r.mine /\ r.text = 0
    BY <1>0 DEF CommentsTyped, Comments!Comment
  <2> HIDE DEF r
  <2>3. /\ \A j \in DOMAIN stored : j \in DOMAIN stored' /\ stored'[j] = stored[j]
        /\ \A j \in DOMAIN stored' : j \in DOMAIN stored \/ stored'[j] = r
    BY <2>1, <2>2, Added
  <2>4. TextsKnown'
    BY <1>0, <2>1, <2>2, <2>3, WriteFacts DEF TextsKnown
  <2>5. OneSent'
    <3>1. (\E k \in DOMAIN stored : stored[k].mine /\ stored[k].text = draft.text)
          => \E k \in DOMAIN stored' : stored'[k].mine /\ stored'[k].text = draft.text
      BY <2>3
    <3> QED
      BY <1>0, <2>1, <3>1 DEF OneSent, Comments!Mobile, Comments!Replies
  <2>6. CountedOnce'
    <3>1. \A text : RowsWith(text)' \subseteq RowsWith(text) /\ (Pending(text)' => Pending(text))
      BY <2>1, <2>2, <2>3 DEF RowsWith, Pending, PostDone
    <3>2. lost <= lost'
      BY <2>1, WriteFacts
    <3> QED
      BY <3>1, <3>2, WriteFacts, CountMoves DEF WriteNow
  <2> QED
    BY <2>1, <2>4, <2>5, <2>6, HeldStill DEF WriteKept
<1>16. CASE Comments!EventMovesOn
  <2>1. /\ client' = client /\ kind' = kind /\ stored' = stored /\ draft' = draft /\ calls' = calls
        /\ abandoned' = abandoned /\ inputs' = inputs /\ lost' = lost
        /\ inputs <= inputs' /\ lost <= lost'
    BY <1>16, WriteFacts DEF Comments!EventMovesOn, Comments!setting
  <2> QED
    BY <1>b, <2>1, WriteAside
<1>17. CASE \E i \in DOMAIN calls : Comments!Execute(i) \/ Comments!Answer(i) \/ Comments!Lose(i)
  BY <1>11, <1>12, <1>13, <1>17
<1>18. CASE \E text \in abandoned : Comments!PostAbandoned(text)
  BY <1>18, WriteAbandoned
<1> QED
  BY <1>3, <1>4, <1>5, <1>6, <1>7, <1>8, <1>9, <1>9a, <1>10, <1>14, <1>15, <1>16, <1>17, <1>18
     DEF Comments!Next, Comments!User, Comments!System

\* A panel that appears.
LEMMA OpenedTyped ==
  ASSUME NEW n \in Nat
  PROVE  Comments!Opened(n) \in ListRow
<1>1. Comments!NoList \in ListRow
  <2>1. <<>> \in Seq(Comments!Comment)
    OBVIOUS
  <2> QED
    BY <2>1 DEF Comments!NoList, ListRow
<1> QED
  BY <1>1 DEF Comments!Opened, Comments!NoList, ListRow, Pagings

\* The rows and the calls there are at first.
LEMMA CommentsFirst ==
  ASSUME PanelsAssumption, Comments!Init
  PROVE  /\ CommentsTyped /\ draft = Comments!NoDraft
         /\ \A i \in DOMAIN stored : stored[i].text = 0
         /\ \A i \in DOMAIN calls : calls[i] = Comments!Call("first", 0, 0)
<1>1. PICK n \in 0 .. MaxOld, mine \in 0 .. MaxOld :
        /\ stored = [i \in 1 .. n |-> [id |-> i, mine |-> i = mine, text |-> 0]]
        /\ list = Comments!Opened(n)
  BY DEF Comments!Init
<1>2. n \in Nat /\ MaxInput \in Nat /\ MaxLost \in Nat
  BY DEF PanelsAssumption
<1>3. stored \in Seq(Comments!Comment) /\ \A i \in DOMAIN stored : stored[i].id = i /\ stored[i].text = 0
  <2>1. \A i \in 1 .. n : [id |-> i, mine |-> i = mine, text |-> 0] \in Comments!Comment
    BY DEF Comments!Comment
  <2> HIDE DEF Comments!Comment
  <2>2. stored \in [1 .. n -> Comments!Comment]
    BY <1>1, <2>1
  <2> QED
    BY <1>1, <1>2, <2>2
<1>4. list \in ListRow
  BY <1>1, <1>2, OpenedTyped
<1>5. Comments!Call("first", 0, 0) \in CallRow
  <2>1. <<>> \in Seq(Comments!Comment)
    OBVIOUS
  <2> QED
    BY <2>1 DEF Comments!Call, CallRow, Pagings
<1>6. calls = <<>> \/ calls = <<Comments!Call("first", 0, 0)>>
  BY DEF Comments!Init
<1>7. /\ calls \in Seq(CallRow)
      /\ \A i \in DOMAIN calls : calls[i] = Comments!Call("first", 0, 0)
  <2> DEFINE call == Comments!Call("first", 0, 0)
  <2>1. call \in CallRow /\ (calls = <<>> \/ calls = <<call>>)
    BY <1>5, <1>6
  <2> HIDE DEF CallRow, call
  <2>2. CASE calls = <<>>
    BY <2>2
  <2>3. ASSUME calls = <<call>>
        PROVE  calls \in Seq(CallRow) /\ \A i \in DOMAIN calls : calls[i] = call
    BY <2>1, <2>3
  <2>4. calls \in Seq(CallRow) /\ \A i \in DOMAIN calls : calls[i] = call
    BY <2>1, <2>2, <2>3
  <2> QED
    BY <2>4 DEF call
<1>8. \A i \in DOMAIN calls : calls[i].what \in Pagings => calls[i].done # "refused"
  BY <1>7 DEF Comments!Call
<1>9. draft \in DraftRow /\ draft = Comments!NoDraft
  BY DEF Comments!Init, Comments!NoDraft, DraftRow
<1> QED
  BY <1>2, <1>3, <1>4, <1>7, <1>8, <1>9 DEF CommentsTyped, Comments!Init

\* Nothing has been written at first.
LEMMA WriteInit ==
  ASSUME PanelsAssumption, Init
  PROVE  WriteInv
<1> SUFFICES ASSUME panel = "comments"
             PROVE  CommentsTyped /\ TextsKnown /\ OneSent /\ CountedOnce
  BY DEF WriteInv
<1>1. Comments!Init
  BY DEF Init
<1>2. /\ CommentsTyped /\ draft = Comments!NoDraft
      /\ \A i \in DOMAIN stored : stored[i].text = 0
      /\ \A i \in DOMAIN calls : calls[i] = Comments!Call("first", 0, 0)
  BY <1>1, CommentsFirst
<1>3. inputs = 0 /\ lost = 0 /\ abandoned = {}
  BY <1>1 DEF Comments!Init
<1>4. TextsKnown
  BY <1>2, <1>3 DEF TextsKnown, Comments!NoDraft
<1>5. OneSent
  BY <1>2 DEF OneSent, Comments!NoDraft, Comments!Call, Postings
<1>6. CountedOnce
  <2> SUFFICES ASSUME NEW text \in 1 .. MaxInput
               PROVE  Cardinality(RowsWith(text)) <= lost + (IF Pending(text) THEN 0 ELSE 1)
    BY DEF CountedOnce
  <2>1. RowsWith(text) = {}
    BY <1>2 DEF RowsWith
  <2>2. Cardinality(RowsWith(text)) = 0
    BY <2>1, FS_EmptySet
  <2> QED
    BY <1>3, <2>2
<1> QED
  BY <1>2, <1>4, <1>5, <1>6

\* Every step of the panels keeps count, and the draft.
LEMMA WriteNext ==
  ASSUME PanelsAssumption, WriteInv, [Next]_vars
  PROVE  WriteInv' /\ [DraftKept]_Comments!vars
<1>1. CASE panel = "comments" /\ Comments!Next /\ panel' = panel
  <2>1. CommentsTyped'
    BY <1>1, TypesKept DEF WriteInv
  <2>2. WriteNow
    BY <1>1, <2>1 DEF WriteInv, WriteNow
  <2>3. WriteKept
    BY <1>1, <2>2, WriteStep
  <2> QED
    BY <2>1, <2>3 DEF WriteInv, WriteKept
<1>2. CASE panel = "host" /\ UNCHANGED commentVars /\ panel' = panel
  <2>1. draft' = draft
    BY <1>2 DEF commentVars
  <2>2. DraftKept
    BY <2>1, HeldStill
  <2> QED
    BY <1>2, <2>2 DEF WriteInv
<1>3. CASE UNCHANGED vars
  <2>1. /\ panel' = panel /\ client' = client /\ kind' = kind /\ list' = list
        /\ stored' = stored /\ draft' = draft /\ calls' = calls
        /\ abandoned' = abandoned /\ inputs' = inputs /\ lost' = lost
    BY <1>3 DEF vars, commentVars
  <2>2. DraftKept
    BY <2>1, HeldStill
  <2>3. /\ CommentsTyped' <=> CommentsTyped
        /\ TextsKnown' <=> TextsKnown
        /\ OneSent' <=> OneSent
        /\ CountedOnce' <=> CountedOnce
    BY <2>1 DEF CommentsTyped, TextsKnown, OneSent, CountedOnce, RowsWith, Pending, PostDone,
                Comments!Mobile, Comments!Replies
  <2> QED
    BY <2>1, <2>2, <2>3 DEF WriteInv
<1> QED
  BY <1>1, <1>2, <1>3 DEF Next

(* A draft under the event is gone only when the server has it, when the   *)
(* user rewrites it or opens or discards its form, when the review's form  *)
(* goes with its tab on the website, or when the page is fetched anew.     *)
THEOREM DraftOutlives == Spec => DraftSurvives
<1> USE PanelsAssumption
<1>1. Init => WriteInv
  BY WriteInit
<1>2. WriteInv /\ [Next]_vars => WriteInv' /\ [DraftKept]_Comments!vars
  BY WriteNext
<1> QED
  BY <1>1, <1>2, PTL DEF Spec, DraftSurvives, Comments!DraftSurvives, DraftKept

\* A comment is stored once, but for the answers that were lost.
LEMMA CountedIsStored ==
  ASSUME PanelsAssumption, CommentsTyped, CountedOnce
  PROVE  Comments!StoredOnce
<1> SUFFICES ASSUME NEW text \in 1 .. MaxInput
             PROVE  Comments!Cardinality({i \in DOMAIN stored : stored[i].mine /\ stored[i].text = text})
                      <= 1 + lost
  BY DEF Comments!StoredOnce
<1>1. Comments!Cardinality(RowsWith(text)) = Cardinality(RowsWith(text))
  BY DEF Comments!Cardinality, Cardinality
<1>2. Cardinality(RowsWith(text)) <= lost + (IF Pending(text) THEN 0 ELSE 1)
  BY DEF CountedOnce
<1>3. RowsWith(text) \in SUBSET (1 .. Len(stored)) /\ Len(stored) \in Nat /\ lost \in Nat
  BY DEF RowsWith, CommentsTyped
<1>4. Cardinality(RowsWith(text)) \in Nat
  <2>1. IsFiniteSet(1 .. Len(stored))
    BY <1>3, FS_Interval
  <2>2. IsFiniteSet(RowsWith(text))
    BY <1>3, <2>1, FS_Subset
  <2> QED
    BY <2>2, FS_CardinalityType
<1> QED
  BY <1>1, <1>2, <1>3, <1>4 DEF RowsWith
-----------------------------------------------------------------------------
(* What is read is within reach.                                           *)

\* The invariant in the next state, part by part.
ReadKept ==
  /\ OneReview(kind, stored') /\ ListFits(client, kind, list', stored') /\ OnePage(list', calls')
  /\ ~list'.astray => InReach(client, kind, list')
  /\ \A i \in DOMAIN calls' : CallFits(kind, list', calls'[i], stored')

ReadNow ==
  /\ PanelsAssumption /\ CommentsTyped /\ OneSent
  /\ OneReview(kind, stored) /\ ListFits(client, kind, list, stored) /\ OnePage(list, calls)
  /\ ~list.astray => InReach(client, kind, list)
  /\ \A i \in DOMAIN calls : CallFits(kind, list, calls[i], stored)

\* What fits the rows fits them with more of them.
LEMMA RowsGrow ==
  ASSUME NEW w, NEW k, NEW l, NEW s \in Seq(Comments!Comment), NEW t \in Seq(Comments!Comment),
         l.horizon \in Nat, Len(s) <= Len(t), \A i \in DOMAIN s : t[i].mine = s[i].mine
  PROVE  /\ ListFits(w, k, l, s) => ListFits(w, k, l, t)
         /\ \A c \in CallRow : CallFits(k, l, c, s) => CallFits(k, l, c, t)
<1>1. Len(s) \in Nat /\ Len(t) \in Nat /\ DOMAIN s = 1 .. Len(s) /\ DOMAIN t = 1 .. Len(t)
  OBVIOUS
<1>2. 1 .. Len(s) \subseteq 1 .. Len(t)
  BY <1>1
<1>3. ListFits(w, k, l, s) => ListFits(w, k, l, t)
  <2> SUFFICES ASSUME ListFits(w, k, l, s)
               PROVE  ListFits(w, k, l, t)
    OBVIOUS
  <2>1. l.horizon <= Len(t) /\ l.own \subseteq 1 .. Len(t)
    BY <1>1, <1>2 DEF ListFits
  <2>2. \A i \in DOMAIN l.shown : l.shown[i].id \in DOMAIN s
    BY <1>1 DEF ListFits
  <2> QED
    BY <2>1, <2>2 DEF ListFits
<1>4. ASSUME NEW c \in CallRow, CallFits(k, l, c, s)
      PROVE  CallFits(k, l, c, t)
  <2>1. c.horizon \in Nat
    BY DEF CallRow
  <2>2. PageFits(k, c, s) => PageFits(k, c, t)
    <3> SUFFICES ASSUME PageFits(k, c, s)
                 PROVE  PageFits(k, c, t)
      OBVIOUS
    <3>1. c.horizon <= Len(t)
      BY <1>1, <2>1 DEF PageFits
    <3>2. \A i \in DOMAIN c.page.items : c.page.items[i].id \in DOMAIN s
      BY <1>1, <2>1 DEF PageFits
    <3> QED
      BY <3>1, <3>2 DEF PageFits
  <2>3. c.id \in DOMAIN s => c.id \in DOMAIN t /\ t[c.id].mine = s[c.id].mine
    BY <1>1, <1>2
  <2> QED
    BY <1>4, <2>2, <2>3 DEF CallFits
<1> QED
  BY <1>3, <1>4

\* A post fits a list by the own comments it shows.
LEMMA PostFits ==
  ASSUME NEW k, NEW l, NEW m, NEW s, NEW c, c.what \notin Pagings, CallFits(k, l, c, s), m.own = l.own
  PROVE  CallFits(k, m, c, s)
BY DEF CallFits, Pagings

\* What of a list is not about the row of buttons.
LEMMA SameReach ==
  ASSUME NEW w, NEW k, NEW l, NEW m, InReach(w, k, l), m.shown = l.shown, m.next = l.next,
         m.horizon = l.horizon, m.own = l.own, Folded(w, k, l) => Folded(w, k, m)
  PROVE  InReach(w, k, m)
BY ZenonT(30) DEF InReach

\* The types of a list.
LEMMA ListFacts ==
  ASSUME CommentsTyped
  PROVE  /\ list.shown \in Seq(Comments!Comment) /\ list.next \in Nat
         /\ list.busy \in Pagings \union {"no"} /\ list.count \in Nat /\ list.horizon \in Nat
         /\ list.own \subseteq Nat /\ client \in {"web", "mobile"}
         /\ kind \in {"discussion", "replies", "reviews"}
         /\ stored \in Seq(Comments!Comment) /\ DOMAIN stored = 1 .. Len(stored)
         /\ \A i \in DOMAIN calls : calls[i] \in CallRow
<1>1. /\ list \in ListRow /\ calls \in Seq(CallRow) /\ stored \in Seq(Comments!Comment)
      /\ client \in {"web", "mobile"} /\ kind \in {"discussion", "replies", "reviews"}
  BY DEF CommentsTyped
<1>2. \A i \in DOMAIN calls : calls[i] \in CallRow
  <2> HIDE DEF CallRow
  <2> QED
    BY <1>1
<1>3. /\ list.shown \in Seq(Comments!Comment) /\ list.next \in Nat
      /\ list.busy \in Pagings \union {"no"} /\ list.count \in Nat /\ list.horizon \in Nat
      /\ list.own \subseteq Nat
  BY <1>1 DEF ListRow
<1> QED
  BY <1>1, <1>2, <1>3

\* No page is under way while none is marked.
LEMMA NoPage ==
  ASSUME ReadNow, list.busy = "no"
  PROVE  \A i \in DOMAIN calls : calls[i].what \notin Pagings
BY DEF ReadNow, CallFits, Pagings

\* A call that is sent: a page where none is under way, or a post.
LEMMA ReadSent ==
  ASSUME ReadNow, NEW what \in Pagings \union Postings, NEW text \in Nat, NEW cursor \in Nat,
         Comments!Sent(what, text, cursor), stored' = stored,
         list'.shown = list.shown, list'.next = list.next, list'.horizon = list.horizon,
         list'.own = list.own, list'.astray = list.astray,
         ListFits(client, kind, list', stored), Folded(client, kind, list) => Folded(client, kind, list'),
         what \in Pagings => list.busy = "no" /\ list'.busy = what,
         what \notin Pagings => list'.busy = list.busy,
         what = "first" => cursor = 0, what = "more" => cursor = list.next /\ list.next # 0
  PROVE  ReadKept
<1>0. CommentsTyped
  BY DEF ReadNow
<1>1. /\ DOMAIN calls' = 1 .. Len(calls) + 1
      /\ \A i \in DOMAIN calls : i \in DOMAIN calls' /\ i # Len(calls) + 1 /\ calls'[i] = calls[i]
      /\ calls'[Len(calls) + 1] = Comments!Call(what, text, cursor)
      /\ \A i \in DOMAIN calls' : i \in DOMAIN calls \/ i = Len(calls) + 1
  BY <1>0, CallsGrow
<1>2. what \in Pagings => \A i \in DOMAIN calls : calls[i].what \notin Pagings
  BY NoPage
<1>3. OneReview(kind, stored') /\ ListFits(client, kind, list', stored')
  BY DEF ReadNow
<1>4. ~list'.astray => InReach(client, kind, list')
  BY SameReach DEF ReadNow
<1>5. /\ Comments!Call(what, text, cursor).what = what /\ Comments!Call(what, text, cursor).done = "no"
      /\ Comments!Call(what, text, cursor).cursor = cursor
  BY DEF Comments!Call
<1>6. OnePage(list', calls')
  <2>0. OnePage(list, calls)
    BY DEF ReadNow
  <2>a. Len(calls) + 1 \in DOMAIN calls'
    <3>1. Len(calls) \in Nat
      BY <1>0 DEF CommentsTyped
    <3> QED
      BY <1>1, <3>1
  <2>1. CASE what \in Pagings
    BY <1>1, <1>2, <1>5, <2>1, <2>a DEF OnePage
  <2>2. CASE what \notin Pagings
    <3>1. \A i \in DOMAIN calls' : calls'[i].what \in Pagings => i \in DOMAIN calls /\ calls[i].what \in Pagings
      BY <1>1, <1>5, <2>2
    <3>2. list.busy # "no" => \E i \in DOMAIN calls' : calls'[i].what = list.busy
      BY <1>1, <2>0 DEF OnePage
    <3> QED
      BY <2>0, <2>2, <3>1, <3>2 DEF OnePage
  <2> QED
    BY <2>1, <2>2
<1>7. \A i \in DOMAIN calls' : CallFits(kind, list', calls'[i], stored')
  <2> SUFFICES ASSUME NEW i \in DOMAIN calls' PROVE CallFits(kind, list', calls'[i], stored)
    OBVIOUS
  <2>1. CASE i = Len(calls) + 1
    BY <1>1, <1>5, <2>1 DEF CallFits
  <2>2. CASE i \in DOMAIN calls
    <3>1. calls'[i] = calls[i] /\ CallFits(kind, list, calls[i], stored)
      BY <1>1, <2>2 DEF ReadNow
    <3>2. calls[i].what \in Pagings => list'.busy = list.busy
      BY <1>2, <2>2
    <3> QED
      BY <3>1, <3>2 DEF CallFits, Pagings
  <2> QED
    BY <1>1, <2>1, <2>2
<1> QED
  BY <1>3, <1>4, <1>6, <1>7 DEF ReadKept

\* Steps that change neither the rows, the calls nor what the list is made of.
LEMMA ReadAside ==
  ASSUME ReadNow, stored' = stored, calls' = calls,
         list' = list \/ list' = [list EXCEPT !.open = ~@]
  PROVE  ReadKept
<1>1. /\ list'.shown = list.shown /\ list'.next = list.next /\ list'.horizon = list.horizon
      /\ list'.own = list.own /\ list'.astray = list.astray /\ list'.busy = list.busy
      /\ list'.failed = list.failed /\ list'.known = list.known /\ list'.count = list.count
  BY DEF ReadNow, CommentsTyped, ListRow
<1>2. ListFits(client, kind, list', stored)
  BY <1>1, ZenonT(30) DEF ReadNow, ListFits
<1>3. ~list'.astray => InReach(client, kind, list')
  <2>1. Folded(client, kind, list) => Folded(client, kind, list')
    BY <1>1 DEF Folded
  <2> QED
    BY <1>1, <2>1, SameReach DEF ReadNow
<1>4. OnePage(list', calls)
  BY <1>1 DEF ReadNow, OnePage
<1>5. \A i \in DOMAIN calls : CallFits(kind, list', calls[i], stored)
  <2>1. \A c : CallFits(kind, list, c, stored) => CallFits(kind, list', c, stored)
    BY <1>1, Zenon DEF CallFits
  <2> QED
    BY <2>1 DEF ReadNow
<1> QED
  BY <1>2, <1>3, <1>4, <1>5 DEF ReadKept, ReadNow

\* What the user loads.
LEMMA ReadLoads ==
  ASSUME ReadNow, Comments!Retry \/ Comments!LoadMore \/ Comments!ToggleReplies
  PROVE  ReadKept
<1>0. /\ CommentsTyped /\ list.next \in Nat /\ list.count \in Nat /\ list \in ListRow
      /\ client \in {"web", "mobile"} /\ ListFits(client, kind, list, stored)
      /\ ~list.astray => InReach(client, kind, list)
  BY ListFacts DEF ReadNow, CommentsTyped
<1>a. \A b, f : LET m == [list EXCEPT !.busy = b, !.failed = f] IN
        /\ m.shown = list.shown /\ m.next = list.next /\ m.horizon = list.horizon
        /\ m.own = list.own /\ m.astray = list.astray /\ m.busy = b /\ m.failed = f
        /\ m.known = list.known /\ m.count = list.count
  BY <1>0 DEF ListRow
<1>1. CASE Comments!Retry
  <2> DEFINE m == [list EXCEPT !.busy = "first", !.failed = FALSE]
  <2>1. /\ "retry" \in Comments!Offers /\ list' = m /\ Comments!Sent("first", 0, 0) /\ stored' = stored
    BY <1>1 DEF Comments!Retry, Comments!Input, Comments!Touch
  <2>2. list.failed /\ kind # "replies" /\ list.busy = "no"
    BY <1>0, <2>1, OffersTell DEF ListFits
  <2>3. /\ m.shown = list.shown /\ m.next = list.next /\ m.horizon = list.horizon
        /\ m.own = list.own /\ m.astray = list.astray /\ m.busy = "first" /\ ~m.failed
    BY <1>a
  <2> HIDE DEF m
  <2>4. ListFits(client, kind, m, stored)
    BY <1>0, <2>2, <2>3 DEF ListFits
  <2>5. Folded(client, kind, list) => Folded(client, kind, m)
    BY <2>2 DEF Folded
  <2> QED
    BY <2>1, <2>2, <2>3, <2>4, <2>5, ReadSent DEF Pagings
<1>2. CASE Comments!LoadMore
  <2> DEFINE m == [list EXCEPT !.busy = "more"]
  <2>1. /\ "more" \in Comments!Offers /\ list' = m /\ Comments!Sent("more", 0, list.next) /\ stored' = stored
    BY <1>2 DEF Comments!LoadMore, Comments!Input, Comments!Touch
  <2>2. list.next # 0 /\ list.busy = "no" /\ ~list.failed
    BY <1>0, <2>1, OffersTell DEF ListFits, Comments!Web, Comments!Replies
  <2>3. /\ m.shown = list.shown /\ m.next = list.next /\ m.horizon = list.horizon
        /\ m.own = list.own /\ m.astray = list.astray /\ m.busy = "more" /\ m.failed = list.failed
        /\ m.known = list.known /\ m.count = list.count
    BY <1>0 DEF ListRow
  <2> HIDE DEF m
  <2>4. ListFits(client, kind, m, stored)
    BY <1>0, <2>2, <2>3 DEF ListFits
  <2>5. Folded(client, kind, list) => Folded(client, kind, m)
    BY <2>2, <2>3 DEF Folded
  <2> QED
    BY <1>0, <2>1, <2>2, <2>3, <2>4, <2>5, ReadSent DEF Pagings
<1>3. CASE Comments!ToggleReplies
  <2>1. "toggle" \in Comments!Offers /\ stored' = stored /\ (IF client = "web" THEN Comments!WebFolded ELSE Comments!MobileFolded)
    BY <1>3 DEF Comments!ToggleReplies, Comments!Input, Comments!Touch, Comments!Web
  <2>2. /\ kind = "replies" /\ (client = "web" => list.busy = "no")
        /\ (client = "mobile" /\ ~list.known) => list.count > 0
    BY <1>0, <2>1, OffersTell DEF Comments!Replies, Comments!Web, Comments!Mobile
  <2>3. CASE list' = [list EXCEPT !.open = ~@] /\ calls' = calls
    BY <2>1, <2>3, ReadAside
  <2>4. ASSUME Comments!Sent("first", 0, 0), list.busy = "no",
               NEW m, list' = m, m.shown = list.shown, m.next = list.next, m.horizon = list.horizon,
               m.own = list.own, m.astray = list.astray, m.busy = "first", m.failed = list.failed,
               m.count = list.count, list.count > 0, client = "mobile" => m.known
        PROVE  ReadKept
    <3>1. ListFits(client, kind, m, stored)
      <4>1. ~m.failed
        BY <1>0, <2>2, <2>4, Zenon DEF ListFits
      <4>2. IF client = "web" THEN m.count > 0 ELSE m.known
        BY <1>0, <2>4, Zenon
      <4>3. /\ m.horizon <= Len(stored) /\ m.own \subseteq 1 .. Len(stored) /\ m.next <= m.horizon
            /\ \A i \in DOMAIN m.shown : /\ m.shown[i].id \in (1 .. m.horizon) \union m.own
                                         /\ m.shown[i].mine = stored[m.shown[i].id].mine
        BY <1>0, <2>4, Zenon DEF ListFits
      <4> QED
        BY <4>1, <4>2, <4>3, Zenon DEF ListFits
    <3>2. Folded(client, kind, list) => Folded(client, kind, m)
      BY <2>4 DEF Folded
    <3> QED
      BY <2>1, <2>4, <3>1, <3>2, ReadSent DEF Pagings
  <2>5. CASE client = "web" /\ list' = [list EXCEPT !.busy = "first"] /\ Comments!Sent("first", 0, 0) /\ list.count # 0
    <3> DEFINE m == [list EXCEPT !.busy = "first"]
    <3>1. /\ m.shown = list.shown /\ m.next = list.next /\ m.horizon = list.horizon
          /\ m.own = list.own /\ m.astray = list.astray /\ m.busy = "first" /\ m.failed = list.failed
          /\ m.count = list.count
      BY <1>0 DEF ListRow
    <3>2. list' = m
      BY <2>5
    <3> HIDE DEF m
    <3>3. list.busy = "no"
      BY <2>2, <2>5, Zenon
    <3>4. list.count > 0
      BY <1>0, <2>5
    <3> QED
      BY <2>4, <2>5, <3>1, <3>2, <3>3, <3>4
  <2>6. CASE /\ client = "mobile" /\ Comments!Sent("first", 0, 0) /\ ~list.known
             /\ list' = [list EXCEPT !.open = TRUE, !.known = TRUE, !.busy = "first"]
    <3> DEFINE m == [list EXCEPT !.open = TRUE, !.known = TRUE, !.busy = "first"]
    <3>1. /\ m.shown = list.shown /\ m.next = list.next /\ m.horizon = list.horizon
          /\ m.own = list.own /\ m.astray = list.astray /\ m.busy = "first" /\ m.failed = list.failed
          /\ m.count = list.count /\ m.known
      BY <1>0 DEF ListRow
    <3>2. list' = m
      BY <2>6
    <3> HIDE DEF m
    <3>3. list.busy # "first" /\ list.next = 0
      <4>1. ~((kind = "replies" /\ (list.busy = "first" \/ list.next # 0)) /\ ~list.known)
        BY <1>0, <2>6, Zenon DEF ListFits
      <4> QED
        BY <2>2, <2>6, <4>1, Zenon
    <3>4. list.busy # "more"
      BY <3>3 DEF ReadNow, OnePage, CallFits
    <3>5. list.busy = "no"
      BY <3>3, <3>4, ListFacts, <1>0 DEF Pagings
    <3> QED
      BY <2>2, <2>4, <2>6, <3>1, <3>2, <3>5
  <2> QED
    BY <1>0, <2>1, <2>3, <2>5, <2>6 DEF Comments!WebFolded, Comments!MobileFolded
<1> QED
  BY <1>1, <1>2, <1>3
\* Steps that leave the list, and may add rows and change what the calls bring.
LEMMA ReadGrown ==
  ASSUME ReadNow, list' = list, stored' \in Seq(Comments!Comment), Len(stored) <= Len(stored'),
         \A i \in DOMAIN stored : stored'[i].mine = stored[i].mine,
         OneReview(kind, stored'), DOMAIN calls' = DOMAIN calls,
         \A i \in DOMAIN calls : /\ calls'[i].what \in Pagings \/ calls[i].what \in Pagings =>
                                      calls'[i].what = calls[i].what
                                 /\ calls'[i] = calls[i] \/ CallFits(kind, list, calls'[i], stored')
  PROVE  ReadKept
<1>0. CommentsTyped /\ stored \in Seq(Comments!Comment) /\ list.horizon \in Nat
      /\ \A i \in DOMAIN calls : calls[i] \in CallRow
  BY ListFacts DEF ReadNow
<1>1. /\ ListFits(client, kind, list, stored) => ListFits(client, kind, list, stored')
      /\ \A c \in CallRow : CallFits(kind, list, c, stored) => CallFits(kind, list, c, stored')
  BY <1>0, RowsGrow
<1>2. \A i \in DOMAIN calls : CallFits(kind, list, calls'[i], stored')
  BY <1>0, <1>1 DEF ReadNow
<1>3. OnePage(list, calls')
  <2>0. OnePage(list, calls) /\ list.busy \in Pagings \union {"no"}
    BY <1>0, ListFacts DEF ReadNow
  <2> QED
    BY <2>0 DEF OnePage
<1> QED
  BY <1>1, <1>2, <1>3 DEF ReadNow, ReadKept

\* What a post writes leaves a user with one review.
LEMMA ReadWritten ==
  ASSUME ReadNow, NEW text \in Nat, stored' = Comments!Written(text)
  PROVE  /\ stored' \in Seq(Comments!Comment) /\ Len(stored) <= Len(stored')
         /\ \A i \in DOMAIN stored : stored'[i].mine = stored[i].mine
         /\ OneReview(kind, stored')
         /\ Comments!OwnPlace \in DOMAIN stored' /\ stored'[Comments!OwnPlace].mine
         /\ kind # "reviews" => Comments!OwnPlace \notin list.own
<1> DEFINE p == Comments!OwnPlace
<1>0. CommentsTyped /\ ListFits(client, kind, list, stored) /\ OneReview(kind, stored)
  BY DEF ReadNow
<1>1. /\ stored' \in Seq(Comments!Comment) /\ Len(stored) <= Len(stored') /\ p \in DOMAIN stored'
      /\ stored'[p].mine /\ \A i \in DOMAIN stored : i \in DOMAIN stored' /\ stored'[i].mine = stored[i].mine
      /\ \A i \in DOMAIN stored' : i # p => i \in DOMAIN stored /\ stored'[i] = stored[i]
      /\ kind # "reviews" => p = Len(stored) + 1
      /\ (kind = "reviews" /\ Comments!OwnRows # {}) => p \in Comments!OwnRows
      /\ Len(stored) \in Nat
  BY <1>0, RowsWritten DEF Comments!Reviews
<1> HIDE DEF p
<1>2. OneReview(kind, stored')
  <2> SUFFICES ASSUME kind = "reviews", NEW i \in DOMAIN stored', NEW j \in DOMAIN stored',
                      stored'[i].mine, stored'[j].mine
               PROVE  i = j
    BY DEF OneReview
  <2>1. CASE Comments!OwnRows = {}
    <3>1. \A k \in DOMAIN stored : ~stored[k].mine
      BY <2>1 DEF Comments!OwnRows
    <3> QED
      BY <1>1, <3>1
  <2>2. CASE Comments!OwnRows # {}
    <3>1. p \in DOMAIN stored /\ stored[p].mine
      BY <1>1, <2>2 DEF Comments!OwnRows
    <3> QED
      BY <1>0, <1>1, <3>1 DEF OneReview
  <2> QED
    BY <2>1, <2>2
<1>3. kind # "reviews" => p \notin list.own
  <2>1. Len(stored) + 1 \notin 1 .. Len(stored)
    BY <1>1
  <2> QED
    BY <1>0, <1>1, <2>1 DEF ListFits
<1> QED
  BY <1>1, <1>2, <1>3 DEF p

\* What the server reads is what there is behind the cursor.
LEMMA ReadExecutes ==
  ASSUME ReadNow, NEW i \in DOMAIN calls, Comments!Execute(i)
  PROVE  ReadKept
<1> DEFINE c == calls[i]
<1>0. /\ CommentsTyped /\ c \in CallRow /\ CallFits(kind, list, c, stored)
      /\ c.what \in {"first", "more", "upload", "post"} /\ c.text \in Nat /\ c.cursor \in Nat
      /\ stored \in Seq(Comments!Comment) /\ Len(stored) \in Nat
      /\ ListFits(client, kind, list, stored) /\ OneReview(kind, stored)
      /\ list.horizon \in Nat /\ list.own \subseteq Nat
  <2>1. \A r \in CallRow : r.what \in {"first", "more", "upload", "post"} /\ r.text \in Nat /\ r.cursor \in Nat
    BY DEF CallRow, Pagings, Postings
  <2>2. CommentsTyped /\ CallFits(kind, list, c, stored) /\ ListFits(client, kind, list, stored) /\ OneReview(kind, stored)
    BY DEF ReadNow
  <2>3. c \in CallRow /\ stored \in Seq(Comments!Comment) /\ list.horizon \in Nat /\ list.own \subseteq Nat
    BY <2>2, ListFacts
  <2> HIDE DEF c
  <2> QED
    BY <2>1, <2>2, <2>3
<1>1. list' = list /\ c.done = "no" /\ client' = client /\ kind' = kind
  BY DEF Comments!Execute, Comments!setting
<1>2. \A d : calls' = [calls EXCEPT ![i] = d] => /\ DOMAIN calls' = DOMAIN calls /\ calls'[i] = d
                                               /\ \A j \in DOMAIN calls : j # i => calls'[j] = calls[j]
  OBVIOUS
<1>3. ASSUME NEW d, calls' = [calls EXCEPT ![i] = d], d.what = c.what, stored' = stored,
             CallFits(kind, list, d, stored)
      PROVE  ReadKept
  <2>1. /\ DOMAIN calls' = DOMAIN calls /\ calls'[i] = d
        /\ \A j \in DOMAIN calls : j # i => calls'[j] = calls[j]
    BY <1>2, <1>3
  <2>2. Len(stored) <= Len(stored')
    BY <1>0, <1>3
  <2> QED
    BY <1>0, <1>1, <1>3, <2>1, <2>2, ReadGrown
<1>4. CASE c.what \in {"first", "more"}
  <2> DEFINE d == [c EXCEPT !.done = "yes", !.page = Comments!PageAfter(c.cursor), !.horizon = Len(stored)]
  <2>1. calls' = [calls EXCEPT ![i] = d] /\ stored' = stored
    BY <1>4 DEF Comments!Execute
  <2>2. /\ d.what = c.what /\ d.cursor = c.cursor /\ d.page = Comments!PageAfter(c.cursor)
        /\ d.horizon = Len(stored)
    BY <1>0 DEF CallRow
  <2> HIDE DEF d
  <2>3. PageFits(kind, d, stored)
    BY <1>0, <2>2, PageIs DEF ReadNow
  <2>4. list.own \subseteq 1 .. d.horizon /\ list.horizon <= d.horizon
    BY <1>0, <2>2 DEF ListFits
  <2>5. CallFits(kind, list, d, stored)
    BY <1>0, <1>4, <2>2, <2>3, <2>4 DEF CallFits
  <2> QED
    BY <1>3, <2>1, <2>2, <2>5
<1>5. CASE c.what = "upload" \/ (c.what = "post" /\ ~Comments!Accepts)
  <2>1. PICK b \in {"yes", "refused"} :
          /\ calls' = [calls EXCEPT ![i] = [c EXCEPT !.done = b]] /\ stored' = stored
          /\ c.what = "post" => b = "refused"
    <3>1. CASE c.what = "upload"
      BY <3>1 DEF Comments!Execute
    <3>2. CASE c.what = "post"
      BY <1>5, <3>2 DEF Comments!Execute
    <3> QED
      BY <1>5, <3>1, <3>2
  <2> DEFINE d == [c EXCEPT !.done = b]
  <2>2. d.what = c.what /\ d.done = b
    BY <1>0 DEF CallRow
  <2>3. calls' = [calls EXCEPT ![i] = d]
    BY <2>1
  <2> HIDE DEF d
  <2>4. CallFits(kind, list, d, stored)
    BY <1>5, <2>1, <2>2 DEF CallFits, Pagings
  <2> QED
    BY <1>3, <2>1, <2>2, <2>3, <2>4
<1>6. CASE c.what = "post" /\ Comments!Accepts
  <2> DEFINE d == [c EXCEPT !.done = "yes", !.id = Comments!OwnPlace]
  <2>1. calls' = [calls EXCEPT ![i] = d] /\ stored' = Comments!Written(c.text)
    BY <1>6 DEF Comments!Execute
  <2>2. d.what = "post" /\ d.done = "yes" /\ d.id = Comments!OwnPlace
    BY <1>0, <1>6 DEF CallRow
  <2> HIDE DEF d
  <2>3. /\ stored' \in Seq(Comments!Comment) /\ Len(stored) <= Len(stored')
        /\ \A k \in DOMAIN stored : stored'[k].mine = stored[k].mine
        /\ OneReview(kind, stored')
        /\ Comments!OwnPlace \in DOMAIN stored' /\ stored'[Comments!OwnPlace].mine
        /\ kind # "reviews" => Comments!OwnPlace \notin list.own
    BY <1>0, <2>1, ReadWritten
  <2>4. CallFits(kind, list, d, stored')
    BY <2>2, <2>3 DEF CallFits, Pagings
  <2>5. /\ DOMAIN calls' = DOMAIN calls /\ calls'[i] = d
        /\ \A j \in DOMAIN calls : j # i => calls'[j] = calls[j]
    BY <1>2, <2>1
  <2>6. \A j \in DOMAIN calls : /\ calls'[j].what \in Pagings \/ calls[j].what \in Pagings =>
                                      calls'[j].what = calls[j].what
                                /\ calls'[j] = calls[j] \/ CallFits(kind, list, calls'[j], stored')
    BY <1>6, <2>2, <2>4, <2>5
  <2> QED
    BY <1>1, <2>3, <2>5, <2>6, ReadGrown
<1> QED
  BY <1>0, <1>4, <1>5, <1>6

\* What a panel that is gone posts does not disturb what is shown.
LEMMA ReadAbandoned ==
  ASSUME ReadNow, NEW text \in abandoned, Comments!PostAbandoned(text)
  PROVE  ReadKept
<1>0. /\ CommentsTyped /\ text \in Nat /\ stored \in Seq(Comments!Comment)
      /\ \A i \in DOMAIN calls : calls[i] \in CallRow
  BY ListFacts DEF ReadNow, CommentsTyped
<1>1. list' = list
  BY DEF Comments!PostAbandoned
<1>2. CASE ~Comments!Accepts
  BY <1>1, <1>2, ReadAside DEF Comments!PostAbandoned
<1>3. CASE Comments!Accepts
  <2>1. /\ stored' = Comments!Written(text) /\ DOMAIN calls' = DOMAIN calls
        /\ \A i \in DOMAIN calls :
             calls'[i] = [calls[i] EXCEPT !.raced = @ \/ (Comments!Reviews /\ calls[i].what = "post"
                                                          /\ calls[i].done = "yes")]
    BY <1>3 DEF Comments!PostAbandoned
  <2>2. /\ stored' \in Seq(Comments!Comment) /\ Len(stored) <= Len(stored')
        /\ \A k \in DOMAIN stored : stored'[k].mine = stored[k].mine
        /\ OneReview(kind, stored')
    BY <1>0, <2>1, ReadWritten
  <2>3. /\ ListFits(client, kind, list, stored) => ListFits(client, kind, list, stored')
        /\ \A c \in CallRow : CallFits(kind, list, c, stored) => CallFits(kind, list, c, stored')
    BY <1>0, <2>2, RowsGrow, ListFacts
  <2>4. \A i \in DOMAIN calls : /\ calls'[i].what = calls[i].what
                                /\ calls'[i] = calls[i] \/ CallFits(kind, list, calls'[i], stored')
    <3> TAKE i \in DOMAIN calls
    <3> DEFINE c == calls[i]
               d == [c EXCEPT !.raced = @ \/ (Comments!Reviews /\ c.what = "post" /\ c.done = "yes")]
    <3>1. calls'[i] = d /\ c \in CallRow
      BY <1>0, <2>1
    <3>2. d.what = c.what /\ d.done = c.done /\ d.id = c.id
      BY <3>1 DEF CallRow
    <3>3. c.what # "post" => d = c
      BY <3>1 DEF CallRow
    <3> HIDE DEF d
    <3>4. c.what = "post" => CallFits(kind, list, d, stored')
      BY <2>3, <3>1, <3>2 DEF CallFits, ReadNow, Pagings
    <3> QED
      BY <3>1, <3>2, <3>3, <3>4
  <2> QED
    BY <1>1, <2>1, <2>2, <2>4, ReadGrown
<1> QED
  BY <1>2, <1>3

\* What others write is behind what was read.
LEMMA ReadOthers ==
  ASSUME ReadNow, Comments!OthersWrite
  PROVE  ReadKept
<1> DEFINE r == [id |-> Len(stored) + 1, mine |-> FALSE, text |-> 0]
<1>0. stored \in Seq(Comments!Comment) /\ OneReview(kind, stored) /\ r \in Comments!Comment
      /\ stored' = Append(stored, r) /\ list' = list /\ calls' = calls /\ ~r.mine
  <2>1. Len(stored) \in Nat
    BY ListFacts DEF ReadNow
  <2> QED
    BY <2>1, ListFacts DEF ReadNow, Comments!OthersWrite, Comments!Comment
<1> HIDE DEF r
<1>1. /\ stored' \in Seq(Comments!Comment) /\ DOMAIN stored' = 1 .. Len(stored) + 1
      /\ \A j \in DOMAIN stored : j \in DOMAIN stored' /\ stored'[j] = stored[j]
      /\ \A j \in DOMAIN stored' : j \in DOMAIN stored \/ stored'[j] = r
  BY <1>0, Added
<1>2. Len(stored) <= Len(stored')
  BY <1>0
<1>3. OneReview(kind, stored')
  BY <1>0, <1>1 DEF OneReview
<1> QED
  BY <1>0, <1>1, <1>2, <1>3, ReadGrown DEF ReadNow

\* The page under way has come, or is lost: the posts stay.
LEMMA ReadShrunk ==
  ASSUME ReadNow, NEW i \in DOMAIN calls, calls[i].what \in Pagings,
         calls' = Comments!RemoveAt(calls, i), stored' = stored,
         list'.own = list.own, list'.busy = "no",
         ListFits(client, kind, list', stored), ~list'.astray => InReach(client, kind, list')
  PROVE  ReadKept
<1>1. /\ \A j \in DOMAIN calls' : Former(i, j) \in DOMAIN calls \ {i} /\ calls'[j] = calls[Former(i, j)]
  BY CallsShrink DEF ReadNow
<1>2. \A j \in DOMAIN calls \ {i} : calls[j].what \notin Pagings
  BY DEF ReadNow, OnePage
<1>3. \A j \in DOMAIN calls' : calls'[j].what \notin Pagings
  BY <1>1, <1>2
<1>4. OnePage(list', calls')
  BY <1>3 DEF OnePage
<1>5. \A j \in DOMAIN calls' : CallFits(kind, list', calls'[j], stored')
  <2> TAKE j \in DOMAIN calls'
  <2>1. CallFits(kind, list, calls'[j], stored)
    BY <1>1 DEF ReadNow
  <2> QED
    BY <1>3, <2>1, PostFits
<1> QED
  BY <1>4, <1>5 DEF ReadNow, ReadKept

\* What comes behind a cursor is ordered.
LEMMA BehindIs ==
  ASSUME NEW k
  PROVE  /\ \A i, j : i \in Nat /\ j \in Nat /\ j # 0 => (Behind(k, i, j) <=> IF k = "replies" THEN i > j ELSE i < j)
         /\ \A i : Behind(k, i, 0)
BY DEF Behind

\* A first page that nothing has overtaken shows all there was, or leads to it.
LEMMA FirstPageFits ==
  ASSUME NEW w, NEW k, NEW l, NEW s \in Seq(Comments!Comment), NEW c \in CallRow, NEW m,
         c.what = "first", c.done = "yes", CallFits(k, l, c, s), ListFits(w, k, l, s),
         m.shown = c.page.items, m.next = c.page.next, m.busy = "no", ~m.failed,
         m.horizon = c.horizon, m.own = l.own, m.count = l.count, m.known = l.known, l.busy = "first"
  PROVE  /\ ListFits(w, k, m, s)
         /\ ~c.raced => InReach(w, k, m)
<1>0. c.page.items \in Seq(Comments!Comment) /\ c.page.next \in Nat /\ c.horizon \in Nat
  BY DEF CallRow
<1>1. c.cursor = 0 /\ PageFits(k, c, s) /\ (~c.raced => l.own \subseteq 1 .. c.horizon)
  BY DEF CallFits, Pagings
<1>2. /\ c.horizon <= Len(s)
      /\ \A i \in DOMAIN m.shown : m.shown[i].id \in 1 .. c.horizon /\ m.shown[i].mine = s[m.shown[i].id].mine
      /\ \A i, j \in DOMAIN m.shown : i < j => Behind(k, m.shown[j].id, m.shown[i].id)
      /\ m.next # 0 => /\ m.shown # <<>> /\ m.next \in 1 .. c.horizon
                       /\ \A i \in DOMAIN m.shown : ~Behind(k, m.shown[i].id, m.next)
      /\ \A id \in 1 .. c.horizon :
           (\E i \in DOMAIN m.shown : m.shown[i].id = id) \/ (m.next # 0 /\ Behind(k, id, m.next))
  BY <1>1, BehindIs DEF PageFits
<1>3. ListFits(w, k, m, s)
  <2>1. m.horizon <= Len(s) /\ m.own \subseteq 1 .. Len(s) /\ m.next <= m.horizon
    BY <1>0, <1>2 DEF ListFits
  <2>2. k = "replies" => IF w = "web" THEN m.count > 0 ELSE m.known
    BY Zenon DEF ListFits
  <2>3. \A i \in DOMAIN m.shown : /\ m.shown[i].id \in (1 .. m.horizon) \union m.own
                                  /\ m.shown[i].mine = s[m.shown[i].id].mine
    BY <1>2
  <2> QED
    BY <2>1, <2>2, <2>3, Zenon DEF ListFits
<1>4. ~c.raced => InReach(w, k, m)
  <2> SUFFICES ASSUME ~c.raced PROVE InReach(w, k, m)
    OBVIOUS
  <2>1. \A id \in (1 .. m.horizon) \union m.own :
          (\E i \in DOMAIN m.shown : m.shown[i].id = id) \/ (m.next # 0 /\ Behind(k, id, m.next))
    BY <1>1, <1>2
  <2>2. \A i, j \in DOMAIN m.shown : i < j =>
          m.shown[i].id # m.shown[j].id /\ Behind(k, m.shown[j].id, m.shown[i].id)
    <3> SUFFICES ASSUME NEW i \in DOMAIN m.shown, NEW j \in DOMAIN m.shown, i < j
                 PROVE  m.shown[i].id # m.shown[j].id /\ Behind(k, m.shown[j].id, m.shown[i].id)
      OBVIOUS
    <3>1. m.shown[i].id \in 1 .. c.horizon /\ Behind(k, m.shown[j].id, m.shown[i].id)
      BY <1>2
    <3> QED
      BY <3>1, <1>0 DEF Behind
  <2> QED
    BY <1>2, <2>1, <2>2, Zenon DEF InReach
<1> QED
  BY <1>3, <1>4

\* A later page continues what is shown.
LEMMA LaterPageFits ==
  ASSUME NEW w, NEW k, NEW l, NEW s \in Seq(Comments!Comment), NEW c \in CallRow, NEW m,
         c.what = "more", c.done = "yes", CallFits(k, l, c, s), ListFits(w, k, l, s),
         l.shown \in Seq(Comments!Comment), l.next \in Nat, l.horizon \in Nat,
         m.shown = l.shown \o c.page.items, m.next = c.page.next, m.busy = "no", m.failed = l.failed,
         m.horizon = IF k = "replies" THEN c.horizon ELSE l.horizon,
         m.own = l.own, m.count = l.count, m.known = l.known
  PROVE  /\ ListFits(w, k, m, s)
         /\ (InReach(w, k, l) /\ (k = "replies" => l.own \subseteq 1 .. c.horizon)) => InReach(w, k, m)
<1> DEFINE items == c.page.items
           n == Len(l.shown)
<1>0. items \in Seq(Comments!Comment) /\ c.page.next \in Nat /\ c.horizon \in Nat /\ n \in Nat /\ Len(items) \in Nat
      /\ m.horizon \in Nat /\ Len(s) \in Nat
  BY DEF CallRow
<1>1. /\ c.cursor = l.next /\ l.next # 0 /\ l.horizon <= c.horizon /\ PageFits(k, c, s)
      /\ l.next <= l.horizon
  BY DEF CallFits, Pagings, ListFits
<1>2. /\ c.horizon <= Len(s)
      /\ \A i \in DOMAIN items : items[i].id \in 1 .. c.horizon /\ items[i].mine = s[items[i].id].mine
                                 /\ Behind(k, items[i].id, l.next)
      /\ \A i, j \in DOMAIN items : i < j => Behind(k, items[j].id, items[i].id)
      /\ m.next # 0 => /\ items # <<>> /\ m.next \in 1 .. c.horizon /\ Behind(k, m.next, l.next)
                       /\ \A i \in DOMAIN items : ~Behind(k, items[i].id, m.next)
      /\ \A id \in 1 .. c.horizon : Behind(k, id, l.next) =>
           (\E i \in DOMAIN items : items[i].id = id) \/ (m.next # 0 /\ Behind(k, id, m.next))
  BY <1>1 DEF PageFits
<1>3. /\ m.shown \in Seq(Comments!Comment) /\ DOMAIN m.shown = 1 .. n + Len(items)
      /\ DOMAIN l.shown = 1 .. n /\ DOMAIN items = 1 .. Len(items)
      /\ \A i \in DOMAIN l.shown : i \in DOMAIN m.shown /\ m.shown[i] = l.shown[i]
      /\ \A i \in DOMAIN items : n + i \in DOMAIN m.shown /\ m.shown[n + i] = items[i]
      /\ \A i \in DOMAIN m.shown : i \notin DOMAIN l.shown => i - n \in DOMAIN items /\ m.shown[i] = items[i - n]
  <2>1. /\ l.shown \o items \in Seq(Comments!Comment) /\ Len(l.shown \o items) = n + Len(items)
        /\ \A i \in 1 .. n + Len(items) : (l.shown \o items)[i] = IF i <= n THEN l.shown[i] ELSE items[i - n]
    BY <1>0, ConcatProperties
  <2> HIDE DEF items
  <2>2. m.shown = l.shown \o items
    BY DEF items
  <2>3. DOMAIN m.shown = 1 .. n + Len(items) /\ DOMAIN l.shown = 1 .. n /\ DOMAIN items = 1 .. Len(items)
    BY <1>0, <2>1, <2>2
  <2>4. \A i \in 1 .. n : i \in 1 .. n + Len(items) /\ i <= n
    BY <1>0
  <2>5. \A i \in 1 .. Len(items) : n + i \in 1 .. n + Len(items) /\ ~(n + i <= n) /\ (n + i) - n = i
    BY <1>0
  <2>6. \A i \in 1 .. n + Len(items) : i \notin 1 .. n => i - n \in 1 .. Len(items) /\ ~(i <= n)
    BY <1>0
  <2> QED
    BY <2>1, <2>2, <2>3, <2>4, <2>5, <2>6
<1> HIDE DEF items
<1>4. \A i \in DOMAIN l.shown : l.shown[i].id \in (1 .. l.horizon) \union l.own
                                /\ l.shown[i].mine = s[l.shown[i].id].mine
  BY DEF ListFits
<1>5. /\ m.next <= m.horizon /\ m.horizon <= Len(s) /\ l.horizon <= m.horizon
      /\ \A i \in DOMAIN items : items[i].id \in 1 .. m.horizon
  <2>1. l.horizon <= Len(s)
    BY DEF ListFits
  <2>2. CASE k = "replies"
    BY <1>0, <1>1, <1>2, <2>2
  <2>3. CASE k # "replies"
    <3>1. m.next = 0 \/ m.next < l.next
      BY <1>0, <1>1, <1>2, <2>3 DEF Behind
    <3>2. \A i \in DOMAIN items : items[i].id \in 1 .. c.horizon /\ items[i].id < l.next
      BY <1>0, <1>1, <1>2, <2>3 DEF Behind
    <3> QED
      BY <1>0, <1>1, <2>1, <2>3, <3>1, <3>2
  <2> QED
    BY <2>2, <2>3
<1>6. ListFits(w, k, m, s)
  <2>1. m.own \subseteq 1 .. Len(s)
    BY DEF ListFits
  <2>2. \A i \in DOMAIN m.shown : /\ m.shown[i].id \in (1 .. m.horizon) \union m.own
                                  /\ m.shown[i].mine = s[m.shown[i].id].mine
    <3> TAKE i \in DOMAIN m.shown
    <3>1. CASE i \in DOMAIN l.shown
      <4>1. 1 .. l.horizon \subseteq 1 .. m.horizon
        BY <1>0, <1>5
      <4> QED
        BY <1>3, <1>4, <3>1, <4>1
    <3>2. CASE i \notin DOMAIN l.shown
      <4>1. i - n \in DOMAIN items /\ m.shown[i] = items[i - n]
        BY <1>3, <3>2
      <4> QED
        BY <1>2, <1>5, <4>1
    <3> QED
      BY <3>1, <3>2
  <2>3. k = "replies" => IF w = "web" THEN m.count > 0 ELSE m.known
    BY <1>1, Zenon DEF ListFits
  <2>4. m.failed => m.busy = "no" /\ w = "web" /\ k # "replies"
    BY Zenon DEF ListFits
  <2> QED
    BY <1>5, <2>1, <2>2, <2>3, <2>4, Zenon DEF ListFits
<1>7. ASSUME InReach(w, k, l), k = "replies" => l.own \subseteq 1 .. c.horizon
      PROVE  InReach(w, k, m)
  <2>0. /\ l.shown # <<>> /\ \A i \in DOMAIN l.shown : ~Behind(k, l.shown[i].id, l.next) /\ l.shown[i].id \in Nat
        /\ \A id \in (1 .. l.horizon) \union l.own :
             (\E i \in DOMAIN l.shown : l.shown[i].id = id) \/ Behind(k, id, l.next)
    <3>1. \A i \in DOMAIN l.shown : l.shown[i] \in Comments!Comment
      OBVIOUS
    <3>2. \A i \in DOMAIN l.shown : l.shown[i].id \in Nat
      BY <3>1 DEF Comments!Comment
    <3> QED
      BY <1>1, <1>7, <3>2 DEF InReach, Folded
  <2>1. \A id \in (1 .. m.horizon) \union m.own :
          (\E i \in DOMAIN m.shown : m.shown[i].id = id) \/ (m.next # 0 /\ Behind(k, id, m.next))
    <3> TAKE id \in (1 .. m.horizon) \union m.own
    <3>1. Behind(k, id, l.next) => id \in 1 .. c.horizon
      <4>1. CASE k = "replies"
        BY <1>7, <4>1
      <4>2. CASE k # "replies"
        <5>1. id \in 1 .. Len(s)
          <6>1. l.own \subseteq 1 .. Len(s) /\ 1 .. l.horizon \subseteq 1 .. Len(s)
            BY <1>0 DEF ListFits
          <6> QED
            BY <4>2, <6>1
        <5> QED
          BY <1>0, <1>1, <4>2, <5>1 DEF Behind
      <4> QED
        BY <4>1, <4>2
    <3>2. CASE Behind(k, id, l.next)
      <4>1. (\E i \in DOMAIN items : items[i].id = id) \/ (m.next # 0 /\ Behind(k, id, m.next))
        BY <1>2, <3>1, <3>2
      <4>2. \A i \in DOMAIN items : items[i].id = id => \E j \in DOMAIN m.shown : m.shown[j].id = id
        BY <1>3
      <4> QED
        BY <4>1, <4>2
    <3>3. CASE ~Behind(k, id, l.next)
      <4>1. id \in (1 .. l.horizon) \union l.own
        <5>1. CASE k = "replies"
          BY <1>0, <1>1, <3>3, <5>1 DEF Behind
        <5>2. CASE k # "replies"
          BY <5>2
        <5> QED
          BY <5>1, <5>2
      <4> QED
        BY <1>3, <2>0, <3>3, <4>1
    <3> QED
      BY <3>2, <3>3
  <2>2. ASSUME NEW i \in DOMAIN m.shown, NEW j \in DOMAIN m.shown, i < j
        PROVE  /\ m.shown[i].id # m.shown[j].id
               /\ ~m.shown[i].mine /\ ~m.shown[j].mine => Behind(k, m.shown[j].id, m.shown[i].id)
    <3>1. CASE j \in DOMAIN l.shown
      <4>1. i \in DOMAIN l.shown
        BY <1>0, <1>3, <2>2, <3>1
      <4> QED
        <5>1. m.shown[i] = l.shown[i] /\ m.shown[j] = l.shown[j]
          BY <1>3, <3>1, <4>1
        <5>2. /\ l.shown[i].id # l.shown[j].id
              /\ ~l.shown[i].mine /\ ~l.shown[j].mine => Behind(k, l.shown[j].id, l.shown[i].id)
          BY <1>7, <2>2, <3>1, <4>1, Zenon DEF InReach
        <5> QED
          BY <5>1, <5>2
    <3>2. CASE j \notin DOMAIN l.shown
      <4>1. j - n \in DOMAIN items /\ m.shown[j] = items[j - n]
        BY <1>3, <3>2
      <4>2. m.shown[j].id \in Nat /\ m.shown[j].id # 0 /\ Behind(k, m.shown[j].id, l.next)
        BY <1>0, <1>2, <4>1
      <4>3. CASE i \in DOMAIN l.shown
        <5>1. m.shown[i].id \in Nat /\ ~Behind(k, m.shown[i].id, l.next)
          BY <1>3, <2>0, <4>3
        <5> DEFINE x == m.shown[i].id
                   y == m.shown[j].id
        <5>2. x \in Nat /\ y \in Nat /\ ~Behind(k, x, l.next) /\ Behind(k, y, l.next) /\ l.next # 0
          BY <1>1, <4>2, <5>1
        <5> HIDE DEF x, y
        <5>3. x # y /\ Behind(k, y, x)
          BY <5>2 DEF Behind
        <5> QED
          BY <5>3 DEF x, y
      <4>4. CASE i \notin DOMAIN l.shown
        <5>0. i \in 1 .. n + Len(items) /\ j \in 1 .. n + Len(items) /\ i < j
          BY <1>3, <2>2
        <5>1. i - n \in DOMAIN items /\ m.shown[i] = items[i - n]
          BY <1>3, <4>4
        <5>3. i - n < j - n
          BY <1>0, <5>0
        <5>2. Behind(k, m.shown[j].id, m.shown[i].id) /\ m.shown[i].id \in Nat /\ m.shown[i].id # 0
          BY <1>0, <1>2, <4>1, <5>1, <5>3, SMTT(30)
        <5> QED
          BY <4>2, <5>2, SMTT(30) DEF Behind
      <4> QED
        BY <4>3, <4>4
    <3> QED
      BY <3>1, <3>2
  <2>3. m.next # 0 => m.shown # <<>> /\ \A i \in DOMAIN m.shown : ~Behind(k, m.shown[i].id, m.next)
    <3> SUFFICES ASSUME m.next # 0
                 PROVE  m.shown # <<>> /\ \A i \in DOMAIN m.shown : ~Behind(k, m.shown[i].id, m.next)
      OBVIOUS
    <3>1. /\ items # <<>> /\ m.next \in Nat /\ Behind(k, m.next, l.next)
          /\ \A i \in DOMAIN items : ~Behind(k, items[i].id, m.next)
      BY <1>0, <1>2
    <3>2. m.shown # <<>>
      <4>1. 1 \in DOMAIN items
        BY <1>0, <3>1
      <4>2. n + 1 \in DOMAIN m.shown
        BY <1>3, <4>1
      <4>3. m.shown = <<>> => DOMAIN m.shown = 1 .. 0
        OBVIOUS
      <4> QED
        <5>1. n + 1 \notin 1 .. 0
          BY <1>0
        <5> QED
          BY <4>2, <4>3, <5>1, Zenon
    <3>3. \A i \in DOMAIN m.shown : ~Behind(k, m.shown[i].id, m.next)
      <4> TAKE i \in DOMAIN m.shown
      <4>1. CASE i \in DOMAIN l.shown
        <5>1. m.shown[i].id \in Nat /\ ~Behind(k, m.shown[i].id, l.next)
          BY <1>3, <2>0, <4>1
        <5> QED
          BY <3>1, <5>1, <1>1 DEF Behind
      <4>2. CASE i \notin DOMAIN l.shown
        BY <1>3, <3>1, <4>2
      <4> QED
        BY <4>1, <4>2
    <3> QED
      BY <3>2, <3>3
  <2> QED
    BY <2>1, <2>2, <2>3 DEF InReach
<1> QED
  BY <1>6, <1>7

\* A list that an own comment is put into, once and without disturbing the others.
LEMMA JoinFits ==
  ASSUME NEW w, NEW k, NEW l, NEW m, NEW c, NEW f, InReach(w, k, l), ~Folded(w, k, l), c.mine,
         m.horizon = l.horizon, m.next = l.next, m.own = l.own \union {c.id},
         l.next # 0 => ~Behind(k, c.id, l.next),
         \A j \in DOMAIN m.shown :
           \/ f[j] = 0 /\ m.shown[j].id = c.id /\ m.shown[j].mine
           \/ /\ f[j] # 0 /\ f[j] \in DOMAIN l.shown
              /\ m.shown[j] = l.shown[f[j]] /\ l.shown[f[j]].id # c.id,
         \E j \in DOMAIN m.shown : f[j] = 0,
         \A i, j \in DOMAIN m.shown : f[i] = 0 /\ f[j] = 0 => i = j,
         \A i, j \in DOMAIN m.shown : f[i] # 0 /\ f[j] # 0 /\ i < j => f[i] < f[j],
         \A i \in DOMAIN l.shown : l.shown[i].id = c.id \/ \E j \in DOMAIN m.shown : f[j] = i /\ f[j] # 0,
         \A i, j \in DOMAIN m.shown : i < j => i # j
  PROVE  InReach(w, k, m)
<1>1. \A id \in (1 .. m.horizon) \union m.own :
        (\E j \in DOMAIN m.shown : m.shown[j].id = id) \/ (m.next # 0 /\ Behind(k, id, m.next))
  <2> TAKE id \in (1 .. m.horizon) \union m.own
  <2>1. CASE id = c.id
    BY <2>1
  <2>2. CASE id # c.id
    <3>1. id \in (1 .. l.horizon) \union l.own
      BY <2>2
    <3>2. (\E i \in DOMAIN l.shown : l.shown[i].id = id) \/ (l.next # 0 /\ Behind(k, id, l.next))
      BY <3>1, Zenon DEF InReach
    <3>3. ASSUME NEW i \in DOMAIN l.shown, l.shown[i].id = id
          PROVE  \E j \in DOMAIN m.shown : m.shown[j].id = id
      <4>1. PICK j \in DOMAIN m.shown : f[j] = i /\ f[j] # 0
        BY <2>2, <3>3
      <4> QED
        BY <3>3, <4>1
    <3> QED
      BY <3>2, <3>3
  <2> QED
    BY <2>1, <2>2
<1>2. ASSUME NEW i \in DOMAIN m.shown, NEW j \in DOMAIN m.shown, i < j
      PROVE  /\ m.shown[i].id # m.shown[j].id
             /\ ~m.shown[i].mine /\ ~m.shown[j].mine => Behind(k, m.shown[j].id, m.shown[i].id)
  <2>1. CASE f[i] = 0
    <3>1. f[j] # 0
      BY <1>2, <2>1
    <3> QED
      BY <2>1, <3>1
  <2>2. CASE f[i] # 0 /\ f[j] = 0
    BY <2>2
  <2>3. CASE f[i] # 0 /\ f[j] # 0
    <3>1. /\ f[i] \in DOMAIN l.shown /\ f[j] \in DOMAIN l.shown /\ f[i] < f[j]
          /\ m.shown[i] = l.shown[f[i]] /\ m.shown[j] = l.shown[f[j]]
      BY <1>2, <2>3
    <3>2. /\ l.shown[f[i]].id # l.shown[f[j]].id
          /\ ~l.shown[f[i]].mine /\ ~l.shown[f[j]].mine => Behind(k, l.shown[f[j]].id, l.shown[f[i]].id)
      BY <3>1, Zenon DEF InReach
    <3> QED
      BY <3>1, <3>2
  <2> QED
    BY <2>1, <2>2, <2>3
<1>3. m.next # 0 => m.shown # <<>> /\ \A i \in DOMAIN m.shown : ~Behind(k, m.shown[i].id, m.next)
  <2>1. m.shown # <<>>
    OBVIOUS
  <2>2. ASSUME m.next # 0, NEW i \in DOMAIN m.shown
        PROVE  ~Behind(k, m.shown[i].id, m.next)
    <3>1. CASE f[i] = 0
      BY <2>2, <3>1
    <3>2. CASE f[i] # 0
      BY <2>2, <3>2 DEF InReach
    <3> QED
      BY <3>1, <3>2
  <2> QED
    BY <2>1, <2>2
<1> QED
  BY <1>1, <1>2, <1>3, Zenon DEF InReach

\* Where an own comment is shown that does not break the list, and what was shown before it.
LEMMA PostJoins ==
  ASSUME CommentsTyped, ListFits(client, kind, list, stored), OneReview(kind, stored), InReach(client, kind, list),
         NEW c \in Comments!Comment, c.mine, c.id \in DOMAIN stored, stored[c.id].mine,
         kind # "reviews" => c.id \notin list.own, ~Comments!Misplaced(c),
         NEW m, m.shown = Comments!Shown(c), m.horizon = list.horizon, m.next = list.next,
         m.own = list.own \union {c.id}
  PROVE  InReach(client, kind, m)
<1> DEFINE n == Len(list.shown)
           s == list.shown
<1>0. /\ s \in Seq(Comments!Comment) /\ n \in Nat /\ DOMAIN s = 1 .. n /\ list.next \in Nat /\ list.horizon \in Nat
      /\ c.id \in Nat /\ list.next <= list.horizon /\ kind \in {"discussion", "replies", "reviews"}
      /\ \A i \in DOMAIN s : s[i].id \in (1 .. list.horizon) \union list.own /\ s[i].mine = stored[s[i].id].mine
  BY ListFacts DEF ListFits, Comments!Comment
<1>1. ~Folded(client, kind, list)
  BY DEF Folded, Comments!Misplaced, Comments!Replies
<1>2. kind # "reviews" => c.id > list.horizon /\ \A i \in DOMAIN s : s[i].id # c.id
  <2> SUFFICES ASSUME kind # "reviews"
               PROVE  c.id > list.horizon /\ \A i \in DOMAIN s : s[i].id # c.id
    OBVIOUS
  <2>1. c.id > list.horizon
    BY <1>0 DEF Comments!Misplaced, Comments!Reviews
  <2>2. c.id \notin 1 .. list.horizon
    BY <1>0, <2>1
  <2> QED
    BY <1>0, <2>1, <2>2
<1>3. list.next # 0 => ~Behind(kind, c.id, list.next)
  <2>1. CASE kind = "replies"
    BY <2>1 DEF Comments!Misplaced, Comments!Replies
  <2>2. CASE kind = "discussion"
    BY <1>0, <1>2, <2>2 DEF Behind
  <2>3. CASE kind = "reviews"
    BY <1>0, <2>3 DEF Behind, Comments!Misplaced, Comments!Reviews
  <2> QED
    BY <1>0, <2>1, <2>2, <2>3
<1>4. \A i \in DOMAIN s : ~s[i].mine => s[i].id # c.id
  BY <1>0
<1> HIDE DEF n
<1>6. ASSUME m.shown = <<c>> \o s, \A i \in DOMAIN s : s[i].id # c.id
      PROVE  InReach(client, kind, m)
  <2> DEFINE f == [j \in DOMAIN m.shown |-> j - 1]
  <2>1. /\ DOMAIN m.shown = 1 .. n + 1 /\ m.shown[1] = c
        /\ \A j \in 1 .. n : m.shown[j + 1] = s[j]
    BY <1>0, <1>6, Fronted DEF n
  <2>2. /\ \A j \in DOMAIN m.shown : f[j] = j - 1 /\ (f[j] = 0 => j = 1)
        /\ \A j \in DOMAIN m.shown : f[j] # 0 => f[j] \in DOMAIN s /\ m.shown[j] = s[f[j]]
        /\ \A i, j \in DOMAIN m.shown : i < j => i # j /\ f[i] < f[j]
        /\ 1 \in DOMAIN m.shown /\ f[1] = 0
        /\ \A i \in DOMAIN s : i + 1 \in DOMAIN m.shown /\ f[i + 1] = i /\ f[i + 1] # 0
    <3>1. \A j \in DOMAIN m.shown : j \in 1 .. n + 1 /\ f[j] = j - 1
      BY <2>1
    <3>2. \A j \in 1 .. n + 1 : /\ j - 1 = 0 => j = 1
                                /\ j - 1 # 0 => j - 1 \in 1 .. n /\ (j - 1) + 1 = j
      BY <1>0
    <3>3. \A i \in 1 .. n : i + 1 \in 1 .. n + 1 /\ (i + 1) - 1 = i /\ i # 0
      BY <1>0
    <3>4. 1 \in 1 .. n + 1 /\ \A i, j \in 1 .. n + 1 : i < j => i # j /\ i - 1 < j - 1
      BY <1>0
    <3>5. \A j \in 1 .. n + 1 : f[j] = j - 1
      BY <2>1
    <3>6. DOMAIN m.shown = 1 .. n + 1 /\ DOMAIN s = 1 .. n
      BY <1>0, <2>1
    <3> HIDE DEF f
    <3>7. /\ \A j \in DOMAIN m.shown : f[j] = j - 1 /\ (f[j] = 0 => j = 1)
          /\ \A j \in DOMAIN m.shown : f[j] # 0 => f[j] \in DOMAIN s
      BY <3>2, <3>5, <3>6
    <3>8. \A j \in DOMAIN m.shown : f[j] # 0 => m.shown[j] = s[f[j]]
      BY <2>1, <3>2, <3>5, <3>6
    <3>9. \A i, j \in DOMAIN m.shown : i < j => i # j /\ f[i] < f[j]
      BY <3>4, <3>5, <3>6
    <3>10. /\ 1 \in DOMAIN m.shown /\ f[1] = 0
           /\ \A i \in DOMAIN s : i + 1 \in DOMAIN m.shown /\ f[i + 1] = i /\ f[i + 1] # 0
      BY <3>3, <3>4, <3>5, <3>6
    <3> QED
      BY <3>7, <3>8, <3>9, <3>10
  <2> HIDE DEF f
  <2>a. \A j \in DOMAIN m.shown :
           \/ f[j] = 0 /\ m.shown[j].id = c.id /\ m.shown[j].mine
           \/ /\ f[j] # 0 /\ f[j] \in DOMAIN list.shown
              /\ m.shown[j] = list.shown[f[j]] /\ list.shown[f[j]].id # c.id
    BY <1>6, <2>1, <2>2
  <2>b. \E j \in DOMAIN m.shown : f[j] = 0
    BY <1>6, <2>1, <2>2
  <2>c. \A i, j \in DOMAIN m.shown : f[i] = 0 /\ f[j] = 0 => i = j
    BY <1>6, <2>1, <2>2
  <2>d. \A i, j \in DOMAIN m.shown : f[i] # 0 /\ f[j] # 0 /\ i < j => f[i] < f[j]
    BY <1>6, <2>1, <2>2
  <2>e. \A i \in DOMAIN list.shown : list.shown[i].id = c.id \/ \E j \in DOMAIN m.shown : f[j] = i /\ f[j] # 0
    BY <1>6, <2>1, <2>2
  <2>f. \A i, j \in DOMAIN m.shown : i < j => i # j
    BY <1>6, <2>1, <2>2
  <2> QED
    BY <1>1, <1>3, <2>a, <2>b, <2>c, <2>d, <2>e, <2>f, JoinFits
<1>7. CASE kind = "discussion"
  <2>1. m.shown = <<c>> \o s
    BY <1>7, ShownIs
  <2> QED
    BY <1>2, <1>6, <1>7, <2>1
<1>8. CASE kind = "replies"
  <2> DEFINE f == [j \in DOMAIN m.shown |-> IF j = n + 1 THEN 0 ELSE j]
  <2>1. m.shown = Append(s, c)
    BY <1>8, ShownIs
  <2>2. /\ DOMAIN m.shown = 1 .. n + 1 /\ m.shown[n + 1] = c
        /\ \A j \in 1 .. n : m.shown[j] = s[j]
    BY <1>0, <2>1 DEF n
  <2>3. /\ \A j \in DOMAIN m.shown : f[j] = 0 => j = n + 1
        /\ \A j \in DOMAIN m.shown : f[j] # 0 => f[j] \in DOMAIN s /\ m.shown[j] = s[f[j]] /\ f[j] = j
        /\ \A i, j \in DOMAIN m.shown : i < j => i # j
        /\ n + 1 \in DOMAIN m.shown /\ f[n + 1] = 0
        /\ \A i \in DOMAIN s : i \in DOMAIN m.shown /\ f[i] = i /\ f[i] # 0
    <3>1. \A j \in DOMAIN m.shown : j \in 1 .. n + 1 /\ f[j] = IF j = n + 1 THEN 0 ELSE j
      BY <2>2
    <3>2. \A j \in 1 .. n + 1 : j # 0 /\ (j # n + 1 => j \in 1 .. n)
      BY <1>0
    <3>3. n + 1 \in 1 .. n + 1 /\ \A j \in 1 .. n : j \in 1 .. n + 1 /\ j # n + 1 /\ j # 0
      BY <1>0
    <3>4. \A i, j \in 1 .. n + 1 : i < j => i # j
      BY <1>0
    <3> HIDE DEF f
    <3> QED
      BY <1>0, <2>2, <3>1, <3>2, <3>3, <3>4
  <2> HIDE DEF f
  <2>4. \A i \in DOMAIN s : s[i].id # c.id
    BY <1>2, <1>8
  <2>a. \A j \in DOMAIN m.shown :
           \/ f[j] = 0 /\ m.shown[j].id = c.id /\ m.shown[j].mine
           \/ /\ f[j] # 0 /\ f[j] \in DOMAIN list.shown
              /\ m.shown[j] = list.shown[f[j]] /\ list.shown[f[j]].id # c.id
    BY <2>2, <2>3, <2>4
  <2>b. \E j \in DOMAIN m.shown : f[j] = 0
    BY <2>2, <2>3, <2>4
  <2>c. \A i, j \in DOMAIN m.shown : f[i] = 0 /\ f[j] = 0 => i = j
    BY <2>2, <2>3, <2>4
  <2>d. \A i, j \in DOMAIN m.shown : f[i] # 0 /\ f[j] # 0 /\ i < j => f[i] < f[j]
    BY <2>2, <2>3, <2>4
  <2>e. \A i \in DOMAIN list.shown : list.shown[i].id = c.id \/ \E j \in DOMAIN m.shown : f[j] = i /\ f[j] # 0
    BY <2>2, <2>3, <2>4
  <2>f. \A i, j \in DOMAIN m.shown : i < j => i # j
    BY <2>2, <2>3, <2>4
  <2> QED
    BY <1>1, <1>3, <2>a, <2>b, <2>c, <2>d, <2>e, <2>f, JoinFits
<1>9. CASE kind = "reviews" /\ client = "web"
  <2> DEFINE P == Others(list, c.id)
             K == Kept(s, P)
             q == Cardinality(P)
             f == [j \in DOMAIN m.shown |-> IF j = 1 THEN 0 ELSE Ascending(P)[j - 1]]
  <2>0. P \in SUBSET DOMAIN s /\ (\A i \in P : s[i].id # c.id) /\ \A i \in DOMAIN s : i \in P \/ s[i].id = c.id
    BY DEF Others
  <2>1. m.shown = <<c>> \o K
    BY <1>9, ShownIs
  <2> HIDE DEF P
  <2>2. /\ q \in Nat /\ K \in Seq(Comments!Comment) /\ DOMAIN K = 1 .. q
        /\ Ascending(P) \in [1 .. q -> P]
        /\ \A i \in 1 .. q : K[i] = s[Ascending(P)[i]]
        /\ \A p \in P : \E i \in 1 .. q : Ascending(P)[i] = p
        /\ \A i, j \in 1 .. q : i < j => Ascending(P)[i] < Ascending(P)[j]
    BY <1>0, <2>0, KeptIs
  <2> HIDE DEF K, q
  <2>3. Len(K) = q
    BY <2>2
  <2>4. /\ DOMAIN m.shown = 1 .. q + 1 /\ m.shown[1] = c
        /\ \A j \in 1 .. q : m.shown[j + 1] = K[j]
    BY <2>1, <2>2, <2>3, Fronted
  <2>5. /\ \A j \in DOMAIN m.shown : j = 1 => f[j] = 0
        /\ \A j \in DOMAIN m.shown : j # 1 => /\ j - 1 \in 1 .. q /\ f[j] = Ascending(P)[j - 1]
                                              /\ f[j] # 0 /\ f[j] \in P /\ f[j] \in DOMAIN s
                                              /\ m.shown[j] = s[f[j]]
    <3>1. \A j \in DOMAIN m.shown : f[j] = IF j = 1 THEN 0 ELSE Ascending(P)[j - 1]
      OBVIOUS
    <3>2. \A j \in 1 .. q + 1 : j # 1 => j - 1 \in 1 .. q /\ (j - 1) + 1 = j
      BY <2>2
    <3>3. \A p \in P : p \in DOMAIN s /\ p # 0
      BY <1>0, <2>0
    <3> HIDE DEF f
    <3> QED
      BY <2>2, <2>4, <3>1, <3>2, <3>3
  <2>6. \A i \in DOMAIN s : s[i].id = c.id \/ \E j \in DOMAIN m.shown : f[j] = i /\ f[j] # 0
    <3> TAKE i \in DOMAIN s
    <3>1. CASE i \in P
      <4>1. PICK a \in 1 .. q : Ascending(P)[a] = i
        BY <2>2, <3>1
      <4>2. a + 1 \in DOMAIN m.shown /\ a + 1 # 1 /\ (a + 1) - 1 = a
        BY <2>2, <2>4
      <4>3. f[a + 1] = i /\ f[a + 1] # 0
        BY <2>5, <4>1, <4>2
      <4> QED
        BY <4>2, <4>3
    <3> QED
      BY <2>0, <3>1
  <2>7. \A i, j \in DOMAIN m.shown : i < j => i # j /\ (i # 1 /\ j # 1 => f[i] < f[j])
    <3>1. \A i, j \in 1 .. q + 1 : i < j => i # j /\ (i # 1 /\ j # 1 => i - 1 < j - 1)
      BY <2>2
    <3> SUFFICES ASSUME NEW i \in DOMAIN m.shown, NEW j \in DOMAIN m.shown, i < j
                 PROVE  i # j /\ (i # 1 /\ j # 1 => f[i] < f[j])
      OBVIOUS
    <3>2. i # j /\ (i # 1 /\ j # 1 => i - 1 < j - 1)
      BY <2>4, <3>1
    <3>3. ASSUME i # 1, j # 1
          PROVE  f[i] < f[j]
      <4>1. /\ i - 1 \in 1 .. q /\ f[i] = Ascending(P)[i - 1]
            /\ j - 1 \in 1 .. q /\ f[j] = Ascending(P)[j - 1] /\ i - 1 < j - 1
        BY <2>5, <3>2, <3>3
      <4>2. Ascending(P)[i - 1] < Ascending(P)[j - 1]
        BY <2>2, <4>1
      <4> QED
        BY <4>1, <4>2
    <3> QED
      BY <3>2, <3>3
  <2>8. 1 \in DOMAIN m.shown
    BY <2>2, <2>4
  <2> HIDE DEF f
  <2>a. \A j \in DOMAIN m.shown :
           \/ f[j] = 0 /\ m.shown[j].id = c.id /\ m.shown[j].mine
           \/ /\ f[j] # 0 /\ f[j] \in DOMAIN list.shown
              /\ m.shown[j] = list.shown[f[j]] /\ list.shown[f[j]].id # c.id
    BY <2>0, <2>4, <2>5, <2>6, <2>7, <2>8
  <2>b. \E j \in DOMAIN m.shown : f[j] = 0
    BY <2>0, <2>4, <2>5, <2>6, <2>7, <2>8
  <2>c. \A i, j \in DOMAIN m.shown : f[i] = 0 /\ f[j] = 0 => i = j
    BY <2>0, <2>4, <2>5, <2>6, <2>7, <2>8
  <2>d. \A i, j \in DOMAIN m.shown : f[i] # 0 /\ f[j] # 0 /\ i < j => f[i] < f[j]
    BY <2>0, <2>4, <2>5, <2>6, <2>7, <2>8
  <2>e. \A i \in DOMAIN list.shown : list.shown[i].id = c.id \/ \E j \in DOMAIN m.shown : f[j] = i /\ f[j] # 0
    BY <2>0, <2>4, <2>5, <2>6, <2>7, <2>8
  <2>f. \A i, j \in DOMAIN m.shown : i < j => i # j
    BY <2>0, <2>4, <2>5, <2>6, <2>7, <2>8
  <2> QED
    BY <1>1, <1>3, <2>a, <2>b, <2>c, <2>d, <2>e, <2>f, JoinFits
<1>10. CASE kind = "reviews" /\ client # "web" /\ \E k \in DOMAIN s : s[k].mine
  <2> DEFINE f == [j \in DOMAIN m.shown |-> IF s[j].mine THEN 0 ELSE j]
  <2>1. /\ DOMAIN m.shown = DOMAIN s
        /\ \A k \in DOMAIN s : m.shown[k] = IF s[k].mine THEN c ELSE s[k]
    <3>1. /\ DOMAIN Comments!Shown(c) = DOMAIN list.shown
          /\ \A k \in DOMAIN list.shown :
               Comments!Shown(c)[k] = IF list.shown[k].mine THEN c ELSE list.shown[k]
      BY <1>10, ShownIs, Zenon
    <3> QED
      BY <3>1, Zenon
  <2>2. \A k \in DOMAIN s : s[k].mine => s[k].id = c.id
    <3> TAKE k \in DOMAIN s
    <3>1. s[k].id \in DOMAIN stored
      <4>1. DOMAIN stored = 1 .. Len(stored) /\ Len(stored) \in Nat
        BY ListFacts
      <4>2. 1 .. list.horizon \subseteq 1 .. Len(stored) /\ list.own \subseteq 1 .. Len(stored)
        BY <1>0, <4>1 DEF ListFits
      <4> QED
        BY <1>0, <4>1, <4>2
    <3> QED
      BY <1>0, <1>10, <3>1 DEF OneReview
  <2>3. \A i, j \in DOMAIN s : i < j => i # j /\ s[i].id # s[j].id
    <3>1. \A i, j \in DOMAIN s : i < j => s[i].id # s[j].id
      BY Zenon DEF InReach
    <3> QED
      BY <1>0, <3>1
  <2>4. \A i, j \in DOMAIN s : s[i].mine /\ s[j].mine => i = j
    <3>1. \A i, j \in DOMAIN s : i = j \/ i < j \/ j < i
      BY <1>0
    <3> QED
      BY <2>2, <2>3, <3>1
  <2>5. \A j \in DOMAIN m.shown : /\ s[j].mine => f[j] = 0
                                  /\ ~s[j].mine => f[j] = j /\ f[j] # 0
    BY <1>0, <2>1
  <2> HIDE DEF f
  <2>a. \A j \in DOMAIN m.shown :
           \/ f[j] = 0 /\ m.shown[j].id = c.id /\ m.shown[j].mine
           \/ /\ f[j] # 0 /\ f[j] \in DOMAIN list.shown
              /\ m.shown[j] = list.shown[f[j]] /\ list.shown[f[j]].id # c.id
    BY <1>4, <1>10, <2>1, <2>2, <2>3, <2>4, <2>5
  <2>b. \E j \in DOMAIN m.shown : f[j] = 0
    BY <1>4, <1>10, <2>1, <2>2, <2>3, <2>4, <2>5
  <2>c. \A i, j \in DOMAIN m.shown : f[i] = 0 /\ f[j] = 0 => i = j
    BY <1>4, <1>10, <2>1, <2>2, <2>3, <2>4, <2>5
  <2>d. \A i, j \in DOMAIN m.shown : f[i] # 0 /\ f[j] # 0 /\ i < j => f[i] < f[j]
    BY <1>4, <1>10, <2>1, <2>2, <2>3, <2>4, <2>5
  <2>e. \A i \in DOMAIN list.shown : list.shown[i].id = c.id \/ \E j \in DOMAIN m.shown : f[j] = i /\ f[j] # 0
    BY <1>4, <1>10, <2>1, <2>2, <2>3, <2>4, <2>5
  <2>f. \A i, j \in DOMAIN m.shown : i < j => i # j
    BY <1>4, <1>10, <2>1, <2>2, <2>3, <2>4, <2>5
  <2> QED
    BY <1>1, <1>3, <2>a, <2>b, <2>c, <2>d, <2>e, <2>f, JoinFits
<1>11. CASE kind = "reviews" /\ client # "web" /\ ~\E k \in DOMAIN s : s[k].mine
  <2>1. m.shown = <<c>> \o s
    BY <1>11, ShownIs
  <2>2. \A i \in DOMAIN s : s[i].id # c.id
    BY <1>4, <1>11
  <2> QED
    BY <1>6, <2>1, <2>2
<1> QED
  BY <1>0, <1>7, <1>8, <1>9, <1>10, <1>11

\* What is shown after an own comment was answered is that comment or was shown before.
LEMMA ShownParts ==
  ASSUME CommentsTyped, NEW c \in Comments!Comment
  PROVE  \A j \in DOMAIN Comments!Shown(c) :
           Comments!Shown(c)[j] = c \/ \E i \in DOMAIN list.shown : Comments!Shown(c)[j] = list.shown[i]
<1>0. list.shown \in Seq(Comments!Comment) /\ kind \in {"discussion", "replies", "reviews"}
  BY ListFacts
<1>1. ASSUME NEW s \in Seq(Comments!Comment), NEW j \in DOMAIN (<<c>> \o s)
      PROVE  (<<c>> \o s)[j] = c \/ \E i \in DOMAIN s : (<<c>> \o s)[j] = s[i]
  <2> DEFINE t == <<c>> \o s
  <2>1. Len(s) \in Nat /\ DOMAIN s = 1 .. Len(s)
    OBVIOUS
  <2>2. DOMAIN t = 1 .. Len(s) + 1 /\ t[1] = c /\ \A i \in 1 .. Len(s) : t[i + 1] = s[i]
    BY Fronted
  <2> HIDE DEF t
  <2>3. j \in DOMAIN t
    BY <1>1 DEF t
  <2>4. j = 1 \/ (j - 1 \in 1 .. Len(s) /\ (j - 1) + 1 = j)
    BY <2>1, <2>2, <2>3
  <2>5. t[j] = c \/ \E i \in DOMAIN s : t[j] = s[i]
    BY <2>1, <2>2, <2>4
  <2> QED
    BY <2>5 DEF t
<1>2. CASE kind = "discussion" \/ (kind = "reviews" /\ client # "web" /\ ~\E k \in DOMAIN list.shown : list.shown[k].mine)
  <2>1. Comments!Shown(c) = <<c>> \o list.shown
    BY <1>2, ShownIs
  <2> QED
    BY <1>0, <1>1, <2>1
<1>3. CASE kind = "replies"
  <2>1. Comments!Shown(c) = Append(list.shown, c)
    BY <1>3, ShownIs
  <2> QED
    BY <1>0, <2>1
<1>4. CASE kind = "reviews" /\ client = "web"
  <2> DEFINE P == Others(list, c.id)
             K == Kept(list.shown, P)
  <2>1. Comments!Shown(c) = <<c>> \o K
    BY <1>4, ShownIs
  <2>2. P \in SUBSET DOMAIN list.shown
    BY DEF Others
  <2> HIDE DEF P
  <2>3. /\ K \in Seq(Comments!Comment) /\ DOMAIN K = 1 .. Cardinality(P)
        /\ Ascending(P) \in [1 .. Cardinality(P) -> P]
        /\ \A i \in 1 .. Cardinality(P) : K[i] = list.shown[Ascending(P)[i]]
    BY <1>0, <2>2, KeptIs
  <2> HIDE DEF K
  <2>4. \A i \in DOMAIN K : \E k \in DOMAIN list.shown : K[i] = list.shown[k]
    BY <2>2, <2>3
  <2>5. \A j \in DOMAIN (<<c>> \o K) : (<<c>> \o K)[j] = c \/ \E i \in DOMAIN K : (<<c>> \o K)[j] = K[i]
    BY <1>1, <2>3
  <2>6. \A j \in DOMAIN Comments!Shown(c) : Comments!Shown(c)[j] = c \/ \E i \in DOMAIN K : Comments!Shown(c)[j] = K[i]
    BY <2>1, <2>5
  <2> QED
    BY <2>4, <2>6
<1>5. CASE kind = "reviews" /\ client # "web" /\ \E k \in DOMAIN list.shown : list.shown[k].mine
  <2>1. /\ DOMAIN Comments!Shown(c) = DOMAIN list.shown
        /\ \A k \in DOMAIN list.shown :
             Comments!Shown(c)[k] = IF list.shown[k].mine THEN c ELSE list.shown[k]
    BY <1>5, ShownIs, Zenon
  <2> QED
    BY <2>1, Zenon
<1> QED
  BY <1>0, <1>2, <1>3, <1>4, <1>5

\* The answer to a post shows what it wrote.
LEMMA ReadPosted ==
  ASSUME ReadNow, NEW i \in DOMAIN calls, Comments!Answer(i), calls[i].what = "post", calls[i].done = "yes"
  PROVE  ReadKept
<1> DEFINE b == calls[i]
           c == Comments!Own(b.id, b.text)
           m == Comments!Posted(c)
<1>0. /\ CommentsTyped /\ b \in CallRow /\ CallFits(kind, list, b, stored) /\ OneSent
      /\ ListFits(client, kind, list, stored) /\ OneReview(kind, stored) /\ OnePage(list, calls)
      /\ (~list.astray => InReach(client, kind, list)) /\ list \in ListRow
  BY ListFacts DEF ReadNow, CommentsTyped
<1>1. list' = m /\ calls' = Comments!Overtaken(i) /\ stored' = stored
  BY DEF Comments!Answer
<1>2. /\ c \in Comments!Comment /\ c.mine /\ c.id = b.id /\ c.id \in DOMAIN stored /\ stored[c.id].mine
      /\ kind # "reviews" => c.id \notin list.own
  <2>1. b.id \in Nat /\ b.text \in Nat
    <3> HIDE DEF b
    <3> QED
      BY <1>0 DEF CallRow
  <2>2. c \in Comments!Comment /\ c.mine /\ c.id = b.id
    BY <2>1 DEF Comments!Own, Comments!Comment
  <2>3. b.id \in DOMAIN stored /\ stored[b.id].mine /\ (kind # "reviews" => b.id \notin list.own)
    BY <1>0 DEF CallFits
  <2> HIDE DEF c
  <2> QED
    BY <2>2, <2>3
<1> HIDE DEF c
<1>3. /\ m.shown = Comments!Shown(c) /\ m.next = list.next /\ m.busy = list.busy /\ m.failed = list.failed
      /\ m.horizon = list.horizon /\ m.own = list.own \union {c.id} /\ m.count = list.count + 1
      /\ m.known = (list.known \/ Comments!Replies) /\ m.astray = (list.astray \/ Comments!Misplaced(c))
  BY <1>0 DEF Comments!Posted, ListRow
<1> HIDE DEF m
<1>4. ListFits(client, kind, m, stored)
  <2>1. /\ m.horizon <= Len(stored) /\ m.own \subseteq 1 .. Len(stored) /\ m.next <= m.horizon
    BY <1>0, <1>2, <1>3, ListFacts DEF ListFits
  <2>2. \A j \in DOMAIN m.shown : /\ m.shown[j].id \in (1 .. m.horizon) \union m.own
                                  /\ m.shown[j].mine = stored[m.shown[j].id].mine
    <3> TAKE j \in DOMAIN m.shown
    <3>1. m.shown[j] = c \/ \E k \in DOMAIN list.shown : m.shown[j] = list.shown[k]
      BY <1>0, <1>2, <1>3, ShownParts
    <3>2. CASE m.shown[j] = c
      <4>1. c.mine = stored[c.id].mine
        <5>1. stored[c.id] \in Comments!Comment
          BY <1>2, ListFacts, <1>0
        <5>2. c.mine \in BOOLEAN /\ stored[c.id].mine \in BOOLEAN
          BY <1>2, <5>1 DEF Comments!Comment
        <5> QED
          BY <1>2, <5>2
      <4> QED
        BY <1>3, <3>2, <4>1
    <3>3. CASE \E k \in DOMAIN list.shown : m.shown[j] = list.shown[k]
      BY <1>0, <1>3, <3>3 DEF ListFits
    <3> QED
      BY <3>1, <3>2, <3>3
  <2>3. kind = "replies" => IF client = "web" THEN m.count > 0 ELSE m.known
    <3>1. m.count > 0
      BY <1>0, <1>3, ListFacts
    <3>2. kind = "replies" => m.known
      BY <1>3 DEF Comments!Replies
    <3> QED
      BY <3>1, <3>2
  <2>4. m.failed => m.busy = "no" /\ client = "web" /\ kind # "replies"
    BY <1>0, <1>3, Zenon DEF ListFits
  <2> QED
    BY <2>1, <2>2, <2>3, <2>4, Zenon DEF ListFits
<1>5. ~m.astray => InReach(client, kind, m)
  <2> SUFFICES ASSUME ~m.astray PROVE InReach(client, kind, m)
    OBVIOUS
  <2>1. ~list.astray /\ ~Comments!Misplaced(c)
    BY <1>3
  <2> QED
    BY <1>0, <1>2, <1>3, <2>1, PostJoins
<1>6. /\ \A j \in DOMAIN calls' : LET k == Former(i, j) IN
              /\ k \in DOMAIN calls \ {i}
              /\ calls'[j] = [calls[k] EXCEPT !.raced = @ \/ calls[k].what = "first"]
      /\ \A j, k \in DOMAIN calls' : Former(i, j) = Former(i, k) => j = k
      /\ \A k \in DOMAIN calls : k # i => \E j \in DOMAIN calls' : k = Former(i, j)
  BY <1>0, <1>1, CallsOvertaken
<1>7. \A j \in DOMAIN calls' : LET k == Former(i, j) IN
        /\ k \in DOMAIN calls \ {i} /\ calls[k] \in CallRow
        /\ calls'[j].what = calls[k].what /\ calls'[j].done = calls[k].done
        /\ calls'[j].cursor = calls[k].cursor /\ calls'[j].page = calls[k].page
        /\ calls'[j].horizon = calls[k].horizon /\ calls'[j].id = calls[k].id
        /\ calls[k].what = "first" => calls'[j].raced
  <2>1. \A r \in CallRow : LET d == [r EXCEPT !.raced = @ \/ r.what = "first"] IN
          /\ d.what = r.what /\ d.done = r.done /\ d.cursor = r.cursor /\ d.page = r.page
          /\ d.horizon = r.horizon /\ d.id = r.id /\ (r.what = "first" => d.raced)
    BY DEF CallRow
  <2> TAKE j \in DOMAIN calls'
  <2>2. Former(i, j) \in DOMAIN calls \ {i} /\ calls[Former(i, j)] \in CallRow
    BY <1>0, <1>6, ListFacts
  <2> DEFINE r == calls[Former(i, j)]
             d == [r EXCEPT !.raced = @ \/ r.what = "first"]
  <2>3. calls'[j] = d
    BY <1>6
  <2>4. /\ d.what = r.what /\ d.done = r.done /\ d.cursor = r.cursor /\ d.page = r.page
        /\ d.horizon = r.horizon /\ d.id = r.id /\ (r.what = "first" => d.raced)
    BY <2>1, <2>2
  <2> HIDE DEF d
  <2> QED
    BY <2>2, <2>3, <2>4
<1>8. OnePage(m, calls')
  <2>1. \A j, k \in DOMAIN calls' : calls'[j].what \in Pagings /\ calls'[k].what \in Pagings => j = k
    <3> SUFFICES ASSUME NEW j \in DOMAIN calls', NEW k \in DOMAIN calls',
                        calls'[j].what \in Pagings, calls'[k].what \in Pagings
                 PROVE  j = k
      OBVIOUS
    <3>1. Former(i, j) = Former(i, k)
      BY <1>0, <1>7 DEF OnePage
    <3> QED
      BY <1>6, <3>1
  <2>2. m.busy # "no" => \E j \in DOMAIN calls' : calls'[j].what = m.busy
    <3> SUFFICES ASSUME m.busy # "no" PROVE \E j \in DOMAIN calls' : calls'[j].what = m.busy
      OBVIOUS
    <3>1. PICK k \in DOMAIN calls : calls[k].what = list.busy
      BY <1>0, <1>3 DEF OnePage
    <3>2. list.busy # "post"
      BY <1>0, ListFacts DEF Pagings
    <3>3. k # i
      BY <3>1, <3>2
    <3>4. PICK j \in DOMAIN calls' : k = Former(i, j)
      BY <1>6, <3>3
    <3> QED
      BY <1>3, <1>7, <3>1, <3>4
  <2> QED
    BY <2>1, <2>2 DEF OnePage
<1>9. \A j \in DOMAIN calls' : CallFits(kind, m, calls'[j], stored)
  <2> TAKE j \in DOMAIN calls'
  <2> DEFINE a == calls[Former(i, j)]
             d == calls'[j]
  <2>1. /\ a \in CallRow /\ CallFits(kind, list, a, stored) /\ d.what = a.what /\ d.done = a.done
        /\ d.cursor = a.cursor /\ d.page = a.page /\ d.horizon = a.horizon /\ d.id = a.id
        /\ a.what = "first" => d.raced
    BY <1>7 DEF ReadNow
  <2>2. a.what \notin Postings
    <3>1. Former(i, j) \in DOMAIN calls \ {i}
      BY <1>7
    <3> QED
      BY <1>0, <3>1 DEF OneSent, Postings
  <2> HIDE DEF a, d
  <2>3. PageFits(kind, a, stored) => PageFits(kind, d, stored)
    BY <2>1, ZenonT(30) DEF PageFits
  <2>4. d.what = "more" => (kind = "replies" => m.astray)
    <3> SUFFICES ASSUME d.what = "more", kind = "replies" PROVE m.astray
      OBVIOUS
    <3>1. list.busy # "no"
      BY <2>1 DEF CallFits, Pagings
    <3>2. Comments!Misplaced(c)
      BY <3>1 DEF Comments!Misplaced, Comments!Replies
    <3> QED
      BY <1>3, <3>2
  <2>5. CallFits(kind, m, d, stored)
    <3>1. CASE d.what = "first"
      <4>1. d.cursor = 0 /\ d.what = m.busy /\ d.raced /\ (d.done = "yes" => PageFits(kind, d, stored))
        BY <1>3, <2>1, <2>3, <3>1 DEF CallFits, Pagings
      <4> QED
        BY <3>1, <4>1 DEF CallFits
    <3>2. CASE d.what = "more"
      <4>1. /\ d.cursor = m.next /\ m.next # 0 /\ d.what = m.busy
            /\ d.done = "yes" => m.horizon <= d.horizon /\ PageFits(kind, d, stored)
        BY <1>3, <2>1, <2>3, <3>2 DEF CallFits, Pagings
      <4> QED
        BY <2>4, <3>2, <4>1 DEF CallFits
    <3>3. CASE d.what \notin Pagings
      <4>1. d.what # "post" /\ d.what # "first" /\ d.what # "more"
        BY <2>1, <2>2, <3>3 DEF Pagings, Postings
      <4> QED
        BY <3>3, <4>1 DEF CallFits
    <3> QED
      BY <3>1, <3>2, <3>3 DEF Pagings
  <2> QED
    BY <2>5 DEF d
<1> QED
  BY <1>0, <1>1, <1>4, <1>5, <1>8, <1>9 DEF ReadKept

\* A post that ends leaves the list and the page under way.
LEMMA ReadPostEnds ==
  ASSUME ReadNow, NEW i \in DOMAIN calls, calls[i].what \notin Pagings,
         calls' = Comments!RemoveAt(calls, i), stored' = stored, list' = list
  PROVE  ReadKept
<1>0. CommentsTyped /\ OnePage(list, calls) /\ list.busy \in Pagings \union {"no"}
  BY ListFacts DEF ReadNow
<1>1. /\ \A j \in DOMAIN calls' : Former(i, j) \in DOMAIN calls \ {i} /\ calls'[j] = calls[Former(i, j)]
      /\ \A j, k \in DOMAIN calls' : Former(i, j) = Former(i, k) => j = k
      /\ \A k \in DOMAIN calls : k # i => \E j \in DOMAIN calls' : k = Former(i, j)
  BY <1>0, CallsShrink
<1>2. OnePage(list, calls')
  <2>1. \A j, k \in DOMAIN calls' : calls'[j].what \in Pagings /\ calls'[k].what \in Pagings => j = k
    BY <1>0, <1>1 DEF OnePage
  <2>2. ASSUME list.busy # "no" PROVE \E j \in DOMAIN calls' : calls'[j].what = list.busy
    <3>1. PICK k \in DOMAIN calls : calls[k].what = list.busy
      BY <1>0, <2>2 DEF OnePage
    <3>2. k # i
      BY <1>0, <2>2, <3>1
    <3> QED
      BY <1>1, <3>1, <3>2
  <2> QED
    BY <2>1, <2>2 DEF OnePage
<1>3. \A j \in DOMAIN calls' : CallFits(kind, list, calls'[j], stored)
  BY <1>1 DEF ReadNow
<1> QED
  BY <1>2, <1>3 DEF ReadNow, ReadKept

\* Every answer is shown where it belongs.
LEMMA ReadAnswers ==
  ASSUME ReadNow, NEW i \in DOMAIN calls, Comments!Answer(i)
  PROVE  ReadKept
<1> DEFINE c == calls[i]
<1>0. /\ CommentsTyped /\ c \in CallRow /\ CallFits(kind, list, c, stored) /\ stored' = stored
      /\ ListFits(client, kind, list, stored) /\ (~list.astray => InReach(client, kind, list)) /\ list \in ListRow
      /\ c.what \in {"first", "more", "upload", "post"} /\ c.done \in {"yes", "refused"}
      /\ c.what \in Pagings => c.done = "yes"
  <2>1. \A r \in CallRow : r.what \in {"first", "more", "upload", "post"} /\ r.done \in {"no", "yes", "refused"}
    BY DEF CallRow, Pagings, Postings
  <2>2. CommentsTyped /\ CallFits(kind, list, c, stored) /\ ListFits(client, kind, list, stored)
        /\ (~list.astray => InReach(client, kind, list)) /\ stored' = stored /\ c.done # "no"
    BY DEF ReadNow, Comments!Answer
  <2>3. c \in CallRow /\ list \in ListRow /\ (c.what \in Pagings => c.done # "refused")
    BY <2>2, ListFacts DEF CommentsTyped
  <2> HIDE DEF c
  <2> QED
    BY <2>1, <2>2, <2>3
<1>1. list.shown \in Seq(Comments!Comment) /\ list.next \in Nat /\ list.horizon \in Nat
  BY <1>0, ListFacts
<1>2. CASE c.what = "first"
  <2> DEFINE m == Comments!FirstPage(c)
  <2>1. list' = m /\ calls' = Comments!RemoveAt(calls, i)
    BY <1>2 DEF Comments!Answer, Comments!Paged
  <2>2. /\ m.shown = c.page.items /\ m.next = c.page.next /\ m.busy = "no" /\ m.failed = FALSE
        /\ m.horizon = c.horizon /\ m.own = list.own /\ m.count = list.count /\ m.known = list.known
        /\ m.astray = c.raced
    BY <1>0 DEF Comments!FirstPage, ListRow
  <2> HIDE DEF m
  <2>3. c.done = "yes" /\ c.what \in Pagings /\ list.busy = "first"
    BY <1>0, <1>2 DEF Pagings, CallFits
  <2>4. ListFits(client, kind, m, stored) /\ (~c.raced => InReach(client, kind, m))
    <3>1. stored \in Seq(Comments!Comment) /\ ~m.failed
      BY <1>0, <2>2, ListFacts
    <3> HIDE DEF c
    <3> QED
      BY <1>0, <1>2, <2>2, <2>3, <3>1, FirstPageFits
  <2> QED
    BY <1>0, <2>1, <2>2, <2>3, <2>4, ReadShrunk
<1>3. CASE c.what = "more"
  <2> DEFINE m == Comments!LaterPage(c)
  <2>1. list' = m /\ calls' = Comments!RemoveAt(calls, i)
    BY <1>3 DEF Comments!Answer, Comments!Paged
  <2>2. /\ m.shown = list.shown \o c.page.items /\ m.next = c.page.next /\ m.busy = "no" /\ m.failed = list.failed
        /\ m.horizon = (IF kind = "replies" THEN c.horizon ELSE list.horizon)
        /\ m.own = list.own /\ m.count = list.count /\ m.known = list.known /\ m.astray = list.astray
    BY <1>0 DEF Comments!LaterPage, Comments!Replies, ListRow
  <2> HIDE DEF m
  <2>3. c.done = "yes" /\ c.what \in Pagings
    BY <1>0, <1>3 DEF Pagings
  <2>4. /\ ListFits(client, kind, m, stored)
        /\ (InReach(client, kind, list) /\ (kind = "replies" => list.own \subseteq 1 .. c.horizon)) => InReach(client, kind, m)
    <3>1. stored \in Seq(Comments!Comment)
      BY <1>0, ListFacts
    <3> HIDE DEF c
    <3> QED
      BY <1>0, <1>1, <1>3, <2>2, <2>3, <3>1, LaterPageFits
  <2>5. ~m.astray => InReach(client, kind, m)
    <3> SUFFICES ASSUME ~list.astray PROVE InReach(client, kind, m)
      BY <2>2
    <3>1. kind = "replies" => list.own \subseteq 1 .. c.horizon
      BY <1>0, <1>3, <2>3 DEF CallFits
    <3> QED
      BY <1>0, <2>4, <3>1
  <2> QED
    BY <1>0, <2>1, <2>2, <2>3, <2>4, <2>5, ReadShrunk
<1>4. CASE c.what = "upload"
  <2> DEFINE d == Comments!Call("post", c.text, 0)
  <2>1. calls' = [calls EXCEPT ![i] = d] /\ list' = list
    BY <1>4 DEF Comments!Answer
  <2>2. d.what = "post" /\ d.done = "no"
    BY DEF Comments!Call
  <2> HIDE DEF d
  <2>3. CallFits(kind, list, d, stored)
    BY <2>2 DEF CallFits, Pagings
  <2>4. DOMAIN calls' = DOMAIN calls /\ calls'[i] = d /\ \A j \in DOMAIN calls : j # i => calls'[j] = calls[j]
    BY <2>1
  <2>5. \A j \in DOMAIN calls : /\ calls'[j].what \in Pagings \/ calls[j].what \in Pagings =>
                                      calls'[j].what = calls[j].what
                                /\ calls'[j] = calls[j] \/ CallFits(kind, list, calls'[j], stored')
    BY <1>0, <1>4, <2>2, <2>3, <2>4 DEF Pagings
  <2>6. Len(stored) <= Len(stored') /\ stored' \in Seq(Comments!Comment)
    BY <1>0, ListFacts
  <2>7. OneReview(kind, stored')
    BY <1>0 DEF ReadNow
  <2> QED
    BY <1>0, <2>1, <2>4, <2>5, <2>6, <2>7, ReadGrown
<1>5. CASE c.what = "post" /\ c.done = "yes"
  BY <1>5, ReadPosted
<1>6. CASE c.what = "post" /\ c.done = "refused"
  <2>1. calls' = Comments!RemoveAt(calls, i) /\ list' = list
    BY <1>6 DEF Comments!Answer
  <2> QED
    BY <1>0, <1>6, <2>1, ReadPostEnds
<1> QED
  BY <1>0, <1>2, <1>3, <1>4, <1>5, <1>6

\* What is lost can be asked for again, or is known to be missing.
LEMMA ReadLost ==
  ASSUME ReadNow, NEW i \in DOMAIN calls, Comments!Lose(i)
  PROVE  ReadKept
<1> DEFINE c == calls[i]
           m == Comments!Unpaged(c)
<1>0. /\ CommentsTyped /\ CallFits(kind, list, c, stored) /\ stored' = stored
      /\ ListFits(client, kind, list, stored) /\ (~list.astray => InReach(client, kind, list)) /\ list \in ListRow
      /\ calls' = Comments!RemoveAt(calls, i)
  BY DEF ReadNow, CommentsTyped, Comments!Lose
<1>1. CASE c.what \in Pagings
  <2>1. list' = m
    BY <1>1 DEF Comments!Lose, Pagings
  <2>2. /\ m.busy = "no" /\ m.failed = (Comments!Web /\ ~Comments!Replies /\ c.what = "first")
        /\ m.astray = (list.astray \/ (Comments!Mobile /\ c.what = "first"))
        /\ m.shown = (IF Comments!Mobile /\ Comments!Replies /\ c.what = "first" THEN <<>> ELSE list.shown)
        /\ m.next = list.next /\ m.horizon = list.horizon /\ m.own = list.own
        /\ m.count = list.count /\ m.known = list.known
    BY <1>0 DEF Comments!Unpaged, ListRow
  <2> HIDE DEF m
  <2>3. ListFits(client, kind, m, stored)
    <3>1. \A j \in DOMAIN m.shown : /\ m.shown[j].id \in (1 .. m.horizon) \union m.own
                                    /\ m.shown[j].mine = stored[m.shown[j].id].mine
      <4>1. m.shown = list.shown \/ m.shown = <<>>
        BY <2>2
      <4>2. CASE m.shown = <<>>
        BY <4>2
      <4>3. CASE m.shown = list.shown
        BY <1>0, <2>2, <4>3, Zenon DEF ListFits
      <4> QED
        BY <4>1, <4>2, <4>3
    <3>2. m.failed => m.busy = "no" /\ client = "web" /\ kind # "replies"
      BY <2>2 DEF Comments!Web, Comments!Replies
    <3>3. (kind = "replies" /\ (m.busy = "first" \/ m.next # 0)) =>
             IF client = "web" THEN m.count > 0 ELSE m.known
      BY <1>0, <2>2, Zenon DEF ListFits
    <3>4. m.horizon <= Len(stored) /\ m.own \subseteq 1 .. Len(stored) /\ m.next <= m.horizon
      BY <1>0, <2>2, Zenon DEF ListFits
    <3> QED
      BY <3>1, <3>2, <3>3, <3>4, Zenon DEF ListFits
  <2>4. ~m.astray => InReach(client, kind, m)
    <3> SUFFICES ASSUME ~m.astray PROVE InReach(client, kind, m)
      OBVIOUS
    <3>1. ~list.astray /\ ~(client = "mobile" /\ c.what = "first") /\ m.shown = list.shown
      BY <2>2 DEF Comments!Mobile
    <3>2. c.what = list.busy
      BY <1>0, <1>1 DEF CallFits
    <3>3. client \in {"web", "mobile"}
      BY <1>0, ListFacts
    <3>4. Folded(client, kind, list) => Folded(client, kind, m)
      BY <2>2, <3>1, <3>2, <3>3, Zenon DEF Folded
    <3> QED
      BY <1>0, <2>2, <3>1, <3>4, SameReach
  <2> QED
    BY <1>0, <1>1, <2>1, <2>2, <2>3, <2>4, ReadShrunk
<1>2. CASE c.what \notin Pagings
  <2>1. list' = list
    BY <1>2 DEF Comments!Lose, Pagings
  <2> QED
    BY <1>0, <1>2, <2>1, ReadPostEnds
<1> QED
  BY <1>1, <1>2

\* A panel that appears has all of its list before it.
LEMMA OpenedReads ==
  ASSUME NEW n \in Nat, client \in {"web", "mobile"}, kind \in {"discussion", "replies", "reviews"},
         NEW s \in Seq(Comments!Comment), Len(s) = n, NEW cs,
         cs = IF kind = "replies" THEN <<>> ELSE <<Comments!Call("first", 0, 0)>>
  PROVE  LET l == Comments!Opened(n) IN
         /\ ListFits(client, kind, l, s) /\ OnePage(l, cs) /\ InReach(client, kind, l)
         /\ \A i \in DOMAIN cs : CallFits(kind, l, cs[i], s)
<1> DEFINE l == Comments!Opened(n)
<1>1. /\ l.shown = <<>> /\ l.next = 0 /\ l.failed = FALSE /\ l.own = {} /\ l.known = FALSE
      /\ l.busy = IF kind = "replies" THEN "no" ELSE "first"
      /\ l.count = IF kind = "replies" THEN n ELSE 0
      /\ l.horizon = IF kind = "replies" THEN n ELSE 0
  BY DEF Comments!Opened, Comments!NoList, Comments!Replies
<1> HIDE DEF l
<1>2. ListFits(client, kind, l, s)
  BY <1>1 DEF ListFits
<1>3. InReach(client, kind, l)
  <2>1. \A id \in (1 .. l.horizon) \union l.own : Folded(client, kind, l)
    <3>1. CASE kind = "replies"
      BY <1>1, <3>1 DEF Folded
    <3>2. CASE kind # "replies"
      BY <1>1, <3>2
    <3> QED
      BY <3>1, <3>2
  <2>2. DOMAIN l.shown = {}
    BY <1>1
  <2> QED
    BY <1>1, <2>1, <2>2 DEF InReach
<1>4. OnePage(l, cs) /\ \A i \in DOMAIN cs : CallFits(kind, l, cs[i], s)
  <2>1. CASE kind = "replies"
    BY <1>1, <2>1 DEF OnePage
  <2>2. CASE kind # "replies"
    <3> DEFINE c == Comments!Call("first", 0, 0)
    <3>1. c.what = "first" /\ c.done = "no" /\ c.cursor = 0
      BY DEF Comments!Call
    <3> HIDE DEF c
    <3>2. cs = <<c>>
      BY <2>2 DEF c
    <3>3. \A i \in DOMAIN cs : i = 1
      <4>1. DOMAIN <<c>> = 1 .. 1 /\ \A i \in 1 .. 1 : i = 1
        OBVIOUS
      <4> QED
        BY <3>2, <4>1, Zenon
    <3>4. 1 \in DOMAIN cs /\ cs[1] = c
      <4>1. 1 \in DOMAIN <<c>> /\ <<c>>[1] = c
        OBVIOUS
      <4> QED
        BY <3>2, <4>1, Zenon
    <3> QED
      BY <1>1, <2>2, <3>1, <3>3, <3>4 DEF OnePage, CallFits
  <2> QED
    BY <2>1, <2>2
<1> QED
  BY <1>2, <1>3, <1>4 DEF l

\* Every step leaves what is read within reach.
LEMMA ReadStep ==
  ASSUME ReadNow, Comments!Next
  PROVE  ReadKept
<1>0. /\ CommentsTyped /\ client \in {"web", "mobile"} /\ kind \in {"discussion", "replies", "reviews"}
      /\ draft.text \in Nat /\ stored \in Seq(Comments!Comment) /\ Len(stored) \in Nat
      /\ OneReview(kind, stored) /\ OneSent
  <2>1. CommentsTyped /\ OneReview(kind, stored) /\ OneSent
    BY DEF ReadNow
  <2>2. draft.text \in Nat
    BY <2>1 DEF CommentsTyped, DraftRow
  <2> QED
    BY <2>1, <2>2, ListFacts
<1>1. CASE Comments!Retry \/ Comments!LoadMore \/ Comments!ToggleReplies
  BY <1>1, ReadLoads
<1>2. CASE Comments!OpenReply \/ Comments!CancelReply \/ Comments!Write \/ Comments!Rate \/ Comments!ChooseImage
           \/ Comments!ChangeTabs \/ Comments!EventMovesOn
  <2>1. stored' = stored /\ calls' = calls /\ list' = list
    BY <1>2 DEF Comments!OpenReply, Comments!CancelReply, Comments!Write, Comments!Rate,
                Comments!ChooseImage, Comments!ChangeTabs, Comments!EventMovesOn, Comments!Input,
                Comments!Touch
  <2> QED
    BY <2>1, ReadAside
<1>3. CASE Comments!Submit
  <2>1. stored' = stored /\ list' = list /\ \E what \in Postings : Comments!Sent(what, draft.text, 0)
    BY <1>3 DEF Comments!Submit, Comments!Input, Comments!Touch, Postings
  <2>2. PICK what \in Postings : Comments!Sent(what, draft.text, 0)
    BY <2>1
  <2>3. what \notin Pagings /\ what \in Pagings \union Postings /\ what # "first" /\ what # "more"
    BY <2>2 DEF Pagings, Postings
  <2>4. ListFits(client, kind, list', stored)
    BY <2>1 DEF ReadNow
  <2> QED
    BY <1>0, <2>1, <2>2, <2>3, <2>4, ReadSent
<1>4. CASE \E i \in DOMAIN calls : Comments!Execute(i) \/ Comments!Answer(i) \/ Comments!Lose(i)
  BY <1>4, ReadExecutes, ReadAnswers, ReadLost
<1>5. CASE \E text \in abandoned : Comments!PostAbandoned(text)
  BY <1>5, ReadAbandoned
<1>6. CASE Comments!OthersWrite
  BY <1>6, ReadOthers
<1>7. CASE Comments!Refetch
  <2>1. CASE client # "web"
    <3>1. stored' = stored /\ calls' = calls /\ list' = list
      BY <1>7, <2>1 DEF Comments!Refetch, Comments!Web
    <3> QED
      BY <3>1, ReadAside
  <2>2. CASE client = "web"
    <3>1. /\ stored' = stored /\ list' = Comments!Opened(Len(stored))
          /\ calls' = IF kind = "replies" THEN <<>> ELSE <<Comments!Call("first", 0, 0)>>
      BY <1>7, <2>2 DEF Comments!Refetch, Comments!Web, Comments!Replies
    <3>2. /\ ListFits(client, kind, list', stored) /\ OnePage(list', calls') /\ InReach(client, kind, list')
          /\ \A i \in DOMAIN calls' : CallFits(kind, list', calls'[i], stored)
      BY <1>0, <3>1, OpenedReads
    <3> QED
      BY <1>0, <3>1, <3>2 DEF ReadKept
  <2> QED
    BY <2>1, <2>2
<1> QED
  BY <1>1, <1>2, <1>3, <1>4, <1>5, <1>6, <1>7 DEF Comments!Next, Comments!User, Comments!System

\* Everything is within reach at first.
LEMMA ReadInit ==
  ASSUME PanelsAssumption, Init
  PROVE  ReadInv
<1> SUFFICES ASSUME panel = "comments"
             PROVE  /\ OneReview(kind, stored) /\ ListFits(client, kind, list, stored) /\ OnePage(list, calls)
                    /\ ~list.astray => InReach(client, kind, list)
                    /\ \A i \in DOMAIN calls : CallFits(kind, list, calls[i], stored)
  BY DEF ReadInv
<1>1. Comments!Init
  BY DEF Init
<1>2. CommentsTyped
  BY <1>1, CommentsFirst
<1>3. PICK n \in 0 .. MaxOld, mine \in 0 .. MaxOld :
        /\ stored = [i \in 1 .. n |-> [id |-> i, mine |-> i = mine, text |-> 0]]
        /\ list = Comments!Opened(n)
  BY <1>1 DEF Comments!Init
<1>4. n \in Nat /\ stored \in Seq(Comments!Comment) /\ client \in {"web", "mobile"}
      /\ kind \in {"discussion", "replies", "reviews"}
  BY <1>2, ListFacts DEF PanelsAssumption
<1>5. Len(stored) = n /\ DOMAIN stored = 1 .. n /\ \A i \in 1 .. n : stored[i].mine <=> i = mine
  <2>1. DOMAIN stored = 1 .. n /\ \A i \in 1 .. n : stored[i].mine <=> i = mine
    BY <1>3
  <2>2. stored \in [1 .. n -> Comments!Comment]
    BY <1>4, <2>1
  <2>3. Len(stored) = n
    BY <1>4, <2>2
  <2> QED
    BY <2>1, <2>3
<1>6. OneReview(kind, stored)
  BY <1>5 DEF OneReview
<1>7. calls = IF kind = "replies" THEN <<>> ELSE <<Comments!Call("first", 0, 0)>>
  BY <1>1 DEF Comments!Init, Comments!Replies
<1>8. /\ ListFits(client, kind, list, stored) /\ OnePage(list, calls) /\ InReach(client, kind, list)
      /\ \A i \in DOMAIN calls : CallFits(kind, list, calls[i], stored)
  BY <1>3, <1>4, <1>5, <1>7, OpenedReads
<1> QED
  BY <1>6, <1>8

\* Every step of the panels leaves what is read within reach.
LEMMA ReadNext ==
  ASSUME PanelsAssumption, WriteInv, ReadInv, [Next]_vars
  PROVE  ReadInv'
<1>1. CASE panel = "comments" /\ Comments!Next /\ panel' = panel
  <2>1. ReadNow
    BY <1>1 DEF WriteInv, ReadInv, ReadNow
  <2>2. ReadKept
    BY <1>1, <2>1, ReadStep
  <2>3. client' = client /\ kind' = kind
    <3>1. \A what : Comments!Input(what) => client' = client /\ kind' = kind
      BY DEF Comments!Input, Comments!Touch, Comments!setting
    <3>2. CASE Comments!User
      BY <3>1, <3>2 DEF Comments!User, Comments!Retry, Comments!LoadMore, Comments!ToggleReplies,
         Comments!OpenReply, Comments!CancelReply, Comments!Write, Comments!Rate, Comments!ChooseImage,
         Comments!ChangeTabs, Comments!Submit, Comments!Touch, Comments!setting
    <3>3. CASE ~Comments!User
      BY <1>1, <3>3 DEF Comments!Next, Comments!System, Comments!Execute, Comments!Answer, Comments!Lose,
         Comments!PostAbandoned, Comments!Refetch, Comments!OthersWrite, Comments!EventMovesOn,
         Comments!setting
    <3> QED
      BY <3>2, <3>3
  <2> QED
    BY <2>2, <2>3 DEF ReadKept, ReadInv
<1>2. CASE panel = "host" /\ panel' = panel
  BY <1>2 DEF ReadInv
<1>3. CASE UNCHANGED vars
  <2>1. /\ panel' = panel /\ client' = client /\ kind' = kind /\ list' = list
        /\ stored' = stored /\ calls' = calls
    BY <1>3 DEF vars, commentVars
  <2> QED
    BY <2>1 DEF ReadInv
<1> QED
  BY <1>1, <1>2, <1>3 DEF Next

-----------------------------------------------------------------------------
(* What the screen can bring.                                              *)

\* As many comments are shown as there are places for them.
LEMMA ShownOnce ==
  ASSUME NEW s \in Seq(Comments!Comment), \A i, j \in DOMAIN s : i < j => s[i].id # s[j].id
  PROVE  Comments!Cardinality({s[k].id : k \in DOMAIN s}) = Len(s)
<1> DEFINE S == {s[k].id : k \in DOMAIN s}
           f == [k \in DOMAIN s |-> s[k].id]
<1>1. Len(s) \in Nat /\ DOMAIN s = 1 .. Len(s)
  OBVIOUS
<1>2. IsFiniteSet(1 .. Len(s)) /\ Cardinality(1 .. Len(s)) = Len(s)
  BY <1>1, FS_Interval
<1>3. \A i, j \in DOMAIN s : s[i].id = s[j].id => i = j
  <2>1. \A i, j \in DOMAIN s : i = j \/ i < j \/ j < i
    BY <1>1
  <2> QED
    BY <2>1
<1>4. f \in Surjection(1 .. Len(s), S) /\ f \in Injection(1 .. Len(s), S)
  BY <1>1, <1>3 DEF Injection, IsInjective, Surjection
<1>5. Cardinality(S) = Len(s)
  BY <1>2, <1>4, FS_Surjection
<1>6. Comments!Cardinality(S) = Cardinality(S)
  BY DEF Comments!Cardinality, Cardinality
<1> QED
  BY <1>5, <1>6

\* What is behind the page or folded can be asked for.
LEMMA ButtonsReach ==
  ASSUME CommentsTyped, ListFits(client, kind, list, stored), InReach(client, kind, list), list.busy = "no",
         NEW id \in 1 .. list.horizon \union list.own
  PROVE  Comments!WithinReach(id)
<1>0. /\ list.next \in Nat /\ list.count \in Nat /\ client \in {"web", "mobile"}
      /\ kind \in {"discussion", "replies", "reviews"} /\ list \in ListRow
      /\ list.horizon \in Nat
  BY ListFacts DEF CommentsTyped
<1>1. id \in 1 .. Len(stored) /\ stored[id].id = id /\ id \in (1 .. list.horizon) \union list.own
  <2>1. Len(stored) \in Nat /\ DOMAIN stored = 1 .. Len(stored)
    BY ListFacts
  <2>2. 1 .. list.horizon \subseteq 1 .. Len(stored) /\ list.own \subseteq 1 .. Len(stored)
    BY <1>0, <2>1 DEF ListFits
  <2> QED
    BY <2>1, <2>2 DEF CommentsTyped
<1>2. \/ \E i \in DOMAIN list.shown : list.shown[i].id = id
      \/ list.next # 0 /\ Behind(kind, id, list.next)
      \/ Folded(client, kind, list)
  BY <1>1 DEF InReach
<1>3. CASE \E i \in DOMAIN list.shown : list.shown[i].id = id
  BY <1>3 DEF Comments!WithinReach, Comments!IdsShown
<1>4. CASE list.next # 0 /\ Behind(kind, id, list.next)
  <2>1. list.shown # <<>>
    BY <1>4 DEF InReach
  <2>2. Comments!Beyond(stored[id], list.next)
    BY <1>1, <1>4 DEF Comments!Beyond, Behind, Comments!Replies
  <2>3. CASE kind = "replies"
    <3>1. IF client = "web" THEN list.count > 0 ELSE list.known
      BY <1>4, <2>3, Zenon DEF ListFits
    <3>2. list.open => "more" \in Comments!ListOffers
      BY <1>0, <1>4, <2>3 DEF Comments!ListOffers, Comments!WebReplyList, Comments!MobileReplyList
    <3>3. "toggle" \in Comments!ListOffers
      <4>1. CASE client = "web"
        BY <2>3, <3>1, <4>1 DEF Comments!ListOffers, Comments!WebReplyList, Comments!Web
      <4>2. CASE client = "mobile"
        BY <2>1, <2>3, <3>1, <4>2 DEF Comments!ListOffers, Comments!MobileReplyList, Comments!Web
      <4> QED
        BY <1>0, <4>1, <4>2
    <3> QED
      BY <1>4, <2>2, <3>2, <3>3 DEF Comments!WithinReach
  <2>4. CASE kind # "replies"
    <3>1. "more" \in Comments!ListOffers \/ "retry" \in Comments!ListOffers
      BY <1>0, <1>4, <2>1, <2>4
         DEF Comments!ListOffers, Comments!WebDiscussionList, Comments!WebReviewList,
             Comments!MobileDiscussionList, Comments!MobileReviewList
    <3> QED
      BY <2>2, <3>1 DEF Comments!WithinReach
  <2> QED
    BY <2>3, <2>4
<1>5. CASE Folded(client, kind, list)
  <2>1. "toggle" \in Comments!ListOffers /\ list.shown = <<>>
    <3>1. CASE client = "web"
      BY <1>5, <3>1 DEF Folded, Comments!ListOffers, Comments!WebReplyList, Comments!Web
    <3>2. CASE client = "mobile"
      BY <1>5, <3>2 DEF Folded, Comments!ListOffers, Comments!MobileReplyList, Comments!Web
    <3> QED
      BY <1>0, <3>1, <3>2
  <2> QED
    BY <2>1 DEF Comments!WithinReach
<1> QED
  BY <1>2, <1>3, <1>4, <1>5

\* The invariants hold what the screen promises.
LEMMA ReadReaches ==
  ASSUME PanelsAssumption, WriteInv, ReadInv
  PROVE  EverythingCanBeReached
<1> SUFFICES ASSUME panel = "comments"
             PROVE  Comments!StoredOnce /\ Comments!EverythingCanBeReached
  BY DEF EverythingCanBeReached
<1>1. /\ CommentsTyped /\ TextsKnown /\ CountedOnce /\ ListFits(client, kind, list, stored)
      /\ OnePage(list, calls) /\ (~list.astray => InReach(client, kind, list))
  BY DEF WriteInv, ReadInv
<1>2. Comments!StoredOnce
  BY <1>1, CountedIsStored
<1>3. Comments!TypeOK
  <2>1. /\ stored \in Seq(Comments!Comment) /\ \A i \in DOMAIN stored : stored[i].id = i
        /\ list.shown \in Seq(Comments!Comment) /\ list.next \in Nat /\ list.busy \in {"no", "first", "more"}
    BY <1>1, ListFacts DEF CommentsTyped, Pagings
  <2>2. /\ draft.text \in Nat /\ draft.text <= inputs /\ draft.sending \in BOOLEAN
        /\ inputs \in Nat /\ inputs <= MaxInput /\ lost \in Nat /\ lost <= MaxLost
        /\ MaxInput \in Nat /\ MaxLost \in Nat
    BY <1>1 DEF CommentsTyped, DraftRow, TextsKnown, PanelsAssumption
  <2> QED
    BY <2>1, <2>2 DEF Comments!TypeOK
<1>4. ASSUME calls = <<>>, ~list.astray
      PROVE  /\ \A id \in 1 .. list.horizon \union list.own : Comments!WithinReach(id)
             /\ Comments!Cardinality(Comments!IdsShown) = Len(list.shown)
             /\ \A j, k \in DOMAIN list.shown :
                  (j < k /\ ~list.shown[j].mine /\ ~list.shown[k].mine) =>
                    Comments!Beyond(list.shown[k], list.shown[j].id)
  <2>1. InReach(client, kind, list) /\ list.busy = "no"
    BY <1>1, <1>4 DEF OnePage
  <2>2. \A j, k \in DOMAIN list.shown : j < k =>
          /\ list.shown[j].id # list.shown[k].id
          /\ ~list.shown[j].mine /\ ~list.shown[k].mine => Behind(kind, list.shown[k].id, list.shown[j].id)
    BY <2>1, Zenon DEF InReach
  <2>3. Comments!Cardinality(Comments!IdsShown) = Len(list.shown)
    BY <1>1, <2>2, ListFacts, ShownOnce DEF Comments!IdsShown
  <2>4. \A j, k \in DOMAIN list.shown : Behind(kind, list.shown[k].id, list.shown[j].id) =>
          Comments!Beyond(list.shown[k], list.shown[j].id)
    BY DEF Behind, Comments!Beyond, Comments!Replies
  <2> QED
    BY <1>1, <2>1, <2>2, <2>3, <2>4, ButtonsReach
<1> QED
  BY <1>2, <1>3, <1>4 DEF Comments!EverythingCanBeReached

(* While nothing is under way, every comment that was read, and every own  *)
(* one since, is shown once and in order or can still be reached, but for  *)
(* the lists that are left out; and a comment is stored once, but for the  *)
(* answers that were lost.                                                 *)
THEOREM ReachedFromHere == Spec => []EverythingCanBeReached
<1> USE PanelsAssumption
<1>1. Init => WriteInv /\ ReadInv
  BY WriteInit, ReadInit
<1>2. WriteInv /\ ReadInv /\ [Next]_vars => WriteInv' /\ ReadInv'
  BY WriteNext, ReadNext
<1>3. WriteInv /\ ReadInv => EverythingCanBeReached
  BY ReadReaches
<1> QED
  BY <1>1, <1>2, <1>3, PTL DEF Spec
=============================================================================
