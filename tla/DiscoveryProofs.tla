---------------------------- MODULE DiscoveryProofs ----------------------------
(***************************************************************************)
(* Proofs about the list of events near a place, for any numbers of pages, *)
(* places, inputs, calls and losses.                                       *)
(***************************************************************************)
EXTENDS Discovery, SequenceTheorems, TLAPS

Reload == {"first", "refresh"}
Spots == Place \cup {None}
QueryType == [text : Text, filters : Filters, at : Place]
Item == [query : QueryType, page : Nat]
CallType == [kind : Reload \cup {"silent", "more"}, query : QueryType, cursor : Item \cup {None},
             late : BOOLEAN]
Run == [kind : {"context", "silent"}, text : Text, filters : Filters, current : BOOLEAN]

SearchType == [box : Text, applied : Text, timer : Text \cup {"off"}, stray : BOOLEAN]
PlacesType == [selected : Spots, default : Spots, custom : Spots, browser : Spots, known : BOOLEAN]
PickerType == [open : BOOLEAN, pending : Spots, timer : BOOLEAN, lookups : Nat, found : BOOLEAN,
               touched : SUBSET Tap]
ListType == [shown : Seq(Item), cursor : Item \cup {None}, loading : BOOLEAN, more : BOOLEAN,
             refreshing : BOOLEAN, failed : BOOLEAN, astray : BOOLEAN, marker : Item \cup {None}]

-----------------------------------------------------------------------------
(* The list l, the calls cs for it, the query q that is asked for; m is    *)
(* the app, r that the place is known and d that a reload is due.          *)

PageOf(m, q, n) == IF m /\ n = Pages THEN <<>> ELSE <<[query |-> q, page |-> n]>>

PagesOf(m, q, n) ==
  [k \in 1 .. (IF m /\ n = Pages THEN n - 1 ELSE n) |-> [query |-> q, page |-> k]]

\* The list is the first pages of a query.
Lists(m, l, q) ==
  \E n \in 1 .. Pages : l.shown = PagesOf(m, q, n) /\ l.cursor = NextPage(q, n)

\* A call that brings the list that is asked for.
Due(c, q) == c.kind \in Reload /\ ~c.late /\ c.query = q

\* One further page at a time.
MoreOnce(cs, l) ==
  \A i, j \in DOMAIN cs : cs[i].kind = "more" => l.more /\ (cs[j].kind = "more" => i = j)

\* A cursor tells which pages are shown.
CursorTells(m, l) ==
  l.cursor # None => l.cursor.page \in 2 .. Pages /\ (~l.astray => Lists(m, l, l.cursor.query))

\* A further page is asked for those that are shown, unless they were replaced since.
MoreTells(m, cs, l) ==
  \A i \in DOMAIN cs :
    IF cs[i].kind = "more"
    THEN /\ cs[i].cursor # None /\ cs[i].cursor.page \in 2 .. Pages
         /\ ~cs[i].late /\ ~l.astray => l.shown = PagesOf(m, cs[i].cursor.query, cs[i].cursor.page - 1)
    ELSE cs[i].cursor = None

\* A call for something else will be overtaken.
Superseded(cs, q, d) ==
  \A i \in DOMAIN cs :
    cs[i].kind # "more" /\ ~cs[i].late /\ cs[i].query # q =>
      d \/ \E j \in DOMAIN cs : i < j /\ Due(cs[j], q)

\* The list is what is asked for, or will be, or shows an error, or will.
ListFollows(m, cs, l, q, d) ==
  \/ d \/ l.failed \/ l.astray \/ Lists(m, l, q)
  \/ \E i \in DOMAIN cs : Due(cs[i], q)
  \/ m /\ \E i \in DOMAIN cs : cs[i].kind = "more" /\ cs[i].cursor.query # cs[i].query

Sound(m, cs, l, q, r, d) ==
  /\ MoreOnce(cs, l) /\ CursorTells(m, l) /\ MoreTells(m, cs, l)
  /\ r => Superseded(cs, q, d) /\ ListFollows(m, cs, l, q, d)

SameList(l, k) ==
  /\ k.shown = l.shown /\ k.cursor = l.cursor /\ k.more = l.more
  /\ k.failed = l.failed /\ k.astray = l.astray

\* Unless the list will be loaded anew, what it should be is what it was.
Held(q, r, d, q2, r2, d2) == r2 => d2 \/ (r /\ q2 = q /\ ~d)

-----------------------------------------------------------------------------
(* What each kind of step leaves of it.                                    *)

\* The list stays as it is and no call is sent or ends.
LEMMA SoundKept ==
  ASSUME NEW m, NEW cs, NEW l, NEW q, NEW r, NEW d, NEW l2, NEW q2, NEW r2, NEW d2,
         Sound(m, cs, l, q, r, d), SameList(l, l2), Held(q, r, d, q2, r2, d2)
  PROVE  Sound(m, cs, l2, q2, r2, d2)
<1>1. Lists(m, l, l.cursor.query) => Lists(m, l2, l.cursor.query)
  BY DEF Lists, SameList
<1>2. Lists(m, l, q) => Lists(m, l2, q)
  BY DEF Lists, SameList
<1>3. MoreOnce(cs, l2) /\ CursorTells(m, l2) /\ MoreTells(m, cs, l2)
  BY <1>1 DEF Sound, SameList, MoreOnce, CursorTells, MoreTells
<1>4. CASE d2
  BY <1>3, <1>4 DEF Sound, Superseded, ListFollows
<1>5. CASE ~d2
  <2>1. ASSUME r2 PROVE r /\ q2 = q /\ ~d
    BY <1>5, <2>1 DEF Held
  <2>2. ASSUME r2 PROVE Superseded(cs, q2, d2)
    BY <2>1, <2>2 DEF Sound, Superseded
  <2>3. ASSUME r2 PROVE ListFollows(m, cs, l2, q2, d2)
    BY <1>2, <2>1, <2>3 DEF Sound, ListFollows, SameList
  <2> QED
    BY <1>3, <2>2, <2>3 DEF Sound
<1> QED
  BY <1>4, <1>5

\* What a call that is sent changes: it is the last one.
LEMMA OneMore ==
  ASSUME NEW cs \in Seq(CallType), NEW c \in CallType
  PROVE  /\ Append(cs, c) \in Seq(CallType) /\ Len(Append(cs, c)) = Len(cs) + 1
         /\ DOMAIN Append(cs, c) = DOMAIN cs \cup {Len(cs) + 1}
         /\ Append(cs, c)[Len(cs) + 1] = c
         /\ \A i \in DOMAIN cs : Append(cs, c)[i] = cs[i] /\ i < Len(cs) + 1
OBVIOUS

\* A silent refresh is sent.
LEMMA SoundSilent ==
  ASSUME NEW m, NEW cs \in Seq(CallType), NEW l, NEW q, NEW r, NEW d, NEW l2, NEW q2, NEW r2, NEW d2,
         NEW c \in CallType,
         Sound(m, cs, l, q, r, d), SameList(l, l2), Held(q, r, d, q2, r2, d2),
         c.kind = "silent", c.cursor = None, c.late \/ c.query = q2
  PROVE  Sound(m, Append(cs, c), l2, q2, r2, d2)
<1>1. Sound(m, cs, l2, q2, r2, d2)
  BY SoundKept
<1>2. PICK t : t = Append(cs, c)
  OBVIOUS
<1>3. PICK z : z = Len(cs) + 1
  OBVIOUS
<1>4. DOMAIN t = DOMAIN cs \cup {z} /\ t[z] = c /\ \A i \in DOMAIN cs : t[i] = cs[i] /\ i < z
  BY <1>2, <1>3, OneMore
<1>5. MoreOnce(t, l2) /\ MoreTells(m, t, l2)
  BY <1>1, <1>4 DEF Sound, MoreOnce, MoreTells
<1>6. ASSUME r2 PROVE Superseded(t, q2, d2)
  BY <1>1, <1>4, <1>6 DEF Sound, Superseded
<1>7. ASSUME r2 PROVE ListFollows(m, t, l2, q2, d2)
  BY <1>1, <1>4, <1>7 DEF Sound, ListFollows
<1> QED
  BY <1>1, <1>2, <1>5, <1>6, <1>7 DEF Sound

\* The list is loaded anew.
LEMMA SoundReload ==
  ASSUME NEW m, NEW cs \in Seq(CallType), NEW l, NEW q, NEW r, NEW d, NEW l2, NEW q2, NEW r2, NEW d2,
         NEW c \in CallType,
         Sound(m, cs, l, q, r, d), c.kind \in Reload, c.cursor = None, ~c.late, c.query = q2,
         l2.shown = l.shown, l2.astray = l.astray, l2.more = l.more, l2.cursor \in {l.cursor, None}
  PROVE  Sound(m, Append(cs, c), l2, q2, r2, d2)
<1>1. PICK t : t = Append(cs, c)
  OBVIOUS
<1>2. PICK z : z = Len(cs) + 1
  OBVIOUS
<1>3. DOMAIN t = DOMAIN cs \cup {z} /\ t[z] = c /\ \A i \in DOMAIN cs : t[i] = cs[i] /\ i < z
  BY <1>1, <1>2, OneMore
<1>4. c.kind # "more" /\ Due(t[z], q2)
  BY <1>3 DEF Reload, Due
<1>5. MoreOnce(t, l2)
  BY <1>3, <1>4 DEF Sound, MoreOnce
<1>6. MoreTells(m, t, l2)
  BY <1>3, <1>4 DEF Sound, MoreTells
<1>7. CursorTells(m, l2)
  BY DEF Sound, CursorTells, Lists
<1>8. Superseded(t, q2, d2)
  BY <1>3, <1>4 DEF Superseded, Due
<1>9. ListFollows(m, t, l2, q2, d2)
  BY <1>3, <1>4 DEF ListFollows
<1> QED
  BY <1>1, <1>5, <1>6, <1>7, <1>8, <1>9 DEF Sound

\* The next page is asked for.
LEMMA SoundMore ==
  ASSUME NEW m, NEW cs \in Seq(CallType), NEW l, NEW q, NEW r, NEW d, NEW l2, NEW c \in CallType,
         Sound(m, cs, l, q, r, d), Pages \in Nat, ~l.more, l.cursor # None,
         c.kind = "more", c.cursor = l.cursor, ~c.late, c.query = q,
         l2.shown = l.shown, l2.cursor = l.cursor, l2.astray = l.astray, l2.more,
         ~m => l2.failed = l.failed, m \in BOOLEAN
  PROVE  Sound(m, Append(cs, c), l2, q, r, d)
<1>1. PICK t : t = Append(cs, c)
  OBVIOUS
<1>2. PICK z : z = Len(cs) + 1
  OBVIOUS
<1>3. DOMAIN t = DOMAIN cs \cup {z} /\ t[z] = c /\ \A i \in DOMAIN cs : t[i] = cs[i] /\ i < z
  BY <1>1, <1>2, OneMore
<1>4. \A i \in DOMAIN cs : cs[i].kind # "more"
  BY DEF Sound, MoreOnce
<1>5. MoreOnce(t, l2)
  BY <1>3, <1>4 DEF MoreOnce
<1>6. ~l.astray => l.shown = PagesOf(m, l.cursor.query, l.cursor.page - 1)
  <2> SUFFICES ASSUME ~l.astray PROVE l.shown = PagesOf(m, l.cursor.query, l.cursor.page - 1)
    OBVIOUS
  <2>1. PICK n \in 1 .. Pages : l.shown = PagesOf(m, l.cursor.query, n) /\ l.cursor = NextPage(l.cursor.query, n)
    BY DEF Sound, CursorTells, Lists
  <2>2. l.cursor.page = n + 1
    BY <2>1 DEF NextPage
  <2>3. l.cursor.page - 1 = n
    BY <2>2
  <2> QED
    BY <2>1, <2>3
<1>7. MoreTells(m, t, l2)
  BY <1>3, <1>4, <1>6 DEF Sound, CursorTells, MoreTells
<1>8. CursorTells(m, l2)
  BY DEF Sound, CursorTells, Lists
<1>9. ASSUME r PROVE Superseded(t, q, d)
  BY <1>3, <1>9 DEF Sound, Superseded
<1>10. ASSUME r PROVE ListFollows(m, t, l2, q, d)
  <2>1. ListFollows(m, cs, l, q, d)
    BY <1>10 DEF Sound
  <2>2. Lists(m, l, q) => Lists(m, l2, q)
    BY DEF Lists
  <2>3. CASE ~m
    BY <1>3, <2>1, <2>2, <2>3 DEF ListFollows
  <2>4. CASE m /\ ~l.astray /\ c.cursor.query = c.query
    <3>1. Lists(m, l, q)
      BY <2>4 DEF Sound, CursorTells
    <3> QED
      BY <2>2, <3>1 DEF ListFollows
  <2>5. CASE m /\ c.cursor.query # c.query
    BY <1>3, <2>5 DEF ListFollows
  <2>6. CASE l.astray
    BY <2>6 DEF ListFollows
  <2> QED
    BY <2>3, <2>4, <2>5, <2>6
<1> QED
  BY <1>1, <1>5, <1>7, <1>8, <1>9, <1>10 DEF Sound

-----------------------------------------------------------------------------
(* A call ends.                                                            *)

\* Where the j-th of the calls that are left was, the i-th being gone.
Was(i, j) == IF j < i THEN j ELSE j + 1

\* The i-th call is gone; those of W are overtaken, the others are as they were.
LeftBut(cs, cs2, i, W) ==
  /\ cs2 \in Seq(CallType) /\ Len(cs2) = Len(cs) - 1
  /\ \A j \in DOMAIN cs2 : LET k == Was(i, j) IN
       /\ cs2[j].kind = cs[k].kind /\ cs2[j].query = cs[k].query /\ cs2[j].cursor = cs[k].cursor
       /\ cs2[j].late = (cs[k].late \/ k \in W)

\* The calls that are left are those that were there, in their order.
LEMMA LeftAre ==
  ASSUME NEW cs \in Seq(CallType), NEW cs2, NEW i \in DOMAIN cs, NEW W, LeftBut(cs, cs2, i, W)
  PROVE  /\ \A j \in DOMAIN cs2 : Was(i, j) \in DOMAIN cs /\ Was(i, j) # i
         /\ \A j, h \in DOMAIN cs2 : Was(i, j) = Was(i, h) => j = h
         /\ \A k \in DOMAIN cs : k # i => \E j \in DOMAIN cs2 : Was(i, j) = k
         /\ \A j, h \in DOMAIN cs2 : Was(i, j) < Was(i, h) => j < h
         /\ \A k \in DOMAIN cs : k \in Nat
<1>1. cs2 \in Seq(CallType) /\ Len(cs2) = Len(cs) - 1 /\ i \in 1 .. Len(cs) /\ Len(cs) \in Nat
  BY DEF LeftBut
<1>2. DOMAIN cs2 = 1 .. (Len(cs) - 1) /\ DOMAIN cs = 1 .. Len(cs)
  BY <1>1
<1>3. \A k \in DOMAIN cs : k # i => \E j \in DOMAIN cs2 : Was(i, j) = k
  <2> SUFFICES ASSUME NEW k \in DOMAIN cs, k # i PROVE \E j \in DOMAIN cs2 : Was(i, j) = k
    OBVIOUS
  <2>1. CASE k < i
    BY <1>1, <1>2, <2>1 DEF Was
  <2>2. CASE k > i
    <3>1. k - 1 \in DOMAIN cs2 /\ Was(i, k - 1) = k
      BY <1>1, <1>2, <2>2 DEF Was
    <3> QED
      BY <3>1
  <2> QED
    BY <1>1, <1>2, <2>1, <2>2
<1> QED
  BY <1>1, <1>2, <1>3 DEF Was

\* One further page at a time, also when a call has ended.
LEMMA StillOnce ==
  ASSUME NEW cs \in Seq(CallType), NEW cs2, NEW i \in DOMAIN cs, NEW W, NEW l, NEW l2,
         MoreOnce(cs, l), LeftBut(cs, cs2, i, W), l2.more = (l.more /\ cs[i].kind # "more")
  PROVE  MoreOnce(cs2, l2)
<1>1. \A j \in DOMAIN cs2 : Was(i, j) \in DOMAIN cs /\ Was(i, j) # i /\ cs2[j].kind = cs[Was(i, j)].kind
  BY LeftAre DEF LeftBut
<1>2. \A j, h \in DOMAIN cs2 : Was(i, j) = Was(i, h) => j = h
  BY LeftAre
<1> QED
  BY <1>1, <1>2 DEF MoreOnce

\* A call for something else that is left will still be overtaken, unless the step lost the reload
\* that would have done it: then it is overtaken now.
LEMMA StillSuperseded ==
  ASSUME NEW cs \in Seq(CallType), NEW cs2, NEW i \in DOMAIN cs, NEW W, NEW q, NEW d,
         Superseded(cs, q, d), LeftBut(cs, cs2, i, W),
         \A k \in DOMAIN cs : k \in W /\ cs[k].kind \in Reload => k < i,
         cs[i].kind \in Reload \/ W # {} =>
           \A k \in DOMAIN cs : k < i /\ cs[k].kind # "more" => k \in W
  PROVE  Superseded(cs2, q, d)
<1> SUFFICES ASSUME NEW j \in DOMAIN cs2, cs2[j].kind # "more", ~cs2[j].late, cs2[j].query # q, ~d
             PROVE  \E h \in DOMAIN cs2 : j < h /\ Due(cs2[h], q)
  BY DEF Superseded
<1>1. PICK k \in DOMAIN cs : k = Was(i, j) /\ k # i
  BY LeftAre
<1>2. cs[k].kind # "more" /\ ~cs[k].late /\ cs[k].query # q /\ k \notin W
  BY <1>1 DEF LeftBut
<1>3. PICK b \in DOMAIN cs : k < b /\ Due(cs[b], q)
  BY <1>2 DEF Superseded
<1>4. b # i /\ b \notin W
  <2>1. \A a \in DOMAIN cs : a \in Nat
    BY LeftAre
  <2>2. CASE b = i
    BY <1>2, <1>3, <2>1, <2>2 DEF Due
  <2>3. CASE b \in W
    <3>1. b < i /\ W # {}
      BY <1>3, <2>3 DEF Due
    <3>2. k < i
      BY <1>3, <2>1, <3>1
    <3> QED
      BY <1>2, <3>1, <3>2
  <2> QED
    BY <2>2, <2>3
<1>5. PICK h \in DOMAIN cs2 : Was(i, h) = b
  BY <1>4, LeftAre
<1>6. Due(cs2[h], q)
  BY <1>3, <1>4, <1>5 DEF Due, LeftBut
<1>7. j < h
  BY <1>1, <1>3, <1>5, LeftAre
<1> QED
  BY <1>6, <1>7

\* A reload for what is asked for that neither ends nor is overtaken is left.
LEMMA StillDue ==
  ASSUME NEW cs \in Seq(CallType), NEW cs2, NEW i \in DOMAIN cs, NEW W, NEW q,
         LeftBut(cs, cs2, i, W), NEW b \in DOMAIN cs, Due(cs[b], q), b # i, b \notin W
  PROVE  \E h \in DOMAIN cs2 : Due(cs2[h], q)
<1>1. PICK h \in DOMAIN cs2 : Was(i, h) = b
  BY LeftAre
<1> QED
  BY <1>1 DEF Due, LeftBut

\* One page after the others.
LEMMA PagesGrow ==
  ASSUME NEW m \in BOOLEAN, NEW q \in QueryType, NEW n \in 1 .. (Pages - 1), Pages \in Nat
  PROVE  PagesOf(m, q, n) \o PageOf(m, q, n + 1) = PagesOf(m, q, n + 1)
<1>1. PICK x : x = [query |-> q, page |-> n + 1] /\ x \in Item
  <2>1. n + 1 \in Nat
    OBVIOUS
  <2>2. [query |-> q, page |-> n + 1] \in Item
    BY <2>1 DEF Item
  <2> QED
    BY <2>2
<1>2. PagesOf(m, q, n) = [k \in 1 .. n |-> [query |-> q, page |-> k]]
  BY DEF PagesOf
<1>3. PICK s : s = [k \in 1 .. n |-> [query |-> q, page |-> k]]
  OBVIOUS
<1>4. s \in Seq(Item) /\ Len(s) = n
  BY <1>3 DEF Item
<1>5. CASE m /\ n + 1 = Pages
  <2>1. PageOf(m, q, n + 1) = <<>> /\ PagesOf(m, q, n + 1) = s
    BY <1>3, <1>5 DEF PageOf, PagesOf
  <2> QED
    BY <1>2, <1>3, <1>4, <2>1, ConcatEmptySeq
<1>6. CASE ~(m /\ n + 1 = Pages)
  <2>1. PageOf(m, q, n + 1) = <<x>>
    BY <1>1, <1>6 DEF PageOf
  <2>2. PagesOf(m, q, n + 1) = [k \in 1 .. (n + 1) |-> [query |-> q, page |-> k]]
    BY <1>6 DEF PagesOf
  <2>3. s \o <<x>> = Append(s, x)
    BY <1>1, <1>4, AppendIsConcat
  <2>4. Append(s, x) = [k \in 1 .. (n + 1) |-> [query |-> q, page |-> k]]
    BY <1>1, <1>3, <1>4
  <2> QED
    BY <1>2, <1>3, <2>1, <2>2, <2>3, <2>4
<1> QED
  BY <1>5, <1>6

\* The first page is the first of the pages.
LEMMA FirstOfPages ==
  ASSUME NEW m \in BOOLEAN, NEW q, Pages \in Nat \ {0}
  PROVE  PageOf(m, q, 1) = PagesOf(m, q, 1)
BY DEF PageOf, PagesOf

\* The page after the n-th, if there is one.
LEMMA PageAfter ==
  ASSUME NEW q, NEW n \in 1 .. Pages, Pages \in Nat, NextPage(q, n) # None
  PROVE  NextPage(q, n).query = q /\ NextPage(q, n).page = n + 1 /\ n + 1 \in 2 .. Pages
BY DEF NextPage

\* Pages that are shown are those of one query.
LEMMA OneQuery ==
  ASSUME NEW m \in BOOLEAN, NEW q, NEW p, NEW n \in 1 .. (Pages - 1), NEW k \in 1 .. Pages, Pages \in Nat,
         PagesOf(m, q, n) = PagesOf(m, p, k)
  PROVE  q = p
<1>1. PagesOf(m, q, n)[1] = [query |-> q, page |-> 1] /\ 1 \in DOMAIN PagesOf(m, q, n)
  BY DEF PagesOf
<1>2. \A a \in DOMAIN PagesOf(m, p, k) : PagesOf(m, p, k)[a] = [query |-> p, page |-> a]
  BY DEF PagesOf
<1>3. [query |-> q, page |-> 1] = [query |-> p, page |-> 1]
  BY <1>1, <1>2
<1> QED
  BY <1>3

\* The calls an answer with a first page overtakes, and a reload that fails.
Older(cs, i) == {j \in DOMAIN cs : j < i /\ cs[j].kind # "more"}
Replaced(cs, i) == {j \in DOMAIN cs : j < i \/ cs[j].kind = "more"}

\* An answer that brings a first page.
LEMMA SoundFirst ==
  ASSUME NEW m \in BOOLEAN, NEW cs \in Seq(CallType), NEW cs2, NEW i \in DOMAIN cs,
         NEW l \in ListType, NEW l2 \in ListType, NEW q, NEW r, NEW d, Pages \in Nat \ {0},
         Sound(m, cs, l, q, r, d), cs[i].kind # "more", LeftBut(cs, cs2, i, Replaced(cs, i)),
         l2.shown = PageOf(m, cs[i].query, 1), l2.cursor = NextPage(cs[i].query, 1),
         l2.astray = cs[i].late, l2.more = l.more, l2.failed = l.failed
  PROVE  Sound(m, cs2, l2, q, r, d)
<1>1. MoreOnce(cs2, l2)
  <2>1. l2.more = (l.more /\ cs[i].kind # "more")
    BY DEF ListType
  <2> QED
    BY <2>1, StillOnce DEF Sound
<1>2. PICK p : p = cs[i].query
  OBVIOUS
<1>3. Lists(m, l2, p)
  <2>1. l2.shown = PagesOf(m, p, 1) /\ l2.cursor = NextPage(p, 1) /\ 1 \in 1 .. Pages
    BY <1>2, FirstOfPages
  <2> QED
    BY <2>1 DEF Lists
<1>4. CursorTells(m, l2)
  <2> SUFFICES ASSUME l2.cursor # None PROVE l2.cursor.page \in 2 .. Pages /\ Lists(m, l2, l2.cursor.query)
    BY DEF CursorTells
  <2>1. l2.cursor = NextPage(p, 1) /\ 1 \in 1 .. Pages
    BY <1>2
  <2>2. NextPage(p, 1).query = p /\ NextPage(p, 1).page = 1 + 1 /\ 1 + 1 \in 2 .. Pages
    BY <2>1, PageAfter
  <2> QED
    BY <1>3, <2>1, <2>2
<1>5. \A j \in DOMAIN cs2 : cs2[j].kind = "more" => cs2[j].late
  <2> SUFFICES ASSUME NEW j \in DOMAIN cs2, cs2[j].kind = "more" PROVE cs2[j].late
    OBVIOUS
  <2>1. PICK k \in DOMAIN cs : k = Was(i, j)
    BY LeftAre
  <2>2. k \in Replaced(cs, i)
    BY <2>1 DEF LeftBut, Replaced
  <2> QED
    BY <2>1, <2>2 DEF LeftBut
<1>6. MoreTells(m, cs2, l2)
  <2> SUFFICES ASSUME NEW j \in DOMAIN cs2
               PROVE  IF cs2[j].kind = "more" THEN cs2[j].cursor # None /\ cs2[j].cursor.page \in 2 .. Pages
                      ELSE cs2[j].cursor = None
    BY <1>5 DEF MoreTells
  <2>1. PICK k \in DOMAIN cs : k = Was(i, j)
    BY LeftAre
  <2>2. cs2[j].kind = cs[k].kind /\ cs2[j].cursor = cs[k].cursor
    BY <2>1 DEF LeftBut
  <2> QED
    BY <2>2 DEF Sound, MoreTells
<1>7. ASSUME r PROVE Superseded(cs2, q, d)
  <2>1. \A k \in DOMAIN cs : k \in Replaced(cs, i) /\ cs[k].kind \in Reload => k < i
    BY DEF Replaced, Reload
  <2>2. \A k \in DOMAIN cs : k < i /\ cs[k].kind # "more" => k \in Replaced(cs, i)
    BY DEF Replaced
  <2>3. Superseded(cs, q, d)
    BY <1>7 DEF Sound
  <2> QED
    BY <2>1, <2>2, <2>3, StillSuperseded
<1>8. ASSUME r PROVE ListFollows(m, cs2, l2, q, d)
  <2>1. CASE cs[i].late \/ d
    BY <2>1 DEF ListFollows
  <2>2. CASE p = q
    BY <1>3, <2>2 DEF ListFollows
  <2>3. CASE ~cs[i].late /\ ~d /\ p # q
    <3>1. PICK b \in DOMAIN cs : i < b /\ Due(cs[b], q)
      BY <1>2, <1>8, <2>3 DEF Sound, Superseded
    <3>2. b # i /\ b \notin Replaced(cs, i)
      <4>1. \A k \in DOMAIN cs : k \in Nat
        BY LeftAre
      <4> QED
        BY <3>1, <4>1 DEF Replaced, Due, Reload
    <3>3. PICK W : W = Replaced(cs, i)
      OBVIOUS
    <3>4. LeftBut(cs, cs2, i, W) /\ b \notin W
      BY <3>2, <3>3
    <3>5. \E h \in DOMAIN cs2 : Due(cs2[h], q)
      BY <3>1, <3>2, <3>4, StillDue
    <3> QED
      BY <3>5 DEF ListFollows
  <2> QED
    BY <2>1, <2>2, <2>3
<1> QED
  BY <1>1, <1>4, <1>6, <1>7, <1>8 DEF Sound

\* An answer that brings a further page.
LEMMA SoundAdded ==
  ASSUME NEW m \in BOOLEAN, NEW cs \in Seq(CallType), NEW cs2, NEW i \in DOMAIN cs,
         NEW l \in ListType, NEW l2 \in ListType, NEW q, NEW r, NEW d, Pages \in Nat \ {0},
         Sound(m, cs, l, q, r, d), cs[i].kind = "more", LeftBut(cs, cs2, i, {}),
         cs[i].cursor.query = cs[i].query,
         l2.shown = l.shown \o PageOf(m, cs[i].query, cs[i].cursor.page),
         l2.cursor = NextPage(cs[i].query, cs[i].cursor.page),
         l2.astray = (l.astray \/ cs[i].late), ~l2.more, l2.failed = l.failed
  PROVE  Sound(m, cs2, l2, q, r, d)
<1>1. MoreOnce(cs2, l2)
  <2>1. l2.more = (l.more /\ cs[i].kind # "more")
    BY DEF ListType
  <2> QED
    BY <2>1, StillOnce DEF Sound
<1>2. PICK p \in QueryType : p = cs[i].query
  <2>1. cs[i] \in CallType
    OBVIOUS
  <2>2. cs[i].query \in QueryType
    BY <2>1 DEF CallType
  <2> QED
    BY <2>2
<1>3. PICK n \in 1 .. (Pages - 1) : n = cs[i].cursor.page - 1 /\ cs[i].cursor.page = n + 1
  BY DEF Sound, MoreTells
<1>4. l2.cursor = NextPage(p, n + 1) /\ n + 1 \in 1 .. Pages
  BY <1>2, <1>3
<1>5. ASSUME ~l2.astray
      PROVE  l.shown = PagesOf(m, p, n) /\ l2.shown = PagesOf(m, p, n + 1)
  <2>1. l.shown = PagesOf(m, p, n)
    BY <1>2, <1>3, <1>5 DEF Sound, MoreTells
  <2>2. l2.shown = PagesOf(m, p, n) \o PageOf(m, p, n + 1)
    BY <1>2, <1>3, <2>1
  <2>3. PagesOf(m, p, n) \o PageOf(m, p, n + 1) = PagesOf(m, p, n + 1)
    BY PagesGrow
  <2> QED
    BY <2>1, <2>2, <2>3
<1>6. ~l2.astray => Lists(m, l2, p)
  BY <1>4, <1>5 DEF Lists
<1>7. CursorTells(m, l2)
  <2> SUFFICES ASSUME l2.cursor # None
               PROVE  l2.cursor.page \in 2 .. Pages /\ (~l2.astray => Lists(m, l2, l2.cursor.query))
    BY DEF CursorTells
  <2>1. NextPage(p, n + 1).query = p /\ NextPage(p, n + 1).page = (n + 1) + 1 /\ (n + 1) + 1 \in 2 .. Pages
    BY <1>4, PageAfter
  <2> QED
    BY <1>4, <1>6, <2>1
<1>8. \A j \in DOMAIN cs2 : cs2[j].kind # "more" /\ cs2[j].cursor = None
  <2> SUFFICES ASSUME NEW j \in DOMAIN cs2 PROVE cs2[j].kind # "more" /\ cs2[j].cursor = None
    OBVIOUS
  <2>1. PICK k \in DOMAIN cs : k = Was(i, j) /\ k # i
    BY LeftAre
  <2>2. cs[k].kind # "more"
    BY <2>1 DEF Sound, MoreOnce
  <2>3. cs[k].cursor = None
    BY <2>2 DEF Sound, MoreTells
  <2> QED
    BY <2>1, <2>2, <2>3 DEF LeftBut
<1>9. MoreTells(m, cs2, l2)
  BY <1>8 DEF MoreTells
<1>10. ASSUME r PROVE Superseded(cs2, q, d)
  <2>1. Superseded(cs, q, d) /\ cs[i].kind \notin Reload
    BY <1>10 DEF Sound, Reload
  <2> QED
    BY <2>1, StillSuperseded
<1>11. ASSUME r PROVE ListFollows(m, cs2, l2, q, d)
  <2>1. ListFollows(m, cs, l, q, d)
    BY <1>11 DEF Sound
  <2>2. CASE d \/ l.failed \/ l2.astray
    BY <2>2 DEF ListFollows
  <2>3. CASE Lists(m, l, q) /\ ~l2.astray
    <3>1. PICK k \in 1 .. Pages : l.shown = PagesOf(m, q, k)
      BY <2>3 DEF Lists
    <3>2. PagesOf(m, p, n) = PagesOf(m, q, k)
      BY <1>5, <2>3, <3>1
    <3>3. p = q
      BY <3>2, OneQuery
    <3> QED
      BY <1>6, <2>3, <3>3 DEF ListFollows
  <2>4. ASSUME NEW b \in DOMAIN cs, Due(cs[b], q) PROVE ListFollows(m, cs2, l2, q, d)
    <3>1. b # i
      BY <2>4 DEF Due, Reload
    <3>2. PICK W : W = {}
      OBVIOUS
    <3>3. LeftBut(cs, cs2, i, W) /\ b \notin W
      BY <3>2
    <3>4. \E h \in DOMAIN cs2 : Due(cs2[h], q)
      BY <2>4, <3>1, <3>3, StillDue
    <3> QED
      BY <3>4 DEF ListFollows
  <2>5. ASSUME NEW b \in DOMAIN cs, cs[b].kind = "more", cs[b].cursor.query # cs[b].query PROVE FALSE
    BY <2>5 DEF Sound, MoreOnce
  <2> QED
    BY <2>1, <2>2, <2>3, <2>4, <2>5 DEF ListFollows
<1> QED
  BY <1>1, <1>7, <1>9, <1>10, <1>11 DEF Sound

\* A call fails.
LEMMA SoundFailed ==
  ASSUME NEW m \in BOOLEAN, NEW cs \in Seq(CallType), NEW cs2, NEW i \in DOMAIN cs, NEW W,
         NEW l \in ListType, NEW l2 \in ListType, NEW q, NEW r, NEW d,
         Sound(m, cs, l, q, r, d), LeftBut(cs, cs2, i, W),
         IF cs[i].kind \in Reload THEN W = Older(cs, i) ELSE W = {},
         l2.shown = l.shown, l2.cursor = l.cursor, l2.astray = l.astray,
         l2.more = (l.more /\ cs[i].kind # "more"),
         l.failed \/ cs[i].kind \in Reload \/ (m /\ cs[i].kind = "more") => l2.failed
  PROVE  Sound(m, cs2, l2, q, r, d)
<1>1. MoreOnce(cs2, l2)
  BY StillOnce DEF Sound
<1>1a. \A k \in DOMAIN cs : k # i => \E j \in DOMAIN cs2 : Was(i, j) = k
  <2>1. LeftBut(cs, cs2, i, W)
    OBVIOUS
  <2> QED
    BY <2>1, LeftAre
<1>2. \A p : Lists(m, l, p) => Lists(m, l2, p)
  BY DEF Lists
<1>3. CursorTells(m, l2)
  BY <1>2 DEF Sound, CursorTells
<1>4. MoreTells(m, cs2, l2)
  <2> SUFFICES ASSUME NEW j \in DOMAIN cs2
               PROVE  IF cs2[j].kind = "more"
                      THEN /\ cs2[j].cursor # None /\ cs2[j].cursor.page \in 2 .. Pages
                           /\ ~cs2[j].late /\ ~l2.astray =>
                                l2.shown = PagesOf(m, cs2[j].cursor.query, cs2[j].cursor.page - 1)
                      ELSE cs2[j].cursor = None
    BY DEF MoreTells
  <2>1. PICK k \in DOMAIN cs : k = Was(i, j)
    BY LeftAre
  <2>2. cs2[j].kind = cs[k].kind /\ cs2[j].cursor = cs[k].cursor /\ (cs[k].late => cs2[j].late)
    BY <2>1 DEF LeftBut
  <2> QED
    BY <2>2 DEF Sound, MoreTells
<1>5. ASSUME r PROVE Superseded(cs2, q, d)
  <2>1. \A k \in DOMAIN cs : k \in W /\ cs[k].kind \in Reload => k < i
    BY DEF Older
  <2>2. cs[i].kind \in Reload \/ W # {} =>
          \A k \in DOMAIN cs : k < i /\ cs[k].kind # "more" => k \in W
    BY DEF Older
  <2>3. Superseded(cs, q, d)
    BY <1>5 DEF Sound
  <2> QED
    BY <2>1, <2>2, <2>3, StillSuperseded
<1>6. ASSUME r PROVE ListFollows(m, cs2, l2, q, d)
  <2>1. ListFollows(m, cs, l, q, d)
    BY <1>6 DEF Sound
  <2>2. CASE l2.failed \/ d \/ l.astray \/ Lists(m, l, q)
    BY <1>2, <2>2 DEF ListFollows
  <2>3. CASE ~l2.failed
    <3>1. cs[i].kind \notin Reload /\ W = {} /\ ~l.failed /\ (m => cs[i].kind # "more")
      BY <2>3
    <3>2. ASSUME NEW b \in DOMAIN cs, Due(cs[b], q) PROVE ListFollows(m, cs2, l2, q, d)
      <4>1. b # i /\ b \notin W
        BY <3>1, <3>2 DEF Due
      <4>2. \E h \in DOMAIN cs2 : Due(cs2[h], q)
        BY <3>2, <4>1, StillDue
      <4> QED
        BY <4>2 DEF ListFollows
    <3>3. ASSUME m, NEW b \in DOMAIN cs, cs[b].kind = "more", cs[b].cursor.query # cs[b].query
          PROVE  ListFollows(m, cs2, l2, q, d)
      <4> b # i
        BY <3>1, <3>3
      <4>1. PICK h \in DOMAIN cs2 : Was(i, h) = b
        BY <1>1a
      <4>2. cs2[h].kind = "more" /\ cs2[h].cursor.query # cs2[h].query
        BY <3>3, <4>1 DEF LeftBut
      <4> QED
        BY <3>3, <4>2 DEF ListFollows
    <3> QED
      BY <2>1, <2>2, <3>1, <3>2, <3>3 DEF ListFollows
  <2> QED
    BY <2>2, <2>3
<1> QED
  BY <1>1, <1>3, <1>4, <1>5, <1>6 DEF Sound

-----------------------------------------------------------------------------
(* The invariant of the screen.                                            *)

FormTyped ==
  /\ search \in SearchType /\ filters \in Filters /\ places \in PlacesType
  /\ ready \in BOOLEAN /\ delay \in BOOLEAN /\ (Web => ~delay)
  /\ restored \in BOOLEAN /\ (restored => Web /\ ready)
  /\ Mobile => resolving \in Seq(Run)

\* Only the page asks the browser.
SheetsTyped ==
  /\ sheet \in Filters \cup {None} /\ picker \in PickerType
  /\ taps \in Seq([at : Tap, latest : BOOLEAN]) /\ locating \in BOOLEAN /\ (Mobile => ~locating)
  /\ inputs \in 0 .. MaxInput /\ lost \in 0 .. MaxLost

\* The text that was searched for is that of the box, or about to be.
Follows(m, s) ==
  ~s.stray =>
    IF s.timer = "off" THEN s.box = s.applied \/ (m /\ s.box = Short) ELSE s.timer = s.box

\* Only the app stores a choice.
Stays(m, p) == ~m => p.custom = None

ScreenInv ==
  /\ client \in {"web", "mobile"} /\ FormTyped /\ SheetsTyped
  /\ Follows(Mobile, search) /\ Stays(Mobile, places)

LoadTyped ==
  /\ calls \in Seq(CallType) /\ Len(calls) <= MaxCalls + 1 /\ list \in ListType
  /\ list.marker # None => list.marker \in ToSet(list.shown)

ListInv == Sound(Mobile, calls, list, Query, ready, delay)

\* A stored choice stays selected but for the places touched since, or still without a name.
ChoiceKept ==
  /\ \A i \in DOMAIN taps : taps[i].at \in picker.touched
  /\ PickedPlaceIsKept

DiscoveryInv == ScreenInv /\ LoadTyped /\ ListInv /\ ChoiceKept

\* A step that is one of the kinds above.
Asks(c) ==
  /\ calls' = Append(calls, c) /\ Len(calls) <= MaxCalls /\ list'.marker = list.marker
  /\ \/ /\ SameList(list, list') /\ Held(Query, ready, delay, Query', ready', delay')
        /\ c.kind = "silent" /\ c.cursor = None /\ (c.late \/ c.query = Query')
     \/ /\ c.kind \in Reload /\ c.cursor = None /\ ~c.late /\ c.query = Query'
        /\ list'.shown = list.shown /\ list'.astray = list.astray /\ list'.more = list.more
        /\ list'.cursor \in {list.cursor, None}
     \/ /\ ready' = ready /\ delay' = delay /\ Query' = Query /\ ~list.more /\ list.cursor # None
        /\ c.kind = "more" /\ c.cursor = list.cursor /\ ~c.late /\ c.query = Query
        /\ list'.shown = list.shown /\ list'.cursor = list.cursor /\ list'.astray = list.astray
        /\ list'.more /\ (Web => list'.failed = list.failed)

Rests ==
  /\ calls' = calls /\ SameList(list, list') /\ Held(Query, ready, delay, Query', ready', delay')
  /\ list' \in ListType /\ (list'.marker # None => list'.marker \in ToSet(list.shown))

Ends(i) ==
  /\ ready' = ready /\ delay' = delay /\ Query' = Query
  /\ \/ Accepts(calls[i]) /\ Answered(i)
     \/ (~Accepts(calls[i]) /\ Failed(i, TRUE)) \/ Failed(i, FALSE)

Moves ==
  /\ client' = client
  /\ Rests \/ (\E c \in CallType : Asks(c) /\ list' \in ListType) \/ (\E i \in DOMAIN calls : Ends(i))

\* Removing an element keeps the others in their order.
LEMMA Removed ==
  ASSUME NEW S, NEW s \in Seq(S), NEW i \in DOMAIN s
  PROVE  /\ RemoveAt(s, i) \in Seq(S) /\ Len(RemoveAt(s, i)) = Len(s) - 1
         /\ \A j \in 1 .. (Len(s) - 1) : RemoveAt(s, i)[j] = s[Was(i, j)]
<1> DEFINE left == SubSeq(s, 1, i - 1)
           right == SubSeq(s, i + 1, Len(s))
<1>1. i \in 1 .. Len(s) /\ Len(s) \in Nat
  OBVIOUS
<1>2. left \in Seq(S) /\ Len(left) = i - 1 /\ \A j \in 1 .. (i - 1) : left[j] = s[j]
  BY <1>1, SubSeqProperties
<1>3. /\ right \in Seq(S) /\ Len(right) = Len(s) - i
      /\ \A j \in 1 .. (Len(s) - i) : right[j] = s[i + j]
  BY <1>1, SubSeqProperties
<1>4. RemoveAt(s, i) = left \o right
  BY DEF RemoveAt
<1> HIDE DEF left, right
<1>5. /\ left \o right \in Seq(S) /\ Len(left \o right) = Len(s) - 1
      /\ \A j \in 1 .. (Len(s) - 1) :
           (left \o right)[j] = IF j <= i - 1 THEN left[j] ELSE right[j - (i - 1)]
  BY <1>1, <1>2, <1>3, ConcatProperties
<1>6. ASSUME NEW j \in 1 .. (Len(s) - 1) PROVE (left \o right)[j] = s[Was(i, j)]
  <2>1. CASE j < i
    BY <1>1, <1>2, <1>5, <2>1 DEF Was
  <2>2. CASE ~(j < i)
    <3>1. (left \o right)[j] = right[j - (i - 1)] /\ j - (i - 1) \in 1 .. (Len(s) - i)
      BY <1>1, <1>5, <2>2
    <3>2. right[j - (i - 1)] = s[i + (j - (i - 1))] /\ i + (j - (i - 1)) = j + 1
      BY <1>1, <1>3, <3>1
    <3> QED
      BY <2>2, <3>1, <3>2 DEF Was
  <2> QED
    BY <2>1, <2>2
<1> QED
  BY <1>4, <1>5, <1>6

\* The calls that are left when one has ended and some of the others are overtaken.
LEMMA Leaves ==
  ASSUME NEW cs \in Seq(CallType), NEW i \in DOMAIN cs, NEW W, NEW t,
         DOMAIN t = DOMAIN cs,
         \A j \in DOMAIN cs : t[j] = [cs[j] EXCEPT !.late = cs[j].late \/ j \in W],
         t \in Seq(CallType)
  PROVE  LeftBut(cs, RemoveAt(t, i), i, W)
<1>1. Len(t) = Len(cs) /\ DOMAIN cs = 1 .. Len(cs) /\ Len(cs) \in Nat
  OBVIOUS
<1>2. PICK u : u = RemoveAt(t, i)
  OBVIOUS
<1>3. u \in Seq(CallType) /\ Len(u) = Len(cs) - 1 /\ \A j \in 1 .. (Len(cs) - 1) : u[j] = t[Was(i, j)]
  <2>1. i \in DOMAIN t
    OBVIOUS
  <2>2. /\ RemoveAt(t, i) \in Seq(CallType) /\ Len(RemoveAt(t, i)) = Len(t) - 1
        /\ \A j \in 1 .. (Len(t) - 1) : RemoveAt(t, i)[j] = t[Was(i, j)]
    BY <2>1, Removed
  <2> QED
    BY <1>1, <1>2, <2>2
<1>4. ASSUME NEW j \in DOMAIN u
      PROVE  LET k == Was(i, j) IN
             /\ u[j].kind = cs[k].kind /\ u[j].query = cs[k].query /\ u[j].cursor = cs[k].cursor
             /\ u[j].late = (cs[k].late \/ k \in W)
  <2>1. j \in 1 .. (Len(cs) - 1) /\ u[j] = t[Was(i, j)]
    BY <1>1, <1>3
  <2>2. PICK k \in DOMAIN cs : k = Was(i, j)
    BY <1>1, <2>1 DEF Was
  <2>3. PICK c \in CallType : c = cs[k]
    OBVIOUS
  <2>4. u[j] = [c EXCEPT !.late = c.late \/ k \in W]
    BY <2>1, <2>2, <2>3
  <2>5. PICK b \in BOOLEAN : b = (c.late \/ k \in W)
    BY DEF CallType
  <2>6. u[j] = [c EXCEPT !.late = b]
    BY <2>4, <2>5
  <2>7. u[j].kind = c.kind /\ u[j].query = c.query /\ u[j].cursor = c.cursor /\ u[j].late = b
    BY <2>6 DEF CallType
  <2> QED
    BY <2>2, <2>3, <2>5, <2>7
<1> QED
  BY <1>2, <1>3, <1>4 DEF LeftBut

\* Calls that are overtaken are calls.
LEMMA StillCalls ==
  ASSUME NEW cs \in Seq(CallType), NEW L, NEW t,
         t = [j \in DOMAIN cs |-> [cs[j] EXCEPT !.late = cs[j].late \/ j \in L]]
  PROVE  t \in Seq(CallType) /\ DOMAIN t = DOMAIN cs
<1>1. ASSUME NEW j \in DOMAIN cs PROVE t[j] \in CallType
  <2>1. PICK c \in CallType : c = cs[j]
    OBVIOUS
  <2>2. PICK b \in BOOLEAN : b = (c.late \/ j \in L)
    BY DEF CallType
  <2>3. t[j] = [c EXCEPT !.late = b]
    BY <2>1, <2>2
  <2> QED
    BY <2>3 DEF CallType
<1>2. DOMAIN cs = 1 .. Len(cs) /\ Len(cs) \in Nat /\ DOMAIN t = DOMAIN cs
  OBVIOUS
<1> QED
  BY <1>1, <1>2

\* What the end of a call does to the flags.
LEMMA EndedIs ==
  ASSUME NEW l \in ListType, NEW kind \in Reload \cup {"silent", "more"}
  PROVE  /\ Ended(kind, l) \in ListType /\ Ended(kind, l).more = (l.more /\ kind # "more")
         /\ Ended(kind, l).shown = l.shown /\ Ended(kind, l).cursor = l.cursor
         /\ Ended(kind, l).failed = l.failed /\ Ended(kind, l).astray = l.astray
         /\ Ended(kind, l).marker = l.marker
<1>1. CASE kind = "first"
  BY <1>1 DEF Ended, ListType
<1>2. CASE kind = "refresh"
  BY <1>2 DEF Ended, ListType
<1>3. CASE kind = "more"
  BY <1>3 DEF Ended, ListType
<1>4. CASE kind = "silent"
  BY <1>4 DEF Ended, ListType
<1> QED
  BY <1>1, <1>2, <1>3, <1>4 DEF Reload

\* What the answer of a page makes of the list.
LEMMA ShowsIs ==
  ASSUME NEW l \in ListType, NEW c \in CallType, Pages \in Nat \ {0}, Mobile \in BOOLEAN,
         NEW p \in Nat, p = IF c.kind = "more" THEN c.cursor.page ELSE 1
  PROVE  /\ Shows(l, c) \in ListType /\ Shows(l, c).more = l.more /\ Shows(l, c).failed = l.failed
         /\ Shows(l, c).shown = IF c.kind = "more" THEN l.shown \o PageOf(Mobile, c.query, p)
                                ELSE PageOf(Mobile, c.query, p)
         /\ Shows(l, c).cursor = NextPage(c.query, p)
         /\ Shows(l, c).astray = IF c.kind = "more" THEN l.astray \/ c.late ELSE c.late
         /\ Shows(l, c).marker # None => Shows(l, c).marker \in ToSet(Shows(l, c).shown)
<1>1. c.query \in QueryType /\ c.late \in BOOLEAN
  BY DEF CallType
<1>2. PICK k : k = Kept(c.query, p)
  OBVIOUS
<1>3. k = PageOf(Mobile, c.query, p)
  BY <1>2 DEF Kept, PageOf
<1>4. k \in Seq(Item)
  <2>1. PICK x : x = [query |-> c.query, page |-> p]
    OBVIOUS
  <2>2. x \in Item
    BY <1>1, <2>1 DEF Item
  <2>3. k = <<>> \/ k = <<x>>
    BY <1>2, <2>1 DEF Kept
  <2>4. <<>> \in Seq(Item)
    OBVIOUS
  <2>5. <<x>> \in Seq(Item)
    BY <2>2
  <2>6. CASE k = <<>>
    BY <2>4, <2>6
  <2>7. CASE k = <<x>>
    BY <2>5, <2>7
  <2> QED
    BY <2>3, <2>6, <2>7
<1>5. PICK s \in Seq(Item) : s = IF c.kind = "more" THEN l.shown \o k ELSE k
  <2>1. l.shown \in Seq(Item)
    BY DEF ListType
  <2>2. l.shown \o k \in Seq(Item)
    BY <1>4, <2>1, ConcatProperties
  <2> QED
    BY <1>4, <2>2
<1>6. PICK u \in Item \cup {None} : u = NextPage(c.query, p)
  <2>1. [query |-> c.query, page |-> p + 1] \in Item
    BY <1>1 DEF Item
  <2> QED
    BY <2>1 DEF NextPage
<1>7. PICK b \in BOOLEAN : b = IF c.kind = "more" THEN l.astray \/ c.late ELSE c.late
  BY <1>1 DEF ListType
<1>8. Shows(l, c) = Unmarked([l EXCEPT !.shown = s, !.cursor = u, !.astray = b])
  BY <1>2, <1>5, <1>6, <1>7 DEF Shows
<1>9. PICK n \in ListType : n = [l EXCEPT !.shown = s, !.cursor = u, !.astray = b]
  BY DEF ListType
<1>10. /\ n.more = l.more /\ n.failed = l.failed /\ n.shown = s /\ n.cursor = u /\ n.astray = b
  BY <1>9 DEF ListType
<1>11. Shows(l, c) = IF n.marker \in ToSet(n.shown) THEN n ELSE [n EXCEPT !.marker = None]
  BY <1>8, <1>9 DEF Unmarked
<1>12. PICK o \in ListType : o = [n EXCEPT !.marker = None]
  BY DEF ListType
<1>13. /\ o.more = l.more /\ o.failed = l.failed /\ o.shown = s /\ o.cursor = u /\ o.astray = b
       /\ o.marker = None
  BY <1>10, <1>12 DEF ListType
<1> QED
  BY <1>3, <1>5, <1>6, <1>7, <1>10, <1>11, <1>12, <1>13

\* Nothing changes in calls of which none is overtaken.
LEMMA NoneLate ==
  ASSUME NEW cs \in Seq(CallType), NEW W, W = {}
  PROVE  \A j \in DOMAIN cs : cs[j] = [cs[j] EXCEPT !.late = cs[j].late \/ j \in W]
<1>1. ASSUME NEW j \in DOMAIN cs PROVE cs[j] = [cs[j] EXCEPT !.late = cs[j].late \/ j \in W]
  <2>1. PICK c \in CallType : c = cs[j]
    OBVIOUS
  <2>2. c.late \in BOOLEAN
    BY DEF CallType
  <2>3. (c.late \/ j \in W) = c.late
    BY <2>2
  <2>4. c = [c EXCEPT !.late = c.late]
    BY DEF CallType
  <2>5. c = [c EXCEPT !.late = c.late \/ j \in W]
    BY <2>3, <2>4
  <2> QED
    BY <2>1, <2>5
<1> QED
  BY <1>1

\* The calls that are left when one has ended and no other is overtaken.
LEMMA LeavesOnly ==
  ASSUME NEW cs \in Seq(CallType), NEW i \in DOMAIN cs, NEW W, W = {}
  PROVE  LeftBut(cs, RemoveAt(cs, i), i, W)
<1>1. \A j \in DOMAIN cs : cs[j] = [cs[j] EXCEPT !.late = cs[j].late \/ j \in W]
  BY NoneLate
<1> QED
  BY <1>1, Leaves

\* One call fewer is within the bound.
LEMMA FewerCalls ==
  ASSUME NEW cs \in Seq(CallType), NEW cs2, NEW i, NEW W, LeftBut(cs, cs2, i, W),
         MaxCalls \in Nat, Len(cs) <= MaxCalls + 1
  PROVE  cs2 \in Seq(CallType) /\ Len(cs2) <= MaxCalls + 1
<1>1. cs2 \in Seq(CallType) /\ Len(cs2) = Len(cs) - 1
  BY DEF LeftBut
<1>2. Len(cs) \in Nat
  OBVIOUS
<1> QED
  BY <1>1, <1>2

\* The list and its calls after a step of one of those kinds.
LEMMA LoadStep ==
  ASSUME ScreenInv, LoadTyped, ListInv, Moves, ScreenInv'
  PROVE  LoadTyped' /\ ListInv'
<1>1. /\ calls \in Seq(CallType) /\ Len(calls) <= MaxCalls + 1 /\ list \in ListType
      /\ list.marker # None => list.marker \in ToSet(list.shown)
      /\ Sound(Mobile, calls, list, Query, ready, delay)
  BY DEF LoadTyped, ListInv
<1>2. Pages \in Nat \ {0} /\ MaxCalls \in Nat
  BY DiscoveryAssumption
<1>3. Mobile \in BOOLEAN /\ Mobile' = Mobile /\ (~Mobile <=> Web)
  BY DEF Moves, Mobile, Web, ScreenInv
<1>4. CASE Rests
  <2>1. LoadTyped'
    <3>1. calls' = calls /\ list'.shown = list.shown
      BY <1>4 DEF Rests, SameList
    <3>2. list' \in ListType
      BY <1>4 DEF Rests
    <3>3. list'.marker # None => list'.marker \in ToSet(list.shown)
      BY <1>4 DEF Rests
    <3>4. list'.marker # None => list'.marker \in ToSet(list'.shown)
      BY <3>1, <3>3
    <3>5. calls' \in Seq(CallType) /\ Len(calls') <= MaxCalls + 1
      BY <1>1, <3>1
    <3> QED
      BY <3>2, <3>4, <3>5 DEF LoadTyped
  <2>2. Sound(Mobile, calls, list', Query', ready', delay')
    BY <1>1, <1>4, SoundKept DEF Rests
  <2> QED
    BY <1>3, <1>4, <2>1, <2>2 DEF Rests, ListInv
<1>5. ASSUME NEW c \in CallType, Asks(c), list' \in ListType PROVE LoadTyped' /\ ListInv'
  <2>1. LoadTyped'
    <3>1. list'.shown = list.shown /\ list'.marker = list.marker
      BY <1>5 DEF Asks, SameList
    <3>2. calls' \in Seq(CallType) /\ Len(calls') = Len(calls) + 1 /\ Len(calls') <= MaxCalls + 1
      BY <1>1, <1>2, <1>5 DEF Asks
    <3> QED
      BY <1>1, <1>5, <3>1, <3>2 DEF LoadTyped
  <2>2. Sound(Mobile, calls', list', Query', ready', delay')
    BY <1>1, <1>2, <1>3, <1>5, SoundSilent, SoundReload, SoundMore DEF Asks
  <2> QED
    BY <1>3, <2>1, <2>2 DEF ListInv
<1>6. ASSUME NEW i \in DOMAIN calls, Ends(i) PROVE LoadTyped' /\ ListInv'
  <2>1. PICK c \in CallType : c = calls[i]
    BY <1>1
  <2>2. /\ c.kind \in Reload \cup {"silent", "more"} /\ c.query \in QueryType
        /\ c.cursor \in Item \cup {None} /\ c.late \in BOOLEAN
    BY <2>1 DEF CallType
  <2>3. CASE Accepts(c) /\ Answered(i)
    <3>1. PICK p \in Nat : p = IF c.kind = "more" THEN c.cursor.page ELSE 1
      BY <1>1, <2>1 DEF Sound, MoreTells
    <3>2. PICK e \in ListType : e = Ended(c.kind, list)
      BY <1>1, <2>2, EndedIs
    <3>3. /\ e.more = (list.more /\ c.kind # "more") /\ e.shown = list.shown
          /\ e.failed = list.failed /\ e.astray = list.astray
      BY <1>1, <2>2, <3>2, EndedIs
    <3>4. list' = Shows(e, c) /\ calls' = RemoveAt(IF c.kind = "more" THEN calls ELSE Overtaken(i), i)
      BY <2>1, <2>3, <3>2 DEF Answered
    <3>5. /\ list' \in ListType /\ list'.more = e.more /\ list'.failed = e.failed
          /\ list'.shown = IF c.kind = "more" THEN e.shown \o PageOf(Mobile, c.query, p)
                           ELSE PageOf(Mobile, c.query, p)
          /\ list'.cursor = NextPage(c.query, p)
          /\ list'.astray = IF c.kind = "more" THEN e.astray \/ c.late ELSE c.late
          /\ list'.marker # None => list'.marker \in ToSet(list'.shown)
      <4>1. PICK l : l = Shows(e, c)
        OBVIOUS
      <4>2. /\ l \in ListType /\ l.more = e.more /\ l.failed = e.failed
            /\ l.shown = IF c.kind = "more" THEN e.shown \o PageOf(Mobile, c.query, p)
                         ELSE PageOf(Mobile, c.query, p)
            /\ l.cursor = NextPage(c.query, p)
            /\ l.astray = IF c.kind = "more" THEN e.astray \/ c.late ELSE c.late
            /\ l.marker # None => l.marker \in ToSet(l.shown)
        BY <1>2, <1>3, <3>1, <4>1, ShowsIs
      <4> QED
        BY <3>4, <4>1, <4>2
    <3>6. CASE c.kind = "more"
      <4>1. LeftBut(calls, calls', i, {})
        <5>0. PICK W : W = {}
          OBVIOUS
        <5>3. LeftBut(calls, RemoveAt(calls, i), i, W)
          BY <1>1, <5>0, LeavesOnly
        <5> QED
          BY <3>4, <3>6, <5>0, <5>3
      <4>2. c.cursor.query = c.query
        BY <1>1, <2>1, <2>3, <3>6 DEF Accepts, Sound, MoreTells
      <4>3. Sound(Mobile, calls', list', Query, ready, delay)
        BY <1>1, <1>2, <1>3, <2>1, <3>1, <3>3, <3>5, <3>6, <4>1, <4>2, SoundAdded
      <4>4. LoadTyped'
        BY <1>1, <1>2, <3>5, <4>1, FewerCalls DEF LoadTyped
      <4> QED
        BY <1>3, <1>6, <4>3, <4>4 DEF ListInv, Ends
    <3>7. CASE c.kind # "more"
      <4>1. LeftBut(calls, calls', i, Replaced(calls, i))
        <5>1. PICK t : t = Overtaken(i)
          OBVIOUS
        <5>2. PICK W : W = Replaced(calls, i)
          OBVIOUS
        <5>3. t = [j \in DOMAIN calls |-> [calls[j] EXCEPT !.late = calls[j].late \/ j \in W]]
          BY <5>1, <5>2 DEF Overtaken, Replaced
        <5>4. t \in Seq(CallType) /\ DOMAIN t = DOMAIN calls
          BY <1>1, <5>3, StillCalls
        <5>5. LeftBut(calls, RemoveAt(t, i), i, W)
          BY <1>1, <5>3, <5>4, Leaves
        <5> QED
          BY <3>4, <3>7, <5>1, <5>2, <5>5
      <4>2. Sound(Mobile, calls', list', Query, ready, delay)
        <5>1. p = 1 /\ c.query = calls[i].query /\ c.late = calls[i].late /\ calls[i].kind # "more"
          BY <2>1, <3>1, <3>7
        <5>2. /\ list'.shown = PageOf(Mobile, calls[i].query, 1) /\ list'.cursor = NextPage(calls[i].query, 1)
              /\ list'.astray = calls[i].late
          BY <3>5, <3>7, <5>1
        <5>3. list'.more = list.more /\ list'.failed = list.failed
          BY <1>1, <3>3, <3>5, <3>7 DEF ListType
        <5>4. PICK k \in ListType : k = list'
          BY <3>5
        <5>5. PICK u : u = calls'
          OBVIOUS
        <5>6. Sound(Mobile, u, k, Query, ready, delay)
          BY <1>1, <1>2, <1>3, <4>1, <5>1, <5>2, <5>3, <5>4, <5>5, SoundFirst
        <5> QED
          BY <5>4, <5>5, <5>6
      <4>3. LoadTyped'
        BY <1>1, <1>2, <3>5, <4>1, FewerCalls DEF LoadTyped
      <4> QED
        BY <1>3, <1>6, <4>2, <4>3 DEF ListInv, Ends
    <3> QED
      BY <3>6, <3>7
  <2>4. ASSUME NEW refused \in BOOLEAN, Failed(i, refused), refused => ~Accepts(c)
        PROVE  LoadTyped' /\ ListInv'
    <3>1. PICK e \in ListType : e = Ended(c.kind, list)
      BY <1>1, <2>2, EndedIs
    <3>2. /\ e.more = (list.more /\ c.kind # "more") /\ e.shown = list.shown /\ e.cursor = list.cursor
          /\ e.failed = list.failed /\ e.astray = list.astray /\ e.marker = list.marker
      BY <1>1, <2>2, <3>1, EndedIs
    <3>3. PICK b \in BOOLEAN : b = (e.failed \/ ~(c.kind = "silent" \/ (Web /\ c.kind = "more" /\ ~refused)))
      BY DEF ListType
    <3>4. list' = [e EXCEPT !.failed = b]
      BY <2>1, <2>4, <3>1, <3>3 DEF Failed
    <3>5. /\ list' \in ListType /\ list'.more = e.more /\ list'.shown = e.shown
          /\ list'.cursor = e.cursor /\ list'.astray = e.astray /\ list'.marker = e.marker
          /\ list'.failed = b
      BY <3>4 DEF ListType
    <3>6. list.failed \/ c.kind \in Reload \/ (Mobile /\ c.kind = "more") => list'.failed
      BY <1>3, <3>2, <3>3, <3>5 DEF Reload
    <3>7. PICK W : W = IF c.kind \in Reload THEN Older(calls, i) ELSE {}
      OBVIOUS
    <3>8. LeftBut(calls, calls', i, W)
      <4>1. PICK t : t = IF c.kind \in Reload THEN Outdated(i) ELSE calls
        OBVIOUS
      <4>2. calls' = RemoveAt(t, i)
        BY <2>1, <2>4, <4>1 DEF Failed, Reload
      <4>3. CASE c.kind \in Reload
        <5>1. t = [j \in DOMAIN calls |-> [calls[j] EXCEPT !.late = calls[j].late \/ j \in W]]
          BY <3>7, <4>1, <4>3 DEF Outdated, Older
        <5>2. t \in Seq(CallType) /\ DOMAIN t = DOMAIN calls
          BY <1>1, <5>1, StillCalls
        <5> QED
          BY <1>1, <4>2, <5>1, <5>2, Leaves
      <4>4. CASE c.kind \notin Reload
        <5>1. t = calls /\ W = {}
          BY <3>7, <4>1, <4>4
        <5> QED
          BY <1>1, <4>2, <5>1, LeavesOnly
      <4> QED
        BY <4>3, <4>4
    <3>9. Sound(Mobile, calls', list', Query, ready, delay)
      BY <1>1, <1>3, <2>1, <3>2, <3>5, <3>6, <3>7, <3>8, SoundFailed
    <3>10. LoadTyped'
      <4>1. calls' \in Seq(CallType) /\ Len(calls') <= MaxCalls + 1
        BY <1>1, <1>2, <3>8, FewerCalls
      <4>2. list'.marker # None => list'.marker \in ToSet(list'.shown)
        <5>1. list'.marker = list.marker /\ list'.shown = list.shown
          BY <3>2, <3>5
        <5> QED
          BY <1>1, <5>1
      <4> QED
        BY <3>5, <4>1, <4>2 DEF LoadTyped
    <3> QED
      BY <1>3, <1>6, <3>9, <3>10 DEF ListInv, Ends
  <2> QED
    BY <1>6, <2>1, <2>3, <2>4 DEF Ends
<1> QED
  BY <1>4, <1>5, <1>6 DEF Moves

-----------------------------------------------------------------------------
(* The steps of the screen.                                                *)

\* What a screen asks for is a query.
LEMMA QueryTyped ==
  ASSUME NEW s \in SearchType, NEW f \in Filters, NEW p \in PlacesType
  PROVE  QueryOf(s, f, p) \in QueryType
<1>1. PICK at : at = Or(p.selected, IF Web THEN Fallback ELSE Or(p.default, Fallback))
  OBVIOUS
<1>2. p.selected \in Spots /\ p.default \in Spots /\ Fallback \in Place
  BY DEF PlacesType, Place, Fallback
<1>3. at \in Place
  BY <1>1, <1>2 DEF Or, Spots
<1>4. s.applied \in Text
  BY DEF SearchType
<1>5. QueryOf(s, f, p) = [text |-> s.applied, filters |-> f, at |-> at]
  BY <1>1 DEF QueryOf
<1> QED
  BY <1>3, <1>4, <1>5 DEF QueryType

\* A reload is one of the calls, and what starting it does to the list.
LEMMA Reloading ==
  ASSUME NEW l \in ListType, NEW kind \in Reload, client \in {"web", "mobile"}
  PROVE  /\ Started(kind, l) \in ListType /\ Started(kind, l).shown = l.shown
         /\ Started(kind, l).astray = l.astray /\ Started(kind, l).more = l.more
         /\ Started(kind, l).cursor \in {l.cursor, None} /\ Started(kind, l).marker = l.marker
<1>1. CASE Web
  <2>1. Started(kind, l) = [l EXCEPT !.loading = TRUE, !.failed = FALSE]
    BY <1>1 DEF Started, WebStarted, Reload
  <2> QED
    BY <2>1 DEF ListType
<1>2. CASE ~Web
  <2>1. PICK a \in BOOLEAN : a = (l.loading \/ kind = "first")
    BY DEF ListType
  <2>2. PICK b \in BOOLEAN : b = (l.refreshing \/ kind = "refresh")
    BY DEF ListType
  <2>3. Started(kind, l) = [l EXCEPT !.loading = a, !.refreshing = b, !.cursor = None, !.failed = FALSE]
    BY <1>2, <2>1, <2>2 DEF Started, MobileStarted, Reload
  <2> QED
    BY <2>3 DEF ListType
<1> QED
  BY <1>1, <1>2

\* A reload of what the screen now asks for.
LEMMA AsksReload ==
  ASSUME ScreenInv, LoadTyped, NEW kind \in Reload, NEW q \in QueryType, Query' = q,
         Len(calls) <= MaxCalls, client' = client,
         calls' = Append(calls, Call(kind, q, None, FALSE)), list' = Started(kind, list)
  PROVE  Moves
<1>1. PICK c : c = Call(kind, q, None, FALSE)
  OBVIOUS
<1>2. c \in CallType /\ c.kind = kind /\ c.cursor = None /\ ~c.late /\ c.query = q
  BY <1>1 DEF Call, CallType
<1>3. list \in ListType
  BY DEF LoadTyped
<1>4. PICK k : k = Started(kind, list)
  OBVIOUS
<1>5. /\ k \in ListType /\ k.shown = list.shown /\ k.astray = list.astray /\ k.more = list.more
      /\ k.cursor \in {list.cursor, None} /\ k.marker = list.marker
  BY <1>3, <1>4, Reloading DEF ScreenInv
<1>6. Asks(c) /\ list' \in ListType
  BY <1>1, <1>2, <1>4, <1>5 DEF Asks
<1> QED
  BY <1>2, <1>6 DEF Moves

\* A place of the screen that is not new leaves the query as it is.
LEMMA SameQuery ==
  ASSUME NEW s, NEW f, NEW p, s.applied = search.applied, f = filters,
         p.selected = places.selected, Mobile => p.default = places.default, client \in {"web", "mobile"}
  PROVE  QueryOf(s, f, p) = Query
BY DEF QueryOf, Query, Mobile, Web

\* A step that renders the screen with new state.
LEMMA Rendered ==
  ASSUME ScreenInv, LoadTyped, SheetsTyped', UNCHANGED setting, Len(calls) <= MaxCalls,
         NEW s \in SearchType, NEW f \in Filters, NEW p \in PlacesType, NEW r \in BOOLEAN,
         NEW fresh \in BOOLEAN, NEW runs, NEW asked,
         Render(s, f, p, r, fresh, runs, asked), Follows(Mobile, s), Stays(Mobile, p),
         fresh \/ (p.selected = places.selected /\ (Mobile => p.default = places.default)),
         Mobile => runs \in Seq(Run), restored => r,
         \/ asked = <<>>
         \/ \E c \in CallType : /\ Mobile /\ asked = <<c>> /\ c.kind = "silent" /\ c.cursor = None
                                /\ c.late \/ c.query = QueryOf(s, f, p)
  PROVE  ScreenInv' /\ Moves
<1>1. /\ client' = client /\ restored' = restored /\ client \in {"web", "mobile"}
      /\ (Mobile' <=> Mobile) /\ (Web' <=> Web) /\ Mobile \in BOOLEAN /\ (Web <=> ~Mobile)
  BY DEF setting, ScreenInv, Mobile, Web
<1>2. search' = s /\ filters' = f /\ places' = p /\ ready' = r
  BY DEF Render
<1>3. PICK q \in QueryType : q = QueryOf(s, f, p)
  BY QueryTyped
<1>4. Query' = q
  <2>1. Query' = [text |-> s.applied, filters |-> f,
                  at |-> Or(p.selected, IF Web THEN Fallback ELSE Or(p.default, Fallback))]
    BY <1>1, <1>2 DEF Query, QueryOf, Or
  <2> QED
    BY <1>3, <2>1 DEF QueryOf
<1>5. delay' = (Mobile /\ r /\ (delay \/ Reloads(s, f, r, fresh))) /\ delay \in BOOLEAN /\ (Web => ~delay)
  BY DEF Render, ScreenInv, FormTyped
<1>6. delay' \in BOOLEAN /\ (Web' => ~delay')
  BY <1>1, <1>5
<1>7. Mobile => resolving' \in Seq(Run)
  <2>1. PICK a : a = Silent(s, f)
    OBVIOUS
  <2>2. a \in Run
    BY <2>1 DEF Silent, Run, SearchType
  <2>3. resolving' = IF Refreshes(s, f, fresh) THEN Append(runs, a) ELSE runs
    BY <2>1 DEF Render
  <2> QED
    BY <2>2, <2>3
<1>8. FormTyped'
  BY <1>1, <1>2, <1>6, <1>7 DEF FormTyped, ScreenInv
<1>9. ScreenInv'
  <2>1. Follows(Mobile, search)' /\ Stays(Mobile, places)'
    BY <1>1, <1>2 DEF Follows, Stays
  <2> QED
    BY <1>1, <1>8, <2>1 DEF ScreenInv
<1>10. CASE Web /\ Reloads(s, f, r, fresh)
  <2>1. calls' = Append(calls, Call("first", q, None, FALSE)) /\ list' = Started("first", list)
    BY <1>3, <1>10 DEF Render
  <2>2. "first" \in Reload
    BY DEF Reload
  <2> QED
    BY <1>1, <1>4, <1>9, <2>1, <2>2, AsksReload
<1>11. CASE ~(Web /\ Reloads(s, f, r, fresh))
  <2>1. calls' = calls \o asked /\ list' = list
    BY <1>11 DEF Render
  <2>2. SameList(list, list')
    BY <2>1 DEF SameList
  <2>3. r => delay' \/ (ready /\ q = Query /\ ~delay)
    <3>1. CASE Reloads(s, f, r, fresh)
      BY <1>1, <1>5, <1>11, <3>1
    <3>2. CASE ~Reloads(s, f, r, fresh) /\ r
      <4>1. ~fresh /\ ready /\ s.applied = search.applied /\ f = filters
        BY <3>2 DEF Reloads
      <4>2. q = Query
        BY <1>1, <1>3, <4>1, SameQuery
      <4> QED
        BY <1>1, <1>5, <3>2, <4>1, <4>2
    <3> QED
      BY <3>1, <3>2
  <2>4. Held(Query, ready, delay, Query', ready', delay')
    BY <1>2, <1>4, <2>3 DEF Held
  <2>5. list \in ListType /\ calls \in Seq(CallType)
    BY DEF LoadTyped
  <2>6. CASE asked = <<>>
    <3>1. calls' = calls
      BY <2>1, <2>5, <2>6
    <3> QED
      BY <1>1, <1>9, <2>1, <2>2, <2>4, <2>5, <3>1 DEF Moves, Rests, LoadTyped
  <2>7. CASE asked # <<>>
    <3>1. PICK c \in CallType : /\ asked = <<c>> /\ c.kind = "silent" /\ c.cursor = None
                                /\ c.late \/ c.query = QueryOf(s, f, p)
      BY <2>7
    <3>2. calls' = Append(calls, c)
      BY <2>1, <2>5, <3>1
    <3>3. Asks(c) /\ list' \in ListType
      BY <1>3, <1>4, <2>1, <2>2, <2>4, <2>5, <3>1, <3>2 DEF Asks
    <3> QED
      BY <1>1, <1>9, <3>3 DEF Moves
  <2> QED
    BY <2>6, <2>7
<1> QED
  BY <1>10, <1>11, <1>9

\* A step that only changes what covers the list.
LEMMA Quietly ==
  ASSUME ScreenInv, LoadTyped, SheetsTyped', UNCHANGED <<setting, form, work>>
  PROVE  ScreenInv' /\ Moves
<1>1. /\ client' = client /\ restored' = restored /\ search' = search /\ filters' = filters
      /\ places' = places /\ ready' = ready /\ resolving' = resolving /\ delay' = delay
      /\ calls' = calls /\ list' = list
  BY DEF setting, form, work
<1>2. ScreenInv'
  BY <1>1 DEF ScreenInv, FormTyped, Follows, Stays, Mobile, Web
<1>3. Query' = Query
  BY <1>1 DEF Query, QueryOf, Or, Web
<1>4. Rests
  BY <1>1, <1>3 DEF Rests, SameList, Held, LoadTyped, ScreenInv, FormTyped
<1> QED
  BY <1>1, <1>2, <1>4 DEF Moves

\* What the user does is counted, and not while too many calls are open.
LEMMA Counted ==
  ASSUME ScreenInv, LoadTyped, NEW part, NEW what, Input(part, what)
  PROVE  /\ Len(calls) <= MaxCalls /\ UNCHANGED setting /\ lost' \in 0 .. MaxLost
         /\ inputs' \in 0 .. MaxInput
<1>1. inputs \in 0 .. MaxInput /\ lost \in 0 .. MaxLost /\ MaxInput \in Nat
  BY DiscoveryAssumption DEF ScreenInv, SheetsTyped
<1>2. inputs < MaxInput /\ Len(calls) < MaxCalls /\ inputs' = inputs + 1 /\ UNCHANGED <<setting, lost>>
  BY DEF Input, May
<1>3. Len(calls) \in Nat /\ MaxCalls \in Nat
  BY DiscoveryAssumption DEF LoadTyped
<1> QED
  BY <1>1, <1>2, <1>3

\* A text is typed: the box has it, and it is searched for or the timer holds it.
LEMMA StepTypeText ==
  ASSUME ScreenInv, LoadTyped, NEW text \in Text, TypeText(text)
  PROVE  ScreenInv' /\ Moves
<1>1. Input("text", "text") /\ UNCHANGED <<sheet, picker, taps, locating>>
  BY DEF TypeText
<1>2. /\ Len(calls) <= MaxCalls /\ UNCHANGED setting /\ lost' \in 0 .. MaxLost
      /\ inputs' \in 0 .. MaxInput
  BY <1>1, Counted
<1>3. SheetsTyped'
  BY <1>1, <1>2 DEF SheetsTyped, ScreenInv, setting, Mobile
<1>4. PICK s : s = IF Web THEN WebSearch(text) ELSE MobileSearch(text)
  OBVIOUS
<1>5. s \in SearchType /\ Follows(Mobile, s)
  <2>1. search \in SearchType
    BY DEF ScreenInv, FormTyped
  <2>2. CASE Web
    <3>1. s = [search EXCEPT !.box = text, !.timer = text, !.stray = FALSE]
      BY <1>4, <2>2 DEF WebSearch
    <3>2. s \in SearchType /\ s.box = text /\ s.timer = text
      BY <2>1, <3>1 DEF SearchType
    <3>3. text # "off"
      BY DEF Text, Short
    <3> QED
      BY <3>2, <3>3 DEF Follows
  <2>3. CASE ~Web
    <3>1. PICK a \in Text : a = IF text = "" THEN "" ELSE search.applied
      BY <2>1 DEF SearchType
    <3>2. PICK t \in Text \cup {"off"} : t = IF text \in {"", Short} THEN "off" ELSE text
      OBVIOUS
    <3>3. s = [search EXCEPT !.box = text, !.applied = a, !.timer = t]
      BY <1>4, <2>3, <3>1, <3>2 DEF MobileSearch
    <3>4. s \in SearchType /\ s.box = text /\ s.applied = a /\ s.timer = t
      BY <2>1, <3>3 DEF SearchType
    <3>5. Mobile
      BY <2>3 DEF ScreenInv, Web, Mobile
    <3>6. text = "" \/ text = Short \/ (t = text /\ text # "off")
      BY <3>2 DEF Text, Short
    <3> QED
      BY <3>1, <3>2, <3>4, <3>5, <3>6 DEF Follows
  <2> QED
    BY <2>2, <2>3
<1>6. Render(s, filters, places, ready, FALSE, resolving, <<>>)
  BY <1>4 DEF TypeText, RenderSearch
<1> QED
  BY <1>2, <1>3, <1>5, <1>6, Rendered DEF ScreenInv, FormTyped

\* The app's search button searches for the text of the box.
LEMMA StepSubmitSearch ==
  ASSUME ScreenInv, LoadTyped, SubmitSearch
  PROVE  ScreenInv' /\ Moves
<1>1. Input("text", "text") /\ UNCHANGED <<sheet, picker, taps, locating>>
  BY DEF SubmitSearch
<1>2. /\ Len(calls) <= MaxCalls /\ UNCHANGED setting /\ lost' \in 0 .. MaxLost
      /\ inputs' \in 0 .. MaxInput
  BY <1>1, Counted
<1>3. SheetsTyped'
  BY <1>1, <1>2 DEF SheetsTyped, ScreenInv, setting, Mobile
<1>4. PICK s : s = [search EXCEPT !.applied = search.box, !.timer = "off"]
  OBVIOUS
<1>5. s \in SearchType /\ s.box = search.box /\ s.applied = search.box /\ s.timer = "off"
  BY <1>4 DEF ScreenInv, FormTyped, SearchType
<1>6. Render(s, filters, places, ready, FALSE, resolving, <<>>)
  BY <1>4 DEF SubmitSearch, RenderSearch
<1>7. Follows(Mobile, s)
  BY <1>5 DEF Follows
<1> QED
  BY <1>2, <1>3, <1>5, <1>6, <1>7, Rendered DEF ScreenInv, FormTyped

\* The timer of the search runs out.
LEMMA StepSearchTimer ==
  ASSUME ScreenInv, LoadTyped, SearchTimer
  PROVE  ScreenInv' /\ Moves
<1>1. Len(calls) <= MaxCalls /\ UNCHANGED setting
  BY DiscoveryAssumption DEF SearchTimer, LoadTyped
<1>2. SheetsTyped'
  BY <1>1 DEF SearchTimer, SheetsTyped, ScreenInv, setting, Mobile
<1>3. PICK s : s = [search EXCEPT !.applied = search.timer, !.timer = "off"]
  OBVIOUS
<1>4. /\ s \in SearchType /\ s.box = search.box /\ s.applied = search.timer /\ s.timer = "off"
      /\ s.stray = search.stray
  BY <1>3 DEF ScreenInv, FormTyped, SearchType, SearchTimer
<1>5. Render(s, filters, places, ready, FALSE, resolving, <<>>)
  BY <1>3 DEF SearchTimer, RenderSearch
<1>6. Follows(Mobile, s)
  BY <1>4 DEF Follows, ScreenInv, SearchTimer
<1> QED
  BY <1>1, <1>2, <1>4, <1>5, <1>6, Rendered DEF ScreenInv, FormTyped

\* What the user may make of the filters are filters.
LEMMA FiltersTyped ==
  ASSUME NEW f \in Filters
  PROVE  {ChangedAudience(f), ChangedRange(f), ToggledCategory(f), DefaultFilters} \subseteq Filters
<1>1. PICK b \in BOOLEAN : b = ~f.child
  BY DEF Filters
<1>2. PICK c \in BOOLEAN : c = ~f.category
  BY DEF Filters
<1>3. PICK r \in {"any", "bad"} : r = IF f.range = "any" THEN "bad" ELSE "any"
  BY DEF Filters
<1>4. ChangedAudience(f) = [f EXCEPT !.child = b]
  BY <1>1 DEF ChangedAudience
<1>5. ChangedRange(f) = [f EXCEPT !.range = r]
  BY <1>3 DEF ChangedRange
<1>6. ToggledCategory(f) = [f EXCEPT !.category = c]
  BY <1>2 DEF ToggledCategory
<1>7. [f EXCEPT !.child = b] \in Filters
  BY DEF Filters
<1>8. [f EXCEPT !.range = r] \in Filters
  BY DEF Filters
<1>9. [f EXCEPT !.category = c] \in Filters
  BY DEF Filters
<1>10. DefaultFilters \in Filters
  BY DEF Filters, DefaultFilters
<1> QED
  BY <1>4, <1>5, <1>6, <1>7, <1>8, <1>9, <1>10

\* A category is chosen.
LEMMA StepToggleCategory ==
  ASSUME ScreenInv, LoadTyped, ToggleCategory
  PROVE  ScreenInv' /\ Moves
<1>1. Input("filters", "filters") /\ UNCHANGED <<sheet, picker, taps, locating>>
  BY DEF ToggleCategory
<1>2. /\ Len(calls) <= MaxCalls /\ UNCHANGED setting /\ lost' \in 0 .. MaxLost
      /\ inputs' \in 0 .. MaxInput
  BY <1>1, Counted
<1>3. SheetsTyped'
  BY <1>1, <1>2 DEF SheetsTyped, ScreenInv, setting, Mobile
<1>4. ToggledCategory(filters) \in Filters
  BY FiltersTyped DEF ScreenInv, FormTyped
<1>5. Render(search, ToggledCategory(filters), places, ready, FALSE, resolving, <<>>)
  BY DEF ToggleCategory, RenderFilters
<1> QED
  BY <1>2, <1>3, <1>4, <1>5, Rendered DEF ScreenInv, FormTyped

\* A filter of the page is changed.
LEMMA StepUpdateFilter ==
  ASSUME ScreenInv, LoadTyped, UpdateFilter
  PROVE  ScreenInv' /\ Moves
<1>1. Input("filters", "filters") /\ UNCHANGED <<sheet, picker, taps, locating>>
  BY DEF UpdateFilter
<1>2. /\ Len(calls) <= MaxCalls /\ UNCHANGED setting /\ lost' \in 0 .. MaxLost
      /\ inputs' \in 0 .. MaxInput
  BY <1>1, Counted
<1>3. SheetsTyped'
  BY <1>1, <1>2 DEF SheetsTyped, ScreenInv, setting, Mobile
<1>4. PICK f \in {ChangedAudience(filters), ChangedRange(filters)} : RenderFilters(f)
  BY DEF UpdateFilter
<1>5. f \in Filters
  BY <1>4, FiltersTyped DEF ScreenInv, FormTyped
<1>6. Render(search, f, places, ready, FALSE, resolving, <<>>)
  BY <1>4 DEF RenderFilters
<1> QED
  BY <1>2, <1>3, <1>5, <1>6, Rendered DEF ScreenInv, FormTyped

\* The page clears its filters, its text and its place.
LEMMA StepClearFilters ==
  ASSUME ScreenInv, LoadTyped, ClearFilters
  PROVE  ScreenInv' /\ Moves
<1>1. Web /\ Input("filters", "filters") /\ UNCHANGED <<sheet, taps, locating>>
  BY DEF ClearFilters
<1>2. /\ Len(calls) <= MaxCalls /\ UNCHANGED setting /\ lost' \in 0 .. MaxLost
      /\ inputs' \in 0 .. MaxInput
  BY <1>1, Counted
<1>3. picker' \in PickerType
  <2>1. picker' = [picker EXCEPT !.found = FALSE] /\ picker \in PickerType
    BY DEF ClearFilters, ScreenInv, SheetsTyped
  <2> QED
    BY <2>1 DEF PickerType
<1>4. SheetsTyped'
  BY <1>1, <1>2, <1>3 DEF SheetsTyped, ScreenInv, setting, Mobile
<1>5. PICK place : place = Or(places.default, places.browser)
  OBVIOUS
<1>6. places \in PlacesType /\ search \in SearchType
  BY DEF ScreenInv, FormTyped
<1>7. place \in Spots
  BY <1>5, <1>6 DEF Or, PlacesType
<1>8. PICK b \in BOOLEAN : b = (search.timer # "off")
  OBVIOUS
<1>9. PICK s : s = [search EXCEPT !.box = "", !.applied = "", !.stray = b]
  OBVIOUS
<1>10. PICK p : p = [places EXCEPT !.selected = place]
  OBVIOUS
<1>11. Render(s, DefaultFilters, p, ready, place # places.selected, resolving, <<>>)
  BY <1>5, <1>8, <1>9, <1>10 DEF ClearFilters
<1>12. /\ s \in SearchType /\ s.box = "" /\ s.applied = "" /\ s.stray = b /\ s.timer = search.timer
  BY <1>6, <1>9 DEF SearchType, Text
<1>13. p \in PlacesType /\ p.selected = place /\ p.custom = places.custom
  BY <1>6, <1>7, <1>10 DEF PlacesType
<1>14. Follows(Mobile, s)
  BY <1>8, <1>12 DEF Follows
<1>15. ~Mobile /\ Stays(Mobile, p)
  BY <1>1, <1>13 DEF Web, Mobile, Stays, ScreenInv
<1>16. DefaultFilters \in Filters
  BY DEF Filters, DefaultFilters
<1>17. PICK fresh \in BOOLEAN : fresh = (place # places.selected)
  OBVIOUS
<1>18. Render(s, DefaultFilters, p, ready, fresh, resolving, <<>>)
  BY <1>11, <1>17
<1> QED
  BY <1>2, <1>4, <1>12, <1>13, <1>14, <1>15, <1>16, <1>17, <1>18, Rendered DEF ScreenInv, FormTyped

\* The filters on the sheet are filters.
LEMMA StepSheet ==
  ASSUME ScreenInv, LoadTyped, OpenSheet \/ EditSheet \/ CloseSheet
  PROVE  ScreenInv' /\ Moves
<1>1. /\ Input("filters", "filters") \/ Input("filters", "sheet")
      /\ UNCHANGED <<form, picker, taps, locating, work>>
  BY DEF OpenSheet, EditSheet, CloseSheet
<1>2. UNCHANGED setting /\ lost' \in 0 .. MaxLost /\ inputs' \in 0 .. MaxInput
  BY <1>1, Counted
<1>3. sheet' \in Filters \cup {None}
  <2>1. CASE OpenSheet
    BY <2>1 DEF OpenSheet, ScreenInv, FormTyped
  <2>2. CASE EditSheet
    <3>1. Input("filters", "sheet") /\ Mobile
      BY <2>2 DEF EditSheet
    <3>2. sheet # None
      <4>1. "sheet" \in Offers
        BY <3>1 DEF Input, May
      <4>2. "sheet" \in MobilePickerOffers \cup MobileSheetOffers \cup MobileTopOffers
                        \cup MobileMapOffers \cup MobileListOffers
        BY <3>1, <4>1 DEF Offers, Mobile, Web
      <4> QED
        BY <4>2 DEF MobilePickerOffers, MobileSheetOffers, MobileTopOffers, MobileMapOffers,
                    MobileListOffers
    <3>3. sheet \in Filters
      BY <3>2 DEF ScreenInv, SheetsTyped
    <3>4. sheet' \in {ChangedAudience(sheet), ChangedRange(sheet), ToggledCategory(sheet), DefaultFilters}
      BY <2>2 DEF EditSheet
    <3> QED
      BY <3>3, <3>4, FiltersTyped
  <2>3. CASE CloseSheet
    BY <2>3 DEF CloseSheet
  <2> QED
    BY <2>1, <2>2, <2>3
<1>4. SheetsTyped'
  BY <1>1, <1>2, <1>3 DEF SheetsTyped, ScreenInv, setting, Mobile
<1> QED
  BY <1>1, <1>2, <1>4, Quietly

\* The sheet's filters count, unless their range is bad.
LEMMA StepApplySheet ==
  ASSUME ScreenInv, LoadTyped, ApplySheet
  PROVE  ScreenInv' /\ Moves
<1>1. Input("filters", "sheet") /\ UNCHANGED <<picker, taps, locating>> /\ Mobile
  BY DEF ApplySheet
<1>2. /\ Len(calls) <= MaxCalls /\ UNCHANGED setting /\ lost' \in 0 .. MaxLost
      /\ inputs' \in 0 .. MaxInput
  BY <1>1, Counted
<1>3. sheet \in Filters
  <2>1. "sheet" \in Offers
    BY <1>1 DEF Input, May
  <2>2. "sheet" \in MobilePickerOffers \cup MobileSheetOffers \cup MobileTopOffers
                    \cup MobileMapOffers \cup MobileListOffers
    BY <1>1, <2>1 DEF Offers, Mobile, Web
  <2>3. sheet # None
    BY <2>2 DEF MobilePickerOffers, MobileSheetOffers, MobileTopOffers, MobileMapOffers,
                MobileListOffers
  <2> QED
    BY <2>3 DEF ScreenInv, SheetsTyped
<1>4. CASE ValidDates(sheet)
  <2>1. RenderFilters(sheet) /\ sheet' = None
    BY <1>4 DEF ApplySheet
  <2>2. Render(search, sheet, places, ready, FALSE, resolving, <<>>)
    BY <2>1 DEF RenderFilters
  <2>3. SheetsTyped'
    BY <1>1, <1>2, <2>1 DEF SheetsTyped, ScreenInv, setting, Mobile
  <2> QED
    BY <1>2, <1>3, <2>2, <2>3, Rendered DEF ScreenInv, FormTyped
<1>5. CASE ~ValidDates(sheet)
  <2>1. UNCHANGED <<form, work, sheet>>
    BY <1>5 DEF ApplySheet
  <2>2. SheetsTyped'
    BY <1>1, <1>2, <2>1 DEF SheetsTyped, ScreenInv, setting, Mobile
  <2> QED
    BY <1>2, <2>1, <2>2, Quietly
<1> QED
  BY <1>4, <1>5

\* What the picker lists are places.
LEMMA OptionsTyped ==
  ASSUME places \in PlacesType
  PROVE  Options \subseteq Place
<1>1. Favorite \subseteq Place /\ Spot \subseteq Place
  BY DEF Place
<1>2. places.default \in Spots /\ places.browser \in Spots
  BY DEF PlacesType
<1>3. (IF Web THEN WebOptions ELSE MobileOptions) \subseteq Spots
  BY <1>1, <1>2 DEF WebOptions, MobileOptions, Spots
<1> QED
  BY <1>3 DEF Options, Spots

\* The picker that stops its search is a picker.
LEMMA StoppedTyped ==
  ASSUME picker \in PickerType, client \in {"web", "mobile"}
  PROVE  Stopped \in PickerType
<1>1. PICK b \in BOOLEAN : b = (picker.timer /\ Web)
  BY DEF PickerType, Web
<1>2. Stopped = [picker EXCEPT !.timer = b, !.found = FALSE]
  BY <1>1 DEF Stopped
<1> QED
  BY <1>2 DEF PickerType

\* The picker is used, or its search goes on.
LEMMA StepPicker ==
  ASSUME ScreenInv, LoadTyped,
         \/ OpenPicker \/ (\E long \in BOOLEAN : TypePlace(long)) \/ PlaceTimer \/ PlacesFound
         \/ SelectPlace \/ ResetPicker \/ ClosePicker
  PROVE  ScreenInv' /\ Moves
<1>1. /\ picker \in PickerType /\ places \in PlacesType /\ client \in {"web", "mobile"}
      /\ inputs \in 0 .. MaxInput /\ lost \in 0 .. MaxLost
  BY DEF ScreenInv, SheetsTyped, FormTyped
<1>2. Stopped \in PickerType
  BY <1>1, StoppedTyped
<1>3. places.selected \in Spots /\ places.default \in Spots /\ None \in Spots
  BY <1>1 DEF PlacesType, Spots
<1>4. picker' \in PickerType
  <2>1. CASE OpenPicker
    <3>1. PICK u \in Spots : u = IF Web THEN places.selected ELSE None
      BY <1>3
    <3>2. picker' = [picker EXCEPT !.open = TRUE, !.found = FALSE, !.pending = u]
      BY <2>1, <3>1 DEF OpenPicker
    <3> QED
      BY <1>1, <3>2 DEF PickerType
  <2>2. ASSUME NEW long \in BOOLEAN, TypePlace(long) PROVE picker' \in PickerType
    <3>1. CASE long
      <4>1. picker' = [picker EXCEPT !.timer = TRUE]
        BY <2>2, <3>1 DEF TypePlace
      <4> QED
        BY <1>1, <4>1 DEF PickerType
    <3>2. CASE ~long
      <4>1. picker' = [picker EXCEPT !.timer = FALSE, !.pending = None, !.found = FALSE]
        BY <2>2, <3>2 DEF TypePlace
      <4> QED
        BY <1>1, <1>3, <4>1 DEF PickerType
    <3> QED
      BY <3>1, <3>2
  <2>3. CASE PlaceTimer
    <3>1. PICK n \in Nat : n = picker.lookups + 1
      BY <1>1 DEF PickerType
    <3>2. picker' = [picker EXCEPT !.timer = FALSE, !.lookups = n]
      BY <2>3, <3>1 DEF PlaceTimer
    <3> QED
      BY <1>1, <3>2 DEF PickerType
  <2>4. CASE PlacesFound
    <3>1. picker.lookups > 0 /\ picker.lookups \in Nat
      BY <1>1, <2>4 DEF PlacesFound, PickerType
    <3>2. PICK n \in Nat : n = picker.lookups - 1
      BY <3>1
    <3>3. PICK some \in BOOLEAN : picker' = [picker EXCEPT !.lookups = n, !.found = some]
      BY <2>4, <3>2 DEF PlacesFound
    <3> QED
      BY <1>1, <3>3 DEF PickerType
  <2>5. CASE SelectPlace
    <3>1. PICK u \in Options : picker' = [Stopped EXCEPT !.pending = u]
      BY <2>5 DEF SelectPlace
    <3>2. u \in Spots
      BY <1>1, <3>1, OptionsTyped DEF Spots
    <3> QED
      BY <1>2, <3>1, <3>2 DEF PickerType
  <2>6. CASE ResetPicker
    <3>1. PICK u \in Spots : u = IF Web THEN places.default ELSE None
      BY <1>3
    <3>2. picker' = [Stopped EXCEPT !.pending = u]
      BY <2>6, <3>1 DEF ResetPicker
    <3> QED
      BY <1>2, <3>2 DEF PickerType
  <2>7. CASE ClosePicker
    <3>1. picker' = [Stopped EXCEPT !.open = FALSE, !.pending = None]
      BY <2>7 DEF ClosePicker
    <3> QED
      BY <1>2, <1>3, <3>1 DEF PickerType
  <2> QED
    BY <2>1, <2>2, <2>3, <2>4, <2>5, <2>6, <2>7
<1>5. UNCHANGED setting /\ lost' \in 0 .. MaxLost /\ inputs' \in 0 .. MaxInput
  <2>1. CASE PlaceTimer \/ PlacesFound
    BY <1>1, <2>1 DEF PlaceTimer, PlacesFound
  <2>2. CASE OpenPicker
    BY <1>1, <2>2 DEF OpenPicker
  <2>3. CASE ~(PlaceTimer \/ PlacesFound \/ OpenPicker)
    <3>1. Input("picker", "picker")
      BY <2>3 DEF TypePlace, SelectPlace, ResetPicker, ClosePicker
    <3> QED
      BY <3>1, Counted
  <2> QED
    BY <2>1, <2>2, <2>3
<1>6. UNCHANGED <<form, work, sheet, taps, locating>>
  BY DEF OpenPicker, TypePlace, PlaceTimer, PlacesFound, SelectPlace, ResetPicker, ClosePicker
<1>7. SheetsTyped'
  BY <1>4, <1>5, <1>6 DEF SheetsTyped, ScreenInv, setting, Mobile
<1> QED
  BY <1>5, <1>6, <1>7, Quietly

\* A chosen place is selected, and stored unless it is the default.
LEMMA ChosenTyped ==
  ASSUME NEW u \in Spots, places \in PlacesType
  PROVE  /\ WebChosen(u) \in PlacesType /\ WebChosen(u).selected = u
         /\ WebChosen(u).custom = places.custom /\ WebChosen(u).default = places.default
         /\ MobileChosen(u) \in PlacesType /\ MobileChosen(u).selected = u
         /\ MobileChosen(u).custom \in {None, u} /\ MobileChosen(u).default = places.default
<1>1. PICK k \in Spots : k = IF u = places.default THEN None ELSE u
  BY DEF Spots
<1>2. MobileChosen(u) = [places EXCEPT !.selected = u, !.custom = k]
  BY <1>1 DEF MobileChosen
<1>3. WebChosen(u) = [places EXCEPT !.selected = u]
  BY DEF WebChosen
<1> QED
  BY <1>1, <1>2, <1>3 DEF PlacesType

\* What is touched is a place on the map.
LEMMA TapTyped ==
  ASSUME taps \in Seq([at : Tap, latest : BOOLEAN]), NEW i \in DOMAIN taps
  PROVE  taps[i].at \in Tap /\ [taps[i] EXCEPT !.latest = FALSE].at = taps[i].at
<1>1. PICK T : T = [at : Tap, latest : BOOLEAN]
  OBVIOUS
<1>2. taps \in Seq(T)
  BY <1>1
<1>3. PICK t \in T : t = taps[i]
  BY <1>2
<1> QED
  BY <1>1, <1>3

\* The picker's place is applied.
LEMMA StepApplyPlace ==
  ASSUME ScreenInv, LoadTyped, ApplyPlace
  PROVE  ScreenInv' /\ Moves
<1>1. Input("picker", "picker") /\ UNCHANGED <<sheet, taps, locating>>
  BY DEF ApplyPlace
<1>2. /\ Len(calls) <= MaxCalls /\ UNCHANGED setting /\ lost' \in 0 .. MaxLost
      /\ inputs' \in 0 .. MaxInput
  BY <1>1, Counted
<1>3. picker \in PickerType /\ places \in PlacesType /\ client \in {"web", "mobile"}
  BY DEF ScreenInv, SheetsTyped, FormTyped
<1>4. picker' \in PickerType
  <2>1. PICK ts : ts = {t.at : t \in ToSet(taps)}
    OBVIOUS
  <2>2. picker' = [picker EXCEPT !.open = FALSE, !.found = FALSE, !.touched = ts]
    BY <2>1 DEF ApplyPlace
  <2>3. ts \in SUBSET Tap
    <3>1. ASSUME NEW i \in DOMAIN taps PROVE taps[i].at \in Tap
      BY TapTyped DEF ScreenInv, SheetsTyped
    <3> QED
      BY <2>1, <3>1 DEF ToSet
  <2> QED
    BY <1>3, <2>2, <2>3 DEF PickerType
<1>5. SheetsTyped'
  BY <1>1, <1>2, <1>4 DEF SheetsTyped, ScreenInv, setting, Mobile
<1>6. PICK u : u = IF Web THEN Or(picker.pending, places.default) ELSE picker.pending
  OBVIOUS
<1>7. u \in Spots
  BY <1>3, <1>6 DEF Or, PickerType, PlacesType
<1>8. PICK p : p = IF Web THEN WebChosen(u) ELSE MobileChosen(u)
  OBVIOUS
<1>9. PICK fresh \in BOOLEAN : fresh = (u # places.selected \/ (Mobile /\ u # places.default))
  BY DEF Mobile
<1>10. Render(search, filters, p, ready, fresh, resolving, <<>>)
  BY <1>6, <1>8, <1>9 DEF ApplyPlace, RenderPlaces
<1>11. /\ p \in PlacesType /\ p.selected = u /\ p.default = places.default
       /\ IF Web THEN p.custom = places.custom ELSE p.custom \in {None, u}
  BY <1>3, <1>7, <1>8, ChosenTyped
<1>12. Stays(Mobile, p)
  BY <1>3, <1>11 DEF Stays, ScreenInv, Web, Mobile
<1>13. fresh \/ (p.selected = places.selected /\ (Mobile => p.default = places.default))
  BY <1>9, <1>11
<1> QED
  BY <1>2, <1>5, <1>9, <1>10, <1>11, <1>12, <1>13, Rendered DEF ScreenInv, FormTyped

\* A place on the map is touched.
LEMMA StepSearchArea ==
  ASSUME ScreenInv, LoadTyped, NEW at \in Tap, SearchArea(at)
  PROVE  ScreenInv' /\ Moves
<1>1. Input("map", "area") /\ UNCHANGED <<sheet, locating>>
  BY DEF SearchArea
<1>2. /\ Len(calls) <= MaxCalls /\ UNCHANGED setting /\ lost' \in 0 .. MaxLost
      /\ inputs' \in 0 .. MaxInput
  BY <1>1, Counted
<1>3. places \in PlacesType /\ client \in {"web", "mobile"} /\ at \in Spots
  BY DEF ScreenInv, FormTyped, Spots, Place
<1>4. PICK T : T = [at : Tap, latest : BOOLEAN]
  OBVIOUS
<1>5. taps' \in Seq(T)
  <2>1. taps \in Seq(T)
    BY <1>4 DEF ScreenInv, SheetsTyped
  <2>2. PICK older : older = [i \in DOMAIN taps |-> [taps[i] EXCEPT !.latest = FALSE]]
    OBVIOUS
  <2>3. ASSUME NEW i \in DOMAIN taps PROVE older[i] \in T
    <3>1. PICK t \in T : t = taps[i]
      BY <2>1
    <3>2. older[i] = [t EXCEPT !.latest = FALSE]
      BY <2>2, <3>1
    <3> QED
      BY <1>4, <3>2
  <2>4. DOMAIN taps = 1 .. Len(taps) /\ Len(taps) \in Nat /\ DOMAIN older = DOMAIN taps
    BY <2>1, <2>2
  <2>5. older \in Seq(T)
    BY <2>2, <2>3, <2>4
  <2>6. PICK n : n = [at |-> at, latest |-> TRUE]
    OBVIOUS
  <2>7. n \in T
    BY <1>4, <2>6
  <2>8. taps' = Append(older, n)
    BY <2>2, <2>6 DEF SearchArea
  <2> QED
    BY <2>5, <2>7, <2>8
<1>6a. picker' \in PickerType
  <2>1. picker \in PickerType /\ picker' = [picker EXCEPT !.touched = @ \cup {at}]
    BY DEF ScreenInv, SheetsTyped, SearchArea
  <2>2. PICK ts \in SUBSET Tap : ts = picker.touched \cup {at}
    BY <2>1 DEF PickerType
  <2>3. picker' = [picker EXCEPT !.touched = ts]
    BY <2>1, <2>2
  <2> QED
    BY <2>1, <2>3 DEF PickerType
<1>6. SheetsTyped'
  BY <1>1, <1>2, <1>4, <1>5, <1>6a DEF SheetsTyped, ScreenInv, setting, Mobile
<1>7. CASE Web
  <2>1. PICK p : p = WebChosen(at)
    OBVIOUS
  <2>2. Render(search, filters, p, ready, TRUE, resolving, <<>>)
    BY <1>7, <2>1 DEF SearchArea, RenderPlaces
  <2>3. p \in PlacesType /\ p.custom = places.custom
    BY <1>3, <2>1, ChosenTyped
  <2>4. Stays(Mobile, p)
    BY <1>7, <2>3 DEF Stays, ScreenInv, Web, Mobile
  <2> QED
    BY <1>2, <1>6, <2>2, <2>3, <2>4, Rendered DEF ScreenInv, FormTyped
<1>8. CASE ~Web
  BY <1>2, <1>6, <1>8, Quietly DEF SearchArea
<1> QED
  BY <1>7, <1>8

\* The name of a touched place arrives.
LEMMA StepNameArrives ==
  ASSUME ScreenInv, LoadTyped, NEW i \in DOMAIN taps, NameArrives(i)
  PROVE  ScreenInv' /\ Moves
<1>1. UNCHANGED <<setting, sheet, locating, inputs, lost>>
  BY DEF NameArrives
<1>2. Len(calls) <= MaxCalls
  BY DiscoveryAssumption DEF NameArrives, LoadTyped
<1>3. places \in PlacesType /\ client \in {"web", "mobile"} /\ picker \in PickerType
  BY DEF ScreenInv, FormTyped, SheetsTyped
<1>4. PICK T : T = [at : Tap, latest : BOOLEAN]
  OBVIOUS
<1>5. taps \in Seq(T)
  BY <1>4 DEF ScreenInv, SheetsTyped
<1>6. taps' \in Seq(T)
  <2>1. taps' = RemoveAt(taps, i)
    BY DEF NameArrives
  <2>2. RemoveAt(taps, i) \in Seq(T)
    BY <1>5, Removed
  <2> QED
    BY <2>1, <2>2
<1>7. picker' \in PickerType
  <2>1. \/ picker' = picker
        \/ picker' = [picker EXCEPT !.open = FALSE, !.pending = None, !.found = FALSE]
    BY DEF NameArrives
  <2> QED
    BY <1>3, <2>1 DEF PickerType, Spots
<1>8. SheetsTyped'
  BY <1>1, <1>4, <1>6, <1>7 DEF SheetsTyped, ScreenInv, setting, Mobile
<1>9. CASE Mobile \/ taps[i].latest
  <2>1. PICK at \in Tap : at = taps[i].at
    <3>1. PICK t \in T : t = taps[i]
      BY <1>5
    <3> QED
      BY <1>4, <3>1
  <2>2. PICK p : p = [places EXCEPT !.selected = at]
    OBVIOUS
  <2>3. Render(search, filters, p, ready, TRUE, resolving, <<>>)
    BY <1>9, <2>1, <2>2 DEF NameArrives, RenderPlaces
  <2>4. at \in Spots
    BY DEF Spots, Place
  <2>5. p \in PlacesType /\ p.custom = places.custom /\ p.selected = at
    BY <1>3, <2>2, <2>4 DEF PlacesType
  <2>6. Stays(Mobile, p)
    BY <2>5 DEF Stays, ScreenInv
  <2> QED
    BY <1>1, <1>2, <1>8, <2>3, <2>5, <2>6, Rendered DEF ScreenInv, FormTyped
<1>10. CASE ~(Mobile \/ taps[i].latest)
  <2>1. UNCHANGED <<form, work>>
    BY <1>10 DEF NameArrives
  <2> QED
    BY <1>1, <1>8, <2>1, Quietly
<1> QED
  BY <1>9, <1>10

\* The page asks the browser for its position.
LEMMA StepRequestPosition ==
  ASSUME ScreenInv, LoadTyped, RequestPosition
  PROVE  ScreenInv' /\ Moves
<1>1. Web /\ Input("map", "area") /\ locating' = TRUE /\ UNCHANGED <<form, sheet, picker, taps, work>>
  BY DEF RequestPosition
<1>2. UNCHANGED setting /\ lost' \in 0 .. MaxLost /\ inputs' \in 0 .. MaxInput
  BY <1>1, Counted
<1>3. SheetsTyped'
  BY <1>1, <1>2 DEF SheetsTyped, ScreenInv, setting, Mobile, Web
<1> QED
  BY <1>1, <1>2, <1>3, Quietly

\* The browser answers.
LEMMA StepPositionArrives ==
  ASSUME ScreenInv, LoadTyped, PositionArrives
  PROVE  ScreenInv' /\ Moves
<1>1. /\ UNCHANGED <<setting, sheet, picker, taps, inputs, lost>> /\ locating /\ locating' = FALSE
      /\ \/ RenderPlaces([places EXCEPT !.selected = Here, !.browser = Here, !.known = TRUE], TRUE)
         \/ UNCHANGED <<form, work>>
  BY DEF PositionArrives
<1>2. Len(calls) <= MaxCalls
  BY DiscoveryAssumption DEF PositionArrives, LoadTyped
<1>3. SheetsTyped'
  BY <1>1 DEF SheetsTyped, ScreenInv, setting, Mobile
<1>4. PICK p : p = [places EXCEPT !.selected = Here, !.browser = Here, !.known = TRUE]
  OBVIOUS
<1>5. CASE RenderPlaces(p, TRUE)
  <2>1. Render(search, filters, p, ready, TRUE, resolving, <<>>)
    BY <1>5 DEF RenderPlaces
  <2>2. places \in PlacesType
    BY DEF ScreenInv, FormTyped
  <2>3. Here \in Spots
    BY DEF Spots, Place
  <2>4. p \in PlacesType /\ p.custom = places.custom
    BY <1>4, <2>2, <2>3 DEF PlacesType
  <2>5. ~Mobile
    BY <1>1 DEF ScreenInv, SheetsTyped
  <2>6. Stays(Mobile, p)
    BY <2>4, <2>5 DEF Stays, ScreenInv
  <2> QED
    BY <1>1, <1>2, <1>3, <2>1, <2>4, <2>6, Rendered DEF ScreenInv, FormTyped
<1>6. CASE UNCHANGED <<form, work>>
  BY <1>1, <1>3, <1>6, Quietly
<1> QED
  BY <1>1, <1>4, <1>5, <1>6

\* A run of the app's location effect ends, and a silent refresh goes on to its call.
LEMMA StepMobileLocated ==
  ASSUME ScreenInv, LoadTyped, NEW i \in DOMAIN resolving, MobileLocated(i)
  PROVE  ScreenInv' /\ Moves
<1>1. Mobile /\ UNCHANGED <<setting, sheet, picker, taps, locating, inputs, lost>>
  BY DEF MobileLocated
<1>2. Len(calls) <= MaxCalls
  BY DiscoveryAssumption DEF MobileLocated, LoadTyped
<1>3. SheetsTyped'
  BY <1>1 DEF SheetsTyped, ScreenInv, setting, Mobile
<1>4. /\ places \in PlacesType /\ resolving \in Seq(Run) /\ search \in SearchType /\ filters \in Filters
      /\ ready \in BOOLEAN
  BY <1>1 DEF ScreenInv, FormTyped
<1>5. PICK run \in Run : run = resolving[i]
  BY <1>4
<1>6. PICK found \in {Here, Home, Fallback} :
        LET p == [places EXCEPT !.default = found, !.selected = Followed(found)]
            r == ready \/ (run.kind = "context" /\ run.current)
            fresh == found # Fallback \/ p # places
            query == [text |-> run.text, filters |-> [run.filters EXCEPT !.child = FALSE],
                      at |-> Followed(found)]
        IN Render(search, filters, p, r, fresh, RemoveAt(resolving, i),
                  IF run.kind = "context" THEN <<>>
                  ELSE <<Call("silent", query, None, query # QueryOf(search, filters, p))>>)
  BY <1>5 DEF MobileLocated
<1>7. PICK at : at = Followed(found)
  OBVIOUS
<1>8. /\ found \in Place /\ found \in Spots /\ at \in Place /\ at \in Spots
      /\ at = IF places.custom = None THEN found ELSE places.custom
  BY <1>4, <1>7 DEF Followed, Or, Place, Spots, PlacesType
<1>9. PICK p : p = [places EXCEPT !.default = found, !.selected = at]
  OBVIOUS
<1>10. p \in PlacesType /\ p.custom = places.custom /\ p.selected = at /\ p.default = found
  BY <1>4, <1>8, <1>9 DEF PlacesType
<1>11. PICK r \in BOOLEAN : r = (ready \/ (run.kind = "context" /\ run.current))
  BY <1>4, <1>5 DEF Run
<1>12. PICK fresh \in BOOLEAN : fresh = (found # Fallback \/ p # places)
  OBVIOUS
<1>13. PICK f \in Filters : f = [run.filters EXCEPT !.child = FALSE]
  BY DEF Run, Filters
<1>14. PICK query : query = [text |-> run.text, filters |-> f, at |-> at]
  OBVIOUS
<1>15. query \in QueryType
  BY <1>8, <1>14 DEF QueryType, Run
<1>16. PICK b \in BOOLEAN : b = (query # QueryOf(search, filters, p))
  OBVIOUS
<1>17. PICK c : c = Call("silent", query, None, b)
  OBVIOUS
<1>18. c \in CallType /\ c.kind = "silent" /\ c.cursor = None /\ (c.late \/ c.query = QueryOf(search, filters, p))
  BY <1>15, <1>16, <1>17 DEF Call, CallType
<1>19. PICK asked : asked = IF run.kind = "context" THEN <<>> ELSE <<c>>
  OBVIOUS
<1>20. Render(search, filters, p, r, fresh, RemoveAt(resolving, i), asked)
  BY <1>6, <1>7, <1>9, <1>11, <1>12, <1>13, <1>14, <1>16, <1>17, <1>19
<1>21. RemoveAt(resolving, i) \in Seq(Run)
  BY <1>4, Removed
<1>22. Stays(Mobile, p)
  BY <1>1, <1>8, <1>10 DEF Stays
<1>23. fresh \/ (p.selected = places.selected /\ (Mobile => p.default = places.default))
  BY <1>12
<1>24. restored => r
  BY <1>11 DEF ScreenInv, FormTyped
<1>25. \/ asked = <<>>
       \/ \E o \in CallType : /\ Mobile /\ asked = <<o>> /\ o.kind = "silent" /\ o.cursor = None
                              /\ o.late \/ o.query = QueryOf(search, filters, p)
  BY <1>1, <1>18, <1>19
<1>26. Follows(Mobile, search)
  BY DEF ScreenInv
<1>27. UNCHANGED setting
  BY <1>1
<1> QED
  BY <1>2, <1>3, <1>4, <1>10, <1>11, <1>12, <1>20, <1>21, <1>22, <1>23, <1>24, <1>25, <1>26, <1>27, Rendered

\* The page knows the profile.
LEMMA StepWebProfileKnown ==
  ASSUME ScreenInv, LoadTyped, WebProfileKnown
  PROVE  ScreenInv' /\ Moves
<1>1. Web /\ UNCHANGED <<setting, sheet, picker, taps, locating, inputs, lost>>
  BY DEF WebProfileKnown
<1>2. Len(calls) <= MaxCalls
  BY DiscoveryAssumption DEF WebProfileKnown, LoadTyped
<1>3. SheetsTyped'
  BY <1>1 DEF SheetsTyped, ScreenInv, setting, Mobile
<1>4. PICK home \in {Home, None} :
        Render(search, filters, [places EXCEPT !.default = home], ready, FALSE, <<"device">>, <<>>)
  BY DEF WebProfileKnown
<1>5. PICK p : p = [places EXCEPT !.default = home]
  OBVIOUS
<1>6. home \in Spots
  BY DEF Spots, Place
<1>7. p \in PlacesType /\ p.custom = places.custom /\ p.selected = places.selected
  BY <1>5, <1>6 DEF PlacesType, ScreenInv, FormTyped
<1>8. ~Mobile
  BY <1>1 DEF Web, Mobile
<1>9. Stays(Mobile, p)
  BY <1>7 DEF Stays, ScreenInv
<1>10. Render(search, filters, p, ready, FALSE, <<"device">>, <<>>)
  BY <1>4, <1>5
<1> QED
  BY <1>1, <1>2, <1>3, <1>7, <1>8, <1>9, <1>10, Rendered DEF ScreenInv, FormTyped

\* The page knows where it starts from.
LEMMA StepWebLocated ==
  ASSUME ScreenInv, LoadTyped, WebLocated
  PROVE  ScreenInv' /\ Moves
<1>1. Web /\ UNCHANGED <<setting, sheet, picker, taps, locating, inputs, lost>>
  BY DEF WebLocated
<1>2. Len(calls) <= MaxCalls
  BY DiscoveryAssumption DEF WebLocated, LoadTyped
<1>3. SheetsTyped'
  BY <1>1 DEF SheetsTyped, ScreenInv, setting, Mobile
<1>4. PICK found \in {Here, None} :
        LET known == [places EXCEPT !.browser = Or(found, places.browser), !.known = found = Here]
            p == IF restored THEN known ELSE [known EXCEPT !.selected = Or(found, places.default)]
        IN  Render(search, filters, p, TRUE, p.selected # places.selected \/ (~restored /\ found = Here),
                   <<>>, <<>>)
  BY DEF WebLocated
<1>5. places \in PlacesType
  BY DEF ScreenInv, FormTyped
<1>6. PICK b \in Spots : b = Or(found, places.browser)
  BY <1>5 DEF Or, Spots, Place, PlacesType
<1>7. PICK d \in Spots : d = Or(found, places.default)
  BY <1>5 DEF Or, Spots, Place, PlacesType
<1>8. PICK k \in BOOLEAN : k = (found = Here)
  OBVIOUS
<1>9. PICK known \in PlacesType : known = [places EXCEPT !.browser = b, !.known = k]
  BY <1>5 DEF PlacesType
<1>10. known.custom = places.custom /\ known.selected = places.selected
  BY <1>5, <1>9 DEF PlacesType
<1>11. PICK p : p = IF restored THEN known ELSE [known EXCEPT !.selected = d]
  OBVIOUS
<1>12. p \in PlacesType /\ p.custom = places.custom
  BY <1>10, <1>11 DEF PlacesType
<1>13. PICK fresh \in BOOLEAN : fresh = (p.selected # places.selected \/ (~restored /\ found = Here))
  OBVIOUS
<1>14. Render(search, filters, p, TRUE, fresh, <<>>, <<>>)
  BY <1>4, <1>6, <1>7, <1>8, <1>9, <1>11, <1>13
<1>15. ~Mobile
  BY <1>1 DEF Web, Mobile
<1>16. Stays(Mobile, p)
  BY <1>12, <1>15 DEF Stays, ScreenInv
<1>17. fresh \/ (p.selected = places.selected /\ (Mobile => p.default = places.default))
  BY <1>13, <1>15
<1> QED
  BY <1>1, <1>2, <1>3, <1>12, <1>13, <1>14, <1>15, <1>16, <1>17, Rendered DEF ScreenInv, FormTyped

\* A renewed token starts the location effect again.
LEMMA StepRenewToken ==
  ASSUME ScreenInv, LoadTyped, RenewToken
  PROVE  ScreenInv' /\ Moves
<1>1. /\ Input("session", "session") /\ UNCHANGED <<sheet, picker, taps, locating>>
      /\ IF Web THEN WebRenewed ELSE MobileRenewed
  BY DEF RenewToken
<1>2. /\ Len(calls) <= MaxCalls /\ UNCHANGED setting /\ lost' \in 0 .. MaxLost
      /\ inputs' \in 0 .. MaxInput
  BY <1>1, Counted
<1>3. SheetsTyped'
  BY <1>1, <1>2 DEF SheetsTyped, ScreenInv, setting, Mobile
<1>4. CASE Web
  <2>1. /\ places' = [places EXCEPT !.known = FALSE] /\ ready' = restored
        /\ UNCHANGED <<search, filters, delay>>
        /\ IF ready THEN /\ calls' = Append(calls, Call("first", Query, None, FALSE))
                         /\ list' = Started("first", list)
           ELSE UNCHANGED <<calls, list>>
    BY <1>1, <1>4 DEF WebRenewed
  <2>2. /\ places' \in PlacesType /\ places'.custom = places.custom
        /\ places'.selected = places.selected /\ places'.default = places.default
    BY <2>1 DEF PlacesType, ScreenInv, FormTyped
  <2>3. client' = client /\ restored' = restored
    BY <1>2 DEF setting
  <2>4. ~Mobile /\ ~Mobile' /\ Web'
    BY <1>4, <2>3 DEF Web, Mobile
  <2>5. FormTyped'
    BY <1>4, <2>1, <2>2, <2>3, <2>4 DEF FormTyped, ScreenInv
  <2>6. Follows(Mobile, search)' /\ Stays(Mobile, places)'
    BY <2>1, <2>2, <2>4 DEF Follows, Stays, ScreenInv
  <2>7. ScreenInv'
    BY <1>3, <2>3, <2>5, <2>6 DEF ScreenInv
  <2>8. Query' = Query
    BY <1>4, <2>1, <2>2, <2>4 DEF Query, QueryOf, Or
  <2>9. PICK q \in QueryType : q = Query
    BY QueryTyped DEF Query, ScreenInv, FormTyped
  <2>10. CASE ready
    <3>1. calls' = Append(calls, Call("first", q, None, FALSE)) /\ list' = Started("first", list)
      BY <2>1, <2>9, <2>10
    <3>2. "first" \in Reload
      BY DEF Reload
    <3> QED
      BY <1>2, <2>3, <2>7, <2>8, <2>9, <3>1, <3>2, AsksReload
  <2>11. CASE ~ready
    <3>1. calls' = calls /\ list' = list /\ ~ready'
      BY <2>1, <2>11 DEF ScreenInv, FormTyped
    <3>2. Rests
      BY <3>1 DEF Rests, SameList, Held, LoadTyped
    <3> QED
      BY <2>3, <2>7, <3>2 DEF Moves
  <2> QED
    BY <2>10, <2>11
<1>5. CASE ~Web
  <2>1. PICK old : old = [i \in DOMAIN resolving |-> [resolving[i] EXCEPT !.current = FALSE]]
    OBVIOUS
  <2>2. Mobile /\ resolving \in Seq(Run) /\ search \in SearchType /\ filters \in Filters
    BY <1>5 DEF ScreenInv, FormTyped, Web, Mobile
  <2>3. ASSUME NEW i \in DOMAIN resolving PROVE old[i] \in Run
    <3>1. PICK run \in Run : run = resolving[i]
      BY <2>2
    <3>2. old[i] = [run EXCEPT !.current = FALSE]
      BY <2>1, <3>1
    <3> QED
      BY <3>2 DEF Run
  <2>4. DOMAIN resolving = 1 .. Len(resolving) /\ Len(resolving) \in Nat /\ DOMAIN old = DOMAIN resolving
    BY <2>1, <2>2
  <2>5. old \in Seq(Run)
    BY <2>1, <2>3, <2>4
  <2>6. Context \in Run
    BY DEF Context, Run, Text, Filters, DefaultFilters
  <2>7. Silent(search, filters) \in Run
    BY <2>2 DEF Silent, Run, SearchType
  <2>8. PICK runs : runs = old \o <<Context, Silent(search, filters)>>
    OBVIOUS
  <2>9. runs \in Seq(Run)
    <3>1. <<Context, Silent(search, filters)>> \in Seq(Run)
      BY <2>6, <2>7
    <3> QED
      BY <2>5, <2>8, <3>1, ConcatProperties
  <2>10. Render(search, filters, places, FALSE, FALSE, runs, <<>>)
    BY <1>1, <1>5, <2>1, <2>8 DEF MobileRenewed
  <2>11. restored => FALSE
    BY <1>5 DEF ScreenInv, FormTyped
  <2> QED
    BY <1>2, <1>3, <2>9, <2>10, <2>11, Rendered DEF ScreenInv, FormTyped
<1> QED
  BY <1>4, <1>5

\* The app's screen comes back into view.
LEMMA StepComeBack ==
  ASSUME ScreenInv, LoadTyped, ComeBack
  PROVE  ScreenInv' /\ Moves
<1>1. /\ Mobile /\ Input("session", "session") /\ resolving' = Append(resolving, Silent(search, filters))
      /\ UNCHANGED <<form, sheet, picker, taps, locating, delay, calls, list>>
  BY DEF ComeBack
<1>2. UNCHANGED setting /\ lost' \in 0 .. MaxLost /\ inputs' \in 0 .. MaxInput
  BY <1>1, Counted
<1>3. SheetsTyped'
  BY <1>1, <1>2 DEF SheetsTyped, ScreenInv, setting, Mobile
<1>4. Silent(search, filters) \in Run
  BY DEF Silent, Run, SearchType, ScreenInv, FormTyped
<1>5. resolving' \in Seq(Run)
  BY <1>1, <1>4 DEF ScreenInv, FormTyped
<1>6. /\ client' = client /\ restored' = restored /\ search' = search /\ filters' = filters
      /\ places' = places /\ ready' = ready /\ delay' = delay /\ calls' = calls /\ list' = list
  BY <1>1, <1>2 DEF setting, form
<1>7. ScreenInv'
  BY <1>3, <1>5, <1>6 DEF ScreenInv, FormTyped, Follows, Stays, Mobile, Web
<1>8. Query' = Query
  BY <1>6 DEF Query, QueryOf, Or, Web
<1>9. Rests
  BY <1>6, <1>8 DEF Rests, SameList, Held, LoadTyped, ScreenInv, FormTyped
<1> QED
  BY <1>6, <1>7, <1>9 DEF Moves

\* A step that leaves all but the list, its calls and the delay alone.
LEMMA OnlyTheList ==
  ASSUME ScreenInv, LoadTyped,
         UNCHANGED <<setting, form, sheet, picker, taps, locating, resolving>>,
         delay' \in {delay, FALSE}, inputs' \in 0 .. MaxInput, lost' \in 0 .. MaxLost
  PROVE  ScreenInv' /\ client' = client /\ ready' = ready /\ Query' = Query
<1>1. /\ client' = client /\ restored' = restored /\ search' = search /\ filters' = filters
      /\ places' = places /\ ready' = ready /\ resolving' = resolving
      /\ sheet' = sheet /\ picker' = picker /\ taps' = taps /\ locating' = locating
  BY DEF setting, form
<1>2. FormTyped'
  BY <1>1 DEF ScreenInv, FormTyped, Mobile, Web
<1>3. SheetsTyped'
  BY <1>1 DEF ScreenInv, SheetsTyped, Mobile
<1>4. ScreenInv'
  BY <1>1, <1>2, <1>3 DEF ScreenInv, Follows, Stays, Mobile
<1> QED
  BY <1>1, <1>4 DEF Query, QueryOf, Or, Web

\* The list is loaded anew, after the delay or by hand.
LEMMA StepReload ==
  ASSUME ScreenInv, LoadTyped, DelayOver \/ Pull
  PROVE  ScreenInv' /\ Moves
<1>1. PICK kind \in Reload : Ask(kind)
  BY DEF DelayOver, Pull, Reload
<1>2. Len(calls) <= MaxCalls /\ UNCHANGED setting /\ lost' \in 0 .. MaxLost /\ inputs' \in 0 .. MaxInput
  <2>1. CASE DelayOver
    BY <2>1, DiscoveryAssumption DEF DelayOver, ScreenInv, SheetsTyped, LoadTyped
  <2>2. CASE Pull
    <3>1. Input("pages", "pull") \/ Input("pages", "retry")
      BY <2>2 DEF Pull
    <3> QED
      BY <3>1, Counted
  <2> QED
    BY <2>1, <2>2
<1>3. UNCHANGED <<form, sheet, picker, taps, locating, resolving>> /\ delay' \in {delay, FALSE}
  BY DEF DelayOver, Pull
<1>4. ScreenInv' /\ client' = client /\ ready' = ready /\ Query' = Query
  BY <1>2, <1>3, OnlyTheList
<1>5. PICK q \in QueryType : q = Query
  BY QueryTyped DEF Query, ScreenInv, FormTyped
<1>6. calls' = Append(calls, Call(kind, q, None, FALSE)) /\ list' = Started(kind, list)
  BY <1>1, <1>5 DEF Ask, Reload
<1> QED
  BY <1>2, <1>4, <1>5, <1>6, AsksReload

\* The next page is asked for.
LEMMA StepLoadMore ==
  ASSUME ScreenInv, LoadTyped, LoadMore
  PROVE  ScreenInv' /\ Moves
<1>1. /\ list.cursor # None /\ ~list.more /\ Input("pages", "more") /\ Ask("more") /\ delay' = delay
      /\ UNCHANGED <<form, sheet, picker, taps, locating, resolving>>
  BY DEF LoadMore
<1>2. /\ Len(calls) <= MaxCalls /\ UNCHANGED setting /\ lost' \in 0 .. MaxLost
      /\ inputs' \in 0 .. MaxInput
  BY <1>1, Counted
<1>3. ScreenInv' /\ client' = client /\ ready' = ready /\ Query' = Query
  BY <1>1, <1>2, OnlyTheList
<1>4. PICK q \in QueryType : q = Query
  BY QueryTyped DEF Query, ScreenInv, FormTyped
<1>5. PICK u \in Item \cup {None} : u = list.cursor
  BY DEF LoadTyped, ListType
<1>6. PICK c : c = Call("more", q, u, FALSE)
  OBVIOUS
<1>7. c \in CallType /\ c.kind = "more" /\ c.cursor = u /\ ~c.late /\ c.query = q
  BY <1>6 DEF Call, CallType
<1>8. calls' = Append(calls, c) /\ list' = Started("more", list)
  BY <1>1, <1>4, <1>5, <1>6 DEF Ask
<1>9. \/ Web /\ list' = [list EXCEPT !.more = TRUE]
      \/ ~Web /\ list' = [list EXCEPT !.more = TRUE, !.failed = FALSE]
  BY <1>8 DEF Started, WebStarted, MobileStarted
<1>10. /\ list' \in ListType /\ list'.shown = list.shown /\ list'.cursor = list.cursor
       /\ list'.astray = list.astray /\ list'.more /\ list'.marker = list.marker
       /\ Web => list'.failed = list.failed
  BY <1>9 DEF ListType, LoadTyped
<1>11. Asks(c)
  BY <1>1, <1>2, <1>3, <1>4, <1>5, <1>7, <1>8, <1>10 DEF Asks
<1> QED
  BY <1>3, <1>7, <1>10, <1>11 DEF Moves

\* An event is marked, or no longer.
LEMMA StepMark ==
  ASSUME ScreenInv, LoadTyped, MoveMap \/ Mark
  PROVE  ScreenInv' /\ Moves
<1>1. /\ Input("pages", "mark") /\ calls' = calls /\ delay' = delay
      /\ UNCHANGED <<form, sheet, picker, taps, locating, resolving>>
  BY DEF MoveMap, Mark
<1>2. UNCHANGED setting /\ lost' \in 0 .. MaxLost /\ inputs' \in 0 .. MaxInput
  BY <1>1, Counted
<1>3. ScreenInv' /\ client' = client /\ ready' = ready /\ Query' = Query
  BY <1>1, <1>2, OnlyTheList
<1>4. PICK item \in ToSet(list.shown) \cup {None} : list' = [list EXCEPT !.marker = item]
  BY DEF MoveMap, Mark
<1>5. list \in ListType
  BY DEF LoadTyped
<1>6. item \in Item \cup {None}
  <2>1. list.shown \in Seq(Item)
    BY <1>5 DEF ListType
  <2> QED
    BY <1>4, <2>1 DEF ToSet
<1>7. list' \in ListType /\ SameList(list, list') /\ list'.marker = item
  BY <1>4, <1>5, <1>6 DEF ListType, SameList
<1>8. Rests
  BY <1>1, <1>3, <1>4, <1>7 DEF Rests, Held, ScreenInv, FormTyped
<1> QED
  BY <1>3, <1>8 DEF Moves

\* A call ends, with an answer or without.
LEMMA StepEnds ==
  ASSUME ScreenInv, LoadTyped, NEW i \in DOMAIN calls, Answer(i) \/ Lose(i)
  PROVE  ScreenInv' /\ Moves
<1>1. /\ UNCHANGED <<setting, form, sheet, picker, taps, locating, resolving>>
      /\ delay' = delay /\ inputs' = inputs
  BY DEF Answer, Lose
<1>2. inputs' \in 0 .. MaxInput /\ lost' \in 0 .. MaxLost
  <2>1. inputs \in 0 .. MaxInput /\ lost \in 0 .. MaxLost /\ MaxLost \in Nat
    BY DiscoveryAssumption DEF ScreenInv, SheetsTyped
  <2>2. lost' = lost \/ (lost < MaxLost /\ lost' = lost + 1)
    BY DEF Answer, Lose
  <2> QED
    BY <1>1, <2>1, <2>2
<1>3. ScreenInv' /\ client' = client /\ ready' = ready /\ Query' = Query
  BY <1>1, <1>2, OnlyTheList
<1>4. Ends(i)
  BY <1>1, <1>3 DEF Ends, Answer, Lose
<1> QED
  BY <1>3, <1>4 DEF Moves

-----------------------------------------------------------------------------
(* What becomes of a stored choice.                                        *)

\* The map is not touched and nothing is chosen.
LEMMA ChoiceHeld ==
  ASSUME ChoiceKept, ScreenInv', taps' = taps, picker'.touched = picker.touched,
         Mobile' => places'.custom = places.custom /\ places'.selected = places.selected
  PROVE  ChoiceKept'
<1>1. ~Mobile' => places'.custom = None
  BY DEF ScreenInv, Stays
<1> QED
  BY <1>1 DEF ChoiceKept, PickedPlaceIsKept

\* A place on the map is touched.
LEMMA ChoiceTouched ==
  ASSUME ScreenInv, ChoiceKept, ScreenInv', NEW at \in Tap, SearchArea(at)
  PROVE  ChoiceKept'
<1>1. picker \in PickerType /\ taps \in Seq([at : Tap, latest : BOOLEAN])
  BY DEF ScreenInv, SheetsTyped
<1>2. picker' = [picker EXCEPT !.touched = @ \cup {at}]
  BY DEF SearchArea
<1>3. picker'.touched = picker.touched \cup {at}
  BY <1>1, <1>2 DEF PickerType
<1>4. ASSUME NEW i \in DOMAIN taps' PROVE taps'[i].at \in picker'.touched
  <2>1. PICK older : older = [j \in DOMAIN taps |-> [taps[j] EXCEPT !.latest = FALSE]]
    OBVIOUS
  <2>2. PICK n : n = [at |-> at, latest |-> TRUE]
    OBVIOUS
  <2>3. taps' = Append(older, n)
    BY <2>1, <2>2 DEF SearchArea
  <2>4. DOMAIN taps = 1 .. Len(taps) /\ Len(taps) \in Nat
    BY <1>1
  <2>5. ASSUME NEW j \in DOMAIN taps PROVE older[j].at = taps[j].at
    <3>1. older[j] = [taps[j] EXCEPT !.latest = FALSE]
      BY <2>1
    <3> QED
      BY <1>1, <3>1, TapTyped
  <2>6. PICK S : S = {older[j] : j \in 1 .. Len(taps)}
    OBVIOUS
  <2>6a. DOMAIN older = 1 .. Len(taps) /\ \A j \in 1 .. Len(taps) : older[j] \in S
    BY <2>1, <2>4, <2>6
  <2>6b. older = [j \in 1 .. Len(taps) |-> older[j]]
    BY <2>1, <2>4
  <2>6c. older \in Seq(S) /\ Len(older) = Len(taps)
    BY <2>4, <2>6a, <2>6b
  <2>7. DOMAIN taps' = 1 .. (Len(taps) + 1) /\ taps'[Len(taps) + 1] = n
        /\ \A j \in 1 .. Len(taps) : taps'[j] = older[j]
    BY <2>3, <2>4, <2>6c
  <2>8. CASE i = Len(taps) + 1
    BY <1>3, <2>2, <2>7, <2>8
  <2>9. CASE i # Len(taps) + 1
    <3>1. i \in DOMAIN taps /\ taps'[i] = older[i]
      BY <2>4, <2>7, <2>9
    <3>2. taps[i].at \in picker.touched
      BY <3>1 DEF ChoiceKept
    <3> QED
      BY <1>3, <2>5, <3>1, <3>2
  <2> QED
    BY <2>8, <2>9
<1>5. CASE Web
  <2>1. ~Mobile'
    BY <1>5 DEF SearchArea, Input, setting, Web, Mobile
  <2>2. places'.custom = None
    BY <2>1 DEF ScreenInv, Stays
  <2> QED
    BY <1>4, <2>2 DEF ChoiceKept, PickedPlaceIsKept
<1>6. CASE ~Web
  <2>1. places' = places
    BY <1>6 DEF SearchArea, form
  <2>2. PickedPlaceIsKept'
    BY <1>3, <2>1 DEF ChoiceKept, PickedPlaceIsKept
  <2> QED
    BY <1>4, <2>2 DEF ChoiceKept
<1> QED
  BY <1>5, <1>6

\* The name of a touched place arrives.
LEMMA ChoiceNamed ==
  ASSUME ScreenInv, ChoiceKept, NEW i \in DOMAIN taps, NameArrives(i)
  PROVE  ChoiceKept'
<1>1. picker \in PickerType /\ places \in PlacesType /\ taps \in Seq([at : Tap, latest : BOOLEAN])
  BY DEF ScreenInv, SheetsTyped, FormTyped
<1>2. \/ picker' = picker
      \/ picker' = [picker EXCEPT !.open = FALSE, !.pending = None, !.found = FALSE]
  BY DEF NameArrives
<1>3. picker'.touched = picker.touched
  BY <1>1, <1>2 DEF PickerType
<1>4. ASSUME NEW j \in DOMAIN taps' PROVE taps'[j].at \in picker'.touched
  <2>1. taps' = RemoveAt(taps, i)
    BY DEF NameArrives
  <2>2. PICK k \in DOMAIN taps : taps'[j] = taps[k]
    <3>1. PICK T : T = [at : Tap, latest : BOOLEAN]
      OBVIOUS
    <3>2. taps \in Seq(T) /\ Len(taps) \in Nat /\ DOMAIN taps = 1 .. Len(taps) /\ i \in 1 .. Len(taps)
      BY <1>1, <3>1
    <3>3. /\ RemoveAt(taps, i) \in Seq(T) /\ Len(RemoveAt(taps, i)) = Len(taps) - 1
          /\ \A h \in 1 .. (Len(taps) - 1) : RemoveAt(taps, i)[h] = taps[Was(i, h)]
      BY <3>2, Removed
    <3>4. j \in 1 .. (Len(taps) - 1)
      BY <2>1, <3>2, <3>3
    <3>5. Was(i, j) \in DOMAIN taps
      BY <3>2, <3>4 DEF Was
    <3> QED
      BY <2>1, <3>3, <3>4, <3>5
  <2> QED
    BY <1>3, <2>2 DEF ChoiceKept
<1>5. PickedPlaceIsKept'
  <2>1. taps[i].at \in picker'.touched
    BY <1>3 DEF ChoiceKept
  <2>2. PICK at : at = taps[i].at
    OBVIOUS
  <2>3. places' = places \/ places' = [places EXCEPT !.selected = at]
    BY <2>2 DEF NameArrives, RenderPlaces, Render, form
  <2>4. places'.custom = places.custom /\ places'.selected \in {places.selected, at}
    BY <1>1, <2>3 DEF PlacesType
  <2> QED
    BY <1>3, <2>1, <2>2, <2>4 DEF ChoiceKept, PickedPlaceIsKept
<1> QED
  BY <1>4, <1>5 DEF ChoiceKept

\* The picker's place is applied: it is selected.
LEMMA ChoiceMade ==
  ASSUME ScreenInv, ScreenInv', ApplyPlace
  PROVE  ChoiceKept'
<1>1. /\ picker \in PickerType /\ places \in PlacesType /\ taps \in Seq([at : Tap, latest : BOOLEAN])
      /\ client \in {"web", "mobile"}
  BY DEF ScreenInv, SheetsTyped, FormTyped
<1>2. PICK ts : ts = {t.at : t \in ToSet(taps)}
  OBVIOUS
<1>3. picker' = [picker EXCEPT !.open = FALSE, !.found = FALSE, !.touched = ts] /\ taps' = taps
  BY <1>2 DEF ApplyPlace
<1>4. picker'.touched = ts
  BY <1>1, <1>3 DEF PickerType
<1>5. \A i \in DOMAIN taps : taps[i].at \in ts
  BY <1>2 DEF ToSet
<1>6. PickedPlaceIsKept'
  <2>1. CASE Mobile
    <3>1. ~Web /\ places' = MobileChosen(picker.pending)
      BY <2>1 DEF ApplyPlace, RenderPlaces, Render, Web, Mobile
    <3>2. picker.pending \in Spots
      BY <1>1 DEF PickerType
    <3>3. places'.selected = picker.pending /\ places'.custom \in {None, picker.pending}
      BY <1>1, <3>1, <3>2, ChosenTyped
    <3> QED
      BY <3>3 DEF PickedPlaceIsKept
  <2>2. CASE ~Mobile
    <3>1. ~Mobile'
      BY <2>2 DEF ApplyPlace, Input, setting, Mobile
    <3> QED
      BY <3>1 DEF PickedPlaceIsKept, ScreenInv, Stays
  <2> QED
    BY <2>1, <2>2
<1> QED
  BY <1>3, <1>4, <1>5, <1>6 DEF ChoiceKept

\* The app follows the device, or keeps what is stored.
LEMMA ChoiceFollowed ==
  ASSUME ScreenInv, ChoiceKept, NEW i \in DOMAIN resolving, MobileLocated(i)
  PROVE  ChoiceKept'
<1>1. places \in PlacesType /\ taps' = taps /\ picker' = picker
  BY DEF ScreenInv, FormTyped, MobileLocated
<1>2. PICK found, at : at = Followed(found) /\ places' = [places EXCEPT !.default = found, !.selected = at]
  BY DEF MobileLocated, Render
<1>3. places'.custom = places.custom /\ places'.selected = at
  BY <1>1, <1>2 DEF PlacesType
<1>4. places.custom # None => at = places.custom
  BY <1>2 DEF Followed, Or
<1> QED
  BY <1>1, <1>3, <1>4 DEF ChoiceKept, PickedPlaceIsKept

\* Whatever else happens in the picker leaves what was touched.
LEMMA ChoicePicked ==
  ASSUME ScreenInv,
         \/ OpenPicker \/ (\E long \in BOOLEAN : TypePlace(long)) \/ PlaceTimer \/ PlacesFound
         \/ SelectPlace \/ ResetPicker \/ ClosePicker
  PROVE  taps' = taps /\ places' = places /\ picker'.touched = picker.touched
<1>1. picker \in PickerType /\ client \in {"web", "mobile"}
  BY DEF ScreenInv, SheetsTyped
<1>2. PICK b : b = (picker.timer /\ Web)
  OBVIOUS
<1>3. Stopped = [picker EXCEPT !.timer = b, !.found = FALSE]
  BY <1>2 DEF Stopped
<1>4. Stopped.touched = picker.touched /\ Stopped \in PickerType
  BY <1>1, <1>3, StoppedTyped DEF PickerType
<1>5. taps' = taps /\ places' = places
  BY DEF OpenPicker, TypePlace, PlaceTimer, PlacesFound, SelectPlace, ResetPicker, ClosePicker, form
<1>6. CASE OpenPicker
  <2>1. PICK u : u = IF Web THEN places.selected ELSE None
    OBVIOUS
  <2>2. picker' = [picker EXCEPT !.open = TRUE, !.found = FALSE, !.pending = u]
    BY <1>6, <2>1 DEF OpenPicker
  <2> QED
    BY <1>5, <1>1, <2>2 DEF PickerType
<1>7. ASSUME NEW long \in BOOLEAN, TypePlace(long) PROVE picker'.touched = picker.touched
  <2>1. \/ picker' = [picker EXCEPT !.timer = TRUE]
        \/ picker' = [picker EXCEPT !.timer = FALSE, !.pending = None, !.found = FALSE]
    BY <1>7 DEF TypePlace
  <2> QED
    BY <1>1, <2>1 DEF PickerType
<1>8. CASE PlaceTimer
  <2>1. PICK n : n = picker.lookups + 1
    OBVIOUS
  <2>2. picker' = [picker EXCEPT !.timer = FALSE, !.lookups = n]
    BY <1>8, <2>1 DEF PlaceTimer
  <2> QED
    BY <1>5, <1>1, <2>2 DEF PickerType
<1>9. CASE PlacesFound
  <2>1. PICK n : n = picker.lookups - 1
    OBVIOUS
  <2>2. PICK some \in BOOLEAN : picker' = [picker EXCEPT !.lookups = n, !.found = some]
    BY <1>9, <2>1 DEF PlacesFound
  <2> QED
    BY <1>5, <1>1, <2>2 DEF PickerType
<1>10. CASE SelectPlace \/ ResetPicker
  <2>1. PICK u : picker' = [Stopped EXCEPT !.pending = u]
    BY <1>10 DEF SelectPlace, ResetPicker
  <2> QED
    BY <1>5, <1>4, <2>1 DEF PickerType
<1>11. CASE ClosePicker
  <2>1. picker' = [Stopped EXCEPT !.open = FALSE, !.pending = None]
    BY <1>11 DEF ClosePicker
  <2> QED
    BY <1>5, <1>4, <2>1 DEF PickerType
<1> QED
  BY <1>5, <1>6, <1>7, <1>8, <1>9, <1>10, <1>11

\* Every step keeps a stored choice.
LEMMA StepChoice ==
  ASSUME ScreenInv, ChoiceKept, ScreenInv', Next
  PROVE  ChoiceKept'
<1>1. ASSUME NEW at \in Tap, SearchArea(at) PROVE ChoiceKept'
  BY <1>1, ChoiceTouched
<1>2. ASSUME NEW i \in DOMAIN taps, NameArrives(i) PROVE ChoiceKept'
  BY <1>2, ChoiceNamed
<1>3. CASE ApplyPlace
  BY <1>3, ChoiceMade
<1>4. ASSUME NEW i \in DOMAIN resolving, MobileLocated(i) PROVE ChoiceKept'
  BY <1>4, ChoiceFollowed
<1>5. CASE \/ OpenPicker \/ (\E long \in BOOLEAN : TypePlace(long)) \/ PlaceTimer \/ PlacesFound
           \/ SelectPlace \/ ResetPicker \/ ClosePicker
  BY <1>5, ChoicePicked, ChoiceHeld
<1>6. ASSUME NEW text \in Text, TypeText(text) PROVE ChoiceKept'
  BY <1>6, ChoiceHeld DEF TypeText, RenderSearch, Render
<1>7. CASE SubmitSearch \/ SearchTimer
  BY <1>7, ChoiceHeld DEF SubmitSearch, SearchTimer, RenderSearch, Render
<1>8. CASE ToggleCategory \/ UpdateFilter
  BY <1>8, ChoiceHeld DEF ToggleCategory, UpdateFilter, RenderFilters, Render
<1>9. CASE ClearFilters
  <2>1. Web' /\ ~Mobile' /\ taps' = taps /\ picker' = [picker EXCEPT !.found = FALSE]
    BY <1>9 DEF ClearFilters, Input, setting, Web, Mobile
  <2>2. picker \in PickerType
    BY DEF ScreenInv, SheetsTyped
  <2>3. picker'.touched = picker.touched
    BY <2>1, <2>2 DEF PickerType
  <2> QED
    BY <2>1, <2>3, ChoiceHeld
<1>10. CASE OpenSheet \/ EditSheet \/ CloseSheet \/ ComeBack
  BY <1>10, ChoiceHeld DEF OpenSheet, EditSheet, CloseSheet, ComeBack, form
<1>11. CASE ApplySheet
  BY <1>11, ChoiceHeld DEF ApplySheet, RenderFilters, Render, form
<1>12. CASE RequestPosition \/ DelayOver
  BY <1>12, ChoiceHeld DEF RequestPosition, DelayOver, form
<1>13. CASE RenewToken
  <2>1. taps' = taps /\ picker' = picker /\ client' = client
    BY <1>13 DEF RenewToken, Input, setting
  <2>2. Mobile' => places' = places
    BY <1>13, <2>1 DEF RenewToken, MobileRenewed, Render, Web, Mobile
  <2> QED
    BY <2>1, <2>2, ChoiceHeld
<1>14. CASE PositionArrives
  <2>1. taps' = taps /\ picker' = picker /\ client' = client /\ ~Mobile
    BY <1>14 DEF PositionArrives, ScreenInv, SheetsTyped, setting
  <2> QED
    BY <2>1, ChoiceHeld DEF Mobile
<1>15. CASE WebProfileKnown \/ WebLocated
  <2>1. taps' = taps /\ picker' = picker /\ client' = client /\ Web
    BY <1>15 DEF WebProfileKnown, WebLocated, setting
  <2> QED
    BY <2>1, ChoiceHeld DEF Mobile, Web
<1>16. CASE Pull \/ LoadMore \/ Mark \/ MoveMap
  BY <1>16, ChoiceHeld DEF Pull, LoadMore, Mark, MoveMap, form
<1>17. ASSUME NEW i \in DOMAIN calls, Answer(i) \/ Lose(i) PROVE ChoiceKept'
  BY <1>17, ChoiceHeld DEF Answer, Lose, form
<1> QED
  BY <1>1, <1>2, <1>3, <1>4, <1>5, <1>6, <1>7, <1>8, <1>9, <1>10, <1>11, <1>12, <1>13, <1>14, <1>15,
     <1>16, <1>17 DEF Next, User, System

\* The empty sequence.
LEMMA NoElement ==
  ASSUME NEW S, NEW s, s = <<>>
  PROVE  s \in Seq(S) /\ Len(s) = 0 /\ DOMAIN s = {}
<1>1. s \in Seq(S)
  OBVIOUS
<1>2. Len(s) = 0
  OBVIOUS
<1>3. DOMAIN s = 1 .. Len(s)
  BY <1>1
<1> QED
  BY <1>1, <1>2, <1>3

\* A sequence of one element.
LEMMA OneElement ==
  ASSUME NEW S, NEW x \in S, NEW s, s = <<x>>
  PROVE  s \in Seq(S) /\ Len(s) = 1 /\ DOMAIN s = {1} /\ s[1] = x
<1>1. s \in Seq(S)
  OBVIOUS
<1>2. Len(s) = 1 /\ s[1] = x
  OBVIOUS
<1>3. DOMAIN s = 1 .. Len(s)
  BY <1>1
<1> QED
  BY <1>1, <1>2, <1>3

\* One call is within the bound.
LEMMA OneCallFits ==
  ASSUME NEW n \in {0, 1}
  PROVE  n <= MaxCalls + 1
<1>1. MaxCalls \in Nat
  BY DiscoveryAssumption
<1> QED
  BY <1>1

\* The first screen.
LEMMA InitScreen ==
  ASSUME Init
  PROVE  DiscoveryInv
<1>1. /\ client \in {"web", "mobile"} /\ sheet = None /\ picker = NoPicker /\ taps = <<>>
      /\ locating = FALSE /\ delay = FALSE /\ inputs = 0 /\ lost = 0
      /\ IF Web THEN WebInit ELSE MobileInit
  BY DEF Init
<1>2. SheetsTyped
  <2>1. picker \in PickerType
    BY <1>1 DEF NoPicker, PickerType, Spots
  <2>2. taps \in Seq([at : Tap, latest : BOOLEAN])
    BY <1>1, NoElement
  <2>3. inputs \in 0 .. MaxInput /\ lost \in 0 .. MaxLost
    BY <1>1, DiscoveryAssumption
  <2> QED
    BY <1>1, <2>1, <2>2, <2>3 DEF SheetsTyped
<1>3. filters = DefaultFilters /\ filters \in Filters
  <2>1. filters = DefaultFilters
    BY <1>1 DEF WebInit, MobileInit
  <2> QED
    BY <2>1 DEF Filters, DefaultFilters
<1>4. Unknown \in PlacesType
  BY DEF Unknown, PlacesType, Spots
<1>5. EmptyList \in ListType /\ EmptyList.shown = <<>> /\ EmptyList.marker = None /\ EmptyList.cursor = None
  <2>1. PICK s \in Seq(Item) : s = <<>>
    BY NoElement
  <2> QED
    BY <2>1 DEF EmptyList, ListType
<1>6. MaxCalls \in Nat
  BY DiscoveryAssumption
<1>7. CASE Web
  <2>1. ~Mobile
    BY <1>7 DEF Web, Mobile
  <2>2. /\ restored \in BOOLEAN /\ ready = restored
        /\ calls = IF ready THEN <<Call("first", Query, None, FALSE)>> ELSE <<>>
        /\ list = [EmptyList EXCEPT !.loading = ready]
    BY <1>1, <1>7 DEF WebInit
  <2>3. PICK text \in {"", "ab"}, p \in Favorite \cup {None} :
          /\ search = [box |-> text, applied |-> "", timer |-> "off", stray |-> text # ""]
          /\ places = [Unknown EXCEPT !.selected = p]
    BY <1>1, <1>7 DEF WebInit
  <2>4. search \in SearchType /\ Follows(Mobile, search)
    <3>1. PICK b \in BOOLEAN : b = (text # "")
      OBVIOUS
    <3>2. search = [box |-> text, applied |-> "", timer |-> "off", stray |-> b]
      BY <2>3, <3>1
    <3>3. search \in SearchType
      BY <3>2 DEF SearchType, Text
    <3> QED
      BY <3>1, <3>2, <3>3 DEF Follows
  <2>5. places \in PlacesType /\ places.custom = None
    <3>1. p \in Spots
      BY DEF Spots, Place
    <3>2. Unknown.custom = None
      BY DEF Unknown
    <3> QED
      BY <1>4, <2>3, <3>1, <3>2 DEF PlacesType
  <2>6. ScreenInv
    BY <1>1, <1>2, <1>3, <1>7, <2>1, <2>2, <2>4, <2>5 DEF ScreenInv, FormTyped, Stays
  <2>6c. ChoiceKept
    BY <1>1, <2>5, NoElement DEF ChoiceKept, PickedPlaceIsKept
  <2>7. PICK q \in QueryType : q = Query
    BY <1>3, <2>4, <2>5, QueryTyped DEF Query
  <2>8. PICK c : c = Call("first", q, None, FALSE)
    OBVIOUS
  <2>9. c \in CallType /\ c.kind = "first" /\ c.cursor = None /\ ~c.late /\ c.query = q
    BY <2>8 DEF Call, CallType, Reload
  <2>10. /\ list \in ListType /\ list.shown = <<>> /\ list.marker = None /\ list.cursor = None
    BY <1>5, <2>2 DEF ListType
  <2>11. calls = IF ready THEN <<c>> ELSE <<>>
    BY <2>2, <2>7, <2>8
  <2>12. LoadTyped
    <3>1. calls = <<c>> \/ calls = <<>>
      BY <2>11
    <3>2. calls \in Seq(CallType) /\ Len(calls) \in {0, 1}
      BY <2>9, <3>1, NoElement, OneElement
    <3>3. calls \in Seq(CallType) /\ Len(calls) <= MaxCalls + 1
      BY <3>2, OneCallFits
    <3> QED
      BY <2>10, <3>3 DEF LoadTyped
  <2>13. ListInv
    <3>1. CASE ready
      <4>1. calls = <<c>> /\ DOMAIN calls = {1} /\ calls[1] = c
        <5>1. calls = <<c>>
          BY <2>11, <3>1
        <5> QED
          BY <2>9, <5>1, OneElement
      <4>2. MoreOnce(calls, list) /\ CursorTells(Mobile, list) /\ MoreTells(Mobile, calls, list)
        BY <2>9, <2>10, <4>1 DEF MoreOnce, CursorTells, MoreTells
      <4>3. Superseded(calls, Query, delay) /\ ListFollows(Mobile, calls, list, Query, delay)
        BY <2>7, <2>9, <4>1 DEF Superseded, ListFollows, Due, Reload
      <4> QED
        BY <4>2, <4>3 DEF ListInv, Sound
    <3>2. CASE ~ready
      <4>1. DOMAIN calls = {}
        <5>1. calls = <<>>
          BY <2>11, <3>2
        <5> QED
          BY <5>1, NoElement
      <4> QED
        BY <2>10, <3>2, <4>1 DEF ListInv, Sound, MoreOnce, CursorTells, MoreTells
    <3> QED
      BY <3>1, <3>2
  <2> QED
    BY <2>6, <2>6c, <2>12, <2>13 DEF DiscoveryInv
<1>8. CASE ~Web
  <2>1. Mobile
    BY <1>1, <1>8 DEF Web, Mobile
  <2>2. /\ restored = FALSE /\ search = [box |-> "", applied |-> "", timer |-> "off", stray |-> FALSE]
        /\ ready = FALSE /\ resolving = <<Context>>
        /\ calls = <<>> /\ list = [EmptyList EXCEPT !.loading = TRUE]
    BY <1>1, <1>8 DEF MobileInit
  <2>3. PICK p \in Favorite \cup {None} : places = [Unknown EXCEPT !.selected = p, !.custom = p]
    BY <1>1, <1>8 DEF MobileInit
  <2>4. search \in SearchType /\ Follows(Mobile, search)
    BY <2>2 DEF SearchType, Text, Follows
  <2>5. places \in PlacesType /\ places.custom = p /\ places.selected = p
    <3>1. p \in Spots
      BY DEF Spots, Place
    <3> QED
      BY <1>4, <2>3, <3>1 DEF PlacesType
  <2>6. resolving \in Seq(Run)
    <3>1. PICK x : x = Context
      OBVIOUS
    <3>2. x \in Run
      BY <3>1 DEF Context, Run, Text, Filters, DefaultFilters
    <3> QED
      BY <2>2, <3>1, <3>2, OneElement
  <2>7. FormTyped
    BY <1>1, <1>3, <1>8, <2>2, <2>4, <2>5, <2>6 DEF FormTyped
  <2>8. ScreenInv
    BY <1>1, <1>2, <2>1, <2>4, <2>5, <2>7 DEF ScreenInv, Stays
  <2>8a. ChoiceKept
    BY <1>1, <2>5, NoElement DEF ChoiceKept, PickedPlaceIsKept
  <2>9. /\ list \in ListType /\ list.shown = <<>> /\ list.marker = None /\ list.cursor = None
    BY <1>5, <2>2 DEF ListType
  <2>10. LoadTyped
    <3>1. calls \in Seq(CallType) /\ Len(calls) = 0
      BY <2>2, NoElement
    <3> QED
      BY <1>6, <2>9, <3>1 DEF LoadTyped
  <2>11. DOMAIN calls = {}
    BY <2>2, NoElement
  <2>12. ListInv
    BY <2>2, <2>9, <2>11 DEF ListInv, Sound, MoreOnce, CursorTells, MoreTells
  <2> QED
    BY <2>8, <2>8a, <2>10, <2>12 DEF DiscoveryInv
<1> QED
  BY <1>7, <1>8

\* The invariant says that the screen shows what was asked for.
LEMMA ShowsWhatWasAsked ==
  ASSUME DiscoveryInv
  PROVE  ScreenShowsWhatWasAsked
<1>1. /\ ScreenInv /\ LoadTyped /\ FormTyped /\ SheetsTyped /\ client \in {"web", "mobile"}
      /\ Sound(Mobile, calls, list, Query, ready, delay)
  BY DEF DiscoveryInv, ScreenInv, ListInv
<1>2. TypeOK
  <2>1. search \in [box : Text, applied : Text, timer : Text \cup {"off"}, stray : BOOLEAN]
    BY <1>1 DEF FormTyped, SearchType
  <2>2. DOMAIN places = {"selected", "default", "custom", "browser", "known"}
    BY <1>1 DEF FormTyped, PlacesType
  <2>3. {places.selected, places.default, places.custom, places.browser} \subseteq Place \cup {None}
    BY <1>1 DEF FormTyped, PlacesType, Spots
  <2>4. picker.pending \in Place \cup {None} /\ picker.lookups \in Nat
    BY <1>1 DEF SheetsTyped, PickerType, Spots
  <2> QED
    BY <1>1, <2>1, <2>2, <2>3, <2>4 DEF TypeOK, FormTyped, SheetsTyped, LoadTyped
<1>3. ASSUME Quiet, ~list.failed, ~list.astray, ~search.stray
      PROVE  \E n \in 1 .. Pages : /\ list.shown = KeptUpTo(AskedFor, n)
                                   /\ list.cursor = NextPage(AskedFor, n)
  <2>1. calls = <<>> /\ ~delay /\ ready /\ search.timer = "off"
    BY <1>3 DEF Quiet
  <2>2. DOMAIN calls = {}
    BY <2>1
  <2>3. Lists(Mobile, list, Query)
    BY <1>1, <1>3, <2>1, <2>2 DEF Sound, ListFollows
  <2>4. TextAskedFor = search.applied
    BY <1>1, <1>3, <2>1 DEF TextAskedFor, ScreenInv, Follows
  <2>5. AskedFor = Query
    <3>1. PICK q \in QueryType : q = Query
      BY <1>1, QueryTyped DEF Query, FormTyped
    <3>2. q.text = search.applied
      BY <3>1 DEF Query, QueryOf
    <3>3. AskedFor = [q EXCEPT !.text = q.text]
      BY <2>4, <3>1, <3>2 DEF AskedFor
    <3> QED
      BY <3>1, <3>3 DEF QueryType
  <2>6. PICK n \in 1 .. Pages : list.shown = PagesOf(Mobile, Query, n) /\ list.cursor = NextPage(Query, n)
    BY <2>3 DEF Lists
  <2>7. PagesOf(Mobile, Query, n) = KeptUpTo(Query, n)
    BY DEF PagesOf, KeptUpTo
  <2> QED
    BY <2>5, <2>6, <2>7
<1>4. ListAnswersForm
  BY <1>1, <1>2, <1>3 DEF ListAnswersForm, LoadTyped
<1>5. PickedPlaceIsKept
  BY DEF DiscoveryInv, ChoiceKept
<1> QED
  BY <1>4, <1>5 DEF ScreenShowsWhatWasAsked

\* Nothing is pending, the list shows no error and its last answer was not overtaken: it holds
\* the first pages of what the box, the filters and the place ask for, whatever answers came
\* in between and in which order; and a place picked in the app stays selected, but for the
\* places touched on the map since, or that waited for their name when it was picked.
THEOREM DiscoveryScreen == Spec => []ScreenShowsWhatWasAsked
<1>1. Init => DiscoveryInv
  BY InitScreen
<1>2. DiscoveryInv /\ [Next]_vars => DiscoveryInv'
  <2> SUFFICES ASSUME DiscoveryInv, [Next]_vars PROVE DiscoveryInv'
    OBVIOUS
  <2>1. ScreenInv /\ LoadTyped /\ ListInv /\ ChoiceKept
    BY DEF DiscoveryInv
  <2>2. CASE User
    <3>1. ASSUME NEW text \in Text, TypeText(text) PROVE ScreenInv' /\ Moves
      BY <2>1, <3>1, StepTypeText
    <3>2. ASSUME NEW at \in Tap, SearchArea(at) PROVE ScreenInv' /\ Moves
      BY <2>1, <3>2, StepSearchArea
    <3>3. OpenPicker \/ SelectPlace \/ ResetPicker \/ ClosePicker => ScreenInv' /\ Moves
      BY <2>1, StepPicker
    <3>3a. ASSUME NEW long \in BOOLEAN, TypePlace(long) PROVE ScreenInv' /\ Moves
      BY <2>1, <3>3a, StepPicker
    <3>4. OpenSheet \/ EditSheet \/ CloseSheet => ScreenInv' /\ Moves
      BY <2>1, StepSheet
    <3>5. SubmitSearch \/ ToggleCategory \/ UpdateFilter \/ ClearFilters => ScreenInv' /\ Moves
      BY <2>1, StepSubmitSearch, StepToggleCategory, StepUpdateFilter, StepClearFilters
    <3>6. ApplySheet \/ ApplyPlace \/ RequestPosition \/ RenewToken \/ ComeBack => ScreenInv' /\ Moves
      BY <2>1, StepApplySheet, StepApplyPlace, StepRequestPosition, StepRenewToken, StepComeBack
    <3>7. Pull \/ LoadMore \/ Mark \/ MoveMap => ScreenInv' /\ Moves
      BY <2>1, StepReload, StepLoadMore, StepMark
    <3>8. ScreenInv' /\ Moves
      BY <2>2, <3>1, <3>2, <3>3, <3>3a, <3>4, <3>5, <3>6, <3>7 DEF User
    <3>9. ChoiceKept'
      BY <2>1, <2>2, <3>8, StepChoice DEF Next
    <3> QED
      BY <2>1, <3>8, <3>9, LoadStep DEF DiscoveryInv
  <2>3. CASE System
    <3>1. ASSUME NEW i \in DOMAIN taps, NameArrives(i) PROVE ScreenInv' /\ Moves
      BY <2>1, <3>1, StepNameArrives
    <3>2. ASSUME NEW i \in DOMAIN resolving, MobileLocated(i) PROVE ScreenInv' /\ Moves
      BY <2>1, <3>2, StepMobileLocated
    <3>3. ASSUME NEW i \in DOMAIN calls, Answer(i) \/ Lose(i) PROVE ScreenInv' /\ Moves
      BY <2>1, <3>3, StepEnds
    <3>4. PlaceTimer \/ PlacesFound => ScreenInv' /\ Moves
      BY <2>1, StepPicker
    <3>5. SearchTimer \/ PositionArrives \/ WebProfileKnown \/ WebLocated \/ DelayOver
          => ScreenInv' /\ Moves
      BY <2>1, StepSearchTimer, StepPositionArrives, StepWebProfileKnown, StepWebLocated, StepReload
    <3>6. ScreenInv' /\ Moves
      BY <2>3, <3>1, <3>2, <3>3, <3>4, <3>5 DEF System
    <3>7. ChoiceKept'
      BY <2>1, <2>3, <3>6, StepChoice DEF Next
    <3> QED
      BY <2>1, <3>6, <3>7, LoadStep DEF DiscoveryInv
  <2>4. CASE UNCHANGED vars
    <3>1. /\ UNCHANGED <<setting, form, work>>
          /\ sheet' = sheet /\ picker' = picker /\ taps' = taps /\ locating' = locating
          /\ inputs' = inputs /\ lost' = lost
      BY <2>4 DEF vars
    <3>2. SheetsTyped'
      BY <2>1, <3>1 DEF SheetsTyped, ScreenInv, setting, Mobile
    <3>3. ScreenInv' /\ Moves
      BY <2>1, <3>1, <3>2, Quietly
    <3>4. ChoiceKept'
      BY <2>1, <3>1, <3>3, ChoiceHeld DEF form
    <3> QED
      BY <2>1, <3>3, <3>4, LoadStep DEF DiscoveryInv
  <2> QED
    BY <2>2, <2>3, <2>4 DEF Next
<1>3. DiscoveryInv => ScreenShowsWhatWasAsked
  BY ShowsWhatWasAsked
<1> QED
  BY <1>1, <1>2, <1>3, PTL DEF Spec
=============================================================================
