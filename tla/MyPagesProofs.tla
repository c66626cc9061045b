---------------------------- MODULE MyPagesProofs ----------------------------
(***************************************************************************)
(* Proofs about five of the screens of MyPages: the registration for push  *)
(* messages, the ticket screen with the scanner, the invitations, the      *)
(* profile and the favorite places, for any users of the installation, any *)
(* number of calls, codes, acts, invitations and places, and any number of *)
(* lost answers.                                                           *)
(***************************************************************************)
EXTENDS MyPages, SequenceTheorems, FiniteSetTheorems, TLAPS

-----------------------------------------------------------------------------
(* The registration for push messages.                                     *)

PushCall == [op : {"register", "unregister"}, auth : [user : PushUsers, nr : Nat], fcm : Nat]

\* What can be said of a call or a key: it is of a past turn and of a token handed out.
Past(auth, f) == auth.nr < turns /\ f <= fcm

PushTyped ==
  /\ sent \in Seq(PushCall) /\ answers \in Seq([call : PushCall])
  /\ \A c \in Calls : Past(c.auth, c.fcm)
  /\ device \in [PushUsers -> Nat] /\ trouble \in BOOLEAN /\ turns \in Nat \ {0}
  /\ SignedIn => session.user \in PushUsers /\ session \in [user : PushUsers, nr : 1..(turns - 1)]
  /\ fcm \in Nat \ {0} /\ known \in 0..fcm
  /\ synced = NoKey \/ synced \in [auth : [user : PushUsers, nr : Nat], fcm : Nat]
  /\ Past(synced.auth, synced.fcm)

\* How the host component follows the setting: only while it is on does it know of
\* a user, and it has the token in force unless it is asking for it.
Followed ==
  /\ setting \in [stored : BOOLEAN, shown : BOOLEAN, saving : BOOLEAN] /\ asking \in BOOLEAN
  /\ setting.saving <=> setting.shown # setting.stored
  /\ enabled = setting.stored
  /\ effective = IF enabled THEN session ELSE Nobody
  /\ asking => enabled
  /\ enabled /\ ~asking => known = fcm

\* What a call makes of the token stored for a user.
Made(c, v, f) ==
  IF v = c.auth.user THEN IF c.op = "register" THEN c.fcm ELSE 0
  ELSE IF c.op = "register" /\ f = c.fcm THEN 0 ELSE f

\* The token stored for a user once the server has executed what was sent.
Becomes(v, f) ==
  /\ sent = <<>> => device[v] = f
  /\ \A i \in DOMAIN sent : Made(sent[i], v, device[v]) = f

\* Without trouble the calls under way are all one call, and the server is going to
\* have the token of the user signed in and of nobody else.
Due ==
  ~trouble =>
    /\ \A c, d \in Calls : c = d
    /\ \A c \in Calls : c.op = "register" => enabled /\ SignedIn
    /\ \A i \in DOMAIN answers, v \in PushUsers : Made(answers[i].call, v, device[v]) = device[v]
    /\ \A v \in PushUsers : (enabled /\ SignedIn /\ session.user = v) \/ Becomes(v, 0)
    /\ enabled /\ SignedIn /\ ~asking => Becomes(session.user, fcm)
    /\ SignedIn /\ synced = SyncKey(session, fcm) => Becomes(session.user, fcm)
    /\ SignedIn /\ synced.auth = session => enabled


\* Removing an element leaves a sequence of the others, and all of them.
LEMMA Removal ==
  ASSUME NEW S, NEW s \in Seq(S), NEW i \in DOMAIN s
  PROVE  /\ RemoveAt(s, i) \in Seq(S)
         /\ \A j \in DOMAIN RemoveAt(s, i) : \E k \in DOMAIN s : RemoveAt(s, i)[j] = s[k]
         /\ \A k \in DOMAIN s : k = i \/ \E j \in DOMAIN RemoveAt(s, i) : RemoveAt(s, i)[j] = s[k]
<1> DEFINE left == SubSeq(s, 1, i - 1)
           right == SubSeq(s, i + 1, Len(s))
<1>1. i \in 1..Len(s) /\ \A j \in 1..Len(s) : s[j] \in S
  OBVIOUS
<1>2. left \in Seq(S) /\ Len(left) = i - 1 /\ \A j \in 1..(i - 1) : left[j] = s[j]
  BY <1>1, SubSeqProperties
<1>3. /\ right \in Seq(S) /\ Len(right) = Len(s) - i
      /\ \A j \in 1..(Len(s) - i) : right[j] = s[i + j]
  BY <1>1, SubSeqProperties
<1> HIDE DEF left, right
<1>4. /\ left \o right \in Seq(S) /\ Len(left \o right) = Len(s) - 1
      /\ \A j \in 1..(Len(s) - 1) :
           (left \o right)[j] = IF j <= i - 1 THEN left[j] ELSE right[j - (i - 1)]
  BY <1>1, <1>2, <1>3, ConcatProperties
<1>5. \A j \in 1..(Len(s) - 1) : \E k \in 1..Len(s) : (left \o right)[j] = s[k]
  <2> SUFFICES ASSUME NEW j \in 1..(Len(s) - 1)
               PROVE  \E k \in 1..Len(s) : (left \o right)[j] = s[k]
    OBVIOUS
  <2>1. CASE j <= i - 1
    BY <2>1, <1>1, <1>2, <1>4
  <2>2. CASE j > i - 1
    <3>1. (left \o right)[j] = right[j - (i - 1)] /\ j - (i - 1) \in 1..(Len(s) - i)
      BY <2>2, <1>1, <1>4
    <3>2. right[j - (i - 1)] = s[i + (j - (i - 1))] /\ i + (j - (i - 1)) \in 1..Len(s)
      BY <3>1, <1>1, <1>3
    <3> QED
      BY <3>1, <3>2
  <2>3. j <= i - 1 \/ j > i - 1
    BY <1>1
  <2> QED
    BY <2>1, <2>2, <2>3, Zenon
<1>6. \A k \in 1..Len(s) : k = i \/ \E j \in 1..(Len(s) - 1) : (left \o right)[j] = s[k]
  <2> SUFFICES ASSUME NEW k \in 1..Len(s), k # i
               PROVE  \E j \in 1..(Len(s) - 1) : (left \o right)[j] = s[k]
    OBVIOUS
  <2>1. CASE k < i
    <3>1. k \in 1..(Len(s) - 1) /\ k <= i - 1
      BY <2>1, <1>1
    <3> QED
      BY <3>1, <1>1, <1>2, <1>4
  <2>2. CASE k > i
    <3>1. k - 1 \in 1..(Len(s) - 1) /\ ~(k - 1 <= i - 1) /\ (k - 1) - (i - 1) \in 1..(Len(s) - i)
      BY <2>2, <1>1
    <3>2. i + ((k - 1) - (i - 1)) = k
      BY <1>1
    <3>3. (left \o right)[k - 1] = s[k]
      BY <3>1, <3>2, <1>1, <1>3, <1>4
    <3> QED
      BY <3>1, <3>3
  <2>3. k < i \/ k > i
    BY <1>1
  <2> QED
    BY <2>1, <2>2, <2>3, Zenon
<1>7. RemoveAt(s, i) = left \o right
  BY DEF RemoveAt, left, right
<1>8. DOMAIN (left \o right) = 1..(Len(s) - 1) /\ DOMAIN s = 1..Len(s)
  BY <1>4
<1> QED
  BY <1>4, <1>5, <1>6, <1>7, <1>8

\* An element of a sequence.
LEMMA Element ==
  ASSUME NEW S, NEW s \in Seq(S), NEW i \in DOMAIN s
  PROVE  s[i] \in S
OBVIOUS

\* What is under way.
LEMMA UnderWayAre ==
  ASSUME PushTyped
  PROVE  /\ Calls \subseteq PushCall
         /\ \A c : c \in Calls <=> \/ \E i \in DOMAIN sent : c = sent[i]
                                   \/ \E i \in DOMAIN answers : c = answers[i].call
<1>1. Calls = {sent[i] : i \in DOMAIN sent} \cup {answers[i].call : i \in DOMAIN answers}
  BY DEF Calls, Range
<1>2. \A i \in DOMAIN sent : sent[i] \in PushCall
  BY DEF PushTyped
<1>3. \A i \in DOMAIN answers : answers[i] \in [call : PushCall]
  BY Element DEF PushTyped
<1> QED
  BY <1>1, <1>2, <1>3

\* Executing a call twice is executing it once.
LEMMA MadeOnce ==
  ASSUME NEW c, NEW v, NEW f
  PROVE  Made(c, v, Made(c, v, f)) = Made(c, v, f)
BY DEF Made

\* A step that sends nothing.
LEMMA NothingSent ==
  ASSUME PushTyped, Send(<<>>)
  PROVE  sent' = sent /\ answers' = answers /\ Calls' = Calls
<1>1. sent' = sent /\ answers' = answers
  BY ConcatEmptySeq DEF PushTyped, Send
<1> QED
  BY <1>1 DEF Calls

\* A step that sends one call.
LEMMA OneSent ==
  ASSUME PushTyped, NEW c \in PushCall, Send(<<c>>)
  PROVE  /\ sent' \in Seq(PushCall) /\ sent' # <<>> /\ answers' = answers
         /\ Calls' = Calls \cup {c}
         /\ \A i \in DOMAIN sent' : sent'[i] \in Calls'
<1>1. sent' = sent \o <<c>> /\ answers' = answers /\ <<c>> \in Seq(PushCall) /\ sent \in Seq(PushCall)
  BY DEF Send, PushTyped
<1>2. Len(<<c>>) = 1 /\ <<c>>[1] = c
  OBVIOUS
<1>3. /\ sent' \in Seq(PushCall) /\ Len(sent') = Len(sent) + 1
      /\ \A i \in 1..(Len(sent) + 1) : sent'[i] = IF i <= Len(sent) THEN sent[i] ELSE <<c>>[i - Len(sent)]
  BY <1>1, <1>2, ConcatProperties
<1>4. /\ \A i \in 1..Len(sent) : sent'[i] = sent[i]
      /\ sent'[Len(sent) + 1] = c
  BY <1>1, <1>2, <1>3
<1>5. DOMAIN sent = 1..Len(sent) /\ DOMAIN sent' = 1..(Len(sent) + 1)
  BY <1>1, <1>3
<1>6. {sent'[i] : i \in DOMAIN sent'} = {sent[i] : i \in DOMAIN sent} \cup {c}
  BY <1>4, <1>5, <1>1
<1>7. Calls' = Calls \cup {c}
  BY <1>1, <1>6 DEF Calls, Range
<1>8. \A i \in DOMAIN sent' : sent'[i] \in Calls'
  BY DEF Calls, Range
<1> QED
  BY <1>1, <1>3, <1>7, <1>8

\* A call that overlaps with no other: afterwards the server will have done as it says,
\* and the other users stay without a token.
LEMMA AloneSent ==
  ASSUME PushTyped, Due, ~trouble, NEW c \in PushCall, Send(<<c>>), ~Overlaps(<<c>>), device' = device
  PROVE  /\ \A d \in Calls' : d = c
         /\ \A i \in DOMAIN answers', v \in PushUsers :
              Made(answers'[i].call, v, device'[v]) = device'[v]
         /\ \A v \in PushUsers : v # c.auth.user /\ Becomes(v, 0) => Becomes(v, 0)'
         /\ Becomes(c.auth.user, IF c.op = "register" THEN c.fcm ELSE 0)'
<1>1. Range(<<c>>) = {c}
  BY DEF Range
<1>2. \A d \in Calls : d = c
  BY <1>1 DEF Overlaps
<1>3. \A d \in Calls' : d = c
  BY <1>2, OneSent
<1>4. \A i \in DOMAIN answers', v \in PushUsers : Made(answers'[i].call, v, device'[v]) = device'[v]
  BY OneSent DEF Due
<1>5. \A v, f : Made(c, v, device[v]) = f => Becomes(v, f)'
  BY <1>3, OneSent DEF Becomes
<1>6. ASSUME NEW v \in PushUsers, v # c.auth.user, Becomes(v, 0)
      PROVE  Becomes(v, 0)'
  <2>1. CASE sent = <<>>
    BY <2>1, <1>5, <1>6 DEF Becomes, Made
  <2>2. CASE sent # <<>>
    <3>1. 1 \in DOMAIN sent
      BY <2>2 DEF PushTyped
    <3>2. sent[1] = c
      BY <3>1, <1>2, UnderWayAre
    <3> QED
      BY <3>1, <3>2, <1>5, <1>6 DEF Becomes
  <2> QED
    BY <2>1, <2>2
<1>7. Becomes(c.auth.user, IF c.op = "register" THEN c.fcm ELSE 0)'
  <2>1. Made(c, c.auth.user, device[c.auth.user]) = IF c.op = "register" THEN c.fcm ELSE 0
    BY DEF Made
  <2> QED
    BY <2>1, <1>5
<1> QED
  BY <1>3, <1>4, <1>6, <1>7

\* What is under way once a call was executed, lost or answered.
LEMMA ExecutedCalls ==
  ASSUME PushTyped, NEW i \in DOMAIN sent,
         sent' = RemoveAt(sent, i), answers' = Append(answers, [call |-> sent[i]])
  PROVE  /\ sent' \in Seq(PushCall) /\ answers' \in Seq([call : PushCall]) /\ Calls' \subseteq Calls
<1>1. sent \in Seq(PushCall) /\ answers \in Seq([call : PushCall])
  BY DEF PushTyped
<1>2. /\ sent' \in Seq(PushCall)
      /\ \A j \in DOMAIN sent' : \E k \in DOMAIN sent : sent'[j] = sent[k]
  BY <1>1, Removal
<1>3. sent[i] \in PushCall
  BY <1>1
<1>4. [call |-> sent[i]] \in [call : PushCall] /\ [call |-> sent[i]].call = sent[i]
  BY <1>3
<1>5. /\ answers' \in Seq([call : PushCall])
      /\ \A j \in DOMAIN answers' : \/ j \in DOMAIN answers /\ answers'[j] = answers[j]
                                   \/ answers'[j] = [call |-> sent[i]]
  BY <1>1, <1>4, AppendProperties
<1>6. Calls' = {sent'[j] : j \in DOMAIN sent'} \cup {answers'[j].call : j \in DOMAIN answers'}
  BY DEF Calls, Range
<1>7. \A j \in DOMAIN sent' : sent'[j] \in Calls
  BY <1>2, UnderWayAre
<1>8. \A j \in DOMAIN answers' : answers'[j].call \in Calls
  BY <1>4, <1>5, UnderWayAre
<1> QED
  BY <1>2, <1>5, <1>6, <1>7, <1>8

\* A lost call is no longer under way.
LEMMA LostCalls ==
  ASSUME PushTyped, NEW i \in DOMAIN sent, sent' = RemoveAt(sent, i) \o <<>>, answers' = answers
  PROVE  sent' \in Seq(PushCall) /\ answers' \in Seq([call : PushCall]) /\ Calls' \subseteq Calls
<1>1. sent \in Seq(PushCall) /\ answers \in Seq([call : PushCall])
  BY DEF PushTyped
<1>2. /\ RemoveAt(sent, i) \in Seq(PushCall)
      /\ \A j \in DOMAIN RemoveAt(sent, i) : \E k \in DOMAIN sent : RemoveAt(sent, i)[j] = sent[k]
  BY <1>1, Removal
<1>3. sent' = RemoveAt(sent, i)
  BY <1>2, ConcatEmptySeq
<1>4. Calls' = {sent'[j] : j \in DOMAIN sent'} \cup {answers[j].call : j \in DOMAIN answers}
  BY DEF Calls, Range
<1>5. \A j \in DOMAIN sent' : sent'[j] \in Calls
  BY <1>2, <1>3, UnderWayAre
<1>6. \A j \in DOMAIN answers : answers[j].call \in Calls
  BY UnderWayAre
<1> QED
  BY <1>1, <1>2, <1>3, <1>4, <1>5, <1>6

\* A call whose answer has come is no longer under way.
LEMMA AnsweredCalls ==
  ASSUME PushTyped, NEW i \in DOMAIN answers, sent' = sent \/ sent' = sent \o <<>>,
         answers' = RemoveAt(answers, i)
  PROVE  /\ sent' \in Seq(PushCall) /\ answers' \in Seq([call : PushCall]) /\ Calls' \subseteq Calls
         /\ sent' = sent /\ \A j \in DOMAIN answers' : \E k \in DOMAIN answers : answers'[j] = answers[k]
<1>1. sent \in Seq(PushCall) /\ answers \in Seq([call : PushCall])
  BY DEF PushTyped
<1>2. /\ answers' \in Seq([call : PushCall])
      /\ \A j \in DOMAIN answers' : \E k \in DOMAIN answers : answers'[j] = answers[k]
  BY <1>1, Removal
<1>3. sent' = sent
  BY <1>1, ConcatEmptySeq
<1>4. Calls' = {sent[j] : j \in DOMAIN sent} \cup {answers'[j].call : j \in DOMAIN answers'}
  BY <1>3 DEF Calls, Range
<1>5. \A j \in DOMAIN answers' : answers'[j].call \in Calls
  BY <1>2, UnderWayAre
<1>6. \A j \in DOMAIN sent : sent[j] \in Calls
  BY UnderWayAre
<1> QED
  BY <1>1, <1>2, <1>3, <1>4, <1>5, <1>6

\* What following the session and the setting sends.
LEMMA Following ==
  ASSUME PushTyped, NEW auth, NEW on \in BOOLEAN, Follow(auth, on),
         auth # Nobody => auth \in [user : PushUsers, nr : Nat],
         effective # Nobody => effective \in [user : PushUsers, nr : Nat]
  PROVE  /\ effective' = IF on THEN auth ELSE Nobody
         /\ synced' = IF ~(on /\ auth # Nobody) /\ effective # Nobody THEN NoKey ELSE synced
         /\ \/ /\ Send(<<>>) /\ trouble' = trouble
               /\ IF on /\ auth # Nobody THEN known = 0 \/ synced = SyncKey(auth, known)
                  ELSE effective = Nobody
            \/ /\ on /\ auth # Nobody /\ known # 0
               /\ Register(auth, known) \in PushCall /\ Send(<<Register(auth, known)>>)
               /\ trouble' = (trouble \/ Overlaps(<<Register(auth, known)>>))
            \/ /\ ~(on /\ auth # Nobody) /\ effective # Nobody
               /\ Unregister(effective) \in PushCall /\ Send(<<Unregister(effective)>>)
               /\ trouble' = (trouble \/ Overlaps(<<Unregister(effective)>>))
<1> DEFINE now == IF on THEN auth ELSE Nobody
           calls == IF now # Nobody THEN IF known # 0 THEN Sync(now, known) ELSE <<>>
                    ELSE IF effective # Nobody THEN <<Unregister(effective)>> ELSE <<>>
<1>1. /\ effective' = now
      /\ synced' = KeyAfter(now)
      /\ Send(calls) /\ trouble' = (trouble \/ Overlaps(calls))
  BY DEF Follow
<1>2. now # Nobody <=> on /\ auth # Nobody
  OBVIOUS
<1>3. synced' = IF ~(on /\ auth # Nobody) /\ effective # Nobody THEN NoKey ELSE synced
  BY <1>1, <1>2 DEF KeyAfter
<1>4. trouble \in BOOLEAN => (calls = <<>> => trouble' = trouble)
  BY <1>1 DEF Overlaps
<1>5. known \in Nat
  BY DEF PushTyped
<1>6. CASE on /\ auth # Nobody
  <2>1. now = auth
    BY <1>6
  <2>2. CASE known = 0 \/ synced = SyncKey(auth, known)
    <3>1. calls = <<>>
      BY <2>1, <2>2, <1>6 DEF Sync
    <3> QED
      BY <3>1, <2>2, <1>1, <1>3, <1>4, <1>6 DEF PushTyped
  <2>3. CASE ~(known = 0 \/ synced = SyncKey(auth, known))
    <3>1. calls = <<Register(auth, known)>>
      BY <2>1, <2>3, <1>6 DEF Sync
    <3>2. Register(auth, known) \in PushCall
      BY <1>5, <1>6 DEF Register, PushCall
    <3> QED
      BY <3>1, <3>2, <2>3, <1>1, <1>3, <1>6
  <2> QED
    BY <2>2, <2>3
<1>7. CASE ~(on /\ auth # Nobody)
  <2>1. now = Nobody
    BY <1>7
  <2>2. CASE effective = Nobody
    <3>1. calls = <<>>
      BY <2>1, <2>2
    <3> QED
      BY <3>1, <2>2, <1>1, <1>3, <1>4, <1>7 DEF PushTyped
  <2>3. CASE effective # Nobody
    <3>1. calls = <<Unregister(effective)>>
      BY <2>1, <2>3
    <3>2. Unregister(effective) \in PushCall
      BY <2>3 DEF Unregister, PushCall
    <3> QED
      BY <3>1, <3>2, <2>3, <1>1, <1>3, <1>7
  <2> QED
    BY <2>2, <2>3
<1> QED
  BY <1>6, <1>7

\* Whoever is signed in, and whoever the host component knows of, is a user in a past turn.
LEMMA SomebodyTyped ==
  ASSUME PushTyped, Followed
  PROVE  /\ session # Nobody => session \in [user : PushUsers, nr : Nat] /\ session.nr < turns
         /\ effective # Nobody => effective \in [user : PushUsers, nr : Nat] /\ effective.nr < turns
<1>1. turns \in Nat
  BY DEF PushTyped
<1>2. session # Nobody => session \in [user : PushUsers, nr : Nat] /\ session.nr < turns
  BY <1>1 DEF PushTyped, SignedIn
<1> QED
  BY <1>2 DEF Followed

\* What lies in the past stays there.
LEMMA PastLasts ==
  ASSUME PushTyped, turns' \in Nat, turns <= turns', fcm' \in Nat, fcm <= fcm'
  PROVE  /\ \A c \in Calls : c.auth.nr < turns' /\ c.fcm <= fcm'
         /\ synced.auth.nr < turns' /\ synced.fcm <= fcm'
<1>1. \A n \in Nat, f \in Nat : n < turns /\ f <= fcm => n < turns' /\ f <= fcm'
  BY DEF PushTyped
<1>2. \A c \in Calls : c.auth.nr \in Nat /\ c.fcm \in Nat
  BY UnderWayAre DEF PushCall
<1>3. synced.auth.nr \in Nat /\ synced.fcm \in Nat
  BY DEF PushTyped, NoKey, Nobody
<1>4. \A c \in Calls : c.auth.nr < turns /\ c.fcm <= fcm
  BY DEF PushTyped, Past
<1>5. synced.auth.nr < turns /\ synced.fcm <= fcm
  BY DEF PushTyped, Past
<1>6. \A c \in Calls : c.auth.nr < turns' /\ c.fcm <= fcm'
  BY <1>1, <1>2, <1>4
<1>7. synced.auth.nr < turns' /\ synced.fcm <= fcm'
  BY <1>1, <1>3, <1>5
<1> QED
  BY <1>6, <1>7

\* Calls and keys stay typed where the session and the setting are followed.
LEMMA FollowTyped ==
  ASSUME PushTyped, Followed, NEW auth, NEW on \in BOOLEAN, Follow(auth, on),
         auth # Nobody => auth \in [user : PushUsers, nr : Nat] /\ auth.nr < turns',
         turns' \in Nat, turns <= turns', fcm' = fcm
  PROVE  /\ sent' \in Seq(PushCall) /\ answers' \in Seq([call : PushCall])
         /\ \A c \in Calls' : Past(c.auth, c.fcm)'
         /\ synced' = NoKey \/ synced' \in [auth : [user : PushUsers, nr : Nat], fcm : Nat]
         /\ Past(synced.auth, synced.fcm)'
         /\ trouble' \in BOOLEAN
<1>1. /\ effective # Nobody => effective \in [user : PushUsers, nr : Nat] /\ effective.nr < turns
      /\ auth # Nobody => auth \in [user : PushUsers, nr : Nat]
  BY SomebodyTyped
<1>2. /\ \A c \in Calls : c.auth.nr < turns' /\ c.fcm <= fcm'
      /\ synced.auth.nr < turns' /\ synced.fcm <= fcm'
  <2>1. fcm' \in Nat /\ fcm <= fcm'
    BY DEF PushTyped
  <2> QED
    BY <2>1, PastLasts
<1>3. /\ answers \in Seq([call : PushCall]) /\ sent \in Seq(PushCall)
      /\ turns \in Nat \ {0} /\ fcm \in Nat \ {0} /\ known \in 0..fcm /\ trouble \in BOOLEAN
  BY DEF PushTyped
<1>4. /\ synced' = NoKey \/ synced' \in [auth : [user : PushUsers, nr : Nat], fcm : Nat]
      /\ Past(synced.auth, synced.fcm)'
  <2>1. synced' = synced \/ synced' = NoKey
    BY <1>1, Following
  <2>2. CASE synced' = synced
    BY <2>2, <1>2 DEF PushTyped, Past
  <2>3. CASE synced' = NoKey
    BY <2>3, <1>3 DEF Past, NoKey, Nobody
  <2> QED
    BY <2>1, <2>2, <2>3
<1>5. CASE Send(<<>>) /\ trouble' = trouble
  <2>1. sent' = sent /\ answers' = answers /\ Calls' = Calls
    BY <1>5, NothingSent
  <2>2. \A c \in Calls' : Past(c.auth, c.fcm)'
    BY <2>1, <1>2 DEF Past
  <2> QED
    BY <2>1, <2>2, <1>3, <1>4, <1>5
<1>6. ASSUME NEW c \in PushCall, Send(<<c>>), c.auth.nr < turns', c.fcm <= fcm
      PROVE  /\ sent' \in Seq(PushCall) /\ answers' \in Seq([call : PushCall])
             /\ \A d \in Calls' : Past(d.auth, d.fcm)'
  <2>1. \A d \in Calls \cup {c} : d.auth.nr < turns' /\ d.fcm <= fcm'
    BY <1>2, <1>6
  <2> QED
    BY <1>3, <1>6, <2>1, OneSent DEF Past
<1>7. ASSUME NEW calls, trouble' = (trouble \/ Overlaps(calls))
      PROVE  trouble' \in BOOLEAN
  BY <1>7
<1>8. CASE /\ auth # Nobody /\ Register(auth, known) \in PushCall /\ Send(<<Register(auth, known)>>)
           /\ trouble' = (trouble \/ Overlaps(<<Register(auth, known)>>))
  <2>1. Register(auth, known).auth.nr < turns' /\ Register(auth, known).fcm <= fcm
    BY <1>3, <1>8 DEF Register
  <2> QED
    BY <2>1, <1>4, <1>6, <1>7, <1>8
<1>9. CASE /\ effective # Nobody /\ Unregister(effective) \in PushCall
           /\ Send(<<Unregister(effective)>>)
           /\ trouble' = (trouble \/ Overlaps(<<Unregister(effective)>>))
  <2>1. Unregister(effective).auth.nr < turns' /\ Unregister(effective).fcm <= fcm
    <3>1. effective.nr < turns' /\ 0 <= fcm
      BY <1>1, <1>3, <1>9
    <3> QED
      BY <3>1 DEF Unregister
  <2> QED
    BY <2>1, <1>4, <1>6, <1>7, <1>9
<1> QED
  BY <1>1, <1>5, <1>8, <1>9, Following

\* Every step keeps the types.
LEMMA PushTypedStep == PushTyped /\ Followed /\ PushNext => PushTyped'
<1> SUFFICES ASSUME PushTyped, Followed, PushNext PROVE PushTyped'
  OBVIOUS
<1>1. /\ turns \in Nat \ {0} /\ turns + 1 \in Nat \ {0} /\ turns <= turns + 1 /\ turns <= turns
      /\ fcm \in Nat \ {0} /\ known \in 0..fcm /\ trouble \in BOOLEAN
      /\ device \in [PushUsers -> Nat] /\ device \in [PushUsers -> Nat]
      /\ setting.shown \in BOOLEAN /\ enabled \in BOOLEAN
  BY DEF PushTyped, Followed
<1>2. /\ session # Nobody => session \in [user : PushUsers, nr : Nat] /\ session.nr < turns
      /\ effective # Nobody => effective \in [user : PushUsers, nr : Nat] /\ effective.nr < turns
  BY SomebodyTyped
<1>3. ASSUME NEW auth, NEW on \in BOOLEAN, Follow(auth, on), session' = auth,
             turns' = turns + 1 \/ turns' = turns, UNCHANGED <<device, fcm, known>>,
             auth # Nobody => auth \in [user : PushUsers, nr : Nat] /\ auth.nr \in 1..(turns' - 1)
      PROVE  PushTyped'
  <2>1. turns' \in Nat \ {0} /\ turns <= turns'
    BY <1>1, <1>3
  <2>2. auth # Nobody => auth.nr < turns' /\ auth \in [user : PushUsers, nr : 1..(turns' - 1)]
    BY <2>1, <1>3
  <2>3. /\ sent' \in Seq(PushCall) /\ answers' \in Seq([call : PushCall])
        /\ \A c \in Calls' : Past(c.auth, c.fcm)'
        /\ synced' = NoKey \/ synced' \in [auth : [user : PushUsers, nr : Nat], fcm : Nat]
        /\ Past(synced.auth, synced.fcm)' /\ trouble' \in BOOLEAN
    BY <1>3, <2>1, <2>2, FollowTyped
  <2>4. SignedIn' => session'.user \in PushUsers /\ session' \in [user : PushUsers, nr : 1..(turns' - 1)]
    BY <2>2, <1>3 DEF SignedIn
  <2> QED
    BY <1>1, <1>3, <2>1, <2>3, <2>4 DEF PushTyped
<1>4. CASE SignIn
  <2>1. PICK s \in Users : session' = s /\ Follow(s, enabled)
    BY <1>4 DEF SignIn
  <2>2. s \in [user : PushUsers, nr : Nat] /\ s.nr \in 1..((turns + 1) - 1)
    BY <1>1 DEF Users
  <2>3. turns' = turns + 1 /\ UNCHANGED <<device, fcm, known>>
    BY <1>4 DEF SignIn, Turn
  <2> QED
    BY <1>1, <1>3, <2>1, <2>2, <2>3
<1>5. CASE SignOut
  <2>1. /\ Follow(Nobody, enabled) /\ session' = Nobody /\ turns' = turns + 1
        /\ UNCHANGED <<device, fcm, known>>
    BY <1>5 DEF SignOut, Turn
  <2> QED
    BY <1>1, <1>3, <2>1
<1>6. CASE RenewAccess
  <2>1. /\ Follow(session', enabled) /\ turns' = turns + 1 /\ UNCHANGED <<device, fcm, known>>
        /\ session # Nobody /\ session' = [session EXCEPT !.nr = turns]
    BY <1>6 DEF RenewAccess, Turn, SignedIn
  <2>2. session' \in [user : PushUsers, nr : Nat] /\ session'.nr \in 1..((turns + 1) - 1)
    BY <1>1, <1>2, <2>1
  <2> QED
    BY <1>1, <1>3, <2>1, <2>2
<1>7. CASE SettingStored
  <2>1. /\ Follow(session, setting.shown) /\ session' = session /\ turns' = turns
        /\ UNCHANGED <<device, fcm, known>>
    BY <1>7 DEF SettingStored
  <2>2. session # Nobody => session.nr \in 1..(turns - 1)
    BY DEF PushTyped, SignedIn
  <2> QED
    BY <1>1, <1>2, <1>3, <2>1, <2>2
<1>8. ASSUME UNCHANGED <<sent, answers, device, session, trouble>>, turns' = turns + 1 \/ turns' = turns,
             fcm' = fcm \/ fcm' = fcm + 1, known' \in 0..fcm', synced' = synced \/ synced' = NoKey
      PROVE  PushTyped'
  <2>1. turns' \in Nat \ {0} /\ turns <= turns' /\ fcm' \in Nat \ {0} /\ fcm <= fcm'
    BY <1>1, <1>8
  <2>2. Calls' = Calls
    BY <1>8 DEF Calls
  <2>3. \A c \in Calls' : Past(c.auth, c.fcm)'
    BY <2>1, <2>2, PastLasts DEF Past
  <2>4. Past(synced.auth, synced.fcm)'
    BY <1>8, <2>1, PastLasts DEF Past, NoKey, Nobody
  <2>5. SignedIn' => session'.user \in PushUsers /\ session' \in [user : PushUsers, nr : 1..(turns' - 1)]
    <3>1. \A s : s \in [user : PushUsers, nr : 1..(turns - 1)] =>
                   s \in [user : PushUsers, nr : 1..(turns' - 1)]
      BY <1>1, <2>1
    <3> QED
      BY <3>1, <1>8 DEF PushTyped, SignedIn
  <2> QED
    BY <1>8, <2>1, <2>3, <2>4, <2>5 DEF PushTyped
<1>9. CASE Switch \/ SettingFails \/ Restart \/ NewToken
  <2>1. UNCHANGED <<sent, answers, device, session, trouble>>
    BY <1>9 DEF Switch, SettingFails, Restart, NewToken, exchange
  <2>2. fcm' = fcm \/ fcm' = fcm + 1
    BY <1>9 DEF Switch, SettingFails, Restart, NewToken
  <2>3. known' \in 0..fcm'
    BY <1>1, <1>9, <2>2 DEF Switch, SettingFails, Restart, NewToken
  <2>4. turns' = turns + 1 \/ turns' = turns
    BY <1>9 DEF Switch, SettingFails, Restart, NewToken, Turn
  <2>5. synced' = synced \/ synced' = NoKey
    BY <1>9 DEF Switch, SettingFails, Restart, NewToken
  <2> QED
    BY <1>8, <2>1, <2>2, <2>3, <2>4, <2>5
<1>10. CASE TokenArrives
  <2>1. /\ UNCHANGED <<device, session, fcm, synced, turns>> /\ known' = fcm
        /\ Send(IF SignedIn THEN Sync(session, fcm) ELSE <<>>)
        /\ trouble' = (trouble \/ Overlaps(IF SignedIn THEN Sync(session, fcm) ELSE <<>>))
    BY <1>10 DEF TokenArrives
  <2>2. trouble' \in BOOLEAN
    BY <2>1
  <2>3. /\ sent' \in Seq(PushCall) /\ answers' \in Seq([call : PushCall])
        /\ \A c \in Calls' : c.auth.nr < turns /\ c.fcm <= fcm
    <3>1. \A c \in Calls : c.auth.nr < turns /\ c.fcm <= fcm
      BY DEF PushTyped, Past
    <3>2. CASE Send(<<>>)
      BY <3>1, <3>2, NothingSent DEF PushTyped
    <3>3. CASE SignedIn /\ Send(<<Register(session, fcm)>>)
      <4>1. /\ Register(session, fcm) \in PushCall
            /\ Register(session, fcm).auth.nr < turns /\ Register(session, fcm).fcm <= fcm
        BY <1>1, <1>2, <3>3 DEF Register, PushCall, SignedIn
      <4> QED
        BY <3>1, <3>3, <4>1, OneSent DEF PushTyped
    <3> QED
      BY <2>1, <3>2, <3>3 DEF Sync
  <2>4. \A c \in Calls' : Past(c.auth, c.fcm)'
    BY <2>1, <2>3 DEF Past
  <2>5. Past(synced.auth, synced.fcm)'
    BY <2>1 DEF PushTyped, Past
  <2> QED
    BY <1>1, <2>1, <2>2, <2>3, <2>4, <2>5 DEF PushTyped, SignedIn
<1>11. ASSUME NEW i \in DOMAIN sent, PushExecute(i)
       PROVE  PushTyped'
  <2>1. /\ UNCHANGED <<session, fcm, known, synced, turns, trouble>>
        /\ sent' = RemoveAt(sent, i) /\ answers' = Append(answers, [call |-> sent[i]])
    BY <1>11 DEF PushExecute, Executed
  <2>2. sent[i] \in PushCall /\ sent[i] \in Calls
    BY UnderWayAre DEF PushTyped
  <2>3. device' \in [PushUsers -> Nat]
    <3>1. sent[i].auth.user \in PushUsers /\ sent[i].fcm \in Nat
      BY <2>2 DEF PushCall
    <3>2. Upserted(sent[i].auth.user, sent[i].fcm) \in [PushUsers -> Nat]
      BY <1>1, <3>1 DEF Upserted
    <3>3. [device EXCEPT ![sent[i].auth.user] = 0] \in [PushUsers -> Nat]
      BY <1>1, <3>1
    <3> QED
      BY <1>11, <3>2, <3>3 DEF PushExecute
  <2>4. sent' \in Seq(PushCall) /\ answers' \in Seq([call : PushCall]) /\ Calls' \subseteq Calls
    BY <2>1, ExecutedCalls
  <2>5. \A c \in Calls' : Past(c.auth, c.fcm)'
    BY <2>1, <2>4 DEF PushTyped, Past
  <2>6. Past(synced.auth, synced.fcm)'
    BY <2>1 DEF PushTyped, Past
  <2> QED
    BY <2>1, <2>3, <2>4, <2>5, <2>6 DEF PushTyped, SignedIn
<1>12. ASSUME sent' \in Seq(PushCall), answers' \in Seq([call : PushCall]), Calls' \subseteq Calls,
              UNCHANGED <<device, session, fcm, known, turns>>, trouble' \in BOOLEAN,
              \/ synced' = synced
              \/ \E c \in Calls : synced' = SyncKey(c.auth, c.fcm)
       PROVE  PushTyped'
  <2>1. \A c \in Calls' : Past(c.auth, c.fcm)'
    BY <1>12 DEF PushTyped, Past
  <2>2. /\ synced' = NoKey \/ synced' \in [auth : [user : PushUsers, nr : Nat], fcm : Nat]
        /\ Past(synced.auth, synced.fcm)'
    <3>1. CASE synced' = synced
      BY <3>1, <1>12 DEF PushTyped, Past
    <3>2. ASSUME NEW c \in Calls, synced' = SyncKey(c.auth, c.fcm)
          PROVE  /\ synced' \in [auth : [user : PushUsers, nr : Nat], fcm : Nat]
                 /\ Past(synced.auth, synced.fcm)'
      <4>1. c \in PushCall /\ c.auth.nr < turns /\ c.fcm <= fcm
        BY UnderWayAre DEF PushTyped, Past
      <4> QED
        BY <1>12, <3>2, <4>1 DEF SyncKey, PushCall, Past
    <3> QED
      BY <1>12, <3>1, <3>2
  <2> QED
    BY <1>1, <1>12, <2>1, <2>2 DEF PushTyped, SignedIn
<1>13. ASSUME NEW i \in DOMAIN sent, PushCallLost(i)
       PROVE  PushTyped'
  <2>1. /\ sent' = RemoveAt(sent, i) \o <<>> /\ answers' = answers
        /\ trouble' = TRUE /\ UNCHANGED <<device, session, fcm, known, turns, synced>>
    BY <1>13 DEF PushCallLost, LoseCall, Swallowed
  <2>2. sent' \in Seq(PushCall) /\ answers' \in Seq([call : PushCall]) /\ Calls' \subseteq Calls
    BY <2>1, LostCalls
  <2> QED
    BY <1>12, <2>1, <2>2
<1>14. ASSUME NEW i \in DOMAIN answers, PushAnswer(i) \/ PushAnswerLost(i)
       PROVE  PushTyped'
  <2>1. /\ sent' = sent \/ sent' = sent \o <<>>
        /\ answers' = RemoveAt(answers, i)
        /\ UNCHANGED <<device, session, fcm, known, turns>>
        /\ trouble' = trouble \/ trouble' = TRUE
    BY <1>14 DEF PushAnswer, PushAnswerLost, Received, LoseAnswer, Swallowed
  <2>2. sent' \in Seq(PushCall) /\ answers' \in Seq([call : PushCall]) /\ Calls' \subseteq Calls
    BY <2>1, AnsweredCalls
  <2>3. answers[i].call \in Calls
    BY UnderWayAre
  <2>4. synced' = synced \/ synced' = SyncKey(answers[i].call.auth, answers[i].call.fcm)
    BY <1>14 DEF PushAnswer, PushAnswerLost, Swallowed
  <2> QED
    BY <1>1, <1>12, <2>1, <2>2, <2>3, <2>4
<1> QED
  BY <1>4, <1>5, <1>6, <1>7, <1>9, <1>10, <1>11, <1>13, <1>14 DEF PushNext

\* Every step keeps the host component in step with the setting.
LEMMA FollowedStep == PushTyped /\ Followed /\ PushNext => Followed'
<1> SUFFICES ASSUME PushTyped, Followed, PushNext PROVE Followed'
  OBVIOUS
<1>1. /\ setting \in [stored : BOOLEAN, shown : BOOLEAN, saving : BOOLEAN] /\ asking \in BOOLEAN
      /\ setting.saving <=> setting.shown # setting.stored
      /\ enabled = setting.stored /\ effective = IF enabled THEN session ELSE Nobody
      /\ asking => enabled
      /\ enabled /\ ~asking => known = fcm
      /\ fcm # 0
  BY DEF Followed, PushTyped
<1>2. ASSUME NEW auth, NEW on, Follow(auth, on)
      PROVE  effective' = IF on THEN auth ELSE Nobody
  BY <1>2 DEF Follow
<1>3. CASE SignIn \/ SignOut \/ RenewAccess
  <2>1. UNCHANGED <<setting, enabled, fcm, known, asking>> /\ Follow(session', enabled)
    BY <1>3 DEF SignIn, SignOut, RenewAccess
  <2> QED
    BY <1>1, <1>2, <2>1 DEF Followed
<1>4. CASE Switch
  <2>1. /\ setting' = [setting EXCEPT !.shown = ~setting.shown, !.saving = TRUE] /\ ~setting.saving
        /\ UNCHANGED <<session, enabled, effective, fcm, known, asking>>
    BY <1>4 DEF Switch
  <2>2. /\ setting' \in [stored : BOOLEAN, shown : BOOLEAN, saving : BOOLEAN]
        /\ setting'.shown = (~setting.shown) /\ setting'.saving = TRUE
        /\ setting'.stored = setting.stored
    BY <1>1, <2>1
  <2>3. setting'.saving <=> setting'.shown # setting'.stored
    BY <1>1, <2>1, <2>2
  <2> QED
    BY <1>1, <2>1, <2>2, <2>3 DEF Followed
<1>5. CASE SettingStored
  <2>1. /\ setting' = [setting EXCEPT !.stored = setting.shown, !.saving = FALSE]
        /\ enabled' = setting.shown /\ asking' = setting.shown /\ Follow(session, setting.shown)
        /\ UNCHANGED <<session, fcm, known>>
    BY <1>5 DEF SettingStored
  <2>2. /\ setting' \in [stored : BOOLEAN, shown : BOOLEAN, saving : BOOLEAN]
        /\ setting'.shown = setting.shown /\ setting'.saving = FALSE
        /\ setting'.stored = setting.shown
    BY <1>1, <2>1
  <2> QED
    BY <1>1, <1>2, <2>1, <2>2 DEF Followed
<1>6. CASE SettingFails
  <2>1. /\ setting' = [setting EXCEPT !.shown = setting.stored, !.saving = FALSE]
        /\ UNCHANGED <<session, enabled, effective, fcm, known, asking>>
    BY <1>6 DEF SettingFails
  <2>2. /\ setting' \in [stored : BOOLEAN, shown : BOOLEAN, saving : BOOLEAN]
        /\ setting'.shown = setting.stored /\ setting'.saving = FALSE
        /\ setting'.stored = setting.stored
    BY <1>1, <2>1
  <2> QED
    BY <1>1, <2>1, <2>2 DEF Followed
<1>7. CASE Restart
  <2>1. /\ setting' = [setting EXCEPT !.shown = setting.stored, !.saving = FALSE]
        /\ enabled' = setting.stored /\ asking' = setting.stored
        /\ effective' = IF setting.stored THEN session ELSE Nobody
        /\ UNCHANGED <<session, fcm>>
    BY <1>7 DEF Restart
  <2>2. /\ setting' \in [stored : BOOLEAN, shown : BOOLEAN, saving : BOOLEAN]
        /\ setting'.shown = setting.stored /\ setting'.saving = FALSE
        /\ setting'.stored = setting.stored
    BY <1>1, <2>1
  <2> QED
    BY <1>1, <2>1, <2>2 DEF Followed
<1>8. CASE NewToken
  <2>1. /\ asking' = (asking \/ (enabled /\ known # 0))
        /\ UNCHANGED <<session, setting, enabled, effective, known>>
    BY <1>8 DEF NewToken
  <2>2. asking' \in BOOLEAN /\ (asking' => enabled) /\ ~(enabled /\ ~asking')
    BY <1>1, <2>1
  <2> QED
    BY <1>1, <2>1, <2>2 DEF Followed
<1>9. CASE TokenArrives
  <2>1. /\ asking' = FALSE /\ known' = fcm
        /\ UNCHANGED <<session, setting, enabled, effective, fcm>>
    BY <1>9 DEF TokenArrives
  <2> QED
    BY <1>1, <2>1 DEF Followed
<1>10. CASE \/ \E i \in DOMAIN sent : PushExecute(i) \/ PushCallLost(i)
            \/ \E i \in DOMAIN answers : PushAnswer(i) \/ PushAnswerLost(i)
  <2>1. UNCHANGED <<session, setting, enabled, effective, fcm, known, asking>>
    BY <1>10 DEF PushExecute, PushCallLost, PushAnswer, PushAnswerLost, Swallowed
  <2> QED
    BY <1>1, <2>1 DEF Followed
<1> QED
  BY <1>3, <1>4, <1>5, <1>6, <1>7, <1>8, <1>9, <1>10 DEF PushNext

\* What is due stays due as long as there is no trouble.
LEMMA DueStep == PushTyped /\ Followed /\ Due /\ PushNext => Due'
<1> SUFFICES ASSUME PushTyped, Followed, Due, PushNext, ~trouble' PROVE Due'
  BY DEF Due
<1>1. /\ enabled \in BOOLEAN /\ asking \in BOOLEAN /\ trouble \in BOOLEAN /\ turns \in Nat
      /\ effective = IF enabled THEN session ELSE Nobody
      /\ setting.shown \in BOOLEAN /\ (setting.saving => setting.shown = (~enabled))
      /\ asking => enabled
      /\ enabled /\ ~asking => known = fcm
      /\ fcm # 0 /\ (SignedIn <=> session # Nobody)
  BY DEF Followed, PushTyped, SignedIn
<1>2. /\ session # Nobody => session \in [user : PushUsers, nr : Nat] /\ session.nr < turns
      /\ effective # Nobody => effective \in [user : PushUsers, nr : Nat] /\ effective.nr < turns
      /\ synced.auth.nr < turns /\ \A c \in Calls : c.auth.nr < turns
  BY SomebodyTyped DEF PushTyped, Past
<1>3. ~trouble
  BY <1>1 DEF PushNext, SignIn, SignOut, RenewAccess, Switch, SettingStored, SettingFails, Restart,
              NewToken, TokenArrives, PushExecute, PushCallLost, PushAnswer, PushAnswerLost,
              Swallowed, Follow
<1>4. /\ \A c, d \in Calls : c = d
      /\ \A c \in Calls : c.op = "register" => enabled /\ session # Nobody
      /\ \A i \in DOMAIN answers, v \in PushUsers : Made(answers[i].call, v, device[v]) = device[v]
      /\ \A v \in PushUsers : (enabled /\ session # Nobody /\ session.user = v) \/ Becomes(v, 0)
      /\ enabled /\ session # Nobody /\ ~asking => Becomes(session.user, fcm)
      /\ session # Nobody /\ synced = SyncKey(session, fcm) => Becomes(session.user, fcm)
      /\ session # Nobody /\ synced.auth = session => enabled
  BY <1>3 DEF Due, SignedIn
(* A step that sends nothing and leaves the server alone.                  *)
<1>5. ASSUME Send(<<>>), device' = device,
             \A c \in Calls : c.op = "register" => enabled' /\ session' # Nobody,
             \A v \in PushUsers : (enabled' /\ session' # Nobody /\ session'.user = v) \/ Becomes(v, 0),
             enabled' /\ session' # Nobody /\ ~asking' => Becomes(session'.user, fcm'),
             session' # Nobody /\ synced' = SyncKey(session', fcm') => Becomes(session'.user, fcm'),
             session' # Nobody /\ synced'.auth = session' => enabled'
      PROVE  Due'
  <2>1. sent' = sent /\ answers' = answers /\ Calls' = Calls
    BY <1>5, NothingSent
  <2>2. \A v, f : Becomes(v, f)' <=> Becomes(v, f)
    BY <1>5, <2>1 DEF Becomes
  <2>3. SyncKey(session, fcm)' = SyncKey(session', fcm') /\ (SignedIn' <=> session' # Nobody)
    BY DEF SyncKey, SignedIn, Nobody
  <2> QED
    BY <1>4, <1>5, <2>1, <2>2, <2>3 DEF Due
(* A step that registers the user of the session it leaves.                *)
<1>6. ASSUME NEW auth, NEW f, Register(auth, f) \in PushCall, Send(<<Register(auth, f)>>),
             ~Overlaps(<<Register(auth, f)>>), device' = device,
             enabled' = TRUE, session' = auth, auth # Nobody,
             enabled /\ session # Nobody => session.user = auth.user,
             ~asking' => f = fcm',
             synced' = SyncKey(auth, fcm') => f = fcm'
      PROVE  Due'
  <2> DEFINE c == Register(auth, f)
  <2>1. c.auth = auth /\ c.op = "register" /\ c.fcm = f
    BY DEF Register
  <2> HIDE DEF c
  <2>2. /\ \A d \in Calls' : d = c
        /\ \A i \in DOMAIN answers', v \in PushUsers :
             Made(answers'[i].call, v, device'[v]) = device'[v]
        /\ \A v \in PushUsers : v # c.auth.user /\ Becomes(v, 0) => Becomes(v, 0)'
        /\ Becomes(c.auth.user, IF c.op = "register" THEN c.fcm ELSE 0)'
    BY <1>3, <1>6, AloneSent DEF c
  <2>3. Becomes(auth.user, f)'
    BY <2>1, <2>2
  <2>4. \A v \in PushUsers : v = auth.user \/ Becomes(v, 0)'
    BY <1>4, <1>6, <2>1, <2>2
  <2>5. SyncKey(session, fcm)' = SyncKey(auth, fcm') /\ (SignedIn' <=> auth # Nobody)
    BY <1>6 DEF SyncKey, SignedIn, Nobody
  <2> QED
    BY <1>6, <2>1, <2>2, <2>3, <2>4, <2>5 DEF Due
(* A step that takes the token of the user who was known away.             *)
<1>7. ASSUME NEW was, was = effective,
             Unregister(was) \in PushCall, Send(<<Unregister(was)>>),
             ~Overlaps(<<Unregister(was)>>), device' = device, was # Nobody,
             ~(enabled' /\ session' # Nobody), synced' = NoKey
      PROVE  Due'
  <2> DEFINE c == Unregister(was)
  <2>1. c.auth = was /\ c.op = "unregister" /\ was = session
    BY <1>1, <1>7 DEF Unregister
  <2>2. c \in PushCall /\ Send(<<c>>) /\ ~Overlaps(<<c>>) /\ device' = device
    BY <1>7
  <2> HIDE DEF c
  <2>3. /\ \A d \in Calls' : d = c
        /\ \A i \in DOMAIN answers', v \in PushUsers :
             Made(answers'[i].call, v, device'[v]) = device'[v]
        /\ \A v \in PushUsers : v # c.auth.user /\ Becomes(v, 0) => Becomes(v, 0)'
        /\ Becomes(c.auth.user, IF c.op = "register" THEN c.fcm ELSE 0)'
    BY <1>3, <2>2, AloneSent
  <2>4. Becomes(was.user, 0)'
    BY <2>1, <2>3
  <2>5. \A v \in PushUsers : Becomes(v, 0)'
    BY <1>4, <2>1, <2>3, <2>4
  <2>6. NoKey.auth = Nobody /\ (SignedIn' <=> session' # Nobody)
    BY DEF NoKey, SignedIn, Nobody
  <2>7. \A s, f : SyncKey(s, f).auth = s
    BY DEF SyncKey
  <2>8. session' # Nobody => synced' # SyncKey(session, fcm)'
    BY <1>7, <2>6, <2>7 DEF SyncKey
  <2> QED
    BY <1>7, <2>1, <2>3, <2>5, <2>6, <2>8 DEF Due
<1>8. CASE SignIn \/ RenewAccess
  <2>1. PICK s : /\ session' = s /\ Follow(s, enabled) /\ s.nr = turns /\ s.user \in PushUsers
                 /\ s \in [user : PushUsers, nr : Nat]
                 /\ session # Nobody => session.user = s.user
    <3>1. CASE SignIn
      BY <3>1, <1>1 DEF SignIn, Users
    <3>2. CASE RenewAccess
      <4>1. /\ session' = [session EXCEPT !.nr = turns] /\ session # Nobody
            /\ Follow(session', enabled)
        BY <3>2 DEF RenewAccess, SignedIn
      <4>2. /\ session'.nr = turns /\ session'.user = session.user
            /\ session' \in [user : PushUsers, nr : Nat]
        BY <1>1, <1>2, <4>1
      <4> QED
        BY <4>1, <4>2
    <3> QED
      BY <1>8, <3>1, <3>2
  <2>2. UNCHANGED <<device, enabled, fcm, known, asking>>
    BY <1>8 DEF SignIn, RenewAccess
  <2>3. s # Nobody /\ synced.auth # s /\ NoKey.auth # s
    <3>1. turns # 0
      BY DEF PushTyped
    <3> QED
      BY <3>1, <1>2, <2>1 DEF Nobody, NoKey
  <2>4. \A f : SyncKey(s, f).auth = s
    BY DEF SyncKey
  <2>5. synced' # SyncKey(s, fcm') /\ synced'.auth # s
    BY <1>1, <1>2, <2>1, <2>3, <2>4, Following
  <2>6. CASE Send(<<>>) /\ IF enabled THEN known = 0 \/ synced = SyncKey(s, known) ELSE effective = Nobody
    <3>1. enabled => known = 0
      BY <2>3, <2>4, <2>6
    <3>2. enabled => asking
      BY <1>1, <3>1
    <3>3. \A v \in PushUsers : (enabled' /\ session' # Nobody /\ session'.user = v) \/ Becomes(v, 0)
      BY <1>4, <2>1, <2>2, <2>3
    <3> QED
      BY <1>4, <1>5, <2>1, <2>2, <2>3, <2>5, <2>6, <3>2, <3>3
  <2>7. CASE /\ enabled /\ known # 0 /\ Register(s, known) \in PushCall /\ Send(<<Register(s, known)>>)
             /\ trouble' = (trouble \/ Overlaps(<<Register(s, known)>>))
    <3>1. ~asking' => known = fcm'
      BY <1>1, <2>2, <2>7
    <3> QED
      BY <1>1, <1>6, <2>1, <2>2, <2>3, <2>5, <2>7, <3>1
  <2>8. CASE ~enabled /\ effective # Nobody
    BY <1>1, <2>8
  <2> QED
    BY <1>1, <1>2, <2>1, <2>3, <2>6, <2>7, <2>8, Following
<1>9. CASE SignOut
  <2>1. /\ session' = Nobody /\ Follow(Nobody, enabled)
        /\ UNCHANGED <<device, enabled, fcm, known, asking>>
    BY <1>9 DEF SignOut
  <2>2. CASE Send(<<>>) /\ effective = Nobody
    <3>1. \A v \in PushUsers : Becomes(v, 0)
      BY <1>1, <1>4, <1>9, <2>2 DEF SignOut
    <3>2. \A c \in Calls : c.op # "register"
      BY <1>1, <1>4, <1>9, <2>2 DEF SignOut
    <3> QED
      BY <1>5, <2>1, <2>2, <3>1, <3>2
  <2>3. CASE /\ effective # Nobody /\ Unregister(effective) \in PushCall
             /\ Send(<<Unregister(effective)>>)
             /\ trouble' = (trouble \/ Overlaps(<<Unregister(effective)>>))
    <3>1. synced' = NoKey
      BY <1>1, <1>2, <2>1, <2>3, Following
    <3> QED
      BY <1>7, <2>1, <2>3, <3>1
  <2> QED
    BY <1>1, <1>2, <2>1, <2>2, <2>3, Following
<1>10. CASE SettingStored
  <2>1. PICK on \in BOOLEAN : on = setting.shown /\ on = (~enabled)
    BY <1>1, <1>10 DEF SettingStored
  <2>2. /\ Follow(session, on) /\ enabled' = on /\ asking' = on
        /\ UNCHANGED <<device, session, fcm, known>>
    BY <1>10, <2>1 DEF SettingStored
  <2>3. CASE on /\ session # Nobody
    <3>1. synced.auth # session /\ synced' = synced
      BY <1>1, <1>2, <1>4, <2>1, <2>2, <2>3, Following
    <3>2. PICK s : s = session
      OBVIOUS
    <3>3. \A f : SyncKey(s, f).auth = s
      BY DEF SyncKey
    <3>4. synced # SyncKey(s, known) /\ synced' # SyncKey(s, fcm')
      BY <3>1, <3>2, <3>3
    <3>5. CASE Send(<<>>)
      <4>1. \A c \in Calls : c.op = "register" => enabled' /\ session' # Nobody
        BY <2>2, <2>3
      <4>2. \A v \in PushUsers : (enabled' /\ session' # Nobody /\ session'.user = v) \/ Becomes(v, 0)
        BY <1>4, <2>1, <2>3
      <4>3. session' # Nobody /\ synced' = SyncKey(session', fcm') => Becomes(session'.user, fcm')
        BY <2>2, <3>2, <3>4
      <4> QED
        BY <1>5, <2>2, <2>3, <3>5, <4>1, <4>2, <4>3
    <3>6. CASE /\ Register(session, known) \in PushCall /\ Send(<<Register(session, known)>>)
               /\ trouble' = (trouble \/ Overlaps(<<Register(session, known)>>))
      <4>1. Register(s, known) \in PushCall /\ Send(<<Register(s, known)>>)
        BY <3>2, <3>6
      <4>2. ~Overlaps(<<Register(s, known)>>)
        BY <3>2, <3>6
      <4> QED
        BY <1>6, <2>1, <2>2, <2>3, <3>2, <3>4, <4>1, <4>2
    <3> QED
      BY <1>2, <2>2, <2>3, <3>5, <3>6, Following
  <2>4. CASE ~(on /\ session # Nobody)
    <3>1. CASE Send(<<>>) /\ effective = Nobody
      <4>1. session = Nobody \/ ~enabled
        BY <1>1, <3>1
      <4>2. session = Nobody
        BY <2>1, <2>4, <4>1
      <4>3. /\ \A v \in PushUsers : Becomes(v, 0)
            /\ \A c \in Calls : c.op # "register"
        BY <1>4, <4>2
      <4> QED
        BY <1>5, <2>2, <3>1, <4>2, <4>3
    <3>2. CASE /\ effective # Nobody /\ Unregister(effective) \in PushCall
               /\ Send(<<Unregister(effective)>>)
               /\ trouble' = (trouble \/ Overlaps(<<Unregister(effective)>>))
      <4>1. synced' = NoKey
        BY <1>2, <2>2, <2>4, <3>2, Following
      <4> QED
        BY <1>7, <2>2, <2>4, <3>2, <4>1
    <3> QED
      BY <1>2, <2>2, <2>4, <3>1, <3>2, Following
  <2> QED
    BY <2>3, <2>4
<1>11. CASE Switch \/ SettingFails
  <2>1. /\ UNCHANGED <<device, session, enabled, fcm, synced, asking, sent, answers>>
    BY <1>11 DEF Switch, SettingFails, exchange
  <2> QED
    BY <1>3, <2>1 DEF Due, Calls, Becomes, SignedIn, SyncKey
<1>12. CASE Restart
  <2>1. /\ sent = <<>> /\ UNCHANGED <<device, session, sent, answers>> /\ synced' = NoKey
        /\ enabled' = setting.stored /\ asking' = setting.stored
    BY <1>12 DEF Restart, Quiet, exchange
  <2>2. enabled' = enabled /\ (asking' <=> enabled)
    BY <2>1 DEF Followed
  <2>3. /\ Calls' = Calls /\ \A v, f : Becomes(v, f)' <=> Becomes(v, f)
    BY <2>1 DEF Calls, Becomes
  <2>4. NoKey.auth = Nobody /\ \A s, f : SyncKey(s, f).auth = s
    BY DEF NoKey, SyncKey
  <2>5. session # Nobody => synced' # SyncKey(session, fcm)'
    BY <2>1, <2>4 DEF SyncKey
  <2>6. SignedIn' <=> session # Nobody
    BY <2>1 DEF SignedIn
  <2> QED
    BY <1>4, <2>1, <2>2, <2>3, <2>4, <2>5, <2>6 DEF Due
<1>13. CASE NewToken
  <2>1. /\ fcm' = fcm + 1 /\ asking' = (asking \/ (enabled /\ known # 0))
        /\ UNCHANGED <<device, session, enabled, synced, sent, answers>>
    BY <1>13 DEF NewToken, exchange
  <2>2. /\ Calls' = Calls /\ \A v, f : Becomes(v, f)' <=> Becomes(v, f)
    BY <2>1 DEF Calls, Becomes
  <2>3. enabled => asking'
    BY <1>1, <2>1
  <2>4. SyncKey(session, fcm)'.fcm = fcm + 1 /\ synced'.fcm # fcm + 1
    <3>1. synced.fcm <= fcm /\ synced.fcm \in Nat /\ fcm \in Nat
      BY DEF PushTyped, Past, NoKey
    <3> QED
      BY <2>1, <3>1 DEF SyncKey
  <2>5. SignedIn' <=> session # Nobody
    BY <2>1 DEF SignedIn
  <2> QED
    BY <1>4, <2>1, <2>2, <2>3, <2>4, <2>5 DEF Due
<1>14. CASE TokenArrives
  <2>1. /\ enabled /\ asking' = FALSE
        /\ UNCHANGED <<device, session, enabled, fcm, synced>>
        /\ Send(IF SignedIn THEN Sync(session, fcm) ELSE <<>>)
        /\ trouble' = (trouble \/ Overlaps(IF SignedIn THEN Sync(session, fcm) ELSE <<>>))
    BY <1>14 DEF TokenArrives
  <2>2. CASE session # Nobody /\ synced # SyncKey(session, fcm)
    <3>1. PICK s, f : s = session /\ f = fcm
      OBVIOUS
    <3>2. Send(<<Register(s, f)>>) /\ ~Overlaps(<<Register(s, f)>>)
      BY <2>1, <2>2, <3>1 DEF SignedIn, Sync
    <3>3. Register(s, f) \in PushCall
      BY <1>2, <2>2, <3>1 DEF Register, PushCall, PushTyped
    <3> QED
      BY <1>6, <2>1, <2>2, <3>1, <3>2, <3>3
  <2>3. CASE ~(session # Nobody /\ synced # SyncKey(session, fcm))
    <3>1. Send(<<>>)
      BY <2>1, <2>3 DEF SignedIn, Sync
    <3>2. session # Nobody => Becomes(session.user, fcm)
      BY <1>4, <2>3
    <3>3. \A v \in PushUsers : (enabled' /\ session' # Nobody /\ session'.user = v) \/ Becomes(v, 0)
      BY <1>4, <2>1
    <3> QED
      BY <1>4, <1>5, <2>1, <3>1, <3>2, <3>3
  <2> QED
    BY <2>2, <2>3
<1>15. ASSUME NEW i \in DOMAIN sent, PushExecute(i)
       PROVE  Due'
  <2>1. /\ UNCHANGED <<session, enabled, fcm, synced, asking>>
        /\ sent' = RemoveAt(sent, i) /\ answers' = Append(answers, [call |-> sent[i]])
    BY <1>15 DEF PushExecute, Executed
  <2>2. PICK c \in PushCall : c = sent[i]
    BY DEF PushTyped
  <2>3. c \in Calls /\ \A d \in Calls : d = c
    BY <1>4, <2>2, UnderWayAre
  <2>4. \A v \in PushUsers : device'[v] = Made(c, v, device[v])
    BY <1>15, <2>2 DEF PushExecute, PushTyped, Upserted, Made, PushCall
  <2>5. /\ Calls' \subseteq Calls /\ sent' \in Seq(PushCall) /\ answers' \in Seq([call : PushCall])
    BY <2>1, ExecutedCalls
  <2>6. \A j \in DOMAIN sent' : sent'[j] = c
    <3>1. \A j \in DOMAIN sent' : sent'[j] \in Calls'
      BY DEF Calls, Range
    <3> QED
      BY <2>3, <2>5, <3>1
  <2>7. \A j \in DOMAIN answers' : answers'[j].call = c
    <3>1. \A j \in DOMAIN answers' : answers'[j].call \in Calls'
      BY DEF Calls
    <3> QED
      BY <2>3, <2>5, <3>1
  <2>8. \A v, f : Becomes(v, f) => Made(c, v, device[v]) = f
    BY <2>2 DEF Becomes
  <2>9. \A v \in PushUsers : \A f : Becomes(v, f) => Becomes(v, f)'
    BY <2>4, <2>6, <2>8, MadeOnce DEF Becomes
  <2>10. \A j \in DOMAIN answers', v \in PushUsers : Made(answers'[j].call, v, device'[v]) = device'[v]
    BY <2>4, <2>7, MadeOnce
  <2>11. SyncKey(session, fcm)' = SyncKey(session, fcm) /\ (SignedIn' <=> session # Nobody)
    BY <2>1 DEF SyncKey, SignedIn
  <2>12. session # Nobody => session.user \in PushUsers
    BY <1>2
  <2> QED
    BY <1>4, <2>1, <2>3, <2>5, <2>9, <2>10, <2>11, <2>12 DEF Due
<1>16. ASSUME NEW i \in DOMAIN answers, PushAnswer(i)
       PROVE  Due'
  <2>1. PICK c \in Calls : c = answers[i].call
    BY UnderWayAre
  <2>2. /\ UNCHANGED <<device, session, enabled, fcm, asking>>
        /\ sent' = sent /\ answers' = RemoveAt(answers, i)
        /\ synced' = IF c.op = "register" THEN SyncKey(c.auth, c.fcm) ELSE synced
    BY <1>16, <2>1 DEF PushAnswer, Received
  <2>3. /\ Calls' \subseteq Calls
        /\ \A j \in DOMAIN answers' : \E k \in DOMAIN answers : answers'[j] = answers[k]
    BY <2>2, AnsweredCalls
  <2>4. \A v, f : Becomes(v, f)' <=> Becomes(v, f)
    BY <2>2 DEF Becomes
  <2>5. \A j \in DOMAIN answers', v \in PushUsers : Made(answers'[j].call, v, device'[v]) = device'[v]
    BY <1>4, <2>2, <2>3
  <2>6. c.op = "register" => Becomes(c.auth.user, c.fcm)
    <3> SUFFICES ASSUME c.op = "register" PROVE Becomes(c.auth.user, c.fcm)
      OBVIOUS
    <3>1. c.auth.user \in PushUsers
      BY UnderWayAre DEF PushCall
    <3>2. Made(c, c.auth.user, device[c.auth.user]) = c.fcm
      BY DEF Made
    <3>3. device[c.auth.user] = c.fcm
      BY <1>4, <2>1, <3>1, <3>2
    <3>4. \A j \in DOMAIN sent : sent[j] = c
      BY <1>4, UnderWayAre
    <3> QED
      BY <3>2, <3>3, <3>4 DEF Becomes
  <2>7. \A s, f, t, g : SyncKey(s, f) = SyncKey(t, g) => s = t /\ f = g
    BY DEF SyncKey
  <2>8. \A s, f : SyncKey(s, f).auth = s
    BY DEF SyncKey
  <2>9. session # Nobody /\ synced' = SyncKey(session, fcm) => Becomes(session.user, fcm)
    BY <1>4, <2>2, <2>6, <2>7
  <2>10. session # Nobody /\ synced'.auth = session => enabled
    BY <1>4, <2>2, <2>8
  <2>11. SyncKey(session, fcm)' = SyncKey(session, fcm) /\ (SignedIn' <=> session # Nobody)
    BY <2>2 DEF SyncKey, SignedIn
  <2> QED
    BY <1>4, <2>2, <2>3, <2>4, <2>5, <2>9, <2>10, <2>11 DEF Due
<1>17. \A i : ~PushCallLost(i) /\ ~PushAnswerLost(i)
  BY DEF PushCallLost, PushAnswerLost, Swallowed
<1> QED
  BY <1>8, <1>9, <1>10, <1>11, <1>12, <1>13, <1>14, <1>15, <1>16, <1>17 DEF PushNext

PushInv == IF screen = "push" THEN PushTyped /\ Followed /\ Due ELSE asking

\* These parts hold in every reachable state.  Another page leaves the registration as it
\* began, with the messaging token still asked for.
LEMMA PushInvariant == Spec => []PushInv
<1>1. Init => PushInv
  <2> SUFFICES ASSUME Init PROVE PushInv
    OBVIOUS
  <2>1. PICK on \in IF screen = "push" THEN BOOLEAN ELSE {TRUE} :
          setting = [stored |-> on, shown |-> on, saving |-> FALSE] /\ enabled = on /\ asking = on
    BY DEF Init, PushInit
  <2>2. /\ device = [u \in PushUsers |-> 0] /\ session = Nobody /\ effective = Nobody
        /\ fcm = 1 /\ known = 0 /\ synced = NoKey /\ turns = 1 /\ trouble = FALSE
        /\ sent = <<>> /\ answers = <<>>
    BY DEF Init, PushInit
  <2>3. Calls = {}
    BY <2>2 DEF Calls, Range
  <2>4. PushTyped
    <3>1. Past(synced.auth, synced.fcm)
      BY <2>2 DEF Past, NoKey, Nobody
    <3>2. <<>> \in Seq(PushCall) /\ <<>> \in Seq([call : PushCall])
      OBVIOUS
    <3>3. [u \in PushUsers |-> 0] \in [PushUsers -> Nat] /\ ~SignedIn /\ trouble \in BOOLEAN
      BY <2>2 DEF SignedIn
    <3>4. turns \in Nat \ {0} /\ fcm \in Nat \ {0} /\ known \in 0..fcm
      BY <2>2
    <3> QED
      BY <2>2, <2>3, <3>1, <3>2, <3>3, <3>4 DEF PushTyped
  <2>5. CASE screen = "push"
    <3>1. on \in BOOLEAN
      BY <2>5
    <3>2. Followed
      BY <2>1, <2>2, <3>1 DEF Followed
    <3>3. \A v \in PushUsers : Becomes(v, 0)
      BY <2>2 DEF Becomes
    <3>4. ~SignedIn
      BY <2>2 DEF SignedIn
    <3>5. Due
      BY <2>2, <2>3, <3>3, <3>4 DEF Due
    <3> QED
      BY <2>4, <2>5, <3>2, <3>5 DEF PushInv
  <2>6. CASE screen # "push"
    BY <2>1, <2>6 DEF PushInv
  <2> QED
    BY <2>5, <2>6
<1>2. PushInv /\ [Next]_vars => PushInv'
  <2> SUFFICES ASSUME PushInv, [Next]_vars PROVE PushInv'
    OBVIOUS
  <2>1. screen' = screen
    BY DEF Next, vars
  <2>2. CASE screen = "push" /\ PushNext
    BY <2>1, <2>2, PushTypedStep, FollowedStep, DueStep DEF PushInv
  <2>3. CASE screen = "push" /\ UNCHANGED vars
    <3>1. /\ sent' = sent /\ answers' = answers /\ device' = device /\ session' = session
          /\ setting' = setting /\ enabled' = enabled /\ effective' = effective /\ fcm' = fcm
          /\ known' = known /\ synced' = synced /\ asking' = asking /\ turns' = turns
          /\ trouble' = trouble
      BY <2>3 DEF vars, exchange, pushVars
    <3>2. Calls' = Calls /\ SignedIn' = SignedIn
      BY <3>1 DEF Calls, SignedIn
    <3>3. PushTyped'
      BY <2>3, <3>1, <3>2 DEF PushInv, PushTyped, Past
    <3>4. Followed'
      BY <2>3, <3>1 DEF PushInv, Followed
    <3>5. Due'
      BY <2>3, <3>1, <3>2 DEF PushInv, Due, Becomes, SyncKey
    <3> QED
      BY <2>1, <2>3, <3>3, <3>4, <3>5 DEF PushInv
  <2>4. CASE screen # "push"
    <3>1. asking' = asking
      BY <2>4 DEF Next, vars, pushVars
    <3> QED
      BY <2>1, <2>4, <3>1 DEF PushInv
  <2>5. screen = "push" => PushNext \/ UNCHANGED vars
    BY DEF Next
  <2> QED
    BY <2>2, <2>3, <2>4, <2>5
<1> QED
  BY <1>1, <1>2, PTL DEF Spec

\* Once everything was answered without trouble, the server pushes to the installation for
\* the user who is signed in, under the token in force, and for nobody else.
THEOREM OnlyTheUserIsPushed == Spec => []PushesReachTheUser
<1>1. PushInv => PushesReachTheUser
  <2> SUFFICES ASSUME PushInv, Quiet, ~asking, ~trouble, NEW u \in PushUsers
               PROVE  device[u] = IF setting.stored /\ SignedIn /\ session.user = u THEN fcm ELSE 0
    BY DEF PushesReachTheUser
  <2>1. PushTyped /\ Followed /\ Due
    BY DEF PushInv
  <2>2. sent = <<>> /\ setting.stored = enabled
    BY <2>1 DEF Quiet, Followed
  <2>3. CASE enabled /\ SignedIn /\ session.user = u
    BY <2>1, <2>2, <2>3 DEF Due, Becomes
  <2>4. CASE ~(enabled /\ SignedIn /\ session.user = u)
    BY <2>1, <2>2, <2>4 DEF Due, Becomes
  <2> QED
    BY <2>2, <2>3, <2>4
<1> QED
  BY <1>1, PushInvariant, PTL

-----------------------------------------------------------------------------
(* The ticket screen, the scanner and the invitations.                     *)

AskOp == {"event", "list", "load", "status", "locate", "poll"}
TicketState == {"ACTIVE", "LAPSED", "USED", "SHUT"}
Detail == TicketState \cup {NotYet, Failed}

\* A call of the participant's phone.  Only a poll brings a code.
AskTyped(a) ==
  /\ \E n : a \in [op : AskOp, nr : {n}, detail : Detail, code : Nat \cup {Awaited}, tries : Nat,
                  alone : BOOLEAN, opened : Nat]
  /\ a.op # "poll" => a.code = 0

PhoneTyped ==
  /\ \A a \in asks : AskTyped(a)
  /\ pass \in [shown : TicketState \cup {"none"}, code : Nat, loading : BOOLEAN, error : BOOLEAN]
  /\ poll \in [on : BOOLEAN, timer : BOOLEAN, strays : Nat, watch : BOOLEAN]
  /\ row \in [status : TicketState, code : Nat, issued : Nat]

\* What keeps a loop going: polling follows the ticket, and while it is on some loop
\* is alive, also if the ticket that started it was read before.
Turning ==
  at = "ticket" =>
    /\ pass.shown = "ACTIVE" => poll.on /\ poll.watch
    /\ poll.on => Looping

\* A poll that was alone since it began is the only one, and its code is the last.
LonePolls ==
  \A a \in asks : a.op = "poll" /\ a.alone =>
    /\ \A b \in asks : b.op = "poll" => b = a
    /\ Issued(a) => a.code = row.code

\* The code on the screen is the last one, unless a poll is bringing a newer one or
\* an answer with one was missed.
CodeIsLast ==
  missed \/ pass.code \in {0, row.code} \/ \E a \in asks : a.op = "poll" /\ Issued(a)

ScanCall(c) ==
  /\ c = [code |-> c.code, last |-> c.last, outcome |-> c.outcome, sure |-> c.sure]
  /\ c.code # 0
  /\ c.outcome = NotYet /\ c.sure => c.code = c.last /\ row.status # "USED"
  /\ c.outcome = "rejected" => ~c.sure

\* One code is checked at a time, and one that was sure is still good, or was changed.
ScannerInStep ==
  /\ scan = [paused |-> scan.paused, busy |-> scan.busy, calls |-> scan.calls,
             result |-> scan.result, sure |-> scan.sure]
  /\ scan.calls = <<>> \/ (scan.busy /\ \E c : scan.calls = <<c>> /\ ScanCall(c))
  /\ scan.result = "rejected" => ~scan.sure
TicketTyped == PhoneTyped /\ missed \in BOOLEAN /\ opened \in Nat

-----------------------------------------------------------------------------
\* A new call of the phone: no code yet, and alone so far, or not.
New(n, op, time, alone) ==
  /\ AskTyped(n) /\ n.op = op /\ n.opened = time /\ n.alone = alone
  /\ n.code = IF op = "poll" THEN Awaited ELSE 0

\* A new call is alone, or as it was put beside other polls.
LEMMA NewAsks ==
  ASSUME NEW as, NEW op \in AskOp, NEW time \in Nat
  PROVE  /\ New(NewAsk(as, op, time), op, time, TRUE)
         /\ New([NewAsk(as, op, time) EXCEPT !.alone = ~Polling], op, time, ~Polling)
<1> DEFINE nr == CHOOSE n \in 1 .. Cardinality(as) + 1 :
                       /\ \A a \in as : a.op = op => a.nr # n
                       /\ \A m \in 1 .. n - 1 : \E a \in as : a.op = op /\ a.nr = m
<1>1. NewAsk(as, op, time) =
        [op |-> op, nr |-> nr, detail |-> NotYet, code |-> IF op = "poll" THEN Awaited ELSE 0,
         tries |-> 1, alone |-> TRUE, opened |-> time]
  BY DEF NewAsk
<1> HIDE DEF nr
<1> DEFINE Rec == [op : AskOp, nr : {nr}, detail : Detail, code : Nat \cup {Awaited}, tries : Nat,
                   alone : BOOLEAN, opened : Nat]
<1>2. NewAsk(as, op, time) \in Rec
  BY <1>1 DEF Detail
<1>3. Polling \in BOOLEAN
  BY DEF Polling
<1>4. [NewAsk(as, op, time) EXCEPT !.alone = ~Polling] \in Rec
  BY <1>2, <1>3
<1>5. \A b \in Rec : (b.op # "poll" => b.code = 0) => AskTyped(b)
  BY Zenon DEF AskTyped
<1> DEFINE one == NewAsk(as, op, time)
            other == [one EXCEPT !.alone = ~Polling]
<1>6. /\ one.op = op /\ one.opened = time /\ one.alone = TRUE
      /\ one.code = IF op = "poll" THEN Awaited ELSE 0
  BY <1>1
<1>7. other.op = one.op /\ other.opened = one.opened /\ other.code = one.code
  BY <1>2
<1>8. other.alone = ~Polling
  BY <1>2
<1>9. AskTyped(one) /\ AskTyped(other)
  BY <1>2, <1>4, <1>5, <1>6, <1>7
<1> HIDE DEF Rec, one, other
<1>10. one = NewAsk(as, op, time) /\ other = [NewAsk(as, op, time) EXCEPT !.alone = ~Polling]
  BY DEF one, other
<1> QED
  BY <1>6, <1>7, <1>8, <1>9, <1>10 DEF New

\* What an answer, a code or another poll changes of a call.
Same(a, b) == AskTyped(b) /\ b.op = a.op /\ b.opened = a.opened

\* A call whose code, if it has one, is not the last one anymore.
Older(a) == [a EXCEPT !.alone = @ /\ ~Issued(a)]

\* An answer, a code, a repetition and another poll keep what kind of call it is.
LEMMA AskEdits ==
  ASSUME NEW a, AskTyped(a)
  PROVE  /\ \A d \in Detail : LET b == [a EXCEPT !.detail = d] IN
              Same(a, b) /\ b.code = a.code /\ b.alone = a.alone
         /\ LET b == [a EXCEPT !.detail = NotYet, !.tries = @ + 1] IN
              Same(a, b) /\ b.code = a.code /\ b.alone = a.alone
         /\ \A c \in Nat : a.op = "poll" \/ c = 0 => LET b == [a EXCEPT !.code = c] IN
              Same(a, b) /\ b.code = c /\ b.alone = a.alone
         /\ LET b == [a EXCEPT !.alone = FALSE] IN
              Same(a, b) /\ b.code = a.code /\ b.alone = FALSE
         /\ LET b == Older(a) IN
              Same(a, b) /\ b.code = a.code /\ b.alone = (a.alone /\ ~Issued(a))
<1>1. PICK n : a \in [op : AskOp, nr : {n}, detail : Detail, code : Nat \cup {Awaited},
                     tries : Nat, alone : BOOLEAN, opened : Nat]
  BY DEF AskTyped
<1> DEFINE Rec == [op : AskOp, nr : {n}, detail : Detail, code : Nat \cup {Awaited}, tries : Nat,
                   alone : BOOLEAN, opened : Nat]
<1>2. a.op # "poll" => a.code = 0
  BY DEF AskTyped
<1>3. \A b \in Rec : (b.op # "poll" => b.code = 0) => AskTyped(b)
  BY Zenon DEF AskTyped
<1>4. \A d \in Detail : LET b == [a EXCEPT !.detail = d] IN
        b \in Rec /\ b.op = a.op /\ b.opened = a.opened /\ b.code = a.code /\ b.alone = a.alone
  BY <1>1
<1>5. LET b == [a EXCEPT !.detail = NotYet, !.tries = @ + 1] IN
        b \in Rec /\ b.op = a.op /\ b.opened = a.opened /\ b.code = a.code /\ b.alone = a.alone
  <2> DEFINE c == [a EXCEPT !.detail = NotYet]
  <2>1. NotYet \in Detail /\ a.tries + 1 \in Nat
    BY <1>1 DEF Detail
  <2>2. [a EXCEPT !.detail = NotYet, !.tries = a.tries + 1] \in Rec
    BY <1>1, <2>1
  <2> QED
    BY <1>1, <2>2
<1>6. \A c \in Nat : LET b == [a EXCEPT !.code = c] IN
        b \in Rec /\ b.op = a.op /\ b.opened = a.opened /\ b.code = c /\ b.alone = a.alone
  BY <1>1
<1>7. LET b == [a EXCEPT !.alone = FALSE] IN
        b \in Rec /\ b.op = a.op /\ b.opened = a.opened /\ b.code = a.code /\ b.alone = FALSE
  BY <1>1
<1>8. LET b == Older(a) IN
        /\ b \in Rec /\ b.op = a.op /\ b.opened = a.opened /\ b.code = a.code
        /\ b.alone = (a.alone /\ ~Issued(a))
  <2>1. PICK v \in BOOLEAN : v = (a.alone /\ ~Issued(a))
    OBVIOUS
  <2>2. Older(a) = [a EXCEPT !.alone = v]
    BY <2>1 DEF Older
  <2>3. LET b == [a EXCEPT !.alone = v] IN
        b \in Rec /\ b.op = a.op /\ b.opened = a.opened /\ b.code = a.code /\ b.alone = v
    BY <1>1
  <2> QED
    BY <2>1, <2>2, <2>3
<1> HIDE DEF Rec
<1> QED
  BY <1>2, <1>3, <1>4, <1>5, <1>6, <1>7, <1>8 DEF Same

\* A code that a stream issues and one that runs out leave every call what it is.
LEMMA OldCodes ==
  ASSUME TicketTyped, StreamIssues \/ CodeRunsOut
  PROVE  /\ UNCHANGED <<at, opened, pass, poll, scan>> /\ missed' = TRUE
         /\ row' \in [status : TicketState, code : Nat, issued : Nat] /\ row'.status = row.status
         /\ asks' = {Older(a) : a \in asks}
         /\ \A a \in asks : Same(a, Older(a)) /\ Older(a).code = a.code
         /\ \A a \in asks : Older(a).alone = (a.alone /\ ~Issued(a))
<1>1. UNCHANGED <<at, opened, pass, poll, scan>>
  BY DEF StreamIssues, CodeRunsOut
<1>2. CodesAreOld
  BY DEF StreamIssues, CodeRunsOut
<1>3. \A a \in asks : AskTyped(a)
  BY DEF TicketTyped, PhoneTyped
<1>4. /\ \A a \in asks : Same(a, Older(a)) /\ Older(a).code = a.code
      /\ \A a \in asks : Older(a).alone = (a.alone /\ ~Issued(a))
  BY <1>3, AskEdits
<1>5. row' \in [status : TicketState, code : Nat, issued : Nat] /\ row'.status = row.status
  <2>1. row \in [status : TicketState, code : Nat, issued : Nat]
    BY DEF TicketTyped, PhoneTyped
  <2>2. row' = [row EXCEPT !.issued = row.issued + 1, !.code = row.issued + 1]
          \/ row' = [row EXCEPT !.code = 0]
    BY DEF StreamIssues, CodeRunsOut, NewCode
  <2>3. \A c, n \in Nat : LET r == [row EXCEPT !.issued = n, !.code = c] IN
           r \in [status : TicketState, code : Nat, issued : Nat] /\ r.status = row.status
    <3> HIDE DEF TicketState
    <3> QED
      BY <2>1
  <2>4. LET r == [row EXCEPT !.code = 0] IN
           r \in [status : TicketState, code : Nat, issued : Nat] /\ r.status = row.status
    BY <2>1
  <2>5. row.issued + 1 \in Nat
    BY <2>1
  <2>6. CASE row' = [row EXCEPT !.code = 0]
    BY <2>4, <2>6
  <2>7. CASE row' = [row EXCEPT !.issued = row.issued + 1, !.code = row.issued + 1]
    BY <2>3, <2>5, <2>7
  <2> QED
    BY <2>2, <2>6, <2>7
<1>6. missed' = TRUE /\ asks' = {Older(a) : a \in asks}
  BY <1>2 DEF CodesAreOld, Older
<1> QED
  BY <1>1, <1>4, <1>5, <1>6

\* The polling state after a loop was scheduled or stopped.
LoopState == [on : BOOLEAN, timer : BOOLEAN, strays : Nat, watch : BOOLEAN]

\* What turning polling on, off or stopping it makes of the polling state.
LEMMA PollEdits ==
  ASSUME TicketTyped
  PROVE  /\ Off \in LoopState /\ Stopped \in LoopState
         /\ Stopped.on = FALSE /\ Off.on = FALSE /\ Stopped.strays = poll.strays
         /\ \A p \in LoopState : LET on == [p EXCEPT !.on = TRUE, !.watch = TRUE]
                                off == [Stopped EXCEPT !.strays = p.strays] IN
              /\ on \in LoopState /\ on.on = TRUE /\ on.watch = TRUE
              /\ on.timer = p.timer /\ on.strays = p.strays
              /\ off \in LoopState /\ off.on = FALSE
<1>1. poll \in LoopState
  BY DEF TicketTyped, PhoneTyped, LoopState
<1>2. Off \in LoopState /\ Off.on = FALSE
  BY DEF Off, LoopState
<1>3. Stopped \in LoopState /\ Stopped.on = FALSE /\ Stopped.strays = poll.strays
  BY <1>1 DEF Stopped, LoopState
<1>4. ASSUME NEW p \in LoopState
      PROVE  LET on == [p EXCEPT !.on = TRUE, !.watch = TRUE]
                 off == [Stopped EXCEPT !.strays = p.strays] IN
             /\ on \in LoopState /\ on.on = TRUE /\ on.watch = TRUE
             /\ on.timer = p.timer /\ on.strays = p.strays
             /\ off \in LoopState /\ off.on = FALSE
  BY <1>3 DEF LoopState
<1> QED
  BY <1>2, <1>3, <1>4

\* The next turn of the loop is scheduled, by the timer or beside it.
LEMMA NextLoop ==
  ASSUME TicketTyped
  PROVE  /\ poll \in LoopState /\ Scheduled(poll) \in LoopState
         /\ Scheduled(poll).on = poll.on /\ Scheduled(poll).watch = poll.watch
         /\ Scheduled(poll).timer \/ Scheduled(poll).strays > 0
<1>1. poll \in LoopState
  BY DEF TicketTyped, PhoneTyped, LoopState
<1>2. CASE poll.timer
  <2>1. Scheduled(poll) = [poll EXCEPT !.strays = poll.strays + 1]
    BY <1>2 DEF Scheduled
  <2> QED
    BY <1>1, <2>1 DEF LoopState
<1>3. CASE ~poll.timer
  <2>1. Scheduled(poll) = [poll EXCEPT !.timer = TRUE]
    BY <1>3 DEF Scheduled
  <2> QED
    BY <1>1, <2>1 DEF LoopState
<1> QED
  BY <1>1, <1>2, <1>3

\* The effect that follows the ticket keeps polling and calls what they are, and
\* leaves a loop alive where it turns polling on.
LEMMA FollowsKeeps ==
  ASSUME TicketTyped, NEW s, NEW p \in LoopState, NEW as, \A a \in as : AskTyped(a), Follows(s, p, as)
  PROVE  /\ poll' \in LoopState /\ \A a \in asks' : AskTyped(a)
         /\ as \subseteq asks' /\ \A a \in asks' : a \in as \/ (a.op = "locate" /\ a.code = 0)
         /\ s = "ACTIVE" =>
              /\ poll'.on /\ poll'.watch /\ poll'.timer = p.timer /\ poll'.strays = p.strays
              /\ p.on \/ \E a \in asks' : a.op = "locate" /\ a.opened = opened
         /\ s # "ACTIVE" => ~poll'.on
<1> DEFINE n == NewAsk(as, "locate", opened)
<1>1. AskTyped(n) /\ n.op = "locate" /\ n.opened = opened /\ n.code = 0
  <2>1. "locate" \in AskOp /\ opened \in Nat
    BY DEF AskOp, TicketTyped
  <2>2. New(NewAsk(as, "locate", opened), "locate", opened, TRUE)
    BY <2>1, NewAsks
  <2> QED
    BY <2>2 DEF New
<1>2. With(as, "locate") = as \cup {n}
  BY DEF With
<1> HIDE DEF n
<1>3. CASE s = "ACTIVE"
  <2>1. poll' = [p EXCEPT !.on = TRUE, !.watch = TRUE]
    BY <1>3 DEF Follows
  <2>2. asks' = IF p.on THEN as ELSE as \cup {n}
    BY <1>2, <1>3 DEF Follows
  <2> QED
    BY <1>1, <1>3, <2>1, <2>2, PollEdits
<1>4. CASE s # "ACTIVE"
  <2>1. poll' = [Stopped EXCEPT !.strays = p.strays] /\ asks' = as
    BY <1>4 DEF Follows
  <2> QED
    BY <1>4, <2>1, PollEdits
<1> QED
  BY <1>3, <1>4

\* A call that is added is a new one of the screen that is open.
LEMMA WithNew ==
  ASSUME TicketTyped, NEW as, NEW op \in AskOp
  PROVE  \E n : With(as, op) = as \cup {n} /\ New(n, op, opened, TRUE)
<1>1. New(NewAsk(as, op, opened), op, opened, TRUE)
  BY NewAsks DEF TicketTyped
<1> QED
  BY <1>1 DEF With

\* One call is found or answered and another, of the same kind, takes its place.
LEMMA LocatedAsks ==
  ASSUME TicketTyped, NEW a \in asks, Located(a)
  PROVE  \E n, others :
           /\ others = {IF b.op = "poll" THEN [b EXCEPT !.alone = FALSE] ELSE b : b \in Other(a)}
           /\ asks' = others \cup {n} /\ New(n, "poll", a.opened, ~Polling)
<1> DEFINE others == {IF b.op = "poll" THEN [b EXCEPT !.alone = FALSE] ELSE b : b \in Other(a)}
           n == [NewAsk(others, "poll", a.opened) EXCEPT !.alone = ~Polling]
<1>1. asks' = others \cup {n}
  BY DEF Located
<1>2. AskTyped(a)
  BY DEF TicketTyped, PhoneTyped
<1>3. a.opened \in Nat /\ "poll" \in AskOp
  BY <1>2 DEF AskTyped, AskOp
<1> HIDE DEF others
<1>4. New(n, "poll", a.opened, ~Polling)
  BY <1>3, NewAsks
<1> QED
  BY <1>1, <1>4 DEF others

-----------------------------------------------------------------------------
\* Every step keeps the phone's state what it is.
LEMMA TypedStep ==
  ASSUME TicketTyped, TicketNext
  PROVE  TicketTyped'
<1> USE DEF TicketTyped, PhoneTyped
<1>0. /\ "event" \in AskOp /\ "list" \in AskOp /\ "load" \in AskOp /\ "status" \in AskOp
      /\ "locate" \in AskOp /\ TicketState \subseteq Detail /\ NotYet \in Detail
      /\ Failed \in Detail /\ "none" \notin Detail /\ 0 \in Nat
      /\ OpenTicketState \subseteq TicketState
  BY DEF AskOp, Detail, TicketState, NotYet, Failed, OpenTicketState
<1>1. CASE ReadEntry
  <2>1. PICK n : asks' = {} \cup {n} /\ New(n, "event", opened, TRUE)
    BY <1>0, <1>1, WithNew DEF ReadEntry
  <2> QED
    BY <1>1, <2>1 DEF ReadEntry, New
<1>2. CASE OpenTicket
  <2>1. opened' = opened + 1 /\ opened' \in Nat
    BY <1>2 DEF OpenTicket
  <2>2. New(NewAsk(asks, "load", opened'), "load", opened', TRUE)
    BY <1>0, <2>1, NewAsks
  <2>3. pass' = Blank /\ poll' = Off
    BY <1>2 DEF OpenTicket
  <2>4. poll' \in [on : BOOLEAN, timer : BOOLEAN, strays : Nat, watch : BOOLEAN]
    BY <2>3, PollEdits DEF LoopState
  <2> QED
    BY <1>2, <2>1, <2>2, <2>3, <2>4 DEF OpenTicket, New, Blank
<1>3. CASE LeaveTicket
  BY <1>3, PollEdits DEF LeaveTicket, Blank, LoopState
<1>4. CASE RefreshTicket
  <2>1. PICK n : asks' = asks \cup {n} /\ New(n, "load", opened, TRUE)
    BY <1>0, <1>4, WithNew DEF RefreshTicket
  <2> QED
    BY <1>4, <2>1, PollEdits DEF RefreshTicket, New, Blank, LoopState
<1>5. CASE RenewTicket
  <2>1. PICK n : With(asks, "load") = asks \cup {n} /\ New(n, "load", opened, TRUE)
    BY <1>0, <1>5, WithNew
  <2>2. \A a \in With(asks, "load") : AskTyped(a)
    BY <2>1 DEF New
  <2>3. Follows(pass.shown, Stopped, With(asks, "load"))
    BY <1>5 DEF RenewTicket
  <2>4. poll' \in LoopState /\ \A a \in asks' : AskTyped(a)
    BY <2>2, <2>3, PollEdits, FollowsKeeps
  <2>5. pass' \in [shown : TicketState \cup {"none"}, code : Nat, loading : BOOLEAN, error : BOOLEAN]
    BY <1>5 DEF RenewTicket
  <2> QED
    BY <1>5, <2>4, <2>5 DEF RenewTicket, LoopState
<1>6. CASE TimerFires
  <2>1. PICK n : With(asks, "locate") = asks \cup {n} /\ New(n, "locate", opened, TRUE)
    BY <1>0, WithNew
  <2>2. poll' \in LoopState
    <3>1. CASE poll.timer
      BY <1>6, <3>1 DEF TimerFires, LoopState
    <3>2. CASE ~poll.timer
      <4>1. poll' = [poll EXCEPT !.strays = poll.strays - 1] /\ poll.strays > 0
        BY <1>6, <3>2 DEF TimerFires
      <4>2. poll.strays - 1 \in Nat
        BY <4>1
      <4> QED
        BY <4>1, <4>2 DEF LoopState
    <3> QED
      BY <3>1, <3>2
  <2> QED
    BY <1>6, <2>1, <2>2 DEF TimerFires, New, LoopState
<1>7. CASE WatchFires
  <2>1. PICK n : With(asks, "status") = asks \cup {n} /\ New(n, "status", opened, TRUE)
    BY <1>0, WithNew
  <2> QED
    BY <1>7, <2>1 DEF WatchFires, New
<1>8. CASE TicketChanges
  <2>1. row' \in [status : TicketState, code : Nat, issued : Nat]
    <3>1. (\E s \in {"LAPSED", "SHUT"} : row' = [row EXCEPT !.status = s])
          \/ row' = [row EXCEPT !.status = "ACTIVE", !.code = 0]
      BY <1>8 DEF TicketChanges
    <3>2. \A s \in {"ACTIVE", "LAPSED", "SHUT"} : s \in TicketState
      BY DEF TicketState
    <3> HIDE DEF TicketState
    <3>3. \A s \in TicketState : [row EXCEPT !.status = s] \in
                                 [status : TicketState, code : Nat, issued : Nat]
      OBVIOUS
    <3>4. [row EXCEPT !.status = "ACTIVE", !.code = 0] \in
             [status : TicketState, code : Nat, issued : Nat]
      BY <3>2
    <3> QED
      BY <3>1, <3>2, <3>3, <3>4
  <2>2. \A a \in asks : AskTyped([a EXCEPT !.alone = FALSE])
    BY AskEdits DEF Same
  <2>3. \A a \in asks' : AskTyped(a)
    BY <1>8, <2>2 DEF TicketChanges
  <2>4. missed' \in BOOLEAN
    BY <1>8 DEF TicketChanges
  <2> QED
    BY <1>8, <2>1, <2>3, <2>4 DEF TicketChanges
<1>9. CASE ScanCode \/ ScanAnother
  BY <1>9 DEF ScanCode, ScanAnother
<1>10. ASSUME NEW a \in asks, Located(a) PROVE TicketTyped'
  <2>1. PICK n, others :
           /\ others = {IF b.op = "poll" THEN [b EXCEPT !.alone = FALSE] ELSE b : b \in Other(a)}
           /\ asks' = others \cup {n} /\ New(n, "poll", a.opened, ~Polling)
    BY <1>10, LocatedAsks
  <2>2. \A b \in asks : AskTyped([b EXCEPT !.alone = FALSE])
    BY AskEdits DEF Same
  <2>3. \A b \in others : AskTyped(b)
    BY <2>1, <2>2 DEF Other
  <2> QED
    BY <1>10, <2>1, <2>3 DEF Located, New
<1>11. ASSUME NEW a \in asks, NotLocated(a) PROVE TicketTyped'
  <2>1. poll \in LoopState /\ Scheduled(poll) \in LoopState
    BY NextLoop
  <2> QED
    BY <1>11, <2>1 DEF NotLocated, Other, LoopState
<1>12. ASSUME NEW a \in asks, ReadTicket(a) PROVE TicketTyped'
  <2>1. AskTyped([a EXCEPT !.detail = row.status])
    BY <1>0, AskEdits DEF Same
  <2> QED
    BY <1>12, <2>1 DEF ReadTicket, Other
<1>13. ASSUME NEW a \in asks, IssueCode(a) PROVE TicketTyped'
  <2>1. /\ row' \in [status : TicketState, code : Nat, issued : Nat]
        /\ row'.code = row.issued + 1
    <3>1. row' = [row EXCEPT !.issued = row.issued + 1, !.code = row.issued + 1]
      BY <1>13 DEF IssueCode, NewCode
    <3>2. row.issued + 1 \in Nat
      OBVIOUS
    <3> QED
      BY <3>1, <3>2
  <2>2. a.op = "poll"
    BY <1>13 DEF IssueCode, AskTyped, Awaited
  <2>3. AskTyped([a EXCEPT !.code = row'.code])
    BY <2>1, <2>2, AskEdits DEF Same
  <2> QED
    BY <1>13, <2>1, <2>3 DEF IssueCode, Other
<1>14. ASSUME NEW a \in asks, RefuseCode(a) PROVE TicketTyped'
  <2>1. AskTyped([a EXCEPT !.code = 0])
    BY <1>0, AskEdits DEF Same
  <2> QED
    BY <1>14, <2>1 DEF RefuseCode, Other
<1>15. ASSUME NEW a \in asks, EventAnswer(a) PROVE TicketTyped'
  <2>1. PICK n : With(Other(a), "list") = Other(a) \cup {n} /\ New(n, "list", opened, TRUE)
    BY <1>0, WithNew
  <2> QED
    BY <1>15, <2>1 DEF EventAnswer, New, Other
<1>16. ASSUME NEW a \in asks, TicketsAnswer(a) PROVE TicketTyped'
  <2>1. AskTyped([a EXCEPT !.detail = NotYet, !.tries = @ + 1])
    BY AskEdits DEF Same
  <2> QED
    BY <1>16, <2>1 DEF TicketsAnswer, Other
<1>17. ASSUME NEW a \in asks, LoadAnswer(a) PROVE TicketTyped'
  <2>1. \A b \in Other(a) : AskTyped(b)
    BY DEF Other
  <2>2. a.detail # Failed => a.detail \in TicketState
    BY <1>17 DEF LoadAnswer, Answered, AskTyped, Detail
  <2>3. poll' \in LoopState /\ \A b \in asks' : AskTyped(b)
    <3>1. CASE a.detail = Failed
      BY <1>17, <2>1, <3>1 DEF LoadAnswer, LoopState
    <3>2. CASE a.detail # Failed
      <4>1. Follows(a.detail, poll, Other(a)) /\ poll \in LoopState
        BY <1>17, <3>2 DEF LoadAnswer, LoopState
      <4> QED
        BY <2>1, <4>1, FollowsKeeps
    <3> QED
      BY <3>1, <3>2
  <2>4. pass' \in [shown : TicketState \cup {"none"}, code : Nat, loading : BOOLEAN, error : BOOLEAN]
    BY <1>17, <2>2 DEF LoadAnswer
  <2> QED
    BY <1>17, <2>3, <2>4 DEF LoadAnswer, LoopState
<1>18. ASSUME NEW a \in asks, StatusAnswer(a) PROVE TicketTyped'
  <2>1. \A b \in Other(a) : AskTyped(b)
    BY DEF Other
  <2>2. a.detail # Failed => a.detail \in TicketState
    BY <1>18 DEF StatusAnswer, Answered, AskTyped, Detail
  <2>3. poll' \in LoopState /\ \A b \in asks' : AskTyped(b)
    <3>1. CASE a.detail = Failed
      BY <1>18, <2>1, <3>1 DEF StatusAnswer, LoopState
    <3>2. CASE a.detail # Failed
      <4>1. Follows(a.detail, poll, Other(a)) /\ poll \in LoopState
        BY <1>18, <3>2 DEF StatusAnswer, LoopState
      <4> QED
        BY <2>1, <4>1, FollowsKeeps
    <3> QED
      BY <3>1, <3>2
  <2>4. pass' \in [shown : TicketState \cup {"none"}, code : Nat, loading : BOOLEAN, error : BOOLEAN]
    <3>1. CASE a.detail = Failed
      BY <1>18, <3>1 DEF StatusAnswer
    <3>2. CASE a.detail # Failed
      <4> DEFINE code == IF a.detail \in OpenTicketState THEN pass.code ELSE 0
      <4>1. pass' = [pass EXCEPT !.shown = a.detail, !.code = code]
        BY <1>18, <3>2 DEF StatusAnswer
      <4>2. code \in Nat
        OBVIOUS
      <4> HIDE DEF code
      <4> QED
        BY <2>2, <3>2, <4>1, <4>2
    <3> QED
      BY <3>1, <3>2
  <2> QED
    BY <1>18, <2>3, <2>4 DEF StatusAnswer, LoopState
<1>19. ASSUME NEW a \in asks, PollAnswer(a) PROVE TicketTyped'
  <2> DEFINE ends == a.detail \notin OpenTicketState \cup {Failed}
             shows == Issued(a) /\ ~ends
             next == IF poll.on /\ ~ends THEN Scheduled(poll) ELSE poll
  <2>1. \A b \in Other(a) : AskTyped(b)
    BY DEF Other
  <2>2. a.detail # Failed => a.detail \in TicketState
    BY <1>19 DEF PollAnswer, Answered, AskTyped, Detail
  <2>3. next \in LoopState
    <3>1. poll \in LoopState /\ Scheduled(poll) \in LoopState
      BY NextLoop
    <3> QED
      BY <3>1
  <2>4. poll' \in LoopState /\ \A b \in asks' : AskTyped(b)
    <3> HIDE DEF next
    <3>1. CASE a.detail = Failed
      <4>1. poll' = next /\ asks' = Other(a)
        BY <1>19, <3>1 DEF PollAnswer, next
      <4> QED
        BY <2>1, <2>3, <4>1
    <3>2. CASE a.detail # Failed
      <4>1. Follows(a.detail, next, Other(a))
        BY <1>19, <3>2 DEF PollAnswer, next
      <4> QED
        BY <2>1, <2>3, <4>1, FollowsKeeps
    <3> QED
      BY <3>1, <3>2
  <2>5. shows => a.code \in Nat
    BY DEF Issued, AskTyped, Awaited
  <2>6. pass' = [pass EXCEPT !.shown = IF a.detail = Failed THEN @ ELSE a.detail,
                             !.code = IF shows THEN a.code ELSE @]
    BY <1>19 DEF PollAnswer
  <2>7. pass' \in [shown : TicketState \cup {"none"}, code : Nat, loading : BOOLEAN, error : BOOLEAN]
    <3> HIDE DEF shows
    <3> QED
      BY <2>2, <2>5, <2>6
  <2>8. missed' = IF shows THEN ~a.alone ELSE missed \/ Issued(a)
    BY <1>19 DEF PollAnswer
  <2>9. missed' \in BOOLEAN
    BY <2>8 DEF Issued
  <2> QED
    BY <1>19, <2>4, <2>7, <2>9 DEF PollAnswer, LoopState
<1>20. ASSUME NEW a \in asks, ScreenGone(a) PROVE TicketTyped'
  <2>1. missed' \in BOOLEAN
    BY <1>20 DEF ScreenGone, Issued
  <2> QED
    BY <1>20, <2>1 DEF ScreenGone, Other
<1>21. ASSUME NEW a \in asks, AskLost(a) PROVE TicketTyped'
  <2>1. AskTyped([a EXCEPT !.detail = Failed]) /\ AskTyped([a EXCEPT !.code = 0])
    BY <1>0, AskEdits DEF Same
  <2> QED
    BY <1>21, <2>1 DEF AskLost, Other
<1>22. ASSUME NEW j \in DOMAIN scan.calls, CheckCode(j) PROVE TicketTyped'
  <2>1. row' \in [status : TicketState, code : Nat, issued : Nat]
    BY <1>22 DEF CheckCode, TicketState
  <2> QED
    BY <1>22, <2>1 DEF CheckCode
<1>23. ASSUME NEW j \in DOMAIN scan.calls, ScanAnswer(j) \/ ScanLost(j) PROVE TicketTyped'
  BY <1>23 DEF ScanAnswer, ScanLost
<1>24. CASE StreamIssues \/ CodeRunsOut
  <2>1. \A a \in asks' : AskTyped(a)
    <3>1. asks' = {Older(a) : a \in asks}
      BY <1>24, OldCodes
    <3>2. \A a \in asks : AskTyped(Older(a))
      <4>1. \A a \in asks : Same(a, Older(a))
        BY <1>24, OldCodes
      <4> QED
        BY <4>1 DEF Same
    <3> QED
      BY <3>1, <3>2
  <2>2. row' \in [status : TicketState, code : Nat, issued : Nat]
    BY <1>24, OldCodes
  <2>3. UNCHANGED <<opened, pass, poll>> /\ missed' \in BOOLEAN
    BY <1>24, OldCodes
  <2> QED
    BY <2>1, <2>2, <2>3
<1> QED
  BY <1>1, <1>2, <1>3, <1>4, <1>5, <1>6, <1>7, <1>8, <1>9, <1>10, <1>11, <1>12, <1>13, <1>14,
     <1>15, <1>16, <1>17, <1>18, <1>19, <1>20, <1>21, <1>22, <1>23, <1>24 DEF TicketNext

-----------------------------------------------------------------------------
\* A loop that is in a call is alive while the call is answered in part.
LEMMA CallGoesOn ==
  ASSUME Looping, NEW a \in asks, NEW b, Same(a, b), asks' = Other(a) \cup {b},
         UNCHANGED <<at, opened, poll>>
  PROVE  Looping'
BY DEF Looping, StillOpen, Same, Other

\* A call that is no loop's, or one of an earlier screen, ends no loop.
LEMMA OthersGoOn ==
  ASSUME Looping, NEW a \in asks, a.op \notin {"locate", "poll"} \/ ~StillOpen(a),
         Other(a) \subseteq asks', UNCHANGED <<at, opened>>,
         poll'.timer = poll.timer, poll'.strays = poll.strays
  PROVE  Looping'
BY DEF Looping, StillOpen, Other

\* A call for the place of the phone, of the screen that is open, is a loop.
LEMMA LocatingLoops ==
  ASSUME at' = "ticket", \E a \in asks' : a.op = "locate" /\ a.opened = opened'
  PROVE  Looping'
BY DEF Looping, StillOpen

\* The effect that follows the ticket leaves a loop alive where polling is on.
LEMMA FollowsTurns ==
  ASSUME TicketTyped, NEW s, NEW p \in LoopState, NEW as, \A a \in as : AskTyped(a), Follows(s, p, as),
         UNCHANGED <<at, opened>>, at = "ticket", pass'.shown = s,
         p.on => \/ \E a \in as : a.op \in {"locate", "poll"} /\ StillOpen(a)
                 \/ p.timer \/ p.strays > 0
  PROVE  Turning'
<1>1. CASE s = "ACTIVE"
  <2>1. /\ poll'.on /\ poll'.watch /\ poll'.timer = p.timer /\ poll'.strays = p.strays
        /\ p.on \/ \E a \in asks' : a.op = "locate" /\ a.opened = opened
        /\ as \subseteq asks'
    <3>1. poll'.on /\ poll'.watch
      BY <1>1, FollowsKeeps, Zenon
    <3>3. poll'.timer = p.timer /\ poll'.strays = p.strays
      BY <1>1, FollowsKeeps, Zenon
    <3>4. p.on \/ \E a \in asks' : a.op = "locate" /\ a.opened = opened
      BY <1>1, FollowsKeeps
    <3>2. as \subseteq asks'
      BY FollowsKeeps
    <3> QED
      BY <3>1, <3>2, <3>3, <3>4
  <2>2. CASE p.on
    BY <2>1, <2>2 DEF Turning, Looping, StillOpen
  <2>3. CASE ~p.on
    BY <2>1, <2>3, LocatingLoops DEF Turning
  <2> QED
    BY <2>2, <2>3
<1>2. CASE s # "ACTIVE"
  <2>1. ~poll'.on
    BY <1>2, FollowsKeeps
  <2> QED
    BY <1>2, <2>1 DEF Turning
<1> QED
  BY <1>1, <1>2

\* While the ticket is shown as open, polling is on and goes on.
LEMMA TurningStep ==
  ASSUME TicketTyped, Turning, TicketNext
  PROVE  Turning'
<1>0. \A a \in asks : AskTyped(a)
  BY DEF TicketTyped, PhoneTyped
<1>1. CASE ReadEntry
  BY <1>1 DEF ReadEntry, Turning
<1>2. CASE OpenTicket
  <2>1. ~poll'.on /\ pass'.shown # "ACTIVE"
    BY <1>2, PollEdits DEF OpenTicket, Blank
  <2> QED
    BY <2>1 DEF Turning
<1>3. CASE LeaveTicket
  BY <1>3 DEF LeaveTicket, Turning
<1>4. CASE RefreshTicket
  <2>1. ~poll'.on /\ pass'.shown # "ACTIVE"
    BY <1>4, PollEdits DEF RefreshTicket, Blank
  <2> QED
    BY <2>1 DEF Turning
<1>5. CASE RenewTicket
  <2>1. PICK n : With(asks, "load") = asks \cup {n} /\ New(n, "load", opened, TRUE)
    BY WithNew DEF AskOp
  <2>2. \A a \in With(asks, "load") : AskTyped(a)
    BY <1>0, <2>1 DEF New
  <2>3. Follows(pass.shown, Stopped, With(asks, "load")) /\ Stopped \in LoopState /\ ~Stopped.on
    BY <1>5, PollEdits DEF RenewTicket
  <2>4. pass'.shown = pass.shown /\ UNCHANGED <<at, opened>> /\ at = "ticket"
    BY <1>5 DEF RenewTicket, TicketTyped, PhoneTyped
  <2> QED
    BY <2>2, <2>3, <2>4, FollowsTurns
<1>6. CASE TimerFires
  <2>1. PICK n : With(asks, "locate") = asks \cup {n} /\ New(n, "locate", opened, TRUE)
    BY WithNew DEF AskOp
  <2>2. /\ poll'.on = poll.on /\ poll'.watch = poll.watch
        /\ UNCHANGED <<at, opened, pass>>
    BY <1>6 DEF TimerFires, TicketTyped, PhoneTyped
  <2>3. at' = "ticket" /\ poll'.on => Looping'
    <3>1. SUFFICES ASSUME at' = "ticket", poll'.on PROVE Looping'
      OBVIOUS
    <3>2. n \in asks' /\ n.op = "locate" /\ n.opened = opened'
      BY <1>6, <2>1, <2>2, <3>1 DEF TimerFires, New
    <3> QED
      BY <3>1, <3>2, LocatingLoops
  <2> QED
    BY <2>2, <2>3 DEF Turning
<1>7. CASE WatchFires
  <2>1. asks \subseteq asks' /\ UNCHANGED <<at, opened, pass, poll>>
    BY <1>7 DEF WatchFires, With
  <2> QED
    BY <2>1 DEF Turning, Looping, StillOpen
<1>8. CASE TicketChanges
  <2>1. UNCHANGED <<at, opened, pass, poll>>
    BY <1>8 DEF TicketChanges
  <2>2. CASE asks' = asks
    BY <2>1, <2>2 DEF Turning, Looping, StillOpen
  <2>3. CASE asks' = {[a EXCEPT !.alone = FALSE] : a \in asks}
    <3>1. \A a \in asks : LET b == [a EXCEPT !.alone = FALSE] IN
            b \in asks' /\ b.op = a.op /\ b.opened = a.opened
      BY <1>0, <2>3, AskEdits DEF Same
    <3> QED
      BY <2>1, <3>1 DEF Turning, Looping, StillOpen
  <2> QED
    BY <1>8, <2>2, <2>3 DEF TicketChanges
<1>9. CASE ScanCode \/ ScanAnother \/ \E j \in DOMAIN scan.calls :
             CheckCode(j) \/ ScanAnswer(j) \/ ScanLost(j)
  <2>1. UNCHANGED <<at, opened, asks, pass, poll>>
    BY <1>9 DEF ScanCode, ScanAnother, CheckCode, ScanAnswer, ScanLost
  <2> QED
    BY <2>1 DEF Turning, Looping, StillOpen
<1>10. ASSUME NEW a \in asks, Located(a) PROVE Turning'
  <2>1. PICK n, others :
           /\ others = {IF b.op = "poll" THEN [b EXCEPT !.alone = FALSE] ELSE b : b \in Other(a)}
           /\ asks' = others \cup {n} /\ New(n, "poll", a.opened, ~Polling)
    BY <1>10, LocatedAsks
  <2>2. \A b \in asks : \E c \in asks' : (c.op = b.op \/ c.op = "poll") /\ c.opened = b.opened
    <3>1. SUFFICES ASSUME NEW b \in asks
          PROVE \E c \in asks' : (c.op = b.op \/ c.op = "poll") /\ c.opened = b.opened
      OBVIOUS
    <3>2. CASE b = a
      BY <2>1, <3>2 DEF New
    <3>3. CASE b # a /\ b.op = "poll"
      <4>1. [b EXCEPT !.alone = FALSE] \in asks'
        BY <2>1, <3>3 DEF Other
      <4>2. Same(b, [b EXCEPT !.alone = FALSE])
        BY <1>0, AskEdits
      <4> QED
        BY <4>1, <4>2 DEF Same
    <3>4. CASE b # a /\ b.op # "poll"
      BY <2>1, <3>4 DEF Other
    <3> QED
      BY <3>2, <3>3, <3>4
  <2>3. UNCHANGED <<at, opened, pass, poll>>
    BY <1>10 DEF Located
  <2> QED
    BY <2>2, <2>3 DEF Turning, Looping, StillOpen
<1>11. ASSUME NEW a \in asks, NotLocated(a) PROVE Turning'
  <2>1. UNCHANGED <<at, opened, pass>> /\ asks' = Other(a)
    BY <1>11 DEF NotLocated
  <2>2. CASE StillOpen(a)
    <3>1. poll'.on = poll.on /\ poll'.watch = poll.watch /\ (poll'.timer \/ poll'.strays > 0)
      BY <1>11, <2>2, NextLoop DEF NotLocated
    <3> QED
      BY <2>1, <3>1 DEF Turning, Looping
  <2>3. CASE ~StillOpen(a)
    <3>1. poll' = poll
      BY <1>11, <2>3 DEF NotLocated
    <3>2. Looping => Looping'
      BY <2>1, <2>3, <3>1, OthersGoOn
    <3> QED
      BY <2>1, <3>1, <3>2 DEF Turning
  <2> QED
    BY <2>2, <2>3
<1>12. ASSUME NEW a \in asks,
             ReadTicket(a) \/ IssueCode(a) \/ RefuseCode(a) \/ AskLost(a) \/ TicketsAnswer(a)
       PROVE  Turning'
  <2>1. UNCHANGED <<at, opened, pass, poll>>
    BY <1>12 DEF ReadTicket, IssueCode, RefuseCode, AskLost, TicketsAnswer
  <2>2. Looping => Looping'
    <3>1. CASE \E b : Same(a, b) /\ asks' = Other(a) \cup {b}
      BY <2>1, <3>1, CallGoesOn
    <3>2. CASE asks' = Other(a) /\ a.op = "list"
      BY <2>1, <3>2, OthersGoOn
    <3>3. \/ \E b : Same(a, b) /\ asks' = Other(a) \cup {b}
          \/ asks' = Other(a) /\ a.op = "list"
      <4>1. AskTyped(a) /\ row.status \in Detail /\ Failed \in Detail /\ 0 \in Nat
        BY <1>0 DEF TicketTyped, PhoneTyped, Detail
      <4>2. CASE ReadTicket(a)
        BY <4>1, <4>2, AskEdits DEF ReadTicket
      <4>3. CASE IssueCode(a)
        <5>1. row'.code \in Nat
          BY <1>12, <4>3, TypedStep DEF TicketNext, TicketTyped, PhoneTyped
        <5>2. a.op = "poll"
          BY <4>1, <4>3 DEF IssueCode, AskTyped, Awaited
        <5> QED
          BY <4>1, <4>3, <5>1, <5>2, AskEdits DEF IssueCode
      <4>4. CASE RefuseCode(a)
        BY <4>1, <4>4, AskEdits DEF RefuseCode
      <4>5. CASE AskLost(a)
        BY <4>1, <4>5, AskEdits DEF AskLost
      <4>6. CASE TicketsAnswer(a)
        BY <4>1, <4>6, AskEdits DEF TicketsAnswer, Answered
      <4> QED
        BY <1>12, <4>2, <4>3, <4>4, <4>5, <4>6
    <3> QED
      BY <3>1, <3>2, <3>3
  <2> QED
    BY <2>1, <2>2 DEF Turning
<1>13. ASSUME NEW a \in asks, EventAnswer(a) \/ ScreenGone(a) PROVE Turning'
  <2>1. /\ UNCHANGED <<at, opened, pass, poll>> /\ Other(a) \subseteq asks'
        /\ a.op \notin {"locate", "poll"} \/ ~StillOpen(a)
    BY <1>13 DEF EventAnswer, ScreenGone, Answered, With
  <2>2. Looping => Looping'
    BY <2>1, OthersGoOn
  <2> QED
    BY <2>1, <2>2 DEF Turning
<1>14. ASSUME NEW a \in asks, LoadAnswer(a) \/ StatusAnswer(a) PROVE Turning'
  <2>1. /\ UNCHANGED <<at, opened>> /\ at = "ticket" /\ a.op \notin {"locate", "poll"}
    BY <1>14 DEF LoadAnswer, StatusAnswer, Answered, StillOpen
  <2>2. CASE a.detail = Failed
    <3>1. pass'.shown = pass.shown /\ poll' = poll /\ asks' = Other(a)
      BY <1>14, <2>2 DEF LoadAnswer, StatusAnswer, TicketTyped, PhoneTyped
    <3>2. Looping => Looping'
      BY <2>1, <3>1, OthersGoOn
    <3> QED
      BY <2>1, <3>1, <3>2 DEF Turning
  <2>3. CASE a.detail # Failed
    <3>1. Follows(a.detail, poll, Other(a)) /\ poll \in LoopState
      BY <1>14, <2>3 DEF LoadAnswer, StatusAnswer, TicketTyped, PhoneTyped, LoopState
    <3>2. pass'.shown = a.detail
      BY <1>14, <2>3 DEF LoadAnswer, StatusAnswer, TicketTyped, PhoneTyped
    <3>3. \A b \in Other(a) : AskTyped(b)
      BY <1>0 DEF Other
    <3>4. poll.on => \/ \E b \in Other(a) : b.op \in {"locate", "poll"} /\ StillOpen(b)
                     \/ poll.timer \/ poll.strays > 0
      BY <2>1 DEF Turning, Looping, Other
    <3> QED
      BY <2>1, <3>1, <3>2, <3>3, <3>4, FollowsTurns
  <2> QED
    BY <2>2, <2>3
<1>15. ASSUME NEW a \in asks, PollAnswer(a) PROVE Turning'
  <2> DEFINE ends == a.detail \notin OpenTicketState \cup {Failed}
             next == IF poll.on /\ ~ends THEN Scheduled(poll) ELSE poll
  <2>1. UNCHANGED <<at, opened>> /\ at = "ticket"
    BY <1>15 DEF PollAnswer, StillOpen
  <2>2. /\ next \in LoopState /\ next.on = poll.on /\ next.watch = poll.watch
        /\ next.on /\ ~ends => next.timer \/ next.strays > 0
    BY NextLoop
  <2>3. CASE a.detail = Failed
    <3>1. pass'.shown = pass.shown /\ poll' = next
      BY <1>15, <2>3 DEF PollAnswer, TicketTyped, PhoneTyped
    <3>2. ~ends
      BY <2>3
    <3> HIDE DEF next, ends
    <3> QED
      BY <2>1, <2>2, <3>1, <3>2 DEF Turning, Looping
  <2>4. CASE a.detail # Failed
    <3>1. Follows(a.detail, next, Other(a))
      BY <1>15, <2>4 DEF PollAnswer
    <3>2. pass'.shown = a.detail
      BY <1>15, <2>4 DEF PollAnswer, TicketTyped, PhoneTyped
    <3>3. \A b \in Other(a) : AskTyped(b)
      BY <1>0 DEF Other
    <3>4. CASE a.detail = "ACTIVE"
      <4>1. ~ends
        BY <3>4 DEF OpenTicketState
      <4> HIDE DEF next, ends
      <4> QED
        BY <2>1, <2>2, <3>1, <3>2, <3>3, <4>1, FollowsTurns
    <3>5. CASE a.detail # "ACTIVE"
      <4> HIDE DEF next, ends
      <4>1. ~poll'.on
        BY <2>2, <3>1, <3>3, <3>5, FollowsKeeps
      <4> QED
        BY <3>2, <3>5, <4>1 DEF Turning
    <3> QED
      BY <3>4, <3>5
  <2> QED
    BY <2>3, <2>4
<1>16. CASE StreamIssues \/ CodeRunsOut
  <2>1. UNCHANGED <<at, opened, pass, poll>>
    BY <1>16, OldCodes
  <2>2. \A a \in asks : Older(a) \in asks' /\ Same(a, Older(a))
    BY <1>16, OldCodes
  <2> QED
    BY <2>1, <2>2 DEF Turning, Looping, StillOpen, Same
<1> QED
  BY <1>1, <1>2, <1>3, <1>4, <1>5, <1>6, <1>7, <1>8, <1>9, <1>10, <1>11, <1>12, <1>13, <1>14,
     <1>15, <1>16 DEF TicketNext

-----------------------------------------------------------------------------
\* Only a poll brings a code.
LEMMA PollsBringCodes ==
  ASSUME TicketTyped, NEW a \in asks, Issued(a) \/ a.code = Awaited
  PROVE  a.op = "poll"
BY DEF TicketTyped, PhoneTyped, AskTyped, Issued, Awaited

\* A poll that was alone stays so while no poll begins and no code is issued.
LEMMA StillAlone ==
  ASSUME LonePolls, \A b \in asks' : b.op = "poll" => b \in asks, row'.code = row.code
  PROVE  LonePolls'
BY DEF LonePolls, Issued

\* So it does while one call is answered in part, if it gets no new code.
LEMMA AnsweredAlone ==
  ASSUME LonePolls, NEW a \in asks, NEW b, Same(a, b), b.alone = a.alone,
         asks' = Other(a) \cup {b},
         Issued(b) => b.code = row'.code \/ (b.code = a.code /\ row'.code = row.code),
         row'.code = row.code \/ a.op = "poll"
  PROVE  LonePolls'
<1> SUFFICES ASSUME NEW c \in asks', c.op = "poll", c.alone
             PROVE  /\ \A d \in asks' : d.op = "poll" => d = c
                    /\ Issued(c) => c.code = row'.code
  BY DEF LonePolls, Issued
<1>1. CASE c = b
  <2>1. a.op = "poll" /\ a.alone
    BY <1>1 DEF Same
  <2>2. \A d \in asks' : d.op = "poll" => d = c
    BY <1>1, <2>1 DEF LonePolls, Other
  <2> QED
    BY <1>1, <2>1, <2>2 DEF LonePolls, Issued
<1>2. CASE c # b
  <2>1. c \in asks /\ c # a
    BY <1>2 DEF Other
  <2>2. a.op # "poll" /\ b.op # "poll"
    BY <2>1 DEF LonePolls, Same
  <2> QED
    BY <2>1, <2>2 DEF LonePolls, Other, Issued
<1> QED
  BY <1>1, <1>2

\* The code on the screen stays the last one while codes under way are not dropped.
LEMMA StaysLast ==
  ASSUME CodeIsLast, pass'.code \in {0, pass.code}, row'.code = row.code, missed => missed',
         \A a \in asks : Issued(a) /\ a.op = "poll" =>
            missed' \/ \E b \in asks' : b.op = "poll" /\ Issued(b)
  PROVE  CodeIsLast'
BY DEF CodeIsLast, Issued

\* A poll that is alone has the last code, and the screen has it when none is under way.
LEMMA CodesStep ==
  ASSUME TicketTyped, LonePolls, CodeIsLast, TicketNext
  PROVE  LonePolls' /\ CodeIsLast'
<1>0. \A a \in asks : AskTyped(a)
  BY DEF TicketTyped, PhoneTyped
<1>1. CASE ReadEntry \/ OpenTicket \/ LeaveTicket \/ RefreshTicket \/ TimerFires \/ WatchFires
  <2>1. asks \subseteq asks' /\ \A b \in asks' : b.op = "poll" => b \in asks
    <3>1. ASSUME NEW as, NEW op \in AskOp \ {"poll"}
          PROVE  as \subseteq With(as, op) /\ \A b \in With(as, op) : b.op = "poll" => b \in as
      <4>1. PICK n : With(as, op) = as \cup {n} /\ New(n, op, opened, TRUE)
        BY WithNew
      <4> QED
        BY <4>1 DEF New
    <3>2. ASSUME NEW t \in Nat PROVE NewAsk(asks, "load", t).op = "load"
      <4>1. New(NewAsk(asks, "load", t), "load", t, TRUE)
        BY NewAsks DEF AskOp
      <4> QED
        BY <4>1 DEF New
    <3>3. opened + 1 \in Nat
      BY DEF TicketTyped
    <3> QED
      BY <1>1, <3>1, <3>2, <3>3
      DEF ReadEntry, OpenTicket, LeaveTicket, RefreshTicket, TimerFires, WatchFires, AskOp
  <2>2. pass'.code \in {0, pass.code} /\ UNCHANGED <<row, missed>>
    BY <1>1 DEF ReadEntry, OpenTicket, LeaveTicket, RefreshTicket, TimerFires, WatchFires, Blank
  <2> QED
    BY <2>1, <2>2, StillAlone, StaysLast
<1>2. CASE RenewTicket
  <2>1. PICK n : With(asks, "load") = asks \cup {n} /\ New(n, "load", opened, TRUE)
    BY WithNew DEF AskOp
  <2>2. \A a \in With(asks, "load") : AskTyped(a)
    BY <1>0, <2>1 DEF New
  <2>3. Follows(pass.shown, Stopped, With(asks, "load")) /\ Stopped \in LoopState
    BY <1>2, PollEdits DEF RenewTicket
  <2>4. /\ With(asks, "load") \subseteq asks'
        /\ \A b \in asks' : b \in With(asks, "load") \/ b.op = "locate"
    BY <2>2, <2>3, FollowsKeeps
  <2>5. pass'.code = pass.code /\ UNCHANGED <<row, missed>>
    BY <1>2 DEF RenewTicket, TicketTyped, PhoneTyped
  <2>6. asks \subseteq asks' /\ \A b \in asks' : b.op = "poll" => b \in asks
    BY <2>1, <2>4 DEF New
  <2> QED
    BY <2>5, <2>6, StillAlone, StaysLast
<1>3. CASE TicketChanges
  <2>1. CASE row.status = "ACTIVE" /\ UNCHANGED <<asks, missed>>
    <3>1. row'.code = row.code /\ pass' = pass
      BY <1>3, <2>1 DEF TicketChanges, TicketTyped, PhoneTyped
    <3> QED
      BY <2>1, <3>1, StillAlone, StaysLast
  <2>2. CASE missed' = TRUE /\ asks' = {[a EXCEPT !.alone = FALSE] : a \in asks}
    <3>1. \A b \in asks' : b.alone = FALSE
      <4>1. \A a \in asks : [a EXCEPT !.alone = FALSE].alone = FALSE
        BY <1>0, AskEdits
      <4> QED
        BY <2>2, <4>1
    <3> QED
      BY <2>2, <3>1 DEF LonePolls, CodeIsLast
  <2> QED
    BY <1>3, <2>1, <2>2 DEF TicketChanges
<1>4. CASE ScanCode \/ ScanAnother \/ \E j \in DOMAIN scan.calls :
             CheckCode(j) \/ ScanAnswer(j) \/ ScanLost(j)
  <2>1. UNCHANGED <<asks, pass, missed>>
    BY <1>4 DEF ScanCode, ScanAnother, CheckCode, ScanAnswer, ScanLost
  <2>2. row'.code = row.code
    BY <1>4 DEF ScanCode, ScanAnother, CheckCode, ScanAnswer, ScanLost, TicketTyped, PhoneTyped
  <2> QED
    BY <2>1, <2>2, StillAlone, StaysLast
<1>5. ASSUME NEW a \in asks, Located(a) PROVE LonePolls' /\ CodeIsLast'
  <2>1. PICK n, others :
           /\ others = {IF b.op = "poll" THEN [b EXCEPT !.alone = FALSE] ELSE b : b \in Other(a)}
           /\ asks' = others \cup {n} /\ New(n, "poll", a.opened, ~Polling)
    BY <1>5, LocatedAsks
  <2>2. \A b \in asks : b.op = "poll" => LET c == [b EXCEPT !.alone = FALSE] IN
           c \in others /\ c.op = "poll" /\ c.code = b.code /\ c.alone = FALSE
    <3>1. \A b \in asks : b.op = "poll" => [b EXCEPT !.alone = FALSE] \in others
      BY <1>5, <2>1 DEF Other, Located
    <3> QED
      BY <1>0, <3>1, AskEdits DEF Same
  <2>3. \A c \in others : c.op = "poll" => c.alone = FALSE /\ Polling
    BY <2>1, <2>2 DEF Other, Polling
  <2>4. UNCHANGED <<row, pass, missed>>
    BY <1>5 DEF Located
  <2>5. n.op = "poll" /\ n.alone = ~Polling /\ ~Issued(n)
    BY <2>1 DEF New, Issued, Awaited
  <2>6. LonePolls'
    <3> SUFFICES ASSUME NEW c \in asks', c.op = "poll", c.alone
                 PROVE  /\ \A d \in asks' : d.op = "poll" => d = c
                        /\ Issued(c) => c.code = row'.code
      BY DEF LonePolls, Issued
    <3>1. c = n
      BY <2>1, <2>3
    <3> QED
      BY <2>1, <2>3, <2>5, <3>1
  <2>7. CodeIsLast'
    <3>1. \A b \in asks : Issued(b) /\ b.op = "poll" => \E c \in asks' : c.op = "poll" /\ Issued(c)
      BY <2>1, <2>2 DEF Issued
    <3> QED
      BY <2>4, <3>1, StaysLast
  <2> QED
    BY <2>6, <2>7
<1>6. ASSUME NEW a \in asks, NotLocated(a) \/ EventAnswer(a) \/ ScreenGone(a)
      PROVE  LonePolls' /\ CodeIsLast'
  <2>1. UNCHANGED <<row, pass>> /\ Other(a) \subseteq asks'
    BY <1>6 DEF NotLocated, EventAnswer, ScreenGone, With
  <2>2. \A b \in asks' : b.op = "poll" => b \in asks
    <3>1. PICK n : With(Other(a), "list") = Other(a) \cup {n} /\ New(n, "list", opened, TRUE)
      BY WithNew DEF AskOp
    <3> QED
      BY <1>6, <3>1 DEF NotLocated, EventAnswer, ScreenGone, New, Other
  <2>3. (missed => missed') /\ (a.op = "poll" /\ Issued(a) => missed')
    <3>1. CASE NotLocated(a) \/ EventAnswer(a)
      BY <3>1 DEF NotLocated, EventAnswer, Answered
    <3>2. CASE ScreenGone(a)
      <4>1. missed' = (missed \/ Issued(a))
        BY <3>2 DEF ScreenGone
      <4> QED
        BY <4>1
    <3> QED
      BY <1>6, <3>1, <3>2
  <2> QED
    BY <2>1, <2>2, <2>3, StillAlone, StaysLast DEF Other
<1>7. ASSUME NEW a \in asks, LoadAnswer(a) \/ StatusAnswer(a) PROVE LonePolls' /\ CodeIsLast'
  <2>1. a.op # "poll" /\ UNCHANGED <<row, missed>>
    BY <1>7 DEF LoadAnswer, StatusAnswer, Answered
  <2>2. pass'.code \in {0, pass.code}
    BY <1>7 DEF LoadAnswer, StatusAnswer, TicketTyped, PhoneTyped
  <2>3. Other(a) \subseteq asks' /\ \A b \in asks' : b.op = "poll" => b \in asks
    <3>1. CASE asks' = Other(a)
      BY <3>1 DEF Other
    <3>2. CASE Follows(a.detail, poll, Other(a))
      <4>1. poll \in LoopState /\ \A b \in Other(a) : AskTyped(b)
        BY <1>0, NextLoop DEF Other
      <4>2. Other(a) \subseteq asks' /\ \A b \in asks' : b \in Other(a) \/ b.op = "locate"
        BY <3>2, <4>1, FollowsKeeps
      <4> QED
        BY <4>2 DEF Other
    <3> QED
      BY <1>7, <3>1, <3>2 DEF LoadAnswer, StatusAnswer
  <2> QED
    BY <2>1, <2>2, <2>3, StillAlone, StaysLast DEF Other
<1>8. ASSUME NEW a \in asks, PollAnswer(a) PROVE LonePolls' /\ CodeIsLast'
  <2> DEFINE ends == a.detail \notin OpenTicketState \cup {Failed}
             shows == Issued(a) /\ ~ends
             next == IF poll.on /\ ~ends THEN Scheduled(poll) ELSE poll
  <2>1. a.op = "poll" /\ UNCHANGED row
    BY <1>8 DEF PollAnswer, Answered
  <2>2. Other(a) \subseteq asks' /\ \A b \in asks' : b.op = "poll" => b \in Other(a)
    <3>1. CASE asks' = Other(a)
      BY <3>1 DEF Other
    <3>2. CASE Follows(a.detail, next, Other(a))
      <4>1. next \in LoopState /\ \A b \in Other(a) : AskTyped(b)
        BY <1>0, NextLoop DEF Other
      <4> HIDE DEF next
      <4>2. Other(a) \subseteq asks' /\ \A b \in asks' : b \in Other(a) \/ b.op = "locate"
        BY <3>2, <4>1, FollowsKeeps
      <4> QED
        BY <4>2 DEF Other
    <3> QED
      BY <1>8, <3>1, <3>2 DEF PollAnswer
  <2>3. /\ missed' = IF shows THEN ~a.alone ELSE missed \/ Issued(a)
        /\ pass'.code = IF shows THEN a.code ELSE pass.code
    BY <1>8 DEF PollAnswer, TicketTyped, PhoneTyped
  <2>4. LonePolls'
    BY <2>1, <2>2, StillAlone DEF Other
  <2>5. CASE shows
    <3>1. pass'.code = a.code /\ (~a.alone => missed')
      BY <2>3, <2>5
    <3>2. a.alone => a.code = row.code
      BY <2>1, <2>5 DEF LonePolls
    <3>3. CodeIsLast'
      BY <2>1, <3>1, <3>2 DEF CodeIsLast
    <3> QED
      BY <2>4, <3>3
  <2>6. CASE ~shows
    <3>1. missed' = (missed \/ Issued(a)) /\ pass'.code = pass.code
      BY <2>3, <2>6
    <3>2. CodeIsLast'
      <4>1. CASE Issued(a)
        BY <3>1, <4>1 DEF CodeIsLast
      <4>2. CASE ~Issued(a)
        <5>1. missed' = missed
          BY <3>1, <4>2 DEF TicketTyped
        <5> QED
          BY <2>1, <2>2, <3>1, <4>2, <5>1, StaysLast DEF Other
      <4> QED
        BY <4>1, <4>2
    <3> QED
      BY <2>4, <3>2
  <2> QED
    BY <2>5, <2>6
<1>9. ASSUME NEW a \in asks,
             ReadTicket(a) \/ RefuseCode(a) \/ AskLost(a) \/ TicketsAnswer(a)
      PROVE  LonePolls' /\ CodeIsLast'
  <2>0. UNCHANGED <<row, pass>> /\ (missed => missed')
    BY <1>9 DEF ReadTicket, RefuseCode, AskLost, TicketsAnswer
  <2>1. AskTyped(a) /\ row.status \in Detail /\ Failed \in Detail /\ 0 \in Nat
    BY <1>0 DEF TicketTyped, PhoneTyped, Detail
  <2>2. CASE ReadTicket(a) \/ (AskLost(a) /\ asks' = Other(a) \cup {[a EXCEPT !.detail = Failed]})
             \/ (TicketsAnswer(a) /\ asks' # Other(a))
    <3>1. PICK b : Same(a, b) /\ asks' = Other(a) \cup {b} /\ b.code = a.code /\ b.alone = a.alone
      <4>1. \A d \in Detail : LET b == [a EXCEPT !.detail = d] IN
              Same(a, b) /\ b.code = a.code /\ b.alone = a.alone
        BY <2>1, AskEdits
      <4>2. LET b == [a EXCEPT !.detail = NotYet, !.tries = @ + 1] IN
              Same(a, b) /\ b.code = a.code /\ b.alone = a.alone
        BY <2>1, AskEdits
      <4>3. CASE ReadTicket(a)
        BY <2>1, <4>1, <4>3 DEF ReadTicket
      <4>4. CASE asks' = Other(a) \cup {[a EXCEPT !.detail = Failed]}
        BY <2>1, <4>1, <4>4
      <4>5. CASE TicketsAnswer(a) /\ asks' # Other(a)
        <5>1. asks' = Other(a) \cup {[a EXCEPT !.detail = NotYet, !.tries = @ + 1]}
          BY <4>5 DEF TicketsAnswer
        <5> QED
          BY <4>2, <5>1
      <4> QED
        BY <2>2, <4>3, <4>4, <4>5
    <3>2. LonePolls'
      BY <2>0, <3>1, AnsweredAlone
    <3>3. CodeIsLast'
      BY <2>0, <3>1, StaysLast DEF Same, Other, Issued
    <3> QED
      BY <3>2, <3>3
  <2>3. CASE TicketsAnswer(a) /\ asks' = Other(a)
    <3>1. a.op # "poll"
      BY <2>3 DEF TicketsAnswer, Answered
    <3> QED
      BY <2>0, <2>3, <3>1, StillAlone, StaysLast DEF Other
  <2>4. CASE \/ RefuseCode(a)
             \/ AskLost(a) /\ missed' = TRUE /\ asks' = Other(a) \cup {[a EXCEPT !.code = 0]}
    <3>1. PICK b : Same(a, b) /\ asks' = Other(a) \cup {b} /\ b.code = 0 /\ b.alone = a.alone
      <4>1. LET b == [a EXCEPT !.code = 0] IN Same(a, b) /\ b.code = 0 /\ b.alone = a.alone
        BY <2>1, AskEdits
      <4> QED
        BY <2>4, <4>1 DEF RefuseCode
    <3>2. LonePolls'
      BY <2>0, <3>1, AnsweredAlone DEF Issued
    <3>3. missed' \/ ~Issued(a)
      BY <2>4 DEF RefuseCode, Issued, Awaited
    <3>4. CodeIsLast'
      BY <2>0, <3>1, <3>3, StaysLast DEF Other
    <3> QED
      BY <3>2, <3>4
  <2> QED
    BY <1>9, <2>2, <2>3, <2>4 DEF AskLost
<1>10. ASSUME NEW a \in asks, IssueCode(a) PROVE LonePolls' /\ CodeIsLast'
  <2>1. row'.code = row.issued + 1 /\ row.issued + 1 \in Nat /\ row.issued + 1 > 0
    BY <1>10 DEF IssueCode, NewCode, TicketTyped, PhoneTyped
  <2>2. a.op = "poll"
    BY <1>10, PollsBringCodes DEF IssueCode
  <2>3. PICK b : /\ Same(a, b) /\ asks' = Other(a) \cup {b}
                 /\ b.code = row'.code /\ b.alone = a.alone
    <3>1. asks' = Other(a) \cup {[a EXCEPT !.code = row'.code]}
      BY <1>10 DEF IssueCode
    <3>2. row'.code \in Nat /\ AskTyped(a)
      BY <1>0, <2>1
    <3>3. LET b == [a EXCEPT !.code = row'.code] IN
            Same(a, b) /\ b.code = row'.code /\ b.alone = a.alone
      BY <2>2, <3>2, AskEdits
    <3> QED
      BY <3>1, <3>3
  <2>4. LonePolls'
    BY <2>2, <2>3, AnsweredAlone
  <2>5. b \in asks' /\ b.op = "poll" /\ Issued(b)
    BY <2>1, <2>2, <2>3 DEF Same, Issued
  <2>6. CodeIsLast'
    BY <2>5 DEF CodeIsLast, Issued
  <2> QED
    BY <2>4, <2>6
<1>11. CASE StreamIssues \/ CodeRunsOut
  <2>1. missed' = TRUE /\ asks' = {Older(a) : a \in asks}
    BY <1>11, OldCodes
  <2>2. LonePolls'
    <3> SUFFICES ASSUME NEW c \in asks', c.op = "poll", c.alone
                 PROVE  /\ \A d \in asks' : d.op = "poll" => d = c
                        /\ Issued(c) => c.code = row'.code
      BY DEF LonePolls, Issued
    <3>1. PICK a \in asks : c = Older(a)
      BY <2>1
    <3>2. a.op = "poll" /\ a.alone /\ ~Issued(a) /\ c.code = a.code
      BY <1>11, <3>1, OldCodes DEF Same
    <3>3. \A b \in asks : b.op = "poll" => b = a
      BY <3>2 DEF LonePolls
    <3>4. ASSUME NEW d \in asks', d.op = "poll" PROVE d = c
      <4>1. PICK b \in asks : d = Older(b)
        BY <2>1
      <4>2. b.op = "poll"
        BY <1>11, <3>4, <4>1, OldCodes DEF Same
      <4> QED
        BY <3>1, <3>3, <4>1, <4>2
    <3> QED
      BY <3>2, <3>4 DEF Issued
  <2>3. CodeIsLast'
    BY <2>1 DEF CodeIsLast
  <2> QED
    BY <2>2, <2>3
<1> QED
  BY <1>1, <1>2, <1>3, <1>4, <1>5, <1>6, <1>7, <1>8, <1>9, <1>10, <1>11 DEF TicketNext

-----------------------------------------------------------------------------
\* The one code that is being checked.
Call(code, last, outcome, sure) ==
  [code |-> code, last |-> last, outcome |-> outcome, sure |-> sure]

\* Answering the only call leaves none.
LEMMA OnlyCall ==
  ASSUME NEW calls, NEW c, calls = <<c>>, NEW j \in DOMAIN calls
  PROVE  calls[j] = c /\ RemoveAt(calls, j) = <<>>
BY DEF RemoveAt

\* What becomes of the host's screen when its only call is edited.
LEMMA OneEdit ==
  ASSUME NEW code, NEW last, NEW outcome, NEW sure, NEW o,
         scan = [paused |-> scan.paused, busy |-> scan.busy, calls |-> scan.calls,
                 result |-> scan.result, sure |-> scan.sure],
         scan.calls = <<Call(code, last, outcome, sure)>>
  PROVE  [scan EXCEPT !.calls[1].outcome = o]
           = [scan EXCEPT !.calls = <<Call(code, last, o, sure)>>]
<1>1. \A d : [scan.calls EXCEPT ![1] = d] = <<d>>
  OBVIOUS
<1>2. [[code |-> code, last |-> last, outcome |-> outcome, sure |-> sure] EXCEPT !.outcome = o]
        = [code |-> code, last |-> last, outcome |-> o, sure |-> sure]
  OBVIOUS
<1>3. [scan.calls EXCEPT ![1].outcome = o] = <<Call(code, last, o, sure)>>
  BY <1>1, <1>2 DEF Call
<1> QED
  BY <1>3

\* A screen with one call, whose fields are what they should be.
LEMMA InStepWithOne ==
  ASSUME NEW code, NEW last, NEW outcome, NEW sure, NEW paused, NEW result, NEW proven,
         scan' = [paused |-> paused, busy |-> TRUE, calls |-> <<Call(code, last, outcome, sure)>>,
                  result |-> result, sure |-> proven],
         code # 0, outcome = NotYet /\ sure => code = last /\ row'.status # "USED",
         outcome = "rejected" => ~sure, result = "rejected" => ~proven
  PROVE  ScannerInStep'
<1> DEFINE c == Call(code, last, outcome, sure)
<1>1. c.code = code /\ c.last = last /\ c.outcome = outcome /\ c.sure = sure
  BY DEF Call
<1>2. c = [code |-> c.code, last |-> c.last, outcome |-> c.outcome, sure |-> c.sure]
  BY DEF Call
<1>3. ScanCall(c)'
  <2> HIDE DEF c
  <2> QED
    BY <1>1, <1>2 DEF ScanCall
<1>4. scan'.calls = <<c>> /\ scan'.busy = TRUE /\ scan'.result = result /\ scan'.sure = proven
  OBVIOUS
<1> HIDE DEF c
<1>5. scan' = [paused |-> scan'.paused, busy |-> scan'.busy, calls |-> scan'.calls,
               result |-> scan'.result, sure |-> scan'.sure]
  OBVIOUS
<1> QED
  BY <1>3, <1>4, <1>5 DEF ScannerInStep

\* The scanner stays in step with the ticket.
LEMMA ScannerStep ==
  ASSUME TicketTyped, CodeIsLast, ScannerInStep, TicketNext
  PROVE  ScannerInStep'
<1>0. scan = [paused |-> scan.paused, busy |-> scan.busy, calls |-> scan.calls,
              result |-> scan.result, sure |-> scan.sure]
  BY DEF ScannerInStep
<1>1. CASE ScanCode
  <2>1. scan.calls = <<>> /\ pass.code # 0 /\ row' = row
    BY <1>1 DEF ScanCode, MayScan, CodeIsShown, ScannerInStep
  <2> DEFINE sure == row.status = "ACTIVE" /\ ~missed /\ ~Polling
             r == Call(pass.code, row.code, NotYet, sure)
  <2>2. scan' = [scan EXCEPT !.paused = TRUE, !.busy = TRUE, !.result = "none",
                   !.calls = Append(scan.calls, r)]
    BY <1>1 DEF ScanCode, Call
  <2>3. sure => pass.code = row.code /\ row'.status # "USED"
    BY <2>1 DEF CodeIsLast, Polling
  <2> HIDE DEF r, sure
  <2>4. Append(scan.calls, r) = <<r>>
    BY <2>1
  <2>5. scan' = [paused |-> TRUE, busy |-> TRUE, calls |-> <<r>>, result |-> "none",
                 sure |-> scan.sure]
    BY <1>0, <2>2, <2>4
  <2>6. PICK code, last, proven, old :
          code = pass.code /\ last = row.code /\ proven = sure /\ old = scan.sure
    OBVIOUS
  <2>7. scan' = [paused |-> TRUE, busy |-> TRUE, calls |-> <<Call(code, last, NotYet, proven)>>,
                 result |-> "none", sure |-> old]
    BY <2>5, <2>6 DEF r
  <2>8. code # 0 /\ (proven => code = last /\ row'.status # "USED")
    BY <2>1, <2>3, <2>6
  <2>9. NotYet # "rejected"
    BY DEF NotYet
  <2> QED
    BY <2>7, <2>8, <2>9, InStepWithOne
<1>2. CASE ScanAnother
  <2>1. scan.calls = <<>>
    BY <1>2 DEF ScanAnother, ScannerInStep
  <2> QED
    BY <1>2, <2>1 DEF ScanAnother, ScannerInStep, NoScan
<1>3. ASSUME NEW j \in DOMAIN scan.calls, CheckCode(j) \/ ScanLost(j) \/ ScanAnswer(j)
      PROVE  ScannerInStep'
  <2>1. PICK c : scan.calls = <<c>> /\ ScanCall(c) /\ scan.busy
    BY DEF ScannerInStep
  <2>2. PICK code, last, outcome, sure : c = Call(code, last, outcome, sure)
    BY <2>1 DEF ScanCall, Call
  <2>3. /\ code # 0
        /\ outcome = NotYet /\ sure => code = last /\ row.status # "USED"
        /\ outcome = "rejected" => ~sure
    BY <2>1, <2>2 DEF ScanCall, Call
  <2>4. PICK paused, result, proven :
          scan = [paused |-> paused, busy |-> TRUE, calls |-> <<Call(code, last, outcome, sure)>>,
                  result |-> result, sure |-> proven]
    <3>1. scan.busy = TRUE
      BY <2>1 DEF ScannerInStep
    <3> QED
      BY <1>0, <2>1, <2>2, <3>1
  <2>5. result = "rejected" => ~proven
    BY <2>4 DEF ScannerInStep
  <2>6. scan.calls = <<Call(code, last, outcome, sure)>>
    BY <2>1, <2>2
  <2>7. scan.calls[j] = Call(code, last, outcome, sure) /\ RemoveAt(scan.calls, j) = <<>>
    BY <2>6, OnlyCall
  <2>8. /\ scan.calls[j].code = code /\ scan.calls[j].last = last
        /\ scan.calls[j].outcome = outcome /\ scan.calls[j].sure = sure
    <3>1. LET c0 == Call(code, last, outcome, sure) IN
          c0.code = code /\ c0.last = last /\ c0.outcome = outcome /\ c0.sure = sure
      BY DEF Call
    <3> QED
      BY <2>7, <3>1
  <2>9. CASE CheckCode(j)
    <3> DEFINE ok == row.status = "ACTIVE" /\ code = row.code
               good == sure /\ row.status \in {"ACTIVE", "USED"} /\ last = row.code
               told == IF ok THEN "accepted" ELSE "rejected"
    <3>1. outcome = NotYet
      BY <2>8, <2>9 DEF CheckCode
    <3>2. scan' = [scan EXCEPT !.calls[j].outcome = told, !.calls[j].sure = good]
      BY <2>8, <2>9 DEF CheckCode
    <3>3. good => ok
      BY <2>3, <3>1
    <3>4. PICK o, s : o = told /\ s = good
      OBVIOUS
    <3>5. (o = "rejected" => ~s) /\ o # NotYet
      BY <3>3, <3>4 DEF NotYet
    <3> HIDE DEF ok, good, told
    <3>6. scan' = [scan EXCEPT !.calls = <<Call(code, last, o, s)>>]
      <4> DEFINE d == Call(code, last, o, sure)
                 e == Call(code, last, o, s)
                 one == [scan EXCEPT !.calls = <<d>>]
      <4>1. j = 1
        BY <2>6
      <4>2. [scan EXCEPT !.calls[1].outcome = o] = one
        BY <1>0, <2>6, OneEdit
      <4>3. one.calls = <<d>> /\ one.calls[1] = d
        BY <1>0
      <4>4. [d EXCEPT !.sure = s] = e
        BY DEF Call
      <4>5. [one.calls EXCEPT ![1] = e] = <<e>>
        BY <4>3
      <4>6. [one EXCEPT !.calls[1].sure = s] = [scan EXCEPT !.calls = <<e>>]
        <5> HIDE DEF d, e
        <5> QED
          BY <1>0, <4>3, <4>4, <4>5
      <4>7. scan' = [scan EXCEPT !.calls[1].outcome = o, !.calls[1].sure = s]
        BY <3>2, <3>4, <4>1
      <4> HIDE DEF one, d, e
      <4>8. scan' = [one EXCEPT !.calls[1].sure = s]
        BY <4>2, <4>7
      <4> QED
        BY <4>6, <4>8 DEF e
    <3>7. scan' = [paused |-> paused, busy |-> TRUE, calls |-> <<Call(code, last, o, s)>>,
                   result |-> result, sure |-> proven]
      BY <2>4, <3>6
    <3> QED
      BY <2>3, <2>5, <3>5, <3>7, InStepWithOne
  <2>10. CASE ScanLost(j)
    <3>1. scan' = [scan EXCEPT !.calls = <<Call(code, last, Failed, sure)>>]
      <4>1. [scan EXCEPT !.calls[1].outcome = Failed]
              = [scan EXCEPT !.calls = <<Call(code, last, Failed, sure)>>]
        BY <1>0, <2>6, OneEdit
      <4> QED
        BY <2>10, <4>1 DEF ScanLost
    <3>2. scan' = [paused |-> paused, busy |-> TRUE, calls |-> <<Call(code, last, Failed, sure)>>,
                   result |-> result, sure |-> proven]
      BY <2>4, <3>1
    <3>3. Failed # NotYet /\ Failed # "rejected"
      BY DEF Failed, NotYet
    <3> QED
      BY <2>3, <2>5, <3>2, <3>3, InStepWithOne
  <2>11. CASE ScanAnswer(j)
    <3> DEFINE told == IF outcome = Failed /\ result = "accepted" THEN result ELSE outcome
    <3>1. scan' = [scan EXCEPT !.busy = FALSE, !.calls = <<>>, !.sure = sure, !.result = told]
      BY <2>4, <2>7, <2>8, <2>11 DEF ScanAnswer
    <3>2. told = "rejected" => ~sure
      BY <2>3
    <3>3. PICK t : t = told
      OBVIOUS
    <3> HIDE DEF told
    <3>4. scan' = [paused |-> paused, busy |-> FALSE, calls |-> <<>>, result |-> t, sure |-> sure]
      BY <2>4, <3>1, <3>3
    <3> QED
      BY <3>2, <3>3, <3>4 DEF ScannerInStep
  <2> QED
    BY <1>3, <2>9, <2>10, <2>11
<1>4. ASSUME UNCHANGED scan, row.status # "USED" => row'.status # "USED"
      PROVE  ScannerInStep'
  BY <1>4 DEF ScannerInStep, ScanCall
<1>5. CASE \/ ReadEntry \/ OpenTicket \/ LeaveTicket \/ RefreshTicket \/ RenewTicket \/ TimerFires
           \/ WatchFires
           \/ \E a \in asks :
                \/ Located(a) \/ NotLocated(a) \/ ReadTicket(a) \/ RefuseCode(a) \/ EventAnswer(a)
                \/ TicketsAnswer(a) \/ LoadAnswer(a) \/ StatusAnswer(a) \/ PollAnswer(a)
                \/ ScreenGone(a) \/ AskLost(a)
  <2>1. UNCHANGED <<row, scan>>
    BY <1>5 DEF ReadEntry, OpenTicket, LeaveTicket, RefreshTicket, RenewTicket, TimerFires, WatchFires,
                Located, NotLocated, ReadTicket, RefuseCode, EventAnswer, TicketsAnswer, LoadAnswer,
                StatusAnswer, PollAnswer, ScreenGone, AskLost
  <2> QED
    BY <1>4, <2>1
<1>6. CASE TicketChanges \/ \E a \in asks : IssueCode(a)
  <2>1. UNCHANGED scan /\ row'.status # "USED"
    BY <1>6 DEF TicketChanges, IssueCode, MayIssue, NewCode, TicketTyped, PhoneTyped
  <2> QED
    BY <1>4, <2>1
<1>7. CASE StreamIssues \/ CodeRunsOut
  <2>1. UNCHANGED scan /\ row'.status = row.status
    BY <1>7, OldCodes
  <2> QED
    BY <1>4, <2>1
<1> QED
  BY <1>1, <1>2, <1>3, <1>5, <1>6, <1>7 DEF TicketNext

-----------------------------------------------------------------------------
\* What the steps of the four pages keep of the ticket and the scanner.
TicketInv == TicketTyped /\ Turning /\ LonePolls /\ CodeIsLast /\ ScannerInStep

\* These parts hold in every reachable state: the ticket screen keeps them, and the
\* other pages leave its variables alone.
LEMMA TicketInvariant == Spec => []TicketInv
<1>1. Init => TicketInv
  <2> SUFFICES ASSUME Init PROVE TicketInv
    OBVIOUS
  <2>1. asks = {} /\ scan = NoScan /\ at = "entry" /\ opened = 0 /\ missed = FALSE
    BY DEF Init, TicketInit
  <2>2. pass = Blank /\ poll = Off /\ row = [status |-> "ACTIVE", code |-> 0, issued |-> 0]
    BY DEF Init, TicketInit
  <2>3. TicketTyped
    BY <2>1, <2>2 DEF TicketTyped, PhoneTyped, Blank, Off, TicketState
  <2>4. Turning /\ LonePolls /\ CodeIsLast
    BY <2>1, <2>2 DEF Turning, LonePolls, CodeIsLast, Blank
  <2>5. ScannerInStep
    BY <2>1 DEF ScannerInStep, NoScan
  <2> QED
    BY <2>3, <2>4, <2>5 DEF TicketInv
<1>2. TicketInv /\ [Next]_vars => TicketInv'
  <2> SUFFICES ASSUME TicketInv, [Next]_vars PROVE TicketInv'
    OBVIOUS
  <2>1. CASE TicketNext
    BY <2>1, TypedStep, TurningStep, CodesStep, ScannerStep DEF TicketInv
  <2>2. CASE UNCHANGED ticketVars
    <3>1. /\ row' = row /\ at' = at /\ opened' = opened /\ asks' = asks /\ pass' = pass
          /\ poll' = poll /\ scan' = scan /\ missed' = missed
      BY <2>2 DEF ticketVars
    <3>2. TicketTyped'
      BY <3>1 DEF TicketInv, TicketTyped, PhoneTyped
    <3>3. Turning' /\ LonePolls' /\ CodeIsLast'
      BY <3>1 DEF TicketInv, Turning, Looping, StillOpen, LonePolls, CodeIsLast, Issued
    <3>4. ScannerInStep'
      BY <3>1 DEF TicketInv, ScannerInStep, ScanCall
    <3> QED
      BY <3>2, <3>3, <3>4 DEF TicketInv
  <2> QED
    BY <2>1, <2>2 DEF Next, vars
<1> QED
  BY <1>1, <1>2, PTL DEF Spec

\* A ticket that is shown as open keeps asking for codes and for what became of it,
\* however its loops, answers and refreshes come together.
THEOREM TicketKeepsAsking == Spec => []OpenTicketKeepsAsking
<1>1. TicketInv => OpenTicketKeepsAsking
  BY DEF TicketInv, Turning, OpenTicketKeepsAsking
<1> QED
  BY <1>1, TicketInvariant, PTL

\* A code that was the last one, scanned while the ticket was open and still the last
\* one when it is checked, is not rejected: no poll brought a newer one, no stream
\* issued one that the phone did not read, and it has not run out.
THEOREM GoodCodesPass == Spec => []GoodCodeIsAccepted
<1>1. TicketInv => GoodCodeIsAccepted
  BY DEF TicketInv, ScannerInStep, GoodCodeIsAccepted
<1> QED
  BY <1>1, TicketInvariant, PTL

-----------------------------------------------------------------------------
(* The invitations.                                                        *)

InviteCall ==
  [op : Answering \cup {"list", "get", "check", "again"}, id : Invitation \cup {0}]
Shown == [Invitation -> Status \cup {"none"}]
InviteAnswer == [call : InviteCall, ok : BOOLEAN, status : Shown]

InviteTyped ==
  /\ sent \in Seq(InviteCall) /\ answers \in Seq(InviteAnswer)
  /\ \A c \in Calls : IF c.op = "list" THEN face # "window" ELSE c.id \in Invitation
  /\ invited \in [Invitation -> Status] /\ cards \in Shown
  /\ window \in [id : Invitation \cup {0}, shown : Invitation \cup {0}, status : Status \cup {"none"},
                 loading : BOOLEAN, busy : BOOLEAN]
  /\ memory \in [told : SUBSET Invitation, mixed : BOOLEAN, crossed : BOOLEAN]
  /\ face = "window" => cards = NoCards

\* A card of a confirmed invitation is not pending; a window that shows one as pending is
\* about to read it again.
ConfirmedIsKnown ==
  ~memory.crossed =>
    /\ \A v \in memory.told : cards[v] # "PENDING"
    /\ face = "window" /\ window.id # 0 /\ window.status = "PENDING" /\ window.shown \in memory.told =>
         \E c \in Calls : c.op \in {"check", "again"} /\ c.id = window.shown

\* Whatever is under way concerns the invitation the window was opened for.
WindowIsOne ==
  face = "window" /\ window.id # 0 /\ ~memory.mixed =>
    /\ \A c \in Calls : c.id = window.id
    /\ window.status = "PENDING" => window.shown = window.id

InviteParts == InviteTyped /\ ConfirmedIsKnown /\ WindowIsOne

InviteInv == IF screen = "invitations" THEN InviteParts ELSE memory.told = {}

\* What a sequence holds after another one was put behind it, or an element was taken out.
LEMMA Put ==
  ASSUME NEW S, NEW s \in Seq(S), NEW t \in Seq(S)
  PROVE  s \o t \in Seq(S) /\ Range(s \o t) = Range(s) \cup Range(t)
<1>1. /\ s \o t \in Seq(S) /\ Len(s \o t) = Len(s) + Len(t)
      /\ \A j \in 1..(Len(s) + Len(t)) : (s \o t)[j] = IF j <= Len(s) THEN s[j] ELSE t[j - Len(s)]
      /\ Len(s) \in Nat /\ Len(t) \in Nat
  BY ConcatProperties
<1>2. DOMAIN s = 1..Len(s) /\ DOMAIN t = 1..Len(t) /\ DOMAIN (s \o t) = 1..(Len(s) + Len(t))
  BY <1>1
<1>3. \A j \in DOMAIN s : j \in DOMAIN (s \o t) /\ (s \o t)[j] = s[j]
  BY <1>1, <1>2
<1>4. \A j \in DOMAIN t : j + Len(s) \in DOMAIN (s \o t) /\ (s \o t)[j + Len(s)] = t[j]
  BY <1>1, <1>2
<1>5. \A j \in DOMAIN (s \o t) : (s \o t)[j] \in Range(s) \cup Range(t)
  <2> SUFFICES ASSUME NEW j \in DOMAIN (s \o t) PROVE (s \o t)[j] \in Range(s) \cup Range(t)
    OBVIOUS
  <2>1. CASE j <= Len(s)
    <3>1. j \in DOMAIN s /\ (s \o t)[j] = s[j]
      BY <1>1, <1>2, <2>1
    <3> QED
      BY <3>1 DEF Range
  <2>2. CASE ~(j <= Len(s))
    <3>1. j - Len(s) \in DOMAIN t /\ (s \o t)[j] = t[j - Len(s)]
      BY <1>1, <1>2, <2>2
    <3> QED
      BY <3>1 DEF Range
  <2> QED
    BY <2>1, <2>2
<1>6. Range(s) \subseteq Range(s \o t) /\ Range(t) \subseteq Range(s \o t)
  BY <1>3, <1>4 DEF Range
<1>7. Range(s \o t) \subseteq Range(s) \cup Range(t)
  BY <1>5 DEF Range
<1> QED
  BY <1>1, <1>6, <1>7

\* The same where an element is taken out of it.
LEMMA Taken ==
  ASSUME NEW S, NEW s \in Seq(S), NEW i \in DOMAIN s
  PROVE  /\ RemoveAt(s, i) \in Seq(S) /\ s[i] \in S
         /\ Range(RemoveAt(s, i)) \subseteq Range(s)
         /\ Range(s) \subseteq Range(RemoveAt(s, i)) \cup {s[i]}
<1>1. RemoveAt(s, i) \in Seq(S) /\ s[i] \in S
  BY Removal, Element
<1>2. PICK r : r = RemoveAt(s, i)
  OBVIOUS
<1>3. /\ \A j \in DOMAIN r : \E k \in DOMAIN s : r[j] = s[k]
      /\ \A k \in DOMAIN s : k = i \/ \E j \in DOMAIN r : r[j] = s[k]
  BY <1>2, Removal
<1>4. Range(r) \subseteq Range(s)
  BY <1>3 DEF Range
<1>5. Range(s) \subseteq Range(r) \cup {s[i]}
  BY <1>3 DEF Range
<1> QED
  BY <1>1, <1>2, <1>4, <1>5

\* One call, and none.
LEMMA Single ==
  ASSUME NEW S, NEW x \in S
  PROVE  <<x>> \in Seq(S) /\ Range(<<x>>) = {x}
BY DEF Range

\* No call.
LEMMA Nothing ==
  ASSUME NEW S
  PROVE  <<>> \in Seq(S) /\ Range(<<>>) = {}
BY DEF Range

\* What a step does to the calls under way: one may go, others come.
Moves(gone, came) ==
  /\ sent' \in Seq(InviteCall) /\ answers' \in Seq(InviteAnswer)
  /\ Calls' \subseteq Calls \cup came /\ Calls \subseteq Calls' \cup gone /\ came \subseteq Calls'

\* The calls under way, as the members of the two sequences.
LEMMA CallsAre ==
  /\ Calls = Range(sent) \cup {a.call : a \in Range(answers)}
  /\ Calls' = Range(sent') \cup {a.call : a \in Range(answers')}
BY DEF Calls, Range

\* Calls are sent.
LEMMA Sends ==
  ASSUME InviteTyped, NEW cs \in Seq(InviteCall), Send(cs)
  PROVE  Moves({}, Range(cs))
<1>1. sent' = sent \o cs /\ answers' = answers /\ sent \in Seq(InviteCall) /\ answers \in Seq(InviteAnswer)
  BY DEF Send, InviteTyped
<1>2. sent' \in Seq(InviteCall) /\ Range(sent') = Range(sent) \cup Range(cs)
  BY <1>1, Put
<1> QED
  BY <1>1, <1>2, CallsAre DEF Moves

\* The server executes a call.
LEMMA Executes ==
  ASSUME InviteTyped, NEW i \in DOMAIN sent, NEW a \in InviteAnswer, a.call = sent[i], Executed(i, a)
  PROVE  Moves({}, {})
<1>1. sent' = RemoveAt(sent, i) /\ answers' = Append(answers, a) /\ sent \in Seq(InviteCall)
      /\ answers \in Seq(InviteAnswer)
  BY DEF Executed, InviteTyped
<1>2. /\ sent' \in Seq(InviteCall) /\ Range(sent') \subseteq Range(sent)
      /\ Range(sent) \subseteq Range(sent') \cup {a.call}
  BY <1>1, Taken
<1>3. answers' = answers \o <<a>>
  BY <1>1, AppendIsConcat
<1>4. <<a>> \in Seq(InviteAnswer) /\ Range(<<a>>) = {a}
  BY Single
<1>4a. answers' \in Seq(InviteAnswer) /\ Range(answers') = Range(answers) \cup {a}
  <2>1. answers \o <<a>> \in Seq(InviteAnswer) /\ Range(answers \o <<a>>) = Range(answers) \cup Range(<<a>>)
    BY <1>1, <1>4, Put
  <2> QED
    BY <1>3, <1>4, <2>1
<1>5. sent[i] \in Range(sent)
  BY DEF Range
<1> QED
  BY <1>2, <1>4a, <1>5, CallsAre DEF Moves

\* An answer comes or is lost, and its handler goes on with further calls.
LEMMA AnswerGoes ==
  ASSUME InviteTyped, NEW i \in DOMAIN answers, NEW cs \in Seq(InviteCall),
         answers' = RemoveAt(answers, i), sent' = sent \o cs
  PROVE  Moves({answers[i].call}, Range(cs))
<1>1. sent \in Seq(InviteCall) /\ answers \in Seq(InviteAnswer)
  BY DEF InviteTyped
<1>2. sent' \in Seq(InviteCall) /\ Range(sent') = Range(sent) \cup Range(cs)
  BY <1>1, Put
<1>3. /\ answers' \in Seq(InviteAnswer) /\ Range(answers') \subseteq Range(answers)
      /\ Range(answers) \subseteq Range(answers') \cup {answers[i]}
  BY <1>1, Taken
<1>4. \A c \in Calls : c \in Calls' \/ c = answers[i].call
  BY <1>2, <1>3, CallsAre
<1>5. Calls' \subseteq Calls \cup Range(cs) /\ Range(cs) \subseteq Calls'
  BY <1>2, <1>3, CallsAre
<1> QED
  BY <1>2, <1>3, <1>4, <1>5 DEF Moves

\* An answer comes and nothing is asked.
LEMMA OnlyAnswered ==
  ASSUME InviteTyped, NEW i \in DOMAIN answers, Received(i)
  PROVE  Moves({answers[i].call}, {})
<1>1. answers' = RemoveAt(answers, i) /\ sent' = sent \o <<>>
  BY ConcatEmptySeq DEF InviteTyped, Received
<1>2. <<>> \in Seq(InviteCall) /\ Range(<<>>) = {}
  BY Nothing
<1> QED
  BY <1>1, <1>2, AnswerGoes

\* A call is lost before the server has executed it.
LEMMA LostOne ==
  ASSUME InviteTyped, NEW i \in DOMAIN sent, NEW cs \in Seq(InviteCall),
         sent' = RemoveAt(sent, i) \o cs, answers' = answers
  PROVE  Moves({sent[i]}, Range(cs))
<1>1. sent \in Seq(InviteCall) /\ answers \in Seq(InviteAnswer)
  BY DEF InviteTyped
<1>2. /\ RemoveAt(sent, i) \in Seq(InviteCall) /\ Range(RemoveAt(sent, i)) \subseteq Range(sent)
      /\ Range(sent) \subseteq Range(RemoveAt(sent, i)) \cup {sent[i]}
  BY <1>1, Taken
<1>3. sent' \in Seq(InviteCall) /\ Range(sent') = Range(RemoveAt(sent, i)) \cup Range(cs)
  BY <1>2, Put
<1> QED
  BY <1>1, <1>2, <1>3, CallsAre DEF Moves

\* The types, once the fields are known.
LEMMA InviteTypes ==
  ASSUME InviteTyped, NEW gone, NEW came, Moves(gone, came),
         \A c \in came : IF c.op = "list" THEN face' # "window" ELSE c.id \in Invitation,
         invited' \in [Invitation -> Status], cards' \in Shown,
         window' \in [id : Invitation \cup {0}, shown : Invitation \cup {0},
                      status : Status \cup {"none"}, loading : BOOLEAN, busy : BOOLEAN],
         memory' \in [told : SUBSET Invitation, mixed : BOOLEAN, crossed : BOOLEAN],
         face' = "window" => face = "window" /\ cards' = NoCards
  PROVE  InviteTyped'
BY DEF InviteTyped, Moves

\* A step that leaves what is shown alone, and no reading of the window without another.
LEMMA StaysKnown ==
  ASSUME ConfirmedIsKnown, NEW gone, NEW came, Moves(gone, came), face' = face, cards' = cards,
         memory'.told = memory.told, memory.crossed => memory'.crossed,
         window'.id = window.id, window'.status = window.status, window'.shown = window.shown,
         face = "window" =>
           \A c \in gone : c.op \in {"check", "again"} =>
             memory'.crossed \/ \E d \in came : d.op \in {"check", "again"} /\ d.id = c.id
  PROVE  ConfirmedIsKnown'
BY DEF ConfirmedIsKnown, Moves

\* A step of a window that asks for nothing else.
LEMMA StaysOne ==
  ASSUME WindowIsOne, NEW gone, NEW came, Moves(gone, came), face' = face, memory'.mixed = memory.mixed,
         window'.id = window.id, window'.status = window.status, window'.shown = window.shown,
         face = "window" /\ window.id # 0 /\ ~memory.mixed => \A c \in came : c.id = window.id
  PROVE  WindowIsOne'
BY DEF WindowIsOne, Moves

\* Outside the window.
LEMMA NoWindow ==
  ASSUME face' # "window", memory'.crossed \/ \A v \in memory'.told : cards'[v] # "PENDING"
  PROVE  ConfirmedIsKnown' /\ WindowIsOne'
BY DEF ConfirmedIsKnown, WindowIsOne

\* One call of these screens is sent.
LEMMA Asked ==
  ASSUME InviteTyped, NEW op \in Answering \cup {"list", "get", "check", "again"},
         NEW v \in Invitation \cup {0}, Send(<<Ask(op, v)>>)
  PROVE  \E c : c.op = op /\ c.id = v /\ Moves({}, {c})
<1>1. Ask(op, v) \in InviteCall /\ Ask(op, v).op = op /\ Ask(op, v).id = v
  BY DEF Ask, InviteCall
<1>2. PICK c \in InviteCall : c = Ask(op, v)
  BY <1>1
<1>3. <<c>> \in Seq(InviteCall) /\ Range(<<c>>) = {c} /\ Send(<<c>>)
  BY <1>2, Single
<1>4. Moves({}, Range(<<c>>))
  BY <1>3, Sends
<1> QED
  BY <1>1, <1>2, <1>3, <1>4

\* The user reads the cards or presses a button.
LEMMA AskedStep ==
  ASSUME InviteParts, ReadCards \/ (\E op \in Answering, v \in Invitation : Press(op, v))
                      \/ (\E op \in Answering : PressInWindow(op))
  PROVE  InviteParts'
<1>1. /\ InviteTyped /\ ConfirmedIsKnown /\ WindowIsOne
  BY DEF InviteParts
<1>2. PICK op \in Answering \cup {"list"}, v \in Invitation \cup {0} :
        /\ Send(<<Ask(op, v)>>) /\ UNCHANGED <<face, invited, cards, memory>>
        /\ IF op = "list" THEN face \in Lists ELSE v \in Invitation
        /\ \/ face \in Lists /\ window' = window
           \/ v = window.id /\ window' = [window EXCEPT !.busy = TRUE]
  <2>1. CASE ReadCards
    BY <2>1 DEF ReadCards
  <2>2. ASSUME NEW op \in Answering, NEW v \in Invitation, Press(op, v)
        PROVE  /\ Send(<<Ask(op, v)>>) /\ UNCHANGED <<face, invited, cards, memory>>
               /\ face \in Lists /\ window' = window
    BY <2>2 DEF Press
  <2>3. ASSUME NEW op \in Answering, PressInWindow(op)
        PROVE  /\ Send(<<Ask(op, window.id)>>) /\ UNCHANGED <<face, invited, cards, memory>>
               /\ window.id \in Invitation /\ window' = [window EXCEPT !.busy = TRUE]
    BY <1>1, <2>3 DEF PressInWindow, InviteTyped
  <2> QED
    BY <2>1, <2>2, <2>3 DEF Answering
<1>3. PICK c : c.op = op /\ c.id = v /\ Moves({}, {c})
  <2>1. op \in Answering \cup {"list", "get", "check", "again"} /\ Send(<<Ask(op, v)>>)
    BY <1>2
  <2> QED
    BY <1>1, <2>1, Asked
<1>4. /\ window'.id = window.id /\ window'.status = window.status /\ window'.shown = window.shown
      /\ window' \in [id : Invitation \cup {0}, shown : Invitation \cup {0},
                      status : Status \cup {"none"}, loading : BOOLEAN, busy : BOOLEAN]
  BY <1>1, <1>2 DEF InviteTyped
<1>5. InviteTyped'
  BY <1>1, <1>2, <1>3, <1>4, InviteTypes DEF InviteTyped, Lists, Answering
<1>6. ConfirmedIsKnown'
  BY <1>1, <1>2, <1>3, <1>4, StaysKnown
<1>7. WindowIsOne'
  BY <1>1, <1>2, <1>3, <1>4, StaysOne DEF Lists
<1> QED
  BY <1>5, <1>6, <1>7 DEF InviteParts

\* A window is opened or closed.
LEMMA WindowStep ==
  ASSUME InviteParts, CloseWindow \/ \E v \in Invitation : OpenWindow(v)
  PROVE  InviteParts'
<1>1. /\ InviteTyped /\ ConfirmedIsKnown /\ WindowIsOne
  BY DEF InviteParts
<1>2. ASSUME NEW v \in Invitation, OpenWindow(v)
      PROVE  InviteParts'
  <2>1. /\ Send(<<Ask("get", v)>>) /\ UNCHANGED <<face, invited, cards>> /\ face = "window"
        /\ window' = [window EXCEPT !.id = v, !.loading = TRUE, !.shown = 0, !.status = "none"]
        /\ memory' = [memory EXCEPT !.mixed = \E c \in Calls : c.id # v]
    BY <1>2 DEF OpenWindow, Opening
  <2>2. PICK d : d.op = "get" /\ d.id = v /\ Moves({}, {d})
    BY <1>1, <2>1, Asked
  <2>3. /\ window'.id = v /\ window'.status = "none"
        /\ window' \in [id : Invitation \cup {0}, shown : Invitation \cup {0},
                        status : Status \cup {"none"}, loading : BOOLEAN, busy : BOOLEAN]
    BY <1>1, <2>1 DEF InviteTyped
  <2>4. PICK b \in BOOLEAN : memory' = [memory EXCEPT !.mixed = b] /\ (~b => \A c \in Calls : c.id = v)
    BY <2>1
  <2>5. /\ memory'.told = memory.told /\ memory'.crossed = memory.crossed /\ memory'.mixed = b
        /\ memory' \in [told : SUBSET Invitation, mixed : BOOLEAN, crossed : BOOLEAN]
    BY <1>1, <2>4 DEF InviteTyped
  <2>6. InviteTyped'
    BY <1>1, <2>1, <2>2, <2>3, <2>5, InviteTypes DEF InviteTyped
  <2>7. ConfirmedIsKnown'
    BY <1>1, <2>1, <2>3, <2>5 DEF ConfirmedIsKnown, Status
  <2>8. WindowIsOne'
    BY <2>2, <2>3, <2>4, <2>5 DEF WindowIsOne, Moves
  <2> QED
    BY <2>6, <2>7, <2>8 DEF InviteParts
<1>3. CASE CloseWindow
  <2>1. /\ window' = Closed /\ UNCHANGED <<face, invited, cards, memory, sent, answers>>
    BY <1>3 DEF CloseWindow, exchange
  <2>2. Calls' = Calls
    BY <2>1 DEF Calls
  <2>3. /\ window'.id = 0
        /\ window' \in [id : Invitation \cup {0}, shown : Invitation \cup {0},
                        status : Status \cup {"none"}, loading : BOOLEAN, busy : BOOLEAN]
    BY <2>1 DEF Closed
  <2>4. InviteTyped'
    BY <1>1, <2>1, <2>2, <2>3 DEF InviteTyped
  <2>5. ConfirmedIsKnown' /\ WindowIsOne'
    BY <1>1, <2>1, <2>3 DEF ConfirmedIsKnown, WindowIsOne
  <2> QED
    BY <2>4, <2>5 DEF InviteParts
<1> QED
  BY <1>2, <1>3

\* The server answers, or the host takes an invitation back.
LEMMA ServerStep ==
  ASSUME InviteParts, (\E v \in Invitation : TakeBack(v)) \/ (\E i \in DOMAIN sent : Answers(i) \/ Reads(i))
  PROVE  InviteParts'
<1>1. InviteTyped /\ ConfirmedIsKnown /\ WindowIsOne
  BY DEF InviteParts
<1>2. SUFFICES /\ Moves({}, {}) /\ invited' \in [Invitation -> Status]
               /\ UNCHANGED <<face, cards, window, memory>>
  <2> SUFFICES ASSUME Moves({}, {}), invited' \in [Invitation -> Status],
                      UNCHANGED <<face, cards, window, memory>>
               PROVE  InviteParts'
    OBVIOUS
  <2>1. InviteTyped'
    BY <1>1, InviteTypes DEF InviteTyped
  <2>2. ConfirmedIsKnown'
    BY <1>1, StaysKnown
  <2>3. WindowIsOne'
    BY <1>1, StaysOne
  <2> QED
    BY <2>1, <2>2, <2>3 DEF InviteParts
<1>3. ASSUME NEW v \in Invitation, TakeBack(v)
      PROVE  /\ Moves({}, {}) /\ invited' \in [Invitation -> Status]
             /\ UNCHANGED <<face, cards, window, memory>>
  <2>1. /\ UNCHANGED <<face, cards, window, memory, sent, answers>>
        /\ invited' = [invited EXCEPT ![v] = "CANCELED"]
    BY <1>3 DEF TakeBack, exchange
  <2>2. Calls' = Calls
    BY <2>1 DEF Calls
  <2> QED
    BY <1>1, <2>1, <2>2 DEF Moves, InviteTyped, Status
<1>4. NoCards \in Shown /\ invited \in Shown /\ Listing \in Shown
  BY <1>1 DEF InviteTyped, NoCards, Shown, Listing
<1>5. ASSUME NEW i \in DOMAIN sent, Answers(i)
      PROVE  /\ Moves({}, {}) /\ invited' \in [Invitation -> Status]
             /\ UNCHANGED <<face, cards, window, memory>>
  <2>1. sent[i] \in InviteCall
    BY <1>1, Element DEF InviteTyped
  <2>2. PICK b \in BOOLEAN :
          /\ Executed(i, [call |-> sent[i], ok |-> b, status |-> NoCards])
          /\ invited' = invited \/ invited' = [invited EXCEPT ![sent[i].id] = Outcome(sent[i].op)]
    BY <1>5 DEF Answers
  <2>3. [call |-> sent[i], ok |-> b, status |-> NoCards] \in InviteAnswer
    BY <1>4, <2>1 DEF InviteAnswer
  <2>4. Moves({}, {})
    BY <1>1, <2>2, <2>3, Executes
  <2>5. invited' \in [Invitation -> Status]
    BY <1>1, <2>2 DEF InviteTyped, Outcome, Status
  <2> QED
    BY <1>5, <2>4, <2>5 DEF Answers
<1>6. ASSUME NEW i \in DOMAIN sent, Reads(i)
      PROVE  /\ Moves({}, {}) /\ invited' \in [Invitation -> Status]
             /\ UNCHANGED <<face, cards, window, memory>>
  <2>1. sent[i] \in InviteCall
    BY <1>1, Element DEF InviteTyped
  <2>2. PICK s \in Shown : Executed(i, [call |-> sent[i], ok |-> TRUE, status |-> s])
    BY <1>4, <1>6 DEF Reads
  <2>3. [call |-> sent[i], ok |-> TRUE, status |-> s] \in InviteAnswer
    BY <2>1 DEF InviteAnswer
  <2>4. Moves({}, {})
    BY <1>1, <2>2, <2>3, Executes
  <2>5. UNCHANGED <<face, invited, cards, window, memory>>
    BY <1>6 DEF Reads, invitationVars
  <2> QED
    BY <1>1, <2>4, <2>5 DEF InviteTyped
<1> QED
  BY <1>3, <1>5, <1>6

\* What is asked again once nothing is heard of a call.
LEMMA RetriesAre ==
  ASSUME NEW c \in InviteCall
  PROVE  /\ Retries(c) \in Seq(InviteCall)
         /\ \A d \in Range(Retries(c)) : d.op = "again" /\ d.id = c.id /\ c.op # "list"
         /\ face = "window" /\ c.op = "check" => \E d \in Range(Retries(c)) : d.op = "again" /\ d.id = c.id
<1>1. CASE face = "window" /\ c.op \in Answering \cup {"check"}
  <2>1. PICK d : d = Ask("again", c.id)
    OBVIOUS
  <2>2. d \in InviteCall /\ d.op = "again" /\ d.id = c.id
    BY <2>1 DEF Ask, InviteCall
  <2>3. Retries(c) = <<d>>
    BY <1>1, <2>1 DEF Retries
  <2>4. <<d>> \in Seq(InviteCall) /\ Range(<<d>>) = {d}
    BY <2>2, Single
  <2> QED
    BY <1>1, <2>2, <2>3, <2>4 DEF Answering
<1>2. CASE ~(face = "window" /\ c.op \in Answering \cup {"check"})
  <2>1. Retries(c) = <<>>
    BY <1>2 DEF Retries
  <2>2. <<>> \in Seq(InviteCall) /\ Range(<<>>) = {}
    BY Nothing
  <2> QED
    BY <1>2, <2>1, <2>2
<1> QED
  BY <1>1, <1>2

\* A call of which nothing is heard.
LEMMA GivenUp ==
  ASSUME InviteParts, NEW c \in Calls, Moves({c}, Range(Retries(c))), GivesUp(c)
  PROVE  InviteParts'
<1>1. InviteTyped /\ ConfirmedIsKnown /\ WindowIsOne
  BY DEF InviteParts
<1>2. c \in InviteCall
  <2>1. \A i \in DOMAIN sent : sent[i] \in InviteCall
    BY <1>1, Element DEF InviteTyped
  <2>2. \A i \in DOMAIN answers : answers[i] \in InviteAnswer
    BY <1>1, Element DEF InviteTyped
  <2>3. \A i \in DOMAIN answers : answers[i].call \in InviteCall
    BY <2>2 DEF InviteAnswer
  <2> QED
    BY <2>1, <2>3 DEF Calls, Range
<1>3. PICK came : came = Range(Retries(c))
  OBVIOUS
<1>4. /\ \A d \in came : d.op = "again" /\ d.id = c.id /\ c.op # "list"
      /\ face = "window" /\ c.op = "check" => \E d \in came : d.op = "again" /\ d.id = c.id
      /\ Moves({c}, came)
  BY <1>2, <1>3, RetriesAre
<1>5. /\ face' = face /\ invited' = invited
      /\ cards' = IF face = "profile" /\ c.op = "list" THEN NoCards ELSE cards
      /\ window' = [window EXCEPT !.loading = window.loading /\ c.op # "get",
                                  !.busy = window.busy /\ c.op # "again"]
      /\ memory' = [memory EXCEPT !.crossed = memory.crossed \/ c.op = "again"]
  BY DEF GivesUp
<1>6. /\ window'.id = window.id /\ window'.status = window.status /\ window'.shown = window.shown
      /\ window' \in [id : Invitation \cup {0}, shown : Invitation \cup {0},
                      status : Status \cup {"none"}, loading : BOOLEAN, busy : BOOLEAN]
  BY <1>1, <1>5 DEF InviteTyped
<1>7. /\ memory'.told = memory.told /\ memory'.mixed = memory.mixed
      /\ memory'.crossed = (memory.crossed \/ c.op = "again")
      /\ memory' \in [told : SUBSET Invitation, mixed : BOOLEAN, crossed : BOOLEAN]
  BY <1>1, <1>5 DEF InviteTyped
<1>8. NoCards \in Shown
  BY DEF NoCards, Shown
<1>9. \A d \in came : d.op # "list" /\ d.id \in Invitation
  BY <1>1, <1>4 DEF InviteTyped
<1>10. cards' \in Shown /\ (face = "window" => cards' = NoCards)
  BY <1>1, <1>5, <1>8 DEF InviteTyped
<1>11. InviteTyped'
  BY <1>1, <1>4, <1>5, <1>6, <1>7, <1>9, <1>10, InviteTypes DEF InviteTyped
<1>12. ConfirmedIsKnown'
  <2>1. CASE cards' = cards
    BY <1>1, <1>4, <1>5, <1>6, <1>7, <2>1, StaysKnown
  <2>2. CASE face = "profile" /\ cards' = NoCards
    <3>1. \A v \in memory'.told : cards'[v] # "PENDING"
      BY <1>7, <2>2 DEF NoCards
    <3> QED
      BY <1>5, <2>2, <3>1, NoWindow
  <2> QED
    BY <1>5, <2>1, <2>2
<1>13. WindowIsOne'
  BY <1>1, <1>4, <1>5, <1>6, <1>7, StaysOne DEF WindowIsOne
<1> QED
  BY <1>11, <1>12, <1>13 DEF InviteParts

\* A call or an answer is lost.
LEMMA LossStep ==
  ASSUME InviteParts, (\E i \in DOMAIN sent : InvitationCallLost(i))
                      \/ (\E i \in DOMAIN answers : InvitationAnswerLost(i))
  PROVE  InviteParts'
<1>1. InviteTyped
  BY DEF InviteParts
<1>2. ASSUME NEW i \in DOMAIN sent, InvitationCallLost(i)
      PROVE  InviteParts'
  <2>1. sent' = RemoveAt(sent, i) \o Retries(sent[i]) /\ answers' = answers /\ GivesUp(sent[i])
    BY <1>2 DEF InvitationCallLost, LoseCall
  <2>2. sent[i] \in InviteCall /\ sent[i] \in Calls
    BY <1>1, Element DEF InviteTyped, Calls, Range
  <2>3. Retries(sent[i]) \in Seq(InviteCall)
    BY <2>2, RetriesAre
  <2>4. Moves({sent[i]}, Range(Retries(sent[i])))
    BY <1>1, <2>1, <2>3, LostOne
  <2> QED
    BY <2>1, <2>2, <2>4, GivenUp
<1>3. ASSUME NEW i \in DOMAIN answers, InvitationAnswerLost(i)
      PROVE  InviteParts'
  <2>1. /\ answers' = RemoveAt(answers, i) /\ sent' = sent \o Retries(answers[i].call)
        /\ GivesUp(answers[i].call)
    BY <1>3 DEF InvitationAnswerLost, LoseAnswer
  <2>2. answers[i].call \in InviteCall /\ answers[i].call \in Calls
    <3>1. answers[i] \in InviteAnswer
      BY <1>1, Element DEF InviteTyped
    <3> QED
      BY <3>1 DEF InviteAnswer, Calls
  <2>3. Retries(answers[i].call) \in Seq(InviteCall)
    BY <2>2, RetriesAre
  <2>4. Moves({answers[i].call}, Range(Retries(answers[i].call)))
    BY <1>1, <2>1, <2>3, AnswerGoes
  <2> QED
    BY <2>1, <2>2, <2>4, GivenUp
<1> QED
  BY <1>2, <1>3

\* An answer comes.
LEMMA AnswerStep ==
  ASSUME InviteParts, NEW i \in DOMAIN answers,
         \/ ListAnswer(i) \/ GetAnswer(i) \/ CardSettled(i) \/ CardRefused(i)
         \/ WindowAccepted(i) \/ WindowDeclined(i) \/ WindowRefused(i) \/ TooLate(i)
  PROVE  InviteParts'
<1>1. /\ InviteTyped /\ ConfirmedIsKnown /\ WindowIsOne
      /\ invited \in [Invitation -> Status] /\ cards \in Shown
      /\ window \in [id : Invitation \cup {0}, shown : Invitation \cup {0},
                     status : Status \cup {"none"}, loading : BOOLEAN, busy : BOOLEAN]
      /\ memory \in [told : SUBSET Invitation, mixed : BOOLEAN, crossed : BOOLEAN]
      /\ face = "window" => cards = NoCards
  BY DEF InviteParts, InviteTyped
<1>2. PICK a \in InviteAnswer : a = answers[i]
  BY <1>1, Element DEF InviteTyped
<1>3. PICK c \in InviteCall : c = a.call
  BY <1>2 DEF InviteAnswer
<1>4. c \in Calls /\ a.status \in Shown
  BY <1>2, <1>3 DEF InviteAnswer, Calls
<1>5. IF c.op = "list" THEN face # "window" ELSE c.id \in Invitation
  BY <1>1, <1>4 DEF InviteTyped
<1>6. Received(i) => Moves({c}, {})
  BY <1>1, <1>2, <1>3, OnlyAnswered
<1>7. ASSUME NEW op \in Answering \cup {"list", "get", "check", "again"}, Continued(i, <<Ask(op, c.id)>>)
      PROVE  \E d : d.op = op /\ d.id = c.id /\ Moves({c}, {d})
  <2>1. PICK d : d = Ask(op, c.id)
    OBVIOUS
  <2>2. d \in InviteCall /\ d.op = op /\ d.id = c.id
    BY <2>1 DEF Ask, InviteCall
  <2>3. <<d>> \in Seq(InviteCall) /\ Range(<<d>>) = {d}
    BY <2>2, Single
  <2>4. answers' = RemoveAt(answers, i) /\ sent' = sent \o <<d>>
    BY <1>7, <2>1 DEF Continued
  <2>5. Moves({answers[i].call}, Range(<<d>>))
    BY <1>1, <2>3, <2>4, AnswerGoes
  <2> QED
    BY <1>2, <1>3, <2>2, <2>3, <2>5
<1>8. CASE ListAnswer(i)
  <2>1. /\ face \in Lists /\ Received(i) /\ cards' = Cards(a.status)
        /\ UNCHANGED <<face, invited, window>>
        /\ memory' = [memory EXCEPT !.crossed = Overtaken(a, Invitation)]
    BY <1>2, <1>8 DEF ListAnswer
  <2>2. \A v \in Invitation : cards'[v] = "PENDING" => a.status[v] = "PENDING"
    BY <2>1 DEF Cards
  <2>3. cards' \in Shown
    BY <1>4, <2>1 DEF Cards, Shown
  <2>4. PICK b \in BOOLEAN : b = Overtaken(a, Invitation)
    BY DEF Overtaken
  <2>5. /\ memory'.told = memory.told /\ memory'.crossed = b
        /\ memory' \in [told : SUBSET Invitation, mixed : BOOLEAN, crossed : BOOLEAN]
    BY <1>1, <2>1, <2>4
  <2>6. b \/ \A v \in memory'.told : cards'[v] # "PENDING"
    BY <1>1, <2>2, <2>4, <2>5 DEF Overtaken
  <2>7. face' # "window"
    BY <2>1 DEF Lists
  <2>8. InviteTyped'
    BY <1>1, <1>6, <2>1, <2>3, <2>5, <2>7, InviteTypes
  <2> QED
    BY <2>5, <2>6, <2>7, <2>8, NoWindow DEF InviteParts
<1>9. CASE GetAnswer(i)
  <2>1. /\ face = "window" /\ Received(i) /\ UNCHANGED <<face, invited, cards>>
        /\ \/ window' = [window EXCEPT !.shown = c.id, !.status = a.status[c.id], !.loading = FALSE]
           \/ window' = [window EXCEPT !.shown = c.id, !.status = a.status[c.id], !.busy = FALSE]
        /\ memory' = [memory EXCEPT !.crossed = Overtaken(a, {c.id})]
    BY <1>2, <1>3, <1>9 DEF GetAnswer
  <2>2. c.id \in Invitation /\ a.status[c.id] \in Status \cup {"none"}
    BY <1>4, <1>5, <2>1 DEF Shown
  <2>3. /\ window'.id = window.id /\ window'.shown = c.id /\ window'.status = a.status[c.id]
        /\ window' \in [id : Invitation \cup {0}, shown : Invitation \cup {0},
                        status : Status \cup {"none"}, loading : BOOLEAN, busy : BOOLEAN]
    BY <1>1, <2>1, <2>2
  <2>4. PICK b \in BOOLEAN : b = Overtaken(a, {c.id})
    BY DEF Overtaken
  <2>5. /\ memory'.told = memory.told /\ memory'.crossed = b /\ memory'.mixed = memory.mixed
        /\ memory' \in [told : SUBSET Invitation, mixed : BOOLEAN, crossed : BOOLEAN]
    BY <1>1, <2>1, <2>4
  <2>6. b \/ c.id \notin memory.told \/ a.status[c.id] # "PENDING"
    BY <2>4 DEF Overtaken
  <2>7. InviteTyped'
    BY <1>1, <1>6, <2>1, <2>3, <2>5, InviteTypes
  <2>8. ConfirmedIsKnown'
    <3>1. \A v \in memory'.told : cards'[v] # "PENDING"
      BY <1>1, <2>1, <2>5 DEF NoCards
    <3> QED
      BY <2>3, <2>5, <2>6, <3>1 DEF ConfirmedIsKnown
  <2>9. WindowIsOne'
    BY <1>1, <1>4, <1>6, <2>1, <2>3, <2>5 DEF WindowIsOne, Moves
  <2> QED
    BY <2>7, <2>8, <2>9 DEF InviteParts
<1>10. CASE CardSettled(i)
  <2>1. /\ face \in Lists /\ c.op \in Answering /\ face' \in {face, "event"}
        /\ cards' = SettledCard(c) /\ UNCHANGED <<invited, window>>
        /\ memory' = [memory EXCEPT !.told = memory.told \cup {c.id}]
        /\ Continued(i, <<Ask("list", c.id)>>) \/ Continued(i, <<>>)
    BY <1>2, <1>3, <1>10 DEF CardSettled
  <2>2. c.id \in Invitation
    BY <1>5, <2>1 DEF Answering
  <2>3. Outcome(c.op) \in Status \ {"PENDING"}
    BY DEF Outcome, Status
  <2>4. PICK s \in (Status \cup {"none"}) \ {"PENDING"} : cards' = [cards EXCEPT ![c.id] = s]
    BY <2>1, <2>3 DEF SettledCard, Status
  <2>5. cards' \in Shown /\ cards'[c.id] # "PENDING" /\ \A v \in Invitation \ {c.id} : cards'[v] = cards[v]
    BY <1>1, <2>2, <2>4 DEF Shown
  <2>6. /\ memory'.told = memory.told \cup {c.id} /\ memory'.crossed = memory.crossed
        /\ memory' \in [told : SUBSET Invitation, mixed : BOOLEAN, crossed : BOOLEAN]
    BY <1>1, <2>1, <2>2
  <2>7. memory'.crossed \/ \A v \in memory'.told : cards'[v] # "PENDING"
    BY <1>1, <2>5, <2>6 DEF ConfirmedIsKnown
  <2>8. face' # "window"
    BY <2>1 DEF Lists
  <2>9. PICK came : Moves({c}, came) /\ \A d \in came : d.op = "list"
    <3>1. CASE Continued(i, <<Ask("list", c.id)>>)
      <4>1. PICK d : d.op = "list" /\ Moves({c}, {d})
        BY <1>7, <2>2, <3>1
      <4> QED
        BY <4>1
    <3>2. CASE Continued(i, <<>>)
      <4>1. Moves({c}, Range(<<>>))
        BY <1>1, <1>2, <1>3, <3>2, AnswerGoes, Nothing DEF Continued
      <4> QED
        BY <4>1, Nothing
    <3> QED
      BY <2>1, <3>1, <3>2
  <2>10. InviteTyped'
    BY <1>1, <2>1, <2>5, <2>6, <2>8, <2>9, InviteTypes
  <2> QED
    BY <2>7, <2>8, <2>10, NoWindow DEF InviteParts
<1>11. CASE CardRefused(i) \/ TooLate(i)
  <2>1. /\ face # "window" /\ Received(i) /\ UNCHANGED <<face, invited, cards, window, memory>>
    BY <1>11 DEF CardRefused, TooLate, invitationVars, Lists
  <2>2. InviteTyped'
    BY <1>1, <1>6, <2>1, InviteTypes
  <2> QED
    BY <1>1, <1>6, <2>1, <2>2, StaysKnown, StaysOne DEF InviteParts
<1>12. CASE WindowAccepted(i)
  <2>1. /\ face = "window" /\ Received(i) /\ window' = Closed /\ face' = "event"
        /\ memory' = [memory EXCEPT !.told = memory.told \cup {c.id}] /\ UNCHANGED <<invited, cards>>
    BY <1>2, <1>3, <1>12 DEF WindowAccepted
  <2>2. /\ memory' \in [told : SUBSET Invitation, mixed : BOOLEAN, crossed : BOOLEAN]
        /\ window' \in [id : Invitation \cup {0}, shown : Invitation \cup {0},
                        status : Status \cup {"none"}, loading : BOOLEAN, busy : BOOLEAN]
    BY <1>1, <1>5, <2>1 DEF Closed
  <2>3. \A v \in Invitation : cards'[v] # "PENDING"
    BY <1>1, <2>1 DEF NoCards
  <2>4. InviteTyped'
    BY <1>1, <1>6, <2>1, <2>2, InviteTypes
  <2> QED
    BY <2>1, <2>2, <2>3, <2>4, NoWindow DEF InviteParts
<1>13. CASE WindowDeclined(i)
  <2>1. /\ face = "window" /\ c.op = "decline" /\ Continued(i, <<Ask("check", c.id)>>)
        /\ memory' = [memory EXCEPT !.told = memory.told \cup {c.id}]
        /\ UNCHANGED <<face, invited, cards, window>>
    BY <1>2, <1>3, <1>13 DEF WindowDeclined
  <2>2. PICK d : d.op = "check" /\ d.id = c.id /\ Moves({c}, {d})
    BY <1>7, <2>1
  <2>3. c.id \in Invitation
    BY <1>5, <2>1
  <2>4. /\ memory'.told = memory.told \cup {c.id} /\ memory'.crossed = memory.crossed
        /\ memory'.mixed = memory.mixed
        /\ memory' \in [told : SUBSET Invitation, mixed : BOOLEAN, crossed : BOOLEAN]
    BY <1>1, <2>1, <2>3
  <2>5. InviteTyped'
    BY <1>1, <2>1, <2>2, <2>3, <2>4, InviteTypes
  <2>6. ConfirmedIsKnown'
    <3> SUFFICES ASSUME ~memory'.crossed PROVE ConfirmedIsKnown'
      BY DEF ConfirmedIsKnown
    <3>1. \A v \in memory'.told : cards'[v] # "PENDING"
      BY <1>1, <2>1, <2>4 DEF NoCards
    <3>2. ASSUME window.id # 0, window.status = "PENDING", window.shown \in memory'.told
          PROVE  \E e \in Calls' : e.op \in {"check", "again"} /\ e.id = window.shown
      <4>1. CASE window.shown = c.id
        BY <2>2, <4>1 DEF Moves
      <4>2. CASE window.shown # c.id
        <5>1. PICK e \in Calls : e.op \in {"check", "again"} /\ e.id = window.shown
          BY <1>1, <2>1, <2>4, <3>2, <4>2 DEF ConfirmedIsKnown
        <5> QED
          BY <2>1, <2>2, <5>1 DEF Moves
      <4> QED
        BY <4>1, <4>2
    <3> QED
      BY <2>1, <3>1, <3>2 DEF ConfirmedIsKnown
  <2>7. WindowIsOne'
    BY <1>1, <1>4, <2>1, <2>2, <2>4 DEF WindowIsOne, Moves
  <2> QED
    BY <2>5, <2>6, <2>7 DEF InviteParts
<1>14. CASE WindowRefused(i)
  <2>1. /\ face = "window" /\ Continued(i, <<Ask("again", c.id)>>)
        /\ UNCHANGED <<face, invited, cards, window, memory>>
    BY <1>2, <1>3, <1>14 DEF WindowRefused, invitationVars
  <2>2. PICK d : d.op = "again" /\ d.id = c.id /\ Moves({c}, {d})
    BY <1>7, <2>1
  <2>3. InviteTyped'
    BY <1>1, <1>5, <2>1, <2>2, InviteTypes
  <2>4. ConfirmedIsKnown'
    BY <1>1, <2>1, <2>2, StaysKnown
  <2>5. WindowIsOne'
    BY <1>1, <1>4, <2>1, <2>2 DEF WindowIsOne, Moves
  <2> QED
    BY <2>3, <2>4, <2>5 DEF InviteParts
<1> QED
  BY <1>8, <1>9, <1>10, <1>11, <1>12, <1>13, <1>14

\* The invariant holds whichever screen is followed.
LEMMA InviteInvariant == Spec => []InviteInv
<1>1. Init => InviteInv
  <2> SUFFICES ASSUME Init PROVE InviteInv
    OBVIOUS
  <2>1. /\ sent = <<>> /\ answers = <<>> /\ cards = NoCards /\ window = Closed
        /\ memory = [told |-> {}, mixed |-> FALSE, crossed |-> FALSE]
        /\ invited = [v \in Invitation |-> "PENDING"]
    BY DEF Init, InvitationInit
  <2>2. Calls = {}
    BY <2>1 DEF Calls, Range
  <2>3. /\ sent \in Seq(InviteCall) /\ answers \in Seq(InviteAnswer)
    BY <2>1, Nothing
  <2>4. NoCards \in Shown /\ invited \in [Invitation -> Status]
    BY <2>1 DEF NoCards, Shown, Status
  <2>5. /\ window.id = 0
        /\ window \in [id : Invitation \cup {0}, shown : Invitation \cup {0},
                       status : Status \cup {"none"}, loading : BOOLEAN, busy : BOOLEAN]
    BY <2>1 DEF Closed
  <2>6. /\ memory.told = {}
        /\ memory \in [told : SUBSET Invitation, mixed : BOOLEAN, crossed : BOOLEAN]
    BY <2>1
  <2>7. InviteTyped
    BY <2>1, <2>2, <2>3, <2>4, <2>5, <2>6 DEF InviteTyped
  <2>8. ConfirmedIsKnown /\ WindowIsOne
    BY <2>5, <2>6 DEF ConfirmedIsKnown, WindowIsOne
  <2> QED
    BY <2>6, <2>7, <2>8 DEF InviteInv, InviteParts
<1>2. InviteInv /\ [Next]_vars => InviteInv'
  <2> SUFFICES ASSUME InviteInv, [Next]_vars PROVE InviteInv'
    OBVIOUS
  <2>1. CASE screen = "invitations" /\ InvitationNext /\ screen' = screen
    <3>1. InviteParts
      BY <2>1 DEF InviteInv
    <3>2. InviteParts'
      BY <2>1, <3>1, AskedStep, WindowStep, ServerStep, LossStep, AnswerStep DEF InvitationNext
    <3> QED
      BY <2>1, <3>2 DEF InviteInv
  <2>2. CASE screen # "invitations" /\ UNCHANGED invitationVars /\ screen' = screen
    BY <2>2 DEF InviteInv, invitationVars
  <2>3. CASE UNCHANGED vars
    <3>1. /\ UNCHANGED <<screen, sent, answers, face, invited, cards, window, memory>>
      BY <2>3 DEF vars, exchange, invitationVars
    <3>2. Calls' = Calls
      BY <3>1 DEF Calls
    <3>3. InviteParts => InviteParts'
      BY <3>1, <3>2 DEF InviteParts, InviteTyped, ConfirmedIsKnown, WindowIsOne
    <3> QED
      BY <3>1, <3>3 DEF InviteInv
  <2> QED
    BY <2>1, <2>2, <2>3 DEF Next
<1> QED
  BY <1>1, <1>2, PTL DEF Spec

\* An invitation whose acceptance or refusal was confirmed to the user is not offered
\* again, on a card or in the window, whatever answers are lost or late; left out is what
\* ConfirmedIsNotOffered leaves out.
THEOREM ConfirmedStaysAnswered == Spec => []ConfirmedIsNotOffered
<1>1. InviteInv => ConfirmedIsNotOffered
  <2> SUFFICES ASSUME InviteInv, Quiet, ~memory.crossed, NEW v \in memory.told
               PROVE  /\ face \in Lists => cards[v] # "PENDING"
                      /\ face = "window" /\ window.id # 0 /\ window.shown = v => window.status # "PENDING"
    BY DEF ConfirmedIsNotOffered
  <2>1. ConfirmedIsKnown
    BY DEF InviteInv, InviteParts
  <2>2. Calls = {}
    BY DEF Quiet, Calls, Range
  <2> QED
    BY <2>1, <2>2 DEF ConfirmedIsKnown
<1> QED
  BY <1>1, InviteInvariant, PTL

\* The buttons of the web's window act upon the invitation that is shown in it, for any
\* number of windows opened one after the other and any late answers.
THEOREM ButtonsActOnWhatIsShown == Spec => ActsOnWhatIsShown
<1> DEFINE Step == window'.busy /\ ~window.busy => window.shown = window.id \/ memory.mixed
<1>1. InviteInv /\ [Next]_vars => [Step]_invitationVars
  <2> SUFFICES ASSUME InviteInv, InvitationNext, screen = "invitations" PROVE Step
    BY DEF Next, vars
  <2>1. /\ WindowIsOne
        /\ window \in [id : Invitation \cup {0}, shown : Invitation \cup {0},
                       status : Status \cup {"none"}, loading : BOOLEAN, busy : BOOLEAN]
    BY DEF InviteInv, InviteParts, InviteTyped
  <2>2. ASSUME NEW op \in Answering, PressInWindow(op) PROVE Step
    BY <2>1, <2>2 DEF PressInWindow, CanAct, WindowIsOne
  <2>3. CASE window' = window
    BY <2>3
  <2>4. CASE window' = Closed
    BY <2>4 DEF Closed
  <2>5. ASSUME NEW v, window' = Opening(v) PROVE Step
    BY <2>1, <2>5 DEF Opening
  <2>6. ASSUME NEW c, GivesUp(c) PROVE Step
    <3>1. window' = [window EXCEPT !.loading = window.loading /\ c.op # "get",
                                   !.busy = window.busy /\ c.op # "again"]
      BY <2>6 DEF GivesUp
    <3> QED
      BY <2>1, <3>1
  <2>7. ASSUME NEW i \in DOMAIN answers, GetAnswer(i) PROVE Step
    <3>1. PICK v, s : \/ window' = [window EXCEPT !.shown = v, !.status = s, !.loading = FALSE]
                      \/ window' = [window EXCEPT !.shown = v, !.status = s, !.busy = FALSE]
      BY <2>7 DEF GetAnswer
    <3> QED
      BY <2>1, <3>1
  <2>8. \/ window' = window \/ window' = Closed \/ (\E v : window' = Opening(v)) \/ (\E c : GivesUp(c))
        \/ (\E op \in Answering : PressInWindow(op)) \/ (\E i \in DOMAIN answers : GetAnswer(i))
    BY DEF InvitationNext, ReadCards, CloseWindow, OpenWindow, TakeBack, Press, Answers, Reads,
           InvitationCallLost, InvitationAnswerLost, ListAnswer, CardSettled, CardRefused,
           WindowAccepted, WindowDeclined, WindowRefused, TooLate, invitationVars
  <2> QED
    BY <2>2, <2>3, <2>4, <2>5, <2>6, <2>7, <2>8
<1> QED
  BY <1>1, InviteInvariant, PTL DEF Spec, ActsOnWhatIsShown

-----------------------------------------------------------------------------
(* What the favorite places and the profile have in common: how a step     *)
(* changes the calls and the answers under way.                            *)

\* What goes from the two sequences in a step, and what comes.
Passes(CS, AS, goneS, cameS, goneA, cameA) ==
  /\ sent' \in Seq(CS) /\ answers' \in Seq(AS)
  /\ Range(sent') \subseteq Range(sent) \cup cameS /\ Range(sent) \subseteq Range(sent') \cup goneS
  /\ cameS \subseteq Range(sent')
  /\ Range(answers') \subseteq Range(answers) \cup cameA
  /\ Range(answers) \subseteq Range(answers') \cup goneA /\ cameA \subseteq Range(answers')

\* Of the calls of a kind there is none under way, there is one at most.
NoneOf(K) ==
  (\A i \in DOMAIN sent : sent[i] \notin K) /\ (\A j \in DOMAIN answers : answers[j].call \notin K)
OneOf(K) ==
  /\ \A i, j \in DOMAIN sent : sent[i] \in K /\ sent[j] \in K => i = j
  /\ \A i, j \in DOMAIN answers : answers[i].call \in K /\ answers[j].call \in K => i = j
  /\ \A i \in DOMAIN sent, j \in DOMAIN answers : ~(sent[i] \in K /\ answers[j].call \in K)

\* What is left where an element is taken out moves up by one.
LEMMA Shifted ==
  ASSUME NEW S, NEW s \in Seq(S), NEW i \in DOMAIN s
  PROVE  /\ DOMAIN RemoveAt(s, i) = 1..(Len(s) - 1) /\ DOMAIN s = 1..Len(s) /\ Len(s) \in Nat
         /\ \A j \in 1..(Len(s) - 1) : RemoveAt(s, i)[j] = s[IF j < i THEN j ELSE j + 1]
<1> DEFINE left == SubSeq(s, 1, i - 1)
           right == SubSeq(s, i + 1, Len(s))
<1>1. i \in 1..Len(s) /\ \A j \in 1..Len(s) : s[j] \in S
  OBVIOUS
<1>2. left \in Seq(S) /\ Len(left) = i - 1 /\ \A j \in 1..(i - 1) : left[j] = s[j]
  BY <1>1, SubSeqProperties
<1>3. /\ right \in Seq(S) /\ Len(right) = Len(s) - i
      /\ \A j \in 1..(Len(s) - i) : right[j] = s[i + j]
  BY <1>1, SubSeqProperties
<1> HIDE DEF left, right
<1>4. /\ left \o right \in Seq(S) /\ Len(left \o right) = Len(s) - 1
      /\ \A j \in 1..(Len(s) - 1) :
           (left \o right)[j] = IF j <= i - 1 THEN left[j] ELSE right[j - (i - 1)]
  BY <1>1, <1>2, <1>3, ConcatProperties
<1>5. \A j \in 1..(Len(s) - 1) : (left \o right)[j] = s[IF j < i THEN j ELSE j + 1]
  <2> SUFFICES ASSUME NEW j \in 1..(Len(s) - 1)
               PROVE  (left \o right)[j] = s[IF j < i THEN j ELSE j + 1]
    OBVIOUS
  <2>1. CASE j < i
    <3>1. j <= i - 1 /\ j \in 1..(i - 1)
      BY <2>1, <1>1
    <3> QED
      BY <3>1, <2>1, <1>2, <1>4
  <2>2. CASE ~(j < i)
    <3>1. ~(j <= i - 1) /\ j - (i - 1) \in 1..(Len(s) - i) /\ i + (j - (i - 1)) = j + 1
      BY <2>2, <1>1
    <3>2. (left \o right)[j] = right[j - (i - 1)]
      BY <3>1, <1>4
    <3>3. right[j - (i - 1)] = s[j + 1]
      BY <3>1, <1>3
    <3> QED
      BY <2>2, <3>2, <3>3
  <2> QED
    BY <2>1, <2>2
<1>6. RemoveAt(s, i) = left \o right
  BY DEF RemoveAt, left, right
<1>7. DOMAIN (left \o right) = 1..(Len(s) - 1)
  BY <1>4
<1>8. DOMAIN s = 1..Len(s) /\ Len(s) \in Nat
  OBVIOUS
<1> QED
  BY <1>5, <1>6, <1>7, <1>8

\* Whoever is left has a place of its own, which is not that of the one taken out.
LEMMA Others ==
  ASSUME NEW S, NEW s \in Seq(S), NEW i \in DOMAIN s
  PROVE  \E kept \in [DOMAIN RemoveAt(s, i) -> DOMAIN s] :
           /\ \A j \in DOMAIN RemoveAt(s, i) : RemoveAt(s, i)[j] = s[kept[j]] /\ kept[j] # i
           /\ \A j, k \in DOMAIN RemoveAt(s, i) : kept[j] = kept[k] => j = k
<1>1. PICK r : r = RemoveAt(s, i)
  OBVIOUS
<1>2. /\ DOMAIN r = 1..(Len(s) - 1) /\ DOMAIN s = 1..Len(s) /\ Len(s) \in Nat
      /\ \A j \in 1..(Len(s) - 1) : r[j] = s[IF j < i THEN j ELSE j + 1]
  BY <1>1, Shifted
<1> DEFINE kept == [j \in DOMAIN r |-> IF j < i THEN j ELSE j + 1]
<1>3. kept \in [DOMAIN r -> DOMAIN s]
  BY <1>2
<1>4. \A j \in DOMAIN r : r[j] = s[kept[j]] /\ kept[j] # i
  BY <1>2
<1>5. \A j, k \in DOMAIN r : kept[j] = kept[k] => j = k
  BY <1>2
<1> HIDE DEF kept
<1> QED
  BY <1>1, <1>3, <1>4, <1>5

\* Calls are sent: none or one.
LEMMA Sent ==
  ASSUME NEW CS, NEW AS, sent \in Seq(CS), answers \in Seq(AS), NEW cs \in Seq(CS), Send(cs)
  PROVE  Passes(CS, AS, {}, Range(cs), {}, {})
<1>1. sent' = sent \o cs /\ answers' = answers
  BY DEF Send
<1>2. sent' \in Seq(CS) /\ Range(sent') = Range(sent) \cup Range(cs)
  BY <1>1, Put
<1> QED
  BY <1>1, <1>2 DEF Passes

\* The server executes a call.
LEMMA Served ==
  ASSUME NEW CS, NEW AS, sent \in Seq(CS), answers \in Seq(AS), NEW i \in DOMAIN sent, NEW a \in AS,
         Executed(i, a)
  PROVE  Passes(CS, AS, {sent[i]}, {}, {}, {a}) /\ sent[i] \in CS /\ sent[i] \in Range(sent)
<1>1. sent' = RemoveAt(sent, i) /\ answers' = Append(answers, a)
  BY DEF Executed
<1>2. /\ sent' \in Seq(CS) /\ Range(sent') \subseteq Range(sent) /\ sent[i] \in CS
      /\ Range(sent) \subseteq Range(sent') \cup {sent[i]}
  BY <1>1, Taken
<1>3. answers' = answers \o <<a>>
  BY <1>1, AppendIsConcat
<1>4. <<a>> \in Seq(AS) /\ Range(<<a>>) = {a}
  BY Single
<1>5. answers \o <<a>> \in Seq(AS) /\ Range(answers \o <<a>>) = Range(answers) \cup Range(<<a>>)
  BY <1>4, Put
<1>6. answers' \in Seq(AS) /\ Range(answers') = Range(answers) \cup {a}
  BY <1>3, <1>4, <1>5
<1>7. sent[i] \in Range(sent)
  BY DEF Range
<1> QED
  BY <1>2, <1>6, <1>7 DEF Passes

\* An answer comes or is lost, and its handler goes on with further calls.
LEMMA Heard ==
  ASSUME NEW CS, NEW AS, sent \in Seq(CS), answers \in Seq(AS), NEW i \in DOMAIN answers,
         NEW cs \in Seq(CS), answers' = RemoveAt(answers, i), sent' = sent \o cs
  PROVE  /\ Passes(CS, AS, {}, Range(cs), {answers[i]}, {})
         /\ answers[i] \in AS /\ answers[i] \in Range(answers)
<1>1. sent' \in Seq(CS) /\ Range(sent') = Range(sent) \cup Range(cs)
  BY Put
<1>2. /\ answers' \in Seq(AS) /\ Range(answers') \subseteq Range(answers) /\ answers[i] \in AS
      /\ Range(answers) \subseteq Range(answers') \cup {answers[i]}
  BY Taken
<1>3. answers[i] \in Range(answers)
  BY DEF Range
<1> QED
  BY <1>1, <1>2, <1>3 DEF Passes

\* A call is lost.
LEMMA Missed ==
  ASSUME NEW CS, NEW AS, sent \in Seq(CS), answers \in Seq(AS), NEW i \in DOMAIN sent,
         sent' = RemoveAt(sent, i) \o <<>>, answers' = answers
  PROVE  /\ Passes(CS, AS, {sent[i]}, {}, {}, {}) /\ sent' = RemoveAt(sent, i)
         /\ sent[i] \in CS /\ sent[i] \in Range(sent)
<1>1. /\ RemoveAt(sent, i) \in Seq(CS) /\ Range(RemoveAt(sent, i)) \subseteq Range(sent)
      /\ Range(sent) \subseteq Range(RemoveAt(sent, i)) \cup {sent[i]} /\ sent[i] \in CS
  BY Taken
<1>2. sent' = RemoveAt(sent, i)
  BY <1>1, ConcatEmptySeq
<1>3. sent[i] \in Range(sent)
  BY DEF Range
<1> QED
  BY <1>1, <1>2, <1>3 DEF Passes

\* One call more where there was none, or one of another kind.
LEMMA OneMore ==
  ASSUME NEW CS, NEW AS, sent \in Seq(CS), answers \in Seq(AS), NEW K, NEW c \in CS, OneOf(K),
         c \in K => NoneOf(K), sent' = sent \o <<c>>, answers' = answers
  PROVE  OneOf(K)'
<1>1. sent' = Append(sent, c)
  BY AppendIsConcat
<1>2. /\ Len(sent) \in Nat /\ DOMAIN sent = 1..Len(sent) /\ DOMAIN sent' = 1..(Len(sent) + 1)
      /\ \A j \in 1..Len(sent) : sent'[j] = sent[j]
      /\ sent'[Len(sent) + 1] = c
  BY <1>1
<1>3. \A j \in DOMAIN sent' : (j \in DOMAIN sent /\ sent'[j] = sent[j])
                              \/ (j = Len(sent) + 1 /\ sent'[j] = c)
  BY <1>2
<1> QED
  BY <1>3 DEF OneOf, NoneOf
\* A call of the kind is executed, or none is.
LEMMA OneServed ==
  ASSUME NEW CS, NEW AS, sent \in Seq(CS), answers \in Seq(AS), NEW K, NEW i \in DOMAIN sent,
         NEW a \in AS, a.call = sent[i], Executed(i, a)
  PROVE  (OneOf(K) => OneOf(K)') /\ (NoneOf(K) => NoneOf(K)')
<1>1. sent' = RemoveAt(sent, i) /\ answers' = Append(answers, a)
  BY DEF Executed
<1>2. PICK kept \in [DOMAIN sent' -> DOMAIN sent] :
           /\ \A j \in DOMAIN sent' : sent'[j] = sent[kept[j]] /\ kept[j] # i
           /\ \A j, k \in DOMAIN sent' : kept[j] = kept[k] => j = k
  BY <1>1, Others
<1>3. /\ Len(answers) \in Nat /\ DOMAIN answers = 1..Len(answers)
      /\ DOMAIN answers' = 1..(Len(answers) + 1)
      /\ \A j \in 1..Len(answers) : answers'[j] = answers[j]
      /\ answers'[Len(answers) + 1] = a
  BY <1>1
<1>4. \A j \in DOMAIN answers' : (j \in DOMAIN answers /\ answers'[j] = answers[j])
                                 \/ (j = Len(answers) + 1 /\ answers'[j] = a)
  BY <1>3
<1>5. \A j \in DOMAIN sent' : kept[j] \in DOMAIN sent
  BY <1>2
<1>6. ASSUME OneOf(K) PROVE OneOf(K)'
  BY <1>2, <1>4, <1>5, <1>6 DEF OneOf
<1>7. ASSUME NoneOf(K) PROVE NoneOf(K)'
  BY <1>2, <1>4, <1>5, <1>7 DEF NoneOf
<1> QED
  BY <1>6, <1>7

\* An answer comes or is lost; a call that follows is of the kind if the answer was.
LEMMA OneHeard ==
  ASSUME NEW CS, NEW AS, sent \in Seq(CS), answers \in Seq(AS), NEW K, NEW i \in DOMAIN answers,
         answers' = RemoveAt(answers, i), NEW c \in CS,
         sent' = sent \/ (sent' = sent \o <<c>> /\ (c \in K => answers[i].call \in K))
  PROVE  /\ OneOf(K) => OneOf(K)'
         /\ NoneOf(K) => NoneOf(K)'
         /\ OneOf(K) /\ answers[i].call \in K /\ sent' = sent => NoneOf(K)'
<1>1. PICK kept \in [DOMAIN answers' -> DOMAIN answers] :
           /\ \A j \in DOMAIN answers' : answers'[j] = answers[kept[j]] /\ kept[j] # i
           /\ \A j, k \in DOMAIN answers' : kept[j] = kept[k] => j = k
  BY Others
<1>2. \A j \in DOMAIN answers' : kept[j] \in DOMAIN answers
  BY <1>1
<1>3. \/ sent' = sent
      \/ /\ c \in K => answers[i].call \in K
         /\ \A j \in DOMAIN sent' : (j \in DOMAIN sent /\ sent'[j] = sent[j])
                                    \/ (j = Len(sent) + 1 /\ sent'[j] = c)
  <2>1. CASE sent' = sent \o <<c>> /\ (c \in K => answers[i].call \in K)
    <3>1. sent' = Append(sent, c)
      BY <2>1, AppendIsConcat
    <3>2. /\ Len(sent) \in Nat /\ DOMAIN sent = 1..Len(sent) /\ DOMAIN sent' = 1..(Len(sent) + 1)
          /\ \A j \in 1..Len(sent) : sent'[j] = sent[j]
          /\ sent'[Len(sent) + 1] = c
      BY <3>1
    <3>3. \A j \in DOMAIN sent' : (j \in DOMAIN sent /\ sent'[j] = sent[j])
                                  \/ (j = Len(sent) + 1 /\ sent'[j] = c)
      BY <3>2
    <3> QED
      BY <2>1, <3>3
  <2> QED
    BY <2>1
<1>4. ASSUME OneOf(K) PROVE OneOf(K)'
  <2>1. CASE sent' = sent
    BY <1>1, <1>2, <1>4, <2>1 DEF OneOf
  <2>2. CASE /\ c \in K => answers[i].call \in K
             /\ \A j \in DOMAIN sent' : (j \in DOMAIN sent /\ sent'[j] = sent[j])
                                        \/ (j = Len(sent) + 1 /\ sent'[j] = c)
    <3>1. ASSUME NEW j \in DOMAIN sent', NEW k \in DOMAIN sent', sent'[j] \in K, sent'[k] \in K
          PROVE  j = k
      <4>1. CASE answers[i].call \in K
        BY <1>4, <2>2, <3>1, <4>1 DEF OneOf
      <4>2. CASE answers[i].call \notin K
        BY <1>4, <2>2, <3>1, <4>2 DEF OneOf
      <4> QED
        BY <4>1, <4>2
    <3>2. ASSUME NEW j \in DOMAIN answers', NEW k \in DOMAIN answers',
                 answers'[j].call \in K, answers'[k].call \in K
          PROVE  j = k
      BY <1>1, <1>2, <1>4, <3>2 DEF OneOf
    <3>3. ASSUME NEW j \in DOMAIN sent', NEW k \in DOMAIN answers', sent'[j] \in K,
                 answers'[k].call \in K
          PROVE  FALSE
      <4>1. kept[k] \in DOMAIN answers /\ answers[kept[k]].call \in K /\ kept[k] # i
        BY <1>1, <1>2, <3>3
      <4>2. answers[i].call \notin K
        BY <1>4, <4>1 DEF OneOf
      <4>3. j \in DOMAIN sent /\ sent[j] \in K
        BY <2>2, <3>3, <4>2
      <4> QED
        BY <1>4, <4>1, <4>3 DEF OneOf
    <3> QED
      BY <3>1, <3>2, <3>3 DEF OneOf
  <2> QED
    BY <1>3, <2>1, <2>2
<1>5. ASSUME NoneOf(K) PROVE NoneOf(K)'
  BY <1>1, <1>2, <1>3, <1>5 DEF NoneOf
<1>6. ASSUME OneOf(K), answers[i].call \in K, sent' = sent PROVE NoneOf(K)'
  BY <1>1, <1>2, <1>6 DEF OneOf, NoneOf
<1> QED
  BY <1>4, <1>5, <1>6

\* A call is lost.
LEMMA OneMissed ==
  ASSUME NEW CS, NEW AS, sent \in Seq(CS), answers \in Seq(AS), NEW K, NEW i \in DOMAIN sent,
         sent' = RemoveAt(sent, i), answers' = answers
  PROVE  /\ OneOf(K) => OneOf(K)'
         /\ NoneOf(K) => NoneOf(K)'
         /\ OneOf(K) /\ sent[i] \in K => NoneOf(K)'
<1>1. PICK kept \in [DOMAIN sent' -> DOMAIN sent] :
           /\ \A j \in DOMAIN sent' : sent'[j] = sent[kept[j]] /\ kept[j] # i
           /\ \A j, k \in DOMAIN sent' : kept[j] = kept[k] => j = k
  BY Others
<1>2. \A j \in DOMAIN sent' : kept[j] \in DOMAIN sent
  BY <1>1
<1>3. ASSUME OneOf(K) PROVE OneOf(K)'
  BY <1>1, <1>2, <1>3 DEF OneOf
<1>4. ASSUME NoneOf(K) PROVE NoneOf(K)'
  BY <1>1, <1>2, <1>4 DEF NoneOf
<1>5. ASSUME OneOf(K), sent[i] \in K PROVE NoneOf(K)'
  BY <1>1, <1>2, <1>5 DEF OneOf, NoneOf
<1> QED
  BY <1>3, <1>4, <1>5

-----------------------------------------------------------------------------
(* The profile and its form.                                               *)

Address == [of : Nat, whole : BOOLEAN]
Account == [name : Nat, address : Address, point : Nat, gender : BOOLEAN, picture : Nat]
ProfCall == [op : {"load", "again", "search"} \cup Saving, request : Account, visit : Nat,
             saves : Nat, alone : BOOLEAN]
ProfAnswer == [call : ProfCall, account : Account, others : Nat]

MemoryType == [fresh : BOOLEAN, sure : BOOLEAN, saves : Nat, others : Nat, asked : Account]

\* Only a save brings a picture, only the web reads again after one.
CallFits(c) ==
  /\ c.saves <= profMemory.saves
  /\ (c.op = "picture" => c.request.picture # 0) /\ (c.request.picture # 0 => c.op \in Saving)
  /\ (c.op = "again" => Web) /\ Fits(c.request.address, c.request.point)

ProfTyped ==
  /\ sent \in Seq(ProfCall) /\ answers \in Seq(ProfAnswer)
  /\ account \in Account /\ loaded \in Account
  /\ profMemory \in MemoryType
  /\ \A c \in Range(sent) : CallFits(c)
  /\ \A a \in Range(answers) : CallFits(a.call) /\ a.others <= profMemory.others
                               /\ Fits(a.account.address, a.account.point)
  /\ Fits(account.address, account.point) /\ Fits(loaded.address, loaded.point)

FormType == [name : Nat, address : Address, point : Nat, gender : BOOLEAN, picture : Nat,
             cleared : BOOLEAN, once : BOOLEAN, timer : BOOLEAN, offered : Nat]
PageType == [loading : BOOLEAN, there : BOOLEAN, editing : BOOLEAN, saving : BOOLEAN,
             failed : BOOLEAN, done : BOOLEAN, visit : Nat]

\* The form: its address is always that of its place.
DraftFits ==
  /\ draft \in FormType
  /\ Fits(draft.address, draft.point)
  /\ profile \in PageType

\* A reading that nothing could cross: no save is under way, and its answer is the profile.
Reading == {"load", "again"}
Uncrossed(c) == c.op \in Reading /\ c.alone /\ c.saves = profMemory.saves
NothingCrossed ==
  /\ \A c, d \in Calls : Uncrossed(c) => d.op \notin Saving
  /\ \A a \in Range(answers) :
       Uncrossed(a.call) /\ a.others = profMemory.others => a.account = account

\* What tells the web that the profile it read last may be out of date.
Reminder ==
  \/ \E a \in Range(answers) : a.call.op \in Saving \cup {"again"}
  \/ \E c \in Range(sent) : c.op = "again" \/ c.request.picture # 0
FreshIsKnown == Web /\ profMemory.fresh => loaded = account \/ Reminder

\* The web has one save under way, its reading included, and knows of it.
SavingCall == {c \in ProfCall : c.op \in Saving \cup {"again"}}
OneSave == Web => OneOf(SavingCall) /\ (~profile.saving => NoneOf(SavingCall))

\* What was asked for is stored; a request stands for what was asked for.
Stored ==
  LET r == profMemory.asked
  IN  /\ r.name # 0 => account.name = r.name
      /\ r.address # NoAddress => FormatAddress(account.address) = FormatAddress(r.address)
      /\ r.gender => account.gender
      /\ r.picture # 0 => account.picture = r.picture
Stands(r) ==
  LET asked == profMemory.asked
  IN  /\ r.name = asked.name /\ r.gender = asked.gender /\ r.picture = asked.picture
      /\ \/ r.address = asked.address
         \/ r.address = NoAddress /\ FormatAddress(account.address) = FormatAddress(asked.address)
PictureStored == profMemory.asked.picture # 0 => account.picture = profMemory.asked.picture

\* A sure save, step by step.
SureSave ==
  profMemory.sure =>
    /\ \A c \in Calls : c.op \in Saving => Stands(c.request)
    /\ \A c \in Calls : c.op = "patch" => PictureStored
    /\ \A a \in Range(answers) : a.call.op = "picture" => PictureStored
    /\ \A a \in Range(answers) : a.call.op = "patch" => Stored
    /\ \A c \in Calls : c.op = "again" => Stored
    /\ profile.done => Stored

ProfCalls == ProfTyped /\ NothingCrossed /\ FreshIsKnown /\ SureSave
ProfParts == ProfCalls /\ DraftFits /\ OneSave

ProfInv ==
  IF screen = "profile" THEN ProfParts
  ELSE account = NewAccount /\ draft = EmptyForm /\ ~profile.done /\ ~profMemory.fresh

\* Addresses and their first two parts.
LEMMA Addresses ==
  /\ NoAddress \in Address /\ FormatAddress(NoAddress) = NoAddress
  /\ \A p \in Nat : /\ WholeAddress(p) \in Address /\ FirstParts(p) \in Address
                    /\ FormatAddress(WholeAddress(p)) = FirstParts(p)
                    /\ FormatAddress(FirstParts(p)) = FirstParts(p)
                    /\ FirstParts(p) # NoAddress /\ (p # NoSpot => WholeAddress(p) # NoAddress)
  /\ \A a \in Address : FormatAddress(a) \in Address
  /\ NewAccount \in Account /\ Fits(NoAddress, NoSpot)
<1>1. NoAddress \in Address /\ NoAddress.of = 0 /\ ~NoAddress.whole
  BY DEF NoAddress, Address
<1>2. FormatAddress(NoAddress) = NoAddress
  BY <1>1 DEF FormatAddress
<1>3. ASSUME NEW p \in Nat
      PROVE  /\ WholeAddress(p) \in Address /\ FirstParts(p) \in Address
             /\ FormatAddress(WholeAddress(p)) = FirstParts(p)
             /\ FormatAddress(FirstParts(p)) = FirstParts(p)
             /\ FirstParts(p) # NoAddress /\ (p # NoSpot => WholeAddress(p) # NoAddress)
  <2>1. p \div 2 \in Nat
    OBVIOUS
  <2>2. PICK n \in Nat : n = p \div 2
    BY <2>1
  <2>3. FirstParts(p) = [of |-> n + 1, whole |-> FALSE] /\ n + 1 \in Nat /\ n + 1 # 0
    BY <2>2 DEF FirstParts
  <2>4. FirstParts(p) \in Address /\ FirstParts(p).of = n + 1 /\ ~FirstParts(p).whole
    BY <2>3 DEF Address
  <2>5. WholeAddress(p) \in Address /\ WholeAddress(p).of = p /\ WholeAddress(p).whole
    BY DEF WholeAddress, Address
  <2>6. FormatAddress(WholeAddress(p)) = FirstParts(p)
    BY <2>5 DEF FormatAddress
  <2>7. FormatAddress(FirstParts(p)) = FirstParts(p)
    BY <2>4 DEF FormatAddress
  <2>8. FirstParts(p) # NoAddress
    BY <2>3, <2>4, <1>1
  <2>9. p # NoSpot => WholeAddress(p) # NoAddress
    BY <2>5, <1>1 DEF NoSpot
  <2> QED
    BY <2>4, <2>5, <2>6, <2>7, <2>8, <2>9
<1>4. ASSUME NEW a \in Address PROVE FormatAddress(a) \in Address
  <2>1. a.of \in Nat
    BY DEF Address
  <2>2. FirstParts(a.of) \in Address
    BY <1>3, <2>1
  <2> QED
    BY <2>2 DEF FormatAddress
<1>5. NewAccount \in Account
  BY <1>1 DEF NewAccount, Account, NoSpot
<1>6. Fits(NoAddress, NoSpot)
  BY DEF Fits
<1> QED
  BY <1>1, <1>2, <1>3, <1>4, <1>5, <1>6

\* The form of a profile whose address is that of its place.
LEMMA FormFits ==
  ASSUME NEW a \in Account, Fits(a.address, a.point)
  PROVE  /\ FormOf(a) \in FormType
         /\ Fits(FormOf(a).address, FormOf(a).point)
<1>1. a.address \in Address /\ a.point \in Nat /\ a.name \in Nat /\ a.gender \in BOOLEAN
  BY DEF Account
<1>2. PICK b : b = IF Web THEN FormatAddress(a.address) ELSE a.address
  OBVIOUS
<1>3. b \in Address
  BY <1>1, <1>2, Addresses
<1>4. Fits(b, a.point)
  <2>1. CASE a.point = NoSpot
    BY <1>2, <2>1, Addresses DEF Fits
  <2>2. CASE a.point # NoSpot
    BY <1>1, <1>2, <2>2, Addresses DEF Fits
  <2> QED
    BY <2>1, <2>2
<1>5. FormOf(a) = [name |-> a.name, address |-> b, point |-> a.point, gender |-> a.gender,
                   picture |-> 0, cleared |-> FALSE, once |-> ~a.gender, timer |-> FALSE,
                   offered |-> NoSpot]
  BY <1>2 DEF FormOf
<1> QED
  BY <1>1, <1>3, <1>4, <1>5 DEF NoSpot, FormType

\* The calls and answers under way.
LEMMA CallsTyped ==
  ASSUME ProfTyped
  PROVE  /\ \A i \in DOMAIN sent : sent[i] \in ProfCall /\ sent[i] \in Range(sent)
         /\ \A i \in DOMAIN answers : /\ answers[i] \in ProfAnswer /\ answers[i].call \in ProfCall
                                       /\ answers[i] \in Range(answers)
         /\ \A c \in Range(sent) : c \in ProfCall /\ CallFits(c)
         /\ \A a \in Range(answers) : a \in ProfAnswer /\ a.call \in ProfCall /\ CallFits(a.call)
         /\ \A c \in Calls : c \in ProfCall /\ CallFits(c)
<1>1. sent \in Seq(ProfCall) /\ answers \in Seq(ProfAnswer)
  BY DEF ProfTyped
<1>2. \A i \in DOMAIN sent : sent[i] \in ProfCall /\ sent[i] \in Range(sent)
  BY <1>1, Element DEF Range
<1>3. \A i \in DOMAIN answers : answers[i] \in ProfAnswer /\ answers[i] \in Range(answers)
  BY <1>1, Element DEF Range
<1>4. \A a \in ProfAnswer : a.call \in ProfCall
  BY DEF ProfAnswer
<1>5. \A c \in Range(sent) : c \in ProfCall /\ CallFits(c)
  BY <1>2 DEF Range, ProfTyped
<1>6. \A a \in Range(answers) : a \in ProfAnswer /\ a.call \in ProfCall /\ CallFits(a.call)
  BY <1>3, <1>4 DEF Range, ProfTyped
<1>7. \A c \in Calls : c \in ProfCall /\ CallFits(c)
  BY <1>5, <1>6, CallsAre
<1> QED
  BY <1>2, <1>3, <1>4, <1>5, <1>6, <1>7

\* A step that sends or forgets readings and searches only.
Idle(c) == c.op \in {"load", "search"}
NewIdle(c) ==
  /\ Idle(c) /\ c.request = NewAccount /\ c.saves = profMemory.saves
  /\ c.op = "load" /\ c.alone => \A d \in Calls : d.op = "search"
Aside ==
  /\ sent' \in Seq(ProfCall) /\ answers' \in Seq(ProfAnswer)
  /\ \A c \in Range(sent') : c \in Range(sent) \/ NewIdle(c)
  /\ \A c \in Range(sent) : c \in Range(sent') \/ Idle(c)
  /\ Range(answers') \subseteq Range(answers)
  /\ \A a \in Range(answers) : a \in Range(answers') \/ Idle(a.call)
  /\ Web => (OneOf(SavingCall) => OneOf(SavingCall)') /\ (NoneOf(SavingCall) => NoneOf(SavingCall)')

\* Such a step keeps what is known of the calls, the profile and its saves.
LEMMA AsideKeeps ==
  ASSUME ProfCalls, Aside, UNCHANGED <<client, account, loaded, profMemory>>,
         profile'.done => profile.done
  PROVE  ProfCalls'
<1>1. /\ \A c \in Calls : (\E d \in Range(sent) : c = d) \/ (\E a \in Range(answers) : c = a.call)
      /\ \A c \in Calls' : c \in Calls \/ NewIdle(c)
      /\ \A c \in Range(sent) : c \in Calls
      /\ \A a \in Range(answers) : a.call \in Calls
  BY CallsAre DEF Aside
<1>2. ASSUME NEW c, NewIdle(c) PROVE CallFits(c)
  <2>1. NewAccount.picture = 0 /\ Fits(NewAccount.address, NewAccount.point)
    BY Addresses DEF NewAccount
  <2>2. profMemory.saves \in Nat
    BY DEF ProfCalls, ProfTyped, MemoryType
  <2> QED
    BY <1>2, <2>1, <2>2 DEF CallFits, NewIdle, Idle
<1>3. \A c : CallFits(c) => CallFits(c)'
  BY DEF CallFits, Web
<1>4. ProfTyped'
  <2>1. \A c \in Range(sent') : CallFits(c)'
    BY <1>2, <1>3 DEF Aside, ProfCalls, ProfTyped
  <2>2. \A a \in Range(answers') : CallFits(a.call)'
    BY <1>3 DEF Aside, ProfCalls, ProfTyped
  <2> QED
    BY <2>1, <2>2 DEF Aside, ProfCalls, ProfTyped
<1>5. NothingCrossed'
  <2>1. \A c : Uncrossed(c)' <=> Uncrossed(c)
    BY DEF Uncrossed
  <2>2. ASSUME NEW c \in Calls', NEW d \in Calls', Uncrossed(c) PROVE d.op \notin Saving
    <3>1. CASE d \notin Calls
      BY <1>1, <3>1 DEF NewIdle, Idle, Saving
    <3>2. CASE d \in Calls /\ c \in Calls
      BY <2>2, <3>2 DEF ProfCalls, NothingCrossed
    <3>3. CASE d \in Calls /\ c \notin Calls
      <4>1. NewIdle(c) /\ c.op = "load" /\ c.alone
        BY <1>1, <2>2, <3>3 DEF NewIdle, Idle, Uncrossed, Reading
      <4> QED
        BY <4>1, <3>3 DEF NewIdle, Saving
    <3> QED
      BY <3>1, <3>2, <3>3
  <2> QED
    BY <2>1, <2>2 DEF NothingCrossed, ProfCalls, Aside
<1>6. FreshIsKnown'
  <2>1. Reminder => Reminder'
    BY DEF Reminder, Aside, Idle, Saving, ProfCalls, ProfTyped, CallFits
  <2> QED
    BY <2>1 DEF FreshIsKnown, ProfCalls, Web
<1>7. SureSave'
  <2>1. \A r : Stands(r) => Stands(r)'
    BY DEF Stands
  <2>2. (PictureStored => PictureStored') /\ (Stored => Stored')
    BY DEF PictureStored, Stored
  <2>3. \A c \in Calls' : c.op \in Saving \cup {"again"} => c \in Calls
    BY <1>1 DEF NewIdle, Idle, Saving
  <2> QED
    BY <2>1, <2>2, <2>3 DEF SureSave, ProfCalls, Aside, Saving
<1> QED
  BY <1>4, <1>5, <1>6, <1>7 DEF ProfCalls

\* Nothing is sent or received.
LEMMA AsideNothing ==
  ASSUME ProfTyped, UNCHANGED exchange
  PROVE  Aside
<1>1. sent' = sent /\ answers' = answers
  BY DEF exchange
<1> QED
  BY <1>1 DEF Aside, ProfTyped, OneOf, NoneOf

\* A reading or a search is sent.
LEMMA AsideSent ==
  ASSUME ProfTyped, NEW c \in ProfCall, NewIdle(c), Send(<<c>>)
  PROVE  Aside
<1>1. sent \in Seq(ProfCall) /\ answers \in Seq(ProfAnswer)
  BY DEF ProfTyped
<1>2. <<c>> \in Seq(ProfCall) /\ Range(<<c>>) = {c}
  BY Single
<1>3. Passes(ProfCall, ProfAnswer, {}, {c}, {}, {})
  BY <1>1, <1>2, Sent
<1>4. sent' = sent \o <<c>> /\ answers' = answers
  BY DEF Send
<1>5. c \notin SavingCall
  BY DEF SavingCall, NewIdle, Idle, Saving
<1>6. OneOf(SavingCall) => OneOf(SavingCall)'
  BY <1>1, <1>4, <1>5, OneMore
<1>7. NoneOf(SavingCall) => NoneOf(SavingCall)'
  <2>1. \A i \in DOMAIN sent' : sent'[i] \in Range(sent')
    BY DEF Range
  <2>2. \A d \in Range(sent) : \E i \in DOMAIN sent : d = sent[i]
    BY DEF Range
  <2> QED
    BY <1>3, <1>4, <1>5, <2>1, <2>2 DEF NoneOf, Passes
<1> QED
  BY <1>3, <1>6, <1>7 DEF Aside, Passes

\* What is left where readings of mobile's form are forgotten.
LEMMA Forgetting ==
  ASSUME NEW S, NEW s \in Seq(S), NEW R, R \subseteq DOMAIN s
  PROVE  /\ Dropped(s, R) \in Seq(S) /\ Range(Dropped(s, R)) \subseteq Range(s)
         /\ \A x \in Range(s) : x \in Range(Dropped(s, R)) \/ \E i \in R : x = s[i]
         /\ R = {} => Dropped(s, R) = s
<1>1. CASE R = {}
  BY <1>1 DEF Dropped
<1>2. CASE R # {}
  <2>1. PICK i : i = CHOOSE j \in R : TRUE
    OBVIOUS
  <2>2. i \in R /\ i \in DOMAIN s
    BY <1>2, <2>1
  <2>3. Dropped(s, R) = RemoveAt(s, i)
    BY <1>2, <2>1 DEF Dropped
  <2>4. /\ RemoveAt(s, i) \in Seq(S) /\ Range(RemoveAt(s, i)) \subseteq Range(s)
        /\ Range(s) \subseteq Range(RemoveAt(s, i)) \cup {s[i]}
    BY <2>2, Taken
  <2> QED
    BY <1>2, <2>2, <2>3, <2>4
<1> QED
  BY <1>1, <1>2

\* The readings are forgotten and nothing, or a reading, is sent.
LEMMA AsideForgotten ==
  ASSUME ProfTyped, NEW cs, ForgetReadings(answers, cs),
         (cs = <<>> /\ Mobile) \/ \E c \in ProfCall : NewIdle(c) /\ cs = <<c>>
  PROVE  Aside
<1>1. sent \in Seq(ProfCall) /\ answers \in Seq(ProfAnswer)
  BY DEF ProfTyped
<1> DEFINE RS == {i \in DOMAIN sent : Forgotten(sent[i])}
           RA == {i \in DOMAIN answers : Forgotten(answers[i].call)}
<1>2. /\ sent' = Dropped(sent, RS) \o cs /\ answers' = Dropped(answers, RA)
      /\ RS \subseteq DOMAIN sent /\ RA \subseteq DOMAIN answers
  BY DEF ForgetReadings
<1>3. /\ \A i \in RS : Idle(sent[i]) /\ Mobile
      /\ \A i \in RA : Idle(answers[i].call) /\ Mobile
  BY DEF Forgotten, Idle
<1> HIDE DEF RS, RA
<1>4. /\ Dropped(sent, RS) \in Seq(ProfCall) /\ Range(Dropped(sent, RS)) \subseteq Range(sent)
      /\ \A x \in Range(sent) : x \in Range(Dropped(sent, RS)) \/ \E i \in RS : x = sent[i]
      /\ RS = {} => Dropped(sent, RS) = sent
  BY <1>1, <1>2, Forgetting
<1>5. /\ Dropped(answers, RA) \in Seq(ProfAnswer) /\ Range(Dropped(answers, RA)) \subseteq Range(answers)
      /\ \A x \in Range(answers) : x \in Range(Dropped(answers, RA)) \/ \E i \in RA : x = answers[i]
      /\ RA = {} => Dropped(answers, RA) = answers
  BY <1>1, <1>2, Forgetting
<1>6. /\ cs \in Seq(ProfCall) /\ \A c \in Range(cs) : NewIdle(c)
  <2>1. CASE cs = <<>>
    BY <2>1, Nothing
  <2>2. CASE \E c \in ProfCall : NewIdle(c) /\ cs = <<c>>
    BY <2>2, Single
  <2> QED
    BY <2>1, <2>2
<1>7. sent' \in Seq(ProfCall) /\ Range(sent') = Range(Dropped(sent, RS)) \cup Range(cs)
  BY <1>2, <1>4, <1>6, Put
<1>8. ASSUME Web
      PROVE  /\ OneOf(SavingCall) => OneOf(SavingCall)'
             /\ NoneOf(SavingCall) => NoneOf(SavingCall)'
  <2>1. ~Mobile
    BY <1>8 DEF Web, Mobile
  <2>2. RS = {} /\ RA = {}
    BY <2>1, <1>3
  <2>3. answers' = answers /\ sent' = sent \o cs
    BY <2>2, <1>2, <1>4, <1>5
  <2>4. PICK c \in ProfCall : NewIdle(c) /\ cs = <<c>>
    BY <2>1
  <2>5. Send(<<c>>)
    BY <2>3, <2>4 DEF Send, ForgetReadings
  <2>6. Aside
    BY <2>4, <2>5, AsideSent
  <2> QED
    BY <1>8, <2>6 DEF Aside
<1> QED
  BY <1>2, <1>3, <1>4, <1>5, <1>6, <1>7, <1>8 DEF Aside

\* What a search found arrives.
LEMMA AsideFound ==
  ASSUME ProfTyped, NEW i \in DOMAIN answers, answers[i].call.op = "search", Received(i)
  PROVE  Aside
<1>1. sent \in Seq(ProfCall) /\ answers \in Seq(ProfAnswer)
  BY DEF ProfTyped
<1>2. answers' = RemoveAt(answers, i) /\ sent' = sent
  BY DEF Received
<1>3. /\ answers' \in Seq(ProfAnswer) /\ Range(answers') \subseteq Range(answers)
      /\ Range(answers) \subseteq Range(answers') \cup {answers[i]} /\ answers[i] \in ProfAnswer
  BY <1>1, <1>2, Taken
<1>4. PICK c \in ProfCall : c = answers[i].call
  BY <1>3 DEF ProfAnswer
<1>5. /\ OneOf(SavingCall) => OneOf(SavingCall)'
      /\ NoneOf(SavingCall) => NoneOf(SavingCall)'
  BY <1>1, <1>2, <1>4, OneHeard
<1> QED
  BY <1>1, <1>2, <1>3, <1>5 DEF Aside, Idle

\* The calls for a reading and a search.
LEMMA NewCalls ==
  ASSUME ProfTyped, DraftFits
  PROVE  /\ \E c \in ProfCall : c = ProfileCall("load", NewAccount, Calls) /\ NewIdle(c)
         /\ \E c \in ProfCall : /\ c = [ProfileCall("load", NewAccount, Calls) EXCEPT !.visit = @ + 1]
                                 /\ NewIdle(c)
         /\ \E c \in ProfCall : c = ProfileCall("search", NewAccount, {}) /\ NewIdle(c)
<1>1. profile.visit \in Nat /\ profMemory.saves \in Nat /\ NewAccount \in Account
  BY Addresses DEF ProfTyped, DraftFits, PageType, MemoryType
<1>2. PICK b \in BOOLEAN : b <=> \A d \in Calls : d.op = "search"
  OBVIOUS
<1>3. PICK c : c = [op |-> "load", request |-> NewAccount, visit |-> profile.visit,
                    saves |-> profMemory.saves, alone |-> b]
  OBVIOUS
<1>4. c = ProfileCall("load", NewAccount, Calls)
  BY <1>2, <1>3 DEF ProfileCall
<1>5. /\ c \in ProfCall /\ c.op = "load" /\ c.request = NewAccount /\ c.saves = profMemory.saves
      /\ c.alone = b /\ c.visit = profile.visit
  BY <1>1, <1>3 DEF ProfCall
<1>6. NewIdle(c)
  BY <1>2, <1>5 DEF NewIdle, Idle
<1>7. PICK d : d = [c EXCEPT !.visit = @ + 1]
  OBVIOUS
<1>8. d \in ProfCall /\ d.op = c.op /\ d.request = c.request /\ d.saves = c.saves /\ d.alone = c.alone
  BY <1>1, <1>5, <1>7 DEF ProfCall
<1>9. NewIdle(d)
  BY <1>6, <1>8 DEF NewIdle, Idle
<1>10. PICK e : e = [op |-> "search", request |-> NewAccount, visit |-> profile.visit,
                     saves |-> profMemory.saves, alone |-> TRUE]
  OBVIOUS
<1>11. e = ProfileCall("search", NewAccount, {})
  BY <1>10 DEF ProfileCall
<1>12. e \in ProfCall /\ NewIdle(e)
  BY <1>1, <1>10 DEF ProfCall, NewIdle, Idle
<1> QED
  BY <1>4, <1>5, <1>6, <1>7, <1>8, <1>9, <1>11, <1>12

\* A step beside the saves: the form and the page must fit, the web's saving stays.
LEMMA AsideDone ==
  ASSUME ProfParts, Aside, UNCHANGED <<client, account, loaded, profMemory>>, DraftFits',
         profile'.done => profile.done, Web => profile'.saving = profile.saving
  PROVE  ProfParts'
<1>1. ProfCalls'
  BY AsideKeeps DEF ProfParts
<1>2. OneSave'
  BY DEF OneSave, ProfParts, Aside, Web
<1> QED
  BY <1>1, <1>2 DEF ProfParts

\* The user opens, reads and leaves the form.
LEMMA PageStep ==
  ASSUME ProfParts, UNCHANGED client, LoadProfile \/ OpenForm \/ LeaveForm \/ ToggleEditing
  PROVE  ProfParts'
<1>1. /\ ProfTyped /\ DraftFits
      /\ EmptyForm \in FormType
      /\ Fits(EmptyForm.address, EmptyForm.point)
  <2>1. NewAccount \in Account /\ Fits(NewAccount.address, NewAccount.point)
    BY Addresses DEF NewAccount
  <2> QED
    BY <2>1, FormFits DEF EmptyForm, ProfParts, ProfCalls
<1>2. CASE LoadProfile
  <2>1. PICK c \in ProfCall : c = ProfileCall("load", NewAccount, Calls) /\ NewIdle(c)
    BY <1>1, NewCalls
  <2>2. ForgetReadings(answers, <<c>>) /\ UNCHANGED <<account, loaded, draft, profMemory>>
    BY <1>2, <2>1 DEF LoadProfile
  <2>3. Aside
    BY <1>1, <2>1, <2>2, AsideForgotten
  <2>4. DraftFits' /\ profile'.done = profile.done /\ profile'.saving = profile.saving
    BY <1>1, <1>2, <2>2 DEF LoadProfile, DraftFits, PageType
  <2> QED
    BY <2>2, <2>3, <2>4, AsideDone
<1>3. CASE OpenForm
  <2>1. PICK c \in ProfCall : /\ c = [ProfileCall("load", NewAccount, Calls) EXCEPT !.visit = @ + 1]
                              /\ NewIdle(c)
    BY <1>1, NewCalls
  <2>2. Send(<<c>>) /\ UNCHANGED <<account, loaded, profMemory>> /\ draft' = EmptyForm /\ ~Web
    BY <1>3, <2>1 DEF OpenForm, Mobile, Web
  <2>3. Aside
    BY <1>1, <2>1, <2>2, AsideSent
  <2>4. PICK e : e = EmptyForm
    OBVIOUS
  <2>5. DraftFits' /\ ~profile'.done
    BY <1>1, <1>3, <2>2, <2>4 DEF OpenForm, DraftFits, PageType
  <2> QED
    BY <2>2, <2>3, <2>5, AsideDone
<1>4. CASE LeaveForm
  <2>1. ForgetReadings(answers, <<>>) /\ Mobile /\ UNCHANGED <<account, loaded, draft, profMemory>>
    BY <1>4 DEF LeaveForm
  <2>2. Aside
    BY <1>1, <2>1, AsideForgotten
  <2>3. DraftFits' /\ profile'.done = profile.done /\ profile'.saving = profile.saving
    BY <1>1, <1>4, <2>1 DEF LeaveForm, DraftFits, PageType
  <2> QED
    BY <2>1, <2>2, <2>3, AsideDone
<1>5. CASE ToggleEditing
  <2>1. UNCHANGED <<account, loaded, profMemory>> /\ UNCHANGED exchange
    BY <1>5 DEF ToggleEditing
  <2>2. Aside
    BY <1>1, <2>1, AsideNothing
  <2>3. PICK f : f = FormOf(loaded)
    OBVIOUS
  <2>4. /\ f \in FormType
        /\ Fits(f.address, f.point)
    BY <1>1, <2>3, FormFits DEF ProfTyped
  <2>5. draft' = draft \/ draft' = [f EXCEPT !.timer = draft.timer]
    BY <1>5, <2>3 DEF ToggleEditing
  <2>6. draft' \in FormType
        /\ \/ draft'.address = draft.address /\ draft'.point = draft.point
           \/ draft'.address = f.address /\ draft'.point = f.point
    <3>1. CASE draft' = draft
      <4>1. draft \in FormType
        BY <1>1 DEF DraftFits
      <4> QED
        BY <4>1, <3>1
    <3>2. CASE draft' = [f EXCEPT !.timer = draft.timer]
      <4>1. draft.timer \in BOOLEAN
        BY <1>1 DEF DraftFits, FormType
      <4> QED
        BY <4>1, <2>4, <3>2 DEF FormType
    <3> QED
      BY <2>5, <3>1, <3>2
  <2>7. profile' = [profile EXCEPT !.editing = ~@, !.failed = @ /\ ~profile.editing,
                                   !.done = @ /\ ~profile.editing]
    BY <1>5 DEF ToggleEditing
  <2>8. /\ profile' \in PageType
        /\ (profile'.done => profile.done) /\ profile'.saving = profile.saving
    BY <1>1, <2>7 DEF DraftFits, PageType
  <2>9. DraftFits'
    BY <1>1, <2>4, <2>6, <2>8 DEF DraftFits
  <2> QED
    BY <2>1, <2>2, <2>8, <2>9, AsideDone
<1> QED
  BY <1>2, <1>3, <1>4, <1>5

\* The user fills in the form, and what was searched for arrives.
LEMMA FillStep ==
  ASSUME ProfParts, UNCHANGED client,
         \/ NameYourself \/ ChooseGender \/ TakePicture \/ TypeSpot \/ SpotTimerFires
         \/ PickSpot \/ ClearSpot \/ \E i \in DOMAIN answers : SpotsFound(i)
  PROVE  ProfParts'
<1>1. /\ ProfTyped /\ DraftFits /\ draft \in FormType /\ Fits(draft.address, draft.point)
      /\ NumNames \in Nat /\ NumSpots \in Nat
  BY ProfileAssumption DEF ProfParts, ProfCalls, DraftFits
<1>2. ASSUME UNCHANGED <<account, loaded, profMemory>>, Aside, draft' \in FormType,
             Fits(draft'.address, draft'.point),
             profile' = profile \/ profile' = [profile EXCEPT !.failed = FALSE]
      PROVE  ProfParts'
  <2>1. /\ profile' \in PageType
        /\ profile'.done = profile.done /\ profile'.saving = profile.saving
    BY <1>1, <1>2 DEF DraftFits, PageType
  <2>2. DraftFits'
    BY <1>2, <2>1 DEF DraftFits
  <2> QED
    BY <1>2, <2>1, <2>2, AsideDone
<1>3. CASE NameYourself
  <2>1. PICK n \in 0 .. NumNames : Edited([draft EXCEPT !.name = n])
    BY <1>3 DEF NameYourself
  <2>2. /\ UNCHANGED exchange /\ UNCHANGED <<account, loaded, profMemory>>
        /\ draft' = [draft EXCEPT !.name = n]
        /\ profile' = profile \/ profile' = [profile EXCEPT !.failed = FALSE]
    BY <1>3, <2>1 DEF NameYourself, Edited
  <2>3. draft' \in FormType /\ draft'.address = draft.address /\ draft'.point = draft.point
    BY <1>1, <2>2 DEF FormType
  <2> QED
    BY <1>1, <1>2, <2>2, <2>3, AsideNothing
<1>4. CASE ChooseGender
  <2>1. /\ UNCHANGED exchange /\ UNCHANGED <<account, loaded, profMemory>>
        /\ draft' = [draft EXCEPT !.gender = ~@]
        /\ profile' = profile \/ profile' = [profile EXCEPT !.failed = FALSE]
    BY <1>4 DEF ChooseGender, Edited
  <2>2. draft' \in FormType /\ draft'.address = draft.address /\ draft'.point = draft.point
    BY <1>1, <2>1 DEF FormType
  <2> QED
    BY <1>1, <1>2, <2>1, <2>2, AsideNothing
<1>5. CASE TakePicture
  <2>1. PICK f \in {0, 1} : Edited([draft EXCEPT !.picture = f])
    BY <1>5 DEF TakePicture
  <2>2. /\ UNCHANGED exchange /\ UNCHANGED <<account, loaded, profMemory>>
        /\ draft' = [draft EXCEPT !.picture = f]
        /\ profile' = profile \/ profile' = [profile EXCEPT !.failed = FALSE]
    BY <1>5, <2>1 DEF TakePicture, Edited
  <2>3. draft' \in FormType /\ draft'.address = draft.address /\ draft'.point = draft.point
    BY <1>1, <2>2 DEF FormType
  <2> QED
    BY <1>1, <1>2, <2>2, <2>3, AsideNothing
<1>6. CASE TypeSpot
  <2>1. PICK enough \in BOOLEAN :
          /\ draft' = [draft EXCEPT !.timer = Web /\ enough,
                                    !.offered = IF enough THEN @ ELSE NoSpot]
          /\ Send(IF Mobile /\ enough THEN <<ProfileCall("search", NewAccount, {})>> ELSE <<>>)
    BY <1>6 DEF TypeSpot
  <2>2. UNCHANGED <<account, loaded, profile, profMemory>>
    BY <1>6 DEF TypeSpot
  <2>3. PICK b \in BOOLEAN, n \in Nat : draft' = [draft EXCEPT !.timer = b, !.offered = n]
    <3>1. (Web /\ enough) \in BOOLEAN /\ (IF enough THEN draft.offered ELSE NoSpot) \in Nat
      BY <1>1 DEF FormType, NoSpot
    <3> QED
      BY <2>1, <3>1
  <2>4. draft' \in FormType /\ draft'.address = draft.address /\ draft'.point = draft.point
    BY <1>1, <2>3 DEF FormType
  <2>5. Aside
    <3>1. CASE Mobile /\ enough
      <4>1. PICK c \in ProfCall : c = ProfileCall("search", NewAccount, {}) /\ NewIdle(c)
        BY <1>1, NewCalls
      <4> QED
        BY <1>1, <2>1, <3>1, <4>1, AsideSent
    <3>2. CASE ~(Mobile /\ enough)
      <4>1. sent' = sent \o <<>> /\ UNCHANGED <<answers, lost>> /\ sent \in Seq(ProfCall)
        BY <1>1, <2>1, <3>2 DEF Send, ProfTyped
      <4>2. UNCHANGED exchange
        BY <4>1, ConcatEmptySeq DEF exchange
      <4> QED
        BY <1>1, <4>2, AsideNothing
    <3> QED
      BY <3>1, <3>2
  <2> QED
    BY <1>1, <1>2, <2>2, <2>4, <2>5
<1>7. CASE SpotTimerFires
  <2>1. PICK c \in ProfCall : c = ProfileCall("search", NewAccount, {}) /\ NewIdle(c)
    BY <1>1, NewCalls
  <2>2. /\ Send(<<c>>) /\ UNCHANGED <<account, loaded, profile, profMemory>>
        /\ draft' = [draft EXCEPT !.timer = FALSE]
    BY <1>7, <2>1 DEF SpotTimerFires
  <2>3. draft' \in FormType /\ draft'.address = draft.address /\ draft'.point = draft.point
    BY <1>1, <2>2 DEF FormType
  <2> QED
    BY <1>1, <1>2, <2>1, <2>2, <2>3, AsideSent
<1>8. CASE PickSpot
  <2>1. PICK b : b = IF Web THEN FirstParts(draft.offered) ELSE WholeAddress(draft.offered)
    OBVIOUS
  <2>2. /\ UNCHANGED exchange /\ UNCHANGED <<account, loaded, profile, profMemory>>
        /\ draft.offered # NoSpot
        /\ draft' = [draft EXCEPT !.point = draft.offered, !.offered = NoSpot, !.cleared = FALSE,
                                  !.address = b]
    BY <1>8, <2>1 DEF PickSpot
  <2>3. draft.offered \in Nat
    BY <1>1 DEF FormType
  <2>4. b \in Address /\ Fits(b, draft.offered)
    BY <2>1, <2>2, <2>3, Addresses DEF Fits
  <2>5. draft' \in FormType /\ draft'.address = b /\ draft'.point = draft.offered
    BY <1>1, <2>2, <2>3, <2>4 DEF FormType, NoSpot
  <2>6. PICK d : d = draft'
    OBVIOUS
  <2>7. Fits(draft'.address, draft'.point)
    BY <2>4, <2>5, <2>6
  <2> QED
    BY <1>1, <1>2, <2>2, <2>5, <2>7, AsideNothing
<1>9. CASE ClearSpot
  <2>1. /\ UNCHANGED exchange /\ UNCHANGED <<account, loaded, profile, profMemory>>
        /\ draft' = [draft EXCEPT !.address = NoAddress, !.point = NoSpot, !.offered = NoSpot,
                                  !.cleared = Web]
    BY <1>9 DEF ClearSpot
  <2>2. Web \in BOOLEAN /\ NoAddress \in Address /\ NoSpot \in Nat
    BY Addresses DEF Web, NoSpot
  <2>3. draft' \in FormType /\ draft'.address = NoAddress /\ draft'.point = NoSpot
    BY <1>1, <2>1, <2>2 DEF FormType
  <2>4. Fits(draft'.address, draft'.point)
    BY <2>3, Addresses
  <2> QED
    BY <1>1, <1>2, <2>1, <2>3, <2>4, AsideNothing
<1>10. CASE \E i \in DOMAIN answers : SpotsFound(i)
  <2>1. PICK i \in DOMAIN answers : SpotsFound(i)
    BY <1>10
  <2>2. /\ answers[i].call.op = "search" /\ Received(i)
        /\ UNCHANGED <<account, loaded, profile, profMemory>>
        /\ draft' = draft \/ \E p \in Spot \cup {NoSpot} : draft' = [draft EXCEPT !.offered = p]
    BY <2>1 DEF SpotsFound
  <2>3. Spot \cup {NoSpot} \subseteq Nat
    BY <1>1 DEF Spot, NoSpot
  <2>4. draft' \in FormType /\ draft'.address = draft.address /\ draft'.point = draft.point
    BY <1>1, <2>2, <2>3 DEF FormType
  <2> QED
    BY <1>1, <1>2, <2>2, <2>4, AsideFound
<1> QED
  BY <1>3, <1>4, <1>5, <1>6, <1>7, <1>8, <1>9, <1>10

\* The web's memory of the last reading, while no save is under way, is the profile.
LEMMA KnownWhenIdle ==
  ASSUME ProfParts, Web, ~profile.saving, profMemory.fresh
  PROVE  loaded = account
<1>1. NoneOf(SavingCall) /\ sent \in Seq(ProfCall) /\ answers \in Seq(ProfAnswer)
  BY DEF ProfParts, OneSave, ProfCalls, ProfTyped
<1>2. ~Reminder
  <2>1. \A i \in DOMAIN sent : sent[i] \in ProfCall /\ sent[i] \notin SavingCall
    BY <1>1, CallsTyped DEF NoneOf, ProfParts, ProfCalls
  <2>2. \A i \in DOMAIN answers : answers[i].call \in ProfCall /\ answers[i].call \notin SavingCall
    BY <1>1, CallsTyped DEF NoneOf, ProfParts, ProfCalls
  <2>3. \A c \in Range(sent) : c.op \notin Saving \cup {"again"} /\ c.request.picture = 0
    BY <2>1 DEF Range, SavingCall, ProfParts, ProfCalls, ProfTyped, CallFits
  <2>4. \A a \in Range(answers) : a.call.op \notin Saving \cup {"again"}
    BY <2>2 DEF Range, SavingCall
  <2> QED
    BY <2>3, <2>4 DEF Reminder
<1> QED
  BY <1>2 DEF ProfParts, ProfCalls, FreshIsKnown

\* The request of a save: its address is that of its place, and it stands for the form unless
\* the address was not touched.
LEMMA RequestFits ==
  ASSUME ProfParts
  PROVE  \E r \in Account :
           /\ r = Request /\ Fits(r.address, r.point)
           /\ \/ r.address = draft.address
              \/ Web /\ r.address = NoAddress /\ draft.address = loaded.address
<1>1. draft \in FormType /\ Fits(draft.address, draft.point) /\ loaded \in Account
  BY DEF ProfParts, ProfCalls, ProfTyped, DraftFits
<1>2. CASE Web
  <2>1. PICK b : b = IF draft.address # loaded.address THEN draft.address ELSE NoAddress
    OBVIOUS
  <2>2. PICK p : p = IF draft.address # loaded.address THEN draft.point ELSE NoSpot
    OBVIOUS
  <2>3. Request = [name |-> draft.name, address |-> b, point |-> p, gender |-> FALSE,
                   picture |-> draft.picture]
    BY <1>2, <2>1, <2>2 DEF Request, WebRequest
  <2>4. b \in Address /\ p \in Nat /\ Fits(b, p)
    <3>1. CASE draft.address # loaded.address
      <4>1. b = draft.address /\ p = draft.point
        BY <2>1, <2>2, <3>1
      <4> QED
        BY <1>1, <4>1 DEF FormType
    <3>2. CASE draft.address = loaded.address
      BY <2>1, <2>2, <3>2, Addresses DEF NoSpot
    <3> QED
      BY <3>1, <3>2
  <2>5. PICK r : r = [name |-> draft.name, address |-> b, point |-> p, gender |-> FALSE,
                      picture |-> draft.picture]
    OBVIOUS
  <2>6. r \in Account /\ r.address = b /\ r.point = p
    BY <1>1, <2>4, <2>5 DEF Account, FormType
  <2>7. r = Request
    BY <2>3, <2>5
  <2> QED
    BY <1>2, <2>1, <2>4, <2>6, <2>7
<1>3. CASE ~Web
  <2>1. PICK g \in BOOLEAN : g = (draft.once /\ draft.gender)
    BY <1>1 DEF FormType
  <2>2. PICK r : r = [name |-> draft.name, address |-> draft.address, point |-> draft.point,
                      gender |-> g, picture |-> 0]
    OBVIOUS
  <2>3. r = Request
    BY <1>3, <2>1, <2>2 DEF Request, MobileRequest
  <2>4. r \in Account /\ r.address = draft.address /\ r.point = draft.point
    BY <1>1, <2>1, <2>2 DEF Account, FormType
  <2> QED
    BY <1>1, <2>3, <2>4
<1> QED
  BY <1>2, <1>3

\* The user saves.
LEMMA SaveStep ==
  ASSUME ProfParts, UNCHANGED client, SaveProfile
  PROVE  ProfParts'
<1>1. /\ ProfTyped /\ DraftFits /\ draft \in FormType /\ ~profile.saving /\ profile.visit \in Nat
      /\ UNCHANGED <<account, loaded, draft>>
      /\ profile' = [profile EXCEPT !.saving = TRUE, !.failed = FALSE, !.done = FALSE]
      /\ sent \in Seq(ProfCall) /\ answers \in Seq(ProfAnswer)
      /\ profMemory \in MemoryType /\ profMemory.saves \in Nat
  BY DEF ProfParts, ProfCalls, ProfTyped, DraftFits, SaveProfile, PageType, MemoryType
<1>2. PICK r \in Account :
        /\ r = Request /\ Fits(r.address, r.point)
        /\ \/ r.address = draft.address
           \/ Web /\ r.address = NoAddress /\ draft.address = loaded.address
  BY RequestFits
<1>3. PICK op : op = IF r.picture = 0 THEN "patch" ELSE "picture"
  OBVIOUS
<1>4. PICK b \in BOOLEAN : b <=> \A d \in Calls : d.op = "search"
  OBVIOUS
<1>5. PICK c : c = [op |-> op, request |-> r, visit |-> profile.visit, saves |-> profMemory.saves,
                    alone |-> b]
  OBVIOUS
<1>6. /\ c \in ProfCall /\ c.op = op /\ c.request = r /\ c.saves = profMemory.saves /\ c.op \in Saving
      /\ (c.op = "picture" <=> c.request.picture # 0) /\ CallFits(c)
  <2>1. op \in Saving /\ op # "again"
    BY <1>3 DEF Saving
  <2>2. c \in ProfCall /\ c.op = op /\ c.request = r /\ c.saves = profMemory.saves
    BY <1>1, <1>5, <2>1 DEF ProfCall
  <2> QED
    BY <1>1, <1>2, <1>3, <2>1, <2>2 DEF CallFits
<1>7. Send(<<c>>)
  BY <1>2, <1>3, <1>4, <1>5 DEF SaveProfile, ProfileCall
<1>8. /\ Range(sent') = Range(sent) \cup {c} /\ sent' \in Seq(ProfCall)
      /\ answers' = answers /\ sent' = sent \o <<c>>
  <2>1. <<c>> \in Seq(ProfCall) /\ Range(<<c>>) = {c}
    BY <1>6, Single
  <2>2. PICK t \in Seq(ProfCall) : t = <<c>> /\ Range(t) = {c}
    BY <2>1
  <2>3. sent \o t \in Seq(ProfCall) /\ Range(sent \o t) = Range(sent) \cup Range(t)
    BY <1>1, Put
  <2>4. sent' = sent \o t /\ answers' = answers
    BY <1>7, <2>2 DEF Send
  <2> QED
    BY <2>2, <2>3, <2>4
<1>9. PICK q : q = [r EXCEPT !.address = draft.address]
  OBVIOUS
<1>10. /\ q \in Account /\ q.address = draft.address /\ q.name = r.name /\ q.gender = r.gender
       /\ q.picture = r.picture
  BY <1>1, <1>2, <1>9 DEF Account, FormType
<1>11. PICK u \in BOOLEAN : u <=> (~UnderWay(Saving) /\ (Web => profMemory.fresh))
  OBVIOUS
<1>12. profMemory' = [profMemory EXCEPT !.saves = @ + 1, !.asked = q, !.sure = u]
  <2>1. (~UnderWay(Saving) /\ (Web => profMemory.fresh)) = u
    BY <1>11
  <2> QED
    BY <1>2, <1>9, <2>1 DEF SaveProfile
<1>13. /\ profMemory' \in MemoryType
       /\ profMemory'.saves = profMemory.saves + 1 /\ profMemory'.asked = q /\ profMemory'.sure = u
       /\ profMemory'.fresh = profMemory.fresh /\ profMemory'.others = profMemory.others
  <2>1. PICK m : m = profMemory
    OBVIOUS
  <2>2. profMemory' = [m EXCEPT !.saves = m.saves + 1, !.asked = q, !.sure = u]
    BY <1>12, <2>1
  <2>3. m \in MemoryType /\ m.saves + 1 \in Nat
    BY <1>1, <2>1
  <2> QED
    BY <1>10, <2>1, <2>2, <2>3 DEF MemoryType
<1>14. ProfTyped'
  <2>1. profMemory.saves \in Nat
    BY <1>1
  <2>2. \A d \in ProfCall : CallFits(d) => CallFits(d)'
    BY <1>1, <1>13, <2>1 DEF CallFits, Web, ProfCall
  <2>3. \A d \in Range(sent) : CallFits(d)'
    BY <1>1, <2>2, CallsTyped
  <2>4. \A a \in Range(answers) : CallFits(a.call)'
    BY <1>1, <2>2, CallsTyped
  <2> QED
    BY <1>1, <1>6, <1>8, <1>13, <2>2, <2>3, <2>4 DEF ProfTyped
<1>15. NothingCrossed'
  <2>1. \A d \in Calls : d.saves \in Nat /\ d.saves <= profMemory.saves
    BY <1>1, CallsTyped DEF CallFits, ProfCall
  <2>2. \A d \in Calls' : d \in Calls \/ d = c
    BY <1>8, CallsAre
  <2>3. \A d \in Calls' : ~Uncrossed(d)'
    BY <1>1, <1>6, <1>13, <2>1, <2>2 DEF Uncrossed
  <2>4. \A a \in Range(answers') : a.call \in Calls'
    BY CallsAre
  <2> QED
    BY <2>3, <2>4 DEF NothingCrossed
<1>16. FreshIsKnown'
  BY <1>1, <1>8, <1>13 DEF FreshIsKnown, Reminder, ProfParts, ProfCalls, Web
<1>17. SureSave'
  <2> SUFFICES ASSUME u PROVE SureSave'
    BY <1>13 DEF SureSave
  <2>1. \A d \in Calls : d.op \notin Saving
    BY <1>11 DEF UnderWay
  <2>2. \A d \in Calls : d.op # "again"
    <3>1. CASE ~Web
      <4>1. \A d \in Calls : CallFits(d)
        BY <1>1, CallsAre DEF ProfTyped
      <4> QED
        BY <3>1, <4>1 DEF CallFits
    <3>2. CASE Web
      <4>1. NoneOf(SavingCall)
        BY <1>1, <3>2 DEF ProfParts, OneSave
      <4>2. ASSUME NEW d \in Calls PROVE d \notin SavingCall /\ d \in ProfCall
        <5>1. CASE \E i \in DOMAIN sent : d = sent[i]
          BY <1>1, <4>1, <5>1, CallsTyped DEF NoneOf
        <5>2. CASE \E i \in DOMAIN answers : d = answers[i].call
          BY <1>1, <4>1, <5>2, CallsTyped DEF NoneOf
        <5> QED
          BY <4>2, <5>1, <5>2 DEF Calls, Range
      <4> QED
        BY <4>2 DEF SavingCall
    <3> QED
      BY <3>1, <3>2
  <2>3. Stands(r)'
    <3>1. Web => loaded = account
      BY <1>1, <1>11, KnownWhenIdle
    <3>2. CASE r.address = draft.address
      BY <1>10, <1>13, <3>2 DEF Stands
    <3>3. CASE Web /\ r.address = NoAddress /\ draft.address = loaded.address
      <4>1. q.address = account.address /\ account' = account
        BY <1>1, <1>10, <3>1, <3>3
      <4>2. FormatAddress(account'.address) = FormatAddress(q.address)
        BY <4>1
      <4> QED
        BY <1>10, <1>13, <3>3, <4>2 DEF Stands
    <3> QED
      BY <1>2, <3>2, <3>3
  <2>4. \A d \in Calls' : d \in Calls \/ d = c
    BY <1>8, CallsAre
  <2>5. \A a \in Range(answers') : a.call \in Calls
    BY <1>8, CallsAre
  <2>6. c.op = "patch" => PictureStored'
    BY <1>6, <1>10, <1>13, <1>1 DEF PictureStored, Saving
  <2>7. ~profile'.done
    BY <1>1 DEF DraftFits, PageType
  <2>8. c.op # "again"
    BY <1>6 DEF Saving
  <2> QED
    BY <1>6, <2>1, <2>2, <2>3, <2>4, <2>5, <2>6, <2>7, <2>8 DEF SureSave, Saving
<1>18. DraftFits'
  <2>1. profile' \in PageType
    BY <1>1 DEF DraftFits, PageType
  <2> QED
    BY <1>1, <2>1 DEF DraftFits
<1>19. OneSave'
  <2> SUFFICES ASSUME Web PROVE OneOf(SavingCall)' /\ profile'.saving
    BY DEF OneSave, Web
  <2>1. NoneOf(SavingCall) /\ OneOf(SavingCall)
    BY <1>1 DEF ProfParts, OneSave
  <2>2. OneOf(SavingCall)'
    BY <1>1, <1>6, <1>8, <2>1, OneMore
  <2> QED
    BY <1>1, <2>2 DEF DraftFits, PageType
<1> QED
  BY <1>14, <1>15, <1>16, <1>17, <1>18, <1>19 DEF ProfParts, ProfCalls

\* A save in the store: address and place stay together, and what was asked for is kept.
LEMMA Updating ==
  ASSUME ProfTyped, NEW r \in Account, Fits(r.address, r.point)
  PROVE  \E a \in Account :
           /\ a = UpdatedProfile(account, r) /\ Fits(a.address, a.point)
           /\ a.name = (IF r.name = 0 THEN account.name ELSE r.name)
           /\ a.address = (IF r.address = NoAddress THEN account.address ELSE r.address)
           /\ a.gender = (account.gender \/ r.gender) /\ a.picture = account.picture
<1>1. account \in Account /\ Fits(account.address, account.point)
  BY DEF ProfTyped
<1>2. PICK old \in Account : old = account
  BY <1>1
<1>3. PICK n \in Nat : n = IF r.name = 0 THEN old.name ELSE r.name
  BY DEF Account
<1>4. PICK b \in Address : b = IF r.address = NoAddress THEN old.address ELSE r.address
  BY DEF Account
<1>5. PICK p \in Nat : p = IF r.point = NoSpot THEN old.point ELSE r.point
  BY DEF Account
<1>6. PICK g \in BOOLEAN : g = (old.gender \/ r.gender)
  BY DEF Account
<1>7. PICK a : a = [old EXCEPT !.name = n, !.address = b, !.point = p, !.gender = g]
  OBVIOUS
<1>8. a = UpdatedProfile(account, r)
  BY <1>2, <1>3, <1>4, <1>5, <1>6, <1>7 DEF UpdatedProfile
<1>9. /\ a \in Account /\ a.name = n /\ a.address = b /\ a.point = p /\ a.gender = g
      /\ a.picture = old.picture
  BY <1>7 DEF Account
<1>10. Fits(b, p)
  <2>1. r.point \in Nat
    BY DEF Account
  <2>2. CASE r.point = NoSpot
    <3>1. r.address = NoAddress
      BY <2>2 DEF Fits
    <3> QED
      BY <1>1, <1>2, <1>4, <1>5, <2>2, <3>1
  <2>3. CASE r.point # NoSpot
    <3>1. r.address # NoAddress
      BY <2>1, <2>3, Addresses DEF Fits
    <3> QED
      BY <1>4, <1>5, <2>3, <3>1
  <2> QED
    BY <2>2, <2>3
<1> QED
  BY <1>2, <1>3, <1>4, <1>6, <1>8, <1>9, <1>10

\* The server executes a call.
LEMMA ServeStep ==
  ASSUME ProfParts, UNCHANGED client, NEW i \in DOMAIN sent, ProfileServes(i)
  PROVE  ProfParts'
<1>1. /\ ProfTyped /\ DraftFits /\ sent \in Seq(ProfCall) /\ answers \in Seq(ProfAnswer)
      /\ account \in Account /\ Fits(account.address, account.point)
      /\ profMemory \in MemoryType /\ profMemory.others \in Nat
      /\ UNCHANGED <<loaded, draft, profile, profMemory>>
  BY DEF ProfParts, ProfCalls, ProfTyped, ProfileServes, MemoryType
<1>2. PICK c \in ProfCall : c = sent[i] /\ CallFits(c) /\ c \in Range(sent)
  BY <1>1, CallsTyped
<1>3. c.request \in Account /\ Fits(c.request.address, c.request.point) /\ c.request.picture \in Nat
  BY <1>2 DEF ProfCall, CallFits, Account
<1>4. PICK new : new = account'
  OBVIOUS
<1>5. \/ c.op = "patch" /\ new = UpdatedProfile(account, c.request)
      \/ c.op = "picture" /\ new = [account EXCEPT !.picture = c.request.picture]
      \/ c.op \notin Saving /\ new = account
  BY <1>2, <1>4 DEF ProfileServes, Saving
<1>6. new \in Account /\ Fits(new.address, new.point)
  <2>1. CASE c.op = "patch" /\ new = UpdatedProfile(account, c.request)
    BY <1>1, <1>3, <2>1, Updating
  <2>2. CASE c.op = "picture" /\ new = [account EXCEPT !.picture = c.request.picture]
    <3>1. new \in Account /\ new.address = account.address /\ new.point = account.point
      BY <1>1, <1>3, <2>2 DEF Account
    <3> QED
      BY <1>1, <3>1
  <2>3. CASE c.op \notin Saving /\ new = account
    BY <1>1, <2>3
  <2> QED
    BY <1>5, <2>1, <2>2, <2>3
<1>7. PICK a : a = [call |-> c, account |-> new, others |-> profMemory.others]
  OBVIOUS
<1>8. a \in ProfAnswer /\ a.call = c /\ a.account = new /\ a.others = profMemory.others
  BY <1>1, <1>2, <1>6, <1>7 DEF ProfAnswer
<1>9. Executed(i, a)
  BY <1>2, <1>4, <1>7 DEF ProfileServes
<1>10. /\ Passes(ProfCall, ProfAnswer, {c}, {}, {}, {a})
       /\ (OneOf(SavingCall) => OneOf(SavingCall)') /\ (NoneOf(SavingCall) => NoneOf(SavingCall)')
  BY <1>1, <1>2, <1>8, <1>9, Served, OneServed
<1>11. /\ sent' \in Seq(ProfCall) /\ answers' \in Seq(ProfAnswer)
       /\ Range(sent') \subseteq Range(sent) /\ \A d \in Range(sent) : d \in Range(sent') \/ d = c
       /\ \A b \in Range(answers') : b \in Range(answers) \/ b = a
       /\ \A b \in Range(answers) : b \in Range(answers')
       /\ a \in Range(answers')
  BY <1>10 DEF Passes
<1>12. \A d \in Calls' : d \in Calls
  BY <1>2, <1>8, <1>11, CallsAre
<1>13. \A b \in Range(answers') : b.call \in Calls' /\ b.call \in Calls
  BY <1>12, CallsAre
<1>14. c \in Calls
  BY <1>2, CallsAre
<1>15. ProfTyped'
  <2>1. \A d : CallFits(d) => CallFits(d)'
    BY <1>1 DEF CallFits, Web
  <2>2. account' \in Account /\ Fits(account'.address, account'.point)
    BY <1>4, <1>6
  <2>3. \A d \in Range(sent') : CallFits(d)'
    BY <1>1, <1>11, <2>1, CallsTyped
  <2>4. ASSUME NEW b \in Range(answers')
        PROVE  CallFits(b.call)' /\ b.others <= profMemory.others /\ Fits(b.account.address, b.account.point)
    <3>1. CASE b \in Range(answers)
      BY <1>1, <2>1, <3>1 DEF ProfTyped
    <3>2. CASE b = a
      BY <1>1, <1>2, <1>6, <1>8, <2>1, <3>2
    <3> QED
      BY <1>11, <3>1, <3>2
  <2> QED
    BY <1>1, <1>11, <2>2, <2>3, <2>4 DEF ProfTyped
<1>16. NothingCrossed'
  <2>1. \A d : Uncrossed(d)' <=> Uncrossed(d)
    BY <1>1 DEF Uncrossed
  <2>2. \A d, e \in Calls' : Uncrossed(d) => e.op \notin Saving
    BY <1>12 DEF ProfParts, ProfCalls, NothingCrossed
  <2>3. ASSUME NEW b \in Range(answers'), Uncrossed(b.call), b.others = profMemory.others
        PROVE  b.account = new
    <3>1. CASE b = a
      BY <1>8, <3>1
    <3>2. CASE b \in Range(answers)
      <4>1. b.account = account
        BY <2>3, <3>2 DEF ProfParts, ProfCalls, NothingCrossed
      <4>2. c.op \notin Saving
        BY <1>13, <1>14, <2>3 DEF ProfParts, ProfCalls, NothingCrossed
      <4> QED
        BY <1>5, <4>1, <4>2 DEF Saving
    <3> QED
      BY <1>11, <3>1, <3>2
  <2> QED
    BY <1>1, <1>4, <2>1, <2>2, <2>3 DEF NothingCrossed
<1>17. FreshIsKnown'
  <2>1. CASE c.op \in Saving \cup {"again"}
    BY <1>8, <1>11, <2>1 DEF FreshIsKnown, Reminder
  <2>2. CASE c.op \notin Saving \cup {"again"}
    <3>1. account' = account /\ c.request.picture = 0
      BY <1>2, <1>4, <1>5, <2>2 DEF CallFits, Saving
    <3>2. Reminder => Reminder'
      BY <1>11, <2>2, <3>1 DEF Reminder
    <3> QED
      BY <1>1, <3>1, <3>2 DEF FreshIsKnown, ProfParts, ProfCalls, Web
  <2> QED
    BY <2>1, <2>2
<1>18. SureSave'
  <2> SUFFICES ASSUME profMemory.sure PROVE SureSave'
    BY <1>1 DEF SureSave
  <2>1. PICK q \in Account : q = profMemory.asked /\ profMemory'.asked = q
    BY <1>1 DEF MemoryType
  <2>2. /\ \A d \in Calls : d.op \in Saving => Stands(d.request)
        /\ \A d \in Calls : d.op = "patch" => PictureStored
        /\ \A b \in Range(answers) : b.call.op = "picture" => PictureStored
        /\ \A b \in Range(answers) : b.call.op = "patch" => Stored
        /\ \A d \in Calls : d.op = "again" => Stored
        /\ profile.done => Stored
    BY DEF ProfParts, ProfCalls, SureSave
  <2>3. /\ \A r : Stands(r) => Stands(r)'
        /\ (PictureStored => PictureStored') /\ (Stored => Stored')
        /\ c.op = "patch" => Stored'
        /\ c.op = "picture" => PictureStored'
    <3>1. /\ \A r : Stands(r) <=> /\ r.name = q.name /\ r.gender = q.gender /\ r.picture = q.picture
                                  /\ \/ r.address = q.address
                                     \/ /\ r.address = NoAddress
                                        /\ FormatAddress(account.address) = FormatAddress(q.address)
          /\ \A r : Stands(r)' <=> /\ r.name = q.name /\ r.gender = q.gender /\ r.picture = q.picture
                                   /\ \/ r.address = q.address
                                      \/ /\ r.address = NoAddress
                                         /\ FormatAddress(new.address) = FormatAddress(q.address)
      BY <1>4, <2>1 DEF Stands
    <3>2. /\ Stored <=> /\ q.name # 0 => account.name = q.name
                        /\ q.address # NoAddress => FormatAddress(account.address) = FormatAddress(q.address)
                        /\ q.gender => account.gender
                        /\ q.picture # 0 => account.picture = q.picture
          /\ Stored' <=> /\ q.name # 0 => new.name = q.name
                         /\ q.address # NoAddress => FormatAddress(new.address) = FormatAddress(q.address)
                         /\ q.gender => new.gender
                         /\ q.picture # 0 => new.picture = q.picture
      BY <1>4, <2>1 DEF Stored
    <3>3. /\ PictureStored <=> (q.picture # 0 => account.picture = q.picture)
          /\ PictureStored' <=> (q.picture # 0 => new.picture = q.picture)
      BY <1>4, <2>1 DEF PictureStored
    <3>4. CASE c.op = "patch" /\ new = UpdatedProfile(account, c.request)
      <4>1. PICK r \in Account : r = c.request /\ Fits(r.address, r.point)
        BY <1>3
      <4>2. /\ new.name = (IF r.name = 0 THEN account.name ELSE r.name)
            /\ new.address = (IF r.address = NoAddress THEN account.address ELSE r.address)
            /\ new.gender = (account.gender \/ r.gender) /\ new.picture = account.picture
        BY <1>1, <3>4, <4>1, Updating
      <4>3. Stands(r) /\ PictureStored
        BY <1>14, <2>2, <3>4, <4>1 DEF Saving
      <4>4. /\ r.name = q.name /\ r.gender = q.gender /\ r.picture = q.picture
            /\ \/ r.address = q.address
               \/ /\ r.address = NoAddress
                  /\ FormatAddress(account.address) = FormatAddress(q.address)
        BY <3>1, <4>3
      <4>5. q.address # NoAddress => FormatAddress(new.address) = FormatAddress(q.address)
        BY <4>2, <4>4
      <4>6. /\ q.name # 0 => new.name = q.name
            /\ q.gender => new.gender
        BY <4>2, <4>4
      <4>7. q.picture # 0 => new.picture = q.picture
        BY <3>3, <4>2, <4>3
      <4>8. Stored' /\ PictureStored'
        BY <3>2, <3>3, <4>5, <4>6, <4>7
      <4>9. FormatAddress(account.address) = FormatAddress(q.address)
              => FormatAddress(new.address) = FormatAddress(q.address)
        BY <4>2, <4>4
      <4> QED
        BY <3>1, <3>4, <4>8, <4>9
    <3>5. CASE c.op = "picture" /\ new = [account EXCEPT !.picture = c.request.picture]
      <4>1. /\ new.name = account.name /\ new.address = account.address
            /\ new.gender = account.gender /\ new.picture = c.request.picture
        BY <1>1, <3>5 DEF Account
      <4>2. Stands(c.request)
        BY <1>14, <2>2, <3>5 DEF Saving
      <4>3. new.picture = q.picture
        BY <3>1, <4>1, <4>2
      <4>4. Stored => Stored'
        BY <3>2, <4>1, <4>3
      <4>5. PictureStored'
        BY <3>3, <4>3
      <4> QED
        BY <3>1, <3>5, <4>1, <4>4, <4>5
    <3>6. CASE c.op \notin Saving /\ new = account
      BY <3>1, <3>2, <3>3, <3>6 DEF Saving
    <3> QED
      BY <1>5, <3>4, <3>5, <3>6
  <2>4. \A b \in Range(answers') : b \in Range(answers) \/ b.call = c
    BY <1>8, <1>11
  <2> QED
    BY <1>1, <1>12, <2>2, <2>3, <2>4 DEF SureSave
<1>19. DraftFits' /\ OneSave'
  BY <1>1, <1>10 DEF DraftFits, OneSave, ProfParts, Web
<1> QED
  BY <1>15, <1>16, <1>17, <1>18, <1>19 DEF ProfParts, ProfCalls

\* The profile changes elsewhere: nothing that was read or saved before is taken for it.
LEMMA ElsewhereStep ==
  ASSUME ProfParts, UNCHANGED client, ProfileChangesElsewhere
  PROVE  ProfParts'
<1>1. /\ ProfTyped /\ account \in Account /\ Fits(account.address, account.point)
      /\ profMemory \in MemoryType /\ profMemory.others \in Nat
      /\ UNCHANGED <<loaded, draft, profile>> /\ UNCHANGED exchange
      /\ NumNames \in Nat /\ NumSpots \in Nat
  BY ProfileAssumption DEF ProfParts, ProfCalls, ProfTyped, ProfileChangesElsewhere, MemoryType
<1>2. sent' = sent /\ answers' = answers
  BY <1>1 DEF exchange
<1>3. PICK new : new = account'
  OBVIOUS
<1>4. new \in Account /\ Fits(new.address, new.point)
  <2>1. CASE \E n \in 1 .. NumNames : account' = [account EXCEPT !.name = n]
    <3>1. PICK n \in Nat : new = [account EXCEPT !.name = n]
      BY <1>1, <1>3, <2>1
    <3>2. new \in Account /\ new.address = account.address /\ new.point = account.point
      BY <1>1, <3>1 DEF Account
    <3> QED
      BY <1>1, <3>2
  <2>2. CASE \E p \in Spot : \E address \in {WholeAddress(p), FirstParts(p)} :
               account' = [account EXCEPT !.address = address, !.point = p]
    <3>1. PICK p \in Spot : \E address \in {WholeAddress(p), FirstParts(p)} :
                              account' = [account EXCEPT !.address = address, !.point = p]
      BY <2>2
    <3>1a. PICK b \in {WholeAddress(p), FirstParts(p)} : new = [account EXCEPT !.address = b, !.point = p]
      BY <1>3, <3>1
    <3>2. p \in Nat /\ p # NoSpot
      BY <1>1 DEF Spot, NoSpot
    <3>3. b \in Address /\ Fits(b, p)
      BY <3>2, Addresses DEF Fits
    <3>4. new \in Account /\ new.address = b /\ new.point = p
      BY <1>1, <3>1a, <3>2, <3>3 DEF Account
    <3> QED
      BY <3>3, <3>4
  <2> QED
    BY <2>1, <2>2 DEF ProfileChangesElsewhere
<1>5. /\ profMemory' \in MemoryType /\ profMemory'.others = profMemory.others + 1
      /\ profMemory'.saves = profMemory.saves /\ ~profMemory'.fresh /\ ~profMemory'.sure
  <2>1. PICK n \in Nat : n = profMemory.others + 1
    BY <1>1
  <2>2. profMemory' = [profMemory EXCEPT !.fresh = FALSE, !.sure = FALSE, !.others = n]
    BY <2>1 DEF ProfileChangesElsewhere
  <2> QED
    BY <1>1, <2>1, <2>2 DEF MemoryType
<1>6. ProfTyped'
  <2>1. \A d : CallFits(d) => CallFits(d)'
    BY <1>5 DEF CallFits, Web
  <2>2. account' \in Account /\ Fits(account'.address, account'.point)
    BY <1>3, <1>4
  <2>3. \A a \in Range(answers) : a.others \in Nat /\ a.others <= profMemory.others + 1
    BY <1>1, CallsTyped DEF ProfTyped, ProfAnswer
  <2>4. /\ \A d \in Range(sent') : CallFits(d)'
        /\ \A a \in Range(answers') : /\ CallFits(a.call)' /\ a.others <= profMemory'.others
                                       /\ Fits(a.account.address, a.account.point)
    BY <1>1, <1>2, <1>5, <2>1, <2>3 DEF ProfTyped
  <2> QED
    BY <1>1, <1>2, <1>5, <2>2, <2>4 DEF ProfTyped
<1>7. NothingCrossed'
  <2>1. \A d : Uncrossed(d)' <=> Uncrossed(d)
    BY <1>5 DEF Uncrossed
  <2>2. \A a \in Range(answers) : a.others # profMemory'.others
    <3>1. \A a \in Range(answers) : a.others \in Nat /\ a.others <= profMemory.others
      BY <1>1, CallsTyped DEF ProfTyped, ProfAnswer
    <3> QED
      BY <1>1, <1>5, <3>1
  <2>3. Calls' = Calls
    BY <1>2 DEF Calls
  <2> QED
    BY <1>2, <2>1, <2>2, <2>3 DEF NothingCrossed, ProfParts, ProfCalls
<1>8. FreshIsKnown' /\ SureSave'
  BY <1>5 DEF FreshIsKnown, SureSave
<1>9. DraftFits' /\ OneSave'
  BY <1>1, <1>2 DEF DraftFits, OneSave, OneOf, NoneOf, ProfParts, Web
<1> QED
  BY <1>6, <1>7, <1>8, <1>9 DEF ProfParts, ProfCalls

\* A step after which less is under way.
LEMMA FewerKeeps ==
  ASSUME ProfCalls, UNCHANGED <<client, account>>, sent' \in Seq(ProfCall), answers' \in Seq(ProfAnswer),
         Range(sent') \subseteq Range(sent), Range(answers') \subseteq Range(answers),
         loaded' \in Account, Fits(loaded'.address, loaded'.point), NEW b \in BOOLEAN,
         profMemory' = [profMemory EXCEPT !.fresh = b], FreshIsKnown',
         profMemory.sure /\ profile'.done => Stored
  PROVE  ProfCalls'
<1>1. /\ profMemory' \in MemoryType /\ profMemory'.saves = profMemory.saves
      /\ profMemory'.others = profMemory.others /\ profMemory'.asked = profMemory.asked
      /\ profMemory'.sure = profMemory.sure
  BY DEF ProfCalls, ProfTyped, MemoryType
<1>2. \A c \in Calls' : c \in Calls
  BY CallsAre
<1>3. ProfTyped'
  <2>1. \A d : CallFits(d) => CallFits(d)'
    BY <1>1 DEF CallFits, Web
  <2> QED
    BY <1>1, <2>1 DEF ProfTyped, ProfCalls
<1>4. NothingCrossed'
  <2>1. \A d : Uncrossed(d)' <=> Uncrossed(d)
    BY <1>1 DEF Uncrossed
  <2> QED
    BY <1>1, <1>2, <2>1 DEF NothingCrossed, ProfCalls
<1>5. SureSave'
  <2>1. \A r : Stands(r) => Stands(r)'
    BY <1>1 DEF Stands
  <2>2. (PictureStored => PictureStored') /\ (Stored => Stored')
    BY <1>1 DEF PictureStored, Stored
  <2> QED
    BY <1>1, <1>2, <2>1, <2>2 DEF SureSave, ProfCalls
<1> QED
  BY <1>3, <1>4, <1>5 DEF ProfCalls

\* A reading arrives.
LEMMA ReadStep ==
  ASSUME ProfParts, UNCHANGED client, NEW i \in DOMAIN answers, ProfileRead(i)
  PROVE  ProfParts'
<1>1. /\ ProfTyped /\ DraftFits /\ draft \in FormType /\ Fits(draft.address, draft.point)
      /\ sent \in Seq(ProfCall) /\ answers \in Seq(ProfAnswer) /\ profMemory \in MemoryType
      /\ loaded \in Account /\ Fits(loaded.address, loaded.point) /\ profile \in PageType
  BY DEF ProfParts, ProfCalls, ProfTyped, DraftFits
<1>2. PICK a \in ProfAnswer : a = answers[i] /\ a.call \in ProfCall /\ a \in Range(answers)
  BY <1>1, CallsTyped
<1>3. /\ a.call.op \in Reading /\ sent' = sent /\ answers' = RemoveAt(answers, i)
      /\ loaded' = (IF Web THEN a.account ELSE loaded) /\ UNCHANGED account
      /\ profile' = (IF a.call.op = "again" THEN ProfileSaved([profile EXCEPT !.loading = FALSE, !.there = TRUE])
                     ELSE [profile EXCEPT !.loading = FALSE, !.there = TRUE])
  BY <1>2 DEF ProfileRead, Received, Reading
<1>4. PICK b \in BOOLEAN : b <=> (a.call.alone /\ a.call.saves = profMemory.saves
                                 /\ a.others = profMemory.others)
  OBVIOUS
<1>5. profMemory' = [profMemory EXCEPT !.fresh = b]
  <2>1. (a.call.alone /\ a.call.saves = profMemory.saves /\ a.others = profMemory.others) = b
    BY <1>4
  <2> QED
    BY <1>2, <2>1 DEF ProfileRead
<1>6. /\ answers' \in Seq(ProfAnswer) /\ Range(answers') \subseteq Range(answers)
      /\ sent' \in Seq(ProfCall) /\ Range(sent') \subseteq Range(sent)
  BY <1>1, <1>3, Taken
<1>7. a.account \in Account /\ Fits(a.account.address, a.account.point)
  BY <1>1, <1>2 DEF ProfAnswer, ProfTyped
<1>8. PICK l : l = loaded'
  OBVIOUS
<1>9. l \in Account /\ Fits(l.address, l.point)
  BY <1>1, <1>3, <1>7, <1>8
<1>10. FreshIsKnown'
  <2> SUFFICES ASSUME Web, b PROVE loaded' = account
    BY <1>3, <1>5, <1>1 DEF FreshIsKnown, MemoryType, Web
  <2>1. a.account = account
    BY <1>2, <1>3, <1>4 DEF Uncrossed, NothingCrossed, ProfParts, ProfCalls
  <2> QED
    BY <1>3, <2>1
<1>11. /\ profile' \in PageType
       /\ profile'.done => profile.done \/ a.call.op = "again"
       /\ a.call.op = "again" => ~profile'.saving
       /\ a.call.op # "again" => profile'.saving = profile.saving
  <2>1. PICK q : q = [profile EXCEPT !.loading = FALSE, !.there = TRUE]
    OBVIOUS
  <2>2. q \in PageType /\ q.done = profile.done /\ q.saving = profile.saving
    BY <1>1, <2>1 DEF PageType
  <2>3. ProfileSaved(q) \in PageType /\ ~ProfileSaved(q).saving
    BY <2>2 DEF ProfileSaved, PageType
  <2>4. profile' = IF a.call.op = "again" THEN ProfileSaved(q) ELSE q
    BY <1>3, <2>1
  <2> QED
    BY <2>2, <2>3, <2>4
<1>12. profMemory.sure /\ profile'.done => Stored
  <2>1. a.call \in Calls
    BY <1>2, CallsAre
  <2> QED
    BY <1>11, <2>1 DEF SureSave, ProfParts, ProfCalls
<1>13. loaded' \in Account /\ Fits(loaded'.address, loaded'.point)
  BY <1>8, <1>9
<1>14. ProfCalls'
  BY <1>3, <1>5, <1>6, <1>10, <1>12, <1>13, FewerKeeps DEF ProfParts
<1>15. DraftFits'
  <2>1. PICK f : f = FormOf(a.account)
    OBVIOUS
  <2>2. f \in FormType /\ Fits(f.address, f.point)
    BY <1>7, <2>1, FormFits
  <2>3. PICK n \in Nat : n = IF Web /\ a.call.op # "again" THEN draft.picture ELSE 0
    BY <1>1 DEF FormType
  <2>4. draft' = [f EXCEPT !.picture = n, !.timer = draft.timer, !.offered = draft.offered]
    BY <1>2, <2>1, <2>3 DEF ProfileRead
  <2>5. draft.timer \in BOOLEAN /\ draft.offered \in Nat
    BY <1>1 DEF FormType
  <2>6. draft' \in FormType /\ draft'.address = f.address /\ draft'.point = f.point
    BY <2>2, <2>4, <2>5 DEF FormType
  <2> QED
    BY <1>11, <2>2, <2>6 DEF DraftFits
<1>16. OneSave'
  <2> SUFFICES ASSUME Web PROVE OneOf(SavingCall)' /\ (~profile'.saving => NoneOf(SavingCall)')
    BY DEF OneSave, Web
  <2>1. OneOf(SavingCall) /\ (~profile.saving => NoneOf(SavingCall))
    BY DEF ProfParts, OneSave
  <2>2. PICK c \in ProfCall : c = a.call
    BY <1>2
  <2>3. /\ OneOf(SavingCall) => OneOf(SavingCall)'
        /\ NoneOf(SavingCall) => NoneOf(SavingCall)'
        /\ OneOf(SavingCall) /\ answers[i].call \in SavingCall /\ sent' = sent => NoneOf(SavingCall)'
    BY <1>1, <1>3, <2>2, OneHeard
  <2>4. a.call.op = "again" => answers[i].call \in SavingCall
    BY <1>2 DEF SavingCall
  <2> QED
    BY <1>3, <1>11, <2>1, <2>3, <2>4
<1> QED
  BY <1>14, <1>15, <1>16 DEF ProfParts

\* A part of a save is answered, and the next call of it is sent.
LEMMA GoesOn ==
  ASSUME ProfCalls, UNCHANGED <<client, account, loaded, profMemory>>, profile'.done => profile.done,
         NEW i \in DOMAIN answers, NEW d \in ProfCall, Continued(i, <<d>>), CallFits(d),
         answers[i].call.op \in Saving, d.op \in {"patch", "again"},
         Uncrossed(d) => \A e \in Calls' : e # d => e.op = "search",
         d.op = "again" \/ d.request.picture # 0,
         profMemory.sure => IF d.op = "again" THEN Stored ELSE Stands(d.request) /\ PictureStored
  PROVE  ProfCalls' /\ (OneOf(SavingCall) => OneOf(SavingCall)')
<1>1. sent \in Seq(ProfCall) /\ answers \in Seq(ProfAnswer) /\ ProfTyped
  BY DEF ProfCalls, ProfTyped
<1>2. PICK a \in ProfAnswer : a = answers[i] /\ a.call \in ProfCall /\ a \in Range(answers)
  BY <1>1, CallsTyped
<1>3. PICK cs \in Seq(ProfCall) : cs = <<d>> /\ Range(cs) = {d}
  BY Single
<1>4. answers' = RemoveAt(answers, i) /\ sent' = sent \o cs
  BY <1>3 DEF Continued
<1>5. Passes(ProfCall, ProfAnswer, {}, {d}, {a}, {})
  <2>1. Passes(ProfCall, ProfAnswer, {}, Range(cs), {answers[i]}, {})
    BY <1>1, <1>4, Heard
  <2> QED
    BY <1>2, <1>3, <2>1
<1>6. /\ sent' \in Seq(ProfCall) /\ answers' \in Seq(ProfAnswer)
      /\ \A c \in Range(sent') : c \in Range(sent) \/ c = d
      /\ d \in Range(sent') /\ Range(answers') \subseteq Range(answers)
  BY <1>5 DEF Passes
<1>7. \A c \in Calls' : c \in Calls \/ c = d
  BY <1>6, CallsAre
<1>8. a.call \in Calls /\ a.call.op \in Saving
  BY <1>2, CallsAre
<1>9. ProfTyped'
  <2>1. \A c : CallFits(c) => CallFits(c)'
    BY DEF CallFits, Web
  <2> QED
    BY <1>1, <1>6, <2>1 DEF ProfTyped
<1>10. NothingCrossed'
  <2>1. \A c : Uncrossed(c)' <=> Uncrossed(c)
    BY DEF Uncrossed
  <2>2. ASSUME NEW c \in Calls', NEW e \in Calls', Uncrossed(c) PROVE e.op \notin Saving
    <3>1. c \notin Calls
      BY <1>8, <2>2 DEF ProfCalls, NothingCrossed
    <3>2. c = d
      BY <1>7, <3>1
    <3>3. d.op \notin Saving
      BY <2>2, <3>2 DEF Uncrossed, Reading, Saving
    <3> QED
      BY <2>2, <3>2, <3>3 DEF Saving
  <2> QED
    BY <1>6, <2>1, <2>2 DEF NothingCrossed, ProfCalls
<1>11. FreshIsKnown'
  BY <1>6 DEF FreshIsKnown, Reminder
<1>12. SureSave'
  <2>1. \A r : Stands(r) => Stands(r)'
    BY DEF Stands
  <2>2. (PictureStored => PictureStored') /\ (Stored => Stored')
    BY DEF PictureStored, Stored
  <2>3. d.op = "again" => d.op \notin Saving /\ d.op # "patch"
    BY DEF Saving
  <2> QED
    BY <1>6, <1>7, <2>1, <2>2, <2>3 DEF SureSave, ProfCalls
<1>13. OneOf(SavingCall) => OneOf(SavingCall)'
  <2>1. answers[i].call \in SavingCall
    BY <1>2, <1>8 DEF SavingCall
  <2> QED
    BY <1>1, <1>3, <1>4, <2>1, OneHeard
<1> QED
  BY <1>9, <1>10, <1>11, <1>12, <1>13 DEF ProfCalls

\* The picture is saved, and the fields follow.
LEMMA PictureStep ==
  ASSUME ProfParts, UNCHANGED client, NEW i \in DOMAIN answers, PictureSaved(i)
  PROVE  ProfParts'
<1>1. /\ ProfTyped /\ DraftFits /\ sent \in Seq(ProfCall) /\ answers \in Seq(ProfAnswer)
      /\ UNCHANGED <<account, loaded, draft, profile, profMemory>>
  BY DEF ProfParts, ProfCalls, ProfTyped, PictureSaved, profileVars
<1>2. PICK a \in ProfAnswer : /\ a = answers[i] /\ a.call \in ProfCall /\ a \in Range(answers)
                              /\ CallFits(a.call)
  BY <1>1, CallsTyped
<1>3. PICK d : d = [a.call EXCEPT !.op = "patch"]
  OBVIOUS
<1>4. /\ d \in ProfCall /\ d.op = "patch" /\ d.request = a.call.request /\ d.saves = a.call.saves
  BY <1>2, <1>3 DEF ProfCall, Saving
<1>5. a.call.op = "picture" /\ Continued(i, <<d>>)
  BY <1>2, <1>3 DEF PictureSaved
<1>6. CallFits(d) /\ d.request.picture # 0
  BY <1>2, <1>4, <1>5 DEF CallFits, Saving
<1>7. ~Uncrossed(d)
  BY <1>4 DEF Uncrossed, Reading
<1>8. profMemory.sure => Stands(d.request) /\ PictureStored
  <2>1. a.call \in Calls
    BY <1>2, CallsAre
  <2> QED
    BY <1>2, <1>4, <1>5, <2>1 DEF SureSave, ProfParts, ProfCalls, Saving
<1>9. ProfCalls' /\ (OneOf(SavingCall) => OneOf(SavingCall)')
  BY <1>1, <1>2, <1>4, <1>5, <1>6, <1>7, <1>8, GoesOn DEF ProfParts, Saving
<1>10. Web => profile.saving
  <2> SUFFICES ASSUME Web, ~profile.saving PROVE FALSE
    OBVIOUS
  <2>1. NoneOf(SavingCall)
    BY DEF ProfParts, OneSave
  <2> QED
    BY <1>2, <1>5, <2>1 DEF NoneOf, SavingCall, Saving
<1>11. DraftFits' /\ OneSave'
  BY <1>1, <1>9, <1>10 DEF DraftFits, OneSave, ProfParts, Web
<1> QED
  BY <1>9, <1>11 DEF ProfParts

\* The fields are saved: the web reads the profile again, mobile is done.
LEMMA UpdatedStep ==
  ASSUME ProfParts, UNCHANGED client, NEW i \in DOMAIN answers, ProfileUpdated(i)
  PROVE  ProfParts'
<1>1. /\ ProfTyped /\ DraftFits /\ sent \in Seq(ProfCall) /\ answers \in Seq(ProfAnswer)
      /\ UNCHANGED <<account, loaded, draft, profMemory>> /\ profMemory \in MemoryType
      /\ profile \in PageType
  BY DEF ProfParts, ProfCalls, ProfTyped, ProfileUpdated, DraftFits
<1>2. PICK a \in ProfAnswer : /\ a = answers[i] /\ a.call \in ProfCall /\ a \in Range(answers)
                              /\ CallFits(a.call)
  BY <1>1, CallsTyped
<1>3. a.call.op = "patch" /\ a.call.op \in Saving
  BY <1>2 DEF ProfileUpdated, Saving
<1>4. profMemory.sure => Stored
  BY <1>2, <1>3 DEF SureSave, ProfParts, ProfCalls
<1>5. CASE Web /\ Continued(i, <<ProfileCall("again", NewAccount, ProfileOthers(i))>>)
           /\ profile' = [profile EXCEPT !.loading = TRUE, !.failed = FALSE]
  <2>1. PICK b \in BOOLEAN : b <=> \A e \in ProfileOthers(i) : e.op = "search"
    OBVIOUS
  <2>2. PICK d : d = [op |-> "again", request |-> NewAccount, visit |-> profile.visit,
                      saves |-> profMemory.saves, alone |-> b]
    OBVIOUS
  <2>3. d = ProfileCall("again", NewAccount, ProfileOthers(i))
    BY <2>1, <2>2 DEF ProfileCall
  <2>4. /\ d \in ProfCall /\ d.op = "again" /\ d.request = NewAccount /\ d.saves = profMemory.saves
        /\ d.alone = b
    BY <1>1, <2>2, Addresses DEF ProfCall, PageType, MemoryType
  <2>5. Continued(i, <<d>>)
    BY <1>5, <2>3
  <2>6. CallFits(d)
    <3>1. NewAccount.picture = 0 /\ Fits(NewAccount.address, NewAccount.point)
      BY Addresses DEF NewAccount
    <3>2. profMemory.saves \in Nat
      BY <1>1 DEF MemoryType
    <3> QED
      BY <1>5, <2>4, <3>1, <3>2 DEF CallFits
  <2>7. Uncrossed(d) => \A e \in Calls' : e # d => e.op = "search"
    <3>1. PICK cs \in Seq(ProfCall) : cs = <<d>> /\ Range(cs) = {d}
      BY <2>4, Single
    <3>2. answers' = RemoveAt(answers, i) /\ sent' = sent \o cs
      BY <2>5, <3>1 DEF Continued
    <3>3. Range(sent') = Range(sent) \cup {d}
      <4>1. sent \o cs \in Seq(ProfCall) /\ Range(sent \o cs) = Range(sent) \cup Range(cs)
        BY <1>1, Put
      <4> QED
        BY <3>1, <3>2, <4>1
    <3>4. \A j \in DOMAIN answers' : \E k \in DOMAIN answers \ {i} : answers'[j] = answers[k]
      <4>1. PICK kept \in [DOMAIN answers' -> DOMAIN answers] :
               \A j \in DOMAIN answers' : answers'[j] = answers[kept[j]] /\ kept[j] # i
        BY <1>1, <3>2, Others
      <4> QED
        BY <4>1
    <3>5. \A e \in Calls' : e = d \/ e \in ProfileOthers(i)
      BY <3>3, <3>4 DEF Calls, ProfileOthers, Range
    <3> QED
      BY <2>1, <2>4, <3>5 DEF Uncrossed
  <2>8. profile'.done = profile.done /\ profile'.saving = profile.saving /\ profile' \in PageType
    BY <1>1, <1>5 DEF PageType
  <2>9. ProfCalls' /\ (OneOf(SavingCall) => OneOf(SavingCall)')
    BY <1>1, <1>2, <1>3, <1>4, <2>4, <2>5, <2>6, <2>7, <2>8, GoesOn DEF ProfParts
  <2>10. profile.saving
    <3> SUFFICES ASSUME ~profile.saving PROVE FALSE
      OBVIOUS
    <3>1. NoneOf(SavingCall)
      BY <1>5 DEF ProfParts, OneSave
    <3> QED
      BY <1>2, <1>3, <3>1 DEF NoneOf, SavingCall
  <2>11. DraftFits' /\ OneSave'
    BY <1>1, <2>8, <2>9, <2>10 DEF DraftFits, OneSave, ProfParts, Web
  <2> QED
    BY <2>9, <2>11 DEF ProfParts
<1>6. CASE Mobile /\ ForgetReadings(RemoveAt(answers, i), <<>>) /\ profile' = ProfileSaved(profile)
  <2>1. PICK left \in Seq(ProfAnswer) : left = RemoveAt(answers, i) /\ Range(left) \subseteq Range(answers)
    BY <1>1, Taken
  <2> DEFINE RS == {j \in DOMAIN sent : Forgotten(sent[j])}
             RA == {j \in DOMAIN left : Forgotten(left[j].call)}
  <2>2. sent' = Dropped(sent, RS) \o <<>> /\ answers' = Dropped(left, RA)
    BY <1>6, <2>1 DEF ForgetReadings
  <2>3. RS \subseteq DOMAIN sent /\ RA \subseteq DOMAIN left
    OBVIOUS
  <2> HIDE DEF RS, RA
  <2>4. Dropped(sent, RS) \in Seq(ProfCall) /\ Range(Dropped(sent, RS)) \subseteq Range(sent)
    BY <1>1, <2>3, Forgetting
  <2>5. Dropped(left, RA) \in Seq(ProfAnswer) /\ Range(Dropped(left, RA)) \subseteq Range(left)
    BY <2>3, Forgetting
  <2>6. sent' = Dropped(sent, RS)
    BY <2>2, <2>4, ConcatEmptySeq
  <2>7. /\ sent' \in Seq(ProfCall) /\ Range(sent') \subseteq Range(sent)
        /\ answers' \in Seq(ProfAnswer) /\ Range(answers') \subseteq Range(answers)
    BY <2>1, <2>2, <2>4, <2>5, <2>6
  <2>8. ~Web /\ ~Web'
    BY <1>6 DEF Web, Mobile
  <2>9. FreshIsKnown' /\ OneSave'
    BY <2>8 DEF FreshIsKnown, OneSave
  <2>10. profMemory.fresh \in BOOLEAN /\ profMemory' = [profMemory EXCEPT !.fresh = profMemory.fresh]
    BY <1>1 DEF MemoryType
  <2>11. loaded' \in Account /\ Fits(loaded'.address, loaded'.point)
    BY <1>1 DEF ProfTyped
  <2>12. ProfCalls'
    BY <1>1, <1>4, <2>7, <2>9, <2>10, <2>11, FewerKeeps DEF ProfParts
  <2>13. DraftFits'
    <3>1. profile' \in PageType
      BY <1>1, <1>6 DEF ProfileSaved, PageType
    <3> QED
      BY <1>1, <3>1 DEF DraftFits
  <2> QED
    BY <2>9, <2>12, <2>13 DEF ProfParts
<1> QED
  BY <1>5, <1>6 DEF ProfileUpdated

\* A call or an answer is lost: what the page makes of it, apart from the calls.
LEMMA LossShows ==
  ASSUME ProfParts, UNCHANGED client, NEW c \in ProfCall, CallFits(c), c \in Calls, NEW made \in BOOLEAN,
         GivesUpProfile(c, made),
         made \/ profMemory.fresh => FreshIsKnown',
         sent' \in Seq(ProfCall), answers' \in Seq(ProfAnswer),
         Range(sent') \subseteq Range(sent), Range(answers') \subseteq Range(answers),
         c.op = "again" => (profMemory.sure => Stored),
         OneOf(SavingCall) => OneOf(SavingCall)', NoneOf(SavingCall) => NoneOf(SavingCall)',
         OneOf(SavingCall) /\ c \in SavingCall => NoneOf(SavingCall)'
  PROVE  ProfParts'
<1>1. /\ DraftFits /\ draft \in FormType /\ Fits(draft.address, draft.point) /\ profile \in PageType
      /\ profMemory \in MemoryType /\ profMemory.fresh \in BOOLEAN
      /\ loaded \in Account /\ Fits(loaded.address, loaded.point) /\ UNCHANGED <<account, loaded>>
  BY DEF ProfParts, ProfCalls, ProfTyped, DraftFits, MemoryType, GivesUpProfile
<1>2. PICK b \in BOOLEAN : b = (profMemory.fresh /\ ~made)
  OBVIOUS
<1>3. profMemory' = [profMemory EXCEPT !.fresh = b]
  BY <1>2 DEF GivesUpProfile
<1>4. /\ profile' \in PageType
      /\ profile'.done => profile.done \/ c.op = "again"
      /\ profile'.saving = profile.saving \/ c \in SavingCall
  <2>1. CASE c.op = "load"
    BY <1>1, <2>1 DEF GivesUpProfile, PageType, Saving
  <2>2. CASE c.op = "again"
    <3>1. PICK q : q = [profile EXCEPT !.loading = FALSE, !.failed = TRUE]
      OBVIOUS
    <3>2. q \in PageType
      BY <1>1, <3>1 DEF PageType
    <3>3. profile' = ProfileSaved(q)
      BY <2>2, <3>1 DEF GivesUpProfile, Saving
    <3>4. profile' \in PageType
      BY <3>2, <3>3 DEF ProfileSaved, PageType
    <3> QED
      BY <2>2, <3>4 DEF SavingCall
  <2>3. CASE c.op \in Saving
    <3>1. profile' = profile \/ profile' = [profile EXCEPT !.saving = FALSE, !.failed = TRUE]
      BY <2>3 DEF GivesUpProfile, Saving
    <3>2. profile' \in PageType /\ profile'.done = profile.done
      BY <1>1, <3>1 DEF PageType
    <3> QED
      BY <2>3, <3>2 DEF SavingCall
  <2>4. CASE c.op = "search"
    <3>1. profile' = profile
      BY <2>4 DEF GivesUpProfile, Saving
    <3> QED
      BY <1>1, <3>1
  <2> QED
    BY <2>1, <2>2, <2>3, <2>4 DEF ProfCall
<1>5. draft' \in FormType /\ draft'.address = draft.address /\ draft'.point = draft.point
  <2>1. \/ draft' = draft \/ draft' = [draft EXCEPT !.offered = NoSpot]
        \/ draft' = [draft EXCEPT !.picture = 0]
    BY DEF GivesUpProfile
  <2> QED
    BY <1>1, <2>1 DEF FormType, NoSpot
<1>6. DraftFits'
  BY <1>1, <1>4, <1>5 DEF DraftFits
<1>7. FreshIsKnown'
  <2>1. CASE ~(made \/ profMemory.fresh)
    <3>1. ~profMemory'.fresh
      BY <1>1, <1>2, <1>3, <2>1 DEF MemoryType
    <3> QED
      BY <3>1 DEF FreshIsKnown
  <2> QED
    BY <2>1
<1>8. profMemory.sure /\ profile'.done => Stored
  BY <1>4 DEF SureSave, ProfParts, ProfCalls
<1>9. loaded' \in Account /\ Fits(loaded'.address, loaded'.point)
  BY <1>1
<1>10. ProfCalls'
  BY <1>1, <1>3, <1>7, <1>8, <1>9, FewerKeeps DEF ProfParts
<1>11. OneSave'
  BY <1>4 DEF OneSave, ProfParts, Web
<1> QED
  BY <1>6, <1>10, <1>11 DEF ProfParts

\* A call or an answer is lost.
LEMMA ProfileLossStep ==
  ASSUME ProfParts, UNCHANGED client,
         \/ \E i \in DOMAIN sent : ProfileCallLost(i)
         \/ \E i \in DOMAIN answers : ProfileAnswerLost(i)
  PROVE  ProfParts'
<1>1. /\ ProfTyped /\ sent \in Seq(ProfCall) /\ answers \in Seq(ProfAnswer)
      /\ profMemory \in MemoryType
  BY DEF ProfParts, ProfCalls, ProfTyped
<1>2. ASSUME NEW i \in DOMAIN sent, ProfileCallLost(i) PROVE ProfParts'
  <2>1. PICK c \in ProfCall : c = sent[i] /\ CallFits(c) /\ c \in Range(sent)
    BY <1>1, <1>2, CallsTyped
  <2>2. PICK made \in BOOLEAN : made <=> (c.op = "again" \/ c.request.picture # 0)
    OBVIOUS
  <2>3. GivesUpProfile(c, made) /\ sent' = RemoveAt(sent, i) \o <<>> /\ answers' = answers
    <3>1. (c.op = "again" \/ c.request.picture # 0) = made
      BY <2>2
    <3> QED
      BY <1>2, <2>1, <3>1 DEF ProfileCallLost, LoseCall
  <2>4. Passes(ProfCall, ProfAnswer, {sent[i]}, {}, {}, {}) /\ sent' = RemoveAt(sent, i)
    BY <1>1, <1>2, <2>3, Missed
  <2>5. /\ sent' \in Seq(ProfCall) /\ answers' \in Seq(ProfAnswer)
        /\ Range(sent') \subseteq Range(sent) /\ Range(answers') \subseteq Range(answers)
        /\ \A d \in Range(sent) : d \in Range(sent') \/ d = c
    BY <1>1, <2>1, <2>3, <2>4 DEF Passes
  <2>6. /\ OneOf(SavingCall) => OneOf(SavingCall)'
        /\ NoneOf(SavingCall) => NoneOf(SavingCall)'
        /\ OneOf(SavingCall) /\ sent[i] \in SavingCall => NoneOf(SavingCall)'
    BY <1>1, <1>2, <2>3, <2>4, OneMissed
  <2>7. FreshIsKnown'
    <3> SUFFICES ASSUME Web, profMemory'.fresh PROVE (loaded = account \/ Reminder)'
      BY DEF FreshIsKnown, Web
    <3>1. profMemory.fresh /\ ~made
      BY <1>1, <2>3 DEF GivesUpProfile, MemoryType
    <3>2. Reminder => Reminder'
      BY <2>2, <2>3, <2>5, <3>1 DEF Reminder
    <3>3. loaded = account \/ Reminder
      BY <3>1 DEF ProfParts, ProfCalls, FreshIsKnown
    <3>4. UNCHANGED <<loaded, account>>
      BY <2>3 DEF GivesUpProfile
    <3> QED
      BY <3>2, <3>3, <3>4
  <2>8. c \in Calls
    BY <2>1, CallsAre
  <2>9. c.op = "again" => (profMemory.sure => Stored)
    BY <2>8 DEF SureSave, ProfParts, ProfCalls
  <2> QED
    BY <2>1, <2>3, <2>5, <2>6, <2>7, <2>8, <2>9, LossShows
<1>3. ASSUME NEW i \in DOMAIN answers, ProfileAnswerLost(i) PROVE ProfParts'
  <2>1. PICK a \in ProfAnswer : /\ a = answers[i] /\ a.call \in ProfCall /\ a \in Range(answers)
                                /\ CallFits(a.call)
    BY <1>1, <1>3, CallsTyped
  <2>2. PICK made \in BOOLEAN : made <=> a.call.op \in Saving \cup {"again"}
    OBVIOUS
  <2>3. GivesUpProfile(a.call, made) /\ sent' = sent \o <<>> /\ answers' = RemoveAt(answers, i)
    <3>1. (a.call.op \in Saving \cup {"again"}) = made
      BY <2>2
    <3> QED
      BY <1>3, <2>1, <3>1 DEF ProfileAnswerLost, LoseAnswer
  <2>4. sent' = sent
    BY <1>1, <2>3, ConcatEmptySeq
  <2>5. /\ sent' \in Seq(ProfCall) /\ answers' \in Seq(ProfAnswer)
        /\ Range(sent') \subseteq Range(sent) /\ Range(answers') \subseteq Range(answers)
        /\ Range(answers) \subseteq Range(answers') \cup {answers[i]}
    BY <1>1, <1>3, <2>3, <2>4, Taken
  <2>6. /\ OneOf(SavingCall) => OneOf(SavingCall)'
        /\ NoneOf(SavingCall) => NoneOf(SavingCall)'
        /\ OneOf(SavingCall) /\ answers[i].call \in SavingCall /\ sent' = sent => NoneOf(SavingCall)'
    BY <1>1, <1>3, <2>1, <2>3, <2>4, OneHeard
  <2>7. FreshIsKnown'
    <3> SUFFICES ASSUME Web, profMemory'.fresh PROVE (loaded = account \/ Reminder)'
      BY DEF FreshIsKnown, Web
    <3>1. profMemory.fresh /\ ~made
      BY <1>1, <2>3 DEF GivesUpProfile, MemoryType
    <3>2. Reminder => Reminder'
      BY <2>1, <2>2, <2>4, <2>5, <3>1 DEF Reminder
    <3>3. loaded = account \/ Reminder
      BY <3>1 DEF ProfParts, ProfCalls, FreshIsKnown
    <3>4. UNCHANGED <<loaded, account>>
      BY <2>3 DEF GivesUpProfile
    <3> QED
      BY <3>2, <3>3, <3>4
  <2>8. a.call \in Calls
    BY <2>1, CallsAre
  <2>9. a.call.op = "again" => (profMemory.sure => Stored)
    BY <2>8 DEF SureSave, ProfParts, ProfCalls
  <2> QED
    BY <2>1, <2>3, <2>4, <2>5, <2>6, <2>7, <2>8, <2>9, LossShows
<1> QED
  BY <1>2, <1>3

\* The invariant of the profile.
LEMMA ProfileInvariant == Spec => []ProfInv
<1>1. Init => ProfInv
  <2> SUFFICES ASSUME Init PROVE ProfInv
    OBVIOUS
  <2>1. /\ sent = <<>> /\ answers = <<>> /\ loaded = NewAccount /\ draft = EmptyForm
        /\ profile = [loading |-> TRUE, there |-> FALSE, editing |-> FALSE, saving |-> FALSE,
                      failed |-> FALSE, done |-> FALSE, visit |-> 0]
        /\ profMemory = [fresh |-> FALSE, sure |-> FALSE, saves |-> 0, others |-> 0,
                         asked |-> NewAccount]
    BY DEF Init, ProfileInit
  <2>2. PICK p \in {NoSpot, 1} : /\ screen # "profile" => p = NoSpot
                                 /\ account = [NewAccount EXCEPT !.point = p,
                                      !.address = IF p = NoSpot THEN NoAddress ELSE WholeAddress(p)]
    BY DEF Init, ProfileInit
  <2>3. NewAccount \in Account /\ NewAccount.point = NoSpot /\ NewAccount.address = NoAddress
        /\ NewAccount = [name |-> 0, address |-> NoAddress, point |-> NoSpot, gender |-> FALSE,
                         picture |-> 0]
    BY Addresses DEF NewAccount
  <2>4. PICK b : b = IF p = NoSpot THEN NoAddress ELSE WholeAddress(p)
    OBVIOUS
  <2>5. b \in Address /\ Fits(b, p) /\ p \in Nat
    <3>1. p \in Nat
      BY DEF NoSpot
    <3> QED
      BY <2>4, <3>1, Addresses DEF Fits
  <2>6. account \in Account /\ account.address = b /\ account.point = p
    BY <2>2, <2>3, <2>4, <2>5 DEF Account
  <2>7. screen # "profile" => account = NewAccount
    BY <2>2, <2>3, <2>4
  <2>8. Calls = {} /\ Range(sent) = {} /\ Range(answers) = {}
    BY <2>1 DEF Calls, Range
  <2>9. sent \in Seq(ProfCall) /\ answers \in Seq(ProfAnswer)
    BY <2>1, Nothing
  <2>10. profMemory \in MemoryType /\ ~profMemory.fresh /\ ~profMemory.sure
    BY <2>1, <2>3 DEF MemoryType
  <2>11. ProfTyped
    BY <2>1, <2>3, <2>5, <2>6, <2>8, <2>9, <2>10, Addresses DEF ProfTyped
  <2>12. NothingCrossed /\ FreshIsKnown /\ SureSave
    BY <2>8, <2>10 DEF NothingCrossed, FreshIsKnown, SureSave
  <2>13. draft \in FormType /\ Fits(draft.address, draft.point)
    BY <2>1, <2>3, FormFits, Addresses DEF EmptyForm
  <2>14. profile \in PageType /\ ~profile.done
    BY <2>1 DEF PageType
  <2>15. OneSave
    BY <2>1 DEF OneSave, OneOf, NoneOf
  <2> QED
    BY <2>1, <2>7, <2>10, <2>11, <2>12, <2>13, <2>14, <2>15
       DEF ProfInv, ProfParts, ProfCalls, DraftFits
<1>2. ProfInv /\ [Next]_vars => ProfInv'
  <2> SUFFICES ASSUME ProfInv, [Next]_vars PROVE ProfInv'
    OBVIOUS
  <2>1. CASE screen = "profile" /\ ProfileNext /\ UNCHANGED <<client, screen>>
    <3>1. ProfParts /\ UNCHANGED client
      BY <2>1 DEF ProfInv
    <3>2. ProfParts'
      BY <2>1, <3>1, PageStep, FillStep, SaveStep, ElsewhereStep, ServeStep, ReadStep, PictureStep,
         UpdatedStep, ProfileLossStep DEF ProfileNext
    <3> QED
      BY <2>1, <3>2 DEF ProfInv
  <2>2. CASE screen # "profile" /\ UNCHANGED profileVars /\ UNCHANGED <<client, screen>>
    BY <2>2 DEF ProfInv, profileVars, EmptyForm, FormOf, Web
  <2>3. CASE UNCHANGED vars
    <3>1. UNCHANGED <<client, screen, sent, answers, account, loaded, draft, profile, profMemory>>
      BY <2>3 DEF vars, exchange, profileVars
    <3>2. Calls' = Calls
      BY <3>1 DEF Calls
    <3>3. CASE screen = "profile"
      <4>1. ProfParts /\ UNCHANGED exchange
        BY <2>3, <3>3 DEF ProfInv, vars
      <4>2. Aside
        BY <4>1, AsideNothing DEF ProfParts, ProfCalls
      <4>3. DraftFits'
        BY <3>1, <4>1 DEF ProfParts, DraftFits
      <4>4. ProfParts'
        BY <3>1, <4>1, <4>2, <4>3, AsideDone
      <4> QED
        BY <3>1, <3>3, <4>4 DEF ProfInv
    <3>4. CASE screen # "profile"
      BY <3>1, <3>4 DEF ProfInv, EmptyForm, FormOf, Web
    <3> QED
      BY <3>3, <3>4
  <2> QED
    BY <2>1, <2>2, <2>3 DEF Next
<1> QED
  BY <1>1, <1>2, PTL DEF Spec

\* What the form reported as saved is stored, the address always belongs to the place on
\* the map, and the web's page at rest shows the stored profile; left out is what
\* ProfileIsStored leaves out.
THEOREM SavedIsStored == Spec => []ProfileIsStored
<1>1. ProfInv => ProfileIsStored
  <2> SUFFICES ASSUME ProfInv PROVE ProfileIsStored
    OBVIOUS
  <2>1. CASE screen = "profile"
    <3>1. ProfParts
      BY <2>1 DEF ProfInv
    <3>2. profile.done /\ profMemory.sure => Stored
      BY <3>1 DEF ProfParts, ProfCalls, SureSave
    <3>3. Fits(account.address, account.point) /\ Fits(draft.address, draft.point)
      BY <3>1 DEF ProfParts, ProfCalls, ProfTyped, DraftFits
    <3>4. Web /\ Quiet /\ profMemory.fresh => loaded = account
      BY <3>1 DEF ProfParts, ProfCalls, FreshIsKnown, Reminder, Quiet, Range
    <3> QED
      BY <3>2, <3>3, <3>4 DEF ProfileIsStored, Stored
  <2>2. CASE screen # "profile"
    <3>1. account = NewAccount /\ draft = EmptyForm /\ ~profile.done /\ ~profMemory.fresh
      BY <2>2 DEF ProfInv
    <3>2. NewAccount \in Account /\ Fits(NewAccount.address, NewAccount.point)
      BY Addresses DEF NewAccount
    <3>3. Fits(EmptyForm.address, EmptyForm.point)
      BY <3>2, FormFits DEF EmptyForm
    <3> QED
      BY <3>1, <3>2, <3>3 DEF ProfileIsStored
  <2> QED
    BY <2>1, <2>2
<1> QED
  BY <1>1, ProfileInvariant, PTL

-----------------------------------------------------------------------------
(* The favorite places.                                                    *)

FavCall == [op : {"search"} \cup ListingFavorites \cup ChangingFavorites, id : Nat, acts : Nat,
            alone : BOOLEAN]
FavAnswer == [call : FavCall, ok : BOOLEAN, id : Nat, ids : SUBSET Favorite, others : Nat]
SavedType == [ids : SUBSET Favorite, made : Nat, others : Nat]
TabType == [shown : [Favorite -> Nat], loading : BOOLEAN, refreshing : BOOLEAN, failed : BOOLEAN,
            removing : Nat]
WindowType == [open : BOOLEAN, named : BOOLEAN, picked : BOOLEAN, offered : BOOLEAN,
               timer : BOOLEAN, saving : BOOLEAN]
FavMemoryType == [read : BOOLEAN, crossed : BOOLEAN, seen : Nat, acts : Nat]

\* A call is of the past, only a place that was made can be removed, and only mobile
\* refreshes the list or reads it after a refusal.
PlaceCallFits(c) ==
  /\ c.acts <= favMemory.acts
  /\ c.op = "remove" => c.id \in Favorite /\ c.id <= favorites.made
  /\ Web => c.op \notin {"refresh", "sync"}

IsAdded(a) == a.call.op = "add" /\ a.ok
IsRemoved(a) == a.call.op = "remove" /\ a.ok

\* An answer is of the past and speaks of places that were made.
PlaceAnswerFits(a) ==
  /\ a.others <= favorites.others
  /\ \A f \in a.ids : f <= favorites.made
  /\ a.call.op = "remove" => a.id = a.call.id
  /\ IsAdded(a) => a.id \in Favorite /\ a.id <= favorites.made

PlaceCalls ==
  /\ sent \in Seq(FavCall) /\ answers \in Seq(FavAnswer)
  /\ \A c \in Calls : PlaceCallFits(c)
  /\ \A a \in Range(answers) : PlaceAnswerFits(a)
PlacesSaved ==
  /\ favorites \in SavedType
  /\ Cardinality(favorites.ids) <= MaxFavorites
  /\ \A f \in favorites.ids : f <= favorites.made
  /\ favMemory \in FavMemoryType /\ favMemory.seen <= favorites.others
TabFits == tab \in TabType /\ \A f \in Favorite : tab.shown[f] > 0 => f <= favorites.made
FavTyped == PlaceCalls /\ PlacesSaved /\ TabFits /\ adding \in WindowType

\* A reading that nothing could cross: no change is under way with it, and its answer is
\* the saved places unless they were changed elsewhere.
Lonely(c) == c.op \in ListingFavorites /\ c.alone /\ c.acts = favMemory.acts
LonelyReads ==
  /\ \A c, d \in Calls : Lonely(c) => d.op \notin ChangingFavorites
  /\ \A a \in Range(answers) :
       Lonely(a.call) /\ a.others = favorites.others => a.ids = favorites.ids

\* After such a reading the list differs from the saved places by the changes whose
\* answers are under way, and each of these concerns a place of its own.
Clean == favMemory.read /\ ~favMemory.crossed /\ favMemory.seen = favorites.others
Adds == {f \in Favorite : \E a \in Range(answers) : IsAdded(a) /\ a.id = f}
Rems == {f \in Favorite : \E a \in Range(answers) : IsRemoved(a) /\ a.id = f}
RemovedOnce ==
  \A i, j \in DOMAIN answers :
    IsRemoved(answers[i]) /\ IsRemoved(answers[j]) /\ answers[i].id = answers[j].id => i = j
ChangesKnown ==
  Clean => /\ Adds \subseteq favorites.ids /\ Rems \cap favorites.ids = {}
           /\ \A c \in Range(sent) : c.op = "remove" => c.id \notin Adds
           /\ RemovedOnce
Showing == Clean /\ (Web => ~tab.loading /\ ~tab.failed)
ListKnown == Showing => tab.shown = Copies((favorites.ids \ Adds) \cup Rems)

\* The web's list loads only while something is loaded, and one place is saved at a time.
WebLoads == Web /\ favMemory.read /\ tab.loading => UnderWay({"load", "again"})
AddKind == {c \in FavCall : c.op \in {"add", "again"} \/ (c.op = "sync" /\ c.id = 0)}
OneAdding == OneOf(AddKind) /\ (~adding.saving => NoneOf(AddKind))

FavKnown == ChangesKnown /\ ListKnown
FavParts == FavTyped /\ LonelyReads /\ FavKnown /\ WebLoads /\ OneAdding

\* Calls that go and come, among all that are under way.
LEMMA CallsPass ==
  ASSUME NEW gS, NEW cS, NEW gA, NEW cA, Passes(FavCall, FavAnswer, gS, cS, gA, cA),
         \A a \in cA : a.call \in Calls
  PROVE  /\ \A c \in Calls' : c \in Calls \/ c \in cS
         /\ \A c \in Calls : c \in Calls' \/ c \in gS \/ \E a \in gA : c = a.call
         /\ cS \subseteq Calls' /\ \A a \in cA : a.call \in Calls'
<1>1. /\ Range(sent') \subseteq Range(sent) \cup cS /\ Range(sent) \subseteq Range(sent') \cup gS
      /\ cS \subseteq Range(sent')
      /\ Range(answers') \subseteq Range(answers) \cup cA
      /\ Range(answers) \subseteq Range(answers') \cup gA /\ cA \subseteq Range(answers')
  BY DEF Passes
<1> QED
  BY <1>1, CallsAre

\* The calls and answers fit after a step if those that came fit.
LEMMA CallsStayFit ==
  ASSUME PlaceCalls, PlacesSaved, PlacesSaved', UNCHANGED client,
         NEW gS, NEW cS, NEW gA, NEW cA, Passes(FavCall, FavAnswer, gS, cS, gA, cA),
         favorites.made <= favorites'.made, favorites.others <= favorites'.others,
         favMemory.acts <= favMemory'.acts,
         \A c \in cS : PlaceCallFits(c)', \A a \in cA : PlaceAnswerFits(a)' /\ a.call \in Calls
  PROVE  PlaceCalls'
<1>0. \A c \in Calls' : c \in Calls \/ c \in cS
  <2>1. \A a \in cA : a.call \in Calls
    OBVIOUS
  <2> QED
    BY <2>1, CallsPass
<1>1. /\ \A c \in Calls' : c \in Calls \/ c \in cS
      /\ sent' \in Seq(FavCall) /\ answers' \in Seq(FavAnswer)
      /\ Range(answers') \subseteq Range(answers) \cup cA
  BY <1>0 DEF Passes
<1>2. /\ favorites.made \in Nat /\ favorites'.made \in Nat /\ favorites.others \in Nat
      /\ favorites'.others \in Nat /\ favMemory.acts \in Nat /\ favMemory'.acts \in Nat
  BY DEF PlacesSaved, SavedType, FavMemoryType
<1>3. Range(answers) \subseteq FavAnswer /\ Calls \subseteq FavCall
  <2>1. Range(answers) \subseteq FavAnswer /\ Range(sent) \subseteq FavCall
    BY DEF PlaceCalls, Range
  <2> QED
    BY <2>1, CallsAre DEF FavAnswer
<1>4. ASSUME NEW c \in Calls' PROVE PlaceCallFits(c)'
  <2>1. CASE c \in cS
    BY <2>1
  <2>2. CASE c \in Calls
    <3>1. PlaceCallFits(c) /\ c \in FavCall
      BY <2>2, <1>3 DEF PlaceCalls
    <3>2. c.id \in Nat /\ c.acts \in Nat
      BY <3>1 DEF FavCall
    <3> QED
      BY <3>1, <3>2, <1>2 DEF PlaceCallFits, Web
  <2> QED
    BY <2>1, <2>2, <1>1, <1>4
<1>5. ASSUME NEW a \in Range(answers') PROVE PlaceAnswerFits(a)'
  <2>1. CASE a \in cA
    BY <2>1
  <2>2. CASE a \in Range(answers)
    <3>1. PlaceAnswerFits(a) /\ a \in FavAnswer
      BY <2>2, <1>3 DEF PlaceCalls
    <3>2. a.id \in Nat /\ a.others \in Nat /\ a.ids \subseteq Nat
      BY <3>1 DEF FavAnswer, Favorite
    <3> QED
      BY <3>1, <3>2, <1>2 DEF PlaceAnswerFits, IsAdded
  <2> QED
    BY <2>1, <2>2, <1>1, <1>5
<1> QED
  BY <1>1, <1>4, <1>5 DEF PlaceCalls

\* Calls that go, and calls that change nothing and were sent alone or know that they
\* were not, leave the lonely readings lonely.
LEMMA StayLonely ==
  ASSUME LonelyReads, UNCHANGED favorites, favMemory'.acts = favMemory.acts,
         NEW gS, NEW cS, NEW gA, Passes(FavCall, FavAnswer, gS, cS, gA, {}),
         \A c \in cS :
           /\ c.op \notin ChangingFavorites
           /\ c.op = "search" \/ (c.alone => \A d \in Calls' : d \in cS \/ d.op = "search")
  PROVE  LonelyReads'
<1>0. \A c \in Calls' : c \in Calls \/ c \in cS
  BY CallsPass
<1>1. /\ \A c \in Calls' : c \in Calls \/ c \in cS
      /\ Range(answers') \subseteq Range(answers)
  BY <1>0 DEF Passes
<1>2. \A c : Lonely(c)' <=> Lonely(c)
  BY DEF Lonely
<1>3. \A c, d \in Calls' : Lonely(c) => d.op \notin ChangingFavorites
  BY <1>1 DEF LonelyReads, Lonely, ChangingFavorites, ListingFavorites
<1> QED
  BY <1>1, <1>2, <1>3 DEF LonelyReads

\* When a change is asked for, or is made elsewhere, no reading is lonely any more, or no
\* answer to one tells the places of now.
LEMMA NoneLonely ==
  ASSUME PlaceCalls, PlacesSaved, UNCHANGED favorites, favMemory'.acts = favMemory.acts + 1,
         NEW c, c.op \in ChangingFavorites, Passes(FavCall, FavAnswer, {}, {c}, {}, {})
  PROVE  LonelyReads'
<1>0. \A d \in Calls' : d \in Calls \/ d \in {c}
  BY CallsPass
<1>1. /\ \A d \in Calls' : d \in Calls \/ d = c
      /\ Range(answers') \subseteq Range(answers)
  BY <1>0 DEF Passes
<1>2. \A d \in Calls : d.acts <= favMemory.acts
  BY DEF PlaceCalls, PlaceCallFits
<1>3. \A d \in Calls : d.acts \in Nat
  <2>1. Range(answers) \subseteq FavAnswer /\ Range(sent) \subseteq FavCall
    BY DEF PlaceCalls, Range
  <2> QED
    BY <2>1, CallsAre DEF FavAnswer, FavCall
<1>4. favMemory.acts \in Nat
  BY DEF PlacesSaved, FavMemoryType
<1>5. \A d \in Calls' : ~Lonely(d)'
  BY <1>1, <1>2, <1>3, <1>4 DEF Lonely, ListingFavorites, ChangingFavorites
<1>6. \A a \in Range(answers') : a.call \in Calls'
  BY CallsAre
<1> QED
  BY <1>5, <1>6 DEF LonelyReads

\* The server executes a call: only a change can change the places.
LEMMA ServedLonely ==
  ASSUME LonelyReads, favMemory' = favMemory, NEW i \in DOMAIN sent, NEW a \in FavAnswer,
         a.call = sent[i], a.ids = favorites'.ids,
         favorites'.others = favorites.others,
         favorites'.ids = favorites.ids \/ sent[i].op \in ChangingFavorites,
         Passes(FavCall, FavAnswer, {sent[i]}, {}, {}, {a})
  PROVE  LonelyReads'
<1>1. sent[i] \in Calls
  BY DEF Calls, Range
<1>2a. \A b \in {a} : b.call \in Calls
  BY <1>1
<1>2b. \A c \in Calls' : c \in Calls \/ c \in {}
  BY <1>2a, CallsPass
<1>2. /\ \A c \in Calls' : c \in Calls
      /\ Range(answers') \subseteq Range(answers) \cup {a}
  BY <1>2b DEF Passes
<1>3. \A c : Lonely(c)' <=> Lonely(c)
  BY DEF Lonely
<1>4. \A c, d \in Calls' : Lonely(c)' => d.op \notin ChangingFavorites
  BY <1>2, <1>3 DEF LonelyReads
<1>5. ASSUME NEW b \in Range(answers'), Lonely(b.call), b.others = favorites'.others
      PROVE  b.ids = favorites'.ids
  <2>1. CASE b = a
    BY <2>1
  <2>2. CASE b \in Range(answers)
    <3>1. b.call \in Calls
      BY <2>2, CallsAre
    <3>2. favorites'.ids = favorites.ids
      BY <3>1, <1>1, <1>5 DEF LonelyReads
    <3> QED
      BY <2>2, <3>2, <1>5 DEF LonelyReads
  <2> QED
    BY <2>1, <2>2, <1>2
<1> QED
  BY <1>3, <1>4, <1>5 DEF LonelyReads

\* Of the answers that are left each removal is still the only one of its place.
LEMMA RemovedFewer ==
  ASSUME answers \in Seq(FavAnswer), NEW i \in DOMAIN answers, answers' = RemoveAt(answers, i),
         RemovedOnce
  PROVE  /\ RemovedOnce'
         /\ IsRemoved(answers[i]) =>
              \A a \in Range(answers') : IsRemoved(a) => a.id # answers[i].id
<1>1. PICK kept \in [DOMAIN answers' -> DOMAIN answers] :
           /\ \A j \in DOMAIN answers' : answers'[j] = answers[kept[j]] /\ kept[j] # i
           /\ \A j, k \in DOMAIN answers' : kept[j] = kept[k] => j = k
  BY Others
<1>2. \A j \in DOMAIN answers' : kept[j] \in DOMAIN answers
  BY <1>1
<1>3. RemovedOnce'
  BY <1>1, <1>2 DEF RemovedOnce
<1>4. ASSUME IsRemoved(answers[i]), NEW j \in DOMAIN answers', IsRemoved(answers'[j]),
             answers'[j].id = answers[i].id
      PROVE  FALSE
  BY <1>1, <1>2, <1>4 DEF RemovedOnce
<1> QED
  BY <1>3, <1>4 DEF Range

\* So it is with another answer, unless it says the same.
LEMMA RemovedMore ==
  ASSUME answers \in Seq(FavAnswer), NEW a \in FavAnswer, answers' = Append(answers, a), RemovedOnce,
         IsRemoved(a) => \A b \in Range(answers) : IsRemoved(b) => b.id # a.id
  PROVE  RemovedOnce'
<1>1. /\ Len(answers) \in Nat /\ DOMAIN answers = 1..Len(answers)
      /\ DOMAIN answers' = 1..(Len(answers) + 1)
      /\ \A j \in 1..Len(answers) : answers'[j] = answers[j]
      /\ answers'[Len(answers) + 1] = a
  OBVIOUS
<1>2. \A j \in DOMAIN answers' : (j \in DOMAIN answers /\ answers'[j] = answers[j])
                                 \/ (j = Len(answers) + 1 /\ answers'[j] = a)
  BY <1>1
<1>3. \A j \in DOMAIN answers : answers[j] \in Range(answers)
  BY DEF Range
<1> QED
  BY <1>2, <1>3 DEF RemovedOnce

\* What is known of the list stays so while the places and what is shown of them stay,
\* and no answer about a change is used up.
LEMMA KnownStays ==
  ASSUME FavKnown, NEW gS, NEW cS, NEW gA, NEW cA, Passes(FavCall, FavAnswer, gS, cS, gA, cA),
         favorites'.ids = favorites.ids, Clean' => Clean,
         \A a \in gA \cup cA : ~IsAdded(a) /\ ~IsRemoved(a),
         \A c \in cS : c.op # "remove" \/ (Clean => c.id \notin Adds),
         RemovedOnce => RemovedOnce', Showing' => Showing /\ tab'.shown = tab.shown
  PROVE  FavKnown'
<1>1. /\ Range(sent') \subseteq Range(sent) \cup cS
      /\ Range(answers') \subseteq Range(answers) \cup cA
      /\ Range(answers) \subseteq Range(answers') \cup gA
  BY DEF Passes
<1>2. Adds' = Adds /\ Rems' = Rems
  BY <1>1 DEF Adds, Rems, Favorite
<1>3. ChangesKnown'
  BY <1>1, <1>2 DEF FavKnown, ChangesKnown
<1>4. ListKnown'
  <2>1. PICK ids : ids = (favorites.ids \ Adds) \cup Rems
    OBVIOUS
  <2>2. ids = ((favorites.ids \ Adds) \cup Rems)'
    BY <1>2, <2>1
  <2>3. Copies(ids)' = Copies(ids)
    BY DEF Copies, Favorite
  <2>4. Showing => tab.shown = Copies(ids)
    BY <2>1 DEF FavKnown, ListKnown
  <2>5. Showing' => tab'.shown = Copies(ids)
    BY <2>4
  <2> QED
    BY <2>2, <2>5 DEF ListKnown
<1> QED
  BY <1>3, <1>4 DEF FavKnown

\* The window knows of the place that is being saved: a call more, ...
LEMMA AddingAsked ==
  ASSUME PlaceCalls, OneAdding, NEW c \in FavCall, Send(<<c>>),
         \/ c \notin AddKind /\ adding'.saving = adding.saving
         \/ ~adding.saving /\ adding'.saving
  PROVE  OneAdding'
<1>1. sent \in Seq(FavCall) /\ answers \in Seq(FavAnswer)
  BY DEF PlaceCalls
<1>2. sent' = sent \o <<c>> /\ answers' = answers
  BY DEF Send
<1>3. PICK K : K = AddKind
  OBVIOUS
<1>4. AddKind' = K
  BY <1>3 DEF AddKind, FavCall, ListingFavorites, ChangingFavorites
<1>5. OneOf(K) /\ (~adding.saving => NoneOf(K)) /\ (c \in K => NoneOf(K))
  BY <1>3 DEF OneAdding
<1>6. OneOf(K)'
  BY <1>1, <1>2, <1>5, OneMore
<1>7. sent' = Append(sent, c)
  BY <1>1, <1>2, AppendIsConcat
<1>8. \A j \in DOMAIN sent' : (j \in DOMAIN sent /\ sent'[j] = sent[j]) \/ sent'[j] = c
  BY <1>1, <1>7
<1>9. c \notin K /\ NoneOf(K) => NoneOf(K)'
  BY <1>2, <1>8 DEF NoneOf
<1>10. ~adding'.saving => NoneOf(K)'
  BY <1>3, <1>5, <1>9
<1>11. OneOf(AddKind)' <=> OneOf(K)'
  BY <1>4 DEF OneOf
<1>12. NoneOf(AddKind)' <=> NoneOf(K)'
  BY <1>4 DEF NoneOf
<1> QED
  BY <1>6, <1>10, <1>11, <1>12 DEF OneAdding

\* ... an answer instead of a call, ...
LEMMA AddingServed ==
  ASSUME PlaceCalls, OneAdding, NEW i \in DOMAIN sent, NEW a \in FavAnswer, a.call = sent[i],
         Executed(i, a), adding' = adding
  PROVE  OneAdding'
<1>1. sent \in Seq(FavCall) /\ answers \in Seq(FavAnswer)
  BY DEF PlaceCalls
<1>3. PICK K : K = AddKind
  OBVIOUS
<1>4. AddKind' = K
  BY <1>3 DEF AddKind, FavCall, ListingFavorites, ChangingFavorites
<1>5. OneOf(K) /\ (~adding.saving => NoneOf(K))
  BY <1>3 DEF OneAdding
<1>6. (OneOf(K) => OneOf(K)') /\ (NoneOf(K) => NoneOf(K)')
  BY <1>1, OneServed
<1>11. OneOf(AddKind)' <=> OneOf(K)'
  BY <1>4 DEF OneOf
<1>12. NoneOf(AddKind)' <=> NoneOf(K)'
  BY <1>4 DEF NoneOf
<1> QED
  BY <1>5, <1>6, <1>11, <1>12 DEF OneAdding

\* ... an answer that comes or is lost, perhaps with a call that follows, ...
LEMMA AddingHeard ==
  ASSUME PlaceCalls, OneAdding, NEW i \in DOMAIN answers, answers' = RemoveAt(answers, i),
         NEW c \in FavCall,
         sent' = sent \/ (sent' = sent \o <<c>> /\ (c \in AddKind => answers[i].call \in AddKind)),
         \/ adding'.saving = adding.saving
         \/ answers[i].call \in AddKind /\ sent' = sent
  PROVE  OneAdding'
<1>1. sent \in Seq(FavCall) /\ answers \in Seq(FavAnswer)
  BY DEF PlaceCalls
<1>3. PICK K : K = AddKind
  OBVIOUS
<1>4. AddKind' = K
  BY <1>3 DEF AddKind, FavCall, ListingFavorites, ChangingFavorites
<1>5. OneOf(K) /\ (~adding.saving => NoneOf(K))
  BY <1>3 DEF OneAdding
<1>5a. sent' = sent \/ (sent' = sent \o <<c>> /\ (c \in K => answers[i].call \in K))
  BY <1>3
<1>6. /\ OneOf(K) => OneOf(K)'
      /\ NoneOf(K) => NoneOf(K)'
      /\ OneOf(K) /\ answers[i].call \in K /\ sent' = sent => NoneOf(K)'
  BY <1>1, <1>5a, OneHeard
<1>7. ~adding'.saving => NoneOf(K)'
  BY <1>3, <1>5, <1>6
<1>11. OneOf(AddKind)' <=> OneOf(K)'
  BY <1>4 DEF OneOf
<1>12. NoneOf(AddKind)' <=> NoneOf(K)'
  BY <1>4 DEF NoneOf
<1> QED
  BY <1>5, <1>6, <1>7, <1>11, <1>12 DEF OneAdding

\* ... and a call that is lost.
LEMMA AddingMissed ==
  ASSUME PlaceCalls, OneAdding, NEW i \in DOMAIN sent, sent' = RemoveAt(sent, i), answers' = answers,
         adding'.saving = adding.saving \/ sent[i] \in AddKind
  PROVE  OneAdding'
<1>1. sent \in Seq(FavCall) /\ answers \in Seq(FavAnswer)
  BY DEF PlaceCalls
<1>3. PICK K : K = AddKind
  OBVIOUS
<1>4. AddKind' = K
  BY <1>3 DEF AddKind, FavCall, ListingFavorites, ChangingFavorites
<1>5. OneOf(K) /\ (~adding.saving => NoneOf(K))
  BY <1>3 DEF OneAdding
<1>6. /\ OneOf(K) => OneOf(K)'
      /\ NoneOf(K) => NoneOf(K)'
      /\ OneOf(K) /\ sent[i] \in K => NoneOf(K)'
  BY <1>1, OneMissed
<1>7. ~adding'.saving => NoneOf(K)'
  BY <1>3, <1>5, <1>6
<1>11. OneOf(AddKind)' <=> OneOf(K)'
  BY <1>4 DEF OneOf
<1>12. NoneOf(AddKind)' <=> NoneOf(K)'
  BY <1>4 DEF NoneOf
<1> QED
  BY <1>5, <1>6, <1>7, <1>11, <1>12 DEF OneAdding

\* A call that is sent.
LEMMA NewPlaceCall ==
  ASSUME PlacesSaved, NEW op \in {"search"} \cup ListingFavorites \cup ChangingFavorites,
         NEW f \in Nat, NEW others
  PROVE  \E c \in FavCall : /\ c = FavoriteCall(op, f, others) /\ c.op = op /\ c.id = f
                            /\ c.acts = favMemory.acts
                            /\ c.alone => \A d \in others : d.op = "search"
<1>1. favMemory.acts \in Nat
  BY DEF PlacesSaved, FavMemoryType
<1>2. PICK b \in BOOLEAN : b <=> \A d \in others : d.op = "search"
  OBVIOUS
<1>3. PICK c : c = [op |-> op, id |-> f, acts |-> favMemory.acts, alone |-> b]
  OBVIOUS
<1>4. c = FavoriteCall(op, f, others)
  BY <1>2, <1>3 DEF FavoriteCall
<1>5. c \in FavCall /\ c.op = op /\ c.id = f /\ c.acts = favMemory.acts /\ c.alone = b
  BY <1>1, <1>3 DEF FavCall
<1> QED
  BY <1>2, <1>4, <1>5

\* The window.
LEMMA WindowFits ==
  ASSUME adding \in WindowType
  PROVE  /\ EmptyWindow \in WindowType /\ ~EmptyWindow.saving
         /\ ResetWindow \in WindowType /\ ResetWindow.saving = adding.saving
         /\ \A w \in WindowType : CloseWindowOf(w) \in WindowType /\ CloseWindowOf(w).saving = w.saving
<1>1. EmptyWindow \in WindowType /\ ~EmptyWindow.saving
  BY DEF EmptyWindow, WindowType
<1>2. PICK e : e = EmptyWindow
  OBVIOUS
<1>3. adding.saving \in BOOLEAN
  BY DEF WindowType
<1>4. ResetWindow \in WindowType /\ ResetWindow.saving = adding.saving
  BY <1>1, <1>2, <1>3 DEF ResetWindow, WindowType
<1>5. ASSUME NEW w \in WindowType
      PROVE  CloseWindowOf(w) \in WindowType /\ CloseWindowOf(w).saving = w.saving
  <2>1. w.saving \in BOOLEAN
    BY DEF WindowType
  <2> QED
    BY <1>1, <1>2, <2>1 DEF CloseWindowOf, WindowType
<1> QED
  BY <1>1, <1>4, <1>5

\* The user opens, fills in and closes the window.
LEMMA AddingStep ==
  ASSUME FavParts, UNCHANGED client,
         OpenAdding \/ CloseAdding \/ NameFavorite \/ TypeFavorite \/ PickFavorite
  PROVE  FavParts'
<1>1. adding \in WindowType
  BY DEF FavParts, FavTyped
<1>2. UNCHANGED <<favorites, tab, favMemory, exchange>>
  BY DEF OpenAdding, CloseAdding, NameFavorite, TypeFavorite, PickFavorite
<1>3. adding' \in WindowType /\ adding'.saving = adding.saving
  <2>1. CASE OpenAdding
    <3>1. PICK r : r = ResetWindow
      OBVIOUS
    <3>2. adding' = [r EXCEPT !.open = TRUE]
      BY <2>1, <3>1 DEF OpenAdding
    <3>3. r \in WindowType /\ r.saving = adding.saving
      BY <1>1, <3>1, WindowFits
    <3> QED
      BY <3>2, <3>3 DEF WindowType
  <2>2. CASE CloseAdding
    BY <2>2, <1>1, WindowFits DEF CloseAdding
  <2>3. CASE NameFavorite
    BY <2>3, <1>1 DEF NameFavorite, WindowType
  <2>4. CASE TypeFavorite
    BY <2>4, <1>1 DEF TypeFavorite, WindowType
  <2>5. CASE PickFavorite
    BY <2>5, <1>1 DEF PickFavorite, WindowType
  <2> QED
    BY <2>1, <2>2, <2>3, <2>4, <2>5
<1>4. sent' = sent /\ answers' = answers /\ Calls' = Calls
  BY <1>2 DEF exchange, Calls
<1>5. FavTyped'
  BY <1>2, <1>3, <1>4 DEF FavParts, FavTyped, PlaceCalls, PlaceCallFits, PlaceAnswerFits, PlacesSaved,
     TabFits, SavedType, TabType, FavMemoryType, Web, IsAdded, Favorite, WindowType
<1>6. LonelyReads'
  BY <1>2, <1>4 DEF FavParts, LonelyReads, Lonely
<1>7. Clean' = Clean /\ Adds' = Adds /\ Rems' = Rems /\ Showing' = Showing
  BY <1>2, <1>4 DEF Clean, Adds, Rems, Showing, Web, Favorite
<1>8. ChangesKnown'
  BY <1>2, <1>4, <1>7 DEF FavParts, FavKnown, ChangesKnown, RemovedOnce
<1>9. ListKnown'
  BY <1>2, <1>4, <1>7 DEF FavParts, FavKnown, ListKnown, Copies, Favorite
<1>10. WebLoads'
  BY <1>2, <1>4 DEF FavParts, WebLoads, UnderWay, Web
<1>11. OneAdding'
  BY <1>3, <1>4 DEF FavParts, OneAdding, OneOf, NoneOf, AddKind
<1> QED
  BY <1>5, <1>6, <1>8, <1>9, <1>10, <1>11 DEF FavParts, FavKnown

\* The list is still loading while there is a call that loads it.
LEMMA StillLoads ==
  ASSUME WebLoads, UNCHANGED client, NEW gS, NEW cS, NEW gA, NEW cA,
         Passes(FavCall, FavAnswer, gS, cS, gA, cA), \A a \in cA : a.call \in Calls,
         favMemory'.read => favMemory.read,
         Web /\ tab'.loading =>
           \/ tab.loading /\ \A c : c \in gS \/ (\E a \in gA : c = a.call) =>
                                      c.op \notin {"load", "again"} \/ \E a \in cA : c = a.call
           \/ \E c \in cS : c.op \in {"load", "again"}
  PROVE  WebLoads'
<1>1. /\ \A c \in Calls : c \in Calls' \/ c \in gS \/ \E a \in gA : c = a.call
      /\ cS \subseteq Calls' /\ \A a \in cA : a.call \in Calls'
  BY CallsPass
<1> SUFFICES ASSUME Web, favMemory'.read, tab'.loading PROVE \E c \in Calls' : c.op \in {"load", "again"}
  BY DEF WebLoads, UnderWay, Web
<1>2. CASE \E c \in cS : c.op \in {"load", "again"}
  BY <1>1, <1>2
<1>3. CASE tab.loading /\ \A c : c \in gS \/ (\E a \in gA : c = a.call) =>
                                   c.op \notin {"load", "again"} \/ \E a \in cA : c = a.call
  <2>1. PICK c \in Calls : c.op \in {"load", "again"}
    BY <1>3 DEF WebLoads, UnderWay
  <2> QED
    BY <2>1, <1>1, <1>3
<1> QED
  BY <1>2, <1>3

\* What sending a call leaves.
LEMMA AskedLeaves ==
  ASSUME FavParts, UNCHANGED <<client, favorites>>, NEW c \in FavCall, Send(<<c>>),
         favMemory' \in FavMemoryType, favMemory'.seen = favMemory.seen,
         favMemory.acts <= favMemory'.acts, c.acts <= favMemory'.acts,
         c.op = "remove" => c.id \in Favorite /\ c.id <= favorites.made,
         Web => c.op \notin {"refresh", "sync"}
  PROVE  /\ Passes(FavCall, FavAnswer, {}, {c}, {}, {})
         /\ PlaceCalls' /\ PlacesSaved' /\ (RemovedOnce => RemovedOnce')
<1>1. sent \in Seq(FavCall) /\ answers \in Seq(FavAnswer) /\ PlaceCalls /\ PlacesSaved
  BY DEF FavParts, FavTyped, PlaceCalls
<1>2. <<c>> \in Seq(FavCall) /\ Range(<<c>>) = {c}
  BY Single
<1>3. Passes(FavCall, FavAnswer, {}, {c}, {}, {})
  BY <1>1, <1>2, Sent
<1>4. PlacesSaved'
  BY <1>1 DEF PlacesSaved, SavedType, Favorite
<1>5. PlaceCallFits(c)'
  BY DEF PlaceCallFits, Web
<1>6. favorites.made <= favorites'.made /\ favorites.others <= favorites'.others
  BY <1>1 DEF PlacesSaved, SavedType
<1>7. PlaceCalls'
  <2>1. \A d \in {c} : PlaceCallFits(d)'
    BY <1>5
  <2> QED
    BY <1>1, <1>3, <1>4, <1>6, <2>1, CallsStayFit
<1>8. RemovedOnce => RemovedOnce'
  BY DEF RemovedOnce, Send
<1> QED
  BY <1>3, <1>4, <1>7, <1>8

\* Something is read.
LEMMA AskedRead ==
  ASSUME FavParts, UNCHANGED <<client, favorites, favMemory>>, NEW c \in FavCall, Send(<<c>>),
         c.op \notin ChangingFavorites, c.acts = favMemory.acts, Web => c.op \notin {"refresh", "sync"},
         c.op = "search" \/ (c.alone => \A d \in Calls : d.op = "search"), c \notin AddKind,
         TabFits',
         Showing' => Showing /\ tab'.shown = tab.shown,
         adding' \in WindowType, adding'.saving = adding.saving,
         tab'.loading => tab.loading \/ c.op = "load"
  PROVE  FavParts'
<1>1. /\ PlaceCalls /\ LonelyReads /\ FavKnown /\ WebLoads /\ OneAdding
      /\ favMemory \in FavMemoryType /\ favMemory.acts \in Nat
  BY DEF FavParts, FavTyped, PlacesSaved, FavMemoryType
<1>2. /\ favMemory' \in FavMemoryType /\ favMemory'.seen = favMemory.seen
      /\ favMemory.acts <= favMemory'.acts /\ c.acts <= favMemory'.acts
      /\ (c.op = "remove" => c.id \in Favorite /\ c.id <= favorites.made)
  BY <1>1 DEF ChangingFavorites
<1>3. /\ Passes(FavCall, FavAnswer, {}, {c}, {}, {})
      /\ PlaceCalls' /\ PlacesSaved' /\ (RemovedOnce => RemovedOnce')
  BY <1>2, AskedLeaves
<1>4. LonelyReads'
  <2>1. \A d \in Calls' : d \in Calls \/ d \in {c}
    BY <1>3, CallsPass
  <2>2. \A e \in {c} :
          /\ e.op \notin ChangingFavorites
          /\ e.op = "search" \/ (e.alone => \A d \in Calls' : d \in {c} \/ d.op = "search")
    BY <2>1
  <2> QED
    BY <1>1, <1>3, <2>2, StayLonely
<1>5. FavKnown'
  <2>1. Clean' => Clean
    BY DEF Clean
  <2>2. \A d \in {c} : d.op # "remove" \/ (Clean => d.id \notin Adds)
    BY DEF ChangingFavorites
  <2> QED
    BY <1>1, <1>3, <2>1, <2>2, KnownStays
<1>6. WebLoads'
  <2>1. Web /\ tab'.loading =>
           \/ tab.loading /\ \A d : d \in {} \/ (\E a \in {} : d = a.call) =>
                                      d.op \notin {"load", "again"} \/ \E a \in {} : d = a.call
           \/ \E d \in {c} : d.op \in {"load", "again"}
    OBVIOUS
  <2> QED
    BY <1>1, <1>3, <2>1, StillLoads
<1>7. OneAdding'
  BY <1>1, AddingAsked
<1> QED
  BY <1>3, <1>4, <1>5, <1>6, <1>7 DEF FavParts, FavTyped

\* A place is added or removed.
LEMMA AskedChange ==
  ASSUME FavParts, UNCHANGED <<client, favorites>>, NEW c \in FavCall, Send(<<c>>),
         c.op \in ChangingFavorites, c.acts = favMemory.acts, OneMoreChange,
         c.op = "remove" => /\ c.id \in Favorite /\ tab.shown[c.id] > 0
                            /\ Web => ~tab.loading /\ ~tab.failed,
         tab' \in TabType, tab'.shown = tab.shown, tab'.loading = tab.loading,
         Web => tab'.failed = tab.failed,
         adding' \in WindowType,
         \/ c \notin AddKind /\ adding'.saving = adding.saving
         \/ ~adding.saving /\ adding'.saving
  PROVE  FavParts'
<1>1. /\ PlaceCalls /\ PlacesSaved /\ TabFits /\ LonelyReads /\ FavKnown /\ WebLoads /\ OneAdding
      /\ favMemory \in FavMemoryType
  BY DEF FavParts, FavTyped, PlacesSaved
<1>2. /\ favMemory' \in FavMemoryType /\ favMemory'.seen = favMemory.seen
      /\ favMemory'.read = favMemory.read /\ favMemory'.crossed = favMemory.crossed
      /\ favMemory'.acts = favMemory.acts + 1 /\ favMemory.acts \in Nat
  BY <1>1 DEF OneMoreChange, FavMemoryType
<1>3. /\ favMemory.acts <= favMemory'.acts /\ c.acts <= favMemory'.acts
      /\ (Web => c.op \notin {"refresh", "sync"})
  BY <1>2 DEF ChangingFavorites
<1>4. c.op = "remove" => c.id \in Favorite /\ c.id <= favorites.made
  BY <1>1 DEF TabFits
<1>5. /\ Passes(FavCall, FavAnswer, {}, {c}, {}, {})
      /\ PlaceCalls' /\ PlacesSaved' /\ (RemovedOnce => RemovedOnce')
  BY <1>2, <1>3, <1>4, AskedLeaves
<1>6. LonelyReads'
  BY <1>1, <1>2, <1>5, NoneLonely
<1>7. ASSUME Clean, c.op = "remove" PROVE c.id \notin Adds
  <2>1. Showing
    BY <1>7 DEF Showing
  <2>2. c.id \in (favorites.ids \ Adds) \cup Rems
    BY <1>1, <1>7, <2>1 DEF FavKnown, ListKnown, Copies
  <2> QED
    BY <1>1, <1>7, <2>2 DEF FavKnown, ChangesKnown
<1>8. FavKnown'
  <2>1. (Clean' => Clean) /\ (Showing' => Showing)
    BY <1>2 DEF Clean, Showing, Web
  <2>2. \A d \in {c} : d.op # "remove" \/ (Clean => d.id \notin Adds)
    BY <1>7
  <2> QED
    BY <1>1, <1>5, <2>1, <2>2, KnownStays
<1>9. WebLoads'
  <2>1. Web /\ tab'.loading =>
           \/ tab.loading /\ \A d : d \in {} \/ (\E a \in {} : d = a.call) =>
                                      d.op \notin {"load", "again"} \/ \E a \in {} : d = a.call
           \/ \E d \in {c} : d.op \in {"load", "again"}
    OBVIOUS
  <2> QED
    BY <1>1, <1>2, <1>5, <2>1, StillLoads
<1>10. OneAdding'
  BY <1>1, AddingAsked
<1>11. TabFits'
  BY <1>1 DEF TabFits, Favorite
<1> QED
  BY <1>5, <1>6, <1>8, <1>9, <1>10, <1>11 DEF FavParts, FavTyped

\* The user reads the list, searches, adds and removes.
LEMMA AskStep ==
  ASSUME FavParts, UNCHANGED client,
         \/ LoadFavorites \/ RefreshFavorites \/ SearchTimerFires \/ SubmitFavorite
         \/ \E f \in Favorite : RemoveFavorite(f)
  PROVE  FavParts'
<1>1. PlacesSaved /\ TabFits /\ adding \in WindowType /\ tab \in TabType
  BY DEF FavParts, FavTyped, TabFits
<1>2. CASE LoadFavorites
  <2>1. PICK c \in FavCall : /\ c = FavoriteCall("load", 0, Calls) /\ c.op = "load" /\ c.id = 0
                             /\ c.acts = favMemory.acts /\ (c.alone => \A d \in Calls : d.op = "search")
    BY <1>1, NewPlaceCall DEF ListingFavorites
  <2>2. /\ Send(<<c>>) /\ UNCHANGED <<favorites, adding, favMemory>>
        /\ tab' = [tab EXCEPT !.loading = TRUE, !.failed = FALSE]
    BY <1>2, <2>1 DEF LoadFavorites
  <2>3. tab' \in TabType /\ tab'.shown = tab.shown /\ tab'.loading
    BY <1>1, <2>2 DEF TabType
  <2>4. TabFits'
    BY <1>1, <2>2, <2>3 DEF TabFits, Favorite
  <2>5. Showing' => Showing /\ tab'.shown = tab.shown
    BY <2>2, <2>3 DEF Showing, Clean, Web
  <2>6. c.op \notin ChangingFavorites /\ c \notin AddKind /\ (Web => c.op \notin {"refresh", "sync"})
    BY <2>1 DEF ChangingFavorites, AddKind
  <2> QED
    BY <1>1, <2>1, <2>2, <2>4, <2>5, <2>6, AskedRead
<1>3. CASE RefreshFavorites
  <2>1. PICK c \in FavCall : /\ c = FavoriteCall("refresh", 0, Calls) /\ c.op = "refresh" /\ c.id = 0
                             /\ c.acts = favMemory.acts /\ (c.alone => \A d \in Calls : d.op = "search")
    BY <1>1, NewPlaceCall DEF ListingFavorites
  <2>2. /\ Send(<<c>>) /\ UNCHANGED <<favorites, adding, favMemory>>
        /\ tab' = [tab EXCEPT !.refreshing = TRUE, !.failed = FALSE] /\ ~Web
    BY <1>3, <2>1 DEF RefreshFavorites, Mobile, Web
  <2>3. tab' \in TabType /\ tab'.shown = tab.shown /\ tab'.loading = tab.loading
    BY <1>1, <2>2 DEF TabType
  <2>4. TabFits'
    BY <1>1, <2>2, <2>3 DEF TabFits, Favorite
  <2>5. Showing' => Showing /\ tab'.shown = tab.shown
    BY <2>2, <2>3 DEF Showing, Clean, Web
  <2>6. c.op \notin ChangingFavorites /\ c \notin AddKind /\ (Web => c.op \notin {"refresh", "sync"})
    BY <2>1, <2>2 DEF ChangingFavorites, AddKind
  <2> QED
    BY <1>1, <2>1, <2>2, <2>3, <2>4, <2>5, <2>6, AskedRead
<1>4. CASE SearchTimerFires
  <2>1. PICK c \in FavCall : /\ c = FavoriteCall("search", 0, {}) /\ c.op = "search" /\ c.id = 0
                             /\ c.acts = favMemory.acts
    BY <1>1, NewPlaceCall
  <2>2. /\ Send(<<c>>) /\ UNCHANGED <<favorites, tab, favMemory>>
        /\ adding' = [adding EXCEPT !.timer = FALSE]
    BY <1>4, <2>1 DEF SearchTimerFires
  <2>3. adding' \in WindowType /\ adding'.saving = adding.saving
    BY <1>1, <2>2 DEF WindowType
  <2>4. c.op \notin ChangingFavorites /\ c \notin AddKind /\ (Web => c.op \notin {"refresh", "sync"})
    BY <2>1 DEF ChangingFavorites, AddKind
  <2>5. TabFits' /\ (Showing' => Showing /\ tab'.shown = tab.shown)
    BY <1>1, <2>2 DEF Showing, Clean, Web, TabFits, Favorite
  <2> QED
    BY <1>1, <2>1, <2>2, <2>3, <2>4, <2>5, AskedRead
<1>5. CASE SubmitFavorite
  <2>1. PICK c \in FavCall : /\ c = FavoriteCall("add", 0, Calls) /\ c.op = "add" /\ c.id = 0
                             /\ c.acts = favMemory.acts
    BY <1>1, NewPlaceCall DEF ChangingFavorites
  <2>2. /\ Send(<<c>>) /\ UNCHANGED <<favorites, tab>> /\ OneMoreChange /\ ~adding.saving
        /\ adding' = [adding EXCEPT !.saving = TRUE]
    BY <1>5, <2>1 DEF SubmitFavorite, Savable
  <2>3. adding' \in WindowType /\ adding'.saving
    BY <1>1, <2>2 DEF WindowType
  <2>4. c.op \in ChangingFavorites /\ c.op # "remove"
    BY <2>1 DEF ChangingFavorites
  <2> QED
    BY <1>1, <2>1, <2>2, <2>3, <2>4, AskedChange
<1>6. ASSUME NEW f \in Favorite, RemoveFavorite(f) PROVE FavParts'
  <2>1. PICK c \in FavCall : /\ c = FavoriteCall("remove", f, Calls) /\ c.op = "remove" /\ c.id = f
                             /\ c.acts = favMemory.acts
    BY <1>1, NewPlaceCall DEF ChangingFavorites, Favorite
  <2>2. /\ Send(<<c>>) /\ UNCHANGED <<favorites, adding>> /\ OneMoreChange
        /\ tab' = [tab EXCEPT !.removing = f, !.failed = @ /\ Web]
    BY <1>6, <2>1 DEF RemoveFavorite
  <2>2a. PICK b \in BOOLEAN : b = (tab.failed /\ Web)
    OBVIOUS
  <2>2b. tab' = [tab EXCEPT !.removing = f, !.failed = b] /\ (Web => b = tab.failed)
    BY <1>1, <2>2, <2>2a DEF TabType
  <2>2c. f \in Nat
    BY DEF Favorite
  <2>2d. tab' \in TabType /\ tab'.failed = b
    BY <1>1, <2>2a, <2>2b, <2>2c DEF TabType
  <2>2e. tab'.shown = tab.shown /\ tab'.loading = tab.loading
    BY <1>1, <2>2b DEF TabType
  <2>3. /\ tab' \in TabType /\ tab'.shown = tab.shown /\ tab'.loading = tab.loading
        /\ (Web => tab'.failed = tab.failed)
    BY <2>2b, <2>2d, <2>2e
  <2>4. tab.shown[f] > 0 /\ (Web => ~tab.loading /\ ~tab.failed)
    BY <1>6 DEF RemoveFavorite, Removable, WebRemovable, MobileRemovable
  <2>5. c.op \in ChangingFavorites /\ c \notin AddKind
    BY <2>1 DEF ChangingFavorites, AddKind
  <2> QED
    BY <1>1, <2>1, <2>2, <2>3, <2>4, <2>5, AskedChange
<1> QED
  BY <1>2, <1>3, <1>4, <1>5, <1>6

\* There are finitely many places, and one more or less.
LEMMA PlacesCount ==
  ASSUME PlacesSaved
  PROVE  /\ IsFiniteSet(favorites.ids) /\ Cardinality(favorites.ids) \in Nat /\ MaxFavorites \in Nat
         /\ \A f : Cardinality(favorites.ids \cup {f}) <= Cardinality(favorites.ids) + 1
         /\ \A f : Cardinality(favorites.ids \ {f}) <= Cardinality(favorites.ids)
<1>1. NumFavorites \in Nat /\ MaxFavorites \in Nat
  BY FavoriteAssumption
<1>2. IsFiniteSet(Favorite)
  BY <1>1, FS_Interval DEF Favorite
<1>3. favorites.ids \in SUBSET Favorite
  BY DEF PlacesSaved, SavedType
<1>4. PICK ids : ids = favorites.ids
  OBVIOUS
<1>5. IsFiniteSet(ids)
  BY <1>2, <1>3, <1>4, FS_Subset
<1>6. Cardinality(ids) \in Nat
  BY <1>5, FS_CardinalityType
<1>7. ASSUME NEW f PROVE Cardinality(ids \cup {f}) <= Cardinality(ids) + 1
  BY <1>5, <1>6, FS_AddElement
<1>8. ASSUME NEW f PROVE Cardinality(ids \ {f}) <= Cardinality(ids)
  BY <1>5, <1>6, FS_RemoveElement
<1> QED
  BY <1>1, <1>4, <1>5, <1>6, <1>7, <1>8

\* The server has executed a call, and what it did to the places is known.
LEMMA ServedLeaves ==
  ASSUME FavParts, UNCHANGED <<client, tab, adding, favMemory>>, NEW i \in DOMAIN sent,
         NEW a \in FavAnswer, a.call = sent[i], Executed(i, a), a.ids = favorites'.ids,
         a.others = favorites'.others, favorites'.others = favorites.others, PlacesSaved',
         favorites.made <= favorites'.made,
         favorites'.ids = favorites.ids \/ sent[i].op \in ChangingFavorites,
         a.call.op = "remove" => a.id = a.call.id,
         IsAdded(a) => a.id \in Favorite /\ a.id <= favorites'.made,
         FavKnown'
  PROVE  FavParts'
<1>1. /\ PlaceCalls /\ PlacesSaved /\ TabFits /\ LonelyReads /\ WebLoads /\ OneAdding
      /\ sent \in Seq(FavCall) /\ answers \in Seq(FavAnswer)
  BY DEF FavParts, FavTyped, PlaceCalls
<1>2. /\ Passes(FavCall, FavAnswer, {sent[i]}, {}, {}, {a})
      /\ sent[i] \in FavCall /\ sent[i] \in Range(sent)
  BY <1>1, Served
<1>3. a.call \in Calls
  BY <1>2, CallsAre
<1>4. PlaceAnswerFits(a)'
  <2>1. favorites'.others \in Nat /\ \A f \in favorites'.ids : f <= favorites'.made
    BY DEF PlacesSaved, SavedType
  <2> QED
    BY <2>1 DEF PlaceAnswerFits, IsAdded, Favorite
<1>5. PlaceCalls'
  <2>1. \A b \in {a} : PlaceAnswerFits(b)' /\ b.call \in Calls
    BY <1>3, <1>4
  <2>2. favorites.others <= favorites'.others /\ favMemory.acts <= favMemory'.acts
    BY <1>1 DEF PlacesSaved, SavedType, FavMemoryType
  <2>3. \A c \in {} : PlaceCallFits(c)'
    OBVIOUS
  <2> QED
    BY <1>1, <1>2, <2>1, <2>2, <2>3, CallsStayFit
<1>6. LonelyReads'
  BY <1>1, <1>2, ServedLonely
<1>7. WebLoads'
  <2>1. \A b \in {a} : b.call \in Calls
    BY <1>3
  <2>2. Web /\ tab'.loading =>
           \/ tab.loading /\ \A d : d \in {sent[i]} \/ (\E b \in {} : d = b.call) =>
                                      d.op \notin {"load", "again"} \/ \E b \in {a} : d = b.call
           \/ \E d \in {} : d.op \in {"load", "again"}
    OBVIOUS
  <2> QED
    BY <1>1, <1>2, <2>1, <2>2, StillLoads
<1>8. OneAdding'
  BY <1>1, AddingServed
<1>9. TabFits'
  <2>1. /\ favorites.made \in Nat /\ favorites'.made \in Nat
        /\ \A f \in Favorite : f \in Nat
    BY <1>1 DEF PlacesSaved, SavedType, Favorite
  <2> QED
    BY <1>1, <2>1 DEF TabFits, TabType, Favorite
<1>10. (adding \in WindowType)'
  BY DEF FavParts, FavTyped, WindowType
<1> QED
  BY <1>5, <1>6, <1>7, <1>8, <1>9, <1>10 DEF FavParts, FavTyped

\* An executed call that changes no place.
LEMMA KnownRead ==
  ASSUME FavParts, UNCHANGED <<client, tab, favMemory, favorites>>, NEW i \in DOMAIN sent,
         NEW a \in FavAnswer, a.call = sent[i], Executed(i, a), ~IsAdded(a), ~IsRemoved(a)
  PROVE  FavKnown'
<1>1. FavKnown /\ sent \in Seq(FavCall) /\ answers \in Seq(FavAnswer)
  BY DEF FavParts, FavTyped, PlaceCalls
<1>2. Passes(FavCall, FavAnswer, {sent[i]}, {}, {}, {a}) /\ answers' = Append(answers, a)
  BY <1>1, Served DEF Executed
<1>3. RemovedOnce => RemovedOnce'
  BY <1>1, <1>2, RemovedMore
<1>4. Clean' = Clean /\ Showing' = Showing
  BY DEF Clean, Showing, Web
<1>5. \A b \in {} \cup {a} : ~IsAdded(b) /\ ~IsRemoved(b)
  OBVIOUS
<1>6. \A c \in {} : c.op # "remove" \/ (Clean => c.id \notin Adds)
  OBVIOUS
<1> QED
  BY <1>1, <1>2, <1>3, <1>4, <1>5, <1>6, KnownStays

\* A place is made that nothing speaks of yet.
LEMMA KnownMade ==
  ASSUME FavParts, UNCHANGED <<client, tab, favMemory>>, NEW i \in DOMAIN sent,
         NEW a \in FavAnswer, a.call = sent[i], Executed(i, a), IsAdded(a),
         a.id \in Favorite, a.id = favorites.made + 1,
         favorites'.ids = favorites.ids \cup {a.id}, favorites'.others = favorites.others
  PROVE  FavKnown'
<1>1. FavKnown /\ sent \in Seq(FavCall) /\ answers \in Seq(FavAnswer) /\ PlaceCalls /\ PlacesSaved
  BY DEF FavParts, FavTyped, PlaceCalls
<1>2. Passes(FavCall, FavAnswer, {sent[i]}, {}, {}, {a}) /\ answers' = Append(answers, a)
  BY <1>1, Served DEF Executed
<1>3. /\ Range(sent') \subseteq Range(sent) /\ Range(answers') \subseteq Range(answers) \cup {a}
      /\ Range(answers) \subseteq Range(answers') /\ a \in Range(answers')
  BY <1>2 DEF Passes
<1>4. PICK f : f = a.id
  OBVIOUS
<1>5. f \in Favorite /\ f = favorites.made + 1 /\ favorites.made \in Nat
  BY <1>1, <1>4 DEF PlacesSaved, SavedType
<1>6. f \notin favorites.ids
  BY <1>1, <1>5 DEF PlacesSaved
<1>7. \A c \in Calls : c.op = "remove" => c.id # f
  BY <1>1, <1>5 DEF PlaceCalls, PlaceCallFits
<1>8. f \notin Rems
  <2> SUFFICES ASSUME NEW b \in Range(answers), IsRemoved(b), b.id = f PROVE FALSE
    BY DEF Rems
  <2>1. b.call \in Calls /\ b.id = b.call.id
    BY <1>1, CallsAre DEF PlaceCalls, PlaceAnswerFits, IsRemoved
  <2> QED
    BY <2>1, <1>7 DEF IsRemoved
<1>9. \A c \in Range(sent') : c \in Calls
  BY <1>3, CallsAre
<1>10. Adds' = Adds \cup {f} /\ Rems' = Rems
  <2>1. ~IsRemoved(a)
    BY DEF IsRemoved, IsAdded
  <2> QED
    BY <1>3, <1>4, <1>5, <2>1 DEF Adds, Rems, Favorite
<1>11. Clean' = Clean /\ Showing' = Showing
  BY DEF Clean, Showing, Web
<1>12. RemovedOnce => RemovedOnce'
  <2>1. ~IsRemoved(a)
    BY DEF IsRemoved, IsAdded
  <2> QED
    BY <1>1, <1>2, <2>1, RemovedMore
<1>13. ChangesKnown'
  BY <1>1, <1>3, <1>4, <1>6, <1>7, <1>8, <1>9, <1>10, <1>11, <1>12 DEF FavKnown, ChangesKnown
<1>14. ListKnown'
  <2>1. PICK ids : ids = (favorites.ids \ Adds) \cup Rems
    OBVIOUS
  <2>2. ids = ((favorites.ids \ Adds) \cup Rems)'
    BY <1>4, <1>6, <1>8, <1>10, <2>1
  <2>3. Showing => tab.shown = Copies(ids)
    BY <1>1, <2>1 DEF FavKnown, ListKnown
  <2> QED
    BY <1>11, <2>2, <2>3 DEF ListKnown
<1> QED
  BY <1>13, <1>14 DEF FavKnown

\* A place is removed that is shown, and no answer speaks of it yet.
LEMMA KnownTaken ==
  ASSUME FavParts, UNCHANGED <<client, tab, favMemory>>, NEW i \in DOMAIN sent,
         NEW a \in FavAnswer, a.call = sent[i], Executed(i, a), IsRemoved(a),
         a.id = sent[i].id, a.id \in favorites.ids,
         favorites'.ids = favorites.ids \ {a.id}, favorites'.others = favorites.others
  PROVE  FavKnown'
<1>1. FavKnown /\ sent \in Seq(FavCall) /\ answers \in Seq(FavAnswer) /\ PlaceCalls /\ PlacesSaved
  BY DEF FavParts, FavTyped, PlaceCalls
<1>2. /\ Passes(FavCall, FavAnswer, {sent[i]}, {}, {}, {a}) /\ answers' = Append(answers, a)
      /\ sent[i] \in Range(sent)
  BY <1>1, Served DEF Executed
<1>3. /\ Range(sent') \subseteq Range(sent) /\ Range(answers') \subseteq Range(answers) \cup {a}
      /\ Range(answers) \subseteq Range(answers') /\ a \in Range(answers')
  BY <1>2 DEF Passes
<1>4. PICK f : f = a.id
  OBVIOUS
<1>5. f \in Favorite
  BY <1>1, <1>4 DEF PlacesSaved, SavedType
<1>6. Adds' = Adds /\ Rems' = Rems \cup {f}
  <2>1. ~IsAdded(a)
    BY DEF IsRemoved, IsAdded
  <2> QED
    BY <1>3, <1>4, <1>5, <2>1 DEF Adds, Rems, Favorite
<1>7. Clean' = Clean /\ Showing' = Showing
  BY DEF Clean, Showing, Web
<1>8. Clean => f \notin Adds /\ f \notin Rems
  BY <1>1, <1>2, <1>4 DEF FavKnown, ChangesKnown, IsRemoved
<1>9. Clean => RemovedOnce'
  <2> SUFFICES ASSUME Clean PROVE RemovedOnce'
    OBVIOUS
  <2>1. \A b \in Range(answers) : IsRemoved(b) => b.id # a.id
    BY <1>4, <1>5, <1>8 DEF Rems
  <2>2. RemovedOnce
    BY <1>1 DEF FavKnown, ChangesKnown
  <2> QED
    BY <1>1, <1>2, <2>1, <2>2, RemovedMore
<1>10. ChangesKnown'
  BY <1>1, <1>3, <1>4, <1>6, <1>7, <1>8, <1>9 DEF FavKnown, ChangesKnown
<1>11. ListKnown'
  <2>0. CASE ~Clean
    BY <1>7, <2>0 DEF ListKnown, Showing
  <2>a. CASE Clean
    <3>1. PICK ids : ids = (favorites.ids \ Adds) \cup Rems
      OBVIOUS
    <3>2. ids = ((favorites.ids \ Adds) \cup Rems)'
      BY <1>4, <1>6, <1>8, <2>a, <3>1
    <3>3. Showing => tab.shown = Copies(ids)
      BY <1>1, <3>1 DEF FavKnown, ListKnown
    <3> QED
      BY <1>7, <3>2, <3>3 DEF ListKnown
  <2> QED
    BY <2>0, <2>a
<1> QED
  BY <1>10, <1>11 DEF FavKnown

\* The server lists, makes and removes places.
LEMMA PlacesServed ==
  ASSUME FavParts, UNCHANGED client, NEW i \in DOMAIN sent,
         ListFavorites(i) \/ CreateFavorite(i) \/ DeleteFavorite(i)
  PROVE  FavParts'
<1>1. /\ PlaceCalls /\ PlacesSaved /\ sent \in Seq(FavCall)
      /\ favorites \in SavedType /\ favMemory \in FavMemoryType
  BY DEF FavParts, FavTyped, PlaceCalls, PlacesSaved
<1>2. sent[i] \in FavCall /\ sent[i].id \in Nat
  <2>1. sent[i] \in FavCall
    BY <1>1
  <2> QED
    BY <2>1 DEF FavCall
<1>3. PICK c : c = sent[i]
  OBVIOUS
<1>4. c \in Calls /\ c \in FavCall /\ c.id \in Nat /\ PlaceCallFits(c)
  <2>1. c \in Calls
    BY <1>3 DEF Calls, Range
  <2> QED
    BY <1>1, <1>2, <1>3, <2>1 DEF PlaceCalls
<1>5. UNCHANGED <<client, tab, adding, favMemory>>
  BY DEF ListFavorites, CreateFavorite, DeleteFavorite
<1>6. CASE ListFavorites(i)
  <2>1. PICK a : a = [call |-> sent[i], ok |-> TRUE, id |-> 0, ids |-> favorites'.ids,
                      others |-> favorites'.others]
    OBVIOUS
  <2>2. Executed(i, a) /\ favorites' = favorites /\ c.op \in ListingFavorites \cup {"search"}
    BY <1>3, <1>6, <2>1 DEF ListFavorites, FavoriteDone
  <2>3. /\ a \in FavAnswer /\ a.call = sent[i] /\ a.ids = favorites'.ids
        /\ a.others = favorites'.others
    BY <1>1, <1>2, <2>1, <2>2 DEF FavAnswer, SavedType
  <2>4. ~IsAdded(a) /\ ~IsRemoved(a) /\ a.call.op # "remove"
    BY <1>3, <2>2, <2>3 DEF IsAdded, IsRemoved, ListingFavorites
  <2>5. FavKnown'
    BY <1>5, <2>2, <2>3, <2>4, KnownRead
  <2>6. PlacesSaved' /\ favorites.made <= favorites'.made
    BY <1>1, <1>5, <2>2 DEF PlacesSaved, SavedType
  <2> QED
    BY <1>5, <2>2, <2>3, <2>4, <2>5, <2>6, ServedLeaves
<1>7. CASE CreateFavorite(i)
  <2>1. PICK f : f = favorites.made + 1
    OBVIOUS
  <2>2. PICK fits \in BOOLEAN : fits <=> Cardinality(favorites.ids) < MaxFavorites
    OBVIOUS
  <2>3. PICK a : a = [call |-> sent[i], ok |-> fits, id |-> f, ids |-> favorites'.ids,
                      others |-> favorites'.others]
    OBVIOUS
  <2>4. /\ Executed(i, a) /\ c.op = "add" /\ (fits => f \in Favorite)
        /\ favorites' = IF fits THEN [favorites EXCEPT !.ids = @ \cup {f}, !.made = f] ELSE favorites
    BY <1>3, <1>7, <2>1, <2>2, <2>3 DEF CreateFavorite, FavoriteDone
  <2>5. f \in Nat /\ favorites.made \in Nat /\ favorites.others \in Nat /\ favorites.made <= f
    BY <1>1, <2>1 DEF SavedType
  <2>6. /\ favorites' \in SavedType /\ favorites'.others = favorites.others
        /\ favorites'.ids = (IF fits THEN favorites.ids \cup {f} ELSE favorites.ids)
        /\ favorites'.made = (IF fits THEN f ELSE favorites.made)
    BY <1>1, <2>4, <2>5 DEF SavedType
  <2>7. /\ a \in FavAnswer /\ a.call = sent[i] /\ a.ids = favorites'.ids
        /\ a.others = favorites'.others /\ a.id = f /\ a.ok = fits
    BY <1>2, <2>3, <2>5, <2>6 DEF FavAnswer, SavedType
  <2>8. Cardinality(favorites'.ids) <= MaxFavorites
    <3>1. CASE fits
      <4>1. Cardinality(favorites.ids \cup {f}) <= Cardinality(favorites.ids) + 1
        BY <1>1, PlacesCount
      <4>2. /\ IsFiniteSet(favorites.ids \cup {f}) /\ Cardinality(favorites.ids) \in Nat
            /\ MaxFavorites \in Nat
        BY <1>1, PlacesCount, FS_AddElement
      <4>3. Cardinality(favorites.ids \cup {f}) \in Nat
        BY <4>2, FS_CardinalityType
      <4> QED
        BY <3>1, <2>2, <2>6, <4>1, <4>2, <4>3
    <3>2. CASE ~fits
      BY <3>2, <1>1, <2>6 DEF PlacesSaved
    <3> QED
      BY <3>1, <3>2
  <2>9. PlacesSaved'
    <3>1. \A g \in favorites'.ids : g <= favorites'.made
      <4>1. \A g \in favorites.ids : g \in Nat /\ g <= favorites.made
        BY <1>1 DEF PlacesSaved, SavedType, Favorite
      <4> QED
        BY <2>5, <2>6, <4>1
    <3> QED
      BY <1>1, <1>5, <2>6, <2>8, <3>1 DEF PlacesSaved
  <2>10. ~IsRemoved(a) /\ a.call.op # "remove" /\ (IsAdded(a) <=> fits)
    BY <1>3, <2>4, <2>7 DEF IsAdded, IsRemoved
  <2>11. FavKnown'
    <3>1. CASE fits
      BY <3>1, <1>5, <2>1, <2>4, <2>6, <2>7, <2>10, KnownMade
    <3>2. CASE ~fits
      <4>1. favorites' = favorites
        BY <3>2, <2>4
      <4> QED
        BY <3>2, <4>1, <1>5, <2>4, <2>7, <2>10, KnownRead
    <3> QED
      BY <3>1, <3>2
  <2>12. /\ favorites.made <= favorites'.made
         /\ (IsAdded(a) => a.id \in Favorite /\ a.id <= favorites'.made)
         /\ (favorites'.ids = favorites.ids \/ sent[i].op \in ChangingFavorites)
    BY <1>3, <2>4, <2>5, <2>6, <2>7, <2>10 DEF ChangingFavorites
  <2> QED
    BY <1>5, <2>4, <2>6, <2>7, <2>9, <2>10, <2>11, <2>12, ServedLeaves
<1>8. CASE DeleteFavorite(i)
  <2>2. PICK there \in BOOLEAN : there <=> c.id \in favorites.ids
    OBVIOUS
  <2>3. PICK a : a = [call |-> sent[i], ok |-> there, id |-> c.id, ids |-> favorites'.ids,
                      others |-> favorites'.others]
    OBVIOUS
  <2>4. /\ Executed(i, a) /\ c.op = "remove"
        /\ favorites' = [favorites EXCEPT !.ids = @ \ {c.id}]
    BY <1>3, <1>8, <2>2, <2>3 DEF DeleteFavorite, FavoriteDone
  <2>5. /\ favorites' \in SavedType /\ favorites'.others = favorites.others
        /\ favorites'.ids = favorites.ids \ {c.id} /\ favorites'.made = favorites.made
        /\ favorites.others \in Nat /\ favorites.made \in Nat
    BY <1>1, <2>4 DEF SavedType
  <2>6. /\ a \in FavAnswer /\ a.call = sent[i] /\ a.ids = favorites'.ids
        /\ a.others = favorites'.others /\ a.id = c.id /\ a.ok = there
    BY <1>2, <1>4, <2>3, <2>5 DEF FavAnswer, SavedType
  <2>7. Cardinality(favorites'.ids) <= MaxFavorites
    <3>1. Cardinality(favorites.ids \ {c.id}) <= Cardinality(favorites.ids)
      BY <1>1, PlacesCount
    <3>2. /\ IsFiniteSet(favorites.ids \ {c.id}) /\ Cardinality(favorites.ids) \in Nat
          /\ MaxFavorites \in Nat
      BY <1>1, PlacesCount, FS_RemoveElement
    <3>3. Cardinality(favorites.ids \ {c.id}) \in Nat
      BY <3>2, FS_CardinalityType
    <3>4. Cardinality(favorites.ids) <= MaxFavorites
      BY <1>1 DEF PlacesSaved
    <3> QED
      BY <2>5, <3>1, <3>2, <3>3, <3>4
  <2>8. PlacesSaved'
    BY <1>1, <1>5, <2>5, <2>7 DEF PlacesSaved
  <2>9. ~IsAdded(a) /\ (IsRemoved(a) <=> there) /\ a.call.op # "add"
    BY <1>3, <2>4, <2>6 DEF IsAdded, IsRemoved
  <2>10. FavKnown'
    <3>1. CASE there
      BY <3>1, <1>3, <1>5, <2>2, <2>4, <2>5, <2>6, <2>9, KnownTaken
    <3>2. CASE ~there
      <4>1. favorites' = favorites
        <5>1. favorites.ids \ {c.id} = favorites.ids
          BY <3>2, <2>2
        <5>2. favorites' = [favorites EXCEPT !.ids = favorites.ids]
          BY <2>4, <5>1
        <5> QED
          BY <1>1, <5>2 DEF SavedType
      <4> QED
        BY <3>2, <4>1, <1>5, <2>4, <2>6, <2>9, KnownRead
    <3> QED
      BY <3>1, <3>2
  <2>11. /\ favorites.made <= favorites'.made /\ (a.call.op = "remove" => a.id = a.call.id)
         /\ (favorites'.ids = favorites.ids \/ sent[i].op \in ChangingFavorites)
    BY <1>3, <2>4, <2>5, <2>6 DEF ChangingFavorites
  <2> QED
    BY <1>5, <2>4, <2>5, <2>6, <2>8, <2>9, <2>10, <2>11, ServedLeaves
<1> QED
  BY <1>6, <1>7, <1>8

\* The places change elsewhere, and no list is up to date any more.
LEMMA OtherPlaces ==
  ASSUME FavParts, UNCHANGED client, FavoritesChangeElsewhere
  PROVE  FavParts'
<1>1. /\ PlaceCalls /\ PlacesSaved /\ TabFits /\ LonelyReads /\ WebLoads /\ OneAdding
      /\ favorites \in SavedType /\ favMemory \in FavMemoryType
      /\ adding \in WindowType
  BY DEF FavParts, FavTyped, PlaceCalls, PlacesSaved
<1>2. UNCHANGED <<tab, adding, favMemory, sent, answers>>
  BY DEF FavoritesChangeElsewhere, exchange
<1>3. /\ favorites' \in SavedType /\ favorites.made \in Nat /\ favorites.others \in Nat
      /\ favorites'.others = favorites.others + 1 /\ favorites.made <= favorites'.made
      /\ Cardinality(favorites'.ids) <= MaxFavorites
      /\ \A g \in favorites'.ids : g <= favorites'.made
  <2>1. /\ \A g \in favorites.ids : g \in Nat /\ g <= favorites.made
        /\ favorites.made \in Nat /\ favorites.others \in Nat
    BY <1>1 DEF PlacesSaved, SavedType, Favorite
  <2>2. IsFiniteSet(favorites.ids) /\ Cardinality(favorites.ids) \in Nat /\ MaxFavorites \in Nat
    BY <1>1, PlacesCount
  <2>3. Cardinality(favorites.ids) <= MaxFavorites
    BY <1>1 DEF PlacesSaved
  <2>4. CASE \E f \in favorites.ids :
               favorites' = [favorites EXCEPT !.ids = @ \ {f}, !.others = @ + 1]
    <3>1. PICK f \in favorites.ids :
            favorites' = [favorites EXCEPT !.ids = @ \ {f}, !.others = @ + 1]
      BY <2>4
    <3>1a. PICK ids : ids = favorites.ids \ {f}
      OBVIOUS
    <3>1b. PICK o : o = favorites.others + 1
      OBVIOUS
    <3>1c. favorites' = [favorites EXCEPT !.ids = ids, !.others = o]
      BY <3>1, <3>1a, <3>1b
    <3>1d. ids \in SUBSET Favorite /\ o \in Nat
      BY <1>1, <2>1, <3>1a, <3>1b DEF SavedType
    <3>2. /\ favorites' \in SavedType /\ favorites'.others = favorites.others + 1
          /\ favorites'.made = favorites.made /\ favorites'.ids = favorites.ids \ {f}
      BY <1>1, <3>1a, <3>1b, <3>1c, <3>1d DEF SavedType
    <3>3. Cardinality(favorites.ids \ {f}) <= Cardinality(favorites.ids)
      BY <1>1, PlacesCount
    <3>4. IsFiniteSet(favorites.ids \ {f})
      BY <2>2, FS_RemoveElement
    <3>5. Cardinality(favorites.ids \ {f}) \in Nat
      BY <3>4, FS_CardinalityType
    <3>6. Cardinality(favorites'.ids) <= MaxFavorites
      BY <2>2, <2>3, <3>2, <3>3, <3>5
    <3> QED
      BY <2>1, <3>2, <3>6
  <2>5. CASE /\ Cardinality(favorites.ids) < MaxFavorites /\ favorites.made < NumFavorites
             /\ favorites' = [ids |-> favorites.ids \cup {favorites.made + 1},
                              made |-> favorites.made + 1, others |-> favorites.others + 1]
    <3>1. PICK f : f = favorites.made + 1
      OBVIOUS
    <3>2. f \in Favorite /\ f \in Nat
      BY <2>1, <2>5, <3>1, FavoriteAssumption DEF Favorite
    <3>3. /\ favorites' \in SavedType /\ favorites'.others = favorites.others + 1
          /\ favorites'.made = f /\ favorites'.ids = favorites.ids \cup {f}
      BY <1>1, <2>1, <2>5, <3>1, <3>2 DEF SavedType
    <3>4. Cardinality(favorites.ids \cup {f}) <= Cardinality(favorites.ids) + 1
      BY <1>1, PlacesCount
    <3>5. IsFiniteSet(favorites.ids \cup {f})
      BY <2>2, FS_AddElement
    <3>6. Cardinality(favorites.ids \cup {f}) \in Nat
      BY <3>5, FS_CardinalityType
    <3>7. Cardinality(favorites'.ids) <= MaxFavorites
      BY <2>2, <2>5, <3>3, <3>4, <3>6
    <3>8. \A g \in favorites'.ids : g <= favorites'.made
      BY <2>1, <3>1, <3>3
    <3> QED
      BY <2>1, <3>1, <3>3, <3>7, <3>8
  <2> QED
    BY <2>4, <2>5 DEF FavoritesChangeElsewhere
<1>4. PlacesSaved' /\ ~Clean'
  <2>1. favMemory'.seen <= favorites.others /\ favMemory'.seen \in Nat
    BY <1>1, <1>2 DEF PlacesSaved, FavMemoryType
  <2> QED
    BY <1>1, <1>2, <1>3, <2>1 DEF PlacesSaved, Clean
<1>5. Passes(FavCall, FavAnswer, {}, {}, {}, {})
  BY <1>1, <1>2 DEF Passes, PlaceCalls
<1>6. PlaceCalls'
  <2>1. /\ \A c \in {} : PlaceCallFits(c)'
        /\ \A a \in {} : PlaceAnswerFits(a)' /\ a.call \in Calls
        /\ favorites.others <= favorites'.others /\ favMemory.acts <= favMemory'.acts
    BY <1>1, <1>2, <1>3 DEF FavMemoryType
  <2> QED
    BY <1>1, <1>3, <1>4, <1>5, <2>1, CallsStayFit
<1>7. LonelyReads'
  <2>1. \A a \in Range(answers) : a.others <= favorites.others /\ a.others \in Nat
    <3>1. Range(answers) \subseteq FavAnswer
      BY <1>1 DEF PlaceCalls, Range
    <3> QED
      BY <1>1, <3>1 DEF PlaceCalls, PlaceAnswerFits, FavAnswer
  <2>2. \A a \in Range(answers') : a.others # favorites'.others
    BY <1>2, <1>3, <2>1
  <2>3. Calls' = Calls
    BY <1>2 DEF Calls
  <2> QED
    BY <1>1, <1>2, <2>2, <2>3 DEF LonelyReads, Lonely
<1>8. FavKnown'
  BY <1>4 DEF FavKnown, ChangesKnown, ListKnown, Showing
<1>9. WebLoads'
  <2>1. Calls' = Calls
    BY <1>2 DEF Calls
  <2> QED
    BY <1>1, <1>2, <2>1 DEF WebLoads, UnderWay, Web
<1>10. OneAdding'
  BY <1>1, <1>2 DEF OneAdding, OneOf, NoneOf, AddKind
<1>11. TabFits'
  <2>1. favorites'.made \in Nat /\ \A f \in Favorite : f \in Nat
    BY <1>3 DEF SavedType, Favorite
  <2> QED
    BY <1>1, <1>2, <1>3, <2>1 DEF TabFits, TabType, Favorite
<1> QED
  BY <1>1, <1>2, <1>4, <1>6, <1>7, <1>8, <1>9, <1>10, <1>11 DEF FavParts, FavTyped, WindowType

\* What an answer that comes or is lost leaves.
LEMMA AnswerLeaves ==
  ASSUME FavParts, UNCHANGED <<client, favorites>>, NEW i \in DOMAIN answers,
         NEW cS, Passes(FavCall, FavAnswer, {}, cS, {answers[i]}, {}),
         favMemory' \in FavMemoryType, favMemory'.acts = favMemory.acts,
         favMemory'.seen <= favorites.others,
         \A c \in cS :
           /\ PlaceCallFits(c) /\ c.op \notin ChangingFavorites
           /\ c.op = "search" \/ (c.alone => \A d \in Calls' : d \in cS \/ d.op = "search"),
         TabFits', adding' \in WindowType, FavKnown', WebLoads', OneAdding'
  PROVE  FavParts'
<1>1. /\ PlaceCalls /\ PlacesSaved /\ LonelyReads
      /\ favorites \in SavedType /\ favMemory \in FavMemoryType
  BY DEF FavParts, FavTyped, PlacesSaved
<1>2. PlacesSaved'
  BY <1>1 DEF PlacesSaved, SavedType, Favorite
<1>3. PlaceCalls'
  <2>1. /\ \A c \in cS : PlaceCallFits(c)'
        /\ \A a \in {} : PlaceAnswerFits(a)' /\ a.call \in Calls
    BY DEF PlaceCallFits, Web, Favorite
  <2>2. /\ favorites.made <= favorites'.made /\ favorites.others <= favorites'.others
        /\ favMemory.acts <= favMemory'.acts
    BY <1>1 DEF SavedType, FavMemoryType
  <2> QED
    BY <1>1, <1>2, <2>1, <2>2, CallsStayFit
<1>4. LonelyReads'
  <2>1. \A c \in cS :
           /\ c.op \notin ChangingFavorites
           /\ c.op = "search" \/ (c.alone => \A d \in Calls' : d \in cS \/ d.op = "search")
    OBVIOUS
  <2> QED
    BY <1>1, <2>1, StayLonely
<1> QED
  BY <1>2, <1>3, <1>4 DEF FavParts, FavTyped

\* An answer that comes without a call that follows.
LEMMA NoCallFollows ==
  ASSUME PlaceCalls, NEW i \in DOMAIN answers, Received(i)
  PROVE  /\ Passes(FavCall, FavAnswer, {}, {}, {answers[i]}, {})
         /\ answers[i] \in FavAnswer /\ answers[i].call \in FavCall /\ answers[i].call \in Calls
         /\ answers[i] \in Range(answers)
         /\ PlaceAnswerFits(answers[i]) /\ PlaceCallFits(answers[i].call)
<1>1. sent \in Seq(FavCall) /\ answers \in Seq(FavAnswer)
  BY DEF PlaceCalls
<1>2. <<>> \in Seq(FavCall) /\ Range(<<>>) = {}
  BY Nothing
<1>3. sent' = sent \o <<>> /\ answers' = RemoveAt(answers, i)
  BY <1>1, ConcatEmptySeq DEF Received
<1>4a. /\ Passes(FavCall, FavAnswer, {}, Range(<<>>), {answers[i]}, {})
       /\ answers[i] \in FavAnswer /\ answers[i] \in Range(answers)
  BY <1>1, <1>2, <1>3, Heard
<1>4. /\ Passes(FavCall, FavAnswer, {}, {}, {answers[i]}, {})
      /\ answers[i] \in FavAnswer /\ answers[i] \in Range(answers)
  BY <1>2, <1>4a
<1>5. answers[i].call \in FavCall /\ answers[i].call \in Calls
  BY <1>4, CallsAre DEF FavAnswer
<1> QED
  BY <1>4, <1>5 DEF PlaceCalls

\* An answer that comes with a call that follows; what is under way then is that call
\* and what was under way beside the answer.
LEMMA CallFollows ==
  ASSUME PlaceCalls, NEW i \in DOMAIN answers, NEW c \in FavCall, Continued(i, <<c>>)
  PROVE  /\ Passes(FavCall, FavAnswer, {}, {c}, {answers[i]}, {})
         /\ answers[i] \in FavAnswer /\ answers[i].call \in FavCall /\ answers[i].call \in Calls
         /\ answers[i] \in Range(answers)
         /\ PlaceAnswerFits(answers[i]) /\ PlaceCallFits(answers[i].call)
         /\ \A d \in Calls' : d = c \/ d \in OtherCalls(i)
<1>1. sent \in Seq(FavCall) /\ answers \in Seq(FavAnswer)
  BY DEF PlaceCalls
<1>2. <<c>> \in Seq(FavCall) /\ Range(<<c>>) = {c}
  BY Single
<1>3. sent' = sent \o <<c>> /\ answers' = RemoveAt(answers, i)
  BY DEF Continued
<1>4a. /\ Passes(FavCall, FavAnswer, {}, Range(<<c>>), {answers[i]}, {})
       /\ answers[i] \in FavAnswer /\ answers[i] \in Range(answers)
  BY <1>1, <1>2, <1>3, Heard
<1>4. /\ Passes(FavCall, FavAnswer, {}, {c}, {answers[i]}, {})
      /\ answers[i] \in FavAnswer /\ answers[i] \in Range(answers)
  BY <1>2, <1>4a
<1>5. answers[i].call \in FavCall /\ answers[i].call \in Calls
  BY <1>4, CallsAre DEF FavAnswer
<1>6. PICK kept \in [DOMAIN answers' -> DOMAIN answers] :
           /\ \A j \in DOMAIN answers' : answers'[j] = answers[kept[j]] /\ kept[j] # i
           /\ \A j, k \in DOMAIN answers' : kept[j] = kept[k] => j = k
  BY <1>1, <1>3, Others
<1>7. \A d \in Range(sent') : d = c \/ d \in Range(sent)
  BY <1>4 DEF Passes
<1>8. \A j \in DOMAIN answers' : answers'[j].call \in OtherCalls(i)
  BY <1>6 DEF OtherCalls
<1>9. \A d \in Range(sent) : d \in OtherCalls(i)
  BY DEF OtherCalls
<1>10. \A d \in Calls' : d = c \/ d \in OtherCalls(i)
  BY <1>7, <1>8, <1>9 DEF Calls
<1> QED
  BY <1>4, <1>5, <1>10 DEF PlaceCalls

\* The window and the list after a reading.
LEMMA AfterReading ==
  ASSUME adding \in WindowType, TabFits, PlacesSaved, NEW c \in FavCall, NEW ok \in BOOLEAN,
         NEW ids \in SUBSET Favorite, \A f \in ids : f <= favorites.made
  PROVE  /\ WindowAfter(c) \in WindowType
         /\ c \in AddKind \/ WindowAfter(c).saving = adding.saving
         /\ TabAfter(c, ok, ids) \in TabType
         /\ \A f \in Favorite : TabAfter(c, ok, ids).shown[f] > 0 => f <= favorites.made
         /\ TabAfter(c, ok, ids).loading => tab.loading /\ c.op \notin {"load", "again"}
         /\ ok => TabAfter(c, ok, ids).shown = Copies(ids)
         /\ ~ok /\ ~(Mobile /\ c.op = "load") => TabAfter(c, ok, ids).shown = tab.shown
         /\ ~ok /\ c.op # "sync" => TabAfter(c, ok, ids).failed
<1>1. /\ WindowAfter(c) \in WindowType
      /\ c \in AddKind \/ WindowAfter(c).saving = adding.saving
  <2>1. CASE c.op = "again"
    <3>1. PICK w : w = [adding EXCEPT !.saving = FALSE]
      OBVIOUS
    <3>2. w \in WindowType
      BY <3>1 DEF WindowType
    <3>3. CloseWindowOf(w) \in WindowType
      BY <3>2, WindowFits
    <3>4. WindowAfter(c) = CloseWindowOf(w)
      BY <2>1, <3>1 DEF WindowAfter
    <3>5. c \in AddKind
      BY <2>1 DEF AddKind
    <3> QED
      BY <3>3, <3>4, <3>5
  <2>2. CASE c.op # "again"
    <3>1. PICK b \in BOOLEAN : b = (adding.saving /\ ~(c.op = "sync" /\ c.id = 0))
      OBVIOUS
    <3>2. WindowAfter(c) = [adding EXCEPT !.saving = b]
      BY <2>2, <3>1 DEF WindowAfter
    <3>3. WindowAfter(c) \in WindowType /\ WindowAfter(c).saving = b
      BY <3>2 DEF WindowType
    <3>4. c \in AddKind \/ b = adding.saving
      BY <3>1 DEF AddKind, WindowType
    <3> QED
      BY <3>3, <3>4
  <2> QED
    BY <2>1, <2>2
<1>2. PICK shown : shown = (IF ok THEN Copies(ids) ELSE IF Mobile /\ c.op = "load" THEN Copies({})
                            ELSE tab.shown)
  OBVIOUS
<1>3. PICK loads \in BOOLEAN : loads = (tab.loading /\ c.op \notin {"load", "again"})
  OBVIOUS
<1>4. PICK refreshes \in BOOLEAN : refreshes = (tab.refreshing /\ c.op # "refresh")
  OBVIOUS
<1>5. PICK removing \in Nat : removing = (IF c.op = "sync" /\ c.id # 0 THEN 0 ELSE tab.removing)
  BY DEF TabFits, TabType
<1>6. PICK failed \in BOOLEAN :
        failed = (tab.failed \/ (c.op = "sync" /\ c.id # 0) \/ (~ok /\ c.op # "sync"))
  OBVIOUS
<1>7. TabAfter(c, ok, ids) = [tab EXCEPT !.shown = shown, !.loading = loads, !.refreshing = refreshes,
                                         !.removing = removing, !.failed = failed]
  BY <1>2, <1>3, <1>4, <1>5, <1>6 DEF TabAfter
<1>8. \A s \in SUBSET Favorite : /\ Copies(s) \in [Favorite -> Nat]
                                 /\ \A f \in Favorite : Copies(s)[f] > 0 => f \in s
  BY DEF Copies
<1>9. shown \in [Favorite -> Nat] /\ \A f \in Favorite : shown[f] > 0 => f <= favorites.made
  <2>1. tab.shown \in [Favorite -> Nat] /\ \A f \in Favorite : tab.shown[f] > 0 => f <= favorites.made
    BY DEF TabFits, TabType
  <2> QED
    BY <1>2, <1>8, <2>1
<1>10. PICK t : t = TabAfter(c, ok, ids)
  OBVIOUS
<1>11. /\ t \in TabType /\ t.shown = shown /\ t.loading = loads /\ t.failed = failed
  BY <1>7, <1>9, <1>10 DEF TabType, TabFits
<1> QED
  BY <1>1, <1>2, <1>3, <1>6, <1>9, <1>10, <1>11

\* The list was read.
LEMMA PlacesRead ==
  ASSUME FavParts, UNCHANGED client, NEW i \in DOMAIN answers, FavoritesRead(i)
  PROVE  FavParts'
<1>1. /\ PlaceCalls /\ PlacesSaved /\ TabFits /\ LonelyReads /\ FavKnown /\ WebLoads /\ OneAdding
      /\ favorites \in SavedType /\ favMemory \in FavMemoryType /\ adding \in WindowType
  BY DEF FavParts, FavTyped, PlacesSaved
<1>2. PICK a : a = answers[i]
  OBVIOUS
<1>3. /\ a.call.op \in ListingFavorites /\ Received(i)
      /\ tab' = TabAfter(a.call, TRUE, a.ids) /\ adding' = WindowAfter(a.call)
      /\ favorites' = favorites
  BY <1>2 DEF FavoritesRead
<1>4. /\ Passes(FavCall, FavAnswer, {}, {}, {a}, {})
      /\ a \in FavAnswer /\ a.call \in FavCall /\ a.call \in Calls /\ a \in Range(answers)
      /\ PlaceAnswerFits(a) /\ PlaceCallFits(a.call)
  BY <1>1, <1>2, <1>3, NoCallFollows
<1>5. a.ids \in SUBSET Favorite /\ a.others \in Nat /\ a.call.alone \in BOOLEAN /\ a.call.acts \in Nat
  BY <1>4 DEF FavAnswer, FavCall
<1>6. /\ WindowAfter(a.call) \in WindowType
      /\ a.call \in AddKind \/ WindowAfter(a.call).saving = adding.saving
      /\ TabAfter(a.call, TRUE, a.ids) \in TabType
      /\ \A f \in Favorite : TabAfter(a.call, TRUE, a.ids).shown[f] > 0 => f <= favorites.made
      /\ TabAfter(a.call, TRUE, a.ids).loading => tab.loading /\ a.call.op \notin {"load", "again"}
      /\ TabAfter(a.call, TRUE, a.ids).shown = Copies(a.ids)
  <2>1. \A f \in a.ids : f <= favorites.made
    BY <1>4 DEF PlaceAnswerFits
  <2> QED
    BY <1>1, <1>4, <1>5, <2>1, AfterReading
<1>7. PICK b \in BOOLEAN : b = (~a.call.alone \/ a.call.acts # favMemory.acts)
  OBVIOUS
<1>8. favMemory' = [favMemory EXCEPT !.read = TRUE, !.seen = a.others, !.crossed = b]
  BY <1>2, <1>7 DEF FavoritesRead
<1>9. /\ favMemory' \in FavMemoryType /\ favMemory'.acts = favMemory.acts
      /\ favMemory'.seen = a.others /\ favMemory'.crossed = b /\ favMemory'.seen <= favorites.others
  BY <1>1, <1>4, <1>5, <1>8 DEF FavMemoryType, PlaceAnswerFits
<1>10. TabFits'
  <2>1. favorites'.made = favorites.made /\ \A f \in Favorite : tab'.shown[f] > 0 => f <= favorites.made
    BY <1>3, <1>6
  <2> QED
    BY <1>3, <1>6, <2>1 DEF TabFits, Favorite
<1>11. FavKnown'
  <2>1. CASE ~Clean'
    BY <2>1 DEF FavKnown, ChangesKnown, ListKnown, Showing
  <2>2. CASE Clean'
    <3>1. Lonely(a.call) /\ a.others = favorites.others
      BY <2>2, <1>3, <1>5, <1>7, <1>9 DEF Clean, Lonely
    <3>2. a.ids = favorites.ids /\ \A d \in Calls : d.op \notin ChangingFavorites
      BY <1>1, <1>4, <3>1 DEF LonelyReads
    <3>3. \A d \in Calls' : d \in Calls
      <4>1. \A d \in Calls' : d \in Calls \/ d \in {}
        BY <1>4, CallsPass
      <4> QED
        BY <4>1
    <3>4. \A e \in Range(answers') : ~IsAdded(e) /\ ~IsRemoved(e)
      BY <3>2, <3>3, CallsAre DEF IsAdded, IsRemoved, ChangingFavorites
    <3>5. \A d \in Range(sent') : d.op # "remove"
      BY <3>2, <3>3, CallsAre DEF ChangingFavorites
    <3>6. Adds' = {} /\ Rems' = {}
      BY <3>4 DEF Adds, Rems
    <3>7. RemovedOnce'
      BY <3>4 DEF RemovedOnce, Range
    <3>8. ChangesKnown'
      BY <3>5, <3>6, <3>7 DEF ChangesKnown
    <3>9. ListKnown'
      <4>1. PICK ids : ids = favorites.ids
        OBVIOUS
      <4>2. ids = ((favorites.ids \ Adds) \cup Rems)'
        BY <1>3, <3>6, <4>1
      <4>3. tab'.shown = Copies(ids)
        BY <1>3, <1>6, <3>2, <4>1
      <4> QED
        BY <4>2, <4>3 DEF ListKnown
    <3> QED
      BY <3>8, <3>9 DEF FavKnown
  <2> QED
    BY <2>1, <2>2
<1>12. WebLoads'
  <2>1. Web => a.call.op \in {"load", "again"}
    BY <1>3, <1>4 DEF PlaceCallFits, ListingFavorites
  <2>2. Web => ~tab'.loading
    BY <2>1, <1>3, <1>6
  <2> QED
    BY <2>2 DEF WebLoads, Web
<1>13. OneAdding'
  <2>1. /\ sent' = sent /\ answers' = RemoveAt(answers, i)
        /\ adding'.saving = adding.saving \/ answers[i].call \in AddKind
    BY <1>2, <1>3, <1>6 DEF Received
  <2> QED
    BY <1>1, <1>4, <2>1, AddingHeard
<1>14. adding' \in WindowType
  BY <1>3, <1>6
<1> QED
  BY <1>2, <1>3, <1>4, <1>9, <1>10, <1>11, <1>12, <1>13, <1>14, AnswerLeaves

\* An answer comes that leaves the list as it is, and a call may follow.
LEMMA ListLeft ==
  ASSUME FavParts, UNCHANGED <<client, favorites, favMemory>>, NEW i \in DOMAIN answers,
         answers' = RemoveAt(answers, i),
         NEW c \in FavCall, NEW cS \in SUBSET {c},
         Passes(FavCall, FavAnswer, {}, cS, {answers[i]}, {}),
         IF cS = {} THEN sent' = sent ELSE sent' = sent \o <<c>>,
         cS = {} \/ (PlaceCallFits(c) /\ c.op \notin ChangingFavorites),
         cS = {} \/ c.op = "search" \/ (c.alone => \A d \in Calls' : d \in cS \/ d.op = "search"),
         cS = {} \/ (c \in AddKind => answers[i].call \in AddKind),
         ~IsAdded(answers[i]), ~IsRemoved(answers[i]), answers[i].call.op \notin {"load", "again"},
         tab' \in TabType, tab'.shown = tab.shown, Web /\ ~tab'.failed => ~tab.failed,
         tab'.loading = tab.loading,
         adding' \in WindowType,
         \/ adding'.saving = adding.saving
         \/ answers[i].call \in AddKind /\ cS = {}
  PROVE  FavParts'
<1>1. /\ PlaceCalls /\ PlacesSaved /\ TabFits /\ LonelyReads /\ FavKnown /\ WebLoads /\ OneAdding
      /\ favorites \in SavedType /\ favMemory \in FavMemoryType
      /\ favMemory.seen <= favorites.others /\ answers \in Seq(FavAnswer)
  BY DEF FavParts, FavTyped, PlacesSaved, PlaceCalls
<1>2. TabFits'
  BY <1>1 DEF TabFits, Favorite
<1>3. FavKnown'
  <2>1. RemovedOnce => RemovedOnce'
    BY <1>1, RemovedFewer
  <2>2. Clean' = Clean /\ (Showing' => Showing /\ tab'.shown = tab.shown)
    BY DEF Clean, Showing, Web
  <2>3. \A b \in {answers[i]} \cup {} : ~IsAdded(b) /\ ~IsRemoved(b)
    OBVIOUS
  <2>4. \A d \in cS : d.op # "remove" \/ (Clean => d.id \notin Adds)
    BY DEF ChangingFavorites
  <2>5. favorites'.ids = favorites.ids
    OBVIOUS
  <2> QED
    BY <1>1, <2>1, <2>2, <2>3, <2>4, <2>5, KnownStays
<1>4. WebLoads'
  <2>1. Web /\ tab'.loading =>
           \/ tab.loading /\ \A d : d \in {} \/ (\E b \in {answers[i]} : d = b.call) =>
                                      d.op \notin {"load", "again"} \/ \E b \in {} : d = b.call
           \/ \E d \in cS : d.op \in {"load", "again"}
    OBVIOUS
  <2>2. (favMemory'.read => favMemory.read) /\ \A b \in {} : b.call \in Calls
    OBVIOUS
  <2> QED
    BY <1>1, <2>1, <2>2, StillLoads
<1>5. OneAdding'
  <2>1. sent' = sent \/ (sent' = sent \o <<c>> /\ (c \in AddKind => answers[i].call \in AddKind))
    OBVIOUS
  <2>2. \/ adding'.saving = adding.saving
        \/ answers[i].call \in AddKind /\ sent' = sent
    OBVIOUS
  <2> QED
    BY <1>1, <2>1, <2>2, AddingHeard
<1>6. favMemory' \in FavMemoryType /\ favMemory'.acts = favMemory.acts
      /\ favMemory'.seen <= favorites.others
  BY <1>1
<1>7. \A e \in cS :
           /\ PlaceCallFits(e) /\ e.op \notin ChangingFavorites
           /\ e.op = "search" \/ (e.alone => \A d \in Calls' : d \in cS \/ d.op = "search")
  OBVIOUS
<1> QED
  BY <1>2, <1>3, <1>4, <1>5, <1>6, <1>7, AnswerLeaves

\* A search ends, an addition is refused, or a removal finds nothing.
LEMMA AnswerPasses ==
  ASSUME FavParts, UNCHANGED client, NEW i \in DOMAIN answers,
         PlacesFound(i) \/ FavoriteRefused(i) \/ FavoriteUnknown(i)
  PROVE  FavParts'
<1>1. /\ PlaceCalls /\ PlacesSaved /\ TabFits /\ tab \in TabType /\ adding \in WindowType
      /\ favMemory.acts \in Nat
  BY DEF FavParts, FavTyped, PlacesSaved, TabFits, FavMemoryType
<1>2. PICK a : a = answers[i]
  OBVIOUS
<1>3. UNCHANGED <<favorites, favMemory>>
  BY DEF PlacesFound, FavoriteRefused, FavoriteUnknown
<1>4. ASSUME Received(i), ~IsAdded(a), ~IsRemoved(a), a.call.op \notin {"load", "again"},
             tab' \in TabType, tab'.shown = tab.shown, Web /\ ~tab'.failed => ~tab.failed,
             tab'.loading = tab.loading, adding' \in WindowType,
             adding'.saving = adding.saving \/ a.call \in AddKind
      PROVE  FavParts'
  <2>1. /\ Passes(FavCall, FavAnswer, {}, {}, {a}, {}) /\ a.call \in FavCall
    BY <1>1, <1>2, <1>4, NoCallFollows
  <2>2. answers' = RemoveAt(answers, i) /\ sent' = sent
    BY <1>4 DEF Received
  <2>3. {} \in SUBSET {a.call}
    OBVIOUS
  <2> QED
    BY <1>2, <1>3, <1>4, <2>1, <2>2, <2>3, ListLeft
<1>5. ASSUME NEW c \in FavCall, Continued(i, <<c>>), ~IsAdded(a), ~IsRemoved(a),
             a.call.op \notin {"load", "again"}, tab' = tab,
             c.op \notin ChangingFavorites \cup {"load", "again", "refresh"}, c.acts <= favMemory.acts,
             c.op = "sync" => ~Web,
             c.op = "search" \/ (c.alone => \A d \in OtherCalls(i) : d.op = "search"),
             c \in AddKind => a.call \in AddKind,
             adding' \in WindowType, adding'.saving = adding.saving
      PROVE  FavParts'
  <2>1. /\ Passes(FavCall, FavAnswer, {}, {c}, {a}, {})
        /\ \A d \in Calls' : d = c \/ d \in OtherCalls(i)
    BY <1>1, <1>2, <1>5, CallFollows
  <2>2. answers' = RemoveAt(answers, i) /\ sent' = sent \o <<c>>
    BY <1>5 DEF Continued
  <2>3. {c} \in SUBSET {c} /\ {c} # {}
    OBVIOUS
  <2>4. PlaceCallFits(c)
    BY <1>5 DEF PlaceCallFits, ChangingFavorites
  <2>5. c.op = "search" \/ (c.alone => \A d \in Calls' : d \in {c} \/ d.op = "search")
    BY <1>5, <2>1
  <2>6. /\ tab' \in TabType /\ tab'.shown = tab.shown /\ (Web /\ ~tab'.failed => ~tab.failed)
        /\ tab'.loading = tab.loading
    BY <1>1, <1>5
  <2>7. IF {c} = {} THEN sent' = sent ELSE sent' = sent \o <<c>>
    BY <2>2
  <2>8. c.op \notin ChangingFavorites
    BY <1>5
  <2> QED
    BY <1>2, <1>3, <1>5, <2>1, <2>2, <2>3, <2>4, <2>5, <2>6, <2>7, <2>8, ListLeft
<1>6. CASE PlacesFound(i)
  <2>1. PICK strays \in BOOLEAN : strays = (Mobile /\ adding.timer)
    OBVIOUS
  <2>2. PICK shown \in BOOLEAN, ticks \in BOOLEAN :
          adding' = [adding EXCEPT !.offered = shown, !.timer = ticks]
    <3>1. PICK shown \in BOOLEAN : adding' = [adding EXCEPT !.offered = shown, !.timer = @ /\ ~strays]
      BY <1>6, <2>1 DEF PlacesFound
    <3>2. PICK ticks \in BOOLEAN : ticks = (adding.timer /\ ~strays)
      OBVIOUS
    <3>3. adding' = [adding EXCEPT !.offered = shown, !.timer = ticks]
      BY <3>1, <3>2
    <3> QED
      BY <3>3
  <2>3. adding' \in WindowType /\ adding'.saving = adding.saving
    BY <1>1, <2>2 DEF WindowType
  <2>4. /\ a.call.op = "search" /\ tab' = tab
        /\ Continued(i, IF strays THEN <<a.call>> ELSE <<>>)
    BY <1>2, <1>6, <2>1 DEF PlacesFound
  <2>5. ~IsAdded(a) /\ ~IsRemoved(a)
    BY <2>4 DEF IsAdded, IsRemoved
  <2>6. CASE strays
    <3>1. a \in FavAnswer /\ a \in Range(answers)
      BY <1>1, <1>2 DEF PlaceCalls, Range
    <3>2. a.call \in FavCall /\ a.call \in Calls
      BY <3>1, CallsAre DEF FavAnswer
    <3>3. a.call.acts <= favMemory.acts
      BY <1>1, <3>2 DEF PlaceCalls, PlaceCallFits
    <3>4. Continued(i, <<a.call>>)
      BY <2>4, <2>6
    <3>5. a.call.op \notin ChangingFavorites \cup {"load", "again", "refresh"} /\ a.call.op # "sync"
      BY <2>4 DEF ChangingFavorites
    <3> QED
      BY <2>3, <2>4, <2>5, <3>2, <3>3, <3>4, <3>5, <1>5
  <2>7. CASE ~strays
    <3>1. Continued(i, <<>>)
      BY <2>4, <2>7
    <3>2. Received(i)
      BY <1>1, <3>1, ConcatEmptySeq DEF Received, Continued, PlaceCalls
    <3> QED
      BY <1>1, <2>3, <2>4, <2>5, <3>2, <1>4
  <2> QED
    BY <2>6, <2>7
<1>7. CASE FavoriteRefused(i)
  <2>1. /\ a.call.op = "add" /\ ~a.ok /\ tab' = tab
        /\ \/ Mobile /\ Continued(i, <<FavoriteCall("sync", 0, OtherCalls(i))>>) /\ adding' = adding
           \/ Web /\ Received(i) /\ adding' = [adding EXCEPT !.saving = FALSE]
    BY <1>2, <1>7 DEF FavoriteRefused
  <2>2. ~IsAdded(a) /\ ~IsRemoved(a)
    BY <2>1 DEF IsAdded, IsRemoved
  <2>3. a.call \in AddKind
    <3>1. a \in FavAnswer
      BY <1>1, <1>2 DEF PlaceCalls
    <3> QED
      BY <2>1, <3>1 DEF AddKind, FavAnswer
  <2>4. CASE Mobile /\ Continued(i, <<FavoriteCall("sync", 0, OtherCalls(i))>>) /\ adding' = adding
    <3>1. PICK c \in FavCall : /\ c = FavoriteCall("sync", 0, OtherCalls(i)) /\ c.op = "sync"
                               /\ c.id = 0 /\ c.acts = favMemory.acts
                               /\ c.alone => \A d \in OtherCalls(i) : d.op = "search"
      BY <1>1, NewPlaceCall DEF ListingFavorites
    <3>2. Continued(i, <<c>>)
      BY <2>4, <3>1
    <3>3. c.op \notin ChangingFavorites \cup {"load", "again", "refresh"} /\ ~Web
          /\ c.acts <= favMemory.acts
      BY <1>1, <2>4, <3>1 DEF ChangingFavorites, Web, Mobile
    <3>4. a.call.op \notin {"load", "again"} /\ adding' \in WindowType /\ adding'.saving = adding.saving
      BY <1>1, <2>1, <2>4
    <3> QED
      BY <2>1, <2>2, <2>3, <3>1, <3>2, <3>3, <3>4, <1>5
  <2>5. CASE Web /\ Received(i) /\ adding' = [adding EXCEPT !.saving = FALSE]
    <3>1. adding' \in WindowType
      BY <1>1, <2>5 DEF WindowType
    <3>2. a.call.op \notin {"load", "again"}
      BY <2>1
    <3> QED
      BY <1>1, <2>1, <2>2, <2>3, <2>5, <3>1, <3>2, <1>4
  <2> QED
    BY <2>1, <2>4, <2>5
<1>8. CASE FavoriteUnknown(i)
  <2>1. PICK f : f = a.id
    OBVIOUS
  <2>2. /\ a.call.op = "remove" /\ ~a.ok /\ adding' = adding
        /\ \/ Mobile /\ Continued(i, <<FavoriteCall("sync", f, OtherCalls(i))>>) /\ tab' = tab
           \/ Web /\ Received(i) /\ tab' = [tab EXCEPT !.removing = 0, !.failed = TRUE]
    BY <1>2, <1>8, <2>1 DEF FavoriteUnknown
  <2>3. ~IsAdded(a) /\ ~IsRemoved(a)
    BY <2>2 DEF IsAdded, IsRemoved
  <2>4. CASE Mobile /\ Continued(i, <<FavoriteCall("sync", f, OtherCalls(i))>>) /\ tab' = tab
    <3>1. f \in Favorite
      <4>1. a \in FavAnswer /\ a \in Range(answers)
        BY <1>1, <1>2 DEF PlaceCalls, Range
      <4>2. a.call \in Calls
        BY <4>1, CallsAre
      <4> QED
        BY <1>1, <2>1, <2>2, <4>1, <4>2 DEF PlaceCalls, PlaceAnswerFits, PlaceCallFits
    <3>2. f \in Nat /\ f # 0
      BY <3>1 DEF Favorite
    <3>3. PICK c \in FavCall : /\ c = FavoriteCall("sync", f, OtherCalls(i)) /\ c.op = "sync"
                               /\ c.id = f /\ c.acts = favMemory.acts
                               /\ c.alone => \A d \in OtherCalls(i) : d.op = "search"
      BY <1>1, <3>2, NewPlaceCall DEF ListingFavorites
    <3>4. Continued(i, <<c>>)
      BY <2>4, <3>3
    <3>5. c.op \notin ChangingFavorites \cup {"load", "again", "refresh"} /\ ~Web
          /\ c.acts <= favMemory.acts /\ c \notin AddKind
      BY <1>1, <2>4, <3>2, <3>3 DEF ChangingFavorites, Web, Mobile, AddKind
    <3>6. a.call.op \notin {"load", "again"} /\ adding' \in WindowType /\ adding'.saving = adding.saving
      BY <1>1, <2>2
    <3> QED
      BY <2>3, <2>4, <3>3, <3>4, <3>5, <3>6, <1>5
  <2>5. CASE Web /\ Received(i) /\ tab' = [tab EXCEPT !.removing = 0, !.failed = TRUE]
    <3>1. tab' \in TabType /\ tab'.shown = tab.shown /\ tab'.failed /\ tab'.loading = tab.loading
      BY <1>1, <2>5 DEF TabType
    <3>2. a.call.op \notin {"load", "again"} /\ adding' \in WindowType /\ adding'.saving = adding.saving
      BY <1>1, <2>2
    <3> QED
      BY <2>3, <2>5, <3>1, <3>2, <1>4
  <2> QED
    BY <2>2, <2>4, <2>5
<1> QED
  BY <1>6, <1>7, <1>8

\* A place was added: mobile lists it, the web reads the list again.
LEMMA PlaceAdded ==
  ASSUME FavParts, UNCHANGED client, NEW i \in DOMAIN answers, FavoriteAdded(i)
  PROVE  FavParts'
<1>1. /\ PlaceCalls /\ PlacesSaved /\ TabFits /\ tab \in TabType /\ adding \in WindowType
      /\ FavKnown /\ WebLoads /\ OneAdding /\ answers \in Seq(FavAnswer)
      /\ favMemory \in FavMemoryType /\ favMemory.acts \in Nat /\ favMemory.seen <= favorites.others
  BY DEF FavParts, FavTyped, PlacesSaved, TabFits, FavMemoryType, PlaceCalls
<1>2. PICK a : a = answers[i]
  OBVIOUS
<1>3. UNCHANGED <<favorites, favMemory>> /\ a.call.op = "add" /\ a.ok
  BY <1>2 DEF FavoriteAdded
<1>4. IsAdded(a) /\ ~IsRemoved(a)
  BY <1>3 DEF IsAdded, IsRemoved
<1>5. a \in FavAnswer /\ a \in Range(answers) /\ a.call \in FavCall
  <2>1. a \in FavAnswer /\ a \in Range(answers)
    BY <1>1, <1>2 DEF Range
  <2> QED
    BY <2>1 DEF FavAnswer
<1>6. a.call \in AddKind
  BY <1>3, <1>5 DEF AddKind
<1>7. PICK f : f = a.id
  OBVIOUS
<1>8. f \in Favorite /\ f <= favorites.made
  BY <1>1, <1>4, <1>5, <1>7 DEF PlaceCalls, PlaceAnswerFits
<1>9. Clean' = Clean /\ (Clean => f \in favorites.ids /\ f \notin Rems /\ f \in Adds)
  BY <1>1, <1>3, <1>4, <1>5, <1>7, <1>8 DEF Clean, FavKnown, ChangesKnown, Adds
<1>10. /\ favMemory' \in FavMemoryType /\ favMemory'.acts = favMemory.acts
       /\ favMemory'.seen <= favorites.others
  BY <1>1, <1>3
<1>11. CASE Mobile
  <2>1. Received(i) /\ ~Web /\ adding' = EmptyWindow
        /\ tab' = [tab EXCEPT !.shown[f] = @ + 1, !.failed = FALSE]
    BY <1>2, <1>7, <1>11 DEF FavoriteAdded, Mobile, Web
  <2>2. Passes(FavCall, FavAnswer, {}, {}, {a}, {})
    BY <1>1, <1>2, <2>1, NoCallFollows
  <2>3. /\ Range(sent') \subseteq Range(sent) /\ Range(answers') \subseteq Range(answers)
        /\ Range(answers) \subseteq Range(answers') \cup {a}
    BY <2>2 DEF Passes
  <2>4. PICK s : s = [tab.shown EXCEPT ![f] = @ + 1]
    OBVIOUS
  <2>5. /\ s \in [Favorite -> Nat] /\ s[f] = tab.shown[f] + 1
        /\ \A g \in Favorite : g # f => s[g] = tab.shown[g]
    <3>1. tab.shown \in [Favorite -> Nat]
      BY <1>1 DEF TabType
    <3> QED
      BY <1>8, <2>4, <3>1
  <2>6. tab' = [tab EXCEPT !.shown = s, !.failed = FALSE]
    BY <1>1, <2>1, <2>4 DEF TabType
  <2>7. tab' \in TabType /\ tab'.shown = s
    BY <1>1, <2>5, <2>6 DEF TabType
  <2>8. TabFits'
    <3>1. \A g \in Favorite : s[g] > 0 => g <= favorites.made
      BY <1>1, <1>8, <2>5 DEF TabFits
    <3> QED
      BY <1>3, <2>7, <3>1 DEF TabFits, Favorite
  <2>9. \A b \in Range(answers') : ~IsAdded(b)
    <3>1. PICK kept \in [DOMAIN answers' -> DOMAIN answers] :
             /\ \A j \in DOMAIN answers' : answers'[j] = answers[kept[j]] /\ kept[j] # i
             /\ \A j, k \in DOMAIN answers' : kept[j] = kept[k] => j = k
      BY <1>1, <2>1, Others DEF Received
    <3>2. \A j \in DOMAIN answers' : kept[j] \in DOMAIN answers
      BY <3>1
    <3>3. \A j \in DOMAIN answers' : answers'[j].call \notin AddKind
      BY <1>1, <1>2, <1>6, <3>1, <3>2 DEF OneAdding, OneOf
    <3>4. \A b \in Range(answers') : b.call \notin AddKind /\ b \in FavAnswer
      BY <3>3, <2>2 DEF Range, Passes
    <3> QED
      BY <3>4 DEF IsAdded, AddKind, FavAnswer
  <2>10. Adds' = {} /\ Rems' = Rems
    BY <1>4, <2>3, <2>9 DEF Adds, Rems, Favorite
  <2>11. Clean => Adds = {f}
    <3> SUFFICES ASSUME Clean, NEW b \in Range(answers), IsAdded(b) PROVE b.id = f
      BY <1>9 DEF Adds
    <3> QED
      BY <1>7, <2>3, <2>9
  <2>12. FavKnown'
    <3>1. CASE ~Clean
      BY <1>9, <3>1 DEF FavKnown, ChangesKnown, ListKnown, Showing
    <3>2. CASE Clean
      <4>1. RemovedOnce'
        BY <1>1, <2>1, <3>2, RemovedFewer DEF FavKnown, ChangesKnown, Received
      <4>2. ChangesKnown'
        BY <1>1, <1>3, <2>3, <2>10, <3>2, <4>1 DEF FavKnown, ChangesKnown
      <4>3. tab.shown = Copies((favorites.ids \ {f}) \cup Rems)
        BY <1>1, <2>1, <2>11, <3>2 DEF FavKnown, ListKnown, Showing
      <4>4. s = Copies(favorites.ids \cup Rems)
        <5>1. \A g \in Favorite : s[g] = IF g \in favorites.ids \cup Rems THEN 1 ELSE 0
          BY <1>8, <1>9, <2>5, <3>2, <4>3 DEF Copies
        <5> QED
          BY <2>5, <5>1 DEF Copies
      <4>5. ListKnown'
        <5>1. PICK ids : ids = favorites.ids \cup Rems
          OBVIOUS
        <5>2. ids = ((favorites.ids \ Adds) \cup Rems)'
          BY <1>3, <2>10, <5>1
        <5> QED
          BY <2>7, <4>4, <5>1, <5>2 DEF ListKnown
      <4> QED
        BY <4>2, <4>5 DEF FavKnown
    <3> QED
      BY <3>1, <3>2
  <2>13. WebLoads'
    BY <2>1 DEF WebLoads, Web
  <2>14. adding' \in WindowType
    BY <1>1, <2>1, WindowFits
  <2>15. OneAdding'
    <3>1. sent' = sent /\ answers' = RemoveAt(answers, i)
      BY <2>1 DEF Received
    <3>2. answers[i].call \in AddKind
      BY <1>2, <1>6
    <3> QED
      BY <1>1, <1>5, <3>1, <3>2, AddingHeard
  <2>16. \A e \in {} :
           /\ PlaceCallFits(e) /\ e.op \notin ChangingFavorites
           /\ e.op = "search" \/ (e.alone => \A d \in Calls' : d \in {} \/ d.op = "search")
    OBVIOUS
  <2> QED
    BY <1>2, <1>3, <1>10, <2>2, <2>8, <2>12, <2>13, <2>14, <2>15, <2>16, AnswerLeaves
<1>12. CASE Web
  <2>1. PICK c \in FavCall : /\ c = FavoriteCall("again", 0, OtherCalls(i)) /\ c.op = "again"
                             /\ c.id = 0 /\ c.acts = favMemory.acts
                             /\ c.alone => \A d \in OtherCalls(i) : d.op = "search"
    BY <1>1, NewPlaceCall DEF ListingFavorites
  <2>2. /\ Continued(i, <<c>>) /\ adding' = adding /\ tab' = [tab EXCEPT !.loading = TRUE, !.failed = FALSE]
    BY <1>12, <2>1 DEF FavoriteAdded, Mobile, Web
  <2>3. /\ Passes(FavCall, FavAnswer, {}, {c}, {a}, {})
        /\ \A d \in Calls' : d = c \/ d \in OtherCalls(i)
    BY <1>1, <1>2, <2>2, CallFollows
  <2>4. /\ Range(sent') \subseteq Range(sent) \cup {c} /\ Range(answers') \subseteq Range(answers)
        /\ Range(answers) \subseteq Range(answers') \cup {a}
    BY <2>3 DEF Passes
  <2>5. tab' \in TabType /\ tab'.shown = tab.shown /\ tab'.loading
    BY <1>1, <2>2 DEF TabType
  <2>6. TabFits'
    BY <1>1, <1>3, <2>5 DEF TabFits, Favorite
  <2>7. FavKnown'
    <3>1. ListKnown'
      BY <1>12, <2>5 DEF ListKnown, Showing, Web
    <3>2. ChangesKnown'
      <4>1. Clean => RemovedOnce'
        BY <1>1, <2>2, RemovedFewer DEF FavKnown, ChangesKnown, Continued
      <4>2. Adds' \subseteq Adds /\ Rems' = Rems
        BY <1>4, <2>4 DEF Adds, Rems, Favorite
      <4> QED
        BY <1>1, <1>3, <1>9, <2>1, <2>4, <4>1, <4>2 DEF FavKnown, ChangesKnown
    <3> QED
      BY <3>1, <3>2 DEF FavKnown
  <2>8. WebLoads'
    <3>1. c \in Calls'
      BY <2>3, CallsAre DEF Passes
    <3> QED
      BY <2>1, <3>1 DEF WebLoads, UnderWay
  <2>9. OneAdding'
    <3>1. /\ sent' = sent \o <<c>> /\ answers' = RemoveAt(answers, i)
          /\ (c \in AddKind => answers[i].call \in AddKind) /\ adding'.saving = adding.saving
      BY <1>2, <1>6, <2>2 DEF Continued
    <3> QED
      BY <1>1, <3>1, AddingHeard
  <2>10. \A e \in {c} :
           /\ PlaceCallFits(e) /\ e.op \notin ChangingFavorites
           /\ e.op = "search" \/ (e.alone => \A d \in Calls' : d \in {c} \/ d.op = "search")
    BY <1>1, <2>1, <2>3 DEF PlaceCallFits, ChangingFavorites
  <2>11. adding' \in WindowType
    BY <1>1, <2>2
  <2> QED
    BY <1>2, <1>3, <1>10, <2>3, <2>6, <2>7, <2>8, <2>9, <2>10, <2>11, AnswerLeaves
<1> QED
  BY <1>11, <1>12 DEF FavoriteAdded

\* A place was removed, and leaves the list.
LEMMA PlaceRemoved ==
  ASSUME FavParts, UNCHANGED client, NEW i \in DOMAIN answers, FavoriteRemoved(i)
  PROVE  FavParts'
<1>1. /\ PlaceCalls /\ PlacesSaved /\ TabFits /\ tab \in TabType /\ adding \in WindowType
      /\ FavKnown /\ WebLoads /\ OneAdding /\ answers \in Seq(FavAnswer)
      /\ favMemory \in FavMemoryType /\ favMemory.acts \in Nat /\ favMemory.seen <= favorites.others
  BY DEF FavParts, FavTyped, PlacesSaved, TabFits, FavMemoryType, PlaceCalls
<1>2. PICK a : a = answers[i]
  OBVIOUS
<1>3. PICK f : f = a.id
  OBVIOUS
<1>4. /\ UNCHANGED <<favorites, adding, favMemory>> /\ a.call.op = "remove" /\ a.ok /\ Received(i)
      /\ tab' = FavoriteGone(f)
  BY <1>2, <1>3 DEF FavoriteRemoved
<1>5. ~IsAdded(a) /\ IsRemoved(a)
  BY <1>4 DEF IsAdded, IsRemoved
<1>6. /\ Passes(FavCall, FavAnswer, {}, {}, {a}, {})
      /\ a \in FavAnswer /\ a.call \in FavCall /\ a.call \in Calls
      /\ a \in Range(answers) /\ PlaceAnswerFits(a) /\ PlaceCallFits(a.call)
  BY <1>1, <1>2, <1>4, NoCallFollows
<1>7. f \in Favorite
  BY <1>3, <1>4, <1>6 DEF PlaceAnswerFits, PlaceCallFits
<1>8. /\ Range(sent') \subseteq Range(sent) /\ Range(answers') \subseteq Range(answers)
      /\ Range(answers) \subseteq Range(answers') \cup {a}
  BY <1>6 DEF Passes
<1>9. PICK s : s = [tab.shown EXCEPT ![f] = 0]
  OBVIOUS
<1>10. PICK r : r = IF Web \/ tab.removing = f THEN 0 ELSE tab.removing
  OBVIOUS
<1>11. tab' = [tab EXCEPT !.shown = s, !.removing = r] /\ r \in Nat
  BY <1>1, <1>4, <1>9, <1>10 DEF FavoriteGone, TabType
<1>12. /\ s \in [Favorite -> Nat] /\ s[f] = 0
       /\ \A g \in Favorite : g # f => s[g] = tab.shown[g]
  <2>1. tab.shown \in [Favorite -> Nat]
    BY <1>1 DEF TabType
  <2> QED
    BY <1>7, <1>9, <2>1
<1>13. /\ tab' \in TabType /\ tab'.shown = s /\ tab'.loading = tab.loading
       /\ tab'.failed = tab.failed
  BY <1>1, <1>11, <1>12 DEF TabType
<1>14. TabFits'
  <2>1. \A g \in Favorite : s[g] > 0 => g <= favorites.made
    BY <1>1, <1>12 DEF TabFits
  <2> QED
    BY <1>4, <1>13, <2>1 DEF TabFits, Favorite
<1>15. Clean' = Clean /\ Showing' = Showing
  BY <1>4, <1>13 DEF Clean, Showing, Web
<1>16. Clean => f \in Rems /\ f \notin favorites.ids /\ RemovedOnce
  BY <1>1, <1>3, <1>5, <1>6, <1>7 DEF FavKnown, ChangesKnown, Rems
<1>17. Clean => RemovedOnce' /\ Adds' = Adds /\ Rems' = Rems \ {f}
  <2> SUFFICES ASSUME Clean PROVE RemovedOnce' /\ Adds' = Adds /\ Rems' = Rems \ {f}
    OBVIOUS
  <2>1. RemovedOnce' /\ \A b \in Range(answers') : IsRemoved(b) => b.id # f
    BY <1>1, <1>2, <1>3, <1>4, <1>5, <1>16, RemovedFewer DEF Received
  <2>2. Adds' = Adds
    BY <1>5, <1>8 DEF Adds, Favorite
  <2>3. Rems' = Rems \ {f}
    BY <1>3, <1>8, <2>1 DEF Rems, Favorite
  <2> QED
    BY <2>1, <2>2, <2>3
<1>18. ChangesKnown'
  BY <1>1, <1>4, <1>8, <1>15, <1>17 DEF FavKnown, ChangesKnown
<1>19. ListKnown'
  <2>1. CASE ~Showing
    BY <1>15, <2>1 DEF ListKnown
  <2>2. CASE Showing
    <3>1. Clean /\ tab.shown = Copies((favorites.ids \ Adds) \cup Rems)
      BY <1>1, <2>2 DEF FavKnown, ListKnown, Showing
    <3>2. PICK ids : ids = (favorites.ids \ Adds) \cup (Rems \ {f})
      OBVIOUS
    <3>3. ids = ((favorites.ids \ Adds) \cup Rems)'
      BY <1>4, <1>17, <3>1, <3>2
    <3>4. \A g \in Favorite : s[g] = IF g \in ids THEN 1 ELSE 0
      BY <1>12, <1>16, <3>1, <3>2 DEF Copies
    <3>5. s = Copies(ids)
      BY <1>12, <3>4 DEF Copies
    <3> QED
      BY <1>13, <3>3, <3>5 DEF ListKnown
  <2> QED
    BY <2>1, <2>2
<1>20. FavKnown'
  BY <1>18, <1>19 DEF FavKnown
<1>21. WebLoads'
  <2>1. Web /\ tab'.loading =>
           \/ tab.loading /\ \A d : d \in {} \/ (\E b \in {a} : d = b.call) =>
                                      d.op \notin {"load", "again"} \/ \E b \in {} : d = b.call
           \/ \E d \in {} : d.op \in {"load", "again"}
    BY <1>4, <1>13
  <2>2. (favMemory'.read => favMemory.read) /\ \A b \in {} : b.call \in Calls
    BY <1>4
  <2> QED
    BY <1>1, <1>6, <2>1, <2>2, StillLoads
<1>22. OneAdding'
  <2>1. sent' = sent /\ answers' = RemoveAt(answers, i) /\ adding'.saving = adding.saving
    BY <1>4 DEF Received
  <2> QED
    BY <1>1, <1>6, <2>1, AddingHeard
<1>23. \A e \in {} :
         /\ PlaceCallFits(e) /\ e.op \notin ChangingFavorites
         /\ e.op = "search" \/ (e.alone => \A d \in Calls' : d \in {} \/ d.op = "search")
  OBVIOUS
<1>24. /\ favMemory' \in FavMemoryType /\ favMemory'.acts = favMemory.acts
       /\ favMemory'.seen <= favorites.others /\ adding' \in WindowType
  BY <1>1, <1>4
<1> QED
  BY <1>2, <1>4, <1>6, <1>14, <1>20, <1>21, <1>22, <1>23, <1>24, AnswerLeaves

\* What the screens do when nothing more is heard of a call.
LEMMA PlacesGivenUp ==
  ASSUME FavParts, UNCHANGED client, NEW c \in Calls, NEW made \in BOOLEAN, GivesUpFavorite(c, made)
  PROVE  /\ UNCHANGED favorites
         /\ favMemory' \in FavMemoryType /\ favMemory'.acts = favMemory.acts
         /\ favMemory'.seen <= favorites.others /\ (favMemory'.read => favMemory.read)
         /\ Clean' => Clean /\ ~made
         /\ TabFits' /\ adding' \in WindowType
         /\ c \in AddKind \/ adding'.saving = adding.saving
         /\ Showing' => Showing /\ tab'.shown = tab.shown
         /\ tab'.loading => tab.loading /\ c.op \notin {"load", "again"}
<1>1. /\ PlaceCalls /\ PlacesSaved /\ TabFits /\ tab \in TabType /\ adding \in WindowType
      /\ favMemory \in FavMemoryType /\ favMemory.seen <= favorites.others
  BY DEF FavParts, FavTyped, PlacesSaved, TabFits, PlaceCalls
<1>2. c \in FavCall /\ PlaceCallFits(c)
  <2>1. Range(answers) \subseteq FavAnswer /\ Range(sent) \subseteq FavCall
    BY <1>1 DEF PlaceCalls, Range
  <2> QED
    BY <1>1, <2>1, CallsAre DEF FavAnswer, PlaceCalls
<1>3. /\ UNCHANGED favorites
      /\ tab' = IF c.op \in ListingFavorites THEN TabAfter(c, FALSE, {})
                ELSE IF c.op = "remove" THEN [tab EXCEPT !.removing = 0, !.failed = TRUE]
                ELSE tab
      /\ adding' = CASE c.op = "add" -> [adding EXCEPT !.saving = FALSE]
                     [] c.op = "search" -> [adding EXCEPT !.offered = FALSE]
                     [] OTHER -> WindowAfter(c)
  BY DEF GivesUpFavorite
<1>4. PICK keeps \in BOOLEAN : keeps = (favMemory.read /\ ~(Mobile /\ c.op = "load"))
  OBVIOUS
<1>5. PICK crosses \in BOOLEAN : crosses = (favMemory.crossed \/ made)
  OBVIOUS
<1>6. favMemory' = [favMemory EXCEPT !.read = keeps, !.crossed = crosses]
  BY <1>4, <1>5 DEF GivesUpFavorite
<1>7. /\ favMemory' \in FavMemoryType /\ favMemory'.acts = favMemory.acts
      /\ favMemory'.seen = favMemory.seen /\ favMemory'.read = keeps /\ favMemory'.crossed = crosses
  BY <1>1, <1>6 DEF FavMemoryType
<1>8. Clean' => Clean /\ ~made /\ ~(Mobile /\ c.op = "load")
  BY <1>3, <1>4, <1>5, <1>7 DEF Clean
<1>9. /\ WindowAfter(c) \in WindowType
      /\ c \in AddKind \/ WindowAfter(c).saving = adding.saving
      /\ TabAfter(c, FALSE, {}) \in TabType
      /\ \A f \in Favorite : TabAfter(c, FALSE, {}).shown[f] > 0 => f <= favorites.made
      /\ TabAfter(c, FALSE, {}).loading => tab.loading /\ c.op \notin {"load", "again"}
      /\ ~(Mobile /\ c.op = "load") => TabAfter(c, FALSE, {}).shown = tab.shown
      /\ c.op # "sync" => TabAfter(c, FALSE, {}).failed
  <2>1. FALSE \in BOOLEAN /\ {} \in SUBSET Favorite
    OBVIOUS
  <2>2. \A f \in {} : f <= favorites.made
    OBVIOUS
  <2> QED
    BY <1>1, <1>2, <2>1, <2>2, AfterReading
<1>10. /\ tab' \in TabType /\ \A f \in Favorite : tab'.shown[f] > 0 => f <= favorites.made
       /\ tab'.loading => tab.loading /\ c.op \notin {"load", "again"}
       /\ ~(Mobile /\ c.op = "load") => tab'.shown = tab.shown
       /\ tab' = tab \/ c.op = "sync" \/ tab'.failed
  <2>1. CASE c.op \in ListingFavorites
    BY <1>3, <1>9, <2>1
  <2>2. CASE c.op = "remove"
    <3>1. tab' = [tab EXCEPT !.removing = 0, !.failed = TRUE]
      BY <1>3, <2>2 DEF ListingFavorites
    <3>2. /\ tab' \in TabType /\ tab'.shown = tab.shown /\ tab'.loading = tab.loading /\ tab'.failed
      BY <1>1, <3>1 DEF TabType
    <3> QED
      BY <1>1, <2>2, <3>2 DEF TabFits
  <2>3. CASE c.op \notin ListingFavorites \cup {"remove"}
    <3>1. tab' = tab /\ c.op \notin {"load", "again"}
      BY <1>3, <2>3 DEF ListingFavorites
    <3> QED
      BY <1>1, <3>1 DEF TabFits
  <2> QED
    BY <2>1, <2>2, <2>3
<1>11. TabFits'
  BY <1>3, <1>10 DEF TabFits, Favorite
<1>12. adding' \in WindowType /\ (c \in AddKind \/ adding'.saving = adding.saving)
  <2>1. CASE c.op = "add"
    <3>1. adding' = [adding EXCEPT !.saving = FALSE] /\ c \in AddKind
      BY <1>2, <1>3, <2>1 DEF AddKind
    <3> QED
      BY <1>1, <3>1 DEF WindowType
  <2>2. CASE c.op = "search"
    <3>1. adding' = [adding EXCEPT !.offered = FALSE]
      BY <1>3, <2>2
    <3> QED
      BY <1>1, <3>1 DEF WindowType
  <2>3. CASE c.op \notin {"add", "search"}
    <3>1. adding' = WindowAfter(c)
      BY <1>3, <2>3
    <3> QED
      BY <1>9, <3>1
  <2> QED
    BY <2>1, <2>2, <2>3
<1>13. Showing' => Showing /\ tab'.shown = tab.shown
  <2> SUFFICES ASSUME Showing' PROVE Showing /\ tab'.shown = tab.shown
    OBVIOUS
  <2>1. Clean /\ ~(Mobile /\ c.op = "load") /\ (Web => ~tab'.failed)
    BY <1>8 DEF Showing, Web
  <2>2. Web => tab' = tab
    BY <1>2, <1>10, <2>1 DEF PlaceCallFits
  <2> QED
    BY <1>10, <2>1, <2>2 DEF Showing, Web
<1>14. favMemory'.seen <= favorites.others /\ (favMemory'.read => favMemory.read)
  BY <1>1, <1>4, <1>7
<1> QED
  BY <1>3, <1>7, <1>8, <1>10, <1>11, <1>12, <1>13, <1>14

\* A call or an answer is lost.
LEMMA PlacesLoss ==
  ASSUME FavParts, UNCHANGED client,
         \/ \E i \in DOMAIN sent : FavoriteCallLost(i)
         \/ \E i \in DOMAIN answers : FavoriteAnswerLost(i)
  PROVE  FavParts'
<1>1. /\ PlaceCalls /\ PlacesSaved /\ LonelyReads /\ FavKnown /\ WebLoads /\ OneAdding
      /\ sent \in Seq(FavCall) /\ answers \in Seq(FavAnswer)
      /\ favorites \in SavedType /\ favMemory \in FavMemoryType
  BY DEF FavParts, FavTyped, PlacesSaved, PlaceCalls
<1>2. ASSUME NEW i \in DOMAIN sent, FavoriteCallLost(i) PROVE FavParts'
  <2>1. PICK c : c = sent[i]
    OBVIOUS
  <2>2. /\ sent' = RemoveAt(sent, i) \o <<>> /\ answers' = answers /\ GivesUpFavorite(c, FALSE)
    BY <1>2, <2>1 DEF FavoriteCallLost, LoseCall
  <2>3. /\ Passes(FavCall, FavAnswer, {c}, {}, {}, {}) /\ sent' = RemoveAt(sent, i)
        /\ c \in FavCall /\ c \in Range(sent)
    BY <1>1, <2>1, <2>2, Missed
  <2>4. c \in Calls
    BY <2>3, CallsAre
  <2>5. /\ UNCHANGED favorites
        /\ favMemory' \in FavMemoryType /\ favMemory'.acts = favMemory.acts
        /\ favMemory'.seen <= favorites.others /\ (favMemory'.read => favMemory.read)
        /\ Clean' => Clean
        /\ TabFits' /\ adding' \in WindowType
        /\ c \in AddKind \/ adding'.saving = adding.saving
        /\ Showing' => Showing /\ tab'.shown = tab.shown
        /\ tab'.loading => tab.loading /\ c.op \notin {"load", "again"}
    BY <2>2, <2>4, PlacesGivenUp
  <2>6. PlacesSaved'
    BY <1>1, <2>5 DEF PlacesSaved, SavedType, Favorite
  <2>7. PlaceCalls'
    <3>1. /\ \A d \in {} : PlaceCallFits(d)'
          /\ \A a \in {} : PlaceAnswerFits(a)' /\ a.call \in Calls
          /\ favorites.made <= favorites'.made /\ favorites.others <= favorites'.others
          /\ favMemory.acts <= favMemory'.acts
      BY <1>1, <2>5 DEF FavMemoryType, SavedType
    <3> QED
      BY <1>1, <2>3, <2>6, <3>1, CallsStayFit
  <2>8. LonelyReads'
    <3>1. \A e \in {} :
           /\ e.op \notin ChangingFavorites
           /\ e.op = "search" \/ (e.alone => \A d \in Calls' : d \in {} \/ d.op = "search")
      OBVIOUS
    <3> QED
      BY <1>1, <2>3, <2>5, <3>1, StayLonely
  <2>9. FavKnown'
    <3>1. \A b \in {} \cup {} : ~IsAdded(b) /\ ~IsRemoved(b)
      OBVIOUS
    <3>2. \A d \in {} : d.op # "remove" \/ (Clean => d.id \notin Adds)
      OBVIOUS
    <3>3. RemovedOnce => RemovedOnce'
      BY <2>2 DEF RemovedOnce
    <3>4. favorites'.ids = favorites.ids
      BY <2>5
    <3> QED
      BY <1>1, <2>3, <2>5, <3>1, <3>2, <3>3, <3>4, KnownStays
  <2>10. WebLoads'
    <3>1. Web /\ tab'.loading =>
             \/ tab.loading /\ \A d : d \in {c} \/ (\E b \in {} : d = b.call) =>
                                        d.op \notin {"load", "again"} \/ \E b \in {} : d = b.call
             \/ \E d \in {} : d.op \in {"load", "again"}
      BY <2>5
    <3>2. \A b \in {} : b.call \in Calls
      OBVIOUS
    <3> QED
      BY <1>1, <2>3, <2>5, <3>1, <3>2, StillLoads
  <2>11. OneAdding'
    <3>1. adding'.saving = adding.saving \/ sent[i] \in AddKind
      BY <2>1, <2>5
    <3> QED
      BY <1>1, <2>2, <2>3, <3>1, AddingMissed
  <2> QED
    BY <2>5, <2>6, <2>7, <2>8, <2>9, <2>10, <2>11 DEF FavParts, FavTyped
<1>3. ASSUME NEW i \in DOMAIN answers, FavoriteAnswerLost(i) PROVE FavParts'
  <2>1. PICK a : a = answers[i]
    OBVIOUS
  <2>1a. PICK made \in BOOLEAN : made <=> a.call.op \in ChangingFavorites
    OBVIOUS
  <2>1b. made = (a.call.op \in ChangingFavorites)
    BY <2>1a
  <2>2. /\ sent' = sent \o <<>> /\ answers' = RemoveAt(answers, i) /\ GivesUpFavorite(a.call, made)
    BY <1>3, <2>1, <2>1b DEF FavoriteAnswerLost, LoseAnswer
  <2>3. Received(i) \/ (sent' = sent /\ answers' = RemoveAt(answers, i))
    BY <1>1, <2>2, ConcatEmptySeq
  <2>4. /\ Passes(FavCall, FavAnswer, {}, Range(<<>>), {answers[i]}, {})
        /\ a \in FavAnswer /\ a \in Range(answers)
    <3>1. <<>> \in Seq(FavCall)
      BY Nothing
    <3> QED
      BY <1>1, <2>1, <2>2, <3>1, Heard
  <2>5. Passes(FavCall, FavAnswer, {}, {}, {a}, {})
    BY <2>1, <2>4, Nothing
  <2>6. a.call \in Calls /\ a.call \in FavCall
    BY <2>4, CallsAre DEF FavAnswer
  <2>7. /\ UNCHANGED favorites
        /\ favMemory' \in FavMemoryType /\ favMemory'.acts = favMemory.acts
        /\ favMemory'.seen <= favorites.others /\ (favMemory'.read => favMemory.read)
        /\ Clean' => Clean /\ ~made
        /\ TabFits' /\ adding' \in WindowType
        /\ a.call \in AddKind \/ adding'.saving = adding.saving
        /\ Showing' => Showing /\ tab'.shown = tab.shown
        /\ tab'.loading => tab.loading /\ a.call.op \notin {"load", "again"}
    BY <2>2, <2>6, PlacesGivenUp
  <2>8. FavKnown'
    <3>1. CASE made
      BY <2>7, <3>1 DEF FavKnown, ChangesKnown, ListKnown, Showing
    <3>2. CASE ~made
      <4>1. \A b \in {a} \cup {} : ~IsAdded(b) /\ ~IsRemoved(b)
        BY <3>2, <2>1a DEF IsAdded, IsRemoved, ChangingFavorites
      <4>2. \A d \in {} : d.op # "remove" \/ (Clean => d.id \notin Adds)
        OBVIOUS
      <4>3. RemovedOnce => RemovedOnce'
        BY <1>1, <2>2, RemovedFewer
      <4>4. favorites'.ids = favorites.ids
        BY <2>7
      <4> QED
        BY <1>1, <2>5, <2>7, <4>1, <4>2, <4>3, <4>4, KnownStays
    <3> QED
      BY <3>1, <3>2
  <2>9. WebLoads'
    <3>1. Web /\ tab'.loading =>
             \/ tab.loading /\ \A d : d \in {} \/ (\E b \in {a} : d = b.call) =>
                                        d.op \notin {"load", "again"} \/ \E b \in {} : d = b.call
             \/ \E d \in {} : d.op \in {"load", "again"}
      BY <2>7
    <3>2. \A b \in {} : b.call \in Calls
      OBVIOUS
    <3> QED
      BY <1>1, <2>5, <2>7, <3>1, <3>2, StillLoads
  <2>10. OneAdding'
    <3>1. /\ sent' = sent
          /\ adding'.saving = adding.saving \/ (answers[i].call \in AddKind /\ sent' = sent)
      BY <2>1, <2>3, <2>7 DEF Received
    <3> QED
      BY <1>1, <2>2, <2>6, <3>1, AddingHeard
  <2>11. \A e \in {} :
         /\ PlaceCallFits(e) /\ e.op \notin ChangingFavorites
         /\ e.op = "search" \/ (e.alone => \A d \in Calls' : d \in {} \/ d.op = "search")
    OBVIOUS
  <2> QED
    BY <2>1, <2>5, <2>7, <2>8, <2>9, <2>10, <2>11, AnswerLeaves
<1> QED
  BY <1>2, <1>3

\* No place is being added.
NoAdds ==
  /\ (\E C : sent \in Seq(C)) /\ (\E A : answers \in Seq(A))
  /\ \A c \in Range(sent) : c.op # "add"
  /\ \A a \in Range(answers) : a.call.op # "add"

\* Calls that add nothing are sent, ...
LEMMA OthersSent ==
  ASSUME NoAdds, NEW D, NEW cs \in Seq(D), \A c \in Range(cs) : c.op # "add", Send(cs)
  PROVE  NoAdds'
<1>1. PICK C : sent \in Seq(C)
  BY DEF NoAdds
<1>2. sent \in Seq(C \cup D) /\ cs \in Seq(C \cup D)
  BY <1>1
<1>3. sent \o cs \in Seq(C \cup D) /\ Range(sent \o cs) = Range(sent) \cup Range(cs)
  BY <1>2, Put
<1>4. sent' = sent \o cs /\ answers' = answers
  BY DEF Send
<1> QED
  BY <1>3, <1>4 DEF NoAdds

\* ... or one of them, ...
LEMMA OtherSent ==
  ASSUME NoAdds, NEW c, c.op # "add", Send(<<c>>)
  PROVE  NoAdds'
<1>1. <<c>> \in Seq({c}) /\ Range(<<c>>) = {c}
  BY Single
<1> QED
  BY <1>1, OthersSent

\* ... and a call is executed, answered or lost.
LEMMA OthersLeft ==
  ASSUME NoAdds,
         \/ \E i \in DOMAIN sent : \E a : a.call = sent[i] /\ Executed(i, a)
         \/ \E i \in DOMAIN sent : LoseCall(i, <<>>)
         \/ \E i \in DOMAIN answers : Received(i) \/ LoseAnswer(i, <<>>)
  PROVE  NoAdds'
<1>1. PICK C : sent \in Seq(C)
  BY DEF NoAdds
<1>2. PICK A : answers \in Seq(A)
  BY DEF NoAdds
<1>3. ASSUME NEW i \in DOMAIN sent
      PROVE  /\ RemoveAt(sent, i) \in Seq(C) /\ Range(RemoveAt(sent, i)) \subseteq Range(sent)
             /\ sent[i] \in Range(sent)
  <2>1. sent[i] \in Range(sent)
    BY DEF Range
  <2> QED
    BY <1>1, <2>1, Taken
<1>4. ASSUME NEW i \in DOMAIN answers
      PROVE  /\ RemoveAt(answers, i) \in Seq(A)
             /\ Range(RemoveAt(answers, i)) \subseteq Range(answers)
  BY <1>2, Taken
<1>5. CASE \E i \in DOMAIN sent : \E a : a.call = sent[i] /\ Executed(i, a)
  <2>0. PICK i \in DOMAIN sent : \E a : a.call = sent[i] /\ Executed(i, a)
    BY <1>5
  <2>1. PICK a : a.call = sent[i] /\ Executed(i, a)
    BY <2>0
  <2>2. sent' = RemoveAt(sent, i) /\ answers' = Append(answers, a)
    BY <2>1 DEF Executed
  <2>3. answers \in Seq(A \cup {a}) /\ <<a>> \in Seq(A \cup {a}) /\ Range(<<a>>) = {a}
    BY <1>2 DEF Range
  <2>4. /\ answers \o <<a>> \in Seq(A \cup {a})
        /\ Range(answers \o <<a>>) = Range(answers) \cup {a}
    <3>1. /\ answers \o <<a>> \in Seq(A \cup {a})
          /\ Range(answers \o <<a>>) = Range(answers) \cup Range(<<a>>)
      BY <2>3, Put
    <3> QED
      BY <2>3, <3>1
  <2>5. answers' = answers \o <<a>>
    BY <2>2, <2>3, AppendIsConcat
  <2>6. a.call.op # "add"
    BY <1>3, <2>1 DEF NoAdds
  <2>7. /\ sent' \in Seq(C) /\ Range(sent') \subseteq Range(sent)
        /\ answers' \in Seq(A \cup {a}) /\ Range(answers') = Range(answers) \cup {a}
    BY <1>3, <2>2, <2>4, <2>5
  <2> QED
    BY <2>6, <2>7 DEF NoAdds
<1>6. CASE \E i \in DOMAIN sent : LoseCall(i, <<>>)
  <2>1. PICK i \in DOMAIN sent : LoseCall(i, <<>>)
    BY <1>6
  <2>2. sent' = RemoveAt(sent, i) \o <<>> /\ answers' = answers
    BY <2>1 DEF LoseCall
  <2>3. sent' = RemoveAt(sent, i)
    BY <1>3, <2>2, ConcatEmptySeq
  <2> QED
    BY <1>3, <2>2, <2>3 DEF NoAdds
<1>7. CASE \E i \in DOMAIN answers : Received(i) \/ LoseAnswer(i, <<>>)
  <2>1. PICK i \in DOMAIN answers : Received(i) \/ LoseAnswer(i, <<>>)
    BY <1>7
  <2>2. answers' = RemoveAt(answers, i) /\ sent' = sent
    BY <1>1, <2>1, ConcatEmptySeq DEF Received, LoseAnswer
  <2> QED
    BY <1>4, <2>2 DEF NoAdds
<1> QED
  BY <1>5, <1>6, <1>7

\* The list of notifications adds no places.
LEMMA NotesAddNothing ==
  ASSUME NoAdds, NoteNext
  PROVE  NoAdds'
<1>1. CASE OpenList \/ Return \/ Poll \/ PullToRefresh \/ LoadMore
  <2>1. \E c : c.op # "add" /\ Send(<<c>>)
    BY <1>1 DEF OpenList, Return, Poll, PullToRefresh, LoadMore, Read
  <2> QED
    BY <2>1, OtherSent
<1>2. CASE GoHome
  <2>1. PICK c : c = Read("count", 0)
    OBVIOUS
  <2>2. c.op # "add"
    BY <2>1 DEF Read
  <2>3. Send(<<c>>) \/ Send(<<>>)
    BY <1>2, <2>1 DEF GoHome
  <2>4. <<>> \in Seq({c}) /\ Range(<<>>) = {}
    BY Nothing
  <2> QED
    BY <2>2, <2>3, <2>4, OtherSent, OthersSent
<1>3. CASE RenewToken
  <2>1. PICK c, d, e : c = Read("initial", 0) /\ d = Read("refresh", 0) /\ e = Read("count", 0)
    OBVIOUS
  <2>2. c.op # "add" /\ d.op # "add" /\ e.op # "add"
    BY <2>1 DEF Read
  <2>3. PICK s, t : /\ s = <<c>> \/ s = <<>>
                    /\ t = <<d>> \/ t = <<>>
                    /\ Send(s \o t \o <<e>>)
    BY <1>3, <2>1 DEF RenewToken
  <2>4. PICK S : S = {c, d, e}
    OBVIOUS
  <2>5. /\ s \in Seq(S) /\ Range(s) \subseteq S /\ t \in Seq(S) /\ Range(t) \subseteq S
        /\ <<e>> \in Seq(S) /\ Range(<<e>>) \subseteq S
    <3>1. c \in S /\ d \in S /\ e \in S
      BY <2>4
    <3>2. <<>> \in Seq(S) /\ Range(<<>>) = {}
      BY Nothing
    <3>3. <<c>> \in Seq(S) /\ Range(<<c>>) = {c}
      BY <3>1, Single
    <3>4. <<d>> \in Seq(S) /\ Range(<<d>>) = {d}
      BY <3>1, Single
    <3>5. <<e>> \in Seq(S) /\ Range(<<e>>) = {e}
      BY <3>1, Single
    <3>6. s \in Seq(S) /\ Range(s) \subseteq S
      BY <2>3, <3>1, <3>2, <3>3
    <3>7. t \in Seq(S) /\ Range(t) \subseteq S
      BY <2>3, <3>1, <3>2, <3>4
    <3> QED
      BY <3>1, <3>5, <3>6, <3>7
  <2>6. PICK u : u = s \o t
    OBVIOUS
  <2>7. u \in Seq(S) /\ Range(u) \subseteq S
    <3>1. s \o t \in Seq(S) /\ Range(s \o t) = Range(s) \cup Range(t)
      BY <2>5, Put
    <3> QED
      BY <2>5, <2>6, <3>1
  <2>8. PICK v : v = u \o <<e>>
    OBVIOUS
  <2>9. v \in Seq(S) /\ Range(v) \subseteq S
    <3>1. u \o <<e>> \in Seq(S) /\ Range(u \o <<e>>) = Range(u) \cup Range(<<e>>)
      BY <2>5, <2>7, Put
    <3> QED
      BY <2>5, <2>7, <2>8, <3>1
  <2>10. Send(v) /\ \A x \in Range(v) : x.op # "add"
    BY <2>2, <2>3, <2>4, <2>6, <2>8, <2>9
  <2> QED
    BY <2>9, <2>10, OthersSent
<1>4. CASE \/ \E n \in Note : MarkRead(n) \/ MarkAndLeave(n) \/ DeleteOne(n)
           \/ MarkAllRead \/ DeleteAll
  <2>1. \E c : c.op # "add" /\ Send(<<c>>)
    BY <1>4 DEF MarkRead, MarkAndLeave, DeleteOne, MarkAllRead, DeleteAll, Does, Act
  <2> QED
    BY <2>1, OtherSent
<1>5. CASE Notify
  BY <1>5 DEF Notify, NoAdds, exchange
<1>6. CASE \E i \in DOMAIN sent : Execute(i) \/ CallLost(i)
  <2>1. PICK i \in DOMAIN sent : Execute(i) \/ CallLost(i)
    BY <1>6
  <2>2. PICK a : a = Answer(sent[i])
    OBVIOUS
  <2>3. a.call = sent[i]
    BY <2>2 DEF Answer
  <2>4. Executed(i, a) \/ LoseCall(i, <<>>)
    BY <2>1, <2>2 DEF Execute, CallLost
  <2> QED
    BY <2>3, <2>4, OthersLeft
<1>7. CASE \E i \in DOMAIN answers :
             PageAnswer(i) \/ CountAnswer(i) \/ NothingToDo(i) \/ Refused(i) \/ AnswerLost(i)
  <2>1. PICK i \in DOMAIN answers : Received(i) \/ LoseAnswer(i, <<>>)
    BY <1>7 DEF PageAnswer, CountAnswer, NothingToDo, Refused, AnswerLost
  <2> QED
    BY <2>1, OthersLeft
<1> QED
  BY <1>1, <1>2, <1>3, <1>4, <1>5, <1>6, <1>7 DEF NoteNext

\* On the other pages no favorite place is read, and no place is added.
FavInv ==
  /\ screen \in {"notifications", "invitations", "push", "tickets", "favorites", "profile"}
  /\ IF screen = "favorites" THEN FavParts ELSE ~favMemory.read
  /\ screen \in {"notifications", "tickets"} => NoAdds

\* Nothing happens.
LEMMA PlacesRest ==
  ASSUME FavParts, UNCHANGED <<client, exchange, favorites, tab, adding, favMemory>>
  PROVE  FavParts'
<1>4. sent' = sent /\ answers' = answers /\ Calls' = Calls
  BY DEF exchange, Calls
<1>5. FavTyped'
  BY <1>4 DEF FavParts, FavTyped, PlaceCalls, PlaceCallFits, PlaceAnswerFits, PlacesSaved,
     TabFits, SavedType, TabType, FavMemoryType, Web, IsAdded, Favorite, WindowType
<1>6. LonelyReads'
  BY <1>4 DEF FavParts, LonelyReads, Lonely
<1>7. Clean' = Clean /\ Adds' = Adds /\ Rems' = Rems /\ Showing' = Showing
  BY <1>4 DEF Clean, Adds, Rems, Showing, Web, Favorite
<1>8. ChangesKnown'
  BY <1>4, <1>7 DEF FavParts, FavKnown, ChangesKnown, RemovedOnce
<1>9. ListKnown'
  BY <1>4, <1>7 DEF FavParts, FavKnown, ListKnown, Copies, Favorite
<1>10. WebLoads'
  BY <1>4 DEF FavParts, WebLoads, UnderWay, Web
<1>11. OneAdding'
  BY <1>4 DEF FavParts, OneAdding, OneOf, NoneOf, AddKind
<1> QED
  BY <1>5, <1>6, <1>8, <1>9, <1>10, <1>11 DEF FavParts, FavKnown

\* It is so at first.
LEMMA PlacesAtFirst ==
  ASSUME Init, screen = "favorites"
  PROVE  FavParts
<1>1. /\ sent = <<>> /\ answers = <<>> /\ adding = EmptyWindow
      /\ tab = [shown |-> Copies({}), loading |-> TRUE, refreshing |-> FALSE, failed |-> FALSE,
                removing |-> 0]
      /\ favMemory = [read |-> FALSE, crossed |-> FALSE, seen |-> 0, acts |-> 0]
  BY DEF Init, FavoriteInit
<1>2. PICK n \in 0..MaxFavorites :
        favorites = [ids |-> Favorite \cap 1..n, made |-> n, others |-> 0]
  BY DEF Init, FavoriteInit
<1>3. MaxFavorites \in Nat /\ n \in Nat /\ n <= MaxFavorites
  BY <1>2, FavoriteAssumption
<1>4. Calls = {} /\ Range(sent) = {} /\ Range(answers) = {}
  BY <1>1 DEF Calls, Range
<1>5. PlaceCalls
  <2>1. sent \in Seq(FavCall) /\ answers \in Seq(FavAnswer)
    BY <1>1, Nothing
  <2> QED
    BY <1>4, <2>1 DEF PlaceCalls
<1>6. PlacesSaved
  <2>1. PICK ids : ids = Favorite \cap 1..n
    OBVIOUS
  <2>2. /\ favorites = [ids |-> ids, made |-> n, others |-> 0]
        /\ ids \in SUBSET Favorite /\ ids \in SUBSET (1..n) /\ \A f \in ids : f <= n
    BY <1>2, <1>3, <2>1
  <2>3. IsFiniteSet(1..n) /\ Cardinality(1..n) = n
    BY <1>3, FS_Interval
  <2>4. IsFiniteSet(ids) /\ Cardinality(ids) <= n
    BY <2>2, <2>3, FS_Subset
  <2>5. Cardinality(ids) \in Nat
    BY <2>4, FS_CardinalityType
  <2>6. Cardinality(ids) <= MaxFavorites
    BY <1>3, <2>4, <2>5
  <2>7. favorites \in SavedType
    BY <1>3, <2>2 DEF SavedType
  <2> QED
    BY <1>1, <2>2, <2>6, <2>7 DEF PlacesSaved, FavMemoryType
<1>7. TabFits
  <2>1. PICK none : none = Copies({})
    OBVIOUS
  <2>2. none \in [Favorite -> Nat] /\ \A f \in Favorite : none[f] = 0
    BY <2>1 DEF Copies
  <2> QED
    BY <1>1, <2>1, <2>2 DEF TabFits, TabType
<1>8. adding \in WindowType
  BY <1>1 DEF EmptyWindow, WindowType
<1>9. LonelyReads
  BY <1>4 DEF LonelyReads
<1>10. FavKnown /\ WebLoads
  BY <1>1 DEF FavKnown, ChangesKnown, ListKnown, WebLoads, Showing, Clean
<1>11. OneAdding
  BY <1>1 DEF OneAdding, OneOf, NoneOf
<1> QED
  BY <1>5, <1>6, <1>7, <1>8, <1>9, <1>10, <1>11 DEF FavParts, FavTyped

\* The invariant of the favorite places.
LEMMA FavoriteInvariant == Spec => []FavInv
<1>1. Init => FavInv
  <2> SUFFICES ASSUME Init PROVE FavInv
    OBVIOUS
  <2>1. screen \in {"notifications", "invitations", "push", "tickets", "favorites", "profile"}
    BY DEF Init
  <2>2. ~favMemory.read /\ sent = <<>> /\ answers = <<>>
    BY DEF Init, FavoriteInit
  <2>3. NoAdds
    <3>1. /\ sent \in Seq({}) /\ Range(sent) = {}
          /\ answers \in Seq({}) /\ Range(answers) = {}
      BY <2>2, Nothing
    <3> QED
      BY <3>1 DEF NoAdds
  <2> QED
    BY <2>1, <2>2, <2>3, PlacesAtFirst DEF FavInv
<1>2. FavInv /\ [Next]_vars => FavInv'
  <2> SUFFICES ASSUME FavInv, [Next]_vars PROVE FavInv'
    OBVIOUS
  <2>1. CASE screen = "favorites" /\ FavoriteNext /\ UNCHANGED <<client, screen>>
    <3>1. FavParts /\ UNCHANGED client
      BY <2>1 DEF FavInv
    <3>2. FavParts'
      BY <2>1, <3>1, AddingStep, AskStep, PlacesServed, OtherPlaces, PlacesRead, AnswerPasses,
         PlaceAdded, PlaceRemoved, PlacesLoss DEF FavoriteNext
    <3> QED
      BY <2>1, <3>2 DEF FavInv
  <2>2. CASE screen = "notifications" /\ NoteNext /\ UNCHANGED favoriteVars /\ UNCHANGED screen
    <3>1. NoAdds'
      BY <2>2, NotesAddNothing DEF FavInv
    <3> QED
      BY <2>2, <3>1 DEF FavInv, favoriteVars
  <2>3. CASE screen = "tickets" /\ TicketNext /\ UNCHANGED favoriteVars /\ UNCHANGED screen
    <3>1. UNCHANGED <<sent, answers>>
      BY <2>3 DEF TicketNext
    <3>2. NoAdds'
      BY <2>3, <3>1 DEF FavInv, NoAdds
    <3> QED
      BY <2>3, <3>2 DEF FavInv, favoriteVars
  <2>4. CASE /\ screen \in {"invitations", "push", "profile"} /\ UNCHANGED favoriteVars
             /\ UNCHANGED screen
    BY <2>4 DEF FavInv, favoriteVars
  <2>5. CASE UNCHANGED vars
    <3>1. UNCHANGED <<client, screen, exchange, favorites, tab, adding, favMemory>>
      BY <2>5 DEF vars, favoriteVars
    <3>2. FavParts => FavParts'
      BY <3>1, PlacesRest
    <3>3. NoAdds => NoAdds'
      BY <3>1 DEF NoAdds, exchange
    <3> QED
      BY <3>1, <3>2, <3>3 DEF FavInv
  <2> QED
    BY <2>1, <2>2, <2>3, <2>4, <2>5 DEF Next
<1> QED
  BY <1>1, <1>2, PTL DEF Spec

\* As many places are listed as are saved.
LEMMA ListedOnce ==
  ASSUME PlacesSaved, tab.shown = Copies(favorites.ids)
  PROVE  Listed <= MaxFavorites
<1>1. PICK ids : ids = favorites.ids
  OBVIOUS
<1>2. ids \subseteq Favorite /\ IsFiniteSet(ids) /\ Cardinality(ids) <= MaxFavorites
  BY <1>1, PlacesCount DEF PlacesSaved, SavedType
<1>3. \A f \in Favorite : tab.shown[f] = IF f \in ids THEN 1 ELSE 0
  BY <1>1 DEF Copies
<1>4. PICK rows : rows = UNION {{f} \X (1..tab.shown[f]) : f \in Favorite}
  OBVIOUS
<1>5. \A r : r \in rows <=> \E f \in Favorite : r \in {f} \X (1..tab.shown[f])
  BY <1>4
<1>6. \A f \in Favorite : {f} \X (1..tab.shown[f]) = IF f \in ids THEN {<<f, 1>>} ELSE {}
  <2> SUFFICES ASSUME NEW f \in Favorite
               PROVE  {f} \X (1..tab.shown[f]) = IF f \in ids THEN {<<f, 1>>} ELSE {}
    OBVIOUS
  <2>1. CASE f \in ids
    <3>1. 1..tab.shown[f] = {1}
      BY <1>3, <2>1
    <3> QED
      BY <2>1, <3>1
  <2>2. CASE f \notin ids
    <3>1. 1..tab.shown[f] = {}
      BY <1>3, <2>2
    <3> QED
      BY <2>2, <3>1
  <2> QED
    BY <2>1, <2>2
<1>7. \A r : r \in rows <=> \E f \in ids : r = <<f, 1>>
  BY <1>2, <1>5, <1>6
<1>8. PICK line : line = [f \in ids |-> <<f, 1>>]
  OBVIOUS
<1>9. line \in [ids -> rows] /\ \A f \in ids : line[f] = <<f, 1>>
  BY <1>7, <1>8
<1>10. \A f, g \in ids : line[f] = line[g] => f = g
  BY <1>9
<1>11. \A r \in rows : \E f \in ids : line[f] = r
  BY <1>7, <1>9
<1>12. ExistsBijection(ids, rows)
  BY <1>9, <1>10, <1>11 DEF ExistsBijection, Bijection, Injection, Surjection, IsInjective
<1>13. Cardinality(rows) = Cardinality(ids)
  BY <1>2, <1>12, FS_Bijection
<1> QED
  BY <1>2, <1>4, <1>13 DEF Listed

\* The favorite places on the screen are the saved ones, each once and not more than a
\* user may have, once nothing is under way, and two places are never saved at the same
\* time; for any number of places, calls and changes, and left out is what
\* FavoritesAreShown leaves out.
THEOREM PlacesAreListed == Spec => []FavoritesAreShown
<1>1. FavInv /\ PushInv /\ InviteInv /\ ProfInv => FavoritesAreShown
  <2> SUFFICES ASSUME FavInv, PushInv, InviteInv, ProfInv PROVE FavoritesAreShown
    OBVIOUS
  <2>1. CASE screen = "favorites"
    <3>1. FavParts
      BY <2>1 DEF FavInv
    <3>2. ASSUME Quiet, favMemory.read, ~favMemory.crossed, favMemory.seen = favorites.others,
                 Web => ~tab.failed
          PROVE  tab.shown = Copies(favorites.ids) /\ Listed <= MaxFavorites
      <4>1. Calls = {} /\ Range(sent) = {} /\ Range(answers) = {}
        BY <3>2 DEF Quiet, Calls, Range
      <4>2. Adds = {} /\ Rems = {}
        BY <4>1 DEF Adds, Rems
      <4>3. ~UnderWay({"load", "again"})
        BY <4>1 DEF UnderWay
      <4>4. Showing
        BY <3>1, <3>2, <4>3 DEF FavParts, WebLoads, Showing, Clean
      <4>5. tab.shown = Copies((favorites.ids \ Adds) \cup Rems)
        BY <3>1, <4>4 DEF FavParts, FavKnown, ListKnown
      <4>6. (favorites.ids \ Adds) \cup Rems = favorites.ids
        BY <4>2
      <4>7. tab.shown = Copies(favorites.ids)
        BY <4>5, <4>6
      <4>8. PlacesSaved
        BY <3>1 DEF FavParts, FavTyped
      <4> QED
        BY <4>7, <4>8, ListedOnce
    <3>3. OneOf(AddKind) /\ PlaceCalls
      BY <3>1 DEF FavParts, FavTyped, OneAdding
    <3>4. /\ \A i \in DOMAIN sent : sent[i] \in FavCall
          /\ \A j \in DOMAIN answers : answers[j].call \in FavCall
      <4>1. Range(sent) \subseteq FavCall /\ Range(answers) \subseteq FavAnswer
        BY <3>3 DEF PlaceCalls, Range
      <4> QED
        BY <4>1 DEF FavAnswer, Range
    <3>5. \A c \in FavCall : c.op = "add" => c \in AddKind
      BY DEF AddKind
    <3>6. /\ ~\E i \in DOMAIN sent, j \in DOMAIN answers :
                sent[i].op = "add" /\ answers[j].call.op = "add"
          /\ \A i, j \in DOMAIN sent : sent[i].op = "add" /\ sent[j].op = "add" => i = j
      BY <3>3, <3>4, <3>5 DEF OneOf
    <3> QED
      BY <3>2, <3>6 DEF FavoritesAreShown
  <2>2. CASE screen # "favorites"
    <3>1. ~favMemory.read
      BY <2>2 DEF FavInv
    <3>2. /\ \A i \in DOMAIN sent : sent[i].op # "add"
          /\ \A j \in DOMAIN answers : answers[j].call.op # "add"
      <4>1. CASE screen = "push"
        <5>1. PushTyped
          BY <4>1 DEF PushInv
        <5> QED
          <6>1. Calls \subseteq PushCall
            BY <5>1, UnderWayAre
          <6>2. \A c \in Calls : c.op # "add"
            BY <6>1 DEF PushCall
          <6> QED
            BY <6>2 DEF Calls, Range
      <4>2. CASE screen = "invitations"
        <5>1. sent \in Seq(InviteCall) /\ answers \in Seq(InviteAnswer)
          BY <4>2 DEF InviteInv, InviteParts, InviteTyped
        <5>2. /\ \A i \in DOMAIN sent : sent[i] \in InviteCall
              /\ \A j \in DOMAIN answers : answers[j].call \in InviteCall
          <6>1. Range(sent) \subseteq InviteCall /\ Range(answers) \subseteq InviteAnswer
            BY <5>1 DEF Range
          <6> QED
            BY <6>1 DEF InviteAnswer, Range
        <5> QED
          BY <5>2 DEF InviteCall, Answering
      <4>3. CASE screen = "profile"
        <5>1. sent \in Seq(ProfCall) /\ answers \in Seq(ProfAnswer)
          BY <4>3 DEF ProfInv, ProfParts, ProfCalls, ProfTyped
        <5>2. /\ \A i \in DOMAIN sent : sent[i] \in ProfCall
              /\ \A j \in DOMAIN answers : answers[j].call \in ProfCall
          <6>1. Range(sent) \subseteq ProfCall /\ Range(answers) \subseteq ProfAnswer
            BY <5>1 DEF Range
          <6> QED
            BY <6>1 DEF ProfAnswer, Range
        <5> QED
          BY <5>2 DEF ProfCall, Saving
      <4>4. CASE screen \in {"notifications", "tickets"}
        BY <4>4 DEF FavInv, NoAdds, Range
      <4> QED
        BY <2>2, <4>1, <4>2, <4>3, <4>4 DEF FavInv
    <3> QED
      BY <3>1, <3>2 DEF FavoritesAreShown
  <2> QED
    BY <2>1, <2>2
<1> QED
  BY <1>1, FavoriteInvariant, PushInvariant, InviteInvariant, ProfileInvariant, PTL
=============================================================================
