--------------------------- MODULE ChatPanelProofs ---------------------------
(***************************************************************************)
(* Theorems about the panel's conversation, for any number of turns, of    *)
(* resets and of events.                                                   *)
(***************************************************************************)
EXTENDS ChatPanel, FiniteSetTheorems, SequenceTheorems, WellFoundedInduction, TLAPS

-----------------------------------------------------------------------------
\* Types

Kinds == {"user", "status", "result", "assistant", "error", "stopped"}
Items == [kind: Kinds, turn: Turns]
Ids == Turns \cup {None}
Conversation == [id: Ids, items: Seq(Items)]
Rendered == [conversation: Conversation, running: BOOLEAN, unavailable: BOOLEAN]
Ends == {"answered", "failed", "stopped", "unavailable", "gone", "signed out", "forgotten", Left}
Lasts == {"none", "conversation", "status", "result", "message", "error", "unavailable"}
Stream ==
  [at: {"none"} \cup Open \cup Ends, aborted: BOOLEAN, sawError: BOOLEAN, last: Lasts,
   statuses: Nat, id: Ids, served: Ids, home: Nat]

TypesFit ==
  /\ conversation \in Conversation /\ shown \in Rendered
  /\ running \in BOOLEAN /\ unavailable \in BOOLEAN /\ signedIn \in BOOLEAN
  /\ turnRef \in Ids /\ era \in Nat
  /\ streams \in [Turns -> Stream]

-----------------------------------------------------------------------------
\* The inductive invariant

\* Turns start one after the other, and the one that runs is the last of them.
OneRuns ==
  /\ \E n \in 0..MaxTurns : Started = 1..n
  /\ running <=> turnRef # None
  /\ \A t \in Turns : streams[t].at \in Open /\ ~streams[t].aborted => t = turnRef
  /\ turnRef # None => /\ streams[turnRef].at \in Open /\ streams[turnRef].home = era
                       /\ Started = 1..turnRef

\* Nothing is of a later era than this one, and ids and items are of their own.
Keeps(c) ==
  /\ \A i \in 1..Len(c.items) : c.items[i].turn \in Of(era)
  /\ c.id # None => c.id \in Of(era)
ContinuesItsOwn(t) == streams[t].id # None => streams[t].id \in Of(streams[t].home)
Homes ==
  /\ \A t \in Started : streams[t].home <= era /\ ContinuesItsOwn(t)
  /\ Keeps(conversation) /\ Keeps(shown.conversation)

\* What a turn of this conversation just ended with is not rendered, nor saved.
EndIsNotSaved(n) ==
  /\ streams[n].at \notin Open /\ streams[n].home = era
  /\ streams[n].at \in {"gone", Left} => conversation.id = None

\* What a click goes by is what there is, and a turn that was not served yet
\* asks for what is there.
RenderedFits ==
  /\ ~shown.running => ~running /\ shown.conversation = conversation
  /\ turnRef # None /\ streams[turnRef].served = None =>
       conversation.id = streams[turnRef].id /\ shown.conversation.id = conversation.id
  /\ ~signedIn => /\ turnRef = None /\ shown.conversation.id = conversation.id
                  /\ \A n \in Turns : Started = 1..n => streams[n].at = "signed out"
  /\ turnRef = None /\ shown.conversation.id # conversation.id =>
       \A n \in Turns : Started = 1..n => EndIsNotSaved(n)

\* The conversations begun anew in this era, and those the server or the page lost.
Begun == {t \in Of(era) : streams[t].id = None /\ streams[t].served # None}
Lost == {t \in Of(era) : streams[t].at \in {"gone", Left}}
BegunFits ==
  Cardinality(Begun) <= Cardinality(Lost) + (IF conversation.id = None THEN 0 ELSE 1)

\* What was read of the running turn is what the conversation shows last.
ReadingFits(t) ==
  /\ streams[t].at \in {"fetching", "refused"} => streams[t].last = "none"
  /\ streams[t].last = "none" => streams[t].served = None
  /\ streams[t].sawError => streams[t].last \in {"error", "unavailable"}
  /\ streams[t].last = "message" => LastKind(conversation) = "assistant"
  /\ streams[t].last = "error" => LastKind(conversation) = "error"
  /\ streams[t].last = "unavailable" => unavailable

NoStatus(c) == \A i \in 1..Len(c.items) : c.items[i].kind # "status"
Ended(n) ==
  /\ streams[n].at \notin Open
  /\ streams[n].at = "answered" => LastKind(conversation) \in {"assistant", "error"}
  /\ streams[n].at \in {"failed", "gone"} => LastKind(conversation) = "error"
  /\ streams[n].at = "stopped" => LastKind(conversation) = "stopped"
  /\ streams[n].at = "unavailable" => unavailable
EndFits ==
  /\ turnRef # None => conversation.items # <<>> /\ ReadingFits(turnRef)
  /\ turnRef = None => NoStatus(conversation)
  /\ turnRef = None /\ conversation.items # <<>> =>
       \A n \in Turns : Started = 1..n => Ended(n)

PanelInv == TypesFit /\ OneRuns /\ Homes /\ RenderedFits /\ BegunFits /\ EndFits

-----------------------------------------------------------------------------
\* Numbers and sets of turns

LEMMA LeastNat ==
  ASSUME NEW S \in SUBSET Nat, NEW x \in S
  PROVE  \E m \in S : \A n \in S : m <= n
<1> DEFINE R == {ss \in Nat \X Nat : ss[1] < ss[2]}
<1>1. IsWellFoundedOn(R, Nat)
  BY NatLessThanWellFounded, Zenon DEF OpToRel
<1> HIDE DEF R
<1>2. PICK m \in S : \A n \in S : ~(<<n, m>> \in R)
  BY <1>1, WFMin
<1>3. ASSUME NEW n \in S PROVE m <= n
  <2>1. ~(n < m)
    BY <1>2 DEF R
  <2> QED
    BY <2>1
<1> QED
  BY <1>3

LEMMA GreatestNat ==
  ASSUME NEW top \in Nat, NEW S \in SUBSET (1..top), NEW x \in S
  PROVE  \E m \in S : \A n \in S : n <= m
<1> DEFINE T == {top - i : i \in S}
<1>1. T \in SUBSET Nat /\ top - x \in T
  OBVIOUS
<1> HIDE DEF T
<1>2. PICK l \in T : \A k \in T : l <= k
  BY <1>1, LeastNat
<1>3. PICK m \in S : l = top - m
  BY DEF T
<1>4. ASSUME NEW n \in S PROVE n <= m
  <2>1. top - n \in T
    BY DEF T
  <2>2. l <= top - n
    BY <1>2, <2>1
  <2> QED
    BY <1>3, <2>2
<1> QED
  BY <1>4

-----------------------------------------------------------------------------
\* What is kept of the items

\* f[n] is what is kept of the first n items of s.
KeepsBy(s, f) ==
  [n \in 0..Len(s) |-> IF n = 0 THEN <<>>
                       ELSE IF s[n].kind = "status" THEN f[n - 1] ELSE Append(f[n - 1], s[n])]
KeepsTo(s, f, l) ==
  f[0] = <<>> /\ \A n \in 1..l :
    f[n] = IF s[n].kind = "status" THEN f[n - 1] ELSE Append(f[n - 1], s[n])

LEMMA KeptExists ==
  ASSUME NEW s \in Seq(Items), NEW l \in 0..Len(s)
  PROVE  \E f : DOMAIN f = 0..l /\ f = [n \in 0..l |-> f[n]] /\ KeepsTo(s, f, l)
<1> DEFINE P(k) == \E f : DOMAIN f = 0..k /\ f = [n \in 0..k |-> f[n]] /\ KeepsTo(s, f, k)
           S == {k \in 0..Len(s) : ~P(k)}
<1> SUFFICES ASSUME l \in S PROVE FALSE
  OBVIOUS
<1>1. Len(s) \in Nat /\ S \in SUBSET Nat
  BY LenProperties
<1> HIDE DEF P
<1>2. PICK m \in S : \A n \in S : m <= n
  BY <1>1, LeastNat
<1> HIDE DEF S
<1>3. m \in 0..Len(s) /\ ~P(m) /\ \A k \in 0..Len(s) : k < m => P(k)
  BY <1>1, <1>2 DEF S
<1>4. CASE m = 0
  <2> DEFINE f == [n \in 0..0 |-> <<>>]
  <2>1. DOMAIN f = 0..m /\ f = [n \in 0..m |-> f[n]] /\ KeepsTo(s, f, m)
    BY <1>4 DEF KeepsTo
  <2> QED
    BY <1>3, <2>1 DEF P
<1>5. CASE m # 0
  <2>1. m - 1 \in 0..Len(s) /\ m - 1 < m
    BY <1>1, <1>3, <1>5
  <2>2. PICK f : DOMAIN f = 0..(m - 1) /\ KeepsTo(s, f, m - 1)
    BY <1>3, <2>1 DEF P
  <2> DEFINE last == IF s[m].kind = "status" THEN f[m - 1] ELSE Append(f[m - 1], s[m])
             g == [n \in 0..m |-> IF n = m THEN last ELSE f[n]]
  <2>3. g[m] = last /\ \A n \in 0..(m - 1) : g[n] = f[n]
    BY <1>1, <1>3
  <2>4. DOMAIN g = 0..m /\ g = [n \in 0..m |-> g[n]]
    OBVIOUS
  <2> HIDE DEF g
  <2>5. KeepsTo(s, g, m)
    <3>1. g[0] = <<>>
      BY <1>1, <1>3, <1>5, <2>2, <2>3 DEF KeepsTo
    <3>2. ASSUME NEW n \in 1..m
          PROVE  g[n] = IF s[n].kind = "status" THEN g[n - 1] ELSE Append(g[n - 1], s[n])
      <4>1. CASE n = m
        <5>1. g[m - 1] = f[m - 1]
          BY <1>1, <1>3, <1>5, <2>3
        <5> QED
          BY <2>3, <4>1, <5>1
      <4>2. CASE n # m
        <5>1. n \in 1..(m - 1) /\ n \in 0..(m - 1) /\ n - 1 \in 0..(m - 1)
          BY <1>1, <1>3, <4>2
        <5> QED
          BY <2>2, <2>3, <5>1 DEF KeepsTo
      <4> QED
        BY <4>1, <4>2
    <3> QED
      BY <3>1, <3>2 DEF KeepsTo
  <2> QED
    BY <1>3, <2>4, <2>5 DEF P
<1> QED
  BY <1>4, <1>5

LEMMA KeptIsKept ==
  ASSUME NEW s \in Seq(Items)
  PROVE  \E f : KeepsTo(s, f, Len(s)) /\ Kept(s) = f[Len(s)]
<1>1. PICK l \in Nat : l = Len(s)
  BY LenProperties
<1>2. PICK f : DOMAIN f = 0..l /\ f = [n \in 0..l |-> f[n]] /\ KeepsTo(s, f, l)
  BY <1>1, KeptExists
<1>3. f = KeepsBy(s, f)
  <2>1. ASSUME NEW n \in 0..l
        PROVE  f[n] = IF n = 0 THEN <<>>
                      ELSE IF s[n].kind = "status" THEN f[n - 1] ELSE Append(f[n - 1], s[n])
    <3>1. n = 0 \/ n \in 1..l
      OBVIOUS
    <3>2. f[0] = <<>>
      BY <1>2 DEF KeepsTo
    <3>3. ASSUME n \in 1..l
          PROVE  f[n] = IF s[n].kind = "status" THEN f[n - 1] ELSE Append(f[n - 1], s[n])
      BY <1>2, <3>3 DEF KeepsTo
    <3> QED
      BY <3>1, <3>2, <3>3
  <2>2. [n \in 0..l |-> f[n]] = KeepsBy(s, f)
    BY <1>1, <2>1 DEF KeepsBy
  <2> QED
    BY <1>2, <2>2
<1> DEFINE g == CHOOSE h : h = KeepsBy(s, h)
<1>4. g = KeepsBy(s, g)
  BY <1>3
<1>5. Kept(s) = g[Len(s)]
  BY DEF Kept, KeepsBy
<1> HIDE DEF g
<1>6. \A n \in 0..l : g[n] = IF n = 0 THEN <<>>
                             ELSE IF s[n].kind = "status" THEN g[n - 1] ELSE Append(g[n - 1], s[n])
  <2>1. \A n \in 0..l : KeepsBy(s, g)[n] =
            IF n = 0 THEN <<>>
            ELSE IF s[n].kind = "status" THEN g[n - 1] ELSE Append(g[n - 1], s[n])
    BY <1>1 DEF KeepsBy
  <2> QED
    BY <1>4, <2>1
<1>7. KeepsTo(s, g, Len(s))
  BY <1>1, <1>6 DEF KeepsTo
<1> QED
  BY <1>5, <1>7

\* No status line is kept, nothing is made up, and a last line that is none stays the last.
LEMMA KeptFits ==
  ASSUME NEW s \in Seq(Items)
  PROVE  /\ Kept(s) \in Seq(Items)
         /\ \A i \in 1..Len(Kept(s)) :
              Kept(s)[i].kind # "status" /\ \E j \in 1..Len(s) : Kept(s)[i] = s[j]
         /\ s # <<>> /\ s[Len(s)].kind # "status" =>
              Kept(s) # <<>> /\ Kept(s)[Len(Kept(s))] = s[Len(s)]
<1>1. PICK l \in Nat : l = Len(s) /\ \A j \in 1..l : s[j] \in Items
  BY LenProperties, ElementOfSeq
<1>2. PICK f : KeepsTo(s, f, l) /\ Kept(s) = f[l]
  BY <1>1, KeptIsKept
<1> DEFINE Good(r, k) ==
             /\ r \in Seq(Items)
             /\ \A i \in 1..Len(r) : r[i].kind # "status" /\ \E j \in 1..k : r[i] = s[j]
           S == {k \in 0..l : ~Good(f[k], k)}
<1>3. ASSUME NEW k \in 1..l, Good(f[k - 1], k - 1), s[k].kind # "status"
      PROVE  /\ Good(f[k], k) /\ f[k] # <<>> /\ f[k][Len(f[k])] = s[k]
  <2>1. f[k] = Append(f[k - 1], s[k])
    BY <1>2, <1>3 DEF KeepsTo
  <2>2. PICK n \in Nat : n = Len(f[k - 1])
    BY <1>3, LenProperties
  <2>3. /\ f[k] \in Seq(Items) /\ Len(f[k]) = n + 1 /\ f[k][n + 1] = s[k] /\ f[k] # <<>>
        /\ \A i \in 1..n : f[k][i] = f[k - 1][i]
    BY <1>1, <1>3, <2>1, <2>2, AppendProperties
  <2>4. ASSUME NEW i \in 1..Len(f[k])
        PROVE  f[k][i].kind # "status" /\ \E j \in 1..k : f[k][i] = s[j]
    <3>1. CASE i = n + 1
      BY <1>3, <2>3, <3>1
    <3>2. CASE i \in 1..n
      <4>1. f[k - 1][i].kind # "status" /\ \E j \in 1..(k - 1) : f[k - 1][i] = s[j]
        BY <1>3, <2>2, <3>2
      <4>2. 1..(k - 1) \subseteq 1..k
        OBVIOUS
      <4> QED
        BY <2>3, <3>2, <4>1, <4>2
    <3>3. i = n + 1 \/ i \in 1..n
      BY <2>3
    <3> QED
      BY <3>1, <3>2, <3>3
  <2> QED
    BY <2>3, <2>4
<1>4. S = {}
  <2> SUFFICES ASSUME S # {} PROVE FALSE
    OBVIOUS
  <2> HIDE DEF Good
  <2>1. S \in SUBSET Nat
    OBVIOUS
  <2>2. PICK m \in S : \A n \in S : m <= n
    BY <2>1, LeastNat
  <2>3. m \in 0..l /\ ~Good(f[m], m) /\ \A k \in 0..l : k < m => Good(f[k], k)
    BY <2>2
  <2>4. CASE m = 0
    <3>1. f[m] = <<>>
      BY <1>2, <2>4 DEF KeepsTo
    <3>2. Good(<<>>, m)
      BY DEF Good
    <3> QED
      BY <2>3, <3>1, <3>2
  <2>5. CASE m # 0
    <3>1. m \in 1..l /\ Good(f[m - 1], m - 1)
      BY <2>3, <2>5
    <3>2. CASE s[m].kind = "status"
      <4>1. f[m] = f[m - 1]
        BY <1>2, <3>1, <3>2 DEF KeepsTo
      <4>2. 1..(m - 1) \subseteq 1..m
        BY <3>1
      <4>3. Good(f[m - 1], m)
        BY <3>1, <4>2 DEF Good
      <4> QED
        BY <2>3, <4>1, <4>3
    <3>3. CASE s[m].kind # "status"
      BY <1>3, <2>3, <3>1, <3>3
    <3> QED
      BY <3>2, <3>3
  <2> QED
    BY <2>4, <2>5
<1>5. \A k \in 0..l : Good(f[k], k)
  BY <1>4
<1>6. ASSUME s # <<>>, s[l].kind # "status" PROVE f[l] # <<>> /\ f[l][Len(f[l])] = s[l]
  <2>1. l \in 1..l /\ l - 1 \in 0..l
    BY <1>1, <1>6, EmptySeq
  <2> QED
    BY <1>3, <1>5, <1>6, <2>1
<1> QED
  BY <1>1, <1>2, <1>5, <1>6

-----------------------------------------------------------------------------
\* Changes of a conversation

\* Every item of d is one of c or of turn t.
DrawnFrom(d, c, t) ==
  \A i \in 1..Len(d.items) :
    d.items[i].turn = t \/ \E j \in 1..Len(c.items) : d.items[i] = c.items[j]

LEMMA AddFits ==
  ASSUME NEW c \in Conversation, NEW kind \in Kinds, NEW t \in Turns
  PROVE  /\ Add(c, kind, t) \in Conversation /\ Add(c, kind, t).id = c.id
         /\ Add(c, kind, t).items # <<>> /\ LastKind(Add(c, kind, t)) = kind
         /\ DrawnFrom(Add(c, kind, t), c, t)
<1> DEFINE s == c.items
           r == Append(s, Item(kind, t))
<1>1. c.id \in Ids /\ s \in Seq(Items) /\ c = [id |-> c.id, items |-> s]
  BY DEF Conversation
<1>2. Item(kind, t) \in Items /\ Item(kind, t).turn = t /\ Item(kind, t).kind = kind
  BY DEF Item, Items
<1>3. Add(c, kind, t) = [id |-> c.id, items |-> r]
  BY <1>1 DEF Add
<1> HIDE DEF s
<1>4. PICK n \in Nat : n = Len(s)
  BY <1>1, LenProperties
<1>5. /\ r \in Seq(Items) /\ Len(r) = n + 1 /\ r # <<>> /\ r[n + 1] = Item(kind, t)
      /\ \A i \in 1..n : r[i] = s[i]
  BY <1>1, <1>2, <1>4, AppendProperties
<1> HIDE DEF r
<1>6. Add(c, kind, t) \in Conversation
  BY <1>1, <1>3, <1>5 DEF Conversation
<1>7. LastKind(Add(c, kind, t)) = kind
  BY <1>2, <1>3, <1>5 DEF LastKind
<1>8. \A i \in 1..Len(r) : r[i].turn = t \/ \E j \in 1..Len(s) : r[i] = s[j]
  BY <1>2, <1>4, <1>5
<1> QED
  BY <1>3, <1>5, <1>6, <1>7, <1>8 DEF DrawnFrom, s

LEMMA WithoutStatusFits ==
  ASSUME NEW c \in Conversation, NEW t
  PROVE  /\ WithoutStatus(c) \in Conversation /\ WithoutStatus(c).id = c.id
         /\ NoStatus(WithoutStatus(c)) /\ DrawnFrom(WithoutStatus(c), c, t)
         /\ c.items # <<>> /\ LastKind(c) # "status" => LastKind(WithoutStatus(c)) = LastKind(c)
<1> DEFINE s == c.items
           r == Kept(s)
<1>1. c.id \in Ids /\ s \in Seq(Items) /\ c = [id |-> c.id, items |-> s]
  BY DEF Conversation
<1>2. WithoutStatus(c) = [id |-> c.id, items |-> r]
  BY <1>1 DEF WithoutStatus
<1>3. /\ r \in Seq(Items)
      /\ \A i \in 1..Len(r) : r[i].kind # "status" /\ \E j \in 1..Len(s) : r[i] = s[j]
      /\ s # <<>> /\ s[Len(s)].kind # "status" => r # <<>> /\ r[Len(r)] = s[Len(s)]
  BY <1>1, KeptFits
<1> HIDE DEF r, s
<1>4. WithoutStatus(c) \in Conversation
  BY <1>1, <1>2, <1>3 DEF Conversation
<1>5. NoStatus(WithoutStatus(c)) /\ DrawnFrom(WithoutStatus(c), c, t)
  BY <1>2, <1>3 DEF NoStatus, DrawnFrom, s
<1>6. c.items # <<>> /\ LastKind(c) # "status" => LastKind(WithoutStatus(c)) = LastKind(c)
  BY <1>2, <1>3 DEF LastKind, s
<1> QED
  BY <1>1, <1>2, <1>4, <1>5, <1>6

\* Up to the last message of the user.
LEMMA UpToTheUserFits ==
  ASSUME NEW c \in Conversation, UserIndexes(c.items) # {}, NEW d, NEW t,
         d = [c EXCEPT !.items = SubSeq(@, 1, LastUser(@))]
  PROVE  d \in Conversation /\ d.id = c.id /\ d.items # <<>> /\ DrawnFrom(d, c, t)
<1> DEFINE s == c.items
           l == LastUser(s)
           r == SubSeq(s, 1, l)
<1>1. c.id \in Ids /\ s \in Seq(Items) /\ c = [id |-> c.id, items |-> s]
  BY DEF Conversation
<1>2. d = [id |-> c.id, items |-> r]
  BY <1>1
<1>3. PICK n \in Nat : n = Len(s) /\ DOMAIN s = 1..n
  BY <1>1, LenProperties
<1> HIDE DEF s
<1>4. l \in 1..n
  <2>1. UserIndexes(s) \in SUBSET (1..n) /\ UserIndexes(s) # {}
    BY <1>3 DEF UserIndexes, s
  <2>2. \E i \in UserIndexes(s) : \A j \in UserIndexes(s) : j <= i
    BY <2>1, GreatestNat
  <2> QED
    BY <2>1, <2>2 DEF LastUser
<1>5. /\ r \in Seq(Items) /\ Len(r) = l /\ \A i \in 1..l : r[i] = s[i]
  <2>1. \A i \in 1..l : s[i] \in Items
    BY <1>1, <1>3, <1>4, ElementOfSeq
  <2>2. /\ r \in Seq(Items) /\ Len(r) = IF 1 <= l THEN l - 1 + 1 ELSE 0
        /\ \A i \in 1..(l - 1 + 1) : r[i] = s[1 + i - 1]
    BY <1>4, <2>1, SubSeqProperties
  <2>3. \A i \in 1..l : 1 + i - 1 = i
    BY <1>4
  <2> HIDE DEF r, l
  <2> QED
    BY <1>4, <2>2, <2>3
<1> HIDE DEF r, l
<1>6. r # <<>>
  BY <1>4, <1>5
<1>7. d \in Conversation /\ d.id = c.id /\ d.items = r
  <2>1. [id |-> c.id, items |-> r] \in Conversation
    BY <1>1, <1>5, Zenon DEF Conversation
  <2>2. d \in Conversation
    BY <1>2, <2>1, Zenon
  <2>3. d.id = c.id /\ d.items = r
    BY <1>2
  <2> QED
    BY <2>2, <2>3
<1>8. \A i \in 1..Len(r) : \E j \in 1..n : r[i] = s[j]
  <2>1. 1..l \subseteq 1..n
    BY <1>4
  <2> QED
    BY <1>5, <2>1
<1>9. DrawnFrom(d, c, t)
  BY <1>3, <1>7, <1>8 DEF DrawnFrom, s
<1> QED
  BY <1>6, <1>7, <1>9

-----------------------------------------------------------------------------
\* Turns that have started, and those of an era

LEMMA NextIs ==
  ASSUME MaxTurns \in Nat, NEW n \in 0..MaxTurns, Started = 1..n
  PROVE  NextTurn = n + 1
<1>1. Cardinality(1..n) = n
  <2>1. 1 \in Int /\ n \in Int
    OBVIOUS
  <2>2. Cardinality(1..n) = IF 1 > n THEN 0 ELSE n - 1 + 1
    BY <2>1, FS_Interval
  <2> QED
    BY <2>2
<1> QED
  BY <1>1 DEF NextTurn

LEMMA SetsAreFinite ==
  /\ IsFiniteSet(Begun) /\ IsFiniteSet(Lost)
  /\ Cardinality(Begun) \in Nat /\ Cardinality(Lost) \in Nat
<1>1. IsFiniteSet(Turns)
  BY PanelAssumption, FS_Interval DEF Turns
<1>2. Begun \subseteq Turns /\ Lost \subseteq Turns
  BY DEF Begun, Lost, Of, Started
<1> QED
  BY <1>1, <1>2, FS_Subset, FS_CardinalityType

\* A step that leaves everyone's era and start alone.
HomesStay == \A v \in Turns : /\ streams'[v].home = streams[v].home
                              /\ streams'[v].at = "none" <=> streams[v].at = "none"

LEMMA OfStays ==
  ASSUME HomesStay
  PROVE  Started' = Started /\ \A c : Of(c)' = Of(c)
BY DEF HomesStay, Started, Of

LEMMA RequestFits ==
  ASSUME NEW stage \in {"none"} \cup Open \cup Ends, NEW id \in Ids, NEW served \in Ids,
         NEW home \in Nat
  PROVE  /\ Request(stage, id, served, home) \in Stream
         /\ Request(stage, id, served, home).at = stage /\ Request(stage, id, served, home).id = id
         /\ Request(stage, id, served, home).served = served
         /\ Request(stage, id, served, home).home = home
         /\ Request(stage, id, served, home).last = "none"
         /\ ~Request(stage, id, served, home).aborted /\ ~Request(stage, id, served, home).sawError
<1>1. "none" \in Lasts /\ FALSE \in BOOLEAN /\ 0 \in Nat
  BY DEF Lasts
<1>2. Request(stage, id, served, home) \in Stream
  BY <1>1, Zenon DEF Request, Stream
<1> QED
  BY <1>2 DEF Request

-----------------------------------------------------------------------------
\* A turn starts

Starting(t, d) ==
  /\ t \in Turns /\ t = NextTurn /\ turnRef = None /\ signedIn
  /\ d \in Conversation /\ d.id = conversation.id /\ d.items # <<>>
  /\ DrawnFrom(d, conversation, t)
  /\ conversation' = d
  /\ streams' = [streams EXCEPT ![t] = Request("fetching", conversation.id, None, era)]
  /\ turnRef' = t /\ running' = TRUE /\ shown' = Current'
  /\ unavailable' = unavailable /\ signedIn' = signedIn /\ era' = era

LEMMA ClickStarts ==
  ASSUME PanelInv, signedIn, Send \/ Retry, shown' = Current'
  PROVE  \E t, d : Starting(t, d)
<1>1. conversation \in Conversation /\ shown.conversation = conversation
  BY DEF PanelInv, TypesFit, RenderedFits, Send, Retry
<1> DEFINE t == NextTurn
<1>2. /\ t \in Turns /\ turnRef = None
      /\ streams' = [streams EXCEPT ![t] = Request("fetching", conversation.id, None, era)]
      /\ turnRef' = t /\ running' = TRUE
      /\ unavailable' = unavailable /\ signedIn' = signedIn /\ era' = era
  BY <1>1 DEF Send, Retry, RunTurn
<1> HIDE DEF t
<1>3. CASE Send
  <2>1. conversation' = Add(conversation, "user", t)
    BY <1>3 DEF Send, t
  <2>2. "user" \in Kinds
    BY DEF Kinds
  <2>3. Starting(t, conversation')
    BY <1>1, <1>2, <2>1, <2>2, AddFits DEF Starting, t
  <2> QED
    BY <2>3
<1>4. CASE Retry
  <2>1. /\ conversation' = [conversation EXCEPT !.items = SubSeq(@, 1, LastUser(@))]
        /\ UserIndexes(conversation.items) # {}
    BY <1>1, <1>4 DEF Retry
  <2>2. /\ conversation' \in Conversation /\ conversation'.id = conversation.id
        /\ conversation'.items # <<>> /\ DrawnFrom(conversation', conversation, t)
    BY <1>1, <2>1, UpToTheUserFits
  <2>3. Starting(t, conversation')
    BY <1>2, <2>2 DEF Starting, t
  <2> QED
    BY <2>3
<1> QED
  BY <1>3, <1>4

LEMMA StartingFits ==
  ASSUME PanelInv, NEW t, NEW d, Starting(t, d)
  PROVE  PanelInv'
<1>1. TypesFit /\ OneRuns /\ Homes /\ RenderedFits /\ BegunFits /\ EndFits
  BY DEF PanelInv
<1>2. PICK n \in 0..MaxTurns : Started = 1..n
  BY <1>1 DEF OneRuns
<1>3. t = n + 1 /\ t \in Turns /\ t \notin Started /\ t # None /\ MaxTurns \in Nat
  BY <1>2, NextIs, PanelAssumption DEF Starting, Turns
<1> DEFINE new == Request("fetching", conversation.id, None, era)
<1>4. streams \in [Turns -> Stream] /\ streams' = [streams EXCEPT ![t] = new]
  BY <1>1 DEF TypesFit, Starting
<1>5. /\ new \in Stream /\ new.at = "fetching" /\ ~new.aborted /\ ~new.sawError /\ new.last = "none"
      /\ new.id = conversation.id /\ new.served = None /\ new.home = era
  <2>1. conversation.id \in Ids /\ era \in Nat /\ None \in Ids /\ "fetching" \in Open
    BY <1>1 DEF TypesFit, Conversation, Ids, Open
  <2> QED
    BY <2>1, RequestFits
<1>6. streams'[t] = new /\ \A v \in Turns : v # t => streams'[v] = streams[v]
  BY <1>3, <1>4
<1> HIDE DEF new
<1>7. /\ streams'[t].at = "fetching" /\ ~streams'[t].aborted /\ ~streams'[t].sawError
      /\ streams'[t].last = "none" /\ streams'[t].id = conversation.id
      /\ streams'[t].served = None /\ streams'[t].home = era
  BY <1>5, <1>6
<1>8. /\ conversation' = d /\ conversation' \in Conversation /\ conversation'.id = conversation.id
      /\ conversation'.items # <<>> /\ DrawnFrom(conversation', conversation, t)
      /\ turnRef = None /\ turnRef' = t /\ running' = TRUE /\ shown' = Current' /\ signedIn
      /\ unavailable' = unavailable /\ signedIn' = signedIn /\ era' = era
  BY DEF Starting
<1>9. Started' = 1..t
  <2>1. Started' = Started \cup {t}
    BY <1>3, <1>6, <1>7 DEF Started
  <2> QED
    BY <1>2, <1>3, <2>1
<1>10. t \in Of(era)' /\ \A c : Of(c) \subseteq Of(c)'
  BY <1>3, <1>6, <1>7, <1>8 DEF Of, Started
<1>11. TypesFit'
  <2>1. streams' \in [Turns -> Stream]
    BY <1>4, <1>5
  <2>2. shown' \in Rendered
    BY <1>1, <1>8 DEF Current, Rendered, TypesFit
  <2> QED
    BY <1>1, <1>3, <1>8, <2>1, <2>2 DEF TypesFit, Ids
<1>12. OneRuns'
  <2>1. t \in 0..MaxTurns
    BY <1>3 DEF Turns
  <2>2. ASSUME NEW v \in Turns, streams'[v].at \in Open, ~streams'[v].aborted PROVE v = t
    <3>1. v # t => v = turnRef
      BY <1>1, <1>6, <2>2 DEF OneRuns
    <3>2. v # None
      BY PanelAssumption DEF Turns
    <3> QED
      BY <1>8, <3>1, <3>2
  <2> QED
    BY <1>3, <1>7, <1>8, <1>9, <2>1, <2>2 DEF OneRuns, Open
<1>13. Homes'
  <2>1. \A v \in Started : streams[v].home <= era /\ ContinuesItsOwn(v)
    BY <1>1 DEF Homes
  <2>2. \A v \in Started' : v = t \/ (v \in Started /\ streams'[v] = streams[v])
    BY <1>6 DEF Started
  <2>3. Keeps(conversation) /\ era \in Nat
    BY <1>1 DEF Homes, TypesFit
  <2>4. conversation.id # None => conversation.id \in Of(era)'
    BY <1>8, <1>10, <2>3 DEF Keeps
  <2>5. Keeps(conversation)'
    <3>1. \A i \in 1..Len(conversation'.items) : conversation'.items[i].turn \in Of(era)'
      BY <1>8, <1>10, <2>3 DEF Keeps, DrawnFrom
    <3> QED
      BY <1>8, <2>4, <3>1 DEF Keeps
  <2>6. Keeps(shown.conversation)'
    <3>1. shown'.conversation = conversation'
      BY <1>8 DEF Current
    <3> QED
      BY <2>5, <3>1 DEF Keeps
  <2>7. ASSUME NEW v \in Started' PROVE streams'[v].home <= era' /\ ContinuesItsOwn(v)'
    <3>1. CASE v = t
      BY <1>7, <1>8, <2>3, <2>4, <3>1 DEF ContinuesItsOwn
    <3>2. CASE v \in Started /\ streams'[v] = streams[v]
      <4>1. streams[v].id # None =>
              streams[v].id \in Started /\ streams[streams[v].id].home = streams[v].home
        BY <2>1, <3>2 DEF ContinuesItsOwn, Of
      <4>2. \A u \in Started : u \in Started' /\ streams'[u] = streams[u]
        BY <1>3, <1>6 DEF Started
      <4> QED
        BY <1>8, <2>1, <3>2, <4>1, <4>2 DEF ContinuesItsOwn, Of
    <3> QED
      BY <2>2, <3>1, <3>2
  <2> QED
    BY <2>5, <2>6, <2>7 DEF Homes
<1>14. RenderedFits'
  BY <1>7, <1>8 DEF RenderedFits, Current
<1>15. BegunFits'
  <2>1. Begun' = Begun /\ Lost' = Lost
    BY <1>3, <1>6, <1>7, <1>8 DEF Begun, Lost, Of, Started, Left
  <2> QED
    BY <1>1, <1>8, <2>1 DEF BegunFits
<1>16. EndFits'
  BY <1>3, <1>7, <1>8 DEF EndFits, Ended, ReadingFits
<1> QED
  BY <1>11, <1>12, <1>13, <1>14, <1>15, <1>16 DEF PanelInv

-----------------------------------------------------------------------------
\* Steps that leave everyone's conversation alone

\* What every step but a start and a reset does.
Goes(d) ==
  /\ era' = era /\ streams' \in [Turns -> Stream] /\ d \in Conversation /\ conversation' = d
  /\ \A v \in Turns : streams'[v].home = streams[v].home /\ streams'[v].id = streams[v].id
  /\ \A v \in Turns : streams'[v].at = "none" <=> streams[v].at = "none"

LEMMA GoesOn ==
  ASSUME PanelInv, NEW d, Goes(d)
  PROVE  /\ Started' = Started /\ Of(era)' = Of(era)
         /\ Keeps(conversation)' /\ Keeps(shown.conversation)' => Homes'
<1>1. Homes
  BY DEF PanelInv
<1>2. Started' = Started /\ \A c : Of(c)' = Of(c)
  BY DEF Goes, Started, Of
<1>3. Of(era)' = Of(era)
  BY DEF Goes, Started, Of
<1>4. ASSUME NEW v \in Started' PROVE streams'[v].home <= era' /\ ContinuesItsOwn(v)'
  <2>1. streams[v].home <= era /\ ContinuesItsOwn(v) /\ v \in Turns
    BY <1>1, <1>2, <1>4 DEF Homes, Started
  <2>2. streams'[v].home = streams[v].home /\ streams'[v].id = streams[v].id
    BY <2>1 DEF Goes
  <2>3. streams[v].id # None =>
          /\ streams[v].id \in Turns /\ streams'[streams[v].id].at # "none"
          /\ streams'[streams[v].id].home = streams[v].home
    BY <2>1 DEF ContinuesItsOwn, Of, Started, Goes
  <2> QED
    BY <2>1, <2>2, <2>3 DEF ContinuesItsOwn, Of, Started, Goes
<1> QED
  BY <1>2, <1>3, <1>4 DEF Homes

\* What is drawn from this era's items stays of this era.
LEMMA DrawnGoesOn ==
  ASSUME PanelInv, NEW d, Goes(d), NEW t \in Of(era), DrawnFrom(d, conversation, t),
         d.id # None => d.id \in Of(era)
  PROVE  Keeps(conversation)'
<1>1. Of(era)' = Of(era) /\ Keeps(conversation) /\ conversation' = d
  BY GoesOn DEF PanelInv, Homes, Goes
<1>2. \A i \in 1..Len(d.items) : d.items[i].turn \in Of(era)
  BY <1>1 DEF Keeps, DrawnFrom
<1> QED
  BY <1>1, <1>2 DEF Keeps

\* A step that changes one turn.
LEMMA OneGoes ==
  ASSUME PanelInv, NEW t \in Started, NEW new \in Stream, streams' = [streams EXCEPT ![t] = new],
         new.home = streams[t].home, new.id = streams[t].id, new.at # "none",
         era' = era, NEW d \in Conversation, conversation' = d
  PROVE  /\ Goes(d) /\ streams'[t] = new
         /\ \A v \in Turns : v # t => streams'[v] = streams[v]
<1>1. streams \in [Turns -> Stream] /\ t \in Turns /\ streams[t].at # "none"
  BY DEF PanelInv, TypesFit, Started
<1>2. /\ streams' \in [Turns -> Stream] /\ streams'[t] = new
      /\ \A v \in Turns : v # t => streams'[v] = streams[v]
  BY <1>1
<1> QED
  BY <1>1, <1>2 DEF Goes

\* 1..n names n.
LEMMA LastIs ==
  ASSUME NEW n \in Nat, NEW m \in Nat, 1..n = 1..m
  PROVE  n = m
<1>1. CASE n < m
  <2>1. m \in 1..m /\ m \notin 1..n
    BY <1>1
  <2> QED
    BY <2>1
<1>2. CASE m < n
  <2>1. n \in 1..n /\ n \notin 1..m
    BY <1>2
  <2> QED
    BY <2>1
<1> QED
  BY <1>1, <1>2

LEMMA TurnThatRuns ==
  ASSUME PanelInv, NEW t, t = turnRef, turnRef # None
  PROVE  /\ t \in Turns /\ t \in Started /\ streams[t].home = era /\ streams[t].at \in Open
         /\ Started = 1..t /\ running /\ streams[t] \in Stream /\ t = turnRef /\ t \in Of(era)
         /\ t \in Nat /\ MaxTurns \in Nat
<1>1. TypesFit /\ OneRuns
  BY DEF PanelInv
<1>2. t \in Turns /\ streams[t] \in Stream
  BY <1>1 DEF TypesFit, Ids
<1>3. t \in Nat /\ MaxTurns \in Nat
  BY <1>2, PanelAssumption DEF Turns
<1>4. running /\ streams[t].home = era /\ streams[t].at \in Open /\ Started = 1..t
  BY <1>1 DEF OneRuns
<1>5. t \in Started /\ t \in Of(era)
  BY <1>2, <1>4 DEF Started, Open, Of
<1> QED
  BY <1>2, <1>3, <1>4, <1>5

-----------------------------------------------------------------------------
\* The running turn ends

Ending(t, how, c) ==
  /\ t = turnRef /\ turnRef # None /\ how \in Ends /\ how # Left /\ c \in Conversation
  /\ streams' = [streams EXCEPT ![t] = Over(streams[t], how)]
  /\ turnRef' = None /\ running' = FALSE /\ conversation' = WithoutStatus(c)
  /\ shown' = shown /\ era' = era
  /\ c.items # <<>> /\ DrawnFrom(c, conversation, t)
  /\ c.id = conversation.id \/ (how = "gone" /\ c.id = None)
  /\ how = "gone" => c.id = None
  /\ unavailable' \in BOOLEAN /\ signedIn' \in BOOLEAN
  /\ signedIn' \/ (how = "signed out" /\ streams[t].at = "refused" /\ c.id = conversation.id)
  /\ how = "answered" => LastKind(c) \in {"assistant", "error"}
  /\ how \in {"failed", "gone"} => LastKind(c) = "error"
  /\ how = "stopped" => LastKind(c) = "stopped"
  /\ how = "unavailable" => unavailable'

LEMMA EndingFits ==
  ASSUME PanelInv, NEW t, NEW how, NEW c, Ending(t, how, c)
  PROVE  PanelInv'
<1>1. TypesFit /\ OneRuns /\ Homes /\ RenderedFits /\ BegunFits /\ EndFits
  BY DEF PanelInv
<1>2. /\ t \in Turns /\ t \in Started /\ streams[t].home = era /\ streams[t].at \in Open
      /\ Started = 1..t /\ running /\ streams[t] \in Stream /\ t = turnRef /\ t \in Of(era)
      /\ t \in Nat /\ MaxTurns \in Nat
  BY <1>1, TurnThatRuns DEF Ending
<1> DEFINE new == Over(streams[t], how)
<1>3. /\ new \in Stream /\ new.at = how /\ new.id = streams[t].id /\ ~new.aborted
      /\ new.served = streams[t].served /\ new.home = streams[t].home
  <2>1. /\ streams[t].id \in Ids /\ streams[t].served \in Ids /\ streams[t].home \in Nat
        /\ how \in {"none"} \cup Open \cup Ends
    BY <1>2 DEF Stream, Ending
  <2> QED
    BY <2>1, RequestFits DEF Over
<1>4. how # "none" /\ how \notin Open /\ how # Left
  BY DEF Ending, Ends, Open, Left
<1> DEFINE d == WithoutStatus(c)
<1>5. /\ d \in Conversation /\ d.id = c.id /\ NoStatus(d) /\ DrawnFrom(d, c, t)
      /\ LastKind(c) # "status" => LastKind(d) = LastKind(c)
  BY WithoutStatusFits DEF Ending
<1>6. /\ conversation' = d /\ era' = era /\ turnRef' = None /\ running' = FALSE /\ shown' = shown
      /\ streams' = [streams EXCEPT ![t] = new] /\ unavailable' \in BOOLEAN /\ signedIn' \in BOOLEAN
  BY DEF Ending
<1> HIDE DEF new, d
<1>7. Goes(d) /\ streams'[t] = new /\ \A v \in Turns : v # t => streams'[v] = streams[v]
  BY <1>2, <1>3, <1>4, <1>5, <1>6, OneGoes
<1>8. Started' = Started /\ Of(era)' = Of(era)
  BY <1>7, GoesOn
<1>9. TypesFit'
  BY <1>1, <1>5, <1>6, <1>7 DEF TypesFit, Goes, Ids
<1>10. OneRuns'
  <2>1. ASSUME NEW v \in Turns, streams'[v].at \in Open, ~streams'[v].aborted PROVE FALSE
    <3>1. v # t
      BY <1>3, <1>4, <1>7, <2>1
    <3> QED
      BY <1>1, <1>2, <1>7, <2>1, <3>1 DEF OneRuns
  <2> QED
    BY <1>1, <1>6, <1>8, <2>1 DEF OneRuns
<1>11. Homes'
  <2>1. DrawnFrom(d, conversation, t)
    BY <1>5 DEF DrawnFrom, Ending
  <2>2. d.id # None => d.id \in Of(era)
    BY <1>1, <1>5 DEF Homes, Keeps, Ending
  <2>3. Keeps(conversation)'
    BY <1>2, <1>7, <2>1, <2>2, DrawnGoesOn
  <2>4. Keeps(shown.conversation)'
    BY <1>1, <1>6, <1>8 DEF Homes, Keeps
  <2> QED
    BY <1>7, <2>3, <2>4, GoesOn
<1>12. ASSUME NEW n \in Turns, Started' = 1..n PROVE n = t
  BY <1>2, <1>8, <1>12, LastIs DEF Turns
<1>13. RenderedFits'
  <2>1. shown.running
    BY <1>1, <1>2 DEF RenderedFits
  <2>2. ASSUME ~signedIn'
        PROVE  shown.conversation.id = d.id /\ \A n \in Turns : Started' = 1..n => streams'[n].at = "signed out"
    <3>1. how = "signed out" /\ streams[t].at = "refused" /\ c.id = conversation.id
      BY <2>2 DEF Ending
    <3>2. streams[t].served = None
      BY <1>1, <1>2, <3>1 DEF EndFits, Ended, ReadingFits, Ending
    <3>3. shown.conversation.id = conversation.id
      BY <1>1, <1>2, <3>2 DEF RenderedFits, Ending
    <3> QED
      BY <1>3, <1>5, <1>7, <1>12, <3>1, <3>3
  <2>3. ASSUME NEW n \in Turns, Started' = 1..n PROVE EndIsNotSaved(n)'
    <3>1. n = t
      BY <1>12, <2>3
    <3>2. how = "gone" => d.id = None
      BY <1>5 DEF Ending
    <3> QED
      BY <1>2, <1>3, <1>4, <1>6, <1>7, <3>1, <3>2 DEF EndIsNotSaved
  <2> QED
    BY <1>6, <2>1, <2>2, <2>3 DEF RenderedFits
<1>14. BegunFits'
  <2>1. Begun' = Begun
    BY <1>2, <1>3, <1>7, <1>8 DEF Begun, Of, Started
  <2>2. \A v \in Of(era) : v \in Turns
    BY DEF Of, Started
  <2>3. Lost' = IF how = "gone" THEN Lost \cup {t} ELSE Lost
    BY <1>2, <1>3, <1>4, <1>7, <1>8, <2>2 DEF Lost, Open, Left
  <2>4. t \notin Lost
    BY <1>2 DEF Lost, Open, Left
  <2>5. PICK b \in Nat, l \in Nat : b = Cardinality(Begun) /\ l = Cardinality(Lost)
    BY SetsAreFinite
  <2>6. Cardinality(Lost \cup {t}) = l + 1
    BY <2>4, <2>5, SetsAreFinite, FS_AddElement
  <2>7. b <= l + (IF conversation.id = None THEN 0 ELSE 1)
    BY <1>1, <2>5 DEF BegunFits
  <2>8. CASE how = "gone"
    <3>1. Cardinality(Lost') = l + 1 /\ Cardinality(Begun') = b
      BY <2>1, <2>3, <2>5, <2>6, <2>8
    <3>2. b <= l + 1
      BY <2>7
    <3>3. b <= l + 1 + (IF conversation'.id = None THEN 0 ELSE 1)
      BY <3>2
    <3> QED
      BY <3>1, <3>3 DEF BegunFits
  <2>9. CASE how # "gone"
    <3>1. Lost' = Lost /\ conversation'.id = conversation.id
      BY <1>5, <1>6, <2>3, <2>9 DEF Ending
    <3> QED
      BY <2>1, <2>5, <2>7, <3>1 DEF BegunFits
  <2> QED
    BY <2>8, <2>9
<1>15. EndFits'
  <2>1. NoStatus(conversation)'
    BY <1>5, <1>6 DEF NoStatus
  <2>2. ASSUME NEW n \in Turns, Started' = 1..n
        PROVE  /\ streams'[n].at \notin Open
               /\ streams'[n].at = "answered" => LastKind(d) \in {"assistant", "error"}
               /\ streams'[n].at \in {"failed", "gone"} => LastKind(d) = "error"
               /\ streams'[n].at = "stopped" => LastKind(d) = "stopped"
               /\ streams'[n].at = "unavailable" => unavailable'
    <3>1. streams'[n].at = how
      BY <1>3, <1>7, <1>12, <2>2
    <3> QED
      BY <1>4, <1>5, <3>1 DEF Ending
  <2>3. LastKind(conversation)' = LastKind(d)
    BY <1>6 DEF LastKind
  <2> QED
    BY <1>6, <2>1, <2>2, <2>3 DEF EndFits, Ended
<1> QED
  BY <1>9, <1>10, <1>11, <1>13, <1>14, <1>15 DEF PanelInv

LEMMA SettlingEnds ==
  ASSUME PanelInv, NEW t \in Turns, t = turnRef,
         \/ Stopped(t) \/ Fails(t) \/ RefusedSignedOut(t) \/ RefusedUnavailable(t)
         \/ RefusedGone(t) \/ OnDone(t) \/ BodyEnds(t)
  PROVE  \E how, c : Ending(t, how, c)
<1>1. TypesFit /\ OneRuns /\ RenderedFits /\ EndFits
  BY DEF PanelInv
<1>2. turnRef # None
  BY PanelAssumption DEF Turns
<1>3. /\ streams \in [Turns -> Stream] /\ conversation \in Conversation
      /\ unavailable \in BOOLEAN /\ signedIn \in BOOLEAN /\ signedIn
      /\ conversation.items # <<>> /\ ReadingFits(t)
  BY <1>1, <1>2 DEF TypesFit, RenderedFits, EndFits
<1>4. ASSUME NEW how, NEW c, Settles(t, how, c)
      PROVE  /\ streams' = [streams EXCEPT ![t] = Over(streams[t], how)]
             /\ turnRef' = None /\ running' = FALSE /\ conversation' = WithoutStatus(c)
             /\ shown' = shown /\ era' = era
  BY <1>4 DEF Settles, Finally, Updated
<1>5. DrawnFrom(conversation, conversation, t)
  BY DEF DrawnFrom
<1>6. \A kind \in Kinds :
        /\ Add(conversation, kind, t) \in Conversation /\ Add(conversation, kind, t).id = conversation.id
        /\ Add(conversation, kind, t).items # <<>> /\ LastKind(Add(conversation, kind, t)) = kind
        /\ DrawnFrom(Add(conversation, kind, t), conversation, t)
  BY <1>3, AddFits
<1>7. "error" \in Kinds /\ "stopped" \in Kinds
  BY DEF Kinds
<1>8. ASSUME Stopped(t) PROVE Ending(t, "stopped", Add(conversation, "stopped", t))
  <2>1. Settles(t, "stopped", Add(conversation, "stopped", t)) /\ unavailable' = unavailable /\ signedIn' = signedIn
    BY <1>8 DEF Stopped
  <2> QED
    BY <1>2, <1>3, <1>4, <1>6, <1>7, <2>1 DEF Ending, Ends, Left
<1>9. ASSUME Settles(t, "failed", Add(conversation, "error", t)), unavailable' = unavailable, signedIn' = signedIn
      PROVE  Ending(t, "failed", Add(conversation, "error", t))
  BY <1>2, <1>3, <1>4, <1>6, <1>7, <1>9 DEF Ending, Ends, Left
<1>10. ASSUME RefusedSignedOut(t) PROVE Ending(t, "signed out", conversation)
  <2>1. Settles(t, "signed out", conversation) /\ unavailable' = unavailable /\ signedIn' = FALSE /\ streams[t].at = "refused"
    BY <1>10 DEF RefusedSignedOut, Is
  <2> QED
    BY <1>2, <1>3, <1>4, <1>5, <2>1 DEF Ending, Ends, Left
<1>11. ASSUME RefusedUnavailable(t) PROVE Ending(t, "unavailable", conversation)
  <2>1. Settles(t, "unavailable", conversation) /\ unavailable' = TRUE /\ signedIn' = signedIn
    BY <1>11 DEF RefusedUnavailable
  <2> QED
    BY <1>2, <1>3, <1>4, <1>5, <2>1 DEF Ending, Ends, Left
<1>12. ASSUME RefusedGone(t) PROVE \E c : Ending(t, "gone", c)
  <2> DEFINE b == [conversation EXCEPT !.id = None]
             c == Add(b, "error", t)
  <2>1. Settles(t, "gone", c) /\ unavailable' = unavailable /\ signedIn' = signedIn
    BY <1>12 DEF RefusedGone
  <2>2. b \in Conversation /\ b.id = None /\ b.items = conversation.items
    <3>1. /\ conversation = [id |-> conversation.id, items |-> conversation.items]
          /\ conversation.items \in Seq(Items) /\ None \in Ids
      BY <1>3 DEF Conversation, Ids
    <3>2. b = [id |-> None, items |-> conversation.items]
      BY <3>1
    <3>3. b \in Conversation
      BY <3>1, <3>2, Zenon DEF Conversation
    <3> QED
      BY <3>2, <3>3
  <2> HIDE DEF b
  <2>3. /\ c \in Conversation /\ c.id = None /\ c.items # <<>> /\ LastKind(c) = "error"
        /\ DrawnFrom(c, b, t)
    BY <1>7, <2>2, AddFits
  <2> HIDE DEF c
  <2>4. DrawnFrom(c, conversation, t)
    BY <2>2, <2>3 DEF DrawnFrom
  <2>5. Ending(t, "gone", c)
    BY <1>2, <1>3, <1>4, <2>1, <2>3, <2>4 DEF Ending, Ends, Left
  <2> QED
    BY <2>5
<1>13. ASSUME Settles(t, HowItEnded(t), conversation), unavailable' = unavailable, signedIn' = signedIn,
              streams[t].last \in {"message", "error", "unavailable"}
       PROVE  Ending(t, HowItEnded(t), conversation)
  <2>1. CASE streams[t].last = "unavailable"
    <3>1. HowItEnded(t) = "unavailable" /\ unavailable
      BY <1>3, <2>1 DEF HowItEnded, ReadingFits
    <3> QED
      BY <1>2, <1>3, <1>4, <1>5, <1>13, <3>1 DEF Ending, Ends, Left
  <2>2. CASE streams[t].last \in {"message", "error"}
    <3>1. HowItEnded(t) = "answered" /\ LastKind(conversation) \in {"assistant", "error"}
      BY <1>3, <2>2 DEF HowItEnded, ReadingFits
    <3> QED
      BY <1>2, <1>3, <1>4, <1>5, <1>13, <3>1 DEF Ending, Ends, Left
  <2> QED
    BY <1>13, <2>1, <2>2
<1>14. CASE OnDone(t)
  BY <1>13, <1>14 DEF OnDone
<1>15. CASE BodyEnds(t)
  <2>1. CASE streams[t].sawError
    <3>1. streams[t].last \in {"message", "error", "unavailable"}
      BY <1>3, <2>1 DEF ReadingFits
    <3> QED
      BY <1>13, <1>15, <2>1, <3>1 DEF BodyEnds
  <2>2. CASE ~streams[t].sawError
    BY <1>9, <1>15, <2>2 DEF BodyEnds
  <2> QED
    BY <2>1, <2>2
<1>16. CASE Fails(t)
  BY <1>9, <1>16 DEF Fails
<1> QED
  BY <1>8, <1>10, <1>11, <1>12, <1>14, <1>15, <1>16

-----------------------------------------------------------------------------
\* The running turn reads

Reading(t, new, d) ==
  /\ t = turnRef /\ turnRef # None /\ new \in Stream /\ d \in Conversation
  /\ streams' = [streams EXCEPT ![t] = new] /\ conversation' = d
  /\ new.at \in Open /\ ~new.aborted /\ new.id = streams[t].id /\ new.home = streams[t].home
  /\ turnRef' = turnRef /\ running' = running /\ shown' = shown /\ era' = era /\ signedIn' = signedIn
  /\ unavailable' \in BOOLEAN
  /\ d.items # <<>> /\ DrawnFrom(d, conversation, t)
  /\ \/ new.served = streams[t].served /\ d.id = conversation.id
     \/ streams[t].served = None /\ d.id = new.served /\ d.id # None /\ d.id \in {t, streams[t].id}
  /\ new.at \in {"fetching", "refused"} => new.last = "none"
  /\ new.last = "none" => new.served = None
  /\ new.sawError => new.last \in {"error", "unavailable"}
  /\ new.last = "message" => LastKind(d) = "assistant"
  /\ new.last = "error" => LastKind(d) = "error"
  /\ new.last = "unavailable" => unavailable'

LEMMA ReadingKeeps ==
  ASSUME PanelInv, NEW t, NEW new, NEW d, Reading(t, new, d)
  PROVE  PanelInv'
<1>1. TypesFit /\ OneRuns /\ Homes /\ RenderedFits /\ BegunFits /\ EndFits
  BY DEF PanelInv
<1>2. /\ t \in Turns /\ t \in Started /\ streams[t].home = era /\ streams[t].at \in Open
      /\ Started = 1..t /\ running /\ streams[t] \in Stream /\ t = turnRef /\ t \in Of(era)
      /\ t \in Nat /\ MaxTurns \in Nat
  BY <1>1, TurnThatRuns DEF Reading
<1>3. /\ new \in Stream /\ d \in Conversation /\ conversation' = d /\ era' = era
      /\ turnRef' = turnRef /\ running' = running /\ shown' = shown /\ signedIn' = signedIn
      /\ unavailable' \in BOOLEAN /\ new.at # "none" /\ turnRef # None
  BY DEF Reading, Open
<1>4. Goes(d) /\ streams'[t] = new /\ \A v \in Turns : v # t => streams'[v] = streams[v]
  BY <1>2, <1>3, OneGoes DEF Reading
<1>5. Started' = Started /\ Of(era)' = Of(era)
  BY <1>4, GoesOn
<1>6. TypesFit'
  BY <1>1, <1>3, <1>4 DEF TypesFit, Goes
<1>7. OneRuns'
  <2>1. ASSUME NEW v \in Turns, streams'[v].at \in Open, ~streams'[v].aborted PROVE v = t
    BY <1>1, <1>2, <1>4, <2>1 DEF OneRuns
  <2>2. streams'[t].at \in Open /\ streams'[t].home = era
    BY <1>2, <1>4 DEF Reading
  <2> QED
    BY <1>1, <1>2, <1>3, <1>5, <2>1, <2>2 DEF OneRuns
<1>8. d.id # None => d.id \in Of(era)
  <2>1. conversation.id # None => conversation.id \in Of(era)
    BY <1>1 DEF Homes, Keeps
  <2>2. streams[t].id # None => streams[t].id \in Of(era)
    BY <1>1, <1>2 DEF Homes, ContinuesItsOwn
  <2> QED
    BY <1>2, <2>1, <2>2 DEF Reading
<1>9. Homes'
  <2>1. Keeps(conversation)'
    BY <1>2, <1>4, <1>8, DrawnGoesOn DEF Reading
  <2>2. Keeps(shown.conversation)'
    BY <1>1, <1>3, <1>5 DEF Homes, Keeps
  <2> QED
    BY <1>4, <2>1, <2>2, GoesOn
<1>10. streams[t].served = None => conversation.id = streams[t].id /\ shown.conversation.id = conversation.id
  BY <1>1, <1>2, <1>3 DEF RenderedFits
<1>11. RenderedFits'
  <2>1. shown.running /\ signedIn
    BY <1>1, <1>2, <1>3 DEF RenderedFits
  <2>2. ASSUME new.served = None PROVE d.id = new.id /\ shown.conversation.id = d.id
    BY <1>10, <2>2 DEF Reading
  <2> QED
    BY <1>2, <1>3, <1>4, <2>1, <2>2 DEF RenderedFits
<1>12. BegunFits'
  <2>1. \A v \in Of(era) : v \in Turns
    BY DEF Of, Started
  <2>2. Lost' = Lost
    BY <1>2, <1>4, <1>5, <2>1 DEF Lost, Reading, Open, Left
  <2>3. PICK b \in Nat, l \in Nat : b = Cardinality(Begun) /\ l = Cardinality(Lost)
    BY SetsAreFinite
  <2>4. b <= l + (IF conversation.id = None THEN 0 ELSE 1)
    BY <1>1, <2>3 DEF BegunFits
  <2>5. CASE new.served = streams[t].served /\ d.id = conversation.id
    <3>1. Begun' = Begun
      BY <1>4, <1>5, <2>1, <2>5 DEF Begun, Reading
    <3> QED
      BY <1>3, <2>2, <2>3, <2>4, <2>5, <3>1 DEF BegunFits
  <2>6. CASE streams[t].served = None /\ d.id = new.served /\ d.id # None
    <3>1. streams[t].id # None => Begun' = Begun
      BY <1>4, <1>5, <2>1, <2>6 DEF Begun, Reading
    <3>2. streams[t].id = None => Begun' = Begun \cup {t} /\ t \notin Begun
      BY <1>2, <1>4, <1>5, <2>1, <2>6 DEF Begun, Reading
    <3>3. streams[t].id = None => b <= l
      BY <1>10, <2>4, <2>6
    <3>4. t \notin Begun => Cardinality(Begun \cup {t}) = b + 1
      BY <2>3, SetsAreFinite, FS_AddElement
    <3>5. Cardinality(Begun') <= l + 1
      BY <2>3, <2>4, <3>1, <3>2, <3>3, <3>4
    <3> QED
      BY <1>3, <2>2, <2>3, <2>6, <3>5 DEF BegunFits
  <2> QED
    BY <2>5, <2>6 DEF Reading
<1>13. EndFits'
  <2>1. LastKind(conversation)' = LastKind(d)
    BY <1>3 DEF LastKind
  <2>2. ReadingFits(t)'
    BY <1>4, <2>1 DEF ReadingFits, Reading
  <2> QED
    BY <1>2, <1>3, <2>2 DEF EndFits, Ended, ReadingFits, Reading
<1> QED
  BY <1>6, <1>7, <1>9, <1>11, <1>12, <1>13 DEF PanelInv

\* What was received is noted.
LEMMA ReceivedIs ==
  ASSUME streams \in [Turns -> Stream], NEW t \in Turns, NEW event \in Lasts, NEW id \in Ids,
         Received(t, event, id)
  PROVE  \E new \in Stream :
           /\ streams' = [streams EXCEPT ![t] = new]
           /\ new.at = streams[t].at /\ new.aborted = streams[t].aborted
           /\ new.id = streams[t].id /\ new.home = streams[t].home
           /\ new.last = event /\ new.served = id
           /\ new.sawError = (streams[t].sawError \/ event \in {"error", "unavailable"})
<1>1. streams[t] \in Stream
  OBVIOUS
<1>2. PICK s : s = streams[t] 
  OBVIOUS
<1> DEFINE more == IF event = "status" THEN s.statuses + 1 ELSE s.statuses
           saw == s.sawError \/ event \in {"error", "unavailable"}
           new == [at |-> s.at, aborted |-> s.aborted, sawError |-> saw, last |-> event,
                   statuses |-> more, id |-> s.id, served |-> id, home |-> s.home]
<1>3. /\ s = [at |-> s.at, aborted |-> s.aborted, sawError |-> s.sawError, last |-> s.last,
              statuses |-> s.statuses, id |-> s.id, served |-> s.served, home |-> s.home]
      /\ s.at \in {"none"} \cup Open \cup Ends /\ s.aborted \in BOOLEAN /\ s.sawError \in BOOLEAN
      /\ s.statuses \in Nat /\ s.id \in Ids /\ s.home \in Nat
  BY <1>1, <1>2 DEF Stream
<1>4. more \in Nat /\ saw \in BOOLEAN
  BY <1>3
<1>5. streams' = [streams EXCEPT ![t] = new]
  <2>1. streams' = [streams EXCEPT ![t] = [s EXCEPT !.last = event, !.served = id, !.sawError = saw,
                                                    !.statuses = more]]
    BY <1>2 DEF Received
  <2> HIDE DEF more, saw
  <2>2. PICK a : a = [s EXCEPT !.last = event]
    OBVIOUS
  <2>3. a = [at |-> s.at, aborted |-> s.aborted, sawError |-> s.sawError, last |-> event,
             statuses |-> s.statuses, id |-> s.id, served |-> s.served, home |-> s.home]
    BY <1>3, <2>2
  <2>4. PICK b : b = [a EXCEPT !.served = id]
    OBVIOUS
  <2>5. b = [at |-> s.at, aborted |-> s.aborted, sawError |-> s.sawError, last |-> event,
             statuses |-> s.statuses, id |-> s.id, served |-> id, home |-> s.home]
    BY <2>3, <2>4
  <2>6. PICK c : c = [b EXCEPT !.sawError = saw]
    OBVIOUS
  <2>7. c = [at |-> s.at, aborted |-> s.aborted, sawError |-> saw, last |-> event,
             statuses |-> s.statuses, id |-> s.id, served |-> id, home |-> s.home]
    BY <2>5, <2>6
  <2>8. [c EXCEPT !.statuses = more] = new
    BY <2>7
  <2> QED
    BY <2>1, <2>2, <2>4, <2>6, <2>8, Zenon
<1> HIDE DEF more, saw
<1>6. new \in Stream
  BY <1>3, <1>4, Zenon DEF Stream
<1> QED
  BY <1>2, <1>5, <1>6 DEF saw

LEMMA EventIsRead ==
  ASSUME PanelInv, NEW t \in Turns, t = turnRef,
         \/ Answers(t) \/ OnConversation(t) \/ OnUnavailable(t)
         \/ Shows(t, "status", "status") \/ Shows(t, "result", "result")
         \/ Shows(t, "message", "assistant") \/ Shows(t, "error", "error")
  PROVE  \E new, d : Reading(t, new, d)
<1>1. TypesFit /\ OneRuns /\ RenderedFits /\ EndFits
  BY DEF PanelInv
<1>2. turnRef # None /\ t # None
  BY PanelAssumption DEF Turns
<1>3. /\ streams \in [Turns -> Stream] /\ conversation \in Conversation
      /\ unavailable \in BOOLEAN /\ conversation.items # <<>> /\ ReadingFits(t)
      /\ streams[t] \in Stream /\ streams[t].id \in Ids /\ streams[t].served \in Ids
  BY <1>1, <1>2 DEF TypesFit, EndFits, Stream
<1>4. DrawnFrom(conversation, conversation, t)
  BY DEF DrawnFrom
<1>5. CASE Answers(t)
  <2>1. PICK stage \in {"refused", "reading"} : streams' = [streams EXCEPT ![t].at = stage]
    BY <1>5 DEF Answers
  <2>2. PICK s : s = streams[t]
    OBVIOUS
  <2> DEFINE new == [s EXCEPT !.at = stage]
  <2>3. /\ s = [at |-> s.at, aborted |-> s.aborted, sawError |-> s.sawError, last |-> s.last,
                statuses |-> s.statuses, id |-> s.id, served |-> s.served, home |-> s.home]
        /\ s.aborted \in BOOLEAN /\ s.sawError \in BOOLEAN /\ s.last \in Lasts
        /\ s.statuses \in Nat /\ s.id \in Ids /\ s.served \in Ids /\ s.home \in Nat
    BY <1>3, <2>2 DEF Stream
  <2>4. new = [at |-> stage, aborted |-> s.aborted, sawError |-> s.sawError, last |-> s.last,
               statuses |-> s.statuses, id |-> s.id, served |-> s.served, home |-> s.home]
    BY <2>3
  <2>5. stage \in Open /\ stage \in {"none"} \cup Open \cup Ends
    BY DEF Open
  <2>6. [at |-> stage, aborted |-> s.aborted, sawError |-> s.sawError, last |-> s.last,
         statuses |-> s.statuses, id |-> s.id, served |-> s.served, home |-> s.home] \in Stream
    BY <2>3, <2>5, Zenon DEF Stream
  <2>7. streams' = [streams EXCEPT ![t] = new]
    BY <2>1, <2>2
  <2>8. new \in Stream
    BY <2>4, <2>6, Zenon
  <2>9. /\ new.at = stage /\ new.aborted = s.aborted /\ new.sawError = s.sawError /\ new.last = s.last
        /\ new.id = s.id /\ new.served = s.served /\ new.home = s.home
    BY <2>4
  <2>10. s.at = "fetching" /\ ~s.aborted
    BY <1>5, <2>2 DEF Answers, Is
  <2>11. /\ s.last = "none" /\ s.served = None /\ ~s.sawError
    BY <1>3, <2>2, <2>10 DEF ReadingFits
  <2> HIDE DEF new
  <2>12. Reading(t, new, conversation)
    BY <1>2, <1>3, <1>4, <1>5, <2>2, <2>5, <2>7, <2>8, <2>9, <2>10, <2>11 DEF Reading, Answers
  <2> QED
    BY <2>12
<1>6. ASSUME NEW event \in Lasts, NEW id \in Ids, Received(t, event, id), Gets(t, event)
      PROVE  \E new \in Stream :
               /\ streams' = [streams EXCEPT ![t] = new]
               /\ new.at = "reading" /\ "reading" \in Open /\ ~new.aborted
               /\ new.id = streams[t].id /\ new.home = streams[t].home
               /\ new.last = event /\ new.served = id
               /\ new.sawError => event \in {"error", "unavailable"}
  <2>1. streams[t].at = "reading" /\ ~streams[t].aborted /\ ~streams[t].sawError /\ "reading" \in Open
    BY <1>3, <1>6 DEF Gets, Is, Following, ReadingFits, Open
  <2>2. PICK new \in Stream :
          /\ streams' = [streams EXCEPT ![t] = new]
          /\ new.at = streams[t].at /\ new.aborted = streams[t].aborted
          /\ new.id = streams[t].id /\ new.home = streams[t].home
          /\ new.last = event /\ new.served = id
          /\ new.sawError = (streams[t].sawError \/ event \in {"error", "unavailable"})
    BY <1>3, <1>6, ReceivedIs
  <2> QED
    BY <2>1, <2>2
<1>7. /\ "conversation" \in Lasts /\ "status" \in Lasts /\ "result" \in Lasts /\ "message" \in Lasts
      /\ "error" \in Lasts /\ "unavailable" \in Lasts
      /\ "status" \in Kinds /\ "result" \in Kinds /\ "assistant" \in Kinds /\ "error" \in Kinds
  BY DEF Lasts, Kinds
<1>8. CASE OnConversation(t)
  <2> DEFINE id == IF streams[t].id = None THEN t ELSE streams[t].id
             d == [conversation EXCEPT !.id = id]
  <2>1. /\ id \in Ids /\ id # None /\ id \in {t, streams[t].id} /\ Received(t, "conversation", id)
        /\ Gets(t, "conversation") /\ conversation' = d
    BY <1>2, <1>3, <1>8 DEF OnConversation, Ids, Updated
  <2> HIDE DEF id
  <2>2. PICK new \in Stream :
          /\ streams' = [streams EXCEPT ![t] = new]
          /\ new.at = "reading" /\ "reading" \in Open /\ ~new.aborted
          /\ new.id = streams[t].id /\ new.home = streams[t].home
          /\ new.last = "conversation" /\ new.served = id
          /\ new.sawError => "conversation" \in {"error", "unavailable"}
    BY <1>6, <1>7, <2>1
  <2>3. d \in Conversation /\ d.id = id /\ d.items = conversation.items
    <3>1. /\ conversation = [id |-> conversation.id, items |-> conversation.items]
          /\ conversation.items \in Seq(Items)
      BY <1>3 DEF Conversation
    <3>2. d = [id |-> id, items |-> conversation.items]
      BY <3>1
    <3>3. d \in Conversation
      BY <2>1, <3>1, <3>2, Zenon DEF Conversation
    <3> QED
      BY <3>2, <3>3
  <2> HIDE DEF d
  <2>4. DrawnFrom(d, conversation, t)
    BY <2>3 DEF DrawnFrom
  <2>5. streams[t].last = "none"
    BY <2>1, <1>3 DEF Gets, Following, Stream, Lasts
  <2>6. streams[t].served = None
    BY <1>3, <2>5 DEF ReadingFits
  <2>7. Reading(t, new, d)
    BY <1>2, <1>3, <1>8, <2>1, <2>2, <2>3, <2>4, <2>6 DEF Reading, OnConversation
  <2> QED
    BY <2>7
<1>9. streams[t].last = "none" => streams[t].served = None
  BY <1>3 DEF ReadingFits
<1>10. CASE OnUnavailable(t)
  <2>1. PICK new \in Stream :
          /\ streams' = [streams EXCEPT ![t] = new]
          /\ new.at = "reading" /\ "reading" \in Open /\ ~new.aborted
          /\ new.id = streams[t].id /\ new.home = streams[t].home
          /\ new.last = "unavailable" /\ new.served = streams[t].served
          /\ new.sawError => "unavailable" \in {"error", "unavailable"}
    BY <1>3, <1>6, <1>7, <1>10 DEF OnUnavailable
  <2>2. Reading(t, new, conversation)
    BY <1>2, <1>3, <1>4, <1>10, <2>1 DEF Reading, OnUnavailable
  <2> QED
    BY <2>2
<1>11. ASSUME NEW event \in Lasts, NEW kind \in Kinds, Shows(t, event, kind),
              \/ event \in {"status", "result"}
              \/ event = "message" /\ kind = "assistant"
              \/ event = "error" /\ kind = "error"
       PROVE  \E new, d : Reading(t, new, d)
  <2> DEFINE d == Add(conversation, kind, t)
  <2>1. /\ Received(t, event, streams[t].served) /\ Gets(t, event) /\ conversation' = d
        /\ UNCHANGED <<running, unavailable, signedIn, turnRef, shown, era>>
    BY <1>11 DEF Shows, Updated
  <2>2. PICK new \in Stream :
          /\ streams' = [streams EXCEPT ![t] = new]
          /\ new.at = "reading" /\ "reading" \in Open /\ ~new.aborted
          /\ new.id = streams[t].id /\ new.home = streams[t].home
          /\ new.last = event /\ new.served = streams[t].served
          /\ new.sawError => event \in {"error", "unavailable"}
    BY <1>3, <1>6, <1>11, <2>1
  <2>3. /\ d \in Conversation /\ d.id = conversation.id /\ d.items # <<>> /\ LastKind(d) = kind
        /\ DrawnFrom(d, conversation, t)
    BY <1>3, <1>11, AddFits
  <2> HIDE DEF d
  <2>4. Reading(t, new, d)
    BY <1>2, <1>3, <1>11, <2>1, <2>2, <2>3 DEF Reading
  <2> QED
    BY <2>4
<1>12. CASE Shows(t, "status", "status")
  BY <1>7, <1>11, <1>12
<1>13. CASE Shows(t, "result", "result")
  BY <1>7, <1>11, <1>13
<1>14. CASE Shows(t, "message", "assistant")
  BY <1>7, <1>11, <1>14
<1>15. CASE Shows(t, "error", "error")
  BY <1>7, <1>11, <1>15
<1> QED
  BY <1>5, <1>8, <1>10, <1>12, <1>13, <1>14, <1>15

-----------------------------------------------------------------------------
\* A turn that was dropped

LEMMA DroppedTurnEnds ==
  ASSUME PanelInv, NEW t \in Turns, t # turnRef, StreamStep(t)
  PROVE  PanelInv'
<1>1. TypesFit /\ OneRuns /\ Homes /\ RenderedFits /\ BegunFits /\ EndFits
  BY DEF PanelInv
<1>2. streams[t] \in Stream /\ conversation \in Conversation
  BY <1>1 DEF TypesFit
<1>3. Stopped(t)
  <2>1. \A stage \in Open : ~Is(t, stage)
    BY <1>1 DEF OneRuns, Is
  <2>2. "fetching" \in Open /\ "refused" \in Open /\ "reading" \in Open
    BY DEF Open
  <2> QED
    BY <2>1, <2>2 DEF StreamStep, Fails, Answers, RefusedSignedOut, RefusedUnavailable, RefusedGone,
       OnConversation, OnUnavailable, OnDone, BodyEnds, Shows, Gets
<1> DEFINE new == Over(streams[t], "stopped")
<1>4. /\ streams[t].at \in Open /\ streams' = [streams EXCEPT ![t] = new]
      /\ conversation' = conversation /\ turnRef' = turnRef /\ running' = running
      /\ shown' = shown /\ era' = era /\ unavailable' = unavailable /\ signedIn' = signedIn
  BY <1>3 DEF Stopped, Settles, Finally, Updated
<1>5. /\ new \in Stream /\ new.at = "stopped" /\ new.id = streams[t].id /\ ~new.aborted
      /\ new.served = streams[t].served /\ new.home = streams[t].home
  <2>1. /\ streams[t].id \in Ids /\ streams[t].served \in Ids /\ streams[t].home \in Nat
        /\ "stopped" \in {"none"} \cup Open \cup Ends
    BY <1>2 DEF Stream, Ends
  <2> QED
    BY <2>1, RequestFits DEF Over
<1> HIDE DEF new
<1>6. t \in Started /\ "stopped" # "none" /\ "stopped" \notin Open /\ "stopped" # Left
  BY <1>4 DEF Started, Open, Left
<1>7. /\ Goes(conversation) /\ streams'[t] = new
      /\ \A v \in Turns : v # t => streams'[v] = streams[v]
  BY <1>2, <1>4, <1>5, <1>6, OneGoes
<1>8. Started' = Started /\ Of(era)' = Of(era)
  BY <1>7, GoesOn
<1>9. TypesFit'
  BY <1>1, <1>4, <1>7 DEF TypesFit, Goes
<1>10. turnRef # None => turnRef \in Turns /\ streams'[turnRef] = streams[turnRef]
  BY <1>1, <1>7 DEF TypesFit, Ids
<1>11. OneRuns'
  <2>1. ASSUME NEW v \in Turns, streams'[v].at \in Open, ~streams'[v].aborted PROVE v = turnRef
    BY <1>1, <1>5, <1>6, <1>7, <2>1 DEF OneRuns
  <2>2. turnRef # None => streams'[turnRef].at \in Open /\ streams'[turnRef].home = era
    BY <1>1, <1>10 DEF OneRuns
  <2> QED
    BY <1>1, <1>4, <1>8, <2>1, <2>2 DEF OneRuns
<1>12. Homes'
  BY <1>1, <1>4, <1>7, <1>8, GoesOn DEF Homes, Keeps
<1>13. ASSUME NEW n \in Turns, Started = 1..n, turnRef = None,
              conversation.items # <<>> \/ ~signedIn \/ shown.conversation.id # conversation.id
       PROVE  n # t
  BY <1>1, <1>4, <1>13 DEF EndFits, Ended, RenderedFits, EndIsNotSaved, Open
<1>14. RenderedFits'
  BY <1>1, <1>4, <1>7, <1>8, <1>10, <1>13 DEF RenderedFits, EndIsNotSaved
<1>15. BegunFits'
  <2>1. \A v \in Of(era) : v \in Turns
    BY DEF Of, Started
  <2>2. Begun' = Begun
    BY <1>5, <1>7, <1>8, <2>1 DEF Begun
  <2>3. Lost' = Lost
    BY <1>4, <1>5, <1>6, <1>7, <1>8, <2>1 DEF Lost, Open, Left
  <2> QED
    BY <1>1, <1>4, <2>2, <2>3 DEF BegunFits
<1>16. EndFits'
  <2>1. turnRef # None => ReadingFits(turnRef)'
    BY <1>1, <1>4, <1>10 DEF EndFits, Ended, ReadingFits, LastKind
  <2>2. NoStatus(conversation)' = NoStatus(conversation) /\ LastKind(conversation)' = LastKind(conversation)
    BY <1>4 DEF NoStatus, LastKind
  <2>3. turnRef = None /\ conversation.items # <<>> =>
          \A n \in Turns : Started = 1..n => streams'[n] = streams[n]
    BY <1>7, <1>13
  <2> QED
    BY <1>1, <1>4, <1>8, <2>1, <2>2, <2>3 DEF EndFits, Ended, ReadingFits
<1> QED
  BY <1>9, <1>11, <1>12, <1>14, <1>15, <1>16 DEF PanelInv

-----------------------------------------------------------------------------
\* The buttons, rendering and leaving the page

LEMMA AbortedIs ==
  ASSUME PanelInv, streams' = Aborted
  PROVE  /\ streams' \in [Turns -> Stream]
         /\ \A v \in Turns :
              /\ streams'[v].at = streams[v].at /\ streams'[v].id = streams[v].id
              /\ streams'[v].home = streams[v].home /\ streams'[v].served = streams[v].served
              /\ streams'[v].last = streams[v].last /\ streams'[v].sawError = streams[v].sawError
              /\ v # turnRef => streams'[v] = streams[v]
              /\ v = turnRef => streams'[v].aborted
<1>1. streams \in [Turns -> Stream] /\ turnRef \in Ids /\ None \notin Turns
  BY PanelAssumption DEF PanelInv, TypesFit, Turns
<1>2. CASE turnRef = None
  BY <1>1, <1>2 DEF Aborted
<1>3. CASE turnRef # None
  <2>1. PICK t \in Turns : t = turnRef
    BY <1>1, <1>3 DEF Ids
  <2>2. PICK s : s = streams[t]
    OBVIOUS
  <2>0. PICK yes : yes = TRUE
    OBVIOUS
  <2> DEFINE new == [s EXCEPT !.aborted = yes]
  <2>3. /\ s = [at |-> s.at, aborted |-> s.aborted, sawError |-> s.sawError, last |-> s.last,
                statuses |-> s.statuses, id |-> s.id, served |-> s.served, home |-> s.home]
        /\ s.at \in {"none"} \cup Open \cup Ends /\ s.sawError \in BOOLEAN /\ s.last \in Lasts
        /\ s.statuses \in Nat /\ s.id \in Ids /\ s.served \in Ids /\ s.home \in Nat
    BY <1>1, <2>2 DEF Stream
  <2>4. new = [at |-> s.at, aborted |-> yes, sawError |-> s.sawError, last |-> s.last,
               statuses |-> s.statuses, id |-> s.id, served |-> s.served, home |-> s.home]
    BY <2>3
  <2>5. [at |-> s.at, aborted |-> yes, sawError |-> s.sawError, last |-> s.last,
         statuses |-> s.statuses, id |-> s.id, served |-> s.served, home |-> s.home] \in Stream
    BY <2>3, <2>0, Zenon DEF Stream
  <2>6. streams' = [streams EXCEPT ![t] = new]
    BY <1>3, <2>1, <2>2, <2>0 DEF Aborted
  <2>7. new \in Stream
    BY <2>4, <2>5, Zenon
  <2>8. /\ new.at = s.at /\ new.aborted = yes /\ new.sawError = s.sawError /\ new.last = s.last
        /\ new.id = s.id /\ new.served = s.served /\ new.home = s.home
    BY <2>4
  <2> HIDE DEF new
  <2>9. streams'[t] = new /\ \A v \in Turns : v # t => streams'[v] = streams[v]
    BY <1>1, <2>6
  <2>10. streams' \in [Turns -> Stream]
    BY <1>1, <2>6, <2>7
  <2> QED
    BY <2>1, <2>2, <2>8, <2>9, <2>10, <2>0
<1> QED
  BY <1>2, <1>3

LEMMA StopFits ==
  ASSUME PanelInv, Stop, signedIn, shown' = Current'
  PROVE  PanelInv'
<1>1. TypesFit /\ OneRuns /\ Homes /\ RenderedFits /\ BegunFits /\ EndFits
  BY DEF PanelInv
<1>2. /\ streams' = Aborted /\ conversation' = conversation /\ running' = running
      /\ unavailable' = unavailable /\ signedIn' = signedIn /\ turnRef' = turnRef /\ era' = era
  BY DEF Stop
<1>3. /\ streams' \in [Turns -> Stream]
      /\ \A v \in Turns :
           /\ streams'[v].at = streams[v].at /\ streams'[v].id = streams[v].id
           /\ streams'[v].home = streams[v].home /\ streams'[v].served = streams[v].served
           /\ streams'[v].last = streams[v].last /\ streams'[v].sawError = streams[v].sawError
           /\ v # turnRef => streams'[v] = streams[v]
           /\ v = turnRef => streams'[v].aborted
  BY <1>2, AbortedIs
<1>4. Goes(conversation)
  BY <1>1, <1>2, <1>3 DEF Goes, TypesFit
<1>5. Started' = Started /\ Of(era)' = Of(era)
  BY <1>4, GoesOn
<1>6. turnRef # None => turnRef \in Turns
  BY <1>1 DEF TypesFit, Ids
<1>7. /\ shown'.conversation = conversation /\ shown'.running = running
      /\ shown'.unavailable = unavailable /\ shown' \in Rendered
  BY <1>1, <1>2 DEF Current, Rendered, TypesFit
<1>8. TypesFit'
  BY <1>1, <1>2, <1>3, <1>7 DEF TypesFit
<1>9. OneRuns'
  BY <1>1, <1>2, <1>3, <1>5, <1>6 DEF OneRuns
<1>10. Homes'
  <2>1. Keeps(conversation)' /\ Keeps(shown.conversation)'
    BY <1>1, <1>2, <1>5, <1>7 DEF Homes, Keeps
  <2> QED
    BY <1>4, <2>1, GoesOn
<1>11. RenderedFits'
  BY <1>1, <1>2, <1>3, <1>6, <1>7 DEF RenderedFits, EndIsNotSaved
<1>12. BegunFits'
  <2>1. \A v \in Of(era) : v \in Turns
    BY DEF Of, Started
  <2>2. Begun' = Begun /\ Lost' = Lost
    BY <1>3, <1>5, <2>1 DEF Begun, Lost
  <2> QED
    BY <1>1, <1>2, <2>2 DEF BegunFits
<1>13. EndFits'
  <2>1. turnRef # None => ReadingFits(turnRef)'
    BY <1>1, <1>2, <1>3, <1>6 DEF EndFits, Ended, ReadingFits, LastKind
  <2>2. NoStatus(conversation)' = NoStatus(conversation) /\ LastKind(conversation)' = LastKind(conversation)
    BY <1>2 DEF NoStatus, LastKind
  <2> QED
    BY <1>1, <1>2, <1>3, <1>5, <2>1, <2>2 DEF EndFits, Ended, ReadingFits
<1> QED
  BY <1>8, <1>9, <1>10, <1>11, <1>12, <1>13 DEF PanelInv

LEMMA ResetFits ==
  ASSUME PanelInv, Reset, signedIn, shown' = Current'
  PROVE  PanelInv'
<1>1. TypesFit /\ OneRuns /\ Homes /\ RenderedFits /\ BegunFits /\ EndFits
  BY DEF PanelInv
<1>2. /\ streams' = Aborted /\ conversation' = EMPTY /\ running' = FALSE
      /\ unavailable' = FALSE /\ signedIn' = signedIn /\ turnRef' = None /\ era' = era + 1
  BY DEF Reset
<1>3. /\ streams' \in [Turns -> Stream]
      /\ \A v \in Turns :
           /\ streams'[v].at = streams[v].at /\ streams'[v].id = streams[v].id
           /\ streams'[v].home = streams[v].home
           /\ v # turnRef => streams'[v] = streams[v]
           /\ v = turnRef => streams'[v].aborted
  BY <1>2, AbortedIs
<1>4. Started' = Started /\ \A v \in Started : v \in Turns
  BY <1>3 DEF Started
<1>5. era \in Nat /\ \A v \in Started : streams[v].home \in Nat /\ streams[v].home <= era
  BY <1>1, <1>4 DEF Homes, TypesFit, Stream
<1>6. Of(era)' = {}
  <2>1. \A v \in Started : streams'[v].home # era + 1
    BY <1>3, <1>4, <1>5
  <2> QED
    BY <1>2, <1>4, <2>1 DEF Of
<1>7. EMPTY \in Conversation /\ EMPTY.id = None /\ EMPTY.items = <<>> /\ Len(<<>>) = 0
  <2>1. None \in Ids /\ <<>> \in Seq(Items)
    BY EmptySeq DEF Ids
  <2>2. [id |-> None, items |-> <<>>] \in Conversation
    BY <2>1, Zenon DEF Conversation
  <2> QED
    BY <2>2, EmptySeq DEF EMPTY
<1>8. shown'.conversation = EMPTY /\ shown'.running = FALSE /\ shown' \in Rendered
  BY <1>2, <1>7 DEF Current, Rendered
<1>9. TypesFit'
  <2>1. era' \in Nat /\ None \in Ids /\ FALSE \in BOOLEAN /\ signedIn \in BOOLEAN
    BY <1>1, <1>2, <1>5 DEF TypesFit, Ids
  <2> QED
    BY <1>2, <1>3, <1>7, <1>8, <2>1 DEF TypesFit
<1>10. OneRuns'
  BY <1>1, <1>2, <1>3, <1>4 DEF OneRuns
<1>11. Homes'
  <2>1. Keeps(conversation)' /\ Keeps(shown.conversation)'
    BY <1>2, <1>7, <1>8 DEF Keeps
  <2>2. ASSUME NEW v \in Started PROVE streams'[v].home <= era' /\ ContinuesItsOwn(v)'
    <3>1. streams'[v].home = streams[v].home /\ streams'[v].id = streams[v].id
      BY <1>3, <1>4
    <3>2. streams[v].home <= era + 1
      BY <1>5
    <3>3. streams[v].id # None =>
            streams[v].id \in Started /\ streams[streams[v].id].home = streams[v].home
      BY <1>1 DEF Homes, ContinuesItsOwn, Of
    <3> QED
      BY <1>2, <1>3, <1>4, <3>1, <3>2, <3>3 DEF ContinuesItsOwn, Of
  <2> QED
    BY <1>4, <2>1, <2>2 DEF Homes
<1>12. RenderedFits'
  BY <1>2, <1>8 DEF RenderedFits
<1>13. BegunFits'
  <2>1. Begun' = {} /\ Lost' = {}
    BY <1>6 DEF Begun, Lost
  <2> QED
    BY <1>2, <1>7, <2>1, FS_EmptySet DEF BegunFits
<1>14. EndFits'
  BY <1>2, <1>7 DEF EndFits, Ended, NoStatus
<1> QED
  BY <1>9, <1>10, <1>11, <1>12, <1>13, <1>14 DEF PanelInv

LEMMA RenderFits ==
  ASSUME PanelInv, Render
  PROVE  PanelInv'
<1>1. TypesFit /\ OneRuns /\ Homes /\ RenderedFits /\ BegunFits /\ EndFits
  BY DEF PanelInv
<1>2. /\ shown' = Current /\ conversation' = conversation /\ running' = running
      /\ unavailable' = unavailable /\ signedIn' = signedIn /\ turnRef' = turnRef
      /\ streams' = streams /\ era' = era
  BY DEF Render
<1>3. shown'.conversation = conversation /\ shown'.running = running /\ shown' \in Rendered
  BY <1>1, <1>2 DEF Current, Rendered, TypesFit
<1>4. TypesFit'
  BY <1>1, <1>2, <1>3 DEF TypesFit
<1>5. Goes(conversation)
  BY <1>1, <1>2 DEF Goes, TypesFit
<1>6. Started' = Started /\ Of(era)' = Of(era)
  BY <1>5, GoesOn
<1>7. Homes'
  <2>1. Keeps(conversation)' /\ Keeps(shown.conversation)'
    BY <1>1, <1>2, <1>3, <1>6 DEF Homes, Keeps
  <2> QED
    BY <1>5, <2>1, GoesOn
<1>8. OneRuns'
  BY <1>1, <1>2, <1>6 DEF OneRuns
<1>9. RenderedFits'
  BY <1>1, <1>2, <1>3, <1>6 DEF RenderedFits
<1>10. BegunFits'
  <2>1. Begun' = Begun /\ Lost' = Lost
    BY <1>2, <1>6 DEF Begun, Lost
  <2> QED
    BY <1>1, <1>2, <2>1 DEF BegunFits
<1>11. EndFits'
  <2>1. \A v : ReadingFits(v)' = ReadingFits(v)
    BY <1>2 DEF ReadingFits, LastKind
  <2>2. NoStatus(conversation)' = NoStatus(conversation) /\ LastKind(conversation)' = LastKind(conversation)
    BY <1>2 DEF NoStatus, LastKind
  <2> QED
    BY <1>1, <1>2, <1>6, <2>1, <2>2 DEF EndFits, Ended, ReadingFits
<1> QED
  BY <1>4, <1>7, <1>8, <1>9, <1>10, <1>11 DEF PanelInv

LEMMA LeaveFits ==
  ASSUME PanelInv, Leave
  PROVE  PanelInv'
<1>1. TypesFit /\ OneRuns /\ Homes /\ RenderedFits /\ BegunFits /\ EndFits
  BY DEF PanelInv
<1> DEFINE c == shown.conversation
           d == WithoutStatus(c)
<1>2. /\ c \in Conversation /\ None \notin Turns /\ streams \in [Turns -> Stream]
      /\ MaxTurns \in Nat
  BY <1>1, PanelAssumption DEF TypesFit, Rendered, Turns
<1>3. d \in Conversation /\ d.id = c.id /\ NoStatus(d) /\ DrawnFrom(d, c, None)
  BY <1>2, WithoutStatusFits
<1>4. /\ conversation' = d /\ running' = FALSE /\ unavailable' = FALSE /\ signedIn' = TRUE
      /\ turnRef' = None /\ era' = era /\ shown' = Current'
      /\ streams' = [v \in Turns |-> AfterLeaving(v)] /\ Saved = d
  BY DEF Leave, Saved
<1> HIDE DEF c, d
<1>5. ASSUME NEW v \in Turns
      PROVE  /\ streams'[v] \in Stream /\ streams'[v].at \notin Open
             /\ streams'[v].id = streams[v].id /\ streams'[v].home = streams[v].home
             /\ streams'[v].served = streams[v].served
             /\ streams[v].at \in Open => streams'[v].at = Left
             /\ v = NextTurn - 1 /\ d # conversation => streams'[v].at = Left
             /\ \/ streams'[v].at \in {Left, streams[v].at}
                \/ streams[v].at = "unavailable" /\ streams'[v].at = "forgotten"
             /\ streams'[v].at # "unavailable"
             /\ streams'[v].at = "none" <=> streams[v].at = "none"
  <2>1. streams[v] \in Stream /\ streams'[v] = AfterLeaving(v)
    BY <1>2, <1>4
  <2>2. /\ streams[v].id \in Ids /\ streams[v].served \in Ids /\ streams[v].home \in Nat
        /\ Left \in {"none"} \cup Open \cup Ends /\ "forgotten" \in {"none"} \cup Open \cup Ends
    BY <2>1 DEF Stream, Ends
  <2>3. Left \notin Open /\ Left \notin {"none", "unavailable"}
        /\ "none" \notin Open /\ "forgotten" \notin Open /\ "unavailable" \notin Open
    BY DEF Open, Left
  <2>4. ASSUME NEW how \in {Left, "forgotten"}
        PROVE  /\ Over(streams[v], how) \in Stream /\ Over(streams[v], how).at = how
               /\ Over(streams[v], how).id = streams[v].id /\ Over(streams[v], how).home = streams[v].home
               /\ Over(streams[v], how).served = streams[v].served
    BY <2>2, RequestFits DEF Over
  <2>5. CASE IsLeft(v)
    <3>1. streams'[v] = Over(streams[v], Left)
      BY <2>1, <2>5 DEF AfterLeaving
    <3>2. streams[v].at # "none"
      <4>1. CASE streams[v].at \in Open
        BY <2>3, <4>1
      <4>2. CASE v = NextTurn - 1
        <5>1. PICK n \in 0..MaxTurns : Started = 1..n
          BY <1>1 DEF OneRuns
        <5>2. NextTurn = n + 1
          BY <1>2, <5>1, NextIs
        <5>3. v \in Started
          BY <4>2, <5>1, <5>2 DEF Turns
        <5> QED
          BY <5>3 DEF Started
      <4> QED
        BY <2>5, <4>1, <4>2 DEF IsLeft
    <3> QED
      BY <2>3, <2>4, <3>1, <3>2
  <2>6. CASE ~IsLeft(v)
    <3>1. streams[v].at \notin Open /\ ~(v = NextTurn - 1 /\ d # conversation)
      BY <1>4, <2>6 DEF IsLeft
    <3>2. CASE streams[v].at = "unavailable"
      <4>1. streams'[v] = Over(streams[v], "forgotten")
        BY <2>1, <2>6, <3>2 DEF AfterLeaving
      <4> QED
        BY <2>3, <2>4, <3>1, <3>2, <4>1
    <3>3. CASE streams[v].at # "unavailable"
      <4>1. streams'[v] = streams[v]
        BY <2>1, <2>6, <3>3 DEF AfterLeaving
      <4> QED
        BY <2>1, <3>1, <3>3, <4>1
    <3> QED
      BY <3>2, <3>3
  <2> QED
    BY <2>5, <2>6
<1>6. streams' \in [Turns -> Stream]
  <2>1. streams' = [v \in Turns |-> streams'[v]]
    BY <1>4
  <2> QED
    BY <1>5, <2>1
<1>7. Goes(d)
  BY <1>3, <1>4, <1>5, <1>6 DEF Goes
<1>8. Started' = Started /\ Of(era)' = Of(era)
  BY <1>7, GoesOn
<1>9. /\ shown'.conversation = d /\ shown'.running = FALSE /\ shown' \in Rendered
  BY <1>3, <1>4 DEF Current, Rendered
<1>10. TypesFit'
  <2>1. None \in Ids /\ FALSE \in BOOLEAN /\ TRUE \in BOOLEAN /\ era \in Nat
    BY <1>1 DEF TypesFit, Ids
  <2> QED
    BY <1>3, <1>4, <1>6, <1>9, <2>1 DEF TypesFit
<1>11. OneRuns'
  BY <1>1, <1>4, <1>5, <1>8 DEF OneRuns
<1>12. Homes'
  <2>1. Keeps(c)
    BY <1>1 DEF Homes, c, Keeps
  <2>2. ASSUME NEW i \in 1..Len(d.items) PROVE d.items[i].turn \in Of(era)
    <3>1. d.items \in Seq(Items)
      BY <1>3 DEF Conversation
    <3>2. d.items[i] \in Items
      BY <3>1, ElementOfSeq
    <3>3. d.items[i].turn # None
      BY <1>2, <3>2 DEF Items
    <3> QED
      BY <1>3, <2>1, <3>3 DEF DrawnFrom, Keeps
  <2>3. d.id # None => d.id \in Of(era)
    BY <1>3, <2>1 DEF Keeps
  <2>4. Keeps(conversation)' /\ Keeps(shown.conversation)'
    BY <1>4, <1>8, <1>9, <2>2, <2>3 DEF Keeps
  <2> QED
    BY <1>7, <2>4, GoesOn
<1>13. RenderedFits'
  BY <1>4, <1>9 DEF RenderedFits
<1>14. BegunFits'
  <2>1. \A v \in Of(era) : v \in Turns
    BY DEF Of, Started
  <2>2. Begun' = Begun
    BY <1>5, <1>8, <2>1 DEF Begun
  <2>3. Lost \subseteq Lost'
    <3>1. ASSUME NEW v \in Lost PROVE v \in Lost'
      <4>1. /\ v \in Of(era) /\ v \in Turns /\ streams[v].at \in {"gone", Left}
            /\ streams[v].at # "unavailable"
        BY <2>1, <3>1 DEF Lost, Left
      <4> QED
        BY <1>5, <1>8, <4>1 DEF Lost
    <3> QED
      BY <3>1
  <2>4. IsFiniteSet(Lost') /\ Cardinality(Lost') \in Nat
    <3>1. IsFiniteSet(Turns)
      BY PanelAssumption, FS_Interval DEF Turns
    <3>2. Lost' \subseteq Turns
      BY <1>8, <2>1 DEF Lost
    <3> QED
      BY <3>1, <3>2, FS_Subset, FS_CardinalityType
  <2>5. PICK b \in Nat, l \in Nat, m \in Nat :
          b = Cardinality(Begun) /\ l = Cardinality(Lost) /\ m = Cardinality(Lost')
    BY <2>4, SetsAreFinite
  <2>6. b <= l + (IF conversation.id = None THEN 0 ELSE 1)
    BY <1>1, <2>5 DEF BegunFits
  <2>7. b <= m + (IF d.id = None THEN 0 ELSE 1)
    <3>1. CASE turnRef # None
      <4>1. /\ turnRef \in Turns /\ turnRef \in Of(era) /\ streams[turnRef].at \in Open
        BY <3>1, TurnThatRuns
      <4>2. turnRef \in Lost' /\ turnRef \notin Lost
        BY <1>5, <1>8, <4>1 DEF Lost, Open, Left
      <4>3. Lost \cup {turnRef} \subseteq Lost'
        BY <2>3, <4>2
      <4>4. Cardinality(Lost \cup {turnRef}) = l + 1
        BY <2>5, <4>2, SetsAreFinite, FS_AddElement
      <4>5. l + 1 <= m
        BY <2>4, <2>5, <4>3, <4>4, FS_Subset
      <4> QED
        BY <2>6, <4>5
    <3>2. l <= m
      BY <2>3, <2>4, <2>5, FS_Subset
    <3>3. CASE d.id = conversation.id
      BY <2>6, <3>2, <3>3
    <3>4. CASE turnRef = None /\ d.id # conversation.id
      <4>1. CASE conversation.id = None
        BY <2>6, <3>2, <4>1
      <4>2. CASE conversation.id # None
        <5>1. conversation.id \in Started
          BY <1>1, <4>2 DEF Homes, Keeps, Of
        <5>2. PICK n \in 0..MaxTurns : Started = 1..n
          BY <1>1 DEF OneRuns
        <5>3. n \in Turns /\ n \in Started
          BY <1>2, <5>1, <5>2 DEF Turns
        <5>4. EndIsNotSaved(n)
          BY <1>1, <1>3, <3>4, <5>2, <5>3 DEF RenderedFits, c
        <5>5. n \in Of(era) /\ n \notin Lost
          BY <4>2, <5>3, <5>4 DEF EndIsNotSaved, Of, Lost
        <5>6. NextTurn = n + 1
          BY <1>2, <5>2, NextIs
        <5>7. n = NextTurn - 1 /\ d # conversation
          BY <3>4, <5>2, <5>6
        <5>8. n \in Lost'
          BY <1>5, <1>8, <5>3, <5>5, <5>7 DEF Lost
        <5>9. Lost \cup {n} \subseteq Lost'
          BY <2>3, <5>8
        <5>10. Cardinality(Lost \cup {n}) = l + 1
          BY <2>5, <5>5, SetsAreFinite, FS_AddElement
        <5>11. l + 1 <= m
          BY <2>4, <2>5, <5>9, <5>10, FS_Subset
        <5> QED
          BY <2>6, <5>11
      <4> QED
        BY <4>1, <4>2
    <3> QED
      BY <3>1, <3>3, <3>4
  <2> QED
    BY <1>4, <2>2, <2>5, <2>7 DEF BegunFits
<1>15. EndFits'
  <2>1. NoStatus(conversation)'
    BY <1>3, <1>4 DEF NoStatus
  <2>2. ASSUME NEW n \in Turns, Started' = 1..n, d # conversation PROVE streams'[n].at = Left
    <3>1. n \in 0..MaxTurns
      BY <1>2 DEF Turns
    <3>2. NextTurn = n + 1
      BY <1>2, <1>8, <2>2, <3>1, NextIs
    <3>3. n = NextTurn - 1
      BY <3>1, <3>2
    <3> QED
      BY <1>5, <2>2, <3>3
  <2>3. ASSUME NEW n \in Turns, Started' = 1..n, d = conversation, turnRef = None, d.items # <<>>
        PROVE  Ended(n)'
    <3>1. Ended(n)
      BY <1>1, <1>8, <2>3 DEF EndFits
    <3>2. LastKind(conversation)' = LastKind(conversation)
      BY <1>4, <2>3 DEF LastKind
    <3> QED
      BY <1>5, <3>1, <3>2 DEF Ended, Left
  <2>4. ASSUME NEW n \in Turns, Started' = 1..n, turnRef # None PROVE streams'[n].at = Left
    <3>1. turnRef \in Turns /\ turnRef \in Nat /\ Started = 1..turnRef /\ streams[turnRef].at \in Open
      BY <2>4, TurnThatRuns
    <3>2. PICK m \in Nat : m = turnRef
      BY <3>1
    <3>3. n \in Nat
      BY <1>2 DEF Turns
    <3>4. 1..n = 1..m
      BY <1>8, <2>4, <3>1, <3>2, Zenon
    <3>5. n = m
      BY <3>3, <3>4, LastIs
    <3> QED
      BY <1>5, <3>1, <3>2, <3>5
  <2>5. ASSUME NEW n \in Turns, Started' = 1..n, d.items # <<>> PROVE Ended(n)'
    <3>1. streams'[n].at = Left => Ended(n)'
      BY <1>5 DEF Ended, Left
    <3> QED
      BY <2>2, <2>3, <2>4, <2>5, <3>1
  <2> QED
    BY <1>4, <2>1, <2>5 DEF EndFits
<1> QED
  BY <1>10, <1>11, <1>12, <1>13, <1>14, <1>15 DEF PanelInv

-----------------------------------------------------------------------------
\* The theorems

LEMMA InitFits == Init => PanelInv
<1> SUFFICES ASSUME Init PROVE PanelInv
  OBVIOUS
<1>1. /\ conversation = EMPTY /\ running = FALSE /\ unavailable = FALSE /\ signedIn = TRUE
      /\ turnRef = None /\ shown = Current /\ streams = [t \in Turns |-> Waiting] /\ era = 0
  BY DEF Init
<1>2. EMPTY \in Conversation /\ EMPTY.id = None /\ EMPTY.items = <<>> /\ Len(<<>>) = 0
  <2>1. None \in Ids /\ <<>> \in Seq(Items)
    BY EmptySeq DEF Ids
  <2>2. [id |-> None, items |-> <<>>] \in Conversation
    BY <2>1, Zenon DEF Conversation
  <2> QED
    BY <2>2, EmptySeq DEF EMPTY
<1>3. shown.conversation = EMPTY /\ shown.running = FALSE /\ shown \in Rendered
  BY <1>1, <1>2 DEF Current, Rendered
<1>4. Waiting \in Stream /\ Waiting.at = "none"
  <2>1. None \in Ids /\ 0 \in Nat /\ "none" \in {"none"} \cup Open \cup Ends
    BY DEF Ids
  <2> QED
    BY <2>1, RequestFits DEF Waiting
<1>5. Started = {} /\ \A v \in Turns : streams[v].at = "none"
  BY <1>1, <1>4 DEF Started
<1>6. TypesFit
  <2>1. None \in Ids /\ FALSE \in BOOLEAN /\ TRUE \in BOOLEAN /\ 0 \in Nat
    BY DEF Ids
  <2> QED
    BY <1>1, <1>2, <1>3, <1>4, <2>1 DEF TypesFit
<1>7. OneRuns
  <2>1. 0 \in 0..MaxTurns /\ 1..0 = {} /\ "none" \notin Open
    BY PanelAssumption DEF Open
  <2> QED
    BY <1>1, <1>5, <2>1 DEF OneRuns
<1>8. Homes
  BY <1>1, <1>2, <1>3, <1>5 DEF Homes, Keeps
<1>9. RenderedFits
  BY <1>1, <1>3 DEF RenderedFits
<1>10. BegunFits
  <2>1. Begun = {} /\ Lost = {}
    BY <1>5 DEF Begun, Lost, Of
  <2> QED
    BY <1>1, <1>2, <2>1, FS_EmptySet DEF BegunFits
<1>11. EndFits
  BY <1>1, <1>2 DEF EndFits, Ended, NoStatus
<1> QED
  BY <1>6, <1>7, <1>8, <1>9, <1>10, <1>11 DEF PanelInv

LEMMA StepFits == PanelInv /\ [Next]_vars => PanelInv'
<1> SUFFICES ASSUME PanelInv, [Next]_vars PROVE PanelInv'
  OBVIOUS
<1>1. CASE Click
  <2>1. CASE Send \/ Retry
    BY <1>1, <2>1, ClickStarts, StartingFits DEF Click
  <2>2. CASE Stop
    BY <1>1, <2>2, StopFits DEF Click
  <2>3. CASE Reset
    BY <1>1, <2>3, ResetFits DEF Click
  <2> QED
    BY <1>1, <2>1, <2>2, <2>3 DEF Click
<1>2. CASE Render
  BY <1>2, RenderFits
<1>3. CASE Leave
  BY <1>3, LeaveFits
<1>4. ASSUME NEW t \in Turns, StreamStep(t) PROVE PanelInv'
  <2>1. CASE t # turnRef
    BY <1>4, <2>1, DroppedTurnEnds
  <2>2. CASE t = turnRef /\ (\/ Stopped(t) \/ Fails(t) \/ RefusedSignedOut(t) \/ RefusedUnavailable(t)
                             \/ RefusedGone(t) \/ OnDone(t) \/ BodyEnds(t))
    BY <2>2, SettlingEnds, EndingFits
  <2>3. CASE t = turnRef /\ (\/ Answers(t) \/ OnConversation(t) \/ OnUnavailable(t)
                             \/ Shows(t, "status", "status") \/ Shows(t, "result", "result")
                             \/ Shows(t, "message", "assistant") \/ Shows(t, "error", "error"))
    BY <2>3, EventIsRead, ReadingKeeps
  <2> QED
    BY <1>4, <2>1, <2>2, <2>3 DEF StreamStep
<1>5. CASE UNCHANGED vars
  BY <1>5 DEF vars, PanelInv, TypesFit, OneRuns, Homes, Keeps, ContinuesItsOwn, RenderedFits, EndIsNotSaved, BegunFits,
     Begun, Lost, EndFits, Ended, ReadingFits, NoStatus, LastKind, Of, Started
<1> QED
  BY <1>1, <1>2, <1>3, <1>4, <1>5 DEF Next

\* What the panel keeps of its conversation, of the turn that runs and of the
\* streams of the others stays in order for any number of turns, resets and
\* events (hooks.ts).
THEOREM Invariance == Spec => []PanelInv
BY InitFits, StepFits, PTL DEF Spec

\* For any number of turns, one runs at a time, a turn that was dropped reaches
\* nothing of what followed it, and a conversation is begun anew only for one
\* that was lost.
THEOREM OneConversationAtATime == Spec => []TurnsKeepToTheirConversation
<1>1. PanelInv => TurnsKeepToTheirConversation
  <2> SUFFICES ASSUME PanelInv PROVE TurnsKeepToTheirConversation
    OBVIOUS
  <2>1. TypesFit /\ OneRuns /\ Homes /\ BegunFits
    BY DEF PanelInv
  <2>2. \A t \in Started : t \in Turns
    BY DEF Started
  <2>3. DOMAIN conversation.items = 1..Len(conversation.items)
    BY <2>1, LenProperties DEF TypesFit, Conversation
  <2>4. Cardinality(Begun) <= 1 + Cardinality(Lost)
    <3>1. PICK b \in Nat, l \in Nat : b = Cardinality(Begun) /\ l = Cardinality(Lost)
      BY SetsAreFinite
    <3>2. b <= l + (IF conversation.id = None THEN 0 ELSE 1)
      BY <2>1, <3>1 DEF BegunFits
    <3> QED
      BY <3>1, <3>2
  <2> QED
    BY <2>1, <2>2, <2>3, <2>4 DEF TurnsKeepToTheirConversation, OneRuns, Homes, Keeps, ContinuesItsOwn,
       Begun, Lost
<1> QED
  BY <1>1, Invariance, PTL

\* For any number of turns, resets and reloads, once nothing runs the
\* conversation ends with what its last turn came to, and shows no progress any
\* more; the notice of an unavailable assistant is shown until the page is left.
THEOREM EndsAreShown == Spec => []TurnsEndAsTheyWere
<1>1. PanelInv => TurnsEndAsTheyWere
  <2> SUFFICES ASSUME PanelInv, turnRef = None, conversation.items # <<>> PROVE TurnsEndAsTheyWere
    BY DEF TurnsEndAsTheyWere
  <2>1. TypesFit /\ OneRuns /\ Homes /\ EndFits
    BY DEF PanelInv
  <2>2. PICK n \in 0..MaxTurns : Started = 1..n
    BY <2>1 DEF OneRuns
  <2>3. conversation.items \in Seq(Items)
    BY <2>1 DEF TypesFit, Conversation
  <2>4. PICK l \in Nat : l = Len(conversation.items) /\ DOMAIN conversation.items = 1..l
    BY <2>3, LenProperties
  <2>5. l # 0
    BY <2>3, <2>4, EmptySeq
  <2>6. 1 \in 1..l
    BY <2>5
  <2>7. conversation.items[1].turn \in Started
    BY <2>1, <2>4, <2>6 DEF Homes, Keeps, Of
  <2>8. n \in Turns
    BY <2>2, <2>7 DEF Turns
  <2>9. NextTurn - 1 = n
    <3>1. NextTurn = n + 1
      BY <2>2, NextIs, PanelAssumption
    <3> QED
      BY <3>1
  <2>10. /\ streams[n].at \notin Open
         /\ streams[n].at = "answered" => LastKind(conversation) \in {"assistant", "error"}
         /\ streams[n].at \in {"failed", "gone"} => LastKind(conversation) = "error"
         /\ streams[n].at = "stopped" => LastKind(conversation) = "stopped"
         /\ streams[n].at = "unavailable" => unavailable
    BY <2>1, <2>2, <2>8 DEF EndFits, Ended
  <2>11. \A i \in DOMAIN conversation.items : conversation.items[i].kind # "status"
    BY <2>1, <2>4 DEF EndFits, Ended, NoStatus
  <2> QED
    BY <2>9, <2>10, <2>11 DEF TurnsEndAsTheyWere
<1> QED
  BY <1>1, Invariance, PTL
=============================================================================
