--------------------------- MODULE CopilotProofs ---------------------------
(***************************************************************************)
(* Theorems about the turns of a Copilot conversation and about a turn     *)
(* with its stream, for any numbers of turns, rounds, lookups and          *)
(* proposals.                                                              *)
(*                                                                         *)
(* What a turn stores is what it has gathered (messages), row by row with  *)
(* rising ids, wherever its rows fall between those of other turns; so     *)
(* what is to be shown of the rows is shown of the messages (WellFormed).  *)
(***************************************************************************)
EXTENDS CopilotChat, FiniteSetTheorems, SequenceTheorems, TLAPS

-----------------------------------------------------------------------------
\* What a turn has gathered

Committed(t) == {row \in rows : row.turn = t}
RowOf(t, id, message) == [id |-> id, turn |-> t, message |-> message]
UserRow(t, u) == RowOf(t, u, User)

\* After each request stand its results, those and no others; nothing follows a reply.
WellFormed(s) ==
  \A i \in 1..Len(s) :
    /\ s[i].role # "user"
    /\ s[i].role = "request" =>
         /\ i + s[i].lookups <= Len(s)
         /\ \A j \in 1..Len(s) :
              s[j].role = "result" /\ s[j].round = s[i].round <=> j \in (i + 1)..(i + s[i].lookups)
    /\ s[i].role = "result" =>
         \E j \in 1..i : /\ s[j].role = "request" /\ s[j].round = s[i].round
                         /\ \A k \in (j + 1)..i : s[k].role # "request"
    /\ s[i].role = "reply" => i = Len(s) /\ s[i].text # "unsupported"

Before == {"idle", "user", "opened"}
BeforeTheEnd == Before \cup InTime
EndsWithAReply(s) == s # <<>> /\ s[Len(s)].role = "reply"

MessagesFit(t) ==
  /\ WellFormed(turn[t].messages)
  /\ \A i \in 1..Len(turn[t].messages) :
       /\ turn[t].messages[i].round <= turn[t].rounds
       /\ turn[t].at \in {"lookups", "prepared"} => turn[t].messages[i].round < turn[t].rounds
       /\ turn[t].at \in BeforeTheEnd => turn[t].messages[i].role # "reply"
  /\ turn[t].at \in Before => turn[t].messages = <<>>
  /\ turn[t].at \in BeforeTheEnd => turn[t].error = "none"
  /\ turn[t].at \in {"ended", "storing", "stored"} /\ turn[t].error = "none" =>
       EndsWithAReply(turn[t].messages)

\* The nudge and the retry come once, and each other answer but the last opens a round.
Once(said) == IF said THEN 1 ELSE 0
CallsFit(t) ==
  /\ turn[t].at \in Before => turn[t].calls = 0
  /\ turn[t].at = "prepared" => turn[t].ran < turn[t].asked
  /\ turn[t].calls <= turn[t].rounds + Once(turn[t].nudged) + Once(turn[t].retrying)
                      + Once(turn[t].at \notin BeforeTheEnd)

-----------------------------------------------------------------------------
\* What it has stored and shown

\* The first k messages of t, as rows with these ids.
Rows(t, id, k) == {RowOf(t, id[i], turn[t].messages[i]) : i \in 1..k}
Rising(id, k, u) ==
  /\ \A i \in 1..k : u < id[i] /\ id[i] < nextId
  /\ \A i, j \in 1..k : i < j => id[i] < id[j]

Inserted(t, u, k) ==
  \E id \in [1..k -> Nat] : Rising(id, k, u) /\ pending[t] = Rows(t, id, k)
Whole(t) ==
  \E u \in Nat : \E k \in Nat : \E id \in [1..k -> Nat] :
    /\ u < nextId /\ k = Len(turn[t].messages) /\ Rising(id, k, u)
    /\ Committed(t) = {UserRow(t, u)} \cup Rows(t, id, k)
OnlyTheUser(t, u) == u < nextId /\ Committed(t) = {UserRow(t, u)}

RowsFit(t) ==
  /\ \A row \in pending[t] : row.turn = t
  /\ turn[t].at \notin {"user", "storing"} => pending[t] = {}
  /\ turn[t].at = "idle" => Committed(t) = {}
  /\ turn[t].at = "user" =>
       Committed(t) = {} /\ \E u \in Nat : u < nextId /\ pending[t] = {UserRow(t, u)}
  /\ turn[t].at \in {"opened", "ended"} \cup InTime => \E u \in Nat : OnlyTheUser(t, u)
  /\ turn[t].at = "storing" =>
       \E u \in Nat : /\ OnlyTheUser(t, u)
                      /\ \E k \in Nat : k <= Len(turn[t].messages) /\ Inserted(t, u, k)
  /\ turn[t].at = "stored" => Whole(t)
  /\ turn[t].at = "closed" =>
       Committed(t) = {} \/ (\E u \in Nat : OnlyTheUser(t, u)) \/ Whole(t)

EventsFit(t) ==
  /\ turn[t].at \in Before => events[t] = <<>>
  /\ turn[t].at \in InTime \cup {"ended", "storing", "stored"} =>
       /\ Len(events[t]) >= 1 /\ events[t][1] = "conversation"
       /\ \A i \in 2..Len(events[t]) : events[t][i] \in {"status", "result", "card"}

ToldFits(t) ==
  turn[t].at = "closed" /\ Told(t, "message") =>
    Whole(t) /\ EndsWithAReply(turn[t].messages)

Cards(s) == {i \in DOMAIN s : s[i] = "card"}
CardsFit(t) ==
  Cardinality(Cards(events[t])) + Once(turn[t].at = "prepared") <= prepared[t]

\* The inductive invariant of the turns.
TurnFits(t) ==
  MessagesFit(t) /\ CallsFit(t) /\ RowsFit(t) /\ EventsFit(t) /\ ToldFits(t) /\ CardsFit(t)
TurnsInv ==
  /\ TypeOK /\ nextId \in Nat /\ EventsAreATurn
  /\ \A t \in Turns : TurnFits(t)

-----------------------------------------------------------------------------
\* The stream

Over == At(TheTurn, "closed")
Made == Len(events[TheTurn])
\* The sentinel is not taken: the queue holds the events that were not written, in order.
Queued ==
  /\ response \in {"open", "left", "closed"}
  /\ Len(queue) = Made - Len(sent) + Once(Over)
  /\ \A i \in 1..(Made - Len(sent)) : queue[i] = Len(sent) + i
  /\ Over => queue[Made - Len(sent) + 1] = Stream!End
Drained == Over /\ queue = <<>> /\ Len(sent) = Made /\ response # "open"

StreamInv ==
  /\ Stream!TypeOK
  /\ Len(sent) <= Made
  /\ \A i \in 1..Len(sent) : sent[i] = i
  /\ Queued \/ Drained
  /\ Over => producer = "ended"
  /\ producer = "ended" => Over \/ (At(TheTurn, "idle") /\ response = "closed")
  /\ response = "closed" => producer # "running"
  /\ producer = "cancelled" => response = "closed"

\* The inductive invariant of a turn with its stream.
ChatInv == TurnsInv /\ StreamInv

-----------------------------------------------------------------------------
\* Messages

LEMMA MessagesAreTyped ==
  /\ User \in Message
  /\ \A n, l \in Nat : Request(n, l) \in Message
  /\ \A n \in Nat : Result(n) \in Message
  /\ \A text \in {"plain", "checked"} : Reply(text) \in Message
BY DEF User, Request, Result, Reply, Message, Roles

\* A reply ends what was well formed without one.
LEMMA ReplyIsLast ==
  ASSUME NEW s \in Seq(Message), WellFormed(s), \A i \in 1..Len(s) : s[i].role # "reply",
         NEW text \in {"plain", "checked"}
  PROVE  /\ Append(s, Reply(text)) \in Seq(Message)
         /\ Len(Append(s, Reply(text))) = Len(s) + 1
         /\ \A i \in 1..Len(s) : Append(s, Reply(text))[i] = s[i]
         /\ Append(s, Reply(text))[Len(s) + 1] = Reply(text)
         /\ WellFormed(Append(s, Reply(text))) /\ EndsWithAReply(Append(s, Reply(text)))
<1> DEFINE r == Append(s, Reply(text))
<1>1. Reply(text) \in Message /\ Reply(text).role = "reply" /\ Reply(text).text = text
  BY MessagesAreTyped DEF Reply
<1>2. PICK n \in Nat : n = Len(s)
  BY LenProperties
<1>3. /\ r \in Seq(Message) /\ r # <<>> /\ Len(r) = n + 1
      /\ \A i \in 1..n : r[i] = s[i]
      /\ r[n + 1] = Reply(text)
  BY <1>1, <1>2, AppendProperties
<1> HIDE DEF r
<1>4. WellFormed(r)
  <2> SUFFICES ASSUME NEW i \in 1..Len(r)
               PROVE  /\ r[i].role # "user"
                      /\ r[i].role = "request" =>
                           /\ i + r[i].lookups <= Len(r)
                           /\ \A j \in 1..Len(r) :
                                r[j].role = "result" /\ r[j].round = r[i].round
                                  <=> j \in (i + 1)..(i + r[i].lookups)
                      /\ r[i].role = "result" =>
                           \E j \in 1..i : /\ r[j].role = "request" /\ r[j].round = r[i].round
                                           /\ \A k \in (j + 1)..i : r[k].role # "request"
                      /\ r[i].role = "reply" => i = Len(r) /\ r[i].text # "unsupported"
    BY DEF WellFormed
  <2>1. CASE i = n + 1
    BY <1>1, <1>2, <1>3, <2>1
  <2>2. CASE i \in 1..n
    <3>1. r[i] = s[i] /\ s[i].role # "user" /\ s[i].role # "reply"
      BY <1>2, <1>3, <2>2 DEF WellFormed
    <3>2. ASSUME s[i].role = "request"
          PROVE  /\ i + s[i].lookups <= n
                 /\ \A j \in 1..n : s[j].role = "result" /\ s[j].round = s[i].round
                                      <=> j \in (i + 1)..(i + s[i].lookups)
      BY <1>2, <2>2, <3>2 DEF WellFormed
    <3>3. ASSUME s[i].role = "result"
          PROVE  \E j \in 1..i : /\ s[j].role = "request" /\ s[j].round = s[i].round
                                 /\ \A k \in (j + 1)..i : s[k].role # "request"
      BY <1>2, <2>2, <3>3 DEF WellFormed
    <3>4. s[i].lookups \in Nat
      <4>1. s[i] \in Message
        BY <1>2, <2>2, ElementOfSeq
      <4> QED
        BY <4>1 DEF Message
    <3>5. ASSUME r[i].role = "request"
          PROVE  /\ i + r[i].lookups <= n + 1
                 /\ \A j \in 1..(n + 1) : r[j].role = "result" /\ r[j].round = r[i].round
                                      <=> j \in (i + 1)..(i + r[i].lookups)
      <4>1. i + s[i].lookups <= n
        BY <3>1, <3>2, <3>5
      <4>2. ASSUME NEW j \in 1..n
            PROVE  r[j].role = "result" /\ r[j].round = r[i].round
                     <=> j \in (i + 1)..(i + r[i].lookups)
        BY <1>3, <3>1, <3>2, <3>5, <4>2
      <4>3. r[n + 1].role # "result" /\ n + 1 \notin (i + 1)..(i + r[i].lookups)
        BY <1>1, <1>3, <3>1, <3>4, <4>1
      <4> QED
        BY <3>1, <3>4, <4>1, <4>2, <4>3
    <3>6. ASSUME r[i].role = "result"
          PROVE  \E j \in 1..i : /\ r[j].role = "request" /\ r[j].round = r[i].round
                                 /\ \A k \in (j + 1)..i : r[k].role # "request"
      BY <1>3, <2>2, <3>1, <3>3, <3>6
    <3> QED
      BY <1>3, <3>1, <3>5, <3>6
  <2> QED
    BY <1>2, <1>3, <2>1, <2>2
<1>5. EndsWithAReply(r)
  BY <1>1, <1>2, <1>3 DEF EndsWithAReply
<1> QED
  BY <1>2, <1>3, <1>4, <1>5 DEF r

\* A whole round of a number not used before.
LEMMA RoundIsWhole ==
  ASSUME NEW s \in Seq(Message), WellFormed(s), \A i \in 1..Len(s) : s[i].role # "reply",
         NEW n \in Nat, NEW a \in Nat, \A i \in 1..Len(s) : s[i].round < n,
         NEW r, r = <<Request(n, a)>> \o [i \in 1..a |-> Result(n)]
  PROVE  /\ s \o r \in Seq(Message)
         /\ WellFormed(s \o r)
         /\ \A i \in 1..Len(s \o r) : (s \o r)[i].round <= n /\ (s \o r)[i].role # "reply"
<1>1. PICK m \in Nat : m = Len(s)
  BY LenProperties
<1> DEFINE results == [i \in 1..a |-> Result(n)]
<1>2. results \in Seq(Message) /\ Len(results) = a /\ \A i \in 1..a : results[i] = Result(n)
  BY MessagesAreTyped
<1>3. <<Request(n, a)>> \in Seq(Message) /\ Len(<<Request(n, a)>>) = 1 /\ <<Request(n, a)>>[1] = Request(n, a)
  BY MessagesAreTyped
<1>4. r = <<Request(n, a)>> \o results
  OBVIOUS
<1> HIDE DEF results
<1>5. /\ r \in Seq(Message) /\ Len(r) = a + 1 /\ r[1] = Request(n, a)
      /\ \A i \in 2..(a + 1) : r[i] = Result(n)
  BY <1>2, <1>3, <1>4, ConcatProperties
<1> DEFINE w == s \o r
<1>6. /\ w \in Seq(Message) /\ Len(w) = m + a + 1
      /\ \A i \in 1..m : w[i] = s[i]
      /\ w[m + 1] = Request(n, a)
      /\ \A i \in (m + 2)..(m + a + 1) : w[i] = Result(n)
  <2>1. /\ w \in Seq(Message) /\ Len(w) = Len(s) + Len(r)
        /\ \A i \in 1..(Len(s) + Len(r)) : w[i] = IF i <= Len(s) THEN s[i] ELSE r[i - Len(s)]
    BY <1>5, ConcatProperties
  <2> HIDE DEF w
  <2>2. Len(w) = m + a + 1
    BY <1>1, <1>5, <2>1
  <2>3. ASSUME NEW i \in 1..m PROVE w[i] = s[i]
    <3>1. i \in 1..(Len(s) + Len(r)) /\ i <= Len(s)
      BY <1>1, <1>5
    <3> QED
      BY <2>1, <3>1
  <2>4. w[m + 1] = Request(n, a)
    <3>1. m + 1 \in 1..(Len(s) + Len(r)) /\ ~(m + 1 <= Len(s)) /\ (m + 1) - Len(s) = 1
      BY <1>1, <1>5
    <3> QED
      BY <1>5, <2>1, <3>1
  <2>5. ASSUME NEW i \in (m + 2)..(m + a + 1) PROVE w[i] = Result(n)
    <3>1. i \in 1..(Len(s) + Len(r)) /\ ~(i <= Len(s)) /\ i - Len(s) \in 2..(a + 1)
      BY <1>1, <1>5
    <3> QED
      BY <1>5, <2>1, <3>1
  <2> QED
    BY <2>1, <2>2, <2>3, <2>4, <2>5
<1> HIDE DEF w
<1>7. /\ Request(n, a).role = "request" /\ Request(n, a).round = n /\ Request(n, a).lookups = a
      /\ Result(n).role = "result" /\ Result(n).round = n
  BY DEF Request, Result
<1>8. \A i \in 1..m : s[i].lookups \in Nat /\ s[i].round \in Nat
  <2>1. \A i \in 1..m : s[i] \in Message
    BY <1>1, ElementOfSeq
  <2> QED
    BY <2>1 DEF Message
<1> DEFINE IsOf(i) == i \in 1..m \/ i = m + 1 \/ i \in (m + 2)..(m + a + 1)
<1>0. \A i \in 1..Len(w) : IsOf(i)
  BY <1>6
<1> HIDE DEF IsOf
<1>9. WellFormed(w)
  <2> SUFFICES ASSUME NEW i \in 1..Len(w)
               PROVE  /\ w[i].role # "user"
                      /\ w[i].role = "request" =>
                           /\ i + w[i].lookups <= Len(w)
                           /\ \A j \in 1..Len(w) :
                                w[j].role = "result" /\ w[j].round = w[i].round
                                  <=> j \in (i + 1)..(i + w[i].lookups)
                      /\ w[i].role = "result" =>
                           \E j \in 1..i : /\ w[j].role = "request" /\ w[j].round = w[i].round
                                           /\ \A k \in (j + 1)..i : w[k].role # "request"
                      /\ w[i].role = "reply" => i = Len(w) /\ w[i].text # "unsupported"
    BY DEF WellFormed
  <2>1. CASE i = m + 1
    <3>1. \A j \in 1..Len(w) : w[j].role = "result" /\ w[j].round = n <=> j \in (m + 2)..(m + 1 + a)
      <4> TAKE j \in 1..Len(w)
      <4>1. CASE j \in 1..m
        BY <1>1, <1>6, <1>8, <4>1
      <4>2. CASE j = m + 1
        BY <1>6, <1>7, <4>2
      <4>3. CASE j \in (m + 2)..(m + a + 1)
        BY <1>6, <1>7, <4>3
      <4> QED
        BY <1>0, <4>1, <4>2, <4>3 DEF IsOf
    <3>2. w[i].role = "request" /\ w[i].round = n /\ w[i].lookups = a /\ i + a <= Len(w)
      BY <1>6, <1>7, <2>1
    <3>3. (i + 1)..(i + w[i].lookups) = (m + 2)..(m + 1 + a)
      BY <2>1, <3>2
    <3> QED
      BY <3>1, <3>2, <3>3
  <2>2. CASE i \in (m + 2)..(m + a + 1)
    <3>1. w[m + 1].role = "request" /\ w[m + 1].round = w[i].round /\ m + 1 \in 1..i
      BY <1>6, <1>7, <2>2
    <3>2. \A k \in (m + 2)..i : w[k].role # "request"
      BY <1>6, <1>7, <2>2
    <3>3. w[i].role = "result" /\ (m + 1) + 1 = m + 2
      BY <1>6, <1>7, <2>2
    <3> QED
      BY <3>1, <3>2, <3>3
  <2>3. CASE i \in 1..m
    <3>1. w[i] = s[i] /\ s[i].role # "user" /\ s[i].role # "reply" /\ s[i].round < n
      BY <1>1, <1>6, <2>3 DEF WellFormed
    <3>2. ASSUME s[i].role = "request"
          PROVE  /\ i + s[i].lookups <= m
                 /\ \A j \in 1..m : s[j].role = "result" /\ s[j].round = s[i].round
                                      <=> j \in (i + 1)..(i + s[i].lookups)
      BY <1>1, <2>3, <3>2 DEF WellFormed
    <3>3. ASSUME s[i].role = "result"
          PROVE  \E j \in 1..i : /\ s[j].role = "request" /\ s[j].round = s[i].round
                                 /\ \A k \in (j + 1)..i : s[k].role # "request"
      BY <1>1, <2>3, <3>3 DEF WellFormed
    <3>4. \A j \in (m + 1)..(m + a + 1) : w[j].round # s[i].round
      <4> TAKE j \in (m + 1)..(m + a + 1)
      <4>1. w[j].round = n
        <5>1. CASE j = m + 1
          BY <1>6, <1>7, <5>1
        <5>2. CASE j \in (m + 2)..(m + a + 1)
          BY <1>6, <1>7, <5>2
        <5> QED
          BY <5>1, <5>2
      <4> QED
        BY <1>8, <2>3, <3>1, <4>1
    <3>5. ASSUME w[i].role = "request"
          PROVE  /\ i + w[i].lookups <= Len(w)
                 /\ \A j \in 1..Len(w) : w[j].role = "result" /\ w[j].round = w[i].round
                                      <=> j \in (i + 1)..(i + w[i].lookups)
      <4>1. i + w[i].lookups <= m
        BY <3>1, <3>2, <3>5
      <4>2. ASSUME NEW j \in 1..m
            PROVE  w[j].role = "result" /\ w[j].round = w[i].round
                     <=> j \in (i + 1)..(i + w[i].lookups)
        BY <1>6, <3>1, <3>2, <3>5, <4>2
      <4>3. ASSUME NEW j \in (m + 1)..(m + a + 1)
            PROVE  ~(w[j].round = w[i].round) /\ j \notin (i + 1)..(i + w[i].lookups)
        <5>1. ~(w[j].round = w[i].round)
          BY <3>1, <3>4, <4>3
        <5>2. w[i].lookups \in Nat
          BY <1>8, <2>3, <3>1
        <5>3. ~(j <= m)
          BY <4>3
        <5> QED
          BY <2>3, <4>1, <5>1, <5>2, <5>3
      <4> QED
        BY <1>6, <1>8, <2>3, <3>1, <4>1, <4>2, <4>3
    <3>6. ASSUME w[i].role = "result"
          PROVE  \E j \in 1..i : /\ w[j].role = "request" /\ w[j].round = w[i].round
                                 /\ \A k \in (j + 1)..i : w[k].role # "request"
      <4>1. \A k \in 1..i : w[k] = s[k]
        <5>1. 1..i \subseteq 1..m
          BY <2>3
        <5> QED
          BY <1>6, <5>1
      <4>2. PICK j \in 1..i : /\ s[j].role = "request" /\ s[j].round = s[i].round
                              /\ \A k \in (j + 1)..i : s[k].role # "request"
        BY <3>1, <3>3, <3>6
      <4>3. (j + 1)..i \subseteq 1..i
        BY <2>3
      <4> QED
        BY <3>1, <4>1, <4>2, <4>3
    <3> QED
      BY <3>1, <3>5, <3>6
  <2> QED
    BY <1>0, <2>1, <2>2, <2>3 DEF IsOf
<1>10. \A i \in 1..Len(w) : w[i].round <= n /\ w[i].role # "reply"
  <2> SUFFICES ASSUME NEW i \in 1..Len(w) PROVE w[i].round <= n /\ w[i].role # "reply"
    OBVIOUS
  <2>1. CASE i \in 1..m
    BY <1>1, <1>6, <1>8, <2>1
  <2>2. CASE i = m + 1
    BY <1>6, <1>7, <2>2
  <2>3. CASE i \in (m + 2)..(m + a + 1)
    BY <1>6, <1>7, <2>3
  <2> QED
    BY <1>0, <2>1, <2>2, <2>3 DEF IsOf
<1> QED
  BY <1>6, <1>9, <1>10 DEF w

-----------------------------------------------------------------------------
\* One step of a turn

LEMMA TurnsAreTyped ==
  ASSUME TypeOK, NEW t \in Turns
  PROVE  /\ turn[t].at \in Stages /\ turn[t].rounds \in Nat /\ turn[t].calls \in Nat
         /\ turn[t].nudged \in BOOLEAN /\ turn[t].retrying \in BOOLEAN
         /\ turn[t].asked \in Nat /\ turn[t].ran \in Nat
         /\ turn[t].messages \in Seq(Message)
         /\ turn[t].error \in {"none", "timeout", "model", "limited"}
         /\ turn[t] \in Turn
         /\ turn[t] = [at |-> turn[t].at, rounds |-> turn[t].rounds, calls |-> turn[t].calls,
                       nudged |-> turn[t].nudged, retrying |-> turn[t].retrying,
                       asked |-> turn[t].asked, ran |-> turn[t].ran,
                       messages |-> turn[t].messages, error |-> turn[t].error]
<1>1. turn[t] \in Turn
  BY DEF TypeOK
<1> QED
  BY <1>1 DEF Turn

\* What a step does to what was gathered.
Gathers(t, messages) == turn'[t].messages = messages /\ turn'[t].rounds = turn[t].rounds
Moves(t) ==
  /\ Gathers(t, turn[t].messages)
  /\ turn'[t].error = turn[t].error
  /\ \/ turn[t].at \in Before /\ turn'[t].at \in Before
     \/ turn[t].at = "opened" /\ turn'[t].at = "calling"
     \/ turn[t].at \in {"calling", "round"} /\ turn'[t].at = "calling"
     \/ turn[t].at \in {"lookups", "prepared"} /\ turn'[t].at \in {"lookups", "prepared"}
     \/ turn[t].at \in {"ended", "storing"} /\ turn'[t].at = "storing"
     \/ turn[t].at = "storing" /\ turn'[t].at = "stored"
Closes(t) == Gathers(t, turn[t].messages) /\ turn'[t].at = "closed"
Breaks(t) ==
  /\ turn[t].at \in InTime /\ Gathers(t, turn[t].messages)
  /\ turn'[t].at = "ended" /\ turn'[t].error # "none"
OpensRound(t) ==
  /\ turn[t].at = "calling" /\ turn'[t].at = "lookups"
  /\ turn'[t].rounds = turn[t].rounds + 1 /\ turn'[t].messages = turn[t].messages
  /\ turn'[t].error = turn[t].error
EndsRound(t) ==
  /\ turn[t].at = "lookups" /\ turn'[t].at = "round"
  /\ Gathers(t, turn[t].messages \o Round(t))
  /\ turn'[t].error = turn[t].error /\ turn[t].asked = turn[t].ran
Replies(t) ==
  /\ turn[t].at = "calling" /\ turn'[t].at = "ended"
  /\ \E text \in {"plain", "checked"} : Gathers(t, Append(turn[t].messages, Reply(text)))

LEMMA AStepGathers ==
  ASSUME TypeOK, NEW t \in Turns, Runs(t) \/ Cancel(t)
  PROVE  /\ Moves(t) \/ Closes(t) \/ Breaks(t) \/ OpensRound(t) \/ EndsRound(t) \/ Replies(t)
         /\ turn[t].at # "closed"
<1>0. turn \in [Turns -> Turn] /\ turn[t] \in Turn
  BY DEF TypeOK
<1> USE <1>0 DEF At, Gathers, Becomes, Turn
<1>1. CASE Limited(t)
  BY <1>1 DEF Limited, Closes
<1>2. CASE AddUser(t)
  BY <1>2 DEF AddUser, Goes, Moves, Before
<1>3. CASE CommitUser(t)
  BY <1>3 DEF CommitUser, Goes, Moves, Before
<1>4. CASE Open(t)
  BY <1>4 DEF Open, Goes, Moves
<1>5. CASE RunLookup(t)
  BY <1>5 DEF RunLookup, Moves
<1>6. CASE Prepare(t)
  BY <1>6 DEF Prepare, Goes, Moves
<1>7. CASE ShowCard(t)
  BY <1>7 DEF ShowCard, Moves
<1>8. CASE EndRound(t)
  BY <1>8 DEF EndRound, EndsRound
<1>9. CASE CommitRound(t)
  BY <1>9 DEF CommitRound, Goes, Moves
<1>10. CASE StoreNext(t)
  BY <1>10 DEF StoreNext, Goes, Moves
<1>11. CASE CommitRest(t)
  BY <1>11 DEF CommitRest, Goes, Moves
<1>12. CASE Tell(t)
  BY <1>12 DEF Tell, Goes, Closes
<1>13. CASE ModelFails(t)
  BY <1>13 DEF ModelFails, Breaks, InTime
<1>14. CASE Deadline(t)
  BY <1>14 DEF Deadline, Breaks, InTime
<1>15. CASE DatabaseFails(t)
  BY <1>15 DEF DatabaseFails, Goes, Active, Closes
<1>16. CASE Cancel(t)
  BY <1>16 DEF Cancel, Goes, Active, Closes
<1>17. CASE AsksForLookups(t)
  BY <1>17 DEF AsksForLookups, Answered, Called, OpensRound
<1>18. ASSUME Answered(t), NEW text \in {"plain", "checked"}, Becomes(t, Finished(t, text))
       PROVE  Replies(t) /\ turn[t].at # "closed"
  <2>1. turn'[t] = Finished(t, text)
    BY <1>18
  <2> QED
    BY <1>18, <2>1 DEF Answered, Finished, Called, Replies
<1>19. CASE AsksForMore(t)
  BY <1>18, <1>19 DEF AsksForMore, FallsBack, Answered
<1>20. CASE AnswersInNumbersKnown(t)
  BY <1>18, <1>20 DEF AnswersInNumbersKnown, Answered
<1>21. CASE AnswersNothing(t)
  <2>1. CASE FallsBack(t)
    BY <1>18, <1>21, <2>1 DEF AnswersNothing, FallsBack, Answered
  <2>2. CASE Becomes(t, [Called(t) EXCEPT !.nudged = TRUE])
    BY <1>21, <2>2 DEF AnswersNothing, Answered, Called, Moves
  <2> QED
    BY <1>21, <2>1, <2>2 DEF AnswersNothing
<1>22. CASE AnswersInOtherNumbers(t)
  <2>1. CASE FallsBack(t)
    BY <1>18, <1>22, <2>1 DEF AnswersInOtherNumbers, FallsBack, Answered
  <2>2. CASE Becomes(t, [Called(t) EXCEPT !.retrying = TRUE])
    BY <1>22, <2>2 DEF AnswersInOtherNumbers, Answered, Called, Moves
  <2> QED
    BY <1>22, <2>1, <2>2 DEF AnswersInOtherNumbers
<1> QED
  BY <1>1, <1>2, <1>3, <1>4, <1>5, <1>6, <1>7, <1>8, <1>9, <1>10, <1>11, <1>12, <1>13, <1>14,
     <1>15, <1>16, <1>17, <1>19, <1>20, <1>21, <1>22 DEF Runs, OwnStep, ModelAnswers

\* Whatever a step adds, what was gathered stays well formed.
LEMMA MessagesStep ==
  ASSUME TypeOK, NEW t \in Turns, MessagesFit(t), Runs(t) \/ Cancel(t)
  PROVE  MessagesFit(t)' /\ turn'[t].messages \in Seq(Message)
<1>1. turn[t].messages \in Seq(Message) /\ turn[t].rounds \in Nat /\ turn[t].ran \in Nat
  BY TurnsAreTyped
<1>2. \A i \in 1..Len(turn[t].messages) : turn[t].messages[i].round \in Nat
  <2>1. \A i \in 1..Len(turn[t].messages) : turn[t].messages[i] \in Message
    BY <1>1, ElementOfSeq
  <2> QED
    BY <2>1 DEF Message
<1>3. CASE Moves(t)
  <2>1. MessagesFit(t)'
    BY <1>3 DEF MessagesFit, Moves, Gathers, Before, BeforeTheEnd, InTime
  <2> QED
    BY <1>1, <1>3, <2>1 DEF Moves, Gathers
<1>4. CASE Closes(t)
  BY <1>1, <1>4 DEF MessagesFit, Closes, Gathers, Before, BeforeTheEnd, InTime
<1>5. CASE Breaks(t)
  BY <1>1, <1>5 DEF MessagesFit, Breaks, Gathers, Before, BeforeTheEnd, InTime
<1>6. CASE OpensRound(t)
  BY <1>1, <1>2, <1>6 DEF MessagesFit, OpensRound, Before, BeforeTheEnd, InTime
<1>7. CASE EndsRound(t)
  <2> DEFINE s == turn[t].messages
             w == turn[t].messages \o Round(t)
  <2>1. /\ WellFormed(s) /\ \A i \in 1..Len(s) : s[i].role # "reply" /\ s[i].round < turn[t].rounds
        /\ turn[t].error = "none"
    BY <1>7 DEF MessagesFit, EndsRound, BeforeTheEnd, InTime
  <2>2. /\ w \in Seq(Message) /\ WellFormed(w)
        /\ \A i \in 1..Len(w) : w[i].round <= turn[t].rounds /\ w[i].role # "reply"
    <3>1. Round(t) = <<Request(turn[t].rounds, turn[t].ran)>> \o [i \in 1..turn[t].ran |-> Result(turn[t].rounds)]
      BY <1>7 DEF EndsRound, Round
    <3> HIDE DEF w
    <3>2. w = s \o Round(t)
      BY DEF w
    <3> HIDE DEF s
    <3> QED
      BY <1>1, <2>1, <3>1, <3>2, RoundIsWhole DEF s
  <2>3. turn'[t].messages = w /\ turn'[t].rounds = turn[t].rounds /\ turn'[t].at = "round" /\ turn'[t].error = "none"
    BY <1>7, <2>1 DEF EndsRound, Gathers
  <2> HIDE DEF s, w
  <2> QED
    BY <2>2, <2>3 DEF MessagesFit, Before, BeforeTheEnd, InTime
<1>8. CASE Replies(t)
  <2>1. PICK text \in {"plain", "checked"} : Gathers(t, Append(turn[t].messages, Reply(text)))
    BY <1>8 DEF Replies
  <2> DEFINE s == turn[t].messages
             w == Append(turn[t].messages, Reply(text))
  <2>2. WellFormed(s) /\ \A i \in 1..Len(s) : s[i].role # "reply" /\ s[i].round <= turn[t].rounds
    BY <1>8 DEF MessagesFit, Replies, BeforeTheEnd, InTime
  <2>3. /\ w \in Seq(Message) /\ Len(w) = Len(s) + 1
        /\ \A i \in 1..Len(s) : w[i] = s[i]
        /\ w[Len(s) + 1] = Reply(text)
        /\ WellFormed(w) /\ EndsWithAReply(w)
    BY <1>1, <2>2, ReplyIsLast
  <2>4. Len(s) \in Nat /\ Reply(text).round = 0
    BY <1>1, LenProperties DEF Reply
  <2>5. turn'[t].messages = w /\ turn'[t].rounds = turn[t].rounds /\ turn'[t].at = "ended"
    BY <1>8, <2>1 DEF Replies, Gathers
  <2> HIDE DEF s, w
  <2>6. \A i \in 1..Len(w) : w[i].round <= turn[t].rounds
    BY <1>1, <2>2, <2>3, <2>4
  <2> QED
    BY <2>3, <2>5, <2>6 DEF MessagesFit, Before, BeforeTheEnd, InTime
<1> QED
  BY <1>3, <1>4, <1>5, <1>6, <1>7, <1>8, AStepGathers

\* The model is asked once for each round, and beyond that for the nudge, the retry and
\* the end.
LEMMA CallsStep ==
  ASSUME TypeOK, NEW t \in Turns, CallsFit(t), Runs(t) \/ Cancel(t)
  PROVE  CallsFit(t)'
<1>0. turn \in [Turns -> Turn] /\ turn[t] \in Turn
  BY DEF TypeOK
<1> USE <1>0 DEF At, Becomes, Turn, CallsFit, Once, Before, BeforeTheEnd, InTime
<1>1. CASE Limited(t)
  BY <1>1 DEF Limited
<1>2. CASE AddUser(t)
  BY <1>2 DEF AddUser, Goes
<1>3. CASE CommitUser(t)
  BY <1>3 DEF CommitUser, Goes
<1>4. CASE Open(t)
  BY <1>4 DEF Open, Goes
<1>5. CASE RunLookup(t)
  BY <1>5 DEF RunLookup
<1>6. CASE Prepare(t)
  BY <1>6 DEF Prepare, Goes
<1>7. CASE ShowCard(t)
  BY <1>7 DEF ShowCard
<1>8. CASE EndRound(t)
  BY <1>8 DEF EndRound
<1>9. CASE CommitRound(t)
  BY <1>9 DEF CommitRound, Goes
<1>10. CASE StoreNext(t)
  BY <1>10 DEF StoreNext, Goes
<1>11. CASE CommitRest(t)
  BY <1>11 DEF CommitRest, Goes
<1>12. CASE Tell(t)
  BY <1>12 DEF Tell, Goes
<1>13. CASE ModelFails(t)
  BY <1>13 DEF ModelFails
<1>14. CASE Deadline(t)
  BY <1>14 DEF Deadline
<1>15. CASE DatabaseFails(t)
  BY <1>15 DEF DatabaseFails, Goes, Active
<1>16. CASE Cancel(t)
  BY <1>16 DEF Cancel, Goes, Active
<1>17. CASE AsksForLookups(t)
  BY <1>17 DEF AsksForLookups, Answered, Called
<1>18. ASSUME Answered(t), NEW text, Becomes(t, Finished(t, text))
       PROVE  CallsFit(t)'
  BY <1>18 DEF Answered, Finished, Called
<1>19. CASE AsksForMore(t)
  BY <1>18, <1>19 DEF AsksForMore, FallsBack, Answered
<1>20. CASE AnswersInNumbersKnown(t)
  BY <1>18, <1>20 DEF AnswersInNumbersKnown, Answered
<1>21. CASE AnswersNothing(t)
  <2>1. CASE FallsBack(t)
    BY <1>18, <1>21, <2>1 DEF AnswersNothing, FallsBack, Answered
  <2>2. CASE ~turn[t].nudged /\ Becomes(t, [Called(t) EXCEPT !.nudged = TRUE])
    BY <1>21, <2>2 DEF AnswersNothing, Answered, Called
  <2> QED
    BY <1>21, <2>1, <2>2 DEF AnswersNothing
<1>22. CASE AnswersInOtherNumbers(t)
  <2>1. CASE FallsBack(t)
    BY <1>18, <1>22, <2>1 DEF AnswersInOtherNumbers, FallsBack, Answered
  <2>2. CASE ~turn[t].retrying /\ Becomes(t, [Called(t) EXCEPT !.retrying = TRUE])
    BY <1>22, <2>2 DEF AnswersInOtherNumbers, Answered, Called
  <2> QED
    BY <1>22, <2>1, <2>2 DEF AnswersInOtherNumbers
<1> QED
  BY <1>1, <1>2, <1>3, <1>4, <1>5, <1>6, <1>7, <1>8, <1>9, <1>10, <1>11, <1>12, <1>13, <1>14,
     <1>15, <1>16, <1>17, <1>19, <1>20, <1>21, <1>22 DEF Runs, OwnStep, ModelAnswers

-----------------------------------------------------------------------------
\* Events

LEMMA OneMore ==
  ASSUME NEW s \in Seq(Events), NEW a \in Events
  PROVE  /\ s \o <<a>> \in Seq(Events) /\ Len(s) \in Nat /\ Len(s \o <<a>>) = Len(s) + 1
         /\ \A i \in 1..Len(s) : (s \o <<a>>)[i] = s[i]
         /\ (s \o <<a>>)[Len(s) + 1] = a
<1>1. <<a>> \in Seq(Events) /\ Len(<<a>>) = 1 /\ <<a>>[1] = a
  OBVIOUS
<1>2. PICK n \in Nat : n = Len(s)
  BY LenProperties
<1> DEFINE x == <<a>>
<1>3. x \in Seq(Events) /\ Len(x) = 1 /\ x[1] = a
  BY <1>1
<1> HIDE DEF x
<1>4. /\ s \o x \in Seq(Events) /\ Len(s \o x) = n + 1
      /\ \A i \in 1..(n + 1) : (s \o x)[i] = IF i <= n THEN s[i] ELSE x[i - n]
  BY <1>2, <1>3, ConcatProperties
<1> HIDE DEF x
<1>5. \A i \in 1..n : (s \o x)[i] = s[i]
  BY <1>4
<1>6. (s \o x)[n + 1] = a
  BY <1>3, <1>4
<1> QED
  BY <1>2, <1>4, <1>5, <1>6 DEF x

LEMMA TwoMore ==
  ASSUME NEW s \in Seq(Events), NEW a \in Events, NEW b \in Events
  PROVE  /\ s \o <<a, b>> \in Seq(Events) /\ Len(s) \in Nat /\ Len(s \o <<a, b>>) = Len(s) + 2
         /\ \A i \in 1..Len(s) : (s \o <<a, b>>)[i] = s[i]
         /\ (s \o <<a, b>>)[Len(s) + 1] = a /\ (s \o <<a, b>>)[Len(s) + 2] = b
<1>1. <<a, b>> \in Seq(Events) /\ Len(<<a, b>>) = 2 /\ <<a, b>>[1] = a /\ <<a, b>>[2] = b
  OBVIOUS
<1>2. PICK n \in Nat : n = Len(s)
  BY LenProperties
<1> DEFINE x == <<a, b>>
<1>3. x \in Seq(Events) /\ Len(x) = 2 /\ x[1] = a /\ x[2] = b
  BY <1>1
<1> HIDE DEF x
<1>4. /\ s \o x \in Seq(Events) /\ Len(s \o x) = n + 2
      /\ \A i \in 1..(n + 2) : (s \o x)[i] = IF i <= n THEN s[i] ELSE x[i - n]
  <2>1. /\ s \o x \in Seq(Events) /\ Len(s \o x) = Len(s) + Len(x)
        /\ \A i \in 1..(Len(s) + Len(x)) : (s \o x)[i] = IF i <= Len(s) THEN s[i] ELSE x[i - Len(s)]
    BY <1>3, ConcatProperties
  <2> QED
    BY <1>2, <1>3, <2>1
<1>5. \A i \in 1..n : (s \o x)[i] = s[i]
  BY <1>4
<1>6. (s \o x)[n + 1] = a /\ (s \o x)[n + 2] = b
  BY <1>3, <1>4
<1> QED
  BY <1>2, <1>4, <1>5, <1>6 DEF x

\* What a step puts on the stream.
Running == InTime \cup {"ended", "storing", "stored"}
Quiet(t) ==
  /\ events'[t] = events[t]
  /\ \/ turn[t].at \in Before /\ turn'[t].at \in Before
     \/ turn[t].at \in Running /\ turn'[t].at \in Running
Names(t) ==
  /\ turn[t].at = "opened" /\ turn'[t].at = "calling"
  /\ events'[t] = events[t] \o <<"conversation">>
Shows(t) ==
  /\ turn[t].at \in InTime /\ turn'[t].at \in InTime
  /\ \/ \E a \in {"status", "card"} : events'[t] = events[t] \o <<a>>
     \/ events'[t] = events[t] \o <<"status", "result">>
EndsAs(t) ==
  /\ turn[t].at # "closed" /\ turn'[t].at = "closed"
  /\ \/ events'[t] = events[t] \o <<"error", "done">>
     \/ /\ events'[t] = events[t] \o <<"message", "done">>
        /\ turn[t].error = "none"
        /\ turn[t].at = "stored" \/ (turn[t].at = "ended" /\ turn[t].messages = <<>>)
        /\ turn'[t].messages = turn[t].messages /\ rows' = rows
     \/ events'[t] = events[t] \o <<"done">> /\ turn[t].at # "idle"

LEMMA AStepShows ==
  ASSUME TypeOK, NEW t \in Turns, Runs(t) \/ Cancel(t)
  PROVE  Quiet(t) \/ Names(t) \/ Shows(t) \/ EndsAs(t)
<1>0. /\ turn \in [Turns -> Turn] /\ turn[t] \in Turn
      /\ events \in [Turns -> Seq(Events)] /\ events[t] \in Seq(Events)
  BY DEF TypeOK
<1> USE <1>0 DEF At, Becomes, Turn, Emit, InTime, Running, Before
<1>1. CASE Limited(t)
  BY <1>1 DEF Limited, EndsAs
<1>2. CASE AddUser(t)
  BY <1>2 DEF AddUser, Goes, Quiet
<1>3. CASE CommitUser(t)
  BY <1>3 DEF CommitUser, Goes, Quiet
<1>4. CASE Open(t)
  BY <1>4 DEF Open, Goes, Names
<1>5. CASE RunLookup(t)
  <2>1. PICK shown \in {<<>>, <<"status">>, <<"status", "result">>} : Emit(t, shown)
    BY <1>5 DEF RunLookup
  <2>2. turn'[t].at = "lookups" /\ turn[t].at = "lookups"
    BY <1>5 DEF RunLookup
  <2>3. CASE shown = <<>>
    <3>1. events[t] \o <<>> = events[t]
      BY ConcatEmptySeq
    <3>2. events'[t] = events[t]
      BY <2>1, <2>3, <3>1
    <3> QED
      BY <2>2, <3>2 DEF Quiet
  <2> QED
    BY <2>1, <2>2, <2>3 DEF Shows
<1>6. CASE Prepare(t)
  BY <1>6 DEF Prepare, Goes, Shows
<1>7. CASE ShowCard(t)
  BY <1>7 DEF ShowCard, Shows
<1>8. CASE EndRound(t)
  BY <1>8 DEF EndRound, Quiet
<1>9. CASE CommitRound(t)
  BY <1>9 DEF CommitRound, Goes, Quiet
<1>10. CASE StoreNext(t)
  BY <1>10 DEF StoreNext, Goes, Quiet
<1>11. CASE CommitRest(t)
  BY <1>11 DEF CommitRest, Goes, Quiet
<1>12. CASE Tell(t)
  BY <1>12 DEF Tell, Goes, EndsAs, tables
<1>13. CASE ModelFails(t)
  BY <1>13 DEF ModelFails, Quiet
<1>14. CASE Deadline(t)
  BY <1>14 DEF Deadline, Quiet
<1>15. CASE DatabaseFails(t)
  BY <1>15 DEF DatabaseFails, Goes, Active, EndsAs
<1>16. CASE Cancel(t)
  BY <1>16 DEF Cancel, Goes, Active, EndsAs
<1>17. CASE ModelAnswers(t)
  <2>1. Answered(t) /\ turn'[t].at \in {"calling", "lookups", "ended"}
    <3>1. CASE AsksForLookups(t)
      BY <3>1 DEF AsksForLookups, Answered, Called
    <3>2. ASSUME NEW text, Becomes(t, Finished(t, text))
          PROVE  turn'[t].at = "ended"
      BY <3>2 DEF Finished, Called
    <3>3. CASE AsksForMore(t)
      BY <3>2, <3>3 DEF AsksForMore, FallsBack
    <3>4. CASE AnswersInNumbersKnown(t)
      BY <3>2, <3>4 DEF AnswersInNumbersKnown
    <3>5. CASE AnswersNothing(t)
      BY <3>2, <3>5 DEF AnswersNothing, FallsBack, Answered, Called
    <3>6. CASE AnswersInOtherNumbers(t)
      BY <3>2, <3>6 DEF AnswersInOtherNumbers, FallsBack, Answered, Called
    <3> QED
      BY <1>17, <3>1, <3>3, <3>4, <3>5, <3>6 DEF ModelAnswers
  <2> QED
    BY <2>1 DEF Answered, Quiet
<1> QED
  BY <1>1, <1>2, <1>3, <1>4, <1>5, <1>6, <1>7, <1>8, <1>9, <1>10, <1>11, <1>12, <1>13, <1>14,
     <1>15, <1>16, <1>17 DEF Runs, OwnStep

IsATurn(t, shown) ==
  /\ At(t, "closed") <=> \E i \in 1..Len(shown) : shown[i] = "done"
  /\ \A i \in 1..Len(shown) :
       /\ shown[i] = "done" => i = Len(shown)
       /\ shown[i] \in {"message", "error"} => i = Len(shown) - 1
       /\ shown[i] \in {"status", "result", "card", "message"} => shown[1] = "conversation"
       /\ shown[i] = "conversation" => i = 1

LEMMA EventsAreTurns ==
  ASSUME TypeOK
  PROVE  EventsAreATurn <=> \A t \in Turns : IsATurn(t, events[t])
<1>1. \A t \in Turns : DOMAIN events[t] = 1..Len(events[t])
  BY LenProperties DEF TypeOK
<1> QED
  BY <1>1 DEF EventsAreATurn, IsATurn, Told

\* The events of a turn stay a turn as the panel reads it, done or not.
LEMMA EventsStep ==
  ASSUME TypeOK, NEW t \in Turns, EventsFit(t), IsATurn(t, events[t]),
         Runs(t) \/ Cancel(t)
  PROVE  EventsFit(t)' /\ IsATurn(t, events[t])' /\ events'[t] \in Seq(Events)
<1>0. /\ events[t] \in Seq(Events) /\ turn[t].at \in Stages /\ turn[t] \in Turn
      /\ {"status", "result", "card", "conversation", "message", "error", "done"} \subseteq Events
  BY DEF TypeOK, Turn, Events
<1>1. PICK n \in Nat : n = Len(events[t])
  BY <1>0, LenProperties
<1> DEFINE s == events[t]
           r == events'[t]
<1>2. /\ turn[t].at \in Before => n = 0
      /\ turn[t].at \in Running =>
           n >= 1 /\ s[1] = "conversation" /\ \A i \in 2..n : s[i] \in {"status", "result", "card"}
  BY <1>0, <1>1, EmptySeq DEF EventsFit, Running
<1>3. turn[t].at # "closed" => turn[t].at \in Before \cup Running
  BY <1>0 DEF Stages, Before, Running, InTime
<1>4. Before \cap Running = {} /\ "closed" \notin Before \cup Running /\ InTime \subseteq Running
      /\ "opened" \in Before /\ "calling" \in Running
  BY DEF Before, Running, InTime
<1>5. EventsFit(t)' <=> /\ turn'[t].at \in Before => r = <<>>
                        /\ turn'[t].at \in Running =>
                             /\ Len(r) >= 1 /\ r[1] = "conversation"
                             /\ \A i \in 2..Len(r) : r[i] \in {"status", "result", "card"}
  BY DEF EventsFit, Running
<1>6. IsATurn(t, events[t])' <=>
        /\ turn'[t].at = "closed" <=> \E i \in 1..Len(r) : r[i] = "done"
        /\ \A i \in 1..Len(r) :
             /\ r[i] = "done" => i = Len(r)
             /\ r[i] \in {"message", "error"} => i = Len(r) - 1
             /\ r[i] \in {"status", "result", "card", "message"} => r[1] = "conversation"
             /\ r[i] = "conversation" => i = 1
  BY DEF IsATurn, At
<1>7. CASE Quiet(t)
  BY <1>0, <1>1, <1>2, <1>4, <1>5, <1>6, <1>7 DEF Quiet, IsATurn, At, EventsFit, Running
<1>8. ASSUME turn'[t].at \in Running, r \in Seq(Events), NEW k \in Nat, k >= 1, Len(r) = k,
             r[1] = "conversation", \A i \in 2..k : r[i] \in {"status", "result", "card"}
      PROVE  EventsFit(t)' /\ IsATurn(t, events[t])' /\ events'[t] \in Seq(Events)
  <2>1. \A i \in 1..k : i = 1 \/ i \in 2..k
    BY <1>8
  <2> QED
    BY <1>4, <1>5, <1>6, <1>8, <2>1
<1>12. ASSUME turn'[t].at = "closed", r \in Seq(Events), NEW k \in Nat, k >= 1, Len(r) = k, r[k] = "done",
              \A i \in 1..(k - 1) :
                /\ r[i] # "done"
                /\ r[i] \in {"message", "error"} => i = k - 1
                /\ r[i] \in {"status", "result", "card", "message"} => r[1] = "conversation"
                /\ r[i] = "conversation" => i = 1
       PROVE  EventsFit(t)' /\ IsATurn(t, events[t])' /\ events'[t] \in Seq(Events)
  <2>1. \A i \in 1..k : i = k \/ i \in 1..(k - 1)
    BY <1>12
  <2>2. k \in 1..k
    BY <1>12
  <2> HIDE DEF r
  <2>3. IsATurn(t, events[t])'
    BY <1>6, <1>12, <2>1, <2>2
  <2> QED
    BY <1>4, <1>5, <1>12, <2>3 DEF r
<1>9. CASE Names(t)
  <2>1. r = s \o <<"conversation">> /\ n = 0
    BY <1>2, <1>4, <1>9 DEF Names
  <2>2. r \in Seq(Events) /\ Len(r) = n + 1 /\ r[n + 1] = "conversation"
    <3>1. "conversation" \in Events
      BY DEF Events
    <3>2. /\ s \o <<"conversation">> \in Seq(Events)
          /\ Len(s \o <<"conversation">>) = Len(s) + 1
          /\ (s \o <<"conversation">>)[Len(s) + 1] = "conversation"
      BY <1>0, <3>1, OneMore
    <3> QED
      BY <1>1, <2>1, <3>2
  <2>3. turn'[t].at \in Running /\ \A i \in 2..1 : r[i] \in {"status", "result", "card"}
    BY <1>4, <1>9 DEF Names
  <2> QED
    BY <1>8, <2>1, <2>2, <2>3
<1>10. CASE Shows(t)
  <2>1. turn[t].at \in Running /\ turn'[t].at \in Running
    BY <1>4, <1>10 DEF Shows
  <2>2. ASSUME NEW a \in {"status", "card"}, r = s \o <<a>>
        PROVE  EventsFit(t)' /\ IsATurn(t, events[t])' /\ events'[t] \in Seq(Events)
    <3>1. /\ r \in Seq(Events) /\ Len(r) = n + 1
          /\ \A i \in 1..n : r[i] = s[i]
          /\ r[n + 1] = a
      BY <1>0, <1>1, <2>2, OneMore
    <3> HIDE DEF r, s
    <3>2. r[1] = "conversation" /\ \A i \in 2..(n + 1) : r[i] \in {"status", "result", "card"}
      BY <1>1, <1>2, <2>1, <2>2, <3>1
    <3> QED
      BY <1>1, <1>8, <2>1, <3>1, <3>2
  <2>3. CASE r = s \o <<"status", "result">>
    <3>1. /\ r \in Seq(Events) /\ Len(r) = n + 2
          /\ \A i \in 1..n : r[i] = s[i]
          /\ r[n + 1] = "status" /\ r[n + 2] = "result"
      BY <1>0, <1>1, <2>3, TwoMore
    <3> HIDE DEF r, s
    <3>2. r[1] = "conversation" /\ \A i \in 2..(n + 2) : r[i] \in {"status", "result", "card"}
      BY <1>1, <1>2, <2>1, <3>1
    <3> QED
      BY <1>1, <1>8, <2>1, <3>1, <3>2
  <2> QED
    BY <1>10, <2>2, <2>3 DEF Shows
<1>11. CASE EndsAs(t)
  <2>1. turn[t].at \in Before \cup Running /\ turn'[t].at = "closed"
    BY <1>3, <1>11 DEF EndsAs
  <2>2. CASE r = s \o <<"error", "done">>
    <3>1. /\ r \in Seq(Events) /\ Len(r) = n + 2
          /\ \A i \in 1..n : r[i] = s[i]
          /\ r[n + 1] = "error" /\ r[n + 2] = "done"
      BY <1>0, <1>1, <2>2, TwoMore
    <3> HIDE DEF r, s
    <3>2. \A i \in 1..(n + 2) : i \in 1..n \/ i = n + 1 \/ i = n + 2
      BY <1>1
    <3>3. \A i \in 1..n : i = 1 \/ i \in 2..n
      BY <1>1
    <3>4. \A i \in 1..n : /\ r[i] \in {"conversation", "status", "result", "card"} /\ r[1] = "conversation"
                          /\ r[i] = "conversation" => i = 1
      BY <1>1, <1>2, <2>1, <3>1, <3>3
    <3>6. n + 2 \in Nat /\ n + 2 >= 1
      BY <1>1
    <3>7. \A i \in 1..(n + 2 - 1) :
            /\ r[i] # "done"
            /\ r[i] \in {"message", "error"} => i = n + 2 - 1
            /\ r[i] \in {"status", "result", "card", "message"} => r[1] = "conversation"
            /\ r[i] = "conversation" => i = 1
      BY <1>1, <2>1, <3>1, <3>4
    <3> QED
      BY <1>1, <1>12, <2>1, <3>1, <3>6, <3>7
  <2>3. CASE r = s \o <<"done">> /\ turn[t].at # "idle"
    <3>1. /\ r \in Seq(Events) /\ Len(r) = n + 1
          /\ \A i \in 1..n : r[i] = s[i]
          /\ r[n + 1] = "done"
      BY <1>0, <1>1, <2>3, OneMore
    <3> HIDE DEF r, s
    <3>2. \A i \in 1..(n + 1) : i \in 1..n \/ i = n + 1
      BY <1>1
    <3>3. \A i \in 1..n : i = 1 \/ i \in 2..n
      BY <1>1
    <3>4. \A i \in 1..n : /\ r[i] \in {"conversation", "status", "result", "card"} /\ r[1] = "conversation"
                          /\ r[i] = "conversation" => i = 1
      BY <1>1, <1>2, <2>1, <3>1, <3>3
    <3>6. n + 1 \in Nat /\ n + 1 >= 1
      BY <1>1
    <3>7. \A i \in 1..(n + 1 - 1) :
            /\ r[i] # "done"
            /\ r[i] \in {"message", "error"} => i = n + 1 - 1
            /\ r[i] \in {"status", "result", "card", "message"} => r[1] = "conversation"
            /\ r[i] = "conversation" => i = 1
      BY <1>1, <2>1, <3>1, <3>4
    <3> QED
      BY <1>1, <1>12, <2>1, <3>1, <3>6, <3>7
  <2>4. CASE r = s \o <<"message", "done">> /\ turn[t].at \in Running
    <3>1. /\ r \in Seq(Events) /\ Len(r) = n + 2
          /\ \A i \in 1..n : r[i] = s[i]
          /\ r[n + 1] = "message" /\ r[n + 2] = "done"
      BY <1>0, <1>1, <2>4, TwoMore
    <3> HIDE DEF r, s
    <3>2. \A i \in 1..(n + 2) : i \in 1..n \/ i = n + 1 \/ i = n + 2
      BY <1>1
    <3>3. \A i \in 1..n : i = 1 \/ i \in 2..n
      BY <1>1
    <3>4. \A i \in 1..n : /\ r[i] \in {"conversation", "status", "result", "card"}
                          /\ r[i] = "conversation" => i = 1
      BY <1>1, <1>2, <2>4, <3>1, <3>3
    <3>5. r[1] = "conversation"
      BY <1>1, <1>2, <2>4, <3>1
    <3>6. n + 2 \in Nat /\ n + 2 >= 1
      BY <1>1
    <3>7. \A i \in 1..(n + 2 - 1) :
            /\ r[i] # "done"
            /\ r[i] \in {"message", "error"} => i = n + 2 - 1
            /\ r[i] \in {"status", "result", "card", "message"} => r[1] = "conversation"
            /\ r[i] = "conversation" => i = 1
      BY <1>1, <2>1, <3>1, <3>4, <3>5
    <3> QED
      BY <1>1, <1>12, <2>1, <3>1, <3>6, <3>7
  <2> QED
    BY <1>11, <2>2, <2>3, <2>4 DEF EndsAs, Running
<1> QED
  BY <1>7, <1>9, <1>10, <1>11, AStepShows

-----------------------------------------------------------------------------
\* Cards

LEMMA CardsAreFinite ==
  ASSUME NEW s \in Seq(Events)
  PROVE  IsFiniteSet(Cards(s)) /\ Cardinality(Cards(s)) \in Nat
<1>1. PICK n \in Nat : n = Len(s) /\ DOMAIN s = 1..n
  BY LenProperties
<1>2. IsFiniteSet(1..n)
  BY <1>1, FS_Interval
<1>3. Cards(s) \subseteq 1..n
  BY <1>1 DEF Cards
<1> QED
  BY <1>2, <1>3, FS_Subset, FS_CardinalityType

LEMMA CardsOfMore ==
  ASSUME NEW s \in Seq(Events), NEW r \in Seq(Events), NEW k \in Nat, Len(r) = Len(s) + k,
         \A i \in 1..Len(s) : r[i] = s[i]
  PROVE  /\ (\A i \in (Len(s) + 1)..(Len(s) + k) : r[i] # "card") => Cards(r) = Cards(s)
         /\ k = 1 /\ r[Len(s) + 1] = "card" => Cardinality(Cards(r)) = Cardinality(Cards(s)) + 1
<1>1. PICK n \in Nat : n = Len(s) /\ DOMAIN s = 1..n
  BY LenProperties
<1>2. DOMAIN r = 1..(n + k) /\ \A i \in 1..n : r[i] = s[i]
  BY <1>1, LenProperties
<1>3. ASSUME \A i \in (n + 1)..(n + k) : r[i] # "card"
      PROVE  Cards(r) = Cards(s)
  BY <1>1, <1>2, <1>3 DEF Cards
<1>4. ASSUME k = 1, r[n + 1] = "card"
      PROVE  Cardinality(Cards(r)) = Cardinality(Cards(s)) + 1
  <2>1. Cards(r) = Cards(s) \cup {n + 1} /\ n + 1 \notin Cards(s)
    BY <1>1, <1>2, <1>4 DEF Cards
  <2> QED
    BY <2>1, CardsAreFinite, FS_AddElement
<1> QED
  BY <1>1, <1>3, <1>4

\* What a step does to the proposals and the cards of a turn.
Plain == Events \ {"card"}
NoCard(t) ==
  /\ prepared'[t] = prepared[t] /\ turn'[t].at # "prepared"
  /\ \/ events'[t] = events[t]
     \/ \E a \in Plain : events'[t] = events[t] \o <<a>>
     \/ \E a, b \in Plain : events'[t] = events[t] \o <<a, b>>
Proposes(t) ==
  /\ prepared'[t] = prepared[t] + 1 /\ turn[t].at # "prepared" /\ turn'[t].at = "prepared"
  /\ events'[t] = events[t] \o <<"status">>
ShowsIt(t) ==
  /\ prepared'[t] = prepared[t] /\ turn[t].at = "prepared" /\ turn'[t].at # "prepared"
  /\ events'[t] = events[t] \o <<"card">>

LEMMA AStepPrepares ==
  ASSUME TypeOK, NEW t \in Turns, Runs(t) \/ Cancel(t)
  PROVE  NoCard(t) \/ Proposes(t) \/ ShowsIt(t)
<1>0. /\ turn \in [Turns -> Turn] /\ turn[t] \in Turn
      /\ events \in [Turns -> Seq(Events)] /\ events[t] \in Seq(Events)
      /\ prepared \in [Turns -> 0..MaxPrepared]
      /\ {"status", "result", "conversation", "message", "error", "done"} \subseteq Plain
  BY DEF TypeOK, Plain, Events
<1> USE <1>0 DEF At, Becomes, Turn, Emit
<1>1. CASE Limited(t)
  BY <1>1 DEF Limited, NoCard, Plain, Events
<1>2. CASE AddUser(t)
  BY <1>2 DEF AddUser, Goes, NoCard
<1>3. CASE CommitUser(t)
  BY <1>3 DEF CommitUser, Goes, NoCard
<1>4. CASE Open(t)
  BY <1>4 DEF Open, Goes, NoCard, Plain, Events
<1>5. CASE RunLookup(t)
  <2>1. PICK shown \in {<<>>, <<"status">>, <<"status", "result">>} : Emit(t, shown)
    BY <1>5 DEF RunLookup
  <2>2. turn'[t].at = "lookups" /\ prepared' = prepared
    BY <1>5 DEF RunLookup
  <2>3. CASE shown = <<>>
    <3>1. events[t] \o <<>> = events[t]
      BY ConcatEmptySeq
    <3>2. events'[t] = events[t]
      BY <2>1, <2>3, <3>1
    <3> QED
      BY <2>2, <3>2 DEF NoCard
  <2> QED
    BY <2>1, <2>2, <2>3 DEF NoCard, Plain, Events
<1>6. CASE Prepare(t)
  BY <1>6 DEF Prepare, Goes, Proposes
<1>7. CASE ShowCard(t)
  BY <1>7 DEF ShowCard, ShowsIt
<1>8. CASE EndRound(t)
  BY <1>8 DEF EndRound, NoCard
<1>9. CASE CommitRound(t)
  BY <1>9 DEF CommitRound, Goes, NoCard
<1>10. CASE StoreNext(t)
  BY <1>10 DEF StoreNext, Goes, NoCard
<1>11. CASE CommitRest(t)
  BY <1>11 DEF CommitRest, Goes, NoCard
<1>12. CASE Tell(t)
  BY <1>12 DEF Tell, Goes, NoCard, Plain, Events
<1>13. CASE ModelFails(t)
  BY <1>13 DEF ModelFails, NoCard
<1>14. CASE Deadline(t)
  BY <1>14 DEF Deadline, NoCard
<1>15. CASE DatabaseFails(t)
  BY <1>15 DEF DatabaseFails, Goes, NoCard, Plain, Events
<1>16. CASE Cancel(t)
  BY <1>16 DEF Cancel, Goes, NoCard, Plain, Events
<1>17. CASE ModelAnswers(t)
  <2>1. Answered(t)
    BY <1>17 DEF ModelAnswers, AsksForLookups, AsksForMore, AnswersNothing, AnswersInNumbersKnown,
                 AnswersInOtherNumbers
  <2>2. turn[t].at = "calling" /\ turn'[t].at # "prepared"
    <3>1. turn[t].at = "calling"
      BY <2>1 DEF Answered
    <3>2. Moves(t) \/ Closes(t) \/ Breaks(t) \/ OpensRound(t) \/ EndsRound(t) \/ Replies(t)
      BY <1>17, AStepGathers DEF Runs
    <3> QED
      BY <3>1, <3>2 DEF Moves, Closes, Breaks, OpensRound, EndsRound, Replies, Before
  <2> QED
    BY <2>1, <2>2 DEF Answered, NoCard
<1> QED
  BY <1>1, <1>2, <1>3, <1>4, <1>5, <1>6, <1>7, <1>8, <1>9, <1>10, <1>11, <1>12, <1>13, <1>14,
     <1>15, <1>16, <1>17 DEF Runs, OwnStep

\* A card follows the proposal it is of.
LEMMA CardsStep ==
  ASSUME TypeOK, NEW t \in Turns, CardsFit(t), Runs(t) \/ Cancel(t)
  PROVE  CardsFit(t)'
<1>0. events[t] \in Seq(Events) /\ prepared[t] \in Nat /\ Len(events[t]) \in Nat
  BY LenProperties, BoundsAssumption DEF TypeOK
<1> DEFINE n == Cardinality(Cards(events[t]))
           m == Cardinality(Cards(events'[t]))
<1>1. n \in Nat
  BY <1>0, CardsAreFinite
<1>2. ASSUME NEW a \in Plain, events'[t] = events[t] \o <<a>> PROVE m = n
  <2>1. a \in Events /\ a # "card"
    BY <1>2 DEF Plain
  <2>2. /\ events'[t] \in Seq(Events) /\ Len(events'[t]) = Len(events[t]) + 1
        /\ \A i \in 1..Len(events[t]) : events'[t][i] = events[t][i]
        /\ events'[t][Len(events[t]) + 1] = a
    BY <1>0, <1>2, <2>1, OneMore
  <2>3. \A i \in (Len(events[t]) + 1)..(Len(events[t]) + 1) : events'[t][i] # "card"
    BY <1>0, <2>1, <2>2
  <2> QED
    BY <1>0, <2>2, <2>3, CardsOfMore
<1>3. ASSUME NEW a \in Plain, NEW b \in Plain, events'[t] = events[t] \o <<a, b>> PROVE m = n
  <2>1. a \in Events /\ a # "card" /\ b \in Events /\ b # "card"
    BY <1>3 DEF Plain
  <2>2. /\ events'[t] \in Seq(Events) /\ Len(events'[t]) = Len(events[t]) + 2
        /\ \A i \in 1..Len(events[t]) : events'[t][i] = events[t][i]
        /\ events'[t][Len(events[t]) + 1] = a /\ events'[t][Len(events[t]) + 2] = b
    BY <1>0, <1>3, <2>1, TwoMore
  <2>3. \A i \in (Len(events[t]) + 1)..(Len(events[t]) + 2) : events'[t][i] # "card"
    BY <1>0, <2>1, <2>2
  <2> QED
    BY <1>0, <2>2, <2>3, CardsOfMore
<1>4. ASSUME events'[t] = events[t] \o <<"card">> PROVE m = n + 1
  <2>1. "card" \in Events
    BY DEF Events
  <2>2. /\ events'[t] \in Seq(Events) /\ Len(events'[t]) = Len(events[t]) + 1
        /\ \A i \in 1..Len(events[t]) : events'[t][i] = events[t][i]
        /\ events'[t][Len(events[t]) + 1] = "card"
    BY <1>0, <1>4, <2>1, OneMore
  <2> QED
    BY <1>0, <2>2, CardsOfMore
<1>5. CardsFit(t) <=> n + Once(turn[t].at = "prepared") <= prepared[t]
  BY DEF CardsFit
<1>6. CardsFit(t)' <=> m + Once(turn'[t].at = "prepared") <= prepared'[t]
  BY DEF CardsFit, Cards, Once
<1>7. events'[t] = events[t] => m = n
  OBVIOUS
<1> HIDE DEF n, m
<1>8. CASE NoCard(t)
  <2>1. m = n
    BY <1>2, <1>3, <1>7, <1>8 DEF NoCard
  <2> QED
    BY <1>0, <1>1, <1>5, <1>6, <1>8, <2>1 DEF NoCard, Once
<1>9. CASE Proposes(t)
  <2>1. m = n
    BY <1>2, <1>9 DEF Proposes, Plain, Events
  <2> QED
    BY <1>0, <1>1, <1>5, <1>6, <1>9, <2>1 DEF Proposes, Once
<1>10. CASE ShowsIt(t)
  <2>1. m = n + 1
    BY <1>4, <1>10 DEF ShowsIt
  <2> QED
    BY <1>0, <1>1, <1>5, <1>6, <1>10, <2>1 DEF ShowsIt, Once
<1> QED
  BY <1>8, <1>9, <1>10, AStepPrepares

-----------------------------------------------------------------------------
\* Rows

\* What a step does to the table.
Rests(t) ==
  /\ UNCHANGED tables
  /\ \/ turn[t].at = "idle" /\ turn'[t].at = "closed"
     \/ turn[t].at = "opened" /\ turn'[t].at = "calling"
     \/ turn[t].at \in InTime /\ turn'[t].at \in InTime \cup {"ended"}
     \/ turn[t].at \in {"ended", "stored"} /\ turn'[t].at = "closed" /\ Gathers(t, turn[t].messages)
InsertsUser(t) == turn[t].at = "idle" /\ turn'[t].at = "user" /\ Insert(t, User)
InsertsNext(t) ==
  /\ turn[t].at \in {"ended", "storing"} /\ turn'[t].at = "storing" /\ Gathers(t, turn[t].messages)
  /\ Cardinality(pending[t]) < Len(turn[t].messages)
  /\ Insert(t, turn[t].messages[Cardinality(pending[t]) + 1])
CommitsUser(t) == turn[t].at = "user" /\ turn'[t].at = "opened" /\ Commit(t)
CommitsRest(t) ==
  /\ turn[t].at = "storing" /\ turn'[t].at = "stored" /\ Gathers(t, turn[t].messages)
  /\ Cardinality(pending[t]) = Len(turn[t].messages)
  /\ Commit(t)
RollsBack(t) ==
  /\ turn[t].at \notin {"idle", "closed"} /\ turn'[t].at = "closed" /\ Gathers(t, turn[t].messages)
  /\ Rollback(t)

LEMMA AStepWrites ==
  ASSUME TypeOK, NEW t \in Turns, Runs(t) \/ Cancel(t)
  PROVE  \/ Rests(t) \/ InsertsUser(t) \/ InsertsNext(t) \/ CommitsUser(t) \/ CommitsRest(t)
         \/ RollsBack(t)
<1>0. turn \in [Turns -> Turn] /\ turn[t] \in Turn
  BY DEF TypeOK
<1> USE <1>0 DEF At, Becomes, Turn, Gathers, InTime, tables
<1>1. CASE Limited(t)
  BY <1>1 DEF Limited, Rests
<1>2. CASE AddUser(t)
  BY <1>2 DEF AddUser, Goes, InsertsUser
<1>3. CASE CommitUser(t)
  BY <1>3 DEF CommitUser, Goes, CommitsUser
<1>4. CASE Open(t)
  BY <1>4 DEF Open, Goes, Rests
<1>5. CASE RunLookup(t)
  BY <1>5 DEF RunLookup, Rests
<1>6. CASE Prepare(t)
  BY <1>6 DEF Prepare, Goes, Rests
<1>7. CASE ShowCard(t)
  BY <1>7 DEF ShowCard, Rests
<1>8. CASE EndRound(t)
  BY <1>8 DEF EndRound, Rests
<1>9. CASE CommitRound(t)
  BY <1>9 DEF CommitRound, Goes, Rests
<1>10. CASE StoreNext(t)
  BY <1>10 DEF StoreNext, Goes, InsertsNext
<1>11. CASE CommitRest(t)
  BY <1>11 DEF CommitRest, Goes, CommitsRest
<1>12. CASE Tell(t)
  BY <1>12 DEF Tell, Goes, Rests
<1>13. CASE ModelFails(t)
  BY <1>13 DEF ModelFails, Rests
<1>14. CASE Deadline(t)
  BY <1>14 DEF Deadline, Rests
<1>15. CASE DatabaseFails(t)
  BY <1>15 DEF DatabaseFails, Goes, Active, RollsBack
<1>16. CASE Cancel(t)
  BY <1>16 DEF Cancel, Goes, Active, RollsBack
<1>17. CASE ModelAnswers(t)
  <2>1. Answered(t)
    BY <1>17 DEF ModelAnswers, AsksForLookups, AsksForMore, AnswersNothing, AnswersInNumbersKnown,
                 AnswersInOtherNumbers
  <2>2. Moves(t) \/ Closes(t) \/ Breaks(t) \/ OpensRound(t) \/ EndsRound(t) \/ Replies(t)
    BY <1>17, AStepGathers DEF Runs
  <2>3. turn[t].at = "calling" /\ UNCHANGED tables
    BY <2>1 DEF Answered
  <2>4. turn'[t].at \in {"calling", "lookups", "ended", "closed"}
    BY <2>2, <2>3 DEF Moves, Closes, Breaks, OpensRound, EndsRound, Replies, Before
  <2>5. turn'[t].at # "closed"
    <3>1. CASE AsksForLookups(t)
      BY <3>1 DEF AsksForLookups, Answered, Called
    <3>2. ASSUME NEW text, Becomes(t, Finished(t, text))
          PROVE  turn'[t].at = "ended"
      BY <3>2 DEF Finished, Called
    <3>3. CASE AsksForMore(t)
      BY <3>2, <3>3 DEF AsksForMore, FallsBack
    <3>4. CASE AnswersInNumbersKnown(t)
      BY <3>2, <3>4 DEF AnswersInNumbersKnown
    <3>5. CASE AnswersNothing(t)
      BY <3>2, <3>5 DEF AnswersNothing, FallsBack, Answered, Called
    <3>6. CASE AnswersInOtherNumbers(t)
      BY <3>2, <3>6 DEF AnswersInOtherNumbers, FallsBack, Answered, Called
    <3> QED
      BY <1>17, <3>1, <3>3, <3>4, <3>5, <3>6 DEF ModelAnswers
  <2> QED
    BY <2>3, <2>4, <2>5 DEF Rests
<1> QED
  BY <1>1, <1>2, <1>3, <1>4, <1>5, <1>6, <1>7, <1>8, <1>9, <1>10, <1>11, <1>12, <1>13, <1>14,
     <1>15, <1>16, <1>17 DEF Runs, OwnStep

\* A step of one turn leaves the rows of another alone, though ids go on.
LEMMA OthersRest ==
  ASSUME TypeOK, nextId \in Nat, NEW t \in Turns, RowsFit(t), Runs(t) \/ Cancel(t)
  PROVE  /\ nextId' \in Nat /\ nextId <= nextId'
         /\ \A v \in Turns : v # t => pending'[v] = pending[v] /\ Committed(v)' = Committed(v)
<1>1. pending \in [Turns -> SUBSET Row] /\ \A row \in pending[t] : row.turn = t
  BY DEF TypeOK, RowsFit
<1>2. CASE UNCHANGED tables
  BY <1>2 DEF tables, Committed
<1>3. ASSUME NEW message, Insert(t, message)
      PROVE  /\ nextId' \in Nat /\ nextId <= nextId'
             /\ \A v \in Turns : v # t => pending'[v] = pending[v] /\ Committed(v)' = Committed(v)
  BY <1>1, <1>3 DEF Insert, Committed
<1>4. CASE Commit(t)
  BY <1>1, <1>4 DEF Commit, Committed
<1>5. CASE Rollback(t)
  BY <1>1, <1>5 DEF Rollback, Committed
<1> QED
  BY <1>2, <1>3, <1>4, <1>5, AStepWrites
     DEF Rests, InsertsUser, InsertsNext, CommitsUser, CommitsRest, RollsBack

LEMMA LaterIds ==
  ASSUME nextId \in Nat, nextId' \in Nat, nextId <= nextId', NEW u \in Nat
  PROVE  /\ u < nextId => u < nextId'
         /\ \A k \in Nat : \A id \in [1..k -> Nat] : Rising(id, k, u) => Rising(id, k, u)'
BY DEF Rising

\* As many rows as messages, since ids rise.
LEMMA RowsAreAsMany ==
  ASSUME NEW t, NEW u, NEW k \in Nat, NEW id \in [1..k -> Nat], nextId \in Nat, Rising(id, k, u)
  PROVE  IsFiniteSet(Rows(t, id, k)) /\ Cardinality(Rows(t, id, k)) = k
<1> DEFINE f == [i \in 1..k |-> RowOf(t, id[i], turn[t].messages[i])]
<1>1. IsFiniteSet(1..k) /\ Cardinality(1..k) = k
  BY FS_Interval
<1>2. f \in [1..k -> Rows(t, id, k)]
  BY DEF Rows
<1>3. \A i, j \in 1..k : f[i] = f[j] => i = j
  <2> SUFFICES ASSUME NEW i \in 1..k, NEW j \in 1..k, f[i] = f[j] PROVE i = j
    OBVIOUS
  <2>1. id[i] = id[j]
    BY DEF RowOf
  <2> QED
    BY <2>1 DEF Rising
<1>4. \A row \in Rows(t, id, k) : \E i \in 1..k : f[i] = row
  BY DEF Rows
<1> HIDE DEF f
<1>5. f \in Bijection(1..k, Rows(t, id, k))
  BY <1>2, <1>3, <1>4 DEF Bijection, Injection, Surjection, IsInjective
<1> QED
  BY <1>1, <1>5, FS_Bijection DEF ExistsBijection

LEMMA WholeStays ==
  ASSUME nextId \in Nat, nextId' \in Nat, nextId <= nextId', NEW t, Whole(t),
         Committed(t)' = Committed(t), turn'[t].messages = turn[t].messages
  PROVE  Whole(t)'
<1>1. PICK u \in Nat : \E k \in Nat : \E id \in [1..k -> Nat] :
        /\ u < nextId /\ k = Len(turn[t].messages) /\ Rising(id, k, u)
        /\ Committed(t) = {UserRow(t, u)} \cup Rows(t, id, k)
  BY DEF Whole
<1>2. PICK k \in Nat : \E id \in [1..k -> Nat] :
        /\ u < nextId /\ k = Len(turn[t].messages) /\ Rising(id, k, u)
        /\ Committed(t) = {UserRow(t, u)} \cup Rows(t, id, k)
  BY <1>1
<1>3. PICK id \in [1..k -> Nat] :
        /\ u < nextId /\ k = Len(turn[t].messages) /\ Rising(id, k, u)
        /\ Committed(t) = {UserRow(t, u)} \cup Rows(t, id, k)
  BY <1>2
<1>4. /\ u < nextId' /\ k = Len(turn'[t].messages) /\ Rising(id, k, u)'
      /\ Committed(t)' = {UserRow(t, u)} \cup Rows(t, id, k)'
  BY <1>3, LaterIds DEF Rows
<1> QED
  BY <1>4 DEF Whole

LEMMA InsertedSoFar ==
  ASSUME TypeOK, nextId \in Nat, NEW t \in Turns, RowsFit(t), turn[t].at \in {"ended", "storing"}
  PROVE  \E u \in Nat : \E k \in Nat : \E id \in [1..k -> Nat] :
           /\ OnlyTheUser(t, u) /\ k <= Len(turn[t].messages) /\ Rising(id, k, u)
           /\ pending[t] = Rows(t, id, k) /\ Cardinality(pending[t]) = k
<1>0. PICK m \in Nat : m = Len(turn[t].messages)
  BY TurnsAreTyped, LenProperties
<1> SUFFICES \E u \in Nat : \E k \in Nat : \E id \in [1..k -> Nat] :
               /\ OnlyTheUser(t, u) /\ k <= m /\ Rising(id, k, u)
               /\ pending[t] = Rows(t, id, k) /\ Cardinality(pending[t]) = k
  BY <1>0
<1>1. CASE turn[t].at = "ended"
  <2>1. PICK u \in Nat : OnlyTheUser(t, u)
    BY <1>1 DEF RowsFit
  <2>2. pending[t] = {} /\ Cardinality(pending[t]) = 0
    BY <1>1, FS_EmptySet DEF RowsFit
  <2> DEFINE id == [i \in 1..0 |-> 0]
  <2>3. id \in [1..0 -> Nat] /\ Rising(id, 0, u) /\ Rows(t, id, 0) = {}
    BY DEF Rising, Rows
  <2> HIDE DEF id
  <2>4. 0 \in Nat /\ 0 <= m /\ pending[t] = Rows(t, id, 0) /\ Cardinality(pending[t]) = 0
    BY <1>0, <2>2, <2>3
  <2>5. /\ OnlyTheUser(t, u) /\ 0 <= m /\ Rising(id, 0, u) /\ pending[t] = Rows(t, id, 0)
        /\ Cardinality(pending[t]) = 0
    BY <2>1, <2>3, <2>4
  <2> QED
    BY <2>3, <2>4, <2>5, Zenon
<1>2. CASE turn[t].at = "storing"
  <2>1. PICK u \in Nat : OnlyTheUser(t, u) /\ \E k \in Nat : k <= m /\ Inserted(t, u, k)
    BY <1>0, <1>2 DEF RowsFit
  <2>2. PICK k \in Nat : k <= m /\ Inserted(t, u, k)
    BY <2>1
  <2>3. PICK id \in [1..k -> Nat] : Rising(id, k, u) /\ pending[t] = Rows(t, id, k)
    BY <2>2 DEF Inserted
  <2>4. Cardinality(Rows(t, id, k)) = k
    BY <2>3, RowsAreAsMany
  <2> QED
    BY <2>1, <2>2, <2>3, <2>4
<1> QED
  BY <1>0, <1>1, <1>2

LEMMA RowsStep ==
  ASSUME TypeOK, nextId \in Nat, NEW t \in Turns, RowsFit(t), Runs(t) \/ Cancel(t)
  PROVE  RowsFit(t)'
<1>1. /\ nextId' \in Nat /\ nextId <= nextId' /\ pending \in [Turns -> SUBSET Row]
      /\ turn[t].messages \in Seq(Message) /\ turn[t].at \in Stages
  BY OthersRest, TurnsAreTyped DEF TypeOK
<1>2. PICK m \in Nat : m = Len(turn[t].messages)
  BY <1>1, LenProperties
<1>3. ASSUME Committed(t)' = Committed(t)
      PROVE  \A u \in Nat : OnlyTheUser(t, u) => OnlyTheUser(t, u)'
  BY <1>1, <1>3, LaterIds DEF OnlyTheUser
<1>4. ASSUME Committed(t)' = Committed(t), Gathers(t, turn[t].messages), Whole(t)
      PROVE  Whole(t)'
  BY <1>1, <1>4, WholeStays DEF Gathers
<1>5. CASE Rests(t)
  BY <1>1, <1>3, <1>4, <1>5 DEF Rests, RowsFit, InTime, Committed, tables
<1>6. CASE InsertsUser(t)
  <2>1. pending'[t] = {UserRow(t, nextId)} /\ nextId < nextId' /\ Committed(t)' = {}
    BY <1>1, <1>6 DEF InsertsUser, Insert, RowsFit, UserRow, RowOf, Committed
  <2>2. UserRow(t, nextId).turn = t
    BY DEF UserRow, RowOf
  <2> QED
    BY <1>6, <2>1, <2>2 DEF RowsFit, InsertsUser, InTime
<1>7. CASE CommitsUser(t)
  <2>1. PICK u \in Nat : u < nextId /\ pending[t] = {UserRow(t, u)}
    BY <1>7 DEF CommitsUser, RowsFit
  <2>2. Committed(t)' = {UserRow(t, u)} /\ pending'[t] = {}
    BY <1>1, <1>7, <2>1 DEF CommitsUser, RowsFit, Commit, Committed, UserRow, RowOf
  <2>3. OnlyTheUser(t, u)'
    BY <1>1, <2>1, <2>2, LaterIds DEF OnlyTheUser
  <2> QED
    BY <1>7, <2>2, <2>3 DEF RowsFit, CommitsUser, InTime
<1>8. ASSUME turn[t].at \in {"ended", "storing"}
      PROVE  \E u \in Nat : \E k \in Nat : \E id \in [1..k -> Nat] :
               /\ OnlyTheUser(t, u) /\ k <= m /\ Rising(id, k, u) /\ pending[t] = Rows(t, id, k)
               /\ Cardinality(pending[t]) = k
  BY <1>2, <1>8, InsertedSoFar
<1>9. CASE InsertsNext(t)
  <2>1. PICK u \in Nat : \E k \in Nat : \E id \in [1..k -> Nat] :
          /\ OnlyTheUser(t, u) /\ k <= m /\ Rising(id, k, u) /\ pending[t] = Rows(t, id, k)
          /\ Cardinality(pending[t]) = k
    BY <1>8, <1>9 DEF InsertsNext
  <2>2. PICK k \in Nat : \E id \in [1..k -> Nat] :
          /\ OnlyTheUser(t, u) /\ k <= m /\ Rising(id, k, u) /\ pending[t] = Rows(t, id, k)
          /\ Cardinality(pending[t]) = k
    BY <2>1
  <2>3. PICK id \in [1..k -> Nat] :
          /\ OnlyTheUser(t, u) /\ k <= m /\ Rising(id, k, u) /\ pending[t] = Rows(t, id, k)
          /\ Cardinality(pending[t]) = k
    BY <2>2
  <2>4. /\ k < m /\ Committed(t)' = Committed(t) /\ nextId' = nextId + 1
        /\ pending'[t] = Rows(t, id, k) \cup {RowOf(t, nextId, turn[t].messages[k + 1])}
        /\ turn'[t].messages = turn[t].messages
    BY <1>1, <1>2, <1>9, <2>3 DEF InsertsNext, Insert, Committed, RowOf, Gathers
  <2>5. PICK more \in [1..(k + 1) -> Nat] : more[k + 1] = nextId /\ \A i \in 1..k : more[i] = id[i]
    <3> DEFINE g == [i \in 1..(k + 1) |-> IF i = k + 1 THEN nextId ELSE id[i]]
    <3>1. g \in [1..(k + 1) -> Nat] /\ g[k + 1] = nextId /\ \A i \in 1..k : g[i] = id[i]
      OBVIOUS
    <3> HIDE DEF g
    <3> QED
      BY <3>1
  <2>6. \A i \in 1..(k + 1) : i = k + 1 \/ i \in 1..k
    OBVIOUS
  <2>7. Rising(more, k + 1, u)'
    <3>1. \A i \in 1..k : u < id[i] /\ id[i] < nextId
      BY <2>3 DEF Rising
    <3>2. \A i, j \in 1..k : i < j => id[i] < id[j]
      BY <2>3 DEF Rising
    <3>3. u < nextId
      BY <2>3 DEF OnlyTheUser
    <3>4. \A i \in 1..k : id[i] \in Nat
      BY <2>3
    <3>5. ASSUME NEW i \in 1..(k + 1) PROVE u < more[i] /\ more[i] < nextId'
      BY <2>4, <2>5, <2>6, <3>1, <3>3, <3>4
    <3>6. ASSUME NEW i \in 1..(k + 1), NEW j \in 1..(k + 1), i < j PROVE more[i] < more[j]
      <4>1. i \in 1..k
        BY <3>6
      <4> QED
        BY <2>5, <2>6, <3>1, <3>2, <3>6, <4>1
    <3> QED
      BY <3>5, <3>6 DEF Rising
  <2>8. Rows(t, more, k + 1)' = Rows(t, id, k) \cup {RowOf(t, nextId, turn[t].messages[k + 1])}
    <3>1. Rows(t, more, k + 1)' = {RowOf(t, more[i], turn[t].messages[i]) : i \in 1..(k + 1)}
      BY <2>4 DEF Rows
    <3>2. k + 1 \in 1..(k + 1) /\ \A i \in 1..k : i \in 1..(k + 1)
      OBVIOUS
    <3>3. Rows(t, id, k) = {RowOf(t, id[i], turn[t].messages[i]) : i \in 1..k}
      BY DEF Rows
    <3> QED
      BY <2>5, <2>6, <3>1, <3>2, <3>3
  <2>9. Inserted(t, u, k + 1)' /\ k + 1 \in Nat /\ k + 1 <= m
    <3>1. k + 1 \in Nat /\ k + 1 <= m
      BY <1>2, <2>4
    <3>2. pending'[t] = Rows(t, more, k + 1)'
      BY <2>4, <2>8
    <3> QED
      BY <2>5, <2>7, <3>1, <3>2 DEF Inserted
  <2>10. OnlyTheUser(t, u)'
    BY <1>3, <2>3, <2>4
  <2>11. \A row \in pending'[t] : row.turn = t
    BY <2>4 DEF Rows, RowOf
  <2>12. turn'[t].at = "storing" /\ m = Len(turn'[t].messages)
    BY <1>2, <1>9, <2>4 DEF InsertsNext
  <2> QED
    BY <2>9, <2>10, <2>11, <2>12 DEF RowsFit, InTime
<1>10. CASE CommitsRest(t)
  <2>1. PICK u \in Nat : \E k \in Nat : \E id \in [1..k -> Nat] :
          /\ OnlyTheUser(t, u) /\ k <= m /\ Rising(id, k, u) /\ pending[t] = Rows(t, id, k)
          /\ Cardinality(pending[t]) = k
    BY <1>8, <1>10 DEF CommitsRest
  <2>2. PICK k \in Nat : \E id \in [1..k -> Nat] :
          /\ OnlyTheUser(t, u) /\ k <= m /\ Rising(id, k, u) /\ pending[t] = Rows(t, id, k)
          /\ Cardinality(pending[t]) = k
    BY <2>1
  <2>3. PICK id \in [1..k -> Nat] :
          /\ OnlyTheUser(t, u) /\ k <= m /\ Rising(id, k, u) /\ pending[t] = Rows(t, id, k)
          /\ Cardinality(pending[t]) = k
    BY <2>2
  <2>4. /\ k = m /\ pending'[t] = {} /\ nextId' = nextId
        /\ turn'[t].messages = turn[t].messages
        /\ rows' = rows \cup pending[t]
    BY <1>1, <1>2, <1>10, <2>3 DEF CommitsRest, Commit, Gathers
  <2>5. Committed(t)' = {UserRow(t, u)} \cup Rows(t, id, k)
    BY <2>3, <2>4 DEF Committed, OnlyTheUser, RowsFit
  <2>6. Rows(t, id, k)' = Rows(t, id, k) /\ Rising(id, k, u)' /\ u < nextId'
    BY <2>3, <2>4 DEF Rows, Rising, OnlyTheUser
  <2>7. Whole(t)'
    BY <1>2, <2>4, <2>5, <2>6 DEF Whole
  <2> QED
    BY <1>10, <2>4, <2>7 DEF RowsFit, CommitsRest, InTime
<1>11. CASE RollsBack(t)
  <2>1. Committed(t)' = Committed(t) /\ pending'[t] = {} /\ turn'[t].at = "closed"
    BY <1>1, <1>11 DEF RollsBack, Rollback, Committed
  <2>2. Committed(t) = {} \/ (\E u \in Nat : OnlyTheUser(t, u)) \/ Whole(t)
    BY <1>1, <1>11 DEF RollsBack, RowsFit, Stages, InTime
  <2>3. Committed(t)' = {} \/ (\E u \in Nat : OnlyTheUser(t, u)') \/ Whole(t)'
    BY <1>3, <1>4, <1>11, <2>1, <2>2 DEF RollsBack
  <2> QED
    BY <2>1, <2>3 DEF RowsFit, InTime
<1> QED
  BY <1>5, <1>6, <1>7, <1>9, <1>10, <1>11, AStepWrites

\* A turn that shows its reply has stored all it gathered, the reply last.
LEMMA ToldStep ==
  ASSUME TypeOK, nextId \in Nat, NEW t \in Turns, MessagesFit(t), RowsFit(t), EventsFit(t),
         Runs(t) \/ Cancel(t)
  PROVE  ToldFits(t)'
<1>0. /\ events[t] \in Seq(Events) /\ turn[t].at \in Stages
      /\ {"message", "error", "done"} \subseteq Events
  BY TurnsAreTyped DEF TypeOK, Events
<1>1. PICK n \in Nat : n = Len(events[t])
  BY <1>0, LenProperties
<1> SUFFICES ASSUME turn'[t].at = "closed", Told(t, "message")'
             PROVE  Whole(t)' /\ EndsWithAReply(turn'[t].messages)
  BY DEF ToldFits
<1>2. EndsAs(t)
  BY AStepShows DEF Quiet, Names, Shows, Before, Running, InTime
<1>3. \A i \in 1..n : events[t][i] # "message"
  <2>1. turn[t].at \in Before => n = 0
    BY <1>0, <1>1, EmptySeq DEF EventsFit
  <2>2. turn[t].at \in Running =>
          events[t][1] = "conversation" /\ \A i \in 2..n : events[t][i] \in {"status", "result", "card"}
    BY <1>1 DEF EventsFit, Running
  <2>3. turn[t].at \in Before \cup Running
    BY <1>0, <1>2 DEF EndsAs, Stages, Before, Running, InTime
  <2>4. \A i \in 1..n : i = 1 \/ i \in 2..n
    BY <1>1
  <2> QED
    BY <1>1, <2>1, <2>2, <2>3, <2>4
<1>4. events'[t] \in Seq(Events)
  <2>1. /\ events[t] \o <<"error", "done">> \in Seq(Events)
        /\ events[t] \o <<"message", "done">> \in Seq(Events)
    BY <1>0, TwoMore
  <2>2. events[t] \o <<"done">> \in Seq(Events)
    BY <1>0, OneMore
  <2> QED
    BY <1>2, <2>1, <2>2 DEF EndsAs
<1>5. \E i \in 1..Len(events'[t]) : events'[t][i] = "message"
  BY <1>4, LenProperties DEF Told
<1>6. events'[t] # events[t] \o <<"error", "done">>
  <2> SUFFICES ASSUME events'[t] = events[t] \o <<"error", "done">> PROVE FALSE
    OBVIOUS
  <2>1. /\ Len(events'[t]) = n + 2 /\ \A i \in 1..n : events'[t][i] = events[t][i]
        /\ events'[t][n + 1] = "error" /\ events'[t][n + 2] = "done"
    BY <1>0, <1>1, TwoMore
  <2>2. \A i \in 1..(n + 2) : i \in 1..n \/ i = n + 1 \/ i = n + 2
    BY <1>1
  <2> QED
    BY <1>3, <1>5, <2>1, <2>2
<1>7. events'[t] # events[t] \o <<"done">>
  <2> SUFFICES ASSUME events'[t] = events[t] \o <<"done">> PROVE FALSE
    OBVIOUS
  <2>1. /\ Len(events'[t]) = n + 1 /\ \A i \in 1..n : events'[t][i] = events[t][i]
        /\ events'[t][n + 1] = "done"
    BY <1>0, <1>1, OneMore
  <2>2. \A i \in 1..(n + 1) : i \in 1..n \/ i = n + 1
    BY <1>1
  <2> QED
    BY <1>3, <1>5, <2>1, <2>2
<1>8. /\ turn[t].error = "none" /\ turn'[t].messages = turn[t].messages /\ rows' = rows
      /\ turn[t].at = "stored" \/ (turn[t].at = "ended" /\ turn[t].messages = <<>>)
  BY <1>2, <1>6, <1>7 DEF EndsAs
<1>9. EndsWithAReply(turn[t].messages) /\ turn[t].at = "stored"
  BY <1>8 DEF MessagesFit, EndsWithAReply
<1>10. Whole(t) /\ Committed(t)' = Committed(t)
  BY <1>8, <1>9 DEF RowsFit, Committed
<1>11. nextId' \in Nat /\ nextId <= nextId'
  BY OthersRest
<1> QED
  BY <1>8, <1>9, <1>10, <1>11, WholeStays

-----------------------------------------------------------------------------
\* Types

LEMMA TurnTypesStep ==
  ASSUME TypeOK, NEW t \in Turns, MessagesFit(t), CallsFit(t), Runs(t) \/ Cancel(t)
  PROVE  /\ turn' \in [Turns -> Turn]
         /\ \A v \in Turns : turn'[v].ran <= turn'[v].asked /\ turn'[v].rounds <= MaxRounds
         /\ \A v \in Turns : turn'[v].calls <= MaxRounds + 3
         /\ \A v \in Turns : v # t => turn'[v] = turn[v]
<1>0. /\ turn \in [Turns -> Turn] /\ turn[t] \in Turn
      /\ \A v \in Turns : turn[v].ran <= turn[v].asked /\ turn[v].rounds <= MaxRounds
      /\ \A v \in Turns : turn[v].calls <= MaxRounds + 3
  BY DEF TypeOK
<1>1. turn'[t].messages \in Seq(Message)
  BY MessagesStep
<1> DEFINE Fits(next) == next \in Turn /\ next.ran <= next.asked /\ next.rounds <= MaxRounds
<1>2. Fits(turn'[t]) /\ turn' = [turn EXCEPT ![t] = turn'[t]]
  <2> USE <1>0, BoundsAssumption DEF At, Turn, Stages, Becomes
  <2>1. CASE Limited(t)
    BY <2>1 DEF Limited
  <2>2. CASE AddUser(t)
    BY <2>2 DEF AddUser, Goes
  <2>3. CASE CommitUser(t)
    BY <2>3 DEF CommitUser, Goes
  <2>4. CASE Open(t)
    BY <2>4 DEF Open, Goes
  <2>5. CASE RunLookup(t)
    <3>1. turn[t].ran + 1 <= turn[t].asked /\ turn[t].ran + 1 \in Nat
      BY <2>5 DEF RunLookup
    <3>2. turn' = [turn EXCEPT ![t] = [turn[t] EXCEPT !.ran = turn[t].ran + 1]]
      BY <2>5 DEF RunLookup
    <3> QED
      BY <3>1, <3>2
  <2>6. CASE Prepare(t)
    BY <2>6 DEF Prepare, Goes
  <2>7. CASE ShowCard(t)
    <3>1. turn[t].ran + 1 <= turn[t].asked /\ turn[t].ran + 1 \in Nat
      BY <2>7 DEF ShowCard, CallsFit
    <3>2. turn' = [turn EXCEPT ![t] = [turn[t] EXCEPT !.at = "lookups", !.ran = turn[t].ran + 1]]
      BY <2>7 DEF ShowCard
    <3> QED
      BY <3>1, <3>2
  <2>8. CASE EndRound(t)
    BY <1>1, <2>8 DEF EndRound
  <2>9. CASE CommitRound(t)
    BY <2>9 DEF CommitRound, Goes
  <2>10. CASE StoreNext(t)
    BY <2>10 DEF StoreNext, Goes
  <2>11. CASE CommitRest(t)
    BY <2>11 DEF CommitRest, Goes
  <2>12. CASE Tell(t)
    BY <2>12 DEF Tell, Goes
  <2>13. CASE ModelFails(t)
    BY <2>13 DEF ModelFails
  <2>14. CASE Deadline(t)
    BY <2>14 DEF Deadline
  <2>15. CASE DatabaseFails(t)
    BY <2>15 DEF DatabaseFails, Goes
  <2>16. CASE Cancel(t)
    BY <2>16 DEF Cancel, Goes
  <2>17. CASE AsksForLookups(t)
    <3>1. PICK n \in 1..MaxLookups :
            turn' = [turn EXCEPT ![t] = [Called(t) EXCEPT !.at = "lookups", !.rounds = @ + 1,
                                                          !.asked = n, !.ran = 0]]
      BY <2>17 DEF AsksForLookups
    <3>2. turn' = [turn EXCEPT ![t] = [turn[t] EXCEPT !.calls = turn[t].calls + 1, !.at = "lookups",
                     !.rounds = turn[t].rounds + 1, !.asked = n, !.ran = 0]]
      BY <3>1 DEF Called
    <3>3. /\ turn[t].rounds + 1 \in Nat /\ turn[t].rounds + 1 <= MaxRounds
          /\ turn[t].calls + 1 \in Nat /\ n \in Nat /\ 0 <= n
      BY <2>17 DEF AsksForLookups
    <3> QED
      BY <3>2, <3>3
  <2>0. turn[t].calls + 1 \in Nat
    OBVIOUS
  <2>18. ASSUME NEW text, Becomes(t, Finished(t, text))
         PROVE  Fits(turn'[t]) /\ turn' = [turn EXCEPT ![t] = turn'[t]]
    <3> DEFINE m == Append(turn[t].messages, Reply(text))
    <3>1. turn' = [turn EXCEPT ![t] = [turn[t] EXCEPT !.calls = turn[t].calls + 1, !.at = "ended",
                                                      !.messages = m]]
      BY <2>18 DEF Finished, Called
    <3>2. m \in Seq(Message)
      BY <1>1, <3>1
    <3> HIDE DEF m
    <3> QED
      BY <2>0, <3>1, <3>2
  <2>19. CASE AsksForMore(t)
    BY <2>18, <2>19 DEF AsksForMore, FallsBack
  <2>20. CASE AnswersInNumbersKnown(t)
    BY <2>18, <2>20 DEF AnswersInNumbersKnown
  <2>21. CASE AnswersNothing(t)
    <3>1. CASE FallsBack(t)
      BY <2>18, <3>1 DEF FallsBack
    <3>2. CASE Becomes(t, [Called(t) EXCEPT !.nudged = TRUE])
      <4>1. turn' = [turn EXCEPT ![t] = [turn[t] EXCEPT !.calls = turn[t].calls + 1, !.nudged = TRUE]]
        BY <3>2 DEF Called
      <4> QED
        BY <2>0, <4>1
    <3> QED
      BY <2>21, <3>1, <3>2 DEF AnswersNothing
  <2>22. CASE AnswersInOtherNumbers(t)
    <3>1. CASE FallsBack(t)
      BY <2>18, <3>1 DEF FallsBack
    <3>2. CASE Becomes(t, [Called(t) EXCEPT !.retrying = TRUE])
      <4>1. turn' = [turn EXCEPT ![t] = [turn[t] EXCEPT !.calls = turn[t].calls + 1, !.retrying = TRUE]]
        BY <3>2 DEF Called
      <4> QED
        BY <2>0, <4>1
    <3> QED
      BY <2>22, <3>1, <3>2 DEF AnswersInOtherNumbers
  <2> HIDE DEF Fits
  <2> QED
    BY <2>1, <2>2, <2>3, <2>4, <2>5, <2>6, <2>7, <2>8, <2>9, <2>10, <2>11, <2>12, <2>13, <2>14,
       <2>15, <2>16, <2>17, <2>19, <2>20, <2>21, <2>22 DEF Runs, OwnStep, ModelAnswers
<1>3. /\ turn' \in [Turns -> Turn]
      /\ \A v \in Turns : v # t => turn'[v] = turn[v]
  BY <1>0, <1>2
<1>4. turn'[t].calls <= MaxRounds + 3
  <2>1. CallsFit(t)'
    BY CallsStep
  <2>2. turn'[t].calls \in Nat /\ turn'[t].rounds \in Nat
    BY <1>2 DEF Turn
  <2>3. turn'[t].calls <= turn'[t].rounds + Once(turn'[t].nudged) + Once(turn'[t].retrying)
                          + Once(turn'[t].at \notin BeforeTheEnd)
    BY <2>1 DEF CallsFit, Once
  <2>4. \A said : Once(said) \in {0, 1}
    BY DEF Once
  <2> QED
    BY <1>2, <2>2, <2>3, <2>4, BoundsAssumption
<1> QED
  BY <1>0, <1>2, <1>3, <1>4

LEMMA EventsTypesStep ==
  ASSUME TypeOK, NEW t \in Turns, Runs(t) \/ Cancel(t), events'[t] \in Seq(Events)
  PROVE  /\ events' \in [Turns -> Seq(Events)] /\ prepared' \in [Turns -> 0..MaxPrepared]
         /\ \A v \in Turns : v # t => events'[v] = events[v] /\ prepared'[v] = prepared[v]
<1>0. events \in [Turns -> Seq(Events)] /\ prepared \in [Turns -> 0..MaxPrepared]
  BY DEF TypeOK
<1>1. (\E kinds : Emit(t, kinds)) \/ UNCHANGED events
  <2>1. CASE OwnStep(t)
    BY <2>1 DEF OwnStep, AddUser, CommitUser, Open, RunLookup, Prepare, ShowCard, EndRound, CommitRound,
                StoreNext, CommitRest, Tell
  <2>2. CASE ModelAnswers(t)
    BY <2>2 DEF ModelAnswers, AsksForLookups, AsksForMore, AnswersNothing, AnswersInNumbersKnown,
                AnswersInOtherNumbers, Answered
  <2> QED
    BY <2>1, <2>2 DEF Runs, Limited, ModelFails, Deadline, DatabaseFails, Cancel
<1>2. \/ UNCHANGED prepared
      \/ prepared[t] < MaxPrepared /\ prepared' = [prepared EXCEPT ![t] = @ + 1]
  <2>1. CASE OwnStep(t)
    BY <2>1 DEF OwnStep, AddUser, CommitUser, Open, RunLookup, Prepare, ShowCard, EndRound, CommitRound,
                StoreNext, CommitRest, Tell
  <2>2. CASE ModelAnswers(t)
    BY <2>2 DEF ModelAnswers, AsksForLookups, AsksForMore, AnswersNothing, AnswersInNumbersKnown,
                AnswersInOtherNumbers, Answered
  <2> QED
    BY <2>1, <2>2 DEF Runs, Limited, ModelFails, Deadline, DatabaseFails, Cancel
<1>3. /\ events' \in [Turns -> Seq(Events)]
      /\ \A v \in Turns : v # t => events'[v] = events[v]
  <2>1. \A v \in Turns : v # t => events'[v] = events[v]
    BY <1>0, <1>1 DEF Emit
  <2>2. DOMAIN events' = Turns /\ events' = [v \in Turns |-> events'[v]]
    BY <1>0, <1>1 DEF Emit
  <2> QED
    BY <1>0, <2>1, <2>2
<1>4. /\ prepared' \in [Turns -> 0..MaxPrepared]
      /\ \A v \in Turns : v # t => prepared'[v] = prepared[v]
  BY <1>0, <1>2, BoundsAssumption
<1> QED
  BY <1>3, <1>4

LEMMA RowsTypesStep ==
  ASSUME TypeOK, nextId \in Nat, NEW t \in Turns, RowsFit(t), Runs(t) \/ Cancel(t)
  PROVE  rows' \subseteq Row /\ pending' \in [Turns -> SUBSET Row]
<1>0. rows \subseteq Row /\ pending \in [Turns -> SUBSET Row]
  BY DEF TypeOK
<1>1. ASSUME NEW message \in Message, Insert(t, message)
      PROVE  rows' \subseteq Row /\ pending' \in [Turns -> SUBSET Row]
  <2>1. [id |-> nextId, turn |-> t, message |-> message] \in Row
    BY DEF Row
  <2> QED
    BY <1>0, <1>1, <2>1 DEF Insert
<1>2. CASE InsertsNext(t)
  <2>1. PICK m \in Nat : m = Len(turn[t].messages) /\ turn[t].messages \in Seq(Message)
    BY TurnsAreTyped, LenProperties
  <2>2. PICK k \in Nat : k = Cardinality(pending[t])
    BY <1>2, InsertedSoFar DEF InsertsNext
  <2>3. k + 1 \in 1..m
    BY <1>2, <2>1, <2>2 DEF InsertsNext
  <2>4. turn[t].messages[k + 1] \in Message
    BY <2>1, <2>3, ElementOfSeq
  <2> QED
    BY <1>1, <1>2, <2>2, <2>4 DEF InsertsNext
<1>3. CASE Rests(t)
  BY <1>0, <1>3 DEF Rests, tables
<1>4. CASE InsertsUser(t)
  BY <1>1, <1>4, MessagesAreTyped DEF InsertsUser
<1>5. CASE Commit(t)
  BY <1>0, <1>5 DEF Commit
<1>6. CASE Rollback(t)
  BY <1>0, <1>6 DEF Rollback
<1> QED
  BY <1>2, <1>3, <1>4, <1>5, <1>6, AStepWrites DEF CommitsUser, CommitsRest, RollsBack

-----------------------------------------------------------------------------
\* The turns

\* What a turn has is its own: the steps of the others leave it as it is.
LEMMA Bystander ==
  ASSUME nextId \in Nat, nextId' \in Nat, nextId <= nextId', NEW v, TurnFits(v), IsATurn(v, events[v]),
         turn'[v] = turn[v], events'[v] = events[v], prepared'[v] = prepared[v],
         pending'[v] = pending[v], Committed(v)' = Committed(v)
  PROVE  TurnFits(v)' /\ IsATurn(v, events[v])'
<1>1. MessagesFit(v)'
  BY DEF TurnFits, MessagesFit
<1>2. CallsFit(v)'
  BY DEF TurnFits, CallsFit
<1>3. EventsFit(v)'
  BY DEF TurnFits, EventsFit
<1>4. CardsFit(v)'
  BY DEF TurnFits, CardsFit, Cards
<1>5. IsATurn(v, events[v])'
  BY DEF IsATurn, At
<1>6. Whole(v) => Whole(v)'
  BY WholeStays
<1>7. ToldFits(v)'
  BY <1>6 DEF TurnFits, ToldFits, Told
<1>8. \A u \in Nat : OnlyTheUser(v, u) => OnlyTheUser(v, u)'
  BY LaterIds DEF OnlyTheUser
<1>9. ASSUME NEW u \in Nat, NEW k \in Nat, Inserted(v, u, k)
      PROVE  Inserted(v, u, k)'
  <2>1. PICK id \in [1..k -> Nat] : Rising(id, k, u) /\ pending[v] = Rows(v, id, k)
    BY <1>9 DEF Inserted
  <2>2. Rising(id, k, u)' /\ pending'[v] = Rows(v, id, k)'
    BY <2>1, LaterIds DEF Rows
  <2> QED
    BY <2>2 DEF Inserted
<1>10. turn[v].at = "storing" =>
         \E u \in Nat : /\ OnlyTheUser(v, u)'
                        /\ \E k \in Nat : k <= Len(turn'[v].messages) /\ Inserted(v, u, k)'
  BY <1>8, <1>9 DEF TurnFits, RowsFit
<1>11. turn[v].at = "user" => \E u \in Nat : u < nextId' /\ pending'[v] = {UserRow(v, u)}
  <2> SUFFICES ASSUME turn[v].at = "user"
               PROVE  \E u \in Nat : u < nextId' /\ pending'[v] = {UserRow(v, u)}
    OBVIOUS
  <2>1. PICK u \in Nat : u < nextId /\ pending[v] = {UserRow(v, u)}
    BY DEF TurnFits, RowsFit
  <2> QED
    BY <2>1
<1>12. RowsFit(v)'
  BY <1>6, <1>8, <1>10, <1>11 DEF TurnFits, RowsFit, UserRow, RowOf
<1> QED
  BY <1>1, <1>2, <1>3, <1>4, <1>5, <1>7, <1>12 DEF TurnFits

LEMMA TurnsStep ==
  ASSUME TurnsInv, NEW t \in Turns, Runs(t) \/ Cancel(t)
  PROVE  TurnsInv'
<1>0. /\ TypeOK /\ nextId \in Nat /\ \A v \in Turns : TurnFits(v) /\ IsATurn(v, events[v])
      /\ MessagesFit(t) /\ CallsFit(t) /\ RowsFit(t) /\ EventsFit(t) /\ ToldFits(t) /\ CardsFit(t)
  BY EventsAreTurns DEF TurnsInv, TurnFits
<1>1. MessagesFit(t)' /\ CallsFit(t)' /\ RowsFit(t)' /\ ToldFits(t)' /\ CardsFit(t)'
  BY <1>0, MessagesStep, CallsStep, RowsStep, ToldStep, CardsStep
<1>2. EventsFit(t)' /\ IsATurn(t, events[t])' /\ events'[t] \in Seq(Events)
  BY <1>0, EventsStep
<1>3. /\ turn' \in [Turns -> Turn]
      /\ \A v \in Turns : turn'[v].ran <= turn'[v].asked /\ turn'[v].rounds <= MaxRounds
      /\ \A v \in Turns : turn'[v].calls <= MaxRounds + 3
      /\ \A v \in Turns : v # t => turn'[v] = turn[v]
  BY <1>0, TurnTypesStep
<1>4. /\ events' \in [Turns -> Seq(Events)] /\ prepared' \in [Turns -> 0..MaxPrepared]
      /\ \A v \in Turns : v # t => events'[v] = events[v] /\ prepared'[v] = prepared[v]
  BY <1>0, <1>2, EventsTypesStep
<1>5. rows' \subseteq Row /\ pending' \in [Turns -> SUBSET Row]
  BY <1>0, RowsTypesStep
<1>6. /\ nextId' \in Nat /\ nextId <= nextId'
      /\ \A v \in Turns : v # t => pending'[v] = pending[v] /\ Committed(v)' = Committed(v)
  BY <1>0, OthersRest
<1>7. \A v \in Turns : TurnFits(v)' /\ IsATurn(v, events[v])'
  <2> SUFFICES ASSUME NEW v \in Turns PROVE TurnFits(v)' /\ IsATurn(v, events[v])'
    OBVIOUS
  <2>1. CASE v = t
    BY <1>1, <1>2, <2>1 DEF TurnFits
  <2>2. CASE v # t
    BY <1>0, <1>3, <1>4, <1>6, <2>2, Bystander
  <2> QED
    BY <2>1, <2>2
<1>8. \A v \in Turns : pending'[v] # {} => turn'[v].at \in {"user", "storing"}
  BY <1>7 DEF TurnFits, RowsFit
<1>9. TypeOK'
  BY <1>3, <1>4, <1>5, <1>8 DEF TypeOK
<1>10. EventsAreATurn'
  <2>1. \A v \in Turns : DOMAIN events'[v] = 1..Len(events'[v])
    BY <1>4, LenProperties
  <2> QED
    BY <1>7, <2>1 DEF EventsAreATurn, IsATurn, Told, At
<1> QED
  BY <1>6, <1>7, <1>9, <1>10 DEF TurnsInv

LEMMA TurnsStutter == TurnsInv /\ UNCHANGED vars => TurnsInv'
<1> SUFFICES ASSUME TurnsInv, UNCHANGED vars PROVE TurnsInv'
  OBVIOUS
<1>1. /\ turn' = turn /\ events' = events /\ rows' = rows /\ pending' = pending
      /\ nextId' = nextId /\ prepared' = prepared
  BY DEF vars, tables
<1>2. TypeOK' /\ EventsAreATurn' /\ nextId' \in Nat
  BY <1>1 DEF TurnsInv, TypeOK, EventsAreATurn, Told, At
<1>3. ASSUME NEW v \in Turns PROVE TurnFits(v)'
  <2>1. TurnFits(v) /\ IsATurn(v, events[v]) /\ nextId \in Nat
    BY EventsAreTurns DEF TurnsInv
  <2> QED
    BY <1>1, <2>1, Bystander DEF Committed
<1> QED
  BY <1>2, <1>3 DEF TurnsInv

LEMMA TurnsInit == Init => TurnsInv
<1> SUFFICES ASSUME Init PROVE TurnsInv
  OBVIOUS
<1>1. \A t \in Turns : turn[t] = NewTurn /\ events[t] = <<>> /\ pending[t] = {} /\ prepared[t] = 0
  BY DEF Init
<1>2. NewTurn \in Turn /\ <<>> \in Seq(Events) /\ 0 \in 0..MaxPrepared
  BY BoundsAssumption DEF NewTurn, Turn, Stages
<1>3. TypeOK /\ nextId \in Nat
  BY <1>1, <1>2, BoundsAssumption DEF Init, TypeOK, NewTurn
<1>4. ASSUME NEW t \in Turns PROVE TurnFits(t) /\ IsATurn(t, events[t])
  <2>1. /\ turn[t].at = "idle" /\ turn[t].messages = <<>> /\ turn[t].rounds = 0 /\ turn[t].calls = 0
        /\ ~turn[t].nudged /\ ~turn[t].retrying /\ turn[t].error = "none"
        /\ Len(turn[t].messages) = 0 /\ Len(events[t]) = 0 /\ DOMAIN events[t] = {}
    BY <1>1 DEF NewTurn
  <2>2. MessagesFit(t) /\ CallsFit(t) /\ EventsFit(t) /\ IsATurn(t, events[t]) /\ ToldFits(t)
    BY <1>1, <2>1 DEF MessagesFit, WellFormed, CallsFit, Once, EventsFit, IsATurn, At, ToldFits, Before,
                      BeforeTheEnd, InTime
  <2>3. RowsFit(t)
    BY <1>1, <2>1 DEF RowsFit, Committed, Init, InTime
  <2>4. CardsFit(t)
    <3>1. Cards(events[t]) = {}
      BY <2>1 DEF Cards
    <3> QED
      BY <1>1, <2>1, <3>1, FS_EmptySet DEF CardsFit, Once
  <2> QED
    BY <2>2, <2>3, <2>4 DEF TurnFits
<1> QED
  BY <1>3, <1>4, EventsAreTurns DEF TurnsInv

-----------------------------------------------------------------------------
\* What is stored and shown

\* The committed rows of a turn, one by one: all of them or the user's message or nothing.
Stands(t, u, k, id) ==
  /\ k = Len(turn[t].messages) /\ \A i \in 1..k : u < id[i]
  /\ \A i, j \in 1..k : i < j => id[i] < id[j]
  /\ Committed(t) = {UserRow(t, u)} \cup Rows(t, id, k)

LEMMA RowsStand ==
  ASSUME TurnsInv, NEW t \in Turns
  PROVE  \/ Committed(t) = {} \/ \E u \in Nat : Committed(t) = {UserRow(t, u)}
         \/ \E u \in Nat : \E k \in Nat : \E id \in [1..k -> Nat] : Stands(t, u, k, id)
<1>1. RowsFit(t) /\ turn[t].at \in Stages
  BY TurnsAreTyped DEF TurnsInv, TurnFits
<1>2. CASE Whole(t)
  BY <1>2 DEF Whole, Stands, Rising
<1>3. ASSUME NEW u \in Nat, OnlyTheUser(t, u) PROVE Committed(t) = {UserRow(t, u)}
  BY <1>3 DEF OnlyTheUser
<1> QED
  BY <1>1, <1>2, <1>3 DEF RowsFit, Stages, InTime

LEMMA IdsTell ==
  ASSUME NEW k \in Nat, NEW id \in [1..k -> Nat], \A i, j \in 1..k : i < j => id[i] < id[j],
         NEW i \in 1..k, NEW j \in 1..k
  PROVE  (id[i] < id[j] <=> i < j) /\ (id[i] = id[j] <=> i = j)
<1>1. id[i] \in Nat /\ id[j] \in Nat
  OBVIOUS
<1>2. i < j \/ i = j \/ j < i
  OBVIOUS
<1> QED
  BY <1>1, <1>2

\* The rows of l messages after the first a.
Part(t, id, a, l) == {RowOf(t, id[i], turn[t].messages[i]) : i \in (a + 1)..(a + l)}

LEMMA PartsAreAsMany ==
  ASSUME NEW t, NEW k \in Nat, NEW id \in [1..k -> Nat], \A i, j \in 1..k : i < j => id[i] < id[j],
         NEW a \in Nat, NEW l \in Nat, a + l <= k
  PROVE  Cardinality(Part(t, id, a, l)) = l
<1> DEFINE S == {RowOf(t, id[i], turn[t].messages[i]) : i \in (a + 1)..(a + l)}
           f == [i \in (a + 1)..(a + l) |-> RowOf(t, id[i], turn[t].messages[i])]
<1>1. IsFiniteSet((a + 1)..(a + l)) /\ Cardinality((a + 1)..(a + l)) = l
  <2>1. a + 1 \in Int /\ a + l \in Int
    OBVIOUS
  <2>2. /\ IsFiniteSet((a + 1)..(a + l))
        /\ Cardinality((a + 1)..(a + l)) = IF a + 1 > a + l THEN 0 ELSE (a + l) - (a + 1) + 1
    BY <2>1, FS_Interval
  <2> QED
    BY <2>2
<1>2. (a + 1)..(a + l) \subseteq 1..k
  OBVIOUS
<1>3. f \in [(a + 1)..(a + l) -> S]
  OBVIOUS
<1>4. \A i, j \in (a + 1)..(a + l) : f[i] = f[j] => i = j
  <2> SUFFICES ASSUME NEW i \in (a + 1)..(a + l), NEW j \in (a + 1)..(a + l), f[i] = f[j] PROVE i = j
    OBVIOUS
  <2>1. id[i] = id[j]
    BY DEF RowOf
  <2>2. i \in 1..k /\ j \in 1..k
    BY <1>2
  <2> QED
    BY <2>1, <2>2, IdsTell
<1>5. \A row \in S : \E i \in (a + 1)..(a + l) : f[i] = row
  OBVIOUS
<1> HIDE DEF f, S
<1>6. f \in Bijection((a + 1)..(a + l), S)
  BY <1>3, <1>4, <1>5 DEF Bijection, Injection, Surjection, IsInjective
<1> QED
  BY <1>1, <1>6, FS_Bijection DEF ExistsBijection, S, Part

\* What was gathered being well formed, what stands in the table is whole.
LEMMA WhatStandsIsWhole ==
  ASSUME TypeOK, NEW t \in Turns, WellFormed(turn[t].messages),
         NEW u \in Nat, NEW k \in Nat, NEW id \in [1..k -> Nat], Stands(t, u, k, id),
         NEW row \in rows, row.turn = t
  PROVE  /\ row.message.role # "user" => \E first \in Of(t, "user") : first.id < row.id
         /\ row.message.role = "request" =>
              Cardinality(ResultsOf(t, row.message.round)) = row.message.lookups
         /\ row.message.role = "result" =>
              \E request \in Of(t, "request") :
                /\ request.message.round = row.message.round
                /\ request.id < row.id
                /\ \A other \in Of(t, "request") : ~(request.id < other.id /\ other.id < row.id)
         /\ row.message.role = "reply" =>
              /\ Of(t, "reply") = {row} /\ row.message.text # "unsupported"
              /\ \A other \in rows : other.turn = t => other.id <= row.id
<1> DEFINE s == turn[t].messages
           R(i) == RowOf(t, id[i], s[i])
<1>1. /\ k = Len(s) /\ \A i \in 1..k : u < id[i]
      /\ \A i, j \in 1..k : i < j => id[i] < id[j]
  BY DEF Stands
<1>2. \A r \in rows : r.turn = t <=> r = UserRow(t, u) \/ \E i \in 1..k : r = R(i)
  <2>1. Committed(t) = {UserRow(t, u)} \cup {R(i) : i \in 1..k}
    BY DEF Stands, Rows
  <2>2. \A r \in rows : r.turn = t <=> r \in Committed(t)
    BY DEF Committed
  <2> HIDE DEF R
  <2> QED
    BY <2>1, <2>2
<1>3. UserRow(t, u) \in rows /\ \A i \in 1..k : R(i) \in rows
  BY DEF Stands, Rows, Committed
<1>4. /\ UserRow(t, u).id = u /\ UserRow(t, u).turn = t /\ UserRow(t, u).message.role = "user"
      /\ \A i \in 1..k : R(i).id = id[i] /\ R(i).turn = t /\ R(i).message = s[i]
  BY DEF UserRow, RowOf, User
<1>5. \A i \in 1..k : s[i] \in Message /\ s[i].lookups \in Nat
  <2>1. \A i \in 1..k : s[i] \in Message
    BY <1>1, TurnsAreTyped, ElementOfSeq
  <2> QED
    BY <2>1 DEF Message
<1>6. ASSUME NEW i \in 1..k
      PROVE  /\ s[i].role # "user"
             /\ s[i].role = "request" =>
                  /\ i + s[i].lookups <= k
                  /\ \A j \in 1..k : s[j].role = "result" /\ s[j].round = s[i].round
                                       <=> j \in (i + 1)..(i + s[i].lookups)
             /\ s[i].role = "result" =>
                  \E j \in 1..i : /\ s[j].role = "request" /\ s[j].round = s[i].round
                                  /\ \A l \in (j + 1)..i : s[l].role # "request"
             /\ s[i].role = "reply" => i = k /\ s[i].text # "unsupported"
  BY <1>1, <1>6 DEF WellFormed
<1>7. ASSUME NEW role \in Roles \ {"user"}, NEW r
      PROVE  r \in Of(t, role) <=> \E i \in 1..k : s[i].role = role /\ r = R(i)
  <2> HIDE DEF R, s
  <2>1. ASSUME r \in Of(t, role) PROVE \E i \in 1..k : s[i].role = role /\ r = R(i)
    <3>1. r \in rows /\ r.turn = t /\ r.message.role = role
      BY <2>1 DEF Of
    <3>2. r # UserRow(t, u)
      BY <1>4, <3>1
    <3>3. PICK i \in 1..k : r = R(i)
      BY <1>2, <3>1, <3>2
    <3> QED
      BY <1>4, <3>1, <3>3
  <2>2. ASSUME NEW i \in 1..k, s[i].role = role, r = R(i) PROVE r \in Of(t, role)
    BY <1>3, <1>4, <2>2 DEF Of
  <2> QED
    BY <2>1, <2>2
<1>8. CASE row = UserRow(t, u)
  BY <1>4, <1>8
<1>9. ASSUME NEW i \in 1..k, row = R(i)
      PROVE  /\ \E first \in Of(t, "user") : first.id < row.id
             /\ row.message.role = "request" =>
                  Cardinality(ResultsOf(t, row.message.round)) = row.message.lookups
             /\ row.message.role = "result" =>
                  \E request \in Of(t, "request") :
                    /\ request.message.round = row.message.round
                    /\ request.id < row.id
                    /\ \A other \in Of(t, "request") : ~(request.id < other.id /\ other.id < row.id)
             /\ row.message.role = "reply" =>
                  /\ Of(t, "reply") = {row} /\ row.message.text # "unsupported"
                  /\ \A other \in rows : other.turn = t => other.id <= row.id
  <2>1. row.id = id[i] /\ row.message = s[i]
    BY <1>4, <1>9
  <2> HIDE DEF R, s
  <2>2. \E first \in Of(t, "user") : first.id < row.id
    BY <1>1, <1>3, <1>4, <2>1 DEF Of
  <2>3. ASSUME s[i].role = "request"
        PROVE  Cardinality(ResultsOf(t, s[i].round)) = s[i].lookups
    <3>1. PICK l \in Nat : l = s[i].lookups
      BY <1>5
    <3>2. i + l <= k /\ (i + 1)..(i + l) \subseteq 1..k
      BY <1>6, <2>3, <3>1
    <3>3. ResultsOf(t, s[i].round) = {R(j) : j \in (i + 1)..(i + l)}
      <4>1. ASSUME NEW r \in ResultsOf(t, s[i].round) PROVE r \in {R(j) : j \in (i + 1)..(i + l)}
        <5>1. PICK j \in 1..k : r = R(j)
          BY <1>2, <1>4, <4>1 DEF ResultsOf
        <5>2. s[j].role = "result" /\ s[j].round = s[i].round
          BY <1>4, <4>1, <5>1 DEF ResultsOf
        <5> QED
          BY <1>6, <2>3, <3>1, <5>1, <5>2
      <4>2. ASSUME NEW j \in (i + 1)..(i + l) PROVE R(j) \in ResultsOf(t, s[i].round)
        <5>1. j \in 1..k /\ s[j].role = "result" /\ s[j].round = s[i].round
          BY <1>6, <2>3, <3>1, <3>2
        <5> QED
          BY <1>3, <1>4, <5>1 DEF ResultsOf
      <4> QED
        BY <4>1, <4>2
    <3>4. Cardinality(Part(t, id, i, l)) = l
      <4>1. i \in Nat /\ i + l <= k
        BY <3>2
      <4> QED
        BY <1>1, <4>1, PartsAreAsMany
    <3> QED
      BY <3>1, <3>3, <3>4 DEF R, s, Part
  <2>4. ASSUME s[i].role = "result"
        PROVE  \E request \in Of(t, "request") :
                 /\ request.message.round = s[i].round
                 /\ request.id < id[i]
                 /\ \A other \in Of(t, "request") : ~(request.id < other.id /\ other.id < id[i])
    <3>1. PICK j \in 1..i : /\ s[j].role = "request" /\ s[j].round = s[i].round
                            /\ \A l \in (j + 1)..i : s[l].role # "request"
      BY <1>6, <2>4
    <3>2. j \in 1..k /\ j < i
      BY <2>4, <3>1
    <3>3. R(j) \in Of(t, "request") /\ R(j).message.round = s[i].round /\ R(j).id = id[j] /\ id[j] < id[i]
      BY <1>1, <1>4, <1>7, <3>1, <3>2 DEF Roles
    <3>4. ASSUME NEW other \in Of(t, "request"), id[j] < other.id, other.id < id[i] PROVE FALSE
      <4>1. PICK l \in 1..k : s[l].role = "request" /\ other = R(l)
        BY <1>7, <3>4 DEF Roles
      <4>2. id[j] < id[l] /\ id[l] < id[i]
        BY <1>4, <3>4, <4>1
      <4>3. j < l /\ l < i
        BY <1>1, <3>2, <4>2, IdsTell
      <4> QED
        BY <3>1, <4>1, <4>3
    <3> QED
      BY <3>3, <3>4
  <2>5. ASSUME s[i].role = "reply"
        PROVE  /\ Of(t, "reply") = {row} /\ s[i].text # "unsupported"
               /\ \A other \in rows : other.turn = t => other.id <= id[i]
    <3>1. i = k /\ s[i].text # "unsupported"
      BY <1>6, <2>5
    <3>2. Of(t, "reply") = {row}
      <4>1. ASSUME NEW r \in Of(t, "reply") PROVE r = row
        <5>1. PICK j \in 1..k : s[j].role = "reply" /\ r = R(j)
          BY <1>7, <4>1 DEF Roles
        <5>2. j = i
          BY <1>6, <3>1, <5>1
        <5> QED
          BY <1>9, <5>1, <5>2
      <4>2. row \in Of(t, "reply")
        BY <1>7, <1>9, <2>5 DEF Roles
      <4> QED
        BY <4>1, <4>2
    <3>3. ASSUME NEW other \in rows, other.turn = t PROVE other.id <= id[i]
      <4>1. CASE other = UserRow(t, u)
        BY <1>1, <1>4, <4>1
      <4>2. ASSUME NEW j \in 1..k, other = R(j) PROVE other.id <= id[i]
        <5>1. other.id = id[j] /\ (j < i \/ j = i)
          BY <1>4, <3>1, <4>2
        <5> QED
          BY <1>1, <5>1
      <4> QED
        BY <1>2, <3>3, <4>1, <4>2
    <3> QED
      BY <3>1, <3>2, <3>3
  <2> QED
    BY <2>1, <2>2, <2>3, <2>4, <2>5
<1> QED
  BY <1>2, <1>8, <1>9

LEMMA WholeStands ==
  ASSUME NEW t \in Turns, Whole(t)
  PROVE  \E u \in Nat : \E k \in Nat : \E id \in [1..k -> Nat] : Stands(t, u, k, id)
BY DEF Whole, Stands, Rising

LEMMA OnlyTheUserStands ==
  ASSUME NEW t \in Turns, NEW u \in Nat, Committed(t) = {UserRow(t, u)},
         NEW row \in rows, row.turn = t
  PROVE  row.message.role = "user"
BY DEF Committed, UserRow, RowOf, User

\* What is shown of the rows in the table follows from the invariant.
LEMMA RoundsStand ==
  ASSUME TurnsInv
  PROVE  StoredRoundsAreWhole
<1> SUFFICES ASSUME NEW t \in Turns, NEW row \in rows, row.turn = t
             PROVE  /\ row.message.role # "user" => \E first \in Of(t, "user") : first.id < row.id
                    /\ row.message.role = "request" =>
                         Cardinality(ResultsOf(t, row.message.round)) = row.message.lookups
                    /\ row.message.role = "result" =>
                         \E request \in Of(t, "request") :
                           /\ request.message.round = row.message.round
                           /\ request.id < row.id
                           /\ \A other \in Of(t, "request") : ~(request.id < other.id /\ other.id < row.id)
                    /\ row.message.role = "reply" =>
                         /\ Of(t, "reply") = {row}
                         /\ \A other \in rows : other.turn = t => other.id <= row.id
  BY Zenon DEF StoredRoundsAreWhole
<1>1. TypeOK /\ WellFormed(turn[t].messages)
  BY DEF TurnsInv, TurnFits, MessagesFit
<1>2. CASE Committed(t) = {}
  BY <1>2 DEF Committed
<1>3. CASE \E u \in Nat : Committed(t) = {UserRow(t, u)}
  <2>1. row.message.role = "user"
    BY <1>3, OnlyTheUserStands
  <2> QED
    BY <2>1
<1>4. CASE \E u \in Nat : \E k \in Nat : \E id \in [1..k -> Nat] : Stands(t, u, k, id)
  <2>1. PICK u \in Nat : \E k \in Nat : \E id \in [1..k -> Nat] : Stands(t, u, k, id)
    BY <1>4
  <2>2. PICK k \in Nat : \E id \in [1..k -> Nat] : Stands(t, u, k, id)
    BY <2>1
  <2>3. PICK id \in [1..k -> Nat] : Stands(t, u, k, id)
    BY <2>2
  <2> QED
    BY <1>1, <2>3, WhatStandsIsWhole
<1> QED
  BY <1>2, <1>3, <1>4, RowsStand

\* A turn whose rows stand whole and whose messages end with a reply has one reply.
LEMMA OneReply ==
  ASSUME NEW t \in Turns, Whole(t), EndsWithAReply(turn[t].messages), StoredRoundsAreWhole, TypeOK
  PROVE  Cardinality(Of(t, "reply")) = 1
<1>1. PICK u \in Nat : \E k \in Nat : \E id \in [1..k -> Nat] : Stands(t, u, k, id)
  BY WholeStands
<1>2. PICK k \in Nat : \E id \in [1..k -> Nat] : Stands(t, u, k, id)
  BY <1>1
<1>3. PICK id \in [1..k -> Nat] : Stands(t, u, k, id)
  BY <1>2
<1>4. k = Len(turn[t].messages) /\ k \in 1..k
  <2>1. k = Len(turn[t].messages)
    BY <1>3 DEF Stands
  <2>2. turn[t].messages \in Seq(Message) /\ turn[t].messages # <<>>
    BY TurnsAreTyped DEF EndsWithAReply
  <2> QED
    BY <2>1, <2>2, EmptySeq
<1> DEFINE reply == RowOf(t, id[k], turn[t].messages[k])
<1>5. reply \in rows /\ reply.turn = t /\ reply.message.role = "reply"
  <2>1. reply \in Committed(t)
    BY <1>3, <1>4 DEF Stands, Rows
  <2>2. reply.message = turn[t].messages[k]
    BY DEF RowOf
  <2> HIDE DEF reply
  <2> QED
    BY <1>4, <2>1, <2>2 DEF Committed, EndsWithAReply
<1> HIDE DEF reply
<1>6. Of(t, "reply") = {reply}
  BY <1>5, Zenon DEF StoredRoundsAreWhole
<1> QED
  BY <1>6, FS_Singleton

LEMMA RepliesStand ==
  ASSUME TurnsInv
  PROVE  ShownRepliesAreStored
<1>1. TypeOK /\ EventsAreATurn /\ StoredRoundsAreWhole
  BY RoundsStand DEF TurnsInv
<1> SUFFICES ASSUME NEW t \in Turns
             PROVE  /\ Told(t, "message") => Cardinality(Of(t, "reply")) = 1
                    /\ \A reply \in Of(t, "reply") : reply.message.text # "unsupported"
  BY DEF ShownRepliesAreStored
<1>2. TurnFits(t) /\ turn[t].at \in Stages
  BY TurnsAreTyped DEF TurnsInv
<1>3. ASSUME Told(t, "message") PROVE Cardinality(Of(t, "reply")) = 1
  <2>1. PICK i \in DOMAIN events[t] : events[t][i] = "message"
    BY <1>3 DEF Told
  <2>2. PICK n \in Nat : n = Len(events[t])
    BY <1>1, LenProperties DEF TypeOK
  <2>3. i \in 1..n
    BY <1>1, <2>2, LenProperties DEF TypeOK
  <2>4. At(t, "closed")
    <3>1. events[t][1] = "conversation" \/ i # 1
      BY <1>1, <2>1, <2>2, <2>3 DEF EventsAreATurn
    <3>2. turn[t].at \notin Before
      <4>1. events[t] # <<>>
        BY <2>1, <2>3
      <4> QED
        BY <1>2, <4>1 DEF TurnFits, EventsFit
    <3>3. turn[t].at \notin InTime \cup {"ended", "storing", "stored"}
      <4>1. SUFFICES ASSUME turn[t].at \in InTime \cup {"ended", "storing", "stored"} PROVE FALSE
        OBVIOUS
      <4>2. events[t][1] = "conversation" /\ \A j \in 2..n : events[t][j] \in {"status", "result", "card"}
        BY <1>2, <2>2, <4>1 DEF TurnFits, EventsFit
      <4>3. i = 1 \/ i \in 2..n
        BY <2>3
      <4> QED
        BY <2>1, <4>2, <4>3
    <3> QED
      BY <1>2, <3>2, <3>3 DEF Before, InTime, Stages, At
  <2>5. Whole(t) /\ EndsWithAReply(turn[t].messages)
    BY <1>2, <1>3, <2>4 DEF TurnFits, ToldFits, At
  <2> QED
    BY <1>1, <2>5, OneReply
<1>4. ASSUME NEW reply \in Of(t, "reply") PROVE reply.message.text # "unsupported"
  <2>1. reply \in rows /\ reply.turn = t /\ reply.message.role = "reply"
    BY <1>4 DEF Of
  <2>2. WellFormed(turn[t].messages)
    BY <1>2 DEF TurnFits, MessagesFit
  <2>3. ~(Committed(t) = {}) /\ ~(\E u \in Nat : Committed(t) = {UserRow(t, u)})
    BY <2>1, OnlyTheUserStands DEF Committed
  <2>4. PICK u \in Nat : \E k \in Nat : \E id \in [1..k -> Nat] : Stands(t, u, k, id)
    BY <2>3, RowsStand
  <2>5. PICK k \in Nat : \E id \in [1..k -> Nat] : Stands(t, u, k, id)
    BY <2>4
  <2>6. PICK id \in [1..k -> Nat] : Stands(t, u, k, id)
    BY <2>5
  <2> QED
    BY <1>1, <2>1, <2>2, <2>6, WhatStandsIsWhole
<1> QED
  BY <1>3, <1>4

LEMMA CardsStand ==
  ASSUME TurnsInv
  PROVE  CardsAreOfStoredProposals
<1> SUFFICES ASSUME NEW t \in Turns
             PROVE  Cardinality({i \in DOMAIN events[t] : events[t][i] = "card"}) <= prepared[t]
  BY DEF CardsAreOfStoredProposals
<1> DEFINE c == Cardinality(Cards(events[t]))
<1>1. c + Once(turn[t].at = "prepared") <= prepared[t]
  BY DEF TurnsInv, TurnFits, CardsFit
<1>2. c \in Nat /\ prepared[t] \in Nat
  <2>1. events[t] \in Seq(Events) /\ prepared[t] \in 0..MaxPrepared
    BY DEF TurnsInv, TypeOK
  <2>2. IsFiniteSet(Cards(events[t]))
    BY <2>1, CardsAreFinite
  <2> QED
    BY <2>1, <2>2, FS_CardinalityType, BoundsAssumption
<1>3. c <= prepared[t]
  <2> HIDE DEF c
  <2>1. Once(turn[t].at = "prepared") \in {0, 1}
    BY DEF Once
  <2> QED
    BY <1>1, <1>2, <2>1
<1> QED
  BY <1>3 DEF Cards

-----------------------------------------------------------------------------
\* The turns, several at once

THEOREM TurnsInvariance == Spec => []TurnsInv
<1>1. TurnsInv /\ [Next]_vars => TurnsInv'
  BY TurnsStep, TurnsStutter DEF Next
<1> QED
  BY <1>1, TurnsInit, PTL DEF Spec

\* Whatever the other turns of the conversation do meanwhile, what a turn has
\* stored, however it ended, are whole rounds after the user's message and at
\* most one reply at the end.
THEOREM RoundsAreWhole == Spec => []StoredRoundsAreWhole
BY TurnsInvariance, RoundsStand, PTL

\* The reply that a client is shown is stored, once, and a reply that is
\* stored has no numbers without support.
THEOREM RepliesAreStored == Spec => []ShownRepliesAreStored
BY TurnsInvariance, RepliesStand, PTL

\* Every card that is shown is of a proposal that the turn has stored.
THEOREM CardsAreStored == Spec => []CardsAreOfStoredProposals
BY TurnsInvariance, CardsStand, PTL

-----------------------------------------------------------------------------
\* A turn with its stream

LEMMA EventsGrow ==
  ASSUME TypeOK, NEW t \in Turns, Runs(t) \/ Cancel(t)
  PROVE  Len(events[t]) \in Nat /\ Len(events'[t]) \in Nat /\ Len(events[t]) <= Len(events'[t])
<1>1. events[t] \in Seq(Events) /\ Len(events[t]) \in Nat
  BY LenProperties DEF TypeOK
<1>2. CASE Quiet(t)
  BY <1>1, <1>2 DEF Quiet
<1>3. CASE Names(t)
  BY <1>1, <1>3, OneMore DEF Names, Events
<1>4. CASE Shows(t)
  BY <1>1, <1>4, OneMore, TwoMore DEF Shows, Events
<1>5. CASE EndsAs(t)
  BY <1>1, <1>5, OneMore, TwoMore DEF EndsAs, Events
<1> QED
  BY <1>2, <1>3, <1>4, <1>5, AStepShows

\* The queue that holds what was not written takes what a step adds.
After(q, old, new, over) ==
  q \o [i \in 1..new - old |-> old + i] \o IF over THEN <<Stream!End>> ELSE <<>>

LEMMA QueueGrows ==
  ASSUME NEW q \in Seq(Nat), NEW from \in Nat, NEW old \in Nat, NEW new \in Nat,
         from <= old, old <= new,
         Len(q) = old - from, \A i \in 1..(old - from) : q[i] = from + i,
         NEW over \in BOOLEAN, NEW r, r = After(q, old, new, over)
  PROVE  /\ r \in Seq(Nat) /\ Len(r) = new - from + Once(over)
         /\ \A i \in 1..(new - from) : r[i] = from + i
         /\ over => r[new - from + 1] = Stream!End
<1> DEFINE put == [i \in 1..new - old |-> old + i]
           last == IF over THEN <<Stream!End>> ELSE <<>>
           both == q \o put
<1>1. put \in Seq(Nat) /\ Len(put) = new - old /\ \A i \in 1..(new - old) : put[i] = old + i
  BY IsASeq, LenProperties
<1>2. /\ last \in Seq(Nat) /\ Len(last) = Once(over)
      /\ over => last[1] = Stream!End
  BY DEF Stream!End, Once
<1> HIDE DEF put, last
<1>3. /\ both \in Seq(Nat) /\ Len(both) = new - from
      /\ \A i \in 1..(new - from) : both[i] = from + i
  <2>1. /\ both \in Seq(Nat) /\ Len(both) = Len(q) + Len(put)
        /\ \A i \in 1..(Len(q) + Len(put)) : both[i] = IF i <= Len(q) THEN q[i] ELSE put[i - Len(q)]
    BY <1>1, ConcatProperties
  <2> HIDE DEF both
  <2>2. Len(both) = new - from
    BY <1>1, <2>1
  <2>3. ASSUME NEW i \in 1..(new - from) PROVE both[i] = from + i
    <3>1. CASE i <= old - from
      BY <1>1, <2>1, <3>1
    <3>2. CASE ~(i <= old - from)
      <4>1. i - (old - from) \in 1..(new - old) /\ old + (i - (old - from)) = from + i
        BY <3>2
      <4>2. both[i] = put[i - (old - from)]
        BY <1>1, <2>1, <3>2
      <4> QED
        BY <1>1, <4>1, <4>2
    <3> QED
      BY <3>1, <3>2
  <2> QED
    BY <2>1, <2>2, <2>3
<1>4. PICK n \in Nat : n = new - from
  OBVIOUS
<1>5. PICK more \in {0, 1} : more = Once(over) /\ (over => more = 1)
  BY DEF Once
<1>6. Len(last) = more
  BY <1>2, <1>5, Zenon
<1> HIDE DEF both
<1>7. /\ r \in Seq(Nat) /\ Len(r) = new - from + Once(over)
      /\ \A i \in 1..(new - from) : r[i] = from + i
      /\ over => r[new - from + 1] = Stream!End
  <2> DEFINE w == both \o last
  <2>0. r = w
    BY DEF both, put, last, After
  <2>1. /\ r \in Seq(Nat) /\ Len(r) = Len(both) + Len(last)
        /\ \A i \in 1..(Len(both) + Len(last)) :
             r[i] = IF i <= Len(both) THEN both[i] ELSE last[i - Len(both)]
    <3>1. /\ w \in Seq(Nat) /\ Len(w) = Len(both) + Len(last)
          /\ \A i \in 1..(Len(both) + Len(last)) :
               w[i] = IF i <= Len(both) THEN both[i] ELSE last[i - Len(both)]
      BY <1>2, <1>3, ConcatProperties
    <3> HIDE DEF w
    <3> QED
      BY <2>0, <3>1, Zenon
  <2> HIDE DEF w
  <2>2. Len(both) = n /\ \A i \in 1..n : both[i] = from + i
    BY <1>3, <1>4
  <2>3. \A i \in 1..(n + more) : r[i] = IF i <= n THEN both[i] ELSE last[i - n]
    BY <1>6, <2>1, <2>2
  <2>4. \A i \in 1..n : r[i] = from + i
    BY <2>2, <2>3
  <2>5. ASSUME over PROVE r[n + 1] = Stream!End
    <3>1. more = 1
      BY <1>5, <2>5, Zenon
    <3>2. n + 1 \in 1..(n + more) /\ ~(n + 1 <= n) /\ (n + 1) - n = 1
      BY <3>1
    <3>3. last[1] = Stream!End
      BY <1>2, <2>5, Zenon
    <3> QED
      BY <2>3, <3>2, <3>3
  <2>6. Len(r) = new - from + Once(over)
    BY <1>2, <1>3, <2>1
  <2> QED
    BY <1>4, <2>1, <2>4, <2>5, <2>6
<1> QED
  BY <1>7

LEMMA TheTurnIsOne == TheTurn \in Turns
BY TurnsAssumption DEF TheTurn

LEMMA StreamOf ==
  /\ Over <=> turn[TheTurn].at = "closed"
  /\ Over' <=> turn'[TheTurn].at = "closed"
  /\ At(TheTurn, "closed")' <=> Over'
  /\ Made = Len(events[TheTurn]) /\ Made' = Len(events'[TheTurn])
BY DEF Over, Made, At, TheTurn

LEMMA StreamTypes ==
  ASSUME TurnsInv, StreamInv
  PROVE  /\ producer \in {"running", "cancelled", "ended"}
         /\ response \in {"open", "draining", "left", "ended", "closed"}
         /\ queue \in Seq(Nat) /\ sent \in Seq(Nat \ {Stream!End})
         /\ keepalives \in 0..MaxKeepalives
         /\ Made \in Nat /\ Len(sent) \in Nat /\ Len(sent) <= Made /\ Stream!End = 0
<1>1. Made \in Nat
  <2>1. events[TheTurn] \in Seq(Events)
    BY TheTurnIsOne DEF TurnsInv, TypeOK
  <2> QED
    BY <2>1, LenProperties DEF Made
<1> QED
  BY <1>1, LenProperties DEF StreamInv, Stream!TypeOK, Stream!End

\* Nothing is on the queue after the sentinel.
LEMMA SentinelIsLast ==
  ASSUME NEW q \in Seq(Nat), NEW from \in Nat, NEW made \in Nat, from <= made,
         NEW over \in BOOLEAN, Len(q) = made - from + Once(over),
         \A i \in 1..(made - from) : q[i] = from + i
  PROVE  \A i \in 1..Len(q) : q[i] = Stream!End => i = Len(q) /\ over
<1> SUFFICES ASSUME NEW i \in 1..Len(q), q[i] = 0 PROVE i = Len(q) /\ over
  BY DEF Stream!End
<1>1. PICK n \in Nat : n = made - from
  OBVIOUS
<1>2. ~(i \in 1..n)
  BY <1>1
<1>3. CASE over
  <2>1. Len(q) = n + 1
    BY <1>1, <1>3 DEF Once
  <2>2. i = Len(q)
    BY <1>2, <2>1
  <2> QED
    BY <1>3, <2>2, Zenon
<1>4. CASE ~over
  <2>1. Len(q) = n
    BY <1>1, <1>4 DEF Once
  <2> QED
    BY <1>2, <2>1
<1> QED
  BY <1>3, <1>4

\* The queue takes what the turn has put.
LEMMA StreamTakes ==
  ASSUME TurnsInv, StreamInv, producer # "ended", Runs(TheTurn) \/ Cancel(TheTurn), Puts,
         producer = "running" \/ Over'
  PROVE  StreamInv'
<1>1. TheTurn \in Turns /\ TypeOK
  BY TheTurnIsOne DEF TurnsInv
<1>2. /\ Made \in Nat /\ Made' \in Nat /\ Made <= Made' /\ Len(sent) \in Nat /\ Len(sent) <= Made
      /\ queue \in Seq(Nat) /\ response' = response /\ sent' = sent /\ keepalives' = keepalives
      /\ Over \in BOOLEAN /\ Over' \in BOOLEAN
  BY <1>1, EventsGrow, StreamOf, StreamTypes DEF Puts, Over, At
<1>3. ~Over /\ Queued
  BY DEF StreamInv, Drained
<1>4. Len(queue) = Made - Len(sent) /\ \A i \in 1..(Made - Len(sent)) : queue[i] = Len(sent) + i
  BY <1>2, <1>3 DEF Queued, Once
<1>5. queue' = After(queue, Made, Made', Over')
  BY StreamOf DEF Puts, After
<1>6. /\ queue' \in Seq(Nat) /\ Len(queue') = Made' - Len(sent) + Once(Over')
      /\ \A i \in 1..(Made' - Len(sent)) : queue'[i] = Len(sent) + i
      /\ Over' => queue'[Made' - Len(sent) + 1] = Stream!End
  <2>1. PICK from \in Nat, old \in Nat, new \in Nat :
          from = Len(sent) /\ old = Made /\ new = Made'
    BY <1>2
  <2>2. PICK q, r : q = queue /\ r = queue'
    OBVIOUS
  <2>3. PICK over \in BOOLEAN : over = Over'
    BY <1>2
  <2>4. /\ from <= old /\ old <= new /\ Len(q) = old - from
        /\ \A i \in 1..(old - from) : q[i] = from + i
        /\ q \in Seq(Nat)
    BY <1>2, <1>4, <2>1, <2>2
  <2>5. r = After(q, old, new, over)
    BY <1>5, <2>1, <2>2, <2>3
  <2>6. /\ r \in Seq(Nat) /\ Len(r) = new - from + Once(over)
        /\ \A i \in 1..(new - from) : r[i] = from + i
        /\ over => r[new - from + 1] = Stream!End
    BY <2>4, <2>5, QueueGrows
  <2> QED
    BY <2>1, <2>2, <2>3, <2>6
<1>7. Queued'
  BY <1>2, <1>3, <1>6 DEF Queued
<1>8. producer' = IF Over' THEN "ended" ELSE producer
  BY StreamOf DEF Puts
<1>9. \A i \in 1..Len(queue') : queue'[i] = Stream!End => i = Len(queue') /\ Over'
  <2>1. Len(sent) <= Made'
    BY <1>2
  <2> QED
    BY <1>2, <1>6, <2>1, SentinelIsLast
<1>10. Stream!TypeOK'
  BY <1>2, <1>6, <1>8, <1>9, StreamTypes DEF Stream!TypeOK, Stream!End
<1>11. (Len(sent) <= Made /\ \A i \in 1..Len(sent) : sent[i] = i)'
  BY <1>2 DEF StreamInv
<1>12. /\ Over' => producer' = "ended"
       /\ producer' = "ended" => Over'
       /\ response' = "closed" => producer' # "running"
       /\ producer' = "cancelled" => response' = "closed"
  BY <1>2, <1>8 DEF StreamInv
<1> QED
  BY <1>7, <1>10, <1>11, <1>12 DEF StreamInv

\* A step of the response: the turn does nothing.
LEMMA StreamResponds ==
  ASSUME TurnsInv, StreamInv, Stream!Respond, UNCHANGED vars
  PROVE  StreamInv'
<1>1. Made' = Made /\ (Over' <=> Over) /\ (At(TheTurn, "idle")' <=> At(TheTurn, "idle"))
  BY DEF vars, Made, Over, At
<1>2. /\ producer \in {"running", "cancelled", "ended"}
      /\ queue \in Seq(Nat) /\ sent \in Seq(Nat \ {0})
      /\ keepalives \in 0..MaxKeepalives
      /\ Made \in Nat /\ Len(sent) \in Nat /\ Len(sent) <= Made /\ Stream!End = 0
  BY StreamTypes
<1>3. /\ \A i \in 1..Len(sent) : sent[i] = i
      /\ Queued \/ Drained
      /\ Over => producer = "ended"
      /\ producer = "ended" => Over \/ (At(TheTurn, "idle") /\ response = "closed")
      /\ response = "closed" => producer # "running"
      /\ producer = "cancelled" => response = "closed"
      /\ \A i \in 1..Len(queue) : queue[i] = 0 => i = Len(queue) /\ producer = "ended"
  BY <1>2 DEF StreamInv, Stream!TypeOK
<1>4. CASE Stream!Write
  <2>1. /\ response = "open" /\ queue # <<>> /\ Queued
        /\ queue' = Tail(queue) /\ producer' = producer /\ keepalives' = keepalives
    BY <1>3, <1>4 DEF Stream!Write, Drained
  <2>2. PICK n \in Nat : n = Len(queue)
    BY <1>2, LenProperties
  <2>3. n >= 1 /\ Head(queue) = queue[1] /\ queue[1] \in Nat
    BY <1>2, <2>1, <2>2, EmptySeq, ElementOfSeq, HeadTailProperties
  <2>4. /\ queue' \in Seq(Nat) /\ Len(queue') = n - 1
        /\ \A i \in 1..(n - 1) : queue'[i] = queue[i + 1]
    BY <1>2, <2>1, <2>2, HeadTailProperties
  <2>5. \A i \in 1..Len(queue') : queue'[i] = 0 => i = Len(queue') /\ producer = "ended"
    BY <1>3, <2>2, <2>3, <2>4
  <2>6. PICK m \in Nat : m = Made - Len(sent)
    BY <1>2
  <2>7. /\ \A i \in 1..m : queue[i] = Len(sent) + i
        /\ n = m + Once(Over)
        /\ Over => queue[m + 1] = 0
    BY <1>2, <2>1, <2>2, <2>6 DEF Queued
  <2>8. CASE Head(queue) = Stream!End
    <3>1. response' = "draining" /\ sent' = sent /\ queue[1] = 0
      BY <1>2, <1>4, <2>3, <2>8 DEF Stream!Write
    <3>2. m = 0
      BY <1>2, <2>7, <3>1
    <3>3. Over /\ n = 1
      <4>1. CASE Over
        BY <2>7, <3>2, <4>1 DEF Once
      <4>2. CASE ~Over
        <5>1. n = 0
          BY <2>7, <3>2, <4>2 DEF Once
        <5> QED
          BY <2>3, <5>1
      <4> QED
        BY <4>1, <4>2
    <3>4. queue' = <<>> /\ Len(sent) = Made
      BY <1>2, <2>4, <2>6, <3>2, <3>3, EmptySeq
    <3>5. Drained'
      BY <1>1, <3>1, <3>3, <3>4 DEF Drained
    <3>6. Stream!TypeOK'
      BY <1>2, <2>1, <2>4, <2>5, <3>1 DEF Stream!TypeOK, Stream!End
    <3> QED
      BY <1>1, <1>2, <1>3, <2>1, <3>1, <3>5, <3>6 DEF StreamInv
  <2>9. CASE Head(queue) # Stream!End
    <3>1. response' = "open" /\ sent' = Append(sent, queue[1]) /\ queue[1] \in Nat \ {0}
      BY <1>2, <1>4, <2>1, <2>3, <2>9 DEF Stream!Write
    <3>2. m >= 1
      <4> SUFFICES ASSUME m = 0 PROVE FALSE
        OBVIOUS
      <4>1. CASE Over
        BY <2>7, <3>1, <4>1
      <4>2. CASE ~Over
        <5>1. n = 0
          BY <2>7, <4>2 DEF Once
        <5> QED
          BY <2>3, <5>1
      <4> QED
        BY <4>1, <4>2
    <3>3. PICK l \in Nat : l = Len(sent) /\ l + m = Made
      BY <1>2, <2>6
    <3>4. /\ sent' \in Seq(Nat \ {0}) /\ Len(sent') = l + 1 /\ sent'[l + 1] = l + 1
          /\ \A i \in 1..l : sent'[i] = i
      <4>1. queue[1] = l + 1
        BY <2>7, <3>2, <3>3
      <4> QED
        BY <1>2, <1>3, <3>1, <3>3, <4>1, AppendProperties
    <3>5. Len(sent') <= Made' /\ \A i \in 1..Len(sent') : sent'[i] = i
      BY <1>1, <3>2, <3>3, <3>4
    <3>6. /\ Made' - Len(sent') = m - 1
          /\ \A i \in 1..(m - 1) : queue'[i] = Len(sent') + i
      <4>1. Made' - Len(sent') = m - 1
        BY <1>1, <3>3, <3>4
      <4>2. ASSUME NEW i \in 1..(m - 1) PROVE queue'[i] = Len(sent') + i
        <5>1. i + 1 \in 1..m /\ m <= n
          <6>1. Once(Over) \in {0, 1}
            BY DEF Once
          <6> QED
            BY <2>7, <6>1
        <5>2. queue'[i] = queue[i + 1]
          BY <2>2, <2>4, <5>1
        <5>3. queue[i + 1] = l + (i + 1)
          BY <2>7, <3>3, <5>1
        <5> QED
          BY <3>3, <3>4, <5>2, <5>3
      <4> QED
        BY <4>1, <4>2
    <3>7. Len(queue') = (m - 1) + Once(Over)
      <4>1. Once(Over) \in {0, 1}
        BY DEF Once
      <4> QED
        BY <2>4, <2>7, <4>1
    <3>8. Over => queue'[(m - 1) + 1] = Stream!End
      <4> SUFFICES ASSUME Over PROVE queue'[(m - 1) + 1] = Stream!End
        OBVIOUS
      <4>1. n = m + 1 /\ queue[m + 1] = 0
        BY <2>7 DEF Once
      <4> QED
        BY <1>2, <2>4, <3>2, <4>1
    <3>9. Queued'
      <4>1. Once(Over)' = Once(Over)
        BY <1>1 DEF Once
      <4> QED
        BY <1>1, <3>1, <3>6, <3>7, <3>8, <4>1 DEF Queued
    <3>10. Stream!TypeOK'
      BY <1>2, <2>1, <2>4, <2>5, <3>1, <3>4 DEF Stream!TypeOK, Stream!End
    <3> QED
      BY <1>1, <1>3, <2>1, <3>1, <3>5, <3>9, <3>10 DEF StreamInv
  <2> QED
    BY <2>8, <2>9
<1>5. CASE ~Stream!Write
  <2>1. /\ queue' = queue /\ sent' = sent
        /\ keepalives' \in 0..MaxKeepalives
        /\ producer' = producer \/ (producer = "running" /\ producer' = "cancelled" /\ response' = "closed")
        /\ \/ response = "open" /\ response' = "open"
           \/ response = "draining" /\ response' = "ended"
           \/ response \in {"open", "draining"} /\ response' = "left"
           \/ response = "left" /\ response' = "closed" /\ producer' # "running"
    <3>1. CASE Stream!Keepalive
      BY <1>2, <3>1, KeepalivesAssumption DEF Stream!Keepalive
    <3>2. CASE Stream!Finish
      BY <1>2, <3>2 DEF Stream!Finish
    <3>3. CASE Stream!ClientLeaves
      BY <1>2, <3>3 DEF Stream!ClientLeaves
    <3>4. CASE Stream!Close
      BY <1>2, <3>4 DEF Stream!Close
    <3> QED
      BY <1>5, <3>1, <3>2, <3>3, <3>4 DEF Stream!Respond
  <2>2. Stream!TypeOK'
    BY <1>2, <1>3, <2>1 DEF Stream!TypeOK, Stream!End
  <2>3. Queued' \/ Drained'
    <3>1. Once(Over)' = Once(Over)
      BY <1>1 DEF Once
    <3>2. CASE Queued
      BY <1>1, <2>1, <3>1, <3>2 DEF Queued
    <3>3. CASE Drained
      BY <1>1, <2>1, <3>3 DEF Drained
    <3> QED
      BY <1>3, <3>2, <3>3
  <2> QED
    BY <1>1, <1>2, <1>3, <2>1, <2>2, <2>3 DEF StreamInv
<1> QED
  BY <1>4, <1>5

LEMMA ChatStarts == ChatInit => ChatInv
<1> SUFFICES ASSUME ChatInit PROVE ChatInv
  OBVIOUS
<1>1. TurnsInv
  BY TurnsInit DEF ChatInit
<1>2. turn[TheTurn].at = "idle" /\ events[TheTurn] = <<>>
  BY TheTurnIsOne DEF ChatInit, Init, NewTurn
<1>3. /\ producer = "running" /\ response = "open" /\ queue = <<>> /\ sent = <<>> /\ keepalives = 0
  BY DEF ChatInit, Stream!Init
<1>4. ~Over /\ Once(Over) = 0
  BY <1>2 DEF Over, At, Once
<1>5. Made = 0 /\ Len(sent) = 0 /\ Len(queue) = 0
  BY <1>2, <1>3, EmptySeq DEF Made
<1>6. Stream!TypeOK
  BY <1>3, KeepalivesAssumption DEF Stream!TypeOK
<1>7. Queued
  <2>1. PICK m : m = Once(Over)
    OBVIOUS
  <2>2. m = 0
    BY <1>4, <2>1, Zenon
  <2>3. Made - Len(sent) = 0
    BY <1>5
  <2>4. Len(queue) = Made - Len(sent) + m
    BY <1>5, <2>2, <2>3
  <2>5. \A i \in 1..(Made - Len(sent)) : queue[i] = Len(sent) + i
    BY <2>3
  <2> QED
    BY <1>3, <1>4, <2>1, <2>4, <2>5, Zenon DEF Queued
<1> QED
  BY <1>1, <1>3, <1>4, <1>5, <1>6, <1>7 DEF ChatInv, StreamInv

LEMMA ChatSteps == ChatInv /\ [ChatNext]_chat => ChatInv'
<1> SUFFICES ASSUME ChatInv, [ChatNext]_chat PROVE ChatInv'
  OBVIOUS
<1>0. TurnsInv /\ StreamInv /\ TheTurn \in Turns
  BY TheTurnIsOne DEF ChatInv
<1>1. CASE TurnStep
  <2>1. TurnsInv'
    BY <1>0, <1>1, TurnsStep DEF TurnStep
  <2>2. StreamInv'
    BY <1>0, <1>1, StreamTakes DEF TurnStep
  <2> QED
    BY <2>1, <2>2 DEF ChatInv
<1>2. CASE Cancelled
  <2>1. TurnsInv'
    BY <1>0, <1>2, TurnsStep DEF Cancelled
  <2>2. Over'
    <3>1. turn'[TheTurn].at = "closed"
      BY <1>0, <1>2 DEF Cancelled, Cancel, Goes, Becomes, TurnsInv, TypeOK, Turn
    <3> QED
      BY <3>1, StreamOf
  <2>3. StreamInv'
    BY <1>0, <1>2, <2>2, StreamTakes DEF Cancelled
  <2> QED
    BY <2>1, <2>3 DEF ChatInv
<1>3. CASE CancelledUnstarted
  <2>1. TurnsInv'
    BY <1>0, <1>3, TurnsStutter DEF CancelledUnstarted
  <2>2. /\ Made' = Made /\ (Over' <=> Over) /\ At(TheTurn, "idle")' /\ ~Over
        /\ producer' = "ended" /\ producer = "cancelled"
        /\ response' = response /\ queue' = queue /\ sent' = sent /\ keepalives' = keepalives
    BY <1>3 DEF CancelledUnstarted, vars, Made, Over, At
  <2>3. response = "closed" /\ Queued
    BY <1>0, <2>2 DEF StreamInv, Drained
  <2>4. Queued'
    BY <2>2, <2>3 DEF Queued, Once
  <2>5. Stream!TypeOK'
    BY <1>0, <2>2 DEF StreamInv, Stream!TypeOK
  <2>6. (Len(sent) <= Made /\ \A i \in 1..Len(sent) : sent[i] = i)'
    BY <1>0, <2>2 DEF StreamInv
  <2> QED
    BY <2>1, <2>2, <2>3, <2>4, <2>5, <2>6 DEF ChatInv, StreamInv
<1>4. CASE Stream!Respond /\ UNCHANGED vars
  BY <1>0, <1>4, TurnsStutter, StreamResponds DEF ChatInv
<1>5. CASE UNCHANGED chat
  <2>1. TurnsInv'
    BY <1>0, <1>5, TurnsStutter DEF chat
  <2>2. /\ Made' = Made /\ (Over' <=> Over) /\ (At(TheTurn, "idle")' <=> At(TheTurn, "idle"))
        /\ producer' = producer /\ response' = response /\ queue' = queue /\ sent' = sent
        /\ keepalives' = keepalives
    BY <1>5 DEF chat, vars, Stream!stream, Made, Over, At
  <2>3. Queued' <=> Queued
    BY <2>2 DEF Queued, Once
  <2>4. (Drained' <=> Drained) /\ (Stream!TypeOK' <=> Stream!TypeOK)
    BY <2>2 DEF Drained, Stream!TypeOK
  <2> QED
    BY <1>0, <2>1, <2>2, <2>3, <2>4 DEF ChatInv, StreamInv
<1> QED
  BY <1>1, <1>2, <1>3, <1>4, <1>5 DEF ChatNext

THEOREM ChatInvariance == ChatSpec => []ChatInv
BY ChatStarts, ChatSteps, PTL DEF ChatSpec

\* The types of a turn with its stream, and the bound on the calls of the model.
THEOREM ChatIsTyped == ChatSpec => []ChatTypeOK
<1>1. ChatInv => ChatTypeOK
  BY DEF ChatInv, TurnsInv, StreamInv, ChatTypeOK
<1> QED
  BY <1>1, ChatInvariance, PTL

\* A turn with its stream is a turn: the stream only chooses when it goes on.
THEOREM ChatsAreTurns == ChatSpec => Spec
<1>1. ChatInit => Init
  BY DEF ChatInit
<1>2. [ChatNext]_chat => [Next]_vars
  BY TheTurnIsOne
     DEF ChatNext, TurnStep, Cancelled, CancelledUnstarted, chat, vars, Next
<1> QED
  BY <1>1, <1>2, PTL DEF ChatSpec, Spec

\* So what a turn stores, shows and prepares is as above when a stream cancels it.
THEOREM ChatsStoreWhatTheyShow ==
  ChatSpec => [](StoredRoundsAreWhole /\ ShownRepliesAreStored /\ CardsAreOfStoredProposals)
BY ChatsAreTurns, RoundsAreWhole, RepliesAreStored, CardsAreStored, PTL

\* The client gets the events of the turn in their order, each once and none
\* left out, and all of them by the end of a response it stayed for.
THEOREM EventsArriveInOrder == ChatSpec => []EventsComeInOrder
<1>1. ChatInv => EventsComeInOrder
  <2> SUFFICES ASSUME ChatInv PROVE EventsComeInOrder
    OBVIOUS
  <2>1. EventsAreATurn /\ Len(sent) <= Made /\ \A i \in 1..Len(sent) : sent[i] = i
    BY DEF ChatInv, TurnsInv, StreamInv
  <2>2. DOMAIN sent = 1..Len(sent)
    BY StreamTypes, LenProperties DEF ChatInv
  <2>3. response \in {"draining", "ended"} => Len(sent) = Made
    BY DEF ChatInv, StreamInv, Queued, Drained
  <2> QED
    BY <2>1, <2>2, <2>3 DEF EventsComeInOrder, Stream!EventsComeInOrder, Made
<1> QED
  BY <1>1, ChatInvariance, PTL

\* Once the response is closed the turn asks the model nothing more, runs no
\* further lookup and prepares nothing: its task has ended or is cancelled.
THEOREM AbandonedTurnsDoNothing == ChatSpec => AbandonedTurnsStop
<1> DEFINE Stops == response = "closed" =>
             /\ turn'[TheTurn].calls = turn[TheTurn].calls
             /\ turn'[TheTurn].ran = turn[TheTurn].ran
             /\ prepared' = prepared
<1>1. ChatInv /\ [ChatNext]_chat => [Stops]_chat
  <2> SUFFICES ASSUME ChatInv, ChatNext, response = "closed" PROVE Stops
    OBVIOUS
  <2>1. producer # "running" /\ turn[TheTurn] \in Turn /\ turn \in [Turns -> Turn] /\ TheTurn \in Turns
    BY TheTurnIsOne DEF ChatInv, TurnsInv, StreamInv, TypeOK
  <2>2. CASE Cancelled
    BY <2>1, <2>2 DEF Cancelled, Cancel, Goes, Becomes, Turn
  <2>3. CASE UNCHANGED vars
    BY <2>3 DEF vars
  <2> QED
    BY <2>1, <2>2, <2>3 DEF ChatNext, TurnStep, CancelledUnstarted
<1> QED
  BY <1>1, ChatInvariance, PTL DEF ChatSpec, AbandonedTurnsStop
=============================================================================
