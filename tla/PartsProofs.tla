---------------------------- MODULE PartsProofs ----------------------------
(***************************************************************************)
(* Theorems about the parts of the program that keep state of their own,   *)
(* for any deadlines, headers and clocks, and any lookups at once.         *)
(*                                                                         *)
(* The message limit (RateLimiter) holds for any number of users, any      *)
(* limit, any window and any moments: the hits are the end of the messages *)
(* let through (HitsAreTheLatest) and what left them is a whole window old *)
(* (DroppedAreOld), so a message accepted when fewer than Limit hits are   *)
(* left stands a window after the one Limit places before it.              *)
(*                                                                         *)
(* In the simulated history (Simulation) a copy is free only the day after *)
(* its return, so a loan ends before the next one of the copy begins; and  *)
(* on every day to come the returns in out[r] are at least as many as the  *)
(* loans of the reader that last beyond it (LoansAreCounted).              *)
(*                                                                         *)
(* The misses of a forecast (Forecast) are fractions and, at most, one     *)
(* without limit; their comparison is a total order (AtMost), every rank   *)
(* has a miss (RanksExist) and higher percentiles are no lower             *)
(* (PercentilesRise).                                                      *)
(***************************************************************************)
EXTENDS Parts, FiniteSetTheorems, SequenceTheorems, WellFoundedInduction, TLAPS

-----------------------------------------------------------------------------
\* A call of the model

\* What the call knows at each of its stages: it sleeps only towards a second try that
\* the deadline still holds, even when the loop comes back a reading late.
CallFits ==
  /\ now \in Nat /\ deadline \in Nat
  /\ at \in {"idle", "posting", "posted", "sleeping", "ended"}
  /\ asked \in Seq(Nat) /\ Len(asked) <= 2
  /\ \A i \in DOMAIN asked : asked[i] < deadline
  /\ at \in {"idle", "posting"} => asked = <<>> /\ wait = None /\ outcome = "none"
  /\ at = "posted" =>
       /\ now <= deadline /\ Len(asked) >= 1 /\ outcome = "none"
       /\ Len(asked) = 1 => wait = None
  /\ at = "sleeping" =>
       /\ wait \in Nat /\ now <= wait + 1 /\ wait + 1 < deadline
       /\ Len(asked) = 1 /\ busy # <<>> /\ outcome = "none"
  /\ busy \in Seq(Nat)
  /\ Len(asked) = 2 => busy # <<>>
  /\ wait # None /\ outcome = "timeout" => Len(asked) = 2

CallRests == at = "idle" /\ asked = <<>> /\ busy = <<>> /\ wait = None /\ outcome = "none"

CallInv == CallFits /\ (part # "call" => CallRests)

\* One more reading at the end of a sequence of them.
LEMMA OneMoreReading ==
  ASSUME NEW s \in Seq(Nat), NEW t \in Nat
  PROVE  /\ Append(s, t) \in Seq(Nat) /\ Len(Append(s, t)) = Len(s) + 1
         /\ Append(s, t) # <<>>
         /\ \A i \in DOMAIN Append(s, t) :
              Append(s, t)[i] = t \/ (i \in DOMAIN s /\ Append(s, t)[i] = s[i])
<1>1. /\ Append(s, t) \in Seq(Nat) /\ Len(Append(s, t)) = Len(s) + 1
      /\ \A i \in 1..Len(s) : Append(s, t)[i] = s[i]
      /\ Append(s, t)[Len(s) + 1] = t
  BY AppendProperties
<1>2. DOMAIN s = 1..Len(s) /\ DOMAIN Append(s, t) = 1..(Len(s) + 1) /\ Len(s) \in Nat
  BY <1>1, LenProperties
<1>3. Append(s, t) # <<>>
  BY <1>1, <1>2, EmptySeq
<1> QED
  BY <1>1, <1>2, <1>3

LEMMA Posts ==
  ASSUME CallFits, Call!Post, now' = now, deadline' = deadline, wait' = wait, busy' = busy,
         \/ at = "posting"
         \/ at = "sleeping" /\ wait <= now
  PROVE  CallFits'
<1>1. CASE now < deadline
  <2>1. at' = "posted" /\ asked' = Append(asked, now) /\ outcome' = outcome /\ outcome = "none"
    BY <1>1 DEF Call!Post, CallFits
  <2>2. /\ asked' \in Seq(Nat) /\ Len(asked') = Len(asked) + 1
        /\ \A i \in DOMAIN asked' : asked'[i] = now \/ (i \in DOMAIN asked /\ asked'[i] = asked[i])
    BY <2>1, OneMoreReading DEF CallFits
  <2>3. CASE at = "posting"
    <3>1. Len(asked) = 0 /\ wait = None
      BY <2>3, EmptySeq DEF CallFits
    <3> QED
      BY <1>1, <2>1, <2>2, <3>1 DEF CallFits
  <2>4. CASE at = "sleeping"
    <3>1. Len(asked) = 1 /\ busy # <<>>
      BY <2>4 DEF CallFits
    <3>2. Len(asked') = 2 /\ busy' # <<>> /\ outcome' = "none"
      BY <2>1, <2>2, <3>1
    <3>3. now' \in Nat /\ deadline' \in Nat /\ busy' \in Seq(Nat) /\ now' <= deadline'
      BY <1>1 DEF CallFits
    <3>4. \A i \in DOMAIN asked' : asked'[i] < deadline'
      BY <1>1, <2>2 DEF CallFits
    <3> QED
      BY <2>1, <2>2, <3>2, <3>3, <3>4 DEF CallFits
  <2> QED
    BY <2>3, <2>4
<1>2. CASE ~(now < deadline)
  <2>1. at = "posting"
    BY <1>2 DEF CallFits
  <2>2. at' = "ended" /\ asked' = asked /\ wait = None
    BY <1>2, <2>1 DEF Call!Post, Call!Ends, CallFits
  <2> QED
    BY <2>1, <2>2 DEF CallFits
<1> QED
  BY <1>1, <1>2

LEMMA Answered ==
  ASSUME CallFits, NEW status \in Call!Statuses, NEW header \in Headers,
         Call!Answers(status, header), now' = now
  PROVE  CallFits'
<1> DEFINE seconds == Call!RetryWait(status, header)
<1>1. /\ at = "posted" /\ deadline' = deadline /\ asked' = asked
      /\ busy' = IF status = "busy" THEN Append(busy, now) ELSE busy
  BY DEF Call!Answers
<1>2. busy' \in Seq(Nat) /\ (busy # <<>> \/ status = "busy" => busy' # <<>>)
  BY <1>1, OneMoreReading DEF CallFits
<1>3. CASE Len(asked) = 1 /\ seconds # None /\ Call!LeavesTime(seconds)
  <2>1. at' = "sleeping" /\ wait' = now + seconds /\ outcome' = outcome
    BY <1>3 DEF Call!Answers
  <2>2. status = "busy" /\ seconds \in Nat
    BY <1>3, PartsAssumption DEF Call!RetryWait, Call!DEFAULT_RETRY_WAIT_SECONDS
  <2>3. now + seconds + 1 < deadline
    BY <1>3 DEF Call!LeavesTime, Call!MIN_CALL_SECONDS
  <2>4. wait' \in Nat /\ now' <= wait' + 1 /\ wait' + 1 < deadline'
    BY <1>1, <2>1, <2>2, <2>3 DEF CallFits
  <2> QED
    BY <1>1, <1>2, <1>3, <2>1, <2>2, <2>4 DEF CallFits
<1>4. CASE ~(Len(asked) = 1 /\ seconds # None /\ Call!LeavesTime(seconds))
  <2>1. at' = "ended" /\ wait' = wait /\ outcome' # "timeout"
    BY <1>4 DEF Call!Answers, Call!Results, Call!Ends
  <2> QED
    BY <1>1, <1>2, <2>1 DEF CallFits
<1> QED
  BY <1>3, <1>4

LEMMA CallStep == CallFits /\ Call!Next => CallFits'
<1> SUFFICES ASSUME CallFits, Call!Next PROVE CallFits'
  OBVIOUS
<1>1. CASE Call!Tick
  BY <1>1 DEF Call!Tick, Call!callVars, CallFits
<1>2. ASSUME NEW timeout \in Timeouts, Call!Complete(timeout), now' = now PROVE CallFits'
  <2>1. deadline' \in Nat
    BY <1>2, PartsAssumption DEF Call!Complete, CallFits
  <2>2. DOMAIN asked = {}
    BY <1>2 DEF Call!Complete, CallFits
  <2> QED
    BY <1>2, <2>1, <2>2 DEF Call!Complete, CallFits
<1>3. ASSUME Call!FirstPost \/ Call!SecondPost, now' = now PROVE CallFits'
  BY <1>3, Posts DEF Call!FirstPost, Call!SecondPost
<1>4. ASSUME Call!PostFails \/ Call!PostTimesOut \/ Call!Cancelled, now' = now PROVE CallFits'
  <2>1. /\ at' = "ended" /\ UNCHANGED <<deadline, wait, asked, busy>>
        /\ outcome' = "timeout" => at = "posted"
    BY <1>4 DEF Call!PostFails, Call!PostTimesOut, Call!Cancelled, Call!Ends
  <2>2. wait # None /\ outcome' = "timeout" => Len(asked) = 2
    <3>1. PICK n \in Nat : n = Len(asked) /\ n <= 2
      BY LenProperties DEF CallFits
    <3>2. at = "posted" => n >= 1 /\ (n = 1 => wait = None)
      BY <3>1 DEF CallFits
    <3>3. at = "posted" /\ wait # None => n = 2
      BY <3>1, <3>2
    <3> QED
      BY <2>1, <3>1, <3>3
  <2> QED
    BY <1>4, <2>1, <2>2 DEF CallFits
<1> QED
  BY <1>1, <1>2, <1>3, <1>4, Answered DEF Call!Next, Call!Step

LEMMA CallInvariance == PartsSpec => []CallInv
<1> DEFINE all == <<vars, part, memoryVars, callVars, counts, simVars>>
<1>1. PartsInit => CallInv
  BY EmptySeq DEF PartsInit, Call!Init, CallInv, CallFits, CallRests
<1>2. CallInv /\ [PartsNext]_all => CallInv'
  <2> SUFFICES ASSUME CallInv, [PartsNext]_all PROVE CallInv'
    OBVIOUS
  <2>1. CASE UNCHANGED all
    BY <2>1 DEF vars, callVars, CallInv, CallFits, CallRests
  <2>2. CASE part = "call" /\ Call!Next /\ part' = part
    BY <2>2, CallStep DEF CallInv
  <2>3. ASSUME part # "call", UNCHANGED <<part, callVars>>, now' \in Nat PROVE CallInv'
    BY <2>3, EmptySeq DEF callVars, CallInv, CallFits, CallRests
  <2>4. CASE PartsNext
    <3>1. now \in Nat /\ part' = part
      BY <2>4 DEF PartsNext, CallInv, CallFits
    <3>2. Next \/ Memory!Next => now' \in Nat
      BY <3>1 DEF Next, Tick, Accept, Refuse, Memory!Next, Memory!Tick, Memory!Restart,
         Memory!Step, Memory!FindCached, Memory!FindAsks, Memory!CatalogReads,
         Memory!FindRemembers, Memory!Unavailable
    <3> QED
      BY <2>2, <2>3, <2>4, <3>1, <3>2 DEF PartsNext, vars
  <2> QED
    BY <2>1, <2>4
<1> QED
  BY <1>1, <1>2, PTL DEF PartsSpec

\* A call asks at most twice and always before its deadline, the second time only of a
\* busy service, and never sleeps for nothing: the wait leaves a second more than the
\* loop's delay (openrouter.py:5, _post_with_retry).
THEOREM CallsKeepTheirDeadline == PartsSpec => []CallsFitTheirDeadline
<1>1. CallInv => CallsFitTheirDeadline
  BY DEF CallInv, CallFits, CallsFitTheirDeadline, Call!CallsFitTheirDeadline
<1> QED
  BY <1>1, CallInvariance, PTL

-----------------------------------------------------------------------------
\* The memory of ISBN answers

LEMMA RemovesOne ==
  ASSUME NEW S, NEW s \in Seq(S), NEW p \in 1..Len(s)
  PROVE  /\ Memory!RemoveAt(s, p) \in Seq(S)
         /\ Len(Memory!RemoveAt(s, p)) = Len(s) - 1
         /\ \A i \in 1..(Len(s) - 1) :
              Memory!RemoveAt(s, p)[i] = IF i < p THEN s[i] ELSE s[i + 1]
<1>1. PICK n \in Nat : n = Len(s)
  BY LenProperties
<1>2. \A i \in 1..n : s[i] \in S
  BY <1>1, ElementOfSeq
<1> DEFINE before == SubSeq(s, 1, p - 1)
           after == SubSeq(s, p + 1, n)
<1>3. before \in Seq(S) /\ Len(before) = p - 1 /\ \A i \in 1..(p - 1) : before[i] = s[i]
  <2>1. 1 \in Int /\ p - 1 \in Int /\ \A i \in 1..(p - 1) : s[i] \in S
    BY <1>1, <1>2
  <2>2. /\ before \in Seq(S) /\ Len(before) = IF 1 <= p - 1 THEN p - 1 - 1 + 1 ELSE 0
        /\ \A i \in 1..(p - 1 - 1 + 1) : before[i] = s[1 + i - 1]
    BY <2>1, SubSeqProperties
  <2>3. \A i \in 1..(p - 1) : 1 + i - 1 = i
    BY <1>1
  <2> HIDE DEF before
  <2> QED
    BY <1>1, <2>2, <2>3
<1>4. after \in Seq(S) /\ Len(after) = n - p /\ \A i \in 1..(n - p) : after[i] = s[i + p]
  <2>1. p + 1 \in Int /\ n \in Int /\ \A i \in (p + 1)..n : s[i] \in S
    BY <1>1, <1>2
  <2>2. /\ after \in Seq(S) /\ Len(after) = IF p + 1 <= n THEN n - (p + 1) + 1 ELSE 0
        /\ \A i \in 1..(n - (p + 1) + 1) : after[i] = s[p + 1 + i - 1]
    BY <2>1, SubSeqProperties
  <2>3. \A i \in 1..(n - p) : p + 1 + i - 1 = i + p
    BY <1>1
  <2> HIDE DEF after
  <2> QED
    BY <1>1, <2>2, <2>3
<1>5. Memory!RemoveAt(s, p) = before \o after
  BY <1>1 DEF Memory!RemoveAt
<1>6. /\ before \o after \in Seq(S) /\ Len(before \o after) = Len(before) + Len(after)
      /\ \A i \in 1..(Len(before) + Len(after)) :
           (before \o after)[i] = IF i <= Len(before) THEN before[i] ELSE after[i - Len(before)]
  BY <1>3, <1>4, ConcatProperties
<1> HIDE DEF before, after
<1>7. ASSUME NEW i \in 1..(n - 1)
      PROVE  (before \o after)[i] = IF i < p THEN s[i] ELSE s[i + 1]
  <2>1. i \in 1..(Len(before) + Len(after)) /\ Len(before) = p - 1
    BY <1>1, <1>3, <1>4
  <2>2. CASE i < p
    BY <1>1, <1>3, <1>6, <2>1, <2>2
  <2>3. CASE ~(i < p)
    <3>1. i - (p - 1) \in 1..(n - p) /\ i - (p - 1) + p = i + 1
      BY <1>1, <2>3
    <3> QED
      BY <1>1, <1>4, <1>6, <2>1, <2>3, <3>1
  <2> QED
    BY <2>2, <2>3
<1> QED
  BY <1>1, <1>3, <1>4, <1>5, <1>6, <1>7

\* The loop drops from the before until there is room for one more.
LEMMA NewestAreKept ==
  ASSUME NEW S, NEW s \in Seq(S)
  PROVE  \E d \in 0..Len(s) :
           /\ Memory!Newest(s) \in Seq(S) /\ Len(Memory!Newest(s)) = Len(s) - d
           /\ \A i \in 1..(Len(s) - d) : Memory!Newest(s)[i] = s[i + d]
           /\ Len(s) - d < MaxCached
           /\ d > 0 => Len(s) - d + 1 = MaxCached
<1>1. PICK n \in Nat : n = Len(s)
  BY LenProperties
<1>2. MaxCached \in Nat \ {0}
  BY PartsAssumption
<1>3. PICK d \in 0..n :
        d = IF n - MaxCached + 1 > 0 THEN n - MaxCached + 1 ELSE 0
  <2>1. (IF n - MaxCached + 1 > 0 THEN n - MaxCached + 1 ELSE 0) \in 0..n
    BY <1>1, <1>2
  <2> QED
    BY <2>1
<1>4. Memory!Newest(s) = SubSeq(s, d + 1, n)
  <2>1. (IF n - MaxCached + 1 > 0 THEN n - MaxCached + 1 + 1 ELSE 1) = d + 1
    BY <1>1, <1>2, <1>3
  <2> QED
    BY <1>1, <2>1 DEF Memory!Newest
<1>5. /\ SubSeq(s, d + 1, n) \in Seq(S)
      /\ Len(SubSeq(s, d + 1, n)) = IF d + 1 <= n THEN n - (d + 1) + 1 ELSE 0
      /\ \A i \in 1..(n - (d + 1) + 1) : SubSeq(s, d + 1, n)[i] = s[d + 1 + i - 1]
  <2>1. d + 1 \in Int /\ n \in Int /\ \A i \in (d + 1)..n : s[i] \in S
    BY <1>1, <1>3, ElementOfSeq
  <2> QED
    BY <2>1, SubSeqProperties
<1>6. \A i \in 1..(n - d) : i \in 1..(n - (d + 1) + 1) /\ d + 1 + i - 1 = i + d
  BY <1>1, <1>3
<1>7. Len(SubSeq(s, d + 1, n)) = n - d
  BY <1>1, <1>3, <1>5
<1>8. n - d < MaxCached /\ (d > 0 => n - d + 1 = MaxCached)
  BY <1>1, <1>2, <1>3
<1> QED
  BY <1>1, <1>3, <1>4, <1>5, <1>6, <1>7, <1>8

\* One entry per ISBN, in the order in which they came, each known when it was asked
\* for, and a lookup in hand no older than its deadline.
CacheFits ==
  /\ Len(cache) <= MaxCached
  /\ \A i, j \in DOMAIN cache : i # j => cache[i].isbn # cache[j].isbn
  /\ \A i \in DOMAIN cache : cache[i].asked <= cache[i].read /\ cache[i].asked <= now
  /\ \A i, j \in DOMAIN cache : i < j => cache[i].asked <= cache[j].asked + Timeout

LookupFits(r) ==
  lookup[r].waits =>
    /\ lookup[r].asked <= now /\ now <= lookup[r].asked + Timeout
    /\ lookup[r].read # Memory!Unread => lookup[r].asked <= lookup[r].read

MemoryFits ==
  /\ Memory!TypeOK
  /\ CacheFits
  /\ \A r \in Requests : LookupFits(r)
  /\ NoAnswerIsADayOld

MemoryRests ==
  /\ cache = <<>>
  /\ lookup = [r \in Requests |-> Memory!Idle]
  /\ found = [r \in Requests |-> Memory!Nothing]

MemoryInv == MemoryFits /\ (part # "memory" => MemoryRests)

\* The other answers, where they stay.
LEMMA OthersStay ==
  ASSUME Memory!TypeOK, CacheFits, NEW isbn
  PROVE  \E n \in Nat : \E h \in [1..n -> DOMAIN cache] :
           /\ Memory!Others(isbn) \in Seq(Memory!Entry) /\ Len(Memory!Others(isbn)) = n
           /\ \A i \in 1..n : /\ Memory!Others(isbn)[i] = cache[h[i]]
                              /\ cache[h[i]].isbn # isbn
           /\ \A i, j \in 1..n : i < j => h[i] < h[j]
           /\ \A k \in DOMAIN cache : cache[k].isbn # isbn => \E i \in 1..n : h[i] = k
<1>1. PICK m \in Nat : m = Len(cache) /\ DOMAIN cache = 1..m /\ cache \in Seq(Memory!Entry)
  BY LenProperties DEF Memory!TypeOK
<1>2. CASE ~\E i \in DOMAIN cache : cache[i].isbn = isbn
  <2> DEFINE h == [i \in 1..m |-> i]
  <2>1. Memory!Others(isbn) = cache
    BY <1>2 DEF Memory!Others
  <2>2. h \in [1..m -> DOMAIN cache] /\ \A i \in 1..m : h[i] = i
    BY <1>1
  <2> HIDE DEF h
  <2> QED
    BY <1>1, <1>2, <2>1, <2>2
<1>3. CASE \E i \in DOMAIN cache : cache[i].isbn = isbn
  <2>1. PICK p \in 1..m : p = Memory!Place(isbn) /\ cache[p].isbn = isbn
    BY <1>1, <1>3 DEF Memory!Place
  <2>2. Memory!Others(isbn) = Memory!RemoveAt(cache, p)
    BY <1>3, <2>1 DEF Memory!Others
  <2>3. /\ Memory!RemoveAt(cache, p) \in Seq(Memory!Entry)
        /\ Len(Memory!RemoveAt(cache, p)) = m - 1
        /\ \A i \in 1..(m - 1) :
             Memory!RemoveAt(cache, p)[i] = IF i < p THEN cache[i] ELSE cache[i + 1]
    BY <1>1, RemovesOne
  <2> DEFINE h == [i \in 1..(m - 1) |-> IF i < p THEN i ELSE i + 1]
  <2>4. /\ h \in [1..(m - 1) -> DOMAIN cache]
        /\ \A i \in 1..(m - 1) : h[i] = (IF i < p THEN i ELSE i + 1) /\ h[i] # p
    BY <1>1, <2>1
  <2> HIDE DEF h
  <2>5. \A i, j \in 1..(m - 1) : i < j => h[i] < h[j]
    BY <1>1, <2>4
  <2>6. \A i \in 1..(m - 1) : cache[h[i]].isbn # isbn
    BY <1>1, <2>1, <2>4 DEF CacheFits
  <2>7. ASSUME NEW k \in DOMAIN cache, cache[k].isbn # isbn
        PROVE  \E i \in 1..(m - 1) : h[i] = k
    <3>1. CASE k < p
      BY <1>1, <2>1, <2>4, <3>1
    <3>2. CASE p < k
      <4>1. k - 1 \in 1..(m - 1) /\ h[k - 1] = k
        BY <1>1, <2>1, <2>4, <3>2
      <4> QED
        BY <4>1
    <3> QED
      BY <1>1, <2>1, <2>7, <3>1, <3>2
  <2>8. m - 1 \in Nat
    BY <1>1, <2>1
  <2>9. \A i \in 1..(m - 1) : Memory!Others(isbn)[i] = cache[h[i]]
    BY <2>2, <2>3, <2>4
  <2>10. Memory!Others(isbn) \in Seq(Memory!Entry) /\ Len(Memory!Others(isbn)) = m - 1
    BY <2>2, <2>3
  <2> QED
    BY <2>4, <2>5, <2>6, <2>7, <2>8, <2>9, <2>10
<1> QED
  BY <1>2, <1>3

\* What an answer finds in the memory when it is remembered: the others in their
\* order, without the ones at the front that made room.
LEMMA Remembers ==
  ASSUME Memory!TypeOK, CacheFits, NEW l, Memory!Filed(l) \in Memory!Entry
  PROVE  \E n \in Nat : \E g \in [1..n -> DOMAIN cache] :
           /\ Memory!Remembered(l) \in Seq(Memory!Entry)
           /\ Len(Memory!Remembered(l)) = n + 1 /\ n + 1 <= MaxCached
           /\ Memory!Remembered(l)[n + 1] = Memory!Filed(l)
           /\ \A i \in 1..n : /\ Memory!Remembered(l)[i] = cache[g[i]]
                              /\ cache[g[i]].isbn # l.isbn
           /\ \A i, j \in 1..n : i < j => g[i] < g[j]
           /\ \A k \in DOMAIN cache : cache[k].isbn # l.isbn =>
                \/ \E i \in 1..n : g[i] = k
                \/ n + 1 = MaxCached /\ \A i \in 1..n : k < g[i]
<1> DEFINE others == Memory!Others(l.isbn)
<1>1. PICK m \in Nat : \E h \in [1..m -> DOMAIN cache] :
        /\ others \in Seq(Memory!Entry) /\ Len(others) = m
        /\ \A i \in 1..m : others[i] = cache[h[i]] /\ cache[h[i]].isbn # l.isbn
        /\ \A i, j \in 1..m : i < j => h[i] < h[j]
        /\ \A k \in DOMAIN cache : cache[k].isbn # l.isbn => \E i \in 1..m : h[i] = k
  BY OthersStay
<1>2. PICK h \in [1..m -> DOMAIN cache] :
        /\ others \in Seq(Memory!Entry) /\ Len(others) = m
        /\ \A i \in 1..m : others[i] = cache[h[i]] /\ cache[h[i]].isbn # l.isbn
        /\ \A i, j \in 1..m : i < j => h[i] < h[j]
        /\ \A k \in DOMAIN cache : cache[k].isbn # l.isbn => \E i \in 1..m : h[i] = k
  BY <1>1
<1>3. PICK d \in 0..m :
        /\ Memory!Newest(others) \in Seq(Memory!Entry) /\ Len(Memory!Newest(others)) = m - d
        /\ \A i \in 1..(m - d) : Memory!Newest(others)[i] = others[i + d]
        /\ m - d < MaxCached
        /\ d > 0 => m - d + 1 = MaxCached
  <2>1. others \in Seq(Memory!Entry) /\ Len(others) = m
    BY <1>2
  <2> HIDE DEF others
  <2>2. PICK d \in 0..Len(others) :
          /\ Memory!Newest(others) \in Seq(Memory!Entry)
          /\ Len(Memory!Newest(others)) = Len(others) - d
          /\ \A i \in 1..(Len(others) - d) : Memory!Newest(others)[i] = others[i + d]
          /\ Len(others) - d < MaxCached
          /\ d > 0 => Len(others) - d + 1 = MaxCached
    BY <2>1, NewestAreKept, Zenon
  <2> QED
    BY <2>1, <2>2
<1>4. PICK n \in Nat : n = m - d
  BY <1>1
<1> DEFINE g == [i \in 1..n |-> h[i + d]]
<1>5. /\ \A i \in 1..n : i + d \in 1..m /\ g[i] = h[i + d]
      /\ g \in [1..n -> DOMAIN cache]
  BY <1>4
<1> HIDE DEF g
<1>6. /\ Memory!Remembered(l) = Append(Memory!Newest(others), Memory!Filed(l))
      /\ Memory!Remembered(l) \in Seq(Memory!Entry) /\ Len(Memory!Remembered(l)) = n + 1
      /\ Memory!Remembered(l)[n + 1] = Memory!Filed(l)
      /\ \A i \in 1..n : Memory!Remembered(l)[i] = Memory!Newest(others)[i]
  BY <1>3, <1>4, AppendProperties DEF Memory!Remembered
<1> HIDE DEF others
<1>7. \A i \in 1..n : Memory!Remembered(l)[i] = cache[g[i]] /\ cache[g[i]].isbn # l.isbn
  <2> SUFFICES ASSUME NEW i \in 1..n
               PROVE  Memory!Remembered(l)[i] = cache[g[i]] /\ cache[g[i]].isbn # l.isbn
    OBVIOUS
  <2>1. i + d \in 1..m /\ g[i] = h[i + d]
    BY <1>5
  <2>2. Memory!Remembered(l)[i] = others[i + d]
    BY <1>3, <1>4, <1>6
  <2> QED
    BY <1>2, <2>1, <2>2
<1>8. \A i, j \in 1..n : i < j => g[i] < g[j]
  BY <1>2, <1>4, <1>5
<1>9. ASSUME NEW k \in DOMAIN cache, cache[k].isbn # l.isbn
      PROVE  \/ \E i \in 1..n : g[i] = k
             \/ n + 1 = MaxCached /\ \A i \in 1..n : k < g[i]
  <2>1. PICK i \in 1..m : h[i] = k
    BY <1>2, <1>9
  <2>2. CASE i <= d
    <3>1. \A j \in 1..n : h[i] < h[j + d]
      BY <1>2, <1>4, <1>5, <2>2
    <3>2. \A j \in 1..n : k < g[j]
      BY <1>5, <2>1, <3>1
    <3>3. n + 1 = MaxCached
      BY <1>3, <1>4, <2>2
    <3> QED
      BY <3>2, <3>3
  <2>3. CASE d < i
    <3>1. i - d \in 1..n /\ g[i - d] = k
      <4>1. i - d \in 1..n /\ i - d + d = i
        BY <1>4, <2>3
      <4> QED
        BY <1>5, <2>1, <4>1
    <3> QED
      BY <3>1
  <2> QED
    BY <2>2, <2>3
<1>10. n + 1 <= MaxCached
  BY <1>3, <1>4, PartsAssumption
<1> QED
  BY <1>5, <1>6, <1>7, <1>8, <1>9, <1>10

LEMMA EntriesFit ==
  ASSUME Memory!TypeOK, NEW i \in DOMAIN cache
  PROVE  /\ i \in Nat /\ cache[i] \in Memory!Entry
         /\ cache[i].asked \in Nat /\ cache[i].read \in Nat
<1>1. cache \in Seq(Memory!Entry) /\ DOMAIN cache = 1..Len(cache) /\ Len(cache) \in Nat
  BY LenProperties DEF Memory!TypeOK
<1>2. i \in 1..Len(cache)
  BY <1>1
<1>3. cache[i] \in Memory!Entry
  BY <1>1, <1>2, ElementOfSeq
<1> QED
  BY <1>1, <1>2, <1>3 DEF Memory!Entry

LEMMA WaitingFits ==
  ASSUME Memory!TypeOK, NEW r \in Requests, lookup[r].waits
  PROVE  lookup[r] \in [waits: {TRUE}, isbn: Isbns, asked: Nat, read: Nat \cup {Memory!Unread}]
<1>1. lookup[r] \in Memory!Find
  BY DEF Memory!TypeOK
<1>2. Memory!Idle.waits = FALSE
  BY DEF Memory!Idle
<1>3. lookup[r] # Memory!Idle
  BY <1>2
<1> QED
  BY <1>1, <1>3 DEF Memory!Find

\* An answer is remembered after all that were remembered before it, so it is asked no
\* earlier than a call's deadline before any of them.
LEMMA MemoryRemembers ==
  ASSUME MemoryFits, NEW r \in Requests, Memory!FindRemembers(r)
  PROVE  MemoryFits'
<1>1. /\ lookup[r].waits /\ lookup[r].read # Memory!Unread
      /\ cache' = Memory!Remembered(lookup[r]) /\ now' = now
      /\ found' = [found EXCEPT ![r] = [at |-> now, read |-> lookup[r].read]]
      /\ lookup' = [lookup EXCEPT ![r] = Memory!Idle]
  BY DEF Memory!FindRemembers
<1>2. PICK l : l = lookup[r]
  OBVIOUS
<1>3. /\ now \in Nat /\ l.isbn \in Isbns /\ l.asked \in Nat /\ l.read \in Nat
      /\ l.asked <= now /\ now <= l.asked + Timeout /\ l.asked <= l.read
  <2>1. l \in Memory!Find /\ LookupFits(r) /\ now \in Nat
    BY <1>2 DEF MemoryFits, Memory!TypeOK
  <2>2. l \in [waits: {TRUE}, isbn: Isbns, asked: Nat, read: Nat \cup {Memory!Unread}]
    BY <1>1, <1>2, WaitingFits DEF MemoryFits
  <2> QED
    BY <1>1, <1>2, <2>1, <2>2 DEF LookupFits
<1>4. Memory!Filed(l) \in Memory!Entry
      /\ Memory!Filed(l).isbn = l.isbn /\ Memory!Filed(l).asked = l.asked
      /\ Memory!Filed(l).read = l.read
  BY <1>3 DEF Memory!Filed, Memory!Entry
<1>5. PICK n \in Nat : \E g \in [1..n -> DOMAIN cache] :
        /\ cache' \in Seq(Memory!Entry) /\ Len(cache') = n + 1 /\ n + 1 <= MaxCached
        /\ cache'[n + 1] = Memory!Filed(l)
        /\ \A i \in 1..n : cache'[i] = cache[g[i]] /\ cache[g[i]].isbn # l.isbn
        /\ \A i, j \in 1..n : i < j => g[i] < g[j]
  <2>1. Memory!TypeOK /\ CacheFits
    BY DEF MemoryFits
  <2> QED
    BY <1>1, <1>2, <1>4, <2>1, Remembers
<1>6. PICK g \in [1..n -> DOMAIN cache] :
        /\ cache' \in Seq(Memory!Entry) /\ Len(cache') = n + 1 /\ n + 1 <= MaxCached
        /\ cache'[n + 1] = Memory!Filed(l)
        /\ \A i \in 1..n : cache'[i] = cache[g[i]] /\ cache[g[i]].isbn # l.isbn
        /\ \A i, j \in 1..n : i < j => g[i] < g[j]
  BY <1>5
<1>7. /\ DOMAIN cache' = 1..(n + 1) /\ \A i \in 1..n : g[i] \in DOMAIN cache
      /\ \A i \in DOMAIN cache : cache[i] \in Memory!Entry /\ i \in Nat
  BY <1>6, LenProperties, EntriesFit DEF MemoryFits
<1>8. CacheFits'
  <2>1. \A i, j \in 1..(n + 1) : i # j => cache'[i].isbn # cache'[j].isbn
    <3>1. \A i, j \in 1..n : i # j => g[i] # g[j]
      BY <1>6, <1>7
    <3>2. \A i, j \in 1..n : i # j => cache'[i].isbn # cache'[j].isbn
      BY <1>6, <1>7, <3>1 DEF MemoryFits, CacheFits
    <3>3. \A i \in 1..n : cache'[i].isbn # cache'[n + 1].isbn
      BY <1>4, <1>6
    <3> QED
      BY <3>2, <3>3
  <2>2. \A i \in 1..(n + 1) : cache'[i].asked <= cache'[i].read /\ cache'[i].asked <= now'
    <3>1. \A i \in 1..n : cache'[i].asked <= cache'[i].read /\ cache'[i].asked <= now
      BY <1>6, <1>7 DEF MemoryFits, CacheFits
    <3>2. cache'[n + 1].asked <= cache'[n + 1].read /\ cache'[n + 1].asked <= now
      BY <1>3, <1>4, <1>6
    <3> QED
      BY <1>1, <3>1, <3>2
  <2>3. \A i, j \in 1..(n + 1) : i < j => cache'[i].asked <= cache'[j].asked + Timeout
    <3>1. \A i, j \in 1..n : i < j => cache'[i].asked <= cache'[j].asked + Timeout
      BY <1>6, <1>7 DEF MemoryFits, CacheFits
    <3>2. ASSUME NEW i \in 1..n PROVE cache'[i].asked <= cache'[n + 1].asked + Timeout
      <4>1. cache[g[i]].asked \in Nat /\ cache[g[i]].asked <= now /\ cache'[i] = cache[g[i]]
        BY <1>6, <1>7 DEF MemoryFits, CacheFits, Memory!Entry
      <4>2. cache'[n + 1].asked = l.asked /\ Timeout \in Nat
        BY <1>4, <1>6, PartsAssumption
      <4> QED
        BY <1>3, <4>1, <4>2
    <3> QED
      BY <3>1, <3>2
  <2> QED
    BY <1>6, <1>7, <2>1, <2>2, <2>3 DEF CacheFits
<1>9. Memory!TypeOK'
  <2>1. lookup' \in [Requests -> Memory!Find]
    BY <1>1 DEF MemoryFits, Memory!TypeOK, Memory!Find
  <2>2. found' \in [Requests -> [at: Nat, read: Nat]]
    BY <1>1, <1>2, <1>3 DEF MemoryFits, Memory!TypeOK
  <2> QED
    BY <1>1, <1>3, <1>6, <2>1, <2>2 DEF Memory!TypeOK
<1>10. ASSUME NEW q \in Requests PROVE LookupFits(q)'
  <2>1. lookup'[q] = Memory!Idle \/ lookup'[q] = lookup[q]
    BY <1>1 DEF MemoryFits, Memory!TypeOK
  <2> QED
    BY <1>1, <2>1 DEF MemoryFits, LookupFits, Memory!Idle
<1>11. NoAnswerIsADayOld'
  <2>1. ASSUME NEW q \in Requests PROVE found'[q].at - found'[q].read < CacheSeconds
    <3>1. CASE q = r
      <4>1. found'[q].at = now /\ found'[q].read = l.read
        BY <1>1, <1>2, <3>1 DEF MemoryFits, Memory!TypeOK
      <4> QED
        BY <1>3, <4>1, PartsAssumption
    <3>2. CASE q # r
      <4>1. found'[q] = found[q]
        BY <1>1, <3>2 DEF MemoryFits, Memory!TypeOK
      <4> QED
        BY <4>1 DEF MemoryFits, NoAnswerIsADayOld, Memory!NoAnswerIsADayOld
    <3> QED
      BY <3>1, <3>2
  <2> QED
    BY <2>1 DEF NoAnswerIsADayOld, Memory!NoAnswerIsADayOld
<1> QED
  BY <1>8, <1>9, <1>10, <1>11 DEF MemoryFits

LEMMA MemoryFinds ==
  ASSUME MemoryFits, NEW r \in Requests, NEW isbn \in Isbns, Memory!FindCached(r, isbn)
  PROVE  MemoryFits'
<1>1. PICK i \in DOMAIN cache :
        /\ Memory!Fresh(cache[i])
        /\ found' = [found EXCEPT ![r] = [at |-> now, read |-> cache[i].read]]
        /\ UNCHANGED <<now, cache, lookup>>
  BY DEF Memory!FindCached
<1>2. /\ cache[i].asked \in Nat /\ cache[i].read \in Nat /\ now \in Nat
      /\ cache[i].asked <= cache[i].read
      /\ CacheSeconds \in Nat
  BY EntriesFit, PartsAssumption DEF MemoryFits, CacheFits, Memory!TypeOK
<1>3. now - cache[i].read < CacheSeconds
  <2>1. now - cache[i].asked < CacheSeconds
    BY <1>1 DEF Memory!Fresh
  <2> QED
    BY <1>2, <2>1
<1>4. NoAnswerIsADayOld'
  BY <1>1, <1>3 DEF MemoryFits, Memory!TypeOK, NoAnswerIsADayOld, Memory!NoAnswerIsADayOld
<1>5. Memory!TypeOK'
  BY <1>1, <1>2 DEF MemoryFits, Memory!TypeOK
<1>6. CacheFits' /\ \A q \in Requests : LookupFits(q)'
  BY <1>1 DEF MemoryFits, CacheFits, LookupFits
<1> QED
  BY <1>4, <1>5, <1>6 DEF MemoryFits

LEMMA MemoryStep == MemoryFits /\ Memory!Next => MemoryFits'
<1> SUFFICES ASSUME MemoryFits, Memory!Next PROVE MemoryFits'
  OBVIOUS
<1>1. CASE Memory!Tick
  <2>1. /\ now' = now + 1 /\ now \in Nat /\ UNCHANGED <<cache, lookup, found>>
        /\ \A r \in Requests : lookup[r].waits => now < lookup[r].asked + Timeout
    BY <1>1 DEF Memory!Tick, MemoryFits, Memory!TypeOK
  <2>2. CacheFits'
    <3>1. \A i \in DOMAIN cache : cache[i].asked \in Nat
      BY EntriesFit DEF MemoryFits
    <3> QED
      BY <2>1, <3>1 DEF MemoryFits, CacheFits
  <2>3. ASSUME NEW r \in Requests PROVE LookupFits(r)'
    <3>1. lookup[r].waits => lookup[r].asked \in Nat
      BY WaitingFits DEF MemoryFits
    <3> QED
      BY <2>1, <3>1, PartsAssumption DEF MemoryFits, LookupFits
  <2> QED
    BY <2>1, <2>2, <2>3 DEF MemoryFits, Memory!TypeOK, NoAnswerIsADayOld, Memory!NoAnswerIsADayOld
<1>2. CASE Memory!Restart
  <2>1. cache' = <<>> /\ lookup' = [r \in Requests |-> Memory!Idle] /\ UNCHANGED <<now, found>>
    BY <1>2 DEF Memory!Restart
  <2>2. Memory!TypeOK' /\ CacheFits'
    BY <2>1, EmptySeq, PartsAssumption
       DEF MemoryFits, Memory!TypeOK, Memory!Find, CacheFits
  <2>3. \A r \in Requests : LookupFits(r)'
    BY <2>1 DEF LookupFits, Memory!Idle
  <2> QED
    BY <2>1, <2>2, <2>3 DEF MemoryFits, NoAnswerIsADayOld, Memory!NoAnswerIsADayOld
<1>3. ASSUME NEW r \in Requests, NEW l \in Memory!Find, lookup' = [lookup EXCEPT ![r] = l],
             UNCHANGED <<now, cache, found>>,
             l.waits => /\ l.asked <= now /\ now <= l.asked + Timeout
                        /\ l.read # Memory!Unread => l.asked <= l.read
      PROVE  MemoryFits'
  <2>1. \A q \in Requests : LookupFits(q)'
    BY <1>3 DEF MemoryFits, Memory!TypeOK, LookupFits
  <2> QED
    BY <1>3, <2>1 DEF MemoryFits, Memory!TypeOK, CacheFits, NoAnswerIsADayOld,
       Memory!NoAnswerIsADayOld
<1>4. ASSUME NEW r \in Requests, NEW isbn \in Isbns, Memory!FindAsks(r, isbn) PROVE MemoryFits'
  <2> DEFINE l == [waits |-> TRUE, isbn |-> isbn, asked |-> now, read |-> Memory!Unread]
  <2>1. /\ l \in Memory!Find /\ l.asked <= now /\ now <= l.asked + Timeout
        /\ l.read = Memory!Unread
    BY PartsAssumption DEF MemoryFits, Memory!TypeOK, Memory!Find
  <2>2. lookup' = [lookup EXCEPT ![r] = l] /\ UNCHANGED <<now, cache, found>>
    BY <1>4 DEF Memory!FindAsks
  <2> HIDE DEF l
  <2> QED
    BY <1>3, <2>1, <2>2
<1>5. ASSUME NEW r \in Requests, Memory!CatalogReads(r) PROVE MemoryFits'
  <2>1. /\ lookup[r].waits /\ now \in Nat /\ LookupFits(r)
        /\ lookup[r] \in [waits: {TRUE}, isbn: Isbns, asked: Nat, read: Nat \cup {Memory!Unread}]
    BY <1>5, WaitingFits DEF Memory!CatalogReads, MemoryFits, Memory!TypeOK
  <2> DEFINE l == [lookup[r] EXCEPT !.read = now]
  <2>2. l \in Memory!Find /\ l.asked = lookup[r].asked /\ l.read = now
    BY <2>1 DEF Memory!Find
  <2>3. lookup' = [lookup EXCEPT ![r] = l] /\ UNCHANGED <<now, cache, found>>
    BY <1>5 DEF Memory!CatalogReads, MemoryFits, Memory!TypeOK
  <2> HIDE DEF l
  <2> QED
    BY <1>3, <2>1, <2>2, <2>3 DEF LookupFits
<1>6. ASSUME NEW r \in Requests, Memory!Unavailable(r) PROVE MemoryFits'
  BY <1>3, <1>6 DEF Memory!Unavailable, Memory!Find, Memory!Idle
<1> QED
  BY <1>1, <1>2, <1>4, <1>5, <1>6, MemoryFinds, MemoryRemembers DEF Memory!Next, Memory!Step

LEMMA MemoryInvariance == PartsSpec => []MemoryInv
<1> DEFINE all == <<vars, part, memoryVars, callVars, counts, simVars>>
<1> USE DEF MemoryInv
<1>1. ASSUME MemoryRests, now \in Nat PROVE MemoryFits
  <2>1. Memory!TypeOK /\ CacheFits
    BY <1>1, EmptySeq, PartsAssumption
       DEF MemoryRests, Memory!TypeOK, Memory!Find, Memory!Nothing, CacheFits
  <2>2. \A r \in Requests : LookupFits(r)
    BY <1>1 DEF MemoryRests, LookupFits, Memory!Idle
  <2>3. NoAnswerIsADayOld
    BY <1>1, PartsAssumption
       DEF MemoryRests, Memory!Nothing, NoAnswerIsADayOld, Memory!NoAnswerIsADayOld
  <2> QED
    BY <2>1, <2>2, <2>3 DEF MemoryFits
<1>2. PartsInit => MemoryInv
  BY <1>1 DEF PartsInit, Memory!Init, MemoryRests
<1>3. MemoryInv /\ [PartsNext]_all => MemoryInv'
  <2> SUFFICES ASSUME MemoryInv, [PartsNext]_all PROVE MemoryInv'
    OBVIOUS
  <2>1. CASE UNCHANGED all
    BY <2>1 DEF vars, memoryVars, MemoryFits, MemoryRests, Memory!TypeOK, CacheFits, LookupFits,
       NoAnswerIsADayOld, Memory!NoAnswerIsADayOld
  <2>2. CASE part = "memory" /\ Memory!Next /\ part' = part
    BY <2>2, MemoryStep
  <2>3. ASSUME part # "memory", UNCHANGED <<part, memoryVars>>, now' \in Nat PROVE MemoryInv'
    <3>1. MemoryRests'
      BY <2>3 DEF memoryVars, MemoryRests
    <3>2. Memory!TypeOK' /\ CacheFits'
      BY <2>3, <3>1, EmptySeq, PartsAssumption
         DEF MemoryRests, Memory!TypeOK, Memory!Find, Memory!Nothing, CacheFits
    <3>3. (\A r \in Requests : LookupFits(r)') /\ NoAnswerIsADayOld'
      BY <3>1, PartsAssumption DEF MemoryRests, LookupFits, Memory!Idle, Memory!Nothing,
         NoAnswerIsADayOld, Memory!NoAnswerIsADayOld
    <3> QED
      BY <3>1, <3>2, <3>3 DEF MemoryFits
  <2>4. CASE PartsNext
    <3>1. now \in Nat /\ part' = part
      BY <2>4 DEF PartsNext, MemoryFits, Memory!TypeOK
    <3>2. Next \/ Call!Next => now' \in Nat
      BY <3>1 DEF Next, Tick, Accept, Refuse, Call!Next, Call!Tick
    <3> QED
      BY <2>2, <2>3, <2>4, <3>1, <3>2 DEF PartsNext, vars
  <2> QED
    BY <2>1, <2>4
<1> QED
  BY <1>2, <1>3, PTL DEF PartsSpec

\* Whatever lookups overlap and whenever the catalog answers them, nobody is told what
\* it said a day ago: an entry lasts a day from when it was asked for, and it was asked
\* for before the catalog read it (isbn_lookup.py:7, 94-107).
THEOREM AnswersAreFresh == PartsSpec => []NoAnswerIsADayOld
<1>1. MemoryInv => NoAnswerIsADayOld
  BY DEF MemoryInv, MemoryFits
<1> QED
  BY <1>1, MemoryInvariance, PTL

\* An answer leaves the memory for a newer one of its ISBN, or as one of the oldest of a
\* full memory, although answers are remembered in another order than they were asked for
\* (isbn_lookup.py:8, 130-134).
THEOREM OnlyTheOldestLeave == PartsSpec => OnlyTheOldestMakeRoom
<1> DEFINE all == <<vars, part, memoryVars, callVars, counts, simVars>>
           MakesRoom(i) ==
             (cache' # <<>> /\ \A j \in DOMAIN cache' : cache'[j].isbn # cache[i].isbn) =>
               /\ Len(cache') = MaxCached
               /\ \A j \in DOMAIN cache' : cache[i].asked <= cache'[j].asked + Timeout
<1>1. ASSUME MemoryFits, NEW r \in Requests, Memory!FindRemembers(r), NEW k \in DOMAIN cache
      PROVE  MakesRoom(k)
  <2>1. /\ lookup[r].waits /\ lookup[r].read # Memory!Unread /\ LookupFits(r)
        /\ cache' = Memory!Remembered(lookup[r]) /\ now \in Nat
    BY <1>1 DEF Memory!FindRemembers, MemoryFits, Memory!TypeOK
  <2>2. PICK l : l = lookup[r]
    OBVIOUS
  <2>3. /\ l.asked \in Nat /\ now <= l.asked + Timeout
        /\ Memory!Filed(l) \in Memory!Entry /\ Memory!Filed(l).asked = l.asked
        /\ Memory!Filed(l).isbn = l.isbn
    <3>1. l \in [waits: {TRUE}, isbn: Isbns, asked: Nat, read: Nat \cup {Memory!Unread}]
      BY <1>1, <2>1, <2>2, WaitingFits DEF MemoryFits
    <3> QED
      BY <2>1, <2>2, <3>1 DEF LookupFits, Memory!Filed, Memory!Entry
  <2>4. PICK n \in Nat : \E g \in [1..n -> DOMAIN cache] :
           /\ Memory!Remembered(l) \in Seq(Memory!Entry)
           /\ Len(Memory!Remembered(l)) = n + 1 /\ n + 1 <= MaxCached
           /\ Memory!Remembered(l)[n + 1] = Memory!Filed(l)
           /\ \A i \in 1..n : /\ Memory!Remembered(l)[i] = cache[g[i]]
                              /\ cache[g[i]].isbn # l.isbn
           /\ \A i, j \in 1..n : i < j => g[i] < g[j]
           /\ \A x \in DOMAIN cache : cache[x].isbn # l.isbn =>
                \/ \E i \in 1..n : g[i] = x
                \/ n + 1 = MaxCached /\ \A i \in 1..n : x < g[i]
    BY <1>1, <2>3, Remembers, Zenon DEF MemoryFits
  <2>5. PICK g \in [1..n -> DOMAIN cache] :
           /\ cache' \in Seq(Memory!Entry)
           /\ Len(cache') = n + 1 /\ n + 1 <= MaxCached
           /\ cache'[n + 1] = Memory!Filed(l)
           /\ \A i \in 1..n : /\ cache'[i] = cache[g[i]]
                              /\ cache[g[i]].isbn # l.isbn
           /\ \A i, j \in 1..n : i < j => g[i] < g[j]
           /\ \A x \in DOMAIN cache : cache[x].isbn # l.isbn =>
                \/ \E i \in 1..n : g[i] = x
                \/ n + 1 = MaxCached /\ \A i \in 1..n : x < g[i]
    BY <2>1, <2>2, <2>4
  <2>6. DOMAIN cache' = 1..(n + 1) /\ \A i \in 1..n : g[i] \in DOMAIN cache
    BY <2>5, LenProperties
  <2>7. ASSUME \A j \in DOMAIN cache' : cache'[j].isbn # cache[k].isbn
        PROVE  /\ Len(cache') = MaxCached
               /\ \A j \in DOMAIN cache' : cache[k].asked <= cache'[j].asked + Timeout
    <3>1. cache[k].isbn # l.isbn
      BY <2>3, <2>5, <2>6, <2>7
    <3>2. ~\E i \in 1..n : g[i] = k
      BY <2>5, <2>6, <2>7
    <3>3. n + 1 = MaxCached /\ \A i \in 1..n : k < g[i]
      BY <2>5, <3>1, <3>2
    <3>4. \A i \in 1..n : cache[k].asked <= cache'[i].asked + Timeout
      BY <1>1, <2>5, <2>6, <3>3 DEF MemoryFits, CacheFits
    <3>5. cache[k].asked <= cache'[n + 1].asked + Timeout
      <4>1. cache[k].asked \in Nat /\ cache[k].asked <= now
        BY <1>1, EntriesFit DEF MemoryFits, CacheFits
      <4>2. cache'[n + 1].asked = l.asked
        BY <2>3, <2>5
      <4> QED
        BY <2>1, <2>3, <4>1, <4>2, PartsAssumption
    <3> QED
      BY <2>5, <2>6, <3>3, <3>4, <3>5
  <2> QED
    BY <2>7
<1>2. ASSUME MemoryFits, Memory!Next PROVE cache' = cache \/ \A i \in DOMAIN cache : MakesRoom(i)
  <2>1. Memory!Restart => cache' = <<>>
    BY DEF Memory!Restart
  <2>2. ASSUME NEW r \in Requests, Memory!Step(r), ~Memory!FindRemembers(r) PROVE cache' = cache
    BY <2>2 DEF Memory!Step, Memory!FindCached, Memory!FindAsks, Memory!CatalogReads,
       Memory!Unavailable
  <2>3. Memory!Tick => cache' = cache
    BY DEF Memory!Tick
  <2> HIDE DEF MakesRoom
  <2>4. cache' = <<>> => \A i \in DOMAIN cache : MakesRoom(i)
    BY DEF MakesRoom
  <2> QED
    BY <1>1, <1>2, <2>1, <2>2, <2>3, <2>4 DEF Memory!Next
<1>3. MemoryInv /\ [PartsNext]_all => [\A i \in DOMAIN cache : MakesRoom(i)]_cache
  <2> HIDE DEF MakesRoom
  <2> SUFFICES ASSUME MemoryInv, [PartsNext]_all, cache' # cache
               PROVE  \A i \in DOMAIN cache : MakesRoom(i)
    OBVIOUS
  <2>1. Memory!Next
    BY DEF PartsNext, memoryVars
  <2> QED
    BY <1>2, <2>1 DEF MemoryInv
<1>4. PartsSpec => [][\A i \in DOMAIN cache : MakesRoom(i)]_cache
  BY <1>3, MemoryInvariance, PTL DEF PartsSpec
<1> QED
  BY <1>4 DEF OnlyTheOldestMakeRoom, Memory!OnlyTheOldestMakeRoom

-----------------------------------------------------------------------------
\* The message limit

\* What is left after n hits are dropped: the others, in their order.
LEMMA AfterDropping ==
  ASSUME TypeOK, NEW u \in Users, NEW n \in 0..Len(hits[u])
  PROVE  /\ After(u, n) \in Seq(Nat)
         /\ Len(After(u, n)) = Len(hits[u]) - n
         /\ \A i \in 1..Len(After(u, n)) : After(u, n)[i] = hits[u][n + i]
  <1>1. hits[u] \in Seq(Nat) /\ Len(hits[u]) \in Nat
    BY LenProperties DEF TypeOK
  <1>2. \A i \in n + 1 .. Len(hits[u]) : hits[u][i] \in Nat
    BY <1>1, ElementOfSeq
  <1>3. n + 1 \in Int /\ Len(hits[u]) \in Int /\ n \in Int
    BY <1>1
  <1>4. /\ After(u, n) \in Seq(Nat)
        /\ Len(After(u, n)) = IF n + 1 <= Len(hits[u]) THEN Len(hits[u]) - (n + 1) + 1 ELSE 0
        /\ \A i \in 1 .. Len(hits[u]) - (n + 1) + 1 : After(u, n)[i] = hits[u][n + 1 + i - 1]
    BY <1>2, <1>3, SubSeqProperties DEF After
  <1>5. Len(After(u, n)) = Len(hits[u]) - n
    BY <1>1, <1>4
  <1>6. \A i \in 1..Len(After(u, n)) : n + 1 + i - 1 = n + i
    BY <1>1, <1>5
  <1> QED BY <1>1, <1>4, <1>5, <1>6

\* What a message that is let through leaves behind.
LEMMA AfterAccepting ==
  ASSUME TypeOK, NEW u \in Users, NEW n \in 0..Len(hits[u]),
         hits' = [hits EXCEPT ![u] = Append(After(u, n), now)],
         allowed' = [allowed EXCEPT ![u] = Append(@, now)]
  PROVE  /\ hits'[u] \in Seq(Nat)
         /\ Len(hits'[u]) = Len(hits[u]) - n + 1
         /\ \A i \in 1..Len(hits[u]) - n : hits'[u][i] = hits[u][n + i]
         /\ hits'[u][Len(hits[u]) - n + 1] = now
         /\ allowed'[u] \in Seq(Nat)
         /\ Len(allowed'[u]) = Len(allowed[u]) + 1
         /\ \A i \in 1..Len(allowed[u]) : allowed'[u][i] = allowed[u][i]
         /\ allowed'[u][Len(allowed[u]) + 1] = now
  <1>1. now \in Nat /\ allowed[u] \in Seq(Nat)
    BY DEF TypeOK
  <1>2. hits'[u] = Append(After(u, n), now) /\ allowed'[u] = Append(allowed[u], now)
    BY DEF TypeOK
  <1>3. /\ Len(hits'[u]) = Len(After(u, n)) + 1
        /\ hits'[u] \in Seq(Nat)
        /\ \A i \in 1..Len(After(u, n)) : hits'[u][i] = After(u, n)[i]
        /\ hits'[u][Len(After(u, n)) + 1] = now
    <2>1. After(u, n) \in Seq(Nat)
      BY AfterDropping
    <2>2. \A s \in Seq(Nat) :
            /\ Len(Append(s, now)) = Len(s) + 1
            /\ Append(s, now) \in Seq(Nat)
            /\ \A i \in 1..Len(s) : Append(s, now)[i] = s[i]
            /\ Append(s, now)[Len(s) + 1] = now
      BY <1>1, AppendProperties
    <2> QED BY <1>2, <2>1, <2>2, Zenon
  <1>4. /\ allowed'[u] \in Seq(Nat)
        /\ Len(allowed'[u]) = Len(allowed[u]) + 1
        /\ \A i \in 1..Len(allowed[u]) : allowed'[u][i] = allowed[u][i]
        /\ allowed'[u][Len(allowed[u]) + 1] = now
    BY <1>1, <1>2, AppendProperties
  <1> QED BY <1>3, <1>4, AfterDropping

LEMMA LimitIsPositive == Limit \in Nat /\ Limit >= 1 /\ Window \in Nat /\ Window >= 1
  BY LimitAssumption, WindowAssumption

LEMMA LimiterTypesStep == TypeOK /\ [Next]_vars => TypeOK'
  <1> SUFFICES ASSUME TypeOK, [Next]_vars PROVE TypeOK'
    OBVIOUS
  <1>1. CASE Tick
    BY <1>1 DEF TypeOK, Tick
  <1>2. ASSUME NEW u \in Users, Accept(u) PROVE TypeOK'
    <2>1. PICK n \in 0..Len(hits[u]) :
            /\ ~Full(After(u, n))
            /\ hits' = [hits EXCEPT ![u] = Append(After(u, n), now)]
            /\ allowed' = [allowed EXCEPT ![u] = Append(@, now)]
            /\ answer' = [answer EXCEPT ![u] = [ok |-> TRUE, at |-> now]]
            /\ now' = now
      BY <1>2 DEF Accept
    <2>2. hits'[u] \in Seq(Nat) /\ allowed'[u] \in Seq(Nat) /\ Len(hits'[u]) <= Limit
      <3>1. Len(After(u, n)) = Len(hits[u]) - n /\ After(u, n) \in Seq(Nat)
        BY AfterDropping
      <3>2. Len(hits'[u]) = Len(hits[u]) - n + 1
        BY <2>1, AfterAccepting
      <3>3. Len(After(u, n)) < Limit
        BY <2>1, <3>1, LimitIsPositive, LenProperties DEF Full
      <3>4. Len(hits'[u]) <= Limit
        BY <3>1, <3>2, <3>3, LimitIsPositive, LenProperties
      <3> QED BY <2>1, <3>4, AfterAccepting
    <2>3. \A v \in Users : v # u => hits'[v] = hits[v] /\ allowed'[v] = allowed[v]
      BY <2>1 DEF TypeOK
    <2> QED BY <2>1, <2>2, <2>3 DEF TypeOK
  <1>3. ASSUME NEW u \in Users, Refuse(u) PROVE TypeOK'
    <2>1. PICK n \in 0..Len(hits[u]) :
            /\ hits' = [hits EXCEPT ![u] = After(u, n)]
            /\ answer' = [answer EXCEPT ![u] = [ok |-> FALSE, at |-> now]]
            /\ UNCHANGED <<allowed, now>>
      BY <1>3 DEF Refuse
    <2>2. After(u, n) \in Seq(Nat) /\ Len(After(u, n)) <= Limit
      <3>1. Len(hits[u]) \in Nat /\ Len(hits[u]) <= Limit
        BY LenProperties DEF TypeOK
      <3> QED BY <3>1, AfterDropping, LimitIsPositive
    <2> QED BY <2>1, <2>2 DEF TypeOK
  <1>4. CASE UNCHANGED vars
    BY <1>4 DEF TypeOK, vars
  <1> QED BY <1>1, <1>2, <1>3, <1>4 DEF Next

\* The limiter keeps its types, and no user's hits outgrow the limit.
THEOREM LimiterTypes == Spec => []TypeOK
  <1>1. Init => TypeOK
    BY LimitIsPositive, EmptySeq DEF Init, TypeOK
  <1> QED BY <1>1, LimiterTypesStep, PTL DEF Spec

LEMMA IInvAccept ==
  ASSUME TypeOK, IInv, NEW u \in Users, Accept(u)
  PROVE  IInv'
  <1>1. PICK n \in Nat :
          /\ n \in 0..Len(hits[u])
          /\ Drops(u, n)
          /\ ~Full(After(u, n))
          /\ hits' = [hits EXCEPT ![u] = Append(After(u, n), now)]
          /\ allowed' = [allowed EXCEPT ![u] = Append(@, now)]
          /\ answer' = [answer EXCEPT ![u] = [ok |-> TRUE, at |-> now]]
          /\ now' = now
    <2>1. Len(hits[u]) \in Nat
      BY LenProperties DEF TypeOK
    <2>2. \A n \in 0..Len(hits[u]) : n \in Nat
      BY <2>1
    <2> QED BY <2>2 DEF Accept
  <1>2. PICK H \in Nat, A \in Nat, D \in Nat :
          H = Len(hits[u]) /\ A = Len(allowed[u]) /\ D = Dropped(u) /\ D = A - H
    BY LenProperties DEF TypeOK, Dropped, IInv, HitsAreTheLatest
  <1>3. D = A - H /\ n <= H /\ now \in Nat
    BY <1>1, <1>2 DEF TypeOK
  <1>4. DOMAIN allowed[u] = 1..A /\ \A i \in 1..A : allowed[u][i] \in Nat
    BY <1>2, LenProperties, ElementOfSeq DEF TypeOK
  <1>5. /\ Len(hits'[u]) = H - n + 1
        /\ \A i \in 1..H - n : hits'[u][i] = hits[u][n + i]
        /\ hits'[u][H - n + 1] = now
        /\ Len(allowed'[u]) = A + 1
        /\ \A i \in 1..A : allowed'[u][i] = allowed[u][i]
        /\ allowed'[u][A + 1] = now
        /\ DOMAIN allowed'[u] = 1..A + 1
        /\ DOMAIN allowed[u] = 1..A
    BY <1>1, <1>2, AfterAccepting, LenProperties DEF TypeOK
  <1>6. Dropped(u)' = D + n
    BY <1>2, <1>5 DEF Dropped
  <1>7. \A v \in Users : v # u =>
          hits'[v] = hits[v] /\ allowed'[v] = allowed[v] /\ answer'[v] = answer[v]
    BY <1>1 DEF TypeOK
  <1>8. \A i \in 1..H : hits[u][i] = allowed[u][D + i]
    BY <1>2 DEF IInv, HitsAreTheLatest
  <1>9. \A i \in 1..D + n : allowed[u][i] <= now - Window
    <2> SUFFICES ASSUME NEW i \in 1..D + n PROVE allowed[u][i] <= now - Window
      OBVIOUS
    <2>1. CASE i \in 1..D
      BY <1>2, <2>1 DEF IInv, DroppedAreOld, Old
    <2>2. CASE i \notin 1..D
      <3>1. i - D \in 1..n /\ i - D \in 1..H /\ D + (i - D) = i
        BY <1>3, <2>2
      <3>2. hits[u][i - D] <= now - Window
        BY <1>1, <1>2, <3>1 DEF Drops, Old
      <3> QED BY <1>8, <3>1, <3>2
    <2> QED BY <2>1, <2>2
  <1>10. HitsAreTheLatest'
    <2> SUFFICES ASSUME NEW v \in Users
                 PROVE  /\ Dropped(v)' >= 0
                        /\ \A i \in 1..Len(hits'[v]) : hits'[v][i] = allowed'[v][Dropped(v)' + i]
      BY DEF HitsAreTheLatest
    <2>1. CASE v # u
      BY <1>7, <2>1 DEF IInv, HitsAreTheLatest, Dropped
    <2>2. CASE v = u
      <3>1. \A i \in 1..H - n : hits'[u][i] = allowed'[u][D + n + i]
        <4> SUFFICES ASSUME NEW i \in 1..H - n PROVE hits'[u][i] = allowed'[u][D + n + i]
          OBVIOUS
        <4>1. n + i \in 1..H /\ D + (n + i) \in 1..A /\ D + (n + i) = D + n + i
          BY <1>3
        <4> QED BY <1>5, <1>8, <4>1
      <3>2. hits'[u][H - n + 1] = allowed'[u][D + n + (H - n + 1)]
        BY <1>3, <1>5
      <3>3. \A i \in 1..H - n + 1 : i \in 1..H - n \/ i = H - n + 1
        BY <1>3
      <3>4. \A i \in 1..H - n + 1 : hits'[u][i] = allowed'[u][D + n + i]
        BY <3>1, <3>2, <3>3
      <3>5. D + n >= 0
        BY <1>3
      <3> QED BY <1>5, <1>6, <2>2, <3>4, <3>5
    <2> QED BY <2>1, <2>2
  <1>11. DroppedAreOld'
    <2> SUFFICES ASSUME NEW v \in Users, NEW i \in 1..Dropped(v)'
                 PROVE  allowed'[v][i] <= now - Window
      BY <1>1 DEF DroppedAreOld, Old
    <2>1. CASE v # u
      BY <1>7, <2>1 DEF IInv, DroppedAreOld, Old, Dropped
    <2>2. CASE v = u
      <3>1. i \in 1..D + n /\ i \in 1..A
        BY <1>3, <1>6, <2>2
      <3> QED BY <1>5, <1>9, <2>2, <3>1
    <2> QED BY <2>1, <2>2
  <1>12. InOrder'
    <2> SUFFICES ASSUME NEW v \in Users, NEW i \in DOMAIN allowed'[v]
                 PROVE  /\ allowed'[v][i] <= now
                        /\ \A j \in DOMAIN allowed'[v] : i <= j => allowed'[v][i] <= allowed'[v][j]
      BY <1>1 DEF InOrder
    <2>1. CASE v # u
      BY <1>7, <2>1 DEF IInv, InOrder
    <2>2. CASE v = u
      <3>1. \A j \in 1..A : allowed[u][j] <= now
        BY <1>5 DEF IInv, InOrder
      <3>2. \A k \in 1..A + 1 : k \in 1..A \/ k = A + 1
        BY <1>3
      <3>3. \A k \in 1..A + 1 : allowed'[u][k] <= now
        BY <1>3, <1>5, <3>1, <3>2
      <3>4. \A k, j \in 1..A : k <= j => allowed'[u][k] <= allowed'[u][j]
        BY <1>5 DEF IInv, InOrder
      <3>5. \A j \in 1..A + 1 : i <= j => allowed'[u][i] <= allowed'[u][j]
        BY <1>3, <1>5, <2>2, <3>2, <3>3, <3>4
      <3> QED BY <1>5, <2>2, <3>3, <3>5
    <2> QED BY <2>1, <2>2
  <1>13. NoMinuteHoldsMore'
    <2> SUFFICES ASSUME NEW v \in Users, NEW i \in DOMAIN allowed'[v], NEW j \in DOMAIN allowed'[v],
                        j - i >= Limit
                 PROVE  allowed'[v][j] - allowed'[v][i] >= Window
      BY DEF NoMinuteHoldsMore
    <2>1. CASE v # u
      BY <1>7, <2>1 DEF IInv, NoMinuteHoldsMore
    <2>2. CASE v = u /\ j \in 1..A
      <3>1. i \in 1..A
        BY <1>3, <1>5, <2>2, LimitIsPositive
      <3>2. allowed[u][j] - allowed[u][i] >= Window
        BY <1>5, <2>2, <3>1 DEF IInv, NoMinuteHoldsMore
      <3> QED BY <1>5, <2>2, <3>1, <3>2
    <2>3. CASE v = u /\ j \notin 1..A
      <3>0. j \in 1..A + 1
        BY <1>5, <2>3
      <3>1. j = A + 1
        BY <1>3, <2>3, <3>0
      <3>2. H - n < Limit
        BY <1>1, <1>2, AfterDropping, LimitIsPositive DEF Full
      <3>3. i \in 1..D + n /\ i \in 1..A
        BY <1>3, <1>5, <2>3, <3>1, <3>2, LimitIsPositive
      <3>4. allowed'[u][j] = now /\ allowed'[u][i] <= now - Window /\ allowed'[u][i] \in Nat
        BY <1>5, <1>4, <1>9, <3>1, <3>3
      <3> QED BY <1>3, <2>3, <3>4, LimitIsPositive
    <2> QED BY <1>3, <1>5, <2>1, <2>2, <2>3
  <1>14. RefusedOnlyAtTheLimit'
    <2> SUFFICES ASSUME NEW v \in Users, ~answer'[v].ok
                 PROVE  \E k \in DOMAIN allowed'[v] :
                          /\ Len(allowed'[v]) - k + 1 = Limit
                          /\ \A i \in k..Len(allowed'[v]) : allowed'[v][i] > answer'[v].at - Window
      BY DEF RefusedOnlyAtTheLimit
    <2>1. v # u
      BY <1>1 DEF TypeOK
    <2> QED BY <1>7, <2>1 DEF IInv, RefusedOnlyAtTheLimit
  <1> QED BY <1>10, <1>11, <1>12, <1>13, <1>14 DEF IInv

LEMMA IInvRefuse ==
  ASSUME TypeOK, IInv, NEW u \in Users, Refuse(u)
  PROVE  IInv'
  <1>1. PICK n \in Nat :
          /\ n \in 0..Len(hits[u])
          /\ Drops(u, n)
          /\ Full(After(u, n))
          /\ hits' = [hits EXCEPT ![u] = After(u, n)]
          /\ answer' = [answer EXCEPT ![u] = [ok |-> FALSE, at |-> now]]
          /\ allowed' = allowed
          /\ now' = now
    <2>1. Len(hits[u]) \in Nat
      BY LenProperties DEF TypeOK
    <2>2. \A n \in 0..Len(hits[u]) : n \in Nat
      BY <2>1
    <2> QED BY <2>2 DEF Refuse
  <1>2. PICK H \in Nat, A \in Nat, D \in Nat :
          H = Len(hits[u]) /\ A = Len(allowed[u]) /\ D = Dropped(u) /\ D = A - H
    BY LenProperties DEF TypeOK, Dropped, IInv, HitsAreTheLatest
  <1>3. D = A - H /\ n <= H /\ now \in Nat
    BY <1>1, <1>2 DEF TypeOK
  <1>4. DOMAIN allowed[u] = 1..A /\ \A i \in 1..A : allowed[u][i] \in Nat
    BY <1>2, LenProperties, ElementOfSeq DEF TypeOK
  <1>5. /\ Len(hits'[u]) = H - n
        /\ \A i \in 1..H - n : hits'[u][i] = hits[u][n + i]
    BY <1>1, <1>2, AfterDropping DEF TypeOK
  <1>6. Dropped(u)' = D + n
    <2>1. Dropped(u)' = A - (H - n)
      BY <1>1, <1>2, <1>5 DEF Dropped
    <2> QED BY <1>3, <2>1
  <1>7. \A v \in Users : v # u => hits'[v] = hits[v] /\ answer'[v] = answer[v]
    BY <1>1 DEF TypeOK
  <1>8. \A i \in 1..H : hits[u][i] = allowed[u][D + i]
    BY <1>2 DEF IInv, HitsAreTheLatest
  <1>9. HitsAreTheLatest'
    <2> SUFFICES ASSUME NEW v \in Users
                 PROVE  /\ Dropped(v)' >= 0
                        /\ \A i \in 1..Len(hits'[v]) : hits'[v][i] = allowed'[v][Dropped(v)' + i]
      BY DEF HitsAreTheLatest
    <2>1. CASE v # u
      <3>1. hits'[v] = hits[v] /\ allowed'[v] = allowed[v] /\ Dropped(v)' = Dropped(v)
        BY <1>1, <1>7, <2>1 DEF Dropped
      <3> QED BY <3>1 DEF IInv, HitsAreTheLatest
    <2>2. CASE v = u
      <3>0. D + n >= 0
        BY <1>3
      <3> SUFFICES ASSUME NEW i \in 1..H - n PROVE hits[u][n + i] = allowed[u][D + n + i]
        BY <1>1, <1>5, <1>6, <2>2, <3>0
      <3>1. n + i \in 1..H /\ D + (n + i) = D + n + i
        BY <1>3
      <3> QED BY <1>8, <3>1
    <2> QED BY <2>1, <2>2
  <1>10. DroppedAreOld'
    <2> SUFFICES ASSUME NEW v \in Users, NEW i \in 1..Dropped(v)'
                 PROVE  allowed[v][i] <= now - Window
      BY <1>1 DEF DroppedAreOld, Old
    <2>1. CASE v # u
      BY <1>1, <1>7, <2>1 DEF IInv, DroppedAreOld, Old, Dropped
    <2>2. CASE v = u /\ i \in 1..D
      BY <1>2, <2>2 DEF IInv, DroppedAreOld, Old
    <2>3. CASE v = u /\ i \notin 1..D
      <3>1. i - D \in 1..n /\ i - D \in 1..H /\ D + (i - D) = i
        BY <1>3, <1>6, <2>3
      <3>2. hits[u][i - D] <= now - Window
        BY <1>1, <1>2, <3>1 DEF Drops, Old
      <3> QED BY <1>8, <2>3, <3>1, <3>2
    <2> QED BY <2>1, <2>2, <2>3
  <1>11. InOrder' /\ NoMinuteHoldsMore'
    BY <1>1 DEF IInv, InOrder, NoMinuteHoldsMore
  <1>12. RefusedOnlyAtTheLimit'
    <2> SUFFICES ASSUME NEW v \in Users, ~answer'[v].ok
                 PROVE  \E k \in DOMAIN allowed[v] :
                          /\ Len(allowed[v]) - k + 1 = Limit
                          /\ \A i \in k..Len(allowed[v]) : allowed[v][i] > answer'[v].at - Window
      BY <1>1 DEF RefusedOnlyAtTheLimit
    <2>1. CASE v # u
      BY <1>7, <2>1 DEF IInv, RefusedOnlyAtTheLimit
    <2>2. CASE v = u
      <3>1. answer'[u].at = now
        BY <1>1 DEF TypeOK
      <3>2. H - n >= Limit
        BY <1>1, <1>2, AfterDropping DEF Full
      <3>3. n + 1 \in 1..H /\ hits[u][n + 1] > now - Window
        <4>1. n < H /\ n + 1 \in 1..H
          BY <1>3, <3>2, LimitIsPositive
        <4>2. hits[u][n + 1] \in Nat
          BY <1>2, <4>1, ElementOfSeq DEF TypeOK
        <4>3. ~(hits[u][n + 1] <= now - Window)
          BY <1>1, <1>2, <4>1 DEF Drops, Old
        <4> QED BY <1>3, <4>1, <4>2, <4>3, LimitIsPositive
      <3>4. D + n + 1 \in 1..A /\ allowed[u][D + n + 1] > now - Window
        <4>1. D + (n + 1) = D + n + 1 /\ D + n + 1 \in 1..A
          BY <1>3, <3>3
        <4> QED BY <1>8, <3>3, <4>1
      <3> DEFINE k == A - Limit + 1
      <3>5. k \in 1..A /\ D + n + 1 <= k
        BY <1>3, <3>2, LimitIsPositive
      <3>6. \A i \in k..A : allowed[u][i] > now - Window
        <4> SUFFICES ASSUME NEW i \in k..A PROVE allowed[u][i] > now - Window
          OBVIOUS
        <4>1. i \in 1..A /\ D + n + 1 <= i
          BY <1>3, <3>5
        <4>2. allowed[u][D + n + 1] <= allowed[u][i]
          BY <1>4, <3>4, <4>1 DEF IInv, InOrder
        <4>3. allowed[u][D + n + 1] \in Nat /\ allowed[u][i] \in Nat
          BY <1>4, <3>4, <4>1
        <4> QED BY <1>3, <3>4, <4>2, <4>3, LimitIsPositive
      <3>7. A - k + 1 = Limit
        BY <1>3, LimitIsPositive
      <3> HIDE DEF k
      <3>8. Len(allowed[u]) = A
        BY <1>2
      <3> QED BY <1>4, <2>2, <3>1, <3>5, <3>6, <3>7, <3>8
    <2> QED BY <2>1, <2>2
  <1> QED BY <1>9, <1>10, <1>11, <1>12 DEF IInv

LEMMA IInvTick ==
  ASSUME TypeOK, IInv, Tick
  PROVE  IInv'
  <1>1. now \in Nat /\ now' = now + 1 /\ hits' = hits /\ allowed' = allowed /\ answer' = answer
    BY DEF Tick, TypeOK
  <1>2. \A u \in Users : \A i \in DOMAIN allowed[u] : allowed[u][i] \in Nat
    BY ElementOfSeq, LenProperties DEF TypeOK
  <1>3. HitsAreTheLatest' /\ NoMinuteHoldsMore' /\ RefusedOnlyAtTheLimit'
    BY <1>1 DEF IInv, HitsAreTheLatest, NoMinuteHoldsMore, RefusedOnlyAtTheLimit, Dropped
  <1>4. DroppedAreOld'
    <2>1. \A u \in Users : Dropped(u)' = Dropped(u)
      BY <1>1 DEF Dropped
    <2>2. ASSUME NEW u \in Users, NEW i \in 1..Dropped(u)
          PROVE  allowed[u][i] <= (now + 1) - Window
      <3>1. allowed[u][i] <= now - Window
        BY DEF IInv, DroppedAreOld, Old
      <3>2. PICK A \in Nat, H \in Nat : Dropped(u) = A - H /\ DOMAIN allowed[u] = 1..A
        BY LenProperties DEF TypeOK, Dropped
      <3>3. i \in DOMAIN allowed[u]
        BY <3>2
      <3> QED BY <1>1, <1>2, <3>1, <3>3, LimitIsPositive
    <2>3. \A u \in Users : \A i \in 1..Dropped(u)' : allowed'[u][i] <= now' - Window
      BY <1>1, <2>1, <2>2
    <2> QED BY <2>3 DEF DroppedAreOld, Old
  <1>5. InOrder'
    <2>1. \A u \in Users : \A i \in DOMAIN allowed[u] : allowed[u][i] <= now + 1
      BY <1>1, <1>2 DEF IInv, InOrder
    <2> QED BY <1>1, <2>1 DEF IInv, InOrder
  <1> QED BY <1>3, <1>4, <1>5 DEF IInv

\* The inductive invariant.
THEOREM LimiterInvariance == Spec => []IInv
  <1>1. Init => IInv
    <2> SUFFICES ASSUME Init PROVE IInv
      OBVIOUS
    <2>1. \A u \in Users : hits[u] = <<>> /\ allowed[u] = <<>> /\ answer[u].ok
      BY DEF Init
    <2>2. \A u \in Users : Dropped(u) = 0 /\ DOMAIN allowed[u] = {} /\ Len(hits[u]) = 0
      BY <2>1 DEF Dropped
    <2>3. 1..0 = {} /\ 0 >= 0
      OBVIOUS
    <2>4. HitsAreTheLatest /\ DroppedAreOld
      BY <2>2, <2>3 DEF HitsAreTheLatest, DroppedAreOld
    <2>5. InOrder /\ NoMinuteHoldsMore /\ RefusedOnlyAtTheLimit
      BY <2>1, <2>2 DEF InOrder, NoMinuteHoldsMore, RefusedOnlyAtTheLimit
    <2> QED BY <2>4, <2>5 DEF IInv
  <1>2. TypeOK /\ IInv /\ [Next]_vars => IInv'
    <2> SUFFICES ASSUME TypeOK, IInv, [Next]_vars PROVE IInv'
      OBVIOUS
    <2>1. CASE UNCHANGED vars
      BY <2>1 DEF vars, IInv, HitsAreTheLatest, DroppedAreOld, InOrder, NoMinuteHoldsMore,
                  RefusedOnlyAtTheLimit, Dropped, Old
    <2> QED BY <2>1, IInvTick, IInvAccept, IInvRefuse DEF Next
  <1> QED BY <1>1, <1>2, LimiterTypes, PTL DEF Spec

\* However a user's messages are spread, no sliding minute holds more than the
\* limit of those that were let through.
THEOREM LimitHolds == Spec => []NoMinuteHoldsMore
  <1>1. IInv => NoMinuteHoldsMore
    BY DEF IInv
  <1> QED BY <1>1, LimiterInvariance, PTL

\* A user is only refused with a full minute of messages behind.
THEOREM RefusalsAreDue == Spec => []RefusedOnlyAtTheLimit
  <1>1. IInv => RefusedOnlyAtTheLimit
    BY DEF IInv
  <1> QED BY <1>1, LimiterInvariance, PTL

-----------------------------------------------------------------------------
\* The simulated history: its calendar

\* Simulation's own instance of FiniteSets counts like this module's.
LEMMA HistoryCounts == \A S : History!Cardinality(S) = Cardinality(S)
BY Zenon DEF Cardinality, History!Cardinality

LEMMA LeastNat ==
  ASSUME NEW S \in SUBSET Nat, NEW x \in S
  PROVE  \E m \in S : \A n \in S : m <= n
<1> DEFINE R == {ss \in Nat \X Nat : ss[1] < ss[2]}
<1>1. IsWellFoundedOn(R, Nat)
  BY NatLessThanWellFounded, Zenon DEF OpToRel
<1> HIDE DEF R
<1>2. PICK m \in S : \A n \in S : ~(<<n, m>> \in R)
  BY <1>1, WFMin
<1>3. ASSUME NEW n \in S PROVE m <= n
  <2>1. ~(n < m)
    BY <1>2 DEF R
  <2> QED
    BY <2>1
<1> QED
  BY <1>3

\* Among as many days as are closed and one more, one is open.
LEMMA OpenAmong ==
  ASSUME NEW d \in Int, NEW k, k = Cardinality(Closed)
  PROVE  k \in Nat /\ \E e \in d..(d + k) : History!IsOpen(e)
<1>1. IsFiniteSet(Closed) /\ k \in Nat
  BY PartsAssumption, FS_CardinalityType
<1>2. Cardinality(d..(d + k)) = k + 1
  <2>1. PICK b \in Int : b = d + k
    BY <1>1
  <2>2. Cardinality(d..b) = IF d > b THEN 0 ELSE b - d + 1
    BY FS_Interval
  <2> QED
    BY <1>1, <2>1, <2>2
<1>3. ~(d..(d + k) \subseteq Closed)
  <2> SUFFICES ASSUME d..(d + k) \subseteq Closed PROVE FALSE
    OBVIOUS
  <2>1. Cardinality(d..(d + k)) <= k
    BY <1>1, FS_Subset
  <2> QED
    BY <1>1, <1>2, <2>1
<1> QED
  BY <1>1, <1>3 DEF History!IsOpen

LEMMA NextOpenIs ==
  ASSUME NEW d \in Int
  PROVE  /\ History!NextOpen(d) \in Int /\ d <= History!NextOpen(d)
         /\ History!IsOpen(History!NextOpen(d))
         /\ \A e \in Int : d <= e /\ History!IsOpen(e) => History!NextOpen(d) <= e
<1>1. PICK k \in Nat : k = Cardinality(Closed) /\ \E e \in d..(d + k) : History!IsOpen(e)
  BY OpenAmong
<1> DEFINE S == {n \in 0..k : History!IsOpen(d + n)}
           Opens(e) == History!IsOpen(e) /\ \A f \in d..(e - 1) : ~History!IsOpen(f)
<1>2. PICK e \in d..(d + k) : History!IsOpen(e)
  BY <1>1
<1>3. e - d \in S
  <2>1. e - d \in 0..k /\ d + (e - d) = e
    BY <1>2
  <2> QED
    BY <1>2, <2>1
<1>4. PICK m \in S : \A n \in S : m <= n
  <2>1. S \in SUBSET Nat
    OBVIOUS
  <2> HIDE DEF S
  <2> QED
    BY <1>3, <2>1, LeastNat
<1>5. d + m \in d..(d + k) /\ Opens(d + m)
  <2>1. m \in 0..k /\ History!IsOpen(d + m)
    BY <1>4
  <2>2. ASSUME NEW f \in d..(d + m - 1), History!IsOpen(f) PROVE FALSE
    <3>1. f - d \in 0..k /\ d + (f - d) = f /\ ~(m <= f - d)
      BY <2>1, <2>2
    <3> QED
      BY <1>4, <2>2, <3>1
  <2> QED
    BY <2>1, <2>2
<1>6. \E c \in d..(d + Cardinality(Closed)) :
        History!IsOpen(c) /\ \A f \in d..(c - 1) : ~History!IsOpen(f)
  BY <1>1, <1>5
<1>7. PICK o : o = History!NextOpen(d)
  OBVIOUS
<1>8. o \in d..(d + k) /\ Opens(o)
  BY <1>1, <1>6, <1>7, HistoryCounts DEF History!NextOpen
<1>9. ASSUME NEW c \in Int, d <= c, History!IsOpen(c) PROVE o <= c
  BY <1>8, <1>9
<1> QED
  BY <1>7, <1>8, <1>9

LEMMA PreviousOpenIs ==
  ASSUME NEW d \in Int
  PROVE  /\ History!PreviousOpen(d) \in Int /\ History!PreviousOpen(d) <= d
         /\ History!IsOpen(History!PreviousOpen(d))
<1>1. PICK k \in Nat : k = Cardinality(Closed)
  BY OpenAmong
<1> DEFINE S == {n \in 0..k : History!IsOpen(d - n)}
           Opens(e) == History!IsOpen(e) /\ \A f \in (e + 1)..d : ~History!IsOpen(f)
<1>2. PICK e \in (d - k)..d : History!IsOpen(e)
  <2>1. d - k \in Int /\ d - k + k = d
    OBVIOUS
  <2> QED
    BY <1>1, <2>1, OpenAmong
<1>3. d - e \in S
  <2>1. d - e \in 0..k /\ d - (d - e) = e
    BY <1>2
  <2> QED
    BY <1>2, <2>1
<1>4. PICK m \in S : \A n \in S : m <= n
  <2>1. S \in SUBSET Nat
    OBVIOUS
  <2> HIDE DEF S
  <2> QED
    BY <1>3, <2>1, LeastNat
<1>5. d - m \in (d - k)..d /\ Opens(d - m)
  <2>1. m \in 0..k /\ History!IsOpen(d - m)
    BY <1>4
  <2>2. ASSUME NEW f \in (d - m + 1)..d, History!IsOpen(f) PROVE FALSE
    <3>1. d - f \in 0..k /\ d - (d - f) = f /\ ~(m <= d - f)
      BY <2>1, <2>2
    <3> QED
      BY <1>4, <2>2, <3>1
  <2> QED
    BY <2>1, <2>2
<1>6. \E c \in (d - Cardinality(Closed))..d :
        History!IsOpen(c) /\ \A f \in (c + 1)..d : ~History!IsOpen(f)
  BY <1>1, <1>5
<1>7. PICK o : o = History!PreviousOpen(d)
  OBVIOUS
<1>8. o \in (d - k)..d /\ Opens(o)
  BY <1>1, <1>6, <1>7, HistoryCounts DEF History!PreviousOpen
<1> QED
  BY <1>7, <1>8

\* There is an n-th opening day.
LEMMA NthIs ==
  ASSUME NEW n \in Nat, 1 <= n, n <= Cardinality(History!OpenDays)
  PROVE  History!Nth(n) \in History!OpenDays
<1> DEFINE O == History!OpenDays
           UpTo(d) == {e \in O : e <= d}
           S == {d \in O : Cardinality(UpTo(d)) >= n}
<1>1. LastDay \in Nat /\ O \in SUBSET (1..LastDay)
  BY PartsAssumption DEF History!OpenDays
<1>2. IsFiniteSet(O) /\ Cardinality(O) \in Nat
  <2>1. IsFiniteSet(1..LastDay)
    BY <1>1, FS_Interval
  <2> HIDE DEF O
  <2> QED
    BY <1>1, <2>1, FS_Subset, FS_CardinalityType
<1>3. n <= Cardinality(O)
  OBVIOUS
<1> HIDE DEF O
<1>4. ASSUME NEW d PROVE IsFiniteSet(UpTo(d)) /\ Cardinality(UpTo(d)) \in Nat
  BY <1>2, FS_Subset, FS_CardinalityType
<1>5. \E d : d \in S
  <2> DEFINE T == {LastDay - d : d \in O}
  <2>1. O # {}
    BY <1>3, FS_EmptySet
  <2>2. PICK x : x \in T
    BY <2>1
  <2>3. T \in SUBSET Nat
    BY <1>1
  <2> HIDE DEF T
  <2>4. PICK m \in T : \A t \in T : m <= t
    BY <2>2, <2>3, LeastNat
  <2>5. PICK d \in O : m = LastDay - d
    BY DEF T
  <2>6. ASSUME NEW e \in O PROVE e <= d
    <3>1. LastDay - e \in T
      BY DEF T
    <3>2. m <= LastDay - e
      BY <2>4, <3>1
    <3> QED
      BY <1>1, <2>5, <3>2
  <2>7. UpTo(d) = O
    BY <2>6
  <2> QED
    BY <1>2, <1>3, <2>7
<1>6. PICK m \in S : \A s \in S : m <= s
  <2>1. S \in SUBSET Nat
    <3>1. O \subseteq Nat
      BY <1>1
    <3>2. S \subseteq O
      OBVIOUS
    <3> HIDE DEF S
    <3> QED
      BY <3>1, <3>2
  <2>2. PICK x : x \in S
    BY <1>5
  <2> HIDE DEF S
  <2> QED
    BY <2>1, <2>2, LeastNat
<1>7. m \in O /\ m \in Nat /\ Cardinality(UpTo(m)) >= n
  BY <1>1, <1>6
<1>8. PICK c \in Nat : c = Cardinality(UpTo(m))
  BY <1>4
<1> DEFINE B == UpTo(m) \ {m}
<1>9. IsFiniteSet(B) /\ Cardinality(B) = c - 1
  <2>1. m \in UpTo(m)
    BY <1>7
  <2> HIDE DEF UpTo
  <2> QED
    BY <1>4, <1>8, <2>1, FS_RemoveElement
<1>10. c - 1 < n
  <2>1. CASE B = {}
    BY <1>8, <1>9, <2>1, FS_EmptySet
  <2>2. CASE B # {}
    <3> DEFINE T == {m - e : e \in B}
    <3>1. PICK x : x \in T
      BY <2>2
    <3>2. T \in SUBSET Nat
      BY <1>1, <1>7
    <3> HIDE DEF T
    <3>3. PICK l \in T : \A t \in T : l <= t
      BY <3>1, <3>2, LeastNat
    <3>4. PICK p \in B : l = m - p
      BY DEF T
    <3>5. p \in O /\ p \in Nat /\ p < m
      BY <1>1, <1>7, <3>4
    <3>6. ASSUME NEW e \in O, e < m PROVE e <= p
      <4>1. m - e \in T
        BY <1>1, <1>7, <3>6 DEF T
      <4>2. l <= m - e
        BY <3>3, <4>1
      <4> QED
        BY <1>1, <1>7, <3>4, <3>5, <3>6, <4>2
    <3>7. UpTo(p) = B
      <4>1. \A e \in O : e \in Nat /\ (e <= p <=> e <= m /\ e # m)
        BY <1>1, <1>7, <3>5, <3>6
      <4> QED
        BY <4>1
    <3>8. p \notin S
      BY <1>6, <1>7, <3>5
    <3>9. ~(Cardinality(UpTo(p)) >= n)
      BY <3>5, <3>8
    <3>10. Cardinality(UpTo(p)) = c - 1
      BY <1>9, <3>7
    <3> QED
      BY <1>8, <3>9, <3>10
  <2> QED
    BY <2>1, <2>2
<1>11. Cardinality(UpTo(m)) = n
  BY <1>7, <1>8, <1>10
<1>12. \E d \in History!OpenDays : Cardinality({e \in History!OpenDays : e <= d}) = n
  BY <1>7, <1>11 DEF O
<1> QED
  BY <1>12, HistoryCounts DEF History!Nth

-----------------------------------------------------------------------------
\* The simulated history: its inductive invariant

SomeDay == Int \cup {None}
HistoryTypes ==
  /\ day \in History!OpenDays /\ kept \subseteq History!OpenDays
  /\ joined \in [Readers -> Int] /\ arrival \in [Titles -> SomeDay]
  /\ free \in [History!Copies -> SomeDay]
  /\ DOMAIN back = Readers /\ \A r \in Readers : \A b \in DOMAIN back[r] : back[r][b] \in SomeDay
  /\ out \in [Readers -> Seq(SomeDay)]
  /\ IsFiniteSet(made)
  /\ \A l \in made : /\ l.copy \in History!Copies /\ l.reader \in Readers
                     /\ l.borrowed \in Int /\ l.returned \in SomeDay

\* Each loan is within its days, and what is known of its copy and its title's
\* last return is no earlier than its own.
Before(d, e) == e # None => d # None /\ d <= e
LoanFits(l) ==
  /\ arrival[l.copy[1]] # None /\ arrival[l.copy[1]] < l.borrowed
  /\ joined[l.reader] <= l.borrowed /\ l.borrowed <= day /\ History!IsOpen(l.borrowed)
  /\ l.returned # None =>
       History!IsOpen(l.returned) /\ l.borrowed < l.returned /\ l.returned <= LastDay
  /\ free[l.copy] # None => l.returned # None /\ l.returned < free[l.copy]
  /\ l.copy[1] \in DOMAIN back[l.reader] /\ Before(l.returned, back[l.reader][l.copy[1]])
SameBook(l, k) == l.copy = k.copy \/ (l.reader = k.reader /\ l.copy[1] = k.copy[1])
LoansAreApart ==
  \A l, k \in made : l # k /\ SameBook(l, k) => History!Apart(l, k) \/ History!Apart(k, l)

\* At no time from now on has a reader more loans out than the returns that are counted.
OutAfter(d, t) == d = None \/ d > t
LoansAt(r, t) == {l \in made : l.reader = r /\ OutAfter(l.returned, t)}
ReturnsAt(r, t) == {i \in DOMAIN out[r] : OutAfter(out[r][i], t)}
MayHave(r) == MaxActiveLoans + (IF r = Demo THEN Cardinality(kept) ELSE 0)
LoansAreCounted ==
  \A r \in Readers : /\ \A t \in Int : Cardinality(LoansAt(r, t)) <= Cardinality(ReturnsAt(r, t))
                     /\ Cardinality(ReturnsAt(r, day)) <= MayHave(r)

HistoryFits ==
  HistoryTypes /\ (\A l \in made : LoanFits(l)) /\ LoansAreApart /\ LoansAreCounted
HistoryInv == IF part = "history" THEN HistoryFits ELSE made = {} /\ kept = {}

-----------------------------------------------------------------------------
\* The simulated history: a loan is made

Lending(r, c, d) ==
  /\ r \in Readers /\ c \in History!Copies /\ joined[r] <= day
  /\ arrival[c[1]] # None /\ arrival[c[1]] < day
  /\ free[c] # None /\ free[c] <= day
  /\ c[1] \in DOMAIN back[r] => back[r][c[1]] # None /\ back[r][c[1]] < day
  /\ d = None \/ (d \in Int /\ History!IsOpen(d) /\ day < d /\ d <= LastDay)
  /\ History!Lends(r, c, d)
  /\ \/ kept' = kept /\ Cardinality(ReturnsAt(r, day)) < MaxActiveLoans
     \/ kept' = kept \cup {day} /\ day \notin kept /\ r = Demo

LEMMA DaysAreNumbers ==
  ASSUME HistoryTypes
  PROVE  /\ day \in Int /\ 1 <= day /\ day <= LastDay /\ LastDay \in Nat /\ History!IsOpen(day)
         /\ IsFiniteSet(kept) /\ Cardinality(kept) \in Nat
<1>1. LastDay \in Nat /\ History!OpenDays \subseteq 1..LastDay
  BY PartsAssumption DEF History!OpenDays
<1>2. day \in History!OpenDays /\ kept \subseteq History!OpenDays
  BY DEF HistoryTypes
<1>3. day \in 1..LastDay /\ History!IsOpen(day)
  BY <1>1, <1>2 DEF History!OpenDays
<1>4. IsFiniteSet(1..LastDay) /\ kept \subseteq 1..LastDay
  BY <1>1, <1>2, FS_Interval
<1>5. IsFiniteSet(kept) /\ Cardinality(kept) \in Nat
  BY <1>4, FS_Subset, FS_CardinalityType
<1> QED
  BY <1>1, <1>3, <1>5

LEMMA CopiesAreOfTitles ==
  ASSUME NEW c \in History!Copies
  PROVE  c[1] \in Titles
BY DEF History!Copies

LEMMA CountsAreNumbers ==
  ASSUME HistoryTypes, NEW r \in Readers, NEW t
  PROVE  /\ IsFiniteSet(LoansAt(r, t)) /\ Cardinality(LoansAt(r, t)) \in Nat
         /\ IsFiniteSet(ReturnsAt(r, t)) /\ Cardinality(ReturnsAt(r, t)) \in Nat
<1>1. IsFiniteSet(made) /\ LoansAt(r, t) \subseteq made
  BY DEF HistoryTypes, LoansAt
<1>2. PICK n \in Nat : DOMAIN out[r] = 1..n
  <2>1. out[r] \in Seq(SomeDay)
    BY DEF HistoryTypes
  <2> QED
    BY <2>1, LenProperties
<1>3. IsFiniteSet(1..n) /\ ReturnsAt(r, t) \subseteq 1..n
  BY <1>2, FS_Interval DEF ReturnsAt
<1> QED
  BY <1>1, <1>3, FS_Subset, FS_CardinalityType

\* The reader's loans and returns grow by the new one.
LEMMA CountsGrow ==
  ASSUME HistoryTypes, NEW r, NEW c, NEW d \in SomeDay, NEW t \in Int, History!Lends(r, c, d),
         NEW q \in Readers, r \in Readers
  PROVE  /\ out' \in [Readers -> Seq(SomeDay)]
         /\ Cardinality(ReturnsAt(q, t)') =
              Cardinality(ReturnsAt(q, t)) + (IF q = r /\ OutAfter(d, t) THEN 1 ELSE 0)
         /\ Cardinality(LoansAt(q, t)') <=
              Cardinality(LoansAt(q, t)) + (IF q = r /\ OutAfter(d, t) THEN 1 ELSE 0)
<1> DEFINE new == [copy |-> c, reader |-> r, borrowed |-> day, due |-> History!Due, returned |-> d]
<1>1. /\ out \in [Readers -> Seq(SomeDay)] /\ out' = [out EXCEPT ![r] = Append(out[r], d)]
      /\ made' = made \cup {new}
  BY DEF HistoryTypes, History!Lends
<1>2. new.reader = r /\ new.returned = d
  OBVIOUS
<1> HIDE DEF new
<1>3. PICK n \in Nat : n = Len(out[q]) /\ DOMAIN out[q] = 1..n
  BY <1>1, LenProperties
<1>4. /\ Append(out[q], d) \in Seq(SomeDay) /\ DOMAIN Append(out[q], d) = 1..(n + 1)
      /\ \A i \in 1..n : Append(out[q], d)[i] = out[q][i]
      /\ Append(out[q], d)[n + 1] = d
  <2>1. out[q] \in Seq(SomeDay)
    BY <1>1
  <2>2. /\ Append(out[q], d) \in Seq(SomeDay) /\ Len(Append(out[q], d)) = n + 1
        /\ \A i \in 1..n : Append(out[q], d)[i] = out[q][i]
        /\ Append(out[q], d)[n + 1] = d
    BY <1>3, <2>1, AppendProperties
  <2> QED
    BY <2>2, LenProperties
<1>5. out' \in [Readers -> Seq(SomeDay)]
  <2>1. Append(out[r], d) \in Seq(SomeDay)
    BY <1>1, AppendProperties
  <2> QED
    BY <1>1, <2>1
<1>6. PICK a \in Nat, b \in Nat : /\ a = Cardinality(ReturnsAt(q, t)) /\ b = Cardinality(LoansAt(q, t))
                                  /\ IsFiniteSet(ReturnsAt(q, t)) /\ IsFiniteSet(LoansAt(q, t))
  BY CountsAreNumbers
<1>7. CASE q = r /\ OutAfter(d, t)
  <2>1. out'[q] = Append(out[q], d)
    BY <1>1, <1>7
  <2>2. ReturnsAt(q, t)' = ReturnsAt(q, t) \cup {n + 1}
    <3>1. \A i \in 1..(n + 1) : i = n + 1 \/ i \in 1..n
      OBVIOUS
    <3>2. \A i \in 1..n : i \in 1..(n + 1)
      OBVIOUS
    <3> QED
      BY <1>3, <1>4, <1>7, <2>1, <3>1, <3>2 DEF ReturnsAt
  <2>3. n + 1 \notin ReturnsAt(q, t)
    BY <1>3 DEF ReturnsAt
  <2>4. Cardinality(ReturnsAt(q, t) \cup {n + 1}) = a + 1
    BY <1>6, <2>3, FS_AddElement
  <2>5. LoansAt(q, t)' = LoansAt(q, t) \cup {new}
    BY <1>1, <1>2, <1>7 DEF LoansAt
  <2>6. Cardinality(LoansAt(q, t) \cup {new}) <= b + 1
    <3>1. PICK S : S = LoansAt(q, t)
      OBVIOUS
    <3>2. Cardinality(S \cup {new}) = IF new \in S THEN Cardinality(S) ELSE Cardinality(S) + 1
      BY <1>6, <3>1, FS_AddElement
    <3> QED
      BY <1>6, <3>1, <3>2
  <2> QED
    BY <1>5, <1>6, <1>7, <2>2, <2>4, <2>5, <2>6
<1>8. CASE q = r /\ ~OutAfter(d, t)
  <2>1. out'[q] = Append(out[q], d)
    BY <1>1, <1>8
  <2>2. ReturnsAt(q, t)' = ReturnsAt(q, t)
    <3>1. \A i \in 1..(n + 1) : i = n + 1 \/ i \in 1..n
      OBVIOUS
    <3>2. \A i \in 1..n : i \in 1..(n + 1)
      OBVIOUS
    <3> QED
      BY <1>3, <1>4, <1>8, <2>1, <3>1, <3>2 DEF ReturnsAt
  <2>3. LoansAt(q, t)' = LoansAt(q, t)
    BY <1>1, <1>2, <1>8 DEF LoansAt
  <2> QED
    BY <1>5, <1>6, <1>8, <2>2, <2>3
<1>9. CASE q # r
  <2>1. out'[q] = out[q]
    BY <1>1, <1>9
  <2>2. ReturnsAt(q, t)' = ReturnsAt(q, t)
    BY <2>1 DEF ReturnsAt
  <2>3. LoansAt(q, t)' = LoansAt(q, t)
    BY <1>1, <1>2, <1>9 DEF LoansAt
  <2> QED
    BY <1>5, <1>6, <1>9, <2>2, <2>3
<1> QED
  BY <1>7, <1>8, <1>9

LEMMA LendingFits ==
  ASSUME HistoryFits, NEW r, NEW c, NEW d, Lending(r, c, d)
  PROVE  HistoryFits'
<1>1. HistoryTypes /\ (\A l \in made : LoanFits(l)) /\ LoansAreApart /\ LoansAreCounted
  BY DEF HistoryFits
<1> DEFINE new == [copy |-> c, reader |-> r, borrowed |-> day, due |-> History!Due, returned |-> d]
<1>2. /\ free' = [free EXCEPT ![c] = History!FreeAgain(d)]
      /\ back' = [back EXCEPT ![r] = [b \in DOMAIN back[r] \cup {c[1]} |->
                                        IF b = c[1] THEN d ELSE back[r][b]]]
      /\ made' = made \cup {new}
      /\ day' = day /\ arrival' = arrival /\ joined' = joined
  BY DEF Lending, History!Lends
<1>3. new.copy = c /\ new.reader = r /\ new.borrowed = day /\ new.returned = d
  OBVIOUS
<1> HIDE DEF new
<1>4. /\ r \in Readers /\ c \in History!Copies /\ c[1] \in Titles /\ joined[r] <= day
      /\ arrival[c[1]] # None /\ arrival[c[1]] < day
      /\ free[c] # None /\ free[c] <= day /\ d \in SomeDay
      /\ d # None => d \in Int /\ History!IsOpen(d) /\ day < d /\ d <= LastDay
  BY CopiesAreOfTitles DEF Lending, SomeDay
<1>5. /\ day \in Int /\ 1 <= day /\ day <= LastDay /\ LastDay \in Nat /\ History!IsOpen(day)
      /\ IsFiniteSet(kept) /\ Cardinality(kept) \in Nat /\ None \notin Int
  BY <1>1, DaysAreNumbers, PartsAssumption
<1>6. /\ free' \in [History!Copies -> SomeDay] /\ free'[c] = (IF d = None THEN None ELSE d + 1)
      /\ \A k \in History!Copies : k # c => free'[k] = free[k]
  <2>1. History!FreeAgain(d) = IF d = None THEN None ELSE d + 1
    BY DEF History!FreeAgain
  <2>2. History!FreeAgain(d) \in SomeDay
    BY <1>4, <2>1 DEF SomeDay
  <2>3. free \in [History!Copies -> SomeDay]
    BY <1>1 DEF HistoryTypes
  <2> HIDE DEF History!FreeAgain
  <2> QED
    BY <1>2, <1>4, <2>1, <2>2, <2>3
<1>7. /\ DOMAIN back = Readers /\ DOMAIN back' = Readers
      /\ DOMAIN back'[r] = DOMAIN back[r] \cup {c[1]} /\ back'[r][c[1]] = d
      /\ \A b \in DOMAIN back[r] : b # c[1] => back'[r][b] = back[r][b]
      /\ \A q \in Readers : q # r => back'[q] = back[q]
  <2>1. DOMAIN back = Readers
    BY <1>1 DEF HistoryTypes
  <2>2. PICK f : f = [b \in DOMAIN back[r] \cup {c[1]} |-> IF b = c[1] THEN d ELSE back[r][b]]
    OBVIOUS
  <2>3. /\ DOMAIN f = DOMAIN back[r] \cup {c[1]} /\ f[c[1]] = d
        /\ \A b \in DOMAIN back[r] : b # c[1] => f[b] = back[r][b]
    BY <2>2
  <2>4. back' = [back EXCEPT ![r] = f]
    BY <1>2, <2>2
  <2>5. DOMAIN back' = Readers /\ back'[r] = f /\ \A q \in Readers : q # r => back'[q] = back[q]
    BY <1>4, <2>1, <2>4
  <2> QED
    BY <2>1, <2>3, <2>5
<1>8. HistoryTypes'
  <2>1. IsFiniteSet(made')
    BY <1>1, <1>2, FS_AddElement DEF HistoryTypes
  <2>2. \A l \in made' : /\ l.copy \in History!Copies /\ l.reader \in Readers
                         /\ l.borrowed \in Int /\ l.returned \in SomeDay
    BY <1>1, <1>2, <1>3, <1>4, <1>5 DEF HistoryTypes
  <2>3. kept' \subseteq History!OpenDays /\ day' \in History!OpenDays
    BY <1>1, <1>2 DEF HistoryTypes, Lending
  <2>4. out' \in [Readers -> Seq(SomeDay)]
    <3>1. 0 \in Int /\ History!Lends(r, c, d)
      BY DEF Lending
    <3> QED
      BY <1>1, <1>4, <3>1, CountsGrow
  <2>5. \A q \in Readers : \A b \in DOMAIN back'[q] : back'[q][b] \in SomeDay
    BY <1>1, <1>4, <1>7 DEF HistoryTypes
  <2> QED
    BY <1>1, <1>2, <1>6, <1>7, <2>1, <2>2, <2>3, <2>4, <2>5 DEF HistoryTypes
<1>9. ASSUME NEW l \in made, SameBook(l, new)
      PROVE  l.returned # None /\ l.returned < day
  <2>1. LoanFits(l) /\ l.returned \in SomeDay /\ l.copy \in History!Copies /\ l.reader \in Readers
    BY <1>1 DEF HistoryTypes
  <2>2. CASE l.copy = c
    <3>1. free[c] \in Int /\ l.returned \in Int /\ l.returned < free[c]
      BY <1>1, <1>4, <2>1, <2>2 DEF LoanFits, HistoryTypes, SomeDay
    <3> QED
      BY <1>4, <1>5, <3>1
  <2>3. CASE l.reader = r /\ l.copy[1] = c[1]
    <3>1. c[1] \in DOMAIN back[r] /\ Before(l.returned, back[r][c[1]])
      BY <2>1, <2>3 DEF LoanFits
    <3>2. back[r][c[1]] \in Int /\ back[r][c[1]] < day
      BY <1>1, <1>4, <3>1 DEF Lending, HistoryTypes, SomeDay
    <3>3. l.returned \in Int /\ l.returned <= back[r][c[1]]
      BY <1>5, <2>1, <3>1, <3>2 DEF Before, SomeDay
    <3> QED
      BY <1>5, <3>2, <3>3
  <2> QED
    BY <1>3, <1>9, <2>2, <2>3 DEF SameBook
<1>10. ASSUME NEW l \in made' PROVE LoanFits(l)'
  <2>1. CASE l = new
    <3>1. free'[l.copy] # None => l.returned # None /\ l.returned < free'[l.copy]
      BY <1>3, <1>4, <1>6, <2>1
    <3>2. l.copy[1] \in DOMAIN back'[l.reader] /\ Before(l.returned, back'[l.reader][l.copy[1]])
      <4>1. Before(d, d)
        BY <1>4 DEF Before
      <4> QED
        BY <1>3, <1>4, <1>7, <2>1, <4>1
    <3> QED
      BY <1>2, <1>3, <1>4, <1>5, <2>1, <3>1, <3>2 DEF LoanFits, Before
  <2>2. CASE l \in made
    <3>1. LoanFits(l) /\ l.returned \in SomeDay /\ l.copy \in History!Copies /\ l.reader \in Readers
      BY <1>1, <2>2 DEF HistoryTypes
    <3>2. free'[l.copy] # None => l.returned # None /\ l.returned < free'[l.copy]
      <4>1. CASE l.copy = c
        <5>1. l.returned # None /\ l.returned < day /\ l.returned \in Int
          BY <1>3, <1>9, <2>2, <3>1, <4>1 DEF SameBook, SomeDay
        <5> QED
          BY <1>4, <1>5, <1>6, <4>1, <5>1
      <4>2. CASE l.copy # c
        BY <1>6, <3>1, <4>2 DEF LoanFits
      <4> QED
        BY <4>1, <4>2
    <3>3. l.copy[1] \in DOMAIN back'[l.reader] /\ Before(l.returned, back'[l.reader][l.copy[1]])
      <4>1. CASE l.reader = r /\ l.copy[1] = c[1]
        <5>1. l.returned # None /\ l.returned < day /\ l.returned \in Int
          BY <1>3, <1>9, <2>2, <3>1, <4>1 DEF SameBook, SomeDay
        <5>2. Before(l.returned, d)
          BY <1>4, <1>5, <5>1 DEF Before
        <5> QED
          BY <1>7, <4>1, <5>2
      <4>2. CASE ~(l.reader = r /\ l.copy[1] = c[1])
        BY <1>7, <3>1, <4>2 DEF LoanFits
      <4> QED
        BY <4>1, <4>2
    <3> QED
      BY <1>2, <3>1, <3>2, <3>3 DEF LoanFits, Before
  <2> QED
    BY <1>2, <2>1, <2>2
<1>11. LoansAreApart'
  <2>1. ASSUME NEW l \in made, SameBook(l, new) PROVE History!Apart(l, new)
    BY <1>3, <1>9, <2>1 DEF History!Apart
  <2>2. \A l : SameBook(l, new) <=> SameBook(new, l)
    BY DEF SameBook
  <2> QED
    BY <1>1, <1>2, <2>1, <2>2 DEF LoansAreApart
<1>12. LoansAreCounted'
  <2>1. History!Lends(r, c, d)
    BY DEF Lending
  <2>2. ASSUME NEW q \in Readers, NEW t \in Int
        PROVE  Cardinality(LoansAt(q, t)') <= Cardinality(ReturnsAt(q, t)')
    <3>1. PICK i \in Nat : i = IF q = r /\ OutAfter(d, t) THEN 1 ELSE 0
      OBVIOUS
    <3>2. /\ Cardinality(ReturnsAt(q, t)') = Cardinality(ReturnsAt(q, t)) + i
          /\ Cardinality(LoansAt(q, t)') <= Cardinality(LoansAt(q, t)) + i
      BY <1>1, <1>4, <2>1, <3>1, CountsGrow
    <3>3. PICK a \in Nat, b \in Nat : a = Cardinality(ReturnsAt(q, t)) /\ b = Cardinality(LoansAt(q, t))
      BY <1>1, CountsAreNumbers
    <3>4. PICK e \in Nat : e = Cardinality(LoansAt(q, t)')
      <4>1. IsFiniteSet(made') /\ LoansAt(q, t)' \subseteq made'
        BY <1>8 DEF HistoryTypes, LoansAt
      <4> QED
        BY <4>1, FS_Subset, FS_CardinalityType
    <3>5. b <= a
      BY <1>1, <3>3 DEF LoansAreCounted
    <3> QED
      BY <3>2, <3>3, <3>4, <3>5
  <2>3. ASSUME NEW q \in Readers PROVE Cardinality(ReturnsAt(q, day)') <= MayHave(q)'
    <3>1. PICK k \in Nat, m \in Nat, a \in Nat :
            k = Cardinality(kept) /\ m = MaxActiveLoans /\ a = Cardinality(ReturnsAt(q, day))
      BY <1>1, <1>5, PartsAssumption, CountsAreNumbers
    <3>2. PICK p \in Nat : p = Cardinality(kept') /\ p >= k
      <4>1. kept' = kept \/ kept' = kept \cup {day}
        BY DEF Lending
      <4>2. Cardinality(kept \cup {day}) =
              IF day \in kept THEN Cardinality(kept) ELSE Cardinality(kept) + 1
        BY <1>5, FS_AddElement
      <4>3. CASE kept' = kept
        BY <3>1, <4>3
      <4>4. CASE kept' = kept \cup {day}
        BY <3>1, <4>2, <4>4
      <4> QED
        BY <4>1, <4>3, <4>4
    <3>3. a <= m + (IF q = Demo THEN k ELSE 0)
      BY <1>1, <3>1 DEF LoansAreCounted, MayHave
    <3>4. Cardinality(ReturnsAt(q, day)') = a + (IF q = r /\ OutAfter(d, day) THEN 1 ELSE 0)
      BY <1>1, <1>2, <1>4, <1>5, <2>1, <3>1, CountsGrow DEF ReturnsAt
    <3>5. q = r /\ q # Demo => a < m
      BY <3>1 DEF Lending
    <3>6. q = r /\ q = Demo => a < m \/ p = k + 1
      <4>1. kept' = kept \cup {day} /\ day \notin kept => p = k + 1
        BY <1>5, <3>1, <3>2, FS_AddElement
      <4> QED
        BY <3>1, <4>1 DEF Lending
    <3>7. a + (IF q = r /\ OutAfter(d, day) THEN 1 ELSE 0) <= m + (IF q = Demo THEN p ELSE 0)
      BY <3>2, <3>3, <3>5, <3>6
    <3> QED
      BY <3>1, <3>2, <3>4, <3>7 DEF MayHave
  <2> QED
    BY <2>2, <2>3 DEF LoansAreCounted
<1> QED
  BY <1>8, <1>10, <1>11, <1>12 DEF HistoryFits

LEMMA ReturnDaysAreLater ==
  ASSUME HistoryTypes, NEW d \in History!ReturnDays
  PROVE  d \in Int /\ History!IsOpen(d) /\ day < d
<1>1. day \in Int /\ LoanPeriodDays \in Nat /\ LoanPeriodDays >= 1 /\ Late \subseteq Nat
  BY DaysAreNumbers, PartsAssumption
<1>2. ASSUME NEW n \in 1..LoanPeriodDays,
             d = IF History!PreviousOpen(day + n) > day THEN History!PreviousOpen(day + n)
                 ELSE History!NextOpen(day + 1)
      PROVE  d \in Int /\ History!IsOpen(d) /\ day < d
  <2>1. day + n \in Int /\ day + 1 \in Int
    BY <1>1
  <2>2. History!PreviousOpen(day + n) \in Int /\ History!IsOpen(History!PreviousOpen(day + n))
    BY <2>1, PreviousOpenIs
  <2>3. /\ History!NextOpen(day + 1) \in Int /\ day + 1 <= History!NextOpen(day + 1)
        /\ History!IsOpen(History!NextOpen(day + 1))
    BY <2>1, NextOpenIs
  <2>4. CASE History!PreviousOpen(day + n) > day
    BY <1>1, <1>2, <2>2, <2>4
  <2>5. CASE ~(History!PreviousOpen(day + n) > day)
    BY <1>1, <1>2, <2>3, <2>5
  <2> QED
    BY <2>4, <2>5
<1>3. ASSUME NEW late \in Late, d = History!NextOpen(History!Due + late)
      PROVE  d \in Int /\ History!IsOpen(d) /\ day < d
  <2>1. PICK e \in Int : e = History!Due + late /\ day < e
    BY <1>1 DEF History!Due
  <2>2. History!NextOpen(e) \in Int /\ e <= History!NextOpen(e) /\ History!IsOpen(History!NextOpen(e))
    BY NextOpenIs
  <2> QED
    BY <1>1, <1>3, <2>1, <2>2
<1> QED
  BY <1>2, <1>3 DEF History!ReturnDays

LEMMA ChosenFits ==
  ASSUME HistoryTypes, NEW r \in Readers, NEW c \in History!Chosen(r)
  PROVE  /\ c \in History!Copies /\ arrival[c[1]] # None /\ arrival[c[1]] < day
         /\ free[c] # None /\ free[c] <= day
         /\ c[1] \in DOMAIN back[r] => back[r][c[1]] # None /\ back[r][c[1]] < day
<1>1. /\ c \in History!Copies /\ arrival[c[1]] # None /\ arrival[c[1]] + 1 <= day
      /\ c[1] \in DOMAIN back[r] => back[r][c[1]] # None /\ back[r][c[1]] < day
      /\ free[<<c[1], c[2]>>] # None /\ free[<<c[1], c[2]>>] <= day
  BY DEF History!Chosen, History!ShelvedFrom, History!WouldPick, History!OnShelf
<1>2. c[1] \in Titles /\ c = <<c[1], c[2]>>
  BY <1>1 DEF History!Copies
<1>3. arrival[c[1]] \in Int /\ day \in Int
  BY <1>1, <1>2, DaysAreNumbers DEF HistoryTypes, SomeDay
<1> QED
  BY <1>1, <1>2, <1>3

LEMMA HistoryLends ==
  ASSUME HistoryFits, NEW r \in Readers, History!Borrow(r) \/ (r = Demo /\ History!DemoKeeps)
  PROVE  \E c, d : Lending(r, c, d)
<1>1. HistoryTypes
  BY DEF HistoryFits
<1>2. /\ day \in Int /\ LastDay \in Nat /\ History!IsOpen(day)
      /\ joined[r] \in Int /\ Cardinality(ReturnsAt(r, day)) \in Nat
  BY <1>1, DaysAreNumbers, CountsAreNumbers DEF HistoryTypes
<1>3. CASE History!Borrow(r)
  <2>1. PICK c \in History!Chosen(r), e \in History!ReturnDays : History!Lends(r, c, History!Returned(e))
    BY <1>3 DEF History!Borrow
  <2>2. e \in Int /\ History!IsOpen(e) /\ day < e
    BY <1>1, ReturnDaysAreLater
  <2>3. \/ History!Returned(e) = None
        \/ History!Returned(e) = e /\ e <= LastDay
    BY <1>2, <2>2 DEF History!Returned, History!Today
  <2>4. ReturnsAt(r, day) = History!LoansOut(r)
    BY DEF ReturnsAt, OutAfter, History!LoansOut
  <2>5. Cardinality(ReturnsAt(r, day)) < MaxActiveLoans /\ joined[r] <= day /\ kept' = kept
    BY <1>2, <1>3, <2>4, HistoryCounts DEF History!Borrow
  <2>6. Lending(r, c, History!Returned(e))
    BY <1>1, <2>1, <2>2, <2>3, <2>5, ChosenFits DEF Lending
  <2> QED
    BY <2>6
<1>4. CASE r = Demo /\ History!DemoKeeps
  <2>1. PICK c \in History!Chosen(r) : History!Lends(r, c, None)
    BY <1>4 DEF History!DemoKeeps
  <2>2. day \in History!DemoDays /\ day \notin kept /\ kept' = kept \cup {day}
    BY <1>4 DEF History!DemoKeeps
  <2>3. joined[r] <= day
    BY <1>2, <1>4, <2>2 DEF History!DemoDays
  <2>4. Lending(r, c, None)
    BY <1>1, <1>4, <2>1, <2>2, <2>3, ChosenFits DEF Lending
  <2> QED
    BY <2>4
<1> QED
  BY <1>3, <1>4

-----------------------------------------------------------------------------
\* The simulated history: a day ends

LEMMA DayEndFits ==
  ASSUME HistoryFits, History!DayEnds
  PROVE  HistoryFits'
<1>1. HistoryTypes /\ (\A l \in made : LoanFits(l)) /\ LoansAreApart /\ LoansAreCounted
  BY DEF HistoryFits
<1>2. /\ day' = History!NextOpen(day + 1) /\ (\E d \in History!OpenDays : d > day)
      /\ arrival' = arrival /\ joined' = joined /\ free' = free /\ back' = back /\ out' = out
      /\ kept' = kept /\ made' = made
  BY DEF History!DayEnds
<1>3. day \in Int /\ 1 <= day /\ LastDay \in Nat
  BY <1>1, DaysAreNumbers
<1>4. day' \in Int /\ day < day' /\ day' \in History!OpenDays
  <2>1. PICK d \in History!OpenDays : d > day
    BY <1>2
  <2>2. d \in 1..LastDay /\ History!IsOpen(d)
    BY DEF History!OpenDays
  <2>3. PICK e \in Int : e = day + 1
    BY <1>3
  <2>4. e <= d
    BY <1>3, <2>1, <2>2, <2>3
  <2>5. PICK n : n = History!NextOpen(e)
    OBVIOUS
  <2>6. n \in Int /\ e <= n /\ History!IsOpen(n) /\ n <= d
    BY <2>2, <2>4, <2>5, NextOpenIs
  <2>7. day' = n
    BY <1>2, <2>3, <2>5
  <2>8. n \in 1..LastDay /\ day < n
    BY <1>3, <2>2, <2>3, <2>6
  <2>9. n \in History!OpenDays
    BY <2>6, <2>8 DEF History!OpenDays
  <2> QED
    BY <2>6, <2>7, <2>8, <2>9
<1>5. HistoryTypes'
  BY <1>1, <1>2, <1>4 DEF HistoryTypes
<1>6. ASSUME NEW l \in made PROVE LoanFits(l)'
  <2>1. LoanFits(l) /\ l.borrowed \in Int
    BY <1>1 DEF HistoryTypes
  <2>2. l.borrowed <= day'
    BY <1>3, <1>4, <2>1 DEF LoanFits
  <2> QED
    BY <1>2, <2>1, <2>2 DEF LoanFits, Before
<1>7. LoansAreApart'
  BY <1>1, <1>2 DEF LoansAreApart
<1>8. LoansAreCounted'
  <2>1. \A q, t : ReturnsAt(q, t)' = ReturnsAt(q, t) /\ LoansAt(q, t)' = LoansAt(q, t)
    BY <1>2 DEF ReturnsAt, LoansAt
  <2>2. ASSUME NEW q \in Readers PROVE Cardinality(ReturnsAt(q, day)') <= MayHave(q)'
    <3>1. PICK next \in Int : next = day' /\ day < next
      BY <1>4
    <3>2. ReturnsAt(q, day)' = ReturnsAt(q, next)
      BY <1>2, <3>1 DEF ReturnsAt
    <3>3. ReturnsAt(q, next) \subseteq ReturnsAt(q, day)
      <4>1. out[q] \in Seq(SomeDay)
        BY <1>1 DEF HistoryTypes
      <4>2. \A i \in DOMAIN out[q] : out[q][i] \in SomeDay
        BY <4>1, ElementOfSeq, LenProperties
      <4>3. \A d \in SomeDay : OutAfter(d, next) => OutAfter(d, day)
        BY <1>3, <3>1 DEF OutAfter, SomeDay
      <4> QED
        BY <4>2, <4>3 DEF ReturnsAt
    <3>4. PICK a \in Nat, b \in Nat :
            /\ a = Cardinality(ReturnsAt(q, next)) /\ b = Cardinality(ReturnsAt(q, day))
            /\ IsFiniteSet(ReturnsAt(q, day))
      BY <1>1, CountsAreNumbers
    <3>5. a <= b
      BY <3>3, <3>4, FS_Subset
    <3>6. PICK m \in Nat : m = MayHave(q)
      <4>1. MaxActiveLoans \in Nat /\ Cardinality(kept) \in Nat
        BY <1>1, DaysAreNumbers, PartsAssumption
      <4> QED
        BY <4>1 DEF MayHave
    <3>7. b <= m /\ MayHave(q)' = m
      BY <1>1, <1>2, <3>4, <3>6 DEF LoansAreCounted, MayHave
    <3> QED
      BY <3>2, <3>4, <3>5, <3>7
  <2>3. ASSUME NEW q \in Readers, NEW t \in Int
        PROVE  Cardinality(LoansAt(q, t)') <= Cardinality(ReturnsAt(q, t)')
    <3>1. Cardinality(LoansAt(q, t)) <= Cardinality(ReturnsAt(q, t))
      BY <1>1 DEF LoansAreCounted
    <3> QED
      BY <2>1, <3>1
  <2> QED
    BY <2>2, <2>3 DEF LoansAreCounted
<1> QED
  BY <1>2, <1>5, <1>6, <1>7, <1>8 DEF HistoryFits

-----------------------------------------------------------------------------
\* The simulated history: its beginning

LEMMA ArrivalsAreDays == History!Arrivals \subseteq SomeDay
<1>1. ASSUME NEW first \in Int, NEW last \in Int, NEW d \in History!DayBetween(first, last)
      PROVE  d \in SomeDay
  <2>1. ASSUME NEW e \in first..last PROVE History!NextOpen(e) \in SomeDay
    BY NextOpenIs DEF SomeDay
  <2>2. History!PreviousOpen(last) \in SomeDay /\ None \in SomeDay
    BY PreviousOpenIs DEF SomeDay
  <2> QED
    BY <2>1, <2>2 DEF History!DayBetween
<1>2. \A n \in 1..(ShelvingDays + 1) : History!Nth(n) \in Int
  <2>1. History!OpenDays \subseteq Int
    BY DEF History!OpenDays
  <2>2. ASSUME NEW n \in 1..(ShelvingDays + 1) PROVE History!Nth(n) \in Int
    <3>1. PICK k \in Nat : k = Cardinality(History!OpenDays)
      <4>1. IsFiniteSet(1..LastDay) /\ History!OpenDays \subseteq 1..LastDay
        BY PartsAssumption, FS_Interval DEF History!OpenDays
      <4> QED
        BY <4>1, FS_Subset, FS_CardinalityType
    <3>2. n \in Nat /\ 1 <= n /\ n <= k
      BY <3>1, PartsAssumption
    <3> QED
      BY <2>1, <3>1, <3>2, NthIs
  <2> QED
    BY <2>2
<1>3. History!ShelvingWeek \subseteq SomeDay
  <2>1. \A n \in 1..ShelvingDays : n \in 1..(ShelvingDays + 1)
    BY PartsAssumption
  <2> QED
    BY <1>2, <2>1 DEF History!ShelvingWeek, SomeDay
<1>4. History!FirstMemberDay \in Int
  <2>1. ShelvingDays + 1 \in 1..(ShelvingDays + 1)
    BY PartsAssumption
  <2> QED
    BY <1>2, <2>1 DEF History!FirstMemberDay
<1>5. ASSUME NEW s \in LaterSpans,
             NEW d \in History!DayBetween(
               IF s[1] < History!FirstMemberDay THEN History!FirstMemberDay ELSE s[1],
               IF s[2] > LastDay THEN LastDay ELSE s[2])
      PROVE  d \in SomeDay
  <2>1. s[1] \in Int /\ s[2] \in Int /\ LastDay \in Int
    BY PartsAssumption
  <2>2. PICK first \in Int, last \in Int :
          /\ first = IF s[1] < History!FirstMemberDay THEN History!FirstMemberDay ELSE s[1]
          /\ last = IF s[2] > LastDay THEN LastDay ELSE s[2]
    BY <1>4, <2>1
  <2>3. d \in History!DayBetween(first, last)
    BY <1>5, <2>2, Zenon
  <2> QED
    BY <1>1, <2>3
<1> QED
  BY <1>3, <1>5 DEF History!Arrivals

LEMMA HistoryBegins == History!Init => HistoryFits
<1> SUFFICES ASSUME History!Init PROVE HistoryFits
  OBVIOUS
<1>1. /\ day = History!FirstMemberDay /\ arrival \in [Titles -> History!Arrivals]
      /\ joined \in [Readers -> {d \in History!OpenDays : d >= History!FirstMemberDay}]
      /\ free = [c \in History!Copies |-> IF arrival[c[1]] = None THEN None ELSE arrival[c[1]] + 1]
      /\ back = [r \in Readers |-> <<>>] /\ out = [r \in Readers |-> <<>>]
      /\ kept = {} /\ made = {}
  BY DEF History!Init
<1>2. day \in History!OpenDays
  <2>1. PICK n \in Nat : n = ShelvingDays + 1
    BY PartsAssumption
  <2>2. PICK k \in Nat : k = Cardinality(History!OpenDays)
    <3>1. IsFiniteSet(1..LastDay) /\ History!OpenDays \subseteq 1..LastDay
      BY PartsAssumption, FS_Interval DEF History!OpenDays
    <3> QED
      BY <3>1, FS_Subset, FS_CardinalityType
  <2>3. 1 <= n /\ n <= k
    BY <2>1, <2>2, PartsAssumption
  <2>4. History!Nth(n) \in History!OpenDays
    BY <2>2, <2>3, NthIs
  <2> QED
    BY <1>1, <2>1, <2>4 DEF History!FirstMemberDay
<1>3. /\ <<>> \in Seq(SomeDay) /\ DOMAIN <<>> = {}
  <2>1. <<>> \in Seq(SomeDay) /\ Len(<<>>) = 0
    BY EmptySeq
  <2>2. DOMAIN <<>> = 1..0
    BY <2>1, LenProperties
  <2> QED
    BY <2>1, <2>2
<1>4. HistoryTypes
  <2>1. joined \in [Readers -> Int]
    BY <1>1 DEF History!OpenDays
  <2>2. arrival \in [Titles -> SomeDay]
    BY <1>1, ArrivalsAreDays
  <2>3. free \in [History!Copies -> SomeDay]
    <3>1. ASSUME NEW c \in History!Copies
          PROVE  (IF arrival[c[1]] = None THEN None ELSE arrival[c[1]] + 1) \in SomeDay
      <4>1. arrival[c[1]] \in SomeDay
        BY <2>2, CopiesAreOfTitles
      <4> QED
        BY <4>1 DEF SomeDay
    <3> QED
      BY <1>1, <3>1
  <2>4. out \in [Readers -> Seq(SomeDay)]
    BY <1>1, <1>3
  <2>5. DOMAIN back = Readers /\ \A r \in Readers : DOMAIN back[r] = {}
    BY <1>1, <1>3
  <2> QED
    BY <1>1, <1>2, <2>1, <2>2, <2>3, <2>4, <2>5, FS_EmptySet DEF HistoryTypes
<1>5. LoansAreCounted
  <2>1. ASSUME NEW q \in Readers, NEW t PROVE ReturnsAt(q, t) = {} /\ LoansAt(q, t) = {}
    BY <1>1, <1>3 DEF ReturnsAt, LoansAt
  <2>2. Cardinality({}) = 0 /\ MaxActiveLoans \in Nat
    BY FS_EmptySet, PartsAssumption
  <2>3. ASSUME NEW q \in Readers PROVE 0 <= MayHave(q)
    BY <1>1, <2>2 DEF MayHave
  <2> QED
    BY <2>1, <2>2, <2>3 DEF LoansAreCounted
<1> QED
  BY <1>1, <1>4, <1>5 DEF HistoryFits, LoansAreApart

-----------------------------------------------------------------------------
\* The simulated history: its rules

LEMMA HistoryInvariance == PartsSpec => []HistoryInv
<1> DEFINE all == <<vars, part, memoryVars, callVars, counts, simVars>>
<1>1. PartsInit => HistoryInv
  BY HistoryBegins DEF PartsInit, HistoryInv
<1>2. HistoryInv /\ [PartsNext]_all => HistoryInv'
  <2> SUFFICES ASSUME HistoryInv, [PartsNext]_all PROVE HistoryInv'
    OBVIOUS
  <2>1. ASSUME UNCHANGED simVars, part' = part PROVE HistoryInv'
    <3>1. HistoryFits' = HistoryFits
      BY <2>1 DEF simVars, HistoryFits, HistoryTypes, LoanFits, LoansAreApart, LoansAreCounted,
         LoansAt, ReturnsAt, MayHave
    <3> QED
      BY <2>1, <3>1 DEF HistoryInv, simVars
  <2>2. CASE part = "history" /\ part' = part /\ History!Next
    <3>1. HistoryFits
      BY <2>2 DEF HistoryInv
    <3>2. Demo \in Readers
      BY PartsAssumption
    <3>3. CASE History!DayEnds
      BY <2>2, <3>1, <3>3, DayEndFits DEF HistoryInv
    <3>4. ASSUME NEW r \in Readers, History!Borrow(r) \/ (r = Demo /\ History!DemoKeeps)
          PROVE  HistoryInv'
      BY <2>2, <3>1, <3>4, HistoryLends, LendingFits DEF HistoryInv
    <3> QED
      BY <2>2, <3>2, <3>3, <3>4 DEF History!Next
  <2>3. CASE PartsNext
    BY <2>1, <2>2, <2>3 DEF PartsNext
  <2>4. CASE UNCHANGED all
    BY <2>1, <2>4
  <2> QED
    BY <2>3, <2>4
<1> QED
  BY <1>1, <1>2, PTL DEF PartsSpec

\* However the simulation draws its visits and returns, for any calendar, catalog, members
\* and loan period, the loans it makes keep the library's rules: a copy is back before it
\* goes out again, and nobody has a title twice or more books than the limit
\* (simulation.py:9, test_seed.py:54).
THEOREM HistoriesKeepTheRules == PartsSpec => []LoansKeepTheRules
<1>1. HistoryFits => LoansKeepTheRules
  <2> SUFFICES ASSUME HistoryFits PROVE LoansKeepTheRules
    OBVIOUS
  <2>1. HistoryTypes /\ (\A l \in made : LoanFits(l)) /\ LoansAreApart /\ LoansAreCounted
    BY DEF HistoryFits
  <2>2. /\ day \in Int /\ day <= LastDay /\ LastDay \in Nat /\ Cardinality(kept) \in Nat
        /\ MaxActiveLoans \in Nat
    BY <2>1, DaysAreNumbers, PartsAssumption
  <2>3. ASSUME NEW r \in Readers
        PROVE  History!Cardinality({l \in made : l.reader = r /\ History!StillOut(l)})
                 <= MaxActiveLoans + (IF r = Demo THEN History!Cardinality(kept) ELSE 0)
    <3>1. {l \in made : l.reader = r /\ History!StillOut(l)} = LoansAt(r, day)
      BY DEF LoansAt, OutAfter, History!StillOut
    <3>2. PICK a \in Nat, b \in Nat, m \in Nat :
            a = Cardinality(LoansAt(r, day)) /\ b = Cardinality(ReturnsAt(r, day)) /\ m = MayHave(r)
      BY <2>1, <2>2, CountsAreNumbers DEF MayHave
    <3>3. a <= b /\ b <= m
      BY <2>1, <2>2, <3>2 DEF LoansAreCounted
    <3>4. a <= m
      BY <3>3
    <3> QED
      BY <3>1, <3>2, <3>4, HistoryCounts DEF MayHave
  <2>4. ASSUME NEW l \in made
        PROVE  /\ arrival[l.copy[1]] < l.borrowed /\ joined[l.reader] <= l.borrowed
               /\ History!IsOpen(l.borrowed) /\ l.borrowed <= LastDay
               /\ l.returned # None => History!IsOpen(l.returned) /\ l.returned \in (l.borrowed + 1)..LastDay
    <3>1. LoanFits(l) /\ l.borrowed \in Int /\ l.returned \in SomeDay
      BY <2>1 DEF HistoryTypes
    <3>2. l.borrowed <= LastDay
      BY <2>2, <3>1 DEF LoanFits
    <3> QED
      BY <2>2, <3>1, <3>2 DEF LoanFits, SomeDay
  <2> QED
    BY <2>1, <2>3, <2>4 DEF LoansKeepTheRules, History!LoansKeepTheRules, LoansAreApart, SameBook
<1>2. made = {} /\ kept = {} => LoansKeepTheRules
  <2> SUFFICES ASSUME made = {}, kept = {} PROVE LoansKeepTheRules
    OBVIOUS
  <2>1. \A S : S = {} => History!Cardinality(S) = 0
    BY FS_EmptySet, HistoryCounts
  <2>2. MaxActiveLoans \in Nat
    BY PartsAssumption
  <2>3. ASSUME NEW r \in Readers
        PROVE  History!Cardinality({l \in made : l.reader = r /\ History!StillOut(l)})
                 <= MaxActiveLoans + (IF r = Demo THEN History!Cardinality(kept) ELSE 0)
    BY <2>1, <2>2
  <2> QED
    BY <2>3 DEF LoansKeepTheRules, History!LoansKeepTheRules
<1>3. HistoryInv => LoansKeepTheRules
  BY <1>1, <1>2 DEF HistoryInv
<1> QED
  BY <1>3, HistoryInvariance, PTL

-----------------------------------------------------------------------------
\* The forecast: fractions

LEMMA MultipliesUp ==
  ASSUME NEW x \in Int, NEW y \in Int, NEW z \in Nat, x <= y
  PROVE  x * z <= y * z
OBVIOUS

LEMMA Cancels ==
  ASSUME NEW x \in Int, NEW y \in Int, NEW z \in Nat \ {0}, x * z <= y * z
  PROVE  x <= y
OBVIOUS

LEMMA CrossMultiplied ==
  ASSUME NEW a \in Int, NEW b \in Int, NEW c \in Int, NEW d \in Nat, NEW e \in Nat \ {0}, NEW f \in Nat,
         a * e <= b * d, b * f <= c * e
  PROVE  a * f <= c * d
<1>1. (a * e) * f <= (b * d) * f
  BY MultipliesUp
<1>2. (b * f) * d <= (c * e) * d
  BY MultipliesUp
<1>3. (a * f) * e <= (c * d) * e
  <2>1. (a * e) * f = (a * f) * e /\ (b * d) * f = (b * f) * d /\ (c * e) * d = (c * d) * e
    OBVIOUS
  <2> QED
    BY <1>1, <1>2, <2>1
<1> QED
  BY <1>3, Cancels

\* What a miss can be: at least a whole forecast too low, or without limit.
Misses == {a \in Int \X Nat : a[1] + a[2] >= 0 /\ (a[2] = 0 => a = <<1, 0>>)}
AtMost(a, b) == a[1] * b[2] <= b[1] * a[2]

LEMMA MissParts ==
  ASSUME NEW a \in Misses
  PROVE  \E n \in Int, d \in Nat : a = <<n, d>> /\ n + d >= 0 /\ (d = 0 <=> a = <<1, 0>>)
BY DEF Misses

LEMMA MissesCompare ==
  ASSUME NEW a \in Misses, NEW b \in Misses
  PROVE  /\ ~Method!Below(b, a) <=> AtMost(a, b)
         /\ AtMost(a, b) \/ AtMost(b, a)
         /\ Method!Below(a, b) => AtMost(a, b)
         /\ AtMost(a, a)
<1>1. PICK n \in Int, d \in Nat : a = <<n, d>>
  BY MissParts
<1>2. PICK m \in Int, e \in Nat : b = <<m, e>>
  BY MissParts
<1>3. a[1] = n /\ a[2] = d /\ b[1] = m /\ b[2] = e
  BY <1>1, <1>2
<1>4. n * e \in Int /\ m * d \in Int
  OBVIOUS
<1> QED
  BY <1>3, <1>4 DEF AtMost, Method!Below

LEMMA MissesAreOrdered ==
  ASSUME NEW a \in Misses, NEW b \in Misses, NEW c \in Misses, AtMost(a, b), AtMost(b, c)
  PROVE  AtMost(a, c)
<1>1. PICK n \in Int, d \in Nat : a = <<n, d>> /\ n + d >= 0 /\ (d = 0 <=> a = <<1, 0>>)
  BY MissParts
<1>2. PICK m \in Int, e \in Nat : b = <<m, e>> /\ m + e >= 0 /\ (e = 0 <=> b = <<1, 0>>)
  BY MissParts
<1>3. PICK k \in Int, f \in Nat : c = <<k, f>> /\ k + f >= 0 /\ (f = 0 <=> c = <<1, 0>>)
  BY MissParts
<1>4. a[1] = n /\ a[2] = d /\ b[1] = m /\ b[2] = e /\ c[1] = k /\ c[2] = f
  BY <1>1, <1>2, <1>3
<1>5. n * e <= m * d /\ m * f <= k * e
  BY <1>4 DEF AtMost
<1>6. CASE e = 0
  <2>1. m = 1 /\ f <= 0
    BY <1>2, <1>5, <1>6
  <2>2. f = 0 /\ k = 1
    BY <1>3, <2>1
  <2> QED
    BY <1>4, <2>2 DEF AtMost
<1>7. CASE e # 0
  <2>1. n * f <= k * d
    BY <1>5, <1>7, CrossMultiplied
  <2> QED
    BY <1>4, <2>1 DEF AtMost
<1> QED
  BY <1>6, <1>7

LEMMA WithinALimit ==
  ASSUME NEW a \in Misses, NEW b \in Misses, AtMost(a, b), b # Method!Limitless
  PROVE  a # Method!Limitless
<1>1. PICK m \in Int, e \in Nat : b = <<m, e>> /\ (e = 0 <=> b = <<1, 0>>)
  BY MissParts
<1>2. ASSUME a = <<1, 0>> PROVE FALSE
  <2>1. a[1] = 1 /\ a[2] = 0 /\ b[1] = m /\ b[2] = e
    BY <1>1, <1>2
  <2>2. e <= 0
    BY <2>1 DEF AtMost
  <2> QED
    BY <1>1, <2>2 DEF Method!Limitless
<1> QED
  BY <1>2 DEF Method!Limitless

LEMMA FiniteMiss ==
  ASSUME NEW n \in Int, NEW d \in Nat \ {0}, n + d >= 0
  PROVE  <<n, d>> \in Misses /\ <<n, d>> # Method!Limitless
BY DEF Misses, Method!Limitless

\* Between two misses without a limit, at tenths of the way.
LEMMA FinitePoint ==
  ASSUME NEW n \in Int, NEW d \in Nat \ {0}, NEW m \in Int, NEW e \in Nat \ {0}, NEW t \in 0..10,
         n + d >= 0, m + e >= 0, n * e <= m * d
  PROVE  LET p == n * e * (10 - t) + m * d * t
             q == 10 * d * e
         IN /\ p \in Int /\ q \in Nat \ {0} /\ p + q >= 0
            /\ n * q <= p * d /\ p * e <= m * q
<1> DEFINE p == n * e * (10 - t) + m * d * t
           q == 10 * d * e
<1>1. d * e \in Nat \ {0}
  OBVIOUS
<1>2. q \in Nat \ {0} /\ p \in Int
  BY <1>1
<1>3. p + q >= 0
  <2>1. (n + d) * e \in Nat /\ (m + e) * d \in Nat
    OBVIOUS
  <2>2. ((n + d) * e) * (10 - t) \in Nat /\ ((m + e) * d) * t \in Nat
    BY <2>1
  <2>3. p + q = ((n + d) * e) * (10 - t) + ((m + e) * d) * t
    OBVIOUS
  <2> QED
    BY <2>2, <2>3
<1>4. n * q <= p * d
  <2>1. (n * e) * (t * d) <= (m * d) * (t * d)
    <3>1. t * d \in Nat /\ n * e \in Int /\ m * d \in Int
      OBVIOUS
    <3> QED
      BY <3>1, MultipliesUp
  <2>2. p * d - n * q = (m * d) * (t * d) - (n * e) * (t * d)
    OBVIOUS
  <2> QED
    BY <1>2, <2>1, <2>2
<1>5. p * e <= m * q
  <2>1. (n * e) * ((10 - t) * e) <= (m * d) * ((10 - t) * e)
    <3>1. (10 - t) * e \in Nat /\ n * e \in Int /\ m * d \in Int
      OBVIOUS
    <3> QED
      BY <3>1, MultipliesUp
  <2>2. m * q - p * e = (m * d) * ((10 - t) * e) - (n * e) * ((10 - t) * e)
    OBVIOUS
  <2> QED
    BY <1>2, <2>1, <2>2
<1> QED
  BY <1>2, <1>3, <1>4, <1>5

LEMMA FartherPoint ==
  ASSUME NEW n \in Int, NEW d \in Nat \ {0}, NEW m \in Int, NEW e \in Nat \ {0},
         NEW t \in 0..10, NEW u \in 0..10, n * e <= m * d, t <= u
  PROVE  n * e * (10 - t) + m * d * t <= n * e * (10 - u) + m * d * u
<1>1. (n * e) * (u - t) <= (m * d) * (u - t)
  <2>1. u - t \in Nat /\ n * e \in Int /\ m * d \in Int
    OBVIOUS
  <2> QED
    BY <2>1, MultipliesUp
<1>2. (n * e * (10 - u) + m * d * u) - (n * e * (10 - t) + m * d * t) = (m * d) * (u - t) - (n * e) * (u - t)
  OBVIOUS
<1> QED
  BY <1>1, <1>2

LEMMA BetweenIs ==
  ASSUME NEW a \in Misses, NEW b \in Misses, AtMost(a, b), a # b, b # Method!Limitless
  PROVE  \E n \in Int, d \in Nat \ {0}, m \in Int, e \in Nat \ {0} :
           /\ a = <<n, d>> /\ b = <<m, e>> /\ n + d >= 0 /\ m + e >= 0 /\ n * e <= m * d
           /\ \A t \in 1..9 : Method!Between(a, b, t) = <<n * e * (10 - t) + m * d * t, 10 * d * e>>
<1>1. PICK n \in Int, d \in Nat : a = <<n, d>> /\ n + d >= 0 /\ (d = 0 <=> a = <<1, 0>>)
  BY MissParts
<1>2. PICK m \in Int, e \in Nat : b = <<m, e>> /\ m + e >= 0 /\ (e = 0 <=> b = <<1, 0>>)
  BY MissParts
<1>3. d # 0 /\ e # 0
  BY <1>1, <1>2, WithinALimit DEF Method!Limitless
<1>4. a[1] = n /\ a[2] = d /\ b[1] = m /\ b[2] = e
  BY <1>1, <1>2
<1>5. n * e <= m * d
  BY <1>4 DEF AtMost
<1>6. ASSUME NEW t \in 1..9
      PROVE  Method!Between(a, b, t) = <<n * e * (10 - t) + m * d * t, 10 * d * e>>
  <2>1. Method!Between(a, b, t) = <<a[1] * b[2] * (10 - t) + b[1] * a[2] * t, 10 * a[2] * b[2]>>
    BY Zenon DEF Method!Between
  <2> QED
    BY <1>4, <2>1
<1> QED
  BY <1>1, <1>2, <1>3, <1>5, <1>6

LEMMA BetweenMisses ==
  ASSUME NEW a \in Misses, NEW b \in Misses, AtMost(a, b), NEW t \in 1..9,
         NEW c, c = Method!Between(a, b, t)
  PROVE  c \in Misses /\ AtMost(a, c) /\ AtMost(c, b)
<1>1. CASE a = b \/ b = Method!Limitless
  <2>1. c = b
    BY <1>1, Zenon DEF Method!Between
  <2> QED
    BY <2>1, MissesCompare
<1>2. CASE a # b /\ b # Method!Limitless
  <2>1. PICK n \in Int, d \in Nat \ {0}, m \in Int, e \in Nat \ {0} :
          /\ a = <<n, d>> /\ b = <<m, e>> /\ n + d >= 0 /\ m + e >= 0 /\ n * e <= m * d
          /\ \A s \in 1..9 : Method!Between(a, b, s) = <<n * e * (10 - s) + m * d * s, 10 * d * e>>
    BY <1>2, BetweenIs
  <2>2. PICK p, q : p = n * e * (10 - t) + m * d * t /\ q = 10 * d * e
    OBVIOUS
  <2>3. c = <<p, q>>
    BY <2>1, <2>2
  <2>4. /\ p \in Int /\ q \in Nat \ {0} /\ p + q >= 0
        /\ n * q <= p * d /\ p * e <= m * q
    BY <2>1, <2>2, FinitePoint
  <2>5. a[1] = n /\ a[2] = d /\ b[1] = m /\ b[2] = e /\ c[1] = p /\ c[2] = q
    BY <2>1, <2>3
  <2> QED
    BY <2>3, <2>4, <2>5, FiniteMiss DEF AtMost
<1> QED
  BY <1>1, <1>2

LEMMA BetweenFarther ==
  ASSUME NEW a \in Misses, NEW b \in Misses, AtMost(a, b), NEW t \in 1..9, NEW u \in 1..9, t <= u
  PROVE  AtMost(Method!Between(a, b, t), Method!Between(a, b, u))
<1>1. CASE a = b \/ b = Method!Limitless
  <2>1. Method!Between(a, b, t) = b /\ Method!Between(a, b, u) = b
    BY <1>1, Zenon DEF Method!Between
  <2> QED
    BY <2>1, MissesCompare
<1>2. CASE a # b /\ b # Method!Limitless
  <2>1. PICK n \in Int, d \in Nat \ {0}, m \in Int, e \in Nat \ {0} :
          /\ a = <<n, d>> /\ b = <<m, e>> /\ n + d >= 0 /\ m + e >= 0 /\ n * e <= m * d
          /\ \A s \in 1..9 : Method!Between(a, b, s) = <<n * e * (10 - s) + m * d * s, 10 * d * e>>
    BY <1>2, BetweenIs
  <2>2. PICK p, q, r : /\ p = n * e * (10 - t) + m * d * t /\ r = n * e * (10 - u) + m * d * u
                       /\ q = 10 * d * e
    OBVIOUS
  <2>3. p <= r
    BY <2>1, <2>2, FartherPoint
  <2>4. p \in Int /\ r \in Int /\ q \in Nat
    BY <2>2
  <2>5. p * q <= r * q
    BY <2>3, <2>4, MultipliesUp
  <2>6. Method!Between(a, b, t) = <<p, q>> /\ Method!Between(a, b, u) = <<r, q>>
    BY <2>1, <2>2
  <2> QED
    BY <2>5, <2>6 DEF AtMost
<1> QED
  BY <1>1, <1>2

Nothings == {a \in Misses : a[1] = 0}

LEMMA BetweenNothings ==
  ASSUME NEW a \in Nothings, NEW b \in Nothings, AtMost(a, b), NEW t \in 1..9
  PROVE  Method!Between(a, b, t) \in Nothings
<1>1. a \in Misses /\ b \in Misses /\ a[1] = 0 /\ b[1] = 0 /\ a[2] \in Nat /\ b[2] \in Nat
  BY DEF Nothings, Misses
<1>2. CASE a = b \/ b = Method!Limitless
  <2>1. Method!Between(a, b, t) = b
    BY <1>2, Zenon DEF Method!Between
  <2> QED
    BY <2>1
<1>3. CASE a # b /\ b # Method!Limitless
  <2>1. Method!Between(a, b, t) = <<a[1] * b[2] * (10 - t) + b[1] * a[2] * t, 10 * a[2] * b[2]>>
    BY <1>3, Zenon DEF Method!Between
  <2>2. a[1] * b[2] * (10 - t) + b[1] * a[2] * t = 0
    BY <1>1
  <2>3. Method!Between(a, b, t)[1] = 0
    BY <2>1, <2>2
  <2> QED
    BY <1>1, <2>3, BetweenMisses DEF Nothings
<1> QED
  BY <1>2, <1>3
-----------------------------------------------------------------------------
\* The forecast: ranks

LEMMA MethodCounts == \A S : Method!Cardinality(S) = Cardinality(S)
BY Zenon DEF Cardinality, Method!Cardinality

NotAbove(v, i) == {j \in DOMAIN v : ~Method!Below(v[i], v[j])}
Lower(v, i) == {j \in DOMAIN v : Method!Below(v[j], v[i])}

LEMMA SmallerPart ==
  ASSUME NEW S, NEW T, IsFiniteSet(S), T \subseteq S
  PROVE  /\ IsFiniteSet(T) /\ Cardinality(T) \in Nat /\ Cardinality(S) \in Nat
         /\ Cardinality(T) <= Cardinality(S)
         /\ T # S => Cardinality(T) < Cardinality(S)
<1>1. IsFiniteSet(T) /\ Cardinality(T) <= Cardinality(S) /\ (Cardinality(S) = Cardinality(T) => S = T)
  BY FS_Subset
<1>2. Cardinality(T) \in Nat /\ Cardinality(S) \in Nat
  BY <1>1, FS_CardinalityType
<1> QED
  BY <1>1, <1>2

LEMMA RankSets ==
  ASSUME NEW v \in Seq(Misses)
  PROVE  /\ DOMAIN v = 1..Len(v) /\ Len(v) \in Nat /\ IsFiniteSet(DOMAIN v)
         /\ Cardinality(DOMAIN v) = Len(v) /\ \A i \in DOMAIN v : v[i] \in Misses
<1>1. DOMAIN v = 1..Len(v) /\ Len(v) \in Nat /\ \A i \in DOMAIN v : v[i] \in Misses
  BY LenProperties, ElementOfSeq
<1>2. IsFiniteSet(1..Len(v)) /\ Cardinality(1..Len(v)) = Len(v)
  <2>1. PICK n \in Nat : n = Len(v)
    BY <1>1
  <2>2. IsFiniteSet(1..n) /\ Cardinality(1..n) = IF 1 > n THEN 0 ELSE n - 1 + 1
    BY FS_Interval
  <2> QED
    BY <2>1, <2>2
<1> QED
  BY <1>1, <1>2

LEMMA HigherRanks ==
  ASSUME NEW v \in Seq(Misses), NEW i \in DOMAIN v, NEW j \in DOMAIN v, ~AtMost(v[j], v[i])
  PROVE  /\ Cardinality(NotAbove(v, i)) < Cardinality(NotAbove(v, j))
         /\ NotAbove(v, i) \subseteq Lower(v, j)
<1>1. \A k \in DOMAIN v : v[k] \in Misses
  BY RankSets
<1>2. Method!Below(v[i], v[j]) /\ AtMost(v[i], v[j]) /\ AtMost(v[j], v[j])
  BY <1>1, MissesCompare
<1>3. ASSUME NEW k \in NotAbove(v, i) PROVE k \in NotAbove(v, j) /\ k \in Lower(v, j)
  <2>1. k \in DOMAIN v /\ AtMost(v[k], v[i])
    BY <1>1, MissesCompare DEF NotAbove
  <2>2. AtMost(v[k], v[j])
    BY <1>1, <1>2, <2>1, MissesAreOrdered
  <2>3. ~AtMost(v[j], v[k])
    BY <1>1, <2>1, MissesAreOrdered
  <2> QED
    BY <1>1, <2>1, <2>2, <2>3, MissesCompare DEF NotAbove, Lower
<1>4. j \in NotAbove(v, j) /\ j \notin NotAbove(v, i)
  BY <1>1, <1>2, MissesCompare DEF NotAbove
<1>5. IsFiniteSet(NotAbove(v, j))
  BY RankSets, SmallerPart DEF NotAbove
<1> QED
  BY <1>3, <1>4, <1>5, SmallerPart

LEMMA GreatestOf ==
  ASSUME NEW v \in Seq(Misses), NEW T \in SUBSET DOMAIN v, T # {}
  PROVE  \E j \in T : \A i \in T : AtMost(v[i], v[j])
<1> DEFINE Above(i) == Len(v) - Cardinality(NotAbove(v, i))
<1>1. \A i \in DOMAIN v : Cardinality(NotAbove(v, i)) \in Nat /\ Cardinality(NotAbove(v, i)) <= Len(v)
  BY RankSets, SmallerPart DEF NotAbove
<1>2. \A i \in T : Above(i) \in Nat
  BY <1>1, RankSets
<1>3. PICK m \in {Above(i) : i \in T} : \A n \in {Above(i) : i \in T} : m <= n
  <2>1. {Above(i) : i \in T} \in SUBSET Nat /\ {Above(i) : i \in T} # {}
    BY <1>2
  <2> HIDE DEF Above
  <2> QED
    BY <2>1, LeastNat
<1>4. PICK j \in T : m = Above(j)
  OBVIOUS
<1>5. ASSUME NEW i \in T PROVE AtMost(v[i], v[j])
  <2> SUFFICES ASSUME ~AtMost(v[i], v[j]) PROVE FALSE
    OBVIOUS
  <2>1. Cardinality(NotAbove(v, j)) < Cardinality(NotAbove(v, i))
    BY HigherRanks
  <2>2. Above(j) <= Above(i)
    BY <1>3, <1>4
  <2>3. Len(v) \in Nat
    BY RankSets
  <2> QED
    BY <1>1, <2>1, <2>2, <2>3
<1> QED
  BY <1>4, <1>5

IsRank(v, i, k) == Cardinality(Lower(v, i)) < k /\ Cardinality(NotAbove(v, i)) >= k

LEMMA RanksExist ==
  ASSUME NEW v \in Seq(Misses), NEW k \in 1..Len(v)
  PROVE  \E i \in DOMAIN v : IsRank(v, i, k)
<1> DEFINE High == {i \in DOMAIN v : Cardinality(NotAbove(v, i)) >= k}
           Sizes == {Cardinality(NotAbove(v, i)) : i \in High}
<1>1. /\ DOMAIN v = 1..Len(v) /\ Len(v) \in Nat /\ IsFiniteSet(DOMAIN v)
      /\ Cardinality(DOMAIN v) = Len(v) /\ \A i \in DOMAIN v : v[i] \in Misses
  BY RankSets
<1>2. \A i \in DOMAIN v : /\ Cardinality(NotAbove(v, i)) \in Nat /\ Cardinality(Lower(v, i)) \in Nat
                          /\ IsFiniteSet(NotAbove(v, i)) /\ IsFiniteSet(Lower(v, i))
  BY <1>1, SmallerPart DEF NotAbove, Lower
<1>3. High # {}
  <2>1. DOMAIN v # {}
    BY <1>1
  <2>2. PICK j \in DOMAIN v : \A i \in DOMAIN v : AtMost(v[i], v[j])
    BY <2>1, GreatestOf
  <2>3. NotAbove(v, j) = DOMAIN v
    BY <1>1, <2>2, MissesCompare DEF NotAbove
  <2> QED
    BY <1>1, <2>3
<1>4. PICK m \in Sizes : \A n \in Sizes : m <= n
  <2>1. Sizes \in SUBSET Nat /\ Sizes # {}
    BY <1>2, <1>3
  <2> HIDE DEF Sizes
  <2> QED
    BY <2>1, LeastNat
<1>5. PICK i \in High : m = Cardinality(NotAbove(v, i))
  OBVIOUS
<1>6. ASSUME Cardinality(Lower(v, i)) >= k PROVE FALSE
  <2>1. Lower(v, i) # {}
    <3>1. k > 0
      OBVIOUS
    <3>2. ASSUME Lower(v, i) = {} PROVE FALSE
      <4>1. Cardinality(Lower(v, i)) = 0
        BY <3>2, FS_EmptySet
      <4> QED
        BY <1>6, <3>1, <4>1
    <3> QED
      BY <3>2
  <2>2. PICK j \in Lower(v, i) : \A h \in Lower(v, i) : AtMost(v[h], v[j])
    BY <2>1, GreatestOf DEF Lower
  <2>3. j \in DOMAIN v /\ i \in DOMAIN v /\ ~AtMost(v[i], v[j])
    BY <1>1, MissesCompare DEF Lower
  <2>4. Lower(v, i) \subseteq NotAbove(v, j)
    BY <1>1, <2>2, <2>3, MissesCompare DEF Lower, NotAbove
  <2>5. Cardinality(Lower(v, i)) <= Cardinality(NotAbove(v, j))
    BY <1>2, <2>3, <2>4, SmallerPart
  <2>6. j \in High
    BY <1>2, <1>6, <2>3, <2>5
  <2>7. Cardinality(NotAbove(v, j)) < Cardinality(NotAbove(v, i))
    BY <2>3, HigherRanks
  <2>8. m <= Cardinality(NotAbove(v, j))
    BY <1>4, <2>6
  <2> QED
    BY <1>2, <1>5, <2>3, <2>7, <2>8
<1> QED
  BY <1>2, <1>5, <1>6 DEF IsRank

LEMMA AtItsRank ==
  ASSUME NEW v \in Seq(Misses), NEW k \in 1..Len(v)
  PROVE  \E i \in DOMAIN v : Method!AtRank(v, k) = v[i] /\ IsRank(v, i, k)
<1> DEFINE Fits(i) == /\ Method!Cardinality({j \in DOMAIN v : Method!Below(v[j], v[i])}) < k
                      /\ Method!Cardinality({j \in DOMAIN v : ~Method!Below(v[i], v[j])}) >= k
<1>1. \A i : Fits(i) <=> IsRank(v, i, k)
  BY MethodCounts, Zenon DEF IsRank, Lower, NotAbove
<1>2. PICK i : i = CHOOSE h \in DOMAIN v : Fits(h)
  OBVIOUS
<1>3. i \in DOMAIN v /\ Fits(i)
  <2> HIDE DEF Fits
  <2> QED
    BY <1>1, <1>2, RanksExist, Zenon
<1>4. Method!AtRank(v, k) = v[i]
  BY <1>2, Zenon DEF Method!AtRank
<1> QED
  BY <1>1, <1>3, <1>4

LEMMA RanksRise ==
  ASSUME NEW v \in Seq(Misses), NEW k \in 1..Len(v), NEW n \in 1..Len(v), k <= n
  PROVE  AtMost(Method!AtRank(v, k), Method!AtRank(v, n))
<1>1. PICK i \in DOMAIN v : Method!AtRank(v, k) = v[i] /\ IsRank(v, i, k)
  BY AtItsRank
<1>2. PICK j \in DOMAIN v : Method!AtRank(v, n) = v[j] /\ IsRank(v, j, n)
  BY AtItsRank
<1>3. ASSUME ~AtMost(v[i], v[j]) PROVE FALSE
  <2>1. NotAbove(v, j) \subseteq Lower(v, i)
    BY <1>3, HigherRanks
  <2>2. /\ Cardinality(NotAbove(v, j)) <= Cardinality(Lower(v, i))
        /\ Cardinality(NotAbove(v, j)) \in Nat /\ Cardinality(Lower(v, i)) \in Nat
    BY <2>1, RankSets, SmallerPart DEF Lower
  <2>3. k \in Int /\ n \in Int
    OBVIOUS
  <2> QED
    BY <1>1, <1>2, <2>2, <2>3 DEF IsRank
<1> QED
  BY <1>1, <1>2, <1>3

-----------------------------------------------------------------------------
\* The forecast: percentiles

\* Where a percentile lies: at a rank, or some tenths of the way to the next.
LEMMA PercentileIs ==
  ASSUME NEW v \in Seq(Misses), Len(v) > 0, NEW t \in 1..9
  PROVE  \E k \in 1..Len(v), r \in 0..9 :
           /\ (Len(v) - 1) * t = 10 * (k - 1) + r
           /\ r # 0 => k + 1 \in 1..Len(v)
           /\ Method!percentile(v, t) = IF r = 0 THEN Method!AtRank(v, k)
                                        ELSE Method!Between(Method!AtRank(v, k), Method!AtRank(v, k + 1), r)
<1>1. Len(v) \in Nat
  BY RankSets
<1>2. PICK position : position = (Len(v) - 1) * t
  OBVIOUS
<1>3. position \in Nat /\ position <= (Len(v) - 1) * 9
  BY <1>1, <1>2
<1>4. PICK q, r : q = position \div 10 /\ r = position % 10
  OBVIOUS
<1>5. q \in Nat /\ r \in 0..9 /\ position = 10 * q + r
  BY <1>3, <1>4
<1>6. q + 1 \in 1..Len(v) /\ (r # 0 => q + 2 \in 1..Len(v))
  <2>1. 10 * q + r <= 9 * (Len(v) - 1)
    BY <1>3, <1>5
  <2> QED
    BY <1>1, <1>5, <2>1
<1>7. Method!percentile(v, t) = IF r = 0 THEN Method!AtRank(v, q + 1)
                                ELSE Method!Between(Method!AtRank(v, q + 1), Method!AtRank(v, q + 2), r)
  BY <1>2, <1>4, Zenon DEF Method!percentile
<1>8. PICK k : k = q + 1
  OBVIOUS
<1>9. k \in 1..Len(v) /\ k + 1 = q + 2 /\ (Len(v) - 1) * t = 10 * (k - 1) + r
  BY <1>2, <1>5, <1>6, <1>8
<1> QED
  BY <1>5, <1>6, <1>7, <1>8, <1>9

LEMMA RanksAreMisses ==
  ASSUME NEW v \in Seq(Misses), NEW k \in 1..Len(v)
  PROVE  Method!AtRank(v, k) \in Misses
BY AtItsRank, RankSets

LEMMA PercentileInReach ==
  ASSUME NEW v \in Seq(Misses), NEW k \in 1..Len(v), NEW r \in 0..9, r # 0 => k + 1 \in 1..Len(v),
         NEW c, c = IF r = 0 THEN Method!AtRank(v, k)
                    ELSE Method!Between(Method!AtRank(v, k), Method!AtRank(v, k + 1), r)
  PROVE  /\ c \in Misses /\ AtMost(Method!AtRank(v, k), c)
         /\ r # 0 => AtMost(c, Method!AtRank(v, k + 1))
<1>1. CASE r = 0
  BY <1>1, RanksAreMisses, MissesCompare
<1>2. CASE r # 0
  <2>1. k \in Int /\ k <= k + 1 /\ r \in 1..9
    BY <1>2
  <2>2. AtMost(Method!AtRank(v, k), Method!AtRank(v, k + 1))
    BY <1>2, <2>1, RanksRise
  <2> QED
    BY <1>2, <2>1, <2>2, RanksAreMisses, BetweenMisses
<1> QED
  BY <1>1, <1>2

LEMMA PercentilesAreMisses ==
  ASSUME NEW v \in Seq(Misses), Len(v) > 0, NEW t \in 1..9
  PROVE  Method!percentile(v, t) \in Misses
BY PercentileIs, PercentileInReach

LEMMA PercentilesRise ==
  ASSUME NEW v \in Seq(Misses), Len(v) > 0, NEW t \in 1..9, NEW u \in 1..9, t <= u
  PROVE  AtMost(Method!percentile(v, t), Method!percentile(v, u))
<1>1. PICK k \in 1..Len(v), r \in 0..9 :
        /\ (Len(v) - 1) * t = 10 * (k - 1) + r
        /\ r # 0 => k + 1 \in 1..Len(v)
        /\ Method!percentile(v, t) = IF r = 0 THEN Method!AtRank(v, k)
                                     ELSE Method!Between(Method!AtRank(v, k), Method!AtRank(v, k + 1), r)
  BY PercentileIs
<1>2. PICK n \in 1..Len(v), s \in 0..9 :
        /\ (Len(v) - 1) * u = 10 * (n - 1) + s
        /\ s # 0 => n + 1 \in 1..Len(v)
        /\ Method!percentile(v, u) = IF s = 0 THEN Method!AtRank(v, n)
                                     ELSE Method!Between(Method!AtRank(v, n), Method!AtRank(v, n + 1), s)
  BY PercentileIs
<1>3. PICK p, q : p = Method!percentile(v, t) /\ q = Method!percentile(v, u)
  OBVIOUS
<1>4. p \in Misses /\ AtMost(Method!AtRank(v, k), p) /\ (r # 0 => AtMost(p, Method!AtRank(v, k + 1)))
  BY <1>1, <1>3, PercentileInReach
<1>5. q \in Misses /\ AtMost(Method!AtRank(v, n), q)
  BY <1>2, <1>3, PercentileInReach
<1>6. k \in Int /\ n \in Int /\ r \in Int /\ s \in Int /\ 10 * (k - 1) + r <= 10 * (n - 1) + s
  <2>1. Len(v) - 1 \in Nat
    BY RankSets
  <2>2. t * (Len(v) - 1) <= u * (Len(v) - 1)
    BY <2>1, MultipliesUp
  <2> QED
    BY <1>1, <1>2, <2>1, <2>2
<1>7. CASE k < n
  <2>1. k + 1 \in 1..Len(v) /\ k + 1 <= n
    BY <1>7
  <2>2. AtMost(Method!AtRank(v, k + 1), Method!AtRank(v, n)) /\ AtMost(Method!AtRank(v, k), Method!AtRank(v, k + 1))
    <3>1. k <= k + 1
      BY <1>6
    <3> QED
      BY <2>1, <3>1, RanksRise
  <2>3. AtMost(p, Method!AtRank(v, k + 1))
    <3>1. CASE r = 0
      BY <1>1, <1>3, <2>2, <3>1
    <3> QED
      BY <1>4, <3>1
  <2>4. AtMost(p, Method!AtRank(v, n))
    BY <1>4, <2>1, <2>2, <2>3, RanksAreMisses, MissesAreOrdered
  <2> QED
    BY <1>3, <1>4, <1>5, <2>4, RanksAreMisses, MissesAreOrdered
<1>8. CASE k >= n
  <2>1. k = n /\ r <= s
    BY <1>6, <1>8
  <2>2. CASE r = 0
    <3>1. p = Method!AtRank(v, n)
      BY <1>1, <1>3, <2>1, <2>2
    <3> QED
      BY <1>3, <1>5, <3>1
  <2>3. CASE r # 0
    <3>1. r \in 1..9 /\ s \in 1..9 /\ s # 0
      BY <2>1, <2>3
    <3>2. k + 1 \in 1..Len(v) /\ k <= k + 1
      BY <1>1, <1>6, <2>3
    <3>3. AtMost(Method!AtRank(v, k), Method!AtRank(v, k + 1))
      BY <3>2, RanksRise
    <3>4. PICK a, b : a = Method!AtRank(v, k) /\ b = Method!AtRank(v, k + 1)
      OBVIOUS
    <3>5. p = Method!Between(a, b, r) /\ q = Method!Between(a, b, s)
      BY <1>1, <1>2, <1>3, <2>1, <2>3, <3>1, <3>4
    <3> QED
      BY <1>3, <2>1, <3>1, <3>2, <3>3, <3>4, <3>5, RanksAreMisses, BetweenFarther
  <2> QED
    BY <2>2, <2>3
<1> QED
  BY <1>6, <1>7, <1>8

LEMMA PercentilesOfNothing ==
  ASSUME NEW v \in Seq(Nothings), Len(v) > 0, NEW t \in 1..9
  PROVE  Method!percentile(v, t) \in Nothings
<1>1. v \in Seq(Misses)
  BY DEF Nothings
<1>2. \A k \in 1..Len(v) : Method!AtRank(v, k) \in Nothings
  <2> SUFFICES ASSUME NEW k \in 1..Len(v) PROVE Method!AtRank(v, k) \in Nothings
    OBVIOUS
  <2>1. PICK i \in DOMAIN v : Method!AtRank(v, k) = v[i]
    BY <1>1, AtItsRank
  <2> QED
    BY <2>1, ElementOfSeq, LenProperties
<1>3. PICK k \in 1..Len(v), r \in 0..9 :
        /\ r # 0 => k + 1 \in 1..Len(v)
        /\ Method!percentile(v, t) = IF r = 0 THEN Method!AtRank(v, k)
                                     ELSE Method!Between(Method!AtRank(v, k), Method!AtRank(v, k + 1), r)
  BY <1>1, PercentileIs
<1>4. CASE r = 0
  BY <1>2, <1>3, <1>4
<1>5. CASE r # 0
  <2>1. k + 1 \in 1..Len(v) /\ k <= k + 1 /\ r \in 1..9
    BY <1>3, <1>5
  <2>2. AtMost(Method!AtRank(v, k), Method!AtRank(v, k + 1))
    BY <1>1, <2>1, RanksRise
  <2> QED
    BY <1>2, <1>3, <1>5, <2>1, <2>2, BetweenNothings
<1> QED
  BY <1>4, <1>5

-----------------------------------------------------------------------------
\* The forecast: totals

\* f[s] is the sum of g over s, which takes the elements of s in the order of ch.
SumsTo(S, g, ch, f, n) ==
  \A s \in SUBSET S : Cardinality(s) <= n =>
    f[s] = IF s = {} THEN 0 ELSE g[ch[s]] + f[s \ {ch[s]}]
SumsUp(S, g, ch, f) ==
  \A s \in SUBSET S : f[s] = IF s = {} THEN 0 ELSE g[ch[s]] + f[s \ {ch[s]}]
Chooses(S, ch) == \A s \in SUBSET S : s # {} => ch[s] \in s

LEMMA OneLess ==
  ASSUME NEW S, IsFiniteSet(S), NEW ch, Chooses(S, ch), NEW s \in SUBSET S, s # {}
  PROVE  /\ Cardinality(s) \in Nat /\ Cardinality(s) > 0
         /\ s \ {ch[s]} \in SUBSET S /\ Cardinality(s \ {ch[s]}) = Cardinality(s) - 1
         /\ ch[s] \in S
<1>1. IsFiniteSet(s)
  BY FS_Subset
<1>2. ch[s] \in s
  BY DEF Chooses
<1>3. Cardinality(s) \in Nat /\ Cardinality(s) # 0
  BY <1>1, FS_CardinalityType, FS_EmptySet
<1>4. Cardinality(s \ {ch[s]}) = Cardinality(s) - 1
  BY <1>1, <1>2, FS_RemoveElement
<1> QED
  BY <1>2, <1>3, <1>4

\* Sums of natural numbers exist, and are natural numbers.
LEMMA SumsExist ==
  ASSUME NEW S, IsFiniteSet(S), NEW g \in [S -> Nat], NEW ch, Chooses(S, ch)
  PROVE  \E f \in [SUBSET S -> Nat] : SumsUp(S, g, ch, f)
<1> DEFINE Reached == {n \in Nat : \E f \in [SUBSET S -> Nat] : SumsTo(S, g, ch, f, n)}
           Missed == Nat \ Reached
<1>1. 0 \in Reached
  <2> DEFINE f == [s \in SUBSET S |-> 0]
  <2>1. ASSUME NEW s \in SUBSET S, Cardinality(s) <= 0, s # {} PROVE FALSE
    <3>1. Cardinality(s) \in Nat /\ Cardinality(s) > 0
      BY <2>1, OneLess, Zenon
    <3> QED
      BY <2>1, <3>1
  <2>2. SumsTo(S, g, ch, f, 0) /\ f \in [SUBSET S -> Nat]
    BY <2>1 DEF SumsTo
  <2> QED
    BY <2>2
<1>2. ASSUME NEW n \in Reached PROVE n + 1 \in Reached
  <2>1. n \in Nat /\ n + 1 \in Nat
    OBVIOUS
  <2>2. PICK f \in [SUBSET S -> Nat] : SumsTo(S, g, ch, f, n)
    OBVIOUS
  <2> DEFINE h == [s \in SUBSET S |-> IF s = {} THEN 0 ELSE g[ch[s]] + f[s \ {ch[s]}]]
  <2>3. h \in [SUBSET S -> Nat]
    <3>1. ASSUME NEW s \in SUBSET S, s # {} PROVE g[ch[s]] + f[s \ {ch[s]}] \in Nat
      <4>1. ch[s] \in S /\ s \ {ch[s]} \in SUBSET S
        BY <3>1, OneLess, Zenon
      <4>2. PICK t \in SUBSET S : t = s \ {ch[s]}
        BY <4>1
      <4>3. g[ch[s]] \in Nat /\ f[t] \in Nat
        BY <4>1
      <4> QED
        BY <4>2, <4>3
    <3> QED
      BY <3>1
  <2>4. ASSUME NEW s \in SUBSET S, Cardinality(s) <= n + 1
        PROVE  h[s] = IF s = {} THEN 0 ELSE g[ch[s]] + h[s \ {ch[s]}]
    <3>1. CASE s = {}
      BY <3>1
    <3>2. CASE s # {}
      <4>1. /\ Cardinality(s) \in Nat /\ s \ {ch[s]} \in SUBSET S
            /\ Cardinality(s \ {ch[s]}) = Cardinality(s) - 1
        BY <3>2, OneLess
      <4>2. PICK t \in SUBSET S : t = s \ {ch[s]}
        BY <4>1
      <4>3. Cardinality(t) <= n
        BY <2>1, <2>4, <4>1, <4>2
      <4>4. f[t] = h[t]
        BY <2>2, <4>3 DEF SumsTo
      <4> QED
        BY <3>2, <4>2, <4>4
    <3> QED
      BY <3>1, <3>2
  <2> HIDE DEF h
  <2>5. SumsTo(S, g, ch, h, n + 1)
    BY <2>4 DEF SumsTo
  <2> QED
    BY <2>1, <2>3, <2>5
<1>3. ASSUME NEW x \in Missed PROVE FALSE
  <2>1. Missed \in SUBSET Nat
    OBVIOUS
  <2> HIDE DEF Missed, Reached
  <2>2. PICK m \in Missed : \A n \in Missed : m <= n
    BY <2>1, LeastNat
  <2>3. m \in Nat /\ m # 0
    BY <1>1, <2>1, <2>2 DEF Missed
  <2>4. m - 1 \in Reached
    BY <2>2, <2>3 DEF Missed
  <2> QED
    BY <1>2, <2>2, <2>3, <2>4 DEF Missed
<1>4. Cardinality(S) \in Reached
  BY <1>3, FS_CardinalityType DEF Missed
<1>5. PICK f \in [SUBSET S -> Nat] : SumsTo(S, g, ch, f, Cardinality(S))
  BY <1>4
<1>6. ASSUME NEW s \in SUBSET S
      PROVE  f[s] = IF s = {} THEN 0 ELSE g[ch[s]] + f[s \ {ch[s]}]
  <2>1. Cardinality(s) <= Cardinality(S)
    BY FS_Subset
  <2> QED
    BY <1>5, <2>1 DEF SumsTo
<1> QED
  BY <1>5, <1>6 DEF SumsUp

LEMMA SumsAreNumbers ==
  ASSUME NEW S, IsFiniteSet(S), NEW g \in [S -> Nat], NEW ch, Chooses(S, ch), NEW f, SumsUp(S, g, ch, f)
  PROVE  f[S] \in Nat
<1> DEFINE Sizes == {n \in Nat : \E s \in SUBSET S : Cardinality(s) = n /\ f[s] \notin Nat}
<1>1. ASSUME NEW n \in Sizes PROVE FALSE
  <2>1. Sizes \in SUBSET Nat
    OBVIOUS
  <2> HIDE DEF Sizes
  <2>2. PICK m \in Sizes : \A k \in Sizes : m <= k
    BY <2>1, LeastNat
  <2>3. PICK s \in SUBSET S : Cardinality(s) = m /\ f[s] \notin Nat
    BY <2>2 DEF Sizes
  <2>4. s # {}
    <3>1. ASSUME s = {} PROVE f[s] = 0
      BY <3>1, Zenon DEF SumsUp
    <3> QED
      BY <2>3, <3>1
  <2>5. PICK x, t : x = ch[s] /\ t = s \ {ch[s]}
    OBVIOUS
  <2>6. m \in Nat /\ m > 0 /\ t \in SUBSET S /\ Cardinality(t) = m - 1 /\ x \in S
    BY <2>3, <2>4, <2>5, OneLess, Zenon
  <2>7. f[t] \in Nat
    <3>1. m - 1 \notin Sizes /\ m - 1 \in Nat
      BY <2>1, <2>2, <2>6
    <3> QED
      BY <2>6, <3>1 DEF Sizes
  <2>8. f[s] = g[x] + f[t]
    BY <2>4, <2>5 DEF SumsUp
  <2>9. g[x] \in Nat
    BY <2>6
  <2> QED
    BY <2>3, <2>7, <2>8, <2>9
<1>2. Cardinality(S) \in Nat
  BY FS_CardinalityType
<1> QED
  BY <1>1, <1>2

LEMMA TotalsAreNumbers ==
  ASSUME NEW values \in Seq(Nat)
  PROVE  Method!Total(values) \in Nat
<1> DEFINE S == DOMAIN values
           ch == [s \in SUBSET S |-> CHOOSE x \in s : TRUE]
           Is(h) == h = [s \in SUBSET S |->
                           IF s = {} THEN 0 ELSE values[CHOOSE x \in s : TRUE] + h[s \ {CHOOSE x \in s : TRUE}]]
           iter == CHOOSE h : Is(h)
<1>1. IsFiniteSet(S) /\ values \in [S -> Nat]
  <2>1. PICK n \in Nat : n = Len(values)
    BY LenProperties
  <2>2. S = 1..n /\ values \in [1..n -> Nat]
    BY <2>1, LenProperties
  <2>3. IsFiniteSet(1..n)
    BY FS_Interval
  <2> QED
    BY <2>2, <2>3
<1>2. Chooses(S, ch)
  BY DEF Chooses
<1>3. \E h : Is(h)
  <2>1. PICK f \in [SUBSET S -> Nat] : SumsUp(S, values, ch, f)
    <3> HIDE DEF ch, S
    <3> QED
      BY <1>1, <1>2, SumsExist
  <2>2. \A s \in SUBSET S : f[s] = IF s = {} THEN 0 ELSE values[CHOOSE x \in s : TRUE]
                                                         + f[s \ {CHOOSE x \in s : TRUE}]
    BY <2>1 DEF SumsUp
  <2>3. Is(f)
    <3> HIDE DEF S
    <3> QED
      BY <2>1, <2>2
  <2> QED
    BY <2>3
<1>4. Is(iter)
  <2> HIDE DEF Is
  <2> QED
    BY <1>3, Zenon
<1>5. SumsUp(S, values, ch, iter)
  <2> HIDE DEF iter
  <2> QED
    BY <1>4 DEF SumsUp
<1>6. iter[S] \in Nat
  <2> HIDE DEF ch, S, iter
  <2> QED
    BY <1>1, <1>2, <1>5, SumsAreNumbers, Zenon
<1>7. Method!Total(values) = iter[S]
  BY Zenon DEF Method!Total, Method!SumFunction, Method!SumFunctionOnSet, Method!FoldFunctionOnSet,
     Method!MapThenFoldSet
<1> QED
  BY <1>6, <1>7

-----------------------------------------------------------------------------
\* The forecast: the method and its tests on the past

LEMMA YearIsPositive == YEAR \in Nat \ {0} /\ MIN_TESTS \in Nat \ {0} /\ Method!MIN_MONTHS = 2 * YEAR
BY PartsAssumption DEF Method!MIN_MONTHS

IsPart(v, m, n, w) ==
  /\ w \in Seq(Nat) /\ Len(w) = n /\ w \in [1..n -> Nat]
  /\ \A i \in 1..n : w[i] = v[m + i]

LEMMA PartOfASeries ==
  ASSUME NEW v \in Seq(Nat), NEW m \in Nat, NEW n \in Nat \ {0}, m + n <= Len(v),
         NEW w, w = SubSeq(v, m + 1, m + n)
  PROVE  IsPart(v, m, n, w)
<1>1. \A i \in (m + 1)..(m + n) : v[i] \in Nat
  <2>1. Len(v) \in Nat
    BY LenProperties
  <2>2. \A i \in (m + 1)..(m + n) : i \in 1..Len(v)
    BY <2>1
  <2> QED
    BY <2>2, ElementOfSeq
<1>2. PICK a, b : a = m + 1 /\ b = m + n
  OBVIOUS
<1>3. /\ w \in Seq(Nat) /\ Len(w) = (IF a <= b THEN b - a + 1 ELSE 0)
      /\ \A i \in 1..(b - a + 1) : w[i] = v[a + i - 1]
  <2>1. a \in Int /\ b \in Int
    BY <1>2
  <2> QED
    BY <1>1, <1>2, <2>1, SubSeqProperties
<1>4. a <= b /\ b - a + 1 = n
  BY <1>2
<1>5. Len(w) = n
  BY <1>3, <1>4
<1>6. w \in [1..n -> Nat]
  BY <1>3, <1>5, LenProperties
<1>7. ASSUME NEW i \in 1..n PROVE w[i] = v[m + i]
  <2>1. a + i - 1 = m + i
    BY <1>2
  <2> QED
    BY <1>3, <1>4, <2>1
<1> QED
  BY <1>3, <1>5, <1>6, <1>7 DEF IsPart

RepeatsIn(v) == \A i \in 1..(Len(v) - YEAR) : v[i] = v[i + YEAR]

LEMMA FactorIs ==
  ASSUME NEW r \in Nat, NEW e \in Nat
  PROVE  \E n \in Nat \ {0}, d \in Nat \ {0} : Method!Factor(r, e) = <<n, d>> /\ (r = e => n = d)
BY DEF Method!Factor

LEMMA TrendIs ==
  ASSUME NEW v \in Seq(Nat), Len(v) >= 2 * YEAR
  PROVE  \E n \in Nat \ {0}, d \in Nat \ {0} :
           Method!trend_factor(v) = <<n, d>> /\ (RepeatsIn(v) => n = d)
<1>1. YEAR \in Nat \ {0} /\ Method!MIN_MONTHS = 2 * YEAR /\ Len(v) \in Nat
  BY YearIsPositive, LenProperties
<1>2. PICK L \in Nat : L = Len(v) /\ L >= 2 * YEAR
  BY <1>1
<1>3. PICK recent, both : recent = Method!LastMonths(v, YEAR) /\ both = Method!LastMonths(v, Method!MIN_MONTHS)
  OBVIOUS
<1>4. PICK l, k : l = L - YEAR /\ k = L - 2 * YEAR
  OBVIOUS
<1>5. IsPart(v, l, YEAR, recent)
  <2>1. l \in Nat /\ l + YEAR = L /\ L - YEAR + 1 = l + 1
    BY <1>1, <1>2, <1>4
  <2>2. recent = SubSeq(v, l + 1, l + YEAR)
    BY <1>2, <1>3, <2>1 DEF Method!LastMonths
  <2>3. l + YEAR <= Len(v)
    BY <1>2, <2>1
  <2> QED
    BY <1>1, <2>1, <2>2, <2>3, PartOfASeries, Zenon
<1>6. IsPart(v, k, 2 * YEAR, both)
  <2>1. k \in Nat /\ k + 2 * YEAR = L /\ L - 2 * YEAR + 1 = k + 1 /\ 2 * YEAR \in Nat \ {0}
    BY <1>1, <1>2, <1>4
  <2>2. both = SubSeq(v, k + 1, k + 2 * YEAR)
    BY <1>1, <1>2, <1>3, <2>1 DEF Method!LastMonths
  <2>3. k + 2 * YEAR <= Len(v)
    BY <1>2, <2>1
  <2> QED
    BY <2>1, <2>2, <2>3, PartOfASeries, Zenon
<1>7. PICK earlier : earlier = SubSeq(both, 1, YEAR)
  OBVIOUS
<1>8. IsPart(both, 0, YEAR, earlier)
  <2>1. both \in Seq(Nat) /\ 0 + YEAR <= Len(both) /\ 0 + 1 = 1 /\ 0 + YEAR = YEAR
    BY <1>1, <1>6 DEF IsPart
  <2> QED
    BY <1>1, <1>7, <2>1, PartOfASeries
<1>9. ASSUME RepeatsIn(v) PROVE recent = earlier
  <2>1. ASSUME NEW i \in 1..YEAR PROVE recent[i] = earlier[i]
    <3>1. i \in 1..(2 * YEAR) /\ 0 + i = i
      BY <1>1
    <3>2. PICK j : j = k + i
      OBVIOUS
    <3>3. j \in 1..(L - YEAR) /\ j + YEAR = l + i
      BY <1>1, <1>2, <1>4, <3>2
    <3>4. earlier[i] = v[j] /\ recent[i] = v[j + YEAR]
      BY <1>5, <1>6, <1>8, <3>1, <3>2, <3>3 DEF IsPart
    <3> QED
      BY <1>2, <1>9, <3>3, <3>4 DEF RepeatsIn
  <2>2. recent \in [1..YEAR -> Nat] /\ earlier \in [1..YEAR -> Nat]
    BY <1>5, <1>8 DEF IsPart
  <2>3. PICK D : D = 1..YEAR
    OBVIOUS
  <2>4. recent \in [D -> Nat] /\ earlier \in [D -> Nat] /\ \A i \in D : recent[i] = earlier[i]
    BY <2>1, <2>2, <2>3
  <2> QED
    BY <2>4
<1>10. PICK r \in Nat, e \in Nat : r = Method!Total(recent) /\ e = Method!Total(earlier)
  BY <1>5, <1>8, TotalsAreNumbers DEF IsPart
<1>11. Method!trend_factor(v) = Method!Factor(r, e)
  BY <1>3, <1>7, <1>10, Zenon DEF Method!trend_factor
<1>12. RepeatsIn(v) => r = e
  BY <1>9, <1>10
<1>13. PICK n \in Nat \ {0}, d \in Nat \ {0} : Method!Factor(r, e) = <<n, d>> /\ (r = e => n = d)
  BY <1>10, FactorIs
<1> QED
  BY <1>11, <1>12, <1>13

LEMMA ForecastIs ==
  ASSUME NEW v \in Seq(Nat), Len(v) >= 2 * YEAR, NEW horizon \in 1..YEAR
  PROVE  \E n \in Nat \ {0}, d \in Nat \ {0} :
           /\ RepeatsIn(v) => n = d
           /\ \A step \in 1..horizon :
                /\ v[Len(v) - YEAR + step] \in Nat
                /\ Method!seasonal_forecast(v, horizon)[step] = <<v[Len(v) - YEAR + step] * n, d>>
<1>1. PICK n \in Nat \ {0}, d \in Nat \ {0} : Method!trend_factor(v) = <<n, d>> /\ (RepeatsIn(v) => n = d)
  BY TrendIs
<1>2. ASSUME NEW step \in 1..horizon
      PROVE  /\ v[Len(v) - YEAR + step] \in Nat
             /\ Method!seasonal_forecast(v, horizon)[step] = <<v[Len(v) - YEAR + step] * n, d>>
  <2>1. Len(v) - YEAR + step \in 1..Len(v)
    <3>1. YEAR \in Nat \ {0} /\ Len(v) \in Nat
      BY YearIsPositive, LenProperties
    <3> QED
      BY <3>1
  <2>2. PICK c \in Nat : c = v[Len(v) - YEAR + step]
    BY <2>1, ElementOfSeq
  <2>3. Method!seasonal_forecast(v, horizon)[step] = Method!Times(<<c, 1>>, <<n, d>>)
    BY <1>1, <2>2 DEF Method!seasonal_forecast
  <2>4. Method!Times(<<c, 1>>, <<n, d>>) = <<c * n, d>>
    BY DEF Method!Times
  <2> QED
    BY <2>2, <2>3, <2>4
<1> QED
  BY <1>1, <1>2

LEMMA MissIs ==
  ASSUME NEW actual \in Nat, NEW p \in Nat, NEW q \in Nat \ {0}
  PROVE  /\ Method!miss(actual, <<p, q>>) \in Misses
         /\ actual * q = p => Method!miss(actual, <<p, q>>) \in Nothings
<1>1. CASE p > 0
  <2>1. Method!miss(actual, <<p, q>>) = <<actual * q - p, p>>
    BY <1>1 DEF Method!miss
  <2>2. PICK a \in Nat : a = actual * q
    OBVIOUS
  <2>3. <<a - p, p>> \in Misses
    BY <1>1, FiniteMiss
  <2>4. a = p => <<a - p, p>>[1] = 0
    OBVIOUS
  <2> QED
    BY <2>1, <2>2, <2>3, <2>4 DEF Nothings
<1>2. CASE p = 0
  <2>1. actual * q = p => actual = 0
    BY <1>2
  <2>2. Method!miss(actual, <<p, q>>) = IF actual = 0 THEN <<0, 1>> ELSE <<1, 0>>
    BY <1>2 DEF Method!miss, Method!Limitless
  <2>3. <<0, 1>> \in Nothings /\ <<0, 1>> \in Misses /\ <<1, 0>> \in Misses
    BY DEF Misses, Nothings
  <2> QED
    BY <2>1, <2>2, <2>3
<1> QED
  BY <1>1, <1>2

\* From a past month, how its forecast of a later one missed.
LEMMA PastMissIs ==
  ASSUME NEW v \in Seq(Nat), NEW horizon \in 1..YEAR, NEW step \in 1..horizon, NEW origin \in Nat,
         origin >= 2 * YEAR, origin + step <= Len(v),
         NEW a, a = Method!miss(v[origin + step],
                                Method!seasonal_forecast(SubSeq(v, 1, origin), horizon)[step])
  PROVE  a \in Misses /\ (RepeatsIn(v) => a \in Nothings)
<1>1. YEAR \in Nat \ {0} /\ Len(v) \in Nat
  BY YearIsPositive, LenProperties
<1>2. PICK w : w = SubSeq(v, 1, origin)
  OBVIOUS
<1>3. IsPart(v, 0, origin, w)
  <2>1. origin \in Nat \ {0} /\ 0 + origin <= Len(v) /\ 0 + 1 = 1 /\ 0 + origin = origin
    BY <1>1
  <2> QED
    BY <1>2, <2>1, PartOfASeries
<1>4. w \in Seq(Nat) /\ Len(w) = origin /\ \A i \in 1..origin : w[i] = v[i]
  BY <1>3 DEF IsPart
<1>5. RepeatsIn(v) => RepeatsIn(w)
  <2> SUFFICES ASSUME RepeatsIn(v), NEW i \in 1..(origin - YEAR) PROVE w[i] = w[i + YEAR]
    BY <1>4 DEF RepeatsIn
  <2>1. i \in 1..origin /\ i + YEAR \in 1..origin /\ i \in 1..(Len(v) - YEAR)
    BY <1>1
  <2> QED
    BY <1>4, <2>1 DEF RepeatsIn
<1>6. PICK n \in Nat \ {0}, d \in Nat \ {0} :
        /\ RepeatsIn(w) => n = d
        /\ \A s \in 1..horizon :
             /\ w[Len(w) - YEAR + s] \in Nat
             /\ Method!seasonal_forecast(w, horizon)[s] = <<w[Len(w) - YEAR + s] * n, d>>
  BY <1>4, ForecastIs
<1>7. PICK j : j = origin - YEAR + step
  OBVIOUS
<1>8. j \in 1..origin /\ j + YEAR = origin + step /\ j \in 1..(Len(v) - YEAR) /\ j + YEAR \in 1..Len(v)
  BY <1>1, <1>7
<1>9. PICK c \in Nat, actual \in Nat : c = v[j] /\ actual = v[origin + step]
  <2>1. v[j + YEAR] \in Nat /\ v[j] \in Nat
    <3>1. j \in 1..Len(v)
      BY <1>1, <1>8
    <3> QED
      BY <1>8, <3>1, ElementOfSeq
  <2> QED
    BY <1>8, <2>1
<1>10. Method!seasonal_forecast(w, horizon)[step] = <<c * n, d>>
  BY <1>4, <1>6, <1>7, <1>8, <1>9
<1>11. a = Method!miss(actual, <<c * n, d>>)
  BY <1>2, <1>9, <1>10
<1>12. RepeatsIn(v) => actual * d = c * n
  BY <1>5, <1>6, <1>8, <1>9 DEF RepeatsIn
<1>13. c * n \in Nat
  OBVIOUS
<1> QED
  BY <1>11, <1>12, <1>13, MissIs

LEMMA TestsAre ==
  ASSUME NEW v \in Seq(Nat), NEW horizon \in 1..YEAR, Len(v) >= Method!months_needed(horizon),
         NEW step \in 1..horizon
  PROVE  LET tests == Method!backtest(v, horizon)[step]
         IN /\ tests \in Seq(Misses) /\ Len(tests) >= MIN_TESTS /\ Len(tests) > 0
            /\ RepeatsIn(v) => tests \in Seq(Nothings)
<1>1. YEAR \in Nat \ {0} /\ MIN_TESTS \in Nat \ {0} /\ Len(v) \in Nat /\ Method!MIN_MONTHS = 2 * YEAR
  BY YearIsPositive, LenProperties
<1>2. PICK L \in Nat : L = Len(v) /\ L >= 2 * YEAR + MIN_TESTS + horizon - 1
  BY <1>1 DEF Method!months_needed
<1>3. PICK many : many = L - step - 2 * YEAR + 1
  OBVIOUS
<1>4. many \in Nat /\ many >= MIN_TESTS /\ many > 0 /\ ~(L - step < 2 * YEAR)
  BY <1>1, <1>2, <1>3
<1>5. PICK tests : tests = Method!backtest(v, horizon)[step]
  OBVIOUS
<1> DEFINE Past(origin) == Method!seasonal_forecast(SubSeq(v, 1, origin), horizon)
           from == [origin \in (2 * YEAR)..(Len(v) - 1) |-> Past(origin)]
<1>6. tests = [n \in 1..many |-> Method!miss(v[2 * YEAR + n - 1 + step], from[2 * YEAR + n - 1][step])]
  <2>1. Method!backtest(v, horizon) =
          [s \in 1..horizon |->
             [n \in 1..(IF Len(v) - s < 2 * YEAR THEN 0 ELSE Len(v) - s - 2 * YEAR + 1) |->
                Method!miss(v[2 * YEAR + n - 1 + s], from[2 * YEAR + n - 1][s])]]
    BY Zenon DEF Method!backtest, Method!MIN_MONTHS
  <2> HIDE DEF from
  <2> QED
    BY <1>2, <1>3, <1>4, <1>5, <2>1
<1>7. ASSUME NEW n \in 1..many
      PROVE  tests[n] \in Misses /\ (RepeatsIn(v) => tests[n] \in Nothings)
  <2>1. PICK origin : origin = 2 * YEAR + n - 1
    OBVIOUS
  <2>2. /\ origin \in Nat /\ origin >= 2 * YEAR /\ origin \in (2 * YEAR)..(L - 1)
        /\ origin + step <= L
    BY <1>1, <1>2, <1>3, <2>1
  <2>3. tests[n] = Method!miss(v[origin + step], Past(origin)[step])
    <3>1. from[origin] = Past(origin)
      BY <1>2, <2>2
    <3> HIDE DEF from
    <3> QED
      BY <1>6, <2>1, <3>1
  <2> QED
    BY <1>2, <2>2, <2>3, PastMissIs
<1>8. DOMAIN tests = 1..many /\ tests = [n \in 1..many |-> tests[n]]
  <2> HIDE DEF from
  <2> QED
    BY <1>6
<1>9. \A S : (\A n \in 1..many : tests[n] \in S) => tests \in Seq(S) /\ Len(tests) = many
  <2> SUFFICES ASSUME NEW S, \A n \in 1..many : tests[n] \in S PROVE tests \in Seq(S) /\ Len(tests) = many
    OBVIOUS
  <2>1. tests \in [1..many -> S]
    BY <1>8
  <2> QED
    BY <1>4, <2>1
<1>10. tests \in Seq(Misses) /\ Len(tests) = many
  BY <1>7, <1>9
<1>11. RepeatsIn(v) => tests \in Seq(Nothings)
  BY <1>7, <1>9
<1> QED
  BY <1>4, <1>5, <1>10, <1>11

LEMMA PointIs ==
  ASSUME NEW c \in Nat, NEW n \in Nat, NEW d \in Nat \ {0},
         NEW a \in Misses, NEW b \in Misses, AtMost(a, b), b # Method!Limitless,
         NEW low, low = Method!Times(<<c * n, d>>, Method!OneMore(a)),
         NEW high, high = Method!Times(<<c * n, d>>, Method!OneMore(b))
  PROVE  /\ low[2] \in Nat \ {0} /\ high[2] \in Nat \ {0}
         /\ ~Method!Below(high, low)
         /\ n = d /\ a \in Nothings => Same(low, <<c, 1>>)
         /\ n = d /\ b \in Nothings => Same(high, <<c, 1>>)
<1>1. PICK m \in Int, e \in Nat : a = <<m, e>> /\ m + e >= 0 /\ (e = 0 <=> a = <<1, 0>>)
  BY MissParts
<1>2. PICK k \in Int, f \in Nat : b = <<k, f>> /\ k + f >= 0 /\ (f = 0 <=> b = <<1, 0>>)
  BY MissParts
<1>3. e # 0 /\ f # 0
  BY <1>1, <1>2, WithinALimit DEF Method!Limitless
<1>4. PICK p \in Nat : p = c * n
  OBVIOUS
<1>5. low = <<p * (m + e), d * e>> /\ high = <<p * (k + f), d * f>>
  <2>1. Method!OneMore(a) = <<m + e, e>> /\ Method!OneMore(b) = <<k + f, f>>
    BY <1>1, <1>2 DEF Method!OneMore
  <2> QED
    BY <1>4, <2>1 DEF Method!Times
<1>6. d * e \in Nat \ {0} /\ d * f \in Nat \ {0}
  BY <1>3
<1>7. (p * (m + e)) * (d * f) <= (p * (k + f)) * (d * e)
  <2>1. m * f <= k * e
    BY <1>1, <1>2 DEF AtMost
  <2>2. p * d \in Nat /\ (m + e) * f <= (k + f) * e
    BY <2>1
  <2>3. ((m + e) * f) * (p * d) <= ((k + f) * e) * (p * d)
    BY <2>2, MultipliesUp
  <2>4. /\ (p * (m + e)) * (d * f) = ((m + e) * f) * (p * d)
        /\ (p * (k + f)) * (d * e) = ((k + f) * e) * (p * d)
    OBVIOUS
  <2> QED
    BY <2>3, <2>4
<1>8. ~Method!Below(high, low)
  <2>1. low[1] = p * (m + e) /\ low[2] = d * e /\ high[1] = p * (k + f) /\ high[2] = d * f
    BY <1>5
  <2>2. p * (m + e) \in Int /\ p * (k + f) \in Int
    OBVIOUS
  <2> QED
    BY <1>6, <1>7, <2>1, <2>2 DEF Method!Below
<1>9. ASSUME n = d, a \in Nothings PROVE Same(low, <<c, 1>>)
  <2>1. m = 0
    BY <1>1, <1>9 DEF Nothings
  <2>2. low = <<(c * d) * e, d * e>>
    BY <1>4, <1>5, <1>9, <2>1
  <2>3. ((c * d) * e) * 1 = c * (d * e)
    OBVIOUS
  <2> QED
    BY <2>2, <2>3 DEF Same
<1>10. ASSUME n = d, b \in Nothings PROVE Same(high, <<c, 1>>)
  <2>1. k = 0
    BY <1>2, <1>10 DEF Nothings
  <2>2. high = <<(c * d) * f, d * f>>
    BY <1>4, <1>5, <1>10, <2>1
  <2>3. ((c * d) * f) * 1 = c * (d * f)
    OBVIOUS
  <2> QED
    BY <2>2, <2>3 DEF Same
<1> QED
  BY <1>5, <1>6, <1>8, <1>9, <1>10

LEMMA BacktestMonths == \A v, horizon : DOMAIN Method!backtest(v, horizon) = 1..horizon
<1> SUFFICES ASSUME NEW v, NEW horizon PROVE DOMAIN Method!backtest(v, horizon) = 1..horizon
  OBVIOUS
<1>1. \A body : DOMAIN [step \in 1..horizon |-> body[step]] = 1..horizon
  OBVIOUS
<1> QED
  BY DEF Method!backtest

\* A month of a forecast that was not refused.
LEMMA MonthIsSound ==
  ASSUME counts \in Seq(Nat), NEW horizon \in 1..YEAR, Len(counts) >= Method!months_needed(horizon),
         NEW step \in 1..horizon,
         NEW range, range = Method!Ranges(Method!backtest(counts, horizon))[step],
         range[3] # Method!Limitless,
         NEW point, point = Method!Point(Method!seasonal_forecast(counts, horizon)[step], range)
  PROVE  IsSound(point, <<counts[Len(counts) - YEAR + step], 1>>)
<1>1. YEAR \in Nat \ {0} /\ MIN_TESTS \in Nat \ {0} /\ Len(counts) \in Nat /\ Method!MIN_MONTHS = 2 * YEAR
  BY YearIsPositive, LenProperties
<1>2. Len(counts) >= 2 * YEAR
  BY <1>1 DEF Method!months_needed
<1>3. PICK n \in Nat \ {0}, d \in Nat \ {0} :
        /\ RepeatsIn(counts) => n = d
        /\ \A s \in 1..horizon :
             /\ counts[Len(counts) - YEAR + s] \in Nat
             /\ Method!seasonal_forecast(counts, horizon)[s] = <<counts[Len(counts) - YEAR + s] * n, d>>
  BY <1>2, ForecastIs
<1>4. PICK c \in Nat : c = counts[Len(counts) - YEAR + step]
  BY <1>3
<1>5. Method!seasonal_forecast(counts, horizon)[step] = <<c * n, d>>
  BY <1>3, <1>4
<1>6. PICK tests : tests = Method!backtest(counts, horizon)[step]
  OBVIOUS
<1>7. tests \in Seq(Misses) /\ Len(tests) > 0 /\ (RepeatsIn(counts) => tests \in Seq(Nothings))
  BY <1>6, TestsAre
<1>8. PICK p, q, r : /\ p = Method!percentile(tests, 1) /\ q = Method!percentile(tests, 5)
                     /\ r = Method!percentile(tests, 9)
  OBVIOUS
<1>9. range = <<p, q, r>>
  BY <1>6, <1>8, BacktestMonths DEF Method!Ranges
<1>10. range[1] = p /\ range[2] = q /\ range[3] = r
  BY <1>9
<1>11. p \in Misses /\ q \in Misses /\ r \in Misses /\ AtMost(p, q) /\ AtMost(q, r)
  BY <1>7, <1>8, PercentilesAreMisses, PercentilesRise
<1>12. q # Method!Limitless /\ r # Method!Limitless
  BY <1>10, <1>11, WithinALimit
<1>13. RepeatsIn(counts) => p \in Nothings /\ q \in Nothings /\ r \in Nothings
  BY <1>7, <1>8, PercentilesOfNothing
<1>14. PICK low, value, high : /\ low = Method!Times(<<c * n, d>>, Method!OneMore(p))
                               /\ value = Method!Times(<<c * n, d>>, Method!OneMore(q))
                               /\ high = Method!Times(<<c * n, d>>, Method!OneMore(r))
  OBVIOUS
<1>15. point.low = low /\ point.value = value /\ point.high = high
  <2>1. point = [low |-> low, value |-> value, high |-> high]
    BY <1>5, <1>10, <1>14, Zenon DEF Method!Point
  <2> QED
    BY <2>1
<1>16. /\ low[2] \in Nat \ {0} /\ ~Method!Below(value, low)
       /\ n = d /\ p \in Nothings => Same(low, <<c, 1>>)
       /\ n = d /\ q \in Nothings => Same(value, <<c, 1>>)
  BY <1>11, <1>12, <1>14, PointIs
<1>17. /\ high[2] \in Nat \ {0} /\ ~Method!Below(high, value)
       /\ n = d /\ r \in Nothings => Same(high, <<c, 1>>)
  BY <1>11, <1>12, <1>14, PointIs
<1>18. Repeats => RepeatsIn(counts)
  BY DEF Repeats, RepeatsIn
<1>19. low[2] > 0 /\ high[2] > 0
  BY <1>16, <1>17
<1>20. Repeats => Same(low, <<c, 1>>) /\ Same(value, <<c, 1>>) /\ Same(high, <<c, 1>>)
  BY <1>3, <1>13, <1>16, <1>17, <1>18
<1> QED
  BY <1>4, <1>15, <1>16, <1>17, <1>19, <1>20 DEF IsSound

LEMMA ForecastIsSound ==
  ASSUME counts \in Seq(Nat), NEW horizon \in Horizons
  PROVE  AreSound(SeriesIsForecast(horizon).points, Method!backtest(counts, horizon))
<1>1. horizon \in 1..YEAR
  BY PartsAssumption
<1>2. PICK told : told = SeriesIsForecast(horizon)
  OBVIOUS
<1>3. \A reason : DOMAIN Method!Refused(reason).points = {}
  BY DEF Method!Refused
<1>4. CASE \E reason : told = Method!Refused(reason)
  BY <1>2, <1>3, <1>4 DEF AreSound
<1>5. CASE ~\E reason : told = Method!Refused(reason)
  <2>1. PICK f, misses, typical, ranges :
          /\ f = Method!seasonal_forecast(counts, horizon) /\ misses = Method!backtest(counts, horizon)
          /\ typical = Method!percentile(Method!Sizes(misses), 5) /\ ranges = Method!Ranges(misses)
    OBVIOUS
  <2>2. ~(Len(counts) < Method!months_needed(horizon)) /\ told = Method!Judged(f, typical, ranges)
    BY <1>2, <1>5, <2>1, Zenon DEF SeriesIsForecast, Method!forecast_series, Method!JudgedByMisses
  <2>3. /\ ~\E step \in DOMAIN ranges : ranges[step][3] = Method!Limitless
        /\ told = [refusal |-> "none",
                      points |-> [step \in DOMAIN ranges |-> Method!Point(f[step], ranges[step])]]
    BY <1>5, <2>2, Zenon DEF Method!Judged
  <2>4. DOMAIN ranges = 1..horizon
    BY <2>1, BacktestMonths DEF Method!Ranges
  <2>5. PICK points : points = [step \in DOMAIN ranges |-> Method!Point(f[step], ranges[step])]
    OBVIOUS
  <2>6. told.points = points
    BY <2>3, <2>5
  <2>7. Len(counts) >= Method!months_needed(horizon)
    <3>1. Len(counts) \in Int /\ Method!months_needed(horizon) \in Int
      BY <1>1, YearIsPositive, LenProperties DEF Method!months_needed
    <3> QED
      BY <2>2, <3>1
  <2>8. ASSUME NEW step \in 1..horizon
        PROVE  /\ Len(misses[step]) >= MIN_TESTS
               /\ IsSound(points[step], <<counts[Len(counts) - YEAR + step], 1>>)
    <3>1. points[step] = Method!Point(f[step], ranges[step]) /\ ranges[step][3] # Method!Limitless
      BY <2>3, <2>4, <2>5
    <3>2. IsSound(points[step], <<counts[Len(counts) - YEAR + step], 1>>)
      BY <1>1, <2>1, <2>7, <3>1, MonthIsSound
    <3>3. Len(misses[step]) >= MIN_TESTS
      BY <1>1, <2>1, <2>7, TestsAre
    <3> QED
      BY <3>2, <3>3
  <2>9. DOMAIN points = 1..horizon
    BY <2>4, <2>5
  <2> QED
    BY <1>2, <2>1, <2>6, <2>8, <2>9 DEF AreSound
<1> QED
  BY <1>4, <1>5

LEMMA SeriesInvariance == PartsSpec => [](counts \in Seq(Nat))
<1> DEFINE all == <<vars, part, memoryVars, callVars, counts, simVars>>
<1>1. PartsInit => counts \in Seq(Nat)
  <2>1. <<>> \in Seq(Nat)
    BY EmptySeq
  <2> QED
    BY <2>1 DEF PartsInit
<1>2. counts \in Seq(Nat) /\ [PartsNext]_all => (counts \in Seq(Nat))'
  <2> SUFFICES ASSUME counts \in Seq(Nat), [PartsNext]_all PROVE counts' \in Seq(Nat)
    OBVIOUS
  <2>1. CASE MonthEnds
    <3>1. PICK n \in 0..MaxCount : counts' = Append(counts, n)
      BY <2>1 DEF MonthEnds
    <3>2. n \in Nat
      OBVIOUS
    <3> QED
      BY <3>1, <3>2, AppendProperties
  <2>2. MonthEnds \/ counts' = counts
    BY Zenon DEF PartsNext
  <2> QED
    BY <2>1, <2>2
<1> QED
  BY <1>1, <1>2, PTL DEF PartsSpec

\* Whatever the past months counted, a forecast that is given was tested often
\* enough on the past, its range is finite and holds the value, and a year that
\* repeats itself is forecast as it was (forecast.forecast_series).
THEOREM ForecastsHold == PartsSpec => []ForecastsAreSound
<1>1. counts \in Seq(Nat) => ForecastsAreSound
  BY ForecastIsSound DEF ForecastsAreSound
<1> QED
  BY <1>1, SeriesInvariance, PTL
=============================================================================
