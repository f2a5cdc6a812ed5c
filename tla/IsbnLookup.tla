----------------------------- MODULE IsbnLookup -----------------------------
(***************************************************************************)
(* app/services/isbn_lookup.py: finding a book by its ISBN in a public     *)
(* catalog, with a bounded memory of the answers.                          *)
(*                                                                         *)
(* find reads the clock and the memory, awaits the catalog when it must,   *)
(* and only then remembers the answer under the time it had read: other    *)
(* lookups run during the await.  An answer, "no such book" included, is   *)
(* known here by when the catalog gave it (read); what it says is left     *)
(* out.  Definitions that are not used are mutants.                        *)
(***************************************************************************)
EXTENDS Integers, Sequences, SequencesExt

CONSTANTS
  Requests,     \* lookups served at once
  Isbns,
  MaxCached,    \* MAX_CACHED
  CacheSeconds, \* CACHE_SECONDS, in readings of the clock
  Timeout,      \* TIMEOUT_SECONDS, likewise
  MaxTime       \* bound: readings of the clock

VARIABLES
  now,     \* time.monotonic
  cache,   \* _cache: the entries in the order of their insertion
  lookup,  \* [Requests -> the find that awaits the catalog]
  answer   \* [Requests -> the last answer, for the properties]

vars == <<now, cache, lookup, answer>>

Unread == -1
Entry == [isbn: Isbns, asked: Nat, read: Nat]
Idle == [waits |-> FALSE, asked |-> 0, read |-> Unread]
Find == [waits: {TRUE}, isbn: Isbns, asked: Nat, read: Nat \cup {Unread}] \cup {Idle}
Nothing == [at |-> 0, read |-> 0]

TypeOK ==
  /\ now \in Nat
  /\ cache \in Seq(Entry)
  /\ lookup \in [Requests -> Find]
  /\ answer \in [Requests -> [at: Nat, read: Nat]]

Init ==
  /\ now = 0
  /\ cache = <<>>
  /\ lookup = [r \in Requests |-> Idle]
  /\ answer = [r \in Requests |-> Nothing]

Fresh(entry) == now - entry.asked < CacheSeconds

Place(isbn) == CHOOSE i \in DOMAIN cache : cache[i].isbn = isbn
Others(isbn) ==
  IF \E i \in DOMAIN cache : cache[i].isbn = isbn THEN RemoveAt(cache, Place(isbn)) ELSE cache

\* The while loop: room for one more.
Newest(entries) ==
  LET over == Len(entries) - MaxCached + 1
  IN  SubSeq(entries, IF over > 0 THEN over + 1 ELSE 1, Len(entries))

Filed(l) == [isbn |-> l.isbn, asked |-> l.asked, read |-> l.read]

RememberedAsOfNow(l) == Append(Newest(Others(l.isbn)), [Filed(l) EXCEPT !.asked = now])
RememberedInPlace(l) ==
  IF Len(Others(l.isbn)) = Len(cache)
  THEN Append(Newest(cache), Filed(l))
  ELSE [i \in DOMAIN cache |-> IF cache[i].isbn = l.isbn THEN Filed(l) ELSE cache[i]]
Remembered(l) == Append(Newest(Others(l.isbn)), Filed(l))

FindCached(r, isbn) ==
  /\ ~lookup[r].waits
  /\ \E i \in DOMAIN cache :
       /\ cache[i].isbn = isbn
       /\ Fresh(cache[i])
       /\ answer' = [answer EXCEPT ![r] = [at |-> now, read |-> cache[i].read]]
  /\ UNCHANGED <<now, cache, lookup>>

FindAsks(r, isbn) ==
  /\ ~lookup[r].waits
  /\ ~\E i \in DOMAIN cache : cache[i].isbn = isbn /\ Fresh(cache[i])
  /\ lookup' = [lookup EXCEPT ![r] = [waits |-> TRUE, isbn |-> isbn, asked |-> now, read |-> Unread]]
  /\ UNCHANGED <<now, cache, answer>>

\* The catalog looks the book up: the answer is as of now, wherever it still
\* has to travel.
CatalogReads(r) ==
  /\ lookup[r].waits
  /\ lookup[r].read = Unread
  /\ lookup' = [lookup EXCEPT ![r].read = now]
  /\ UNCHANGED <<now, cache, answer>>

FindRemembers(r) ==
  /\ lookup[r].waits
  /\ lookup[r].read # Unread
  /\ cache' = Remembered(lookup[r])
  /\ answer' = [answer EXCEPT ![r] = [at |-> now, read |-> lookup[r].read]]
  /\ lookup' = [lookup EXCEPT ![r] = Idle]
  /\ UNCHANGED now

\* A timeout, a network error or an answer that cannot be used.
Unavailable(r) ==
  /\ lookup[r].waits
  /\ lookup' = [lookup EXCEPT ![r] = Idle]
  /\ UNCHANGED <<now, cache, answer>>

\* The deadline of a call is kept: time does not go on over it.
Tick ==
  /\ now < MaxTime
  /\ \A r \in Requests : lookup[r].waits => now < lookup[r].asked + Timeout
  /\ now' = now + 1
  /\ UNCHANGED <<cache, lookup, answer>>

\* The memory is the process's own.
Restart ==
  /\ cache' = <<>>
  /\ lookup' = [r \in Requests |-> Idle]
  /\ UNCHANGED <<now, answer>>

Step(r) ==
  \/ \E isbn \in Isbns : FindCached(r, isbn) \/ FindAsks(r, isbn)
  \/ CatalogReads(r)
  \/ FindRemembers(r)
  \/ Unavailable(r)

Next == Tick \/ Restart \/ \E r \in Requests : Step(r)

Spec == Init /\ [][Next]_vars

\* "Answers [...] are kept in memory for a day" (isbn_lookup.py:7): whatever
\* lookups overlap, nobody is told what the catalog said a day ago or earlier.
NoAnswerIsADayOld ==
  \A r \in Requests : answer[r].at - answer[r].read < CacheSeconds

\* "up to a fixed number of ISBNs" (isbn_lookup.py:8): an answer only leaves
\* the memory for a newer one of its ISBN, or when the memory is full; it is
\* then one of the oldest: what stays was asked at most a call's deadline
\* earlier.
OnlyTheOldestMakeRoom ==
  [][\A i \in DOMAIN cache :
       (cache' # <<>> /\ \A j \in DOMAIN cache' : cache'[j].isbn # cache[i].isbn) =>
         /\ Len(cache') = MaxCached
         /\ \A j \in DOMAIN cache' : cache[i].asked <= cache'[j].asked + Timeout]_cache
=============================================================================
