---------------------------- MODULE RateLimiter ----------------------------
(***************************************************************************)
(* app/copilot/rate_limit.py: how many Copilot messages a user may send in *)
(* a sliding minute.  One limiter serves every turn of the process; allow  *)
(* has no await, so a call of it is one step.                              *)
(*                                                                         *)
(* allowed and answer are records of what the limiter did, kept for the    *)
(* properties.  Definitions that are not used are mutants.                 *)
(***************************************************************************)
EXTENDS Integers, Sequences, FiniteSets

CONSTANTS
  Users,
  Limit,    \* copilot_rate_per_minute
  Window,   \* WINDOW_SECONDS, in readings of the clock
  MaxTime   \* bound: readings of the clock

ASSUME LimitAssumption == Limit \in Nat \ {0}
ASSUME WindowAssumption == Window \in Nat \ {0}
ASSUME MaxTimeAssumption == MaxTime \in Nat

VARIABLES
  now,      \* time.monotonic
  hits,     \* [Users -> the times of the messages still counted]
  allowed,  \* [Users -> the times of all messages let through]
  answer    \* [Users -> the last answer of allow, and when]

vars == <<now, hits, allowed, answer>>

\* A user's hits never take more room than the limit.
TypeOK ==
  /\ now \in Nat
  /\ hits \in [Users -> Seq(Nat)]
  /\ \A u \in Users : Len(hits[u]) <= Limit
  /\ allowed \in [Users -> Seq(Nat)]
  /\ answer \in [Users -> [ok: BOOLEAN, at: Nat]]

Init ==
  /\ now = 0
  /\ hits = [u \in Users |-> <<>>]
  /\ allowed = [u \in Users |-> <<>>]
  /\ answer = [u \in Users |-> [ok |-> TRUE, at |-> 0]]

OverAMinuteOld(t) == t < now - Window
Old(t) == t <= now - Window

\* The loop drops the first n hits and stops.
Drops(u, n) ==
  /\ n \in 0..Len(hits[u])
  /\ \A i \in 1..n : Old(hits[u][i])
  /\ n < Len(hits[u]) => ~Old(hits[u][n + 1])

After(u, n) == SubSeq(hits[u], n + 1, Len(hits[u]))

OverFull(s) == Len(s) > Limit
Full(s) == Len(s) >= Limit

Accept(u) ==
  \E n \in 0..Len(hits[u]) :
    /\ Drops(u, n)
    /\ ~Full(After(u, n))
    /\ hits' = [hits EXCEPT ![u] = Append(After(u, n), now)]
    /\ allowed' = [allowed EXCEPT ![u] = Append(@, now)]
    /\ answer' = [answer EXCEPT ![u] = [ok |-> TRUE, at |-> now]]
    /\ UNCHANGED now

Refuse(u) ==
  \E n \in 0..Len(hits[u]) :
    /\ Drops(u, n)
    /\ Full(After(u, n))
    /\ hits' = [hits EXCEPT ![u] = After(u, n)]
    /\ answer' = [answer EXCEPT ![u] = [ok |-> FALSE, at |-> now]]
    /\ UNCHANGED <<allowed, now>>

Tick ==
  /\ now < MaxTime
  /\ now' = now + 1
  /\ UNCHANGED <<hits, allowed, answer>>

Next == Tick \/ \E u \in Users : Accept(u) \/ Refuse(u)

Spec == Init /\ [][Next]_vars

\* "at most a number per sliding minute" (rate_limit.py:1): wherever a minute
\* is laid, it holds at most Limit of a user's messages: the message that is
\* Limit places after another was let through a whole minute after it.
NoMinuteHoldsMore ==
  \A u \in Users : \A i, j \in DOMAIN allowed[u] :
    j - i >= Limit => allowed[u][j] - allowed[u][i] >= Window

\* "unless it has reached the limit in the last minute" (rate_limit.py:26): a
\* refused message had Limit messages let through less than a minute before.
RefusedOnlyAtTheLimit ==
  \A u \in Users : ~answer[u].ok =>
    \E k \in DOMAIN allowed[u] :
      /\ Len(allowed[u]) - k + 1 = Limit
      /\ \A i \in k..Len(allowed[u]) : allowed[u][i] > answer[u].at - Window

(***************************************************************************)
(* Why they hold: the hits are the end of the messages let through, and    *)
(* what was dropped is a minute old.                                       *)
(***************************************************************************)
Dropped(u) == Len(allowed[u]) - Len(hits[u])

HitsAreTheLatest ==
  \A u \in Users :
    /\ Dropped(u) >= 0
    /\ \A i \in 1..Len(hits[u]) : hits[u][i] = allowed[u][Dropped(u) + i]

DroppedAreOld ==
  \A u \in Users : \A i \in 1..Dropped(u) : Old(allowed[u][i])

InOrder ==
  \A u \in Users : \A i \in DOMAIN allowed[u] :
    /\ allowed[u][i] <= now
    /\ \A j \in DOMAIN allowed[u] : i <= j => allowed[u][i] <= allowed[u][j]

\* The inductive invariant: the hits are the latest messages let through, the
\* ones dropped are old, and times never run backwards.
IInv == HitsAreTheLatest /\ DroppedAreOld /\ InOrder /\ NoMinuteHoldsMore /\ RefusedOnlyAtTheLimit
============================================================================
