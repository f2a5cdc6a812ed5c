----------------------------- MODULE ModelCall -----------------------------
(***************************************************************************)
(* app/copilot/openrouter.py: one call of the model service.  The turn     *)
(* gives it a time; within it the service is asked once, and once more     *)
(* when it was busy (429 or 5xx) and the wait it asks for leaves time.     *)
(* What a reply says, and how requests are written, is left out.           *)
(* Definitions that are not used are mutants.                              *)
(***************************************************************************)
EXTENDS Integers, Sequences

CONSTANTS
  None,
  Timeouts,  \* bound: the times a turn gives a call, in seconds
  Headers,   \* bound: what Retry-After says, in seconds from now; None says nothing
  MaxTime    \* bound: readings of the clock

VARIABLES
  now,       \* time.monotonic
  at,        \* where the call is
  deadline,
  wait,      \* the wait it sleeps for; None when the answer is not worth a second try
  asked,     \* when the service was asked, and
  busy,      \* when it answered that it was busy; both for the property
  outcome    \* what complete returns or raises
callVars == <<at, deadline, wait, asked, busy, outcome>>

Statuses == {"ok", "busy", "unavailable", "other"}
DEFAULT_RETRY_WAIT_SECONDS == 1
MIN_CALL_SECONDS == 1

Init ==
  /\ now = 0
  /\ at = "idle" /\ deadline = 0 /\ wait = None
  /\ asked = <<>> /\ busy = <<>> /\ outcome = "none"

Ends(result) == at' = "ended" /\ outcome' = result

\* Called again for the second try; out of time, it does not ask.
Post ==
  IF now < deadline
  THEN at' = "posted" /\ asked' = Append(asked, now) /\ UNCHANGED outcome
  ELSE Ends("timeout") /\ UNCHANGED asked

Complete(timeout) ==
  /\ at = "idle"
  /\ at' = "posting" /\ deadline' = now + timeout
  /\ UNCHANGED <<wait, asked, busy, outcome>>

FirstPost ==
  /\ at = "posting"
  /\ Post
  /\ UNCHANGED <<deadline, wait, busy>>

\* A date in the past and a negative number are no wait.
RetryWait(status, header) ==
  IF status # "busy" THEN None
  ELSE IF header = None THEN DEFAULT_RETRY_WAIT_SECONDS
  ELSE IF header < 0 THEN 0 ELSE header

LeavesSomeTime(seconds) == now + seconds < deadline
LeavesTime(seconds) == now + seconds + MIN_CALL_SECONDS < deadline

\* _reply for 200, which may still hold no reply, and _error_for.
Results(status) ==
  CASE status = "ok" -> {"reply", "error"}
    [] status = "unavailable" -> {"unavailable"}
    [] OTHER -> {"error"}

Answers(status, header) ==
  LET seconds == RetryWait(status, header)
  IN /\ at = "posted"
     /\ busy' = IF status = "busy" THEN Append(busy, now) ELSE busy
     /\ IF Len(asked) = 1 /\ seconds # None /\ LeavesTime(seconds)
        THEN at' = "sleeping" /\ wait' = now + seconds /\ UNCHANGED outcome
        ELSE (\E result \in Results(status) : Ends(result)) /\ UNCHANGED wait
     /\ UNCHANGED <<deadline, asked>>

SecondPost ==
  /\ at = "sleeping"
  /\ now >= wait
  /\ Post
  /\ UNCHANGED <<deadline, wait, busy>>

\* The network fails.
PostFails ==
  /\ at = "posted"
  /\ Ends("error")
  /\ UNCHANGED <<deadline, wait, asked, busy>>
PostTimesOut ==
  /\ at = "posted"
  /\ now >= deadline
  /\ Ends("timeout")
  /\ UNCHANGED <<deadline, wait, asked, busy>>

\* The turn's own deadline, or its client leaving, at either await.
Cancelled ==
  /\ at \in {"posted", "sleeping"}
  /\ Ends("cancelled")
  /\ UNCHANGED <<deadline, wait, asked, busy>>

\* Timers are kept, but the loop may come back from a sleep a reading late.
Tick ==
  /\ now < MaxTime
  /\ at = "posted" => now < deadline
  /\ at = "sleeping" => now <= wait
  /\ now' = now + 1
  /\ UNCHANGED callVars

Step ==
  \/ \E timeout \in Timeouts : Complete(timeout)
  \/ FirstPost \/ SecondPost
  \/ \E status \in Statuses, header \in Headers : Answers(status, header)
  \/ PostFails \/ PostTimesOut \/ Cancelled

Next == Tick \/ (Step /\ UNCHANGED now)

\* "A 429 or 5xx answer gets one more try after the wait its Retry-After header
\* asks for, when that wait still leaves time for the call" (openrouter.py:5):
\* the service is asked at most twice and never past the deadline, the second
\* time only after it was busy; and no call sleeps for nothing: one that slept
\* does ask again, though the loop comes back late.
CallsFitTheirDeadline ==
  /\ Len(asked) <= 2
  /\ \A i \in DOMAIN asked : asked[i] < deadline
  /\ at \in {"posted", "sleeping"} => now <= deadline
  /\ Len(asked) = 2 => busy # <<>>
  /\ wait # None /\ outcome = "timeout" => Len(asked) = 2
============================================================================
