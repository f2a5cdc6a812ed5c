---------------------------- MODULE CopilotTurn ----------------------------
(***************************************************************************)
(* app/copilot/chat.py and app/copilot/engine.py: turns of one Copilot     *)
(* conversation, each a task with its own database session and its own     *)
(* stream of events.  CopilotChat composes a turn with the stream.         *)
(*                                                                         *)
(* A turn stores the user's message, asks the model, runs the lookups it   *)
(* asks for round by round, checks the reply and stores what it has.  Each *)
(* action is what runs between two awaits; at an await the deadline may    *)
(* strike, the client may leave, the database or the model may fail, and   *)
(* another turn of the conversation may run.  Rows take their ids from the *)
(* table's identity sequence one by one, in a turn's order, and are seen   *)
(* by others at the commit.  What a message says is left out, but whether  *)
(* a reply has numbers that nothing supports.                              *)
(* Definitions that are not used are mutants.                              *)
(***************************************************************************)
EXTENDS Naturals, Sequences, FiniteSets

CONSTANTS
  Turns,        \* turns of the conversation
  MaxRounds,    \* copilot_max_tool_rounds
  MaxLookups,   \* bound: lookups that one reply asks for
  MaxPrepared   \* bound: proposals that one turn prepares

ASSUME BoundsAssumption ==
  MaxRounds \in Nat /\ MaxLookups \in Nat \ {0} /\ MaxPrepared \in Nat
ASSUME TurnsAssumption == Turns # {}

VARIABLES
  turn,     \* [Turns -> where it is and what it has]
  events,   \* [Turns -> the events it has put in its stream]
  rows,     \* table copilot_messages: the conversation's committed rows
  pending,  \* [Turns -> rows inserted in its open transaction]
  nextId,   \* the identity sequence
  prepared  \* [Turns -> the proposals it has stored]

tables == <<rows, pending, nextId>>
vars == <<turn, events, tables, prepared>>

Roles == {"user", "request", "result", "reply"}
Message == [role: Roles, round: Nat, lookups: Nat, text: {"plain", "checked", "unsupported", "none"}]
Row == [id: Nat, turn: Turns, message: Message]
Stages == {"idle", "user", "opened", "calling", "lookups", "prepared", "round",
           "ended", "storing", "stored", "closed"}
Events == {"conversation", "status", "result", "card", "message", "error", "done"}
Turn == [at: Stages, rounds: Nat, calls: Nat, nudged: BOOLEAN, retrying: BOOLEAN,
         asked: Nat, ran: Nat, messages: Seq(Message), error: {"none", "timeout", "model", "limited"}]

TypeOK ==
  /\ turn \in [Turns -> Turn]
  /\ \A t \in Turns : turn[t].ran <= turn[t].asked /\ turn[t].rounds <= MaxRounds
  /\ \A t \in Turns : turn[t].calls <= MaxRounds + 3
  /\ events \in [Turns -> Seq(Events)]
  /\ rows \subseteq Row
  /\ pending \in [Turns -> SUBSET Row]
  /\ \A t \in Turns : pending[t] # {} => turn[t].at \in {"user", "storing"}
  /\ prepared \in [Turns -> 0..MaxPrepared]

NewTurn == [at |-> "idle", rounds |-> 0, calls |-> 0, nudged |-> FALSE, retrying |-> FALSE,
            asked |-> 0, ran |-> 0, messages |-> <<>>, error |-> "none"]

Init ==
  /\ turn = [t \in Turns |-> NewTurn]
  /\ events = [t \in Turns |-> <<>>]
  /\ rows = {}
  /\ pending = [t \in Turns |-> {}]
  /\ nextId = 1
  /\ prepared = [t \in Turns |-> 0]

---------------------------------------------------------------------------
(* Helpers *)

At(t, stage) == turn[t].at = stage
Becomes(t, next) == turn' = [turn EXCEPT ![t] = next]
Goes(t, stage) == Becomes(t, [turn[t] EXCEPT !.at = stage])
Emit(t, kinds) == events' = [events EXCEPT ![t] = @ \o kinds]

User == [role |-> "user", round |-> 0, lookups |-> 0, text |-> "none"]
Request(n, lookups) == [role |-> "request", round |-> n, lookups |-> lookups, text |-> "none"]
Result(n) == [role |-> "result", round |-> n, lookups |-> 0, text |-> "none"]
Reply(text) == [role |-> "reply", round |-> 0, lookups |-> 0, text |-> text]

Insert(t, message) ==
  /\ pending' = [pending EXCEPT ![t] = @ \cup {[id |-> nextId, turn |-> t, message |-> message]}]
  /\ nextId' = nextId + 1
  /\ UNCHANGED rows

Commit(t) ==
  /\ rows' = rows \cup pending[t]
  /\ pending' = [pending EXCEPT ![t] = {}]
  /\ UNCHANGED nextId

Rollback(t) ==
  /\ pending' = [pending EXCEPT ![t] = {}]
  /\ UNCHANGED <<rows, nextId>>

---------------------------------------------------------------------------
(* Before the model *)

\* The limiter (RateLimiter) refuses the message.
Limited(t) ==
  /\ At(t, "idle")
  /\ Becomes(t, [turn[t] EXCEPT !.at = "closed", !.error = "limited"])
  /\ Emit(t, <<"error", "done">>)
  /\ UNCHANGED <<tables, prepared>>

\* The history is read and the user's message inserted.
AddUser(t) ==
  /\ At(t, "idle")
  /\ Goes(t, "user")
  /\ Insert(t, User)
  /\ UNCHANGED <<events, prepared>>

CommitUser(t) ==
  /\ At(t, "user")
  /\ Goes(t, "opened")
  /\ Commit(t)
  /\ UNCHANGED <<events, prepared>>

Open(t) ==
  /\ At(t, "opened")
  /\ Goes(t, "calling")
  /\ Emit(t, <<"conversation">>)
  /\ UNCHANGED <<tables, prepared>>

---------------------------------------------------------------------------
(* The model's answers *)

Called(t) == [turn[t] EXCEPT !.calls = @ + 1]

\* The turn as it is when it ends with this reply.
Finished(t, text) ==
  [Called(t) EXCEPT !.at = "ended", !.messages = Append(@, Reply(text))]

\* The plain reply of the lookups' results.
FallsBack(t) == Becomes(t, Finished(t, "plain"))

Answered(t) == At(t, "calling") /\ UNCHANGED <<events, tables, prepared>>

AsksForLookupsWithoutLimit(t) ==
  /\ Answered(t)
  /\ ~turn[t].retrying
  /\ \E n \in 1..MaxLookups :
       Becomes(t, [Called(t) EXCEPT !.at = "lookups", !.rounds = @ + 1, !.asked = n, !.ran = 0])

AsksForLookups(t) ==
  /\ Answered(t)
  /\ ~turn[t].retrying
  /\ turn[t].rounds < MaxRounds
  /\ \E n \in 1..MaxLookups :
       Becomes(t, [Called(t) EXCEPT !.at = "lookups", !.rounds = @ + 1, !.asked = n, !.ran = 0])

\* At the round limit, and when the retry asks for lookups.
AsksForMore(t) ==
  /\ Answered(t)
  /\ turn[t].retrying \/ turn[t].rounds = MaxRounds
  /\ FallsBack(t)

NudgesAgain(t) ==
  /\ Answered(t)
  /\ Becomes(t, Called(t))

\* One nudge for an empty reply; the retry gets none.
AnswersNothing(t) ==
  /\ Answered(t)
  /\ IF turn[t].nudged \/ turn[t].retrying
     THEN FallsBack(t)
     ELSE Becomes(t, [Called(t) EXCEPT !.nudged = TRUE])

\* A reply that passes the number check, first or corrected.
AnswersInNumbersKnown(t) ==
  /\ Answered(t)
  /\ Becomes(t, Finished(t, "checked"))

TakesTheCorrection(t) ==
  /\ Answered(t)
  /\ Becomes(t, IF turn[t].retrying THEN Finished(t, "unsupported")
                ELSE [Called(t) EXCEPT !.retrying = TRUE])

\* One retry for a reply that fails the number check.
AnswersInOtherNumbers(t) ==
  /\ Answered(t)
  /\ IF turn[t].retrying
     THEN FallsBack(t)
     ELSE Becomes(t, [Called(t) EXCEPT !.retrying = TRUE])

ModelAnswers(t) ==
  \/ AsksForLookups(t)
  \/ AsksForMore(t)
  \/ AnswersNothing(t)
  \/ AnswersInNumbersKnown(t)
  \/ AnswersInOtherNumbers(t)

ModelFails(t) ==
  /\ At(t, "calling")
  /\ Becomes(t, [turn[t] EXCEPT !.at = "ended", !.error = "model"])
  /\ UNCHANGED <<events, tables, prepared>>

---------------------------------------------------------------------------
(* The lookups of a round *)

\* A lookup that only reads: it may be refused for its arguments, refused by
\* the service, or answer without a card or with one.
RunLookup(t) ==
  /\ At(t, "lookups")
  /\ turn[t].ran < turn[t].asked
  /\ Becomes(t, [turn[t] EXCEPT !.ran = @ + 1])
  /\ \E shown \in {<<>>, <<"status">>, <<"status", "result">>} : Emit(t, shown)
  /\ UNCHANGED <<tables, prepared>>

PrepareWithItsCard(t) ==
  /\ At(t, "lookups")
  /\ turn[t].ran < turn[t].asked
  /\ prepared[t] < MaxPrepared
  /\ Goes(t, "prepared")
  /\ Emit(t, <<"status", "card">>)
  /\ UNCHANGED <<tables, prepared>>

\* prepare_borrow or prepare_return commits the proposal it stores (Proposals).
Prepare(t) ==
  /\ At(t, "lookups")
  /\ turn[t].ran < turn[t].asked
  /\ prepared[t] < MaxPrepared
  /\ Goes(t, "prepared")
  /\ prepared' = [prepared EXCEPT ![t] = @ + 1]
  /\ Emit(t, <<"status">>)
  /\ UNCHANGED tables

\* Its result is shown as a card to confirm.
ShowCard(t) ==
  /\ At(t, "prepared")
  /\ Becomes(t, [turn[t] EXCEPT !.at = "lookups", !.ran = @ + 1])
  /\ Emit(t, <<"card">>)
  /\ UNCHANGED <<tables, prepared>>

\* The open round's request and the results it has.
Round(t) ==
  <<Request(turn[t].rounds, turn[t].asked)>> \o [i \in 1..turn[t].ran |-> Result(turn[t].rounds)]

EndRound(t) ==
  /\ At(t, "lookups")
  /\ turn[t].ran = turn[t].asked
  /\ Becomes(t, [turn[t] EXCEPT !.at = "round",
                                !.messages = @ \o Round(t)])
  /\ UNCHANGED <<events, tables, prepared>>

CommitRound(t) ==
  /\ At(t, "round")
  /\ Goes(t, "calling")
  /\ UNCHANGED <<events, tables, prepared>>

---------------------------------------------------------------------------
(* The end of a turn *)

InTime == {"calling", "lookups", "prepared", "round"}

DeadlineBetweenCalls(t) ==
  /\ turn[t].at \in InTime \ {"calling"}
  /\ Becomes(t, [turn[t] EXCEPT !.at = "ended", !.error = "timeout"])
  /\ UNCHANGED <<events, tables, prepared>>

KeepsTheOpenRound(t) ==
  /\ turn[t].at \in InTime
  /\ Becomes(t, [turn[t] EXCEPT !.at = "ended", !.error = "timeout",
                   !.messages = IF turn[t].at \in {"lookups", "prepared"}
                                THEN @ \o Round(t) ELSE @])
  /\ UNCHANGED <<events, tables, prepared>>

\* The deadline of the whole turn: a round that is not finished is left out.
Deadline(t) ==
  /\ turn[t].at \in InTime
  /\ Becomes(t, [turn[t] EXCEPT !.at = "ended", !.error = "timeout"])
  /\ UNCHANGED <<events, tables, prepared>>

\* The rest is inserted message by message, in one transaction.
StoreNext(t) ==
  /\ turn[t].at \in {"ended", "storing"}
  /\ Cardinality(pending[t]) < Len(turn[t].messages)
  /\ Goes(t, "storing")
  /\ Insert(t, turn[t].messages[Cardinality(pending[t]) + 1])
  /\ UNCHANGED <<events, prepared>>

CommitRest(t) ==
  /\ At(t, "storing")
  /\ Cardinality(pending[t]) = Len(turn[t].messages)
  /\ Goes(t, "stored")
  /\ Commit(t)
  /\ UNCHANGED <<events, prepared>>

TellBeforeItIsStored(t) ==
  /\ turn[t].at \in {"ended", "stored"}
  /\ Goes(t, "closed")
  /\ Emit(t, IF turn[t].error = "none" THEN <<"message", "done">> ELSE <<"error", "done">>)
  /\ UNCHANGED <<tables, prepared>>

Tell(t) ==
  /\ At(t, "stored") \/ (At(t, "ended") /\ turn[t].messages = <<>>)
  /\ Goes(t, "closed")
  /\ Emit(t, IF turn[t].error = "none" THEN <<"message", "done">> ELSE <<"error", "done">>)
  /\ UNCHANGED <<tables, prepared>>

Active(t) == turn[t].at \notin {"idle", "closed"}

\* The database fails where the turn uses it; at "opened" and "stored" its
\* answer to the commit is lost.
DatabaseFails(t) ==
  /\ Active(t)
  /\ turn[t].at # "calling"
  /\ Goes(t, "closed")
  /\ Emit(t, <<"error", "done">>)
  /\ Rollback(t)
  /\ UNCHANGED prepared

CancelWithoutDone(t) ==
  /\ Active(t)
  /\ Goes(t, "closed")
  /\ Rollback(t)
  /\ UNCHANGED <<events, prepared>>

\* The client left and EventStream cancels the turn.
Cancel(t) ==
  /\ Active(t)
  /\ Goes(t, "closed")
  /\ Emit(t, <<"done">>)
  /\ Rollback(t)
  /\ UNCHANGED prepared

\* What the turn itself does next.
OwnStep(t) ==
  \/ AddUser(t) \/ CommitUser(t) \/ Open(t)
  \/ RunLookup(t) \/ Prepare(t) \/ ShowCard(t) \/ EndRound(t) \/ CommitRound(t)
  \/ StoreNext(t) \/ CommitRest(t) \/ Tell(t)

\* A turn that nobody cancels.
Runs(t) ==
  \/ Limited(t) \/ OwnStep(t) \/ ModelAnswers(t)
  \/ ModelFails(t) \/ Deadline(t) \/ DatabaseFails(t)

\* Turns of one conversation at once, from several tabs.
Next == \E t \in Turns : Runs(t) \/ Cancel(t)

Spec == Init /\ [][Next]_vars

---------------------------------------------------------------------------
(* Properties *)

ResultsOf(t, n) == {row \in rows : row.turn = t /\ row.message.role = "result" /\ row.message.round = n}
Of(t, role) == {row \in rows : row.turn = t /\ row.message.role = role}

\* "A round cut short by an error is left out" (engine.py:62): what a turn has
\* stored, however it ended, begins with the user's message, has the results
\* of every request after it and before the next, and ends with at most one
\* reply.
StoredRoundsAreWhole ==
  \A t \in Turns : \A row \in rows : row.turn = t =>
    /\ row.message.role # "user" => \E first \in Of(t, "user") : first.id < row.id
    /\ row.message.role = "request" =>
         Cardinality(ResultsOf(t, row.message.round)) = row.message.lookups
    /\ row.message.role = "result" =>
         \E request \in Of(t, "request") :
           /\ request.message.round = row.message.round
           /\ request.id < row.id
           /\ \A other \in Of(t, "request") : ~(request.id < other.id /\ other.id < row.id)
    /\ row.message.role = "reply" =>
         /\ Of(t, "reply") = {row}
         /\ \A other \in rows : other.turn = t => other.id <= row.id

Told(t, kind) == \E i \in DOMAIN events[t] : events[t][i] = kind

\* A reply the client was shown is in the conversation, where the next turn
\* reads it; and "the reply must pass the number check" (engine.py:7): through
\* nudge, rounds and retry, none with numbers that nothing supports is stored.
ShownRepliesAreStored ==
  \A t \in Turns :
    /\ Told(t, "message") => Cardinality(Of(t, "reply")) = 1
    /\ \A reply \in Of(t, "reply") : reply.message.text # "unsupported"

\* A card is shown for a proposal that is stored, so that confirming it finds
\* one, whatever becomes of the turn.
CardsAreOfStoredProposals ==
  \A t \in Turns : Cardinality({i \in DOMAIN events[t] : events[t][i] = "card"}) <= prepared[t]

\* What the panel relies on (features/copilot/api.ts): the conversation is
\* named before anything of the turn, then at most one message or error comes,
\* and done is the last event of every turn that is over, cancelled or not.
EventsAreATurn ==
  \A t \in Turns : LET shown == events[t]  last == Len(shown) IN
    /\ At(t, "closed") <=> Told(t, "done")
    /\ \A i \in 1..last :
         /\ shown[i] = "done" => i = last
         /\ shown[i] \in {"message", "error"} => i = last - 1
         /\ shown[i] \in {"status", "result", "card", "message"} => shown[1] = "conversation"
         /\ shown[i] = "conversation" => i = 1
============================================================================
