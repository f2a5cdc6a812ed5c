---------------------------- MODULE CopilotChat ----------------------------
(***************************************************************************)
(* app/api/routers/copilot.py, chat: one message of one user, a turn       *)
(* (CopilotTurn) as the producer of the response's stream (EventStream).   *)
(* Only the stream cancels the turn, when the client has left.             *)
(***************************************************************************)
EXTENDS CopilotTurn

CONSTANT MaxKeepalives  \* bound: comment lines

ASSUME KeepalivesAssumption == MaxKeepalives \in Nat

VARIABLES producer, response, queue, sent, keepalives

Stream == INSTANCE EventStream

chat == <<vars, Stream!stream>>

TheTurn == CHOOSE t \in Turns : TRUE
OneTurnAssumption == Turns = {TheTurn}

\* The types, and the bounds: the nudge and the retry come once and the rounds
\* are limited, so a turn asks the model a bounded number of times.
ChatTypeOK == TypeOK /\ Stream!TypeOK

ChatInit == Init /\ Stream!Init

\* The events of a step of the turn go on the queue, and the sentinel after
\* the last of them.
Puts ==
  LET old == Len(events[TheTurn])  new == Len(events'[TheTurn])
      put == [i \in 1..new - old |-> old + i]
      over == At(TheTurn, "closed")'
  IN  /\ queue' = queue \o put \o IF over THEN <<Stream!End>> ELSE <<>>
      /\ producer' = IF over THEN "ended" ELSE producer
      /\ UNCHANGED <<response, sent, keepalives>>

\* A cancelled task does nothing more before it is told: what its last wait was
\* for, a commit of the database included, has happened by then or never does.
TurnStep ==
  /\ producer = "running"
  /\ Runs(TheTurn)
  /\ Puts

\* A task that is cancelled before its first step never runs.
CancelledUnstarted ==
  /\ producer = "cancelled"
  /\ At(TheTurn, "idle")
  /\ producer' = "ended"
  /\ UNCHANGED <<vars, response, queue, sent, keepalives>>

Cancelled ==
  /\ producer = "cancelled"
  /\ Cancel(TheTurn)
  /\ Puts

ChatNext ==
  \/ TurnStep
  \/ Cancelled
  \/ CancelledUnstarted
  \/ Stream!Respond /\ UNCHANGED vars

\* The event loop starts the task, runs what can go on and the deadline's timer,
\* and delivers a cancellation; the database answers; the model need not.
ChatFairness ==
  /\ WF_chat(producer = "running" /\ OwnStep(TheTurn) /\ Puts)
  /\ WF_chat(producer = "running" /\ Deadline(TheTurn) /\ Puts)
  /\ WF_chat(Cancelled \/ CancelledUnstarted)
  /\ WF_chat(Stream!Write /\ UNCHANGED vars)
  /\ WF_chat(Stream!Finish /\ UNCHANGED vars)
  /\ WF_chat(Stream!Close /\ UNCHANGED vars)

ChatSpec == ChatInit /\ [][ChatNext]_chat /\ ChatFairness

\* The client gets the turn's events in their order, each once and none left
\* out, whatever the keep-alive timer does, and all of them by the end of a
\* response it did not leave; and they are a turn as the panel reads it.
EventsComeInOrder == EventsAreATurn /\ Stream!EventsComeInOrder(Len(events[TheTurn]))

\* "When the client goes away the response stops and the producer is
\* cancelled" (sse.py:5): at whatever await the turn is then, it asks the model
\* nothing more and runs no further lookup.
AbandonedTurnsStop ==
  [][response = "closed" =>
       /\ turn'[TheTurn].calls = turn[TheTurn].calls
       /\ turn'[TheTurn].ran = turn[TheTurn].ran
       /\ prepared' = prepared]_chat

\* A turn whose model never answers meets its deadline, a client that stays
\* gets the end and one that leaves is noticed: response and turn both end.
ChatsEnd == <>[](response \in {"ended", "closed"} /\ producer = "ended")
============================================================================
