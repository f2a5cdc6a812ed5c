---------------------------- MODULE EventStream ----------------------------
(***************************************************************************)
(* app/copilot/sse.py: a producer task puts the events of a turn on a      *)
(* queue and the response writes them to the client as they come.  This is *)
(* the response; CopilotChat has the turn that produces.                   *)
(*                                                                         *)
(* The client may leave at any moment; the response's generator is then    *)
(* closed, at once or when it is collected, and cancels the producer.      *)
(* Events are known by their number in their turn.  Definitions that are   *)
(* not used are mutants.                                                   *)
(***************************************************************************)
EXTENDS Naturals, Sequences

CONSTANT MaxKeepalives  \* bound: comment lines

VARIABLES
  producer,   \* the task
  response,   \* the generator of the response's body
  queue,      \* the events put and not taken, and the sentinel
  sent,       \* what the client was written, keep-alive lines left out
  keepalives  \* how many of those

stream == <<producer, response, queue, sent, keepalives>>

End == 0  \* the None that run puts last

TypeOK ==
  /\ producer \in {"running", "cancelled", "ended"}
  /\ response \in {"open", "draining", "left", "ended", "closed"}
  /\ queue \in Seq(Nat)
  /\ \A i \in 1..Len(queue) : queue[i] = End => i = Len(queue) /\ producer = "ended"
  /\ sent \in Seq(Nat \ {End})
  /\ keepalives \in 0..MaxKeepalives

Init ==
  /\ producer = "running"
  /\ response = "open"
  /\ queue = <<>>
  /\ sent = <<>>
  /\ keepalives = 0

\* The next event is written; at the sentinel the producer is awaited.
Write ==
  /\ response = "open"
  /\ queue # <<>>
  /\ queue' = Tail(queue)
  /\ IF Head(queue) = End
     THEN response' = "draining" /\ UNCHANGED sent
     ELSE sent' = Append(sent, Head(queue)) /\ UNCHANGED response
  /\ UNCHANGED <<producer, keepalives>>

KeepaliveInPlaceOfAnEvent ==
  /\ response = "open"
  /\ keepalives < MaxKeepalives
  /\ keepalives' = keepalives + 1
  /\ queue' = IF queue = <<>> THEN queue ELSE Tail(queue)
  /\ UNCHANGED <<producer, response, sent>>

\* The wait for an event times out.  An event that comes in that moment stays
\* on the queue.
Keepalive ==
  /\ response = "open"
  /\ keepalives < MaxKeepalives
  /\ keepalives' = keepalives + 1
  /\ UNCHANGED <<producer, response, queue, sent>>

Finish ==
  /\ response = "draining"
  /\ producer = "ended"
  /\ response' = "ended"
  /\ UNCHANGED <<producer, queue, sent, keepalives>>

ClientLeaves ==
  /\ response \in {"open", "draining"}
  /\ response' = "left"
  /\ UNCHANGED <<producer, queue, sent, keepalives>>

CloseWithoutCancel ==
  /\ response = "left"
  /\ response' = "closed"
  /\ UNCHANGED <<producer, queue, sent, keepalives>>

\* The finally of the generator.
Close ==
  /\ response = "left"
  /\ response' = "closed"
  /\ producer' = IF producer = "running" THEN "cancelled" ELSE producer
  /\ UNCHANGED <<queue, sent, keepalives>>

Respond == Write \/ Keepalive \/ Finish \/ ClientLeaves \/ Close

\* The client gets the events in their order, each once and none left out,
\* whatever the keep-alive timer does, and all that were put by the end of a
\* response the client did not leave.
EventsComeInOrder(put) ==
  /\ Len(sent) <= put
  /\ \A i \in DOMAIN sent : sent[i] = i
  /\ response \in {"draining", "ended"} => Len(sent) = put
============================================================================
