----------------------------- MODULE ChatPanel -----------------------------
(***************************************************************************)
(* The Copilot panel's conversation and the streams of its turns           *)
(* (frontend features/copilot, hooks.ts and api.ts).  A reset or leaving   *)
(* the page drops a turn whose stream is still open, and a new turn may    *)
(* start before the old one's promise settles.  React renders what a click *)
(* changed before the next event, and what a stream changed a moment       *)
(* later; buttons and their handlers go by what was rendered.  Texts,      *)
(* cards and the panel's layout are left out.  Definitions that are not    *)
(* used are mutants.                                                       *)
(***************************************************************************)
EXTENDS Naturals, Sequences, FiniteSets

CONSTANTS
  None,
  MaxTurns,    \* bound
  MaxStatuses  \* bound: per turn

ASSUME PanelAssumption == MaxTurns \in Nat /\ MaxStatuses \in Nat /\ None \notin Nat

VARIABLES
  conversation,  \* its id, None until the server gives one, and its items
  running, unavailable, signedIn,
  turnRef,       \* the turn that runs; its AbortController
  shown,         \* the conversation, running and unavailable as last rendered
  streams,       \* the turn's request and the reading of its answer
  era            \* the number of resets; for the properties
vars == <<conversation, running, unavailable, signedIn, turnRef, shown, streams, era>>

Turns == 1..MaxTurns
EMPTY == [id |-> None, items |-> <<>>]
Request(stage, id, served, home) ==
  [at |-> stage, aborted |-> FALSE, sawError |-> FALSE, last |-> "none", statuses |-> 0,
   id |-> id, served |-> served, home |-> home]
Waiting == Request("none", None, None, 0)
Open == {"fetching", "refused", "reading"}
\* The other ends are answered, failed, stopped, unavailable, gone and signed out,
\* and forgotten: unavailable, and the notice that said so is lost.
Left == "left"
Over(stream, how) == Request(how, stream.id, stream.served, stream.home)

Current == [conversation |-> conversation, running |-> running, unavailable |-> unavailable]
Started == {t \in Turns : streams[t].at # "none"}
NextTurn == Cardinality(Started) + 1

Item(kind, t) == [kind |-> kind, turn |-> t]
Add(c, kind, t) == [c EXCEPT !.items = Append(@, Item(kind, t))]
\* All but the status lines.
Kept(items) ==
  LET kept[n \in 0..Len(items)] ==
        IF n = 0 THEN <<>>
        ELSE IF items[n].kind = "status" THEN kept[n - 1] ELSE Append(kept[n - 1], items[n])
  IN  kept[Len(items)]
WithoutStatus(c) == [c EXCEPT !.items = Kept(@)]
UserIndexes(items) == {i \in DOMAIN items : items[i].kind = "user"}
LastUser(items) == CHOOSE i \in UserIndexes(items) : \A j \in UserIndexes(items) : j <= i
LastKind(c) == IF c.items = <<>> THEN "none" ELSE c.items[Len(c.items)].kind

Init ==
  /\ conversation = EMPTY /\ running = FALSE /\ unavailable = FALSE /\ signedIn = TRUE
  /\ turnRef = None /\ shown = Current
  /\ streams = [t \in Turns |-> Waiting] /\ era = 0

-----------------------------------------------------------------------------
\* The user.

RunTurn(id) ==
  /\ streams' = [streams EXCEPT ![NextTurn] = Request("fetching", id, None, era)]
  /\ turnRef' = NextTurn /\ running' = TRUE

\* The composer and the chips of a card wait while a turn runs.
Send ==
  /\ NextTurn \in Turns
  /\ ~shown.running /\ ~shown.unavailable
  /\ turnRef = None
  /\ conversation' = Add(conversation, "user", NextTurn)
  /\ RunTurn(shown.conversation.id)
  /\ UNCHANGED <<unavailable, signedIn, era>>

\* Offered under a last error.
Retry ==
  /\ NextTurn \in Turns
  /\ ~shown.running /\ LastKind(shown.conversation) = "error"
  /\ turnRef = None
  /\ UserIndexes(shown.conversation.items) # {}
  /\ conversation' = [conversation EXCEPT !.items = SubSeq(@, 1, LastUser(@))]
  /\ RunTurn(shown.conversation.id)
  /\ UNCHANGED <<unavailable, signedIn, era>>

Aborted == IF turnRef = None THEN streams ELSE [streams EXCEPT ![turnRef].aborted = TRUE]
Stop ==
  /\ shown.running
  /\ streams' = Aborted
  /\ UNCHANGED <<conversation, running, unavailable, signedIn, turnRef, era>>

ResetKeepsTheTurn ==
  /\ shown.conversation.items # <<>> \/ shown.running
  /\ streams' = Aborted
  /\ running' = FALSE /\ unavailable' = FALSE /\ conversation' = EMPTY
  /\ era' = era + 1
  /\ UNCHANGED <<signedIn, turnRef>>

Reset ==
  /\ shown.conversation.items # <<>> \/ shown.running
  /\ streams' = Aborted
  /\ turnRef' = None
  /\ running' = FALSE /\ unavailable' = FALSE /\ conversation' = EMPTY
  /\ era' = era + 1
  /\ UNCHANGED signedIn

Click == signedIn /\ (Send \/ Retry \/ Stop \/ Reset) /\ shown' = Current'

Render ==
  /\ shown # Current
  /\ shown' = Current
  /\ UNCHANGED <<conversation, running, unavailable, signedIn, turnRef, streams, era>>

\* The page is left or reloaded, or the panel is mounted again, at any time, after
\* a 401 for the sign-in page too: what was rendered was saved for the tab, its
\* status lines and the notice of an unavailable assistant were not.  Whether the
\* last turn's changes were saved is for the properties.
Saved == WithoutStatus(shown.conversation)
IsLeft(t) == streams[t].at \in Open \/ (t = NextTurn - 1 /\ Saved # conversation)
AfterLeaving(t) ==
  IF IsLeft(t) THEN Over(streams[t], Left)
  ELSE IF streams[t].at = "unavailable" THEN Over(streams[t], "forgotten") ELSE streams[t]
Leave ==
  /\ conversation' = Saved
  /\ running' = FALSE /\ unavailable' = FALSE /\ signedIn' = TRUE /\ turnRef' = None
  /\ streams' = [t \in Turns |-> AfterLeaving(t)]
  /\ shown' = Current'
  /\ UNCHANGED era

-----------------------------------------------------------------------------
\* A turn.  What it changes of a conversation is dropped once it is replaced.

UpdatedAnyway(t, c) == c
Updated(t, c) == IF turnRef = t THEN c ELSE conversation

FinallyOfAnyTurn(t, c) ==
  turnRef' = None /\ running' = FALSE /\ conversation' = WithoutStatus(Updated(t, c))

Finally(t, c) ==
  IF turnRef = t
  THEN turnRef' = None /\ running' = FALSE /\ conversation' = WithoutStatus(Updated(t, c))
  ELSE conversation' = Updated(t, c) /\ UNCHANGED <<turnRef, running>>

Is(t, stage) == streams[t].at = stage /\ ~streams[t].aborted
Settles(t, how, c) ==
  /\ streams' = [streams EXCEPT ![t] = Over(@, how)]
  /\ Finally(t, c)
  /\ UNCHANGED <<shown, era>>

\* A stop ends the request and the reading, wherever they are.
Stopped(t) ==
  /\ streams[t].at \in Open /\ streams[t].aborted
  /\ Settles(t, "stopped", Add(conversation, "stopped", t))
  /\ UNCHANGED <<unavailable, signedIn>>

\* No network, a refusal such as 422, an event that cannot be read, or silence.
Fails(t) ==
  /\ Is(t, "fetching") \/ Is(t, "refused") \/ Is(t, "reading")
  /\ Settles(t, "failed", Add(conversation, "error", t))
  /\ UNCHANGED <<unavailable, signedIn>>

Answers(t) ==
  /\ Is(t, "fetching")
  /\ \E stage \in {"refused", "reading"} : streams' = [streams EXCEPT ![t].at = stage]
  /\ UNCHANGED <<conversation, running, unavailable, signedIn, turnRef, shown, era>>

\* 401, 503 and 404, once the body of the refusal is read.
RefusedSignedOut(t) ==
  /\ Is(t, "refused")
  /\ Settles(t, "signed out", conversation)
  /\ signedIn' = FALSE
  /\ UNCHANGED unavailable
RefusedUnavailable(t) ==
  /\ Is(t, "refused")
  /\ Settles(t, "unavailable", conversation)
  /\ unavailable' = TRUE
  /\ UNCHANGED signedIn
RefusedGone(t) ==
  /\ Is(t, "refused") /\ streams[t].id # None
  /\ Settles(t, "gone", Add([conversation EXCEPT !.id = None], "error", t))
  /\ UNCHANGED <<unavailable, signedIn>>

\* The events of a turn (CopilotTurn), in their order.
Following(last) ==
  CASE last = "none" -> {"conversation", "error", "unavailable"}
    [] last = "conversation" -> {"status", "message", "error", "unavailable"}
    [] last = "status" -> {"status", "result", "message", "error", "unavailable"}
    [] last = "result" -> {"status", "message", "error", "unavailable"}
    [] OTHER -> {}
Received(t, event, conversationId) ==
  streams' = [streams EXCEPT ![t].last = event, ![t].served = conversationId,
                             ![t].sawError = @ \/ event \in {"error", "unavailable"},
                             ![t].statuses = IF event = "status" THEN @ + 1 ELSE @]
Gets(t, event) == Is(t, "reading") /\ event \in Following(streams[t].last)

\* The server names the conversation it continues, or the one it made.
OnConversation(t) ==
  LET id == IF streams[t].id = None THEN t ELSE streams[t].id
  IN /\ Gets(t, "conversation")
     /\ Received(t, "conversation", id)
     /\ conversation' = Updated(t, [conversation EXCEPT !.id = id])
     /\ UNCHANGED <<running, unavailable, signedIn, turnRef, shown, era>>
Shows(t, event, kind) ==
  /\ Gets(t, event)
  /\ event = "status" => streams[t].statuses < MaxStatuses
  /\ Received(t, event, streams[t].served)
  /\ conversation' = Updated(t, Add(conversation, kind, t))
  /\ UNCHANGED <<running, unavailable, signedIn, turnRef, shown, era>>
OnUnavailable(t) ==
  /\ Gets(t, "unavailable")
  /\ Received(t, "unavailable", streams[t].served)
  /\ unavailable' = TRUE
  /\ UNCHANGED <<conversation, running, signedIn, turnRef, shown, era>>

HowItEnded(t) == IF streams[t].last = "unavailable" THEN "unavailable" ELSE "answered"
OnDone(t) ==
  /\ Is(t, "reading") /\ streams[t].last \in {"message", "error", "unavailable"}
  /\ Settles(t, HowItEnded(t), conversation)
  /\ UNCHANGED <<unavailable, signedIn>>

\* The body ends without done: a turn that said why it failed is over.
BodyEndsQuietly(t) ==
  /\ Is(t, "reading")
  /\ Settles(t, HowItEnded(t), conversation)
  /\ UNCHANGED <<unavailable, signedIn>>
BodyEnds(t) ==
  /\ Is(t, "reading")
  /\ IF streams[t].sawError THEN Settles(t, HowItEnded(t), conversation)
     ELSE Settles(t, "failed", Add(conversation, "error", t))
  /\ UNCHANGED <<unavailable, signedIn>>

StreamStep(t) ==
  \/ Stopped(t) \/ Fails(t) \/ Answers(t)
  \/ RefusedSignedOut(t) \/ RefusedUnavailable(t) \/ RefusedGone(t)
  \/ OnConversation(t) \/ OnUnavailable(t) \/ OnDone(t) \/ BodyEnds(t)
  \/ Shows(t, "status", "status") \/ Shows(t, "result", "result")
  \/ Shows(t, "message", "assistant") \/ Shows(t, "error", "error")

Next == Click \/ Render \/ Leave \/ \E t \in Turns : StreamStep(t)

Spec == Init /\ [][Next]_vars

-----------------------------------------------------------------------------
\* "Only one turn runs at a time" (hooks.ts:56), and a turn that a reset
\* replaced reaches neither the new conversation's items nor its turn: every
\* item is of a turn of this conversation, each request continues a server
\* conversation of its own one, and one is begun anew only after the server
\* lost it or the page was left before it was saved.
Of(c) == {t \in Started : streams[t].home = c}
TurnsKeepToTheirConversation ==
  /\ running <=> turnRef # None
  /\ \A t \in Started : streams[t].at \in Open /\ ~streams[t].aborted => t = turnRef
  /\ \A i \in DOMAIN conversation.items : conversation.items[i].turn \in Of(era)
  /\ \A t \in Started : streams[t].id # None => streams[t].id \in Of(streams[t].home)
  /\ Cardinality({t \in Of(era) : streams[t].id = None /\ streams[t].served # None})
       <= 1 + Cardinality({t \in Of(era) : streams[t].at \in {"gone", Left}})

\* A turn ends as what it was (the contract of streamCopilotChat): once nothing
\* runs, the conversation ends with its answer or its error, or says it was
\* stopped, and no status line outlasts it.  This "survives page changes and
\* reloads" (hooks.ts:55-56) at any later time, but for the notice that the
\* assistant is unavailable, which is shown until the page is left; a turn the
\* page was left before the end of, or before its end was saved, is left as it was.
TurnsEndAsTheyWere ==
  turnRef = None /\ conversation.items # <<>> =>
    LET how == streams[NextTurn - 1].at
        kind == LastKind(conversation)
    IN /\ \A i \in DOMAIN conversation.items : conversation.items[i].kind # "status"
       /\ how = "answered" => kind \in {"assistant", "error"}
       /\ how \in {"failed", "gone"} => kind = "error"
       /\ how = "stopped" => kind = "stopped"
       /\ how = "unavailable" => unavailable
       /\ how \notin Open
=============================================================================
