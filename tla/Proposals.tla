----------------------------- MODULE Proposals -----------------------------
(***************************************************************************)
(* app/copilot/proposals.py: the borrows and returns that the Copilot      *)
(* prepares for one user and that only the user's confirm makes.           *)
(*                                                                         *)
(* Confirms, cancels, reads and preparations run as requests with their    *)
(* own transactions; the proposal's row lock (SELECT ... FOR UPDATE in     *)
(* _find) orders those that change it.  A confirm's borrow or return is    *)
(* one step here: LibraryService shows that a committed borrow or return   *)
(* is one step of Library.  The desk lends, takes back and archives        *)
(* meanwhile.                                                              *)
(*                                                                         *)
(* Another user's proposal is never found (_find), so one user is enough.  *)
(* Definitions that are not used are mutants: the definition below them    *)
(* with a plausible mistake.                                               *)
(***************************************************************************)
EXTENDS Naturals, Sequences, FiniteSets

CONSTANTS
  Workers,   \* requests served at once
  Proposals, \* ids of proposals, used or not yet
  Copies,    \* copies, each of a title of its own
  Loans,     \* ids of loans, used or not yet
  None,      \* no id
  Lifetime,  \* PROPOSAL_LIFETIME, in readings of the clock
  Kept,      \* PROPOSAL_KEPT, likewise
  MaxTime    \* bound: readings of the clock

ASSUME TimesAssumption == Lifetime \in Nat \ {0} /\ Kept \in Nat /\ MaxTime \in Nat
ASSUME NoneAssumption == None \notin Proposals \cup Copies \cup Loans
ASSUME ResultsAssumption == {"none", "error"} \cap Loans = {}

VARIABLES
  proposal,  \* table copilot_proposals
  holder,    \* [Copies -> the copy's active loan, or None]
  made,      \* the loans that exist, active or ended
  archived,  \* the copies that left the catalog
  notes,     \* [Proposals -> the notes its conversation was told]
  changes,   \* [Proposals -> the loans borrowed or returned via it]
  shown,     \* [Proposals -> the statuses that reads have answered]
  answered,  \* [Proposals -> whether a confirm answered with a refused change]
  clock,
  req        \* what each worker is doing

library == <<holder, made, archived>>
records == <<notes, changes, shown, answered>>
vars == <<proposal, library, records, clock, req>>

Final == {"confirmed", "cancelled", "failed", "expired"}
Actions == {"borrow", "return"}

\* "absent" is a row not inserted yet, "pruned" one that was deleted.
Row == [status: {"absent", "pending", "pruned"} \cup Final, action: Actions \cup {"none"},
        copy: Copies \cup {None}, loan: Loans \cup {None},
        expiresAt: Nat, resolvedAt: Nat, result: Loans \cup {"none", "error"}]

NoRow == [status |-> "absent", action |-> "none", copy |-> None, loan |-> None,
          expiresAt |-> 0, resolvedAt |-> 0, result |-> "none"]

Request == [op: {"none", "prepare", "confirm", "cancel", "read"},
            at: {"idle", "begun", "checked", "holding", "expiring", "refused", "failing", "made"},
            began: Nat, proposal: Proposals \cup {None}, action: Actions \cup {"none"},
            copy: Copies \cup {None}, loan: Loans \cup {None}]

Idle == [op |-> "none", at |-> "idle", began |-> 0, proposal |-> None, action |-> "none",
         copy |-> None, loan |-> None]

TypeOK ==
  /\ proposal \in [Proposals -> Row]
  /\ holder \in [Copies -> Loans \cup {None}]
  /\ made \subseteq Loans
  /\ archived \subseteq Copies
  /\ notes \in [Proposals -> Seq(Final)]
  /\ changes \in [Proposals -> SUBSET Loans]
  /\ shown \in [Proposals -> SUBSET (Final \cup {"pending"})]
  /\ answered \in [Proposals -> BOOLEAN]
  /\ clock \in Nat
  /\ req \in [Workers -> Request]

Init ==
  /\ proposal = [p \in Proposals |-> NoRow]
  /\ holder = [c \in Copies |-> None]
  /\ made = {}
  /\ archived = {}
  /\ notes = [p \in Proposals |-> <<>>]
  /\ changes = [p \in Proposals |-> {}]
  /\ shown = [p \in Proposals |-> {}]
  /\ answered = [p \in Proposals |-> FALSE]
  /\ clock = 0
  /\ req = [w \in Workers |-> Idle]

-----------------------------------------------------------------------------
\* Requests

At(w, op, stage) == req[w].op = op /\ req[w].at = stage
Advance(w, stage) == req' = [req EXCEPT ![w].at = stage]
End(w) == req' = [req EXCEPT ![w] = Idle]

Begin(w, fields) ==
  /\ req[w] = Idle
  /\ req' = [req EXCEPT ![w] = fields]
  /\ UNCHANGED <<proposal, library, records, clock>>

\* A lost connection or a stopped process: what was not committed is undone.
Abort(w) ==
  /\ req[w] # Idle
  /\ End(w)
  /\ UNCHANGED <<proposal, library, records, clock>>

Tick ==
  /\ clock < MaxTime
  /\ clock' = clock + 1
  /\ UNCHANGED <<proposal, library, records, req>>

\* The row lock of _find, held from the locking read to the end of the transaction.
NoRowLock(w, p) == FALSE

RowLocks(w, p) == req[w].proposal = p /\ req[w].at \in {"holding", "expiring", "failing"}
CanLock(w, p) == \A v \in Workers \ {w} : ~RowLocks(v, p)

\* _lapsed, by the transaction's own now().
Lapsed(w, p) == proposal[p].expiresAt <= req[w].began

\* A status is stored with its time and its note in the conversation.
Resolve(w, p, status, result) ==
  /\ proposal' = [proposal EXCEPT ![p].status = status, ![p].resolvedAt = req[w].began,
                                  ![p].result = result]
  /\ notes' = [notes EXCEPT ![p] = Append(@, status)]

-----------------------------------------------------------------------------
\* The library, as Library describes it

OnLoan(c) == holder[c] # None
FreshLoan(l) == l \notin made /\ \A v \in Workers : req[v].loan # l

CanBorrow(c) == c \notin archived /\ ~OnLoan(c)
CanReturn(l) == \E c \in Copies : holder[c] = l

Lend(c, l) == holder' = [holder EXCEPT ![c] = l] /\ made' = made \cup {l}
TakeBack(l) == holder' = [c \in Copies |-> IF holder[c] = l THEN None ELSE holder[c]]

DeskBorrow(c, l) ==
  /\ CanBorrow(c) /\ FreshLoan(l)
  /\ Lend(c, l)
  /\ UNCHANGED <<proposal, archived, records, clock, req>>

DeskReturn(l) ==
  /\ CanReturn(l)
  /\ TakeBack(l)
  /\ UNCHANGED <<proposal, made, archived, records, clock, req>>

\* The copy's title is archived; one that was never lent is deleted instead,
\* which a proposal meets in the same way.
DeskArchive(c) ==
  /\ CanBorrow(c)
  /\ archived' = archived \cup {c}
  /\ UNCHANGED <<proposal, holder, made, records, clock, req>>

-----------------------------------------------------------------------------
\* Preparing.  The checks take no lock, so what they found can change before the
\* proposal is stored, and again before it is confirmed.

BeginPrepare(w, p) ==
  /\ proposal[p].status = "absent"
  /\ \A v \in Workers : ~(req[v].op = "prepare" /\ req[v].proposal = p)
  /\ Begin(w, [Idle EXCEPT !.op = "prepare", !.at = "begun", !.began = clock, !.proposal = p])

\* check_borrow of an available copy, or the active loan of a borrowed one.
PrepareCheck(w) ==
  /\ At(w, "prepare", "begun")
  /\ \E c \in Copies :
       \/ /\ CanBorrow(c)
          /\ req' = [req EXCEPT ![w].at = "checked", ![w].action = "borrow", ![w].copy = c]
       \/ /\ OnLoan(c)
          /\ req' = [req EXCEPT ![w].at = "checked", ![w].action = "return", ![w].copy = c,
                                ![w].loan = holder[c]]
  /\ UNCHANGED <<proposal, library, records, clock>>

Ended(p) == IF proposal[p].status \in Final THEN proposal[p].resolvedAt ELSE proposal[p].expiresAt

PrunedByCreation(w) ==
  {p \in Proposals : proposal[p].status \in Final \cup {"pending"}
                     /\ proposal[p].expiresAt - Lifetime + Kept < req[w].began}

Prunable(w) ==
  {p \in Proposals : proposal[p].status \in Final \cup {"pending"} /\ Ended(p) + Kept < req[w].began}

\* _store: deletes what ended more than a week ago, waiting for a row that is
\* locked, and inserts the proposal; one commit.
Store(w) ==
  /\ At(w, "prepare", "checked")
  /\ \A p \in Prunable(w) : CanLock(w, p)
  /\ LET new == [NoRow EXCEPT !.status = "pending", !.action = req[w].action,
                              !.copy = req[w].copy, !.loan = req[w].loan,
                              !.expiresAt = req[w].began + Lifetime] IN
       proposal' = [p \in Proposals |->
                      IF p = req[w].proposal THEN new
                      ELSE IF p \in Prunable(w) THEN [NoRow EXCEPT !.status = "pruned"]
                      ELSE proposal[p]]
  /\ End(w)
  /\ UNCHANGED <<library, records, clock>>

-----------------------------------------------------------------------------
\* Reading

BeginOn(w, op, p) ==
  /\ proposal[p].status # "absent"
  /\ Begin(w, [Idle EXCEPT !.op = op, !.at = "begun", !.began = clock, !.proposal = p])

\* get: a pending proposal past its expiry reads as expired.
StatusRead(w, p) ==
  IF proposal[p].status = "pending" /\ Lapsed(w, p) THEN "expired" ELSE proposal[p].status

Read(w) ==
  /\ At(w, "read", "begun")
  /\ LET p == req[w].proposal IN
       IF proposal[p].status = "pruned" THEN UNCHANGED shown
       ELSE shown' = [shown EXCEPT ![p] = @ \cup {StatusRead(w, p)}]
  /\ End(w)
  /\ UNCHANGED <<proposal, library, notes, changes, answered, clock>>

-----------------------------------------------------------------------------
\* Confirming and cancelling

BeginRequest(w) ==
  \E p \in Proposals :
    \/ BeginPrepare(w, p)
    \/ \E op \in {"read", "confirm", "cancel"} : BeginOn(w, op, p)

\* _find with lock, then _ensure_pending: a resolved or missing proposal is
\* refused, and one past its expiry is marked before it is.
FindLocked(w) ==
  /\ req[w].op \in {"confirm", "cancel"} /\ req[w].at = "begun"
  /\ CanLock(w, req[w].proposal)
  /\ LET p == req[w].proposal IN
       IF proposal[p].status # "pending" THEN End(w)
       ELSE Advance(w, IF Lapsed(w, p) THEN "expiring" ELSE "holding")
  /\ UNCHANGED <<proposal, library, records, clock>>

\* _ensure_pending's own commit, after which the request is refused.
ExpireCommit(w) ==
  /\ req[w].at = "expiring"
  /\ Resolve(w, req[w].proposal, "expired", "none")
  /\ End(w)
  /\ UNCHANGED <<library, changes, shown, answered, clock>>

CancelCommit(w) ==
  /\ At(w, "cancel", "holding")
  /\ Resolve(w, req[w].proposal, "cancelled", "none")
  /\ End(w)
  /\ UNCHANGED <<library, changes, shown, answered, clock>>

\* The service's checks and writes, for the loan that the change makes or ends.
Change(p, l) ==
  IF proposal[p].action = "borrow"
  THEN CanBorrow(proposal[p].copy) /\ FreshLoan(l) /\ Lend(proposal[p].copy, l)
  ELSE l = proposal[p].loan /\ CanReturn(l) /\ TakeBack(l) /\ UNCHANGED made

Refused(p) ==
  IF proposal[p].action = "borrow" THEN ~CanBorrow(proposal[p].copy)
  ELSE ~CanReturn(proposal[p].loan)

\* _make_change: the service's commit takes the status and the note with it.
ChangeCommit(w) ==
  /\ At(w, "confirm", "holding")
  /\ \E l \in Loans :
       /\ Change(req[w].proposal, l)
       /\ changes' = [changes EXCEPT ![req[w].proposal] = @ \cup {l}]
       /\ req' = [req EXCEPT ![w].at = "made", ![w].loan = l]
  /\ Resolve(w, req[w].proposal, "confirmed", "none")
  /\ UNCHANGED <<archived, shown, answered, clock>>

\* The rollback of a refused change: it undoes the status and frees the row, and
\* the next statement begins a new transaction.
ChangeRefused(w) ==
  /\ At(w, "confirm", "holding")
  /\ Refused(req[w].proposal)
  /\ req' = [req EXCEPT ![w].at = "refused", ![w].began = clock]
  /\ UNCHANGED <<proposal, library, records, clock>>

Answer(p) == answered' = [answered EXCEPT ![p] = TRUE]

\* Mutant: the status that was read before the rollback is taken to hold still.
FailLockWithoutReading(w) ==
  /\ req[w].at = "refused"
  /\ CanLock(w, req[w].proposal)
  /\ Advance(w, "failing")
  /\ UNCHANGED <<proposal, library, records, clock>>

\* _fail reads the proposal again under a lock.
FailLock(w) ==
  /\ req[w].at = "refused"
  /\ CanLock(w, req[w].proposal)
  /\ IF proposal[req[w].proposal].status = "pending"
     THEN Advance(w, "failing") /\ UNCHANGED answered
     ELSE /\ End(w)
          /\ IF proposal[req[w].proposal].status = "pruned" THEN UNCHANGED answered
             ELSE Answer(req[w].proposal)
  /\ UNCHANGED <<proposal, library, notes, changes, shown, clock>>

FailCommit(w) ==
  /\ req[w].at = "failing"
  /\ Resolve(w, req[w].proposal, "failed", "error")
  /\ Answer(req[w].proposal)
  /\ End(w)
  /\ UNCHANGED <<library, changes, shown, clock>>

\* Mutant: the loan is looked up by its copy.
StoreLoanOfTheCopy(w) ==
  /\ req[w].at = "made"
  /\ CanLock(w, req[w].proposal)
  /\ LET p == req[w].proposal
         now == IF proposal[p].action = "borrow" THEN holder[proposal[p].copy]
                ELSE proposal[p].loan IN
       IF proposal[p].status = "pruned" \/ now = None THEN UNCHANGED proposal
       ELSE proposal' = [proposal EXCEPT ![p].result = now]
  /\ End(w)
  /\ UNCHANGED <<library, records, clock>>

\* The second commit of a confirm; a row that is gone fails the request.
StoreLoan(w) ==
  /\ req[w].at = "made"
  /\ CanLock(w, req[w].proposal)
  /\ LET p == req[w].proposal IN
       IF proposal[p].status = "pruned" THEN UNCHANGED proposal
       ELSE proposal' = [proposal EXCEPT ![p].result = req[w].loan]
  /\ End(w)
  /\ UNCHANGED <<library, records, clock>>

Step(w) ==
  \/ PrepareCheck(w) \/ Store(w) \/ Read(w)
  \/ FindLocked(w) \/ ExpireCommit(w) \/ CancelCommit(w)
  \/ ChangeCommit(w) \/ ChangeRefused(w) \/ FailLock(w) \/ FailCommit(w) \/ StoreLoan(w)

Desk ==
  \/ \E c \in Copies, l \in Loans : DeskBorrow(c, l)
  \/ \E l \in Loans : DeskReturn(l)
  \/ \E c \in Copies : DeskArchive(c)

Next ==
  \/ \E w \in Workers : BeginRequest(w) \/ Step(w) \/ Abort(w)
  \/ Desk
  \/ Tick

Spec == Init /\ [][Next]_vars

-----------------------------------------------------------------------------
\* Properties

Stored(p) == proposal[p].status \in Final \cup {"pending"}

\* A proposal changes the library once, when it becomes confirmed, and in no
\* other case: however many confirms, cancels and expiries meet (confirm,
\* proposals.py).
ChangedIffConfirmed ==
  \A p \in Proposals : Stored(p) =>
    IF proposal[p].status = "confirmed" THEN Cardinality(changes[p]) = 1 ELSE changes[p] = {}

\* The conversation is told the outcome of each resolved proposal once, and it
\* is the stored one; nothing is told of a pending one (_tell_conversation
\* shares the commit of the status).
ToldOnce ==
  \A p \in Proposals : Stored(p) =>
    notes[p] = IF proposal[p].status = "pending" THEN <<>> ELSE <<proposal[p].status>>

\* The result names the loan that this proposal made or ended, or an error; a
\* confirmed one has none only between the confirm's two commits or after the
\* second was lost.
ResultIsOfTheChange ==
  \A p \in Proposals : Stored(p) =>
    /\ proposal[p].result = "error" <=> proposal[p].status = "failed"
    /\ proposal[p].result \in Loans => changes[p] = {proposal[p].result}

\* The outcome of a proposal never changes once it is stored.
ResolvedOnce ==
  [][\A p \in Proposals : proposal[p].status \in Final =>
       proposal'[p].status \in {proposal[p].status, "pruned"}]_vars

\* A proposal is deleted only when it was resolved, or expired, longer ago than
\* PROPOSAL_KEPT, and never under a request that holds its row.
PrunedLate ==
  [][\A p \in Proposals : Stored(p) /\ proposal'[p].status = "pruned" =>
       Ended(p) + Kept < clock /\ \A w \in Workers : ~RowLocks(w, p)]_vars

\* routers/copilot.py says of confirm: "When the change is refused the proposal
\* is marked failed with that error."  _fail leaves the outcome of another
\* request that took the row between the rollback and its second lock.
RefusedConfirmMarksFailed ==
  \A p \in Proposals : answered[p] /\ Stored(p) => proposal[p].status = "failed"

\* The card says of an expired proposal: "This proposal expired, so nothing
\* changed."  A confirm that began before the expiry can still commit after a
\* read answered "expired".
ExpiredMeansNothingChanged ==
  \A p \in Proposals : "expired" \in shown[p] => changes[p] = {}
=============================================================================
