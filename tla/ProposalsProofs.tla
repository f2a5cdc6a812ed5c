-------------------------- MODULE ProposalsProofs --------------------------
(***************************************************************************)
(* Theorems about Proposals, for any number of requests, proposals, copies *)
(* and loans and any times.                                                *)
(*                                                                         *)
(* The outcome of a proposal is decided under its row lock, so the         *)
(* invariant says what a request may rely on at each stage: a proposal     *)
(* whose row is held is pending and is held once, one that is being        *)
(* prepared has no row and one preparer, and a confirm between its two     *)
(* commits names the one loan that its proposal changed.                   *)
(***************************************************************************)
EXTENDS Proposals, FiniteSetTheorems, TLAPS

\* A request has an operation, a proposal and a start exactly while it runs.
Runs(w) ==
  /\ req[w].op = "none" => req[w] = Idle
  /\ req[w].op # "none" => req[w].at # "idle" /\ req[w].proposal \in Proposals
  /\ req[w].began <= clock

\* The stages of each operation.
StageFits(w) ==
  /\ req[w].op = "prepare" => req[w].at \in {"begun", "checked"}
  /\ req[w].at = "checked" => req[w].op = "prepare"
  /\ req[w].at \in {"holding", "expiring"} => req[w].op \in {"confirm", "cancel"}
  /\ req[w].at \in {"refused", "failing", "made"} => req[w].op = "confirm"

\* A proposal has one preparer until its row is stored, and is not looked for before.
PreparesAlone(w) ==
  /\ req[w].op = "prepare" =>
       /\ proposal[req[w].proposal].status = "absent"
       /\ \A v \in Workers \ {w} : req[v].proposal # req[w].proposal
  /\ req[w].op \in {"read", "confirm", "cancel"} =>
       proposal[req[w].proposal].status # "absent"

\* A locked row is pending and has one holder.
HoldsAlone(w) ==
  req[w].at \in {"holding", "expiring", "failing"} =>
    /\ proposal[req[w].proposal].status = "pending"
    /\ CanLock(w, req[w].proposal)

\* A confirm between its commits remembers the loan its proposal changed.
RemembersTheChange(w) ==
  req[w].at = "made" =>
    /\ req[w].loan \in Loans
    /\ \/ proposal[req[w].proposal].status = "pruned"
       \/ /\ proposal[req[w].proposal].status = "confirmed"
          /\ changes[req[w].proposal] = {req[w].loan}

\* Nothing was done about a proposal that is not resolved.
Untouched(p) ==
  proposal[p].status \in {"absent", "pending"} =>
    notes[p] = <<>> /\ changes[p] = {} /\ proposal[p].result = "none"

\* What was done about one that is.
Whole(p) ==
  proposal[p].status \in Final =>
    /\ notes[p] = <<proposal[p].status>>
    /\ IF proposal[p].status = "confirmed" THEN \E l \in Loans : changes[p] = {l}
       ELSE changes[p] = {}
    /\ proposal[p].result = "error" <=> proposal[p].status = "failed"
    /\ proposal[p].result \in Loans => changes[p] = {proposal[p].result}

RequestInv(w) ==
  Runs(w) /\ StageFits(w) /\ PreparesAlone(w) /\ HoldsAlone(w) /\ RemembersTheChange(w)

ProposalInv(p) == Untouched(p) /\ Whole(p)

IInv ==
  /\ TypeOK
  /\ \A w \in Workers : RequestInv(w)
  /\ \A p \in Proposals : ProposalInv(p)

-----------------------------------------------------------------------------
\* The steps

USE DEF Final, Actions

LEMMA InitIInv == Init => IInv
<1> SUFFICES ASSUME Init PROVE IInv
  OBVIOUS
<1>1. TypeOK
  BY DEF Init, TypeOK, NoRow, Row, Idle, Request
<1>2. \A w \in Workers : RequestInv(w)
  BY DEF Init, Idle, RequestInv, Runs, StageFits, PreparesAlone, HoldsAlone, RemembersTheChange
<1>3. \A p \in Proposals : ProposalInv(p)
  BY DEF Init, NoRow, ProposalInv, Untouched, Whole
<1> QED
  BY <1>1, <1>2, <1>3 DEF IInv

\* A request that is over relies on nothing.
LEMMA IdleRelies ==
  ASSUME NEW w \in Workers, req'[w] = Idle, clock' \in Nat
  PROVE  RequestInv(w)'
BY DEF Idle, RequestInv, Runs, StageFits, PreparesAlone, HoldsAlone, RemembersTheChange

\* What another request's step leaves of what a request relies on: the rows of the
\* proposals in hand are kept, or change as that allows.
LEMMA Bystander ==
  ASSUME NEW v \in Workers, NEW w \in Workers \ {v}, RequestInv(v), clock \in Nat, clock' \in Nat,
         req[v].began \in Nat, clock <= clock', \A u \in Workers \ {w} : req'[u] = req[u],
         req[v].op = "prepare" => /\ proposal'[req[v].proposal].status = "absent"
                                  /\ req'[w].proposal # req[v].proposal,
         req[v].op \in {"read", "confirm", "cancel"} =>
           proposal'[req[v].proposal].status # "absent",
         req[v].at \in {"holding", "expiring", "failing"} =>
           proposal'[req[v].proposal].status = "pending" /\ ~RowLocks(w, req[v].proposal)',
         req[v].at = "made" =>
           \/ proposal'[req[v].proposal].status = "pruned"
           \/ /\ proposal'[req[v].proposal].status = proposal[req[v].proposal].status
              /\ changes'[req[v].proposal] = changes[req[v].proposal]
  PROVE  RequestInv(v)'
<1>1. req'[v] = req[v]
  OBVIOUS
<1> USE <1>1 DEF RequestInv
<1>2. Runs(v)' /\ StageFits(v)'
  BY DEF Runs, StageFits
<1>3. PreparesAlone(v)'
  BY DEF PreparesAlone
<1>4. HoldsAlone(v)'
  BY DEF HoldsAlone, CanLock, RowLocks
<1>5. RemembersTheChange(v)'
  BY DEF RemembersTheChange
<1> QED
  BY <1>2, <1>3, <1>4, <1>5

LEMMA EndsIdle ==
  ASSUME TypeOK, NEW w \in Workers, End(w)
  PROVE  /\ req' \in [Workers -> Request] /\ req'[w] = Idle
         /\ \A v \in Workers \ {w} : req'[v] = req[v]
BY DEF TypeOK, End, Idle, Request

\* What a request that is running has in hand.
LEMMA InHand ==
  ASSUME IInv, NEW v \in Workers
  PROVE  /\ req[v] \in Request /\ req[v].began \in Nat /\ clock \in Nat
         /\ req[v].began <= clock
         /\ req[v].op \in {"none", "prepare", "read", "confirm", "cancel"}
         /\ req[v].op = "none" => req[v] = Idle /\ req[v].proposal \notin Proposals
         /\ req[v].op # "none" => req[v].proposal \in Proposals /\ req[v].at # "idle"
         /\ req[v].at = "idle" => req[v].op = "none"
<1>1. RequestInv(v) /\ req[v] \in Request /\ clock \in Nat
  BY DEF IInv, TypeOK
<1> QED
  BY <1>1, NoneAssumption DEF RequestInv, Runs, Request, Idle

\* A request that ends without a write of its own.
LEMMA Ending ==
  ASSUME IInv, NEW w \in Workers, End(w), UNCHANGED <<proposal, library, notes, changes, clock>>,
         shown' \in [Proposals -> SUBSET (Final \cup {"pending"})],
         answered' \in [Proposals -> BOOLEAN]
  PROVE  IInv'
<1>1. req' \in [Workers -> Request] /\ req'[w] = Idle /\ \A v \in Workers \ {w} : req'[v] = req[v]
  BY EndsIdle DEF IInv
<1>2. TypeOK'
  BY <1>1 DEF IInv, TypeOK, library
<1>3. ASSUME NEW v \in Workers \ {w} PROVE RequestInv(v)'
  <2>1. RequestInv(v) /\ req[v].began \in Nat /\ clock \in Nat
    BY InHand DEF IInv
  <2>2. req[v].op = "prepare" => /\ proposal[req[v].proposal].status = "absent"
                                 /\ req'[w].proposal # req[v].proposal
    BY <1>1, <2>1, InHand, NoneAssumption DEF RequestInv, PreparesAlone, Idle
  <2>3. /\ req[v].op \in {"read", "confirm", "cancel"} => proposal[req[v].proposal].status # "absent"
        /\ req[v].at \in {"holding", "expiring", "failing"} =>
             proposal[req[v].proposal].status = "pending"
    BY <2>1 DEF RequestInv, PreparesAlone, HoldsAlone
  <2>4. ~RowLocks(w, req[v].proposal)'
    BY <1>1 DEF RowLocks, Idle
  <2>5. req[v].at = "made" => \/ proposal[req[v].proposal].status = "pruned"
                              \/ proposal[req[v].proposal].status = "confirmed"
    BY <2>1 DEF RequestInv, RemembersTheChange
  <2> QED
    BY <1>1, <2>1, <2>2, <2>3, <2>4, <2>5, Bystander
<1>4. RequestInv(w)'
  BY <1>1, <1>2, IdleRelies DEF TypeOK
<1>5. \A p \in Proposals : ProposalInv(p)'
  BY DEF IInv, ProposalInv, Untouched, Whole
<1> QED
  BY <1>2, <1>3, <1>4, <1>5 DEF IInv

\* What is stored of the proposal that a request has in hand.
LEMMA Reliance ==
  ASSUME IInv, NEW v \in Workers
  PROVE  /\ RequestInv(v)
         /\ req[v].op = "prepare" => proposal[req[v].proposal].status = "absent"
         /\ req[v].op \in {"read", "confirm", "cancel"} =>
              proposal[req[v].proposal].status # "absent"
         /\ req[v].at \in {"holding", "expiring", "failing"} =>
              /\ proposal[req[v].proposal].status = "pending"
              /\ req[v].op \in {"confirm", "cancel"}
              /\ CanLock(v, req[v].proposal)
         /\ req[v].at = "made" =>
              /\ proposal[req[v].proposal].status \in {"pruned", "confirmed"}
              /\ req[v].op = "confirm"
BY DEF IInv, RequestInv, StageFits, PreparesAlone, HoldsAlone, RemembersTheChange

\* A request that moves on, by its own operation and proposal, without a write.
LEMMA Advancing ==
  ASSUME IInv, NEW w \in Workers, NEW s \in {"holding", "expiring", "failing", "refused"},
         NEW began \in Nat, began <= clock,
         req' = [req EXCEPT ![w].at = s, ![w].began = began],
         req[w].op \in {"confirm", "cancel"}, s \in {"failing", "refused"} => req[w].op = "confirm",
         s # "refused" => /\ proposal[req[w].proposal].status = "pending"
                          /\ CanLock(w, req[w].proposal),
         UNCHANGED <<proposal, library, records, clock>>
  PROVE  IInv'
<1>1. [req[w] EXCEPT !.at = s, !.began = began] \in Request
  BY InHand DEF Request
<1>2. /\ req' \in [Workers -> Request]
      /\ req'[w] = [req[w] EXCEPT !.at = s, !.began = began]
      /\ \A v \in Workers \ {w} : req'[v] = req[v]
  BY <1>1 DEF IInv, TypeOK
<1>3. /\ req'[w].at = s /\ req'[w].op = req[w].op /\ req'[w].proposal = req[w].proposal
      /\ req'[w].began = began
  BY <1>2, InHand DEF Request
<1>4. TypeOK'
  BY <1>2 DEF IInv, TypeOK, library, records
<1>5. ASSUME NEW v \in Workers \ {w} PROVE RequestInv(v)'
  <2>1. req[v].op = "prepare" => req[w].proposal # req[v].proposal
    BY Reliance
  <2>2. req[v].at \in {"holding", "expiring", "failing"} => ~RowLocks(w, req[v].proposal)'
    BY <1>2, <1>3, Reliance DEF CanLock, RowLocks
  <2> QED
    BY <1>2, <1>3, <2>1, <2>2, Reliance, InHand, Bystander DEF records
<1>6. RequestInv(w)'
  <2>1. Runs(w)' /\ StageFits(w)'
    BY <1>3, InHand DEF Runs, StageFits
  <2>2. PreparesAlone(w)' /\ RemembersTheChange(w)'
    BY <1>3, Reliance DEF PreparesAlone, RemembersTheChange
  <2>3. HoldsAlone(w)'
    BY <1>2, <1>3 DEF HoldsAlone, CanLock, RowLocks
  <2> QED
    BY <2>1, <2>2, <2>3 DEF RequestInv
<1>7. \A p \in Proposals : ProposalInv(p)'
  BY DEF IInv, ProposalInv, Untouched, Whole, records
<1> QED
  BY <1>4, <1>5, <1>6, <1>7 DEF IInv

\* What a stored outcome leaves behind.
LEMMA AfterResolving ==
  ASSUME IInv, NEW w \in Workers, req[w].at \in {"holding", "expiring", "failing"},
         NEW s \in Final, NEW r \in {"none", "error"}, Resolve(w, req[w].proposal, s, r)
  PROVE  /\ req[w].proposal \in Proposals
         /\ proposal[req[w].proposal].status = "pending"
         /\ changes[req[w].proposal] = {}
         /\ proposal' \in [Proposals -> Row]
         /\ notes' \in [Proposals -> Seq(Final)]
         /\ proposal'[req[w].proposal].status = s
         /\ proposal'[req[w].proposal].result = r
         /\ notes'[req[w].proposal] = <<s>>
         /\ \A q \in Proposals \ {req[w].proposal} :
              proposal'[q] = proposal[q] /\ notes'[q] = notes[q]
         /\ \A v \in Workers \ {w} : req[v].proposal = req[w].proposal =>
              req[v].at \notin {"holding", "expiring", "failing", "made"} /\ req[v].op # "prepare"
<1> DEFINE p == req[w].proposal
<1>1. req[w] \in Request /\ p \in Proposals /\ proposal[p].status = "pending" /\ CanLock(w, p)
  BY InHand, Reliance
<1>2. notes[p] = <<>> /\ changes[p] = {}
  BY <1>1 DEF IInv, ProposalInv, Untouched
<1>3. proposal[p] \in Row /\ req[w].began \in Nat
  BY <1>1 DEF IInv, TypeOK, Request
<1>4. [proposal[p] EXCEPT !.status = s, !.resolvedAt = req[w].began, !.result = r] \in Row
  BY <1>3 DEF Row
<1>5. /\ proposal' \in [Proposals -> Row] /\ proposal'[p].status = s /\ proposal'[p].result = r
      /\ \A q \in Proposals \ {p} : proposal'[q] = proposal[q]
  BY <1>1, <1>3, <1>4 DEF Resolve, IInv, TypeOK, Row
<1>6. Append(<<>>, s) = <<s>> /\ <<s>> \in Seq(Final)
  OBVIOUS
<1>7. /\ notes' \in [Proposals -> Seq(Final)] /\ notes'[p] = <<s>>
      /\ \A q \in Proposals \ {p} : notes'[q] = notes[q]
  BY <1>1, <1>2, <1>6 DEF Resolve, IInv, TypeOK
<1>8. \A v \in Workers \ {w} : req[v].proposal = p =>
        req[v].at \notin {"holding", "expiring", "failing", "made"} /\ req[v].op # "prepare"
  BY <1>1, Reliance DEF CanLock, RowLocks
<1> QED
  BY <1>1, <1>2, <1>5, <1>7, <1>8

\* A stored outcome that ends nothing but its request: the others and the other
\* proposals keep what they have.
LEMMA OthersKeep ==
  ASSUME IInv, NEW w \in Workers, req[w].at \in {"holding", "expiring", "failing"},
         NEW s \in Final, NEW r \in {"none", "error"}, Resolve(w, req[w].proposal, s, r),
         \A v \in Workers \ {w} : req'[v] = req[v],
         req'[w] = Idle \/ (req'[w].at = "made" /\ req'[w].proposal = req[w].proposal),
         \A q \in Proposals \ {req[w].proposal} : changes'[q] = changes[q], UNCHANGED clock,
         NEW v \in Workers \ {w}
  PROVE  RequestInv(v)'
<1>1. ~RowLocks(w, req[v].proposal)'
  BY DEF RowLocks, Idle
<1>2. req[v].op # "none" => req[v].proposal \in Proposals
  BY InHand
<1>3. req[v].op = "prepare" => /\ proposal'[req[v].proposal].status = "absent"
                               /\ req'[w].proposal # req[v].proposal
  BY <1>2, AfterResolving, Reliance, NoneAssumption DEF Idle
<1>4. req[v].op \in {"read", "confirm", "cancel"} => proposal'[req[v].proposal].status # "absent"
  <2>1. s # "absent"
    OBVIOUS
  <2> QED
    BY <1>2, <2>1, AfterResolving, Reliance
<1>5. req[v].at \in {"holding", "expiring", "failing"} =>
        proposal'[req[v].proposal].status = "pending"
  BY <1>2, AfterResolving, Reliance
<1>6. req[v].at = "made" => /\ proposal'[req[v].proposal] = proposal[req[v].proposal]
                            /\ changes'[req[v].proposal] = changes[req[v].proposal]
  BY <1>2, AfterResolving, Reliance
<1> QED
  BY <1>1, <1>3, <1>4, <1>5, <1>6, Reliance, InHand, Bystander

\* An expiry, a cancel and a failed change close the proposal and end the request.
LEMMA Closing ==
  ASSUME IInv, NEW w \in Workers, req[w].at \in {"holding", "expiring", "failing"},
         NEW s \in Final \ {"confirmed"}, NEW r \in {"none", "error"},
         Resolve(w, req[w].proposal, s, r), (r = "error") <=> (s = "failed"), End(w),
         answered' \in [Proposals -> BOOLEAN], UNCHANGED <<library, changes, shown, clock>>
  PROVE  IInv'
<1>1. PICK p \in Proposals :
      /\ p = req[w].proposal /\ changes[p] = {}
      /\ proposal' \in [Proposals -> Row] /\ notes' \in [Proposals -> Seq(Final)]
      /\ proposal'[p].status = s /\ proposal'[p].result = r /\ notes'[p] = <<s>>
      /\ \A q \in Proposals \ {p} : proposal'[q] = proposal[q] /\ notes'[q] = notes[q]
  BY AfterResolving
<1>2. req' \in [Workers -> Request] /\ req'[w] = Idle /\ \A v \in Workers \ {w} : req'[v] = req[v]
  BY EndsIdle DEF IInv
<1>3. TypeOK'
  BY <1>1, <1>2 DEF IInv, TypeOK, library
<1>4. RequestInv(w)'
  BY <1>2, <1>3, IdleRelies DEF TypeOK
<1>5. ASSUME NEW v \in Workers \ {w} PROVE RequestInv(v)'
  <2>1. /\ s \in Final /\ UNCHANGED clock
        /\ \A q \in Proposals \ {req[w].proposal} : changes'[q] = changes[q]
        /\ req'[w] = Idle \/ (req'[w].at = "made" /\ req'[w].proposal = req[w].proposal)
    BY <1>2
  <2> QED
    BY <1>2, <2>1, OthersKeep, Zenon
<1>6. ProposalInv(p)'
  <2>1. "none" \notin Loans /\ "error" \notin Loans
    BY ResultsAssumption
  <2> QED
    BY <1>1, <2>1 DEF ProposalInv, Untouched, Whole
<1>7. ASSUME NEW q \in Proposals \ {p} PROVE ProposalInv(q)'
  <2>1. proposal'[q] = proposal[q] /\ notes'[q] = notes[q] /\ changes'[q] = changes[q]
    BY <1>1
  <2> QED
    BY <2>1 DEF IInv, ProposalInv, Untouched, Whole
<1> QED
  BY <1>3, <1>4, <1>5, <1>6, <1>7 DEF IInv

LEMMA ChangeCommits ==
  ASSUME IInv, NEW w \in Workers, ChangeCommit(w)
  PROVE  IInv'
<1>1. /\ req[w].op = "confirm" /\ req[w].at = "holding" /\ req[w].at # "made"
      /\ Resolve(w, req[w].proposal, "confirmed", "none")
      /\ UNCHANGED <<archived, shown, answered, clock>>
  BY DEF ChangeCommit, At
<1>2. PICK p \in Proposals :
      /\ p = req[w].proposal /\ changes[p] = {}
      /\ proposal' \in [Proposals -> Row] /\ notes' \in [Proposals -> Seq(Final)]
      /\ proposal'[p].status = "confirmed" /\ proposal'[p].result = "none"
      /\ notes'[p] = <<"confirmed">>
      /\ \A q \in Proposals \ {p} : proposal'[q] = proposal[q] /\ notes'[q] = notes[q]
  BY <1>1, AfterResolving
<1>3. PICK l \in Loans : /\ Change(p, l)
                         /\ changes' = [changes EXCEPT ![p] = @ \cup {l}]
                         /\ req' = [req EXCEPT ![w].at = "made", ![w].loan = l]
  BY <1>2 DEF ChangeCommit
<1>4. /\ changes' \in [Proposals -> SUBSET Loans] /\ changes'[p] = {l}
      /\ \A q \in Proposals \ {p} : changes'[q] = changes[q]
  BY <1>2, <1>3 DEF IInv, TypeOK
<1>5. [req[w] EXCEPT !.at = "made", !.loan = l] \in Request
  BY InHand DEF Request
<1>6. /\ req' \in [Workers -> Request]
      /\ req'[w] = [req[w] EXCEPT !.at = "made", !.loan = l]
      /\ \A v \in Workers \ {w} : req'[v] = req[v]
  BY <1>3, <1>5 DEF IInv, TypeOK
<1>7. /\ req'[w].at = "made" /\ req'[w].op = "confirm" /\ req'[w].proposal = p
      /\ req'[w].loan = l /\ req'[w].began = req[w].began
  BY <1>1, <1>2, <1>6, InHand DEF Request
<1>8. holder' \in [Copies -> Loans \cup {None}] /\ made' \subseteq Loans
  BY <1>3 DEF Change, Lend, TakeBack, IInv, TypeOK
<1>9. TypeOK'
  BY <1>1, <1>2, <1>4, <1>6, <1>8 DEF IInv, TypeOK
<1>10. RequestInv(w)'
  <2>1. Runs(w)' /\ StageFits(w)'
    BY <1>1, <1>2, <1>7, InHand DEF Runs, StageFits
  <2>2. PreparesAlone(w)' /\ HoldsAlone(w)'
    BY <1>2, <1>7 DEF PreparesAlone, HoldsAlone
  <2>3. RemembersTheChange(w)'
    BY <1>2, <1>4, <1>7 DEF RemembersTheChange
  <2> QED
    BY <2>1, <2>2, <2>3 DEF RequestInv
<1>11. ASSUME NEW v \in Workers \ {w} PROVE RequestInv(v)'
  <2>1. /\ \A q \in Proposals \ {req[w].proposal} : changes'[q] = changes[q]
        /\ req'[w] = Idle \/ (req'[w].at = "made" /\ req'[w].proposal = req[w].proposal)
        /\ "confirmed" \in Final /\ "none" \in {"none", "error"} /\ UNCHANGED clock
        /\ req[w].at \in {"holding", "expiring", "failing"}
    BY <1>1, <1>2, <1>4, <1>7
  <2> QED
    BY <1>1, <1>6, <2>1, OthersKeep, Zenon
<1>12. ProposalInv(p)'
  <2>1. "none" \notin Loans
    BY ResultsAssumption
  <2> QED
    BY <1>2, <1>4, <2>1 DEF ProposalInv, Untouched, Whole
<1>13. ASSUME NEW q \in Proposals \ {p} PROVE ProposalInv(q)'
  <2>1. proposal'[q] = proposal[q] /\ notes'[q] = notes[q] /\ changes'[q] = changes[q]
    BY <1>2, <1>4
  <2> QED
    BY <2>1 DEF IInv, ProposalInv, Untouched, Whole
<1> QED
  BY <1>9, <1>10, <1>11, <1>12, <1>13 DEF IInv

LEMMA StoresLoan ==
  ASSUME IInv, NEW w \in Workers, StoreLoan(w)
  PROVE  IInv'
<1>1. PICK p \in Proposals :
      /\ p = req[w].proposal /\ proposal[p] \in Row
      /\ req[w].loan \in Loans
      /\ \/ proposal[p].status = "pruned"
         \/ proposal[p].status = "confirmed" /\ changes[p] = {req[w].loan}
  BY InHand, Reliance DEF StoreLoan, RequestInv, RemembersTheChange, IInv, TypeOK
<1>2. End(w) /\ UNCHANGED <<library, records, clock>>
  BY DEF StoreLoan
<1>3. CASE proposal[p].status = "pruned"
  BY <1>1, <1>2, <1>3, Ending DEF StoreLoan, records, IInv, TypeOK
<1>4. CASE proposal[p].status = "confirmed" /\ changes[p] = {req[w].loan}
  <2>1. proposal' = [proposal EXCEPT ![p].result = req[w].loan]
    BY <1>1, <1>4 DEF StoreLoan
  <2>2. [proposal[p] EXCEPT !.result = req[w].loan] \in Row
    BY <1>1 DEF Row
  <2>3. /\ proposal' \in [Proposals -> Row]
        /\ proposal'[p].status = "confirmed" /\ proposal'[p].result = req[w].loan
        /\ \A q \in Proposals : proposal'[q].status = proposal[q].status
        /\ \A q \in Proposals \ {p} : proposal'[q] = proposal[q]
    BY <1>1, <1>4, <2>1, <2>2 DEF IInv, TypeOK, Row
  <2>4. req' \in [Workers -> Request] /\ req'[w] = Idle /\ \A v \in Workers \ {w} : req'[v] = req[v]
    BY <1>2, EndsIdle DEF IInv
  <2>5. UNCHANGED <<notes, changes, clock>>
    BY <1>2 DEF records
  <2>6. TypeOK'
    BY <1>2, <2>3, <2>4 DEF IInv, TypeOK, library, records
  <2>7. RequestInv(w)'
    BY <2>4, <2>6, IdleRelies DEF TypeOK
  <2>8. ASSUME NEW v \in Workers \ {w} PROVE RequestInv(v)'
    <3>1. ~RowLocks(w, req[v].proposal)'
      BY <2>4 DEF RowLocks, Idle
    <3>2. req[v].op # "none" => req[v].proposal \in Proposals
      BY InHand
    <3>3. req[v].op = "prepare" => req'[w].proposal # req[v].proposal
      BY <2>4, <3>2, NoneAssumption DEF Idle
    <3> QED
      BY <2>3, <2>4, <2>5, <3>1, <3>2, <3>3, Reliance, InHand, Bystander
  <2>9. ProposalInv(p)'
    <3>1. req[w].loan # "error"
      BY <1>1, ResultsAssumption
    <3> QED
      BY <1>1, <1>4, <2>3, <2>5, <3>1 DEF IInv, ProposalInv, Untouched, Whole
  <2>10. ASSUME NEW q \in Proposals \ {p} PROVE ProposalInv(q)'
    BY <2>3, <2>5 DEF IInv, ProposalInv, Untouched, Whole
  <2> QED
    BY <2>6, <2>7, <2>8, <2>9, <2>10 DEF IInv
<1> QED
  BY <1>1, <1>3, <1>4

\* What storing a proposal does to the table: one new pending row, and old ones
\* pruned that no other request holds.
LEMMA AfterStore ==
  ASSUME IInv, NEW w \in Workers, Store(w)
  PROVE  /\ req[w].op = "prepare" /\ req[w].proposal \in Proposals
         /\ proposal' \in [Proposals -> Row]
         /\ proposal'[req[w].proposal].status = "pending"
         /\ proposal'[req[w].proposal].result = "none"
         /\ \A q \in Proposals \ {req[w].proposal} :
              \/ proposal'[q] = proposal[q]
              \/ /\ q \in Prunable(w) /\ CanLock(w, q)
                 /\ proposal[q].status \in Final \cup {"pending"}
                 /\ proposal'[q].status = "pruned"
<1> DEFINE new == [NoRow EXCEPT !.status = "pending", !.action = req[w].action,
                                !.copy = req[w].copy, !.loan = req[w].loan,
                                !.expiresAt = req[w].began + Lifetime]
<1>1. /\ req[w].op = "prepare" /\ req[w].proposal \in Proposals
      /\ \A p \in Prunable(w) : CanLock(w, p)
  BY InHand DEF Store, At
<1>2. new \in Row /\ new.status = "pending" /\ new.result = "none"
  <2>1. /\ req[w].action \in Actions \cup {"none"} /\ req[w].copy \in Copies \cup {None}
        /\ req[w].loan \in Loans \cup {None} /\ req[w].began + Lifetime \in Nat
    BY InHand, TimesAssumption DEF Request
  <2> QED
    BY <2>1 DEF NoRow, Row
<1>3. [NoRow EXCEPT !.status = "pruned"] \in Row
      /\ [NoRow EXCEPT !.status = "pruned"].status = "pruned"
  BY DEF NoRow, Row
<1>4. proposal' = [p \in Proposals |->
                     IF p = req[w].proposal THEN new
                     ELSE IF p \in Prunable(w) THEN [NoRow EXCEPT !.status = "pruned"]
                     ELSE proposal[p]]
  BY Zenon DEF Store
<1> HIDE DEF new
<1>5. proposal' \in [Proposals -> Row]
  BY <1>2, <1>3, <1>4 DEF IInv, TypeOK
<1>6. \A q \in Prunable(w) : proposal[q].status \in Final \cup {"pending"}
  BY DEF Prunable
<1> QED
  BY <1>1, <1>2, <1>3, <1>4, <1>5, <1>6

LEMMA Storing ==
  ASSUME IInv, NEW w \in Workers, Store(w)
  PROVE  IInv'
<1>1. PICK p \in Proposals :
      /\ p = req[w].proposal /\ req[w].op = "prepare"
      /\ proposal' \in [Proposals -> Row]
      /\ proposal'[p].status = "pending" /\ proposal'[p].result = "none"
      /\ \A q \in Proposals \ {p} :
           \/ proposal'[q] = proposal[q]
           \/ /\ CanLock(w, q) /\ proposal[q].status \in Final \cup {"pending"}
              /\ proposal'[q].status = "pruned"
  BY AfterStore
<1>2. /\ proposal[p].status = "absent"
      /\ \A v \in Workers \ {w} : req[v].proposal # p
  BY <1>1, Reliance DEF RequestInv, PreparesAlone
<1>3. End(w) /\ UNCHANGED <<library, notes, changes, shown, answered, clock>>
  BY DEF Store, records
<1>4. req' \in [Workers -> Request] /\ req'[w] = Idle /\ \A v \in Workers \ {w} : req'[v] = req[v]
  BY <1>3, EndsIdle DEF IInv
<1>5. TypeOK'
  BY <1>1, <1>3, <1>4 DEF IInv, TypeOK, library
<1>6. RequestInv(w)'
  BY <1>4, <1>5, IdleRelies DEF TypeOK
<1>7. ASSUME NEW v \in Workers \ {w} PROVE RequestInv(v)'
  <2>1. ~RowLocks(w, req[v].proposal)'
    BY <1>4 DEF RowLocks, Idle
  <2>2. req[v].op # "none" => req[v].proposal \in Proposals \ {p}
    BY <1>2, InHand
  <2>3. req[v].op = "prepare" => /\ proposal'[req[v].proposal].status = "absent"
                                 /\ req'[w].proposal # req[v].proposal
    BY <1>1, <1>4, <2>2, Reliance, NoneAssumption DEF Idle
  <2>4. req[v].op \in {"read", "confirm", "cancel"} => proposal'[req[v].proposal].status # "absent"
    BY <1>1, <2>2, Reliance
  <2>5. req[v].at \in {"holding", "expiring", "failing"} =>
          proposal'[req[v].proposal].status = "pending"
    BY <1>1, <2>2, Reliance DEF CanLock, RowLocks
  <2>6. req[v].at = "made" =>
          \/ proposal'[req[v].proposal].status = "pruned"
          \/ /\ proposal'[req[v].proposal].status = proposal[req[v].proposal].status
             /\ changes'[req[v].proposal] = changes[req[v].proposal]
    BY <1>1, <1>3, <2>2, Reliance
  <2> QED
    BY <1>3, <1>4, <2>1, <2>3, <2>4, <2>5, <2>6, Reliance, InHand, Bystander
<1>8. ProposalInv(p)'
  BY <1>1, <1>2, <1>3 DEF IInv, ProposalInv, Untouched, Whole
<1>9. ASSUME NEW q \in Proposals \ {p} PROVE ProposalInv(q)'
  BY <1>1, <1>3 DEF IInv, ProposalInv, Untouched, Whole
<1> QED
  BY <1>5, <1>6, <1>7, <1>8, <1>9 DEF IInv

LEMMA Beginning ==
  ASSUME IInv, NEW w \in Workers, BeginRequest(w)
  PROVE  IInv'
<1>1. PICK p \in Proposals, op \in {"prepare", "read", "confirm", "cancel"} :
      /\ Begin(w, [Idle EXCEPT !.op = op, !.at = "begun", !.began = clock, !.proposal = p])
      /\ op = "prepare" => /\ proposal[p].status = "absent"
                           /\ \A v \in Workers : ~(req[v].op = "prepare" /\ req[v].proposal = p)
      /\ op # "prepare" => proposal[p].status # "absent"
  BY DEF BeginRequest, BeginPrepare, BeginOn
<1> DEFINE new == [Idle EXCEPT !.op = op, !.at = "begun", !.began = clock, !.proposal = p]
<1>2. /\ new \in Request /\ new.op = op /\ new.at = "begun" /\ new.began = clock
      /\ new.proposal = p
  BY InHand DEF Idle, Request
<1>3. UNCHANGED <<proposal, library, records, clock>> /\ req' = [req EXCEPT ![w] = new]
  BY <1>1 DEF Begin
<1> HIDE DEF new
<1>4. /\ req' \in [Workers -> Request] /\ req'[w] = new
      /\ \A v \in Workers \ {w} : req'[v] = req[v]
  BY <1>2, <1>3 DEF IInv, TypeOK
<1>5. TypeOK'
  BY <1>3, <1>4 DEF IInv, TypeOK, library, records
<1>6. \A v \in Workers \ {w} : req[v].op = "prepare" => req[v].proposal # p
  BY <1>1, Reliance
<1>7. ASSUME NEW v \in Workers \ {w} PROVE RequestInv(v)'
  <2>1. ~RowLocks(w, req[v].proposal)'
    BY <1>2, <1>4 DEF RowLocks
  <2> QED
    BY <1>2, <1>3, <1>4, <1>6, <2>1, Reliance, InHand, Bystander DEF records
<1>8. RequestInv(w)'
  <2>1. Runs(w)' /\ StageFits(w)' /\ HoldsAlone(w)' /\ RemembersTheChange(w)'
    BY <1>2, <1>3, <1>4, InHand DEF Runs, StageFits, HoldsAlone, RemembersTheChange
  <2>2. op = "prepare" => \A v \in Workers \ {w} : req[v].proposal # p
    BY <1>1, Reliance, InHand
  <2>3. PreparesAlone(w)'
    BY <1>1, <1>2, <1>3, <1>4, <2>2 DEF PreparesAlone
  <2> QED
    BY <2>1, <2>3 DEF RequestInv
<1>9. \A q \in Proposals : ProposalInv(q)'
  BY <1>3 DEF IInv, ProposalInv, Untouched, Whole, records
<1> QED
  BY <1>5, <1>7, <1>8, <1>9 DEF IInv

LEMMA Checking ==
  ASSUME IInv, NEW w \in Workers, PrepareCheck(w)
  PROVE  IInv'
<1>1. PICK c \in Copies :
      \/ /\ CanBorrow(c)
         /\ req' = [req EXCEPT ![w].at = "checked", ![w].action = "borrow", ![w].copy = c]
      \/ /\ OnLoan(c)
         /\ req' = [req EXCEPT ![w].at = "checked", ![w].action = "return", ![w].copy = c,
                               ![w].loan = holder[c]]
  BY DEF PrepareCheck
<1>2. /\ req[w].op = "prepare" /\ UNCHANGED <<proposal, library, records, clock>>
      /\ holder[c] \in Loans \cup {None}
  BY DEF PrepareCheck, At, IInv, TypeOK
<1>3. [req[w] EXCEPT !.at = "checked", !.action = "borrow", !.copy = c] \in Request
  BY InHand DEF Request
<1>4. [req[w] EXCEPT !.at = "checked", !.action = "return", !.copy = c, !.loan = holder[c]]
        \in Request
  BY <1>2, InHand DEF Request
<1>5. /\ req' \in [Workers -> Request] /\ \A v \in Workers \ {w} : req'[v] = req[v]
      /\ req'[w].at = "checked" /\ req'[w].op = "prepare"
      /\ req'[w].proposal = req[w].proposal /\ req'[w].began = req[w].began
  <2>1. PICK r \in Request :
        /\ req' = [req EXCEPT ![w] = r] /\ r.at = "checked" /\ r.op = req[w].op
        /\ r.proposal = req[w].proposal /\ r.began = req[w].began
    <3>1. CASE req' = [req EXCEPT ![w] = [req[w] EXCEPT !.at = "checked", !.action = "borrow",
                                                        !.copy = c]]
      BY <1>3, <3>1, InHand DEF Request
    <3>2. CASE req' = [req EXCEPT ![w] = [req[w] EXCEPT !.at = "checked", !.action = "return",
                                                        !.copy = c, !.loan = holder[c]]]
      BY <1>4, <3>2, InHand DEF Request
    <3> QED
      BY <1>1, <3>1, <3>2
  <2> QED
    BY <1>2, <2>1 DEF IInv, TypeOK
<1>6. TypeOK'
  BY <1>2, <1>5 DEF IInv, TypeOK, library, records
<1>7. ASSUME NEW v \in Workers \ {w} PROVE RequestInv(v)'
  <2>1. ~RowLocks(w, req[v].proposal)'
    BY <1>5 DEF RowLocks
  <2>2. req[v].proposal # req[w].proposal
    BY <1>2, Reliance DEF RequestInv, PreparesAlone
  <2> QED
    BY <1>2, <1>5, <2>1, <2>2, Reliance, InHand, Bystander DEF records
<1>8. RequestInv(w)'
  BY <1>2, <1>5, InHand, Reliance
     DEF RequestInv, Runs, StageFits, PreparesAlone, HoldsAlone, RemembersTheChange
<1>9. \A q \in Proposals : ProposalInv(q)'
  BY <1>2 DEF IInv, ProposalInv, Untouched, Whole, records
<1> QED
  BY <1>6, <1>7, <1>8, <1>9 DEF IInv

\* The desk and the clock: no request and no proposal changes.
LEMMA Elsewhere ==
  ASSUME IInv, Desk \/ Tick
  PROVE  IInv'
<1> DEFINE LeavesAlone ==
      /\ UNCHANGED <<proposal, notes, changes, shown, answered, req>>
      /\ clock' \in Nat /\ clock <= clock'
      /\ holder' \in [Copies -> Loans \cup {None}] /\ made' \subseteq Loans
      /\ archived' \subseteq Copies
<1>1. LeavesAlone
  <2>1. CASE Tick
    BY <2>1 DEF Tick, IInv, TypeOK, library, records
  <2>2. ASSUME NEW c \in Copies, NEW l \in Loans, DeskBorrow(c, l) PROVE LeavesAlone
    BY <2>2 DEF DeskBorrow, Lend, IInv, TypeOK, records
  <2>3. ASSUME NEW l \in Loans, DeskReturn(l) PROVE LeavesAlone
    BY <2>3 DEF DeskReturn, TakeBack, IInv, TypeOK, records
  <2>4. ASSUME NEW c \in Copies, DeskArchive(c) PROVE LeavesAlone
    BY <2>4 DEF DeskArchive, IInv, TypeOK, records
  <2> QED
    BY <2>1, <2>2, <2>3, <2>4 DEF Desk
<1>2. TypeOK'
  BY <1>1 DEF IInv, TypeOK
<1>3. ASSUME NEW w \in Workers PROVE RequestInv(w)'
  <2>1. RequestInv(w) /\ req[w].began \in Nat /\ clock \in Nat
    BY Reliance, InHand
  <2>2. Runs(w)'
    BY <1>1, <2>1 DEF RequestInv, Runs
  <2>3. StageFits(w)' /\ PreparesAlone(w)' /\ HoldsAlone(w)' /\ RemembersTheChange(w)'
    BY <1>1, <2>1 DEF RequestInv, StageFits, PreparesAlone, HoldsAlone, RemembersTheChange, CanLock,
       RowLocks
  <2> QED
    BY <2>2, <2>3 DEF RequestInv
<1>4. \A p \in Proposals : ProposalInv(p)'
  BY <1>1 DEF IInv, ProposalInv, Untouched, Whole
<1> QED
  BY <1>2, <1>3, <1>4 DEF IInv

LEMMA Steps ==
  ASSUME IInv, NEW w \in Workers, Step(w)
  PROVE  IInv'
<1>1. \A s \in {"holding", "expiring", "failing"} :
        Advance(w, s) => req' = [req EXCEPT ![w].at = s, ![w].began = req[w].began]
  <2>1. req \in [Workers -> Request] /\ req[w] \in Request
    BY DEF IInv, TypeOK
  <2>2. \A s \in {"holding", "expiring", "failing"} :
          [req[w] EXCEPT !.at = s] = [req[w] EXCEPT !.at = s, !.began = req[w].began]
    BY <2>1 DEF Request
  <2> QED
    BY <2>1, <2>2 DEF Advance
<1>2. /\ shown \in [Proposals -> SUBSET (Final \cup {"pending"})]
      /\ answered \in [Proposals -> BOOLEAN]
      /\ req[w].began \in Nat /\ clock \in Nat /\ req[w].began <= clock /\ clock <= clock
  BY InHand DEF IInv, TypeOK
<1>3. CASE PrepareCheck(w)
  BY <1>3, Checking
<1>4. CASE Store(w)
  BY <1>4, Storing
<1>5. CASE Read(w)
  <2>1. req[w].proposal \in Proposals /\ proposal[req[w].proposal] \in Row
    BY <1>5, InHand DEF Read, At, IInv, TypeOK
  <2>2. proposal[req[w].proposal].status # "pruned" =>
          StatusRead(w, req[w].proposal) \in Final \cup {"pending"}
    BY <1>5, <2>1, Reliance DEF Read, At, StatusRead, Row
  <2>3. shown' \in [Proposals -> SUBSET (Final \cup {"pending"})]
    BY <1>2, <1>5, <2>1, <2>2 DEF Read
  <2> QED
    BY <1>2, <1>5, <2>3, Ending DEF Read
<1>6. CASE FindLocked(w)
  <2>1. CASE End(w)
    BY <1>2, <1>6, <2>1, Ending DEF FindLocked, records
  <2>2. CASE ~End(w)
    <3>1. PICK s \in {"holding", "expiring"} : Advance(w, s)
      BY <1>6, <2>2 DEF FindLocked
    <3>2. /\ proposal[req[w].proposal].status = "pending" /\ CanLock(w, req[w].proposal)
          /\ req[w].op \in {"confirm", "cancel"}
          /\ UNCHANGED <<proposal, library, records, clock>>
      BY <1>6, <2>2 DEF FindLocked
    <3>3. req' = [req EXCEPT ![w].at = s, ![w].began = req[w].began]
      BY <1>1, <3>1
    <3> QED
      BY <1>2, <3>2, <3>3, Advancing
  <2> QED
    BY <2>1, <2>2
<1>7. CASE ExpireCommit(w)
  BY <1>2, <1>7, Closing DEF ExpireCommit
<1>8. CASE CancelCommit(w)
  BY <1>2, <1>8, Closing DEF CancelCommit, At
<1>9. CASE ChangeCommit(w)
  BY <1>9, ChangeCommits
<1>10. CASE ChangeRefused(w)
  BY <1>2, <1>10, Advancing DEF ChangeRefused, At
<1>11. CASE FailLock(w)
  <2>1. req[w].op = "confirm" /\ req[w].proposal \in Proposals
    BY <1>11, Reliance, InHand DEF FailLock, RequestInv, StageFits
  <2>2. CASE proposal[req[w].proposal].status = "pending"
    <3>1. Advance(w, "failing") /\ CanLock(w, req[w].proposal)
          /\ UNCHANGED <<proposal, library, records, clock>>
      BY <1>11, <2>2 DEF FailLock, records
    <3>2. req' = [req EXCEPT ![w].at = "failing", ![w].began = req[w].began]
      BY <1>1, <3>1
    <3> QED
      BY <1>2, <2>1, <2>2, <3>1, <3>2, Advancing
  <2>3. CASE proposal[req[w].proposal].status # "pending"
    <3>1. End(w) /\ UNCHANGED <<proposal, library, notes, changes, shown, clock>>
      BY <1>11, <2>3 DEF FailLock
    <3>2. answered' \in [Proposals -> BOOLEAN]
      BY <1>2, <1>11, <2>1, <2>3 DEF FailLock, Answer
    <3> QED
      BY <1>2, <3>1, <3>2, Ending
  <2> QED
    BY <2>2, <2>3
<1>12. CASE FailCommit(w)
  <2>1. req[w].proposal \in Proposals
    BY <1>12, Reliance, InHand DEF FailCommit
  <2>2. answered' \in [Proposals -> BOOLEAN]
    BY <1>2, <1>12, <2>1 DEF FailCommit, Answer
  <2> QED
    BY <1>12, <2>2, Closing DEF FailCommit
<1>13. CASE StoreLoan(w)
  BY <1>13, StoresLoan
<1> QED
  BY <1>3, <1>4, <1>5, <1>6, <1>7, <1>8, <1>9, <1>10, <1>11, <1>12, <1>13 DEF Step

LEMMA NextIInv == IInv /\ [Next]_vars => IInv'
<1> SUFFICES ASSUME IInv, [Next]_vars PROVE IInv'
  OBVIOUS
<1>1. ASSUME NEW w \in Workers, Abort(w) PROVE IInv'
  <2>1. /\ shown \in [Proposals -> SUBSET (Final \cup {"pending"})]
        /\ answered \in [Proposals -> BOOLEAN]
    BY DEF IInv, TypeOK
  <2> QED
    BY <1>1, <2>1, Ending DEF Abort, records
<1>2. CASE UNCHANGED vars
  <2>1. TypeOK' /\ \A p \in Proposals : ProposalInv(p)'
    BY <1>2 DEF vars, library, records, IInv, TypeOK, ProposalInv, Untouched, Whole
  <2>2. \A w \in Workers : RequestInv(w)'
    BY <1>2 DEF vars, library, records, IInv, RequestInv, Runs, StageFits, PreparesAlone,
       HoldsAlone, RemembersTheChange, CanLock, RowLocks
  <2> QED
    BY <2>1, <2>2 DEF IInv
<1> QED
  BY <1>1, <1>2, Beginning, Steps, Elsewhere DEF Next

\* The inductive invariant: what a confirmation relies on at each of its stages, and how
\* a proposal, its change and its outcome fit whatever its other requests do.
THEOREM Invariance == Spec => []IInv
<1>1. IInv /\ [Next]_vars => IInv'
  BY NextIInv
<1> QED
  BY InitIInv, <1>1, PTL DEF Spec

-----------------------------------------------------------------------------
\* What follows

(* Every reachable state of the proposals and their requests is well typed. *)
THEOREM TypeCorrect == Spec => []TypeOK
<1>1. IInv => TypeOK
  BY DEF IInv
<1> QED
  BY Invariance, <1>1, PTL

(* However many confirms, cancels and expiries of a proposal meet, it      *)
(* changes the library once if it ends up confirmed and not at all if it   *)
(* does not (confirm and cancel, proposals.py).                            *)
THEOREM ChangedOnce == Spec => []ChangedIffConfirmed
<1>1. IInv => ChangedIffConfirmed
  <2> SUFFICES ASSUME IInv, NEW p \in Proposals, Stored(p)
               PROVE  IF proposal[p].status = "confirmed" THEN Cardinality(changes[p]) = 1
                      ELSE changes[p] = {}
    BY DEF ChangedIffConfirmed
  <2>1. Untouched(p) /\ Whole(p)
    BY DEF IInv, ProposalInv
  <2>2. CASE proposal[p].status = "confirmed"
    <3>1. PICK l \in Loans : changes[p] = {l}
      BY <2>1, <2>2 DEF Whole
    <3> QED
      BY <2>2, <3>1, FS_Singleton
  <2>3. CASE proposal[p].status # "confirmed"
    BY <2>1, <2>3 DEF Stored, Untouched, Whole
  <2> QED
    BY <2>2, <2>3
<1> QED
  BY Invariance, <1>1, PTL

(* The conversation is told the stored outcome of each resolved proposal,  *)
(* once, and nothing of a pending one (_tell_conversation shares the       *)
(* commit of the status).                                                  *)
THEOREM OutcomeToldOnce == Spec => []ToldOnce
<1>1. IInv => ToldOnce
  BY DEF IInv, ProposalInv, Untouched, Whole, ToldOnce, Stored
<1> QED
  BY Invariance, <1>1, PTL

(* A stored result names the loan that this proposal made or ended, or an  *)
(* error exactly when the proposal failed, although a confirm stores it in *)
(* a second commit that others may come before (confirm, proposals.py).    *)
THEOREM ResultNamesTheChange == Spec => []ResultIsOfTheChange
<1>1. IInv => ResultIsOfTheChange
  <2> SUFFICES ASSUME IInv, NEW p \in Proposals, Stored(p)
               PROVE  /\ proposal[p].result = "error" <=> proposal[p].status = "failed"
                      /\ proposal[p].result \in Loans => changes[p] = {proposal[p].result}
    BY DEF ResultIsOfTheChange
  <2>1. Untouched(p) /\ Whole(p)
    BY DEF IInv, ProposalInv
  <2>2. "none" \notin Loans
    BY ResultsAssumption
  <2> QED
    BY <2>1, <2>2 DEF Stored, Untouched, Whole
<1> QED
  BY Invariance, <1>1, PTL

-----------------------------------------------------------------------------
\* What a step may do to a proposal

\* A step that writes proposals resolves the pending one that a request holds,
\* stores the loan of a confirmed one, or stores a new one and prunes old ones.
LEMMA Writers ==
  ASSUME IInv, [Next]_vars
  PROVE  \/ UNCHANGED proposal
         \/ \E w \in Workers, s \in Final, r \in {"none", "error"} :
              /\ req[w].at \in {"holding", "expiring", "failing"}
              /\ Resolve(w, req[w].proposal, s, r)
         \/ \E w \in Workers : StoreLoan(w)
         \/ \E w \in Workers : Store(w)
<1>1. ASSUME NEW w \in Workers, Step(w), ~StoreLoan(w), ~Store(w), ~UNCHANGED proposal
      PROVE  \E s \in Final, r \in {"none", "error"} :
               /\ req[w].at \in {"holding", "expiring", "failing"}
               /\ Resolve(w, req[w].proposal, s, r)
  <2>1. ExpireCommit(w) \/ CancelCommit(w) \/ ChangeCommit(w) \/ FailCommit(w)
    BY <1>1 DEF Step, PrepareCheck, Read, FindLocked, ChangeRefused, FailLock
  <2> QED
    BY <2>1 DEF ExpireCommit, CancelCommit, ChangeCommit, FailCommit, At
<1>2. ASSUME NEW w \in Workers, BeginRequest(w) \/ Abort(w) PROVE UNCHANGED proposal
  BY <1>2 DEF BeginRequest, BeginPrepare, BeginOn, Begin, Abort
<1>3. ASSUME Desk \/ Tick \/ UNCHANGED vars PROVE UNCHANGED proposal
  BY <1>3 DEF Desk, DeskBorrow, DeskReturn, DeskArchive, Tick, vars
<1> QED
  BY <1>1, <1>2, <1>3 DEF Next

\* The loan of a confirmed proposal is stored beside its status.
LEMMA LoanBesideStatus ==
  ASSUME IInv, NEW w \in Workers, StoreLoan(w), NEW p \in Proposals
  PROVE  proposal'[p].status = proposal[p].status
<1>1. req[w].proposal \in Proposals /\ proposal \in [Proposals -> Row]
  BY InHand, Reliance DEF StoreLoan, IInv, TypeOK
<1>2. UNCHANGED proposal \/ proposal' = [proposal EXCEPT ![req[w].proposal].result = req[w].loan]
  BY DEF StoreLoan
<1> QED
  BY <1>1, <1>2 DEF Row

(* A stored outcome is never replaced by another one, whatever order       *)
(* confirms, cancels, expiries and failures come in: it lasts until the    *)
(* row is pruned (_ensure_pending and _fail look under the row's lock).    *)
THEOREM OutcomesLast == Spec => ResolvedOnce
<1>1. ASSUME IInv, [Next]_vars, NEW p \in Proposals, proposal[p].status \in Final
      PROVE  proposal'[p].status \in {proposal[p].status, "pruned"}
  <2>1. ASSUME NEW w \in Workers, NEW s \in Final, NEW r \in {"none", "error"},
               req[w].at \in {"holding", "expiring", "failing"},
               Resolve(w, req[w].proposal, s, r)
        PROVE  proposal'[p] = proposal[p]
    BY <1>1, <2>1, AfterResolving
  <2>2. ASSUME NEW w \in Workers, Store(w)
        PROVE  proposal'[p] = proposal[p] \/ proposal'[p].status = "pruned"
    <3>1. req[w].op = "prepare" /\ req[w].proposal # p
      BY <1>1, <2>2, AfterStore, Reliance
    <3> QED
      BY <1>1, <2>2, <3>1, AfterStore
  <2> QED
    BY <1>1, <2>1, <2>2, Writers, LoanBesideStatus
<1>2. IInv /\ [Next]_vars => [\A p \in Proposals : proposal[p].status \in Final =>
        proposal'[p].status \in {proposal[p].status, "pruned"}]_vars
  BY <1>1
<1> QED
  BY Invariance, <1>2, PTL DEF Spec, ResolvedOnce

(* A proposal is deleted only when it ended longer ago than PROPOSAL_KEPT, *)
(* by the clock and not only by the deleting request's start, and never    *)
(* under a request that holds its row (_store, proposals.py).              *)
THEOREM PrunesAreLate == Spec => PrunedLate
<1>1. ASSUME IInv, [Next]_vars, NEW p \in Proposals, Stored(p), proposal'[p].status = "pruned"
      PROVE  Ended(p) + Kept < clock /\ \A w \in Workers : ~RowLocks(w, p)
  <2>1. proposal[p] \in Row /\ proposal[p].status # "pruned" /\ proposal[p].status # "absent"
    BY <1>1 DEF IInv, TypeOK, Stored
  <2>2. ASSUME NEW w \in Workers, NEW s \in Final, NEW r \in {"none", "error"},
               req[w].at \in {"holding", "expiring", "failing"},
               Resolve(w, req[w].proposal, s, r)
        PROVE  FALSE
    <3>1. s # "pruned"
      OBVIOUS
    <3> QED
      BY <1>1, <2>1, <2>2, <3>1, AfterResolving
  <2>3. PICK w \in Workers : Store(w)
    BY <1>1, <2>1, <2>2, Writers, LoanBesideStatus
  <2>4. req[w].op = "prepare" /\ req[w].proposal # p /\ p \in Prunable(w) /\ CanLock(w, p)
    BY <1>1, <2>1, <2>3, AfterStore, Reliance
  <2>5. Ended(p) + Kept < clock
    <3>1. Ended(p) \in Nat /\ Ended(p) + Kept < req[w].began
      BY <2>1, <2>4 DEF Prunable, Ended, Row
    <3> QED
      BY <3>1, <1>1, InHand, TimesAssumption
  <2>6. ~RowLocks(w, p)
    BY <2>4 DEF RowLocks
  <2> QED
    BY <2>4, <2>5, <2>6 DEF CanLock
<1>2. IInv /\ [Next]_vars => [\A p \in Proposals : Stored(p) /\ proposal'[p].status = "pruned" =>
        Ended(p) + Kept < clock /\ \A w \in Workers : ~RowLocks(w, p)]_vars
  BY <1>1
<1> QED
  BY Invariance, <1>2, PTL DEF Spec, PrunedLate
=============================================================================
