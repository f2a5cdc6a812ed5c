------------------------------ MODULE MCSignIn ------------------------------
(* SignIn on a small instance: two Google accounts of one address, one of which
   also has a staff address, and one whose address is the demo member's. *)
EXTENDS SignIn, TLC

CONSTANTS reader, librarian, demoMember, demoStaff, s1, s2, s3

MCEmails == {reader, librarian, demoMember, demoStaff}
MCSubjects == {s1, s2, s3}
MCAddresses == s1 :> {reader} @@ s2 :> {reader, librarian} @@ s3 :> {demoMember}

\* Bound: while accounts of one or two addresses are made no request uses a
\* session and the clock stands; it moves when only the demo staff account is
\* there, for its sessions.
Touched == {e \in Emails : user[e] # NoUser \/ member[e] # "absent"
                           \/ \E w \in Workers : req[w].email = e}
OnlyStaff == Touched \subseteq {DemoStaff}
OnlyAccounts == clock = 0 /\ Cardinality(Touched) <= 2 /\ Cardinality(Issued) <= 1
                /\ \A w \in Workers : req[w].op # "use"
AccountsOrSessions == OnlyStaff \/ OnlyAccounts

Symmetry == Permutations(Workers) \cup Permutations(Tokens)
=============================================================================
