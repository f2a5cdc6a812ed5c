------------------------------- MODULE SignIn -------------------------------
(***************************************************************************)
(* app/services/auth.py and its routes: accounts made at the first         *)
(* sign-in, with Google or as a demo account, and the sessions that sign-in *)
(* starts.  services/members.py adds members at the desk meanwhile.        *)
(*                                                                         *)
(* users and members are unique by address (whatever its letter case), so  *)
(* a row is kept under its address.  A request is one transaction after    *)
(* another: rows flushed and not committed are seen by nobody, and an      *)
(* insert with the same key waits for them.  Members without an address    *)
(* and archived members (nothing archives one) are left out.               *)
(*                                                                         *)
(* Definitions that are not used are mutants: the definition below them    *)
(* with a plausible mistake.                                               *)
(***************************************************************************)
EXTENDS Naturals, FiniteSets

CONSTANTS
  Workers,    \* requests served at once
  Emails,     \* addresses
  StaffEmails, \* settings.staff_emails
  DemoMember, DemoStaff, \* the demo accounts' addresses
  Subjects,   \* Google accounts
  Addresses,  \* [Subjects -> the verified addresses the account has had]
  Tokens,     \* session tokens, used or not yet
  None,
  Lifetime,   \* settings.session_lifetime, in readings of the clock
  IdleTimeout, \* settings.session_idle_timeout
  TouchInterval, \* TOUCH_INTERVAL
  MaxTime     \* bound: readings of the clock

ASSUME AddressAssumption ==
  /\ StaffEmails \subseteq Emails /\ {DemoMember, DemoStaff} \subseteq Emails
  /\ Addresses \in [Subjects -> SUBSET Emails]
  /\ DemoMember # DemoStaff
  /\ None \notin Emails \cup Subjects \cup Tokens
\* The demo accounts have addresses of demo.local (DEMO_ACCOUNTS), which are not
\* handed from one Google account to another.
ASSUME DemoAddressesAssumption ==
  \A s1, s2 \in Subjects :
    Addresses[s1] \cap Addresses[s2] \cap {DemoMember, DemoStaff} # {} => s1 = s2
ASSUME TimesAssumption == {Lifetime, IdleTimeout, TouchInterval, MaxTime} \subseteq Nat

VARIABLES
  member,   \* table members: by address, absent or who added it
  user,     \* table users
  session,  \* table sessions
  clock,    \* the application's clock
  req,      \* what each worker is doing
  signedAs, \* [Subjects -> the addresses of the users it has signed in as]
  accepted  \* [Tokens -> the times of the requests it was accepted for]

accounts == <<member, user, signedAs>>
sessions == <<session, accepted>>
vars == <<accounts, sessions, clock, req>>

MemberRow == {"absent", "desk", "signIn"}
NoUser == [role |-> "none", sub |-> None]
UserRow == [role: {"staff", "member"}, sub: Subjects \cup {None}] \cup {NoUser}
SessionRow == [state: {"unused", "live", "revoked", "deleted"}, user: Emails \cup {None},
               started: Nat, seen: Nat, expires: Nat]
NoSession == [state |-> "unused", user |-> None, started |-> 0, seen |-> 0, expires |-> 0]

Request ==
  [op: {"none", "google", "demo", "addMember", "use"},
   at: {"idle", "begun", "unlinked", "linking", "new", "noMember", "memberIn", "inserting",
        "written", "again", "signedIn", "starting", "touching"},
   email: Emails \cup {None}, sub: Subjects \cup {None}, token: Tokens \cup {None}, now: Nat]
Idle == [op |-> "none", at |-> "idle", email |-> None, sub |-> None, token |-> None, now |-> 0]

TypeOK ==
  /\ member \in [Emails -> MemberRow]
  /\ user \in [Emails -> UserRow]
  /\ session \in [Tokens -> SessionRow]
  /\ clock \in Nat
  /\ req \in [Workers -> Request]
  /\ signedAs \in [Subjects -> SUBSET Emails]
  /\ accepted \in [Tokens -> SUBSET Nat]

Init ==
  /\ member = [e \in Emails |-> "absent"]
  /\ user = [e \in Emails |-> NoUser]
  /\ session = [t \in Tokens |-> NoSession]
  /\ clock = 0
  /\ req = [w \in Workers |-> Idle]
  /\ signedAs = [s \in Subjects |-> {}]
  /\ accepted = [t \in Tokens |-> {}]

-----------------------------------------------------------------------------
\* Requests

At(w, stage) == req[w].at = stage
Advance(w, stage) == req' = [req EXCEPT ![w].at = stage]
End(w) == req' = [req EXCEPT ![w] = Idle]
Begin(w, fields) ==
  /\ req[w] = Idle
  /\ req' = [req EXCEPT ![w] = fields]
  /\ UNCHANGED <<accounts, sessions, clock>>

\* A refusal, an error or a stopped process: what was not committed is undone.
Abort(w) ==
  /\ req[w] # Idle
  /\ End(w)
  /\ UNCHANGED <<accounts, sessions, clock>>

Tick ==
  /\ clock < MaxTime
  /\ clock' = clock + 1
  /\ UNCHANGED <<accounts, sessions, req>>

\* The index entries of rows that are flushed and not committed.
MemberPending(w, e) ==
  req[w].email = e /\ (At(w, "memberIn") \/ At(w, "written"))
UserPending(w, e, s) ==
  At(w, "written") /\ (req[w].email = e \/ (s # None /\ req[w].sub = s))

\* A lost race at a unique index: the demo sign-in rolls back and reads the
\* account again, any other request fails.
Lose(w) == IF req[w].op = "demo" THEN Advance(w, "again") ELSE End(w)

-----------------------------------------------------------------------------
\* First sign-ins

UserOf(s) == {e \in Emails : user[e].sub = s}

\* Bound: a sign-in begins while a token is left for it.
TokenLeft ==
  Cardinality({w \in Workers : req[w].op \in {"google", "demo"}})
    < Cardinality({t \in Tokens : session[t] = NoSession})

Issued == {t \in Tokens : session[t] # NoSession}

\* The browser's previous session rides along in its cookie.
BeginGoogle(w) == TokenLeft /\ \E s \in Subjects, t \in Issued \cup {None} :
  \E e \in Addresses[s] :
    Begin(w, [Idle EXCEPT !.op = "google", !.at = "begun", !.email = e, !.sub = s, !.token = t])
BeginDemo(w) == TokenLeft /\ \E e \in {DemoMember, DemoStaff}, t \in Issued \cup {None} :
  Begin(w, [Idle EXCEPT !.op = "demo", !.at = "begun", !.email = e, !.token = t])
BeginAddMember(w) == \E e \in Emails :
  Begin(w, [Idle EXCEPT !.op = "addMember", !.at = "begun", !.email = e])

GoogleFindSubject(w) ==
  /\ req[w].op = "google" /\ At(w, "begun")
  /\ \/ /\ UserOf(req[w].sub) # {}
        /\ \E e \in UserOf(req[w].sub) :
             req' = [req EXCEPT ![w].email = e, ![w].at = "signedIn"]
     \/ UserOf(req[w].sub) = {} /\ Advance(w, "unlinked")
  /\ UNCHANGED <<accounts, sessions, clock>>

\* The address belongs to nobody, to a user without a Google account, or to a
\* user of another one, which is refused.
LinksAnyUser(w) ==
  LET found == user[req[w].email] IN
  /\ req[w].op = "google" /\ At(w, "unlinked")
  /\ IF found = NoUser THEN Advance(w, "new") ELSE Advance(w, "linking")
  /\ UNCHANGED <<accounts, sessions, clock>>

GoogleFindAddress(w) ==
  LET found == user[req[w].email] IN
  /\ req[w].op = "google" /\ At(w, "unlinked")
  /\ CASE found = NoUser -> Advance(w, "new")
       [] found # NoUser /\ found.sub = None -> Advance(w, "linking")
       [] OTHER -> End(w)
  /\ UNCHANGED <<accounts, sessions, clock>>

GoogleLink(w) ==
  LET e == req[w].email IN
  /\ At(w, "linking")
  /\ \A v \in Workers \ {w} : ~UserPending(v, None, req[w].sub)
  /\ IF UserOf(req[w].sub) \ {e} # {}
     THEN End(w) /\ UNCHANGED user
     ELSE Advance(w, "signedIn") /\ user' = [user EXCEPT ![e].sub = req[w].sub]
  /\ UNCHANGED <<member, signedAs, sessions, clock>>

\* A staff address gets a staff account; any other the member record of its
\* address, which must not have a user yet, or a new one.
GoogleChooseRole(w) ==
  LET e == req[w].email IN
  /\ At(w, "new")
  /\ CASE e \in StaffEmails -> Advance(w, "inserting")
       [] e \notin StaffEmails /\ member[e] = "absent" -> Advance(w, "noMember")
       [] e \notin StaffEmails /\ member[e] # "absent" /\ user[e] = NoUser -> Advance(w, "inserting")
       [] OTHER -> End(w)
  /\ UNCHANGED <<accounts, sessions, clock>>

DemoFind(w) ==
  LET e == req[w].email IN
  /\ req[w].op = "demo" /\ (At(w, "begun") \/ At(w, "again"))
  /\ CASE user[e] # NoUser -> Advance(w, "signedIn")
       [] user[e] = NoUser /\ At(w, "again") -> End(w)
       [] OTHER -> Advance(w, IF e = DemoMember THEN "noMember" ELSE "inserting")
  /\ UNCHANGED <<accounts, sessions, clock>>

\* members.create_member: the check, the flush and the commit.
AddMemberCheck(w) ==
  /\ req[w].op = "addMember" /\ At(w, "begun")
  /\ IF member[req[w].email] = "absent" THEN Advance(w, "noMember") ELSE End(w)
  /\ UNCHANGED <<accounts, sessions, clock>>

CommitsMember(w) ==
  /\ At(w, "noMember")
  /\ \A v \in Workers \ {w} : ~MemberPending(v, req[w].email)
  /\ IF member[req[w].email] = "absent"
     THEN Advance(w, "inserting") /\ member' = [member EXCEPT ![req[w].email] = "signIn"]
     ELSE Lose(w) /\ UNCHANGED member
  /\ UNCHANGED <<user, signedAs, sessions, clock>>

InsertMember(w) ==
  /\ At(w, "noMember")
  /\ \A v \in Workers \ {w} : ~MemberPending(v, req[w].email)
  /\ IF member[req[w].email] = "absent" THEN Advance(w, "memberIn") ELSE Lose(w)
  /\ UNCHANGED <<accounts, sessions, clock>>

AddMemberCommit(w) ==
  /\ req[w].op = "addMember" /\ At(w, "memberIn")
  /\ member' = [member EXCEPT ![req[w].email] = "desk"]
  /\ End(w)
  /\ UNCHANGED <<user, signedAs, sessions, clock>>

NewUser(w) ==
  LET e == req[w].email
      staff == IF req[w].op = "demo" THEN e = DemoStaff ELSE e \in StaffEmails
  IN [role |-> IF staff THEN "staff" ELSE "member", sub |-> req[w].sub]

\* The commit writes the account together with the member record made for it.
AccountRows(w, withMember) ==
  /\ user' = [user EXCEPT ![req[w].email] = NewUser(w)]
  /\ member' = IF withMember THEN [member EXCEPT ![req[w].email] = "signIn"] ELSE member
  /\ Advance(w, "signedIn")

\* The user is flushed by the commit, and before it when its new member is to
\* be recorded in the activity.
InsertUser(w) ==
  LET e == req[w].email
      s == req[w].sub
  IN /\ req[w].op # "addMember" /\ (At(w, "memberIn") \/ At(w, "inserting"))
     /\ \A v \in Workers \ {w} : ~UserPending(v, e, s)
     /\ IF user[e] # NoUser \/ (s # None /\ UserOf(s) # {})
        THEN Lose(w) /\ UNCHANGED <<user, member>>
        ELSE IF req[w].op = "google" /\ At(w, "memberIn")
             THEN Advance(w, "written") /\ UNCHANGED <<user, member>>
             ELSE AccountRows(w, At(w, "memberIn"))
     /\ UNCHANGED <<signedAs, sessions, clock>>

GoogleCommit(w) ==
  /\ At(w, "written")
  /\ AccountRows(w, TRUE)
  /\ UNCHANGED <<signedAs, sessions, clock>>

-----------------------------------------------------------------------------
\* Sessions

Revoked(t) == [session EXCEPT ![t].state = IF @ = "live" THEN "revoked" ELSE @]

\* _sign_in: the browser's previous session ends first, in a commit of its own.
EndPrevious(w) ==
  /\ At(w, "signedIn")
  /\ session' = IF req[w].token = None THEN session ELSE Revoked(req[w].token)
  /\ req' = [req EXCEPT ![w].at = "starting", ![w].now = clock]
  /\ signedAs' = [s \in Subjects |-> IF s = req[w].sub THEN signedAs[s] \cup {req[w].email}
                                     ELSE signedAs[s]]
  /\ UNCHANGED <<member, user, accepted, clock>>

StartSession(w) ==
  LET e == req[w].email
      now == req[w].now
      old == {t \in Tokens : session[t].user = e /\ session[t].state \in {"live", "revoked"}
                             /\ session[t].expires <= now}
  IN /\ At(w, "starting")
     /\ \E new \in {t \in Tokens : session[t] = NoSession} :
          session' = [t \in Tokens |->
            IF t = new THEN [state |-> "live", user |-> e, started |-> now, seen |-> now,
                             expires |-> now + Lifetime]
            ELSE IF t \in old THEN [session[t] EXCEPT !.state = "deleted"] ELSE session[t]]
     /\ End(w)
     /\ UNCHANGED <<accounts, accepted, clock>>

\* Logging out, and a sign-in as somebody else, end a session at once.
SignOut(t) ==
  /\ session[t].state = "live"
  /\ session' = Revoked(t)
  /\ UNCHANGED <<accounts, accepted, clock, req>>

\* A request reads the clock, then its session.
BeginUse(w) == \E t \in Issued :
  Begin(w, [Idle EXCEPT !.op = "use", !.at = "begun", !.token = t, !.now = clock])

\* Times since are truncated at zero: a session last seen later is not idle.
Since(now, then) == IF now >= then THEN now - then ELSE 0

OnlyIdleCounts(w) ==
  LET t == req[w].token
      row == session[t]
      idle == Since(req[w].now, row.seen)
      ok == row.state = "live" /\ idle < IdleTimeout
  IN /\ req[w].op = "use" /\ At(w, "begun")
     /\ accepted' = IF ok THEN [accepted EXCEPT ![t] = @ \cup {req[w].now}] ELSE accepted
     /\ IF ok /\ idle >= TouchInterval THEN Advance(w, "touching") ELSE End(w)
     /\ UNCHANGED <<accounts, session, clock>>

Use(w) ==
  LET t == req[w].token
      row == session[t]
      idle == Since(req[w].now, row.seen)
      ok == row.state = "live" /\ req[w].now < row.expires /\ idle < IdleTimeout
  IN /\ req[w].op = "use" /\ At(w, "begun")
     /\ accepted' = IF ok THEN [accepted EXCEPT ![t] = @ \cup {req[w].now}] ELSE accepted
     /\ IF ok /\ idle >= TouchInterval THEN Advance(w, "touching") ELSE End(w)
     /\ UNCHANGED <<accounts, session, clock>>

\* Only the last-seen time is written, so a sign-out in between stays; when a
\* sign-in has deleted the expired row in between, the request fails.
TouchesWholeRow(w) ==
  LET t == req[w].token IN
  /\ At(w, "touching")
  /\ session' = IF session[t].state = "deleted" THEN session
                ELSE [session EXCEPT ![t].seen = req[w].now, ![t].state = "live"]
  /\ End(w)
  /\ UNCHANGED <<accounts, accepted, clock>>

Touch(w) ==
  LET t == req[w].token IN
  /\ At(w, "touching")
  /\ session' = IF session[t].state = "deleted" THEN session
                ELSE [session EXCEPT ![t].seen = req[w].now]
  /\ End(w)
  /\ UNCHANGED <<accounts, accepted, clock>>

-----------------------------------------------------------------------------
BeginAny(w) == BeginGoogle(w) \/ BeginDemo(w) \/ BeginAddMember(w) \/ BeginUse(w)

Step(w) ==
  \/ GoogleFindSubject(w) \/ GoogleFindAddress(w) \/ GoogleLink(w) \/ GoogleChooseRole(w)
  \/ DemoFind(w) \/ AddMemberCheck(w) \/ InsertMember(w) \/ AddMemberCommit(w)
  \/ InsertUser(w) \/ GoogleCommit(w) \/ EndPrevious(w) \/ StartSession(w)
  \/ Use(w) \/ Touch(w)

Next ==
  \/ \E w \in Workers : BeginAny(w) \/ Step(w) \/ Abort(w)
  \/ \E t \in Tokens : SignOut(t)
  \/ Tick

Spec == Init /\ [][Next]_vars

-----------------------------------------------------------------------------
\* Properties

\* However first sign-ins meet, a Google account always signs in as one user,
\* and two Google accounts never as the same one (auth.py:201-209).
OneAccountPerSubject ==
  /\ \A s \in Subjects : Cardinality(signedAs[s]) <= 1
  /\ \A s1, s2 \in Subjects : s1 # s2 => signedAs[s1] \cap signedAs[s2] = {}

\* A member record that a sign-in made is there with its user or not at all,
\* and a member's user always has its record, although the record is flushed
\* first and a race can undo either (auth.py:145-175, 224-256).
MembersComeWithUsers == \A e \in Emails :
  /\ member[e] = "signIn" => user[e].role = "member"
  /\ user[e].role = "member" => member[e] # "absent"

\* A session that was signed out of accepts no request that reads it later,
\* and a late touch does not bring it back (auth.py:95, 101-109).
SignedOutIsFinal ==
  [][\A t \in Tokens : session[t].state \in {"revoked", "deleted"} =>
       session'[t].state \in {"revoked", "deleted"} /\ accepted'[t] = accepted[t]]_vars

\* Each accepted request came within the idle timeout of an earlier one or of
\* the sign-in, and within the lifetime, whatever the order in which touches
\* are written (auth.py:91-97).
SessionsLiveByUse == \A t \in Tokens : \A n \in accepted[t] :
  /\ n < session[t].expires
  /\ n = session[t].started
     \/ \E m \in accepted[t] \cup {session[t].started} : m < n /\ n - m < IdleTimeout
=============================================================================
