---------------------------- MODULE SignInProofs ----------------------------
(***************************************************************************)
(* Theorems about SignIn, for any number of requests, addresses, Google    *)
(* accounts and sessions and any times.                                    *)
(*                                                                         *)
(* The invariant has three parts: what the unique indexes make of the rows *)
(* that are flushed and not committed, what a sign-in knows of its account *)
(* at each stage, and which times a session was accepted at.               *)
(***************************************************************************)
EXTENDS SignIn, FiniteSetTheorems, TLAPS

Demos == {DemoMember, DemoStaff}
SigningIn(w) == req[w].op \in {"google", "demo"}

\* What a request names, by its operation.
NamesFit(w) ==
  /\ req[w].op = "none" => req[w] = Idle
  /\ req[w].op = "google" => req[w].sub \in Subjects /\ req[w].email \in Emails
  /\ req[w].op \in {"demo", "addMember", "use"} => req[w].sub = None
  /\ req[w].op = "demo" => req[w].email \in Demos
  /\ req[w].op = "addMember" => req[w].email \in Emails
  /\ req[w].op = "use" => req[w].token \in Tokens /\ req[w].email = None
  /\ req[w].token \in Issued \cup {None}
  /\ req[w].now <= clock

\* The stages of each operation.
StagesFit(w) ==
  /\ req[w].at \in {"unlinked", "linking", "new", "written"} => req[w].op = "google"
  /\ req[w].at \in {"noMember", "memberIn"} => req[w].op \in {"google", "demo", "addMember"}
  /\ req[w].at \in {"inserting", "signedIn", "starting"} => SigningIn(w)
  /\ req[w].at = "touching" => req[w].op = "use"

\* Until a Google sign-in has found or made its user it looks for its own address.
OwnAddress(w) ==
  req[w].op = "google" /\ req[w].at \notin {"signedIn", "starting"} =>
    req[w].email \in Addresses[req[w].sub]

\* Only a request whose new user is a member stores a member record.
MembersOnly(w) ==
  /\ req[w].at \in {"noMember", "memberIn", "written"} =>
       /\ req[w].op = "google" => req[w].email \notin StaffEmails
       /\ req[w].op = "demo" => req[w].email = DemoMember
  /\ req[w].at = "inserting" =>
       \/ member[req[w].email] # "absent"
       \/ req[w].op = "google" /\ req[w].email \in StaffEmails
       \/ req[w].op = "demo" /\ req[w].email = DemoStaff

\* A flushed member record is the only one of its address, and a flushed user the
\* only one of its address and of its Google account.
FlushedAlone(w) ==
  /\ At(w, "memberIn") \/ At(w, "written") =>
       /\ member[req[w].email] = "absent"
       /\ \A v \in Workers \ {w} : ~MemberPending(v, req[w].email)
  /\ At(w, "written") =>
       /\ user[req[w].email] = NoUser
       /\ UserOf(req[w].sub) = {}
       /\ \A v \in Workers \ {w} : ~UserPending(v, req[w].email, req[w].sub)

\* The user that a sign-in links is a demo account's, and the one it has found or
\* made is of its Google account.
KnowsItsUser(w) ==
  /\ At(w, "linking") => req[w].email \in Demos /\ user[req[w].email] # NoUser
  /\ At(w, "signedIn") \/ At(w, "starting") =>
       /\ user[req[w].email] # NoUser
       /\ req[w].sub # None => user[req[w].email].sub = req[w].sub

\* A touch writes a time at which its session was accepted.
TouchesAccepted(w) ==
  /\ req[w].op = "use" => session[req[w].token].started <= req[w].now
  /\ At(w, "touching") => req[w].now \in accepted[req[w].token]

RequestInv(w) ==
  /\ NamesFit(w)
  /\ StagesFit(w)
  /\ OwnAddress(w)
  /\ MembersOnly(w)
  /\ FlushedAlone(w)
  /\ KnowsItsUser(w)
  /\ TouchesAccepted(w)

\* A user without a Google account is a demo account; the others have an address of
\* their Google account, which has no other user.
UserInv(e) ==
  /\ user[e] # NoUser /\ user[e].sub = None => e \in Demos
  /\ user[e].sub # None =>
       /\ e \in Addresses[user[e].sub]
       /\ \A f \in Emails : user[f].sub = user[e].sub => f = e
  /\ member[e] = "signIn" => user[e].role = "member"
  /\ user[e].role = "member" => member[e] # "absent"

SignedInv(s) == \A e \in signedAs[s] : user[e].sub = s

\* The times of a session.  Up to the last time it was accepted at, no moment is
\* further than the idle timeout from an accepted one before it.
SessionInv(t) ==
  /\ session[t].state = "unused" => session[t] = NoSession /\ accepted[t] = {}
  /\ session[t].state # "unused" =>
       /\ session[t].user \in Emails
       /\ session[t].started <= clock
       /\ session[t].seen \in accepted[t] \cup {session[t].started}
  /\ \A n \in accepted[t] :
       /\ session[t].started <= n /\ n < session[t].expires
       /\ \A k \in Nat : session[t].started < k /\ k <= n =>
            \E m \in accepted[t] \cup {session[t].started} : m < k /\ k - m < IdleTimeout

IInv ==
  /\ TypeOK
  /\ \A w \in Workers : RequestInv(w)
  /\ \A e \in Emails : UserInv(e)
  /\ \A s \in Subjects : SignedInv(s)
  /\ \A t \in Tokens : SessionInv(t)

-----------------------------------------------------------------------------
\* Requests

LEMMA InitIInv == Init => IInv
<1> SUFFICES ASSUME Init PROVE IInv
  OBVIOUS
<1>1. TypeOK
  BY DEF Init, TypeOK, MemberRow, NoUser, UserRow, NoSession, SessionRow, Idle, Request
<1>2. \A w \in Workers : RequestInv(w)
  BY DEF Init, Idle, RequestInv, NamesFit, StagesFit, OwnAddress, MembersOnly, FlushedAlone,
     KnowsItsUser, TouchesAccepted, At
<1>3. \A e \in Emails : UserInv(e)
  BY DEF Init, UserInv, NoUser
<1>4. \A s \in Subjects : SignedInv(s)
  BY DEF Init, SignedInv
<1>5. \A t \in Tokens : SessionInv(t)
  BY DEF Init, SessionInv, NoSession
<1> QED
  BY <1>1, <1>2, <1>3, <1>4, <1>5 DEF IInv

\* A request that is over relies on nothing.
LEMMA IdleRelies ==
  ASSUME NEW w \in Workers, req'[w] = Idle, clock' \in Nat
  PROVE  RequestInv(w)'
BY DEF Idle, RequestInv, NamesFit, StagesFit, OwnAddress, MembersOnly, FlushedAlone,
   KnowsItsUser, TouchesAccepted, At

\* What another request's step leaves of what a request relies on.
LEMMA Bystander ==
  ASSUME NEW w \in Workers, NEW v \in Workers \ {w}, RequestInv(v),
         clock \in Nat, clock' \in Nat, req[v].now \in Nat, clock <= clock',
         \A u \in Workers \ {w} : req'[u] = req[u],
         Issued \subseteq Issued',
         req[v].at \in {"memberIn", "written"} =>
           /\ member'[req[v].email] = "absent"
           /\ ~MemberPending(w, req[v].email)',
         req[v].at = "inserting" /\ member[req[v].email] # "absent" =>
           member'[req[v].email] # "absent",
         req[v].at = "written" =>
           /\ user'[req[v].email] = NoUser
           /\ \A e \in Emails : user'[e].sub # req[v].sub
           /\ ~UserPending(w, req[v].email, req[v].sub)',
         req[v].at \in {"linking", "signedIn", "starting"} =>
           /\ user'[req[v].email] # NoUser
           /\ user[req[v].email].sub # None =>
                user'[req[v].email].sub = user[req[v].email].sub,
         req[v].op = "use" => session'[req[v].token].started = session[req[v].token].started,
         req[v].at = "touching" => accepted[req[v].token] \subseteq accepted'[req[v].token]
  PROVE  RequestInv(v)'
<1>1. req'[v] = req[v]
  OBVIOUS
<1>2. \A u \in Workers \ {v, w} : req'[u] = req[u]
  OBVIOUS
<1> USE <1>1 DEF RequestInv
<1>3. NamesFit(v)' /\ StagesFit(v)' /\ OwnAddress(v)'
  BY DEF NamesFit, StagesFit, OwnAddress, SigningIn
<1>4. MembersOnly(v)'
  BY DEF MembersOnly
<1>5. FlushedAlone(v)'
  <2>1. ASSUME At(v, "memberIn") \/ At(v, "written"), NEW u \in Workers \ {v}
        PROVE  ~MemberPending(u, req[v].email)'
    <3>1. CASE u = w
      BY <2>1, <3>1 DEF At
    <3>2. CASE u # w
      BY <1>2, <2>1, <3>2 DEF FlushedAlone, MemberPending, At
    <3> QED
      BY <3>1, <3>2
  <2>2. ASSUME At(v, "written"), NEW u \in Workers \ {v}
        PROVE  ~UserPending(u, req[v].email, req[v].sub)'
    <3>1. CASE u = w
      BY <2>2, <3>1 DEF At
    <3>2. CASE u # w
      BY <1>2, <2>2, <3>2 DEF FlushedAlone, UserPending, At
    <3> QED
      BY <3>1, <3>2
  <2>3. At(v, "written") => UserOf(req[v].sub)' = {}
    BY DEF UserOf, At
  <2> QED
    BY <2>1, <2>2, <2>3 DEF FlushedAlone, At
<1>6. KnowsItsUser(v)'
  BY DEF KnowsItsUser, At
<1>7. TouchesAccepted(v)'
  BY DEF TouchesAccepted, At
<1> QED
  BY <1>3, <1>4, <1>5, <1>6, <1>7

\* What the invariant says of a request, where the steps need it.
LEMMA InHand ==
  ASSUME IInv, NEW v \in Workers
  PROVE  /\ RequestInv(v) /\ req[v] \in Request /\ req[v].now \in Nat
         /\ clock \in Nat /\ req[v].now <= clock /\ clock <= clock
         /\ req[v].op = "google" => req[v].sub \in Subjects /\ req[v].sub # None
         /\ req[v].op = "google" => req[v].email \in Emails
         /\ req[v].op = "demo" => req[v].email \in Emails /\ req[v].sub = None
         /\ req[v].op = "addMember" => req[v].email \in Emails /\ req[v].sub = None
         /\ req[v].token \in Tokens \cup {None}
<1>1. RequestInv(v) /\ req[v] \in Request /\ clock \in Nat
  BY DEF IInv, TypeOK
<1>2. NamesFit(v) /\ Demos \subseteq Emails
  BY <1>1, AddressAssumption DEF RequestInv, Demos
<1> QED
  BY <1>1, <1>2, AddressAssumption DEF NamesFit, Request

\* A step that changes no table leaves the others' requests as they were, unless it
\* flushes a row.
LEMMA Waiting ==
  ASSUME IInv, NEW w \in Workers, NEW r \in Request, req' = [req EXCEPT ![w] = r],
         r.at \notin {"memberIn", "written"}, UNCHANGED <<accounts, sessions, clock>>,
         RequestInv(w)'
  PROVE  IInv'
<1>1. /\ UNCHANGED <<member, user, signedAs, session, accepted, clock>>
      /\ req' \in [Workers -> Request] /\ req'[w] = r
      /\ \A v \in Workers \ {w} : req'[v] = req[v]
  BY DEF accounts, sessions, IInv, TypeOK
<1>2. TypeOK'
  BY <1>1 DEF IInv, TypeOK
<1>3. ASSUME NEW v \in Workers \ {w} PROVE RequestInv(v)'
  <2>1. RequestInv(v)
    BY InHand
  <2>2. ~MemberPending(w, req[v].email)' /\ ~UserPending(w, req[v].email, req[v].sub)'
    BY <1>1 DEF MemberPending, UserPending, At
  <2>3. Issued \subseteq Issued'
    BY <1>1 DEF Issued
  <2>4. /\ req[v].at \in {"memberIn", "written"} => member[req[v].email] = "absent"
        /\ req[v].at = "written" => user[req[v].email] = NoUser /\ UserOf(req[v].sub) = {}
        /\ req[v].at \in {"linking", "signedIn", "starting"} => user[req[v].email] # NoUser
    BY <2>1 DEF RequestInv, FlushedAlone, KnowsItsUser, At
  <2>5. req[v].at = "written" => \A e \in Emails : user[e].sub # req[v].sub
    BY <2>4 DEF UserOf
  <2> QED
    BY <1>1, <2>2, <2>3, <2>4, <2>5, InHand, Bystander
<1>4. /\ \A e \in Emails : UserInv(e)'
      /\ \A s \in Subjects : SignedInv(s)'
  BY <1>1 DEF IInv, UserInv, SignedInv
<1>5. \A t \in Tokens : SessionInv(t)'
  BY <1>1 DEF IInv, SessionInv
<1> QED
  BY <1>2, <1>3, <1>4, <1>5 DEF IInv

LEMMA Ending ==
  ASSUME IInv, NEW w \in Workers, End(w), UNCHANGED <<accounts, sessions, clock>>
  PROVE  IInv'
<1>1. /\ Idle \in Request /\ Idle.at \notin {"memberIn", "written"}
      /\ req' = [req EXCEPT ![w] = Idle]
      /\ req'[w] = Idle /\ clock' \in Nat
  BY DEF IInv, TypeOK, Request, Idle, End
<1>2. RequestInv(w)'
  BY <1>1, IdleRelies
<1> QED
  BY <1>1, <1>2, Waiting

LEMMA Advanced ==
  ASSUME IInv, NEW w \in Workers,
         NEW s \in {"unlinked", "linking", "new", "noMember", "memberIn", "inserting", "written",
                    "again", "signedIn", "starting", "touching"},
         Advance(w, s)
  PROVE  /\ [req[w] EXCEPT !.at = s] \in Request
         /\ [req[w] EXCEPT !.at = s].at = s
         /\ req' = [req EXCEPT ![w] = [req[w] EXCEPT !.at = s]]
         /\ req' \in [Workers -> Request]
         /\ req'[w].at = s
         /\ req'[w].op = req[w].op /\ req'[w].email = req[w].email /\ req'[w].sub = req[w].sub
         /\ req'[w].token = req[w].token /\ req'[w].now = req[w].now
         /\ \A v \in Workers \ {w} : req'[v] = req[v]
<1>1. req \in [Workers -> Request] /\ req[w] \in Request
  BY DEF IInv, TypeOK
<1>2. [req[w] EXCEPT !.at = s] \in Request /\ [req[w] EXCEPT !.at = s].at = s
  BY <1>1 DEF Request
<1>3. req' = [req EXCEPT ![w] = [req[w] EXCEPT !.at = s]]
  BY <1>1 DEF Advance
<1>4. req' \in [Workers -> Request] /\ req'[w] = [req[w] EXCEPT !.at = s]
  BY <1>1, <1>2, <1>3
<1>5. \A v \in Workers \ {w} : req'[v] = req[v]
  BY <1>1, <1>3
<1> QED
  BY <1>1, <1>2, <1>3, <1>4, <1>5 DEF Request

\* A request that moves on by what it has read.
LEMMA Advancing ==
  ASSUME IInv, NEW w \in Workers,
         NEW s \in {"unlinked", "linking", "new", "noMember", "inserting", "again", "signedIn"},
         Advance(w, s), UNCHANGED <<accounts, sessions, clock>>,
         req[w].op # "none", req[w].at \notin {"signedIn", "starting"},
         s \in {"unlinked", "linking", "new"} => req[w].op = "google",
         s \in {"noMember", "inserting", "signedIn"} => req[w].op \in {"google", "demo", "addMember"},
         s \in {"inserting", "signedIn"} => SigningIn(w),
         s = "noMember" => /\ req[w].op = "google" => req[w].email \notin StaffEmails
                           /\ req[w].op = "demo" => req[w].email = DemoMember,
         s = "inserting" => \/ member[req[w].email] # "absent"
                            \/ req[w].op = "google" /\ req[w].email \in StaffEmails
                            \/ req[w].op = "demo" /\ req[w].email = DemoStaff,
         s = "linking" => req[w].email \in Demos /\ user[req[w].email] # NoUser,
         s = "signedIn" => /\ user[req[w].email] # NoUser
                           /\ req[w].sub # None => user[req[w].email].sub = req[w].sub
  PROVE  IInv'
<1>1. /\ req'[w].at = s
      /\ req'[w].op = req[w].op /\ req'[w].email = req[w].email /\ req'[w].sub = req[w].sub
      /\ req'[w].token = req[w].token /\ req'[w].now = req[w].now
  BY Advanced
<1>2. UNCHANGED <<member, user, session, accepted, clock>> /\ Issued' = Issued
  BY DEF accounts, sessions, Issued
<1>3. RequestInv(w) /\ req[w].op \in {"none", "google", "demo", "addMember", "use"}
  BY InHand DEF Request
<1>4. NamesFit(w)'
  BY <1>1, <1>2, <1>3 DEF RequestInv, NamesFit
<1>5. StagesFit(w)' /\ OwnAddress(w)'
  BY <1>1, <1>3 DEF RequestInv, StagesFit, OwnAddress, SigningIn
<1>6. MembersOnly(w)' /\ FlushedAlone(w)'
  BY <1>1, <1>2 DEF MembersOnly, FlushedAlone, At
<1>7. KnowsItsUser(w)' /\ TouchesAccepted(w)'
  BY <1>1, <1>2, <1>3 DEF RequestInv, KnowsItsUser, TouchesAccepted, At
<1>8. RequestInv(w)'
  BY <1>4, <1>5, <1>6, <1>7 DEF RequestInv
<1> QED
  BY <1>8, Advanced, Waiting

LEMMA Beginning ==
  ASSUME IInv, NEW w \in Workers, BeginAny(w)
  PROVE  IInv'
<1> DEFINE Fits(r) ==
      /\ r \in Request /\ r.at = "begun" /\ r.now \in {0, clock}
      /\ r.op \in {"google", "demo", "addMember", "use"} /\ r.token \in Issued \cup {None}
      /\ r.op = "google" => r.sub \in Subjects /\ r.email \in Addresses[r.sub]
      /\ r.op = "demo" => r.email \in Demos /\ r.sub = None
      /\ r.op = "addMember" => r.email \in Emails /\ r.sub = None
      /\ r.op = "use" => r.email = None /\ r.sub = None /\ r.token \in Issued /\ r.now = clock
<1>1. /\ clock \in Nat /\ Issued \subseteq Tokens /\ Demos \subseteq Emails
      /\ \A s \in Subjects : Addresses[s] \subseteq Emails
  BY InHand, AddressAssumption DEF Issued, Demos
<1>2. PICK r : Fits(r) /\ Begin(w, r)
  <2>1. CASE BeginGoogle(w)
    <3>1. PICK s \in Subjects, t \in Issued \cup {None} : \E e \in Addresses[s] :
            Begin(w, [Idle EXCEPT !.op = "google", !.at = "begun", !.email = e, !.sub = s,
                                  !.token = t])
      BY <2>1 DEF BeginGoogle
    <3>2. PICK e \in Addresses[s] :
            Begin(w, [Idle EXCEPT !.op = "google", !.at = "begun", !.email = e, !.sub = s,
                                  !.token = t])
      BY <3>1
    <3>3. Fits([Idle EXCEPT !.op = "google", !.at = "begun", !.email = e, !.sub = s, !.token = t])
      BY <1>1, <3>1, <3>2 DEF Idle, Request
    <3> QED
      BY <3>2, <3>3
  <2>2. CASE BeginDemo(w)
    <3>1. PICK e \in Demos, t \in Issued \cup {None} :
            Begin(w, [Idle EXCEPT !.op = "demo", !.at = "begun", !.email = e, !.token = t])
      BY <2>2 DEF BeginDemo, Demos
    <3>2. Fits([Idle EXCEPT !.op = "demo", !.at = "begun", !.email = e, !.token = t])
      BY <1>1, <3>1 DEF Idle, Request
    <3> QED
      BY <3>1, <3>2
  <2>3. CASE BeginAddMember(w)
    <3>1. PICK e \in Emails : Begin(w, [Idle EXCEPT !.op = "addMember", !.at = "begun", !.email = e])
      BY <2>3 DEF BeginAddMember
    <3>2. Fits([Idle EXCEPT !.op = "addMember", !.at = "begun", !.email = e])
      BY <1>1, <3>1 DEF Idle, Request
    <3> QED
      BY <3>1, <3>2
  <2>4. CASE BeginUse(w)
    <3>1. PICK t \in Issued :
            Begin(w, [Idle EXCEPT !.op = "use", !.at = "begun", !.token = t, !.now = clock])
      BY <2>4 DEF BeginUse
    <3>2. Fits([Idle EXCEPT !.op = "use", !.at = "begun", !.token = t, !.now = clock])
      BY <1>1, <3>1 DEF Idle, Request
    <3> QED
      BY <3>1, <3>2
  <2> QED
    BY <2>1, <2>2, <2>3, <2>4 DEF BeginAny
<1>3. /\ UNCHANGED <<accounts, sessions, clock>> /\ req' = [req EXCEPT ![w] = r]
      /\ UNCHANGED <<member, user, session, accepted>> /\ Issued' = Issued
      /\ req'[w] = r
  BY <1>2 DEF Begin, accounts, sessions, Issued, IInv, TypeOK
<1>4. NamesFit(w)'
  BY <1>1, <1>2, <1>3 DEF NamesFit
<1>5. StagesFit(w)' /\ MembersOnly(w)' /\ FlushedAlone(w)' /\ KnowsItsUser(w)'
  BY <1>2, <1>3 DEF StagesFit, MembersOnly, FlushedAlone, KnowsItsUser, At, SigningIn
<1>6. OwnAddress(w)'
  BY <1>2, <1>3 DEF OwnAddress
<1>7. TouchesAccepted(w)'
  <2>1. r.op = "use" => session[r.token].started <= clock
    <3>1. \A t \in Issued : session[t].state # "unused"
      BY DEF IInv, SessionInv, Issued
    <3> QED
      BY <1>1, <1>2, <3>1 DEF IInv, SessionInv
  <2> QED
    BY <1>2, <1>3, <2>1 DEF TouchesAccepted, At
<1>8. RequestInv(w)'
  BY <1>4, <1>5, <1>6, <1>7 DEF RequestInv
<1> QED
  BY <1>2, <1>3, <1>8, Waiting

\* The reads of a first sign-in.
LEMMA Reading ==
  ASSUME IInv, NEW w \in Workers,
         \/ GoogleFindSubject(w) \/ GoogleFindAddress(w) \/ GoogleChooseRole(w)
         \/ DemoFind(w) \/ AddMemberCheck(w)
  PROVE  IInv'
<1>0. RequestInv(w) /\ StagesFit(w) /\ OwnAddress(w) /\ MembersOnly(w) /\ FlushedAlone(w)
  BY InHand DEF RequestInv
<1>1. CASE GoogleFindSubject(w)
  <2>1. req[w].op = "google" /\ req[w].at = "begun" /\ UNCHANGED <<accounts, sessions, clock>>
    BY <1>1 DEF GoogleFindSubject, At
  <2>2. CASE Advance(w, "unlinked")
    BY <2>1, <2>2, Advancing
  <2>3. CASE ~Advance(w, "unlinked")
    <3>1. PICK e \in UserOf(req[w].sub) : req' = [req EXCEPT ![w].email = e, ![w].at = "signedIn"]
      BY <1>1, <2>3 DEF GoogleFindSubject
    <3>2. e \in Emails /\ user[e].sub = req[w].sub /\ user[e] # NoUser
      BY <2>1, <3>1, InHand DEF UserOf, NoUser
    <3>3. PICK r \in Request :
            /\ req' = [req EXCEPT ![w] = r]
            /\ r.at = "signedIn" /\ r.op = "google" /\ r.email = e /\ r.sub = req[w].sub
            /\ r.token = req[w].token /\ r.now = req[w].now
      <4>1. req \in [Workers -> Request] /\ req[w] \in Request
        BY DEF IInv, TypeOK
      <4>2. [req[w] EXCEPT !.email = e, !.at = "signedIn"] \in Request
        BY <3>2, <4>1 DEF Request
      <4> QED
        BY <2>1, <3>1, <4>1, <4>2 DEF Request
    <3>4. /\ UNCHANGED <<member, user, session, accepted, clock>> /\ Issued' = Issued
          /\ req'[w] = r /\ r.at \notin {"memberIn", "written"}
      BY <2>1, <3>3 DEF accounts, sessions, Issued, IInv, TypeOK
    <3>5. NamesFit(w)'
      BY <1>0, <2>1, <3>2, <3>3, <3>4 DEF RequestInv, NamesFit
    <3>6. StagesFit(w)' /\ OwnAddress(w)' /\ MembersOnly(w)' /\ FlushedAlone(w)' /\ TouchesAccepted(w)'
      BY <3>3, <3>4 DEF StagesFit, OwnAddress, MembersOnly, FlushedAlone, TouchesAccepted, At,
         SigningIn
    <3>7. KnowsItsUser(w)'
      BY <3>2, <3>3, <3>4 DEF KnowsItsUser, At
    <3>8. RequestInv(w)'
      BY <3>5, <3>6, <3>7 DEF RequestInv
    <3> QED
      BY <2>1, <3>3, <3>4, <3>8, Waiting
  <2> QED
    BY <2>2, <2>3
<1>2. CASE GoogleFindAddress(w)
  <2>1. /\ req[w].op = "google" /\ req[w].at = "unlinked" /\ UNCHANGED <<accounts, sessions, clock>>
        /\ req[w].email \in Emails
        /\ \/ Advance(w, "new")
           \/ user[req[w].email] # NoUser /\ user[req[w].email].sub = None /\ Advance(w, "linking")
           \/ End(w)
    BY <1>2, InHand DEF GoogleFindAddress, At
  <2>2. user[req[w].email] # NoUser /\ user[req[w].email].sub = None => req[w].email \in Demos
    BY <2>1 DEF IInv, UserInv
  <2> QED
    BY <2>1, <2>2, Advancing, Ending
<1>3. CASE GoogleChooseRole(w)
  <2>1. /\ req[w].op = "google" /\ req[w].at = "new" /\ UNCHANGED <<accounts, sessions, clock>>
        /\ \/ req[w].email \in StaffEmails /\ Advance(w, "inserting")
           \/ req[w].email \notin StaffEmails /\ Advance(w, "noMember")
           \/ member[req[w].email] # "absent" /\ Advance(w, "inserting")
           \/ End(w)
    BY <1>0, <1>3 DEF GoogleChooseRole, At, StagesFit
  <2> QED
    BY <2>1, Advancing, Ending DEF SigningIn
<1>4. CASE DemoFind(w)
  <2>1. /\ req[w].op = "demo" /\ req[w].at \in {"begun", "again"}
        /\ UNCHANGED <<accounts, sessions, clock>> /\ req[w].sub = None /\ req[w].email \in Demos
        /\ \/ user[req[w].email] # NoUser /\ Advance(w, "signedIn")
           \/ End(w)
           \/ Advance(w, IF req[w].email = DemoMember THEN "noMember" ELSE "inserting")
    BY <1>0, <1>4, InHand DEF DemoFind, At, RequestInv, NamesFit
  <2>2. CASE user[req[w].email] # NoUser /\ Advance(w, "signedIn")
    BY <2>1, <2>2, Advancing DEF SigningIn
  <2>3. CASE Advance(w, "noMember") /\ req[w].email = DemoMember
    BY <2>1, <2>3, Advancing DEF SigningIn
  <2>4. CASE Advance(w, "inserting") /\ req[w].email = DemoStaff
    BY <2>1, <2>4, Advancing DEF SigningIn
  <2> QED
    BY <2>1, <2>2, <2>3, <2>4, Ending DEF Demos
<1>5. CASE AddMemberCheck(w)
  <2>1. /\ req[w].op = "addMember" /\ req[w].at = "begun" /\ UNCHANGED <<accounts, sessions, clock>>
        /\ Advance(w, "noMember") \/ End(w)
    BY <1>5 DEF AddMemberCheck, At
  <2> QED
    BY <2>1, Advancing, Ending
<1> QED
  BY <1>1, <1>2, <1>3, <1>4, <1>5

\* A row that is flushed is the only one of its keys, and stays so.
LEMMA Flushing ==
  ASSUME IInv, NEW w \in Workers, NEW s \in {"memberIn", "written"},
         Advance(w, s), UNCHANGED <<accounts, sessions, clock>>,
         req[w].at \in {"noMember", "memberIn"}, s = "written" => req[w].op = "google",
         member[req[w].email] = "absent",
         \A v \in Workers \ {w} : ~MemberPending(v, req[w].email),
         s = "written" => /\ user[req[w].email] = NoUser /\ UserOf(req[w].sub) = {}
                          /\ \A v \in Workers \ {w} : ~UserPending(v, req[w].email, req[w].sub)
  PROVE  IInv'
<1>1. /\ req' \in [Workers -> Request]
      /\ req'[w].at = s /\ req'[w].op = req[w].op /\ req'[w].email = req[w].email
      /\ req'[w].sub = req[w].sub /\ req'[w].token = req[w].token /\ req'[w].now = req[w].now
      /\ \A v \in Workers \ {w} : req'[v] = req[v]
  BY Advanced
<1>2. /\ UNCHANGED <<member, user, signedAs, session, accepted, clock>> /\ Issued' = Issued
      /\ UserOf(req[w].sub)' = UserOf(req[w].sub)
  BY <1>1 DEF accounts, sessions, Issued, UserOf
<1>3. TypeOK'
  BY <1>1, <1>2 DEF IInv, TypeOK
<1>4. RequestInv(w) /\ req[w].op \in {"google", "demo", "addMember"}
  BY InHand DEF RequestInv, StagesFit
<1>5. ASSUME NEW v \in Workers \ {w} PROVE RequestInv(v)'
  <2>1. /\ RequestInv(v)
        /\ req[v].at \in {"memberIn", "written"} => member[req[v].email] = "absent"
        /\ req[v].at = "written" => user[req[v].email] = NoUser /\ UserOf(req[v].sub) = {}
        /\ req[v].at \in {"linking", "signedIn", "starting"} => user[req[v].email] # NoUser
        /\ req[v].at = "written" => req[v].op = "google"
    BY InHand DEF RequestInv, FlushedAlone, KnowsItsUser, StagesFit, At
  <2>2. req[v].at = "written" => \A e \in Emails : user[e].sub # req[v].sub
    BY <2>1 DEF UserOf
  <2>3. req[v].at \in {"memberIn", "written"} => ~MemberPending(w, req[v].email)'
    BY <1>1 DEF MemberPending, At
  <2>4. req[v].at = "written" => ~UserPending(w, req[v].email, req[v].sub)'
    BY <1>1, <2>1, InHand DEF UserPending, At
  <2> QED
    BY <1>1, <1>2, <2>1, <2>2, <2>3, <2>4, InHand, Bystander
<1>6. RequestInv(w)'
  <2>1. NamesFit(w)' /\ StagesFit(w)'
    BY <1>1, <1>2, <1>4 DEF RequestInv, NamesFit, StagesFit, SigningIn
  <2>2. OwnAddress(w)' /\ MembersOnly(w)'
    BY <1>1, <1>2, <1>4 DEF RequestInv, OwnAddress, MembersOnly
  <2>3. FlushedAlone(w)'
    BY <1>1, <1>2 DEF FlushedAlone, MemberPending, UserPending, UserOf, At
  <2>4. KnowsItsUser(w)' /\ TouchesAccepted(w)'
    BY <1>1, <1>4 DEF KnowsItsUser, TouchesAccepted, At
  <2> QED
    BY <2>1, <2>2, <2>3, <2>4 DEF RequestInv
<1>7. (\A e \in Emails : UserInv(e)') /\ (\A s1 \in Subjects : SignedInv(s1)')
  BY <1>2 DEF IInv, UserInv, SignedInv
<1>8. \A t \in Tokens : SessionInv(t)'
  BY <1>2 DEF IInv, SessionInv
<1> QED
  BY <1>3, <1>5, <1>6, <1>7, <1>8 DEF IInv

\* A request that loses a race starts over or fails.
LEMMA Losing ==
  ASSUME IInv, NEW w \in Workers, Lose(w), UNCHANGED <<accounts, sessions, clock>>,
         req[w].at \notin {"signedIn", "starting"}
  PROVE  IInv'
<1>1. CASE req[w].op = "demo"
  BY <1>1, Advancing DEF Lose
<1>2. CASE req[w].op # "demo"
  BY <1>2, Ending DEF Lose
<1> QED
  BY <1>1, <1>2

LEMMA InsertsMember ==
  ASSUME IInv, NEW w \in Workers, InsertMember(w)
  PROVE  IInv'
<1>1. /\ req[w].at = "noMember" /\ UNCHANGED <<accounts, sessions, clock>>
      /\ \A v \in Workers \ {w} : ~MemberPending(v, req[w].email)
      /\ \/ member[req[w].email] = "absent" /\ Advance(w, "memberIn")
         \/ Lose(w)
  BY DEF InsertMember, At
<1> QED
  BY <1>1, Flushing, Losing

\* The commit of a new account: its user is the first of its address and of its
\* Google account, and its member record is written with it or was there before.
LEMMA NewAccount ==
  ASSUME IInv, NEW w \in Workers, NEW withMember \in BOOLEAN, AccountRows(w, withMember),
         UNCHANGED <<signedAs, sessions, clock>>, SigningIn(w),
         req[w].at \in {"memberIn", "inserting", "written"},
         withMember <=> req[w].at # "inserting",
         user[req[w].email] = NoUser,
         req[w].sub # None => UserOf(req[w].sub) = {},
         \A v \in Workers \ {w} : ~UserPending(v, req[w].email, req[w].sub)
  PROVE  IInv'
<1>1. PICK e \in Emails :
      /\ e = req[w].email /\ user[e] = NoUser
      /\ user' = [user EXCEPT ![e] = NewUser(w)]
      /\ member' = IF withMember THEN [member EXCEPT ![e] = "signIn"] ELSE member
      /\ Advance(w, "signedIn")
  BY InHand DEF AccountRows, SigningIn
<1>2. /\ req' \in [Workers -> Request]
      /\ req'[w].at = "signedIn" /\ req'[w].op = req[w].op /\ req'[w].email = e
      /\ req'[w].sub = req[w].sub /\ req'[w].token = req[w].token /\ req'[w].now = req[w].now
      /\ \A v \in Workers \ {w} : req'[v] = req[v]
  BY <1>1, Advanced
<1>3. /\ UNCHANGED <<signedAs, session, accepted, clock>> /\ Issued' = Issued
  BY DEF sessions, Issued
<1>4. /\ NewUser(w) \in UserRow /\ NewUser(w) # NoUser /\ NewUser(w).sub = req[w].sub
      /\ NewUser(w).role \in {"staff", "member"}
      /\ req[w].sub \in Subjects \cup {None}
  BY InHand DEF NewUser, UserRow, NoUser, Request
<1>5. /\ user' \in [Emails -> UserRow] /\ user'[e] = NewUser(w)
      /\ \A f \in Emails \ {e} : user'[f] = user[f]
      /\ member' \in [Emails -> MemberRow]
      /\ member'[e] = IF withMember THEN "signIn" ELSE member[e]
      /\ \A f \in Emails \ {e} : member'[f] = member[f]
  BY <1>1, <1>4 DEF IInv, TypeOK, MemberRow
<1>6. TypeOK'
  BY <1>2, <1>3, <1>5 DEF IInv, TypeOK
<1>7. NewUser(w).role = "member" <=> \/ req[w].op = "google" /\ e \notin StaffEmails
                                     \/ req[w].op = "demo" /\ e # DemoStaff
  BY <1>1 DEF NewUser, SigningIn
<1>8. /\ withMember => NewUser(w).role = "member"
      /\ ~withMember => member[e] # "absent" \/ NewUser(w).role = "staff"
  <2>1. MembersOnly(w)
    BY InHand DEF RequestInv
  <2> QED
    BY <1>1, <1>4, <1>7, <2>1, AddressAssumption DEF MembersOnly, SigningIn
<1>9. ASSUME NEW v \in Workers \ {w} PROVE RequestInv(v)'
  <2>1. /\ RequestInv(v)
        /\ req[v].at \in {"memberIn", "written"} =>
             member[req[v].email] = "absent" /\ req[v].email \in Emails
        /\ req[v].at = "written" => user[req[v].email] = NoUser /\ UserOf(req[v].sub) = {}
        /\ req[v].at \in {"linking", "signedIn", "starting"} =>
             user[req[v].email] # NoUser /\ req[v].email \in Emails
        /\ req[v].at = "inserting" => req[v].email \in Emails
        /\ req[v].at = "written" => req[v].op = "google"
    BY InHand DEF RequestInv, FlushedAlone, KnowsItsUser, StagesFit, SigningIn, At
  <2>2. req[v].at \in {"memberIn", "written"} => member'[req[v].email] = "absent"
    <3>1. CASE withMember
      <4>1. \A u \in Workers \ {w} : ~MemberPending(u, e)
        BY <1>1, <3>1, InHand DEF RequestInv, FlushedAlone, At
      <4> QED
        BY <1>5, <2>1, <4>1 DEF MemberPending, At
    <3>2. CASE ~withMember
      BY <1>5, <2>1, <3>2
    <3> QED
      BY <3>1, <3>2
  <2>3. req[v].at = "inserting" /\ member[req[v].email] # "absent" => member'[req[v].email] # "absent"
    BY <1>5, <2>1
  <2>4. req[v].at = "written" => /\ user'[req[v].email] = NoUser
                                 /\ \A f \in Emails : user'[f].sub # req[v].sub
    <3>1. req[v].at = "written" => req[v].email # e
      BY <1>1 DEF UserPending, At
    <3>2. req[v].at = "written" => req[v].sub # req[w].sub
      BY <2>1, InHand DEF UserPending, At
    <3> QED
      BY <1>4, <1>5, <2>1, <3>1, <3>2 DEF UserOf
  <2>5. req[v].at \in {"linking", "signedIn", "starting"} => user'[req[v].email] = user[req[v].email]
    BY <1>1, <1>5, <2>1
  <2>6. ~MemberPending(w, req[v].email)' /\ ~UserPending(w, req[v].email, req[v].sub)'
    BY <1>2 DEF MemberPending, UserPending, At
  <2> QED
    BY <1>2, <1>3, <2>1, <2>2, <2>3, <2>4, <2>5, <2>6, InHand, Bystander
<1>10. RequestInv(w)'
  <2>1. RequestInv(w)
    BY InHand
  <2>2. NamesFit(w)' /\ StagesFit(w)'
    BY <1>1, <1>2, <1>3, <2>1 DEF RequestInv, NamesFit, StagesFit, SigningIn
  <2>3. OwnAddress(w)' /\ MembersOnly(w)' /\ FlushedAlone(w)' /\ TouchesAccepted(w)'
    BY <1>2 DEF OwnAddress, MembersOnly, FlushedAlone, TouchesAccepted, SigningIn, At
  <2>4. KnowsItsUser(w)'
    BY <1>2, <1>4, <1>5 DEF KnowsItsUser, At
  <2> QED
    BY <2>2, <2>3, <2>4 DEF RequestInv
<1>11. ASSUME NEW f \in Emails PROVE UserInv(f)'
  <2>1. UserInv(f) /\ UserInv(e)
    BY DEF IInv
  <2>2. CASE f = e
    <3>1. req[w].sub = None => e \in Demos
      BY <1>1, InHand DEF RequestInv, NamesFit, SigningIn
    <3>2. req[w].sub # None => e \in Addresses[req[w].sub]
      BY <1>1, InHand DEF RequestInv, OwnAddress, SigningIn
    <3>3. \A g \in Emails \ {e} : req[w].sub # None => user[g].sub # req[w].sub
      BY DEF UserOf
    <3>4. member[e] # "signIn"
      BY <1>1, <2>1 DEF UserInv, NoUser
    <3> QED
      BY <1>4, <1>5, <1>8, <2>2, <3>1, <3>2, <3>3, <3>4 DEF UserInv
  <2>3. CASE f # e
    <3>1. user[f].sub # None => user[f].sub # req[w].sub
      BY DEF UserOf
    <3> QED
      BY <1>4, <1>5, <2>1, <2>3, <3>1 DEF UserInv
  <2> QED
    BY <2>2, <2>3
<1>12. ASSUME NEW s \in Subjects PROVE SignedInv(s)'
  <2>1. \A f \in signedAs[s] : f \in Emails /\ user[f].sub = s /\ s # None
    BY AddressAssumption DEF IInv, TypeOK, SignedInv
  <2>2. NoUser.sub = None
    BY DEF NoUser
  <2> QED
    BY <1>1, <1>3, <1>5, <2>1, <2>2 DEF SignedInv
<1>13. \A t \in Tokens : SessionInv(t)'
  BY <1>3 DEF IInv, SessionInv
<1> QED
  BY <1>6, <1>9, <1>10, <1>11, <1>12, <1>13 DEF IInv

LEMMA InsertsUser ==
  ASSUME IInv, NEW w \in Workers, InsertUser(w)
  PROVE  IInv'
<1>1. /\ req[w].op # "addMember" /\ req[w].at \in {"memberIn", "inserting"}
      /\ \A v \in Workers \ {w} : ~UserPending(v, req[w].email, req[w].sub)
      /\ UNCHANGED <<signedAs, sessions, clock>>
  BY DEF InsertUser, At
<1>2. SigningIn(w) /\ StagesFit(w) /\ FlushedAlone(w)
  BY <1>1, InHand DEF RequestInv, StagesFit, SigningIn
<1> DEFINE free == user[req[w].email] = NoUser /\ (req[w].sub # None => UserOf(req[w].sub) = {})
<1>3. CASE ~free
  <2>1. Lose(w) /\ UNCHANGED <<accounts, sessions, clock>>
    BY <1>1, <1>3 DEF InsertUser, accounts
  <2> QED
    BY <1>1, <2>1, Losing
<1>4. CASE free /\ req[w].op = "google" /\ req[w].at = "memberIn"
  <2>1. Advance(w, "written") /\ UNCHANGED <<accounts, sessions, clock>>
    BY <1>1, <1>4 DEF InsertUser, At, accounts
  <2>2. /\ member[req[w].email] = "absent"
        /\ \A v \in Workers \ {w} : ~MemberPending(v, req[w].email)
    BY <1>2, <1>4 DEF FlushedAlone, At
  <2>3. UserOf(req[w].sub) = {}
    BY <1>4, InHand
  <2> QED
    BY <1>1, <1>4, <2>1, <2>2, <2>3, Flushing
<1>5. CASE free /\ ~(req[w].op = "google" /\ req[w].at = "memberIn")
  <2>1. AccountRows(w, req[w].at = "memberIn")
    BY <1>1, <1>5 DEF InsertUser, At
  <2>2. (req[w].at = "memberIn") \in BOOLEAN /\ (req[w].at = "memberIn" <=> req[w].at # "inserting")
    BY <1>1
  <2> QED
    BY <1>1, <1>2, <1>5, <2>1, <2>2, NewAccount
<1> QED
  BY <1>3, <1>4, <1>5

LEMMA Commits ==
  ASSUME IInv, NEW w \in Workers, GoogleCommit(w)
  PROVE  IInv'
<1>1. req[w].at = "written" /\ AccountRows(w, TRUE) /\ UNCHANGED <<signedAs, sessions, clock>>
  BY DEF GoogleCommit, At
<1>2. /\ SigningIn(w) /\ user[req[w].email] = NoUser /\ UserOf(req[w].sub) = {}
      /\ \A v \in Workers \ {w} : ~UserPending(v, req[w].email, req[w].sub)
  BY <1>1, InHand DEF RequestInv, StagesFit, FlushedAlone, SigningIn, At
<1> QED
  BY <1>1, <1>2, NewAccount

LEMMA AddsMember ==
  ASSUME IInv, NEW w \in Workers, AddMemberCommit(w)
  PROVE  IInv'
<1>1. PICK e \in Emails :
      /\ e = req[w].email /\ req[w].at = "memberIn"
      /\ member' = [member EXCEPT ![e] = "desk"] /\ End(w)
      /\ UNCHANGED <<user, signedAs, session, accepted, clock>>
  BY InHand DEF AddMemberCommit, At, sessions
<1>2. /\ req' \in [Workers -> Request] /\ req'[w] = Idle /\ clock' \in Nat
      /\ \A v \in Workers \ {w} : req'[v] = req[v]
  BY <1>1 DEF End, IInv, TypeOK, Idle, Request
<1>3. /\ member' \in [Emails -> MemberRow] /\ member'[e] = "desk"
      /\ \A f \in Emails \ {e} : member'[f] = member[f]
  BY <1>1 DEF IInv, TypeOK, MemberRow
<1>4. TypeOK'
  BY <1>1, <1>2, <1>3 DEF IInv, TypeOK
<1>5. \A v \in Workers \ {w} : ~MemberPending(v, e)
  BY <1>1, InHand DEF RequestInv, FlushedAlone, At
<1>6. ASSUME NEW v \in Workers \ {w} PROVE RequestInv(v)'
  <2>1. /\ RequestInv(v)
        /\ req[v].at \in {"memberIn", "written"} =>
             member[req[v].email] = "absent" /\ req[v].email \in Emails \ {e}
        /\ req[v].at = "written" => user[req[v].email] = NoUser /\ UserOf(req[v].sub) = {}
        /\ req[v].at \in {"linking", "signedIn", "starting"} => user[req[v].email] # NoUser
        /\ req[v].at = "inserting" => req[v].email \in Emails
    BY <1>5, InHand DEF RequestInv, FlushedAlone, KnowsItsUser, StagesFit, SigningIn, At,
       MemberPending
  <2>2. req[v].at = "written" => \A f \in Emails : user[f].sub # req[v].sub
    BY <2>1 DEF UserOf
  <2>3. ~MemberPending(w, req[v].email)' /\ ~UserPending(w, req[v].email, req[v].sub)'
    BY <1>2 DEF MemberPending, UserPending, At, Idle
  <2>4. Issued' = Issued
    BY <1>1 DEF Issued
  <2> QED
    BY <1>1, <1>2, <1>3, <2>1, <2>2, <2>3, <2>4, InHand, Bystander
<1>7. RequestInv(w)'
  BY <1>2, IdleRelies
<1>8. \A f \in Emails : UserInv(f)'
  BY <1>1, <1>3 DEF IInv, UserInv
<1>9. \A s \in Subjects : SignedInv(s)'
  BY <1>1 DEF IInv, SignedInv
<1>10. \A t \in Tokens : SessionInv(t)'
  BY <1>1 DEF IInv, SessionInv
<1> QED
  BY <1>4, <1>6, <1>7, <1>8, <1>9, <1>10 DEF IInv

\* A user whose address the Google account has is linked to it, and to no other: a
\* demo account's address is of one Google account.
LEMMA Links ==
  ASSUME IInv, NEW w \in Workers, GoogleLink(w)
  PROVE  IInv'
<1>1. PICK e \in Emails, s \in Subjects :
      /\ e = req[w].email /\ s = req[w].sub /\ s # None /\ req[w].op = "google"
      /\ req[w].at = "linking" /\ e \in Demos /\ e \in Addresses[s] /\ user[e] # NoUser
  BY InHand DEF GoogleLink, At, RequestInv, StagesFit, OwnAddress, KnowsItsUser
<1>2. CASE UserOf(s) \ {e} # {}
  <2>1. End(w) /\ UNCHANGED <<accounts, sessions, clock>>
    BY <1>1, <1>2 DEF GoogleLink, accounts
  <2> QED
    BY <2>1, Ending
<1>3. CASE UserOf(s) \ {e} = {}
  <2>1. /\ Advance(w, "signedIn") /\ user' = [user EXCEPT ![e].sub = s]
        /\ UNCHANGED <<member, signedAs, session, accepted, clock>>
        /\ \A v \in Workers \ {w} : ~UserPending(v, None, s)
    BY <1>1, <1>3 DEF GoogleLink, sessions
  <2>2. /\ req' \in [Workers -> Request]
        /\ req'[w].at = "signedIn" /\ req'[w].op = "google" /\ req'[w].email = e
        /\ req'[w].sub = s /\ req'[w].token = req[w].token /\ req'[w].now = req[w].now
        /\ \A v \in Workers \ {w} : req'[v] = req[v]
    BY <1>1, <2>1, Advanced
  <2>3. user[e].sub \in {None, s}
    <3>1. user[e].sub # None => user[e].sub \in Subjects /\ e \in Addresses[user[e].sub]
      BY DEF IInv, UserInv, TypeOK, UserRow, NoUser
    <3> QED
      BY <1>1, <3>1, DemoAddressesAssumption DEF Demos
  <2>4. /\ user' \in [Emails -> UserRow] /\ user'[e] # NoUser
        /\ user'[e].sub = s /\ user'[e].role = user[e].role
        /\ \A f \in Emails \ {e} : user'[f] = user[f] /\ user[f].sub # s
    <3>1. user[e] \in [role: {"staff", "member"}, sub: Subjects \cup {None}]
      BY <1>1 DEF IInv, TypeOK, UserRow
    <3>2. [user[e] EXCEPT !.sub = s] \in UserRow
      BY <3>1 DEF UserRow
    <3>3. user'[e] = [user[e] EXCEPT !.sub = s] /\ \A f \in Emails \ {e} : user'[f] = user[f]
      BY <2>1 DEF IInv, TypeOK
    <3>4. user' \in [Emails -> UserRow]
      BY <2>1, <3>2 DEF IInv, TypeOK
    <3>5. \A f \in Emails \ {e} : user[f].sub # s
      BY <1>3 DEF UserOf
    <3> QED
      BY <1>1, <3>1, <3>3, <3>4, <3>5 DEF NoUser
  <2>5. TypeOK'
    BY <2>1, <2>2, <2>4 DEF IInv, TypeOK
  <2>6. ASSUME NEW v \in Workers \ {w} PROVE RequestInv(v)'
    <3>1. /\ RequestInv(v)
          /\ req[v].at \in {"memberIn", "written"} => member[req[v].email] = "absent"
          /\ req[v].at = "written" =>
               user[req[v].email] = NoUser /\ UserOf(req[v].sub) = {} /\ req[v].email \in Emails
          /\ req[v].at \in {"linking", "signedIn", "starting"} =>
               user[req[v].email] # NoUser /\ req[v].email \in Emails
      BY InHand DEF RequestInv, FlushedAlone, KnowsItsUser, StagesFit, SigningIn, At
    <3>2. req[v].at = "written" => /\ user'[req[v].email] = NoUser
                                   /\ \A f \in Emails : user'[f].sub # req[v].sub
      <4>1. req[v].at = "written" => req[v].sub # s /\ req[v].email # e
        BY <1>1, <2>1, <3>1 DEF UserPending, At
      <4> QED
        BY <2>4, <3>1, <4>1 DEF UserOf
    <3>3. req[v].at \in {"linking", "signedIn", "starting"} =>
            /\ user'[req[v].email] # NoUser
            /\ user[req[v].email].sub # None => user'[req[v].email].sub = user[req[v].email].sub
      BY <2>3, <2>4, <3>1
    <3>4. ~MemberPending(w, req[v].email)' /\ ~UserPending(w, req[v].email, req[v].sub)'
      BY <2>2 DEF MemberPending, UserPending, At
    <3>5. Issued' = Issued
      BY <2>1 DEF Issued
    <3> QED
      BY <2>1, <2>2, <3>1, <3>2, <3>3, <3>4, <3>5, InHand, Bystander
  <2>7. RequestInv(w)'
    <3>1. RequestInv(w) /\ Issued' = Issued
      BY <2>1, InHand DEF Issued
    <3>2. NamesFit(w)' /\ StagesFit(w)'
      BY <1>1, <2>1, <2>2, <3>1 DEF RequestInv, NamesFit, StagesFit, SigningIn
    <3>3. OwnAddress(w)' /\ MembersOnly(w)' /\ FlushedAlone(w)' /\ TouchesAccepted(w)'
      BY <2>2 DEF OwnAddress, MembersOnly, FlushedAlone, TouchesAccepted, At
    <3>4. KnowsItsUser(w)'
      BY <2>2, <2>4 DEF KnowsItsUser, At
    <3> QED
      BY <3>2, <3>3, <3>4 DEF RequestInv
  <2>8. ASSUME NEW f \in Emails PROVE UserInv(f)'
    <3>1. UserInv(f) /\ UserInv(e)
      BY DEF IInv
    <3> QED
      BY <1>1, <2>1, <2>4, <3>1 DEF UserInv
  <2>9. ASSUME NEW t \in Subjects PROVE SignedInv(t)'
    <3>1. \A f \in signedAs[t] : f \in Emails /\ user[f].sub = t /\ t # None
      BY AddressAssumption DEF IInv, TypeOK, SignedInv
    <3> QED
      BY <2>1, <2>3, <2>4, <3>1 DEF SignedInv
  <2>10. \A t \in Tokens : SessionInv(t)'
    BY <2>1 DEF IInv, SessionInv
  <2> QED
    BY <2>5, <2>6, <2>7, <2>8, <2>9, <2>10 DEF IInv
<1> QED
  BY <1>2, <1>3

-----------------------------------------------------------------------------
\* Sessions

\* A session that was issued stays so, with its start; no account changes.
Aging ==
  /\ UNCHANGED <<member, user>>
  /\ clock' \in Nat /\ clock <= clock'
  /\ \A t \in Tokens : session[t].state # "unused" =>
       session'[t].state # "unused" /\ session'[t].started = session[t].started
  /\ \A t \in Tokens : accepted[t] \subseteq accepted'[t]

LEMMA IssuedStates ==
  ASSUME IInv
  PROVE  Issued = {t \in Tokens : session[t].state # "unused"}
<1>1. \A t \in Tokens : session[t] = NoSession <=> session[t].state = "unused"
  BY DEF IInv, SessionInv, NoSession
<1> QED
  BY <1>1 DEF Issued

LEMMA IssuedStay ==
  ASSUME IInv, Aging
  PROVE  Issued \subseteq Issued'
<1>1. \A t \in Tokens : session'[t].state # "unused" => session'[t] # NoSession
  BY DEF NoSession
<1> QED
  BY <1>1, IssuedStates DEF Aging, Issued

\* What requests rely on while sessions begin, are used and end.
LEMMA OthersRely ==
  ASSUME IInv, Aging, NEW w \in Workers, \A v \in Workers \ {w} : req'[v] = req[v],
         req'[w].at \notin {"memberIn", "written"}, NEW v \in Workers \ {w}
  PROVE  RequestInv(v)'
<1>1. /\ RequestInv(v)
      /\ req[v].at \in {"memberIn", "written"} => member[req[v].email] = "absent"
      /\ req[v].at = "written" => user[req[v].email] = NoUser /\ UserOf(req[v].sub) = {}
      /\ req[v].at \in {"linking", "signedIn", "starting"} => user[req[v].email] # NoUser
      /\ req[v].op = "use" => req[v].token \in Issued
      /\ req[v].at = "touching" => req[v].op = "use"
  <2>1. NamesFit(v) /\ (req[v].op = "use" => req[v].token # None)
    BY InHand, AddressAssumption DEF RequestInv, NamesFit
  <2> QED
    BY <2>1, InHand DEF RequestInv, FlushedAlone, KnowsItsUser, NamesFit, StagesFit, At
<1>2. req[v].at = "written" => \A f \in Emails : user[f].sub # req[v].sub
  BY <1>1 DEF UserOf
<1>3. ~MemberPending(w, req[v].email)' /\ ~UserPending(w, req[v].email, req[v].sub)'
  BY DEF MemberPending, UserPending, At
<1>4. /\ req[v].op = "use" => session'[req[v].token].started = session[req[v].token].started
      /\ req[v].at = "touching" => accepted[req[v].token] \subseteq accepted'[req[v].token]
  BY <1>1, IssuedStates DEF Aging, Issued
<1> QED
  BY <1>1, <1>2, <1>3, <1>4, IssuedStay, InHand, Bystander DEF Aging

LEMMA AllRely ==
  ASSUME IInv, Aging, req' = req, NEW w \in Workers
  PROVE  RequestInv(w)'
<1>1. RequestInv(w) /\ Issued \subseteq Issued' /\ clock \in Nat /\ req[w].now \in Nat
  BY IssuedStay, InHand
<1>2. UNCHANGED <<member, user>> /\ clock <= clock' /\ clock' \in Nat
  BY DEF Aging
<1>3. req[w].op = "use" => req[w].token \in Issued /\ req[w].token \in Tokens
  BY <1>1, AddressAssumption DEF RequestInv, NamesFit
<1>4. NamesFit(w)' /\ StagesFit(w)' /\ OwnAddress(w)' /\ MembersOnly(w)'
  BY <1>1, <1>2 DEF RequestInv, NamesFit, StagesFit, OwnAddress, MembersOnly, SigningIn
<1>5. FlushedAlone(w)' /\ KnowsItsUser(w)'
  BY <1>1, <1>2 DEF RequestInv, FlushedAlone, KnowsItsUser, MemberPending, UserPending, UserOf, At
<1>6. TouchesAccepted(w)'
  <2>1. req[w].op = "use" => session'[req[w].token].started = session[req[w].token].started
    BY <1>3, IssuedStates DEF Aging
  <2>2. req[w].at = "touching" => req[w].op = "use"
    BY <1>1 DEF RequestInv, StagesFit
  <2> QED
    BY <1>1, <1>3, <2>1, <2>2 DEF RequestInv, TouchesAccepted, At, Aging
<1> QED
  BY <1>4, <1>5, <1>6 DEF RequestInv

\* A session's end changes none of its times.
LEMMA RevokedTimes ==
  ASSUME IInv, NEW t \in Tokens, session' = Revoked(t), UNCHANGED accepted, clock' = clock
  PROVE  /\ session' \in [Tokens -> SessionRow]
         /\ \A x \in Tokens : /\ session'[x].state = "unused" <=> session[x].state = "unused"
                              /\ session'[x].started = session[x].started
                              /\ SessionInv(x)'
<1>1. session \in [Tokens -> SessionRow] /\ session[t] \in SessionRow
  BY DEF IInv, TypeOK
<1>2. [session[t] EXCEPT !.state = IF @ = "live" THEN "revoked" ELSE @] \in SessionRow
  BY <1>1 DEF SessionRow
<1>3. /\ session'[t] = [session[t] EXCEPT !.state = IF @ = "live" THEN "revoked" ELSE @]
      /\ \A x \in Tokens \ {t} : session'[x] = session[x]
      /\ session' \in [Tokens -> SessionRow]
  BY <1>1, <1>2 DEF Revoked
<1>4. /\ session'[t].state = IF session[t].state = "live" THEN "revoked" ELSE session[t].state
      /\ session'[t].started = session[t].started /\ session'[t].seen = session[t].seen
      /\ session'[t].expires = session[t].expires /\ session'[t].user = session[t].user
  BY <1>1, <1>3 DEF SessionRow
<1>5. session[t].state = "unused" => session'[t] = session[t]
  BY <1>1, <1>3 DEF SessionRow
<1>6. SessionInv(t)'
  BY <1>4, <1>5 DEF IInv, SessionInv
<1>7. \A x \in Tokens \ {t} : SessionInv(x)'
  BY <1>3 DEF IInv, SessionInv
<1> QED
  BY <1>3, <1>4, <1>6, <1>7

LEMMA SigningOut ==
  ASSUME IInv, NEW t \in Tokens, SignOut(t)
  PROVE  IInv'
<1>1. session' = Revoked(t) /\ UNCHANGED <<member, user, signedAs, accepted, clock, req>>
  BY DEF SignOut, accounts
<1>2. /\ session' \in [Tokens -> SessionRow]
      /\ \A x \in Tokens : /\ session'[x].state = "unused" <=> session[x].state = "unused"
                           /\ session'[x].started = session[x].started
                           /\ SessionInv(x)'
  BY <1>1, RevokedTimes
<1>3. TypeOK'
  BY <1>1, <1>2 DEF IInv, TypeOK
<1>4. Aging
  BY <1>1, <1>2 DEF Aging, IInv, TypeOK
<1>5. \A w \in Workers : RequestInv(w)'
  BY <1>1, <1>4, AllRely
<1>6. (\A e \in Emails : UserInv(e)') /\ (\A s \in Subjects : SignedInv(s)')
  BY <1>1 DEF IInv, UserInv, SignedInv
<1> QED
  BY <1>2, <1>3, <1>5, <1>6 DEF IInv

LEMMA Ticking == IInv /\ Tick => IInv'
<1> SUFFICES ASSUME IInv, Tick PROVE IInv'
  OBVIOUS
<1>1. /\ UNCHANGED <<member, user, signedAs, session, accepted, req>>
      /\ clock' = clock + 1 /\ clock \in Nat
  BY DEF Tick, accounts, sessions, IInv, TypeOK
<1>2. TypeOK'
  BY <1>1 DEF IInv, TypeOK
<1>3. Aging
  BY <1>1 DEF Aging
<1>4. \A w \in Workers : RequestInv(w)'
  BY <1>1, <1>3, AllRely
<1>5. (\A e \in Emails : UserInv(e)') /\ (\A s \in Subjects : SignedInv(s)')
  BY <1>1 DEF IInv, UserInv, SignedInv
<1>6. ASSUME NEW t \in Tokens PROVE SessionInv(t)'
  <2>1. session[t].started \in Nat
    BY DEF IInv, TypeOK, SessionRow
  <2> QED
    BY <1>1, <2>1 DEF IInv, SessionInv
<1> QED
  BY <1>2, <1>4, <1>5, <1>6 DEF IInv

\* A sign-in that has its user ends the browser's previous session and is known to
\* have signed in as that user.
LEMMA EndsPrevious ==
  ASSUME IInv, NEW w \in Workers, EndPrevious(w)
  PROVE  IInv'
<1>1. /\ req[w].at = "signedIn" /\ SigningIn(w) /\ clock \in Nat /\ RequestInv(w)
      /\ user[req[w].email] # NoUser
      /\ req[w].sub # None => user[req[w].email].sub = req[w].sub
  BY InHand DEF EndPrevious, At, RequestInv, StagesFit, KnowsItsUser
<1>2. /\ req' = [req EXCEPT ![w].at = "starting", ![w].now = clock]
      /\ session' = IF req[w].token = None THEN session ELSE Revoked(req[w].token)
      /\ UNCHANGED <<member, user, accepted, clock>>
  BY DEF EndPrevious
<1>3. /\ req' \in [Workers -> Request]
      /\ req'[w].at = "starting" /\ req'[w].op = req[w].op /\ req'[w].email = req[w].email
      /\ req'[w].sub = req[w].sub /\ req'[w].token = req[w].token /\ req'[w].now = clock
      /\ \A v \in Workers \ {w} : req'[v] = req[v]
  <2>1. req \in [Workers -> Request] /\ req[w] \in Request
    BY InHand DEF IInv, TypeOK
  <2>2. [req[w] EXCEPT !.at = "starting", !.now = clock] \in Request
    BY <1>1, <2>1 DEF Request
  <2>3. /\ req'[w] = [req[w] EXCEPT !.at = "starting", !.now = clock]
        /\ \A v \in Workers \ {w} : req'[v] = req[v]
    BY <1>2, <2>1
  <2>4. req' \in [Workers -> Request]
    BY <1>2, <2>1, <2>2
  <2> QED
    BY <2>1, <2>3, <2>4 DEF Request
<1>4. /\ session' \in [Tokens -> SessionRow]
      /\ \A x \in Tokens : /\ session'[x].state = "unused" <=> session[x].state = "unused"
                           /\ session'[x].started = session[x].started
                           /\ SessionInv(x)'
  <2>1. CASE req[w].token = None
    BY <1>2, <2>1 DEF IInv, TypeOK, SessionInv
  <2>2. CASE req[w].token # None
    <3>1. PICK t \in Tokens : t = req[w].token
      BY <2>2, InHand
    <3>2. session' = Revoked(t)
      BY <1>2, <2>2, <3>1
    <3> QED
      BY <1>2, <3>2, RevokedTimes
  <2> QED
    BY <2>1, <2>2
<1>5. Aging
  BY <1>1, <1>2, <1>4 DEF Aging
<1>6. \A s \in Subjects :
        signedAs'[s] = IF s = req[w].sub THEN signedAs[s] \cup {req[w].email} ELSE signedAs[s]
  BY DEF EndPrevious
<1>7. TypeOK'
  <2>1. signedAs' \in [Subjects -> SUBSET Emails]
    BY <1>1, InHand DEF EndPrevious, SigningIn, IInv, TypeOK
  <2> QED
    BY <1>2, <1>3, <1>4, <2>1 DEF IInv, TypeOK
<1>8. ASSUME NEW v \in Workers \ {w} PROVE RequestInv(v)'
  BY <1>3, <1>5, OthersRely
<1>9. RequestInv(w)'
  <2>1. NamesFit(w)'
    BY <1>1, <1>2, <1>3, <1>5, IssuedStay DEF RequestInv, NamesFit, SigningIn
  <2>2. StagesFit(w)' /\ OwnAddress(w)' /\ MembersOnly(w)' /\ FlushedAlone(w)'
    BY <1>1, <1>3 DEF StagesFit, OwnAddress, MembersOnly, FlushedAlone, SigningIn, At
  <2>3. KnowsItsUser(w)' /\ TouchesAccepted(w)'
    BY <1>1, <1>2, <1>3 DEF KnowsItsUser, TouchesAccepted, SigningIn, At
  <2> QED
    BY <2>1, <2>2, <2>3 DEF RequestInv
<1>10. \A e \in Emails : UserInv(e)'
  BY <1>2 DEF IInv, UserInv
<1>11. ASSUME NEW s \in Subjects PROVE SignedInv(s)'
  <2>1. s # None /\ \A e \in signedAs[s] : user[e].sub = s
    BY AddressAssumption DEF IInv, SignedInv
  <2>2. \A e \in signedAs'[s] : user[e].sub = s
    BY <1>1, <1>6, <2>1
  <2> QED
    BY <1>2, <2>2 DEF SignedInv
<1> QED
  BY <1>4, <1>7, <1>8, <1>9, <1>10, <1>11 DEF IInv

\* The new session starts with the time of its sign-in; the user's expired ones are
\* deleted, which no request that holds one of them can tell from their times.
LEMMA Starts ==
  ASSUME IInv, NEW w \in Workers, StartSession(w)
  PROVE  IInv'
<1>1. PICK new \in Tokens, e \in Emails, now \in Nat :
      /\ session[new] = NoSession /\ e = req[w].email /\ now = req[w].now /\ now <= clock
      /\ \E old \in SUBSET (Tokens \ {new}) :
           session' = [t \in Tokens |->
             IF t = new THEN [state |-> "live", user |-> e, started |-> now, seen |-> now,
                              expires |-> now + Lifetime]
             ELSE IF t \in old THEN [session[t] EXCEPT !.state = "deleted"] ELSE session[t]]
      /\ \A t \in Tokens \ {new} : session'[t] # session[t] => session[t].state # "unused"
  <2>1. /\ req[w].at = "starting" /\ SigningIn(w) /\ req[w].email \in Emails
        /\ req[w].now \in Nat /\ req[w].now <= clock
    BY InHand DEF StartSession, At, RequestInv, StagesFit, SigningIn
  <2> DEFINE old == {t \in Tokens : /\ session[t].user = req[w].email
                                   /\ session[t].state \in {"live", "revoked"}
                                   /\ session[t].expires <= req[w].now}
  <2>2. PICK new \in Tokens : session[new] = NoSession
          /\ session' = [t \in Tokens |->
            IF t = new THEN [state |-> "live", user |-> req[w].email, started |-> req[w].now,
                             seen |-> req[w].now, expires |-> req[w].now + Lifetime]
            ELSE IF t \in old THEN [session[t] EXCEPT !.state = "deleted"] ELSE session[t]]
    BY DEF StartSession
  <2>3. old \in SUBSET (Tokens \ {new})
    BY <2>2 DEF NoSession
  <2>4. ASSUME NEW t \in Tokens \ {new}, session'[t] # session[t]
        PROVE  session[t].state # "unused"
    BY <2>2, <2>4
  <2> HIDE DEF old
  <2> QED
    BY <2>1, <2>2, <2>3, <2>4
<1>2. UNCHANGED <<member, user, signedAs, accepted, clock>> /\ End(w)
  BY DEF StartSession, accounts
<1>3. /\ session'[new].state = "live" /\ session'[new].user = e
      /\ session'[new].started = now /\ session'[new].seen = now
      /\ session'[new].expires = now + Lifetime
      /\ session'[new] \in SessionRow
  <2>1. now + Lifetime \in Nat
    BY TimesAssumption
  <2> QED
    BY <1>1, <2>1 DEF SessionRow
<1>4. ASSUME NEW t \in Tokens \ {new}
      PROVE  /\ session'[t] \in SessionRow
             /\ session'[t] = session[t] \/ session'[t] = [session[t] EXCEPT !.state = "deleted"]
             /\ session'[t].started = session[t].started /\ session'[t].seen = session[t].seen
             /\ session'[t].expires = session[t].expires /\ session'[t].user = session[t].user
             /\ session[t].state = "unused" <=> session'[t].state = "unused"
             /\ session[t].state = "unused" => session'[t] = session[t]
  <2>1. session[t] \in SessionRow
    BY DEF IInv, TypeOK
  <2>2. session'[t] = session[t] \/ session'[t] = [session[t] EXCEPT !.state = "deleted"]
    BY <1>1
  <2>3. [session[t] EXCEPT !.state = "deleted"] \in SessionRow
    BY <2>1 DEF SessionRow
  <2> QED
    BY <1>1, <2>1, <2>2, <2>3 DEF SessionRow
<1>5. session' \in [Tokens -> SessionRow]
  <2>1. \E f \in [Tokens -> {session'[t] : t \in Tokens}] : session' = f
    BY <1>1
  <2>2. \A t \in Tokens : session'[t] \in SessionRow
    BY <1>3, <1>4
  <2> QED
    BY <2>1, <2>2
<1>6. /\ req' \in [Workers -> Request] /\ req'[w] = Idle /\ clock' \in Nat
      /\ \A v \in Workers \ {w} : req'[v] = req[v]
  BY <1>2 DEF End, IInv, TypeOK, Idle, Request
<1>7. Aging
  BY <1>1, <1>2, <1>4, <1>6 DEF Aging, NoSession
<1>8. TypeOK'
  BY <1>2, <1>5, <1>6 DEF IInv, TypeOK
<1>9. ASSUME NEW v \in Workers PROVE RequestInv(v)'
  <2>1. CASE v = w
    BY <1>6, <2>1, IdleRelies
  <2>2. CASE v # w
    BY <1>6, <1>7, <2>2, OthersRely DEF Idle
  <2> QED
    BY <2>1, <2>2
<1>10. (\A f \in Emails : UserInv(f)') /\ (\A s \in Subjects : SignedInv(s)')
  BY <1>2 DEF IInv, UserInv, SignedInv
<1>11. SessionInv(new)'
  <2>1. accepted[new] = {}
    BY <1>1 DEF IInv, SessionInv, NoSession
  <2> QED
    BY <1>1, <1>2, <1>3, <2>1 DEF SessionInv
<1>12. ASSUME NEW t \in Tokens \ {new} PROVE SessionInv(t)'
  <2>1. SessionInv(t)
    BY DEF IInv
  <2> QED
    BY <1>2, <1>4, <2>1 DEF SessionInv
<1> QED
  BY <1>8, <1>9, <1>10, <1>11, <1>12 DEF IInv

\* An accepted request comes within the idle timeout of the last time it could read,
\* which is one the session was accepted at.
LEMMA Accepts ==
  ASSUME IInv, NEW t \in Tokens, NEW now \in Nat, UNCHANGED <<session, clock>>,
         session[t].state = "live", session[t].started <= now, now < session[t].expires,
         Since(now, session[t].seen) < IdleTimeout,
         accepted' = [accepted EXCEPT ![t] = @ \cup {now}]
  PROVE  \A x \in Tokens : SessionInv(x)'
<1>1. /\ session[t].started \in Nat /\ session[t].seen \in Nat /\ IdleTimeout \in Nat
      /\ SessionInv(t) /\ accepted'[t] = accepted[t] \cup {now} /\ accepted[t] \subseteq Nat
      /\ session[t].seen \in accepted[t] \cup {session[t].started}
  BY TimesAssumption DEF IInv, TypeOK, SessionRow, SessionInv
<1>2. ASSUME NEW k \in Nat, session[t].started < k, k <= now
      PROVE  \E m \in accepted'[t] \cup {session[t].started} : m < k /\ k - m < IdleTimeout
  <2>1. CASE k <= session[t].seen
    <3>1. session[t].seen \in accepted[t]
      BY <1>1, <1>2, <2>1
    <3> QED
      BY <1>1, <1>2, <2>1, <3>1 DEF SessionInv
  <2>2. CASE session[t].seen < k
    <3>1. session[t].seen <= now /\ now - session[t].seen < IdleTimeout
      BY <1>1, <1>2, <2>2 DEF Since
    <3>2. k - session[t].seen < IdleTimeout
      BY <1>1, <1>2, <2>2, <3>1
    <3> QED
      BY <1>1, <2>2, <3>2
  <2> QED
    BY <1>1, <2>1, <2>2
<1>3. ASSUME NEW n \in accepted[t]
      PROVE  /\ session[t].started <= n /\ n < session[t].expires
             /\ \A k \in Nat : session[t].started < k /\ k <= n =>
                  \E m \in accepted'[t] \cup {session[t].started} : m < k /\ k - m < IdleTimeout
  BY <1>1 DEF SessionInv
<1>4. SessionInv(t)'
  <2>1. \A n \in accepted'[t] :
          /\ session[t].started <= n /\ n < session[t].expires
          /\ \A k \in Nat : session[t].started < k /\ k <= n =>
               \E m \in accepted'[t] \cup {session[t].started} : m < k /\ k - m < IdleTimeout
    BY <1>1, <1>2, <1>3
  <2> QED
    BY <1>1, <2>1 DEF SessionInv
<1>5. ASSUME NEW x \in Tokens \ {t} PROVE SessionInv(x)'
  <2>1. SessionInv(x) /\ accepted'[x] = accepted[x]
    BY DEF IInv, TypeOK
  <2> QED
    BY <2>1 DEF SessionInv
<1> QED
  BY <1>4, <1>5

LEMMA Uses ==
  ASSUME IInv, NEW w \in Workers, Use(w)
  PROVE  IInv'
<1>1. PICK t \in Tokens, now \in Nat :
      /\ t = req[w].token /\ now = req[w].now /\ now <= clock /\ session[t].started <= now
      /\ req[w].op = "use" /\ RequestInv(w) /\ clock \in Nat
      /\ req[w].at \notin {"signedIn", "starting", "linking"} /\ req[w].at = "begun"
  BY InHand DEF Use, At, RequestInv, NamesFit, TouchesAccepted
<1> DEFINE idle == Since(now, session[t].seen)
           ok == session[t].state = "live" /\ now < session[t].expires /\ idle < IdleTimeout
<1>2. /\ accepted' = IF ok THEN [accepted EXCEPT ![t] = @ \cup {now}] ELSE accepted
      /\ IF ok /\ idle >= TouchInterval THEN Advance(w, "touching") ELSE End(w)
      /\ UNCHANGED <<member, user, signedAs, session, clock>>
  BY <1>1 DEF Use, accounts
<1>3. CASE ~ok
  <2>1. UNCHANGED <<accounts, sessions, clock>> /\ End(w)
    BY <1>2, <1>3 DEF accounts, sessions
  <2> QED
    BY <2>1, Ending
<1>4. CASE ok
  <2>1. accepted' = [accepted EXCEPT ![t] = @ \cup {now}]
    BY <1>2, <1>4
  <2>2. /\ accepted' \in [Tokens -> SUBSET Nat] /\ now \in accepted'[t]
        /\ \A x \in Tokens : accepted[x] \subseteq accepted'[x]
    BY <2>1 DEF IInv, TypeOK
  <2>3. \A x \in Tokens : SessionInv(x)'
    BY <1>1, <1>2, <1>4, <2>1, Accepts
  <2>4. Aging
    BY <1>1, <1>2, <2>2 DEF Aging
  <2>5. /\ req' \in [Workers -> Request] /\ RequestInv(w)'
        /\ req'[w].at \notin {"memberIn", "written"}
        /\ \A v \in Workers \ {w} : req'[v] = req[v]
    <3>1. CASE End(w)
      <4>1. /\ req' \in [Workers -> Request] /\ req'[w] = Idle
            /\ \A v \in Workers \ {w} : req'[v] = req[v]
        BY <3>1 DEF End, IInv, TypeOK, Idle, Request
      <4> QED
        BY <1>1, <1>2, <4>1, IdleRelies DEF Idle
    <3>2. CASE Advance(w, "touching")
      <4>1. /\ req' \in [Workers -> Request] /\ req'[w].at = "touching"
            /\ req'[w].op = req[w].op /\ req'[w].email = req[w].email /\ req'[w].sub = req[w].sub
            /\ req'[w].token = req[w].token /\ req'[w].now = req[w].now
            /\ \A v \in Workers \ {w} : req'[v] = req[v]
        BY <3>2, Advanced
      <4>2. NamesFit(w)'
        BY <1>1, <1>2, <4>1, <2>4, IssuedStay DEF RequestInv, NamesFit
      <4>3. StagesFit(w)' /\ OwnAddress(w)' /\ MembersOnly(w)' /\ FlushedAlone(w)'
        BY <1>1, <4>1 DEF StagesFit, OwnAddress, MembersOnly, FlushedAlone, At
      <4>4. KnowsItsUser(w)' /\ TouchesAccepted(w)'
        BY <1>1, <1>2, <2>2, <4>1 DEF KnowsItsUser, TouchesAccepted, At
      <4> QED
        BY <4>1, <4>2, <4>3, <4>4 DEF RequestInv
    <3> QED
      BY <1>2, <3>1, <3>2
  <2>6. TypeOK'
    BY <1>2, <2>2, <2>5 DEF IInv, TypeOK
  <2>7. ASSUME NEW v \in Workers PROVE RequestInv(v)'
    <3>1. CASE v = w
      BY <2>5, <3>1
    <3>2. CASE v # w
      BY <2>4, <2>5, <3>2, OthersRely
    <3> QED
      BY <3>1, <3>2
  <2>8. (\A e \in Emails : UserInv(e)') /\ (\A s \in Subjects : SignedInv(s)')
    BY <1>2 DEF IInv, UserInv, SignedInv
  <2> QED
    BY <2>3, <2>6, <2>7, <2>8 DEF IInv
<1> QED
  BY <1>3, <1>4

\* A late touch may set the last-seen time back, but to a time of the session.
LEMMA Touches ==
  ASSUME IInv, NEW w \in Workers, Touch(w)
  PROVE  IInv'
<1>1. PICK t \in Tokens, now \in Nat :
      /\ t = req[w].token /\ now = req[w].now /\ now \in accepted[t]
      /\ End(w) /\ UNCHANGED <<member, user, signedAs, accepted, clock>>
      /\ session' = IF session[t].state = "deleted" THEN session
                    ELSE [session EXCEPT ![t].seen = now]
  <2>1. /\ req[w].op = "use" /\ req[w].token \in Tokens /\ req[w].now \in Nat
        /\ req[w].now \in accepted[req[w].token]
    BY InHand DEF Touch, At, RequestInv, StagesFit, NamesFit, TouchesAccepted
  <2> QED
    BY <2>1 DEF Touch, accounts
<1>2. CASE session[t].state = "deleted"
  <2>1. UNCHANGED <<accounts, sessions, clock>> /\ End(w)
    BY <1>1, <1>2 DEF accounts, sessions
  <2> QED
    BY <2>1, Ending
<1>3. CASE session[t].state # "deleted"
  <2>1. session \in [Tokens -> SessionRow] /\ session[t] \in SessionRow /\ SessionInv(t)
    BY DEF IInv, TypeOK
  <2>2. session[t].state # "unused"
    BY <1>1, <2>1 DEF SessionInv
  <2>3. /\ session' \in [Tokens -> SessionRow]
        /\ session'[t].state = session[t].state /\ session'[t].user = session[t].user
        /\ session'[t].started = session[t].started /\ session'[t].seen = now
        /\ session'[t].expires = session[t].expires
        /\ \A x \in Tokens \ {t} : session'[x] = session[x]
    BY <1>1, <1>3, <2>1 DEF SessionRow
  <2>4. /\ req' \in [Workers -> Request] /\ req'[w] = Idle /\ clock' \in Nat /\ clock <= clock'
        /\ \A v \in Workers \ {w} : req'[v] = req[v]
    BY <1>1 DEF End, IInv, TypeOK, Idle, Request
  <2>5. Aging
    <3>1. \A x \in Tokens : session'[x].state = session[x].state
                            /\ session'[x].started = session[x].started
      BY <2>3
    <3> QED
      BY <1>1, <2>4, <3>1 DEF Aging
  <2>6. TypeOK'
    BY <1>1, <2>3, <2>4 DEF IInv, TypeOK
  <2>7. ASSUME NEW v \in Workers PROVE RequestInv(v)'
    <3>1. CASE v = w
      BY <2>4, <3>1, IdleRelies
    <3>2. CASE v # w
      BY <2>4, <2>5, <3>2, OthersRely DEF Idle
    <3> QED
      BY <3>1, <3>2
  <2>8. (\A e \in Emails : UserInv(e)') /\ (\A s \in Subjects : SignedInv(s)')
    BY <1>1 DEF IInv, UserInv, SignedInv
  <2>9. SessionInv(t)'
    BY <1>1, <2>1, <2>2, <2>3 DEF SessionInv
  <2>10. ASSUME NEW x \in Tokens \ {t} PROVE SessionInv(x)'
    <3>1. SessionInv(x)
      BY DEF IInv
    <3> QED
      BY <1>1, <2>3, <3>1 DEF SessionInv
  <2> QED
    BY <2>6, <2>7, <2>8, <2>9, <2>10 DEF IInv
<1> QED
  BY <1>2, <1>3

-----------------------------------------------------------------------------
\* Theorems

LEMMA NextIInv == IInv /\ [Next]_vars => IInv'
<1> SUFFICES ASSUME IInv, [Next]_vars PROVE IInv'
  OBVIOUS
<1>1. ASSUME NEW w \in Workers, BeginAny(w) PROVE IInv'
  BY <1>1, Beginning
<1>2. ASSUME NEW w \in Workers, Step(w) PROVE IInv'
  BY <1>2, Reading, Links, InsertsMember, AddsMember, InsertsUser, Commits, EndsPrevious,
     Starts, Uses, Touches DEF Step
<1>3. ASSUME NEW w \in Workers, Abort(w) PROVE IInv'
  BY <1>3, Ending DEF Abort
<1>4. ASSUME NEW t \in Tokens, SignOut(t) PROVE IInv'
  BY <1>4, SigningOut
<1>5. CASE Tick
  BY <1>5, Ticking
<1>6. CASE UNCHANGED vars
  BY <1>6 DEF vars, accounts, sessions, IInv, TypeOK, RequestInv, NamesFit, StagesFit, OwnAddress,
     MembersOnly, FlushedAlone, KnowsItsUser, TouchesAccepted, UserInv, SignedInv, SessionInv,
     MemberPending, UserPending, UserOf, Issued, SigningIn, At
<1> QED
  BY <1>1, <1>2, <1>3, <1>4, <1>5, <1>6 DEF Next

\* The inductive invariant: what requests rely on, users, sign-ins and session times
\* fit, whatever first sign-ins and requests do at once.
THEOREM Invariance == Spec => []IInv
<1> QED
  BY InitIInv, NextIInv, PTL DEF Spec

\* The types of tables and requests.
THEOREM TypeCorrect == Spec => []TypeOK
<1>1. IInv => TypeOK
  BY DEF IInv
<1> QED
  BY <1>1, Invariance, PTL

\* A Google account signs in as one user for good, and two never as the same one
\* (auth.py:201-209): the user a sign-in started from keeps its Google account, which
\* has no other user.
THEOREM SubjectsHaveOneAccount == Spec => []OneAccountPerSubject
<1>1. IInv => OneAccountPerSubject
  <2> SUFFICES ASSUME IInv PROVE OneAccountPerSubject
    OBVIOUS
  <2>1. ASSUME NEW s \in Subjects, NEW e \in signedAs[s]
        PROVE  e \in Emails /\ user[e].sub = s /\ s # None
    BY AddressAssumption DEF IInv, TypeOK, SignedInv
  <2>2. ASSUME NEW s \in Subjects PROVE Cardinality(signedAs[s]) <= 1
    <3>1. ASSUME NEW e \in signedAs[s], NEW f \in signedAs[s] PROVE f = e
      BY <2>1 DEF IInv, UserInv
    <3>2. signedAs[s] = {} \/ \E e \in signedAs[s] : signedAs[s] = {e}
      BY <3>1
    <3> QED
      BY <3>2, FS_EmptySet, FS_Singleton
  <2> QED
    BY <2>1, <2>2 DEF OneAccountPerSubject
<1> QED
  BY <1>1, Invariance, PTL

\* A sign-in's member record and its user appear together, and a member's user is
\* never without a record (auth.py:145-175, 224-256).
THEOREM MembersAndUsersMatch == Spec => []MembersComeWithUsers
<1>1. IInv => MembersComeWithUsers
  BY DEF IInv, UserInv, MembersComeWithUsers
<1> QED
  BY <1>1, Invariance, PTL

\* No request is accepted past the lifetime or after an idle timeout without one,
\* although touches are written late and in any order (auth.py:91-97).
THEOREM SessionsAreUsed == Spec => []SessionsLiveByUse
<1>1. IInv => SessionsLiveByUse
  <2> SUFFICES ASSUME IInv, NEW t \in Tokens, NEW n \in accepted[t]
               PROVE  /\ n < session[t].expires
                      /\ n = session[t].started
                         \/ \E m \in accepted[t] \cup {session[t].started} :
                              m < n /\ n - m < IdleTimeout
    BY DEF SessionsLiveByUse
  <2>1. SessionInv(t) /\ n \in Nat /\ session[t].started \in Nat
    BY DEF IInv, TypeOK, SessionRow
  <2>2. n < session[t].expires /\ session[t].started <= n
    BY <2>1 DEF SessionInv
  <2>3. n # session[t].started =>
          \E m \in accepted[t] \cup {session[t].started} : m < n /\ n - m < IdleTimeout
    <3>1. session[t].started < n /\ n <= n => \E m \in accepted[t] \cup {session[t].started} :
                                                m < n /\ n - m < IdleTimeout
      BY <2>1 DEF SessionInv
    <3> QED
      BY <2>1, <2>2, <3>1
  <2> QED
    BY <2>2, <2>3
<1> QED
  BY <1>1, Invariance, PTL

\* A session that was signed out of stays so: a request that reads it later is refused,
\* and a touch that was on its way writes only its time (auth.py:95, 101-109).
THEOREM SignOutsAreFinal == Spec => SignedOutIsFinal
<1> DEFINE Final(t) == session[t].state \in {"revoked", "deleted"} =>
             session'[t].state \in {"revoked", "deleted"} /\ accepted'[t] = accepted[t]
<1>1. IInv /\ [Next]_vars => [\A t \in Tokens : Final(t)]_vars
  <2> SUFFICES ASSUME IInv, Next, NEW t \in Tokens PROVE Final(t)
    OBVIOUS
  <2>1. /\ session \in [Tokens -> SessionRow] /\ accepted \in [Tokens -> SUBSET Nat]
        /\ session[t] \in SessionRow
    BY DEF IInv, TypeOK
  <2>2. CASE UNCHANGED sessions
    BY <2>2 DEF sessions
  <2>3. ASSUME NEW x \in Tokens, session' = Revoked(x), UNCHANGED accepted PROVE Final(t)
    <3>1. session'[t] \in {session[t], [session[t] EXCEPT !.state = "revoked"]}
      BY <2>1, <2>3 DEF Revoked, SessionRow
    <3> QED
      BY <2>1, <2>3, <3>1 DEF SessionRow
  <2>4. ASSUME NEW w \in Workers, EndPrevious(w) PROVE Final(t)
    <3>1. UNCHANGED accepted
      BY <2>4 DEF EndPrevious
    <3>2. session' = session \/ \E x \in Tokens : session' = Revoked(x)
      BY <2>4, InHand DEF EndPrevious
    <3> QED
      BY <2>3, <3>1, <3>2
  <2>5. ASSUME NEW w \in Workers, StartSession(w) PROVE Final(t)
    <3>1. UNCHANGED accepted
      BY <2>5 DEF StartSession
    <3>2. session'[t] = session[t] \/ session'[t] = [session[t] EXCEPT !.state = "deleted"]
          \/ session[t] = NoSession
      BY <2>5 DEF StartSession
    <3> QED
      BY <2>1, <3>1, <3>2 DEF SessionRow, NoSession
  <2>6. ASSUME NEW w \in Workers, Use(w) PROVE Final(t)
    <3>1. session' = session
      BY <2>6 DEF Use
    <3>2. accepted'[t] = accepted[t] \/ (session[req[w].token].state = "live" /\ t = req[w].token)
      BY <2>1, <2>6 DEF Use
    <3> QED
      BY <3>1, <3>2
  <2>7. ASSUME NEW w \in Workers, Touch(w) PROVE Final(t)
    <3>1. accepted' = accepted
      BY <2>7 DEF Touch
    <3>2. session'[t] = session[t] \/ session'[t] = [session[t] EXCEPT !.seen = req[w].now]
      BY <2>1, <2>7 DEF Touch
    <3> QED
      BY <2>1, <3>1, <3>2 DEF SessionRow
  <2>8. ASSUME NEW w \in Workers,
               BeginAny(w) \/ Abort(w) \/ GoogleFindSubject(w) \/ GoogleFindAddress(w)
               \/ GoogleLink(w) \/ GoogleChooseRole(w) \/ DemoFind(w) \/ AddMemberCheck(w)
               \/ InsertMember(w) \/ AddMemberCommit(w) \/ InsertUser(w) \/ GoogleCommit(w)
        PROVE  UNCHANGED sessions
    BY <2>8 DEF BeginAny, BeginGoogle, BeginDemo, BeginAddMember, BeginUse, Begin, Abort,
       GoogleFindSubject, GoogleFindAddress, GoogleLink, GoogleChooseRole, DemoFind,
       AddMemberCheck, InsertMember, AddMemberCommit, InsertUser, GoogleCommit
  <2>9. ASSUME NEW x \in Tokens, SignOut(x) PROVE Final(t)
    BY <2>3, <2>9 DEF SignOut
  <2>10. Tick => UNCHANGED sessions
    BY DEF Tick
  <2> QED
    BY <2>2, <2>4, <2>5, <2>6, <2>7, <2>8, <2>9, <2>10 DEF Next, Step
<1>2. Spec => [][\A t \in Tokens : Final(t)]_vars
  BY <1>1, Invariance, PTL DEF Spec
<1> QED
  BY <1>2 DEF SignedOutIsFinal
=============================================================================
