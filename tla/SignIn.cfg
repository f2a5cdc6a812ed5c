\* Two requests at a time: first sign-ins that meet, and then the sessions of
\* one account until they idle out, expire or are signed out of.
CONSTANTS
  Workers = {w1, w2}
  reader = reader
  librarian = librarian
  demoMember = demoMember
  demoStaff = demoStaff
  s1 = s1
  s2 = s2
  s3 = s3
  Emails <- MCEmails
  StaffEmails = {librarian}
  DemoMember = demoMember
  DemoStaff = demoStaff
  Subjects <- MCSubjects
  Addresses <- MCAddresses
  Tokens = {t1, t2}
  None = None
  Lifetime = 3
  IdleTimeout = 2
  TouchInterval = 1
  MaxTime = 4
SPECIFICATION Spec
SYMMETRY Symmetry
CONSTRAINT AccountsOrSessions
INVARIANTS
  OneAccountPerSubject
  MembersComeWithUsers
  SessionsLiveByUse
PROPERTIES
  SignedOutIsFinal
