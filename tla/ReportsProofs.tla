--------------------------- MODULE ReportsProofs ---------------------------
(***************************************************************************)
(* Theorems about the reads of the library.  What members see and what can *)
(* be quoted follow from what each lookup answers with.  That figures add  *)
(* up and views agree rests on an inductive invariant of the desk, on      *)
(* months counted through the years, and on sums: the elements that share  *)
(* a key are counted key by key.                                           *)
(***************************************************************************)
EXTENDS Reports, FiniteSetTheorems, SequenceTheorems, WellFoundedInduction, TLAPS

-----------------------------------------------------------------------------
\* Sums

LEMMA LeastNat ==
  ASSUME NEW S \in SUBSET Nat, NEW x \in S
  PROVE  \E m \in S : \A n \in S : m <= n
<1> DEFINE R == {ss \in Nat \X Nat : ss[1] < ss[2]}
<1>1. IsWellFoundedOn(R, Nat)
  BY NatLessThanWellFounded, Zenon DEF OpToRel
<1> HIDE DEF R
<1>2. PICK m \in S : \A n \in S : ~(<<n, m>> \in R)
  BY <1>1, WFMin
<1>3. ASSUME NEW n \in S PROVE m <= n
  <2>1. ~(n < m)
    BY <1>2 DEF R
  <2> QED
    BY <2>1
<1> QED
  BY <1>3

\* f[s] is the sum of g over s, which takes the elements of s in the order of ch.
Sums(S, g, ch, f) ==
  f = [s \in SUBSET S |-> IF s = {} THEN 0 ELSE g[ch[s]] + f[s \ {ch[s]}]]
SumsTo(S, g, ch, f, n) ==
  \A s \in SUBSET S : Cardinality(s) <= n =>
    f[s] = IF s = {} THEN 0 ELSE g[ch[s]] + f[s \ {ch[s]}]
Chooses(S, ch) == \A s \in SUBSET S : s # {} => ch[s] \in s

LEMMA SmallerSet ==
  ASSUME NEW S, IsFiniteSet(S), NEW ch, Chooses(S, ch), NEW s \in SUBSET S, s # {}
  PROVE  /\ Cardinality(s) \in Nat /\ Cardinality(s) > 0
         /\ s \ {ch[s]} \in SUBSET S /\ Cardinality(s \ {ch[s]}) = Cardinality(s) - 1
         /\ IsFiniteSet(s) /\ ch[s] \in s
<1>1. IsFiniteSet(s)
  BY FS_Subset
<1>2. ch[s] \in s
  BY DEF Chooses
<1>3. Cardinality(s) \in Nat /\ Cardinality(s) # 0
  BY <1>1, FS_CardinalityType, FS_EmptySet
<1>4. Cardinality(s \ {ch[s]}) = Cardinality(s) - 1
  BY <1>1, <1>2, FS_RemoveElement
<1> QED
  BY <1>1, <1>2, <1>3, <1>4

LEMMA SumsExist ==
  ASSUME NEW S, IsFiniteSet(S), NEW g, NEW ch, Chooses(S, ch)
  PROVE  \E f : Sums(S, g, ch, f)
<1> DEFINE Reached == {n \in Nat : \E f : f = [s \in SUBSET S |-> f[s]] /\ SumsTo(S, g, ch, f, n)}
           Missed == Nat \ Reached
<1>1. 0 \in Reached
  <2> DEFINE f == [s \in SUBSET S |-> 0]
  <2>1. ASSUME NEW s \in SUBSET S, Cardinality(s) <= 0, s # {} PROVE FALSE
    <3>1. Cardinality(s) \in Nat /\ Cardinality(s) # 0
      <4>1. IsFiniteSet(s)
        BY FS_Subset
      <4> QED
        BY <2>1, <4>1, FS_CardinalityType, FS_EmptySet
    <3> QED
      BY <2>1, <3>1
  <2>2. SumsTo(S, g, ch, f, 0)
    BY <2>1 DEF SumsTo
  <2>3. f = [s \in SUBSET S |-> f[s]]
    OBVIOUS
  <2> QED
    BY <2>2, <2>3
<1>2. ASSUME NEW n \in Reached PROVE n + 1 \in Reached
  <2>1. PICK f : f = [s \in SUBSET S |-> f[s]] /\ SumsTo(S, g, ch, f, n)
    OBVIOUS
  <2> DEFINE h == [s \in SUBSET S |-> IF Cardinality(s) <= n THEN f[s] ELSE g[ch[s]] + f[s \ {ch[s]}]]
  <2>2. n \in Nat
    OBVIOUS
  <2>3. ASSUME NEW s \in SUBSET S, Cardinality(s) <= n + 1
        PROVE  h[s] = IF s = {} THEN 0 ELSE g[ch[s]] + h[s \ {ch[s]}]
    <3>1. CASE s = {}
      <4>1. Cardinality(s) = 0
        BY <3>1, FS_EmptySet
      <4>2. h[s] = f[s]
        BY <4>1, <2>2
      <4>3. f[s] = 0
        <5>1. 0 <= n
          BY <2>2
        <5> QED
          BY <2>1, <3>1, <4>1, <5>1 DEF SumsTo
      <4> QED
        BY <3>1, <4>2, <4>3
    <3>2. CASE s # {}
      <4>1. /\ Cardinality(s) \in Nat /\ s \ {ch[s]} \in SUBSET S
            /\ Cardinality(s \ {ch[s]}) = Cardinality(s) - 1
        BY <3>2, SmallerSet
      <4>2. h[s \ {ch[s]}] = f[s \ {ch[s]}]
        BY <2>2, <2>3, <4>1
      <4>3. CASE Cardinality(s) <= n
        BY <2>1, <3>2, <4>2, <4>3 DEF SumsTo
      <4>4. CASE ~(Cardinality(s) <= n)
        BY <3>2, <4>2, <4>4
      <4> QED
        BY <4>3, <4>4
    <3> QED
      BY <3>1, <3>2
  <2>4. SumsTo(S, g, ch, h, n + 1)
    BY <2>3 DEF SumsTo
  <2>5. h = [s \in SUBSET S |-> h[s]]
    OBVIOUS
  <2>6. n + 1 \in Nat
    BY <2>2
  <2> HIDE DEF h
  <2> QED
    BY <2>4, <2>5, <2>6, Zenon
<1>3. ASSUME NEW x \in Missed PROVE FALSE
  <2>1. Missed \in SUBSET Nat
    OBVIOUS
  <2> HIDE DEF Missed, Reached
  <2>2. PICK m \in Missed : \A n \in Missed : m <= n
    BY <2>1, LeastNat
  <2>3. m \in Nat /\ m # 0
    BY <1>1, <2>1, <2>2 DEF Missed
  <2>4. m - 1 \in Reached
    BY <2>2, <2>3 DEF Missed
  <2> QED
    BY <1>2, <2>2, <2>3, <2>4 DEF Missed
<1>4. Cardinality(S) \in Reached
  BY <1>3, FS_CardinalityType DEF Missed
<1>5. PICK f : f = [s \in SUBSET S |-> f[s]] /\ SumsTo(S, g, ch, f, Cardinality(S))
  BY <1>4
<1>6. ASSUME NEW s \in SUBSET S
      PROVE  f[s] = IF s = {} THEN 0 ELSE g[ch[s]] + f[s \ {ch[s]}]
  <2>1. Cardinality(s) <= Cardinality(S)
    BY FS_Subset
  <2> QED
    BY <1>5, <2>1 DEF SumsTo
<1>7. f = [s \in SUBSET S |-> IF s = {} THEN 0 ELSE g[ch[s]] + f[s \ {ch[s]}]]
  BY <1>5, <1>6
<1> QED
  BY <1>7 DEF Sums

\* What is summed is a count of the things of each key: the sum counts them all.
LEMMA SumsCount ==
  ASSUME NEW S, IsFiniteSet(S), NEW g, NEW ch, Chooses(S, ch), NEW f, Sums(S, g, ch, f),
         NEW R, IsFiniteSet(R), NEW key,
         \A x \in S : g[x] = Cardinality({r \in R : key[r] = x})
  PROVE  f[S] = Cardinality({r \in R : key[r] \in S})
<1> DEFINE Of(s) == {r \in R : key[r] \in s}
           Sizes == {n \in Nat : \E s \in SUBSET S : Cardinality(s) = n /\ f[s] # Cardinality(Of(s))}
<1>1. \A s \in SUBSET S : f[s] = IF s = {} THEN 0 ELSE g[ch[s]] + f[s \ {ch[s]}]
  BY DEF Sums
<1>2. ASSUME NEW n \in Sizes PROVE FALSE
  <2>1. Sizes \in SUBSET Nat
    OBVIOUS
  <2> HIDE DEF Sizes
  <2>2. PICK m \in Sizes : \A k \in Sizes : m <= k
    BY <2>1, LeastNat
  <2>3. PICK s \in SUBSET S : Cardinality(s) = m /\ f[s] # Cardinality(Of(s))
    BY <2>2 DEF Sizes
  <2>4. s # {}
    <3> SUFFICES ASSUME s = {} PROVE FALSE
      OBVIOUS
    <3>1. Of(s) = {}
      OBVIOUS
    <3>2. Cardinality(Of(s)) = 0
      BY <3>1, FS_EmptySet
    <3> QED
      BY <1>1, <2>3, <3>2
  <2> DEFINE x == ch[s]
             t == s \ {x}
  <2>5. /\ m \in Nat /\ t \in SUBSET S /\ Cardinality(t) = m - 1 /\ m - 1 \in Nat /\ x \in s
    BY <2>3, <2>4, SmallerSet
  <2>6. f[t] = Cardinality(Of(t))
    <3>1. m - 1 \notin Sizes
      BY <2>2, <2>5
    <3> QED
      BY <2>5, <3>1 DEF Sizes
  <2>7. f[s] = g[x] + f[t]
    BY <1>1, <2>4
  <2> DEFINE One == {r \in R : key[r] = x}
  <2>8. Of(s) = One \cup Of(t) /\ One \cap Of(t) = {}
    BY <2>5
  <2>9. IsFiniteSet(One) /\ IsFiniteSet(Of(t)) /\ g[x] = Cardinality(One)
    BY <2>5, FS_Subset
  <2> HIDE DEF One, Of, t, x
  <2>10. Cardinality(One \cup Of(t)) = Cardinality(One) + Cardinality(Of(t))
    <3>1. Cardinality(One \cup Of(t)) = Cardinality(One) + Cardinality(Of(t)) - Cardinality(One \cap Of(t))
      BY <2>9, FS_Union
    <3>2. Cardinality(One \cap Of(t)) = 0
      BY <2>8, FS_EmptySet
    <3>3. Cardinality(One) \in Nat /\ Cardinality(Of(t)) \in Nat
      BY <2>9, FS_CardinalityType
    <3> QED
      BY <3>1, <3>2, <3>3
  <2> QED
    BY <2>3, <2>6, <2>7, <2>8, <2>9, <2>10
<1>3. Cardinality(S) \in Nat
  BY FS_CardinalityType
<1> QED
  BY <1>2, <1>3

LEMMA SumOfCounts ==
  ASSUME NEW g, IsFiniteSet(DOMAIN g), NEW R, IsFiniteSet(R), NEW key,
         \A x \in DOMAIN g : g[x] = Cardinality({r \in R : key[r] = x})
  PROVE  SumFunction(g) = Cardinality({r \in R : key[r] \in DOMAIN g})
<1> DEFINE S == DOMAIN g
           ch == [s \in SUBSET S |-> CHOOSE x \in s : TRUE]
           Is(h) == h = [s \in SUBSET S |->
                           IF s = {} THEN 0 ELSE g[CHOOSE x \in s : TRUE] + h[s \ {CHOOSE x \in s : TRUE}]]
           iter == CHOOSE h : Is(h)
<1>1. Chooses(S, ch)
  BY DEF Chooses
<1>2. \A h : Sums(S, g, ch, h) <=> Is(h)
  <2> SUFFICES ASSUME NEW h PROVE Sums(S, g, ch, h) <=> Is(h)
    OBVIOUS
  <2>1. \A s \in SUBSET S : ch[s] = CHOOSE x \in s : TRUE
    OBVIOUS
  <2> HIDE DEF ch
  <2>2. [s \in SUBSET S |-> IF s = {} THEN 0 ELSE g[ch[s]] + h[s \ {ch[s]}]] =
        [s \in SUBSET S |-> IF s = {} THEN 0 ELSE g[CHOOSE x \in s : TRUE]
                                                  + h[s \ {CHOOSE x \in s : TRUE}]]
    BY <2>1
  <2> QED
    BY <2>2, Zenon DEF Sums
<1> HIDE DEF ch
<1>3. \E h : Is(h)
  <2> HIDE DEF Is
  <2> QED
    BY <1>1, <1>2, SumsExist
<1>4. Is(iter)
  <2> HIDE DEF Is
  <2> QED
    BY <1>3, Zenon
<1>5. Sums(S, g, ch, iter)
  <2> HIDE DEF Is, iter
  <2> QED
    BY <1>2, <1>4, Zenon
<1>6. iter[S] = Cardinality({r \in R : key[r] \in S})
  <2> HIDE DEF iter, Is, S
  <2> QED
    BY <1>1, <1>5, SumsCount DEF S
<1>7. SumFunction(g) = iter[S]
  BY Zenon DEF SumFunction, SumFunctionOnSet, FoldFunctionOnSet, MapThenFoldSet
<1> QED
  BY <1>6, <1>7

LEMMA TotalIsTheSum ==
  ASSUME NEW g
  PROVE  Method!Total(g) = SumFunction(g)
BY Zenon DEF SumFunction, SumFunctionOnSet, FoldFunctionOnSet, MapThenFoldSet, Method!Total,
     Method!SumFunction, Method!SumFunctionOnSet, Method!FoldFunctionOnSet, Method!MapThenFoldSet

-----------------------------------------------------------------------------
\* What members see

LEMMA PagesNameOnlyTheReader ==
  ASSUME NEW m \in Members, NEW page \in Pages(User(FALSE, m)), NEW other, Named(other) \in page
  PROVE  other = m
<1>1. ASSUME NEW b, Named(other) \in BookSummary(b) PROVE FALSE
  BY <1>1 DEF BookSummary, Named, Title, By, Count
<1>2. ASSUME NEW b, Named(other) \in BookDetail(b, FALSE) PROVE FALSE
  <2>1. PICK c : Named(other) \in CopyOut(c, FALSE)
    BY <1>1, <1>2 DEF BookDetail
  <2> QED
    BY <2>1 DEF CopyOut, When, Named, Code, On
<1>3. ASSUME NEW s, Named(other) \in LoanPage(ListLoans(s, m, None)) PROVE other = m
  <2>1. PICK l \in ListLoans(s, m, None) : Named(other) \in LoanOut(l)
    BY <1>3 DEF LoanPage
  <2>2. Named(other) = Named(loans[l].member)
    BY <2>1 DEF LoanOut, Named, Title, By, Count, On, Code
  <2>3. m # None
    BY DeskAssumption
  <2>4. m = loans[l].member
    BY <2>1, <2>3 DEF ListLoans
  <2> QED
    BY <2>2, <2>4 DEF Named
<1>4. User(FALSE, m).staff = FALSE /\ User(FALSE, m).member = m
  BY DEF User
<1>5. \/ \E b \in Catalog : page = BookSummary(b)
      \/ \E b \in TitlesNow : page = BookDetail(b, FALSE)
      \/ \E s \in Statuses : page = LoanPage(ListLoans(s, m, None))
  BY <1>4 DEF Pages, When
<1> QED
  BY <1>1, <1>2, <1>3, <1>5

\* Every name among the values is the reader's.
Mine(values, m) == \A v \in values : v[1] = "member" => v[2] = m
MineIn(data, m) == \A kv \in data : kv[2][1] = "member" => kv[2][2] = m

LEMMA MineInData ==
  ASSUME NEW data, NEW m, MineIn(data, m)
  PROVE  Mine(DataValues(data), m)
BY DEF Mine, MineIn, DataValues

LEMMA MineInAnOutput ==
  ASSUME NEW data, NEW text, NEW shown, NEW m, MineIn(data, m), Mine(text, m), Mine(shown, m),
         NEW v \in DataValues(Output(data, text, shown).data) \cup Output(data, text, shown).text
                   \cup Output(data, text, shown).shown,
         v[1] = "member"
  PROVE  v[2] = m
<1>1. /\ Output(data, text, shown).data = data /\ Output(data, text, shown).text = text
      /\ Output(data, text, shown).shown = shown
  BY DEF Output
<1> QED
  BY <1>1, MineInData DEF Mine

\* Titles name nobody.
LEMMA TitlesNameNobody ==
  ASSUME NEW b, NEW m
  PROVE  MineIn(BookBrief(b), m) /\ Mine(BookLine(b), m) /\ Mine(BookSummary(b), m)
<1> USE DEF Title, By, Count, In, Id
<1>1. MineIn(BookBrief(b), m)
  BY DEF MineIn, BookBrief
<1>2. Mine(BookLine(b), m)
  BY DEF Mine, BookLine, CopiesText, When
<1>3. Mine(BookSummary(b), m)
  BY DEF Mine, BookSummary
<1> QED
  BY <1>1, <1>2, <1>3

LEMMA SearchNamesNobody ==
  ASSUME NEW g, NEW a, NEW m,
         NEW v \in DataValues(SearchCatalog(g, a).data) \cup SearchCatalog(g, a).text
                   \cup SearchCatalog(g, a).shown,
         v[1] = "member"
  PROVE  v[2] = m
<1> DEFINE found == ListBooks(g, a)
           data == {<<"matches", Count(Cardinality(found))>>} \cup UNION {BookBrief(b) : b \in found}
           text == UNION {BookLine(b) : b \in found}
           shown == UNION {BookSummary(b) : b \in found}
<1>1. MineIn(data, m)
  <2>1. \A b : MineIn(BookBrief(b), m)
    BY TitlesNameNobody
  <2> QED
    BY <2>1 DEF MineIn, Count
<1>2. Mine(text, m)
  <2>1. \A b : Mine(BookLine(b), m)
    BY TitlesNameNobody
  <2> QED
    BY <2>1 DEF Mine
<1>3. Mine(shown, m)
  <2>1. \A b : Mine(BookSummary(b), m)
    BY TitlesNameNobody
  <2> QED
    BY <2>1 DEF Mine
<1>4. SearchCatalog(g, a) = Output(data, text, shown)
  BY DEF SearchCatalog
<1> HIDE DEF data, text, shown
<1> QED
  BY <1>1, <1>2, <1>3, <1>4, MineInAnOutput

LEMMA CategoriesNameNobody ==
  ASSUME NEW m,
         NEW v \in DataValues(ListCategories.data) \cup ListCategories.text \cup ListCategories.shown,
         v[1] = "member"
  PROVE  v[2] = m
<1> DEFINE data == {<<"categories", In(g)>> : g \in Categories}
           text == {In(g) : g \in Categories}
<1>1. MineIn(data, m)
  BY DEF MineIn, In
<1>2. Mine(text, m)
  BY DEF Mine, In
<1>3. ListCategories = Output(data, text, text)
  BY DEF ListCategories
<1> HIDE DEF data, text
<1> QED
  BY <1>1, <1>2, <1>3, MineInAnOutput

LEMMA TitlePageNamesNobody ==
  ASSUME NEW b, NEW m,
         NEW v \in DataValues(GetBook(b, FALSE).data) \cup GetBook(b, FALSE).text
                   \cup GetBook(b, FALSE).shown,
         v[1] = "member"
  PROVE  v[2] = m
<1> DEFINE copies == {c \in InCirculation : BookOf[c] = b}
           data == BookBrief(b) \cup UNION {CopyData(c, FALSE) : c \in copies}
           text == BookLine(b) \cup UNION {CopyLine(c, FALSE) : c \in copies}
           shown == BookDetail(b, FALSE)
<1> USE DEF Code, On, Word, When
<1>1. MineIn(data, m)
  <2>1. \A c : MineIn(CopyData(c, FALSE), m)
    BY DEF MineIn, CopyData
  <2> QED
    BY <2>1, TitlesNameNobody DEF MineIn
<1>2. Mine(text, m)
  <2>1. \A c : Mine(CopyLine(c, FALSE), m)
    BY DEF Mine, CopyLine
  <2> QED
    BY <2>1, TitlesNameNobody DEF Mine
<1>3. Mine(shown, m)
  <2>1. \A c : Mine(CopyOut(c, FALSE), m)
    BY DEF Mine, CopyOut
  <2> QED
    BY <2>1, TitlesNameNobody DEF Mine, BookDetail
<1>4. GetBook(b, FALSE) = Output(data, text, shown)
  BY DEF GetBook
<1> HIDE DEF data, text, shown
<1> QED
  BY <1>1, <1>2, <1>3, <1>4, MineInAnOutput

LEMMA MyLoansNameMe ==
  ASSUME NEW m \in Members, NEW s,
         NEW v \in DataValues(GetMyLoans(m, s).data) \cup GetMyLoans(m, s).text
                   \cup GetMyLoans(m, s).shown,
         v[1] = "member"
  PROVE  v[2] = m
<1> DEFINE found == ListLoans(s, m, None)
           data == Heading(s, found) \cup UNION {LoanData(l) : l \in found}
           text == UNION {LoanLine(l, s) : l \in found}
           shown == LoanPage(found)
<1> USE DEF Code, On, OnDay, Word, When, Count, Title, By, Id, Mark
<1>1. \A l \in found : loans[l].member = m
  BY DeskAssumption DEF ListLoans
<1>2. MineIn(data, m)
  <2>1. MineIn(Heading(s, found), m)
    BY DEF MineIn, Heading
  <2>2. \A l : MineIn(LoanData(l), m)
    BY DEF MineIn, LoanData
  <2> QED
    BY <2>1, <2>2 DEF MineIn
<1>3. Mine(text, m)
  <2>1. \A l : Mine(LoanLine(l, s), m)
    BY DEF Mine, LoanLine
  <2> QED
    BY <2>1 DEF Mine
<1>4. Mine(shown, m)
  <2>1. \A l \in found : Mine(LoanOut(l), m)
    BY <1>1 DEF Mine, LoanOut, Named
  <2> QED
    BY <2>1 DEF Mine, LoanPage
<1>5. GetMyLoans(m, s) = Output(data, text, shown)
  BY DEF GetMyLoans
<1> HIDE DEF data, text, shown, found
<1> QED
  BY <1>2, <1>3, <1>4, <1>5, MineInAnOutput

LEMMA ReadersSeeOnlyTheirOwn == MembersSeeOnlyTheirOwn
<1> SUFFICES ASSUME NEW user \in MemberUsers
             PROVE  /\ \A page \in Pages(user), m \in Members : Named(m) \in page => m = user.member
                    /\ \A tool \in FaceFor(user) : \A answer \in Answers(tool, user) :
                         \A v \in DataValues(answer.data) \cup answer.text \cup answer.shown :
                           v[1] = "member" => v[2] = user.member
  BY DEF MembersSeeOnlyTheirOwn
<1>1. PICK m \in Members : user = User(FALSE, m)
  BY DEF MemberUsers, MembersNow
<1>2. user.staff = FALSE /\ user.member = m
  BY <1>1 DEF User
<1>3. \A page \in Pages(user), other \in Members : Named(other) \in page => other = user.member
  BY <1>1, <1>2, PagesNameOnlyTheReader
<1>4. ASSUME NEW tool \in FaceFor(user), NEW answer \in Answers(tool, user),
             NEW v \in DataValues(answer.data) \cup answer.text \cup answer.shown, v[1] = "member"
      PROVE  v[2] = user.member
  <2>1. tool \in {"search_catalog", "list_categories", "get_book", "get_my_loans"}
    BY <1>2, <1>4 DEF FaceFor, MemberFace
  <2>2. CASE tool = "search_catalog"
    <3>1. PICK g, a : answer = SearchCatalog(g, a)
      BY <1>4, <2>2 DEF Answers
    <3> QED
      BY <1>2, <1>4, <3>1, SearchNamesNobody
  <2>3. CASE tool = "list_categories"
    <3>1. answer = ListCategories
      BY <1>4, <2>3 DEF Answers
    <3> QED
      BY <1>2, <1>4, <3>1, CategoriesNameNobody
  <2>4. CASE tool = "get_book"
    <3>1. PICK b : answer = GetBook(b, user.staff)
      BY <1>4, <2>4 DEF Answers
    <3>2. GetBook(b, user.staff) = GetBook(b, FALSE)
      BY <1>2
    <3> QED
      BY <1>2, <1>4, <3>1, <3>2, TitlePageNamesNobody
  <2>5. CASE tool = "get_my_loans"
    <3>1. PICK s : answer = GetMyLoans(m, s)
      BY <1>2, <1>4, <2>5 DEF Answers
    <3> QED
      BY <1>2, <1>4, <3>1, MyLoansNameMe
  <2> QED
    BY <2>1, <2>2, <2>3, <2>4, <2>5
<1> QED
  BY <1>3, <1>4

\* MembersSeeOnlyTheirOwn: whatever pages and lookups a member has, and
\* whatever the model asks the lookups for, the only borrower they name is the
\* member (get_book_detail's show_borrowers, my_loans, face_for), on any desk.
THEOREM OnlyTheirOwn == Spec => []MembersSeeOnlyTheirOwn
BY ReadersSeeOnlyTheirOwn, PTL

-----------------------------------------------------------------------------
\* What can be quoted

Quotes(text, data) == \A v \in text : \E key : key \notin IdKeys /\ <<key, v>> \in data

LEMMA QuotedIsSupported ==
  ASSUME NEW text, NEW data, Quotes(text, data)
  PROVE  ~Unsupported(text, data)
<1>1. ASSUME NEW v \in text PROVE v \in DataValues(data)
  <2>1. PICK key : key \notin IdKeys /\ <<key, v>> \in data
    BY DEF Quotes
  <2> DEFINE kv == <<key, v>>
  <2>2. kv[1] = key /\ kv[2] = v /\ kv \in data
    BY <2>1
  <2> HIDE DEF kv
  <2>3. kv \in {x \in data : x[1] \notin IdKeys}
    BY <2>1, <2>2
  <2> QED
    BY <2>2, <2>3 DEF DataValues
<1>2. text \ DataValues(data) = {}
  BY <1>1
<1> QED
  BY <1>2 DEF Unsupported

LEMMA QuotedAnswer ==
  ASSUME NEW data, NEW text, NEW shown, Quotes(text, data)
  PROVE  ~Unsupported(Output(data, text, shown).text, Output(data, text, shown).data)
<1>1. Output(data, text, shown).data = data /\ Output(data, text, shown).text = text
  BY DEF Output
<1> QED
  BY <1>1, QuotedIsSupported

LEMMA TitleLineQuoted ==
  ASSUME NEW b, NEW data, BookBrief(b) \subseteq data
  PROVE  Quotes(BookLine(b), data)
<1>1. /\ <<"title", Title(b)>> \in data /\ <<"author", By(b)>> \in data
      /\ <<"copies_total", Count(CopiesTotal(b))>> \in data
      /\ <<"copies_available", Count(CopiesAvailable(b))>> \in data
  BY DEF BookBrief
<1>2. {"title", "author", "copies_total", "copies_available"} \cap IdKeys = {}
  BY DEF IdKeys
<1>3. ASSUME NEW v \in BookLine(b)
      PROVE  v \in {Title(b), By(b), Count(CopiesTotal(b)), Count(CopiesAvailable(b))}
  BY DEF BookLine, CopiesText, When
<1> QED
  BY <1>1, <1>2, <1>3 DEF Quotes

LEMMA SearchQuoted ==
  ASSUME NEW g, NEW a
  PROVE  ~Unsupported(SearchCatalog(g, a).text, SearchCatalog(g, a).data)
<1> DEFINE found == ListBooks(g, a)
           data == {<<"matches", Count(Cardinality(found))>>} \cup UNION {BookBrief(b) : b \in found}
           text == UNION {BookLine(b) : b \in found}
           shown == UNION {BookSummary(b) : b \in found}
<1>1. \A b \in found : Quotes(BookLine(b), data)
  BY TitleLineQuoted
<1>2. Quotes(text, data)
  BY <1>1 DEF Quotes
<1>3. SearchCatalog(g, a) = Output(data, text, shown)
  BY DEF SearchCatalog
<1> HIDE DEF data, text, shown
<1> QED
  BY <1>2, <1>3, QuotedAnswer

LEMMA CategoriesQuoted == ~Unsupported(ListCategories.text, ListCategories.data)
<1> DEFINE data == {<<"categories", In(g)>> : g \in Categories}
           text == {In(g) : g \in Categories}
<1>1. Quotes(text, data)
  BY DEF Quotes, IdKeys
<1>2. ListCategories = Output(data, text, text)
  BY DEF ListCategories
<1> HIDE DEF data, text
<1> QED
  BY <1>1, <1>2, QuotedAnswer

LEMMA TitlePageQuoted ==
  ASSUME NEW b, NEW staff \in BOOLEAN
  PROVE  ~Unsupported(GetBook(b, staff).text, GetBook(b, staff).data)
<1> DEFINE copies == {c \in InCirculation : BookOf[c] = b}
           data == BookBrief(b) \cup UNION {CopyData(c, staff) : c \in copies}
           text == BookLine(b) \cup UNION {CopyLine(c, staff) : c \in copies}
           shown == BookDetail(b, staff)
<1>1. ASSUME NEW c \in copies PROVE Quotes(CopyLine(c, staff), data)
  <2>1. CopyData(c, staff) \subseteq data
    OBVIOUS
  <2> HIDE DEF data
  <2>2. ASSUME NEW v \in CopyLine(c, staff)
        PROVE  \E key : key \notin IdKeys /\ <<key, v>> \in CopyData(c, staff)
    <3>1. PICK l \in LoansOn(c) :
            v \in {Code(c), On(loans[l].due)} \cup When(staff, {Named(loans[l].member)})
      BY <2>2 DEF CopyLine
    <3>2. CASE v = Code(c)
      BY <3>2 DEF CopyData, IdKeys
    <3>3. CASE v = On(loans[l].due)
      <4>1. <<"due_back", On(loans[l].due)>> \in CopyData(c, staff)
        BY <3>1 DEF CopyData
      <4> QED
        BY <3>3, <4>1 DEF IdKeys
    <3>4. CASE v = Named(loans[l].member) /\ staff
      <4>1. <<"borrower", Named(loans[l].member)>> \in CopyData(c, staff)
        BY <3>1, <3>4 DEF CopyData, When
      <4> QED
        BY <3>4, <4>1 DEF IdKeys
    <3> QED
      BY <3>1, <3>2, <3>3, <3>4 DEF When
  <2> QED
    BY <2>1, <2>2 DEF Quotes
<1>2. Quotes(BookLine(b), data)
  BY TitleLineQuoted
<1>3. Quotes(text, data)
  BY <1>1, <1>2 DEF Quotes
<1>4. GetBook(b, staff) = Output(data, text, shown)
  BY DEF GetBook
<1> HIDE DEF data, text, shown
<1> QED
  BY <1>3, <1>4, QuotedAnswer

\* The values of a loan, each under the key that gives it.
LEMMA LoanDataGives ==
  ASSUME NEW l
  PROVE  /\ <<"title", Title(BookOf[loans[l].copy])>> \in LoanData(l)
         /\ <<"copy_code", Code(loans[l].copy)>> \in LoanData(l)
         /\ <<"due_on", On(loans[l].due)>> \in LoanData(l)
         /\ loans[l].returned # None => <<"returned_on", On(loans[l].returned)>> \in LoanData(l)
         /\ LoanData(l) \subseteq StaffLoanData(l)
         /\ <<"member", Named(loans[l].member)>> \in StaffLoanData(l)
         /\ {"title", "copy_code", "due_on", "returned_on", "member"} \cap IdKeys = {}
<1>1. LoanData(l) \subseteq StaffLoanData(l) /\ <<"member", Named(loans[l].member)>> \in StaffLoanData(l)
  BY DEF StaffLoanData
<1>2. loans[l].returned # None => <<"returned_on", On(loans[l].returned)>> \in LoanData(l)
  BY DEF LoanData, When
<1>3. /\ <<"title", Title(BookOf[loans[l].copy])>> \in LoanData(l)
      /\ <<"copy_code", Code(loans[l].copy)>> \in LoanData(l)
      /\ <<"due_on", On(loans[l].due)>> \in LoanData(l)
  BY DEF LoanData
<1> QED
  BY <1>1, <1>2, <1>3 DEF IdKeys

LEMMA MyLoansQuoted ==
  ASSUME NEW m, NEW s \in Statuses
  PROVE  ~Unsupported(GetMyLoans(m, s).text, GetMyLoans(m, s).data)
<1> DEFINE found == ListLoans(s, m, None)
           data == Heading(s, found) \cup UNION {LoanData(l) : l \in found}
           text == UNION {LoanLine(l, s) : l \in found}
           shown == LoanPage(found)
<1>1. ASSUME NEW l \in found PROVE Quotes(LoanLine(l, s), data)
  <2>1. LoanData(l) \subseteq data
    OBVIOUS
  <2>2. s = "returned" => loans[l].returned # None
    BY DEF ListLoans, OfStatus
  <2> HIDE DEF data, found
  <2>3. ASSUME NEW v \in LoanLine(l, s)
        PROVE  \/ v = Title(BookOf[loans[l].copy]) \/ v = Code(loans[l].copy) \/ v = On(loans[l].due)
               \/ v = On(loans[l].returned) /\ loans[l].returned # None
    BY <2>2 DEF LoanLine
  <2> QED
    BY <2>1, <2>3, LoanDataGives DEF Quotes
<1>2. Quotes(text, data)
  BY <1>1 DEF Quotes
<1>3. GetMyLoans(m, s) = Output(data, text, shown)
  BY DEF GetMyLoans
<1> HIDE DEF data, text, shown
<1> QED
  BY <1>2, <1>3, QuotedAnswer

LEMMA StaffLineQuoted ==
  ASSUME NEW l, NEW withTitle \in BOOLEAN, NEW withMember \in BOOLEAN, NEW data,
         StaffLoanData(l) \subseteq data
  PROVE  Quotes(StaffLoanLine(l, withTitle, withMember), data)
<1>1. ASSUME NEW v \in StaffLoanLine(l, withTitle, withMember)
      PROVE  \/ v = Title(BookOf[loans[l].copy]) \/ v = Code(loans[l].copy) \/ v = On(loans[l].due)
             \/ v = Named(loans[l].member)
             \/ v = On(loans[l].returned) /\ loans[l].returned # None
  <2>1. \/ v = Code(loans[l].copy) \/ v = LoanEnd(l) \/ v = Title(BookOf[loans[l].copy])
        \/ v = Named(loans[l].member)
    BY DEF StaffLoanLine, When
  <2>2. \/ LoanEnd(l) = On(loans[l].due)
        \/ LoanEnd(l) = On(loans[l].returned) /\ loans[l].returned # None
    BY DEF LoanEnd
  <2> QED
    BY <2>1, <2>2
<1> QED
  BY <1>1, LoanDataGives DEF Quotes

LEMMA MemberLoansQuoted ==
  ASSUME NEW m, NEW s
  PROVE  ~Unsupported(GetMemberLoans(m, s).text, GetMemberLoans(m, s).data)
<1> DEFINE found == ListLoans(s, m, None)
           data == Heading(s, found) \cup {<<"member", Named(m)>>} \cup UNION {StaffLoanData(l) : l \in found}
           text == {Named(m)} \cup UNION {StaffLoanLine(l, TRUE, FALSE) : l \in found}
           shown == LoanPage(found)
<1>1. ASSUME NEW l \in found PROVE Quotes(StaffLoanLine(l, TRUE, FALSE), data)
  <2>1. StaffLoanData(l) \subseteq data
    OBVIOUS
  <2> HIDE DEF data, found
  <2> QED
    BY <2>1, StaffLineQuoted
<1>2. <<"member", Named(m)>> \in data /\ "member" \notin IdKeys
  BY DEF IdKeys
<1> HIDE DEF data
<1>3. Quotes(text, data)
  BY <1>1, <1>2 DEF Quotes
<1>4. GetMemberLoans(m, s) = Output(data, text, shown)
  BY DEF GetMemberLoans, data
<1> HIDE DEF text, shown
<1> QED
  BY <1>3, <1>4, QuotedAnswer

LEMMA BookLoansQuoted ==
  ASSUME NEW b, NEW s
  PROVE  ~Unsupported(GetBookLoans(b, s).text, GetBookLoans(b, s).data)
<1> DEFINE found == ListLoans(s, None, b)
           data == Heading(s, found) \cup {<<"title", Title(b)>>} \cup UNION {StaffLoanData(l) : l \in found}
           text == {Title(b)} \cup UNION {StaffLoanLine(l, FALSE, TRUE) : l \in found}
           shown == LoanPage(found)
<1>1. ASSUME NEW l \in found PROVE Quotes(StaffLoanLine(l, FALSE, TRUE), data)
  <2>1. StaffLoanData(l) \subseteq data
    OBVIOUS
  <2> HIDE DEF data, found
  <2> QED
    BY <2>1, StaffLineQuoted
<1>2. <<"title", Title(b)>> \in data /\ "title" \notin IdKeys
  BY DEF IdKeys
<1> HIDE DEF data
<1>3. Quotes(text, data)
  BY <1>1, <1>2 DEF Quotes
<1>4. GetBookLoans(b, s) = Output(data, text, shown)
  BY DEF GetBookLoans, data
<1> HIDE DEF text, shown
<1> QED
  BY <1>3, <1>4, QuotedAnswer

LEMMA OverdueQuoted == ~Unsupported(GetOverdueLoans.text, GetOverdueLoans.data)
<1> DEFINE found == ListLoans("overdue", None, None)
           data == Heading("overdue", found) \cup UNION {StaffLoanData(l) : l \in found}
           text == UNION {StaffLoanLine(l, TRUE, TRUE) : l \in found}
           shown == LoanPage(found)
<1>1. ASSUME NEW l \in found PROVE Quotes(StaffLoanLine(l, TRUE, TRUE), data)
  <2>1. StaffLoanData(l) \subseteq data
    OBVIOUS
  <2> HIDE DEF data, found
  <2> QED
    BY <2>1, StaffLineQuoted
<1>2. Quotes(text, data)
  BY <1>1 DEF Quotes
<1>3. GetOverdueLoans = Output(data, text, shown)
  BY DEF GetOverdueLoans
<1> HIDE DEF data, text, shown
<1> QED
  BY <1>2, <1>3, QuotedAnswer

LEMMA CopyQuoted ==
  ASSUME NEW c
  PROVE  ~Unsupported(LookupCopy(c).text, LookupCopy(c).data)
<1> DEFINE copy == FindCopyByCode(c)
           b == copy.book
           OfLoan(l) == {<<"borrower", Named(loans[l].member)>>, <<"member_id", Id(loans[l].member)>>,
                         <<"due_on", On(loans[l].due)>>, <<"overdue", Mark(IsOverdue(l))>>}
                        \cup When(IsOverdue(l), {<<"days_overdue", Count(DaysOverdue(l))>>})
           data == {<<"code", Code(c)>>, <<"title", Title(b)>>, <<"author", By(b)>>, <<"book_id", Id(b)>>,
                    <<"status", Word(copy.status)>>, <<"archived", Mark(copy.archived)>>}
                   \cup UNION {OfLoan(l) : l \in copy.active_loan}
           text == {Code(c), Title(b), By(b)}
                   \cup UNION {{Named(loans[l].member), On(loans[l].due)} : l \in copy.active_loan}
           shown == {Code(c), Title(b)} \cup LoanPage(copy.active_loan)
<1>1. LookupCopy(c) = Output(data, text, shown)
  BY DEF LookupCopy
<1> HIDE DEF copy, b, shown
<1>2. {"code", "title", "author", "borrower", "due_on"} \cap IdKeys = {}
  BY DEF IdKeys
<1>3. ASSUME NEW l \in copy.active_loan
      PROVE  <<"borrower", Named(loans[l].member)>> \in data /\ <<"due_on", On(loans[l].due)>> \in data
  <2>1. <<"borrower", Named(loans[l].member)>> \in OfLoan(l) /\ <<"due_on", On(loans[l].due)>> \in OfLoan(l)
    OBVIOUS
  <2> QED
    BY <2>1
<1>4. <<"code", Code(c)>> \in data /\ <<"title", Title(b)>> \in data /\ <<"author", By(b)>> \in data
  OBVIOUS
<1> HIDE DEF data
<1>5. Quotes(text, data)
  BY <1>2, <1>3, <1>4 DEF Quotes
<1> HIDE DEF text
<1> QED
  BY <1>1, <1>5, QuotedAnswer

LEMMA MembersQuoted == ~Unsupported(SearchMembers.text, SearchMembers.data)
<1> DEFINE OfMember(m) == {<<"id", Id(m)>>, <<"full_name", Named(m)>>, <<"active_loans", Count(ActiveLoans(m))>>}
           data == {<<"matches", Count(Cardinality(MembersNow))>>} \cup UNION {OfMember(m) : m \in MembersNow}
           text == UNION {{Named(m), Count(ActiveLoans(m))} : m \in MembersNow}
           shown == UNION {MemberOut(m) : m \in MembersNow}
<1>1. SearchMembers = Output(data, text, shown)
  BY DEF SearchMembers
<1>2. ASSUME NEW m \in MembersNow
      PROVE  <<"full_name", Named(m)>> \in data /\ <<"active_loans", Count(ActiveLoans(m))>> \in data
  <2>1. <<"full_name", Named(m)>> \in OfMember(m) /\ <<"active_loans", Count(ActiveLoans(m))>> \in OfMember(m)
    OBVIOUS
  <2> QED
    BY <2>1
<1> HIDE DEF data
<1>3. Quotes(text, data)
  BY <1>2 DEF Quotes, IdKeys
<1> HIDE DEF text, shown
<1> QED
  BY <1>1, <1>3, QuotedAnswer

LEMMA ToolsQuoted ==
  ASSUME NEW user \in MemberUsers \cup {User(TRUE, None)}, NEW tool \in FaceFor(user),
         NEW answer \in Answers(tool, user)
  PROVE  ~Unsupported(answer.text, answer.data)
<1>1. user.staff \in BOOLEAN
  <2>1. \A staff, m : User(staff, m).staff = staff
    BY DEF User
  <2>2. \E staff \in BOOLEAN : \E m : user = User(staff, m)
    BY DEF MemberUsers
  <2> QED
    BY <2>1, <2>2
<1>2. tool \in {"search_catalog", "list_categories", "get_book", "get_my_loans", "search_members",
                "get_member_loans", "get_book_loans", "get_overdue_loans", "lookup_copy"}
  BY DEF FaceFor, StaffFace, MemberFace
<1>3. CASE tool = "search_catalog"
  <2>1. PICK g, a : answer = SearchCatalog(g, a)
    BY <1>3 DEF Answers
  <2> QED
    BY <2>1, SearchQuoted
<1>4. CASE tool = "list_categories"
  <2>1. answer = ListCategories
    BY <1>4 DEF Answers
  <2> QED
    BY <2>1, CategoriesQuoted
<1>5. CASE tool = "get_book"
  <2>1. PICK b : answer = GetBook(b, user.staff)
    BY <1>5 DEF Answers
  <2> QED
    BY <1>1, <2>1, TitlePageQuoted
<1>6. CASE tool = "get_my_loans"
  <2>1. PICK s \in Statuses : answer = GetMyLoans(user.member, s)
    BY <1>6 DEF Answers
  <2> QED
    BY <2>1, MyLoansQuoted
<1>7. CASE tool = "search_members"
  <2>1. answer = SearchMembers
    BY <1>7 DEF Answers
  <2> QED
    BY <2>1, MembersQuoted
<1>8. CASE tool = "get_member_loans"
  <2>1. PICK m, s : answer = GetMemberLoans(m, s)
    BY <1>8 DEF Answers
  <2> QED
    BY <2>1, MemberLoansQuoted
<1>9. CASE tool = "get_book_loans"
  <2>1. PICK b, s : answer = GetBookLoans(b, s)
    BY <1>9 DEF Answers
  <2> QED
    BY <2>1, BookLoansQuoted
<1>10. CASE tool = "get_overdue_loans"
  <2>1. answer = GetOverdueLoans
    BY <1>10 DEF Answers
  <2> QED
    BY <2>1, OverdueQuoted
<1>11. CASE tool = "lookup_copy"
  <2>1. PICK c : answer = LookupCopy(c)
    BY <1>11 DEF Answers
  <2> QED
    BY <2>1, CopyQuoted
<1> QED
  BY <1>2, <1>3, <1>4, <1>5, <1>6, <1>7, <1>8, <1>9, <1>10, <1>11

\* What the result gives the model, by where it comes from.
LEMMA ResultDataGives ==
  ASSUME NEW result
  PROVE  /\ \A v \in PeriodWords(result) : \E key \in {"period", "comparison"} : <<key, v>> \in ResultData(result)
         /\ \A k \in DOMAIN result.rows :
              <<"label", Label(result.query.group_by, k)>> \in ResultData(result)
         /\ \A k \in DOMAIN result.rows : \A v \in FiguresOf(result, result.rows[k], RowFields(result)) :
              <<"rows", v>> \in ResultData(result)
         /\ \A v \in FiguresOf(result, result.total, TotalFields(result)) :
              <<"total", v>> \in ResultData(result)
         /\ {"period", "comparison", "label", "rows", "total"} \cap IdKeys = {}
<1>1. {"period", "comparison", "label", "rows", "total"} \cap IdKeys = {}
  BY DEF IdKeys
<1>2. ASSUME NEW v \in PeriodWords(result)
      PROVE  \E key \in {"period", "comparison"} : <<key, v>> \in ResultData(result)
  <2>1. CASE v \in Spanned("period", result.period)
    <3>1. <<"period", v>> \in ResultData(result)
      BY <2>1, Zenon DEF ResultData
    <3> QED
      BY <3>1
  <2>2. CASE v \in When(result.comparison # None, {Label("comparison", result.comparison)})
    <3>1. v \in Spanned("comparison", result.comparison)
      BY <2>2 DEF When, Spanned
    <3>2. <<"comparison", v>> \in ResultData(result)
      BY <3>1, Zenon DEF ResultData
    <3> QED
      BY <3>2
  <2> QED
    BY <2>1, <2>2 DEF PeriodWords
<1>3. \A k \in DOMAIN result.rows : <<"label", Label(result.query.group_by, k)>> \in ResultData(result)
  BY Zenon DEF ResultData
<1>4. \A k \in DOMAIN result.rows : \A v \in FiguresOf(result, result.rows[k], RowFields(result)) :
        <<"rows", v>> \in ResultData(result)
  BY Zenon DEF ResultData
<1>5. \A v \in FiguresOf(result, result.total, TotalFields(result)) : <<"total", v>> \in ResultData(result)
  BY Zenon DEF ResultData
<1> QED
  BY <1>1, <1>2, <1>3, <1>4, <1>5

\* The table has no column whose figures the model was not given.
LEMMA ColumnsGiven ==
  ASSUME NEW result
  PROVE  /\ Columns(result) \subseteq RowFields(result)
         /\ Columns(result) \ {"share_pct", "previous_share_pct"} \subseteq TotalFields(result)
BY DEF Columns, RowFields, TotalFields, ComparedFields, When

LEMMA FiguresOfFewerFields ==
  ASSUME NEW result, NEW item, NEW some, NEW all, some \subseteq all
  PROVE  FiguresOf(result, item, some) \subseteq FiguresOf(result, item, all)
BY DEF FiguresOf

LEMMA TableQuoted ==
  ASSUME NEW result
  PROVE  /\ Quotes(RenderQuery(result), ResultData(result))
         /\ Quotes(TableDisplay(result) \ Scope(result.query.filters), ResultData(result))
<1> DEFINE Given(v) == \E key : key \notin IdKeys /\ <<key, v>> \in ResultData(result)
<1>5. /\ \A v \in PeriodWords(result) : Given(v)
      /\ \A k \in DOMAIN result.rows : Given(Label(result.query.group_by, k))
      /\ \A k \in DOMAIN result.rows : \A v \in FiguresOf(result, result.rows[k], RowFields(result)) : Given(v)
      /\ \A v \in FiguresOf(result, result.total, TotalFields(result)) : Given(v)
  BY ResultDataGives
<1> HIDE DEF Given
<1>1. Quotes(RenderQuery(result), ResultData(result))
  <2>1. ASSUME NEW v \in RenderQuery(result) PROVE Given(v)
    <3>1. \/ v \in PeriodWords(result)
          \/ \E k \in DOMAIN result.rows : v = Label(result.query.group_by, k)
          \/ \E k \in DOMAIN result.rows : v \in FiguresOf(result, result.rows[k], RowFields(result))
          \/ v \in FiguresOf(result, result.total, TotalFields(result))
      BY DEF RenderQuery
    <3> QED
      BY <1>5, <3>1
  <2> QED
    BY <2>1, Zenon DEF Quotes, Given
<1>2. \A k : FiguresOf(result, result.rows[k], Columns(result))
               \subseteq FiguresOf(result, result.rows[k], RowFields(result))
  BY ColumnsGiven, FiguresOfFewerFields
<1>3. FiguresOf(result, result.total, Columns(result) \ {"share_pct", "previous_share_pct"})
        \subseteq FiguresOf(result, result.total, TotalFields(result))
  BY ColumnsGiven, FiguresOfFewerFields
<1>4. Quotes(TableDisplay(result) \ Scope(result.query.filters), ResultData(result))
  <2>1. ASSUME NEW v \in TableDisplay(result) \ Scope(result.query.filters) PROVE Given(v)
    <3>1. \/ v \in PeriodWords(result)
          \/ \E k \in DOMAIN result.rows : v = Label(result.query.group_by, k)
          \/ \E k \in DOMAIN result.rows : v \in FiguresOf(result, result.rows[k], Columns(result))
          \/ v \in FiguresOf(result, result.total, Columns(result) \ {"share_pct", "previous_share_pct"})
      BY DEF TableDisplay
    <3> QED
      BY <1>2, <1>3, <1>5, <3>1
  <2> QED
    BY <2>1, Zenon DEF Quotes, Given
<1> QED
  BY <1>1, <1>4

LEMMA QueryQuoted ==
  ASSUME NEW q
  PROVE  Supported(QueryMetrics(q), Scope(q.filters))
<1> DEFINE result == RunQuery(q)
           answer == QueryMetrics(q)
           shown == TableDisplay(result) \ Scope(q.filters)
<1>1. answer.data = ResultData(result) /\ answer.text = RenderQuery(result) /\ answer.shown = TableDisplay(result)
  BY DEF QueryMetrics, Told, Output
<1>2. result.query = q
  <2>1. \A p, c, g, t, e, u : Result(q, p, c, g, t, e, u).query = q
    BY Zenon DEF Result
  <2> QED
    BY <2>1 DEF RunQuery, RunOver, Compared
<1>3. Quotes(RenderQuery(result), ResultData(result)) /\ Quotes(shown, ResultData(result))
  BY <1>2, TableQuoted
<1> HIDE DEF result, answer
<1>4. Quotes(answer.text \cup (answer.shown \ Scope(q.filters)), answer.data)
  BY <1>1, <1>3 DEF Quotes
<1>5. ~Unsupported(answer.text \cup (answer.shown \ Scope(q.filters)), answer.data)
  BY <1>4, QuotedIsSupported
<1> QED
  BY <1>5 DEF Supported, answer

\* The months ahead, what they are measured by and the trend are in the data, and
\* so are the last twelve months; the month before this one is one of them.
LEMMA ForecastQuoted ==
  ASSUME NEW f
  PROVE  ForecastSupported(f)
<1> DEFINE answer == ForecastTold(f)
           aside == Scope(f.filters) \cup {FirstMonth(f)}
           said == answer.text \cup (answer.shown \ aside)
           Given(v) == \E key : key \notin IdKeys /\ <<key, v>> \in ForecastData(f)
<1>1. /\ answer.data = ForecastData(f) /\ answer.text = RenderForecast(f)
      /\ answer.shown = ForecastDisplay(f)
  BY DEF ForecastTold, Output
<1>2. {"measured", "history", "forecast", "trend", "refusal"} \cap IdKeys = {}
  BY DEF IdKeys
<1>3. /\ \A v \in MeasuredBy(f) : <<"measured", v>> \in ForecastData(f)
      /\ \A v \in HistoryOf(f) : <<"history", v>> \in ForecastData(f)
      /\ \A v \in Ahead(f) : <<"forecast", v>> \in ForecastData(f)
      /\ \A v \in TrendOf(f) : <<"trend", v>> \in ForecastData(f)
      /\ <<"refusal", Word(f.outcome.refusal)>> \in ForecastData(f)
  BY Zenon DEF ForecastData
<1>4. /\ \A v \in MeasuredBy(f) : Given(v)
      /\ \A v \in HistoryOf(f) : Given(v)
      /\ \A v \in Ahead(f) : Given(v)
      /\ \A v \in TrendOf(f) : Given(v)
      /\ Given(Word(f.outcome.refusal))
  BY <1>2, <1>3
<1>5. 1 <= Len(f.series) => MonthAfter(-1) \in HistoryOf(f)
  BY DEF HistoryOf
<1> HIDE DEF answer, Given
<1>6. ASSUME NEW v \in said PROVE Given(v)
  <2>1. CASE v \in RenderForecast(f)
    BY <1>4, <2>1 DEF RenderForecast
  <2>2. CASE v \in ForecastDisplay(f) /\ v \notin Scope(f.filters) /\ v # FirstMonth(f)
    <3>1. \/ v \in MeasuredBy(f) \cup HistoryOf(f) \cup Ahead(f) \cup TrendOf(f)
          \/ 1 <= Len(f.series) /\ v = MonthAfter(-1)
      BY <2>2 DEF ForecastDisplay, When
    <3> QED
      BY <1>4, <1>5, <3>1
  <2> QED
    BY <1>1, <1>6, <2>1, <2>2
<1>7. Quotes(said, answer.data)
  BY <1>1, <1>6, Zenon DEF Quotes, Given
<1>8. ~Unsupported(said, answer.data)
  BY <1>7, QuotedIsSupported
<1> QED
  BY <1>8 DEF Supported, ForecastSupported, answer

\* AnswersCanBeQuoted: the fallback text of every lookup a reader's face has,
\* and the text and the table of every metric and every forecast, refused or
\* not, say only values the model was given with them, so the number check
\* cannot refuse them; on any desk.  Only the filters in words and the month a
\* forecast's history begins with are shown and not given.
THEOREM EveryAnswerQuoted == Spec => []AnswersCanBeQuoted
<1>1. AnswersCanBeQuoted
  <2>1. ASSUME NEW asked \in Forecasts, NEW horizon \in Horizons
        PROVE  ForecastSupported(RunForecast(asked[1], asked[2], horizon))
    BY ForecastQuoted
  <2> QED
    BY <2>1, ForecastQuoted, ToolsQuoted, QueryQuoted DEF AnswersCanBeQuoted
<1> QED
  BY <1>1, PTL

-----------------------------------------------------------------------------
\* The desk

Moments == {m \in (2 * Day0)..(2 * DayN + 1) : Day(m) >= DayOf(FirstYear + 2, 1, 1)}
LoanRecords ==
  [copy : Copies, member : Members, borrowed : Moments, returned : Moments \cup {None}, due : Int]

DeskTypes ==
  /\ now \in Moments /\ loans \in Seq(LoanRecords) /\ Len(loans) <= MaxLoans
  /\ shelf \in [Books -> {"active", "archived", "deleted"}]
NothingInTheFuture ==
  \A l \in LoanIds : /\ loans[l].borrowed <= now
                     /\ loans[l].returned # None => loans[l].returned <= now
                     /\ BookOf[loans[l].copy] \in TitlesNow /\ loans[l].member \in MembersNow
OutFromTheCatalog == \A l \in OutLoans : BookOf[loans[l].copy] \in Catalog
OutOnce == \A k, l \in OutLoans : loans[k].copy = loans[l].copy => k = l

\* What every reachable desk satisfies.
DeskInv == DeskTypes /\ NothingInTheFuture /\ OutFromTheCatalog /\ OutOnce

LEMMA YearsStart ==
  ASSUME NEW y \in Nat \ {0}
  PROVE  /\ DayOf(y, 1, 1) \in Int /\ DayOf(y, 12, 31) \in Int
         /\ DayOf(y + 1, 1, 1) = DayOf(y, 12, 31) + 1 /\ DayOf(y, 12, 31) >= DayOf(y, 1, 1) + 364
BY DEF DayOf, BeforeMonth, Leap

LEMMA MomentsAreNumbers ==
  /\ Day0 \in Int /\ DayN \in Int /\ DayOf(FirstYear + 2, 1, 1) \in Int
  /\ Moments \subseteq Int /\ None \notin Moments
  /\ \A m \in Moments : Day(m) \in Day0..DayN
  /\ \A m, n \in Moments : m <= n => Day(m) <= Day(n)
  /\ \A n \in 0..MaxLoans : MomentsWith[n] \subseteq Moments
<1>1. Day0 \in Int /\ DayN \in Int /\ DayOf(FirstYear + 2, 1, 1) \in Int
  BY YearsAssumption, YearsStart DEF Day0, DayN
<1>2. Moments \subseteq Int
  BY <1>1 DEF Moments
<1>3. None \notin Moments
  BY <1>2, DeskAssumption
<1>4. \A m \in Moments : Day(m) \in Day0..DayN
  BY <1>1 DEF Moments, Day
<1>5. \A m, n \in Moments : m <= n => Day(m) <= Day(n)
  BY <1>2 DEF Day
<1>6. ASSUME NEW n \in 0..MaxLoans, NEW m \in MomentsWith[n] PROVE m \in Moments
  <2>1. m \in (2 * Day0)..(2 * DayN + 1)
    BY <1>1, <1>6, DeskAssumption
  <2> QED
    BY <2>1, <1>6, CalendarAssumption DEF Moments
<1> QED
  BY <1>1, <1>2, <1>3, <1>4, <1>5, <1>6

LEMMA DeskStarts == DeskInit => DeskInv
<1> SUFFICES ASSUME DeskInit PROVE DeskInv
  OBVIOUS
<1>1. DeskTypes
  BY MomentsAreNumbers, DeskAssumption DEF DeskInit, DeskTypes
<1>2. LoanIds = {}
  BY DEF DeskInit, LoanIds
<1> QED
  BY <1>1, <1>2 DEF DeskInv, NothingInTheFuture, OutFromTheCatalog, OutOnce, OutLoans

\* The catalog and the titles and members there are grow with time alone.
LEMMA BorrowKeepsDesk ==
  ASSUME DeskInv, NEW c \in Copies, NEW m \in Members, NEW days \in DueDays, Borrow(c, m, days)
  PROVE  DeskInv'
<1> DEFINE loan == [copy |-> c, member |-> m, borrowed |-> now, returned |-> None,
                    due |-> DueAt(Today + IF days = None THEN LoanPeriodDays ELSE days)]
<1>1. now' = now /\ shelf' = shelf /\ loans' = Append(loans, loan) /\ Len(loans) < MaxLoans
  BY DEF Borrow
<1>2. loan \in LoanRecords
  <2>1. loan.due \in Int
    BY MomentsAreNumbers, DeskAssumption DEF DeskInv, DeskTypes, DueAt, Today
  <2> QED
    BY <2>1 DEF DeskInv, DeskTypes, LoanRecords
<1>3. /\ loan.copy = c /\ loan.member = m /\ loan.borrowed = now /\ loan.returned = None
  OBVIOUS
<1> HIDE DEF loan
<1> DEFINE n == Len(loans) + 1
<1>4. loans \in Seq(LoanRecords) /\ Len(loans) \in Nat /\ LoanIds = 1..Len(loans)
  BY DEF DeskInv, DeskTypes, LoanIds
<1>5. /\ loans' \in Seq(LoanRecords) /\ Len(loans') = n /\ LoanIds' = 1..n /\ loans'[n] = loan
      /\ \A l \in LoanIds : loans'[l] = loans[l]
  BY <1>1, <1>2, <1>4 DEF LoanIds
<1>6. \A l \in LoanIds' : l \in LoanIds \/ l = n
  BY <1>4, <1>5
<1>7. TitlesNow' = TitlesNow /\ Catalog' = Catalog /\ MembersNow' = MembersNow
  BY <1>1 DEF TitlesNow, Catalog, MembersNow, Today
<1>8. c \in InCirculation /\ m \in MembersNow /\ ~OnLoan(c) /\ BookOf[c] \in Catalog
  BY DEF Borrow, InCirculation
<1>9. DeskTypes'
  BY <1>1, <1>5, DeskAssumption DEF DeskInv, DeskTypes
<1>10. NothingInTheFuture'
  <2>1. now \in Int
    BY MomentsAreNumbers DEF DeskInv, DeskTypes
  <2>2. ASSUME NEW l \in LoanIds
        PROVE  /\ loans'[l].borrowed <= now'
               /\ loans'[l].returned # None => loans'[l].returned <= now'
               /\ BookOf[loans'[l].copy] \in TitlesNow' /\ loans'[l].member \in MembersNow'
    BY <1>1, <1>5, <1>7 DEF DeskInv, NothingInTheFuture
  <2>3. /\ loans'[n].borrowed <= now'
        /\ loans'[n].returned # None => loans'[n].returned <= now'
        /\ BookOf[loans'[n].copy] \in TitlesNow' /\ loans'[n].member \in MembersNow'
    BY <1>1, <1>3, <1>5, <1>7, <1>8, <2>1 DEF Catalog
  <2> QED
    BY <1>6, <2>2, <2>3 DEF NothingInTheFuture
<1>11. \A l \in OutLoans' : l \in OutLoans \/ l = n
  BY <1>5, <1>6 DEF OutLoans
<1>12. OutFromTheCatalog'
  BY <1>3, <1>5, <1>7, <1>8, <1>11 DEF DeskInv, OutFromTheCatalog, OutLoans
<1>13. OutOnce'
  <2>1. \A l \in OutLoans : l \in LoanIds /\ loans[l].copy # c
    BY <1>8 DEF OnLoan, LoansOn, OutLoans
  <2> QED
    BY <1>3, <1>5, <1>11, <2>1 DEF DeskInv, OutOnce
<1> QED
  BY <1>9, <1>10, <1>12, <1>13 DEF DeskInv

LEMMA ReturnKeepsDesk ==
  ASSUME DeskInv, NEW l \in LoanIds, Return(l)
  PROVE  DeskInv'
<1>1. now' = now /\ shelf' = shelf /\ loans' = [loans EXCEPT ![l].returned = now]
  BY DEF Return
<1>2. loans \in Seq(LoanRecords) /\ Len(loans) \in Nat /\ LoanIds = 1..Len(loans) /\ now \in Moments
  BY DEF DeskInv, DeskTypes, LoanIds
<1>3. loans[l] \in LoanRecords
  BY <1>2
<1>4. [loans[l] EXCEPT !.returned = now] \in LoanRecords
  BY <1>2, <1>3 DEF LoanRecords
<1>5. loans' \in Seq(LoanRecords) /\ Len(loans') = Len(loans) /\ LoanIds' = LoanIds
  BY <1>1, <1>2, <1>4 DEF LoanIds
<1>6. \A k \in LoanIds : /\ loans'[k].copy = loans[k].copy /\ loans'[k].member = loans[k].member
                         /\ loans'[k].borrowed = loans[k].borrowed
                         /\ loans'[k].returned = IF k = l THEN now ELSE loans[k].returned
  BY <1>1, <1>2, <1>3 DEF LoanRecords
<1>7. TitlesNow' = TitlesNow /\ Catalog' = Catalog /\ MembersNow' = MembersNow
  BY <1>1 DEF TitlesNow, Catalog, MembersNow, Today
<1>8. OutLoans' \subseteq OutLoans
  BY <1>2, <1>5, <1>6, MomentsAreNumbers DEF OutLoans
<1>9. DeskTypes'
  BY <1>1, <1>5 DEF DeskInv, DeskTypes
<1>10. NothingInTheFuture'
  BY <1>1, <1>2, <1>5, <1>6, <1>7, MomentsAreNumbers DEF DeskInv, NothingInTheFuture
<1>11. OutFromTheCatalog'
  BY <1>5, <1>6, <1>7, <1>8 DEF DeskInv, OutFromTheCatalog, OutLoans
<1>12. OutOnce'
  BY <1>5, <1>6, <1>8 DEF DeskInv, OutOnce, OutLoans
<1> QED
  BY <1>9, <1>10, <1>11, <1>12 DEF DeskInv

LEMMA RemoveKeepsDesk ==
  ASSUME DeskInv, NEW b \in Books, Remove(b)
  PROVE  DeskInv'
<1>1. now' = now /\ loans' = loans /\ b \in Catalog
  BY DEF Remove
<1>2. shelf' = [shelf EXCEPT ![b] = IF HadLoans(b) THEN "archived" ELSE "deleted"]
  BY DEF Remove
<1>3. shelf \in [Books -> {"active", "archived", "deleted"}]
  BY DEF DeskInv, DeskTypes
<1>4. \A a \in Books : a # b => shelf'[a] = shelf[a]
  BY <1>2, <1>3
<1>5. HadLoans(b) => shelf'[b] = "archived"
  BY <1>2, <1>3
<1>6. LoanIds' = LoanIds /\ OutLoans' = OutLoans /\ MembersNow' = MembersNow
  BY <1>1 DEF LoanIds, OutLoans, MembersNow, Today
<1>7. DeskTypes'
  BY <1>1, <1>2, <1>3 DEF DeskInv, DeskTypes
<1>8. ASSUME NEW l \in LoanIds PROVE BookOf[loans[l].copy] \in TitlesNow'
  <2>1. BookOf[loans[l].copy] \in TitlesNow /\ Today' = Today
    BY <1>1 DEF DeskInv, NothingInTheFuture, Today
  <2>2. CASE BookOf[loans[l].copy] = b
    BY <1>5, <2>1, <2>2 DEF HadLoans, TitlesNow
  <2>3. CASE BookOf[loans[l].copy] # b
    BY <1>4, <2>1, <2>3 DEF TitlesNow
  <2> QED
    BY <2>2, <2>3
<1>9. NothingInTheFuture'
  BY <1>1, <1>6, <1>8 DEF DeskInv, NothingInTheFuture
<1>10. OutFromTheCatalog'
  <2> SUFFICES ASSUME NEW l \in OutLoans PROVE BookOf[loans[l].copy] \in Catalog'
    BY <1>1, <1>6 DEF OutFromTheCatalog
  <2>1. BookOf[loans[l].copy] \in Catalog
    BY DEF DeskInv, OutFromTheCatalog
  <2>2. loans[l].copy \in Copies
    <3>1. loans[l] \in LoanRecords
      BY DEF DeskInv, DeskTypes, OutLoans, LoanIds
    <3> QED
      BY <3>1 DEF LoanRecords
  <2>3. BookOf[loans[l].copy] # b
    BY <2>2 DEF Remove, OnLoan, LoansOn
  <2>4. Today' = Today
    BY <1>1 DEF Today
  <2> QED
    BY <1>4, <2>1, <2>3, <2>4 DEF Catalog, TitlesNow
<1>11. OutOnce'
  BY <1>1, <1>6 DEF DeskInv, OutOnce
<1> QED
  BY <1>7, <1>9, <1>10, <1>11 DEF DeskInv

LEMMA TimeKeepsDesk ==
  ASSUME DeskInv, TimePasses
  PROVE  DeskInv'
<1>1. loans' = loans /\ shelf' = shelf /\ now' > now /\ now' \in Moments
  <2>1. Len(loans) \in 0..MaxLoans
    BY DEF DeskInv, DeskTypes
  <2> QED
    BY <2>1, MomentsAreNumbers DEF TimePasses
<1>2. LoanIds' = LoanIds /\ OutLoans' = OutLoans
  BY <1>1 DEF LoanIds, OutLoans
<1>3. now \in Moments
  BY DEF DeskInv, DeskTypes
<1>4. Today <= Today' /\ Today \in Int /\ Today' \in Int
  BY <1>1, <1>3, MomentsAreNumbers DEF Today
<1>5. TitlesNow \subseteq TitlesNow' /\ MembersNow \subseteq MembersNow'
  <2>1. \A b \in Books : Added[b] \in Int
    BY DeskAssumption, MomentsAreNumbers
  <2>2. \A m \in Members : Joined[m] \in Int
    BY DeskAssumption, MomentsAreNumbers
  <2> QED
    BY <1>1, <1>4, <2>1, <2>2 DEF TitlesNow, MembersNow
<1>6. Catalog \subseteq Catalog'
  BY <1>1, <1>5 DEF Catalog
<1>7. DeskTypes'
  BY <1>1 DEF DeskInv, DeskTypes
<1>8. NothingInTheFuture'
  <2> SUFFICES ASSUME NEW l \in LoanIds
               PROVE  /\ loans[l].borrowed <= now'
                      /\ loans[l].returned # None => loans[l].returned <= now'
                      /\ BookOf[loans[l].copy] \in TitlesNow' /\ loans[l].member \in MembersNow'
    BY <1>1, <1>2 DEF NothingInTheFuture
  <2>1. loans[l].borrowed \in Moments /\ loans[l].returned \in Moments \cup {None}
    <3>1. loans[l] \in LoanRecords
      BY DEF DeskInv, DeskTypes, LoanIds
    <3> QED
      BY <3>1 DEF LoanRecords
  <2>2. /\ loans[l].borrowed <= now
        /\ loans[l].returned # None => loans[l].returned <= now
        /\ BookOf[loans[l].copy] \in TitlesNow /\ loans[l].member \in MembersNow
    BY DEF DeskInv, NothingInTheFuture
  <2>3. \A m \in Moments : m <= now => m <= now'
    BY <1>1, <1>3, MomentsAreNumbers
  <2> QED
    BY <1>5, <2>1, <2>2, <2>3
<1>9. OutFromTheCatalog'
  BY <1>1, <1>2, <1>6 DEF DeskInv, OutFromTheCatalog
<1>10. OutOnce'
  BY <1>1, <1>2 DEF DeskInv, OutOnce
<1> QED
  BY <1>7, <1>8, <1>9, <1>10 DEF DeskInv

LEMMA DeskInvStays == DeskInv /\ [DeskNext]_deskVars => DeskInv'
<1> SUFFICES ASSUME DeskInv, [DeskNext]_deskVars PROVE DeskInv'
  OBVIOUS
<1>1. CASE UNCHANGED deskVars
  BY <1>1 DEF deskVars, DeskInv, DeskTypes, NothingInTheFuture, OutFromTheCatalog, OutOnce, OutLoans,
     LoanIds, TitlesNow, MembersNow, Catalog, Today
<1>2. CASE DeskNext
  BY <1>2, BorrowKeepsDesk, ReturnKeepsDesk, RemoveKeepsDesk, TimeKeepsDesk DEF DeskNext
<1> QED
  BY <1>1, <1>2

\* On every desk: no loan is dated in the future or of a title or a member
\* there is not, a copy that is out is of a title of the catalog, and a copy is
\* out once.
THEOREM DeskIsSound == Spec => []DeskInv
BY DeskStarts, DeskInvStays, PTL DEF Spec

-----------------------------------------------------------------------------
\* The calendar: months counted through the years

MonthFirst(k) == DayOf(k \div 12, (k % 12) + 1, 1)
MonthOf(n) == 12 * Date[n].year + Date[n].month - 1
Days == Day0..DayN

LEMMA MonthLengths ==
  ASSUME NEW y \in Nat \ {0}, NEW m \in 1..12
  PROVE  /\ DayOf(y, m, 1) \in Int /\ MonthDays(y, m) \in 28..31
         /\ m < 12 => DayOf(y, m + 1, 1) = DayOf(y, m, 1) + MonthDays(y, m)
         /\ m = 12 => DayOf(y + 1, 1, 1) = DayOf(y, m, 1) + MonthDays(y, m)
<1>1. MonthDays(y, m) \in 28..31
  BY DEF MonthDays, Leap
<1>2. DayOf(y, m, 1) \in Int
  BY DEF DayOf, BeforeMonth, Leap
<1>3. m < 12 => DayOf(y, m + 1, 1) = DayOf(y, m, 1) + MonthDays(y, m)
  BY DEF DayOf, BeforeMonth, MonthDays
<1>4. m = 12 => DayOf(y + 1, 1, 1) = DayOf(y, m, 1) + MonthDays(y, m)
  <2>1. DayOf(y + 1, 1, 1) = DayOf(y, 12, 1) + 31
    BY DEF DayOf, BeforeMonth, Leap
  <2>2. MonthDays(y, 12) = 31
    BY DEF MonthDays
  <2> QED
    BY <2>1, <2>2
<1> QED
  BY <1>1, <1>2, <1>3, <1>4

LEMMA MonthParts ==
  ASSUME NEW k \in Int, k >= 12
  PROVE  /\ k \div 12 \in Nat \ {0} /\ (k % 12) + 1 \in 1..12 /\ k = 12 * (k \div 12) + (k % 12)
         /\ (k % 12) + 1 < 12 => (k + 1) \div 12 = k \div 12 /\ ((k + 1) % 12) + 1 = (k % 12) + 2
         /\ (k % 12) + 1 = 12 => (k + 1) \div 12 = (k \div 12) + 1 /\ ((k + 1) % 12) + 1 = 1
OBVIOUS

LEMMA NextMonth ==
  ASSUME NEW k \in Int, k >= 12
  PROVE  /\ MonthFirst(k) \in Int
         /\ MonthFirst(k + 1) = MonthFirst(k) + MonthDays(k \div 12, (k % 12) + 1)
         /\ MonthFirst(k + 1) \in (MonthFirst(k) + 28)..(MonthFirst(k) + 31)
<1> DEFINE y == k \div 12
           m == (k % 12) + 1
<1>1. y \in Nat \ {0} /\ m \in 1..12
  BY MonthParts
<1>2. DayOf(y, m, 1) \in Int /\ MonthDays(y, m) \in 28..31
  BY <1>1, MonthLengths
<1>3. MonthFirst(k + 1) = DayOf(y, m, 1) + MonthDays(y, m)
  <2>1. CASE m < 12
    <3>1. (k + 1) \div 12 = y /\ ((k + 1) % 12) + 1 = m + 1
      BY <2>1, MonthParts
    <3>2. DayOf(y, m + 1, 1) = DayOf(y, m, 1) + MonthDays(y, m)
      BY <1>1, <2>1, MonthLengths
    <3> QED
      BY <3>1, <3>2 DEF MonthFirst
  <2>2. CASE m = 12
    <3>1. (k + 1) \div 12 = y + 1 /\ ((k + 1) % 12) + 1 = 1
      BY <2>2, MonthParts
    <3>2. DayOf(y + 1, 1, 1) = DayOf(y, m, 1) + MonthDays(y, m)
      BY <1>1, <2>2, MonthLengths
    <3> QED
      BY <3>1, <3>2 DEF MonthFirst
  <2> QED
    BY <1>1, <2>1, <2>2
<1> QED
  BY <1>2, <1>3 DEF MonthFirst

LEMMA MonthsInOrder ==
  ASSUME NEW j \in Int, j >= 12, NEW k \in Int, j < k
  PROVE  MonthFirst(j + 1) <= MonthFirst(k)
<1> DEFINE Missed == {n \in Nat : ~(MonthFirst(j + 1) <= MonthFirst(j + 1 + n))}
<1>1. ASSUME NEW n \in Missed PROVE FALSE
  <2>1. Missed \in SUBSET Nat
    OBVIOUS
  <2>2. \A i \in Nat : i \in Missed <=> ~(MonthFirst(j + 1) <= MonthFirst(j + 1 + i))
    OBVIOUS
  <2> HIDE DEF Missed
  <2>3. PICK least \in Missed : \A i \in Missed : least <= i
    BY <2>1, LeastNat
  <2>4. least \in Nat
    BY <2>1
  <2>5. MonthFirst(j + 1) \in Int
    BY NextMonth
  <2>6. least # 0
    BY <2>2, <2>3, <2>4, <2>5
  <2>7. MonthFirst(j + 1) <= MonthFirst(j + 1 + (least - 1))
    <3>1. least - 1 \in Nat /\ least - 1 \notin Missed
      BY <2>3, <2>4, <2>6
    <3> QED
      BY <2>2, <3>1
  <2> DEFINE i == j + 1 + (least - 1)
  <2>8. i \in Int /\ i >= 12 /\ j + 1 + least = i + 1
    BY <2>4, <2>6
  <2> HIDE DEF i
  <2>9. MonthFirst(i) \in Int /\ MonthFirst(i + 1) \in (MonthFirst(i) + 28)..(MonthFirst(i) + 31)
    BY <2>8, NextMonth
  <2>10. MonthFirst(j + 1) <= MonthFirst(i + 1)
    BY <2>5, <2>7, <2>9 DEF i
  <2> QED
    BY <2>2, <2>3, <2>4, <2>8, <2>10
<1>2. \A n \in Nat : MonthFirst(j + 1) <= MonthFirst(j + 1 + n)
  BY <1>1
<1>3. k - j - 1 \in Nat /\ j + 1 + (k - j - 1) = k
  OBVIOUS
<1> QED
  <2> HIDE DEF Missed
  <2>1. PICK n : n = k - j - 1
    OBVIOUS
  <2>2. n \in Nat /\ j + 1 + n = k
    BY <1>3, <2>1
  <2> QED
    BY <1>2, <2>2

LEMMA YearOfADay ==
  ASSUME NEW n \in Days
  PROVE  \E y \in FirstYear..LastYear : DayOf(y, 1, 1) <= n /\ n <= DayOf(y, 12, 31)
<1> DEFINE Over == {y \in Nat : y \in FirstYear..LastYear /\ n <= DayOf(y, 12, 31)}
<1>1. n \in Int /\ Day0 <= n /\ n <= DayN
  BY MomentsAreNumbers DEF Days
<1>2. Over \in SUBSET Nat /\ LastYear \in Over
  BY <1>1, YearsAssumption DEF DayN
<1>3. PICK y \in Over : \A i \in Over : y <= i
  <2> HIDE DEF Over
  <2> QED
    BY <1>2, LeastNat
<1>4. y \in FirstYear..LastYear /\ n <= DayOf(y, 12, 31) /\ y \in Nat \ {0}
  BY YearsAssumption
<1>5. DayOf(y, 1, 1) <= n
  <2>1. CASE y = FirstYear
    BY <1>1, <2>1 DEF Day0
  <2>2. CASE y # FirstYear
    <3>1. y - 1 \in Nat \ {0} /\ y - 1 \in FirstYear..LastYear /\ y - 1 \notin Over
      BY <1>3, <1>4, <2>2, YearsAssumption
    <3>2. ~(n <= DayOf(y - 1, 12, 31))
      BY <3>1
    <3>3. DayOf(y - 1 + 1, 1, 1) = DayOf(y - 1, 12, 31) + 1 /\ DayOf(y - 1, 12, 31) \in Int
      BY <3>1, YearsStart
    <3>4. y - 1 + 1 = y
      BY <1>4
    <3> QED
      BY <1>1, <3>2, <3>3, <3>4
  <2> QED
    BY <2>1, <2>2
<1> QED
  BY <1>4, <1>5

LEMMA MonthOfTheYear ==
  ASSUME NEW y \in Nat \ {0}, NEW n \in Int, DayOf(y, 1, 1) <= n, n <= DayOf(y, 12, 31)
  PROVE  \E m \in 1..12 : DayOf(y, m, 1) <= n /\ n < DayOf(y, m, 1) + MonthDays(y, m)
<1> SUFFICES ASSUME \A m \in 1..12 : ~(DayOf(y, m, 1) <= n /\ n < DayOf(y, m, 1) + MonthDays(y, m))
             PROVE  FALSE
  OBVIOUS
<1>1. ASSUME NEW m \in 1..11, DayOf(y, m, 1) <= n PROVE DayOf(y, m + 1, 1) <= n
  <2>1. m \in 1..12 /\ m < 12
    OBVIOUS
  <2>2. DayOf(y, m + 1, 1) = DayOf(y, m, 1) + MonthDays(y, m) /\ DayOf(y, m, 1) \in Int /\ MonthDays(y, m) \in 28..31
    BY <2>1, MonthLengths
  <2>3. ~(n < DayOf(y, m, 1) + MonthDays(y, m))
    BY <1>1, <2>1
  <2> QED
    BY <2>2, <2>3
<1>2. DayOf(y, 2, 1) <= n
  BY <1>1
<1>3. DayOf(y, 3, 1) <= n
  BY <1>1, <1>2
<1>4. DayOf(y, 4, 1) <= n
  BY <1>1, <1>3
<1>5. DayOf(y, 5, 1) <= n
  BY <1>1, <1>4
<1>6. DayOf(y, 6, 1) <= n
  BY <1>1, <1>5
<1>7. DayOf(y, 7, 1) <= n
  BY <1>1, <1>6
<1>8. DayOf(y, 8, 1) <= n
  BY <1>1, <1>7
<1>9. DayOf(y, 9, 1) <= n
  BY <1>1, <1>8
<1>10. DayOf(y, 10, 1) <= n
  BY <1>1, <1>9
<1>11. DayOf(y, 11, 1) <= n
  BY <1>1, <1>10
<1>12. DayOf(y, 12, 1) <= n
  BY <1>1, <1>11
<1>13. DayOf(y, 12, 31) = DayOf(y, 12, 1) + 30 /\ MonthDays(y, 12) = 31 /\ DayOf(y, 12, 1) \in Int
  BY DEF DayOf, MonthDays, BeforeMonth, Leap
<1> QED
  BY <1>12, <1>13

LEMMA DateIs ==
  ASSUME NEW n \in Days
  PROVE  /\ Date[n].year \in FirstYear..LastYear /\ Date[n].month \in 1..12
         /\ DayOf(Date[n].year, Date[n].month, 1) <= n
         /\ n < DayOf(Date[n].year, Date[n].month, 1) + MonthDays(Date[n].year, Date[n].month)
         /\ Date[n].day = n - DayOf(Date[n].year, Date[n].month, 1) + 1
<1> DEFINE y == CHOOSE y \in FirstYear..LastYear : DayOf(y, 1, 1) <= n /\ n <= DayOf(y, 12, 31)
           m == CHOOSE m \in 1..12 : DayOf(y, m, 1) <= n /\ n < DayOf(y, m, 1) + MonthDays(y, m)
<1>1. Date[n] = [year |-> y, month |-> m, day |-> n - DayOf(y, m, 1) + 1]
  BY Zenon DEF Date, Days
<1>2. y \in FirstYear..LastYear /\ DayOf(y, 1, 1) <= n /\ n <= DayOf(y, 12, 31)
  BY YearOfADay
<1> HIDE DEF y
<1>3. y \in Nat \ {0} /\ n \in Int
  BY <1>2, YearsAssumption, MomentsAreNumbers DEF Days
<1>4. m \in 1..12 /\ DayOf(y, m, 1) <= n /\ n < DayOf(y, m, 1) + MonthDays(y, m)
  BY <1>2, <1>3, MonthOfTheYear
<1> HIDE DEF m
<1> QED
  BY <1>1, <1>2, <1>4

LEMMA MonthOfADay ==
  ASSUME NEW n \in Days
  PROVE  /\ MonthOf(n) \in Int /\ MonthOf(n) >= 12 * FirstYear /\ 12 * FirstYear >= 12
         /\ MonthOf(n) \div 12 = Date[n].year /\ (MonthOf(n) % 12) + 1 = Date[n].month
         /\ MonthFirst(MonthOf(n)) <= n /\ n < MonthFirst(MonthOf(n) + 1)
         /\ Date[n].day = n - MonthFirst(MonthOf(n)) + 1
<1>1. PICK y : y = Date[n].year
  OBVIOUS
<1>2. PICK m : m = Date[n].month
  OBVIOUS
<1>3. /\ y \in FirstYear..LastYear /\ m \in 1..12 /\ DayOf(y, m, 1) <= n
      /\ n < DayOf(y, m, 1) + MonthDays(y, m) /\ Date[n].day = n - DayOf(y, m, 1) + 1
  BY <1>1, <1>2, DateIs
<1>4. PICK k : k = 12 * y + m - 1
  OBVIOUS
<1>5. k \in Int /\ k >= 12 * FirstYear /\ 12 * FirstYear >= 12 /\ k \div 12 = y /\ (k % 12) + 1 = m
  BY <1>3, <1>4, YearsAssumption
<1>6. MonthFirst(k) = DayOf(y, m, 1)
  BY <1>5 DEF MonthFirst
<1>7. MonthFirst(k + 1) = DayOf(y, m, 1) + MonthDays(y, m)
  BY <1>5, <1>6, NextMonth, YearsAssumption
<1>8. MonthOf(n) = k
  BY <1>1, <1>2, <1>4 DEF MonthOf
<1> QED
  BY <1>1, <1>2, <1>3, <1>5, <1>6, <1>7, <1>8

LEMMA MonthAtLeast ==
  ASSUME NEW n \in Days, NEW k \in Int, k >= 12
  PROVE  k <= MonthOf(n) <=> MonthFirst(k) <= n
<1>1. PICK i : i = MonthOf(n)
  OBVIOUS
<1>2. i \in Int /\ i >= 12 /\ MonthFirst(i) <= n /\ n < MonthFirst(i + 1) /\ n \in Int
  BY <1>1, MonthOfADay, YearsAssumption, MomentsAreNumbers DEF Days
<1>3. /\ MonthFirst(k) \in Int /\ MonthFirst(i) \in Int /\ MonthFirst(i + 1) \in Int
      /\ MonthFirst(k) <= MonthFirst(k + 1) /\ MonthFirst(k + 1) \in Int
  BY <1>2, NextMonth
<1>4. CASE k = i
  BY <1>1, <1>2, <1>4
<1>5. CASE k < i
  <2>1. MonthFirst(k + 1) <= MonthFirst(i)
    BY <1>2, <1>5, MonthsInOrder
  <2> QED
    BY <1>1, <1>2, <1>3, <1>5, <2>1
<1>6. CASE i < k
  <2>1. MonthFirst(i + 1) <= MonthFirst(k)
    BY <1>2, <1>6, MonthsInOrder
  <2> QED
    BY <1>1, <1>2, <1>3, <1>6, <2>1
<1> QED
  BY <1>2, <1>4, <1>5, <1>6

LEMMA MonthOfIs ==
  ASSUME NEW n \in Days, NEW k \in Int, k >= 12, MonthFirst(k) <= n, n < MonthFirst(k + 1)
  PROVE  MonthOf(n) = k
<1>1. k <= MonthOf(n)
  BY MonthAtLeast
<1>2. ~(k + 1 <= MonthOf(n))
  <2>1. ~(MonthFirst(k + 1) <= n)
    BY NextMonth, MomentsAreNumbers DEF Days
  <2> QED
    BY <2>1, MonthAtLeast
<1> QED
  BY <1>1, <1>2, MonthOfADay

LEMMA DaysInOrder ==
  ASSUME NEW n \in Days, NEW d \in Days, n <= d
  PROVE  MonthOf(n) <= MonthOf(d)
<1>1. PICK i : i = MonthOf(n)
  OBVIOUS
<1>2. i \in Int /\ i >= 12 /\ MonthFirst(i) <= n
  BY <1>1, MonthOfADay, YearsAssumption
<1>3. MonthFirst(i) <= d
  BY <1>2, NextMonth, MomentsAreNumbers DEF Days
<1> QED
  BY <1>1, <1>2, <1>3, MonthAtLeast

LEMMA Starts ==
  ASSUME NEW n \in Days
  PROVE  /\ MonthStart(n) = MonthFirst(MonthOf(n))
         /\ QuarterStart(n) = MonthFirst(3 * (MonthOf(n) \div 3))
         /\ YearStart(n) = MonthFirst(12 * (MonthOf(n) \div 12))
<1>1. PICK k : k = MonthOf(n)
  OBVIOUS
<1>2. k \in Int /\ k >= 12 /\ k \div 12 = Date[n].year /\ (k % 12) + 1 = Date[n].month
  BY <1>1, MonthOfADay, YearsAssumption
<1>3. MonthStart(n) = MonthFirst(k)
  BY <1>2 DEF MonthStart, MonthFirst
<1>4. QuarterStart(n) = MonthFirst(3 * (k \div 3))
  <2>1. (3 * (k \div 3)) \div 12 = k \div 12 /\ ((3 * (k \div 3)) % 12) + 1 = 3 * ((k % 12) \div 3) + 1
    BY <1>2
  <2>2. Date[n].month - 1 = k % 12
    <3>1. k % 12 \in Int
      BY <1>2
    <3>2. PICK m : m = Date[n].month
      OBVIOUS
    <3> QED
      BY <1>2, <3>1, <3>2
  <2> QED
    BY <1>2, <2>1, <2>2 DEF QuarterStart, MonthFirst
<1>5. YearStart(n) = MonthFirst(12 * (k \div 12))
  <2>1. (12 * (k \div 12)) \div 12 = k \div 12 /\ ((12 * (k \div 12)) % 12) + 1 = 1
    BY <1>2
  <2> QED
    BY <1>2, <2>1 DEF YearStart, MonthFirst
<1> QED
  BY <1>1, <1>3, <1>4, <1>5

LEMMA MonthsFromTheFirst ==
  ASSUME NEW k \in Int, k >= 12 * FirstYear
  PROVE  Day0 <= MonthFirst(k) /\ MonthFirst(12 * FirstYear) = Day0
<1>1. FirstYear \in Nat \ {0}
  BY YearsAssumption
<1>2. MonthFirst(12 * FirstYear) = Day0
  <2>1. (12 * FirstYear) \div 12 = FirstYear /\ ((12 * FirstYear) % 12) + 1 = 1
    BY <1>1
  <2> QED
    BY <2>1 DEF MonthFirst, Day0
<1>3. CASE k = 12 * FirstYear
  BY <1>2, <1>3, MomentsAreNumbers
<1>4. CASE k > 12 * FirstYear
  <2>1. PICK j : j = 12 * FirstYear
    OBVIOUS
  <2>2. j \in Int /\ j >= 12 /\ j < k /\ k >= 12
    BY <1>1, <1>4, <2>1
  <2>3. /\ MonthFirst(j + 1) <= MonthFirst(k) /\ MonthFirst(j) \in Int /\ MonthFirst(k) \in Int
        /\ MonthFirst(j + 1) \in (MonthFirst(j) + 28)..(MonthFirst(j) + 31)
    BY <2>2, MonthsInOrder, NextMonth
  <2> QED
    BY <1>2, <2>1, <2>3
<1> QED
  BY <1>1, <1>2, <1>3, <1>4

\* Some months earlier is a day of that month, and the first day stays one.
LEMMA MonthsEarlier ==
  ASSUME NEW n \in Days, NEW t \in Nat \ {0}, MonthOf(n) - t >= 12 * FirstYear
  PROVE  /\ AddMonths(n, -t) \in Days /\ MonthOf(AddMonths(n, -t)) = MonthOf(n) - t
         /\ n = MonthFirst(MonthOf(n)) => AddMonths(n, -t) = MonthFirst(MonthOf(n) - t)
<1>1. PICK i : i = MonthOf(n)
  OBVIOUS
<1>2. PICK day : day = Date[n].day
  OBVIOUS
<1>3. /\ i \in Int /\ i - t >= 12 * FirstYear /\ 12 * FirstYear >= 12 /\ MonthFirst(i) <= n
      /\ n < MonthFirst(i + 1) /\ day = n - MonthFirst(i) + 1 /\ n \in Int
  BY <1>1, <1>2, MonthOfADay, MomentsAreNumbers DEF Days
<1> DEFINE k == i - t
           y == k \div 12
           m == (k % 12) + 1
           last == MonthDays(y, m)
<1>4. k \in Int /\ k >= 12 * FirstYear /\ k >= 12 /\ k + 1 <= i /\ FirstYear \in Nat
  BY <1>3, YearsAssumption
<1>5. 12 * Date[n].year + Date[n].month - 1 + -t = k
  <2>1. 12 * Date[n].year + Date[n].month - 1 = i
    BY <1>1 DEF MonthOf
  <2> QED
    BY <1>3, <2>1
<1>6. AddMonths(n, -t) = DayOf(y, m, IF day < last THEN day ELSE last)
  BY <1>2, <1>5 DEF AddMonths
<1> HIDE DEF k
<1>7. y \in Nat \ {0} /\ m \in 1..12
  BY <1>4, MonthParts
<1>8. last \in 28..31 /\ MonthFirst(k) \in Int /\ MonthFirst(k + 1) = MonthFirst(k) + last /\ MonthFirst(k) = DayOf(y, m, 1)
  BY <1>4, <1>7, MonthLengths, NextMonth DEF MonthFirst
<1>9. \A d \in Int : DayOf(y, m, d) = DayOf(y, m, 1) + d - 1
  <2> HIDE DEF y, m
  <2> QED
    BY <1>7 DEF DayOf, BeforeMonth, Leap
<1>10. MonthFirst(i) \in Int /\ day \in Int /\ day >= 1
  BY <1>3, <1>4, NextMonth
<1> HIDE DEF y, m, last
<1>11. PICK d \in Int : d = IF day < last THEN day ELSE last
  BY <1>8, <1>10
<1>12. d >= 1 /\ d <= last /\ AddMonths(n, -t) = MonthFirst(k) + d - 1
  BY <1>6, <1>8, <1>9, <1>10, <1>11
<1>13. PICK a : a = AddMonths(n, -t)
  OBVIOUS
<1>14. a \in Int /\ MonthFirst(k) <= a /\ a < MonthFirst(k + 1)
  BY <1>8, <1>12, <1>13
<1>15. a \in Days
  <2>1. MonthFirst(k + 1) <= n
    <3>1. MonthFirst(k + 1) <= MonthFirst(i)
      BY <1>4, <1>3, MonthsInOrder
    <3> QED
      BY <1>3, <1>8, <1>10, <3>1
  <2>2. Day0 <= MonthFirst(k)
    BY <1>4, MonthsFromTheFirst
  <2> QED
    BY <1>8, <1>14, <2>1, <2>2, MomentsAreNumbers DEF Days
<1>16. MonthOf(a) = k
  BY <1>4, <1>14, <1>15, MonthOfIs
<1>17. n = MonthFirst(i) => a = MonthFirst(k)
  <2> SUFFICES ASSUME n = MonthFirst(i) PROVE a = MonthFirst(k)
    OBVIOUS
  <2>1. day = 1
    BY <1>3, <1>10
  <2> QED
    BY <1>8, <1>11, <1>12, <1>13, <2>1
<1> QED
  BY <1>1, <1>13, <1>15, <1>16, <1>17 DEF k

-----------------------------------------------------------------------------
\* Periods and what they are compared with

Comparable(p) ==
  /\ p.start \in Days /\ p.end \in Days /\ p.start <= p.end
  /\ p.unit \in {0, 1, 3, 12} /\ p.partial \in BOOLEAN
  /\ MonthOf(p.start) >= 12 * (FirstYear + 1)
  /\ p.unit = 0 => p.start - 1 - (p.end - p.start) >= Day0
  /\ p.unit # 0 => p.start = MonthFirst(MonthOf(p.start)) /\ MonthOf(p.end) < MonthOf(p.start) + p.unit
  /\ p.unit = 3 => MonthOf(p.start) % 3 = 0
  /\ p.unit # 0 /\ ~p.partial => p.end = MonthFirst(MonthOf(p.start) + p.unit) - 1

LEMMA TodayIsLate ==
  ASSUME DeskInv
  PROVE  /\ Today \in Days /\ MonthOf(Today) >= 12 * (FirstYear + 2)
         /\ MonthFirst(12 * (FirstYear + 1)) >= Day0 + 365
         /\ Today >= MonthFirst(12 * (FirstYear + 1)) + 365
<1>1. Today \in Days /\ Today >= DayOf(FirstYear + 2, 1, 1)
  BY MomentsAreNumbers DEF DeskInv, DeskTypes, Moments, Today, Days
<1>2. FirstYear \in Nat \ {0}
  BY YearsAssumption
<1>3. \A y \in Nat \ {0} : MonthFirst(12 * y) = DayOf(y, 1, 1)
  <2> SUFFICES ASSUME NEW y \in Nat \ {0} PROVE MonthFirst(12 * y) = DayOf(y, 1, 1)
    OBVIOUS
  <2>1. (12 * y) \div 12 = y /\ ((12 * y) % 12) + 1 = 1
    OBVIOUS
  <2> QED
    BY <2>1 DEF MonthFirst
<1>4. PICK y : y = FirstYear + 1
  OBVIOUS
<1>5. PICK z : z = FirstYear + 2
  OBVIOUS
<1>6. y \in Nat \ {0} /\ z \in Nat \ {0} /\ z = y + 1 /\ y = FirstYear + 1
  BY <1>2, <1>4, <1>5
<1>7. /\ DayOf(y, 1, 1) >= Day0 + 365 /\ DayOf(z, 1, 1) >= DayOf(y, 1, 1) + 365
      /\ Day0 \in Int /\ DayOf(y, 1, 1) \in Int /\ DayOf(z, 1, 1) \in Int
  BY <1>2, <1>6, YearsStart DEF Day0
<1>8. Today >= DayOf(z, 1, 1) /\ Today \in Int
  BY <1>1, <1>5, MomentsAreNumbers DEF Days
<1>9. MonthOf(Today) >= 12 * z
  <2>1. 12 * z \in Int /\ 12 * z >= 12 /\ MonthFirst(12 * z) <= Today
    BY <1>3, <1>6, <1>7, <1>8
  <2> QED
    BY <1>1, <2>1, MonthAtLeast, MonthOfADay
<1> QED
  BY <1>1, <1>3, <1>4, <1>5, <1>6, <1>7, <1>8, <1>9

\* The last day before a month.
LEMMA DayBefore ==
  ASSUME NEW k \in Int, k > 12 * FirstYear, MonthFirst(k) - 1 <= DayN
  PROVE  /\ MonthFirst(k) - 1 \in Days /\ MonthOf(MonthFirst(k) - 1) = k - 1
<1>1. k - 1 \in Int /\ k - 1 >= 12 * FirstYear /\ k - 1 >= 12 /\ k - 1 + 1 = k
  BY YearsAssumption
<1>2. /\ MonthFirst(k - 1) \in Int /\ MonthFirst(k - 1 + 1) \in (MonthFirst(k - 1) + 28)..(MonthFirst(k - 1) + 31)
      /\ Day0 <= MonthFirst(k - 1)
  BY <1>1, NextMonth, MonthsFromTheFirst
<1>3. PICK n : n = MonthFirst(k) - 1
  OBVIOUS
<1>4. n \in Int /\ MonthFirst(k - 1) <= n /\ n < MonthFirst(k - 1 + 1) /\ n \in Days
  BY <1>1, <1>2, <1>3, MomentsAreNumbers DEF Days
<1> QED
  BY <1>1, <1>3, <1>4, MonthOfIs

\* The first day of a month that has begun.
LEMMA FirstOfAMonth ==
  ASSUME NEW n \in Days, NEW k \in Int, k >= 12 * FirstYear, k <= MonthOf(n)
  PROVE  MonthFirst(k) \in Days /\ MonthOf(MonthFirst(k)) = k /\ MonthFirst(k) <= n
<1>1. k >= 12
  BY YearsAssumption
<1>2. MonthFirst(k) <= n /\ Day0 <= MonthFirst(k) /\ MonthFirst(k) \in Int /\ MonthFirst(k) < MonthFirst(k + 1)
  BY <1>1, MonthAtLeast, NextMonth, MonthsFromTheFirst
<1>3. MonthFirst(k) \in Days
  BY <1>2, MomentsAreNumbers DEF Days
<1> QED
  BY <1>1, <1>2, <1>3, MonthOfIs

LEMMA WholeUnit ==
  ASSUME DeskInv, NEW u \in {1, 3, 12}, NEW k \in Int, k >= 12 * (FirstYear + 1), u = 3 => k % 3 = 0,
         k + u <= MonthOf(Today), NEW p, p.partial \in BOOLEAN,
         p.start = MonthFirst(k), p.end = MonthFirst(k + u) - 1, p.unit = u
  PROVE  Comparable(p) /\ p.end <= Today
<1>2. Today \in Days /\ MonthOf(Today) \in Int /\ FirstYear \in Nat
  BY TodayIsLate, MonthOfADay, YearsAssumption
<1>3. k >= 12 * FirstYear /\ k >= 12 /\ k <= MonthOf(Today) /\ k + u \in Int /\ k + u > 12 * FirstYear
  BY <1>2, YearsAssumption
<1>4. MonthFirst(k) \in Days /\ MonthOf(MonthFirst(k)) = k
  BY <1>2, <1>3, FirstOfAMonth
<1>5. MonthFirst(k + u) \in Days /\ MonthFirst(k + u) <= Today
  BY <1>2, <1>3, FirstOfAMonth
<1>6. Today \in Int /\ MonthFirst(k + u) \in Int /\ MonthFirst(k) \in Int /\ DayN \in Int /\ Today <= DayN
  BY <1>2, <1>4, <1>5, MomentsAreNumbers DEF Days
<1>7. MonthFirst(k + u) - 1 \in Days /\ MonthOf(MonthFirst(k + u) - 1) = k + u - 1
  BY <1>3, <1>5, <1>6, DayBefore
<1>8. MonthFirst(k) <= MonthFirst(k + u) - 1
  <2>1. MonthFirst(k + 1) <= MonthFirst(k + u)
    <3>1. CASE u = 1
      BY <1>6, <3>1
    <3>2. CASE u # 1
      <4>1. k < k + u
        OBVIOUS
      <4> QED
        BY <1>3, <4>1, MonthsInOrder
    <3> QED
      BY <3>1, <3>2
  <2> QED
    BY <1>3, <1>6, <2>1, NextMonth
<1>10. /\ p.start \in Days /\ p.end \in Days /\ p.start <= p.end /\ p.unit \in {0, 1, 3, 12}
       /\ MonthOf(p.start) >= 12 * (FirstYear + 1) /\ p.unit # 0 /\ p.end <= Today
       /\ p.start = MonthFirst(MonthOf(p.start)) /\ MonthOf(p.end) < MonthOf(p.start) + p.unit
       /\ p.unit = 3 => MonthOf(p.start) % 3 = 0
       /\ p.end = MonthFirst(MonthOf(p.start) + p.unit) - 1
  BY <1>4, <1>5, <1>6, <1>7, <1>8
<1> QED
  BY <1>10, Zenon DEF Comparable

LEMMA UnitSoFar ==
  ASSUME DeskInv, NEW u \in {1, 3, 12}, NEW k \in Int, k >= 12 * (FirstYear + 1), u = 3 => k % 3 = 0,
         k <= MonthOf(Today), MonthOf(Today) < k + u, NEW p, p.partial \in BOOLEAN,
         p.unit # 0 /\ ~p.partial => p.end = MonthFirst(MonthOf(p.start) + p.unit) - 1,
         p.start = MonthFirst(k), p.end = Today, p.unit = u
  PROVE  Comparable(p) /\ p.end <= Today
<1>2. Today \in Days /\ Today \in Int /\ k >= 12 * FirstYear
  BY TodayIsLate, YearsAssumption, MomentsAreNumbers DEF Days
<1>3. MonthFirst(k) \in Days /\ MonthOf(MonthFirst(k)) = k /\ MonthFirst(k) <= Today
  BY <1>2, FirstOfAMonth
<1>5. /\ p.start \in Days /\ p.end \in Days /\ p.start <= p.end /\ p.unit \in {0, 1, 3, 12}
      /\ MonthOf(p.start) >= 12 * (FirstYear + 1) /\ p.unit # 0 /\ p.end <= Today
      /\ p.start = MonthFirst(MonthOf(p.start)) /\ MonthOf(p.end) < MonthOf(p.start) + p.unit
      /\ p.unit = 3 => MonthOf(p.start) % 3 = 0
  BY <1>2, <1>3
<1> QED
  BY <1>5, Zenon DEF Comparable

LEMMA RollingDays ==
  ASSUME DeskInv, NEW d \in {29, 89}, NEW p, p.partial \in BOOLEAN,
         p.start = Today - d, p.end = Today, p.unit = 0
  PROVE  Comparable(p) /\ p.end <= Today
<1>2. /\ Today \in Int /\ Day0 \in Int /\ DayN \in Int /\ Today \in Days /\ Today <= DayN
      /\ 12 * (FirstYear + 1) \in Int /\ 12 * (FirstYear + 1) >= 12
  BY TodayIsLate, YearsAssumption, MomentsAreNumbers DEF Days
<1>3. MonthFirst(12 * (FirstYear + 1)) \in Int
  BY <1>2, NextMonth
<1>4. /\ Today - d >= MonthFirst(12 * (FirstYear + 1)) /\ Today - d - 1 - (Today - (Today - d)) >= Day0
      /\ Today - d \in Days
  BY <1>2, <1>3, TodayIsLate DEF Days
<1>5. MonthOf(Today - d) >= 12 * (FirstYear + 1)
  BY <1>2, <1>3, <1>4, MonthAtLeast, MonthOfADay
<1>7. /\ p.start \in Days /\ p.end \in Days /\ p.start <= p.end /\ p.unit \in {0, 1, 3, 12}
      /\ MonthOf(p.start) >= 12 * (FirstYear + 1) /\ p.unit = 0 /\ p.end <= Today
      /\ p.start - 1 - (p.end - p.start) >= Day0 /\ ~(p.unit # 0) /\ p.unit # 3
  BY <1>2, <1>4, <1>5
<1> QED
  BY <1>7, Zenon DEF Comparable

LEMMA PresetsAreComparable ==
  ASSUME DeskInv, NEW preset \in AllPresets \ {"all_time"}, NEW firstDay
  PROVE  Comparable(ResolvePeriod(preset, Today, firstDay)) /\ ResolvePeriod(preset, Today, firstDay).end <= Today
<1>0. PICK p : p = ResolvePeriod(preset, Today, firstDay)
  OBVIOUS
<1> SUFFICES Comparable(p) /\ p.end <= Today
  BY <1>0
<1>1. PICK k : k = MonthOf(Today)
  OBVIOUS
<1>2. Today \in Days /\ k \in Int /\ k >= 12 * (FirstYear + 2) /\ FirstYear \in Nat \ {0}
  BY <1>1, TodayIsLate, MonthOfADay, YearsAssumption
<1>3. /\ MonthStart(Today) = MonthFirst(k) /\ QuarterStart(Today) = MonthFirst(3 * (k \div 3))
      /\ YearStart(Today) = MonthFirst(12 * (k \div 12))
  BY <1>1, <1>2, Starts
\* A month that has begun, and its first day some months earlier.
<1>4. ASSUME NEW i \in Int, i <= k, NEW u \in {1, 3, 12}, i - u >= 12 * FirstYear
      PROVE  AddMonths(MonthFirst(i), -u) = MonthFirst(i - u)
  <2>1. i >= 12 * FirstYear /\ u \in Nat \ {0}
    BY <1>2, <1>4
  <2>2. MonthFirst(i) \in Days /\ MonthOf(MonthFirst(i)) = i
    BY <1>1, <1>2, <1>4, <2>1, FirstOfAMonth
  <2> QED
    BY <1>4, <2>1, <2>2, MonthsEarlier
<1>5. PICK i \in Int : i = 3 * (k \div 3)
  BY <1>2
<1>6. PICK j \in Int : j = 12 * (k \div 12)
  BY <1>2
<1>7. /\ i <= k /\ k < i + 3 /\ i % 3 = 0 /\ (i - 3) % 3 = 0 /\ i - 3 >= 12 * (FirstYear + 1)
      /\ j <= k /\ k < j + 12 /\ j - 12 >= 12 * (FirstYear + 1)
  BY <1>2, <1>5, <1>6
<1>8. AllPresets \ {"all_time"} = {"last_30_days", "last_90_days", "this_month", "this_quarter", "this_year",
                                   "last_month", "last_quarter", "last_year", "last_12_months"}
  BY DEF AllPresets
<1>9. CASE preset = "last_30_days"
  <2>1. p = Period(Today - 29, Today, FALSE, 0)
    BY <1>0, <1>9 DEF ResolvePeriod
  <2>2. p.start = Today - 29 /\ p.end = Today /\ p.unit = 0
    BY <2>1 DEF Period
  <2>3. p.partial \in BOOLEAN
    BY <2>1, Zenon DEF Period
  <2> QED
    BY <2>2, <2>3, RollingDays
<1>10. CASE preset = "last_90_days"
  <2>1. p = Period(Today - 89, Today, FALSE, 0)
    BY <1>0, <1>10 DEF ResolvePeriod
  <2>2. p.start = Today - 89 /\ p.end = Today /\ p.unit = 0
    BY <2>1 DEF Period
  <2>3. p.partial \in BOOLEAN
    BY <2>1, Zenon DEF Period
  <2> QED
    BY <2>2, <2>3, RollingDays
<1>11. CASE preset = "this_month"
  <2>1. p = Period(MonthFirst(k), Today, TRUE, 1)
    BY <1>0, <1>3, <1>11 DEF ResolvePeriod
  <2>2. p.start = MonthFirst(k) /\ p.end = Today /\ p.unit = 1
    BY <2>1 DEF Period
  <2>3. /\ p.partial \in BOOLEAN
        /\ p.unit # 0 /\ ~p.partial => p.end = MonthFirst(MonthOf(p.start) + p.unit) - 1
    BY <2>1, Zenon DEF Period
  <2> QED
    BY <1>1, <1>2, <2>2, <2>3, UnitSoFar
<1>12. CASE preset = "this_quarter"
  <2>1. p = Period(MonthFirst(i), Today, TRUE, 3)
    BY <1>0, <1>3, <1>5, <1>12 DEF ResolvePeriod
  <2>2. p.start = MonthFirst(i) /\ p.end = Today /\ p.unit = 3
    BY <2>1 DEF Period
  <2>3. /\ p.partial \in BOOLEAN
        /\ p.unit # 0 /\ ~p.partial => p.end = MonthFirst(MonthOf(p.start) + p.unit) - 1
    BY <2>1, Zenon DEF Period
  <2> QED
    BY <1>1, <1>2, <1>7, <2>2, <2>3, UnitSoFar
<1>13. CASE preset = "this_year"
  <2>1. p = Period(MonthFirst(j), Today, TRUE, 12)
    BY <1>0, <1>3, <1>6, <1>13 DEF ResolvePeriod
  <2>2. p.start = MonthFirst(j) /\ p.end = Today /\ p.unit = 12
    BY <2>1 DEF Period
  <2>3. /\ p.partial \in BOOLEAN
        /\ p.unit # 0 /\ ~p.partial => p.end = MonthFirst(MonthOf(p.start) + p.unit) - 1
    BY <2>1, Zenon DEF Period
  <2> QED
    BY <1>1, <1>2, <1>7, <2>2, <2>3, UnitSoFar
<1>14. CASE preset = "last_month"
  <2>1. AddMonths(MonthFirst(k), -1) = MonthFirst(k - 1)
    BY <1>2, <1>4
  <2>2. p = Period(MonthFirst(k - 1), MonthFirst(k) - 1, FALSE, 1)
    BY <1>0, <1>3, <1>14, <2>1 DEF ResolvePeriod
  <2>3. k - 1 \in Int /\ k - 1 + 1 = k /\ k - 1 >= 12 * (FirstYear + 1)
    BY <1>2
  <2>4. p.start = MonthFirst(k - 1) /\ p.end = MonthFirst(k) - 1 /\ p.unit = 1
    BY <2>2 DEF Period
  <2>5. p.partial \in BOOLEAN
    BY <2>2, Zenon DEF Period
  <2> QED
    BY <1>1, <1>2, <2>3, <2>4, <2>5, WholeUnit
<1>15. CASE preset = "last_quarter"
  <2>1. AddMonths(MonthFirst(i), -3) = MonthFirst(i - 3)
    BY <1>2, <1>4, <1>7
  <2>2. p = Period(MonthFirst(i - 3), MonthFirst(i) - 1, FALSE, 3)
    BY <1>0, <1>3, <1>5, <1>15, <2>1 DEF ResolvePeriod
  <2>3. i - 3 \in Int /\ i - 3 + 3 = i
    OBVIOUS
  <2>4. p.start = MonthFirst(i - 3) /\ p.end = MonthFirst(i) - 1 /\ p.unit = 3
    BY <2>2 DEF Period
  <2>5. p.partial \in BOOLEAN
    BY <2>2, Zenon DEF Period
  <2> QED
    BY <1>1, <1>2, <1>7, <2>3, <2>4, <2>5, WholeUnit
<1>16. CASE preset = "last_year"
  <2>1. AddMonths(MonthFirst(j), -12) = MonthFirst(j - 12)
    BY <1>2, <1>4, <1>7
  <2>2. p = Period(MonthFirst(j - 12), MonthFirst(j) - 1, FALSE, 12)
    BY <1>0, <1>3, <1>6, <1>16, <2>1 DEF ResolvePeriod
  <2>3. j - 12 \in Int /\ j - 12 + 12 = j
    OBVIOUS
  <2>4. p.start = MonthFirst(j - 12) /\ p.end = MonthFirst(j) - 1 /\ p.unit = 12
    BY <2>2 DEF Period
  <2>5. p.partial \in BOOLEAN
    BY <2>2, Zenon DEF Period
  <2> QED
    BY <1>1, <1>2, <1>7, <2>3, <2>4, <2>5, WholeUnit
<1>17. CASE preset = "last_12_months"
  <2>1. AddMonths(MonthFirst(k), -12) = MonthFirst(k - 12)
    BY <1>2, <1>4
  <2>2. p = Period(MonthFirst(k - 12), MonthFirst(k) - 1, FALSE, 12)
    BY <1>0, <1>3, <1>17, <2>1 DEF ResolvePeriod
  <2>3. k - 12 \in Int /\ k - 12 + 12 = k /\ k - 12 >= 12 * (FirstYear + 1)
    BY <1>2
  <2>4. p.start = MonthFirst(k - 12) /\ p.end = MonthFirst(k) - 1 /\ p.unit = 12
    BY <2>2 DEF Period
  <2>5. p.partial \in BOOLEAN
    BY <2>2, Zenon DEF Period
  <2> QED
    BY <1>1, <1>2, <2>3, <2>4, <2>5, WholeUnit
<1> QED
  BY <1>8, <1>9, <1>10, <1>11, <1>12, <1>13, <1>14, <1>15, <1>16, <1>17

\* As many months apart at the start as at the end, and as many years touched.
SameLength(p, b) ==
  /\ \E t \in Nat : MonthOf(b.start) = MonthOf(p.start) - t /\ MonthOf(b.end) = MonthOf(p.end) - t
  /\ (MonthOf(b.end) \div 12) - (MonthOf(b.start) \div 12) =
       (MonthOf(p.end) \div 12) - (MonthOf(p.start) \div 12)

LEMMA MonthsApart ==
  ASSUME NEW i \in Int, NEW j \in Int, i <= j, NEW t \in {1, 3, 12}, j < i + t \/ t = 12, t = 3 => i % 3 = 0
  PROVE  ((j - t) \div 12) - ((i - t) \div 12) = (j \div 12) - (i \div 12)
<1>1. CASE t = 12
  <2>1. (j - 12) \div 12 = (j \div 12) - 1 /\ (i - 12) \div 12 = (i \div 12) - 1
    OBVIOUS
  <2> QED
    BY <1>1, <2>1
<1>2. CASE t = 1
  <2>1. j = i
    BY <1>2
  <2> QED
    BY <1>2, <2>1
<1>3. CASE t = 3
  <2>1. j \div 12 = i \div 12 /\ (j - 3) \div 12 = (i - 3) \div 12
    BY <1>3
  <2> QED
    BY <1>3, <2>1
<1> QED
  BY <1>1, <1>2, <1>3

LEMMA ComparisonsLineUp ==
  ASSUME NEW p, Comparable(p), NEW kind \in {"previous_period", "same_period_last_year"}
  PROVE  /\ ResolveComparison(p, kind).start \in Days /\ ResolveComparison(p, kind).end \in Days
         /\ kind = "same_period_last_year" \/ p.unit # 0 => SameLength(p, ResolveComparison(p, kind))
<1>0. PICK b : b = ResolveComparison(p, kind)
  OBVIOUS
<1>1. PICK start : start = p.start
  OBVIOUS
<1>2. PICK end : end = p.end
  OBVIOUS
<1>3. PICK u : u = p.unit
  OBVIOUS
<1>4. PICK i : i = MonthOf(start)
  OBVIOUS
<1>5. PICK j : j = MonthOf(end)
  OBVIOUS
<1>6. /\ start \in Days /\ end \in Days /\ start <= end /\ u \in {0, 1, 3, 12} /\ i >= 12 * (FirstYear + 1)
      /\ u = 0 => start - 1 - (end - start) >= Day0
      /\ u # 0 => start = MonthFirst(i) /\ j < i + u
      /\ u = 3 => i % 3 = 0
  BY <1>1, <1>2, <1>3, <1>4, <1>5 DEF Comparable
<1>7. i \in Int /\ j \in Int /\ i <= j /\ start \in Int /\ end \in Int /\ FirstYear \in Nat \ {0}
  BY <1>4, <1>5, <1>6, MonthOfADay, DaysInOrder, YearsAssumption, MomentsAreNumbers DEF Days
\* Both ends some months earlier.
<1>8. ASSUME NEW t \in {1, 3, 12}, t = 12 \/ t = u
      PROVE  /\ AddMonths(start, -t) \in Days /\ AddMonths(end, -t) \in Days
             /\ MonthOf(AddMonths(start, -t)) = i - t /\ MonthOf(AddMonths(end, -t)) = j - t
             /\ ((j - t) \div 12) - ((i - t) \div 12) = (j \div 12) - (i \div 12)
  <2>1. t \in Nat \ {0} /\ i - t >= 12 * FirstYear /\ j - t >= 12 * FirstYear
    BY <1>6, <1>7
  <2>2. /\ AddMonths(start, -t) \in Days /\ AddMonths(end, -t) \in Days
        /\ MonthOf(AddMonths(start, -t)) = i - t /\ MonthOf(AddMonths(end, -t)) = j - t
    BY <1>4, <1>5, <1>6, <2>1, MonthsEarlier
  <2>3. ((j - t) \div 12) - ((i - t) \div 12) = (j \div 12) - (i \div 12)
    <3>1. (j < i + t \/ t = 12) /\ (t = 3 => i % 3 = 0)
      <4>1. CASE t = 12
        BY <4>1
      <4>2. CASE t = u
        BY <1>6, <4>2
      <4> QED
        BY <1>8, <4>1, <4>2
    <3> QED
      BY <1>7, <3>1, MonthsApart
  <2> QED
    BY <2>2, <2>3
<1>9. ASSUME NEW t \in {1, 3, 12}, t = 12 \/ t = u, b.start = AddMonths(start, -t), b.end = AddMonths(end, -t)
      PROVE  b.start \in Days /\ b.end \in Days /\ SameLength(p, b)
  <2>1. t \in Nat
    OBVIOUS
  <2> QED
    BY <1>1, <1>2, <1>4, <1>5, <1>8, <1>9, <2>1 DEF SameLength
<1>10. CASE kind = "same_period_last_year"
  <2>1. b = [start |-> AddMonths(p.start, -12), end |-> AddMonths(p.end, -12)]
    BY <1>0, <1>10, Zenon DEF ResolveComparison
  <2>2. b.start = AddMonths(start, -12) /\ b.end = AddMonths(end, -12)
    BY <1>1, <1>2, <2>1
  <2> QED
    BY <1>0, <1>9, <2>2
<1>11. CASE kind = "previous_period" /\ u # 0 /\ p.partial
  <2>1. b = [start |-> AddMonths(p.start, -p.unit), end |-> AddMonths(p.end, -p.unit)]
    BY <1>0, <1>3, <1>11, Zenon DEF ResolveComparison
  <2>2. b.start = AddMonths(start, -u) /\ b.end = AddMonths(end, -u)
    BY <1>1, <1>2, <1>3, <2>1
  <2>3. u \in {1, 3, 12}
    BY <1>6, <1>11
  <2> QED
    BY <1>0, <1>9, <2>2, <2>3
<1>12. CASE kind = "previous_period" /\ u # 0 /\ ~p.partial
  <2>1. b = [start |-> AddMonths(p.start, -p.unit), end |-> p.start - 1]
    BY <1>0, <1>3, <1>12, Zenon DEF ResolveComparison
  <2>2. b.start = AddMonths(start, -u) /\ b.end = start - 1
    BY <1>1, <1>3, <2>1
  <2>3. u \in {1, 3, 12} /\ start = MonthFirst(i) /\ u \in Nat
    BY <1>6, <1>12
  <2>4. end = MonthFirst(i + u) - 1
    <3>1. p.end = MonthFirst(MonthOf(p.start) + p.unit) - 1
      BY <1>3, <1>12, Zenon DEF Comparable
    <3> QED
      BY <1>1, <1>2, <1>3, <1>4, <3>1
  <2>5. start - 1 \in Days /\ MonthOf(start - 1) = i - 1
    <3>1. i > 12 * FirstYear /\ MonthFirst(i) - 1 <= DayN
      BY <1>6, <1>7, <2>3, MomentsAreNumbers DEF Days
    <3> QED
      BY <1>7, <2>3, <3>1, DayBefore
  <2>6. j = i + u - 1
    <3>1. PICK k : k = i + u
      OBVIOUS
    <3>2. k > 12 * FirstYear /\ k \in Int /\ MonthFirst(k) - 1 = end /\ end <= DayN
      BY <1>6, <1>7, <2>3, <2>4, <3>1, MomentsAreNumbers DEF Days
    <3>3. MonthOf(end) = k - 1
      BY <3>2, DayBefore
    <3> QED
      BY <1>5, <1>7, <2>3, <3>1, <3>3
  <2>7. /\ AddMonths(start, -u) \in Days /\ MonthOf(AddMonths(start, -u)) = i - u
        /\ ((j - u) \div 12) - ((i - u) \div 12) = (j \div 12) - (i \div 12)
    BY <1>8, <2>3
  <2>8. i - 1 = j - u
    BY <1>7, <2>3, <2>6
  <2>9. MonthOf(b.start) = i - u /\ MonthOf(b.end) = j - u
    BY <2>2, <2>5, <2>7, <2>8
  <2>10. SameLength(p, b)
    BY <1>1, <1>2, <1>4, <1>5, <2>3, <2>7, <2>9 DEF SameLength
  <2> QED
    BY <1>0, <2>2, <2>5, <2>7, <2>10
<1>13. CASE kind = "previous_period" /\ u = 0
  <2>1. b = [start |-> p.start - 1 - (p.end - p.start), end |-> p.start - 1]
    BY <1>0, <1>3, <1>13, Zenon DEF ResolveComparison
  <2>2. b.start = start - 1 - (end - start) /\ b.end = start - 1
    BY <1>1, <1>2, <2>1
  <2>3. b.start \in Days /\ b.end \in Days
    BY <1>6, <1>7, <1>13, <2>2, MomentsAreNumbers DEF Days
  <2> QED
    BY <1>0, <1>3, <1>13, <2>3
<1> QED
  BY <1>10, <1>11, <1>12, <1>13

LEMMA LeastDay ==
  ASSUME NEW S \in SUBSET Days, S # {}
  PROVE  Min(S) \in S /\ \A d \in S : Min(S) <= d
<1>1. Days \subseteq Nat
  <2>1. Day0 >= 1
    <3>1. FirstYear \in Nat \ {0}
      BY YearsAssumption
    <3> QED
      BY <3>1 DEF Day0, DayOf, BeforeMonth
  <2> QED
    BY <2>1, MomentsAreNumbers DEF Days
<1>2. PICK d \in S : \A e \in S : d <= e
  BY <1>1, LeastNat
<1> QED
  BY <1>2 DEF Min

LEMMA MinOfInterval ==
  ASSUME NEW i \in Int, NEW j \in Int, i <= j
  PROVE  Min(i..j) = i
BY DEF Min

LEMMA LoanFields ==
  ASSUME DeskInv, NEW l \in LoanIds
  PROVE  /\ loans[l].copy \in Copies /\ loans[l].member \in Members /\ loans[l].borrowed \in Moments
         /\ loans[l].returned \in Moments \cup {None} /\ loans[l].due \in Int
         /\ BookOf[loans[l].copy] \in Books
<1>1. loans[l] \in LoanRecords
  BY DEF DeskInv, DeskTypes, LoanIds
<1> QED
  BY <1>1, DeskAssumption DEF LoanRecords

LEMMA LoansAreFinite ==
  ASSUME DeskInv
  PROVE  IsFiniteSet(LoanIds) /\ IsFiniteSet(OutLoans) /\ IsFiniteSet(InCirculation) /\ IsFiniteSet(MembersNow)
         /\ IsFiniteSet(Catalog)
<1>1. LoanIds = 1..Len(loans) /\ Len(loans) \in Nat
  BY DEF DeskInv, DeskTypes, LoanIds
<1>2. IsFiniteSet(LoanIds)
  BY <1>1, FS_Interval
<1>3. OutLoans \subseteq LoanIds /\ InCirculation \subseteq Copies /\ MembersNow \subseteq Members /\ Catalog \subseteq Books
  BY DEF OutLoans, InCirculation, MembersNow, Catalog, TitlesNow
<1> QED
  BY <1>2, <1>3, DeskAssumption, FS_Subset

LEMMA FirstDayIsADay ==
  ASSUME DeskInv, NEW name
  PROVE  FirstDay(name) \in Days /\ FirstDay(name) <= Today
<1>1. Today \in Days
  BY TodayIsLate
<1>2. {Joined[m] : m \in MembersNow} \cup {Today} \subseteq Days
  BY <1>1, DeskAssumption DEF MembersNow, Days
<1>3. {Day(loans[l].borrowed) : l \in LoanIds} \cup {Today} \subseteq Days
  <2>1. \A l \in LoanIds : Day(loans[l].borrowed) \in Days
    BY LoanFields, MomentsAreNumbers DEF Days
  <2> QED
    BY <1>1, <2>1
<1>4. CASE name = "new_members"
  <2> DEFINE S == {Joined[m] : m \in MembersNow} \cup {Today}
  <2>1. Today \in S /\ S \in SUBSET Days
    BY <1>2
  <2>2. FirstDay(name) = Min(S)
    BY <1>4 DEF FirstDay
  <2> HIDE DEF S
  <2> QED
    BY <2>1, <2>2, LeastDay
<1>5. CASE name # "new_members"
  <2> DEFINE S == {Day(loans[l].borrowed) : l \in LoanIds} \cup {Today}
  <2>1. Today \in S /\ S \in SUBSET Days
    BY <1>3
  <2>2. FirstDay(name) = Min(S)
    BY <1>5 DEF FirstDay
  <2> HIDE DEF S
  <2> QED
    BY <2>1, <2>2, LeastDay
<1> QED
  BY <1>4, <1>5

\* The periods queries are asked for, and with them what they are compared with.
LEMMA QueryPeriods ==
  ASSUME DeskInv, NEW q \in Queries, CATALOGUE[q.metric].measured # "now"
  PROVE  /\ PeriodOf(q).start \in Days /\ PeriodOf(q).end \in Days
         /\ PeriodOf(q).start <= PeriodOf(q).end /\ PeriodOf(q).end <= Today
         /\ q.compare_to # "none" => Comparable(PeriodOf(q))
<1>1. PICK p : p = PeriodOf(q)
  OBVIOUS
<1> SUFFICES /\ p.start \in Days /\ p.end \in Days /\ p.start <= p.end /\ p.end <= Today
             /\ q.compare_to # "none" => Comparable(p)
  BY <1>1
<1>2. q \in Asked /\ Accepted(q)
  BY DEF Queries
<1>3. q.preset \in AllPresets \cup {None, "dates"}
  BY <1>2, AskedAssumption
<1>4. Today \in Days /\ Today \in Int
  BY TodayIsLate, MomentsAreNumbers DEF Days
<1>5. CASE q.preset = "dates"
  <2>1. p = Period(q.from, q.to, FALSE, 0)
    BY <1>1, <1>5, Zenon DEF PeriodOf, ResolveDates
  <2>2. p.start = q.from /\ p.end = q.to /\ p.unit = 0
    BY <2>1 DEF Period
  <2>3. p.partial \in BOOLEAN
    BY <2>1, Zenon DEF Period
  <2>4. q.from <= q.to /\ q.to <= Today
    BY <1>2, <1>5 DEF Accepted, DatesAllowed
  <2>5. PICK from : from = q.from
    OBVIOUS
  <2>6. PICK to : to = q.to
    OBVIOUS
  <2>7. PICK y : y = FirstYear + 1
    OBVIOUS
  <2>8. /\ from \in DayOf(y, 1, 1)..DayN /\ to \in Int /\ from - 1 - (to - from) >= Day0
    BY <1>2, <1>5, <2>5, <2>6, <2>7, CalendarAssumption
  <2>9. y \in Nat \ {0} /\ FirstYear \in Nat
    BY <2>7, YearsAssumption
  <2>10. DayOf(y, 1, 1) \in Int /\ DayN \in Int /\ Day0 \in Int /\ Today <= DayN
    BY <1>4, <2>9, YearsStart, MomentsAreNumbers DEF Days
  <2>11. from \in Days /\ to \in Days /\ from <= to /\ to <= Today
    BY <1>4, <2>4, <2>5, <2>6, <2>8, <2>10 DEF Days
  <2>12. MonthOf(from) >= 12 * y
    <3>1. (12 * y) \div 12 = y /\ ((12 * y) % 12) + 1 = 1 /\ 12 * y >= 12 /\ 12 * y \in Int
      BY <2>9
    <3>2. MonthFirst(12 * y) = DayOf(y, 1, 1)
      BY <3>1 DEF MonthFirst
    <3>3. MonthFirst(12 * y) <= from
      BY <2>8, <2>10, <3>2
    <3> QED
      BY <2>11, <3>1, <3>3, MonthAtLeast, MonthOfADay
  <2>13. /\ p.start \in Days /\ p.end \in Days /\ p.start <= p.end /\ p.end <= Today /\ p.unit \in {0, 1, 3, 12}
         /\ MonthOf(p.start) >= 12 * (FirstYear + 1) /\ p.start - 1 - (p.end - p.start) >= Day0
         /\ ~(p.unit # 0) /\ p.unit # 3
    BY <2>2, <2>5, <2>6, <2>7, <2>8, <2>11, <2>12
  <2> QED
    BY <2>3, <2>13, Zenon DEF Comparable
<1>6. CASE q.preset # "dates"
  <2>1. PICK preset : preset = IF q.preset = None THEN "last_12_months" ELSE q.preset
    OBVIOUS
  <2>2. p = ResolvePeriod(preset, Today, FirstDay(q.metric))
    BY <1>1, <1>6, <2>1, Zenon DEF PeriodOf
  <2>3. preset \in AllPresets
    BY <1>3, <1>6, <2>1 DEF AllPresets
  <2>4. CASE preset = "all_time"
    <3>1. q.preset = "all_time"
      BY <2>1, <2>4
    <3>2. q.compare_to = "none"
      BY <1>2, <3>1 DEF Accepted
    <3>3. p = Period(IF FirstDay(q.metric) < Today THEN FirstDay(q.metric) ELSE Today, Today, FALSE, 0)
      BY <2>2, <2>4 DEF ResolvePeriod
    <3>4. p.start = (IF FirstDay(q.metric) < Today THEN FirstDay(q.metric) ELSE Today) /\ p.end = Today
      BY <3>3 DEF Period
    <3> QED
      BY <1>4, <3>2, <3>4, FirstDayIsADay
  <2>5. CASE preset # "all_time"
    <3>1. Comparable(p) /\ p.end <= Today
      BY <2>2, <2>3, <2>5, PresetsAreComparable
    <3>2. p.start \in Days /\ p.end \in Days /\ p.start <= p.end
      BY <3>1, Zenon DEF Comparable
    <3> QED
      BY <3>1, <3>2
  <2> QED
    BY <2>4, <2>5
<1> QED
  BY <1>5, <1>6

-----------------------------------------------------------------------------
\* Rows add up

SharedNames == {"loans", "returns", "active_loans", "overdue_loans", "new_members", "titles_not_borrowed"}

LEMMA CatalogueSays ==
  /\ DOMAIN CATALOGUE = SharedNames \cup {"unique_borrowers", "late_return_rate", "average_loan_days",
                                          "copies_on_loan_share"}
  /\ \A name \in {"unique_borrowers", "late_return_rate", "average_loan_days", "copies_on_loan_share"} :
       ~CATALOGUE[name].shares
  /\ \A name \in {"active_loans", "overdue_loans"} :
       CATALOGUE[name].measured = "now" /\ CATALOGUE[name].groupings = NowGroupings
  /\ \A name \in {"loans", "returns", "new_members", "titles_not_borrowed"} :
       CATALOGUE[name].measured = "period"
  /\ CATALOGUE["titles_not_borrowed"].groupings = {"none", "category", "author", "book"}
<1>1. DOMAIN CATALOGUE = SharedNames \cup {"unique_borrowers", "late_return_rate", "average_loan_days",
                                           "copies_on_loan_share"}
  BY DEF CATALOGUE, SharedNames
<1>2. /\ ~CATALOGUE["unique_borrowers"].shares /\ ~CATALOGUE["late_return_rate"].shares
      /\ ~CATALOGUE["average_loan_days"].shares /\ ~CATALOGUE["copies_on_loan_share"].shares
  BY Zenon DEF CATALOGUE, Metric
<1>3. /\ CATALOGUE["active_loans"].measured = "now" /\ CATALOGUE["active_loans"].groupings = NowGroupings
      /\ CATALOGUE["overdue_loans"].measured = "now" /\ CATALOGUE["overdue_loans"].groupings = NowGroupings
  BY DEF CATALOGUE, Metric
<1>4. /\ CATALOGUE["loans"].measured = "period" /\ CATALOGUE["returns"].measured = "period"
      /\ CATALOGUE["new_members"].measured = "period"
      /\ CATALOGUE["titles_not_borrowed"].measured = "period"
      /\ CATALOGUE["titles_not_borrowed"].groupings = {"none", "category", "author", "book"}
  BY DEF CATALOGUE, Metric
<1> QED
  BY <1>1, <1>2, <1>3, <1>4

LEMMA SharedQueries ==
  ASSUME NEW q \in Queries, CATALOGUE[q.metric].shares
  PROVE  /\ q.metric \in SharedNames
         /\ q.group_by \in TimeGroupings => q.metric \in {"loans", "returns", "new_members"}
         /\ q.metric \in {"loans", "returns", "new_members", "titles_not_borrowed"}
              => CATALOGUE[q.metric].measured # "now"
         /\ q.compare_to # "none" => CATALOGUE[q.metric].measured # "now"
<1>1. q \in Asked /\ Accepted(q)
  BY DEF Queries
<1>2. q.metric \in SharedNames
  <2>1. q.metric \in DOMAIN CATALOGUE
    BY <1>1, AskedAssumption
  <2>2. \A name \in {"unique_borrowers", "late_return_rate", "average_loan_days", "copies_on_loan_share"} :
          q.metric # name
    BY CatalogueSays
  <2> QED
    BY <2>1, <2>2, CatalogueSays
<1>3. q.group_by \in CATALOGUE[q.metric].groupings
  BY <1>1, Zenon DEF Accepted
<1>4. q.compare_to # "none" => CATALOGUE[q.metric].measured # "now"
  BY <1>1, Zenon DEF Accepted
<1>5. q.group_by \in TimeGroupings => q.metric \in {"loans", "returns", "new_members"}
  BY <1>2, <1>3, CatalogueSays DEF SharedNames, TimeGroupings, NowGroupings
<1>6. q.metric \in {"loans", "returns", "new_members", "titles_not_borrowed"} => CATALOGUE[q.metric].measured # "now"
  BY CatalogueSays
<1> QED
  BY <1>2, <1>4, <1>5, <1>6

\* groups counts the rows of R by their keys.
CountsOf(groups, R, key) ==
  /\ IsFiniteSet(R) /\ IsFiniteSet(DOMAIN groups) /\ \A row \in R : key[row] \in DOMAIN groups
  /\ \A k \in DOMAIN groups : groups[k] = Cardinality({row \in R : key[row] = k})

LEMMA PaddedSum ==
  ASSUME NEW groups, NEW R, NEW key, CountsOf(groups, R, key),
         NEW g, IsFiniteSet(DOMAIN g), DOMAIN groups \subseteq DOMAIN g,
         \A k \in DOMAIN g : g[k] = IF k \in DOMAIN groups THEN groups[k] ELSE 0
  PROVE  SumFunction(g) = Cardinality(R)
<1>1. ASSUME NEW k \in DOMAIN g PROVE g[k] = Cardinality({row \in R : key[row] = k})
  <2>1. CASE k \in DOMAIN groups
    BY <2>1 DEF CountsOf
  <2>2. CASE k \notin DOMAIN groups
    <3>1. {row \in R : key[row] = k} = {}
      BY <2>2 DEF CountsOf
    <3>2. Cardinality({row \in R : key[row] = k}) = 0
      BY <3>1, FS_EmptySet
    <3> QED
      BY <2>2, <3>2
  <2> QED
    BY <2>1, <2>2
<1>2. SumFunction(g) = Cardinality({row \in R : key[row] \in DOMAIN g})
  BY <1>1, SumOfCounts DEF CountsOf
<1>3. {row \in R : key[row] \in DOMAIN g} = R
  BY DEF CountsOf
<1> QED
  BY <1>2, <1>3

LEMMA RowsAreFinite ==
  ASSUME DeskInv, NEW q, q.metric \in SharedNames, NEW span
  PROVE  IsFiniteSet(Rows(q, span)) /\ \A R : Measure(q.metric, R) = Cardinality(R)
<1>1. Source(q.metric, span) \subseteq LoanIds \/ Source(q.metric, span) \subseteq MembersNow
      \/ Source(q.metric, span) \subseteq Catalog
  BY DEF Source, SharedNames, OutLoans, BorrowedWithin, ReturnedWithin
<1>2. Rows(q, span) \subseteq Source(q.metric, span)
  BY DEF Rows
<1>3. IsFiniteSet(Rows(q, span))
  BY <1>1, <1>2, LoansAreFinite, FS_Subset
<1>4. \A R : Measure(q.metric, R) = Cardinality(R)
  BY DEF Measure, SharedNames
<1> QED
  BY <1>3, <1>4

LEMMA YearOf ==
  ASSUME NEW n \in Days
  PROVE  Date[n].year = MonthOf(n) \div 12 /\ MonthOf(n) \in Int
BY MonthOfADay

LEMMA DaysInBuckets ==
  ASSUME NEW g \in TimeGroupings, NEW start \in Days, NEW end \in Days, NEW d \in Days, start <= d, d <= end
  PROVE  BucketOf(g, d) \in Buckets(g, start, end)
<1>1. start \in Int /\ end \in Int /\ d \in Int
  BY MomentsAreNumbers DEF Days
<1>2. MonthOf(start) <= MonthOf(d) /\ MonthOf(d) <= MonthOf(end)
  BY DaysInOrder
<1>3. CASE g = "month"
  <2>1. \A n : BucketOf(g, n) = MonthOf(n)
    BY <1>3 DEF BucketOf, MonthOf
  <2>2. Buckets(g, start, end) = MonthOf(start)..MonthOf(end)
    BY <1>3, <2>1 DEF Buckets
  <2> QED
    BY <1>2, <2>1, <2>2, MonthOfADay
<1>4. CASE g = "year"
  <2>1. \A n : BucketOf(g, n) = Date[n].year
    BY <1>4 DEF BucketOf
  <2>2. Buckets(g, start, end) = Date[start].year..Date[end].year
    BY <1>4, <2>1 DEF Buckets
  <2>3. Date[start].year \in Int /\ Date[end].year \in Int /\ Date[d].year \in Int
    BY DateIs, YearsAssumption
  <2>4. Date[start].year <= Date[d].year /\ Date[d].year <= Date[end].year
    BY <1>2, YearOf
  <2> QED
    BY <2>1, <2>2, <2>3, <2>4
<1>5. CASE g = "weekday"
  <2>1. BucketOf(g, d) = Weekday(d)
    BY <1>5 DEF BucketOf
  <2>2. Buckets(g, start, end) = {Weekday(n) : n \in start..(IF end - start < 7 THEN end ELSE start + 6)}
    BY <1>5 DEF Buckets
  <2>3. CASE end - start < 7
    BY <1>1, <2>1, <2>2, <2>3
  <2>4. CASE ~(end - start < 7)
    <3>1. PICK n : n = start + ((d - start) % 7)
      OBVIOUS
    <3>2. n \in start..(start + 6) /\ n \in Int
      BY <1>1, <3>1
    <3>3. (n - 1) % 7 = (d - 1) % 7
      BY <1>1, <3>1
    <3>4. Weekday(n) = Weekday(d)
      BY <3>3 DEF Weekday
    <3> QED
      BY <2>1, <2>2, <2>4, <3>2, <3>4
  <2> QED
    BY <2>3, <2>4
<1> QED
  BY <1>3, <1>4, <1>5 DEF TimeGroupings

LEMMA BucketsAreFinite ==
  ASSUME NEW g \in TimeGroupings, NEW start \in Days, NEW end \in Days
  PROVE  IsFiniteSet(Buckets(g, start, end))
<1>1. start \in Int /\ end \in Int
  BY MomentsAreNumbers DEF Days
<1>2. CASE g = "weekday"
  <2>1. \A n \in Int : Weekday(n) \in 1..7
    BY DEF Weekday
  <2>2. Buckets(g, start, end) = {Weekday(n) : n \in start..(IF end - start < 7 THEN end ELSE start + 6)}
    BY <1>2 DEF Buckets
  <2>3. Buckets(g, start, end) \subseteq 1..7
    BY <1>1, <2>1, <2>2
  <2>4. IsFiniteSet(1..7)
    <3>1. PICK i \in Int, j \in Int : i = 1 /\ j = 7
      OBVIOUS
    <3>2. IsFiniteSet(i..j)
      BY FS_Interval
    <3> QED
      BY <3>1, <3>2
  <2> QED
    BY <2>3, <2>4, FS_Subset
<1>3. CASE g # "weekday"
  <2>1. BucketOf(g, start) \in Int /\ BucketOf(g, end) \in Int
    <3>1. CASE g = "month"
      BY <3>1, MonthOfADay DEF BucketOf, MonthOf
    <3>2. CASE g = "year"
      BY <3>2, DateIs, YearsAssumption DEF BucketOf
    <3> QED
      BY <1>3, <3>1, <3>2 DEF TimeGroupings
  <2>2. Buckets(g, start, end) = BucketOf(g, start)..BucketOf(g, end)
    BY <1>3 DEF Buckets
  <2> QED
    BY <2>1, <2>2, FS_Interval
<1> QED
  BY <1>2, <1>3

\* A counted event has a day, and the day lies in the span.
LEMMA EventsWithin ==
  ASSUME DeskInv, NEW q, q.metric \in {"loans", "returns", "new_members"}, NEW span, NEW row \in Rows(q, span)
  PROVE  /\ EventDay(q.metric, row) \in Days
         /\ span.start <= EventDay(q.metric, row) /\ EventDay(q.metric, row) <= span.end
<1>1. row \in Source(q.metric, span)
  BY DEF Rows
<1>2. CASE q.metric = "loans"
  <2>1. row \in BorrowedWithin(span) /\ EventDay(q.metric, row) = Day(loans[row].borrowed)
    BY <1>1, <1>2 DEF Source, EventDay
  <2>2. row \in LoanIds /\ Within(loans[row].borrowed, span)
    BY <2>1 DEF BorrowedWithin
  <2>3. Day(loans[row].borrowed) \in Days
    BY <2>2, LoanFields, MomentsAreNumbers DEF Days
  <2> QED
    BY <2>1, <2>2, <2>3 DEF Within
<1>3. CASE q.metric = "returns"
  <2>1. row \in ReturnedWithin(span) /\ EventDay(q.metric, row) = Day(loans[row].returned)
    BY <1>1, <1>3 DEF Source, EventDay
  <2>2. row \in LoanIds /\ loans[row].returned # None /\ Within(loans[row].returned, span)
    BY <2>1 DEF ReturnedWithin
  <2>3. Day(loans[row].returned) \in Days
    BY <2>2, LoanFields, MomentsAreNumbers DEF Days
  <2> QED
    BY <2>1, <2>2, <2>3 DEF Within
<1>4. CASE q.metric = "new_members"
  <2>1. /\ row \in MembersNow /\ span.start <= Joined[row] /\ Joined[row] <= span.end
        /\ EventDay(q.metric, row) = Joined[row]
    BY <1>1, <1>4 DEF Source, EventDay
  <2>2. Joined[row] \in Days
    BY <2>1, DeskAssumption DEF MembersNow, Days
  <2> QED
    BY <2>1, <2>2
<1> QED
  BY <1>2, <1>3, <1>4

KeyOf(q, span) == [row \in Rows(q, span) |-> GroupKey(q.group_by, q.metric, row)]

LEMMA GroupsCount ==
  ASSUME DeskInv, NEW q, q.metric \in SharedNames, q.group_by # "none",
         q.group_by \in TimeGroupings => q.metric \in {"loans", "returns", "new_members"},
         NEW span, q.group_by \in TimeGroupings => span.start \in Days /\ span.end \in Days
  PROVE  /\ CountsOf(GroupsOf(q, span), Rows(q, span), KeyOf(q, span))
         /\ q.group_by \in TimeGroupings => DOMAIN GroupsOf(q, span) = Buckets(q.group_by, span.start, span.end)
<1> DEFINE rows == Rows(q, span)
           key == KeyOf(q, span)
           keys == IF q.group_by = "none" THEN {}
                   ELSE IF q.group_by \in TimeGroupings THEN Buckets(q.group_by, span.start, span.end)
                   ELSE {key[row] : row \in rows}
           groups == GroupsOf(q, span)
<1>1. groups = [k \in keys |-> Measure(q.metric, {row \in rows : key[row] = k})]
  BY Zenon DEF GroupsOf, GroupsOfRows, KeyOf
<1>2. IsFiniteSet(rows) /\ \A R : Measure(q.metric, R) = Cardinality(R)
  BY RowsAreFinite
<1> HIDE DEF rows, groups
<1>3. DOMAIN groups = keys /\ \A k \in keys : groups[k] = Cardinality({row \in rows : key[row] = k})
  <2> HIDE DEF keys, key
  <2> QED
    BY <1>1, <1>2
<1>4. CASE q.group_by \in TimeGroupings
  <2>1. keys = Buckets(q.group_by, span.start, span.end)
    BY <1>4
  <2>2. IsFiniteSet(keys)
    BY <1>4, <2>1, BucketsAreFinite
  <2>3. ASSUME NEW row \in rows PROVE key[row] \in keys
    <3>1. /\ EventDay(q.metric, row) \in Days
          /\ span.start <= EventDay(q.metric, row) /\ EventDay(q.metric, row) <= span.end
      BY <1>4, EventsWithin DEF rows
    <3>2. BucketOf(q.group_by, EventDay(q.metric, row)) \in Buckets(q.group_by, span.start, span.end)
      BY <1>4, <3>1, DaysInBuckets
    <3>3. key[row] = BucketOf(q.group_by, EventDay(q.metric, row))
      BY <1>4 DEF rows, KeyOf, GroupKey, TimeGroupings
    <3> HIDE DEF keys, key
    <3> QED
      BY <2>1, <3>2, <3>3
  <2> HIDE DEF keys, key
  <2>4. CountsOf(groups, rows, key)
    BY <1>2, <1>3, <2>2, <2>3 DEF CountsOf
  <2> QED
    BY <1>3, <2>1, <2>4 DEF groups, rows, key
<1>5. CASE q.group_by \notin TimeGroupings
  <2>1. keys = {key[row] : row \in rows}
    BY <1>5
  <2>2. IsFiniteSet(keys)
    <3>1. key = [row \in rows |-> key[row]]
      BY DEF rows, KeyOf
    <3> HIDE DEF keys, key
    <3>2. key \in Surjection(rows, keys)
      BY <2>1, <3>1 DEF Surjection
    <3> QED
      BY <1>2, <3>2, FS_Surjection
  <2> HIDE DEF keys, key
  <2>3. CountsOf(groups, rows, key)
    BY <1>2, <1>3, <2>1, <2>2 DEF CountsOf
  <2> QED
    BY <1>5, <2>3 DEF groups, rows, key
<1> QED
  BY <1>4, <1>5

\* The months or years of the period before, lined up with this period's.
LEMMA EarlierGroupsCount ==
  ASSUME NEW g \in {"month", "year"}, NEW i \in Int, NEW j \in Int, i <= j, NEW c \in Int, NEW d \in Int,
         d - c = j - i, NEW current, DOMAIN current = i..j, NEW earlier, DOMAIN earlier = c..d,
         NEW R, NEW key, CountsOf(earlier, R, key)
  PROVE  \E early : CountsOf(EarlierGroups(g, current, earlier), R, early)
<1> DEFINE lined == EarlierGroups(g, current, earlier)
           early == [row \in R |-> key[row] - (c - i)]
<1>1. Min(DOMAIN current) = i /\ Min(DOMAIN earlier) = c
  <2>1. c <= d
    OBVIOUS
  <2> QED
    BY <2>1, MinOfInterval
<1>2. lined = [k \in {k \in DOMAIN current : k + (c - i) \in DOMAIN earlier} |-> earlier[k + (c - i)]]
  BY <1>1 DEF EarlierGroups
<1>3. {k \in DOMAIN current : k + (c - i) \in DOMAIN earlier} = i..j
  OBVIOUS
<1>4. DOMAIN lined = i..j /\ \A k \in i..j : lined[k] = earlier[k + (c - i)]
  <2> HIDE DEF lined
  <2> QED
    BY <1>2, <1>3
<1>5. \A row \in R : key[row] \in c..d /\ early[row] = key[row] - (c - i)
  BY DEF CountsOf
<1> HIDE DEF lined, early
<1>6. ASSUME NEW k \in i..j PROVE lined[k] = Cardinality({row \in R : early[row] = k})
  <2>1. k + (c - i) \in c..d
    OBVIOUS
  <2>2. earlier[k + (c - i)] = Cardinality({row \in R : key[row] = k + (c - i)})
    BY <2>1 DEF CountsOf
  <2>3. {row \in R : early[row] = k} = {row \in R : key[row] = k + (c - i)}
    BY <1>5
  <2> QED
    BY <1>4, <2>2, <2>3
<1>7. IsFiniteSet(i..j) /\ IsFiniteSet(R)
  BY FS_Interval DEF CountsOf
<1>8. \A row \in R : early[row] \in i..j
  BY <1>5
<1>9. CountsOf(lined, R, early)
  BY <1>4, <1>6, <1>7, <1>8 DEF CountsOf
<1> QED
  BY <1>9 DEF lined

LEMMA ResultSays ==
  ASSUME NEW q, NEW period, NEW before, NEW groups, NEW total, NEW earlier, NEW previousTotal,
         NEW result, result = Result(q, period, before, groups, total, earlier, previousTotal)
  PROVE  /\ DOMAIN result.rows = DOMAIN groups \cup DOMAIN earlier
         /\ \A k \in DOMAIN result.rows : result.rows[k].value = IF k \in DOMAIN groups THEN groups[k]
                                                                  ELSE EmptyValue(q.metric)
         /\ before # None => \A k \in DOMAIN result.rows :
              result.rows[k].previous_value = IF k \in DOMAIN earlier THEN earlier[k] ELSE EmptyValue(q.metric)
         /\ result.total.value = total /\ result.total.previous_value = previousTotal
<1> DEFINE metric == CATALOGUE[q.metric]
           empty == EmptyValue(q.metric)
           Value(k) == IF k \in DOMAIN groups THEN groups[k] ELSE empty
           Previous(k) == IF before = None THEN None ELSE IF k \in DOMAIN earlier THEN earlier[k] ELSE empty
<1>1. /\ result.rows = [k \in DOMAIN groups \cup DOMAIN earlier |->
                          Item(metric, Value(k), total, Previous(k), previousTotal)]
      /\ result.total = Item(metric, total, None, previousTotal, None)
  BY DEF Result
<1>2. \A value, all, previous, before_ :
        /\ Item(metric, value, all, previous, before_).value = value
        /\ Item(metric, value, all, previous, before_).previous_value = previous
  BY DEF Item
<1> HIDE DEF metric, empty
<1>3. DOMAIN result.rows = DOMAIN groups \cup DOMAIN earlier
  BY <1>1
<1>4. \A k \in DOMAIN result.rows : result.rows[k].value = Value(k) /\ result.rows[k].previous_value = Previous(k)
  <2> HIDE DEF Value, Previous
  <2> QED
    BY <1>1, <1>2
<1>5. result.total.value = total /\ result.total.previous_value = previousTotal
  BY <1>1, <1>2
<1> QED
  BY <1>3, <1>4, <1>5 DEF empty

LEMMA RowsSum ==
  ASSUME NEW result, NEW field \in {"value", "previous_value"}, NEW groups, NEW R, NEW key,
         CountsOf(groups, R, key), IsFiniteSet(DOMAIN result.rows), DOMAIN groups \subseteq DOMAIN result.rows,
         \A k \in DOMAIN result.rows : result.rows[k][field] = IF k \in DOMAIN groups THEN groups[k] ELSE 0,
         result.total[field] = Cardinality(R)
  PROVE  RowsAddUp(result, field)
<1> DEFINE g == [k \in DOMAIN result.rows |-> result.rows[k][field]]
<1>1. DOMAIN g = DOMAIN result.rows
  OBVIOUS
<1>2. \A k \in DOMAIN g : g[k] = IF k \in DOMAIN groups THEN groups[k] ELSE 0
  OBVIOUS
<1> HIDE DEF g
<1>3. SumFunction(g) = Cardinality(R)
  BY <1>1, <1>2, PaddedSum
<1> QED
  BY <1>3, Zenon DEF RowsAddUp, g

\* Only days that roll or are named have no unit of months.
LEMMA PresetUnits ==
  ASSUME NEW q \in Queries, CATALOGUE[q.metric].measured # "now", q.compare_to = "previous_period",
         q.preset \notin {"last_30_days", "last_90_days", "dates"}
  PROVE  PeriodOf(q).unit # 0
<1>1. q \in Asked /\ Accepted(q)
  BY DEF Queries
<1>2. PICK preset : preset = IF q.preset = None THEN "last_12_months" ELSE q.preset
  OBVIOUS
<1>3. q.preset \in AllPresets \cup {None, "dates"} /\ q.preset # "all_time"
  BY <1>1, AskedAssumption DEF Accepted
<1>4. preset \in {"this_month", "this_quarter", "this_year", "last_month", "last_quarter", "last_year",
                  "last_12_months"}
  BY <1>2, <1>3 DEF AllPresets
<1>5. PeriodOf(q) = ResolvePeriod(preset, Today, FirstDay(q.metric))
  BY <1>2, Zenon DEF PeriodOf
<1>6. \A start, end, partial : /\ Period(start, end, partial, 1).unit # 0 /\ Period(start, end, partial, 3).unit # 0
                               /\ Period(start, end, partial, 12).unit # 0
  BY DEF Period
<1>7. CASE preset = "this_month"
  BY <1>5, <1>6, <1>7 DEF ResolvePeriod
<1>8. CASE preset = "this_quarter"
  BY <1>5, <1>6, <1>8 DEF ResolvePeriod
<1>9. CASE preset = "this_year"
  BY <1>5, <1>6, <1>9 DEF ResolvePeriod
<1>10. CASE preset = "last_month"
  BY <1>5, <1>6, <1>10 DEF ResolvePeriod
<1>11. CASE preset = "last_quarter"
  BY <1>5, <1>6, <1>11 DEF ResolvePeriod
<1>12. CASE preset = "last_year"
  BY <1>5, <1>6, <1>12 DEF ResolvePeriod
<1>13. CASE preset = "last_12_months"
  BY <1>5, <1>6, <1>13 DEF ResolvePeriod
<1> QED
  BY <1>4, <1>7, <1>8, <1>9, <1>10, <1>11, <1>12, <1>13

LEMMA ComparedWithDays ==
  ASSUME DeskInv, NEW q \in Queries, CATALOGUE[q.metric].measured # "now", q.compare_to # "none",
         NEW b, b = ComparisonOf(q, PeriodOf(q))
  PROVE  /\ b.start \in Days /\ b.end \in Days /\ b # None
         /\ LinesUp(q) /\ q.group_by \in {"month", "year"} => SameLength(PeriodOf(q), b)
<1>1. PICK p : p = PeriodOf(q)
  OBVIOUS
<1>2. PICK kind : kind = q.compare_to
  OBVIOUS
<1>3. q \in Asked
  BY DEF Queries
<1>4. kind \in {"previous_period", "same_period_last_year"}
  BY <1>2, <1>3, AskedAssumption
<1>5. Comparable(p)
  BY <1>1, QueryPeriods
<1>6. b = ResolveComparison(p, kind)
  BY <1>1, <1>2, Zenon DEF ComparisonOf
<1>7. /\ b.start \in Days /\ b.end \in Days
      /\ kind = "same_period_last_year" \/ p.unit # 0 => SameLength(p, b)
  BY <1>4, <1>5, <1>6, ComparisonsLineUp
<1>8. \E start, end : ResolveComparison(p, kind) = [start |-> start, end |-> end]
  BY <1>4, Zenon DEF ResolveComparison
<1>9. b \in [start : Int, end : Int]
  <2>1. PICK start, end : b = [start |-> start, end |-> end]
    BY <1>6, <1>8
  <2>2. b.start = start /\ b.end = end
    BY <2>1
  <2>3. start \in Int /\ end \in Int
    BY <1>7, <2>2, MomentsAreNumbers DEF Days
  <2> QED
    BY <2>1, <2>3
<1>10. b # None
  BY <1>9, DeskAssumption
<1>11. ASSUME LinesUp(q), q.group_by \in {"month", "year"} PROVE SameLength(p, b)
  <2>1. CASE kind = "same_period_last_year"
    BY <1>7, <2>1
  <2>2. CASE kind = "previous_period"
    <3>1. q.preset \notin {"last_30_days", "last_90_days", "dates"}
      BY <1>2, <1>11, <2>2 DEF LinesUp
    <3>2. p.unit # 0
      BY <1>1, <1>2, <2>2, <3>1, PresetUnits
    <3> QED
      BY <1>7, <3>2
  <2> QED
    BY <1>4, <2>1, <2>2
<1> QED
  BY <1>1, <1>7, <1>10, <1>11

\* The groups of the period before, lined up, still count every row of it.
LEMMA EarlierCounts ==
  ASSUME DeskInv, NEW q \in Queries, CATALOGUE[q.metric].shares, q.group_by # "none", q.compare_to # "none",
         NEW p, p = PeriodOf(q), NEW b, b = ComparisonOf(q, p),
         NEW earlier, earlier = EarlierGroups(q.group_by, GroupsOf(q, p), GroupsOf(q, b))
  PROVE  /\ IsFiniteSet(DOMAIN earlier)
         /\ LinesUp(q) => \E key : CountsOf(earlier, Rows(q, b), key)
<1>1. /\ q.metric \in SharedNames /\ CATALOGUE[q.metric].measured # "now"
      /\ q.group_by \in TimeGroupings => q.metric \in {"loans", "returns", "new_members"}
  BY SharedQueries
<1>2. p.start \in Days /\ p.end \in Days /\ p.start <= p.end
  BY <1>1, QueryPeriods
<1>3. /\ b.start \in Days /\ b.end \in Days
      /\ LinesUp(q) /\ q.group_by \in {"month", "year"} => SameLength(p, b)
  BY <1>1, ComparedWithDays
<1>4. PICK now_ : now_ = GroupsOf(q, p)
  OBVIOUS
<1>5. PICK then : then = GroupsOf(q, b)
  OBVIOUS
<1>6. /\ IsFiniteSet(DOMAIN now_)
      /\ q.group_by \in TimeGroupings => DOMAIN now_ = Buckets(q.group_by, p.start, p.end)
  BY <1>1, <1>2, <1>4, GroupsCount DEF CountsOf
<1>7. /\ CountsOf(then, Rows(q, b), KeyOf(q, b))
      /\ q.group_by \in TimeGroupings => DOMAIN then = Buckets(q.group_by, b.start, b.end)
  BY <1>1, <1>3, <1>5, GroupsCount
<1>8. earlier = EarlierGroups(q.group_by, now_, then)
  BY <1>4, <1>5
<1>9. CASE q.group_by \notin {"month", "year"}
  <2>1. earlier = then
    BY <1>8, <1>9, Zenon DEF EarlierGroups
  <2> QED
    BY <1>7, <2>1 DEF CountsOf
<1>10. CASE q.group_by \in {"month", "year"}
  <2>1. DOMAIN earlier \subseteq DOMAIN now_
    BY <1>8, <1>10 DEF EarlierGroups
  <2>2. IsFiniteSet(DOMAIN earlier)
    BY <1>6, <2>1, FS_Subset
  <2>3. ASSUME LinesUp(q) PROVE \E key : CountsOf(earlier, Rows(q, b), key)
    <3>1. SameLength(p, b)
      BY <1>3, <1>10, <2>3
    <3>2. PICK i : i = BucketOf(q.group_by, p.start)
      OBVIOUS
    <3>3. PICK j : j = BucketOf(q.group_by, p.end)
      OBVIOUS
    <3>4. PICK c : c = BucketOf(q.group_by, b.start)
      OBVIOUS
    <3>5. PICK d : d = BucketOf(q.group_by, b.end)
      OBVIOUS
    <3>6. DOMAIN now_ = i..j /\ DOMAIN then = c..d
      BY <1>6, <1>7, <1>10, <3>2, <3>3, <3>4, <3>5 DEF Buckets, TimeGroupings
    <3>7. /\ i \in Int /\ j \in Int /\ c \in Int /\ d \in Int /\ i <= j /\ d - c = j - i
      <4>1. /\ MonthOf(p.start) \in Int /\ MonthOf(p.end) \in Int /\ MonthOf(p.start) <= MonthOf(p.end)
            /\ MonthOf(b.start) \in Int /\ MonthOf(b.end) \in Int
        BY <1>2, <1>3, MonthOfADay, DaysInOrder
      <4>2. CASE q.group_by = "month"
        <5>1. \A n : BucketOf("month", n) = MonthOf(n)
          BY DEF BucketOf, MonthOf
        <5>2. PICK t \in Nat : MonthOf(b.start) = MonthOf(p.start) - t /\ MonthOf(b.end) = MonthOf(p.end) - t
          BY <3>1 DEF SameLength
        <5>3. i = MonthOf(p.start) /\ j = MonthOf(p.end) /\ c = MonthOf(b.start) /\ d = MonthOf(b.end)
          BY <3>2, <3>3, <3>4, <3>5, <4>2, <5>1
        <5> QED
          BY <4>1, <5>2, <5>3
      <4>3. CASE q.group_by = "year"
        <5>1. \A n \in Days : BucketOf("year", n) = MonthOf(n) \div 12
          BY YearOf DEF BucketOf
        <5>2. /\ i = MonthOf(p.start) \div 12 /\ j = MonthOf(p.end) \div 12
              /\ c = MonthOf(b.start) \div 12 /\ d = MonthOf(b.end) \div 12
          BY <1>2, <1>3, <3>2, <3>3, <3>4, <3>5, <4>3, <5>1
        <5>3. (MonthOf(b.end) \div 12) - (MonthOf(b.start) \div 12) =
                (MonthOf(p.end) \div 12) - (MonthOf(p.start) \div 12)
          BY <3>1 DEF SameLength
        <5>4. d - c = j - i
          BY <5>2, <5>3
        <5> QED
          BY <4>1, <5>2, <5>4
      <4> QED
        BY <1>10, <4>2, <4>3
    <3>8. \E key : CountsOf(EarlierGroups(q.group_by, now_, then), Rows(q, b), key)
      <4>1. PICK R : R = Rows(q, b)
        OBVIOUS
      <4>2. PICK key : CountsOf(then, R, key)
        BY <1>7, <4>1
      <4>3. PICK g \in {"month", "year"} : g = q.group_by
        BY <1>10
      <4>4. \E early : CountsOf(EarlierGroups(g, now_, then), R, early)
        <5>1. /\ i \in Int /\ j \in Int /\ i <= j /\ c \in Int /\ d \in Int /\ d - c = j - i
              /\ DOMAIN now_ = i..j /\ DOMAIN then = c..d
          BY <3>6, <3>7
        <5> QED
          BY <4>2, <5>1, EarlierGroupsCount
      <4> QED
        BY <4>1, <4>3, <4>4
    <3> QED
      BY <1>8, <3>8
  <2> QED
    BY <2>2, <2>3
<1> QED
  BY <1>9, <1>10

LEMMA QueryAddsUp ==
  ASSUME DeskInv, NEW q \in Queries, CATALOGUE[q.metric].shares, q.group_by # "none"
  PROVE  AddsUp(q, RunQuery(q))
<1>1. PICK p : p = PeriodOf(q)
  OBVIOUS
<1>2. PICK b : b = ComparisonOf(q, p)
  OBVIOUS
<1>3. PICK groups : groups = GroupsOf(q, p)
  OBVIOUS
<1>4. PICK earlier : earlier = IF b = None THEN <<>> ELSE EarlierGroups(q.group_by, groups, GroupsOf(q, b))
  OBVIOUS
<1>5. PICK previousTotal : previousTotal = IF b = None THEN None ELSE TotalOf(q, b)
  OBVIOUS
<1>6. PICK result : result = RunQuery(q)
  OBVIOUS
<1>7. result = Result(q, p, b, groups, TotalOf(q, p), earlier, previousTotal)
  <2>1. result = Compared(q, p, b, groups)
    BY <1>1, <1>2, <1>3, <1>6, Zenon DEF RunQuery, RunOver
  <2>2. CASE b = None
    BY <1>4, <1>5, <2>1, <2>2, Zenon DEF Compared
  <2>3. CASE b # None
    BY <1>4, <1>5, <2>1, <2>3, Zenon DEF Compared
  <2> QED
    BY <2>2, <2>3
<1>8. /\ q.metric \in SharedNames
      /\ q.compare_to # "none" => CATALOGUE[q.metric].measured # "now"
      /\ q.group_by \in TimeGroupings => q.metric \in {"loans", "returns", "new_members"}
      /\ q.group_by \in TimeGroupings => CATALOGUE[q.metric].measured # "now"
  BY SharedQueries
<1>9. EmptyValue(q.metric) = 0
  <2>1. Measure(q.metric, {}) = Cardinality({})
    BY <1>8, RowsAreFinite
  <2> QED
    BY <2>1, FS_EmptySet DEF EmptyValue
<1>10. \A span : TotalOf(q, span) = Cardinality(Rows(q, span))
  BY <1>8, RowsAreFinite DEF TotalOf
<1>11. CountsOf(groups, Rows(q, p), KeyOf(q, p))
  <2>1. q.group_by \in TimeGroupings => p.start \in Days /\ p.end \in Days
    BY <1>1, <1>8, QueryPeriods
  <2> QED
    BY <1>3, <1>8, <2>1, GroupsCount
<1>12. q.compare_to = "none" => b = None
  BY <1>2, Zenon DEF ComparisonOf
<1>13. IsFiniteSet(DOMAIN earlier)
  <2>1. CASE b = None
    <3>1. DOMAIN earlier = {}
      BY <1>4, <2>1
    <3> QED
      BY <3>1, FS_EmptySet
  <2>2. CASE b # None
    <3>1. earlier = EarlierGroups(q.group_by, GroupsOf(q, p), GroupsOf(q, b))
      BY <1>3, <1>4, <2>2
    <3> QED
      BY <1>1, <1>2, <1>12, <2>2, <3>1, EarlierCounts
  <2> QED
    BY <2>1, <2>2
<1>14. /\ DOMAIN result.rows = DOMAIN groups \cup DOMAIN earlier
       /\ \A k \in DOMAIN result.rows : result.rows[k].value = IF k \in DOMAIN groups THEN groups[k] ELSE 0
       /\ b # None => \A k \in DOMAIN result.rows :
            result.rows[k].previous_value = IF k \in DOMAIN earlier THEN earlier[k] ELSE 0
       /\ result.total.value = TotalOf(q, p) /\ result.total.previous_value = previousTotal
  BY <1>7, <1>9, ResultSays
<1>15. IsFiniteSet(DOMAIN result.rows)
  <2>1. IsFiniteSet(DOMAIN groups)
    BY <1>11 DEF CountsOf
  <2>2. PICK ours, theirs : ours = DOMAIN groups /\ theirs = DOMAIN earlier
    OBVIOUS
  <2>3. IsFiniteSet(ours \cup theirs)
    BY <1>13, <2>1, <2>2, FS_Union
  <2> QED
    BY <1>14, <2>2, <2>3
<1>16. RowsAddUp(result, "value")
  <2>1. \A k \in DOMAIN result.rows : result.rows[k]["value"] = IF k \in DOMAIN groups THEN groups[k] ELSE 0
    BY <1>14
  <2>2. result.total["value"] = Cardinality(Rows(q, p))
    BY <1>10, <1>14
  <2> QED
    BY <1>11, <1>14, <1>15, <2>1, <2>2, RowsSum
<1>17. ASSUME q.compare_to # "none", LinesUp(q) PROVE RowsAddUp(result, "previous_value")
  <2>1. b # None
    BY <1>1, <1>2, <1>8, <1>17, ComparedWithDays
  <2>2. earlier = EarlierGroups(q.group_by, GroupsOf(q, p), GroupsOf(q, b))
    BY <1>3, <1>4, <2>1
  <2>3. PICK key : CountsOf(earlier, Rows(q, b), key)
    BY <1>1, <1>2, <1>17, <2>2, EarlierCounts
  <2>4. \A k \in DOMAIN result.rows :
          result.rows[k]["previous_value"] = IF k \in DOMAIN earlier THEN earlier[k] ELSE 0
    BY <1>14, <2>1
  <2>5. result.total["previous_value"] = Cardinality(Rows(q, b))
    BY <1>5, <1>10, <1>14, <2>1
  <2> QED
    BY <1>14, <1>15, <2>3, <2>4, <2>5, RowsSum
<1> QED
  BY <1>6, <1>16, <1>17 DEF AddsUp

\* Whatever is asked, the figures of the rows add up to the total that is counted
\* apart, and so do those of the period compared with (queries.run_query).
THEOREM FiguresSum == Spec => []FiguresAddUp
<1>1. DeskInv => FiguresAddUp
  BY QueryAddsUp DEF FiguresAddUp
<1> QED
  BY <1>1, DeskIsSound, PTL

-----------------------------------------------------------------------------
\* The views agree

LEMMA TwoParts ==
  ASSUME NEW S, IsFiniteSet(S), NEW A, NEW B, S = A \cup B, A \cap B = {}
  PROVE  /\ Cardinality(S) = Cardinality(A) + Cardinality(B)
         /\ IsFiniteSet(A) /\ IsFiniteSet(B) /\ Cardinality(A) \in Nat /\ Cardinality(B) \in Nat
<1>1. IsFiniteSet(A) /\ IsFiniteSet(B)
  BY FS_Subset
<1>2. Cardinality(A \cup B) = Cardinality(A) + Cardinality(B) - Cardinality(A \cap B)
  BY <1>1, FS_Union
<1>3. Cardinality(A \cap B) = 0
  BY FS_EmptySet
<1>4. Cardinality(A) \in Nat /\ Cardinality(B) \in Nat
  BY <1>1, FS_CardinalityType
<1> QED
  BY <1>1, <1>2, <1>3, <1>4

LEMMA ListsAreOut == ListLoans("active", None, None) = OutLoans
BY DEF ListLoans, OfStatus, OutLoans

LEMMA OnLoanMeans ==
  ASSUME NEW c
  PROVE  OnLoan(c) <=> \E l \in OutLoans : loans[l].copy = c
BY DEF OnLoan, LoansOn

\* A copy is on loan by exactly one loan that is out.
CopiesOut == {c \in InCirculation : OnLoan(c)}
LEMMA CopiesOutAreLoans ==
  ASSUME DeskInv
  PROVE  /\ IsFiniteSet(CopiesOut) /\ IsFiniteSet(OutLoans) /\ Cardinality(OutLoans) \in Nat
         /\ Cardinality(CopiesOut) = Cardinality(OutLoans)
<1> DEFINE f == [l \in OutLoans |-> loans[l].copy]
<1>1. ASSUME NEW l \in OutLoans PROVE f[l] \in CopiesOut
  <2>1. l \in LoanIds
    BY DEF OutLoans
  <2>2. loans[l].copy \in Copies /\ BookOf[loans[l].copy] \in Catalog
    BY <2>1, LoanFields DEF DeskInv, OutFromTheCatalog
  <2>3. loans[l].copy \in InCirculation
    BY <2>2 DEF InCirculation
  <2>4. OnLoan(loans[l].copy)
    BY OnLoanMeans
  <2> QED
    BY <2>3, <2>4 DEF CopiesOut
<1>2. ASSUME NEW c \in CopiesOut PROVE \E l \in OutLoans : f[l] = c
  <2>1. OnLoan(c)
    BY DEF CopiesOut
  <2> QED
    BY <2>1, OnLoanMeans
<1>3. \A k, l \in OutLoans : f[k] = f[l] => k = l
  BY DEF DeskInv, OutOnce
<1>4. f \in [OutLoans -> CopiesOut]
  BY <1>1
<1> HIDE DEF f
<1>5. f \in Surjection(OutLoans, CopiesOut)
  BY <1>2, <1>4 DEF Surjection
<1>6. f \in Injection(OutLoans, CopiesOut)
  <2>1. DOMAIN f = OutLoans
    BY <1>4
  <2> QED
    BY <1>3, <1>4, <2>1 DEF Injection, IsInjective
<1>7. IsFiniteSet(OutLoans)
  BY LoansAreFinite
<1> QED
  BY <1>5, <1>6, <1>7, FS_Surjection, FS_CardinalityType

LEMMA CopiesAddUp ==
  ASSUME DeskInv
  PROVE  Counts.available + Counts.on_loan = Counts.copies /\ Counts.on_loan = Cardinality(OutLoans)
<1> DEFINE Free == {c \in InCirculation : ~OnLoan(c)}
<1>1. /\ Counts.available = Cardinality(Free) /\ Counts.on_loan = Cardinality(CopiesOut)
      /\ Counts.copies = Cardinality(InCirculation)
  BY DEF Counts, CopiesOut
<1>2. InCirculation = Free \cup CopiesOut /\ Free \cap CopiesOut = {}
  BY DEF CopiesOut
<1> HIDE DEF Free
<1>3. Cardinality(InCirculation) = Cardinality(Free) + Cardinality(CopiesOut)
  BY <1>2, LoansAreFinite, TwoParts
<1> QED
  BY <1>1, <1>3, CopiesOutAreLoans

LEMMA MembersHoldThem ==
  ASSUME DeskInv
  PROVE  SumFunction([m \in MembersNow |-> ActiveLoans(m)]) = Cardinality(OutLoans)
<1> DEFINE g == [m \in MembersNow |-> ActiveLoans(m)]
           holder == [l \in OutLoans |-> loans[l].member]
<1>1. DOMAIN g = MembersNow /\ \A m \in MembersNow : g[m] = Cardinality({l \in OutLoans : loans[l].member = m})
  BY DEF ActiveLoans
<1>2. \A m \in MembersNow : {l \in OutLoans : loans[l].member = m} = {l \in OutLoans : holder[l] = m}
  OBVIOUS
<1>3. \A l \in OutLoans : holder[l] \in MembersNow
  BY DEF DeskInv, NothingInTheFuture, OutLoans
<1> HIDE DEF g, holder
<1>4. IsFiniteSet(MembersNow) /\ IsFiniteSet(OutLoans)
  BY LoansAreFinite
<1>5. \A m \in DOMAIN g : g[m] = Cardinality({l \in OutLoans : holder[l] = m})
  BY <1>1, <1>2
<1>6. SumFunction(g) = Cardinality({l \in OutLoans : holder[l] \in DOMAIN g})
  BY <1>1, <1>4, <1>5, SumOfCounts
<1>7. {l \in OutLoans : holder[l] \in DOMAIN g} = OutLoans
  BY <1>1, <1>3
<1> QED
  BY <1>6, <1>7 DEF g

LEMMA TitlesLackThem ==
  ASSUME DeskInv
  PROVE  SumFunction([b \in Catalog |-> CopiesTotal(b) - CopiesAvailable(b)]) = Cardinality(OutLoans)
<1> DEFINE g == [b \in Catalog |-> CopiesTotal(b) - CopiesAvailable(b)]
<1>1. ASSUME NEW b \in Catalog PROVE g[b] = Cardinality({c \in CopiesOut : BookOf[c] = b})
  <2> DEFINE all == {c \in InCirculation : BookOf[c] = b}
             out == {c \in CopiesOut : BookOf[c] = b}
  <2>1. all = AvailableCopies(b) \cup out /\ AvailableCopies(b) \cap out = {}
    BY DEF AvailableCopies, CopiesOut
  <2>2. IsFiniteSet(all)
    BY LoansAreFinite, FS_Subset
  <2>3. g[b] = Cardinality(all) - Cardinality(AvailableCopies(b))
    BY DEF CopiesTotal, CopiesAvailable
  <2> HIDE DEF all, out, g
  <2>4. /\ Cardinality(all) = Cardinality(AvailableCopies(b)) + Cardinality(out)
        /\ Cardinality(AvailableCopies(b)) \in Nat /\ Cardinality(out) \in Nat
    BY <2>1, <2>2, TwoParts
  <2> QED
    BY <2>3, <2>4 DEF out
<1>2. DOMAIN g = Catalog
  OBVIOUS
<1> HIDE DEF g
<1>3. IsFiniteSet(Catalog) /\ IsFiniteSet(CopiesOut)
  BY LoansAreFinite, CopiesOutAreLoans
<1>4. SumFunction(g) = Cardinality({c \in CopiesOut : BookOf[c] \in DOMAIN g})
  BY <1>1, <1>2, <1>3, SumOfCounts
<1>5. {c \in CopiesOut : BookOf[c] \in DOMAIN g} = CopiesOut
  BY <1>2 DEF CopiesOut, InCirculation
<1> QED
  BY <1>4, <1>5, CopiesOutAreLoans DEF g

\* What a metric of this moment says of everything.
LEMMA NowSays ==
  ASSUME NEW name \in {"active_loans", "overdue_loans", "copies_on_loan_share"}
  PROVE  Now(name) = Measure(name, Source(name, None))
<1> DEFINE q == Query(name, "none", NoFilters, None, "none")
<1>1. q.metric = name /\ q.compare_to = "none" /\ q.filters = NoFilters
  BY DEF Query
<1> HIDE DEF q
<1>2. CATALOGUE[name].measured = "now"
  BY DEF CATALOGUE, Metric
<1>3. PeriodOf(q) = None
  BY <1>1, <1>2, Zenon DEF PeriodOf
<1>4. RunQuery(q) = Result(q, None, None, GroupsOf(q, None), TotalOf(q, None), <<>>, None)
  <2>1. ComparisonOf(q, None) = None
    BY <1>1, Zenon DEF ComparisonOf
  <2> QED
    BY <1>3, <2>1, Zenon DEF RunQuery, RunOver, Compared
<1>5. RunQuery(q).total.value = TotalOf(q, None)
  BY <1>4, ResultSays
<1>6. Rows(q, None) = Source(name, None)
  BY <1>1 DEF Rows, InScope, NoFilters
<1> QED
  BY <1>1, <1>5, <1>6 DEF TotalOf, Now, q

LEMMA MetricsOfNow ==
  ASSUME DeskInv
  PROVE  /\ Now("active_loans") = Cardinality(OutLoans)
         /\ Now("overdue_loans") = Cardinality({l \in LoanIds : IsOverdue(l)})
         /\ Now("copies_on_loan_share") = Ratio(100 * Cardinality(OutLoans), Counts.copies)
<1>1. Now("active_loans") = Cardinality(OutLoans)
  BY NowSays DEF Measure, Source
<1>2. Now("overdue_loans") = Cardinality({l \in LoanIds : IsOverdue(l)})
  BY NowSays DEF Measure, Source
<1>3. Now("copies_on_loan_share") = Ratio(100 * Cardinality(CopiesOut), Cardinality(InCirculation))
  <2>1. Source("copies_on_loan_share", None) = InCirculation
    BY DEF Source
  <2>2. Measure("copies_on_loan_share", InCirculation) =
          Ratio(100 * Cardinality(CopiesOut), Cardinality(InCirculation))
    BY DEF Measure, CopiesOut
  <2> QED
    BY <2>1, <2>2, NowSays
<1>4. Counts.copies = Cardinality(InCirculation)
  BY DEF Counts
<1> QED
  BY <1>1, <1>2, <1>3, <1>4, CopiesOutAreLoans

LEMMA OverdueIsLate ==
  ASSUME DeskInv
  PROVE  /\ {l \in LoanIds : DaysOverdue(l) >= 1} = {l \in LoanIds : IsOverdue(l)}
         /\ Dashboard.overdue = {l \in LoanIds : IsOverdue(l)}
         /\ Counts.overdue = Cardinality({l \in LoanIds : IsOverdue(l)})
         /\ Dashboard.overdue \cap Dashboard.due_soon = {}
<1>1. now \in Int /\ Today \in Int
  BY MomentsAreNumbers DEF DeskInv, DeskTypes, Today, Day
<1>2. ASSUME NEW l \in LoanIds PROVE DaysOverdue(l) >= 1 <=> IsOverdue(l)
  <2>1. PICK late : late = Today - Day(loans[l].due)
    OBVIOUS
  <2>2. late \in Int
    BY <1>1, <2>1, LoanFields DEF Day
  <2>3. DaysOverdue(l) = IF ~IsOverdue(l) THEN 0 ELSE IF late > 1 THEN late ELSE 1
    BY <2>1, Zenon DEF DaysOverdue
  <2>4. CASE IsOverdue(l)
    BY <2>2, <2>3, <2>4
  <2>5. CASE ~IsOverdue(l)
    BY <2>3, <2>5
  <2> QED
    BY <2>4, <2>5
<1>3. /\ Dashboard.overdue = {l \in LoanIds : IsOverdue(l)}
      /\ Dashboard.due_soon = {l \in LoanIds : IsDueSoon(l, DUE_SOON_DAYS)}
  BY DEF Dashboard
<1>4. Counts.overdue = Cardinality({l \in LoanIds : IsOverdue(l)})
  BY DEF Counts
<1>5. ASSUME NEW l \in LoanIds, IsOverdue(l), IsDueSoon(l, DUE_SOON_DAYS) PROVE FALSE
  <2>1. loans[l].due < now /\ loans[l].due >= now
    BY <1>5 DEF IsOverdue, IsDueSoon
  <2> QED
    BY <1>1, <2>1, LoanFields
<1> QED
  BY <1>2, <1>3, <1>4, <1>5

LEMMA FirstCopyWhenAvailable ==
  ASSUME NEW b \in TitlesNow
  PROVE  FirstAvailableCopy(b) # None <=> Availability(b) = "available"
<1> DEFINE all == {c \in InCirculation : BookOf[c] = b}
           free == AvailableCopies(b)
<1>1. free \subseteq all /\ all \subseteq Copies
  BY DEF AvailableCopies, InCirculation
<1>2. IsFiniteSet(free) /\ IsFiniteSet(all)
  BY <1>1, DeskAssumption, FS_Subset
<1>3. Availability(b) = "available" <=> free # {}
  <2>1. CopiesTotal(b) = Cardinality(all) /\ CopiesAvailable(b) = Cardinality(free)
    BY DEF CopiesTotal, CopiesAvailable
  <2> HIDE DEF all, free
  <2>2. /\ Cardinality(all) \in Nat /\ Cardinality(free) \in Nat
        /\ Cardinality(all) = 0 <=> all = {}
        /\ Cardinality(free) = 0 <=> free = {}
    BY <1>2, FS_CardinalityType, FS_EmptySet
  <2> QED
    BY <1>1, <2>1, <2>2 DEF Availability
<1>4. b \notin Catalog => free = {}
  BY DEF AvailableCopies, InCirculation
<1>5. CASE free = {}
  BY <1>3, <1>5 DEF FirstAvailableCopy
<1>6. CASE free # {}
  <2>1. b \in Catalog
    BY <1>4, <1>6
  <2>2. FirstAvailableCopy(b) = CHOOSE c \in free : \A d \in free : c <= d
    BY <1>6, <2>1, Zenon DEF FirstAvailableCopy
  <2>3. free \in SUBSET Nat
    BY <1>1, DeskAssumption
  <2> HIDE DEF free
  <2>4. \E c \in free : \A d \in free : c <= d
    BY <1>6, <2>3, LeastNat
  <2>5. FirstAvailableCopy(b) \in free
    BY <2>2, <2>4
  <2>6. None \notin Nat
    BY DeskAssumption
  <2> QED
    BY <1>3, <1>6, <2>3, <2>5, <2>6
<1> QED
  BY <1>5, <1>6

-----------------------------------------------------------------------------
\* Trends are the metrics

CountedNames == {"loans", "returns", "new_members"}
\* What a name counts, over all days, and the month of each.
EventsOf(name) ==
  CASE name = "loans" -> LoanIds
    [] name = "returns" -> {l \in LoanIds : loans[l].returned # None}
    [] name = "new_members" -> MembersNow
MonthOfEvent(name) == [e \in EventsOf(name) |-> MonthOf(EventDay(name, e))]
\* How many fell in the months from i to j.
InMonths(name, i, j) == {e \in EventsOf(name) : i <= MonthOfEvent(name)[e] /\ MonthOfEvent(name)[e] <= j}

LEMMA EventsAreDays ==
  ASSUME DeskInv, NEW name \in CountedNames
  PROVE  /\ IsFiniteSet(EventsOf(name))
         /\ \A e \in EventsOf(name) : EventDay(name, e) \in Days /\ MonthOfEvent(name)[e] \in Int
                                      /\ MonthOfEvent(name)[e] = MonthOf(EventDay(name, e))
<1>1. ASSUME NEW e \in EventsOf(name) PROVE EventDay(name, e) \in Days
  <2>1. CASE name = "loans"
    <3>1. e \in LoanIds /\ EventDay(name, e) = Day(loans[e].borrowed)
      BY <2>1 DEF EventsOf, EventDay
    <3> QED
      BY <3>1, LoanFields, MomentsAreNumbers DEF Days
  <2>2. CASE name = "returns"
    <3>1. e \in LoanIds /\ loans[e].returned # None /\ EventDay(name, e) = Day(loans[e].returned)
      BY <2>2 DEF EventsOf, EventDay
    <3>2. loans[e].returned \in Moments
      BY <3>1, LoanFields
    <3> QED
      BY <3>1, <3>2, MomentsAreNumbers DEF Days
  <2>3. CASE name = "new_members"
    <3>1. e \in MembersNow /\ EventDay(name, e) = Joined[e]
      BY <2>3 DEF EventsOf, EventDay
    <3> QED
      BY <3>1, DeskAssumption DEF MembersNow, Days
  <2> QED
    BY <2>1, <2>2, <2>3 DEF CountedNames
<1>2. IsFiniteSet(EventsOf(name))
  <2>1. EventsOf(name) \subseteq LoanIds \/ EventsOf(name) \subseteq MembersNow
    BY DEF EventsOf, CountedNames
  <2> QED
    BY <2>1, LoansAreFinite, FS_Subset
<1>3. \A e \in EventsOf(name) : MonthOfEvent(name)[e] = MonthOf(EventDay(name, e))
  BY DEF MonthOfEvent
<1> QED
  BY <1>1, <1>2, <1>3, MonthOfADay

\* Between the first days of two months lie the months from the one on, before the other.
LEMMA RowsOfMonths ==
  ASSUME DeskInv, NEW q, q.metric \in CountedNames, q.filters = NoFilters,
         NEW i \in Int, NEW j \in Int, i >= 12, j >= 12, NEW span,
         span.start = MonthFirst(i), span.end = MonthFirst(j) - 1
  PROVE  Rows(q, span) = InMonths(q.metric, i, j - 1)
<1>1. PICK name \in CountedNames : name = q.metric
  OBVIOUS
<1>2. Rows(q, span) = Source(name, span)
  BY <1>1 DEF Rows, InScope, NoFilters
<1>3. Source(name, span) = {e \in EventsOf(name) : span.start <= EventDay(name, e) /\ EventDay(name, e) <= span.end}
  <2>1. CASE name = "loans"
    BY <2>1 DEF Source, EventsOf, EventDay, BorrowedWithin, Within
  <2>2. CASE name = "returns"
    BY <2>2 DEF Source, EventsOf, EventDay, ReturnedWithin, Within
  <2>3. CASE name = "new_members"
    BY <2>3 DEF Source, EventsOf, EventDay
  <2> QED
    BY <2>1, <2>2, <2>3 DEF CountedNames
<1>4. ASSUME NEW e \in EventsOf(name)
      PROVE  /\ span.start <= EventDay(name, e) <=> i <= MonthOfEvent(name)[e]
             /\ EventDay(name, e) <= span.end <=> MonthOfEvent(name)[e] <= j - 1
  <2>1. PICK n \in Days : n = EventDay(name, e)
    BY EventsAreDays
  <2>2. MonthOfEvent(name)[e] = MonthOf(n) /\ MonthOf(n) \in Int /\ n \in Int
    BY <2>1, EventsAreDays, MonthOfADay, MomentsAreNumbers DEF Days
  <2>3. MonthFirst(i) \in Int /\ MonthFirst(j) \in Int
    BY NextMonth
  <2>4. /\ i <= MonthOf(n) <=> MonthFirst(i) <= n
        /\ j <= MonthOf(n) <=> MonthFirst(j) <= n
    BY MonthAtLeast
  <2> QED
    BY <2>1, <2>2, <2>3, <2>4
<1> QED
  BY <1>1, <1>2, <1>3, <1>4 DEF InMonths

LEMMA InMonthsFinite ==
  ASSUME DeskInv, NEW name \in CountedNames, NEW i, NEW j
  PROVE  IsFiniteSet(InMonths(name, i, j)) /\ Cardinality(InMonths(name, i, j)) \in Nat
<1>1. InMonths(name, i, j) \subseteq EventsOf(name)
  BY DEF InMonths
<1> QED
  BY <1>1, EventsAreDays, FS_Subset, FS_CardinalityType

\* The counts of the months from s on, one by one, sum to the count of them all.
MonthByMonth(f, name, s, k) ==
  /\ DOMAIN f = 1..(k - s)
  /\ \A n \in 1..(k - s) : f[n] = Cardinality({e \in EventsOf(name) : MonthOfEvent(name)[e] = s + n - 1})
LEMMA MonthsSum ==
  ASSUME DeskInv, NEW name \in CountedNames, NEW s \in Int, NEW k \in Int, s <= k, NEW f,
         MonthByMonth(f, name, s, k)
  PROVE  SumFunction(f) = Cardinality(InMonths(name, s, k - 1))
<1>1. PICK R : R = EventsOf(name)
  OBVIOUS
<1>2. PICK month : month = MonthOfEvent(name)
  OBVIOUS
<1>3. IsFiniteSet(R) /\ \A e \in R : month[e] \in Int
  BY <1>1, <1>2, EventsAreDays
<1>4. PICK key : \A e \in R : key[e] = month[e] - s + 1
  <2>1. \A e \in R : [x \in R |-> month[x] - s + 1][e] = month[e] - s + 1
    OBVIOUS
  <2> QED
    BY <2>1
<1>5. ASSUME NEW n \in DOMAIN f PROVE f[n] = Cardinality({r \in R : key[r] = n})
  <2>1. n \in Int /\ f[n] = Cardinality({e \in R : month[e] = s + n - 1})
    BY <1>1, <1>2 DEF MonthByMonth
  <2>2. {e \in R : month[e] = s + n - 1} = {r \in R : key[r] = n}
    BY <1>3, <1>4, <2>1
  <2> QED
    BY <2>1, <2>2
<1>6. IsFiniteSet(DOMAIN f)
  <2>1. PICK d \in Int : d = k - s
    OBVIOUS
  <2>2. IsFiniteSet(1..d)
    BY FS_Interval
  <2> QED
    BY <2>1, <2>2 DEF MonthByMonth
<1>7. SumFunction(f) = Cardinality({r \in R : key[r] \in DOMAIN f})
  <2>1. \A n \in DOMAIN f : f[n] = Cardinality({r \in R : key[r] = n})
    BY <1>5
  <2> QED
    BY <1>3, <1>6, <2>1, SumOfCounts
<1>8. {r \in R : key[r] \in DOMAIN f} = {e \in R : s <= month[e] /\ month[e] <= k - 1}
  BY <1>3, <1>4 DEF MonthByMonth
<1> QED
  BY <1>1, <1>2, <1>7, <1>8 DEF InMonths

\* The first event of a name is a day, or there is none.
LEMMA FirstEvent ==
  ASSUME DeskInv, NEW name \in CountedNames, NEW first, first = FirstEventDay(name, NoFilters)
  PROVE  /\ first = None => EventsOf(name) = {}
         /\ first # None => first \in Days /\ \A e \in EventsOf(name) : first <= EventDay(name, e)
<1> DEFINE days == IF name = "new_members" THEN {Joined[m] : m \in MembersNow}
                   ELSE {EventDay(name, l) : l \in {l \in LoanIds :
                           /\ InScope(NoFilters, name, l)
                           /\ name = "returns" => loans[l].returned # None}}
<1>1. first = IF days = {} THEN None ELSE Min(days)
  BY Zenon DEF FirstEventDay
<1>2. days = {EventDay(name, e) : e \in EventsOf(name)}
  <2>1. CASE name = "loans"
    <3>1. {l \in LoanIds : InScope(NoFilters, name, l) /\ (name = "returns" => loans[l].returned # None)} = EventsOf(name)
      BY <2>1 DEF InScope, NoFilters, EventsOf
    <3> QED
      BY <2>1, <3>1
  <2>2. CASE name = "returns"
    <3>1. {l \in LoanIds : InScope(NoFilters, name, l) /\ (name = "returns" => loans[l].returned # None)} = EventsOf(name)
      BY <2>2 DEF InScope, NoFilters, EventsOf
    <3> QED
      BY <2>2, <3>1
  <2>3. CASE name = "new_members"
    BY <2>3 DEF EventsOf, EventDay
  <2> QED
    BY <2>1, <2>2, <2>3 DEF CountedNames
<1> HIDE DEF days
<1>3. days \in SUBSET Days
  BY <1>2, EventsAreDays
<1>4. CASE days = {}
  BY <1>1, <1>2, <1>4
<1>5. CASE days # {}
  <2>1. first \in days /\ \A d \in days : first <= d
    BY <1>1, <1>3, <1>5, LeastDay
  <2>2. first # None
    BY <1>3, <2>1, DeskAssumption, MomentsAreNumbers DEF Days
  <2> QED
    BY <1>2, <1>3, <2>1, <2>2
<1> QED
  BY <1>4, <1>5

\* The monthly counts are the months before this one, from the first event's on.
LEMMA CountsAreMonthly ==
  ASSUME DeskInv, NEW name \in CountedNames, NEW k, k = MonthOf(Today),
         NEW counts, counts = MonthlyCounts(name, NoFilters)
  PROVE  \E s \in Int : /\ s <= k /\ MonthByMonth(counts, name, s, k) /\ counts \in Seq(Nat)
                        /\ \A e \in EventsOf(name) : s <= MonthOfEvent(name)[e]
<1>1. PICK first : first = FirstEventDay(name, NoFilters)
  OBVIOUS
<1>2. /\ first = None => EventsOf(name) = {}
      /\ first # None => first \in Days /\ \A e \in EventsOf(name) : first <= EventDay(name, e)
  BY <1>1, FirstEvent
<1>3. counts = CountsFrom(first, name, NoFilters)
  BY <1>1 DEF MonthlyCounts
<1>4. Today \in Days /\ k \in Int /\ k >= 12 * (FirstYear + 2) /\ MonthStart(Today) = MonthFirst(k) /\ k >= 12
  BY TodayIsLate, MonthOfADay, Starts, YearsAssumption
<1>5. MonthFirst(k) \in Int /\ MonthFirst(k) <= Today
  BY <1>4, NextMonth, MonthOfADay
<1>6. CASE first = None \/ first >= MonthStart(Today)
  <2>1. counts = <<>>
    BY <1>3, <1>6, Zenon DEF CountsFrom
  <2>2. MonthByMonth(counts, name, k, k) /\ counts \in Seq(Nat)
    BY <1>4, <2>1 DEF MonthByMonth
  <2>3. ASSUME NEW e \in EventsOf(name) PROVE k <= MonthOfEvent(name)[e]
    <3>1. first # None /\ first >= MonthFirst(k) /\ first \in Days /\ first <= EventDay(name, e)
      BY <1>2, <1>4, <1>6
    <3>2. PICK n \in Days : n = EventDay(name, e) /\ MonthOfEvent(name)[e] = MonthOf(n)
      BY EventsAreDays
    <3>3. MonthFirst(k) <= n
      BY <1>5, <3>1, <3>2, MomentsAreNumbers DEF Days
    <3> QED
      BY <1>4, <3>2, <3>3, MonthAtLeast
  <2> QED
    BY <1>4, <2>2, <2>3
<1>7. CASE ~(first = None \/ first >= MonthStart(Today))
  <2>1. first \in Days /\ first \in Int /\ ~(MonthFirst(k) <= first)
    BY <1>2, <1>4, <1>5, <1>7, MomentsAreNumbers DEF Days
  <2>2. PICK s : s = MonthOf(first)
    OBVIOUS
  <2>3. s \in Int /\ s < k /\ s >= 12 * FirstYear /\ s >= 12
    <3>1. s \in Int /\ s >= 12 * FirstYear /\ s >= 12
      BY <2>1, <2>2, MonthOfADay, YearsAssumption
    <3>2. ~(k <= s)
      BY <1>4, <2>1, <2>2, MonthAtLeast
    <3> QED
      BY <1>4, <3>1, <3>2
  <2>4. PICK q : q = Query(name, "month", NoFilters, None, "none")
    OBVIOUS
  <2>5. PICK span : span = [start |-> MonthStart(first), end |-> MonthStart(Today) - 1]
    OBVIOUS
  <2>6. PICK groups : groups = GroupsOf(q, span)
    OBVIOUS
  <2>7. counts = [n \in 1..(k - s) |-> groups[s + n - 1]]
    <3>1. BucketOf("month", first) = s /\ BucketOf("month", Today) = k
      BY <2>2 DEF BucketOf, MonthOf
    <3>2. counts = LET start == BucketOf("month", first)
                       grouped == GroupsOf(Query(name, "month", NoFilters, None, "none"),
                                           [start |-> MonthStart(first), end |-> MonthStart(Today) - 1])
                   IN [n \in 1..(BucketOf("month", Today) - start) |-> grouped[start + n - 1]]
      BY <1>3, <1>7, Zenon DEF CountsFrom
    <3> QED
      BY <2>4, <2>5, <2>6, <3>1, <3>2, Zenon
  <2>8. q.metric = name /\ q.group_by = "month" /\ q.filters = NoFilters
    BY <2>4 DEF Query
  <2>9. span.start = MonthFirst(s) /\ span.end = MonthFirst(k) - 1
    BY <1>4, <2>1, <2>2, <2>5, Starts
  <2>10. span.start \in Days /\ span.end \in Days /\ MonthOf(span.start) = s /\ MonthOf(span.end) = k - 1
    <3>1. MonthFirst(s) \in Days /\ MonthOf(MonthFirst(s)) = s
      BY <2>1, <2>2, <2>3, FirstOfAMonth
    <3>2. k > 12 * FirstYear /\ MonthFirst(k) - 1 <= DayN
      BY <1>4, <1>5, YearsAssumption, MomentsAreNumbers DEF Days
    <3> QED
      BY <1>4, <2>9, <3>1, <3>2, DayBefore
  <2>11. Rows(q, span) = InMonths(name, s, k - 1)
    BY <1>4, <2>3, <2>8, <2>9, RowsOfMonths
  <2>12. /\ CountsOf(groups, Rows(q, span), KeyOf(q, span))
         /\ DOMAIN groups = Buckets("month", span.start, span.end)
    BY <2>6, <2>8, <2>10, GroupsCount DEF TimeGroupings, SharedNames, CountedNames
  <2>13. DOMAIN groups = s..(k - 1)
    BY <2>10, <2>12 DEF Buckets, BucketOf, MonthOf
  <2>14. ASSUME NEW n \in 1..(k - s)
         PROVE  /\ groups[s + n - 1] = Cardinality({e \in EventsOf(name) : MonthOfEvent(name)[e] = s + n - 1})
                /\ groups[s + n - 1] \in Nat
    <3>1. PICK m \in s..(k - 1) : m = s + n - 1
      BY <1>4, <2>3
    <3>2. groups[m] = Cardinality({e \in Rows(q, span) : KeyOf(q, span)[e] = m})
      BY <2>12, <2>13 DEF CountsOf
    <3>3. ASSUME NEW e \in Rows(q, span) PROVE KeyOf(q, span)[e] = MonthOfEvent(name)[e]
      <4>1. e \in EventsOf(name)
        BY <2>11 DEF InMonths
      <4>2. KeyOf(q, span)[e] = MonthOf(EventDay(name, e))
        BY <2>8 DEF KeyOf, GroupKey, TimeGroupings, BucketOf, MonthOf
      <4> QED
        BY <4>1, <4>2, EventsAreDays
    <3>4. {e \in Rows(q, span) : KeyOf(q, span)[e] = m} = {e \in EventsOf(name) : MonthOfEvent(name)[e] = m}
      <4>1. \A e \in EventsOf(name) : MonthOfEvent(name)[e] = m => e \in Rows(q, span)
        BY <1>4, <2>3, <2>11, <3>1 DEF InMonths
      <4>2. \A e \in Rows(q, span) : e \in EventsOf(name)
        BY <2>11 DEF InMonths
      <4> QED
        BY <3>3, <4>1, <4>2
    <3>5. Cardinality({e \in EventsOf(name) : MonthOfEvent(name)[e] = m}) \in Nat
      <4>1. IsFiniteSet({e \in EventsOf(name) : MonthOfEvent(name)[e] = m})
        BY EventsAreDays, FS_Subset
      <4> QED
        BY <4>1, FS_CardinalityType
    <3> QED
      BY <3>1, <3>2, <3>4, <3>5
  <2>15. MonthByMonth(counts, name, s, k)
    BY <2>7, <2>14 DEF MonthByMonth
  <2>16. counts \in Seq(Nat)
    <3>1. PICK d \in Nat : d = k - s
      BY <1>4, <2>3
    <3>2. counts \in [1..d -> Nat]
      BY <2>7, <2>14, <3>1
    <3> QED
      BY <3>2, SeqDef
  <2>17. ASSUME NEW e \in EventsOf(name) PROVE s <= MonthOfEvent(name)[e]
    <3>1. PICK n \in Days : n = EventDay(name, e) /\ MonthOfEvent(name)[e] = MonthOf(n)
      BY EventsAreDays
    <3>2. first <= n
      BY <1>2, <1>7, <3>1
    <3> QED
      BY <2>1, <2>2, <3>1, <3>2, DaysInOrder
  <2>18. s <= k
    BY <1>4, <2>3
  <2> QED
    BY <2>3, <2>15, <2>16, <2>17, <2>18, Zenon
<1> QED
  BY <1>6, <1>7

\* The last months of the counts, or all there are.
LastOf(counts, n) == IF Len(counts) < n THEN counts ELSE Method!LastMonths(counts, n)

LEMMA LastMonthsSum ==
  ASSUME DeskInv, NEW name \in CountedNames, NEW s \in Int, NEW k \in Int, s <= k, NEW counts \in Seq(Nat),
         MonthByMonth(counts, name, s, k), \A e \in EventsOf(name) : s <= MonthOfEvent(name)[e], NEW n \in {12, 24}
  PROVE  Method!Total(LastOf(counts, n)) = Cardinality(InMonths(name, k - n, k - 1))
<1>1. Len(counts) = k - s
  <2>1. DOMAIN counts = 1..Len(counts) /\ Len(counts) \in Nat
    BY LenProperties
  <2>2. PICK a, b : a = Len(counts) /\ b = k - s /\ a \in Nat /\ b \in Nat
    <3>1. k - s \in Nat
      OBVIOUS
    <3> QED
      BY <2>1, <3>1
  <2>3. 1..a = 1..b
    BY <2>1, <2>2 DEF MonthByMonth
  <2>4. a = b
    <3>1. a <= b
      <4>1. CASE a = 0
        BY <2>2, <4>1
      <4>2. CASE a # 0
        <5>1. a \in 1..b
          BY <2>2, <2>3, <4>2
        <5> QED
          BY <2>2, <5>1
      <4> QED
        BY <4>1, <4>2
    <3>2. b <= a
      <4>1. CASE b = 0
        BY <2>2, <4>1
      <4>2. CASE b # 0
        <5>1. b \in 1..a
          BY <2>2, <2>3, <4>2
        <5> QED
          BY <2>2, <5>1
      <4> QED
        BY <4>1, <4>2
    <3> QED
      BY <2>2, <3>1, <3>2
  <2> QED
    BY <2>2, <2>4
<1>2. CASE k - s < n
  <2>1. LastOf(counts, n) = counts
    BY <1>1, <1>2 DEF LastOf
  <2>2. SumFunction(counts) = Cardinality(InMonths(name, s, k - 1))
    BY MonthsSum
  <2>3. InMonths(name, s, k - 1) = InMonths(name, k - n, k - 1)
    <3>1. \A e \in EventsOf(name) : MonthOfEvent(name)[e] \in Int
      BY EventsAreDays
    <3>2. PICK i \in Int : i = k - n
      OBVIOUS
    <3>3. \A e \in EventsOf(name) : i <= MonthOfEvent(name)[e]
      BY <1>2, <3>1, <3>2
    <3> QED
      BY <3>2, <3>3 DEF InMonths
  <2> QED
    BY <2>1, <2>2, <2>3, TotalIsTheSum
<1>3. CASE ~(k - s < n)
  <2>1. PICK i \in Int : i = k - n
    OBVIOUS
  <2>2. PICK from \in Int, to \in Int : from = k - s - n + 1 /\ to = k - s
    OBVIOUS
  <2>3. PICK f : f = SubSeq(counts, from, to)
    OBVIOUS
  <2>4. LastOf(counts, n) = f
    BY <1>1, <1>3, <2>2, <2>3 DEF LastOf, Method!LastMonths
  <2>5. \A j \in from..to : counts[j] \in Nat
    BY <1>1, <1>3, <2>2, ElementOfSeq
  <2>6. f \in Seq(Nat) /\ Len(f) = n /\ \A j \in 1..n : f[j] = counts[from + j - 1]
    <3>1. from <= to /\ to - from + 1 = n
      BY <1>3, <2>2
    <3>2. /\ f \in Seq(Nat) /\ Len(f) = to - from + 1
          /\ \A j \in 1..(to - from + 1) : f[j] = counts[from + j - 1]
      BY <2>3, <2>5, <3>1, SubSeqProperties
    <3> QED
      BY <3>1, <3>2
  <2>7. DOMAIN f = 1..n
    BY <2>6, LenProperties
  <2>8. ASSUME NEW j \in 1..n
        PROVE  f[j] = Cardinality({e \in EventsOf(name) : MonthOfEvent(name)[e] = i + j - 1})
    <3>1. PICK m \in 1..(k - s) : m = from + j - 1
      BY <1>3, <2>2
    <3>2. f[j] = Cardinality({e \in EventsOf(name) : MonthOfEvent(name)[e] = s + m - 1})
      BY <2>6, <3>1 DEF MonthByMonth
    <3>3. s + m - 1 = i + j - 1
      BY <2>1, <2>2, <3>1
    <3> QED
      BY <3>2, <3>3
  <2>9. k - i = n /\ i <= k
    BY <2>1
  <2>10. MonthByMonth(f, name, i, k)
    BY <2>7, <2>8, <2>9 DEF MonthByMonth
  <2>11. SumFunction(f) = Cardinality(InMonths(name, i, k - 1))
    BY <2>9, <2>10, MonthsSum
  <2> QED
    BY <2>1, <2>4, <2>11, TotalIsTheSum
<1> QED
  BY <1>2, <1>3

\* What the metric says of the last twelve months and the twelve before.
LEMMA LastTwelveMonths ==
  ASSUME DeskInv, NEW name \in CountedNames, NEW k, k = MonthOf(Today), NEW total,
         total = RunQuery(Query(name, "none", NoFilters, "last_12_months", "previous_period")).total
  PROVE  total = Item(CATALOGUE[name], Cardinality(InMonths(name, k - 12, k - 1)), None,
                      Cardinality(InMonths(name, k - 24, k - 13)), None)
<1>1. PICK q : q = Query(name, "none", NoFilters, "last_12_months", "previous_period")
  OBVIOUS
<1>2. /\ q.metric = name /\ q.group_by = "none" /\ q.filters = NoFilters /\ q.preset = "last_12_months"
      /\ q.compare_to = "previous_period"
  BY <1>1 DEF Query
<1>3. Today \in Days /\ k \in Int /\ k >= 12 * (FirstYear + 2) /\ FirstYear \in Nat \ {0}
  BY TodayIsLate, MonthOfADay, YearsAssumption
<1>4. CATALOGUE[name].measured # "now"
  BY CatalogueSays DEF CountedNames
<1>5. PICK p : p = PeriodOf(q)
  OBVIOUS
<1>6. PICK b : b = ComparisonOf(q, p)
  OBVIOUS
\* The first days of this month and of those a year and two years before.
<1>7. /\ MonthStart(Today) = MonthFirst(k) /\ MonthFirst(k) \in Days /\ MonthOf(MonthFirst(k)) = k
      /\ AddMonths(MonthFirst(k), -12) = MonthFirst(k - 12) /\ MonthFirst(k - 12) \in Days
      /\ MonthOf(MonthFirst(k - 12)) = k - 12
  <2>1. MonthStart(Today) = MonthFirst(k)
    BY <1>3, Starts
  <2>2. MonthFirst(k) \in Days /\ MonthOf(MonthFirst(k)) = k
    BY <1>3, FirstOfAMonth
  <2>3. k - 12 >= 12 * FirstYear
    BY <1>3
  <2> QED
    BY <2>1, <2>2, <2>3, MonthsEarlier
<1>8. AddMonths(MonthFirst(k - 12), -12) = MonthFirst(k - 24)
  <2>1. PICK i \in Int : i = k - 12
    BY <1>3
  <2>2. MonthFirst(i) \in Days /\ MonthOf(MonthFirst(i)) = i /\ i - 12 >= 12 * FirstYear /\ i - 12 = k - 24
    BY <1>3, <1>7, <2>1
  <2>3. AddMonths(MonthFirst(i), -12) = MonthFirst(i - 12)
    BY <2>2, MonthsEarlier
  <2> QED
    BY <2>1, <2>2, <2>3
<1>9. p = Period(MonthFirst(k - 12), MonthFirst(k) - 1, FALSE, 12)
  <2>1. p = ResolvePeriod("last_12_months", Today, FirstDay(name))
    BY <1>2, <1>4, <1>5, Zenon DEF PeriodOf
  <2> QED
    BY <1>7, <2>1 DEF ResolvePeriod
<1>10. p.start = MonthFirst(k - 12) /\ p.end = MonthFirst(k) - 1 /\ p.unit = 12
  BY <1>9 DEF Period
<1>11. ~p.partial
  BY <1>9, Zenon DEF Period
<1>12. b = [start |-> AddMonths(p.start, -p.unit), end |-> p.start - 1]
  <2>1. b = ResolveComparison(p, "previous_period")
    BY <1>2, <1>6, Zenon DEF ComparisonOf
  <2>2. p.unit # 0
    BY <1>10
  <2> QED
    BY <1>11, <2>1, <2>2, Zenon DEF ResolveComparison
<1>13. b.start = MonthFirst(k - 24) /\ b.end = MonthFirst(k - 12) - 1
  BY <1>8, <1>10, <1>12
<1>14. b # None
  <2>1. MonthFirst(k - 24) \in Int /\ MonthFirst(k - 12) - 1 \in Int
    <3>1. k - 24 \in Int /\ k - 24 >= 12 /\ k - 12 \in Int /\ k - 12 >= 12
      BY <1>3
    <3> QED
      BY <3>1, NextMonth
  <2>2. b \in [start : Int, end : Int]
    BY <1>8, <1>10, <1>12, <2>1
  <2> QED
    BY <2>2, DeskAssumption
<1>15. Rows(q, p) = InMonths(name, k - 12, k - 1)
  <2>1. PICK i \in Int : i = k - 12
    BY <1>3
  <2>2. i >= 12 /\ k >= 12
    BY <1>3, <2>1
  <2> QED
    BY <1>2, <1>3, <1>10, <2>1, <2>2, RowsOfMonths
<1>16. Rows(q, b) = InMonths(name, k - 24, k - 13)
  <2>1. PICK i \in Int, j \in Int : i = k - 24 /\ j = k - 12
    BY <1>3
  <2>2. i >= 12 /\ j >= 12 /\ j - 1 = k - 13
    BY <1>3, <2>1
  <2>3. Rows(q, b) = InMonths(name, i, j - 1)
    BY <1>2, <1>13, <2>1, <2>2, RowsOfMonths
  <2> QED
    BY <2>1, <2>2, <2>3
<1>17. \A span : TotalOf(q, span) = Cardinality(Rows(q, span))
  BY <1>2, RowsAreFinite DEF TotalOf, SharedNames, CountedNames
<1>18. RunQuery(q) = Result(q, p, b, GroupsOf(q, p), TotalOf(q, p),
                            EarlierGroups(q.group_by, GroupsOf(q, p), GroupsOf(q, b)), TotalOf(q, b))
  BY <1>5, <1>6, <1>14, Zenon DEF RunQuery, RunOver, Compared
<1>19. RunQuery(q).total = Item(CATALOGUE[q.metric], TotalOf(q, p), None, TotalOf(q, b), None)
  BY <1>18 DEF Result
<1> QED
  BY <1>1, <1>2, <1>15, <1>16, <1>17, <1>19

LEMMA TrendIsTheMetric ==
  ASSUME DeskInv, NEW name \in CountedNames
  PROVE  IsOf(RunForecast(name, NoFilters, 1).trend,
              RunQuery(Query(name, "none", NoFilters, "last_12_months", "previous_period")).total)
<1>1. PICK k : k = MonthOf(Today)
  OBVIOUS
<1>2. k \in Int
  BY <1>1, TodayIsLate, MonthOfADay
<1>3. PICK counts : counts = MonthlyCounts(name, NoFilters)
  OBVIOUS
<1>4. PICK s \in Int : /\ s <= k /\ MonthByMonth(counts, name, s, k) /\ counts \in Seq(Nat)
                       /\ \A e \in EventsOf(name) : s <= MonthOfEvent(name)[e]
  BY <1>1, <1>3, CountsAreMonthly
<1>5. PICK year, before, both : /\ year = Cardinality(InMonths(name, k - 12, k - 1))
                                /\ before = Cardinality(InMonths(name, k - 24, k - 13))
                                /\ both = Cardinality(InMonths(name, k - 24, k - 1))
  OBVIOUS
<1>6. both = before + year /\ year \in Nat /\ before \in Nat /\ both \in Nat
  <2>1. \A e \in EventsOf(name) : MonthOfEvent(name)[e] \in Int
    BY EventsAreDays
  <2>2. PICK a \in Int, b \in Int, c \in Int, d \in Int : a = k - 24 /\ b = k - 13 /\ c = k - 12 /\ d = k - 1
    BY <1>2
  <2>3. InMonths(name, a, d) = InMonths(name, a, b) \cup InMonths(name, c, d)
    BY <1>2, <2>1, <2>2 DEF InMonths
  <2>4. InMonths(name, a, b) \cap InMonths(name, c, d) = {}
    BY <1>2, <2>1, <2>2 DEF InMonths
  <2>5. both = before + year
    BY <1>5, <2>2, <2>3, <2>4, TwoParts, InMonthsFinite
  <2> QED
    BY <1>5, <2>5, InMonthsFinite
<1>7. Method!Total(LastOf(counts, 12)) = year /\ Method!Total(LastOf(counts, 24)) = both
  BY <1>2, <1>4, <1>5, LastMonthsSum
<1>8. PICK trend : trend = RefusedTrend(name, NoFilters)
  OBVIOUS
<1>9. trend = [value |-> year, previous_value |-> both - year, change |-> year - (both - year),
               change_pct |-> IF both - year = 0 THEN None
                              ELSE Tenths(100 * (year - (both - year)), both - year)]
  <2>1. trend = Trend(counts)
    BY <1>3, <1>8 DEF RefusedTrend
  <2>2. Trend(counts) =
          LET value == Method!Total(LastOf(counts, 12))
              previous == Method!Total(LastOf(counts, 24)) - value
          IN [value |-> value, previous_value |-> previous, change |-> value - previous,
              change_pct |-> IF previous = 0 THEN None ELSE Tenths(100 * (value - previous), previous)]
    BY Zenon DEF Trend, LastOf
  <2> QED
    BY <1>7, <2>1, <2>2, Zenon
<1>10. both - year = before
  BY <1>6
<1>11. trend = [value |-> year, previous_value |-> before, change |-> year - before,
                change_pct |-> IF before = 0 THEN None ELSE Tenths(100 * (year - before), before)]
  BY <1>9, <1>10, Zenon
<1>12. PICK total : total = RunQuery(Query(name, "none", NoFilters, "last_12_months", "previous_period")).total
  OBVIOUS
<1>13. total = Item(CATALOGUE[name], year, None, before, None)
  BY <1>1, <1>5, <1>12, LastTwelveMonths
<1>14. CATALOGUE[name].unit = "count"
  BY DEF CATALOGUE, Metric, CountedNames
<1>15. year # None /\ before # None
  BY <1>6, DeskAssumption
<1>16. total.value = year /\ total.previous_value = before
  BY <1>13 DEF Item
<1>17. total.change = year - before
  <2>1. total.change = Change(year, before)
    BY <1>13 DEF Item
  <2> QED
    BY <1>15, <2>1 DEF Change
<1>18. total.change_pct = IF before = 0 THEN None ELSE Tenths(100 * (year - before), before)
  <2>1. total.change_pct = ChangePct("count", year, before)
    BY <1>13, <1>14 DEF Item
  <2>2. ChangePct("count", year, before) =
          IF "count" = "percent" \/ year = None \/ before \in {None, 0} THEN None
          ELSE Tenths(100 * (year - before), before)
    BY Zenon DEF ChangePct
  <2>3. "count" # "percent"
    OBVIOUS
  <2>4. before \in {None, 0} <=> before = 0
    BY <1>15
  <2> QED
    BY <1>15, <2>1, <2>2, <2>3, <2>4
<1>19. DOMAIN trend = {"value", "previous_value", "change", "change_pct"}
  BY <1>11
<1>20. \A field \in DOMAIN trend : trend[field] = total[field]
  <2>1. trend["value"] = total["value"] /\ trend["previous_value"] = total["previous_value"]
    BY <1>11, <1>16
  <2>2. trend["change"] = total["change"]
    BY <1>11, <1>17
  <2>3. trend["change_pct"] = total["change_pct"]
    BY <1>11, <1>18
  <2> QED
    BY <1>19, <2>1, <2>2, <2>3
<1>21. PICK told : told = RunForecast(name, NoFilters, 1).trend
  OBVIOUS
<1>22. told # None => told = trend
  <2>1. PICK outcome : outcome = Method!forecast_series(FullMonths(name, NoFilters), 1)
    OBVIOUS
  <2>2. told = WithTrend(FullMonths(name, NoFilters), outcome, name, NoFilters).trend
    BY <1>21, <2>1, Zenon DEF RunForecast, ForecastOf
  <2>3. told = IF outcome.refusal = "none" THEN None ELSE trend
    BY <1>8, <2>2 DEF WithTrend
  <2> QED
    BY <2>3
<1>23. IsOf(told, total)
  BY <1>20, <1>22, Zenon DEF IsOf
<1> QED
  BY <1>12, <1>21, <1>23

\* The dashboard, the lists, the titles, the members, the metrics and the trend
\* of a refused forecast are counted by statements of their own and agree
\* (dashboard.py, catalog.py, members.py, metrics/queries.py, analyst.py).
THEOREM OneStory == Spec => []ViewsAgree
<1>1. ASSUME DeskInv PROVE ViewsAgree
  <2>1. TrendsAreTheMetrics
    BY <1>1, TrendIsTheMetric DEF TrendsAreTheMetrics, CountedNames
  <2>2. PICK out : out = Cardinality(ListLoans("active", None, None))
    OBVIOUS
  <2>3. out = Cardinality(OutLoans)
    BY <2>2, ListsAreOut
  <2>4. Counts.available + Counts.on_loan = Counts.copies /\ Counts.on_loan = out
    BY <1>1, <2>3, CopiesAddUp
  <2>5. /\ Now("active_loans") = out /\ Now("copies_on_loan_share") = Ratio(100 * out, Counts.copies)
        /\ Now("overdue_loans") = Cardinality({l \in LoanIds : IsOverdue(l)})
    BY <1>1, <2>3, MetricsOfNow
  <2>6. SumFunction([m \in MembersNow |-> ActiveLoans(m)]) = out
    BY <1>1, <2>3, MembersHoldThem
  <2>7. SumFunction([b \in Catalog |-> CopiesTotal(b) - CopiesAvailable(b)]) = out
    BY <1>1, <2>3, TitlesLackThem
  <2>8. {Counts.on_loan, SumFunction([m \in MembersNow |-> ActiveLoans(m)])} = {out}
    BY <2>4, <2>6
  <2>9. /\ {Counts.overdue, Cardinality({l \in LoanIds : DaysOverdue(l) >= 1})} =
             {Cardinality(Dashboard.overdue)}
        /\ Now("overdue_loans") = Cardinality(Dashboard.overdue)
        /\ Dashboard.overdue \cap Dashboard.due_soon = {}
    BY <1>1, <2>5, OverdueIsLate
  <2>10. \A b \in TitlesNow : FirstAvailableCopy(b) # None <=> Availability(b) = "available"
    BY FirstCopyWhenAvailable
  <2>11. \A name \in DOMAIN Standing(out) : Now(name) = Standing(out)[name]
    BY <2>5, <2>9 DEF Standing
  <2> QED
    BY <2>1, <2>2, <2>4, <2>7, <2>8, <2>9, <2>10, <2>11, Zenon DEF ViewsAgree
<1> QED
  BY <1>1, DeskIsSound, PTL
=============================================================================
