-------------------------- MODULE DirectoryProofs ---------------------------
(***************************************************************************)
(* Theorems about the walks of Directory: for any callers, any number of   *)
(* clients and conversations, any page sizes and filters.                  *)
(*                                                                         *)
(* The first part is about pages alone: the first elements of a finite set *)
(* in some strict order.  A page with its cursor splits the rows in those  *)
(* up to the cursor and those after it, which is all the walks rest on.    *)
(***************************************************************************)
EXTENDS AdmissionProofs

-----------------------------------------------------------------------------
(* Finite ordered sets *)

IrreflexiveOn(R, S) == \A x \in S : <<x, x>> \notin R

TotalOn(R, S) == \A x, y \in S : x = y \/ <<x, y>> \in R \/ <<y, x>> \in R

\* R is a strict total order of S.
Orders(R, S) == IrreflexiveOn(R, S) /\ IsTransitivelyClosedOn(R, S) /\ TotalOn(R, S)

\* The first n elements of S.
FirstOf(R, S, n) == {x \in S : Cardinality(SetLessThan(x, R, S)) < n}

\* Something in a finite set has nothing below it.
LEMMA SomeMinimum ==
  ASSUME NEW S, IsFiniteSet(S), S # {}, NEW R,
         IrreflexiveOn(R, S), IsTransitivelyClosedOn(R, S)
  PROVE  \E x \in S : \A y \in S : <<y, x>> \notin R
<1> DEFINE T == {SetLessThan(x, R, S) : x \in S}
<1>1. T # {} /\ T \subseteq SUBSET S
  BY DEF SetLessThan
<1>2. IsWellFoundedOn(StrictSubsetOrdering(S), SUBSET S)
  BY FS_StrictSubsetOrderingWellFounded, FS_FiniteSubsetsOfFinite
<1>3. \E m \in T : \A t \in T : <<t, m>> \notin StrictSubsetOrdering(S)
  <2> HIDE DEF T
  <2> QED BY <1>1, <1>2, WFMin
<1>4. PICK x \in S : \A t \in T : <<t, SetLessThan(x, R, S)>> \notin StrictSubsetOrdering(S)
  BY <1>3
<1>5. ASSUME NEW y \in S, <<y, x>> \in R PROVE FALSE
  <2>1. SetLessThan(y, R, S) \subseteq SetLessThan(x, R, S)
    BY <1>5 DEF SetLessThan, IsTransitivelyClosedOn
  <2>2. y \in SetLessThan(x, R, S) /\ y \notin SetLessThan(y, R, S)
    BY <1>5 DEF SetLessThan, IrreflexiveOn
  <2>3. <<SetLessThan(y, R, S), SetLessThan(x, R, S)>> \in StrictSubsetOrdering(S)
    BY <2>1, <2>2 DEF StrictSubsetOrdering, SetLessThan
  <2> QED BY <1>4, <2>3
<1> QED BY <1>5

\* Something has everything else below it.
LEMMA SomeMaximum ==
  ASSUME NEW S, IsFiniteSet(S), S # {}, NEW R, Orders(R, S)
  PROVE  \E x \in S : \A y \in S : y = x \/ <<y, x>> \in R
<1> DEFINE Q == {p \in S \X S : <<p[2], p[1]>> \in R}
<1>1. \A x, y \in S : <<x, y>> \in Q <=> <<y, x>> \in R
  OBVIOUS
<1> HIDE DEF Q
<1>2. IrreflexiveOn(Q, S) /\ IsTransitivelyClosedOn(Q, S)
  BY <1>1 DEF Orders, IrreflexiveOn, IsTransitivelyClosedOn
<1>3. PICK x \in S : \A y \in S : <<y, x>> \notin Q
  BY <1>2, SomeMinimum
<1> QED BY <1>1, <1>3 DEF Orders, TotalOn

\* The elements below one are finitely many, and fewer than those below a later one.
LEMMA CountBelow ==
  ASSUME NEW S, IsFiniteSet(S), NEW R, Orders(R, S), NEW x \in S
  PROVE  /\ IsFiniteSet(SetLessThan(x, R, S)) /\ Cardinality(SetLessThan(x, R, S)) \in Nat
         /\ \A y \in S : <<y, x>> \in R =>
              Cardinality(SetLessThan(y, R, S)) < Cardinality(SetLessThan(x, R, S))
<1>1. \A z \in S : /\ IsFiniteSet(SetLessThan(z, R, S))
                   /\ Cardinality(SetLessThan(z, R, S)) \in Nat
  BY FS_Subset, FS_CardinalityType DEF SetLessThan
<1>2. ASSUME NEW y \in S, <<y, x>> \in R
      PROVE  Cardinality(SetLessThan(y, R, S)) < Cardinality(SetLessThan(x, R, S))
  <2>1. SetLessThan(y, R, S) \subseteq SetLessThan(x, R, S)
    BY <1>2 DEF SetLessThan, Orders, IsTransitivelyClosedOn
  <2>2. SetLessThan(y, R, S) # SetLessThan(x, R, S)
    BY <1>2 DEF SetLessThan, Orders, IrreflexiveOn
  <2>3. /\ Cardinality(SetLessThan(y, R, S)) <= Cardinality(SetLessThan(x, R, S))
        /\ Cardinality(SetLessThan(y, R, S)) # Cardinality(SetLessThan(x, R, S))
    BY <1>1, <2>1, <2>2, FS_Subset
  <2> QED BY <1>1, <2>3
<1> QED BY <1>1, <1>2

\* What is below one of the first n is among them.
LEMMA FirstClosed ==
  ASSUME NEW S, IsFiniteSet(S), NEW R, Orders(R, S), NEW n \in Nat,
         NEW x \in FirstOf(R, S, n), NEW y \in S, <<y, x>> \in R
  PROVE  y \in FirstOf(R, S, n)
<1>1. x \in S /\ Cardinality(SetLessThan(x, R, S)) < n
  BY DEF FirstOf
<1>2. Cardinality(SetLessThan(y, R, S)) < Cardinality(SetLessThan(x, R, S))
  BY <1>1, CountBelow
<1>3. /\ Cardinality(SetLessThan(y, R, S)) \in Nat
      /\ Cardinality(SetLessThan(x, R, S)) \in Nat
  BY <1>1, CountBelow
<1> QED BY <1>1, <1>2, <1>3 DEF FirstOf

\* Something has exactly one fewer below it than a later element with any.
LEMMA Predecessor ==
  ASSUME NEW S, IsFiniteSet(S), NEW R, Orders(R, S), NEW x \in S, SetLessThan(x, R, S) # {}
  PROVE  \E y \in S : /\ <<y, x>> \in R
                      /\ Cardinality(SetLessThan(x, R, S))
                           = Cardinality(SetLessThan(y, R, S)) + 1
<1> DEFINE B == SetLessThan(x, R, S)
<1>1. B \subseteq S /\ IsFiniteSet(B) /\ Orders(R, B)
  <2>1. B \subseteq S /\ IsFiniteSet(B)
    BY CountBelow DEF SetLessThan
  <2> QED BY <2>1 DEF Orders, IrreflexiveOn, IsTransitivelyClosedOn, TotalOn
<1>2. PICK y \in B : \A z \in B : z = y \/ <<z, y>> \in R
  BY <1>1, SomeMaximum
<1>3. y \in S /\ <<y, x>> \in R
  BY <1>2 DEF SetLessThan
<1>4. B = SetLessThan(y, R, S) \cup {y}
  BY <1>1, <1>2, <1>3 DEF SetLessThan, Orders, IsTransitivelyClosedOn
<1>5. y \notin SetLessThan(y, R, S)
  BY <1>3 DEF SetLessThan, Orders, IrreflexiveOn
<1>6. IsFiniteSet(SetLessThan(y, R, S))
  BY <1>3, CountBelow
<1>7. Cardinality(B) = Cardinality(SetLessThan(y, R, S)) + 1
  BY <1>4, <1>5, <1>6, FS_AddElement
<1> QED BY <1>3, <1>7

\* A page of n, and the n + 1 rows read to know whether there is more.  If they are the
\* same there is no more; otherwise the page has one last element, and
\* everything not in the page comes after it.
LEMMA PageSplits ==
  ASSUME NEW S, IsFiniteSet(S), NEW R, Orders(R, S), NEW n \in Nat \ {0}
  PROVE  LET rows == FirstOf(R, S, n + 1)
             page == FirstOf(R, rows, n)
             last == page \ FirstOf(R, page, n - 1)
         IN  /\ page \subseteq S
             /\ rows = page => page = S
             /\ rows # page =>
                  \E y \in page : /\ last = {y}
                                  /\ \A z \in page : z = y \/ <<z, y>> \in R
                                  /\ \A z \in S \ page : <<y, z>> \in R
<1> DEFINE rows  == FirstOf(R, S, n + 1)
           page  == FirstOf(R, rows, n)
           last  == page \ FirstOf(R, page, n - 1)
           C(x)  == Cardinality(SetLessThan(x, R, S))
<1>1. \A x \in S : C(x) \in Nat
  BY CountBelow
<1>2. rows \subseteq S /\ page \subseteq rows
  BY DEF FirstOf
<1>3. \A x \in rows : SetLessThan(x, R, rows) = SetLessThan(x, R, S)
  BY <1>2, FirstClosed DEF SetLessThan
<1>4. page = {x \in S : C(x) < n}
  <2>1. \A x \in S : C(x) < n => C(x) < n + 1
    BY <1>1
  <2> QED BY <1>2, <1>3, <2>1 DEF FirstOf
<1>5. page = FirstOf(R, S, n)
  BY <1>4 DEF FirstOf
<1>6. \A x \in page : SetLessThan(x, R, page) = SetLessThan(x, R, S)
  <2>1. \A x \in page, y \in S : <<y, x>> \in R => y \in page
    BY <1>5, FirstClosed
  <2> QED BY <1>2, <2>1 DEF SetLessThan
<1>7. last = {x \in S : C(x) = n - 1}
  <2>1. last = {x \in page : ~(C(x) < n - 1)}
    BY <1>6 DEF FirstOf
  <2> QED BY <1>1, <1>4, <2>1
<1>8. ASSUME rows = page PROVE page = S
  <2> SUFFICES ASSUME S \ page # {} PROVE FALSE
    BY <1>2
  <2>1. /\ IsFiniteSet(S \ page)
        /\ IrreflexiveOn(R, S \ page) /\ IsTransitivelyClosedOn(R, S \ page)
    BY FS_Difference DEF Orders, IrreflexiveOn, IsTransitivelyClosedOn
  <2>2. PICK x \in S \ page : \A y \in S \ page : <<y, x>> \notin R
    BY <2>1, SomeMinimum
  <2>3. C(x) \in Nat /\ ~(C(x) < n + 1)
    BY <1>1, <1>8 DEF FirstOf
  <2>4. SetLessThan(x, R, S) # {}
    BY <2>3, FS_EmptySet
  <2>5. PICK y \in S : <<y, x>> \in R /\ C(x) = C(y) + 1
    BY <2>4, Predecessor
  <2>6. y \in page
    BY <2>2, <2>5
  <2> QED BY <1>1, <1>4, <2>3, <2>5, <2>6
<1>9. ASSUME rows # page
      PROVE  \E y \in page : /\ last = {y}
                             /\ \A z \in page : z = y \/ <<z, y>> \in R
                             /\ \A z \in S \ page : <<y, z>> \in R
  <2>1. PICK x \in S : C(x) = n
    BY <1>1, <1>2, <1>4, <1>9 DEF FirstOf
  <2>2. SetLessThan(x, R, S) # {}
    BY <2>1, FS_EmptySet
  <2>3. PICK y \in S : <<y, x>> \in R /\ C(x) = C(y) + 1
    BY <2>2, Predecessor
  <2>4. C(y) = n - 1 /\ y \in page
    BY <1>1, <1>4, <2>1, <2>3
  <2>5. \A z \in S : <<z, y>> \in R => C(z) < C(y)
    BY CountBelow
  <2>6. \A z \in S : <<y, z>> \in R => C(y) < C(z)
    BY CountBelow
  <2>7. \A z \in S : z = y \/ <<z, y>> \in R \/ <<y, z>> \in R
    BY DEF Orders, TotalOn
  <2>8. /\ last \subseteq S /\ \A z \in S : z \in last <=> C(z) = n - 1
        /\ page \subseteq S /\ \A z \in S : z \in page <=> C(z) < n
    <3> HIDE DEF last, page
    <3> QED BY <1>4, <1>7
  <2>9. y \in S /\ \A z \in S : C(z) \in Nat
    BY <1>1
  <2>10. ASSUME NEW z \in S, <<z, y>> \in R PROVE z \in page /\ z \notin last
    <3>1. C(z) < n - 1 /\ C(z) \in Nat
      BY <1>1, <2>4, <2>5, <2>10
    <3> QED BY <2>8, <3>1
  <2>11. ASSUME NEW z \in S, <<y, z>> \in R PROVE z \notin page /\ z \notin last
    <3>1. n - 1 < C(z) /\ C(z) \in Nat
      BY <1>1, <2>4, <2>6, <2>11
    <3> QED BY <2>8, <3>1
  <2>12. y \in last
    BY <2>4, <2>8
  <2> HIDE DEF last, page, rows
  <2>13. last = {y}
    BY <2>7, <2>8, <2>10, <2>11, <2>12
  <2>14. ASSUME NEW z \in page PROVE z = y \/ <<z, y>> \in R
    BY <2>7, <2>8, <2>11
  <2>15. ASSUME NEW z \in S \ page PROVE <<y, z>> \in R
    BY <2>4, <2>7, <2>10
  <2> QED BY <2>4, <2>13, <2>14, <2>15
<1>10. page \subseteq S
  BY <1>2
<1> HIDE DEF rows, page, last
<1> QED BY <1>8, <1>9, <1>10 DEF rows, page, last

-----------------------------------------------------------------------------
(* The inductive invariant *)

\* The rows there are to walk over.
Existing(w) == IF w.kind = "agents" THEN Registered ELSE Started

WalkTyped(w) ==
  w \in [pc : {"page", "total", "end"}, kind : {"agents", "conversations"},
         reader : Sub \cup {<<>>}, filter : Filters \cup {"any"}, limit : Limits,
         cursor : SUBSET Row(w), seen : SUBSET Row(w), returned : Nat, total : Nat,
         since : SUBSET Row(w)]

\* The walk lists x no more, for good: its reader has left, or the walk is over active
\* conversations and x has closed or is overdue.
Gone(w, x) ==
  /\ w.kind = "conversations"
  /\ \/ w.reader \notin conversations[x].present
     \/ w.filter = "active" /\ (conversations[x].state # "active" \/ Overdue(x))

\* The cursor is the last of what the client has.
CursorLast(w) ==
  \A y \in w.cursor : w.cursor = {y} /\ \A x \in w.seen : x = y \/ Precedes(w.kind, x, y)

\* The last page has been read.
Finished(w) == w.pc = "end" \/ (w.pc = "total" /\ w.cursor = {})

\* What a walk has and what it is owed.
WalkKnows(w) ==
  /\ w.cursor \subseteq w.seen /\ w.seen \subseteq Existing(w)
  /\ w.returned = Cardinality(w.seen)
  /\ CursorLast(w)
  /\ w.pc = "page" /\ w.cursor = {} => w.seen = {}
  /\ w.since \subseteq Existing(w) /\ \A x \in w.since : x \in Listed(w) \/ Gone(w, x)
  /\ IF Finished(w) THEN Owed(w) = {} ELSE Owed(w) \subseteq Ahead(w)
  /\ w.kind = "agents" /\ w.pc # "total" => w.total >= Cardinality(w.seen)

\* Whatever a client waits for is known, and a walk keeps what it is owed.
ClientsKnown ==
  \A c \in Client : /\ client[c].pc \in {"idle", "register", "count", "targets", "insert",
                                         "page", "total", "end"}
                    /\ Walking(c) => WalkTyped(client[c]) /\ WalkKnows(client[c])

\* Every row of an agent was written by somebody, and every conversation has a state.
RowsWritten == /\ \A s \in Sub : agents[s].writers = {} => agents[s] = NoAgent
               /\ \A x \in Started : conversations[x].state # "none"

DirectoryInv == Inv /\ RowsWritten /\ clock <= MaxClock /\ ClientsKnown

-----------------------------------------------------------------------------
(* The orders of the lists *)

\* A caller goes by one sub at most, so finitely many callers have finitely many.
LEMMA SubFinite == IsFiniteSet(Sub)
<1>1. ASSUME NEW k \in Caller, NEW x \in SubsOf(k), NEW y \in SubsOf(k) PROVE x = y
  BY CallerAssumption DEF CallerShape, SubsOf, ResolvedIdentity
<1> DEFINE f == [s \in Sub |-> CHOOSE k \in Caller : s \in SubsOf(k)]
<1>2. ASSUME NEW s \in Sub PROVE f[s] \in Caller /\ s \in SubsOf(f[s])
  BY DEF Sub
<1>3. f \in Injection(Sub, Caller)
  <2>1. f \in [Sub -> Caller]
    BY <1>2
  <2>2. \A s, t \in Sub : f[s] = f[t] => s = t
    <3> HIDE DEF f
    <3> QED BY <1>1, <1>2
  <2> HIDE DEF f
  <2> QED BY <2>1, <2>2 DEF Injection, IsInjective
<1> QED BY <1>3, FS_Injection, DirectoryAssumption

\* The subs can be numbered, so Rank numbers them.
LEMMA RankNumbers ==
  Rank \in [Sub -> Nat] /\ \A s, t \in Sub : s # t => Rank[s] # Rank[t]
<1> DEFINE n == Cardinality(Sub)
           Numbers(f) == f \in [Sub -> 1 .. n] /\ \A s, t \in Sub : s # t => f[s] # f[t]
<1>1. n \in Nat /\ ExistsBijection(1 .. n, Sub)
  BY SubFinite, FS_CardinalityType
<1>2. PICK g \in [1 .. n -> Sub] : \A s \in Sub : \E i \in 1 .. n : g[i] = s
  BY <1>1 DEF ExistsBijection, Bijection, Surjection
<1> DEFINE f == [s \in Sub |-> CHOOSE i \in 1 .. n : g[i] = s]
<1>3. \A s \in Sub : f[s] \in 1 .. n /\ g[f[s]] = s
  BY <1>2
<1>4. Numbers(f)
  <2> HIDE DEF n
  <2>1. f \in [Sub -> 1 .. n]
    BY <1>3
  <2> HIDE DEF f
  <2> QED BY <1>3, <2>1
<1>5. Numbers(Rank)
  BY <1>4 DEF Rank
<1> QED BY <1>1, <1>5

\* ORDER BY, as a relation.
Before(w) == {p \in Row(w) \X Row(w) : Precedes(w.kind, p[1], p[2])}

\* Agents are ordered by sub; conversations by time of creation, and by id where it is
\* the same.
LEMMA RowsOrdered ==
  ASSUME TablesTyped, NEW w, w.kind \in {"agents", "conversations"}, NEW S \in SUBSET Row(w)
  PROVE  Orders(Before(w), S) /\ IsFiniteSet(S)
<1>1. \A x, y \in S : <<x, y>> \in Before(w) <=> Precedes(w.kind, x, y)
  BY DEF Before
<1>2. CASE w.kind = "agents"
  <2>1. \A x \in S : x \in Sub /\ Rank[x] \in Nat
    BY <1>2, RankNumbers DEF Row
  <2>2. \A x, y \in S : <<x, y>> \in Before(w) <=> Rank[x] < Rank[y]
    BY <1>1, <1>2 DEF Precedes
  <2>3. Orders(Before(w), S)
    <3>1. IrreflexiveOn(Before(w), S) /\ IsTransitivelyClosedOn(Before(w), S)
      BY <2>1, <2>2 DEF IrreflexiveOn, IsTransitivelyClosedOn
    <3>2. ASSUME NEW x \in S, NEW y \in S, x # y
          PROVE  <<x, y>> \in Before(w) \/ <<y, x>> \in Before(w)
      <4>1. Rank[x] # Rank[y] /\ Rank[x] \in Nat /\ Rank[y] \in Nat
        BY <2>1, <3>2, RankNumbers
      <4>2. Rank[x] < Rank[y] \/ Rank[y] < Rank[x]
        BY <4>1
      <4> QED BY <2>2, <4>2
    <3>3. TotalOn(Before(w), S)
      BY <3>2 DEF TotalOn
    <3> QED BY <3>1, <3>3 DEF Orders
  <2>4. IsFiniteSet(S)
    BY <1>2, SubFinite, FS_Subset DEF Row
  <2> QED BY <2>3, <2>4
<1>3. CASE w.kind = "conversations"
  <2>1. \A x \in S : x \in Nat /\ conversations[x].created \in Nat
    BY <1>3, BoundsAssumption DEF Row, TablesTyped, ConversationRow
  <2>2. \A x, y \in S : <<x, y>> \in Before(w) <=>
          \/ conversations[x].created > conversations[y].created
          \/ conversations[x].created = conversations[y].created /\ x > y
    BY <1>1, <1>3 DEF Precedes
  <2>3. Orders(Before(w), S)
    <3>1. IrreflexiveOn(Before(w), S) /\ IsTransitivelyClosedOn(Before(w), S)
      BY <2>1, <2>2 DEF IrreflexiveOn, IsTransitivelyClosedOn
    <3>2. ASSUME NEW x \in S, NEW y \in S, x # y
          PROVE  <<x, y>> \in Before(w) \/ <<y, x>> \in Before(w)
      <4>1. /\ x \in Nat /\ conversations[x].created \in Nat
            /\ y \in Nat /\ conversations[y].created \in Nat
        BY <2>1
      <4>2. \/ conversations[x].created > conversations[y].created
            \/ conversations[y].created > conversations[x].created
            \/ conversations[x].created = conversations[y].created /\ (x > y \/ y > x)
        BY <3>2, <4>1
      <4>3. CASE conversations[x].created > conversations[y].created
        BY <2>2, <4>3
      <4>4. CASE conversations[y].created > conversations[x].created
        BY <2>2, <4>4
      <4> QED BY <2>2, <4>2, <4>3, <4>4
    <3>3. TotalOn(Before(w), S)
      BY <3>2 DEF TotalOn
    <3> QED BY <3>1, <3>3 DEF Orders
  <2>4. IsFiniteSet(S)
    BY <1>3, FiniteAssumption, FS_Subset DEF Row
  <2> QED BY <2>3, <2>4
<1> QED BY <1>2, <1>3

\* What a page and the next cursor are to the rows past the old one.
LEMMA PageMeans ==
  ASSUME TablesTyped, NEW w, WalkTyped(w)
  PROVE  LET size == PageSize(w.limit)
             rows == FirstRows(w.kind, Ahead(w), size + 1)
             page == FirstRows(w.kind, rows, size)
             last == page \ FirstRows(w.kind, page, size - 1)
         IN  /\ page \subseteq Ahead(w) /\ Ahead(w) \subseteq Row(w)
             /\ rows = page => page = Ahead(w)
             /\ rows # page =>
                  \E y \in page : /\ last = {y}
                                  /\ \A z \in page : z = y \/ Precedes(w.kind, z, y)
                                  /\ \A z \in Ahead(w) \ page : Precedes(w.kind, y, z)
<1> DEFINE size == PageSize(w.limit)
           R    == Before(w)
           S    == Ahead(w)
           rows == FirstOf(R, S, size + 1)
           page == FirstOf(R, rows, size)
           last == page \ FirstOf(R, page, size - 1)
<1>1. w.kind \in {"agents", "conversations"} /\ w.limit \in Nat
  BY DirectoryAssumption DEF WalkTyped
<1>2. size \in Nat \ {0}
  BY <1>1, DirectoryAssumption DEF PageSize
<1>3. S \subseteq Row(w)
  BY DEF Ahead, Listed, Row, Registered, Started
<1>4. rows \subseteq S /\ page \subseteq rows
  BY DEF FirstOf
<1>5. ASSUME NEW T \in SUBSET Row(w), NEW n
      PROVE  FirstRows(w.kind, T, n) = FirstOf(R, T, n)
  <2>1. ASSUME NEW x \in T
        PROVE  {y \in T : Precedes(w.kind, y, x)} = SetLessThan(x, R, T)
    BY DEF SetLessThan, Before
  <2> QED BY <2>1 DEF FirstRows, FirstOf
<1>6. Orders(R, S) /\ IsFiniteSet(S)
  BY <1>1, <1>3, RowsOrdered
<1>7. \A x, y \in S : <<x, y>> \in R => Precedes(w.kind, x, y)
  BY DEF Before
<1> HIDE DEF size, R, S
<1>8. /\ rows = page => page = S
      /\ rows # page =>
           \E y \in page : /\ last = {y}
                           /\ \A z \in page : z = y \/ <<z, y>> \in R
                           /\ \A z \in S \ page : <<y, z>> \in R
  BY <1>2, <1>6, PageSplits
<1>9. /\ FirstRows(w.kind, S, size + 1) = rows
      /\ FirstRows(w.kind, rows, size) = page
      /\ FirstRows(w.kind, page, size - 1) = FirstOf(R, page, size - 1)
  BY <1>3, <1>4, <1>5
<1> HIDE DEF rows, page
<1>10. rows # page =>
           \E y \in page : /\ last = {y}
                           /\ \A z \in page : z = y \/ Precedes(w.kind, z, y)
                           /\ \A z \in S \ page : Precedes(w.kind, y, z)
  BY <1>4, <1>7, <1>8
<1> QED BY <1>3, <1>4, <1>8, <1>9, <1>10 DEF size, S
-----------------------------------------------------------------------------
(* What the steps do to the rows of a list *)

\* A conversation row goes on: it keeps its dates, gains nobody, and its state changes
\* only from active, to expired when it is overdue and to completed when it is not.
RowGoesOn(x) ==
  /\ conversations'[x] # NoConversation
  /\ conversations'[x].created = conversations[x].created
  /\ conversations'[x].expires = conversations[x].expires
  /\ conversations'[x].present \subseteq conversations[x].present
  /\ \/ conversations'[x].state = conversations[x].state
     \/ /\ conversations[x].state = "active"
        /\ conversations'[x].state = IF Overdue(x) THEN "expired" ELSE "completed"

\* The conversations go on, the new ones have a state, and time does not run back.
ConversationsGoOn ==
  /\ \A x \in Started : RowGoesOn(x)
  /\ \A x \in Conv : conversations'[x] # NoConversation => conversations'[x].state # "none"
  /\ clock <= clock' /\ clock' \in 0 .. MaxClock

\* This is so through every step.
LEMMA ConversationsContinue ==
  ASSUME Inv, RowsWritten, clock <= MaxClock, [Next]_vars
  PROVE  ConversationsGoOn
<1>1. conversations \in [Conv -> ConversationRow] /\ clock \in Nat /\ MaxClock \in Nat
  BY BoundsAssumption DEF Inv, TablesTyped
<1>2. \A x \in Started : conversations[x].state # "none"
  BY DEF RowsWritten
<1>3. ASSUME UNCHANGED <<conversations, clock>> PROVE ConversationsGoOn
  BY <1>1, <1>2, <1>3 DEF Started, RowGoesOn, ConversationsGoOn
<1>4. ASSUME Tick PROVE ConversationsGoOn
  BY <1>1, <1>2, <1>4 DEF Tick, Started, RowGoesOn, ConversationsGoOn
<1>5. ASSUME NEW id \in Conv, NEW row, conversations' = [conversations EXCEPT ![id] = row],
             clock' = clock, row.state # "none", id \in Started => RowGoesOn(id)
      PROVE  ConversationsGoOn
  <2>1. conversations'[id] = row /\ \A x \in Conv : x # id => conversations'[x] = conversations[x]
    BY <1>1, <1>5
  <2>2. \A x \in Started : RowGoesOn(x)
    BY <1>5, <2>1 DEF RowGoesOn, Started
  <2>3. \A x \in Conv : conversations'[x] # NoConversation => conversations'[x].state # "none"
    BY <1>2, <1>5, <2>1 DEF Started
  <2> QED BY <1>1, <1>5, <2>2, <2>3 DEF ConversationsGoOn
<1>6. ASSUME NEW c \in Client, InsertConversation(c) PROVE ConversationsGoOn
  <2>1. PICK id \in Conv \ Started, state \in {"active", "completed"}, life \in Lifetimes :
          conversations' = [conversations EXCEPT ![id] =
              [state |-> state, type |-> client[c].type, by |-> client[c].sub,
               present |-> client[c].to \cup {client[c].sub},
               created |-> client[c].created, expires |-> clock + life]]
    BY <1>6 DEF InsertConversation
  <2> DEFINE row == [state |-> state, type |-> client[c].type, by |-> client[c].sub,
                     present |-> client[c].to \cup {client[c].sub},
                     created |-> client[c].created, expires |-> clock + life]
  <2>2. conversations' = [conversations EXCEPT ![id] = row] /\ clock' = clock
    BY <1>6, <2>1 DEF InsertConversation
  <2>3. row.state # "none"
    OBVIOUS
  <2> HIDE DEF row
  <2> QED BY <1>5, <2>2, <2>3
<1>7. ASSUME NEW id \in Conv, Close(id) PROVE ConversationsGoOn
  <2>1. conversations[id] \in ConversationRow /\ conversations[id].state = "active"
    BY <1>1, <1>7 DEF Close
  <2> DEFINE new == IF Overdue(id) THEN "expired" ELSE "completed"
             row == [conversations[id] EXCEPT !.state = new]
  <2>2. conversations' = [conversations EXCEPT ![id] = row] /\ clock' = clock
    BY <1>7 DEF Close
  <2>3. /\ row.state = new /\ row.present = conversations[id].present
        /\ row.created = conversations[id].created /\ row.expires = conversations[id].expires
    BY <2>1 DEF ConversationRow
  <2>4. row.state # "none" /\ NoConversation.state = "none"
    BY <2>3 DEF NoConversation
  <2> HIDE DEF row
  <2>5. conversations'[id] = row
    BY <1>1, <2>2
  <2>6. RowGoesOn(id)
    BY <2>1, <2>3, <2>4, <2>5 DEF RowGoesOn
  <2> QED BY <1>5, <2>2, <2>4, <2>6
<1>8. ASSUME NEW id \in Conv, NEW s \in Sub, Exit(id, s) PROVE ConversationsGoOn
  <2>1. conversations[id] \in ConversationRow /\ s \in conversations[id].present
    BY <1>1, <1>8 DEF Exit
  <2> DEFINE row == [conversations[id] EXCEPT !.present = @ \ {s}]
  <2>2. conversations' = [conversations EXCEPT ![id] = row] /\ clock' = clock
    BY <1>8 DEF Exit
  <2>3. /\ row.state = conversations[id].state
        /\ row.present = conversations[id].present \ {s}
        /\ row.created = conversations[id].created /\ row.expires = conversations[id].expires
    BY <2>1 DEF ConversationRow
  <2>4. row.state # "none" /\ NoConversation.state = "none"
    BY <1>2, <2>1, <2>3 DEF NoConversation, Started
  <2> HIDE DEF row
  <2>5. conversations'[id] = row
    BY <1>1, <2>2
  <2>6. RowGoesOn(id)
    BY <2>3, <2>4, <2>5 DEF RowGoesOn
  <2> QED BY <1>5, <2>2, <2>4, <2>6
<1>9. DirectoryNext => UNCHANGED <<conversations, clock>>
  BY WalkShape DEF tables
<1>10. \A c \in Client : Register(c) \/ CommitRegister(c) \/ StartConversation(c)
        \/ EnforceStartRateLimit(c) \/ ResolveTargets(c) \/ Abort(c)
          => UNCHANGED <<conversations, clock>>
  BY DEF Register, CommitRegister, StartConversation, EnforceStartRateLimit,
     ResolveTargets, Abort, tables
<1>11. \A s \in Sub : SuspendAgent(s) => UNCHANGED <<conversations, clock>>
  BY DEF SuspendAgent
<1>12. CASE UNCHANGED vars
  BY <1>3, <1>12 DEF vars, tables
<1>13. CASE AdmissionNext
  BY <1>3, <1>4, <1>6, <1>7, <1>8, <1>10, <1>11, <1>13 DEF AdmissionNext
<1>14. CASE DirectoryNext
  BY <1>3, <1>9, <1>14
<1> QED BY <1>12, <1>13, <1>14 DEF Next

\* Every row of an agent goes on, and has been written by somebody.
LEMMA AgentsContinue ==
  ASSUME Inv, RowsWritten, [Next]_vars
  PROVE  /\ \A s \in Registered : agents'[s] # NoAgent
         /\ \A s \in Sub : agents'[s].writers = {} => agents'[s] = NoAgent
<1>1. /\ agents \in [Sub -> AgentRow]
      /\ \A s \in Sub : agents[s].writers = {} => agents[s] = NoAgent
  BY DEF Inv, TablesTyped, RowsWritten
<1>2. \A s \in Registered : agents'[s] # NoAgent
  BY AgentsKept DEF OwnersKept, Registered
<1> DEFINE Written == \A s \in Sub : agents'[s].writers = {} => agents'[s] = NoAgent
<1>3. ASSUME UNCHANGED agents PROVE Written
  BY <1>1, <1>3
<1>4. ASSUME NEW s \in Sub, NEW row, agents' = [agents EXCEPT ![s] = row], row.writers # {}
      PROVE  Written
  <2>1. agents'[s] = row /\ \A t \in Sub : t # s => agents'[t] = agents[t]
    BY <1>1, <1>4
  <2> QED BY <1>1, <1>4, <2>1
<1>5. ASSUME NEW c \in Client, CommitRegister(c) PROVE Written
  <2> DEFINE r   == client[c]
             new == [status |-> "active", owner |-> r.owner, writers |-> {r.writer}]
             old == Rewrite(r, agents[r.sub])
  <2>1. r.sub \in Sub
    BY <1>5 DEF CommitRegister, Inv, RequestsTyped, RequestTyped, RegisterRequest
  <2>2. new.writers # {} /\ old.writers # {}
    BY DEF Rewrite
  <2>3. \/ UNCHANGED agents
        \/ agents' = [agents EXCEPT ![r.sub] = new]
        \/ agents' = [agents EXCEPT ![r.sub] = old]
    BY <1>5 DEF CommitRegister
  <2> HIDE DEF r, new, old
  <2> QED BY <1>3, <1>4, <2>1, <2>2, <2>3
<1>6. ASSUME NEW s \in Sub, SuspendAgent(s) PROVE Written
  <2> DEFINE row == [agents[s] EXCEPT !.status = "suspended"]
  <2>1. agents' = [agents EXCEPT ![s] = row] /\ agents[s].status = "active"
    BY <1>6 DEF SuspendAgent
  <2>2. agents[s] \in AgentRow
    BY <1>1
  <2>3. agents[s] # NoAgent
    BY <2>1 DEF NoAgent
  <2>4. row.writers = agents[s].writers
    BY <2>2 DEF AgentRow
  <2> HIDE DEF row
  <2> QED BY <1>1, <1>4, <2>1, <2>3, <2>4
<1> HIDE DEF Written
<1>7. DirectoryNext => UNCHANGED agents
  BY WalkShape DEF tables
<1>8. \A c \in Client : Register(c) \/ StartConversation(c) \/ EnforceStartRateLimit(c)
        \/ ResolveTargets(c) \/ InsertConversation(c) \/ Abort(c) => UNCHANGED agents
  BY DEF Register, StartConversation, EnforceStartRateLimit, ResolveTargets,
     InsertConversation, Abort, tables
<1>9. /\ \A id \in Conv : Close(id) => UNCHANGED agents
      /\ \A id \in Conv, s \in Sub : Exit(id, s) => UNCHANGED agents
      /\ Tick => UNCHANGED agents
      /\ UNCHANGED vars => UNCHANGED agents
  BY DEF Close, Exit, Tick, vars, tables
<1>10. Written
  BY <1>3, <1>5, <1>6, <1>7, <1>8, <1>9 DEF Next, AdmissionNext
<1> QED BY <1>2, <1>10 DEF Written

\* No row goes away, and time does not run back.
RowsGoOn == (\A s \in Registered : agents'[s] # NoAgent) /\ ConversationsGoOn

\* A walk that no step touches keeps what it knows.
LEMMA WalkKept ==
  ASSUME TablesTyped, RowsGoOn, NEW w, WalkTyped(w), WalkKnows(w)
  PROVE  WalkKnows(w)'
<1>1. /\ Registered \subseteq Registered' /\ Started \subseteq Started'
      /\ \A x \in Started : RowGoesOn(x)
  BY DEF RowsGoOn, ConversationsGoOn, RowGoesOn, Registered, Started
<1>2. Existing(w) \subseteq Existing(w)'
  BY <1>1 DEF Existing
<1>3. w.kind \in {"agents", "conversations"}
  BY DEF WalkTyped
\* The order of the rows stays.
<1>4. ASSUME NEW x \in Existing(w), NEW y \in Existing(w), Precedes(w.kind, x, y)
      PROVE  Precedes(w.kind, x, y)'
  <2>1. CASE w.kind = "agents"
    BY <1>4, <2>1 DEF Precedes
  <2>2. CASE w.kind # "agents"
    BY <1>1, <1>4, <2>2 DEF Precedes, Existing, RowGoesOn
  <2> QED BY <2>1, <2>2
\* What is no longer listed is gone, and stays so.
<1>5. ASSUME NEW x \in Started
      PROVE  Overdue(x) => Overdue(x)'
  <2>1. conversations[x] \in ConversationRow /\ clock \in Nat
    BY DEF TablesTyped, Started
  <2>2. conversations[x].expires \in Nat /\ clock <= clock' /\ clock' \in Nat
    BY <2>1 DEF ConversationRow, RowsGoOn, ConversationsGoOn
  <2>3. conversations'[x].expires = conversations[x].expires
    BY <1>1 DEF RowGoesOn
  <2> QED BY <2>1, <2>2, <2>3, BoundsAssumption DEF Overdue
<1>6. ASSUME NEW x \in Existing(w), Gone(w, x)
      PROVE  Gone(w, x)'
  <2>1. x \in Started /\ RowGoesOn(x)
    BY <1>1, <1>6 DEF Gone, Existing
  <2> QED BY <1>5, <1>6, <2>1 DEF Gone, RowGoesOn
<1>7. ASSUME NEW x \in Existing(w), x \in Listed(w)
      PROVE  x \in Listed(w)' \/ Gone(w, x)'
  <2>1. CASE w.kind = "agents"
    BY <1>1, <1>7, <2>1 DEF Listed
  <2>2. CASE w.kind = "conversations"
    <3>1. /\ x \in Started /\ x \in Started' /\ RowGoesOn(x)
          /\ FilterMatches(w.filter, x)
      BY <1>1, <1>7, <2>2 DEF Listed
    <3>2. w.filter = "active" => FilterMatches(w.filter, x)' \/ Gone(w, x)'
      BY <2>2 DEF Gone, FilterMatches
    <3>3. w.filter # "active" => FilterMatches(w.filter, x)'
      BY <1>5, <3>1 DEF FilterMatches, RowGoesOn
    <3> QED BY <2>2, <3>1, <3>2, <3>3 DEF Listed, Gone
  <2> QED BY <1>3, <2>1, <2>2
<1>8. ASSUME NEW x, Gone(w, x) PROVE x \notin Listed(w)
  BY <1>8 DEF Gone, Listed, FilterMatches
<1>9. ASSUME NEW x, Gone(w, x)' PROVE x \notin Listed(w)'
  BY <1>9 DEF Gone, Listed, FilterMatches
<1>10. /\ w.cursor \subseteq w.seen /\ w.seen \subseteq Existing(w)
       /\ w.since \subseteq Existing(w) /\ \A x \in w.since : x \in Listed(w) \/ Gone(w, x)
  BY DEF WalkKnows
<1>11. \A x \in w.since : x \in Listed(w)' \/ Gone(w, x)'
  BY <1>6, <1>7, <1>10
<1>12. Owed(w)' \subseteq Owed(w)
  BY <1>6, <1>9, <1>10 DEF Owed
<1>13. Owed(w) \subseteq Ahead(w) => Owed(w)' \subseteq Ahead(w)'
  <2> SUFFICES ASSUME Owed(w) \subseteq Ahead(w), NEW x \in Owed(w)', NEW y \in w.cursor
               PROVE  x \in Listed(w)' /\ Precedes(w.kind, y, x)'
    BY DEF Ahead, Owed
  <2>1. x \in Ahead(w) /\ x \in w.since /\ x \in Listed(w)'
    BY <1>12 DEF Owed
  <2> QED BY <1>4, <1>10, <2>1 DEF Ahead
<1>14. CursorLast(w)'
  BY <1>4, <1>10 DEF WalkKnows, CursorLast
<1>15. IF Finished(w) THEN Owed(w)' = {} ELSE Owed(w)' \subseteq Ahead(w)'
  BY <1>12, <1>13 DEF WalkKnows
<1> QED BY <1>2, <1>10, <1>11, <1>14, <1>15 DEF WalkKnows, Finished

-----------------------------------------------------------------------------
(* What the steps do to a walk *)

\* What is listed exists.
LEMMA ListedExists ==
  ASSUME NEW w
  PROVE  Ahead(w) \subseteq Listed(w) /\ Listed(w) \subseteq Existing(w)
BY DEF Ahead, Listed, Existing

\* A page is new to the client, and the cursor it leaves keeps what is owed ahead.
LEMMA PageKnown ==
  ASSUME TablesTyped, NEW w, WalkTyped(w), WalkKnows(w), w.pc = "page"
  PROVE  LET size == PageSize(w.limit)
             rows == FirstRows(w.kind, Ahead(w), size + 1)
             page == FirstRows(w.kind, rows, size)
             new  == [w EXCEPT !.seen = @ \cup page, !.returned = @ + Cardinality(page),
                               !.cursor = IF rows = page THEN {}
                                          ELSE page \ FirstRows(w.kind, page, size - 1),
                               !.pc = IF w.kind = "agents" THEN "total"
                                      ELSE IF rows = page THEN "end" ELSE "page"]
         IN  WalkTyped(new) /\ WalkKnows(new)
<1> DEFINE size == PageSize(w.limit)
           rows == FirstRows(w.kind, Ahead(w), size + 1)
           page == FirstRows(w.kind, rows, size)
           last == page \ FirstRows(w.kind, page, size - 1)
           new  == [w EXCEPT !.seen = @ \cup page, !.returned = @ + Cardinality(page),
                             !.cursor = IF rows = page THEN {} ELSE last,
                             !.pc = IF w.kind = "agents" THEN "total"
                                    ELSE IF rows = page THEN "end" ELSE "page"]
<1>1. /\ page \subseteq Ahead(w) /\ Ahead(w) \subseteq Row(w)
      /\ rows = page => page = Ahead(w)
      /\ rows # page => \E y \in page : /\ last = {y}
                                        /\ \A z \in page : z = y \/ Precedes(w.kind, z, y)
                                        /\ \A z \in Ahead(w) \ page : Precedes(w.kind, y, z)
  BY PageMeans
<1> HIDE DEF rows, page, last
<1>2. /\ w.kind \in {"agents", "conversations"} /\ w.returned \in Nat
      /\ w.cursor \in SUBSET Row(w) /\ w.seen \in SUBSET Row(w) /\ w.since \in SUBSET Row(w)
  BY DEF WalkTyped
<1>3. /\ new.kind = w.kind /\ new.reader = w.reader /\ new.filter = w.filter
      /\ new.since = w.since /\ new.limit = w.limit /\ new.total = w.total
      /\ new.seen = w.seen \cup page /\ new.returned = w.returned + Cardinality(page)
      /\ new.cursor = IF rows = page THEN {} ELSE last
      /\ new.pc = IF w.kind = "agents" THEN "total"
                  ELSE IF rows = page THEN "end" ELSE "page"
      /\ new \in [pc : {"page", "total", "end"}, kind : {"agents", "conversations"},
                  reader : Sub \cup {<<>>}, filter : Filters \cup {"any"}, limit : Limits,
                  cursor : {new.cursor}, seen : {new.seen}, returned : {new.returned},
                  total : Nat, since : SUBSET Row(w)]
  BY DEF WalkTyped
<1> HIDE DEF new
\* The order of the rows.
<1>4. /\ \A x \in Row(w) : ~Precedes(w.kind, x, x)
      /\ \A x, y, z \in Row(w) :
           Precedes(w.kind, x, y) /\ Precedes(w.kind, y, z) => Precedes(w.kind, x, z)
  <2>1. Orders(Before(w), Row(w))
    BY <1>2, RowsOrdered
  <2>2. \A x, y \in Row(w) : <<x, y>> \in Before(w) <=> Precedes(w.kind, x, y)
    BY DEF Before
  <2> QED BY <2>1, <2>2 DEF Orders, IrreflexiveOn, IsTransitivelyClosedOn
<1>5. /\ w.cursor \subseteq w.seen /\ w.seen \subseteq Existing(w)
      /\ w.returned = Cardinality(w.seen)
      /\ w.cursor = {} => w.seen = {}
      /\ \A y \in w.cursor : w.cursor = {y} /\ \A x \in w.seen : x = y \/ Precedes(w.kind, x, y)
      /\ Owed(w) \subseteq Ahead(w)
      /\ w.since \subseteq Existing(w) /\ \A x \in w.since : x \in Listed(w) \/ Gone(w, x)
  BY DEF WalkKnows, CursorLast, Finished
<1>6. \A y \in w.cursor, x \in Ahead(w) : Precedes(w.kind, y, x)
  BY DEF Ahead
\* The rows that were there and those of the page.
<1>7. \A x \in w.seen, y \in page : Precedes(w.kind, x, y)
  BY <1>1, <1>2, <1>4, <1>5, <1>6
<1>8. IsFiniteSet(w.seen) /\ IsFiniteSet(page)
  BY <1>1, <1>2, RowsOrdered
<1>9. new.returned = Cardinality(new.seen) /\ new.returned \in Nat
  <2>1. w.seen \cap page = {}
    BY <1>1, <1>2, <1>4, <1>7
  <2>2. Cardinality(w.seen \cup page) = Cardinality(w.seen) + Cardinality(page) - Cardinality({})
    BY <1>8, <2>1, FS_Union
  <2>3. /\ Cardinality(w.seen) \in Nat /\ Cardinality(page) \in Nat /\ Cardinality({}) = 0
    BY <1>8, FS_CardinalityType, FS_EmptySet
  <2> QED BY <1>3, <1>5, <2>2, <2>3
<1>10. new.cursor \subseteq page
  BY <1>1, <1>3
<1>11. /\ Row(new) = Row(w) /\ Existing(new) = Existing(w) /\ Listed(new) = Listed(w)
       /\ \A x : Gone(new, x) <=> Gone(w, x)
  BY <1>3 DEF Row, Existing, Listed, Gone
<1>12. WalkTyped(new)
  <2>1. new.cursor \in SUBSET Row(w) /\ new.seen \in SUBSET Row(w)
    BY <1>1, <1>2, <1>3, <1>10
  <2> QED BY <1>3, <1>9, <1>11, <2>1 DEF WalkTyped
<1>13. new.seen \subseteq Existing(new)
  BY <1>1, <1>3, <1>5, <1>11, ListedExists
<1>14. CursorLast(new)
  BY <1>1, <1>3, <1>7 DEF CursorLast
<1>15. Finished(new) <=> rows = page
  BY <1>1, <1>2, <1>3 DEF Finished
<1>16. Owed(new) = Owed(w) \ page
  BY <1>3, <1>11 DEF Owed
<1>17. rows # page => Owed(new) \subseteq Ahead(new)
  <2> SUFFICES ASSUME rows # page, NEW x \in Owed(w), x \notin page
               PROVE  x \in Listed(w) /\ \A y \in new.cursor : Precedes(w.kind, y, x)
    BY <1>3, <1>11, <1>16 DEF Ahead
  <2> QED BY <1>1, <1>3, <1>5 DEF Ahead
<1>18. rows = page => Owed(new) = {}
  BY <1>1, <1>5, <1>16
<1>19. new.pc = "page" /\ new.cursor = {} => new.seen = {}
  BY <1>1, <1>3
<1>20. WalkKnows(new)
  BY <1>3, <1>5, <1>9, <1>10, <1>11, <1>13, <1>14, <1>15, <1>17, <1>18, <1>19 DEF WalkKnows
<1> QED BY <1>12, <1>20 DEF new, page, rows, last

\* The total of a page counts what the walk has seen.
LEMMA CountKnown ==
  ASSUME TablesTyped, NEW w, WalkTyped(w), WalkKnows(w), w.pc = "total"
  PROVE  LET new == [w EXCEPT !.total = Cardinality(Registered),
                              !.pc = IF w.cursor = {} THEN "end" ELSE "page"]
         IN  WalkTyped(new) /\ WalkKnows(new)
<1> DEFINE new == [w EXCEPT !.total = Cardinality(Registered),
                            !.pc = IF w.cursor = {} THEN "end" ELSE "page"]
<1>1. Registered \in SUBSET Sub /\ IsFiniteSet(Registered) /\ Cardinality(Registered) \in Nat
  BY SubFinite, FS_Subset, FS_CardinalityType DEF Registered
<1>2. /\ new.kind = w.kind /\ new.reader = w.reader /\ new.filter = w.filter
      /\ new.since = w.since /\ new.cursor = w.cursor /\ new.seen = w.seen
      /\ new.returned = w.returned /\ new.total = Cardinality(Registered)
      /\ new.pc = IF w.cursor = {} THEN "end" ELSE "page"
  BY DEF WalkTyped
<1>3. WalkTyped(new)
  <2>1. Row(new) = Row(w)
    BY <1>2 DEF Row
  <2> QED BY <1>1, <2>1 DEF WalkTyped
<1> HIDE DEF new
<1>4. /\ Existing(new) = Existing(w) /\ Listed(new) = Listed(w) /\ Owed(new) = Owed(w)
      /\ Ahead(new) = Ahead(w) /\ CursorLast(new) <=> CursorLast(w)
      /\ \A x : Gone(new, x) <=> Gone(w, x)
  BY <1>2 DEF Existing, Listed, Owed, Ahead, CursorLast, Gone
<1>5. Finished(new) <=> Finished(w)
  BY <1>2 DEF Finished
<1>6. w.kind = "agents" => Cardinality(Registered) >= Cardinality(w.seen)
  BY <1>1, FS_Subset, FS_CardinalityType DEF WalkKnows, Existing
<1>7. WalkKnows(new)
  BY <1>2, <1>4, <1>5, <1>6 DEF WalkKnows
<1> QED BY <1>3, <1>7 DEF new

\* A walk that begins is owed what it lists, all of it ahead.
LEMMA StartKnown ==
  ASSUME NEW kind \in {"agents", "conversations"}, NEW reader \in Sub \cup {<<>>},
         NEW filter \in Filters \cup {"any"}, NEW limit \in Limits
  PROVE  LET new == [pc |-> "page", kind |-> kind, reader |-> reader, filter |-> filter,
                     limit |-> limit, cursor |-> {}, seen |-> {}, returned |-> 0, total |-> 0,
                     since |-> Listed([kind |-> kind, reader |-> reader, filter |-> filter])]
         IN  WalkTyped(new) /\ WalkKnows(new)
<1> DEFINE began == Listed([kind |-> kind, reader |-> reader, filter |-> filter])
           new   == [pc |-> "page", kind |-> kind, reader |-> reader, filter |-> filter,
                     limit |-> limit, cursor |-> {}, seen |-> {}, returned |-> 0, total |-> 0,
                     since |-> began]
<1>1. Listed(new) = began
  BY DEF Listed
<1> HIDE DEF began
<1>2. /\ new.kind = kind /\ new.cursor = {} /\ new.seen = {} /\ new.returned = 0
      /\ new.total = 0 /\ new.pc = "page" /\ new.since = began
  OBVIOUS
<1>3. WalkTyped(new)
  <2>1. Row(new) = IF kind = "agents" THEN Sub ELSE Conv
    BY DEF Row
  <2>2. began \in SUBSET Row(new)
    <3>1. Existing(new) \subseteq Row(new)
      BY DEF Existing, Row, Registered, Started
    <3> QED BY <1>1, <3>1, ListedExists
  <2> HIDE DEF began
  <2> QED BY <2>2 DEF WalkTyped
<1> HIDE DEF new
<1>4. Cardinality({}) = 0
  BY FS_EmptySet
<1>5. WalkKnows(new)
  BY <1>1, <1>2, <1>4, ListedExists DEF WalkKnows, CursorLast, Finished, Owed, Ahead
<1> QED BY <1>3, <1>5 DEF new, began

\* What the clients that walk know through every step.
LEMMA ClientsKept ==
  ASSUME DirectoryInv, RowsGoOn, [Next]_vars
  PROVE  ClientsKnown'
<1> DEFINE Pc == {"idle", "register", "count", "targets", "insert", "page", "total", "end"}
           Fine(w) == /\ w.pc \in Pc
                      /\ w.pc \in {"page", "total", "end"} => WalkTyped(w) /\ WalkKnows(w)
<1>1. TablesTyped /\ DOMAIN client = Client /\ \A c \in Client : Fine(client[c])
  BY DEF DirectoryInv, Inv, RequestsTyped, ClientsKnown, Walking
<1>2. ASSUME \A c \in Client : Fine(client'[c]) PROVE ClientsKnown'
  <2> SUFFICES ASSUME NEW c \in Client
               PROVE  /\ client'[c].pc \in Pc
                      /\ client'[c].pc \in {"page", "total", "end"} =>
                           WalkTyped(client[c])' /\ WalkKnows(client[c])'
    BY DEF ClientsKnown, Walking
  <2>1. ASSUME NEW w, WalkTyped(w) PROVE WalkTyped(w)'
    BY <2>1 DEF WalkTyped, Row
  <2>2. \A w : WalkTyped(w) /\ WalkKnows(w) => WalkTyped(w)' /\ WalkKnows(w)'
    BY <1>1, <2>1, WalkKept
  <2> QED BY <1>2, <2>2
<1>3. ASSUME UNCHANGED client PROVE ClientsKnown'
  BY <1>1, <1>2, <1>3
<1>4. ASSUME NEW c \in Client, NEW w, client' = [client EXCEPT ![c] = w], Fine(w)
      PROVE  ClientsKnown'
  <2>1. client'[c] = w /\ \A d \in Client : d # c => client'[d] = client[d]
    BY <1>1, <1>4
  <2> HIDE DEF Fine
  <2> QED BY <1>1, <1>2, <1>4, <2>1
<1>5. ASSUME NEW c \in Client, Done(c) PROVE ClientsKnown'
  <2>1. Fine(Idle)
    BY DEF Idle
  <2> QED BY <1>4, <1>5, <2>1 DEF Done
\* The requests of Admission.
<1>6. ASSUME NEW c \in Client, Register(c) PROVE ClientsKnown'
  <2>1. \E w : client' = [client EXCEPT ![c] = w] /\ w.pc = "register"
    <3>1. PICK k \in Caller : \E sub \in SubsOf(k), owner \in OwnerSubs(k) :
            client' = [client EXCEPT ![c] =
                         [pc |-> "register", sub |-> sub, owner |-> owner,
                          writer |-> Writer(k), status |-> agents[sub].status]]
      BY <1>6 DEF Register
    <3>2. PICK sub \in SubsOf(k), owner \in OwnerSubs(k) :
            client' = [client EXCEPT ![c] =
                         [pc |-> "register", sub |-> sub, owner |-> owner,
                          writer |-> Writer(k), status |-> agents[sub].status]]
      BY <3>1
    <3> DEFINE w == [pc |-> "register", sub |-> sub, owner |-> owner,
                     writer |-> Writer(k), status |-> agents[sub].status]
    <3>3. client' = [client EXCEPT ![c] = w] /\ w.pc = "register"
      BY <3>2
    <3> HIDE DEF w
    <3> QED BY <3>3
  <2> QED BY <1>4, <2>1
<1>7. ASSUME NEW c \in Client, StartConversation(c) PROVE ClientsKnown'
  <2>1. \E w : client' = [client EXCEPT ![c] = w] /\ w.pc = "count"
    <3>1. PICK k \in Starters : \E sub \in SubsOf(k) :
            \E to \in SUBSET (Sub \ {sub}), type \in StartedTypes :
              client' = [client EXCEPT ![c] =
                           [pc |-> "count", sub |-> sub, to |-> to, type |-> type,
                            created |-> clock]]
      BY <1>7 DEF StartConversation
    <3>2. PICK sub \in SubsOf(k) :
            \E to \in SUBSET (Sub \ {sub}), type \in StartedTypes :
              client' = [client EXCEPT ![c] =
                           [pc |-> "count", sub |-> sub, to |-> to, type |-> type,
                            created |-> clock]]
      BY <3>1
    <3>3. PICK to \in SUBSET (Sub \ {sub}), type \in StartedTypes :
            client' = [client EXCEPT ![c] =
                         [pc |-> "count", sub |-> sub, to |-> to, type |-> type,
                          created |-> clock]]
      BY <3>2
    <3> DEFINE w == [pc |-> "count", sub |-> sub, to |-> to, type |-> type,
                     created |-> clock]
    <3>4. client' = [client EXCEPT ![c] = w] /\ w.pc = "count"
      BY <3>3
    <3> HIDE DEF w
    <3> QED BY <3>4
  <2> QED BY <1>4, <2>1
<1>8. ASSUME NEW c \in Client, EnforceStartRateLimit(c) \/ ResolveTargets(c)
      PROVE  ClientsKnown'
  <2>1. client[c].pc \in {"count", "targets"}
    BY <1>8 DEF EnforceStartRateLimit, ResolveTargets, At
  <2>2. client[c] \in StartRequest
    BY <2>1 DEF DirectoryInv, Inv, RequestsTyped, RequestTyped, Starting
  <2>3. ASSUME NEW pc \in {"targets", "insert"}, Goto(c, pc) PROVE ClientsKnown'
    <3> DEFINE w == [client[c] EXCEPT !.pc = pc]
    <3>1. client' = [client EXCEPT ![c] = w] /\ w.pc = pc
      BY <2>2, <2>3 DEF Goto, StartRequest
    <3> HIDE DEF w
    <3> QED BY <1>4, <3>1
  <2> QED BY <1>5, <1>8, <2>3 DEF EnforceStartRateLimit, ResolveTargets
<1>9. \A c \in Client : CommitRegister(c) \/ InsertConversation(c) \/ Abort(c) => Done(c)
  BY DEF CommitRegister, InsertConversation, Abort
<1>10. /\ \A s \in Sub : SuspendAgent(s) => UNCHANGED client
       /\ \A id \in Conv : Close(id) => UNCHANGED client
       /\ \A id \in Conv, s \in Sub : Exit(id, s) => UNCHANGED client
       /\ Tick => UNCHANGED client
  BY DEF SuspendAgent, Close, Exit, Tick
\* The walks.
<1>11. ASSUME NEW c \in Client, NEW kind \in {"agents", "conversations"},
              NEW reader \in Sub \cup {<<>>}, NEW filter \in Filters \cup {"any"},
              StartWalk(c, kind, reader, filter)
       PROVE  ClientsKnown'
  <2>1. PICK limit \in Limits :
          client' = [client EXCEPT ![c] =
            [pc |-> "page", kind |-> kind, reader |-> reader, filter |-> filter,
             limit |-> limit, cursor |-> {}, seen |-> {}, returned |-> 0, total |-> 0,
             since |-> Listed([kind |-> kind, reader |-> reader, filter |-> filter])]]
    BY <1>11 DEF StartWalk
  <2> DEFINE w == [pc |-> "page", kind |-> kind, reader |-> reader, filter |-> filter,
                   limit |-> limit, cursor |-> {}, seen |-> {}, returned |-> 0,
                   total |-> 0, since |-> Listed([kind |-> kind, reader |-> reader,
                                                  filter |-> filter])]
  <2>2. client' = [client EXCEPT ![c] = w] /\ w.pc = "page"
    BY <2>1
  <2>3. WalkTyped(w) /\ WalkKnows(w)
    BY StartKnown
  <2> HIDE DEF w
  <2> QED BY <1>4, <2>2, <2>3
<1>12. ASSUME NEW c \in Client, ListAgents(c) PROVE ClientsKnown'
  <2>1. StartWalk(c, "agents", <<>>, "any")
    BY <1>12 DEF ListAgents
  <2> QED BY <1>11, <2>1
<1>13. ASSUME NEW c \in Client, ListConversations(c) PROVE ClientsKnown'
  <2>1. PICK k \in Caller : \E sub \in SubsOf(k) \cap Readers, filter \in Filters :
          StartWalk(c, "conversations", sub, filter)
    BY <1>13 DEF ListConversations
  <2>2. PICK sub \in SubsOf(k) \cap Readers, filter \in Filters :
          StartWalk(c, "conversations", sub, filter)
    BY <2>1
  <2>3. sub \in Sub
    BY DEF Sub
  <2> QED BY <1>11, <2>2, <2>3
<1>14. ASSUME NEW c \in Client, Page(c) PROVE ClientsKnown'
  <2> DEFINE w    == client[c]
             size == PageSize(w.limit)
             rows == FirstRows(w.kind, Ahead(w), size + 1)
             page == FirstRows(w.kind, rows, size)
             next == [w EXCEPT !.seen = @ \cup page, !.returned = @ + Cardinality(page),
                               !.cursor = IF rows = page THEN {}
                                          ELSE page \ FirstRows(w.kind, page, size - 1),
                               !.pc = IF w.kind = "agents" THEN "total"
                                      ELSE IF rows = page THEN "end" ELSE "page"]
  <2>1. client' = [client EXCEPT ![c] = next] /\ w.pc = "page"
    BY <1>14 DEF Page, At
  <2>2. WalkTyped(next) /\ WalkKnows(next)
    BY <1>1, <2>1, PageKnown
  <2> HIDE DEF next
  <2>3. next.pc \in {"page", "total", "end"}
    BY <2>2 DEF WalkTyped
  <2> QED BY <1>4, <2>1, <2>2, <2>3
<1>15. ASSUME NEW c \in Client, CountAgents(c) PROVE ClientsKnown'
  <2> DEFINE w    == client[c]
             next == [w EXCEPT !.total = Cardinality(Registered),
                               !.pc = IF w.cursor = {} THEN "end" ELSE "page"]
  <2>1. client' = [client EXCEPT ![c] = next] /\ w.pc = "total"
    BY <1>15 DEF CountAgents, At
  <2>2. WalkTyped(next) /\ WalkKnows(next)
    BY <1>1, <2>1, CountKnown
  <2> HIDE DEF next
  <2>3. next.pc \in {"page", "total", "end"}
    BY <2>2 DEF WalkTyped
  <2> QED BY <1>4, <2>1, <2>2, <2>3
<1>16. CASE UNCHANGED vars
  BY <1>3, <1>16 DEF vars
<1>17. CASE AdmissionNext
  BY <1>3, <1>5, <1>6, <1>7, <1>8, <1>9, <1>10, <1>17 DEF AdmissionNext
<1>18. CASE DirectoryNext
  BY <1>12, <1>13, <1>14, <1>15, <1>18 DEF DirectoryNext
<1> QED BY <1>16, <1>17, <1>18 DEF Next

-----------------------------------------------------------------------------
(* The theorems *)

\* The initial state satisfies the invariant.
LEMMA DirectoryInit == Init => DirectoryInv
<1> SUFFICES ASSUME Init PROVE DirectoryInv
  OBVIOUS
<1>1. Inv
  BY InvInit
<1>2. RowsWritten
  BY DEF Init, RowsWritten, Started
<1>3. clock <= MaxClock
  BY BoundsAssumption DEF Init
<1>4. ClientsKnown
  BY DEF Init, ClientsKnown, Walking, Idle
<1> QED BY <1>1, <1>2, <1>3, <1>4 DEF DirectoryInv

\* The invariant is inductive.
LEMMA DirectoryStep == ASSUME DirectoryInv, [Next]_vars PROVE DirectoryInv'
<1>1. Inv /\ RowsWritten /\ clock <= MaxClock
  BY DEF DirectoryInv
<1>2. ConversationsGoOn
  BY <1>1, ConversationsContinue
<1>3. RowsGoOn /\ RowsWritten'
  BY <1>1, <1>2, AgentsContinue DEF RowsGoOn, ConversationsGoOn, RowsWritten, Started
<1>4. (clock <= MaxClock)'
  BY <1>2, BoundsAssumption DEF ConversationsGoOn
<1> QED BY <1>1, <1>3, <1>4, ClientsKept, InvNext DEF DirectoryInv

\* It holds in every reachable state.
LEMMA DirectoryCorrect == Spec => []DirectoryInv
BY DirectoryInit, DirectoryStep, PTL DEF Spec

\* The tables and the requests are of their types, and a cursor is of one row at most.
THEOREM TypeCorrect == Spec => []TypeOK
<1>1. ASSUME DirectoryInv PROVE TypeOK
  <2>1. /\ agents \in [Sub -> AgentRow] /\ conversations \in [Conv -> ConversationRow]
        /\ \A s \in Sub : agents[s].status = "none" => agents[s] = NoAgent
        /\ \A s \in Sub : agents[s].writers = {} => agents[s] = NoAgent
    BY <1>1 DEF DirectoryInv, Inv, TablesTyped, RowsWritten
  <2>2. \A s \in Sub : /\ agents[s].status \in {"none", "active", "suspended"}
                       /\ agents[s].status = "none" <=> agents[s].writers = {}
    BY <2>1 DEF AgentRow, Status, NoAgent
  <2>3. clock \in 0 .. MaxClock
    BY <1>1, BoundsAssumption DEF DirectoryInv, Inv, TablesTyped
  <2>4. ASSUME NEW c \in Client, Walking(c)
        PROVE  /\ client[c].seen \subseteq Row(client[c])
               /\ client[c].cursor \subseteq client[c].seen
               /\ Cardinality(client[c].cursor) <= 1
    <3> DEFINE w == client[c]
    <3>1. WalkTyped(w) /\ WalkKnows(w)
      BY <1>1, <2>4 DEF DirectoryInv, ClientsKnown
    <3> HIDE DEF w
    <3>2. w.cursor = {} \/ \E y : w.cursor = {y}
      BY <3>1 DEF WalkKnows, CursorLast
    <3>3. Cardinality(w.cursor) <= 1
      <4>1. ASSUME w.cursor = {} PROVE Cardinality(w.cursor) = 0
        BY <4>1, FS_EmptySet, Zenon
      <4>2. ASSUME NEW y, w.cursor = {y} PROVE Cardinality(w.cursor) = 1
        BY <4>2, FS_Singleton, Zenon
      <4>3. Cardinality(w.cursor) = 0 \/ Cardinality(w.cursor) = 1
        BY <3>2, <4>1, <4>2
      <4> HIDE DEF w
      <4> QED BY <4>3
    <3>4. w.seen \subseteq Row(w) /\ w.cursor \subseteq w.seen
      BY <3>1 DEF WalkTyped, WalkKnows
    <3> QED BY <3>3, <3>4 DEF w
  <2>5. \A c \in Client : client[c].pc \in {"idle", "register", "count", "targets", "insert",
                                            "page", "total", "end"}
    BY <1>1 DEF DirectoryInv, ClientsKnown
  <2> QED BY <2>1, <2>2, <2>3, <2>4, <2>5 DEF TypeOK, Walking, ConversationRow
<1> QED BY <1>1, DirectoryCorrect, PTL

\* Whatever registers, starts, closes, leaves or expires between the pages, a walk has
\* every row that was listed all the time, and until its end these lie ahead.
THEOREM WalksCorrect == Spec => []WalksMissNothing
<1>1. ASSUME DirectoryInv PROVE WalksMissNothing
  BY <1>1 DEF DirectoryInv, ClientsKnown, WalkKnows, Finished, WalksMissNothing, At
<1> QED BY <1>1, DirectoryCorrect, PTL

\* The pages of a walk are disjoint.
THEOREM PagesCorrect == Spec => []RowsComeOnce
<1>1. ASSUME DirectoryInv PROVE RowsComeOnce
  BY <1>1 DEF DirectoryInv, ClientsKnown, WalkKnows, RowsComeOnce
<1> QED BY <1>1, DirectoryCorrect, PTL

\* The total covers what has been returned, though a query of its own counts it.
THEOREM TotalsCorrect == Spec => []TotalCoversPages
<1>1. ASSUME DirectoryInv PROVE TotalCoversPages
  BY <1>1 DEF DirectoryInv, ClientsKnown, WalkKnows, TotalCoversPages, At
<1> QED BY <1>1, DirectoryCorrect, PTL

\* The query and the display derive the same state of a conversation, at every time.
THEOREM FiltersCorrect == Spec => []FiltersAgreeWithDisplay
<1>1. ASSUME DirectoryInv PROVE FiltersAgreeWithDisplay
  <2> SUFFICES ASSUME NEW id \in Started, NEW f \in ConversationState
               PROVE  FilterMatches(f, id) <=> f = DisplayState(id)
    BY DEF FiltersAgreeWithDisplay
  <2> QED BY DEF FilterMatches, DisplayState, ConversationState
<1> QED BY <1>1, DirectoryCorrect, PTL
=============================================================================
