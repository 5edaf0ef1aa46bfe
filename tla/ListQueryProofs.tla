--------------------------- MODULE ListQueryProofs ----------------------------
(***************************************************************************)
(* What TLAPS proves of GET /api/docs, for any documents, query strings    *)
(* and limits: a cached list is what the database would answer to a query  *)
(* that is accepted, and a list has what the filter means and no more.     *)
(***************************************************************************)
EXTENDS ListQuery, FiniteSetTheorems, SequenceTheorems, TLAPS

-----------------------------------------------------------------------------
(***************************************************************************)
(* The cache.                                                              *)
(***************************************************************************)
\* Distinct users and queries have distinct keys.
LEMMA KeysTellApart ==
  ASSUME NEW u, NEW p, NEW v, NEW q, Key(u, p) = Key(v, q)
  PROVE  u = v /\ p = q
  BY DEF Key

LEMMA HitInit == Init => HitEqualsMiss
  BY DEF Init, HitEqualsMiss

LEMMA HitNext == HitEqualsMiss /\ [Next]_vars => HitEqualsMiss'
<1> SUFFICES ASSUME HitEqualsMiss, [Next]_vars,
                    NEW u \in User, NEW p \in Params, ~HandlerRefuses(p),
                    Key(u, p) \in DOMAIN cache'
             PROVE  ~ServiceRefuses(p) /\ cache'[Key(u, p)] \in Answers(u, p)'
  BY DEF HitEqualsMiss
<1>1. ASSUME docs' = docs, Key(u, p) \in DOMAIN cache, cache'[Key(u, p)] = cache[Key(u, p)]
      PROVE  ~ServiceRefuses(p) /\ cache'[Key(u, p)] \in Answers(u, p)'
  <2>1. Answers(u, p)' = Answers(u, p)
    BY <1>1, Zenon DEF Answers, Orders, Selected
  <2>2. ~ServiceRefuses(p) /\ cache[Key(u, p)] \in Answers(u, p)
    BY <1>1 DEF HitEqualsMiss
  <2> QED
    BY <1>1, <2>1, <2>2
<1>2. ASSUME NEW v \in User, NEW q \in Params, List(v, q)
      PROVE  ~ServiceRefuses(p) /\ cache'[Key(u, p)] \in Answers(u, p)'
  <2>1. PICK a \in Answers(v, q) :
          cache' = [k \in DOMAIN cache \cup {Key(v, q)} |->
                      IF k = Key(v, q) THEN a ELSE cache[k]]
    BY <1>2 DEF List
  <2>2. docs' = docs /\ ~ServiceRefuses(q)
    BY <1>2 DEF List
  <2>3. CASE Key(u, p) = Key(v, q)
    <3>1. u = v /\ p = q
      BY <2>3, KeysTellApart
    <3> QED
      BY <2>1, <2>2, <3>1 DEF Answers, Orders, Selected
  <2>4. CASE Key(u, p) # Key(v, q)
    BY <1>1, <2>1, <2>2, <2>4
  <2> QED
    BY <2>3, <2>4
<1>3. ASSUME NEW k \in DOMAIN cache, Drop(k)
      PROVE  ~ServiceRefuses(p) /\ cache'[Key(u, p)] \in Answers(u, p)'
  BY <1>1, <1>3 DEF Drop
<1>4. ASSUME NEW d \in Document, Change(d) PROVE FALSE
  BY <1>4 DEF Change
<1>5. CASE UNCHANGED vars
  BY <1>1, <1>5 DEF vars
<1> QED
  BY <1>2, <1>3, <1>4, <1>5 DEF Next

(***************************************************************************)
(* The cache answers only queries that the service accepts, and answers    *)
(* them as the database does (handlers/documents.go:208-229).              *)
(***************************************************************************)
THEOREM CacheAnswersAsDatabase == Spec => []HitEqualsMiss
  BY HitInit, HitNext, PTL DEF Spec

-----------------------------------------------------------------------------
(***************************************************************************)
(* The rows.                                                               *)
(***************************************************************************)
Rows == docs \subseteq Document

LEMMA RowsInvariance == Spec => []Rows
<1>1. Init => Rows
  BY DEF Init, Rows
<1>2. Rows /\ [Next]_vars => Rows'
  BY DEF Rows, Next, List, Drop, Change, vars
<1> QED
  BY <1>1, <1>2, PTL DEF Spec

Wanted(u, p) == {d \in docs : d.owner = Owner(u, p) /\ Readable(u, d) /\ Means(p, d)}

LEMMA BoolTexts ==
  ASSUME NEW b \in BOOLEAN, NEW x, NEW S
  PROVE  BoolText(b) = (IF x \in S THEN "true" ELSE "false") <=> b = (x \in S)
<1>1. BoolText(TRUE) = "true" /\ BoolText(FALSE) = "false" /\ "true" # "false"
  BY DEF BoolText
<1>2. CASE x \in S
  BY <1>1, <1>2, Zenon
<1>3. CASE x \notin S
  <2>1. (x \in S) = FALSE
    BY <1>3
  <2>2. CASE b = TRUE
    BY <1>1, <1>3, <2>1, <2>2, Zenon
  <2>3. CASE b = FALSE
    BY <1>1, <1>3, <2>1, <2>3, Zenon
  <2> QED
    BY <2>2, <2>3, Zenon
<1> QED
  BY <1>2, <1>3

\* The texts that the statement compares say what the filter means.
LEMMA FilterMeans ==
  ASSUME Rows, NEW u \in User, NEW p \in Params, Accepted(p)
  PROVE  Selected(u, p) = Wanted(u, p)
<1> SUFFICES ASSUME NEW d \in docs
             PROVE  (Value(p, "key") = "" \/ Column(d, Value(p, "key")) = FilterValue(p))
                      <=> Means(p, d)
  BY DEF Selected, Wanted
<1>1. d.file \in BOOLEAN /\ d.public \in BOOLEAN
  <2>1. d \in Document
    BY DEF Rows
  <2> QED
    BY <2>1, FlagAssumption
<1>2. CASE ~Has(p, "key")
  BY <1>2 DEF Value, Means
<1>3. CASE Has(p, "key")
  <2>1. /\ Value(p, "key") = p.key /\ Value(p, "value") = p.value /\ p.key # ""
        /\ p.key \in {"id", "name", "mime", "file", "public"}
    BY <1>3 DEF Accepted, HandlerRefuses, ServiceRefuses, Value, Has
  <2>2. CASE p.key = "id"
    BY <1>3, <2>1, <2>2 DEF Column, FilterValue, Means
  <2>3. CASE p.key = "name"
    BY <1>3, <2>1, <2>3 DEF Column, FilterValue, Means
  <2>4. CASE p.key = "mime"
    BY <1>3, <2>1, <2>4 DEF Column, FilterValue, Means
  <2>5. CASE p.key = "file"
    <3>1. /\ Column(d, p.key) = BoolText(d.file)
          /\ FilterValue(p) = (IF p.value \in TrueTexts THEN "true" ELSE "false")
      BY <2>1, <2>5 DEF Column, FilterValue, BoolText
    <3>2. Means(p, d) <=> d.file = (p.value \in TrueTexts)
      BY <1>3, <2>5 DEF Means
    <3>3. BoolText(d.file) = (IF p.value \in TrueTexts THEN "true" ELSE "false")
            <=> d.file = (p.value \in TrueTexts)
      <4>1. d.file \in BOOLEAN
        BY <1>1
      <4> QED
        BY <4>1, BoolTexts, Zenon
    <3> QED
      BY <2>1, <3>1, <3>2, <3>3, Zenon
  <2>6. CASE p.key = "public"
    <3>1. /\ Column(d, p.key) = BoolText(d.public)
          /\ FilterValue(p) = (IF p.value \in TrueTexts THEN "true" ELSE "false")
      BY <2>1, <2>6 DEF Column, FilterValue, BoolText
    <3>2. Means(p, d) <=> d.public = (p.value \in TrueTexts)
      BY <1>3, <2>6 DEF Means
    <3>3. BoolText(d.public) = (IF p.value \in TrueTexts THEN "true" ELSE "false")
            <=> d.public = (p.value \in TrueTexts)
      <4>1. d.public \in BOOLEAN
        BY <1>1
      <4> QED
        BY <4>1, BoolTexts, Zenon
    <3> QED
      BY <2>1, <3>1, <3>2, <3>3, Zenon
  <2> QED
    BY <2>1, <2>2, <2>3, <2>4, <2>5, <2>6
<1> QED
  BY <1>2, <1>3

\* An order of a finite set lists each of its elements.
LEMMA OrdersListAll ==
  ASSUME NEW S, IsFiniteSet(S), NEW s \in Orders(S), NEW d \in S
  PROVE  \E j \in 1..Cardinality(S) : s[j] = d
<1> DEFINE n == Cardinality(S)
<1>1. n \in Nat
  BY FS_CardinalityType
<1>2. s \in [1..n -> S]
  BY DEF Orders
<1>3. \A i, j \in 1..n : s[i] = s[j] => i = j
  <2>1. \A i, j \in 1..n : i < j => s[i] # s[j]
    BY DEF Orders
  <2> QED
    BY <1>1, <2>1
<1>4. s \in Injection(1..n, S)
  BY <1>2, <1>3 DEF Injection, IsInjective
<1>5. Cardinality(1..n) = n
  BY <1>1, FS_Interval
<1>6. s \in Surjection(1..n, S)
  <2> HIDE DEF n
  <2> QED
    BY <1>4, <1>5, FS_Injection DEF n
<1> QED
  BY <1>6 DEF Surjection

LEMMA LimitIsNatural == ASSUME NEW p, Accepted(p) PROVE Limit(p) \in Nat
<1>1. Limit(p) \in 1..MaxLimit
  BY DEF Accepted, ServiceRefuses
<1> QED
  BY <1>1, LimitAssumption

\* What an answer is: the beginning of an order, as long as the limit lets it.
LEMMA AnswerOfOrder ==
  ASSUME NEW u \in User, NEW p \in Params, Accepted(p), IsFiniteSet(Selected(u, p)),
         NEW a \in Answers(u, p)
  PROVE  \E s \in Orders(Selected(u, p)) :
           LET n == Cardinality(Selected(u, p)) IN
           /\ Len(a) = (IF n < Limit(p) THEN n ELSE Limit(p))
           /\ \A i \in 1..Len(a) : a[i] = s[i]
<1> DEFINE S == Selected(u, p)
           n == Cardinality(S)
<1>1. PICK s \in Orders(S) : a = SubSeq(s, 1, IF Len(s) < Limit(p) THEN Len(s) ELSE Limit(p))
  BY DEF Answers
<1>2. n \in Nat /\ Limit(p) \in Nat
  BY FS_CardinalityType, LimitIsNatural
<1>3. s \in [1..n -> S]
  BY DEF Orders
<1>4. Len(s) = n
  BY <1>2, <1>3
<1> DEFINE m == IF n < Limit(p) THEN n ELSE Limit(p)
<1>5. m \in Nat /\ m <= n
  BY <1>2
<1>6. \A i \in 1..m : s[i] \in S
  <2> HIDE DEF m, n, S
  <2> QED
    BY <1>2, <1>3, <1>5
<1>7. a = SubSeq(s, 1, m)
  BY <1>1, <1>4
<1>8. Len(a) = m /\ \A i \in 1..m : a[i] = s[i]
  <2> HIDE DEF m, S
  <2>1. 1 \in Int /\ m \in Int
    BY <1>5
  <2>2. /\ Len(SubSeq(s, 1, m)) = IF 1 <= m THEN m - 1 + 1 ELSE 0
        /\ \A i \in 1..m - 1 + 1 : SubSeq(s, 1, m)[i] = s[1 + i - 1]
    BY <1>6, <2>1, SubSeqProperties
  <2> QED
    BY <1>5, <1>7, <2>2
<1> QED
  BY <1>8

LEMMA CompleteLists == Rows => ListIsComplete
<1> SUFFICES ASSUME Rows, NEW u \in User, NEW p \in Params, Accepted(p),
                    NEW a \in Answers(u, p)
             PROVE  LET Shown == {a[i] : i \in 1..Len(a)}
                    IN  /\ Shown \subseteq Wanted(u, p) /\ Len(a) <= Limit(p)
                        /\ \A i, j \in 1..Len(a) : i < j =>
                             /\ a[i] # a[j] /\ Rank[a[i].name] <= Rank[a[j].name]
                             /\ a[i].name = a[j].name => a[i].created <= a[j].created
                        /\ \A d \in Wanted(u, p) \ Shown :
                             Len(a) = Limit(p) /\ \A e \in Shown : NotAfter(e, d)
  BY DEF ListIsComplete, Wanted
<1> DEFINE S == Selected(u, p)
           n == Cardinality(S)
           Shown == {a[i] : i \in 1..Len(a)}
<1>1. S = Wanted(u, p) /\ IsFiniteSet(S)
  <2>1. S \subseteq Document
    BY DEF Selected, Rows
  <2>2. S = Wanted(u, p)
    BY FilterMeans
  <2>3. IsFiniteSet(S)
    <3> HIDE DEF S
    <3> QED
      BY <2>1, FS_Subset, FiniteAssumption
  <2> QED
    BY <2>2, <2>3
<1>2. n \in Nat /\ Limit(p) \in Nat
  BY <1>1, FS_CardinalityType, LimitIsNatural
<1>3. PICK s \in Orders(S) : /\ Len(a) = (IF n < Limit(p) THEN n ELSE Limit(p))
                             /\ \A i \in 1..Len(a) : a[i] = s[i]
  BY <1>1, AnswerOfOrder
<1>4. s \in [1..n -> S] /\ \A i, j \in 1..n : i < j => s[i] # s[j] /\ NotAfter(s[i], s[j])
  BY DEF Orders
<1>5. Shown \subseteq S /\ Len(a) <= Limit(p)
  BY <1>2, <1>3, <1>4
<1>6. ASSUME NEW d \in S \ Shown
      PROVE  Len(a) = Limit(p) /\ \A e \in Shown : NotAfter(e, d)
  <2>1. PICK j \in 1..n : s[j] = d
    BY <1>1, OrdersListAll
  <2>2. j > Len(a)
    BY <1>2, <1>3, <1>6, <2>1
  <2> QED
    BY <1>2, <1>3, <1>4, <2>1, <2>2
<1>7. ASSUME NEW i \in 1..Len(a), NEW j \in 1..Len(a), i < j
      PROVE  /\ a[i] # a[j] /\ Rank[a[i].name] <= Rank[a[j].name]
             /\ a[i].name = a[j].name => a[i].created <= a[j].created
  <2>1. a[i] # a[j] /\ NotAfter(a[i], a[j])
    BY <1>2, <1>3, <1>4, <1>7
  <2>2. a[i] \in Document /\ a[j] \in Document
    BY <1>5, <1>7 DEF Selected, Rows
  <2> QED
    BY <2>1, <2>2, RankAssumption DEF NotAfter
<1> QED
  BY <1>1, <1>5, <1>6, <1>7

(***************************************************************************)
(* A list has the documents that the filter means, each once, by name and  *)
(* time, up to the limit and no others (sqlc/documents.sql.go:154-194).    *)
(***************************************************************************)
THEOREM ListsAreComplete == Spec => []ListIsComplete
  BY RowsInvariance, CompleteLists, PTL

-----------------------------------------------------------------------------
(***************************************************************************)
(* The order.  A row has as many rows up to it as its place says, whatever *)
(* order one looks at; so there is one order, and there is one because the *)
(* numbers of rows up to each give every row a place of its own.           *)
(***************************************************************************)
LEMMA TotalOrder ==
  ASSUME NEW d \in Document, NEW e \in Document
  PROVE  /\ NotAfter(d, e) \/ NotAfter(e, d)
         /\ NotAfter(d, e) /\ NotAfter(e, d) => d = e
         /\ \A c \in Document : NotAfter(c, d) /\ NotAfter(d, e) => NotAfter(c, e)
         /\ NotAfter(d, d)
<1>1. \A c \in Document : Rank[c.name] \in Int /\ Rank[c.id] \in Int /\ c.created \in Int
  BY RankAssumption
<1>2. NotAfter(d, e) /\ NotAfter(e, d) => d = e
  <2>1. NotAfter(d, e) /\ NotAfter(e, d) => Rank[d.id] = Rank[e.id]
    BY <1>1 DEF NotAfter
  <2> QED
    BY <2>1, IdAssumption
<1>3. NotAfter(d, d) /\ (NotAfter(d, e) \/ NotAfter(e, d))
  BY <1>1 DEF NotAfter
<1>4. ASSUME NEW c \in Document, NotAfter(c, d), NotAfter(d, e) PROVE NotAfter(c, e)
  BY <1>1, <1>4 DEF NotAfter
<1> QED
  BY <1>2, <1>3, <1>4

UpTo(S, d) == {e \in S : NotAfter(e, d)}

\* Later rows have more rows up to them.
LEMMA PlacesGrow ==
  ASSUME NEW S, S \subseteq Document, IsFiniteSet(S), NEW d \in S
  PROVE  /\ Cardinality(UpTo(S, d)) \in 1..Cardinality(S)
         /\ \A e \in S : d # e /\ NotAfter(d, e) =>
              Cardinality(UpTo(S, d)) < Cardinality(UpTo(S, e))
<1>1. \A e \in S : /\ IsFiniteSet(UpTo(S, e)) /\ Cardinality(UpTo(S, e)) \in Nat
                  /\ Cardinality(UpTo(S, e)) <= Cardinality(S)
  <2> TAKE e \in S
  <2>1. UpTo(S, e) \in SUBSET S
    BY DEF UpTo
  <2>2. IsFiniteSet(UpTo(S, e)) /\ Cardinality(UpTo(S, e)) <= Cardinality(S)
    BY <2>1, FS_Subset
  <2> QED
    BY <2>2, FS_CardinalityType
<1>2. d \in UpTo(S, d)
  BY TotalOrder DEF UpTo
<1>3. Cardinality(UpTo(S, d)) # 0
  BY <1>1, <1>2, FS_EmptySet
<1>4. Cardinality(S) \in Nat
  BY FS_CardinalityType
<1>5. ASSUME NEW e \in S, d # e, NotAfter(d, e)
      PROVE  Cardinality(UpTo(S, d)) < Cardinality(UpTo(S, e))
  <2>1. UpTo(S, d) \in SUBSET UpTo(S, e)
    BY <1>5, TotalOrder DEF UpTo
  <2>2. e \in UpTo(S, e) /\ e \notin UpTo(S, d)
    BY <1>5, TotalOrder DEF UpTo
  <2>3. /\ Cardinality(UpTo(S, d)) <= Cardinality(UpTo(S, e))
        /\ Cardinality(UpTo(S, e)) = Cardinality(UpTo(S, d)) => UpTo(S, e) = UpTo(S, d)
    BY <1>1, <2>1, FS_Subset
  <2> QED
    BY <1>1, <2>2, <2>3
<1> QED
  BY <1>1, <1>3, <1>4, <1>5

LEMMA OrderExists ==
  ASSUME NEW S, S \subseteq Document, IsFiniteSet(S)
  PROVE  Orders(S) # {}
<1> DEFINE n == Cardinality(S)
           place == [d \in S |-> Cardinality(UpTo(S, d))]
           s == [i \in 1..n |-> CHOOSE d \in S : place[d] = i]
<1>1. n \in Nat
  BY FS_CardinalityType
<1>2. \A d, e \in S : d # e /\ NotAfter(d, e) => place[d] < place[e]
  BY PlacesGrow
<1>3. place \in [S -> 1..n]
  BY PlacesGrow
<1>4. \A d, e \in S : place[d] = place[e] => d = e
  <2> HIDE DEF place, n
  <2> SUFFICES ASSUME NEW d \in S, NEW e \in S, place[d] = place[e], d # e PROVE FALSE
    OBVIOUS
  <2>1. NotAfter(d, e) \/ NotAfter(e, d)
    BY TotalOrder
  <2>2. place[d] \in Int /\ place[e] \in Int
    BY <1>1, <1>3
  <2> QED
    BY <1>2, <2>1, <2>2
<1>5. \A i \in 1..n : \E d \in S : place[d] = i
  <2>1. place \in Injection(S, 1..n)
    BY <1>3, <1>4 DEF Injection, IsInjective
  <2>2. IsFiniteSet(1..n) /\ Cardinality(1..n) = n
    BY <1>1, FS_Interval
  <2>3. place \in Surjection(S, 1..n)
    <3> HIDE DEF place
    <3> QED
      BY <2>1, <2>2, FS_Injection
  <2> QED
    BY <2>3 DEF Surjection
<1>6. \A i \in 1..n : s[i] \in S /\ place[s[i]] = i
  <2> HIDE DEF place, n
  <2> QED
    BY <1>5
<1>7. ASSUME NEW i \in 1..n, NEW j \in 1..n, i < j
      PROVE  s[i] # s[j] /\ NotAfter(s[i], s[j])
  <2> HIDE DEF s, place
  <2>1. s[i] \in S /\ s[j] \in S /\ place[s[i]] = i /\ place[s[j]] = j
    BY <1>6
  <2>2. s[i] # s[j]
    BY <1>1, <1>7, <2>1
  <2>3. ~NotAfter(s[j], s[i])
    <3>1. SUFFICES ASSUME NotAfter(s[j], s[i]) PROVE FALSE
      OBVIOUS
    <3>2. place[s[j]] < place[s[i]]
      BY <1>2, <2>1, <2>2, <3>1
    <3> QED
      BY <1>1, <1>7, <2>1, <3>2
  <2> QED
    BY <2>1, <2>2, <2>3, TotalOrder
<1>8. s \in [1..n -> S]
  <2> HIDE DEF place, n
  <2> QED
    BY <1>5
<1> HIDE DEF s, place
<1> QED
  BY <1>7, <1>8 DEF Orders

\* The place of a row in an order is the number of rows up to it.
LEMMA PlaceInOrder ==
  ASSUME NEW S, S \subseteq Document, IsFiniteSet(S), NEW s \in Orders(S),
         NEW i \in 1..Cardinality(S)
  PROVE  Cardinality(UpTo(S, s[i])) = i
<1> DEFINE n == Cardinality(S)
           f == [j \in 1..i |-> s[j]]
<1>1. n \in Nat
  BY FS_CardinalityType
<1>2. /\ s \in [1..n -> S]
      /\ \A j, k \in 1..n : j < k => s[j] # s[k] /\ NotAfter(s[j], s[k])
  BY DEF Orders
<1> HIDE DEF n
<1>3. i \in Nat /\ i \in 1..n /\ \A j \in 1..i : j \in 1..n
  BY <1>1 DEF n
<1>4. \A j \in 1..i : s[j] \in UpTo(S, s[i])
  <2> TAKE j \in 1..i
  <2>1. s[j] \in S /\ s[j] \in Document
    BY <1>2, <1>3
  <2>2. CASE j = i
    BY <2>1, <2>2, TotalOrder DEF UpTo
  <2>3. CASE j < i
    BY <1>2, <1>3, <2>1, <2>3 DEF UpTo
  <2> QED
    BY <1>3, <2>2, <2>3
<1>5. ASSUME NEW d \in UpTo(S, s[i]) PROVE \E j \in 1..i : s[j] = d
  <2>1. PICK j \in 1..n : s[j] = d
    BY OrdersListAll DEF UpTo, n
  <2>2. d \in Document /\ s[i] \in Document /\ NotAfter(d, s[i])
    BY <1>2, <1>3 DEF UpTo
  <2>3. ~(i < j)
    BY <1>2, <1>3, <2>1, <2>2, TotalOrder
  <2> QED
    BY <1>1, <1>3, <2>1, <2>3
<1>6. f \in Bijection(1..i, UpTo(S, s[i]))
  <2>1. f \in [1..i -> UpTo(S, s[i])]
    BY <1>4
  <2>2. \A j, k \in 1..i : s[j] = s[k] => j = k
    BY <1>1, <1>2, <1>3
  <2>3. f \in Injection(1..i, UpTo(S, s[i]))
    BY <2>1, <2>2 DEF Injection, IsInjective
  <2>4. f \in Surjection(1..i, UpTo(S, s[i]))
    BY <1>5, <2>1 DEF Surjection
  <2> QED
    BY <2>3, <2>4 DEF Bijection
<1>7. IsFiniteSet(1..i) /\ Cardinality(1..i) = i
  BY <1>3, FS_Interval
<1>8. Cardinality(UpTo(S, s[i])) = Cardinality(1..i)
  <2>1. ExistsBijection(1..i, UpTo(S, s[i]))
    BY <1>6 DEF ExistsBijection
  <2> HIDE DEF f
  <2> QED
    BY <1>7, <2>1, FS_Bijection
<1> QED
  BY <1>7, <1>8

LEMMA OneOrder ==
  ASSUME NEW S, S \subseteq Document, IsFiniteSet(S), NEW s \in Orders(S), NEW t \in Orders(S)
  PROVE  s = t
<1>1. s \in [1..Cardinality(S) -> S] /\ t \in [1..Cardinality(S) -> S]
  BY DEF Orders
<1>2. ASSUME NEW i \in 1..Cardinality(S) PROVE s[i] = t[i]
  <2>1. s[i] \in S
    BY <1>1
  <2>2. PICK j \in 1..Cardinality(S) : t[j] = s[i]
    BY <2>1, OrdersListAll
  <2>3. Cardinality(UpTo(S, s[i])) = i
    BY PlaceInOrder
  <2>4. Cardinality(UpTo(S, t[j])) = j
    BY PlaceInOrder
  <2> QED
    BY <2>2, <2>3, <2>4
<1>3. \A I : s \in [I -> S] /\ t \in [I -> S] /\ (\A i \in I : s[i] = t[i]) => s = t
  OBVIOUS
<1> QED
  BY <1>1, <1>2, <1>3

(***************************************************************************)
(* A query has one answer: which rows a limit cuts off does not depend on  *)
(* the plan of the database (sqlc/documents.sql.go:192-193).               *)
(***************************************************************************)
THEOREM OneAnswer == Spec => []AnswerIsDetermined
<1>1. Rows => AnswerIsDetermined
  <2> SUFFICES ASSUME Rows, NEW u \in User, NEW p \in Params
               PROVE  Cardinality(Answers(u, p)) = 1
    BY DEF AnswerIsDetermined
  <2> DEFINE S == Selected(u, p)
             Cut(s) == SubSeq(s, 1, IF Len(s) < Limit(p) THEN Len(s) ELSE Limit(p))
  <2>1. S \subseteq Document
    BY DEF Rows, Selected
  <2>2. IsFiniteSet(S)
    <3> HIDE DEF S
    <3> QED
      BY <2>1, FS_Subset, FiniteAssumption
  <2>3. PICK s : s \in Orders(S)
    BY <2>1, <2>2, OrderExists
  <2>4. \A t \in Orders(S) : t = s
    BY <2>1, <2>2, <2>3, OneOrder
  <2>5. Answers(u, p) = {Cut(s)}
    BY <2>3, <2>4 DEF Answers
  <2> QED
    BY <2>5, FS_Singleton
<1> QED
  BY <1>1, RowsInvariance, PTL
=============================================================================
