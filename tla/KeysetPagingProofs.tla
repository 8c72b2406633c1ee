------------------------ MODULE KeysetPagingProofs ------------------------
(***************************************************************************)
(* Proofs about KeysetPaging, for tables, keys, pages and limits of any    *)
(* size.                                                                   *)
(*                                                                         *)
(* The predicate of the next page is recursive over the keys; AfterIsBefore*)
(* shows that it is the lexicographic order of ORDER BY, nulls and both    *)
(* directions included, and PlanOrder that this order is total.  A page    *)
(* then splits what was behind the cursor (PageSplits), and while the plan *)
(* holds no two rows share a cursor (TuplesAreUnique).  The invariant says *)
(* that the pages so far and the rest meet at the cursor (Split), as long  *)
(* as the token could be redeemed (Redeemable).                            *)
(***************************************************************************)
EXTENDS KeysetPaging, FiniteSetTheorems, SequenceTheorems, WellFoundedInduction, TLAPS

-----------------------------------------------------------------------------
(* The order of a plan.                                                    *)

\* Rows are compared by their sort values, key by key.
Tuple(specs) == [DOMAIN specs -> Value]
Less(s, v, w) == Rank(s, v) < Rank(s, w) \/ Compare(s, v, w)

-----------------------------------------------------------------------------
(* The invariant.                                                          *)

\* What TypeOK leaves open.
Typed ==
  /\ shown \in Seq(Row \X Content)
  /\ \A t \in token : t.last \in Tuple(plan) /\ t.cum \in Nat

\* What there is at each step of the reading.
Steps ==
  /\ pc \in {"start", "planning"} => plan = <<>>
  /\ pc \in {"start", "planning", "prepared"} => shown = <<>> /\ token = {} /\ stable = {}
  /\ pc = "prepared" => (plan # <<>> <=> RequiresPagination)
  /\ pc \in {"token", "rechecking", "rechecked"} => token # {}
  /\ pc # "over" => reply = "none"
  /\ pc = "over" => token = {}

\* The plan was verified against the constraints its generation stands for.
Verified ==
  plan # <<>> =>
    /\ plan = req.keys /\ RequiresPagination
    /\ Verifies([notnull |-> gen[1], unique |-> gen[2]], req.shape, req.keys)

\* The table respects its catalog, which changes once: until it does, the plan
\* holds and the columns that were read are those there are.
Catalog ==
  /\ Respects(table, meta)
  /\ ~altered /\ pc \notin {"start", "planning"} => PlanHolds
  /\ ~altered /\ pc = "planning" => columns = meta.notnull
  /\ pc = "rechecking" => columns = meta.notnull \/ columns = gen[1]

\* The pages split the rows nobody touches at the cursor.  After a change of the
\* constraints they may not, and then the token is not redeemed.
Split ==
  \A t \in token, r \in stable :
    r \in ShownRows <=> ~Before(plan, t.last, Values(plan, table[r]))
Redeemable ==
  CASE pc = "token" -> PlanHolds
    [] pc = "rechecking" -> Generation(Loaded(columns, meta)) = gen
    [] OTHER -> TRUE
SplitAtCursor == Redeemable => Split

\* What was shown is not behind the cursor, and is there still where nobody
\* touched it.
Cursor ==
  \A i \in DOMAIN shown :
    /\ \A t \in token : ~Before(plan, t.last, Values(plan, shown[i][2]))
    /\ shown[i][1] \in stable => shown[i][2] = table[shown[i][1]]

\* The parts of StableRowsOnce that hold without the catalog.
ShownOnce ==
  \A i, j \in DOMAIN shown :
    i # j /\ shown[i][1] = shown[j][1] => shown[i][1] \notin stable
AllShown ==
  reply = "complete" /\ (Len(shown) < MaxRows \/ plan = <<>>) => stable \subseteq ShownRows

IInv ==
  /\ TypeOK /\ Typed /\ Steps /\ Verified /\ Catalog
  /\ SplitAtCursor /\ Cursor /\ ShownOnce /\ AllShown
  /\ PagesInOrder /\ TokensAreGood

-----------------------------------------------------------------------------
(* Tuples are ordered totally.                                             *)

\* One key orders the values totally, null among them.
LEMMA KeyOrder ==
  ASSUME NEW s \in Key, NEW u \in Value, NEW v \in Value, NEW w \in Value
  PROVE  /\ ~Less(s, u, u)
         /\ u = v \/ Less(s, u, v) \/ Less(s, v, u)
         /\ ~(Less(s, u, v) /\ Less(s, v, u))
         /\ Less(s, u, v) /\ Less(s, v, w) => Less(s, u, w)
BY TableTyped DEF Less, Rank, Compare, Value, Key

LEMMA BeforeIsLess ==
  ASSUME NEW specs \in Seq(Key), NEW x \in Tuple(specs), NEW y \in Tuple(specs)
  PROVE  Before(specs, x, y) <=>
           \E i \in DOMAIN specs : /\ \A j \in 1..i - 1 : x[j] = y[j]
                                   /\ Less(specs[i], x[i], y[i])
BY DEF Before, Less, Compare

\* A set of positions has a first and a last one.
LEMMA FirstAndLast ==
  ASSUME NEW n \in Nat, NEW S \in SUBSET (1..n), S # {}
  PROVE  /\ \E m \in S : \A i \in S : m <= i
         /\ \E m \in S : \A i \in S : i <= m
<1>1. IsWellFoundedOn(OpToRel(<, Nat), Nat)
  BY NatLessThanWellFounded
<1>2. ASSUME NEW T \in SUBSET Nat, T # {}
      PROVE  \E m \in T : \A i \in T : m <= i
  <2>1. PICK m \in T : \A i \in T : ~ (<<i, m>> \in OpToRel(<, Nat))
    BY <1>1, <1>2, WFMin
  <2>2. ASSUME NEW i \in T PROVE m <= i
    <3>1. ~ (<<i, m>> \in OpToRel(<, Nat))
      BY <2>1
    <3>2. i \in Nat /\ m \in Nat
      BY <1>2
    <3>3. ~ (i < m)
      BY <3>1, <3>2 DEF OpToRel
    <3> QED BY <3>2, <3>3
  <2> QED BY <2>2
<1>3. \E m \in S : \A i \in S : m <= i
  BY <1>2
<1>4. \E m \in S : \A i \in S : i <= m
  <2> DEFINE T == {n - i : i \in S}
  <2>1. T \in SUBSET Nat /\ T # {}
    <3>1. \A i \in S : i \in 1..n /\ n - i \in Nat
      OBVIOUS
    <3> QED BY <3>1
  <2>2. PICK k \in T : \A i \in T : k <= i
    <3> HIDE DEF T
    <3> QED BY <1>2, <2>1
  <2>3. PICK m \in S : k = n - m
    OBVIOUS
  <2>4. ASSUME NEW i \in S PROVE i <= m
    <3>1. n - i \in T
      OBVIOUS
    <3>2. n - m <= n - i
      BY <2>2, <2>3, <3>1
    <3> QED BY <3>2
  <2> QED BY <2>4
<1> QED BY <1>3, <1>4

\* ORDER BY as buildOrderByClause writes it orders the tuples of sort values totally,
\* whatever the directions and the places of the nulls.
THEOREM PlanOrder ==
  ASSUME NEW specs \in Seq(Key),
         NEW x \in Tuple(specs), NEW y \in Tuple(specs), NEW z \in Tuple(specs)
  PROVE  /\ ~Before(specs, x, x)
         /\ x = y \/ Before(specs, x, y) \/ Before(specs, y, x)
         /\ ~(Before(specs, x, y) /\ Before(specs, y, x))
         /\ Before(specs, x, y) /\ Before(specs, y, z) => Before(specs, x, z)
<1>1. DOMAIN specs = 1..Len(specs) /\ Len(specs) \in Nat
      /\ \A i \in DOMAIN specs : specs[i] \in Key
  OBVIOUS
<1>2. \A t \in Tuple(specs) : \A i \in DOMAIN specs : t[i] \in Value
  BY DEF Tuple
<1>3. ~Before(specs, x, x)
  BY <1>1, <1>2, KeyOrder, BeforeIsLess
<1>4. x = y \/ Before(specs, x, y) \/ Before(specs, y, x)
  <2> SUFFICES ASSUME x # y PROVE Before(specs, x, y) \/ Before(specs, y, x)
    OBVIOUS
  <2> DEFINE D == {i \in DOMAIN specs : x[i] # y[i]}
  <2>1. D # {}
    BY <1>1 DEF Tuple
  <2>2. PICK m \in D : \A i \in D : m <= i
    <3>1. D \in SUBSET (1..Len(specs))
      BY <1>1
    <3> HIDE DEF D
    <3> QED BY <1>1, <2>1, <3>1, FirstAndLast
  <2>3. m \in DOMAIN specs /\ x[m] # y[m] /\ \A j \in 1..m - 1 : x[j] = y[j]
    BY <1>1, <2>2
  <2>4. Less(specs[m], x[m], y[m]) \/ Less(specs[m], y[m], x[m])
    BY <1>1, <1>2, <2>3, KeyOrder
  <2> QED BY <2>3, <2>4, BeforeIsLess
<1>5. ASSUME NEW u \in Tuple(specs), NEW v \in Tuple(specs), NEW w \in Tuple(specs),
             Before(specs, u, v), Before(specs, v, w)
      PROVE  Before(specs, u, w)
  <2>1. PICK i \in DOMAIN specs : (\A j \in 1..i - 1 : u[j] = v[j]) /\ Less(specs[i], u[i], v[i])
    BY <1>5, BeforeIsLess
  <2>2. PICK k \in DOMAIN specs : (\A j \in 1..k - 1 : v[j] = w[j]) /\ Less(specs[k], v[k], w[k])
    BY <1>5, BeforeIsLess
  <2>3. CASE i < k
    <3>1. v[i] = w[i] /\ \A j \in 1..i - 1 : u[j] = w[j]
      BY <1>1, <2>1, <2>2, <2>3
    <3> QED BY <2>1, <3>1, BeforeIsLess
  <2>4. CASE k < i
    <3>1. u[k] = v[k] /\ \A j \in 1..k - 1 : u[j] = w[j]
      BY <1>1, <2>1, <2>2, <2>4
    <3> QED BY <2>2, <3>1, BeforeIsLess
  <2>5. CASE i = k
    <3>1. Less(specs[i], u[i], w[i]) /\ \A j \in 1..i - 1 : u[j] = w[j]
      BY <1>1, <1>2, <2>1, <2>2, <2>5, KeyOrder
    <3> QED BY <3>1, BeforeIsLess
  <2> QED BY <1>1, <2>3, <2>4, <2>5
<1> QED BY <1>3, <1>4, <1>5

\* The predicate buildAfter writes selects what comes after in the order of the
\* plan, nulls and both directions included.
THEOREM AfterIsBefore ==
  ASSUME NEW specs \in Seq(Key), NEW last \in Tuple(specs), NEW x \in Tuple(specs)
  PROVE  After(specs, last, x) <=> Before(specs, last, x)
<1> DEFINE n == Len(specs)
           hit(i) == Less(specs[i], last[i], x[i])
           step(f, i) == IF i > Len(specs) THEN FALSE
                         ELSE LET s == specs[i]
                                  same == Rank(s, x[i]) = Rank(s, last[i])
                                  null == Rank(s, x[i]) = Rank(s, Null)
                              IN \/ Rank(s, x[i]) > Rank(s, last[i])
                                 \/ same /\ ~null /\ Compare(s, last[i], x[i])
                                 \/ /\ same
                                    /\ null \/ (x[i] # Null /\ x[i] = last[i])
                                    /\ f[i + 1]
           a == CHOOSE f : f = [i \in 1..Len(specs) + 1 |-> step(f, i)]
           g == [i \in 1..n + 1 |-> \E k \in i..n : /\ \A j \in i..k - 1 : last[j] = x[j]
                                                    /\ hit(k)]
<1>1. After(specs, last, x) = a[1]
  BY DEF After
<1>2. n \in Nat /\ DOMAIN specs = 1..n
  OBVIOUS
<1>3. ASSUME NEW f, NEW i \in 1..n
      PROVE  step(f, i) <=> hit(i) \/ (last[i] = x[i] /\ f[i + 1])
  <2>1. specs[i] \in Key /\ x[i] \in Value /\ last[i] \in Value
    BY <1>2 DEF Tuple
  <2>2. i <= Len(specs)
    OBVIOUS
  <2> QED BY <2>1, <2>2, TableTyped DEF Less, Rank, Compare, Value, Key
<1>4. a = [i \in 1..Len(specs) + 1 |-> step(a, i)]
  <2>1. g = [i \in 1..Len(specs) + 1 |-> step(g, i)]
    <3>1. ASSUME NEW i \in 1..n + 1 PROVE g[i] <=> step(g, i)
      <4>1. CASE i > n
        BY <1>2, <4>1
      <4>2. CASE i <= n
        <5>1. i \in 1..n /\ i + 1 \in 1..n + 1
          BY <1>2, <4>2
        <5>2. g[i] <=> \E k \in i..n : (\A j \in i..k - 1 : last[j] = x[j]) /\ hit(k)
          OBVIOUS
        <5>3. g[i + 1] <=> \E k \in i + 1..n : (\A j \in i + 1..k - 1 : last[j] = x[j]) /\ hit(k)
          BY <5>1
        <5>4. step(g, i) <=> hit(i) \/ (last[i] = x[i] /\ g[i + 1])
          <6> HIDE DEF step, g, hit
          <6> QED BY <1>3, <5>1
        <5> HIDE DEF step, g, hit
        <5>5. ASSUME g[i] PROVE hit(i) \/ (last[i] = x[i] /\ g[i + 1])
          <6>1. PICK k \in i..n : (\A j \in i..k - 1 : last[j] = x[j]) /\ hit(k)
            BY <5>2, <5>5
          <6>2. CASE k = i
            BY <6>1, <6>2
          <6>3. CASE k # i
            <7>1. k \in i + 1..n /\ i \in i..k - 1
              BY <5>1, <6>1, <6>3
            <7>2. last[i] = x[i] /\ \A j \in i + 1..k - 1 : last[j] = x[j]
              BY <5>1, <6>1, <7>1
            <7> QED BY <5>3, <6>1, <7>1, <7>2
          <6> QED BY <6>2, <6>3
        <5>6. ASSUME hit(i) PROVE g[i]
          BY <5>1, <5>2, <5>6
        <5>7. ASSUME last[i] = x[i], g[i + 1] PROVE g[i]
          <6>1. PICK k \in i + 1..n : (\A j \in i + 1..k - 1 : last[j] = x[j]) /\ hit(k)
            BY <5>3, <5>7
          <6>2. k \in i..n /\ \A j \in i..k - 1 : last[j] = x[j]
            BY <5>1, <5>7, <6>1
          <6> QED BY <5>2, <6>1, <6>2
        <5> QED BY <5>4, <5>5, <5>6, <5>7
      <4> QED BY <1>2, <4>1, <4>2
    <3>2. ASSUME NEW i \in 1..n + 1 PROVE g[i] \in BOOLEAN /\ step(g, i) \in BOOLEAN
      OBVIOUS
    <3>3. ASSUME NEW i \in 1..n + 1 PROVE g[i] = step(g, i)
      BY <3>1, <3>2
    <3>4. g = [i \in 1..n + 1 |-> g[i]]
      OBVIOUS
    <3> HIDE DEF g, step
    <3> QED BY <3>3, <3>4
  <2> HIDE DEF g, step
  <2> QED BY <2>1
<1> HIDE DEF a
<1>5. ASSUME NEW i \in 1..n
      PROVE  a[i] <=> hit(i) \/ (last[i] = x[i] /\ a[i + 1])
  BY <1>2, <1>3, <1>4
<1>6. ~a[n + 1]
  BY <1>2, <1>4
<1> HIDE DEF step, hit
<1>7. a[1] <=> \E k \in 1..n : (\A j \in 1..k - 1 : last[j] = x[j]) /\ hit(k)
  <2>1. ASSUME a[1]
        PROVE  \E k \in 1..n : (\A j \in 1..k - 1 : last[j] = x[j]) /\ hit(k)
    <3> DEFINE S == {i \in 1..n + 1 : a[i] /\ \A j \in 1..i - 1 : last[j] = x[j]}
    <3>1. 1 \in S
      BY <1>2, <2>1
    <3>2. PICK m \in S : \A i \in S : i <= m
      <4>1. S \in SUBSET (1..n + 1) /\ S # {} /\ n + 1 \in Nat
        BY <1>2, <3>1
      <4> HIDE DEF S
      <4> QED BY <4>1, FirstAndLast
    <3>3. m \in 1..n /\ a[m] /\ \A j \in 1..m - 1 : last[j] = x[j]
      BY <1>2, <1>6, <3>2
    <3>4. hit(m) \/ (last[m] = x[m] /\ a[m + 1])
      BY <1>5, <3>3
    <3>5. ~(last[m] = x[m] /\ a[m + 1])
      <4> SUFFICES ASSUME last[m] = x[m], a[m + 1] PROVE FALSE
        OBVIOUS
      <4>1. m + 1 \in 1..n + 1 /\ \A j \in 1..m : last[j] = x[j]
        BY <1>2, <3>3
      <4>2. m + 1 \in S
        BY <4>1, <1>2, <3>3
      <4> QED BY <3>2, <3>3, <4>2
    <3> QED BY <3>3, <3>4, <3>5
  <2>2. ASSUME NEW k \in 1..n, \A j \in 1..k - 1 : last[j] = x[j], hit(k)
        PROVE  a[1]
    <3> DEFINE S == {i \in 1..k : a[i]}
    <3>1. k \in S
      BY <1>2, <1>5, <2>2
    <3>2. PICK m \in S : \A i \in S : m <= i
      <4>1. S \in SUBSET (1..k) /\ S # {} /\ k \in Nat
        BY <1>2, <3>1
      <4> HIDE DEF S
      <4> QED BY <4>1, FirstAndLast
    <3>3. m \in 1..k /\ a[m]
      BY <3>2
    <3>4. CASE m = 1
      BY <3>3, <3>4
    <3>5. CASE m # 1
      <4>1. m - 1 \in 1..n /\ m - 1 \in 1..k - 1 /\ m - 1 \in 1..k /\ (m - 1) + 1 = m
        BY <1>2, <3>3, <3>5
      <4>2. a[m - 1]
        BY <1>5, <2>2, <3>3, <4>1
      <4>3. m - 1 \in S
        BY <4>1, <4>2
      <4> QED BY <3>2, <3>3, <4>3
    <3> QED BY <3>4, <3>5
  <2> QED BY <2>1, <2>2
<1> QED BY <1>1, <1>2, <1>7, BeforeIsLess DEF hit

-----------------------------------------------------------------------------
(* Pages.                                                                  *)

\* The plan's tuple of a row.
LEMMA ValuesTyped ==
  ASSUME IInv, plan # <<>>, NEW c \in Content
  PROVE  /\ Values(plan, c) \in Tuple(plan)
         /\ plan \in Seq(Key)
<1>1. plan = req.keys /\ req \in Request
  BY DEF IInv, Verified, TypeOK
<1>2. plan \in Seq(Key)
  BY <1>1, RequestTyped
<1>3. ASSUME NEW i \in DOMAIN plan PROVE req.shape[plan[i].col] \in Column
  BY <1>1, <1>3 DEF IInv, Verified, Verifies, BaseColumns
<1>4. \A col \in Column : c[col] \in Value
  BY TableTyped DEF Column
<1> QED BY <1>2, <1>3, <1>4 DEF Values, Tuple

\* The limits of a request.
LEMMA Limits ==
  ASSUME TypeOK
  PROVE  /\ MaxRows \in Nat \ {0} /\ PageSize \in Nat \ {0} /\ PageSize <= MaxRows
         /\ EffPage(0) = PageSize
         /\ \A cum \in Nat : cum < MaxRows =>
              EffPage(cum) \in Nat \ {0} /\ cum + EffPage(cum) <= MaxRows
<1>1. req.page \in Int /\ req.max \in Nat \ {0}
  BY RequestTyped DEF TypeOK
<1> QED BY <1>1, LimitsPositive DEF MaxRows, PageSize, EffPage, Least

\* A sequence without repetition that is as long as a set has all its elements.
LEMMA AllOfThem ==
  ASSUME NEW S, IsFiniteSet(S), NEW f \in SetToSeqs(S)
  PROVE  /\ f \in [1..Cardinality(S) -> S] /\ Cardinality(S) \in Nat
         /\ \A i, j \in 1..Cardinality(S) : i # j => f[i] # f[j]
         /\ \A x \in S : \E i \in 1..Cardinality(S) : f[i] = x
<1>1. /\ f \in [1..Cardinality(S) -> S]
      /\ \A i, j \in 1..Cardinality(S) : i # j => f[i] # f[j]
  BY DEF SetToSeqs
<1>2. Cardinality(S) \in Nat
  BY FS_CardinalityType
<1>3. f \in Injection(1..Cardinality(S), S)
  BY <1>1 DEF Injection, IsInjective
<1>4. Cardinality(1..Cardinality(S)) = Cardinality(S)
  BY <1>2, FS_Interval
<1>5. f \in Surjection(1..Cardinality(S), S)
  BY <1>3, <1>4, FS_Injection
<1> QED BY <1>1, <1>2, <1>5 DEF Surjection

\* What is behind the cursor, and what a page of it is: its rows are in order and
\* not repeated, and what is left over comes behind them all, if there is more than
\* the page holds.
Behind(specs, last) ==
  {r \in DOMAIN table : last = <<>> \/ After(specs, last, Values(specs, table[r]))}

LEMMA PageSplits ==
  ASSUME TypeOK, NEW last, NEW cum \in Nat, EffPage(cum) \in Nat,
         NEW fetched \in Results(plan, last, EffPage(cum) + 1)
  PROVE  LET page == Page(fetched, cum)
             val(r) == Values(plan, table[r])
         IN /\ page \in Seq(Behind(plan, last)) /\ Len(page) <= EffPage(cum)
            /\ Len(fetched) \in Nat /\ (Len(fetched) > EffPage(cum) => Len(page) = EffPage(cum))
            /\ \A i, j \in DOMAIN page : i # j => page[i] # page[j]
            /\ \A i, j \in DOMAIN page :
                 i < j => ~Before(plan, val(page[j]), val(page[i]))
            /\ \A r \in Behind(plan, last) :
                 \/ \E i \in DOMAIN page : page[i] = r
                 \/ /\ Len(fetched) > EffPage(cum)
                    /\ \A i \in DOMAIN page : ~Before(plan, val(r), val(page[i]))
<1> DEFINE Q == Behind(plan, last)
           n == Cardinality(Q)
           val(r) == Values(plan, table[r])
           e == EffPage(cum)
           page == Page(fetched, cum)
<1>1. IsFiniteSet(Q)
  <2>1. Q \subseteq Row
    BY DEF Behind, TypeOK
  <2> QED BY <2>1, TableTyped, FS_Subset
<1>2. PICK s \in SetToSeqs(Q) :
        /\ Sorted(plan, s)
        /\ fetched = SubSeq(s, 1, IF n < e + 1 THEN n ELSE e + 1)
  BY DEF Results, Behind
<1>3. /\ s \in [1..n -> Q] /\ n \in Nat
      /\ \A i, j \in 1..n : i # j => s[i] # s[j]
      /\ \A x \in Q : \E i \in 1..n : s[i] = x
  BY <1>1, AllOfThem
<1>4. \A i, j \in 1..n : i < j => ~Before(plan, val(s[j]), val(s[i]))
  BY <1>2, <1>3 DEF Sorted
<1> DEFINE k == IF n < e + 1 THEN n ELSE e + 1
           m == IF k < e THEN k ELSE e
<1> HIDE DEF Q, n
<1>5. k \in Nat /\ k <= n /\ m \in Nat /\ m <= k /\ m <= e
  BY <1>3
<1>6. fetched \in Seq(Q) /\ Len(fetched) = k /\ \A i \in 1..k : fetched[i] = s[i]
  <2>1. \A i \in 1..k : s[i] \in Q
    BY <1>3, <1>5
  <2> HIDE DEF k
  <2> QED BY <1>2, <1>5, <2>1, SubSeqProperties DEF k
<1>7. page \in Seq(Q) /\ Len(page) = m /\ \A i \in 1..m : page[i] = s[i]
  <2>1. page = SubSeq(fetched, 1, m)
    BY <1>6 DEF Page, Least
  <2>2. \A i \in 1..m : fetched[i] = s[i] /\ fetched[i] \in Q
    BY <1>3, <1>5, <1>6
  <2> HIDE DEF m, k, page
  <2> QED BY <1>5, <2>1, <2>2, SubSeqProperties
<1>8. DOMAIN page = 1..m
  BY <1>7
<1>9. ASSUME NEW r \in Q
      PROVE  \/ \E i \in 1..m : page[i] = r
             \/ k > e /\ \A i \in 1..m : ~Before(plan, val(r), val(page[i]))
  <2>1. PICK j \in 1..n : s[j] = r
    BY <1>3
  <2>2. CASE j <= m
    BY <1>5, <1>7, <2>1, <2>2
  <2>3. CASE j > m
    <3>1. k > e
      BY <1>3, <2>1, <2>3
    <3>2. \A i \in 1..m : ~Before(plan, val(r), val(s[i]))
      BY <1>3, <1>4, <1>5, <2>1, <2>3
    <3> QED BY <1>7, <3>1, <3>2
  <2> QED BY <1>5, <2>2, <2>3
<1>10. \A i, j \in 1..m : i # j => page[i] # page[j]
  BY <1>3, <1>5, <1>7
<1>11. \A i, j \in 1..m : i < j => ~Before(plan, val(page[j]), val(page[i]))
  BY <1>3, <1>4, <1>5, <1>7
<1>12. k > e => m = e
  BY <1>5
<1> HIDE DEF page, k, m, e, val
<1> QED BY <1>5, <1>6, <1>7, <1>8, <1>9, <1>10, <1>11, <1>12 DEF Q, e, val, page

\* While the plan holds, two rows have different tuples.
LEMMA TuplesAreUnique ==
  ASSUME IInv, PlanHolds, plan # <<>>, NEW r \in DOMAIN table, NEW q \in DOMAIN table,
         Values(plan, table[r]) = Values(plan, table[q])
  PROVE  r = q
<1>1. gen = <<meta.notnull, UniqueConstraints(meta)>>
  BY DEF PlanHolds, Generation, Loaded
<1>2. Verifies([notnull |-> meta.notnull, unique |-> UniqueConstraints(meta)],
               req.shape, plan) /\ plan = req.keys
  BY <1>1 DEF IInv, Verified
<1>3. PICK u \in UniqueConstraints(meta) :
        u \subseteq meta.notnull /\ u \subseteq BaseColumns(req.shape, plan)
  BY <1>2 DEF Verifies, UniqueProofs
<1>4. ASSUME NEW c \in u PROVE table[r][c] = table[q][c] /\ table[r][c] # Null
  <2>1. PICK i \in DOMAIN plan : c = req.shape[plan[i].col]
    BY <1>3, <1>4 DEF BaseColumns
  <2>2. Values(plan, table[r])[i] = table[r][c] /\ Values(plan, table[q])[i] = table[q][c]
    BY <2>1 DEF Values
  <2>3. table[r][c] # Null
    BY <1>3, <1>4 DEF IInv, Catalog, Respects
  <2> QED BY <2>2, <2>3
<1> QED BY <1>3, <1>4 DEF IInv, Catalog, Respects

\* What a page may rely on when it is read: what is behind the cursor is what was
\* not shown of the rows S that nobody touches, and comes after all that was shown.
Resumes(last, cum, S) ==
  /\ cum = Len(shown) /\ cum < MaxRows
  /\ RequiresPagination <=> plan # <<>>
  /\ S \subseteq DOMAIN table
  /\ \A i \in DOMAIN shown : shown[i][1] \in S => shown[i][2] = table[shown[i][1]]
  /\ \A i, j \in DOMAIN shown : i # j /\ shown[i][1] = shown[j][1] => shown[i][1] \notin S
  /\ \A r \in S : r \in ShownRows <=> r \notin Behind(plan, last)
  /\ plan # <<>> =>
       \A i \in DOMAIN shown, r \in Behind(plan, last) :
         ~Before(plan, Values(plan, table[r]), Values(plan, shown[i][2]))

LEMMA FirstPageResumes ==
  ASSUME IInv, pc = "prepared"
  PROVE  Resumes(<<>>, 0, DOMAIN table)
<1>1. shown = <<>> /\ (plan # <<>> <=> RequiresPagination)
  BY DEF IInv, Steps
<1>2. 0 < MaxRows
  BY Limits DEF IInv
<1> QED BY <1>1, <1>2 DEF Resumes, Behind, ShownRows

LEMMA NextPageResumes ==
  ASSUME IInv, pc = "rechecked", NEW t \in token
  PROVE  Resumes(t.last, t.cum, stable)
<1>1. plan # <<>> /\ t.cum = Len(shown) /\ t.cum < MaxRows /\ t.last \in Tuple(plan)
  BY DEF IInv, TokensAreGood, PlanValid, Typed
<1>2. RequiresPagination
  BY <1>1 DEF IInv, Verified
<1>3. stable \subseteq DOMAIN table /\ \A r \in DOMAIN table : table[r] \in Content
  BY DEF IInv, TypeOK
<1>4. plan \in Seq(Key) /\ \A c \in Content : Values(plan, c) \in Tuple(plan)
  <2>1. plan \in Seq(Key)
    BY <1>1, RequestTyped DEF IInv, Verified, TypeOK
  <2> QED BY <1>1, <2>1, ValuesTyped
<1>5. t.last # <<>>
  <2>1. DOMAIN plan = 1..Len(plan) /\ Len(plan) \in Nat /\ Len(plan) # 0
    BY <1>1, <1>4
  <2>2. DOMAIN t.last = DOMAIN plan
    BY <1>1 DEF Tuple
  <2> QED BY <2>1, <2>2
<1>6. ASSUME NEW r \in DOMAIN table
      PROVE  r \in Behind(plan, t.last) <=> Before(plan, t.last, Values(plan, table[r]))
  <2>1. Values(plan, table[r]) \in Tuple(plan)
    BY <1>3, <1>4
  <2> QED BY <1>1, <1>4, <1>5, <2>1, AfterIsBefore DEF Behind
<1>7. Split
  BY DEF IInv, SplitAtCursor, Redeemable
<1>8. \A r \in stable : r \in ShownRows <=> r \notin Behind(plan, t.last)
  BY <1>3, <1>6, <1>7 DEF Split
<1>9. ASSUME NEW i \in DOMAIN shown, NEW r \in Behind(plan, t.last)
      PROVE  ~Before(plan, Values(plan, table[r]), Values(plan, shown[i][2]))
  <2>1. r \in DOMAIN table /\ Before(plan, t.last, Values(plan, table[r]))
    BY <1>6 DEF Behind
  <2>2. shown[i][2] \in Content
    BY DEF IInv, Typed
  <2>3. ~Before(plan, t.last, Values(plan, shown[i][2]))
    BY DEF IInv, Cursor
  <2>4. Values(plan, table[r]) \in Tuple(plan) /\ Values(plan, shown[i][2]) \in Tuple(plan)
    BY <1>3, <1>4, <2>1, <2>2
  <2> QED BY <1>1, <1>4, <2>1, <2>3, <2>4, PlanOrder
<1>10. /\ \A i \in DOMAIN shown : shown[i][1] \in stable => shown[i][2] = table[shown[i][1]]
       /\ \A i, j \in DOMAIN shown :
            i # j /\ shown[i][1] = shown[j][1] => shown[i][1] \notin stable
  BY DEF IInv, Cursor, ShownOnce
<1> QED BY <1>1, <1>2, <1>3, <1>8, <1>9, <1>10 DEF Resumes

\* What is shown once the page is delivered.
Extended(page) == shown \o [i \in DOMAIN page |-> <<page[i], table[page[i]]>>]

LEMMA PageExtends ==
  ASSUME IInv, NEW last, NEW cum, NEW S, Resumes(last, cum, S),
         NEW fetched \in Results(plan, last, EffPage(cum) + 1)
  PROVE  LET page == Page(fetched, cum)
             new == Extended(page)
         IN /\ new \in Seq(Row \X Content) /\ Len(new) = cum + Len(page) /\ Len(new) <= MaxRows
            /\ \A i \in DOMAIN shown : i \in DOMAIN new /\ new[i] = shown[i]
            /\ \A k \in DOMAIN page :
                 cum + k \in DOMAIN new /\ new[cum + k] = <<page[k], table[page[k]]>>
            /\ \A i \in DOMAIN new :
                 i \in DOMAIN shown \/ \E k \in DOMAIN page : i = cum + k
<1> DEFINE page == Page(fetched, cum)
           pairs == [i \in DOMAIN page |-> <<page[i], table[page[i]]>>]
<1>1. TypeOK /\ shown \in Seq(Row \X Content) /\ cum = Len(shown) /\ cum < MaxRows /\ cum \in Nat
  BY DEF IInv, Typed, Resumes
<1>2. EffPage(cum) \in Nat /\ cum + EffPage(cum) <= MaxRows /\ MaxRows \in Nat
  BY <1>1, Limits
<1>3. page \in Seq(Behind(plan, last)) /\ Len(page) <= EffPage(cum)
  BY <1>1, <1>2, PageSplits
<1> HIDE DEF page
<1>4. DOMAIN page = 1..Len(page) /\ Len(page) \in Nat
  BY <1>3
<1>5. \A k \in DOMAIN page : <<page[k], table[page[k]]>> \in Row \X Content
  <2>1. \A k \in DOMAIN page : page[k] \in DOMAIN table
    BY <1>3 DEF Behind
  <2> QED BY <1>1, <2>1 DEF TypeOK
<1>6. pairs \in Seq(Row \X Content) /\ Len(pairs) = Len(page)
      /\ \A k \in DOMAIN page : pairs[k] = <<page[k], table[page[k]]>>
  BY <1>4, <1>5
<1> HIDE DEF pairs
<1>7. /\ shown \o pairs \in Seq(Row \X Content)
      /\ Len(shown \o pairs) = cum + Len(page)
      /\ \A i \in 1..cum + Len(page) :
           (shown \o pairs)[i] = IF i <= cum THEN shown[i] ELSE pairs[i - cum]
  <2>1. shown \in Seq(Row \X Content) /\ pairs \in Seq(Row \X Content)
    BY <1>1, <1>6
  <2>2. /\ shown \o pairs \in Seq(Row \X Content)
        /\ Len(shown \o pairs) = Len(shown) + Len(pairs)
        /\ \A i \in 1..Len(shown) + Len(pairs) :
             (shown \o pairs)[i] = IF i <= Len(shown) THEN shown[i] ELSE pairs[i - Len(shown)]
    BY <2>1, ConcatProperties
  <2> QED BY <1>1, <1>6, <2>2
<1>8. Extended(page) = shown \o pairs
  BY DEF Extended, pairs
<1> HIDE DEF Extended
<1>9. DOMAIN Extended(page) = 1..cum + Len(page) /\ DOMAIN shown = 1..cum
  BY <1>1, <1>7, <1>8
<1>10. \A i \in DOMAIN shown : i \in DOMAIN Extended(page) /\ Extended(page)[i] = shown[i]
  BY <1>1, <1>4, <1>7, <1>8, <1>9
<1>11. ASSUME NEW k \in DOMAIN page
       PROVE  cum + k \in DOMAIN Extended(page) /\ Extended(page)[cum + k] = <<page[k], table[page[k]]>>
  <2>1. cum + k \in 1..cum + Len(page) /\ ~(cum + k <= cum) /\ (cum + k) - cum = k
    BY <1>1, <1>4
  <2> QED BY <1>6, <1>7, <1>8, <1>9, <2>1
<1>12. ASSUME NEW i \in DOMAIN Extended(page), i \notin DOMAIN shown
       PROVE  \E k \in DOMAIN page : i = cum + k
  <2>1. i - cum \in DOMAIN page /\ i = cum + (i - cum)
    BY <1>1, <1>4, <1>9, <1>12
  <2> QED BY <2>1
<1>13. Len(Extended(page)) = cum + Len(page) /\ Len(Extended(page)) <= MaxRows
  BY <1>1, <1>2, <1>3, <1>4, <1>7, <1>8
<1> QED BY <1>7, <1>8, <1>10, <1>11, <1>12, <1>13 DEF page

\* The pages so far stay one reading: no row of S twice, in order, and nothing is
\* left out but what comes after a full page.
LEMMA PagesJoin ==
  ASSUME IInv, NEW last, NEW cum, NEW S, Resumes(last, cum, S),
         NEW fetched \in Results(plan, last, EffPage(cum) + 1)
  PROVE  LET page == Page(fetched, cum)
             new == Extended(page)
             val(r) == Values(plan, table[r])
         IN /\ \A i \in DOMAIN new : new[i][1] \in S => new[i][2] = table[new[i][1]]
            /\ \A i, j \in DOMAIN new :
                 i # j /\ new[i][1] = new[j][1] => new[i][1] \notin S
            /\ plan # <<>> =>
                 \A i, j \in DOMAIN new :
                   i < j => ~Before(plan, Values(plan, new[j][2]), Values(plan, new[i][2]))
            /\ \A r \in S : \/ \E i \in DOMAIN new : new[i][1] = r
                            \/ /\ Len(fetched) > EffPage(cum) /\ Len(page) = EffPage(cum)
                               /\ \A k \in DOMAIN page : ~Before(plan, val(r), val(page[k]))
<1> DEFINE page == Page(fetched, cum)
           new == Extended(page)
           val(r) == Values(plan, table[r])
<1>1. TypeOK /\ shown \in Seq(Row \X Content) /\ cum = Len(shown) /\ cum < MaxRows /\ cum \in Nat
  BY DEF IInv, Typed, Resumes
<1>2. EffPage(cum) \in Nat
  BY <1>1, Limits
<1>3. /\ page \in Seq(Behind(plan, last))
      /\ Len(fetched) > EffPage(cum) => Len(page) = EffPage(cum)
      /\ \A i, j \in DOMAIN page : i # j => page[i] # page[j]
      /\ \A i, j \in DOMAIN page : i < j => ~Before(plan, val(page[j]), val(page[i]))
      /\ \A r \in Behind(plan, last) :
           \/ \E i \in DOMAIN page : page[i] = r
           \/ /\ Len(fetched) > EffPage(cum)
              /\ \A i \in DOMAIN page : ~Before(plan, val(r), val(page[i]))
  BY <1>1, <1>2, PageSplits
<1>4. /\ \A i \in DOMAIN shown : i \in DOMAIN new /\ new[i] = shown[i]
      /\ \A k \in DOMAIN page :
           cum + k \in DOMAIN new /\ new[cum + k] = <<page[k], table[page[k]]>>
      /\ \A i \in DOMAIN new :
           i \in DOMAIN shown \/ \E k \in DOMAIN page : i = cum + k
  BY PageExtends
<1> HIDE DEF page, new
<1>5. /\ \A i \in DOMAIN shown : shown[i][1] \in S => shown[i][2] = table[shown[i][1]]
      /\ \A i, j \in DOMAIN shown : i # j /\ shown[i][1] = shown[j][1] => shown[i][1] \notin S
      /\ \A r \in S : r \in ShownRows <=> r \notin Behind(plan, last)
      /\ plan # <<>> =>
           \A i \in DOMAIN shown, r \in Behind(plan, last) :
             ~Before(plan, val(r), Values(plan, shown[i][2]))
  BY DEF Resumes
<1>6. \A k \in DOMAIN page : page[k] \in Behind(plan, last)
  BY <1>3
<1>7. \A i \in DOMAIN shown, k \in DOMAIN page : page[k] = shown[i][1] => page[k] \notin S
  BY <1>5, <1>6 DEF ShownRows
<1>8. DOMAIN page \subseteq Nat /\ DOMAIN shown = 1..cum
  BY <1>1, <1>3
<1> HIDE DEF val
<1>9. \A i \in DOMAIN new : new[i][1] \in S => new[i][2] = table[new[i][1]]
  BY <1>4, <1>5
<1>10. ASSUME NEW i \in DOMAIN new, NEW j \in DOMAIN new, i # j, new[i][1] = new[j][1]
       PROVE  new[i][1] \notin S
  <2>1. CASE i \in DOMAIN shown /\ j \in DOMAIN shown
    BY <1>4, <1>5, <1>10, <2>1
  <2>2. CASE i \in DOMAIN shown /\ \E k \in DOMAIN page : j = cum + k
    BY <1>4, <1>7, <1>10, <2>2
  <2>3. CASE j \in DOMAIN shown /\ \E k \in DOMAIN page : i = cum + k
    BY <1>4, <1>7, <1>10, <2>3
  <2>4. CASE (\E k \in DOMAIN page : i = cum + k) /\ (\E k \in DOMAIN page : j = cum + k)
    BY <1>3, <1>4, <1>10, <2>4
  <2> QED BY <1>4, <2>1, <2>2, <2>3, <2>4
<1>11. ASSUME plan # <<>>, NEW i \in DOMAIN new, NEW j \in DOMAIN new, i < j
       PROVE  ~Before(plan, Values(plan, new[j][2]), Values(plan, new[i][2]))
  <2>1. CASE i \in DOMAIN shown /\ j \in DOMAIN shown
    BY <1>4, <1>11, <2>1 DEF IInv, PagesInOrder
  <2>2. ASSUME i \in DOMAIN shown, NEW k \in DOMAIN page, j = cum + k
        PROVE  ~Before(plan, Values(plan, new[j][2]), Values(plan, new[i][2]))
    <3>1. new[i] = shown[i] /\ new[j][2] = table[page[k]]
      BY <1>4, <2>2
    <3>2. ~Before(plan, val(page[k]), Values(plan, shown[i][2]))
      BY <1>5, <1>6, <1>11, <2>2
    <3> QED BY <3>1, <3>2 DEF val
  <2>3. CASE j \in DOMAIN shown /\ \E k \in DOMAIN page : i = cum + k
    <3>1. FALSE
      <4>1. PICK k \in DOMAIN page : i = cum + k
        BY <2>3
      <4>2. k \in Nat /\ k # 0
        BY <1>3, <4>1
      <4>3. j \in 1..cum
        BY <1>8, <2>3
      <4> QED BY <1>1, <1>11, <4>1, <4>2, <4>3
    <3> QED BY <3>1
  <2>4. ASSUME NEW k \in DOMAIN page, i = cum + k, NEW h \in DOMAIN page, j = cum + h
        PROVE  ~Before(plan, Values(plan, new[j][2]), Values(plan, new[i][2]))
    <3>1. new[i][2] = table[page[k]] /\ new[j][2] = table[page[h]]
      BY <1>4, <2>4
    <3>2. k < h
      BY <1>1, <1>8, <1>11, <2>4
    <3> QED BY <1>3, <3>1, <3>2 DEF val
  <2> QED BY <1>4, <2>1, <2>2, <2>3, <2>4
<1>12. ASSUME NEW r \in S
       PROVE  \/ \E i \in DOMAIN new : new[i][1] = r
              \/ /\ Len(fetched) > EffPage(cum) /\ Len(page) = EffPage(cum)
                 /\ \A k \in DOMAIN page : ~Before(plan, val(r), val(page[k]))
  <2>1. CASE r \in ShownRows
    BY <1>4, <2>1 DEF ShownRows
  <2>2. CASE r \in Behind(plan, last) /\ \E k \in DOMAIN page : page[k] = r
    BY <1>4, <2>2
  <2> QED BY <1>3, <1>5, <2>1, <2>2
<1> QED BY <1>9, <1>10, <1>11, <1>12 DEF val, page, new

-----------------------------------------------------------------------------
(* The steps.                                                              *)

LEMMA RespectsStays ==
  ASSUME Respects(table, meta), UNCHANGED <<table, meta>>
  PROVE  Respects(table, meta)'
BY DEF Respects, UniqueConstraints

\* What a page in flight leaves alone.
Frame == UNCHANGED <<theirs, columns, req, plan, gen>>

LEMMA FrameFacts ==
  ASSUME Frame
  PROVE  /\ table' = table /\ meta' = meta /\ altered' = altered /\ changes' = changes
         /\ columns' = columns /\ req' = req /\ plan' = plan /\ gen' = gen
         /\ MaxRows' = MaxRows /\ PageSize' = PageSize
         /\ (RequiresPagination' <=> RequiresPagination) /\ (PlanHolds' <=> PlanHolds)
         /\ \A c : Values(plan, c)' = Values(plan, c)
BY DEF Frame, theirs, MaxRows, PageSize, RequiresPagination, PlanHolds, Values

\* What was shown, in front of and together with the page.
LEMMA DeliverShows ==
  ASSUME IInv, NEW last, NEW cum, Resumes(last, cum, stable'), Frame,
         NEW fetched \in Results(plan, last, EffPage(cum) + 1),
         \/ shown' = shown
         \/ shown' = Extended(Page(fetched, cum))
  PROVE  /\ shown' \in Seq(Row \X Content) /\ Len(shown') <= MaxRows
         /\ \A i \in DOMAIN shown' :
              shown'[i][1] \in stable' => shown'[i][2] = table[shown'[i][1]]
         /\ ShownOnce' /\ PagesInOrder'
<1>1. plan' = plan /\ \A c : Values(plan, c)' = Values(plan, c)
  BY FrameFacts
<1>2. CASE shown' = shown
  <2>1. shown \in Seq(Row \X Content) /\ Len(shown) <= MaxRows /\ PagesInOrder
    BY DEF IInv, Typed, TokensAreGood
  <2>2. ShownOnce'
    BY <1>2 DEF ShownOnce, Resumes
  <2>3. PagesInOrder'
    BY <1>1, <1>2, <2>1 DEF PagesInOrder
  <2> QED BY <1>2, <2>1, <2>2, <2>3 DEF Resumes
<1>3. CASE shown' = Extended(Page(fetched, cum))
  <2>1. shown' \in Seq(Row \X Content) /\ Len(shown') <= MaxRows
    BY <1>3, PageExtends
  <2>2. /\ \A i \in DOMAIN shown' :
             shown'[i][1] \in stable' => shown'[i][2] = table[shown'[i][1]]
        /\ \A i, j \in DOMAIN shown' :
             i # j /\ shown'[i][1] = shown'[j][1] => shown'[i][1] \notin stable'
        /\ plan # <<>> =>
             \A i, j \in DOMAIN shown' :
               i < j => ~Before(plan, Values(plan, shown'[j][2]), Values(plan, shown'[i][2]))
    BY <1>3, PagesJoin
  <2>3. ShownOnce'
    BY <2>2 DEF ShownOnce
  <2>4. PagesInOrder'
    BY <1>1, <2>2 DEF PagesInOrder
  <2> QED BY <2>1, <2>2, <2>3, <2>4
<1> QED BY <1>2, <1>3

\* The token that goes out with a page.
LEMMA DeliverContinues ==
  ASSUME IInv, NEW last, NEW cum, Resumes(last, cum, stable'), Frame,
         NEW fetched \in Results(plan, last, EffPage(cum) + 1),
         shown' = Extended(Page(fetched, cum)), plan # <<>>,
         HasMore(fetched, cum), token' = Continue(Page(fetched, cum), cum)
  PROVE  /\ \A t \in token' : /\ DOMAIN t = {"last", "cum"}
                              /\ t.last \in Tuple(plan) /\ t.cum \in Nat
                              /\ t.cum = Len(shown') /\ PlanValid(t)
         /\ token' # {} /\ Cardinality(token') <= 1
         /\ \A t \in token', i \in DOMAIN shown' :
              ~Before(plan, t.last, Values(plan, shown'[i][2]))
         /\ PlanHolds =>
              \A t \in token', r \in stable' :
                r \in ShownRows' <=> ~Before(plan, t.last, Values(plan, table[r]))
<1> DEFINE page == Page(fetched, cum)
           val(r) == Values(plan, table[r])
           l == page[Len(page)]
           tok == [last |-> val(l), cum |-> cum + Len(page)]
<1>1. TypeOK /\ cum = Len(shown) /\ cum < MaxRows /\ cum \in Nat
  BY DEF IInv, Typed, Resumes
<1>2. EffPage(cum) \in Nat \ {0} /\ MaxRows \in Nat \ {0} /\ PageSize \in Nat \ {0}
  BY <1>1, Limits
<1>3. /\ page \in Seq(Behind(plan, last)) /\ Len(page) = EffPage(cum)
      /\ \A i, j \in DOMAIN page : i < j => ~Before(plan, val(page[j]), val(page[i]))
  BY <1>1, <1>2, PageSplits DEF HasMore
<1>4. /\ shown' \in Seq(Row \X Content) /\ Len(shown') = cum + Len(page)
      /\ \A i \in DOMAIN shown : i \in DOMAIN shown' /\ shown'[i] = shown[i]
      /\ \A k \in DOMAIN page :
           cum + k \in DOMAIN shown' /\ shown'[cum + k] = <<page[k], table[page[k]]>>
      /\ \A i \in DOMAIN shown' :
           i \in DOMAIN shown \/ \E k \in DOMAIN page : i = cum + k
  BY PageExtends
<1>5. token' = {tok}
  BY DEF Continue
<1> HIDE DEF page
<1>6. DOMAIN page = 1..Len(page) /\ Len(page) \in Nat /\ Len(page) \in DOMAIN page
  BY <1>2, <1>3
<1>7. plan \in Seq(Key) /\ \A c \in Content : Values(plan, c) \in Tuple(plan)
  <2>1. plan \in Seq(Key)
    BY RequestTyped DEF IInv, Verified, TypeOK
  <2> QED BY <2>1, ValuesTyped
<1>8. /\ l \in DOMAIN table /\ \A k \in DOMAIN page : page[k] \in DOMAIN table
      /\ \A r \in DOMAIN table : table[r] \in Content
  BY <1>1, <1>3, <1>6 DEF Behind, TypeOK
<1>9. \A r \in DOMAIN table : val(r) \in Tuple(plan)
  BY <1>7, <1>8
<1> HIDE DEF val
<1>10. \A k \in DOMAIN page : ~Before(plan, val(l), val(page[k]))
  <2> SUFFICES ASSUME NEW k \in DOMAIN page PROVE ~Before(plan, val(l), val(page[k]))
    OBVIOUS
  <2>1. CASE k = Len(page)
    BY <1>7, <1>8, <1>9, <2>1, PlanOrder
  <2>2. CASE k < Len(page)
    BY <1>3, <1>6, <2>2
  <2> QED BY <1>6, <2>1, <2>2
<1>11. ASSUME NEW i \in DOMAIN shown'
       PROVE  ~Before(plan, val(l), Values(plan, shown'[i][2]))
  <2>1. CASE i \in DOMAIN shown
    <3>1. l \in Behind(plan, last)
      BY <1>3, <1>6
    <3>2. ~Before(plan, val(l), Values(plan, shown[i][2]))
      BY <2>1, <3>1 DEF Resumes, val
    <3> QED BY <1>4, <2>1, <3>2
  <2>2. ASSUME NEW k \in DOMAIN page, i = cum + k
        PROVE  ~Before(plan, val(l), Values(plan, shown'[i][2]))
    BY <1>4, <1>10, <2>2 DEF val
  <2> QED BY <1>4, <2>1, <2>2
<1>12. ASSUME PlanHolds, NEW r \in stable'
       PROVE  r \in ShownRows' <=> ~Before(plan, val(l), val(r))
  <2>1. r \in DOMAIN table
    BY <1>12 DEF Resumes
  <2>2. ASSUME r \in ShownRows' PROVE ~Before(plan, val(l), val(r))
    <3>1. PICK i \in DOMAIN shown' : shown'[i][1] = r
      BY <2>2 DEF ShownRows
    <3>2. shown'[i][2] = table[r]
      BY <1>12, <3>1, DeliverShows
    <3> QED BY <1>11, <3>2 DEF val
  <2>3. ASSUME r \notin ShownRows' PROVE Before(plan, val(l), val(r))
    <3>1. \A i \in DOMAIN shown' : shown'[i][1] # r
      BY <2>3 DEF ShownRows
    <3>2. \A k \in DOMAIN page : ~Before(plan, val(r), val(page[k]))
      BY <1>12, <3>1, PagesJoin DEF page, val
    <3>3. ~Before(plan, val(r), val(l)) /\ l # r
      BY <1>4, <1>6, <3>1, <3>2
    <3>4. val(l) # val(r)
      BY <1>8, <1>12, <2>1, <3>3, TuplesAreUnique DEF val
    <3> QED BY <1>7, <1>8, <1>9, <2>1, <3>3, <3>4, PlanOrder
  <2> QED BY <2>2, <2>3
<1>13. Len(val(l)) = Len(plan)
  <2>1. val(l) \in [1..Len(plan) -> Value] /\ Len(plan) \in Nat
    BY <1>7, <1>8, <1>9 DEF Tuple
  <2> QED BY <2>1
<1>14. PlanValid(tok)
  <2>1. cum + Len(page) \in Nat /\ cum + Len(page) < MaxRows
    BY <1>1, <1>2, <1>3 DEF HasMore
  <2> QED BY <1>2, <1>13, <2>1 DEF PlanValid
<1>15. /\ DOMAIN tok = {"last", "cum"} /\ tok.last = val(l) /\ tok.last \in Tuple(plan)
       /\ tok.cum \in Nat /\ tok.cum = Len(shown')
  BY <1>1, <1>4, <1>6, <1>8, <1>9
<1> HIDE DEF tok
<1>16. token' # {} /\ Cardinality(token') <= 1
  <2>1. Cardinality({tok}) = 1
    BY FS_Singleton
  <2> QED BY <1>5, <2>1
<1> QED BY <1>5, <1>11, <1>12, <1>14, <1>15, <1>16 DEF val

LEMMA DeliverKeeps ==
  ASSUME IInv, pc \in {"prepared", "rechecked"}, NEW last, NEW cum,
         Resumes(last, cum, stable'), Frame,
         NEW fetched \in Results(plan, last, EffPage(cum) + 1),
         plan # <<>> \/ Len(fetched) <= EffPage(cum) \/ TooLarge(Page(fetched, cum)),
         Deliver(fetched, cum)
  PROVE  IInv'
<1> DEFINE page == Page(fetched, cum)
<1>1. /\ table' = table /\ meta' = meta /\ altered' = altered /\ changes' = changes
      /\ columns' = columns /\ req' = req /\ plan' = plan /\ gen' = gen
      /\ MaxRows' = MaxRows /\ PageSize' = PageSize
      /\ (RequiresPagination' <=> RequiresPagination) /\ (PlanHolds' <=> PlanHolds)
      /\ \A c : Values(plan, c)' = Values(plan, c)
  BY FrameFacts
<1>2. \/ /\ TooLarge(page) /\ shown' = shown
         /\ pc' = "over" /\ reply' = "result_too_large" /\ token' = {}
      \/ /\ ~TooLarge(page) /\ shown' = Extended(page)
         /\ ~(RequiresPagination /\ HasMore(fetched, cum))
         /\ pc' = "over" /\ reply' = "complete" /\ token' = {}
      \/ /\ ~TooLarge(page) /\ shown' = Extended(page)
         /\ RequiresPagination /\ HasMore(fetched, cum)
         /\ pc' = "token" /\ reply' = reply /\ token' = Continue(page, cum)
  BY DEF Deliver, Extended, Finish
<1> HIDE DEF page
<1>3. /\ shown' \in Seq(Row \X Content) /\ Len(shown') <= MaxRows
      /\ \A i \in DOMAIN shown' :
           shown'[i][1] \in stable' => shown'[i][2] = table[shown'[i][1]]
      /\ ShownOnce' /\ PagesInOrder'
  BY <1>2, DeliverShows DEF page
<1>4. pc' = "token" => RequiresPagination /\ plan # <<>> /\ reply' = "none"
  BY <1>2 DEF Resumes, IInv, Steps
<1>5. /\ \A t \in token' : /\ DOMAIN t = {"last", "cum"}
                          /\ t.last \in Tuple(plan) /\ t.cum \in Nat
                          /\ t.cum = Len(shown') /\ PlanValid(t)
      /\ (token' # {} <=> pc' = "token") /\ Cardinality(token') <= 1
      /\ \A t \in token', i \in DOMAIN shown' :
           ~Before(plan, t.last, Values(plan, shown'[i][2]))
      /\ PlanHolds =>
           \A t \in token', r \in stable' :
             r \in ShownRows' <=> ~Before(plan, t.last, Values(plan, table[r]))
  <2>1. CASE pc' = "token"
    BY <1>2, <1>4, <2>1, DeliverContinues DEF page
  <2>2. CASE pc' # "token"
    <3>1. token' = {}
      BY <1>2, <2>2
    <3> QED BY <2>2, <3>1, FS_EmptySet
  <2> QED BY <2>1, <2>2
<1>6. pc' \in {"token", "over"} /\ (pc' = "over" => token' = {})
  BY <1>2
<1>7. TypeOK'
  <2>1. stable' \subseteq DOMAIN table'
    BY <1>1 DEF Resumes
  <2>2. reply' \in {"none", "complete", "unsupported_query", "result_too_large",
                    "invalid_page_token"}
    BY <1>2 DEF IInv, TypeOK
  <2> QED BY <1>1, <1>5, <1>6, <2>1, <2>2 DEF IInv, TypeOK
<1>8. Typed'
  BY <1>1, <1>3, <1>5 DEF Typed
<1>9. Steps'
  BY <1>4, <1>5, <1>6 DEF Steps
<1>10. Verified'
  BY <1>1 DEF IInv, Verified
<1>11. Catalog'
  <2>1. ~altered => PlanHolds
    BY DEF IInv, Catalog
  <2>2. Respects(table, meta)
    BY DEF IInv, Catalog
  <2> QED BY <1>1, <1>6, <2>1, <2>2 DEF Catalog
<1>12. SplitAtCursor'
  <2>1. CASE pc' = "token"
    BY <1>1, <1>5, <2>1 DEF SplitAtCursor, Redeemable, Split
  <2>2. CASE pc' = "over"
    BY <1>6, <2>2 DEF SplitAtCursor, Split
  <2> QED BY <1>6, <2>1, <2>2
<1>13. Cursor'
  BY <1>1, <1>3, <1>5 DEF Cursor
<1>14. AllShown'
  <2> SUFFICES ASSUME reply' = "complete", Len(shown') < MaxRows \/ plan = <<>>,
                      NEW r \in stable', \A i \in DOMAIN shown' : shown'[i][1] # r
               PROVE  FALSE
    BY <1>1 DEF AllShown, ShownRows
  <2>1. pc' = "over"
    BY <1>4, <1>6
  <2>2. /\ ~TooLarge(page) /\ shown' = Extended(page)
        /\ ~(RequiresPagination /\ HasMore(fetched, cum))
    BY <1>2, <2>1
  <2>3. Len(fetched) > EffPage(cum) /\ Len(page) = EffPage(cum)
    BY <2>2, PagesJoin DEF page
  <2>4. TypeOK /\ cum = Len(shown) /\ cum < MaxRows /\ cum \in Nat
    BY DEF IInv, Typed, Resumes
  <2>5. EffPage(cum) \in Nat /\ MaxRows \in Nat
    BY <2>4, Limits
  <2>6. Len(fetched) \in Nat
    BY <2>4, <2>5, PageSplits
  <2>7. plan # <<>> /\ RequiresPagination
    BY <2>2, <2>3, <2>5, <2>6 DEF Resumes, page
  <2>8. cum + EffPage(cum) >= MaxRows
    BY <2>2, <2>3, <2>4, <2>5, <2>7 DEF HasMore
  <2>9. Len(shown') = cum + Len(page)
    BY <2>2, PageExtends DEF page
  <2> QED BY <2>3, <2>4, <2>5, <2>7, <2>8, <2>9
<1>15. TokensAreGood'
  <2>1. \A t \in token' : PlanValid(t)'
    BY <1>1, <1>5 DEF PlanValid
  <2>2. reply' # "invalid_page_token"
    BY <1>2, <1>4
  <2> QED BY <1>1, <1>3, <1>5, <2>1, <2>2 DEF TokensAreGood
<1> QED BY <1>3, <1>7, <1>8, <1>9, <1>10, <1>11, <1>12, <1>13, <1>14, <1>15 DEF IInv

\* What others do to the table: the reader keeps what it has, and the rows they left
\* alone are as they were.
LEMMA OthersKeep ==
  ASSUME IInv, pc # "over", UNCHANGED <<columns, req, pc, reply, plan, gen, token, shown>>,
         TypeOK', Catalog', stable' \subseteq stable,
         \A q \in stable' : table'[q] = table[q],
         Redeemable' => Redeemable
  PROVE  IInv'
<1>1. /\ MaxRows' = MaxRows /\ PageSize' = PageSize
      /\ (RequiresPagination' <=> RequiresPagination) /\ ShownRows' = ShownRows
      /\ \A c : Values(plan, c)' = Values(plan, c)
  BY DEF MaxRows, PageSize, RequiresPagination, ShownRows, Values
<1>2. reply = "none"
  BY DEF IInv, Steps
<1>3. Typed' /\ Steps'
  <2>1. Typed'
    BY DEF IInv, Typed
  <2>2. stable = {} => stable' = {}
    OBVIOUS
  <2>3. Steps'
    BY <1>1, <2>2 DEF IInv, Steps
  <2> QED BY <2>1, <2>3
<1>4. Verified'
  BY <1>1 DEF IInv, Verified
<1>5. SplitAtCursor'
  <2> SUFFICES ASSUME Redeemable' PROVE Split'
    BY DEF SplitAtCursor
  <2>1. Split
    BY DEF IInv, SplitAtCursor
  <2> QED BY <1>1, <2>1 DEF Split
<1>6. Cursor'
  BY <1>1 DEF IInv, Cursor
<1>7. ShownOnce' /\ AllShown'
  BY <1>2 DEF IInv, ShownOnce, AllShown
<1>8. PagesInOrder'
  BY <1>1 DEF IInv, PagesInOrder
<1>9. TokensAreGood'
  BY <1>1, <1>2 DEF IInv, TokensAreGood, PlanValid
<1> QED BY <1>3, <1>4, <1>5, <1>6, <1>7, <1>8, <1>9 DEF IInv

LEMMA WriteKeeps ==
  ASSUME IInv, NEW r \in Row, Write(r)
  PROVE  IInv'
<1>1. PICK content \in Content :
        table' = [q \in DOMAIN table \cup {r} |-> IF q = r THEN content ELSE table[q]]
  BY DEF Write
<1>2. /\ Respects(table', meta) /\ stable' = stable \ {r} /\ changes' = changes + 1
      /\ changes < MaxChanges /\ pc # "over"
      /\ UNCHANGED <<meta, altered, columns, req, pc, reply, plan, gen, token, shown>>
  BY DEF Write
<1>3. (PlanHolds' <=> PlanHolds) /\ (Redeemable' <=> Redeemable)
  BY <1>2 DEF PlanHolds, Redeemable
<1>4. TypeOK'
  BY <1>1, <1>2, MaxChangesNatural DEF IInv, TypeOK
<1>5. Catalog'
  <2>1. Respects(table, meta)'
    BY <1>2 DEF Respects, UniqueConstraints
  <2> QED BY <1>2, <1>3, <2>1 DEF IInv, Catalog
<1>6. stable' \subseteq stable /\ \A q \in stable' : table'[q] = table[q]
  BY <1>1, <1>2 DEF IInv, TypeOK
<1> QED BY <1>2, <1>3, <1>4, <1>5, <1>6, OthersKeep

LEMMA DeleteKeeps ==
  ASSUME IInv, NEW r \in Row, Delete(r)
  PROVE  IInv'
<1>1. /\ table' = [q \in DOMAIN table \ {r} |-> table[q]] /\ pc # "over"
      /\ stable' = stable \ {r} /\ changes' = changes + 1 /\ changes < MaxChanges
      /\ UNCHANGED <<meta, altered, columns, req, pc, reply, plan, gen, token, shown>>
  BY DEF Delete
<1>2. (PlanHolds' <=> PlanHolds) /\ (Redeemable' <=> Redeemable)
  BY <1>1 DEF PlanHolds, Redeemable
<1>3. TypeOK'
  BY <1>1, MaxChangesNatural DEF IInv, TypeOK
<1>4. Catalog'
  <2>1. Respects(table, meta)'
    BY <1>1 DEF IInv, Catalog, Respects
  <2> QED BY <1>1, <1>2, <2>1 DEF IInv, Catalog
<1>5. stable' \subseteq stable /\ \A q \in stable' : table'[q] = table[q]
  BY <1>1 DEF IInv, TypeOK
<1> QED BY <1>1, <1>2, <1>3, <1>4, <1>5, OthersKeep

LEMMA AlterKeeps ==
  ASSUME IInv, Alter
  PROVE  IInv'
<1>1. /\ pc # "over" /\ ~altered /\ altered' = TRUE /\ meta' \in Metadata
      /\ Respects(table, meta')
      /\ UNCHANGED <<table, columns, req, pc, reply, plan, gen, token, shown, stable, changes>>
  BY DEF Alter
<1>2. TypeOK'
  BY <1>1 DEF IInv, TypeOK
<1>3. Catalog'
  <2>1. Respects(table, meta)'
    BY <1>1 DEF Respects, UniqueConstraints
  <2>2. pc = "rechecking" => columns = gen[1]
    BY <1>1 DEF IInv, Catalog, PlanHolds, Generation, Loaded
  <2> QED BY <1>1, <2>1, <2>2 DEF Catalog
<1>4. Redeemable
  <2>1. pc \in {"token", "rechecking"} => PlanHolds
    BY <1>1 DEF IInv, Catalog
  <2>2. pc = "rechecking" => columns = meta.notnull
    BY <2>1 DEF IInv, Catalog, PlanHolds, Generation, Loaded
  <2> QED BY <2>1, <2>2 DEF Redeemable, PlanHolds
<1> QED BY <1>1, <1>2, <1>3, <1>4, OthersKeep

LEMMA ReadColumnsKeeps ==
  ASSUME IInv, ReadColumns
  PROVE  IInv'
<1>1. /\ \/ pc = "start" /\ pc' = "planning"
         \/ pc = "token" /\ pc' = "rechecking"
      /\ columns' = meta.notnull
      /\ UNCHANGED <<table, meta, altered, changes, req, reply, plan, gen, token, shown, stable>>
  BY DEF ReadColumns, theirs
<1>2. /\ MaxRows' = MaxRows /\ PageSize' = PageSize /\ (PlanHolds' <=> PlanHolds)
      /\ (RequiresPagination' <=> RequiresPagination) /\ ShownRows' = ShownRows
      /\ \A c : Values(plan, c)' = Values(plan, c)
  BY <1>1 DEF MaxRows, PageSize, PlanHolds, RequiresPagination, ShownRows, Values
<1>3. TypeOK'
  <2>1. meta.notnull \subseteq Column
    BY TableTyped DEF IInv, TypeOK
  <2> QED BY <1>1, <2>1 DEF IInv, TypeOK
<1>4. Typed' /\ Steps'
  BY <1>1, <1>2 DEF IInv, Typed, Steps
<1>5. Verified'
  BY <1>1, <1>2 DEF IInv, Verified
<1>6. Catalog'
  BY <1>1, <1>2 DEF IInv, Catalog, Respects, UniqueConstraints
<1>7. SplitAtCursor'
  <2> SUFFICES ASSUME Redeemable' PROVE Split'
    BY DEF SplitAtCursor
  <2>1. CASE pc = "start"
    BY <1>1, <2>1 DEF IInv, Steps, Split
  <2>2. CASE pc = "token"
    <3>1. PlanHolds
      BY <1>1, <2>2 DEF Redeemable, PlanHolds
    <3>2. Split
      BY <2>2, <3>1 DEF IInv, SplitAtCursor, Redeemable
    <3> QED BY <1>1, <1>2, <3>2 DEF Split
  <2> QED BY <1>1, <2>1, <2>2
<1>8. Cursor'
  BY <1>1, <1>2 DEF IInv, Cursor
<1>9. ShownOnce' /\ AllShown'
  BY <1>1, <1>2 DEF IInv, ShownOnce, AllShown
<1>10. PagesInOrder'
  BY <1>1, <1>2 DEF IInv, PagesInOrder
<1>11. TokensAreGood'
  BY <1>1, <1>2 DEF IInv, TokensAreGood, PlanValid
<1> QED BY <1>3, <1>4, <1>5, <1>6, <1>7, <1>8, <1>9, <1>10, <1>11 DEF IInv

LEMMA PrepareKeeps ==
  ASSUME IInv, Prepare
  PROVE  IInv'
<1>1. /\ pc = "planning" /\ gen' = Generation(Loaded(columns, meta))
      /\ UNCHANGED <<table, meta, altered, changes, columns, req, shown, stable>>
      /\ \/ pc' = "over" /\ reply' = "unsupported_query" /\ token' = {} /\ plan' = plan
         \/ /\ RequiresPagination => Verifies(Loaded(columns, meta), req.shape, req.keys)
            /\ pc' = "prepared" /\ UNCHANGED <<reply, token>>
            /\ plan' = IF RequiresPagination THEN req.keys ELSE <<>>
  BY DEF Prepare, Finish, theirs
<1>2. /\ plan = <<>> /\ shown = <<>> /\ token = {} /\ stable = {} /\ reply = "none"
  BY <1>1 DEF IInv, Steps
<1>3. /\ MaxRows' = MaxRows /\ PageSize' = PageSize
      /\ (RequiresPagination' <=> RequiresPagination)
  BY <1>1 DEF MaxRows, PageSize, RequiresPagination
<1>4. shown' = <<>> /\ token' = {} /\ stable' = {}
  BY <1>1, <1>2
<1>5. TypeOK'
  <2>1. Cardinality(token') <= 1
    BY <1>4, FS_EmptySet
  <2>2. reply' \in {"none", "unsupported_query"} /\ plan' \in {<<>>, req'.keys}
    BY <1>1, <1>2
  <2> QED BY <1>1, <1>4, <2>1, <2>2 DEF IInv, TypeOK
<1>6. Typed'
  BY <1>4 DEF Typed
<1>7. pc' = "prepared" => (plan' # <<>> <=> RequiresPagination)
  BY <1>1 DEF Verifies
<1>8. Steps'
  BY <1>1, <1>2, <1>3, <1>4, <1>7 DEF Steps
<1>9. Verified'
  <2> SUFFICES ASSUME plan' # <<>>
               PROVE  /\ plan' = req.keys /\ RequiresPagination
                      /\ Verifies([notnull |-> gen'[1], unique |-> gen'[2]], req.shape, req.keys)
    BY <1>1, <1>3 DEF Verified
  <2>1. RequiresPagination /\ plan' = req.keys
        /\ Verifies(Loaded(columns, meta), req.shape, req.keys)
    BY <1>1, <1>2
  <2>2. Loaded(columns, meta) = [notnull |-> gen'[1], unique |-> gen'[2]]
    BY <1>1 DEF Generation, Loaded
  <2> QED BY <2>1, <2>2
<1>10. Catalog'
  <2>1. Respects(table, meta)'
    BY <1>1, RespectsStays DEF IInv, Catalog
  <2>2. ~altered => columns = meta.notnull
    BY <1>1 DEF IInv, Catalog
  <2>3. ~altered' => PlanHolds'
    BY <1>1, <2>2 DEF PlanHolds, Generation, Loaded, UniqueConstraints
  <2> QED BY <1>1, <2>1, <2>3 DEF Catalog
<1>11. SplitAtCursor' /\ Cursor' /\ ShownOnce' /\ AllShown' /\ PagesInOrder'
  BY <1>4 DEF SplitAtCursor, Split, Cursor, ShownOnce, AllShown, PagesInOrder
<1>12. TokensAreGood'
  <2>1. 0 <= MaxRows
    BY Limits DEF IInv
  <2>2. reply' # "invalid_page_token"
    BY <1>1, <1>2
  <2> QED BY <1>3, <1>4, <2>1, <2>2 DEF TokensAreGood
<1> QED BY <1>5, <1>6, <1>8, <1>9, <1>10, <1>11, <1>12 DEF IInv

LEMMA RecheckKeeps ==
  ASSUME IInv, Recheck
  PROVE  IInv'
<1>1. /\ pc = "rechecking"
      /\ UNCHANGED <<table, meta, altered, changes, columns, req, plan, gen, shown, stable>>
      /\ \/ /\ Generation(Loaded(columns, meta)) = gen
            /\ pc' = "rechecked" /\ UNCHANGED <<reply, token>>
         \/ /\ Generation(Loaded(columns, meta)) # gen
            /\ pc' = "over" /\ reply' = "invalid_page_token" /\ token' = {}
  BY DEF Recheck, Finish, theirs, IInv, TokensAreGood
<1>2. /\ MaxRows' = MaxRows /\ PageSize' = PageSize /\ (PlanHolds' <=> PlanHolds)
      /\ (RequiresPagination' <=> RequiresPagination) /\ ShownRows' = ShownRows
      /\ \A c : Values(plan, c)' = Values(plan, c)
  BY <1>1 DEF MaxRows, PageSize, PlanHolds, RequiresPagination, ShownRows, Values
<1>3. /\ reply = "none" /\ token # {}
  BY <1>1 DEF IInv, Steps
<1>4. token' \in {token, {}}
  BY <1>1
<1>5. TypeOK'
  <2>1. Cardinality(token') <= 1
    <3>1. Cardinality(token) <= 1 /\ Cardinality({}) <= 1
      BY FS_EmptySet DEF IInv, TypeOK
    <3> QED BY <1>4, <3>1
  <2> QED BY <1>1, <1>3, <1>4, <2>1 DEF IInv, TypeOK
<1>6. Typed'
  BY <1>1, <1>4 DEF IInv, Typed
<1>7. Steps'
  BY <1>1, <1>3 DEF Steps
<1>8. Verified'
  BY <1>1, <1>2 DEF IInv, Verified
<1>9. Catalog'
  BY <1>1, <1>2 DEF IInv, Catalog, Respects, UniqueConstraints
<1>10. SplitAtCursor'
  <2>1. CASE pc' = "rechecked"
    <3>1. Split
      BY <1>1, <2>1 DEF IInv, SplitAtCursor, Redeemable
    <3> QED BY <1>1, <1>2, <2>1, <3>1 DEF SplitAtCursor, Split
  <2>2. CASE pc' = "over"
    BY <1>1, <2>2 DEF SplitAtCursor, Split
  <2> QED BY <1>1, <2>1, <2>2
<1>11. Cursor'
  BY <1>1, <1>2, <1>4 DEF IInv, Cursor
<1>12. ShownOnce' /\ AllShown'
  BY <1>1, <1>3 DEF IInv, ShownOnce, AllShown
<1>13. PagesInOrder'
  BY <1>1, <1>2 DEF IInv, PagesInOrder
<1>14. TokensAreGood'
  <2>1. Generation(Loaded(columns, meta)) # gen => ~PlanHolds
    BY <1>1 DEF IInv, Catalog, PlanHolds, Generation, Loaded
  <2>2. reply' = "invalid_page_token" => ~PlanHolds
    BY <1>1, <1>3, <2>1
  <2> QED BY <1>1, <1>2, <1>4, <2>2 DEF IInv, TokensAreGood, PlanValid
<1> QED BY <1>5, <1>6, <1>7, <1>8, <1>9, <1>10, <1>11, <1>12, <1>13, <1>14 DEF IInv

LEMMA FirstPageKeeps ==
  ASSUME IInv, FirstPage
  PROVE  IInv'
<1>1. pc = "prepared" /\ stable' = DOMAIN table /\ Frame
  BY DEF FirstPage, Frame
<1>2. Resumes(<<>>, 0, stable')
  BY <1>1, FirstPageResumes
<1>3. EffPage(0) = PageSize /\ EffPage(0) \in Nat /\ 0 \in Nat
  BY Limits DEF IInv
<1>4. PICK fetched \in Results(plan, <<>>, EffPage(0) + 1) :
        IF plan = <<>> /\ Len(fetched) > EffPage(0) /\ ~TooLarge(Page(fetched, 0))
        THEN Finish("result_too_large") /\ UNCHANGED shown
        ELSE Deliver(fetched, 0)
  BY <1>3 DEF FirstPage
<1>5. Len(fetched) \in Nat
  BY <1>3, PageSplits DEF IInv
<1>6. CASE plan = <<>> /\ Len(fetched) > EffPage(0) /\ ~TooLarge(Page(fetched, 0))
  <2>1. /\ pc' = "over" /\ reply' = "result_too_large" /\ token' = {} /\ shown' = shown
    BY <1>4, <1>6 DEF Finish
  <2>2. shown = <<>> /\ token = {}
    BY <1>1 DEF IInv, Steps
  <2>3. /\ table' = table /\ meta' = meta /\ altered' = altered /\ changes' = changes
        /\ columns' = columns /\ req' = req /\ plan' = plan /\ gen' = gen
        /\ MaxRows' = MaxRows
        /\ (RequiresPagination' <=> RequiresPagination) /\ (PlanHolds' <=> PlanHolds)
    BY <1>1, FrameFacts
  <2>4. TypeOK'
    <3>1. Cardinality(token') <= 1
      BY <2>1, FS_EmptySet
    <3> QED BY <1>1, <2>1, <2>3, <3>1 DEF IInv, TypeOK
  <2>5. Typed' /\ Steps' /\ SplitAtCursor' /\ Cursor' /\ ShownOnce' /\ AllShown'
        /\ PagesInOrder'
    BY <2>1, <2>2 DEF Typed, Steps, SplitAtCursor, Split, Cursor, ShownOnce, AllShown,
                      PagesInOrder
  <2>6. Verified'
    BY <2>3 DEF IInv, Verified
  <2>7. Catalog'
    <3>1. Respects(table, meta) /\ (~altered => PlanHolds)
      BY <1>1 DEF IInv, Catalog
    <3>2. Respects(table, meta)'
      BY <2>3, <3>1, RespectsStays
    <3> QED BY <2>1, <2>3, <3>1, <3>2 DEF Catalog
  <2>8. TokensAreGood'
    BY <2>1, <2>3 DEF IInv, TokensAreGood
  <2> QED BY <2>4, <2>5, <2>6, <2>7, <2>8 DEF IInv
<1>7. CASE ~(plan = <<>> /\ Len(fetched) > EffPage(0) /\ ~TooLarge(Page(fetched, 0)))
  <2>1. Deliver(fetched, 0)
    BY <1>4, <1>7
  <2>2. plan # <<>> \/ Len(fetched) <= EffPage(0) \/ TooLarge(Page(fetched, 0))
    BY <1>3, <1>5, <1>7
  <2> QED BY <1>1, <1>2, <2>1, <2>2, DeliverKeeps
<1> QED BY <1>6, <1>7

LEMMA NextPageKeeps ==
  ASSUME IInv, NextPage
  PROVE  IInv'
<1>1. pc = "rechecked" /\ stable' = stable /\ Frame
  BY DEF NextPage, Frame
<1>2. PICK t \in token :
        \E fetched \in Results(plan, t.last, EffPage(t.cum) + 1) : Deliver(fetched, t.cum)
  BY DEF NextPage
<1>3. Resumes(t.last, t.cum, stable')
  BY <1>1, NextPageResumes
<1>4. plan # <<>>
  BY DEF IInv, TokensAreGood, PlanValid
<1>5. PICK fetched \in Results(plan, t.last, EffPage(t.cum) + 1) : Deliver(fetched, t.cum)
  BY <1>2
<1> QED BY <1>1, <1>3, <1>4, <1>5, DeliverKeeps

-----------------------------------------------------------------------------
(* The theorems.                                                           *)

LEMMA InitIInv == Init => IInv
<1> SUFFICES ASSUME Init PROVE IInv
  OBVIOUS
<1>1. /\ req \in Request /\ meta \in Metadata
      /\ pc = "start" /\ reply = "none" /\ altered = FALSE /\ columns = {}
      /\ plan = <<>> /\ token = {} /\ shown = <<>> /\ stable = {} /\ changes = 0
  BY DEF Init
<1>2. DOMAIN table \subseteq Row /\ (\A r \in DOMAIN table : table[r] \in Content)
      /\ Respects(table, meta)
  BY DEF Init
<1>3. TypeOK
  <2>1. Cardinality(token) <= 1
    BY <1>1, FS_EmptySet
  <2>2. 0 \in 0..MaxChanges
    BY MaxChangesNatural
  <2> HIDE DEF Init
  <2> QED BY <1>1, <1>2, <2>1, <2>2 DEF TypeOK
<1>4. Typed /\ Steps /\ Verified /\ SplitAtCursor /\ Cursor /\ ShownOnce /\ AllShown
      /\ PagesInOrder
  BY <1>1 DEF Typed, Steps, Verified, SplitAtCursor, Split, Cursor, ShownOnce, AllShown,
              PagesInOrder
<1>5. Catalog
  BY <1>1, <1>2 DEF Catalog
<1>6. TokensAreGood
  BY <1>1, <1>3, Limits DEF TokensAreGood
<1> QED BY <1>3, <1>4, <1>5, <1>6 DEF IInv

LEMMA StutterKeeps == IInv /\ UNCHANGED vars => IInv'
<1> SUFFICES ASSUME IInv, UNCHANGED vars PROVE IInv'
  OBVIOUS
<1>1. /\ UNCHANGED <<table, meta, altered, columns, req, pc, reply, plan, gen, token, shown,
                    stable, changes>>
  BY DEF vars
<1>2. /\ MaxRows' = MaxRows /\ PageSize' = PageSize /\ (PlanHolds' <=> PlanHolds)
      /\ (RequiresPagination' <=> RequiresPagination) /\ ShownRows' = ShownRows
      /\ (Redeemable' <=> Redeemable) /\ \A c : Values(plan, c)' = Values(plan, c)
  BY <1>1 DEF MaxRows, PageSize, PlanHolds, RequiresPagination, Redeemable, ShownRows, Values
<1>3. TypeOK' /\ Typed' /\ Steps' /\ Verified'
  BY <1>1, <1>2 DEF IInv, TypeOK, Typed, Steps, Verified
<1>4. Catalog'
  <2>1. Respects(table, meta)
    BY DEF IInv, Catalog
  <2>2. Respects(table, meta)'
    BY <1>1, <2>1 DEF Respects, UniqueConstraints
  <2> QED BY <1>1, <1>2, <2>2 DEF IInv, Catalog
<1>5. SplitAtCursor' /\ Cursor'
  BY <1>1, <1>2 DEF IInv, SplitAtCursor, Split, Cursor
<1>6. ShownOnce' /\ AllShown' /\ PagesInOrder'
  BY <1>1, <1>2 DEF IInv, ShownOnce, AllShown, PagesInOrder
<1>7. TokensAreGood'
  BY <1>1, <1>2 DEF IInv, TokensAreGood, PlanValid
<1> QED BY <1>3, <1>4, <1>5, <1>6, <1>7 DEF IInv

LEMMA NextIInv == IInv /\ [Next]_vars => IInv'
<1> SUFFICES ASSUME IInv, [Next]_vars PROVE IInv'
  OBVIOUS
<1>1. CASE ReadColumns BY <1>1, ReadColumnsKeeps
<1>2. CASE Prepare BY <1>2, PrepareKeeps
<1>3. CASE FirstPage BY <1>3, FirstPageKeeps
<1>4. CASE Recheck BY <1>4, RecheckKeeps
<1>5. CASE NextPage BY <1>5, NextPageKeeps
<1>6. ASSUME NEW r \in Row, Write(r) PROVE IInv' BY <1>6, WriteKeeps
<1>7. ASSUME NEW r \in Row, Delete(r) PROVE IInv' BY <1>7, DeleteKeeps
<1>8. CASE Alter BY <1>8, AlterKeeps
<1>9. CASE UNCHANGED vars BY <1>9, StutterKeeps
<1> QED BY <1>1, <1>2, <1>3, <1>4, <1>5, <1>6, <1>7, <1>8, <1>9 DEF Next

\* Whatever the table, its catalog and the request, the state of a reading stays of
\* its type: a plan is the keys of the request or none, and there is one token at most.
THEOREM TypeCorrect == Spec => []TypeOK
<1>1. IInv => TypeOK
  BY DEF IInv
<1> QED BY <1>1, InitIInv, NextIInv, PTL DEF Spec

\* However others change the table between the pages and within them, the rows of all
\* pages are one sequence in the order the request asked for (buildOrderByClause and
\* buildAfter agree on it for every mix of directions and places of the nulls).
THEOREM PagesAreInOrder == Spec => []PagesInOrder
<1>1. IInv => PagesInOrder
  BY DEF IInv
<1> QED BY <1>1, InitIInv, NextIInv, PTL DEF Spec

\* Every continuation that is given out passes NewVerifiedNextPagePlan and counts the
\* rows returned; it is refused only after a change of the constraints; and no reading
\* returns more rows than the policy allows.
THEOREM TokensCanBeRedeemed == Spec => []TokensAreGood
<1>1. IInv => TokensAreGood
  BY DEF IInv
<1> QED BY <1>1, InitIInv, NextIInv, PTL DEF Spec

\* A row nobody touches is on the pages exactly once, and is missing from a complete
\* reading only if the row limit was reached: for tables, keys and pages of any size.
THEOREM StableRowsAreReadOnce == Spec => []StableRowsOnce
<1>1. ASSUME IInv PROVE StableRowsOnce
  <2>1. ASSUME PlanHolds PROVE Split
    <3>1. pc = "rechecking" => columns = meta.notnull
      BY <2>1, <1>1 DEF IInv, Catalog, PlanHolds, Generation, Loaded
    <3>2. Redeemable
      BY <2>1, <3>1 DEF Redeemable, PlanHolds
    <3> QED BY <1>1, <3>2 DEF IInv, SplitAtCursor
  <2> QED BY <1>1, <2>1 DEF IInv, ShownOnce, AllShown, Split, StableRowsOnce
<1> QED BY <1>1, InitIInv, NextIInv, PTL DEF Spec
=============================================================================
