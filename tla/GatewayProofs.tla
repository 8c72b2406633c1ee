--------------------------- MODULE GatewayProofs ---------------------------
(***************************************************************************)
(* Proofs about Gateway, for any requests, statements, policies, results,  *)
(* entries and limits.                                                     *)
(*                                                                         *)
(* First what the pure parts compute: the policy on trees of any height    *)
(* (BranchesAllowed), the text of a numeric and of a time of day           *)
(* (NumericExact, ClockExact), a whole result (WireWhole).  The invariant  *)
(* then follows the request: which kinds get to which step (Route), what   *)
(* the caller was found to be entitled to (Entitled), that the statement   *)
(* was judged (Judged), and what the records say at each step (Records).   *)
(***************************************************************************)
EXTENDS Gateway, FiniteSetTheorems, WellFoundedInduction, TLAPS

-----------------------------------------------------------------------------
(* Statements inside statements.  The features of a statement are computed *)
(* by recursion; that there is a function with that recursion is shown by  *)
(* giving one: what can be reached from a statement through what is inside.*)

Reach(kids, x) ==
  {y \in DOMAIN kids : \A S \in SUBSET DOMAIN kids :
                         x \in S /\ (\A z \in S : kids[z] \subseteq S) => y \in S}

LEMMA ReachUnfolds ==
  ASSUME NEW D, NEW kids \in [D -> SUBSET D], NEW x \in D
  PROVE  Reach(kids, x) = {x} \cup UNION {Reach(kids, y) : y \in kids[x]}
<1> DEFINE R == {x} \cup UNION {Reach(kids, y) : y \in kids[x]}
<1>1. ASSUME NEW y \in D, NEW z \in Reach(kids, y) PROVE z \in D /\ kids[z] \subseteq Reach(kids, y)
  BY <1>1 DEF Reach
<1>2. \A y \in D : y \in Reach(kids, y)
  BY DEF Reach
<1>3. R \subseteq Reach(kids, x)
  <2>1. ASSUME NEW y \in kids[x], NEW z \in Reach(kids, y) PROVE z \in Reach(kids, x)
    BY <2>1 DEF Reach
  <2> QED BY <1>2, <2>1
<1>4. Reach(kids, x) \subseteq R
  <2>1. R \in SUBSET D /\ x \in R
    BY <1>1
  <2>2. ASSUME NEW z \in R PROVE kids[z] \subseteq R
    <3>1. CASE z = x
      BY <1>2, <3>1
    <3>2. ASSUME NEW y \in kids[x], z \in Reach(kids, y) PROVE kids[z] \subseteq R
      BY <1>1, <3>2
    <3> QED BY <2>2, <3>1, <3>2
  <2> HIDE DEF R
  <2> QED BY <2>1, <2>2 DEF Reach
<1> QED BY <1>3, <1>4

LEMMA Nested ==
  ASSUME NEW s \in Selects
  PROVE  /\ s \in Tree /\ s.node = "Select" /\ Inside(s) \subseteq Tree
         /\ ToSet(s.branches) \subseteq Selects
BY TreesNest DEF Selects

\* hasDangerousPGFunc: a call anywhere in a statement is found.
LEMMA CallsRecur ==
  ASSUME NEW s \in Tree
  PROVE  CallsDangerous(s) <=>
           s.node = "Select" /\ (\/ "danger" \in s.where \cup s.others
                                 \/ \E x \in Inside(s) : CallsDangerous(x))
<1> DEFINE step(f, t) == t.node = "Select" /\ (\/ "danger" \in t.where \cup t.others
                                               \/ \E x \in Inside(t) : f[x])
           a == CHOOSE f : f = [t \in Tree |-> step(f, t)]
           kids == [t \in Tree |-> IF t.node = "Select" THEN Inside(t) ELSE {}]
           hits == {t \in Tree : t.node = "Select" /\ "danger" \in t.where \cup t.others}
           g == [t \in Tree |-> Reach(kids, t) \cap hits # {}]
<1>1. \A t \in Tree : CallsDangerous(t) = a[t]
  BY DEF CallsDangerous
<1>2. kids \in [Tree -> SUBSET Tree] /\ \A t \in Tree : t.node # "Select" => kids[t] = {}
  BY Nested DEF Selects
<1>3. a = [t \in Tree |-> step(a, t)]
  <2>1. ASSUME NEW t \in Tree PROVE g[t] = step(g, t)
    <3>1. Reach(kids, t) = {t} \cup UNION {Reach(kids, y) : y \in kids[t]}
      <4> HIDE DEF kids
      <4> QED BY <1>2, ReachUnfolds
    <3>2. g[t] <=> t \in hits \/ \E y \in kids[t] : Reach(kids, y) \cap hits # {}
      <4> HIDE DEF hits, kids
      <4> QED BY <3>1
    <3>3. \A y \in kids[t] : g[y] <=> Reach(kids, y) \cap hits # {}
      <4> HIDE DEF hits
      <4> QED BY <1>2
    <3>4. g[t] <=> t \in hits \/ \E y \in kids[t] : g[y]
      BY <3>2, <3>3
    <3>5. t.node = "Select" => kids[t] = Inside(t)
      OBVIOUS
    <3>6. g[t] \in BOOLEAN /\ step(g, t) \in BOOLEAN
      OBVIOUS
    <3>7. t \in hits <=> t.node = "Select" /\ "danger" \in t.where \cup t.others
      OBVIOUS
    <3> HIDE DEF g, kids, hits
    <3>8. g[t] <=> step(g, t)
      BY <1>2, <3>4, <3>5, <3>7
    <3> HIDE DEF step
    <3> QED BY <3>6, <3>8
  <2>2. g = [t \in Tree |-> g[t]]
    OBVIOUS
  <2> HIDE DEF g, step
  <2>3. g = [t \in Tree |-> step(g, t)]
    BY <2>1, <2>2
  <2> QED BY <2>3
<1> HIDE DEF a
<1>4. a[s] <=> step(a, s)
  BY <1>3
<1>5. s.node = "Select" => Inside(s) \subseteq Tree
  BY Nested DEF Selects
<1> QED BY <1>1, <1>4, <1>5

\* classifyPGSelect and mergePGFeatures.
OwnPG(s) ==
  {f \in MergedPG :
    \/ f = "CTE" /\ s.ctes # <<>>
    \/ f = "RecursiveCTE" /\ s.ctes # <<>> /\ s.recursive
    \/ f = "ModifyingCTE" /\ ModifyingCTE(s)
    \/ f = "SetOperation" /\ s.branches # <<>>
    \/ f \in s.clauses
    \/ f = "DangerousFunc" /\ CallsDangerous(s)}

LEMMA PGFeaturesRecur ==
  ASSUME NEW s \in Selects
  PROVE  PGFeatures(s) = OwnPG(s) \cup UNION {PGFeatures(b) : b \in ToSet(s.branches)}
<1> DEFINE step(h, t) ==
             {f \in MergedPG :
               \/ f = "CTE" /\ t.ctes # <<>>
               \/ f = "RecursiveCTE" /\ t.ctes # <<>> /\ t.recursive
               \/ f = "ModifyingCTE" /\ ModifyingCTE(t)
               \/ f = "SetOperation" /\ t.branches # <<>>
               \/ f \in t.clauses
               \/ f = "DangerousFunc" /\ CallsDangerous(t)
               \/ \E b \in ToSet(t.branches) : f \in h[b]}
           a == CHOOSE h : h = [t \in Selects |-> step(h, t)]
           kids == [t \in Selects |-> ToSet(t.branches)]
           g == [t \in Selects |-> UNION {OwnPG(d) : d \in Reach(kids, t)}]
<1>1. \A t \in Selects : PGFeatures(t) = a[t]
  BY DEF PGFeatures
<1>2. kids \in [Selects -> SUBSET Selects]
  BY Nested
<1>3. \A h, t : step(h, t) = OwnPG(t) \cup {f \in MergedPG : \E b \in ToSet(t.branches) : f \in h[b]}
  BY DEF OwnPG
<1> HIDE DEF step
<1>4. a = [t \in Selects |-> step(a, t)]
  <2>1. ASSUME NEW t \in Selects PROVE g[t] = step(g, t)
    <3>1. Reach(kids, t) = {t} \cup UNION {Reach(kids, y) : y \in kids[t]}
      <4> HIDE DEF kids
      <4> QED BY <1>2, ReachUnfolds
    <3>2. kids[t] = ToSet(t.branches) /\ kids[t] \subseteq Selects
      BY <1>2
    <3>3. \A y \in Selects : g[y] = UNION {OwnPG(d) : d \in Reach(kids, y)}
      OBVIOUS
    <3>4. \A y \in Selects : g[y] \subseteq MergedPG
      BY <3>3 DEF OwnPG
    <3> HIDE DEF g, kids
    <3>5. g[t] = OwnPG(t) \cup UNION {g[y] : y \in kids[t]}
      BY <3>1, <3>2, <3>3
    <3> QED BY <1>3, <3>2, <3>4, <3>5
  <2>2. g = [t \in Selects |-> g[t]]
    OBVIOUS
  <2> HIDE DEF g
  <2>3. g = [t \in Selects |-> step(g, t)]
    BY <2>1, <2>2
  <2> QED BY <2>3
<1> HIDE DEF a
<1>5. \A t \in Selects : a[t] = step(a, t) /\ a[t] \subseteq MergedPG
  BY <1>3, <1>4 DEF OwnPG
<1>6. ToSet(s.branches) \subseteq Selects
  BY Nested
<1>7. a[s] = OwnPG(s) \cup UNION {a[b] : b \in ToSet(s.branches)}
  BY <1>3, <1>5, <1>6
<1> QED BY <1>1, <1>6, <1>7

\* classifyMySQLSelect and mergeMySQLFeatures.
OwnMySQL(s) ==
  {f \in MergedMySQL :
    \/ f = "CTE" /\ s.ctes # <<>>
    \/ f = "RecursiveCTE" /\ s.ctes # <<>> /\ s.recursive
    \/ f = "SetOperation" /\ s.branches # <<>>
    \/ f \in s.clauses
    \/ f = "Assignment" /\ HasAssignment(s)}

LEMMA MySQLFeaturesRecur ==
  ASSUME NEW s \in Selects
  PROVE  MySQLFeatures(s) =
           OwnMySQL(s) \cup UNION {MySQLFeatures(x) : x \in Inside(s) \cap Selects}
<1> DEFINE step(h, t) ==
             {f \in MergedMySQL :
               \/ f = "CTE" /\ t.ctes # <<>>
               \/ f = "RecursiveCTE" /\ t.ctes # <<>> /\ t.recursive
               \/ f = "SetOperation" /\ t.branches # <<>>
               \/ f \in t.clauses
               \/ f = "Assignment" /\ HasAssignment(t)
               \/ \E x \in Inside(t) \cap Selects : f \in h[x]}
           a == CHOOSE h : h = [t \in Selects |-> step(h, t)]
           kids == [t \in Selects |-> Inside(t) \cap Selects]
           g == [t \in Selects |-> UNION {OwnMySQL(d) : d \in Reach(kids, t)}]
<1>1. \A t \in Selects : MySQLFeatures(t) = a[t]
  BY DEF MySQLFeatures
<1>2. kids \in [Selects -> SUBSET Selects]
  OBVIOUS
<1>3. \A h, t : step(h, t) =
        OwnMySQL(t) \cup {f \in MergedMySQL : \E x \in Inside(t) \cap Selects : f \in h[x]}
  BY DEF OwnMySQL
<1> HIDE DEF step
<1>4. a = [t \in Selects |-> step(a, t)]
  <2>1. ASSUME NEW t \in Selects PROVE g[t] = step(g, t)
    <3>1. Reach(kids, t) = {t} \cup UNION {Reach(kids, y) : y \in kids[t]}
      <4> HIDE DEF kids
      <4> QED BY <1>2, ReachUnfolds
    <3>2. kids[t] = Inside(t) \cap Selects
      OBVIOUS
    <3>3. \A y \in Selects : g[y] = UNION {OwnMySQL(d) : d \in Reach(kids, y)}
      OBVIOUS
    <3>4. \A y \in Selects : g[y] \subseteq MergedMySQL
      BY <3>3 DEF OwnMySQL
    <3> HIDE DEF g, kids
    <3>5. g[t] = OwnMySQL(t) \cup UNION {g[y] : y \in kids[t]}
      BY <3>1, <3>2, <3>3
    <3> QED BY <1>3, <3>2, <3>4, <3>5
  <2>2. g = [t \in Selects |-> g[t]]
    OBVIOUS
  <2> HIDE DEF g
  <2>3. g = [t \in Selects |-> step(g, t)]
    BY <2>1, <2>2
  <2> QED BY <2>3
<1> HIDE DEF a
<1>5. \A t \in Selects : a[t] = step(a, t) /\ a[t] \subseteq MergedMySQL
  BY <1>3, <1>4 DEF OwnMySQL
<1>6. a[s] = OwnMySQL(s) \cup UNION {a[x] : x \in Inside(s) \cap Selects}
  BY <1>3, <1>5
<1> QED BY <1>1, <1>6

\* The policy allows a set operation only if it allows each branch.
LEMMA BranchAllowed ==
  ASSUME NEW dialect, NEW s \in Selects, NEW b \in ToSet(s.branches),
         JudgeTree(dialect, s) = "allowed"
  PROVE  JudgeTree(dialect, b) = "allowed"
<1>1. b \in Selects /\ b \in Inside(s)
  BY Nested DEF Inside
<1>2. ASSUME NEW t \in Selects
      PROVE  JudgeTree(dialect, t) = "allowed" <=> Features(dialect, t) \cap Refused = {}
  <2>1. t.node = "Select"
    BY DEF Selects
  <2>2. Kind(dialect, t.node) = "SELECT"
    BY <2>1 DEF Kind
  <2> QED BY <2>2 DEF JudgeTree
<1>3. Features(dialect, b) \subseteq Features(dialect, s)
  <2>1. \A t \in Selects : Features(dialect, t) =
          IF dialect = "postgresql" THEN PGFeatures(t) ELSE MySQLFeatures(t)
    BY DEF Features, Selects
  <2>2. PGFeatures(b) \subseteq PGFeatures(s)
    BY PGFeaturesRecur
  <2>3. MySQLFeatures(b) \subseteq MySQLFeatures(s)
    BY <1>1, MySQLFeaturesRecur
  <2> QED BY <1>1, <2>1, <2>2, <2>3
<1> QED BY <1>1, <1>2, <1>3

LEMMA BranchesRecur ==
  ASSUME NEW t \in Tree
  PROVE  Branches(t) =
           {t} \cup IF t.node = "Select" THEN UNION {Branches(b) : b \in ToSet(t.branches)}
                   ELSE {}
<1> DEFINE step(f, x) == {x} \cup IF x.node = "Select"
                                THEN UNION {f[b] : b \in ToSet(x.branches)} ELSE {}
           a == CHOOSE f : f = [x \in Tree |-> step(f, x)]
           kids == [x \in Tree |-> IF x.node = "Select" THEN ToSet(x.branches) ELSE {}]
           g == [x \in Tree |-> Reach(kids, x)]
<1>1. \A x \in Tree : Branches(x) = a[x]
  BY DEF Branches
<1>2. \A x \in Tree : x.node = "Select" => ToSet(x.branches) \subseteq Tree
  BY Nested DEF Selects
<1>3. kids \in [Tree -> SUBSET Tree]
  BY <1>2
<1>4. a = [x \in Tree |-> step(a, x)]
  <2>1. ASSUME NEW x \in Tree PROVE g[x] = step(g, x)
    <3>1. Reach(kids, x) = {x} \cup UNION {Reach(kids, y) : y \in kids[x]}
      <4> HIDE DEF kids
      <4> QED BY <1>3, ReachUnfolds
    <3>2. kids[x] = IF x.node = "Select" THEN ToSet(x.branches) ELSE {}
      OBVIOUS
    <3>3. \A y \in Tree : g[y] = Reach(kids, y)
      OBVIOUS
    <3>4. kids[x] \subseteq Tree
      BY <1>3
    <3> HIDE DEF g, kids
    <3>5. g[x] = {x} \cup UNION {g[y] : y \in kids[x]}
      BY <3>1, <3>3, <3>4
    <3> QED BY <3>2, <3>5
  <2>2. g = [x \in Tree |-> g[x]]
    OBVIOUS
  <2> HIDE DEF g, step
  <2>3. g = [x \in Tree |-> step(g, x)]
    BY <2>1, <2>2
  <2> QED BY <2>3
<1> HIDE DEF a
<1>5. a[t] = step(a, t)
  BY <1>4
<1> QED BY <1>1, <1>2, <1>5

\* Of a set of trees that is not empty, one nests least.
LEMMA LeastNested ==
  ASSUME NEW S \in SUBSET Tree, S # {}
  PROVE  \E s \in S : \A t \in S : ~(Height[t] < Height[s])
<1>1. IsWellFoundedOn(OpToRel(<, Nat), Nat)
  BY NatLessThanWellFounded
<1> DEFINE H == {Height[t] : t \in S}
<1>2. H \in SUBSET Nat /\ H # {}
  BY TreesNest
<1>3. PICK m \in H : \A i \in H : ~ (<<i, m>> \in OpToRel(<, Nat))
  <2> HIDE DEF H
  <2> QED BY <1>1, <1>2, WFMin
<1>4. PICK s \in S : m = Height[s]
  OBVIOUS
<1>5. ASSUME NEW t \in S PROVE ~(Height[t] < Height[s])
  <2>1. Height[t] \in H /\ Height[t] \in Nat /\ Height[s] \in Nat
    BY TreesNest
  <2>2. ~ (<<Height[t], Height[s]>> \in OpToRel(<, Nat))
    BY <1>3, <1>4, <2>1
  <2> QED BY <2>1, <2>2 DEF OpToRel
<1> QED BY <1>5

\* No branch of an allowed statement, however deep, would have been refused.
LEMMA BranchesAllowed ==
  ASSUME NEW dialect, NEW t \in Tree, JudgeTree(dialect, t) = "allowed"
  PROVE  \A x \in Branches(t) : JudgeTree(dialect, x) = "allowed"
<1> DEFINE allowed(x) == JudgeTree(dialect, x) = "allowed"
           bad == {y \in Tree : allowed(y) /\ \E x \in Branches(y) : ~allowed(x)}
<1> SUFFICES ASSUME bad # {} PROVE FALSE
  OBVIOUS
<1>1. PICK s \in bad : \A y \in bad : ~(Height[y] < Height[s])
  <2>1. bad \in SUBSET Tree
    OBVIOUS
  <2> HIDE DEF bad
  <2> QED BY <2>1, LeastNested
<1>2. s \in Tree /\ allowed(s)
  OBVIOUS
<1>3. PICK x \in Branches(s) : ~allowed(x)
  OBVIOUS
<1>4. s \in Selects /\ \E b \in ToSet(s.branches) : x \in Branches(b)
  <2>1. x # s
    BY <1>2, <1>3
  <2>2. Branches(s) = {s} \cup IF s.node = "Select"
                             THEN UNION {Branches(b) : b \in ToSet(s.branches)} ELSE {}
    BY <1>2, BranchesRecur
  <2> HIDE DEF allowed, bad
  <2> QED BY <1>2, <1>3, <2>1, <2>2 DEF Selects
<1>5. PICK b \in ToSet(s.branches) : x \in Branches(b)
  BY <1>4
<1>6. b \in Tree /\ Height[b] < Height[s]
  BY <1>4, TreesNest DEF Inside
<1>7. allowed(b)
  BY <1>2, <1>4, BranchAllowed
<1>8. b \in bad
  BY <1>3, <1>5, <1>6, <1>7
<1> QED BY <1>1, <1>6, <1>8

-----------------------------------------------------------------------------
(* Numbers and their digits.  What a recursion computes is compared with    *)
(* another by looking for the first place where they differ.                *)

\* There is a first one.
LEMMA Smallest ==
  ASSUME NEW S \in SUBSET Nat, S # {}
  PROVE  \E x \in S : \A y \in S : x <= y
<1>1. IsWellFoundedOn(OpToRel(<, Nat), Nat)
  BY NatLessThanWellFounded
<1>2. PICK x \in S : \A y \in S : ~ (<<y, x>> \in OpToRel(<, Nat))
  BY <1>1, WFMin
<1>3. ASSUME NEW y \in S PROVE x <= y
  <2>1. ~ (<<y, x>> \in OpToRel(<, Nat))
    BY <1>2
  <2> QED BY <2>1 DEF OpToRel
<1> QED BY <1>3

\* Two sequences of numbers that start and go on alike are the same.
GoOnAlike(a, b, N) ==
  a[0] = b[0] /\ \A i \in 1..N : a[i - 1] = b[i - 1] => a[i] = b[i]

LEMMA NeverDiffer ==
  ASSUME NEW N \in Nat, NEW a, NEW b, GoOnAlike(a, b, N)
  PROVE  \A i \in 0..N : a[i] = b[i]
<1> DEFINE differ == {i \in 0..N : a[i] # b[i]}
<1> SUFFICES ASSUME differ # {} PROVE FALSE
  OBVIOUS
<1>1. PICK x \in differ : \A y \in differ : x <= y
  <2>1. differ \in SUBSET Nat
    OBVIOUS
  <2> HIDE DEF differ
  <2> QED BY <2>1, Smallest
<1>2. x # 0 /\ x \in 1..N /\ x - 1 \notin differ /\ x - 1 \in 0..N
  <2>1. x \in 0..N /\ x # 0
    BY <1>1 DEF GoOnAlike
  <2>2. x - 1 \in 0..N /\ x \in 1..N /\ ~(x <= x - 1)
    BY <2>1
  <2> HIDE DEF differ
  <2> QED BY <1>1, <2>1, <2>2
<1>3. a[x - 1] = b[x - 1]
  BY <1>2
<1> QED BY <1>1, <1>2, <1>3 DEF GoOnAlike

\* A linear recursion has a solution.
Linear(f, N, b, c, w) == f[0] = b /\ \A i \in 1..N : f[i] = c * f[i - 1] + w[i]

LEMMA LinearSolved ==
  ASSUME NEW N \in Nat, NEW b \in Int, NEW c \in Int, NEW w \in [1..N -> Int]
  PROVE  \E f \in [0..N -> Int] : Linear(f, N, b, c, w)
<1> USE DEF Linear
<1> DEFINE Solves(f, k) == Linear(f, k, b, c, w)
           unsolved == {k \in 0..N : ~ \E f \in [0..k -> Int] : Solves(f, k)}
<1> SUFFICES ASSUME unsolved # {} PROVE FALSE
  <2>1. N \in 0..N
    OBVIOUS
  <2>2. N \notin unsolved => \E f \in [0..N -> Int] : Solves(f, N)
    BY <2>1
  <2> QED BY <2>2
<1>1. PICK x \in unsolved : \A y \in unsolved : x <= y
  <2> HIDE DEF unsolved
  <2>1. unsolved \in SUBSET Nat
    BY DEF unsolved
  <2> QED BY <2>1, Smallest
<1>2. x \in 0..N /\ ~ \E f \in [0..x -> Int] : Solves(f, x)
  BY <1>1
<1>3. CASE x = 0
  <2> DEFINE f == [i \in 0..0 |-> b]
  <2>1. f \in [0..0 -> Int] /\ Solves(f, 0)
    OBVIOUS
  <2> QED BY <1>2, <1>3, <2>1
<1>4. CASE x # 0
  <2>1. x - 1 \in 0..N /\ x - 1 \notin unsolved
    <3> HIDE DEF unsolved
    <3>1. x \in Nat /\ ~(x <= x - 1) /\ x - 1 \in 0..N
      BY <1>2, <1>4
    <3> QED BY <1>1, <3>1
  <2>2. PICK f \in [0..(x - 1) -> Int] : Solves(f, x - 1)
    BY <2>1
  <2> DEFINE g == [i \in 0..x |-> IF i = x THEN c * f[x - 1] + w[x] ELSE f[i]]
  <2>3. w[x] \in Int /\ f[x - 1] \in Int /\ c * f[x - 1] \in Int
    BY <1>2, <1>4, <2>2
  <2>4. g \in [0..x -> Int]
    BY <1>2, <1>4, <2>2, <2>3
  <2>5. g[0] = b
    BY <1>2, <1>4, <2>2
  <2>6. ASSUME NEW i \in 1..x PROVE g[i] = c * g[i - 1] + w[i]
    <3>1. CASE i = x
      <4>1. g[i] = c * f[x - 1] + w[x] /\ g[i - 1] = f[x - 1]
        BY <1>2, <1>4, <3>1
      <4> QED BY <3>1, <4>1
    <3>2. CASE i # x
      <4>1. i \in 1..(x - 1) /\ i - 1 # x /\ g[i] = f[i] /\ g[i - 1] = f[i - 1]
        BY <1>2, <1>4, <3>2
      <4> QED BY <2>2, <4>1
    <3> QED BY <3>1, <3>2
  <2> QED BY <1>2, <2>4, <2>5, <2>6
<1> QED BY <1>3, <1>4

LEMMA NumeralRecurs ==
  ASSUME NEW s \in Seq(Int)
  PROVE  \E f \in [0..Len(s) -> Int] :
           /\ f[0] = 0 /\ \A i \in 1..Len(s) : f[i] = 10 * f[i - 1] + s[i]
           /\ Numeral(s) = f[Len(s)]
<1> DEFINE N == Len(s)
           step(f, i) == IF i = 0 THEN 0 ELSE 10 * f[i - 1] + s[i]
           a == CHOOSE f : f = [i \in 0..N |-> step(f, i)]
<1>1. N \in Nat /\ \A i \in 1..N : s[i] \in Int
  OBVIOUS
<1>2. Numeral(s) = a[N]
  BY DEF Numeral
<1>3. PICK f \in [0..N -> Int] : f[0] = 0 /\ \A i \in 1..N : f[i] = 10 * f[i - 1] + s[i]
  <2> DEFINE w == [i \in 1..N |-> s[i]]
  <2>1. w \in [1..N -> Int]
    BY <1>1
  <2>2. \E f \in [0..N -> Int] : Linear(f, N, 0, 10, w)
    <3> HIDE DEF w, N
    <3>1. 0 \in Int /\ 10 \in Int
      OBVIOUS
    <3> QED BY <1>1, <2>1, <3>1, LinearSolved
  <2> QED BY <2>2 DEF Linear
<1>4. f = [i \in 0..N |-> step(f, i)]
  <2>1. \A i \in 0..N : f[i] = step(f, i)
    BY <1>3
  <2>2. f = [i \in 0..N |-> f[i]]
    BY <1>3
  <2> HIDE DEF step
  <2> QED BY <2>1, <2>2
<1>5. a = [i \in 0..N |-> step(a, i)]
  <2> HIDE DEF step
  <2> QED BY <1>4
<1> HIDE DEF a
<1>6. a[0] = 0 /\ \A i \in 1..N : a[i] = 10 * a[i - 1] + s[i]
  BY <1>1, <1>5
<1>7. \A i \in 0..N : a[i] = f[i]
  <2> HIDE DEF N
  <2>1. GoOnAlike(a, f, N)
    BY <1>3, <1>6 DEF GoOnAlike
  <2> QED BY <1>1, <2>1, NeverDiffer
<1> HIDE DEF N
<1>8. N \in 0..N
  BY <1>1
<1>9. Numeral(s) = f[N]
  BY <1>2, <1>7, <1>8
<1> QED BY <1>3, <1>9 DEF N

LEMMA TenToRecurs ==
  ASSUME NEW e \in Nat
  PROVE  \E f \in [0..e -> Int] :
           f[0] = 1 /\ (\A i \in 1..e : f[i] = 10 * f[i - 1]) /\ TenTo(e) = f[e]
<1> DEFINE step(f, i) == IF i = 0 THEN 1 ELSE 10 * f[i - 1]
           a == CHOOSE f : f = [i \in 0..e |-> step(f, i)]
<1>1. TenTo(e) = a[e]
  BY DEF TenTo
<1>2. PICK f \in [0..e -> Int] : f[0] = 1 /\ \A i \in 1..e : f[i] = 10 * f[i - 1]
  <2> DEFINE w == [i \in 1..e |-> 0]
  <2>1. w \in [1..e -> Int]
    OBVIOUS
  <2>2. \E f \in [0..e -> Int] : Linear(f, e, 1, 10, w)
    <3> HIDE DEF w
    <3>1. 1 \in Int /\ 10 \in Int
      OBVIOUS
    <3> QED BY <2>1, <3>1, LinearSolved
  <2>3. PICK f \in [0..e -> Int] : Linear(f, e, 1, 10, w)
    BY <2>2
  <2>4. ASSUME NEW i \in 1..e PROVE f[i] = 10 * f[i - 1]
    <3>1. f[i] = 10 * f[i - 1] + 0 /\ f[i - 1] \in Int
      BY <2>3 DEF Linear
    <3> QED BY <3>1
  <2>5. f[0] = 1
    BY <2>3 DEF Linear
  <2> QED BY <2>4, <2>5
<1>3. f = [i \in 0..e |-> step(f, i)]
  <2>1. \A i \in 0..e : f[i] = step(f, i)
    BY <1>2
  <2>2. f = [i \in 0..e |-> f[i]]
    BY <1>2
  <2> HIDE DEF step
  <2> QED BY <2>1, <2>2
<1>4. a = [i \in 0..e |-> step(a, i)]
  <2> HIDE DEF step
  <2> QED BY <1>3
<1> HIDE DEF a
<1>5. a[0] = 1 /\ \A i \in 1..e : a[i] = 10 * a[i - 1]
  BY <1>4
<1>6. \A i \in 0..e : a[i] = f[i]
  <2>1. GoOnAlike(a, f, e)
    BY <1>2, <1>5 DEF GoOnAlike
  <2> QED BY <2>1, NeverDiffer
<1>7. TenTo(e) = f[e]
  BY <1>1, <1>6
<1> QED BY <1>2, <1>7

\* Zeros at the end multiply by ten,
LEMMA ZerosMultiply ==
  ASSUME NEW s \in Seq(Int), NEW e \in Nat
  PROVE  Numeral(s \o Zeros(e)) = Numeral(s) * TenTo(e)
<1> DEFINE u == s \o Zeros(e)
           L == Len(s)
<1>1. /\ L \in Nat /\ u \in Seq(Int) /\ Len(u) = L + e
      /\ \A i \in 1..L : u[i] = s[i]
      /\ \A i \in 1..e : u[L + i] = 0
  BY DEF Zeros
<1>2. PICK f \in [0..L -> Int] :
        /\ f[0] = 0 /\ \A i \in 1..L : f[i] = 10 * f[i - 1] + s[i]
        /\ Numeral(s) = f[L]
  BY NumeralRecurs
<1> HIDE DEF u, L
<1>3. PICK h \in [0..(L + e) -> Int] :
        /\ h[0] = 0 /\ \A i \in 1..(L + e) : h[i] = 10 * h[i - 1] + u[i]
        /\ Numeral(u) = h[L + e]
  BY <1>1, NumeralRecurs
<1>4. PICK p \in [0..e -> Int] :
        p[0] = 1 /\ (\A i \in 1..e : p[i] = 10 * p[i - 1]) /\ TenTo(e) = p[e]
  BY TenToRecurs
<1>5. \A i \in 0..L : h[i] = f[i]
  <2>1. GoOnAlike(h, f, L)
    BY <1>1, <1>2, <1>3 DEF GoOnAlike
  <2>2. L \in Nat
    BY <1>1
  <2> QED BY <2>1, <2>2, NeverDiffer
<1>6. \A j \in 0..e : h[L + j] = f[L] * p[j]
  <2> DEFINE a == [j \in 0..e |-> h[L + j]]
             b == [j \in 0..e |-> f[L] * p[j]]
  <2>1. a[0] = b[0]
    BY <1>1, <1>2, <1>4, <1>5
  <2>2. ASSUME NEW i \in 1..e, a[i - 1] = b[i - 1] PROVE a[i] = b[i]
    <3>1. h[L + (i - 1)] = f[L] * p[i - 1]
      BY <2>2
    <3>2. h[L + i] = 10 * h[L + (i - 1)]
      <4>1. L + i \in 1..(L + e) /\ (L + i) - 1 = L + (i - 1)
        BY <1>1
      <4>2. h[L + i] = 10 * h[(L + i) - 1] + u[L + i] /\ u[L + i] = 0
        BY <1>1, <1>3, <4>1
      <4>3. h[(L + i) - 1] \in Int
        BY <1>1, <1>3, <4>1
      <4> QED BY <4>1, <4>2, <4>3
    <3>3. p[i] = 10 * p[i - 1] /\ p[i - 1] \in Int /\ f[L] \in Int
      <4>1. i - 1 \in 0..e /\ L \in 0..L
        BY <1>1
      <4> QED BY <1>2, <1>4, <4>1
    <3>4. 10 * (f[L] * p[i - 1]) = f[L] * (10 * p[i - 1])
      BY <3>3
    <3> QED BY <3>1, <3>2, <3>3, <3>4
  <2> HIDE DEF a, b
  <2>3. GoOnAlike(a, b, e)
    BY <2>1, <2>2 DEF GoOnAlike
  <2>4. \A i \in 0..e : a[i] = b[i]
    BY <2>3, NeverDiffer
  <2> QED BY <2>4 DEF a, b
<1>7. Numeral(u) = f[L] * p[e]
  BY <1>3, <1>6
<1> QED BY <1>2, <1>4, <1>7 DEF u

\* zeros in front are worth nothing.
LEMMA ZerosVanish ==
  ASSUME NEW s \in Seq(Int), NEW z \in Nat
  PROVE  Numeral(<<0>> \o (Zeros(z) \o s)) = Numeral(s)
<1> DEFINE u == <<0>> \o (Zeros(z) \o s)
           L == Len(s)
           Z == z + 1
<1>1. /\ L \in Nat /\ Z \in Nat /\ u \in Seq(Int) /\ Len(u) = Z + L
      /\ \A i \in 1..Z : u[i] = 0
      /\ \A i \in 1..L : u[Z + i] = s[i]
  <2> DEFINE t == Zeros(z) \o s
  <2>1. /\ t \in Seq(Int) /\ Len(t) = z + L
        /\ \A i \in 1..z : t[i] = 0
        /\ \A i \in 1..L : t[z + i] = s[i]
    BY DEF Zeros
  <2> HIDE DEF t
  <2>2. /\ <<0>> \o t \in Seq(Int) /\ Len(<<0>> \o t) = 1 + Len(t) /\ (<<0>> \o t)[1] = 0
        /\ \A i \in 1..Len(t) : (<<0>> \o t)[1 + i] = t[i]
    BY <2>1
  <2>3. ASSUME NEW i \in 1..Z PROVE (<<0>> \o t)[i] = 0
    <3>1. CASE i = 1
      BY <2>2, <3>1
    <3>2. CASE i # 1
      <4>1. i - 1 \in 1..z /\ i - 1 \in 1..Len(t) /\ 1 + (i - 1) = i
        BY <2>1, <3>2
      <4> QED BY <2>1, <2>2, <4>1
    <3> QED BY <3>1, <3>2
  <2>4. ASSUME NEW i \in 1..L PROVE (<<0>> \o t)[Z + i] = s[i]
    <3>1. z + i \in 1..Len(t) /\ 1 + (z + i) = Z + i
      BY <2>1
    <3> QED BY <2>1, <2>2, <3>1
  <2>5. u = <<0>> \o t
    BY DEF t
  <2>6. u \in Seq(Int) /\ Len(u) = Z + L /\ L \in Nat /\ Z \in Nat
    <3>1. L \in Nat /\ Z \in Nat /\ Z = z + 1
      OBVIOUS
    <3> HIDE DEF u, L, Z
    <3> QED BY <2>1, <2>2, <2>5, <3>1
  <2> HIDE DEF u, L, Z
  <2> QED BY <2>3, <2>4, <2>5, <2>6
<1>2. PICK f \in [0..L -> Int] :
        /\ f[0] = 0 /\ \A i \in 1..L : f[i] = 10 * f[i - 1] + s[i]
        /\ Numeral(s) = f[L]
  BY NumeralRecurs
<1> HIDE DEF u, L, Z
<1>3. PICK h \in [0..(Z + L) -> Int] :
        /\ h[0] = 0 /\ \A i \in 1..(Z + L) : h[i] = 10 * h[i - 1] + u[i]
        /\ Numeral(u) = h[Z + L]
  BY <1>1, NumeralRecurs
<1>4. h[Z] = 0
  <2> DEFINE b == [i \in 0..Z |-> 0]
  <2>1. GoOnAlike(h, b, Z)
    BY <1>1, <1>3 DEF GoOnAlike
  <2> HIDE DEF b
  <2>2. \A i \in 0..Z : h[i] = b[i]
    BY <1>1, <2>1, NeverDiffer
  <2> QED BY <1>1, <2>2 DEF b
<1>5. \A i \in 0..L : h[Z + i] = f[i]
  <2> DEFINE a == [i \in 0..L |-> h[Z + i]]
  <2>1. a[0] = f[0]
    BY <1>1, <1>2, <1>4
  <2>2. ASSUME NEW i \in 1..L, a[i - 1] = f[i - 1] PROVE a[i] = f[i]
    <3>1. Z + i \in 1..(Z + L) /\ (Z + i) - 1 = Z + (i - 1)
      BY <1>1
    <3>2. h[Z + i] = 10 * h[Z + (i - 1)] + s[i]
      BY <1>1, <1>3, <3>1
    <3>3. h[Z + (i - 1)] = f[i - 1]
      <4>1. i - 1 \in 0..L
        BY <1>1
      <4> QED BY <2>2, <4>1
    <3> QED BY <1>2, <3>2, <3>3
  <2> HIDE DEF a
  <2>3. GoOnAlike(a, f, L)
    BY <2>1, <2>2 DEF GoOnAlike
  <2>4. \A i \in 0..L : a[i] = f[i]
    BY <1>1, <2>3, NeverDiffer
  <2> QED BY <2>4 DEF a
<1> QED BY <1>1, <1>2, <1>3, <1>5 DEF u

-----------------------------------------------------------------------------
(* What a cell shows.                                                      *)

LEMMA Digits ==
  ASSUME NEW s \in Seq(0..9)
  PROVE  s \in Seq(Int) /\ Len(s) \in Nat
OBVIOUS

LEMMA TenToNothing == TenTo(0) = 1
<1>1. PICK f \in [0..0 -> Int] :
        f[0] = 1 /\ (\A i \in 1..0 : f[i] = 10 * f[i - 1]) /\ TenTo(0) = f[0]
  BY TenToRecurs
<1> QED BY <1>1

LEMMA NumeralTyped ==
  ASSUME NEW s \in Seq(Int)
  PROVE  Numeral(s) \in Int
<1>1. PICK f \in [0..Len(s) -> Int] :
        /\ f[0] = 0 /\ \A i \in 1..Len(s) : f[i] = 10 * f[i - 1] + s[i]
        /\ Numeral(s) = f[Len(s)]
  BY NumeralRecurs
<1>2. Len(s) \in 0..Len(s)
  OBVIOUS
<1> QED BY <1>1, <1>2

\* pgNumericString: for any digits and any exponent, the point and the zeros keep
\* the value.
THEOREM NumericExact ==
  ASSUME NEW v, NEW t, t = NumericText(v),
         v.digits \in Seq(0..9) \ {<< >>}, v.exp \in Int
  PROVE  /\ t.neg = v.neg /\ t.whole # << >> /\ t.whole \in Seq(Int) /\ t.frac \in Seq(Int)
         /\ v.exp + Len(t.frac) >= 0
         /\ Numeral(t.whole \o t.frac) = Numeral(v.digits) * TenTo(v.exp + Len(t.frac))
<1> DEFINE d == v.digits
           e == v.exp
           len == Len(d)
           w == len + e
<1>1. d \in Seq(Int) /\ len \in Nat /\ len > 0 /\ e \in Int /\ w \in Int /\ w = len + e
  BY Digits
<1>2. Numeral(d) * TenTo(0) = Numeral(d)
  BY <1>1, NumeralTyped, TenToNothing
<1>3. t = IF e >= 0 THEN [neg |-> v.neg, whole |-> d \o Zeros(e), frac |-> << >>]
          ELSE IF w <= 0 THEN [neg |-> v.neg, whole |-> <<0>>, frac |-> Zeros(-w) \o d]
          ELSE [neg |-> v.neg, whole |-> SubSeq(d, 1, w), frac |-> SubSeq(d, w + 1, len)]
  BY DEF NumericText
<1>4. \A n \in Nat : Zeros(n) \in Seq(Int) /\ Len(Zeros(n)) = n
  BY DEF Zeros
<1> HIDE DEF d, e, len, w
<1>5. CASE e >= 0
  <2>1. t.neg = v.neg /\ t.whole = d \o Zeros(e) /\ t.frac = << >>
    BY <1>3, <1>5
  <2>2. e \in Nat /\ Len(t.frac) = 0 /\ e + Len(t.frac) = e
    BY <1>1, <1>5, <2>1
  <2>3. t.whole \in Seq(Int) /\ t.whole # << >> /\ t.frac \in Seq(Int)
        /\ t.whole \o t.frac = t.whole
    BY <1>1, <1>4, <2>1, <2>2 DEF len
  <2>4. Numeral(d \o Zeros(e)) = Numeral(d) * TenTo(e)
    BY <1>1, <2>2, ZerosMultiply
  <2> QED BY <1>5, <2>1, <2>2, <2>3, <2>4 DEF d, e
<1>6. CASE ~(e >= 0) /\ w <= 0
  <2>1. t.neg = v.neg /\ t.whole = <<0>> /\ t.frac = Zeros(-w) \o d
    BY <1>3, <1>6
  <2>2. -w \in Nat
    BY <1>1, <1>6
  <2>3. t.frac \in Seq(Int) /\ Len(t.frac) = -w + len /\ t.whole \in Seq(Int)
        /\ t.whole # << >>
    <3>1. Zeros(-w) \in Seq(Int) /\ Len(Zeros(-w)) = -w
      BY <1>4, <2>2
    <3>2. t.frac \in Seq(Int) /\ Len(t.frac) = Len(Zeros(-w)) + Len(d)
      BY <1>1, <2>1, <3>1
    <3>3. t.whole \in Seq(Int) /\ t.whole # << >>
      BY <2>1
    <3> QED BY <3>1, <3>2, <3>3 DEF len
  <2>4. e + Len(t.frac) = 0
    BY <1>1, <2>3
  <2>5. Numeral(<<0>> \o (Zeros(-w) \o d)) = Numeral(d)
    BY <1>1, <2>2, ZerosVanish
  <2>6. Numeral(t.whole \o t.frac) = Numeral(d) * TenTo(0)
    BY <1>2, <2>1, <2>5
  <2>7. e + Len(t.frac) >= 0 /\ TenTo(e + Len(t.frac)) = TenTo(0)
    BY <2>4
  <2> QED BY <2>1, <2>3, <2>6, <2>7 DEF d, e
<1>7. CASE ~(e >= 0) /\ ~(w <= 0)
  <2>1. t.neg = v.neg /\ t.whole = SubSeq(d, 1, w) /\ t.frac = SubSeq(d, w + 1, len)
    <3> DEFINE front == SubSeq(d, 1, w)
               back == SubSeq(d, w + 1, len)
    <3>1. t = [neg |-> v.neg, whole |-> front, frac |-> back]
      BY <1>3, <1>7
    <3> HIDE DEF front, back
    <3>2. t.neg = v.neg /\ t.whole = front /\ t.frac = back
      BY <3>1
    <3> QED BY <3>2 DEF front, back
  <2>2. w \in 1..len
    BY <1>1, <1>7
  <2>3. /\ t.whole \in Seq(Int) /\ Len(t.whole) = w /\ t.whole # << >>
        /\ t.frac \in Seq(Int) /\ Len(t.frac) = len - w
    BY <1>1, <2>1, <2>2 DEF len
  <2>4. t.whole \o t.frac = d
    BY <1>1, <2>1, <2>2 DEF len
  <2>5. e + Len(t.frac) = 0
    BY <1>1, <2>3
  <2>6. Numeral(t.whole \o t.frac) = Numeral(d) * TenTo(0)
    BY <1>2, <2>4
  <2> QED BY <2>1, <2>3, <2>5, <2>6 DEF d, e
<1> QED BY <1>5, <1>6, <1>7

LEMMA QuotientRest ==
  ASSUME NEW a \in Int, NEW b \in Int, b > 0
  PROVE  a = b * (a \div b) + (a % b)
OBVIOUS

\* A number of units splits into hours, minutes, seconds and the rest.
LEMMA ClockParts ==
  ASSUME NEW us \in Nat, NEW M \in Nat \ {0}
  PROVE  LET h == us \div (60 * 60 * M)
             m == (us \div (60 * M)) % 60
             s == (us \div M) % 60
             r == us % M
         IN /\ m < 60 /\ s < 60 /\ r < M
            /\ ((h * 60 + m) * 60 + s) * M + r = us
<1> DEFINE q == us \div M
           p == q \div 60
<1>1. us \div (60 * M) = p /\ us \div (60 * 60 * M) = p \div 60
  OBVIOUS
<1>2. q \in Nat /\ us % M \in Nat /\ us % M < M
  OBVIOUS
<1>3. us = M * q + (us % M)
  <2>1. us \in Int /\ M \in Int /\ M > 0
    OBVIOUS
  <2> QED BY <2>1, QuotientRest, Zenon
<1> HIDE DEF q
<1>4. p \in Nat /\ q % 60 \in Nat /\ q % 60 < 60
  BY <1>2
<1>5. q = 60 * p + (q % 60)
  <2>1. q \in Int /\ 60 \in Int /\ 60 > 0
    BY <1>2
  <2> QED BY <2>1, QuotientRest, Zenon
<1> HIDE DEF p
<1>6. p \div 60 \in Nat /\ p % 60 \in Nat /\ p % 60 < 60
  BY <1>4
<1>7. p = 60 * (p \div 60) + (p % 60)
  <2>1. p \in Int /\ 60 \in Int /\ 60 > 0
    BY <1>4
  <2> QED BY <2>1, QuotientRest, Zenon
<1>8. ((p \div 60) * 60 + (p % 60)) * 60 + (q % 60) = q
  BY <1>4, <1>5, <1>6, <1>7
<1>9. q * M + (us % M) = us
  BY <1>2, <1>3
<1> DEFINE h == us \div (60 * 60 * M)
           m == (us \div (60 * M)) % 60
           s == (us \div M) % 60
           r == us % M
<1>10. h = p \div 60 /\ m = p % 60 /\ s = q % 60
  BY <1>1 DEF q
<1>11. r < M /\ q * M + r = us
  BY <1>2, <1>9
<1> HIDE DEF h, m, s, r
<1>12. (h * 60 + m) * 60 + s = q /\ m < 60 /\ s < 60
  BY <1>4, <1>6, <1>8, <1>10
<1>13. m < 60 /\ s < 60 /\ r < M /\ ((h * 60 + m) * 60 + s) * M + r = us
  BY <1>11, <1>12
<1> QED BY <1>13, Zenon DEF h, m, s, r

\* The parts of a cell.
LEMMA CellForm ==
  ASSUME NEW a, NEW b, NEW n, NEW c, c = Cell(a, b, n)
  PROVE  c.is = a /\ c.val = b /\ c.size = n
BY DEF Cell

LEMMA FailureForm ==
  /\ Unrepresentable.is = "error" /\ Unrepresentable.size = 0
  /\ TooLarge.is = "error" /\ TooLarge.size = 0
  /\ NullCell.is = "null" /\ NullCell.size = 0
BY DEF Unrepresentable, TooLarge, NullCell, Cell

\* A numeral that is shown is the number that was read.
LEMMA NumberShown ==
  ASSUME NEW v, v.is \in {"int", "numeric"},
         v.digits \in Seq(0..9) \ {<<>>}, v.exp \in Int
  PROVE  Shows(v, DecimalCell(v))
<1> DEFINE t == NumericText(v)
           size == NumeralSize(t)
           cell == DecimalCell(v)
<1>1. cell = Cell("digits", t, size)
  BY DEF DecimalCell
<1>2. /\ t.neg = v.neg /\ t.whole # << >> /\ v.exp + Len(t.frac) >= 0
      /\ Numeral(t.whole \o t.frac) = Numeral(v.digits) * TenTo(v.exp + Len(t.frac))
  BY NumericExact
<1> HIDE DEF t, size, cell
<1>3. cell.is = "digits" /\ cell.val = t
  BY <1>1, CellForm
<1>4. v.is \notin {"null", "pgtime_null"}
  OBVIOUS
<1>5. Shows(v, cell)
  BY <1>2, <1>3, <1>4 DEF Shows
<1> QED BY <1>5 DEF cell

\* A time of day that is shown is the one that was read.
LEMMA TimeShown ==
  ASSUME NEW v, v.is = "pgtime", v.micros \in Int, PGTimeCell(v.micros).is # "error"
  PROVE  Shows(v, PGTimeCell(v.micros))
<1> DEFINE us == v.micros
           M == MicrosPerSecond
           h == us \div (60 * 60 * M)
           m == (us \div (60 * M)) % 60
           s == (us \div M) % 60
           r == us % M
           cell == PGTimeCell(us)
<1>1. M \in Nat \ {0}
  BY BudgetsPositive
<1>2. ~(us < 0 \/ us > MicrosPerDay)
  BY FailureForm, Zenon DEF PGTimeCell
<1>3. us \in Nat
  BY <1>2
<1>4. cell = Cell("clock", <<h, m, s, r>>, 32)
  BY <1>2, Zenon DEF PGTimeCell
<1>5. m < 60 /\ s < 60 /\ r < M /\ ((h * 60 + m) * 60 + s) * M + r = us
  <2> HIDE DEF us, M
  <2> QED BY <1>1, <1>3, ClockParts, Zenon
<1> HIDE DEF h, m, s, r, cell
<1>6. /\ cell.is = "clock" /\ cell.val[1] = h /\ cell.val[2] = m
      /\ cell.val[3] = s /\ cell.val[4] = r
  <2> DEFINE q == <<h, m, s, r>>
  <2>1. cell = Cell("clock", q, 32)
    BY <1>4
  <2>2. q[1] = h /\ q[2] = m /\ q[3] = s /\ q[4] = r
    OBVIOUS
  <2> HIDE DEF q
  <2>3. cell.is = "clock" /\ cell.val = q
    BY <2>1, CellForm
  <2> QED BY <2>2, <2>3
<1>7. Shows(v, cell)
  <2>1. /\ cell.val[2] < 60 /\ cell.val[3] < 60 /\ cell.val[4] < MicrosPerSecond
        /\ ((cell.val[1] * 60 + cell.val[2]) * 60 + cell.val[3]) * MicrosPerSecond
             + cell.val[4] = v.micros
    BY <1>5, <1>6, Zenon DEF us, M
  <2>2. v.is \notin {"null", "pgtime_null"} /\ v.is \notin {"int", "numeric"}
    OBVIOUS
  <2> QED BY <1>6, <2>1, <2>2, Zenon DEF Shows
<1> QED BY <1>7 DEF cell

\* timeString and formatPGTime: every time of day from 00:00 to 24:00 is shown as
\* itself, hours, minutes, seconds and microseconds each in range; any other is
\* refused, never shown as another time.
THEOREM ClockExact ==
  ASSUME NEW v, v.is = "pgtime", v.micros \in Int
  PROVE  IF v.micros \in 0..MicrosPerDay
         THEN Shows(v, TimeCell(v))
         ELSE TimeCell(v) = Unrepresentable
<1>1. TimeCell(v) = PGTimeCell(v.micros)
  BY DEF TimeCell
<1>2. MicrosPerDay \in Int
  BY BudgetsPositive DEF MicrosPerDay
<1>3. CASE v.micros \in 0..MicrosPerDay
  <2>1. PGTimeCell(v.micros).is = "clock"
    BY <1>2, <1>3 DEF PGTimeCell, Cell
  <2>2. Shows(v, PGTimeCell(v.micros))
    BY <2>1, TimeShown
  <2> QED BY <1>1, <1>3, <2>2
<1>4. CASE v.micros \notin 0..MicrosPerDay
  <2>1. v.micros < 0 \/ v.micros > MicrosPerDay
    BY <1>2, <1>4
  <2>2. PGTimeCell(v.micros) = Unrepresentable
    BY <2>1, Zenon DEF PGTimeCell
  <2> QED BY <1>1, <1>4, <2>2
<1> QED BY <1>3, <1>4

\* A cell that is not refused shows the value that was read.
LEMMA CellShows ==
  ASSUME NEW type, NEW v, Measured(v), WireCell(type, v).is # "error"
  PROVE  Shows(v, WireCell(type, v))
<1> DEFINE cell == WireCell(type, v)
<1>1. CASE v.is = "null"
  <2>1. cell.is = "null"
    BY <1>1, FailureForm, Zenon DEF WireCell
  <2> HIDE DEF cell
  <2>2. Shows(v, cell)
    BY <1>1, <2>1 DEF Shows
  <2> QED BY <2>2 DEF cell
<1>2. CASE v.is \in {"int", "numeric"}
  <2>1. TimeCell(v).is = "error" /\ BinaryCell(v).is = "error" /\ JSONCell(v).is = "error"
    BY <1>2, FailureForm DEF TimeCell, BinaryCell, JSONCell
  <2>2. cell = DecimalCell(v)
    BY <1>2, <2>1, FailureForm DEF WireCell
  <2>3. Shows(v, DecimalCell(v))
    BY <1>2, NumberShown DEF Measured
  <2> QED BY <2>2, <2>3
<1>3. CASE v.is = "pgtime"
  <2>1. DecimalCell(v).is = "error" /\ BinaryCell(v).is = "error" /\ JSONCell(v).is = "error"
    BY <1>3, FailureForm DEF DecimalCell, BinaryCell, JSONCell
  <2>2. TimeCell(v) = PGTimeCell(v.micros)
    BY <1>3, Zenon DEF TimeCell
  <2>3. cell = PGTimeCell(v.micros)
    BY <1>3, <2>1, <2>2, FailureForm DEF WireCell
  <2>4. v.micros \in Int
    BY <1>3 DEF Measured
  <2> QED BY <1>3, <2>3, <2>4, TimeShown
<1>4. CASE v.is = "pgtime_null"
  <2>1. DecimalCell(v).is = "error" /\ BinaryCell(v).is = "error" /\ JSONCell(v).is = "error"
    BY <1>4, FailureForm DEF DecimalCell, BinaryCell, JSONCell
  <2>2. TimeCell(v) = NullCell
    BY <1>4 DEF TimeCell
  <2>3. cell.is = "null"
    BY <1>4, <2>1, <2>2, FailureForm DEF WireCell
  <2> HIDE DEF cell
  <2>4. Shows(v, cell)
    BY <1>4, <2>3 DEF Shows
  <2> QED BY <2>4 DEF cell
<1>5. CASE v.is \notin {"null", "pgtime_null", "int", "numeric", "pgtime"}
  <2> DEFINE Solid(c) == c.is # "null"
  <2>1. \A is, val, size : is # "null" => Solid(Cell(is, val, size))
    BY DEF Cell
  <2>2. Solid(Unrepresentable) /\ Solid(TooLarge)
    BY FailureForm
  <2> HIDE DEF Solid
  <2>3. Solid(DecimalCell(v)) /\ Solid(TimeCell(v)) /\ Solid(BinaryCell(v)) /\ Solid(JSONCell(v))
    BY <1>5, <2>1, <2>2 DEF DecimalCell, TimeCell, BinaryCell, JSONCell
  <2>4. Solid(cell)
    BY <1>5, <2>1, <2>2, <2>3 DEF WireCell
  <2>5. cell.is # "null" /\ cell.is # "error"
    BY <2>4 DEF Solid
  <2> HIDE DEF cell
  <2>6. Shows(v, cell)
    BY <1>5, <2>5 DEF Shows
  <2> QED BY <2>6 DEF cell
<1> QED BY <1>1, <1>2, <1>3, <1>4, <1>5

\* Every cell has a size,
LEMMA NumeralSizeTyped ==
  ASSUME NEW t, t.whole \in Seq(Int), t.frac \in Seq(Int)
  PROVE  NumeralSize(t) \in Int
<1>1. Len(t.whole) \in Int /\ Len(t.frac) \in Int
  OBVIOUS
<1> QED BY <1>1 DEF NumeralSize

LEMMA SizeTyped ==
  ASSUME NEW type, NEW v, Measured(v)
  PROVE  WireCell(type, v).size \in Int
<1> DEFINE Weighed(c) == c.size \in Int
<1>1. \A is, val, size : size \in Int => Weighed(Cell(is, val, size))
  BY DEF Cell
<1>2. Weighed(Unrepresentable) /\ Weighed(TooLarge) /\ Weighed(NullCell)
  BY FailureForm
<1>3. v.is \in {"int", "numeric"} => NumeralSize(NumericText(v)) \in Int
  <2> SUFFICES ASSUME v.is \in {"int", "numeric"} PROVE NumeralSize(NumericText(v)) \in Int
    OBVIOUS
  <2> DEFINE t == NumericText(v)
  <2>1. t.whole \in Seq(Int) /\ t.frac \in Seq(Int)
    BY NumericExact DEF Measured
  <2> HIDE DEF t
  <2>2. NumeralSize(t) \in Int
    BY <2>1, NumeralSizeTyped
  <2> QED BY <2>2 DEF t
<1>4. v.is \in {"string", "bytes", "document", "float", "special", "stringer"} =>
        v.bytes \in Int /\ v.encoded \in Int /\ 4 * ((v.bytes + 2) \div 3) \in Int
  <2> SUFFICES ASSUME v.is \in {"string", "bytes", "document", "float", "special", "stringer"}
               PROVE  v.bytes \in Int /\ v.encoded \in Int /\ 4 * ((v.bytes + 2) \div 3) \in Int
    OBVIOUS
  <2>1. v.bytes \in Nat /\ v.encoded \in Nat
    BY DEF Measured
  <2> QED BY <2>1
<1>5. \A n \in {1, 8, 32, 36} : n \in Int
  OBVIOUS
<1> HIDE DEF Weighed
<1>6. Weighed(DecimalCell(v))
  <2> DEFINE t == NumericText(v)
             size == NumeralSize(t)
  <2>1. v.is \in {"int", "numeric"} => Weighed(Cell("digits", t, size))
    BY <1>1, <1>3
  <2> HIDE DEF t, size
  <2> QED BY <1>1, <1>2, <1>4, <2>1 DEF DecimalCell, t, size
<1>7. Weighed(TimeCell(v))
  <2>1. \A us : Weighed(PGTimeCell(us))
    <3> SUFFICES ASSUME NEW us PROVE Weighed(PGTimeCell(us))
      OBVIOUS
    <3> DEFINE q == <<us \div (60 * 60 * MicrosPerSecond),
                      (us \div (60 * MicrosPerSecond)) % 60,
                      (us \div MicrosPerSecond) % 60, us % MicrosPerSecond>>
    <3>1. PGTimeCell(us) = Unrepresentable \/ PGTimeCell(us) = Cell("clock", q, 32)
      BY DEF PGTimeCell
    <3> HIDE DEF q
    <3> QED BY <1>1, <1>2, <1>5, <3>1
  <2> QED BY <1>1, <1>2, <1>4, <1>5, <2>1 DEF TimeCell
<1>8. Weighed(BinaryCell(v)) /\ Weighed(JSONCell(v))
  BY <1>1, <1>2, <1>4 DEF BinaryCell, JSONCell
<1>9. Weighed(WireCell(type, v))
  BY <1>1, <1>2, <1>4, <1>5, <1>6, <1>7, <1>8 DEF WireCell
<1> QED BY <1>9 DEF Weighed

\* and their sum is what rowBytes comes to.
LEMMA SizesTyped ==
  ASSUME NEW c, NEW N \in Nat, N = Len(c), \A i \in 1..N : c[i].size \in Int
  PROVE  Sizes(c)[0] = 0 /\ \A i \in 0..N : Sizes(c)[i] \in Int
<1> DEFINE step(f, i) == IF i = 0 THEN 0 ELSE f[i - 1] + c[i].size
           a == CHOOSE f : f = [i \in 0..N |-> step(f, i)]
<1>1. Sizes(c) = a
  BY DEF Sizes
<1>2. PICK f \in [0..N -> Int] : f[0] = 0 /\ \A i \in 1..N : f[i] = f[i - 1] + c[i].size
  <2> DEFINE w == [i \in 1..N |-> c[i].size]
  <2>1. w \in [1..N -> Int]
    OBVIOUS
  <2>2. \E f \in [0..N -> Int] : Linear(f, N, 0, 1, w)
    <3> HIDE DEF w
    <3>1. 0 \in Int /\ 1 \in Int
      OBVIOUS
    <3> QED BY <2>1, <3>1, LinearSolved
  <2>3. PICK f \in [0..N -> Int] : Linear(f, N, 0, 1, w)
    BY <2>2
  <2>4. ASSUME NEW i \in 1..N PROVE f[i] = f[i - 1] + c[i].size
    <3>1. f[i] = 1 * f[i - 1] + c[i].size /\ f[i - 1] \in Int
      BY <2>3 DEF Linear
    <3> QED BY <3>1
  <2>5. f[0] = 0
    BY <2>3 DEF Linear
  <2> QED BY <2>4, <2>5
<1>3. f = [i \in 0..N |-> step(f, i)]
  <2>1. \A i \in 0..N : f[i] = step(f, i)
    BY <1>2
  <2>2. f = [i \in 0..N |-> f[i]]
    BY <1>2
  <2> HIDE DEF step
  <2> QED BY <2>1, <2>2
<1>4. a = [i \in 0..N |-> step(a, i)]
  <2> HIDE DEF step
  <2> QED BY <1>3
<1> HIDE DEF a
<1>5. a[0] = 0 /\ \A i \in 1..N : a[i] = a[i - 1] + c[i].size
  BY <1>4
<1>6. \A i \in 0..N : a[i] = f[i]
  <2>1. GoOnAlike(a, f, N)
    BY <1>2, <1>5 DEF GoOnAlike
  <2> QED BY <2>1, NeverDiffer
<1> QED BY <1>1, <1>2, <1>5, <1>6

\* What a cell or a row fails with.
WireErrors == {"database_error", "result_too_large"}

LEMMA CellErrors ==
  ASSUME NEW type, NEW v, WireCell(type, v).is = "error"
  PROVE  WireCell(type, v).val \in WireErrors
<1> DEFINE Fine(c) == c.is = "error" => c.val \in WireErrors
<1>1. \A is, val, size : is # "error" => Fine(Cell(is, val, size))
  BY DEF Cell
<1>2. Fine(Unrepresentable) /\ Fine(TooLarge) /\ Fine(NullCell)
  BY DEF Unrepresentable, TooLarge, NullCell, Cell, WireErrors
<1> HIDE DEF Fine
<1>3. Fine(DecimalCell(v)) /\ Fine(TimeCell(v)) /\ Fine(BinaryCell(v)) /\ Fine(JSONCell(v))
  BY <1>1, <1>2 DEF DecimalCell, TimeCell, PGTimeCell, BinaryCell, JSONCell
<1>4. Fine(WireCell(type, v))
  BY <1>1, <1>2, <1>3 DEF WireCell
<1> QED BY <1>4 DEF Fine

LEMMA RowForm ==
  ASSUME NEW a, NEW b, NEW x, x = [error |-> a, cells |-> b]
  PROVE  x.error = a /\ x.cells = b
OBVIOUS

LEMMA ResultForm ==
  ASSUME NEW a, NEW b, NEW x, x = [error |-> a, rows |-> b]
  PROVE  x.error = a /\ x.rows = b
OBVIOUS

\* A row is refused, or shown cell by cell and within its budget.
ShownExactly(row, shown) ==
  /\ DOMAIN shown = DOMAIN row
  /\ \A i \in DOMAIN shown : Shows(row[i], shown[i])
  /\ Sizes(shown)[Len(shown)] <= MaxRowBytes

LEMMA RowTold ==
  ASSUME NEW types, NEW row, Listed(row), \A i \in DOMAIN row : Measured(row[i])
  PROVE  \/ WireRow(types, row).error \in WireErrors
         \/ /\ WireRow(types, row).error = ""
            /\ ShownExactly(row, WireRow(types, row).cells)
<1> DEFINE shown == [i \in DOMAIN row |-> WireCell(types[i], row[i])]
           size == Sizes(shown)
           failed == {i \in DOMAIN row :
                        \/ shown[i].is = "error"
                        \/ types[i] # "binary" /\ shown[i].size > MaxCellBytes
                        \/ size[i] > MaxRowBytes}
           first == CHOOSE i \in failed : \A j \in failed : i <= j
<1>1. /\ failed = {} => WireRow(types, row).error = "" /\ WireRow(types, row).cells = shown
      /\ failed # {} => WireRow(types, row).error =
           IF shown[first].is = "error" THEN shown[first].val ELSE "result_too_large"
  <2>1. WireRow(types, row) =
          IF failed = {} THEN [error |-> "", cells |-> shown]
          ELSE [error |-> IF shown[first].is = "error" THEN shown[first].val
                          ELSE "result_too_large", cells |-> << >>]
    BY DEF WireRow
  <2> HIDE DEF shown, failed, first
  <2>2. CASE failed = {}
    BY <2>1, <2>2, RowForm, Zenon
  <2>3. CASE failed # {}
    <3> DEFINE e == IF shown[first].is = "error" THEN shown[first].val
                    ELSE "result_too_large"
               none == << >>
    <3>1. WireRow(types, row) = [error |-> e, cells |-> none]
      BY <2>1, <2>3
    <3>2. e = IF shown[first].is = "error" THEN shown[first].val ELSE "result_too_large"
      OBVIOUS
    <3> HIDE DEF e, none
    <3>3. WireRow(types, row).error = e
      BY <3>1, RowForm, Zenon
    <3> QED BY <2>3, <3>2, <3>3
  <2> QED BY <2>2, <2>3
<1>2. \A i \in DOMAIN row : shown[i].is = "error" => shown[i].val \in WireErrors
  BY CellErrors
<1>3. failed \in SUBSET DOMAIN row /\ failed \in SUBSET Nat
  BY DEF Listed
<1>4. \A i \in DOMAIN row : i \notin failed => shown[i].is # "error" /\ ~(size[i] > MaxRowBytes)
  OBVIOUS
<1>5. \A i \in DOMAIN row : shown[i].is # "error" => Shows(row[i], shown[i])
  BY CellShows
<1>6. \A i \in DOMAIN row : shown[i].size \in Int
  BY SizeTyped
<1>7. PICK N \in Nat : N = Len(shown) /\ DOMAIN row = 1..N /\ DOMAIN shown = 1..N
  <2>1. Len(row) \in Nat /\ DOMAIN row = 1..Len(row)
    <3>1. MaxInt32 \in Nat
      BY SMT DEF MaxInt32
    <3> QED BY <3>1 DEF Listed
  <2>2. DOMAIN shown = 1..Len(row) /\ Len(shown) = Len(row)
    BY <2>1
  <2> HIDE DEF shown
  <2> QED BY <2>1, <2>2
<1> HIDE DEF failed, shown, size
<1>8. failed # {} => first \in failed
  BY <1>3, Smallest
<1> HIDE DEF first
<1>9. CASE failed # {}
  BY <1>1, <1>2, <1>3, <1>8, <1>9 DEF WireErrors
<1>10. CASE failed = {}
  <2>1. \A i \in DOMAIN shown : Shows(row[i], shown[i])
    BY <1>4, <1>5, <1>7, <1>10
  <2>2. size[0] = 0 /\ \A i \in 0..N : size[i] \in Int
    <3>1. \A i \in 1..N : shown[i].size \in Int
      BY <1>6, <1>7
    <3> QED BY <1>7, <3>1, SizesTyped DEF size
  <2>3. MaxRowBytes \in Nat
    BY BudgetsPositive
  <2>4. size[N] <= MaxRowBytes
    <3>1. CASE N = 0
      BY <2>2, <2>3, <3>1
    <3>2. CASE N # 0
      <4>1. N \in 1..N /\ N \in 0..N
        BY <3>2
      <4>2. ~(size[N] > MaxRowBytes) /\ size[N] \in Int
        BY <1>4, <1>7, <1>10, <2>2, <4>1
      <4> QED BY <2>3, <4>2
    <3> QED BY <3>1, <3>2
  <2>5. ShownExactly(row, shown)
    BY <1>7, <2>1, <2>4 DEF ShownExactly, size
  <2> QED BY <1>1, <1>10, <2>5
<1> QED BY <1>9, <1>10

\* A result is told whole and exactly, or not at all.
LEMMA WireWhole ==
  ASSUME NEW engine \in Dialect, NEW r \in Results[engine]
  PROVE  /\ ToWireResult(engine, r).error \in WireErrors \cup {""}
         /\ ToWireResult(engine, r).error = "" =>
              /\ Len(ToWireResult(engine, r).rows) = Len(r.rows)
              /\ DOMAIN ToWireResult(engine, r).rows = DOMAIN r.rows
              /\ \A i \in DOMAIN r.rows :
                   ShownExactly(r.rows[i], ToWireResult(engine, r).rows[i])
<1> DEFINE types == [i \in DOMAIN r.columns |-> WireType(engine, r.columns[i])]
           lines == [i \in DOMAIN r.rows |-> WireRow(types, r.rows[i])]
           failed == {i \in DOMAIN lines : lines[i].error # ""}
           first == CHOOSE i \in failed : \A j \in failed : i <= j
           told == [i \in DOMAIN lines |-> lines[i].cells]
<1>1. /\ ToWireResult(engine, r).error = IF failed # {} THEN lines[first].error ELSE ""
      /\ failed = {} => ToWireResult(engine, r).rows = told
  <2>1. ToWireResult(engine, r) =
          IF failed # {} THEN [error |-> lines[first].error, rows |-> << >>]
          ELSE [error |-> "", rows |-> told]
    BY DEF ToWireResult
  <2> HIDE DEF lines, failed, first, told
  <2>2. CASE failed # {}
    <3> DEFINE none == << >>
               e == lines[first].error
    <3>1. ToWireResult(engine, r) = [error |-> e, rows |-> none]
      BY <2>1, <2>2
    <3>2. e = lines[first].error
      OBVIOUS
    <3> HIDE DEF none, e
    <3>3. ToWireResult(engine, r).error = e
      BY <3>1, ResultForm, Zenon
    <3> QED BY <2>2, <3>2, <3>3
  <2>3. CASE failed = {}
    BY <2>1, <2>3, ResultForm, Zenon
  <2> QED BY <2>2, <2>3
<1>2. /\ Listed(r.rows)
      /\ \A i \in DOMAIN r.rows :
           Listed(r.rows[i]) /\ \A j \in DOMAIN r.rows[i] : Measured(r.rows[i][j])
  BY ResultsCapped
<1>3. DOMAIN lines = DOMAIN r.rows /\ DOMAIN told = DOMAIN r.rows
  OBVIOUS
<1>4. \A i \in DOMAIN r.rows :
        \/ lines[i].error \in WireErrors
        \/ lines[i].error = "" /\ ShownExactly(r.rows[i], lines[i].cells)
  <2> HIDE DEF types
  <2> QED BY <1>2, RowTold
<1>5. failed \in SUBSET DOMAIN r.rows /\ failed \in SUBSET Nat
  <2>1. failed \in SUBSET DOMAIN lines
    OBVIOUS
  <2>2. DOMAIN r.rows \in SUBSET Nat
    BY <1>2 DEF Listed
  <2> HIDE DEF failed, lines
  <2> QED BY <1>3, <2>1, <2>2
<1>6. \A i \in failed : lines[i].error # ""
  OBVIOUS
<1>10. \A i \in DOMAIN r.rows : i \notin failed => lines[i].error = ""
  OBVIOUS
<1>11. \A i \in DOMAIN r.rows : told[i] = lines[i].cells
  OBVIOUS
<1>12. "" \notin WireErrors
  BY DEF WireErrors
<1> HIDE DEF lines, failed
<1>7. failed # {} => first \in failed
  BY <1>5, Smallest
<1>8. Len(told) = Len(r.rows)
  <2>1. Len(r.rows) \in Nat /\ DOMAIN told = 1..Len(r.rows)
    <3>1. MaxInt32 \in Nat
      BY SMT DEF MaxInt32
    <3> QED BY <1>2, <1>3, <3>1 DEF Listed
  <2> QED BY <2>1
<1> HIDE DEF first, told
<1>9. failed # {} => lines[first].error \in WireErrors /\ lines[first].error # ""
  BY <1>4, <1>5, <1>6, <1>7
<1>13. failed = {} => \A i \in DOMAIN r.rows : ShownExactly(r.rows[i], told[i])
  BY <1>4, <1>10, <1>11, <1>12
<1> QED BY <1>1, <1>3, <1>8, <1>9, <1>12, <1>13

-----------------------------------------------------------------------------
(* The invariant.                                                          *)

Typed ==
  /\ req.kind \in {"connections", "browse", "execute", "test"}
  /\ req.conn \in Conn /\ req.text.trees \in Seq(Tree)
  /\ role \in Roles /\ conns \subseteq Conn /\ policy \in [Conn -> Policies]
  /\ pc \in {"received", "member", "connection", "list", "judge", "policy", "credential",
             "refuse", "run", "target", "finish", "audit", "convert", "report", "answered"}

\* Which requests get where, and nobody is answered before the end.
Route ==
  /\ pc = "list" => req.kind = "connections"
  /\ pc \in {"judge", "run", "finish", "audit", "convert"} => Execute
  /\ pc = "report" => req.kind = "test"
  /\ pc \in {"connection", "policy", "credential", "refuse", "target"} =>
       req.kind # "connections"
  /\ pc = "policy" => req.kind # "test"
  /\ pc = "refuse" => req.kind # "browse"
  /\ pc # "answered" => answer = Unanswered

\* What was found to be allowed on the way stays in the history.
Membership == IF req.kind = "test" THEN "manager" ELSE "member"
Entitled ==
  /\ Held(role, conns, policy) \subseteq rights
  /\ pc \notin {"received", "member", "answered"} => Membership \in rights
  /\ pc \notin {"received", "member", "connection", "list", "answered"} =>
       "connection" \in rights
  /\ pc \in {"credential", "run", "target"} => req.kind = "test" \/ "read" \in rights

\* Only statements the policy allows get past the judgement.
Judged ==
  Execute /\ (pc \in {"policy", "credential", "run", "target"} \/ touched) =>
    Judge(Conn1.engine, req.text) = "allowed"

\* The record of an execution on its way to the answer.
Running(status) == exec = [status |-> status, code |-> ""] /\ code = ""
PostCodes ==
  {MapAdapter(c) : c \in AdapterCodes}
    \cup {"unsupported_query", "pagination_capacity_exhausted", "internal_error", ""}
Records ==
  Execute =>
    /\ pc # "answered" => ~faulted
    /\ pc \notin {"convert", "answered"} => trail = << >>
    /\ pc \in {"received", "member", "connection", "judge"} => exec = NoExec /\ code = ""
    /\ pc \in {"policy", "credential", "run"} => Running("pending")
    /\ pc = "refuse" =>
         /\ exec = [status |-> "pending", code |-> ""]
         /\ code \notin {"ok", "audit_failed"} /\ Accepts(due)
         /\ \/ due.outcome = "denied" /\ due.metadata.reason_code = code
            \/ due.outcome = "failed" /\ due.metadata.error_code = code
    /\ pc = "target" => Running("running")
    /\ pc \in {"finish", "audit"} => code \in PostCodes
    /\ pc \in {"finish", "audit"} /\ code = "" => result \in Results[Conn1.engine]
    /\ pc = "audit" =>
         /\ exec = [status |-> PostStatus(code), code |-> code]
         /\ due = PostEvent(Conn1, code, IF code = "" THEN Len(result.rows) ELSE 0)
    /\ pc = "convert" =>
         /\ result \in Results[Conn1.engine]
         /\ exec = [status |-> "completed", code |-> ""]
         /\ trail = <<PostEvent(Conn1, "", Len(result.rows))>>

IInv ==
  /\ Typed /\ Route /\ Entitled /\ Judged /\ Records
  /\ TargetOnlyByRight /\ RecordsAgree /\ CellsAreExact /\ ListingsAreWhole

-----------------------------------------------------------------------------
(* The steps.                                                              *)

\* The steps of a request leave the world alone.
LEMMA SameRequest ==
  ASSUME UNCHANGED req
  PROVE  /\ Conn1' = Conn1 /\ (Execute' <=> Execute)
         /\ Membership' = Membership /\ PostCodes' = PostCodes
BY DEF Conn1, Execute, Membership, PostCodes, MapAdapter

LEMMA Stays ==
  ASSUME UNCHANGED <<world, req, rights>>
  PROVE  /\ role' = role /\ conns' = conns /\ policy' = policy /\ req' = req
         /\ rights' = rights /\ Conn1' = Conn1 /\ (Execute' <=> Execute)
         /\ Membership' = Membership /\ PostCodes' = PostCodes
         /\ Held(role, conns, policy)' = Held(role, conns, policy)
BY SameRequest DEF world, Held, AllowsRead

\* A refusal is not what the client asked for.
LEMMA Codes ==
  /\ \A f \in StoreFaults : StoreCode(f) \notin {"", "ok", "audit_failed"}
  /\ TurnedAway \notin {"ok", "audit_failed"}
  /\ \A c : AnswerCode(c) \in {"connection_unavailable", "internal_error", c}
BY DEF StoreFaults, StoreCode, TurnedAway, AnswerCode

\* Nothing is shown before the answer.
LEMMA NotYetShown ==
  ASSUME IInv, pc # "answered"
  PROVE  answer.code # "ok"
<1>1. answer = Unanswered
  BY DEF IInv, Route
<1> QED BY <1>1 DEF Unanswered

LEMMA NothingShown ==
  ASSUME ~(Shown' /\ Execute')
  PROVE  CellsAreExact'
BY DEF CellsAreExact

LEMMA ExactStays ==
  ASSUME UNCHANGED <<answer, result, req>>, CellsAreExact
  PROVE  CellsAreExact'
<1>1. Shown' <=> Shown
  BY DEF Shown
<1>2. Execute' <=> Execute
  BY DEF Execute
<1>3. \A v, cell : Shows(v, cell)' <=> Shows(v, cell)
  OBVIOUS
<1> QED BY <1>1, <1>2, <1>3 DEF CellsAreExact

LEMMA ReceiveExecutionKeeps ==
  ASSUME IInv, ReceiveExecution
  PROVE  IInv'
<1>1. /\ pc = "received" /\ Execute /\ UNCHANGED <<world, req, rights>>
      /\ UNCHANGED <<code, result, due, exec, trail, alarmed, faulted, touched, view, inner>>
      /\ \/ pc' = "member" /\ answer' = answer
         \/ pc' = "answered" /\ \E c : c # "ok" /\ answer' = [Unanswered EXCEPT !.code = c]
  BY Codes DEF ReceiveExecution, Steady, Reply, Goto, Record
<1>2. Typed' /\ Route'
  BY <1>1, Stays DEF IInv, Typed, Route, Execute
<1>3. Entitled'
  BY <1>1, Stays DEF IInv, Entitled
<1>4. Judged' /\ Records' /\ RecordsAgree'
  BY <1>1, Stays DEF IInv, Judged, Records, RecordsAgree, Running
<1>5. TargetOnlyByRight' /\ ListingsAreWhole'
  BY <1>1, Stays DEF IInv, TargetOnlyByRight, ListingsAreWhole, Shown, Execute
<1>6. CellsAreExact'
  BY <1>1, Stays, NothingShown DEF IInv, Route, Shown, Unanswered, Execute
<1> QED BY <1>2, <1>3, <1>4, <1>5, <1>6 DEF IInv

LEMMA ReceiveListingKeeps ==
  ASSUME IInv, ReceiveListing
  PROVE  IInv'
<1>1. /\ pc = "received" /\ req.kind \in {"connections", "browse"}
      /\ UNCHANGED <<world, req, rights>>
      /\ UNCHANGED <<code, result, due, exec, trail, alarmed, faulted, touched, view, inner>>
      /\ \/ pc' = "member" /\ answer' = answer
         \/ pc' = "answered" /\ \E c : c # "ok" /\ answer' = [Unanswered EXCEPT !.code = c]
  BY Codes DEF ReceiveListing, Steady, Reply, Goto, Record
<1>2. Typed' /\ Route'
  BY <1>1, Stays DEF IInv, Typed, Route
<1>3. Entitled'
  BY <1>1, Stays DEF IInv, Entitled
<1>4. Judged' /\ Records' /\ RecordsAgree'
  BY <1>1, Stays DEF Judged, Records, RecordsAgree, Execute
<1>5. TargetOnlyByRight' /\ ListingsAreWhole'
  BY <1>1, Stays DEF IInv, TargetOnlyByRight, ListingsAreWhole, Shown, Unanswered
<1>6. CellsAreExact'
  BY <1>1, Stays, NothingShown DEF IInv, Route, Shown, Unanswered, Execute
<1> QED BY <1>2, <1>3, <1>4, <1>5, <1>6 DEF IInv

LEMMA ReadMemberKeeps ==
  ASSUME IInv, ReadMember
  PROVE  IInv'
<1>1. /\ pc = "member" /\ UNCHANGED <<world, req, rights>>
      /\ UNCHANGED <<result, due, exec, trail, alarmed, faulted, touched, view, inner>>
      /\ \/ /\ Membership \in Held(role, conns, policy) /\ answer' = answer
            /\ pc' = IF req.kind = "connections" THEN "list" ELSE "connection"
            /\ code' = code
         \/ pc' = "answered" /\ \E c : c # "ok" /\ answer' = [Unanswered EXCEPT !.code = c]
  BY Codes DEF ReadMember, Steady, Refuse, Reply, Goto, Record, Membership
<1>2. Typed' /\ Route'
  BY <1>1, Stays DEF IInv, Typed, Route, Execute
<1>3. Entitled'
  BY <1>1, Stays DEF IInv, Entitled
<1>4. Judged' /\ Records' /\ RecordsAgree'
  BY <1>1, Stays DEF IInv, Judged, Records, RecordsAgree, Execute, Running
<1>5. TargetOnlyByRight' /\ ListingsAreWhole'
  BY <1>1, Stays DEF IInv, TargetOnlyByRight, ListingsAreWhole, Shown, Unanswered, Route
<1>6. CellsAreExact'
  BY <1>1, Stays, NothingShown DEF IInv, Route, Shown, Unanswered, Execute
<1> QED BY <1>2, <1>3, <1>4, <1>5, <1>6 DEF IInv

\* ConnectionByID: the connection exists at this moment.
LEMMA ReadConnectionKeeps ==
  ASSUME IInv, ReadConnection
  PROVE  IInv'
<1>1. /\ pc = "connection" /\ UNCHANGED <<world, req, rights>>
      /\ UNCHANGED <<result, due, exec, trail, alarmed, faulted, touched, view, inner>>
      /\ \/ /\ req.conn \in conns /\ answer' = answer /\ code' = code
            /\ pc' = CASE req.kind = "test" -> "credential"
                       [] Execute -> "judge" [] OTHER -> "policy"
         \/ pc' = "answered" /\ \E c : c # "ok" /\ answer' = [Unanswered EXCEPT !.code = c]
  BY Codes DEF ReadConnection, Steady, Refuse, Reply, Goto, Record
<1>2. Typed' /\ Route'
  BY <1>1, Stays DEF IInv, Typed, Route, Execute
<1>3. Entitled'
  <2>1. req.conn \in conns => "connection" \in Held(role, conns, policy)
    BY DEF Held
  <2> QED BY <1>1, <2>1, Stays DEF IInv, Entitled
<1>4. Judged' /\ Records' /\ RecordsAgree'
  BY <1>1, Stays DEF IInv, Judged, Records, RecordsAgree, Execute, Running
<1>5. TargetOnlyByRight' /\ ListingsAreWhole'
  BY <1>1, Stays DEF IInv, TargetOnlyByRight, ListingsAreWhole, Shown, Unanswered, Route
<1>6. CellsAreExact'
  BY <1>1, Stays, NothingShown DEF IInv, Route, Shown, Unanswered, Execute
<1> QED BY <1>2, <1>3, <1>4, <1>5, <1>6 DEF IInv

\* The reasons of the policy are codes the validator knows.
LEMMA JudgeCodes ==
  ASSUME NEW dialect, NEW text
  PROVE  Judge(dialect, text) \in
           {"allowed", "sql_parse_error", "multiple_statements", "statement_not_allowed",
            "unsupported_statement", "empty_sql", "executable_comment_detected"}
<1>1. \A t : JudgeTree(dialect, t) \in {"allowed", "statement_not_allowed", "unsupported_statement"}
  BY DEF JudgeTree
<1>2. Classify(dialect, text) \in {"allowed", "sql_parse_error", "multiple_statements",
                                  "statement_not_allowed", "unsupported_statement"}
  BY <1>1 DEF Classify
<1> QED BY <1>2 DEF Judge, Decide

LEMMA ConnectionTyped ==
  ASSUME IInv
  PROVE  /\ Conn1.engine \in {"postgresql", "mysql"}
         /\ Conn1.environment \in {"development", "staging", "production"}
         /\ Conn1.secretVersion \in Nat /\ Conn1.secretVersion > 0
         /\ Conn1.kekVersion \in Nat /\ Conn1.kekVersion > 0
BY ConnectionsTyped DEF IInv, Typed, Conn1, Dialect

\* What the validator makes of the events of an execution.
LEMMA DeniedAccepted ==
  ASSUME NEW engine \in {"postgresql", "mysql"}, NEW reason \in StableReasonCodes
  PROVE  /\ Accepts(DeniedEvent(engine, reason))
         /\ DeniedEvent(engine, reason).outcome = "denied"
         /\ DeniedEvent(engine, reason).metadata.reason_code = reason
<1>1. /\ FieldValid("statement_hash", "hash") /\ FieldValid("reason_code", reason)
      /\ FieldValid("engine", engine)
  BY DEF FieldValid
<1> QED BY <1>1 DEF Accepts, DeniedEvent, Event, AllowedFields, RequiredFields

LEMMA FailedAccepted ==
  ASSUME NEW engine \in {"postgresql", "mysql"}, NEW c \in StableErrorCodes
  PROVE  /\ Accepts(FailedEvent(engine, c))
         /\ FailedEvent(engine, c).outcome = "failed"
         /\ FailedEvent(engine, c).metadata.error_code = c
<1>1. /\ FieldValid("statement_hash", "hash") /\ FieldValid("error_code", c)
      /\ FieldValid("engine", engine)
  BY DEF FieldValid
<1> QED BY <1>1 DEF Accepts, FailedEvent, Event, AllowedFields, RequiredFields

LEMMA CredentialAccepted ==
  ASSUME IInv, NEW c \in CredentialFaults
  PROVE  /\ Accepts(CredentialEvent(Conn1, c))
         /\ CredentialEvent(Conn1, c).outcome = "failed"
         /\ CredentialEvent(Conn1, c).metadata.error_code = c
<1>1. /\ FieldValid("secret_ref", "ref") /\ FieldValid("error_code", c)
      /\ FieldValid("secret_version", Conn1.secretVersion)
      /\ FieldValid("kek_version", Conn1.kekVersion)
  BY ConnectionTyped DEF FieldValid, CredentialFaults, StableErrorCodes
<1>2. CASE c = "unknown_kek_version"
  BY <1>1, <1>2 DEF Accepts, CredentialEvent, Event, AllowedFields, RequiredFields
<1>3. CASE c = "decryption_failed"
  BY <1>1, <1>3 DEF Accepts, CredentialEvent, Event, AllowedFields, RequiredFields
<1>4. CASE c \notin {"unknown_kek_version", "decryption_failed"}
  BY <1>1, <1>4 DEF Accepts, CredentialEvent, Event, AllowedFields, RequiredFields
<1> QED BY <1>2, <1>3, <1>4

\* It refuses one event of a finished query: the one that is to report
\* connection_unavailable.
LEMMA PostAccepted ==
  ASSUME IInv, NEW c \in PostCodes, c # "connection_unavailable", NEW n \in 0..MaxInt32
  PROVE  LET e == PostEvent(Conn1, c, n)
         IN /\ Accepts(e)
            /\ e.outcome = PostOutcome(c)
            /\ c = "" => e.metadata.row_count = n
            /\ c # "" => c = IF e.outcome = "denied" THEN e.metadata.reason_code
                            ELSE e.metadata.error_code
<1>1. c \in {"", "unsupported_query"} \cup StableErrorCodes
  BY DEF PostCodes, MapAdapter, AdapterCodes, PoolFaults, StableErrorCodes
<1>2. /\ FieldValid("statement_hash", "hash") /\ FieldValid("row_count", n)
      /\ FieldValid("engine", Conn1.engine) /\ FieldValid("environment", Conn1.environment)
      /\ c \in StableErrorCodes => FieldValid("error_code", c)
      /\ FieldValid("reason_code", "unsupported_query")
  BY ConnectionTyped DEF FieldValid, StableReasonCodes
<1>3. CASE c = ""
  <2> DEFINE m == [statement_hash |-> "hash", engine |-> Conn1.engine,
                   environment |-> Conn1.environment, row_count |-> n]
             e == PostEvent(Conn1, c, n)
  <2>1. e = Event("sql_execute", "user", "succeeded", m)
    BY <1>3 DEF PostEvent, PostOutcome
  <2>2. /\ DOMAIN m = {"statement_hash", "engine", "environment", "row_count"}
        /\ m["statement_hash"] = "hash" /\ m["engine"] = Conn1.engine
        /\ m["environment"] = Conn1.environment /\ m["row_count"] = n
        /\ m.row_count = n
    OBVIOUS
  <2>3. \A f \in DOMAIN m : FieldValid(f, m[f])
    BY <2>2, <1>2
  <2>4. e.metadata = m /\ e.action = "sql_execute" /\ e.outcome = "succeeded"
    BY <2>1 DEF Event
  <2> HIDE DEF m, e
  <2>5. Accepts(e)
    BY <2>2, <2>3, <2>4 DEF Accepts, AllowedFields, RequiredFields
  <2>6. PostOutcome(c) = "succeeded"
    BY <1>3 DEF PostOutcome
  <2>7. e.metadata.row_count = n
    BY <2>2, <2>4
  <2> QED BY <1>3, <2>4, <2>5, <2>6, <2>7 DEF e
<1>4. CASE c = "unsupported_query"
  BY <1>2, <1>4 DEF Accepts, PostEvent, PostOutcome, Event, AllowedFields, RequiredFields
<1>5. CASE c = "query_cancelled"
  BY <1>1, <1>2, <1>5 DEF Accepts, PostEvent, PostOutcome, Event, AllowedFields, RequiredFields
<1>6. CASE c = "query_timeout"
  BY <1>1, <1>2, <1>6 DEF Accepts, PostEvent, PostOutcome, Event, AllowedFields, RequiredFields
<1>7. CASE c \notin {"", "unsupported_query", "query_cancelled", "query_timeout"}
  <2> DEFINE m == [statement_hash |-> "hash", engine |-> Conn1.engine,
                   environment |-> Conn1.environment, error_code |-> c]
             e == PostEvent(Conn1, c, n)
  <2>1. e = Event("sql_execute", "user", "failed", m)
    BY <1>7 DEF PostEvent, PostOutcome
  <2>2. /\ DOMAIN m = {"statement_hash", "engine", "environment", "error_code"}
        /\ m["statement_hash"] = "hash" /\ m["engine"] = Conn1.engine
        /\ m["environment"] = Conn1.environment /\ m["error_code"] = c
        /\ m.error_code = c
    OBVIOUS
  <2>3. c \in StableErrorCodes /\ PostOutcome(c) = "failed"
    BY <1>1, <1>7 DEF PostOutcome
  <2>4. \A f \in DOMAIN m : FieldValid(f, m[f])
    BY <2>2, <2>3, <1>2
  <2>5. e.metadata = m /\ e.action = "sql_execute" /\ e.outcome = "failed"
    BY <2>1 DEF Event
  <2> HIDE DEF m, e
  <2>6. Accepts(e)
    BY <2>2, <2>4, <2>5 DEF Accepts, AllowedFields, RequiredFields
  <2>7. e.metadata.error_code = c
    BY <2>2, <2>5
  <2> QED BY <1>7, <2>3, <2>5, <2>6, <2>7 DEF e
<1> QED BY <1>3, <1>4, <1>5, <1>6, <1>7

\* That one it does refuse: its error code is not in the list.
LEMMA UnavailableRefused ==
  ASSUME NEW c, c = "connection_unavailable", NEW n
  PROVE  ~Accepts(PostEvent(Conn1, c, n))
<1> DEFINE m == [statement_hash |-> "hash", engine |-> Conn1.engine,
                 environment |-> Conn1.environment, error_code |-> c]
           e == PostEvent(Conn1, c, n)
<1>1. e = Event("sql_execute", "user", "failed", m)
  BY DEF PostEvent, PostOutcome
<1>2. "error_code" \in DOMAIN m /\ m["error_code"] = c
  OBVIOUS
<1>3. ~FieldValid("error_code", c)
  BY DEF FieldValid, StableErrorCodes
<1>4. e.metadata = m
  BY <1>1 DEF Event
<1> HIDE DEF m, e
<1>5. ~Accepts(e)
  BY <1>2, <1>3, <1>4 DEF Accepts
<1> QED BY <1>5 DEF e

\* JudgeSQL: only an allowed statement goes on, and the refusal of the others
\* is one the validator accepts.
LEMMA JudgeSQLKeeps ==
  ASSUME IInv, JudgeSQL
  PROVE  IInv'
<1> DEFINE reason == Judge(Conn1.engine, req.text)
<1>1. /\ pc = "judge" /\ UNCHANGED <<world, req, rights>>
      /\ UNCHANGED <<result, trail, touched, view, inner>>
      /\ \/ /\ faulted' = TRUE /\ alarmed' = TRUE /\ pc' = "answered"
            /\ answer' = [Unanswered EXCEPT !.code = "internal_error"]
         \/ /\ faulted' = FALSE /\ exec' = [status |-> "pending", code |-> ""]
            /\ answer' = answer /\ code' = code /\ pc' = "policy" /\ reason = "allowed"
         \/ /\ faulted' = FALSE /\ exec' = [status |-> "pending", code |-> ""]
            /\ answer' = answer /\ code' = reason /\ pc' = "refuse" /\ reason # "allowed"
            /\ due' = DeniedEvent(Conn1.engine, reason)
  BY DEF JudgeSQL, Steady, Refuse, Reply, Goto, Writes, AnswerCode
<1>2. Typed' /\ Route'
  BY <1>1, Stays DEF IInv, Typed, Route, Execute
<1>3. Entitled'
  BY <1>1, Stays DEF IInv, Entitled
<1>4. Judged'
  BY <1>1, Stays DEF IInv, Judged
<1>5. Records'
  <2>1. Conn1.engine \in {"postgresql", "mysql"}
    BY ConnectionTyped
  <2>2. /\ reason \notin {"ok", "audit_failed"}
        /\ reason # "allowed" => reason \in StableReasonCodes
    BY JudgeCodes DEF StableReasonCodes
  <2>3. reason # "allowed" =>
          /\ Accepts(DeniedEvent(Conn1.engine, reason))
          /\ DeniedEvent(Conn1.engine, reason).outcome = "denied"
          /\ DeniedEvent(Conn1.engine, reason).metadata.reason_code = reason
    BY <2>1, <2>2, DeniedAccepted
  <2> HIDE DEF reason
  <2> QED BY <1>1, <2>2, <2>3, Stays DEF IInv, Records, Running
<1>6. RecordsAgree'
  BY <1>1, Stays DEF RecordsAgree, Shown, Unanswered, Answered
<1>7. TargetOnlyByRight' /\ ListingsAreWhole'
  BY <1>1, Stays DEF IInv, TargetOnlyByRight, ListingsAreWhole, Shown, Unanswered, Route
<1>8. CellsAreExact'
  <2>1. answer'.code # "ok"
    <3>1. answer.code # "ok"
      BY <1>1, NotYetShown
    <3> QED BY <1>1, <3>1 DEF Unanswered
  <2> QED BY <2>1, NothingShown DEF Shown
<1> QED BY <1>2, <1>3, <1>4, <1>5, <1>6, <1>7, <1>8 DEF IInv

\* PolicyByConnection: the policy says yes at this moment.
LEMMA ReadPolicyKeeps ==
  ASSUME IInv, ReadPolicy
  PROVE  IInv'
<1> DEFINE denied == {"policy_not_configured", "read_not_allowed"}
           failed == {"query_timeout", "query_cancelled", "internal_error"}
<1>1. /\ pc = "policy" /\ UNCHANGED <<world, req, rights>>
      /\ UNCHANGED <<result, exec, trail, alarmed, faulted, touched, view, inner>>
      /\ \/ /\ AllowsRead(policy[req.conn]) /\ answer' = answer /\ code' = code
            /\ pc' = "credential"
         \/ /\ Execute /\ answer' = answer /\ pc' = "refuse"
            /\ \/ code' \in denied /\ due' = DeniedEvent(Conn1.engine, code')
               \/ code' \in failed /\ due' = FailedEvent(Conn1.engine, code')
         \/ /\ ~Execute
            /\ pc' = "answered" /\ \E c : c # "ok" /\ answer' = [Unanswered EXCEPT !.code = c]
  <2> PICK fault \in StoreFaults \cup {"none"} :
        LET c == IF fault # "none" THEN StoreCode(fault)
                 ELSE IF PolicyCode(policy[req.conn]) # "" THEN PolicyCode(policy[req.conn])
                 ELSE IF Execute /\ policy[req.conn] = "limitless" THEN "internal_error"
                 ELSE ""
            isDenied == fault = "none" /\ c # "internal_error"
        IN IF c = "" THEN Goto("credential") /\ UNCHANGED <<code, due>>
           ELSE IF Execute
           THEN /\ code' = c /\ Goto("refuse")
                /\ due' = IF isDenied THEN DeniedEvent(Conn1.engine, c)
                          ELSE FailedEvent(Conn1.engine, c)
           ELSE Refuse(c) /\ UNCHANGED due
    BY DEF ReadPolicy
  <2> DEFINE c == IF fault # "none" THEN StoreCode(fault)
                  ELSE IF PolicyCode(policy[req.conn]) # "" THEN PolicyCode(policy[req.conn])
                  ELSE IF Execute /\ policy[req.conn] = "limitless" THEN "internal_error"
                  ELSE ""
  <2>1. policy[req.conn] \in Policies
    BY DEF IInv, Typed
  <2>2. c = "" => AllowsRead(policy[req.conn])
    BY <2>1, Codes DEF PolicyCode, AllowsRead, Policies
  <2>3. /\ c \in {""} \cup denied \cup failed
        /\ fault # "none" => c \in failed
        /\ fault = "none" /\ c # "internal_error" /\ c # "" => c \in denied
    BY <2>1 DEF PolicyCode, StoreCode, StoreFaults, Policies
  <2>4. c # "ok"
    BY <2>3, Codes
  <2>5. /\ pc = "policy"
        /\ Steady(<<result, exec, trail, alarmed, faulted, touched, view, inner>>)
    BY DEF ReadPolicy
  <2>6. CASE c = ""
    BY <2>2, <2>5, <2>6 DEF Goto, Steady
  <2>7. CASE c # "" /\ Execute
    <3>1. /\ code' = c /\ Goto("refuse")
          /\ due' = IF fault = "none" /\ c # "internal_error"
                    THEN DeniedEvent(Conn1.engine, c) ELSE FailedEvent(Conn1.engine, c)
      BY <2>7
    <3>2. c = "internal_error" => c \in failed
      OBVIOUS
    <3> HIDE DEF c, denied, failed
    <3> QED BY <2>3, <2>5, <2>7, <3>1, <3>2 DEF Goto, Steady
  <2>8. CASE c # "" /\ ~Execute
    <3>1. Refuse(c)
      BY <2>8
    <3> HIDE DEF c
    <3> QED BY <2>4, <2>5, <2>8, <3>1 DEF Refuse, Reply, Steady
  <2> QED BY <2>6, <2>7, <2>8
<1>2. Typed' /\ Route'
  BY <1>1, Stays DEF IInv, Typed, Route, Execute
<1>3. Entitled'
  <2>1. AllowsRead(policy[req.conn]) => "read" \in Held(role, conns, policy)
    BY DEF Held
  <2> HIDE DEF denied, failed
  <2> QED BY <1>1, <2>1, Stays DEF IInv, Entitled
<1>4. Judged'
  BY <1>1, Stays DEF IInv, Judged
<1>5. Records'
  <2>1. Conn1.engine \in {"postgresql", "mysql"}
    BY ConnectionTyped
  <2>2. \A c \in denied : /\ Accepts(DeniedEvent(Conn1.engine, c))
                          /\ DeniedEvent(Conn1.engine, c).outcome = "denied"
                          /\ DeniedEvent(Conn1.engine, c).metadata.reason_code = c
    BY <2>1, DeniedAccepted DEF StableReasonCodes
  <2>3. \A c \in failed : /\ Accepts(FailedEvent(Conn1.engine, c))
                          /\ FailedEvent(Conn1.engine, c).outcome = "failed"
                          /\ FailedEvent(Conn1.engine, c).metadata.error_code = c
    BY <2>1, FailedAccepted DEF StableErrorCodes
  <2>4. {"ok", "audit_failed"} \cap (denied \cup failed) = {}
    OBVIOUS
  <2> HIDE DEF denied, failed
  <2> QED BY <1>1, <2>2, <2>3, <2>4, Stays DEF IInv, Records, Running
<1>6. RecordsAgree'
  BY <1>1, Stays DEF RecordsAgree, Answered
<1>7. TargetOnlyByRight' /\ ListingsAreWhole'
  BY <1>1, Stays DEF IInv, TargetOnlyByRight, ListingsAreWhole, Shown, Unanswered, Route
<1>8. CellsAreExact'
  BY <1>1, Stays, NothingShown DEF IInv, Route, Shown, Unanswered, Execute
<1> QED BY <1>2, <1>3, <1>4, <1>5, <1>6, <1>7, <1>8 DEF IInv

LEMMA ResolveCredentialKeeps ==
  ASSUME IInv, ResolveCredential
  PROVE  IInv'
<1>1. /\ pc = "credential" /\ UNCHANGED <<world, req, rights>>
      /\ UNCHANGED <<result, exec, trail, faulted, touched, view>>
      /\ \/ /\ answer' = answer /\ code' = code
            /\ pc' = IF Execute THEN "run" ELSE "target"
         \/ /\ req.kind # "browse" /\ answer' = answer /\ pc' = "refuse"
            /\ code' \in CredentialFaults
            /\ Execute => due' = CredentialEvent(Conn1, code')
         \/ /\ req.kind = "browse"
            /\ pc' = "answered" /\ \E c : c # "ok" /\ answer' = [Unanswered EXCEPT !.code = c]
  BY DEF ResolveCredential, Steady, Refuse, Reply, Goto, AnswerCode
<1>2. Typed' /\ Route'
  BY <1>1, Stays DEF IInv, Typed, Route, Execute
<1>3. Entitled'
  BY <1>1, Stays DEF IInv, Entitled
<1>4. Judged'
  BY <1>1, Stays DEF IInv, Judged, Execute
<1>5. Records'
  <2>1. \A c \in CredentialFaults :
          /\ Accepts(CredentialEvent(Conn1, c))
          /\ CredentialEvent(Conn1, c).outcome = "failed"
          /\ CredentialEvent(Conn1, c).metadata.error_code = c
          /\ c \notin {"ok", "audit_failed"}
    BY CredentialAccepted DEF CredentialFaults
  <2> QED BY <1>1, <2>1, Stays DEF IInv, Records, Running, Execute
<1>6. RecordsAgree'
  BY <1>1, Stays DEF RecordsAgree, Answered, Execute
<1>7. TargetOnlyByRight' /\ ListingsAreWhole'
  BY <1>1, Stays DEF IInv, TargetOnlyByRight, ListingsAreWhole, Shown, Unanswered, Route
<1>8. CellsAreExact'
  BY <1>1, Stays, NothingShown DEF IInv, Route, Shown, Unanswered, Execute
<1> QED BY <1>2, <1>3, <1>4, <1>5, <1>6, <1>7, <1>8 DEF IInv

\* failExecutionWith: the execution and its event in one transaction, or an
\* alert.
LEMMA RecordRefusalKeeps ==
  ASSUME IInv, RecordRefusal
  PROVE  IInv'
<1>1. /\ pc = "refuse" /\ UNCHANGED <<world, req, rights>>
      /\ UNCHANGED <<due, touched, view, inner>> /\ pc' = "answered"
      /\ \/ /\ (faulted' <=> faulted) /\ Accepts(due) /\ code' = code
            /\ trail' = Append(trail, due)
            /\ Execute => exec' = [status |-> "failed", code |-> code]
            /\ answer' = [Unanswered EXCEPT !.code = IF Execute THEN AnswerCode(code) ELSE code]
         \/ /\ Accepts(due) => faulted' = TRUE
            /\ alarmed' = TRUE
            /\ answer' = [Unanswered EXCEPT !.code = "audit_failed"]
  <2> PICK write \in Writes :
        LET kept == write # "failed" /\ Accepts(due)
        IN /\ faulted' = (faulted \/ write # "done")
           /\ trail' = IF kept THEN Append(trail, due) ELSE trail
           /\ exec' = IF kept /\ Execute THEN [status |-> "failed", code |-> code] ELSE exec
           /\ IF write = "done" /\ Accepts(due)
              THEN Refuse(code) /\ UNCHANGED <<alarmed, result>>
              ELSE AuditFailed
    BY DEF RecordRefusal
  <2>1. pc = "refuse" /\ Steady(<<due, touched, view, inner>>)
    BY DEF RecordRefusal
  <2>2. CASE write = "done" /\ Accepts(due)
    <3>1. faulted' <=> faulted
      BY <2>2
    <3>2. /\ trail' = Append(trail, due)
          /\ Execute => exec' = [status |-> "failed", code |-> code]
          /\ Refuse(code)
      BY <2>2
    <3> QED BY <2>1, <2>2, <3>1, <3>2 DEF Steady, Refuse, Reply
  <2>3. CASE ~(write = "done" /\ Accepts(due))
    <3>1. AuditFailed /\ faulted' = (faulted \/ write # "done")
      BY <2>3
    <3>2. Accepts(due) => faulted' = TRUE
      BY <2>3, <3>1
    <3> QED BY <2>1, <3>1, <3>2 DEF Steady, AuditFailed, Reply
  <2> QED BY <2>2, <2>3
<1>2. Typed' /\ Route'
  BY <1>1, Stays DEF IInv, Typed, Route, Execute
<1>3. Entitled'
  BY <1>1, Stays DEF IInv, Entitled
<1>4. Judged'
  BY <1>1, Stays DEF IInv, Judged
<1>5. Records'
  BY <1>1, Stays DEF Records
<1>6. RecordsAgree'
  <2>1. CASE Execute /\ alarmed' = TRUE /\ faulted' = TRUE
             /\ answer' = [Unanswered EXCEPT !.code = "audit_failed"]
    BY <2>1, Stays, <1>1 DEF RecordsAgree, Shown, Unanswered, Answered
  <2>2. CASE Execute /\ (faulted' <=> faulted) /\ code' = code
             /\ trail' = Append(trail, due) /\ exec' = [status |-> "failed", code |-> code]
             /\ answer' = [Unanswered EXCEPT !.code = AnswerCode(code)]
    <3>1. /\ ~faulted /\ trail = << >> /\ code \notin {"ok", "audit_failed"}
          /\ \/ due.outcome = "denied" /\ due.metadata.reason_code = code
             \/ due.outcome = "failed" /\ due.metadata.error_code = code
      BY <1>1, <2>2 DEF IInv, Records
    <3>2. trail' = <<due>> /\ Len(trail') = 1 /\ trail'[1] = due
      BY <2>2, <3>1
    <3>3. AnswerCode(code) \notin {"ok", "audit_failed"}
      BY <3>1, Codes
    <3>4. answer'.code = AnswerCode(code)
      BY <2>2 DEF Unanswered
    <3> QED BY <2>2, <3>1, <3>2, <3>3, <3>4, Stays, <1>1 DEF RecordsAgree, Shown, Answered, AnswerCode
  <2> QED BY <1>1, <2>1, <2>2, Stays DEF IInv, Records, RecordsAgree, Execute
<1>7. TargetOnlyByRight' /\ ListingsAreWhole'
  <2>1. answer'.code # "ok" \/ ~Execute
    BY <1>1, Codes DEF IInv, Records, Unanswered
  <2> QED BY <1>1, <2>1, Stays DEF IInv, TargetOnlyByRight, ListingsAreWhole, Shown, Route, Execute
<1>8. CellsAreExact'
  BY <1>1, Stays, Codes, NothingShown DEF IInv, Records, Unanswered, Shown
<1> QED BY <1>2, <1>3, <1>4, <1>5, <1>6, <1>7, <1>8 DEF IInv

LEMMA StartsRunning ==
  ASSUME NEW x, x = [status |-> "pending", code |-> ""],
         NEW y, y = [x EXCEPT !.status = "running"]
  PROVE  y = [status |-> "running", code |-> ""]
BY Zenon

LEMMA RunKeeps ==
  ASSUME IInv, Run
  PROVE  IInv'
<1>1. /\ pc = "run" /\ UNCHANGED <<world, req, rights>>
      /\ UNCHANGED <<due, trail, touched, view, inner>>
      /\ \/ /\ faulted' = FALSE /\ exec' = [exec EXCEPT !.status = "running"]
            /\ answer' = answer /\ code' = code /\ pc' = "target"
         \/ /\ faulted' = TRUE /\ alarmed' = TRUE /\ pc' = "answered"
            /\ answer' = [Unanswered EXCEPT !.code = "audit_failed"]
  BY DEF Run, Steady, Refuse, Reply, Goto, Writes, AuditFailed
<1>2. Typed' /\ Route'
  BY <1>1, Stays DEF IInv, Typed, Route, Execute
<1>3. Entitled'
  BY <1>1, Stays DEF IInv, Entitled
<1>4. Judged' /\ Records'
  <2>1. Execute => exec = [status |-> "pending", code |-> ""] /\ code = "" /\ trail = << >>
    BY <1>1 DEF IInv, Records, Running
  <2>2. Execute /\ pc' = "target" => Running("running")'
    <3>1. Execute /\ pc' = "target" =>
            exec' = [exec EXCEPT !.status = "running"] /\ code' = code
      BY <1>1
    <3> QED BY <2>1, <3>1, StartsRunning DEF Running
  <2> QED BY <1>1, <2>1, <2>2, Stays DEF IInv, Judged, Records
<1>5. RecordsAgree'
  BY <1>1, Stays DEF RecordsAgree, Shown, Unanswered, Answered
<1>6. TargetOnlyByRight' /\ ListingsAreWhole'
  BY <1>1, Stays DEF IInv, TargetOnlyByRight, ListingsAreWhole, Shown, Unanswered, Route
<1>7. CellsAreExact'
  BY <1>1, Stays, NothingShown DEF IInv, Route, Shown, Unanswered, Execute
<1> QED BY <1>2, <1>3, <1>4, <1>5, <1>6, <1>7 DEF IInv

\* adapter.Get and Query: the codes the adapter ends with, or a result.
LEMMA QueryTargetKeeps ==
  ASSUME IInv, QueryTarget
  PROVE  IInv'
<1>1. /\ pc = "target" /\ Execute /\ UNCHANGED <<world, req, rights>>
      /\ UNCHANGED <<due, exec, trail, alarmed, faulted, view>>
      /\ pc' = "finish" /\ answer' = answer
      /\ \/ code' \in PostCodes \ {""}
         \/ code' = code /\ result' \in Results[Conn1.engine]
  BY DEF QueryTarget, Steady, Goto, Record, PostCodes, MapAdapter, AdapterCodes, PoolFaults
<1>2. Typed' /\ Route'
  BY <1>1, Stays DEF IInv, Typed, Route, Execute
<1>3. Entitled'
  BY <1>1, Stays DEF IInv, Entitled
<1>4. Judged'
  BY <1>1, Stays DEF IInv, Judged
<1>5. Records'
  <2>1. ~faulted /\ trail = << >> /\ exec = [status |-> "running", code |-> ""] /\ code = ""
    BY <1>1 DEF IInv, Records, Running
  <2>2. "" \in PostCodes
    BY DEF PostCodes
  <2>3. code' \in PostCodes /\ (code' = "" => result' \in Results[Conn1.engine])
    BY <1>1, <2>1, <2>2
  <2> QED BY <1>1, <2>1, <2>3, Stays DEF Records
<1>6. RecordsAgree'
  BY <1>1 DEF RecordsAgree, Answered
<1>7. TargetOnlyByRight' /\ ListingsAreWhole'
  BY <1>1, Stays DEF IInv, TargetOnlyByRight, ListingsAreWhole, Shown, Unanswered, Route,
     Entitled, Membership, Execute
<1>8. CellsAreExact'
  <2>1. answer'.code # "ok"
    <3>1. answer.code # "ok"
      BY <1>1, NotYetShown
    <3> QED BY <1>1, <3>1 DEF Unanswered
  <2> QED BY <2>1, NothingShown DEF Shown
<1> QED BY <1>2, <1>3, <1>4, <1>5, <1>6, <1>7, <1>8 DEF IInv

\* recordPostExecution, first transaction.
LEMMA FinishKeeps ==
  ASSUME IInv, Finish
  PROVE  IInv'
<1>1. /\ pc = "finish" /\ UNCHANGED <<world, req, rights>>
      /\ UNCHANGED <<trail, touched, view, inner>>
      /\ \/ /\ faulted' = FALSE
            /\ exec' = [status |-> PostStatus(code), code |-> code]
            /\ due' = PostEvent(Conn1, code, IF code = "" THEN Len(result.rows) ELSE 0)
            /\ UNCHANGED <<alarmed, code, result, answer>> /\ pc' = "audit"
         \/ /\ faulted' = TRUE /\ alarmed' = TRUE /\ pc' = "answered"
            /\ answer' = [Unanswered EXCEPT !.code = "audit_failed"]
  BY DEF Finish, Steady, Refuse, Reply, Goto, Writes, AuditFailed
<1>2. Typed' /\ Route'
  BY <1>1, Stays DEF IInv, Typed, Route, Execute
<1>3. Entitled'
  BY <1>1, Stays DEF IInv, Entitled
<1>4. Judged'
  BY <1>1, Stays DEF IInv, Judged
<1>5. Records'
  <2>1. Execute => code \in PostCodes /\ trail = << >>
                   /\ (code = "" => result \in Results[Conn1.engine])
    BY <1>1 DEF IInv, Records
  <2>2. CASE pc' = "answered"
    BY <1>1, <2>2 DEF Records
  <2>3. CASE pc' = "audit"
    <3>1. /\ faulted' = FALSE /\ exec' = [status |-> PostStatus(code), code |-> code]
          /\ due' = PostEvent(Conn1, code, IF code = "" THEN Len(result.rows) ELSE 0)
          /\ UNCHANGED <<code, result, trail>>
      BY <1>1, <2>3
    <3> QED BY <1>1, <2>1, <2>3, <3>1, Stays DEF Records
  <2> QED BY <1>1, <2>2, <2>3
<1>6. RecordsAgree'
  BY <1>1, Stays DEF RecordsAgree, Shown, Unanswered, Answered
<1>7. TargetOnlyByRight' /\ ListingsAreWhole'
  BY <1>1, Stays DEF IInv, TargetOnlyByRight, ListingsAreWhole, Shown, Unanswered, Route
<1>8. CellsAreExact'
  <2>1. answer'.code # "ok"
    <3>1. answer.code # "ok"
      BY <1>1, NotYetShown
    <3> QED BY <1>1, <3>1 DEF Unanswered
  <2> QED BY <2>1, NothingShown DEF Shown
<1> QED BY <1>2, <1>3, <1>4, <1>5, <1>6, <1>7, <1>8 DEF IInv

\* And the second: the event, which the validator accepts or the result is
\* withheld.
LEMMA AuditKeeps ==
  ASSUME IInv, Audit
  PROVE  IInv'
<1> DEFINE c == code
           n == IF c = "" THEN Len(result.rows) ELSE 0
           e == PostEvent(Conn1, c, n)
<1>1. /\ pc = "audit" /\ UNCHANGED <<world, req, rights>>
      /\ UNCHANGED <<due, exec, touched, view, inner>>
      /\ \/ /\ (faulted' <=> faulted) /\ Accepts(due) /\ trail' = Append(trail, due)
            /\ UNCHANGED <<alarmed, result, code>>
            /\ \/ code = "" /\ answer' = answer /\ pc' = "convert"
               \/ /\ code # "" /\ pc' = "answered"
                  /\ answer' = [Unanswered EXCEPT !.code = AnswerCode(code)]
         \/ /\ Accepts(due) => faulted' = TRUE
            /\ alarmed' = TRUE /\ pc' = "answered"
            /\ answer' = [Unanswered EXCEPT !.code = "audit_failed"]
  <2> PICK write \in Writes :
        /\ faulted' = (faulted \/ write # "done")
        /\ trail' = IF write # "failed" /\ Accepts(due) THEN Append(trail, due) ELSE trail
        /\ IF write = "done" /\ Accepts(due)
           THEN /\ UNCHANGED <<alarmed, result>>
                /\ IF code = "" THEN Goto("convert") /\ UNCHANGED code ELSE Refuse(code)
           ELSE AuditFailed
    BY DEF Audit
  <2>1. pc = "audit" /\ Steady(<<due, exec, touched, view, inner>>)
    BY DEF Audit
  <2>2. CASE write = "done" /\ Accepts(due)
    <3>1. faulted' <=> faulted
      BY <2>2
    <3>2. /\ trail' = Append(trail, due) /\ UNCHANGED <<alarmed, result>>
          /\ IF code = "" THEN Goto("convert") /\ UNCHANGED code ELSE Refuse(code)
      BY <2>2
    <3>3. Execute
      BY <2>1 DEF IInv, Route
    <3> QED BY <2>1, <2>2, <3>1, <3>2, <3>3 DEF Steady, Refuse, Reply, Goto
  <2>3. CASE ~(write = "done" /\ Accepts(due))
    <3>1. AuditFailed /\ faulted' = (faulted \/ write # "done")
      BY <2>3
    <3>2. Accepts(due) => faulted' = TRUE
      BY <2>3, <3>1
    <3> QED BY <2>1, <3>1, <3>2 DEF Steady, AuditFailed, Reply
  <2> QED BY <2>2, <2>3
<1>2. /\ Execute /\ ~faulted /\ trail = << >> /\ c \in PostCodes
      /\ c = "" => result \in Results[Conn1.engine]
      /\ exec = [status |-> PostStatus(c), code |-> c] /\ due = e
  BY <1>1 DEF IInv, Records, Route
<1>3. n \in 0..MaxInt32
  <2>1. MaxInt32 \in Nat /\ 0 \in 0..MaxInt32
    <3>1. MaxInt32 \in Nat
      BY SMT DEF MaxInt32
    <3> QED BY <3>1
  <2>2. Conn1.engine \in Dialect
    BY ConnectionTyped DEF Dialect
  <2> QED BY <1>2, <2>1, <2>2, ResultsCapped DEF Listed
<1>4. c # "connection_unavailable" =>
        /\ Accepts(e) /\ e.outcome = PostOutcome(c)
        /\ c = "" => e.metadata.row_count = n
        /\ c # "" => c = IF e.outcome = "denied" THEN e.metadata.reason_code
                        ELSE e.metadata.error_code
  BY <1>2, <1>3, PostAccepted
<1>5. Typed' /\ Route'
  BY <1>1, Stays DEF IInv, Typed, Route, Execute
<1>6. Entitled'
  BY <1>1, Stays DEF IInv, Entitled
<1>7. Judged'
  BY <1>1, Stays DEF IInv, Judged
<1>8. Records'
  <2>1. CASE pc' = "answered"
    BY <2>1 DEF Records
  <2>2. CASE pc' = "convert"
    <3>1. c = "" /\ trail' = Append(trail, due) /\ ~faulted' /\ UNCHANGED <<exec, result>>
      BY <1>1, <1>2, <2>2
    <3>2. trail' = <<PostEvent(Conn1, "", Len(result.rows))>>
      <4>1. trail' = Append(<< >>, e)
        BY <1>2, <3>1
      <4>2. e = PostEvent(Conn1, "", Len(result.rows))
        BY <3>1
      <4> HIDE DEF e
      <4>3. trail' = <<e>>
        BY <4>1
      <4> QED BY <4>2, <4>3
    <3>3. exec' = [status |-> "completed", code |-> ""]
      <4>1. exec' = [status |-> PostStatus(c), code |-> c] /\ c = ""
        BY <1>2, <3>1
      <4>2. PostStatus(c) = "completed"
        BY <4>1 DEF PostStatus
      <4> HIDE DEF c
      <4> QED BY <4>1, <4>2
    <3> QED BY <1>1, <1>2, <2>2, <3>1, <3>2, <3>3, Stays DEF Records
  <2> QED BY <1>1, <2>1, <2>2
<1>9. RecordsAgree'
  <2>1. CASE pc' = "convert"
    BY <2>1 DEF RecordsAgree, Answered
  <2>2. CASE alarmed' = TRUE /\ faulted' = TRUE
             /\ answer' = [Unanswered EXCEPT !.code = "audit_failed"]
    BY <2>2 DEF RecordsAgree, Shown, Unanswered
  <2>3. CASE alarmed' = TRUE /\ ~Accepts(due)
             /\ answer' = [Unanswered EXCEPT !.code = "audit_failed"]
    <3>1. c = "connection_unavailable"
      BY <1>2, <1>4, <2>3
    <3>2. exec'.code = "connection_unavailable"
      BY <1>1, <1>2, <3>1
    <3> QED BY <2>3, <3>2 DEF RecordsAgree, Shown, Unanswered
  <2>4. CASE /\ c # "" /\ ~faulted' /\ Accepts(due) /\ trail' = Append(trail, due)
             /\ pc' = "answered" /\ answer' = [Unanswered EXCEPT !.code = AnswerCode(c)]
    <3>1. trail' = <<e>> /\ Len(trail') = 1 /\ trail'[1] = e /\ exec' = exec
      <4>1. trail' = Append(<< >>, e) /\ exec' = exec
        BY <1>1, <1>2, <2>4
      <4> HIDE DEF e
      <4> QED BY <4>1
    <3>2. c \in PostCodes /\ c \notin {"ok", "audit_failed"}
      BY <1>2 DEF PostCodes, MapAdapter, AdapterCodes, PoolFaults
    <3>3. CASE c # "connection_unavailable"
      <4>1. /\ e.outcome = PostOutcome(c)
            /\ c = IF e.outcome = "denied" THEN e.metadata.reason_code
                   ELSE e.metadata.error_code
        BY <1>4, <2>4, <3>3
      <4>2. AnswerCode(c) \notin {"ok", "audit_failed"} /\ answer'.code = AnswerCode(c)
        BY <2>4, <3>2, Codes DEF Unanswered
      <4>3. exec'.status = PostStatus(c) /\ exec'.code = c
        BY <1>2, <3>1
      <4>4. /\ PostStatus(c) = "cancelled" <=> PostOutcome(c) = "cancelled"
            /\ PostStatus(c) = "failed" <=> PostOutcome(c) \in {"denied", "failed"}
            /\ PostStatus(c) # "completed" /\ PostOutcome(c) # "succeeded"
        BY <2>4 DEF PostStatus, PostOutcome
      <4>5. ~faulted'
        BY <2>4
      <4> HIDE DEF c, e
      <4> QED BY <3>1, <4>1, <4>2, <4>3, <4>4, <4>5 DEF RecordsAgree, Shown, AnswerCode
    <3>4. CASE c = "connection_unavailable"
      <4>1. ~Accepts(due)
        BY <1>2, <3>4, UnavailableRefused
      <4> QED BY <2>4, <4>1
    <3> QED BY <3>3, <3>4
  <2> QED BY <1>1, <1>2, <2>1, <2>2, <2>3, <2>4
<1>10. TargetOnlyByRight' /\ ListingsAreWhole'
  BY <1>1, Stays DEF IInv, TargetOnlyByRight, ListingsAreWhole, Shown, Unanswered, Route, Execute
<1>11. CellsAreExact'
  <2>1. answer'.code # "ok"
    <3>1. code # "ok"
      <4>1. code \in PostCodes
        BY <1>2
      <4> QED BY <4>1 DEF PostCodes, MapAdapter, AdapterCodes, PoolFaults
    <3>2. answer.code # "ok"
      BY <1>1, NotYetShown
    <3> QED BY <1>1, <3>1, <3>2, Codes DEF Unanswered
  <2> QED BY <2>1, NothingShown DEF Shown
<1> QED BY <1>5, <1>6, <1>7, <1>8, <1>9, <1>10, <1>11 DEF IInv

LEMMA AllShown ==
  ASSUME Len(answer'.rows) = Len(result'.rows),
         \A r \in DOMAIN answer'.rows : ShownExactly(result'.rows[r], answer'.rows[r])
  PROVE  CellsAreExact'
BY DEF CellsAreExact, ShownExactly

\* writeQueryResponse: the event was recorded before, its row count is what
\* the client gets.
LEMMA ConvertKeeps ==
  ASSUME IInv, Convert
  PROVE  IInv'
<1> DEFINE wire == ToWireResult(Conn1.engine, result)
<1>1. /\ pc = "convert" /\ UNCHANGED <<world, req, rights>>
      /\ UNCHANGED <<code, result, due, exec, trail, alarmed, faulted, touched, view, inner>>
      /\ pc' = "answered"
      /\ \/ /\ wire.error # ""
            /\ answer' = [Unanswered EXCEPT !.code = wire.error]
         \/ answer' = [Unanswered EXCEPT !.code = "result_too_large"]
         \/ /\ wire.error = ""
            /\ answer' = [code |-> "ok", rows |-> wire.rows, listed |-> {}]
  <2>1. /\ pc = "convert"
        /\ IF wire.error # "" THEN Reply(wire.error)
           ELSE \/ Reply("result_too_large")
                \/ /\ answer' = [code |-> "ok", rows |-> wire.rows, listed |-> {}]
                   /\ pc' = "answered"
        /\ Steady(<<code, result, Record, touched, view, inner>>)
    BY DEF Convert
  <2> HIDE DEF wire
  <2> QED BY <2>1 DEF Steady, Reply, Record
<1>2. /\ Execute /\ ~faulted /\ result \in Results[Conn1.engine]
      /\ exec = [status |-> "completed", code |-> ""]
      /\ trail = <<PostEvent(Conn1, "", Len(result.rows))>>
  BY <1>1 DEF IInv, Records, Route
<1>3. /\ wire.error \in WireErrors \cup {""}
      /\ wire.error = "" =>
           /\ Len(wire.rows) = Len(result.rows)
           /\ DOMAIN wire.rows = DOMAIN result.rows
           /\ \A r \in DOMAIN result.rows : ShownExactly(result.rows[r], wire.rows[r])
  BY <1>2, ConnectionTyped, WireWhole DEF Dialect
<1>4. Typed' /\ Route'
  BY <1>1, Stays DEF IInv, Typed, Route, Execute
<1>5. Entitled'
  BY <1>1, Stays DEF IInv, Entitled
<1>6. Judged' /\ Records'
  BY <1>1, Stays DEF IInv, Judged, Records
<1>7. RecordsAgree'
  <2> DEFINE e == PostEvent(Conn1, "", Len(result.rows))
  <2>1. e.outcome = "succeeded" /\ e.metadata.row_count = Len(result.rows)
    BY DEF PostEvent, PostOutcome, Event
  <2>2. trail' = <<e>> /\ Len(trail') = 1 /\ trail'[1] = e /\ ~faulted'
        /\ exec'.status = "completed"
    BY <1>1, <1>2
  <2>3. answer'.code # "audit_failed"
        /\ (answer'.code = "ok" => Len(answer'.rows) = Len(result.rows))
    <3> HIDE DEF wire
    <3>1. CASE answer' = [code |-> "ok", rows |-> wire.rows, listed |-> {}] /\ wire.error = ""
      BY <1>3, <3>1
    <3>2. CASE \E c \in WireErrors : answer' = [Unanswered EXCEPT !.code = c]
      BY <3>2 DEF Unanswered, WireErrors
    <3> QED BY <1>1, <1>3, <3>1, <3>2 DEF WireErrors
  <2> HIDE DEF e
  <2> QED BY <2>1, <2>2, <2>3 DEF RecordsAgree, Shown
<1>8. TargetOnlyByRight' /\ ListingsAreWhole'
  BY <1>1, <1>2, Stays DEF IInv, TargetOnlyByRight, ListingsAreWhole, Shown, Execute
<1>9. CellsAreExact'
  <2> HIDE DEF wire
  <2>1. CASE answer'.code # "ok"
    BY <2>1, NothingShown DEF Shown
  <2>2. CASE wire.error = "" /\ answer' = [code |-> "ok", rows |-> wire.rows, listed |-> {}]
    <3> DEFINE said == wire.rows
    <3>1. /\ Len(said) = Len(result.rows) /\ DOMAIN said = DOMAIN result.rows
          /\ \A r \in DOMAIN result.rows : ShownExactly(result.rows[r], said[r])
      BY <1>3, <2>2
    <3>2. answer'.rows = said /\ result' = result
      BY <1>1, <2>2
    <3> HIDE DEF said
    <3>3. Len(answer'.rows) = Len(result'.rows)
      BY <3>1, <3>2
    <3>4. ASSUME NEW r \in DOMAIN answer'.rows
          PROVE  ShownExactly(result'.rows[r], answer'.rows[r])
      BY <3>1, <3>2
    <3> QED BY <3>3, <3>4, AllShown
  <2>3. answer'.code # "ok" \/ (wire.error = ""
           /\ answer' = [code |-> "ok", rows |-> wire.rows, listed |-> {}])
    BY <1>1, <1>3 DEF Unanswered, WireErrors
  <2> QED BY <2>1, <2>2, <2>3
<1> QED BY <1>4, <1>5, <1>6, <1>7, <1>8, <1>9 DEF IInv

-----------------------------------------------------------------------------
(* Listings.                                                               *)

LEMMA MinMax ==
  ASSUME NEW a \in Int, NEW b \in Int
  PROVE  /\ Min({a, b}) = IF a <= b THEN a ELSE b
         /\ Max({a, b}) = IF a >= b THEN a ELSE b
BY DEF Min, Max

\* One more than may be listed is asked for: what comes back without being too
\* many is all there is.
LEMMA NothingCutOff ==
  ASSUME NEW all, IsFiniteSet(all), NEW rows \in SUBSET all, NEW max \in Nat,
         Cardinality(rows) = Min({Cardinality(all), Max({Sentinel(max), 1})}),
         ~(Cardinality(rows) > max)
  PROVE  rows = all
<1>1. Cardinality(all) \in Nat
  BY FS_CardinalityType
<1>2. Max({Sentinel(max), 1}) = max + 1
  <2>1. max + 1 \in Int /\ 1 \in Int /\ max + 1 >= 1
    OBVIOUS
  <2>2. Max({max + 1, 1}) = max + 1
    BY <2>1, MinMax
  <2> QED BY <2>2 DEF Sentinel
<1>3. Cardinality(rows) = IF Cardinality(all) <= max + 1 THEN Cardinality(all) ELSE max + 1
  BY <1>1, <1>2, MinMax
<1>4. Cardinality(rows) = Cardinality(all)
  BY <1>1, <1>3
<1> QED BY <1>4, FS_Subset

LEMMA ListingAnswered ==
  ASSUME NEW all, IsFiniteSet(all), NEW max \in Nat, AnswerListing(all, max)
  PROVE  /\ view' = all /\ pc' = "answered"
         /\ \/ \E c : c # "ok" /\ answer' = [Unanswered EXCEPT !.code = c]
            \/ answer' = [code |-> "ok", rows |-> << >>, listed |-> all]
<1>1. PICK rows \in SUBSET all :
        /\ Cardinality(rows) = Min({Cardinality(all), Max({Sentinel(max), 1})})
        /\ IF Cardinality(rows) > max THEN Refuse("result_too_large")
           ELSE \/ Refuse("result_too_large")
                \/ /\ answer' = [code |-> "ok", rows |-> << >>, listed |-> rows]
                   /\ pc' = "answered" /\ UNCHANGED code
  BY DEF AnswerListing
<1>2. view' = all
  BY DEF AnswerListing
<1>3. CASE Refuse("result_too_large")
  BY <1>2, <1>3, Codes DEF Refuse, Reply, AnswerCode
<1>4. CASE ~(Cardinality(rows) > max)
            /\ answer' = [code |-> "ok", rows |-> << >>, listed |-> rows]
            /\ pc' = "answered"
  BY <1>1, <1>2, <1>4, NothingCutOff
<1> QED BY <1>1, <1>3, <1>4

LEMMA ListConnectionsKeeps ==
  ASSUME IInv, ListConnections
  PROVE  IInv'
<1>1. /\ pc = "list" /\ UNCHANGED <<world, req, rights>>
      /\ UNCHANGED <<result, due, exec, trail, alarmed, faulted, touched, inner>>
      /\ pc' = "answered"
      /\ \/ \E c : c # "ok" /\ answer' = [Unanswered EXCEPT !.code = c]
         \/ answer' = [code |-> "ok", rows |-> << >>, listed |-> view']
  <2> DEFINE all == {c \in conns : AllowsRead(policy[c])}
  <2>1. /\ pc = "list" /\ Steady(<<result, Record, touched, inner>>)
        /\ \/ \E fault \in StoreFaults : Refuse(StoreCode(fault))
           \/ AnswerListing(all, MaxConnections)
    BY DEF ListConnections
  <2>2. /\ \A fault \in StoreFaults :
             StoreCode(fault) # "ok" /\ AnswerCode(StoreCode(fault)) # "ok"
    BY Codes
  <2>3. IsFiniteSet(all) /\ MaxConnections \in Nat
    <3>1. all \in SUBSET Conn
      BY DEF IInv, Typed
    <3> HIDE DEF all
    <3> QED BY <3>1, FS_Subset, ListingsFinite, LimitsNatural
  <2> HIDE DEF all
  <2>4. CASE AnswerListing(all, MaxConnections)
    BY <2>1, <2>3, <2>4, ListingAnswered DEF Steady, Record
  <2>5. CASE \E fault \in StoreFaults : Refuse(StoreCode(fault))
    BY <2>1, <2>2, <2>5 DEF Steady, Record, Refuse, Reply
  <2> QED BY <2>1, <2>4, <2>5
<1>2. req.kind = "connections" /\ Membership \in rights
  BY <1>1 DEF IInv, Route, Entitled
<1>3. Typed' /\ Route'
  BY <1>1, Stays DEF IInv, Typed, Route
<1>4. Entitled'
  BY <1>1, Stays DEF IInv, Entitled
<1>5. Judged' /\ Records' /\ RecordsAgree'
  BY <1>1, <1>2, Stays DEF Judged, Records, RecordsAgree, Execute
<1>6. TargetOnlyByRight'
  BY <1>1, <1>2, Stays DEF IInv, TargetOnlyByRight, Membership
<1>7. ListingsAreWhole'
  BY <1>1, Stays DEF ListingsAreWhole, Shown, Unanswered
<1>8. CellsAreExact'
  BY <1>1, <1>2, Stays, NothingShown DEF Execute
<1> QED BY <1>3, <1>4, <1>5, <1>6, <1>7, <1>8 DEF IInv

LEMMA BrowseTargetKeeps ==
  ASSUME IInv, BrowseTarget
  PROVE  IInv'
<1>1. /\ pc = "target" /\ req.kind = "browse" /\ UNCHANGED <<world, req, rights>>
      /\ UNCHANGED <<result, due, exec, trail, alarmed, faulted>>
      /\ pc' = "answered"
      /\ \/ \E c : c # "ok" /\ answer' = [Unanswered EXCEPT !.code = c]
         \/ answer' = [code |-> "ok", rows |-> << >>, listed |-> view']
  <2>1. /\ pc = "target" /\ req.kind = "browse" /\ Steady(<<result, Record>>)
        /\ \/ \E c \in AdapterCodes \ {"unsupported_query"} : Refuse(MapAdapter(c))
           \/ \E all \in SUBSET Entries : AnswerListing(all, MaxEntries)
    BY DEF BrowseTarget
  <2>2. \A c \in AdapterCodes : MapAdapter(c) # "ok" /\ AnswerCode(MapAdapter(c)) # "ok"
    BY DEF AdapterCodes, PoolFaults, MapAdapter, AnswerCode
  <2>3. CASE \E all \in SUBSET Entries : AnswerListing(all, MaxEntries)
    <3>1. PICK all \in SUBSET Entries : AnswerListing(all, MaxEntries)
      BY <2>3
    <3>2. IsFiniteSet(all) /\ MaxEntries \in Nat
      BY FS_Subset, ListingsFinite, LimitsNatural
    <3> QED BY <2>1, <3>1, <3>2, ListingAnswered DEF Steady, Record
  <2>4. CASE \E c \in AdapterCodes \ {"unsupported_query"} : Refuse(MapAdapter(c))
    BY <2>1, <2>2, <2>4 DEF Steady, Record, Refuse, Reply
  <2> QED BY <2>1, <2>3, <2>4
<1>2. Typed' /\ Route'
  BY <1>1, Stays DEF IInv, Typed, Route
<1>3. Entitled'
  BY <1>1, Stays DEF IInv, Entitled
<1>4. Judged' /\ Records' /\ RecordsAgree'
  BY <1>1, Stays DEF Judged, Records, RecordsAgree, Execute
<1>5. TargetOnlyByRight'
  BY <1>1, Stays DEF IInv, TargetOnlyByRight, Entitled, Membership
<1>6. ListingsAreWhole'
  BY <1>1, Stays DEF ListingsAreWhole, Shown, Unanswered
<1>7. CellsAreExact'
  BY <1>1, Stays, NothingShown DEF IInv, Route, Shown, Unanswered, Execute
<1> QED BY <1>2, <1>3, <1>4, <1>5, <1>6, <1>7 DEF IInv

-----------------------------------------------------------------------------
(* The test of a connection, and the administrators.                       *)

LEMMA PingTargetKeeps ==
  ASSUME IInv, PingTarget
  PROVE  IInv'
<1>1. /\ pc = "target" /\ req.kind = "test" /\ UNCHANGED <<world, req, rights>>
      /\ pc' = "report" /\ answer' = answer
  BY DEF PingTarget, Steady, Goto
<1>2. Typed' /\ Route'
  BY <1>1, Stays DEF IInv, Typed, Route
<1>3. Entitled'
  BY <1>1, Stays DEF IInv, Entitled
<1>4. Judged' /\ Records' /\ RecordsAgree'
  BY <1>1, Stays DEF Judged, Records, RecordsAgree, Execute
<1>5. TargetOnlyByRight' /\ ListingsAreWhole'
  BY <1>1, Stays DEF IInv, TargetOnlyByRight, ListingsAreWhole, Entitled, Membership
<1>6. CellsAreExact'
  BY <1>1, Stays, NothingShown DEF IInv, Route, Shown, Unanswered, Execute
<1> QED BY <1>2, <1>3, <1>4, <1>5, <1>6 DEF IInv

LEMMA ReportKeeps ==
  ASSUME IInv, Report
  PROVE  IInv'
<1>1. /\ pc = "report" /\ UNCHANGED <<world, req, rights, touched>> /\ pc' = "answered"
  BY DEF Report, Steady, Refuse, Reply, AuditFailed
<1>2. req.kind = "test"
  BY <1>1 DEF IInv, Route
<1>3. Typed' /\ Route'
  BY <1>1, Stays DEF IInv, Typed, Route
<1>4. Entitled'
  BY <1>1, Stays DEF IInv, Entitled
<1>5. Judged' /\ Records' /\ RecordsAgree'
  BY <1>1, <1>2, Stays DEF Judged, Records, RecordsAgree, Execute
<1>6. TargetOnlyByRight' /\ ListingsAreWhole'
  BY <1>1, <1>2, Stays DEF IInv, TargetOnlyByRight, ListingsAreWhole
<1>7. CellsAreExact'
  BY <1>1, <1>2, Stays, NothingShown DEF Execute
<1> QED BY <1>3, <1>4, <1>5, <1>6, <1>7 DEF IInv

\* Whatever they change, what the caller was entitled to stays in the history.
LEMMA ChangeKeeps ==
  ASSUME IInv, Change
  PROVE  IInv'
<1>1. /\ pc \notin {"received", "answered"}
      /\ rights' = rights \cup Held(role', conns', policy')
      /\ UNCHANGED <<req, pc, code, due, result, exec, trail, alarmed, touched, answer,
                     view, faulted, inner>>
  BY DEF Change
<1>2. /\ Conn1' = Conn1 /\ (Execute' <=> Execute) /\ Membership' = Membership
      /\ PostCodes' = PostCodes
  BY <1>1, SameRequest
<1>3. Held(role, conns, policy)' = Held(role', conns', policy')
  BY <1>1 DEF Held, AllowsRead
<1>4. role' \in Roles /\ conns' \subseteq Conn /\ policy' \in [Conn -> Policies]
  BY DEF IInv, Typed, Change, Roles, Policies
<1>5. Typed' /\ Route'
  BY <1>1, <1>2, <1>4 DEF IInv, Typed, Route
<1>6. Entitled'
  BY <1>1, <1>2, <1>3 DEF IInv, Entitled
<1>7. Judged'
  BY <1>1, <1>2 DEF IInv, Judged
<1>8. Records'
  BY <1>1, <1>2 DEF IInv, Records, Running
<1>9. RecordsAgree'
  BY <1>1 DEF RecordsAgree, Answered
<1>10. TargetOnlyByRight' /\ ListingsAreWhole'
  BY <1>1 DEF IInv, TargetOnlyByRight, ListingsAreWhole, Shown
<1>11. CellsAreExact'
  <2>1. UNCHANGED <<answer, result, req>>
    BY <1>1
  <2> QED BY <2>1, ExactStays DEF IInv
<1> QED BY <1>5, <1>6, <1>7, <1>8, <1>9, <1>10, <1>11 DEF IInv

-----------------------------------------------------------------------------
(* The specification.                                                      *)

LEMMA InitIInv == Init => IInv
<1> SUFFICES ASSUME Init PROVE IInv
  OBVIOUS
<1>1. PICK s \in Scenarios :
        req = s.req /\ role = s.role /\ conns = s.conns /\ policy = s.policy
  BY DEF Init
<1>2. /\ pc = IF req.kind = "test" THEN "member" ELSE "received"
      /\ code = "" /\ exec = NoExec /\ trail = << >> /\ touched = FALSE
      /\ answer = Unanswered /\ rights = Held(role, conns, policy)
      /\ faulted = FALSE
  BY DEF Init
<1>3. Typed
  BY <1>1, <1>2, ScenariosTyped DEF Typed
<1>4. Route /\ Entitled
  BY <1>2 DEF Route, Entitled
<1>5. Judged /\ Records /\ RecordsAgree
  BY <1>2 DEF Judged, Records, RecordsAgree, Answered
<1>6. TargetOnlyByRight /\ ListingsAreWhole
  BY <1>2 DEF TargetOnlyByRight, ListingsAreWhole, Shown, Unanswered
<1>7. CellsAreExact
  BY <1>2 DEF CellsAreExact, Shown, Unanswered
<1> QED BY <1>3, <1>4, <1>5, <1>6, <1>7 DEF IInv

LEMMA NextIInv == IInv /\ [Next]_vars => IInv'
<1> SUFFICES ASSUME IInv, [Next]_vars PROVE IInv'
  OBVIOUS
<1>1. CASE UNCHANGED vars
  <2>1. /\ UNCHANGED <<world, req, rights>>
        /\ UNCHANGED <<pc, code, due, result, exec, trail, alarmed, touched, answer,
                       view, faulted, inner>>
    BY <1>1 DEF vars, world
  <2>2. Typed' /\ Route' /\ Entitled'
    BY <2>1, Stays DEF IInv, Typed, Route, Entitled
  <2>3. Judged' /\ Records'
    BY <2>1, Stays DEF IInv, Judged, Records, Running
  <2>4. RecordsAgree'
    BY <2>1, Stays DEF IInv, RecordsAgree, Answered, Shown, AnswerCode
  <2>5. TargetOnlyByRight' /\ ListingsAreWhole'
    BY <2>1 DEF IInv, TargetOnlyByRight, ListingsAreWhole, Shown
  <2>6. CellsAreExact'
    BY <2>1, ExactStays DEF IInv
  <2> QED BY <2>2, <2>3, <2>4, <2>5, <2>6 DEF IInv
<1>2. CASE Next
  BY <1>2, ReceiveExecutionKeeps, ReceiveListingKeeps, ReadMemberKeeps, ReadConnectionKeeps,
     JudgeSQLKeeps, ReadPolicyKeeps, ResolveCredentialKeeps, RecordRefusalKeeps, RunKeeps,
     QueryTargetKeeps, FinishKeeps, AuditKeeps, ConvertKeeps, ListConnectionsKeeps,
     BrowseTargetKeeps, PingTargetKeeps, ReportKeeps, ChangeKeeps
  DEF Next
<1> QED BY <1>1, <1>2

LEMMA Invariant == Spec => []IInv
BY InitIInv, NextIInv, PTL DEF Spec

\* authorizeRead, requireManager and Execute read the membership, the
\* connection and the policy one after the other while administrators change
\* them; nobody gets to a target database, or is shown connections, who was not
\* entitled to each at some moment of the request.
THEOREM NobodyElseGetsThere == Spec => []TargetOnlyByRight
<1>1. IInv => TargetOnlyByRight
  BY DEF IInv
<1> QED BY <1>1, Invariant, PTL

\* EvaluateSQL: what reaches the target consists of branches each of which the
\* policy would have allowed alone, however deep the set operations nest.
THEOREM EveryBranchIsJudged == Spec => []BranchesAreJudged
<1>1. IInv => BranchesAreJudged
  <2> SUFFICES ASSUME IInv, touched, Execute,
                      NEW t \in Branches(req.text.trees[1])
               PROVE  JudgeTree(Conn1.engine, t) = "allowed"
    BY DEF BranchesAreJudged
  <2>1. Judge(Conn1.engine, req.text) = "allowed"
    BY DEF IInv, Judged
  <2>2. Classify(Conn1.engine, req.text) = "allowed"
    BY <2>1 DEF Judge, Decide
  <2>3. req.text.trees # << >> /\ ~(Len(req.text.trees) > 1)
    BY <2>2 DEF Classify
  <2>4. JudgeTree(Conn1.engine, req.text.trees[1]) = "allowed"
    BY <2>2, <2>3, Zenon DEF Classify
  <2>5. req.text.trees[1] \in Tree
    <3>1. req.text.trees \in Seq(Tree)
      BY DEF IInv, Typed
    <3> QED BY <2>3, <3>1
  <2> QED BY <2>4, <2>5, BranchesAllowed
<1> QED BY <1>1, Invariant, PTL

\* The pipeline writes the execution and its event in several transactions and
\* answers afterwards: unless a write fails, the three say the same, and the
\* validator refuses none of its events but connection_unavailable.
THEOREM TheThreeRecordsAgree == Spec => []RecordsAgree
<1>1. IInv => RecordsAgree
  BY DEF IInv
<1> QED BY <1>1, Invariant, PTL

\* boundedSentinel: a listing that is shown is the whole of what there was when
\* it was read.
THEOREM NoListingIsCutOff == Spec => []ListingsAreWhole
<1>1. IInv => ListingsAreWhole
  BY DEF IInv
<1> QED BY <1>1, Invariant, PTL

\* toWireResult: the cells that are shown are the values that were read, digit
\* by digit whatever their number, the zeros and the point of a numeric
\* included, and every row is there and within its budget.
THEOREM NoCellIsAltered == Spec => []CellsAreExact
<1>1. IInv => CellsAreExact
  BY DEF IInv
<1> QED BY <1>1, Invariant, PTL
============================================================================
