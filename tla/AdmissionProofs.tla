-------------------------- MODULE AdmissionProofs --------------------------
(***************************************************************************)
(* Proofs about admission control, for any number of calls, users,         *)
(* workspaces and connections and any positive limits: every limiter       *)
(* counts exactly the calls that hold a slot of it, so no more than its    *)
(* maximum run.                                                            *)
(*                                                                         *)
(* The inductive invariant is the type invariant, SlotsExact, and that no  *)
(* limiter is above its maximum.  SlotsExact is needed to show that a      *)
(* decrement never meets a zero, which dec would silently swallow.         *)
(***************************************************************************)
EXTENDS Admission, FiniteSetTheorems, TLAPS

\* Whether a call at a step holds a slot of a limiter.
Slot(l, c, step) == \/ scope[c].user = l /\ step \in HoldsUser
                    \/ scope[c].ws = l /\ step \in HoldsWs
                    \/ scope[c].conn = l /\ step \in HoldsConn

WithinMax == \A l \in Limiter : count[l] <= MaxOf(l)

IInv == TypeOK /\ SlotsExact /\ WithinMax

One(holds) == IF holds THEN 1 ELSE 0

LEMMA HoldersAreSlots ==
  ASSUME NEW l
  PROVE  Holders(l) = {c \in Call : Slot(l, c, pc[c])}
BY DEF Holders, Slot

LEMMA HoldersFinite ==
  ASSUME NEW l
  PROVE  IsFiniteSet(Holders(l)) /\ Cardinality(Holders(l)) \in Nat
<1>1. Holders(l) \in SUBSET Call
  BY DEF Holders
<1> QED BY <1>1, CallsFinite, FS_Subset, FS_CardinalityType

\* When one call moves to another step, the holders of a limiter change by
\* that call at most.
LEMMA OneCallMoves ==
  ASSUME TypeOK, NEW c \in Call, NEW s \in Steps,
         pc' = [pc EXCEPT ![c] = s], scope' = scope, NEW l
  PROVE  Cardinality(Holders(l))' =
           Cardinality(Holders(l)) + One(Slot(l, c, s)) - One(Slot(l, c, pc[c]))
<1> DEFINE H == Holders(l)
           J == Holders(l)'
<1>1. H = {x \in Call : Slot(l, x, pc[x])}
  BY HoldersAreSlots
<1>2. J = {x \in Call : Slot(l, x, pc'[x])}
  BY DEF Holders, Slot
<1>3. pc'[c] = s /\ \A x \in Call : x # c => pc'[x] = pc[x]
  BY DEF TypeOK
<1>4. IsFiniteSet(H) /\ Cardinality(H) \in Nat
  BY HoldersFinite
<1> HIDE DEF H, J
<1>5. CASE Slot(l, c, s) /\ Slot(l, c, pc[c])
  <2>1. J = H
    BY <1>1, <1>2, <1>3, <1>5
  <2> QED BY <2>1, <1>4, <1>5 DEF One, H, J
<1>6. CASE Slot(l, c, s) /\ ~Slot(l, c, pc[c])
  <2>1. J = H \cup {c} /\ c \notin H
    BY <1>1, <1>2, <1>3, <1>6
  <2>2. Cardinality(J) = Cardinality(H) + 1
    BY <2>1, <1>4, FS_AddElement
  <2> QED BY <2>2, <1>4, <1>6 DEF One, H, J
<1>7. CASE ~Slot(l, c, s) /\ Slot(l, c, pc[c])
  <2>1. J = H \ {c} /\ c \in H
    BY <1>1, <1>2, <1>3, <1>7
  <2>2. Cardinality(J) = Cardinality(H) - 1
    BY <2>1, <1>4, FS_RemoveElement
  <2> QED BY <2>2, <1>4, <1>7 DEF One, H, J
<1>8. CASE ~Slot(l, c, s) /\ ~Slot(l, c, pc[c])
  <2>1. J = H
    BY <1>1, <1>2, <1>3, <1>8
  <2> QED BY <2>1, <1>4, <1>8 DEF One, H, J
<1> QED BY <1>5, <1>6, <1>7, <1>8

\* A call that moves, with the limiters adjusted by the slots it takes and
\* gives back, keeps the counts exact.
LEMMA ExactStep ==
  ASSUME IInv, NEW c \in Call, NEW s \in Steps,
         pc' = [pc EXCEPT ![c] = s], scope' = scope,
         \A l \in Limiter :
           count'[l] = count[l] + One(Slot(l, c, s)) - One(Slot(l, c, pc[c]))
  PROVE  SlotsExact'
<1>1. SUFFICES ASSUME NEW l \in Limiter
               PROVE  count'[l] = Cardinality(Holders(l))'
  BY DEF SlotsExact
<1>2. Cardinality(Holders(l))' =
        Cardinality(Holders(l)) + One(Slot(l, c, s)) - One(Slot(l, c, pc[c]))
  BY OneCallMoves DEF IInv
<1>3. count[l] = Cardinality(Holders(l))
  BY DEF IInv, SlotsExact
<1> QED BY <1>2, <1>3

\* A call that holds a slot is counted.
LEMMA HeldIsCounted ==
  ASSUME IInv, NEW c \in Call, NEW l \in Limiter, Slot(l, c, pc[c])
  PROVE  count[l] > 0
<1>1. c \in Holders(l)
  BY HoldersAreSlots
<1>2. Holders(l) # {} /\ IsFiniteSet(Holders(l)) /\ Cardinality(Holders(l)) \in Nat
  BY <1>1, HoldersFinite
<1>3. Cardinality(Holders(l)) # 0
  BY <1>2, FS_EmptySet
<1> QED BY <1>2, <1>3 DEF IInv, SlotsExact

\* The limiters of a call are three different ones.
LEMMA ThreeLimiters ==
  ASSUME TypeOK, NEW c \in Call
  PROVE  /\ scope[c].user \in Limiter /\ scope[c].ws \in Limiter /\ scope[c].conn \in Limiter
         /\ scope[c].user # scope[c].ws /\ scope[c].user # scope[c].conn
         /\ scope[c].ws # scope[c].conn
<1>1. /\ scope[c].user \in User /\ scope[c].ws \in Workspace
      /\ scope[c].conn \in Connection
  BY DEF TypeOK
<1> QED BY <1>1, LimitersDisjoint DEF Limiter

\* A call takes a slot: the limiter named by its step, if it is not full.
LEMMA TakeStep ==
  ASSUME IInv, NEW c \in Call, NEW l \in Limiter, NEW taken \in Steps, NEW full \in Steps,
         TryInc(c, l, taken, full), scope' = scope,
         \A m \in Limiter : Slot(m, c, full) <=> Slot(m, c, pc[c]),
         \A m \in Limiter : m # l => (Slot(m, c, taken) <=> Slot(m, c, pc[c])),
         Slot(l, c, taken), ~Slot(l, c, pc[c])
  PROVE  SlotsExact' /\ WithinMax' /\ count' \in [Limiter -> Nat] /\ pc' \in [Call -> Steps]
<1>1. count \in [Limiter -> Nat] /\ pc \in [Call -> Steps]
  BY DEF IInv, TypeOK
<1>0. \A m \in Limiter : MaxOf(m) \in Nat
  BY LimitsPositive DEF MaxOf
<1>2. CASE count[l] >= MaxOf(l)
  <2>1. pc' = [pc EXCEPT ![c] = full] /\ count' = count
    BY <1>2 DEF TryInc, Goto
  <2>2. \A m \in Limiter :
          count'[m] = count[m] + One(Slot(m, c, full)) - One(Slot(m, c, pc[c]))
    BY <2>1, <1>1 DEF One
  <2>3. SlotsExact'
    BY <2>1, <2>2, ExactStep
  <2> QED BY <2>1, <2>3, <1>1 DEF IInv, WithinMax, MaxOf
<1>3. CASE ~(count[l] >= MaxOf(l))
  <2>1. /\ pc' = [pc EXCEPT ![c] = taken]
        /\ count' = [count EXCEPT ![l] = @ + 1]
    BY <1>3 DEF TryInc, Goto
  <2>2. \A m \in Limiter :
          count'[m] = count[m] + One(Slot(m, c, taken)) - One(Slot(m, c, pc[c]))
    BY <2>1, <1>1 DEF One
  <2>3. SlotsExact'
    BY <2>1, <2>2, ExactStep
  <2>4. count' \in [Limiter -> Nat]
    BY <2>1, <1>1
  <2>5. \A m \in Limiter : count'[m] <= MaxOf(m)
    BY <2>1, <1>0, <1>1, <1>3 DEF IInv, WithinMax
  <2> QED BY <2>1, <2>3, <2>4, <2>5, <1>1 DEF WithinMax, MaxOf
<1> QED BY <1>2, <1>3

\* A call gives a slot back.
LEMMA DropStep ==
  ASSUME IInv, NEW c \in Call, NEW l \in Limiter, NEW s \in Steps,
         Dec(l), Goto(c, s), scope' = scope,
         \A m \in Limiter : m # l => (Slot(m, c, s) <=> Slot(m, c, pc[c])),
         ~Slot(l, c, s), Slot(l, c, pc[c])
  PROVE  SlotsExact' /\ WithinMax' /\ count' \in [Limiter -> Nat] /\ pc' \in [Call -> Steps]
<1>1. count \in [Limiter -> Nat] /\ pc \in [Call -> Steps]
  BY DEF IInv, TypeOK
<1>2. \A m \in Limiter : MaxOf(m) \in Nat
  BY LimitsPositive DEF MaxOf
<1>3. count[l] > 0
  BY HeldIsCounted
<1>4. count' = [count EXCEPT ![l] = @ - 1] /\ pc' = [pc EXCEPT ![c] = s]
  BY <1>1, <1>3 DEF Dec, Goto
<1>5. \A m \in Limiter :
        count'[m] = count[m] + One(Slot(m, c, s)) - One(Slot(m, c, pc[c]))
  BY <1>1, <1>4 DEF One
<1>6. SlotsExact'
  BY <1>4, <1>5, ExactStep
<1>7. count' \in [Limiter -> Nat]
  BY <1>1, <1>3, <1>4
<1>8. \A m \in Limiter : count'[m] <= MaxOf(m)
  BY <1>1, <1>2, <1>4 DEF IInv, WithinMax
<1> QED BY <1>1, <1>4, <1>6, <1>7, <1>8 DEF WithinMax, MaxOf

\* A call that moves between steps that hold the same slots.
LEMMA MoveStep ==
  ASSUME IInv, NEW c \in Call, NEW s \in Steps,
         Goto(c, s), count' = count, scope' = scope,
         \A m \in Limiter : Slot(m, c, s) <=> Slot(m, c, pc[c])
  PROVE  SlotsExact' /\ WithinMax' /\ count' \in [Limiter -> Nat] /\ pc' \in [Call -> Steps]
<1>1. count \in [Limiter -> Nat] /\ pc \in [Call -> Steps]
  BY DEF IInv, TypeOK
<1>2. pc' = [pc EXCEPT ![c] = s]
  BY DEF Goto
<1>3. \A m \in Limiter :
        count'[m] = count[m] + One(Slot(m, c, s)) - One(Slot(m, c, pc[c]))
  BY <1>1 DEF One
<1>4. SlotsExact'
  BY <1>2, <1>3, ExactStep
<1> QED BY <1>1, <1>2, <1>4 DEF IInv, WithinMax, MaxOf

-----------------------------------------------------------------------------
LEMMA InitIInv == Init => IInv
<1>1. SUFFICES ASSUME Init PROVE IInv
  OBVIOUS
<1>2. TypeOK
  BY <1>1 DEF Init, TypeOK, Steps
<1>3. \A l \in Limiter : count[l] = 0 /\ Holders(l) = {}
  BY <1>1 DEF Init, Holders, HoldsUser, HoldsWs, HoldsConn
<1>4. SlotsExact
  BY <1>3, FS_EmptySet DEF SlotsExact
<1>5. WithinMax
  BY <1>3, LimitsPositive DEF WithinMax, MaxOf
<1> QED BY <1>2, <1>4, <1>5 DEF IInv

\* Every step keeps the invariant.
LEMMA NextIInv == IInv /\ [Next]_vars => IInv'
<1>1. SUFFICES ASSUME IInv, [Next]_vars PROVE IInv'
  OBVIOUS
<1> USE <1>1
<1> DEFINE Kept == /\ SlotsExact' /\ WithinMax' /\ count' \in [Limiter -> Nat]
                   /\ pc' \in [Call -> Steps]
<1>2. TypeOK
  BY DEF IInv
<1>3. ASSUME NEW c \in Call, CallStep(c)
      PROVE  Kept /\ holder' \subseteq Call /\ closed' = closed /\ scope' = scope
  <2> DEFINE u == scope[c].user
             w == scope[c].ws
             k == scope[c].conn
  <2>1. /\ u \in Limiter /\ w \in Limiter /\ k \in Limiter
        /\ u # w /\ u # k /\ w # k
    BY <1>2, ThreeLimiters
  <2>2. holder \subseteq Call
    BY <1>2 DEF TypeOK
  <2> HIDE DEF Kept
  <2>0. \A st \in {"idle", "takeUser", "takeWs", "takeConn", "undoWs", "undoUser", "running",
                   "dropConn", "dropWs", "dropUser", "released", "refused"} : st \in Steps
    BY DEF Steps
  <2>a. \A m \in Limiter :
          /\ ~Slot(m, c, "idle") /\ ~Slot(m, c, "takeUser") /\ ~Slot(m, c, "refused")
          /\ ~Slot(m, c, "released")
          /\ \A st \in {"takeWs", "undoUser", "dropUser"} : Slot(m, c, st) <=> m = u
          /\ \A st \in {"takeConn", "undoWs", "dropWs"} : Slot(m, c, st) <=> m \in {u, w}
          /\ \A st \in {"running", "dropConn"} : Slot(m, c, st) <=> m \in {u, w, k}
    BY DEF Slot, HoldsUser, HoldsWs, HoldsConn
  <2>3. CASE Enter(c)
    <3>1. CASE closed
      <4>1. Goto(c, "refused") /\ count' = count /\ scope' = scope /\ holder' = holder
            /\ closed' = closed /\ pc[c] = "idle"
        BY <2>3, <3>1 DEF Enter
      <4>2. \A m \in Limiter : Slot(m, c, "refused") <=> Slot(m, c, pc[c])
        BY <4>1, <2>a
      <4>3. Kept
        BY <4>1, <4>2, <2>0, MoveStep DEF Kept
      <4> QED BY <4>1, <4>3, <2>2
    <3>2. CASE ~closed
      <4>1. Goto(c, "takeUser") /\ count' = count /\ scope' = scope /\ holder' = {c}
            /\ closed' = closed /\ pc[c] = "idle"
        BY <2>3, <3>2 DEF Enter
      <4>2. \A m \in Limiter : Slot(m, c, "takeUser") <=> Slot(m, c, pc[c])
        BY <4>1, <2>a
      <4>3. Kept
        BY <4>1, <4>2, <2>0, MoveStep DEF Kept
      <4> QED BY <4>1, <4>3
    <3> QED BY <3>1, <3>2
  <2>4. CASE TakeUser(c)
    <3>1. pc[c] = "takeUser" /\ TryInc(c, u, "takeWs", "refused") /\ scope' = scope
      BY <2>4 DEF TakeUser
    <3>2. /\ \A m \in Limiter : Slot(m, c, "refused") <=> Slot(m, c, pc[c])
          /\ \A m \in Limiter : m # u => (Slot(m, c, "takeWs") <=> Slot(m, c, pc[c]))
          /\ Slot(u, c, "takeWs") /\ ~Slot(u, c, pc[c])
      BY <3>1, <2>1, <2>a
    <3>3. Kept
      BY <3>1, <3>2, <2>0, <2>1, TakeStep DEF Kept
    <3> QED BY <3>1, <3>3, <2>2, <2>4 DEF TakeUser
  <2>5. CASE TakeWs(c)
    <3>1. pc[c] = "takeWs" /\ TryInc(c, w, "takeConn", "undoUser") /\ scope' = scope
      BY <2>5 DEF TakeWs
    <3>2. /\ \A m \in Limiter : Slot(m, c, "undoUser") <=> Slot(m, c, pc[c])
          /\ \A m \in Limiter : m # w => (Slot(m, c, "takeConn") <=> Slot(m, c, pc[c]))
          /\ Slot(w, c, "takeConn") /\ ~Slot(w, c, pc[c])
      BY <3>1, <2>1, <2>a
    <3>3. Kept
      BY <3>1, <3>2, <2>0, <2>1, TakeStep DEF Kept
    <3> QED BY <3>3, <2>2, <2>5 DEF TakeWs
  <2>6. CASE TakeConn(c)
    <3>1. pc[c] = "takeConn" /\ TryInc(c, k, "running", "undoWs") /\ scope' = scope
      BY <2>6 DEF TakeConn
    <3>2. /\ \A m \in Limiter : Slot(m, c, "undoWs") <=> Slot(m, c, pc[c])
          /\ \A m \in Limiter : m # k => (Slot(m, c, "running") <=> Slot(m, c, pc[c]))
          /\ Slot(k, c, "running") /\ ~Slot(k, c, pc[c])
      BY <3>1, <2>1, <2>a
    <3>3. Kept
      BY <3>1, <3>2, <2>0, <2>1, TakeStep DEF Kept
    <3> QED BY <3>3, <2>2, <2>6 DEF TakeConn
  <2>7. CASE UndoWs(c)
    <3>1. pc[c] = "undoWs" /\ Dec(w) /\ Goto(c, "undoUser") /\ scope' = scope
      BY <2>7 DEF UndoWs
    <3>2. /\ \A m \in Limiter : m # w => (Slot(m, c, "undoUser") <=> Slot(m, c, pc[c]))
          /\ ~Slot(w, c, "undoUser") /\ Slot(w, c, pc[c])
      BY <3>1, <2>1, <2>a
    <3>3. Kept
      BY <3>1, <3>2, <2>0, <2>1, DropStep DEF Kept
    <3> QED BY <3>3, <2>2, <2>7 DEF UndoWs
  <2>8. CASE UndoUser(c)
    <3>1. pc[c] = "undoUser" /\ Dec(u) /\ Goto(c, "refused") /\ scope' = scope
      BY <2>8 DEF UndoUser
    <3>2. /\ \A m \in Limiter : m # u => (Slot(m, c, "refused") <=> Slot(m, c, pc[c]))
          /\ ~Slot(u, c, "refused") /\ Slot(u, c, pc[c])
      BY <3>1, <2>1, <2>a
    <3>3. Kept
      BY <3>1, <3>2, <2>0, <2>1, DropStep DEF Kept
    <3> QED BY <3>3, <2>2, <2>8 DEF UndoUser
  <2>9. CASE Release(c)
    <3>1. pc[c] = "running" /\ Goto(c, "dropConn") /\ count' = count /\ scope' = scope
      BY <2>9 DEF Release
    <3>2. \A m \in Limiter : Slot(m, c, "dropConn") <=> Slot(m, c, pc[c])
      BY <3>1, <2>1, <2>a
    <3>3. Kept
      BY <3>1, <3>2, <2>0, <2>1, MoveStep DEF Kept
    <3> QED BY <3>3, <2>2, <2>9 DEF Release
  <2>10. CASE DropConn(c)
    <3>1. pc[c] = "dropConn" /\ Dec(k) /\ Goto(c, "dropWs") /\ scope' = scope
      BY <2>10 DEF DropConn
    <3>2. /\ \A m \in Limiter : m # k => (Slot(m, c, "dropWs") <=> Slot(m, c, pc[c]))
          /\ ~Slot(k, c, "dropWs") /\ Slot(k, c, pc[c])
      BY <3>1, <2>1, <2>a
    <3>3. Kept
      BY <3>1, <3>2, <2>0, <2>1, DropStep DEF Kept
    <3> QED BY <3>3, <2>2, <2>10 DEF DropConn
  <2>11. CASE DropWs(c)
    <3>1. pc[c] = "dropWs" /\ Dec(w) /\ Goto(c, "dropUser") /\ scope' = scope
      BY <2>11 DEF DropWs
    <3>2. /\ \A m \in Limiter : m # w => (Slot(m, c, "dropUser") <=> Slot(m, c, pc[c]))
          /\ ~Slot(w, c, "dropUser") /\ Slot(w, c, pc[c])
      BY <3>1, <2>1, <2>a
    <3>3. Kept
      BY <3>1, <3>2, <2>0, <2>1, DropStep DEF Kept
    <3> QED BY <3>3, <2>2, <2>11 DEF DropWs
  <2>12. CASE DropUser(c)
    <3>1. pc[c] = "dropUser" /\ Dec(u) /\ Goto(c, "released") /\ scope' = scope
      BY <2>12 DEF DropUser
    <3>2. /\ \A m \in Limiter : m # u => (Slot(m, c, "released") <=> Slot(m, c, pc[c]))
          /\ ~Slot(u, c, "released") /\ Slot(u, c, pc[c])
      BY <3>1, <2>1, <2>a
    <3>3. Kept
      BY <3>1, <3>2, <2>0, <2>1, DropStep DEF Kept
    <3> QED BY <3>3, <2>2, <2>12 DEF DropUser
  <2> QED BY <1>3, <2>3, <2>4, <2>5, <2>6, <2>7, <2>8, <2>9, <2>10, <2>11, <2>12
          DEF CallStep
<1>4. CASE \E c \in Call : CallStep(c)
  BY <1>2, <1>3, <1>4 DEF IInv, TypeOK
<1>5. CASE Close
  BY <1>5 DEF Close, IInv, TypeOK, SlotsExact, WithinMax, Holders, MaxOf
<1>6. CASE UNCHANGED vars
  BY <1>6 DEF vars, IInv, TypeOK, SlotsExact, WithinMax, Holders, MaxOf
<1> QED BY <1>4, <1>5, <1>6 DEF Next

LEMMA Inductive == Spec => []IInv
<1> QED BY InitIInv, NextIInv, PTL DEF Spec

\* The limiters and the calls keep their types; in particular no counter goes
\* below zero in any interleaving of rollbacks and releases.
THEOREM TypeCorrect == Spec => []TypeOK
<1>1. IInv => TypeOK
  BY DEF IInv
<1> QED BY Inductive, <1>1, PTL

\* Every limiter of tryInc and dec counts exactly the calls that hold a slot
\* of it, for any number of concurrent TryAcquire and Release.
THEOREM SlotsAreExact == Spec => []SlotsExact
<1>1. IInv => SlotsExact
  BY DEF IInv
<1> QED BY Inductive, <1>1, PTL

\* The limits hold: no user, workspace or connection runs more queries than
\* AdmissionConfig allows it.
THEOREM ConcurrencyIsBounded == Spec => []ConcurrencyBounded
<1>1. IInv => ConcurrencyBounded
  <2>1. SUFFICES ASSUME IInv, NEW l \in Limiter
                 PROVE  Cardinality(Running(l)) <= MaxOf(l)
    BY DEF ConcurrencyBounded
  <2>2. Running(l) \in SUBSET Holders(l)
    BY DEF Running, Holders, HoldsUser, HoldsWs, HoldsConn
  <2>3. /\ IsFiniteSet(Holders(l)) /\ Cardinality(Holders(l)) \in Nat
    BY HoldersFinite
  <2>4. Cardinality(Running(l)) <= Cardinality(Holders(l)) /\ Cardinality(Running(l)) \in Nat
    BY <2>2, <2>3, FS_Subset, FS_CardinalityType
  <2>5. Cardinality(Holders(l)) <= MaxOf(l)
    BY <2>1 DEF IInv, SlotsExact, WithinMax
  <2>6. MaxOf(l) \in Nat
    BY LimitsPositive DEF MaxOf
  <2> QED BY <2>3, <2>4, <2>5, <2>6
<1> QED BY Inductive, <1>1, PTL
=============================================================================
