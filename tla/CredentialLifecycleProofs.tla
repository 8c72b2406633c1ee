--------------------- MODULE CredentialLifecycleProofs ---------------------
(***************************************************************************)
(* Proofs about the transactions on a credential and its connections, for  *)
(* any number of requests, connections and versions: no connection refers  *)
(* to a retired version, no version is rotated away twice, the audit trail *)
(* has every change and every refusal, and the revision of a connection    *)
(* only grows.                                                             *)
(*                                                                         *)
(* The invariant says, for each request, which row it has locked and what  *)
(* it knows of it because of that lock: a rotation that the next version   *)
(* is absent, a retirement that the version is active and which references *)
(* are still to be looked at, a reference that its version is active.  A   *)
(* commit is the only step that changes the tables, and CommitSparesOthers *)
(* shows that what the others know survives it.                            *)
(***************************************************************************)
EXTENDS CredentialLifecycle, FiniteSetTheorems, WellFoundedInduction, TLAPS

-----------------------------------------------------------------------------
(* The invariant.                                                          *)

Ending(t) == pc[t] \in {"append", "commit"}
Rotating(t) ==
  job[t].kind = "rotate" /\ pc[t] \in {"insert", "move", "moving", "append", "commit"}
Sealing(t) == job[t].kind = "seal" /\ pc[t] \in {"insert", "append", "commit"}
Retiring(t) ==
  job[t].kind = "retire" /\ pc[t] \in {"count", "counting", "append", "commit"}
Referring(t) ==
  job[t].kind \in {"create", "update"} /\ pc[t] \in {"write", "append", "commit"}

\* A new version, the retirement of one, and the row of a connection are written.
Made(t) == (Rotating(t) \/ Sealing(t)) /\ pc[t] # "insert"
Retires(t) == Retiring(t) /\ Ending(t) /\ envelope[job[t].version] = "active"
Written(t, c) == writes[t].connection[c].version # NoRow

\* The steps that each kind of request goes through, and what it knows of the
\* latest version.
StepsFit(t) ==
  /\ pc[t] = "idle" <=> job[t].kind = "none"
  /\ pc[t] \in {"pick", "report"} => job[t].kind = "rotate"
  /\ pc[t] = "lock" => job[t].kind \in {"rotate", "retire", "create", "update"}
  /\ pc[t] = "insert" => job[t].kind \in {"rotate", "seal"}
  /\ pc[t] \in {"move", "moving"} => job[t].kind = "rotate"
  /\ pc[t] \in {"count", "counting"} => job[t].kind = "retire"
  /\ pc[t] = "write" => job[t].kind \in {"create", "update"}
  /\ job[t].kind # "rotate" => latest[t] = 0
  /\ latest[t] = 0 \/ latest[t] \in Stored
  /\ pc[t] = "lock" /\ job[t].kind = "rotate" => latest[t] # 0
  /\ Rotating(t) => latest[t] = job[t].version

\* The row of the version a request works on is locked until it ends.
VersionLocked(t) ==
  /\ Rotating(t) => <<t, latest[t], "exclusive">> \in envelopeLock
  /\ Retiring(t) => <<t, job[t].version, "exclusive">> \in envelopeLock
  /\ Referring(t) => <<t, job[t].version, "shared">> \in envelopeLock

\* What it found there is still so.
VersionKept(t) ==
  /\ Made(t) => envelope[latest[t] + 1] = "absent"
  /\ Retiring(t) => envelope[job[t].version] \in {"active", "retired"}
  /\ Retiring(t) /\ ~Ending(t) => envelope[job[t].version] = "active"
  /\ Referring(t) => envelope[job[t].version] = "active"

EnvelopeWritten(t) ==
  \A v \in Version :
    writes[t].envelope[v] = IF Made(t) /\ v = latest[t] + 1 THEN "active"
                            ELSE IF Retires(t) /\ v = job[t].version THEN "retired"
                            ELSE "absent"

ConnectionsWritten(t) ==
  \A c \in Conn : Written(t, c) =>
    /\ <<t, c, "exclusive">> \in connectionLock
    /\ Rotating(t) \/ (Referring(t) /\ c = job[t].connection)
    /\ writes[t].connection[c].version =
         IF job[t].kind = "rotate" THEN latest[t] + 1 ELSE job[t].version
    /\ Exists(c) => writes[t].connection[c].revision > connection[c].revision
    /\ Exists(c) \/ job[t].kind = "create"

\* A connection that is created is not there before, one that is changed is.
ConnectionsFit(t) ==
  /\ job[t].kind = "create" /\ pc[t] # "done" => ~Exists(job[t].connection)
  /\ Referring(t) /\ job[t].kind = "update" => Exists(job[t].connection)
  /\ toLock[t] # {} => pc[t] \in {"moving", "counting"}
  /\ \A c \in toLock[t] : Exists(c)

\* What a retirement counts: a reference to the version is still to be locked or
\* is locked; once the count was nothing, there is none.
ReferencesCounted(t) ==
  /\ pc[t] = "counting" =>
       \A c \in Conn : connection[c].version = job[t].version =>
         c \in toLock[t] \/ <<t, c, "shared">> \in connectionLock
  /\ Retires(t) => \A c \in Conn : connection[c].version # job[t].version

\* A request is on record once it has ended, and not if it was told otherwise.
Reported(t) ==
  /\ pc[t] # "done" => ~\E a \in audit : a.by = t
  /\ pc[t] \notin {"done", "report"} => result[t] = "pending"
  /\ pc[t] = "report" =>
       result[t] \in {"version_conflict", "credential_retired", "credential_not_found"}
  /\ pc[t] = "done" =>
       /\ result[t] \in {"version_conflict", "credential_retired",
                         "credential_not_found"} /\ job[t].kind = "rotate" =>
            \E a \in audit : a.by = t /\ a.action = "rotate_failed"
       /\ result[t] = "audit_failed" => t \in alarm /\ ~\E a \in audit : a.by = t

Knows(t) ==
  /\ StepsFit(t) /\ VersionLocked(t) /\ VersionKept(t) /\ EnvelopeWritten(t)
  /\ ConnectionsWritten(t) /\ ConnectionsFit(t) /\ ReferencesCounted(t)

\* Two requests never hold a row in conflicting modes.
LocksExclude ==
  /\ \A l, m \in envelopeLock :
       l[2] = m[2] /\ l[1] # m[1] => l[3] = "shared" /\ m[3] = "shared"
  /\ \A l, m \in connectionLock :
       l[2] = m[2] /\ l[1] # m[1] => l[3] = "shared" /\ m[3] = "shared"

\* What is created has one creator.
OneCreator ==
  \A t, u \in Tx :
    \/ job[t].kind = "seal" /\ job[u].kind = "seal"
    \/ job[t].kind = "create" /\ job[u].kind = "create"
         /\ job[t].connection = job[u].connection
    => t = u

\* Each version after the first took a request of its own.
Ended == {t \in Tx : pc[t] = "done"}
VersionsCounted == \A v \in Stored : v <= 1 + Cardinality(Ended)

\* A recorded rotation is that of a request that ended, and its version is there.
RotationsDone ==
  \A a \in audit : a.action = "rotate" =>
    /\ pc[a.by] = "done" /\ job[a.by].kind = "rotate"
    /\ a.version = job[a.by].version + 1 /\ a.version \in Stored

Recorded == RotationsDone /\ OneRotationPerVersion /\ TrailMatchesVersions

IInv == /\ TypeOK /\ LocksExclude /\ OneCreator /\ VersionsCounted
        /\ NoRetiredReference /\ Recorded
        /\ \A t \in Tx : Knows(t) /\ Reported(t)

-----------------------------------------------------------------------------
(* Facts about the parts.                                                  *)

\* The latest of the stored versions is one of them.
LEMMA MaxIsThere ==
  ASSUME NEW n \in Nat, NEW S \in SUBSET (0..n), S # {}
  PROVE  Max(S) \in S
<1> DEFINE T == {n - x : x \in S}
<1>1. \A x \in S : x \in 0..n /\ n - x \in Nat
  OBVIOUS
<1>2. T \subseteq Nat /\ T # {}
  BY <1>1
<1>3. IsWellFoundedOn(OpToRel(<, Nat), Nat)
  BY NatLessThanWellFounded
<1>4. PICK m \in T : \A y \in T : ~ (<<y, m>> \in OpToRel(<, Nat))
  <2> HIDE DEF T
  <2> QED BY <1>2, <1>3, WFMin
<1>5. m \in Nat /\ \A y \in T : y \in Nat /\ ~ (y < m)
  BY <1>2, <1>4 DEF OpToRel
<1>6. PICK x \in S : m = n - x
  OBVIOUS
<1>7. \A y \in S : x >= y
  <2> TAKE y \in S
  <2>1. n - y \in T
    OBVIOUS
  <2>2. ~ (n - y < n - x)
    BY <2>1, <1>5, <1>6
  <2> QED BY <2>2, <1>1
<1> QED BY <1>7 DEF Max

LEMMA JobTypes ==
  ASSUME TypeOK, NEW t \in Tx
  PROVE  /\ job[t].kind \in {"none", "seal", "rotate", "retire", "create", "update"}
         /\ job[t].version \in Nat
         /\ job[t].kind \in {"rotate", "retire", "create", "update"} =>
              job[t].version \in 1..(MaxVersion - 1) /\ job[t].version \in Version
         /\ job[t].kind = "seal" => job[t].version = 1
         /\ job[t].kind \in {"create", "update"} => job[t].connection \in Conn
<1>1. job[t] \in Jobs \/ job[t] = NoJob
  BY DEF TypeOK
<1> QED BY <1>1, EnoughVersions DEF Jobs, NoJob, Version

\* There is always room for one more version.
LEMMA RoomLeft ==
  ASSUME IInv, NEW t \in Tx, pc[t] # "done"
  PROVE  latest[t] + 1 \in Version
<1>1. Ended \subseteq Tx \ {t}
  BY DEF Ended
<1>2. Cardinality(Tx \ {t}) = Cardinality(Tx) - 1 /\ IsFiniteSet(Tx \ {t})
      /\ Cardinality(Tx) \in Nat
  BY EnoughVersions, FS_RemoveElement, FS_CardinalityType
<1>3. Cardinality(Ended) <= Cardinality(Tx) - 1 /\ Cardinality(Ended) \in Nat
  BY <1>1, <1>2, FS_Subset, FS_CardinalityType
<1>4. latest[t] = 0 \/ latest[t] <= 1 + Cardinality(Ended)
  BY DEF IInv, VersionsCounted, Knows, StepsFit
<1>5. latest[t] \in Nat
  BY DEF IInv, TypeOK
<1> QED BY <1>2, <1>3, <1>4, <1>5, EnoughVersions DEF Version

-----------------------------------------------------------------------------
(* Steps that leave the tables alone.                                      *)

\* Only the request itself and its locks move, and what it may record is a
\* refusal.
OnlyMoves(t) ==
  /\ envelope' = envelope /\ connection' = connection
  /\ pc[t] # "done"
  /\ \A u \in Tx \ {t} :
       /\ job'[u] = job[u] /\ pc'[u] = pc[u] /\ latest'[u] = latest[u]
       /\ toLock'[u] = toLock[u] /\ writes'[u] = writes[u] /\ result'[u] = result[u]
  /\ \A l \in envelopeLock : l[1] # t => l \in envelopeLock'
  /\ \A l \in connectionLock : l[1] # t => l \in connectionLock'
  /\ alarm \subseteq alarm' /\ alarm' \subseteq alarm \cup {t}
  /\ audit' \in {audit, audit \cup {Event(t, "rotate_failed")}}

LEMMA OthersKnow ==
  ASSUME IInv, NEW t \in Tx, OnlyMoves(t), NEW u \in Tx \ {t}
  PROVE  (Knows(u) /\ Reported(u))'
<1>1. Knows(u) /\ Reported(u)
  BY DEF IInv
<1>2. /\ job'[u] = job[u] /\ pc'[u] = pc[u] /\ latest'[u] = latest[u]
      /\ toLock'[u] = toLock[u] /\ writes'[u] = writes[u] /\ result'[u] = result[u]
      /\ envelope' = envelope /\ connection' = connection
  BY DEF OnlyMoves
<1>3. StepsFit(u)'
  BY <1>1, <1>2 DEF Knows, StepsFit, Rotating, Stored
<1>4. VersionLocked(u)'
  <2>1. \A v, m : <<u, v, m>> \in envelopeLock => <<u, v, m>> \in envelopeLock'
    BY DEF OnlyMoves
  <2> QED BY <1>1, <1>2, <2>1 DEF Knows, VersionLocked, Rotating, Retiring, Referring
<1>5. VersionKept(u)' /\ EnvelopeWritten(u)'
  BY <1>1, <1>2 DEF Knows, VersionKept, EnvelopeWritten, Made, Retires, Rotating, Sealing,
     Retiring, Referring, Ending
<1>6. \A c, m : <<u, c, m>> \in connectionLock => <<u, c, m>> \in connectionLock'
  BY DEF OnlyMoves
<1>7. ConnectionsWritten(u)' /\ ConnectionsFit(u)'
  BY <1>1, <1>2, <1>6 DEF Knows, ConnectionsWritten, ConnectionsFit, Written, Exists,
     Rotating, Referring
<1>8. ReferencesCounted(u)'
  BY <1>1, <1>2, <1>6 DEF Knows, ReferencesCounted, Retires, Retiring, Ending
<1>9. Reported(u)'
  <2>1. \A a : a.by = u => (a \in audit' <=> a \in audit)
    BY DEF OnlyMoves, Event
  <2>2. alarm \subseteq alarm'
    BY DEF OnlyMoves
  <2> QED BY <1>1, <1>2, <2>1, <2>2 DEF Reported
<1> QED BY <1>3, <1>4, <1>5, <1>7, <1>8, <1>9 DEF Knows

\* What concerns the tables alone is kept as well.
LEMMA TablesKept ==
  ASSUME IInv, TypeOK', NEW t \in Tx, OnlyMoves(t), pc[t] # "idle" => job'[t] = job[t]
  PROVE  (VersionsCounted /\ NoRetiredReference /\ Recorded)'
<1>1. envelope' = envelope /\ connection' = connection /\ Stored' = Stored
  BY DEF OnlyMoves, Stored
<1>2. NoRetiredReference'
  BY <1>1 DEF IInv, NoRetiredReference, Exists
<1>3. VersionsCounted'
  <2>1. Ended \subseteq Ended' /\ Ended' \subseteq Tx
    BY DEF OnlyMoves, Ended
  <2>2. Cardinality(Ended) <= Cardinality(Ended') /\ Cardinality(Ended) \in Nat
        /\ Cardinality(Ended') \in Nat
    BY <2>1, EnoughVersions, FS_Subset, FS_CardinalityType
  <2>3. \A v \in Stored : v \in Nat
    BY DEF Stored, Version
  <2> QED BY <1>1, <2>2, <2>3 DEF IInv, VersionsCounted
<1>4. \A a : a.action # "rotate_failed" => (a \in audit' <=> a \in audit)
  BY DEF OnlyMoves, Event
<1>5. \A a \in audit : a.by \in Tx
  BY DEF IInv, TypeOK
<1>6. RotationsDone'
  BY <1>1, <1>4, <1>5 DEF IInv, Recorded, RotationsDone, OnlyMoves
<1>7. OneRotationPerVersion'
  <2>1. \A u \in Tx : Rotated(u)' <=> Rotated(u)
    BY <1>4 DEF Rotated
  <2>2. \A u \in Tx : Rotated(u) => job'[u] = job[u]
    <3>1. \A u \in Tx : Rotated(u) => pc[u] = "done"
      BY DEF IInv, Recorded, RotationsDone, Rotated
    <3> QED BY <3>1 DEF OnlyMoves
  <2> QED BY <2>1, <2>2 DEF IInv, Recorded, OneRotationPerVersion
<1>8. TrailMatchesVersions'
  <2>1. \A v : {a \in audit' : a.action = "rotate" /\ a.version = v}
                 = {a \in audit : a.action = "rotate" /\ a.version = v}
    BY <1>4
  <2>2. \A v : (\E a \in audit' : a.action = "retire" /\ a.version = v)
                 <=> \E a \in audit : a.action = "retire" /\ a.version = v
    BY <1>4
  <2> QED BY <1>1, <2>1, <2>2 DEF IInv, Recorded, TrailMatchesVersions
<1> QED BY <1>2, <1>3, <1>6, <1>7, <1>8 DEF Recorded

\* So a step needs to be looked at for the request that takes it, and for locks.
LEMMA StepKeeps ==
  ASSUME IInv, TypeOK', NEW t \in Tx, OnlyMoves(t), job' = job, LocksExclude',
         (Knows(t) /\ Reported(t))'
  PROVE  IInv'
<1>1. \A u \in Tx : (Knows(u) /\ Reported(u))'
  BY OthersKnow
<1>2. OneCreator'
  BY DEF IInv, OneCreator
<1> QED BY <1>1, <1>2, TablesKept DEF IInv

-----------------------------------------------------------------------------
(* The ends of a transaction without a commit.                             *)

\* A transaction that ends lets go of its rows, and what it wrote is gone.
LEMMA EndsClean ==
  ASSUME IInv, NEW t \in Tx, EndTx(t)
  PROVE  /\ writes' \in [Tx -> [envelope : [Version -> {"absent", "active", "retired"}],
                                connection : [Conn -> Row]]]
         /\ toLock' \in [Tx -> SUBSET Conn] /\ writes'[t] = NoWrites /\ toLock'[t] = {}
         /\ envelopeLock' \subseteq envelopeLock /\ connectionLock' \subseteq connectionLock
         /\ LocksExclude'
         /\ \A l \in envelopeLock : l[1] # t => l \in envelopeLock'
         /\ \A l \in connectionLock : l[1] # t => l \in connectionLock'
         /\ \A u \in Tx \ {t} : writes'[u] = writes[u] /\ toLock'[u] = toLock[u]
<1>1. NoWrites \in [envelope : [Version -> {"absent", "active", "retired"}],
                    connection : [Conn -> Row]]
  BY EnoughVersions DEF NoWrites, Row, NoRow
<1> QED BY <1>1 DEF EndTx, IInv, TypeOK, LocksExclude

\* With its locks a request loses what it knew.
LEMMA EndsUnknowing ==
  ASSUME IInv, NEW t \in Tx, EndTx(t), pc'[t] \in {"done", "report"},
         pc'[t] = "report" => job[t].kind = "rotate",
         pc[t] # "idle", job' = job, latest'[t] = latest[t] \/ latest'[t] = 0,
         envelope' = envelope, connection' = connection
  PROVE  Knows(t)'
<1>1. writes'[t] = NoWrites /\ toLock'[t] = {}
  BY EndsClean
<1>2. Knows(t)
  BY DEF IInv
<1>3. ~ (Rotating(t) \/ Sealing(t) \/ Retiring(t) \/ Referring(t))'
  BY DEF Rotating, Sealing, Retiring, Referring
<1>4. StepsFit(t)'
  BY <1>1, <1>2, <1>3 DEF Knows, StepsFit, Stored
<1>5. (VersionLocked(t) /\ VersionKept(t))'
  BY <1>3 DEF VersionLocked, VersionKept, Made
<1>6. EnvelopeWritten(t)' /\ ConnectionsWritten(t)'
  BY <1>1, <1>3 DEF EnvelopeWritten, ConnectionsWritten, Made, Retires, Written, NoWrites
<1>7. ConnectionsFit(t)' /\ ReferencesCounted(t)'
  BY <1>1, <1>3 DEF ConnectionsFit, ReferencesCounted, Retires
<1> QED BY <1>4, <1>5, <1>6, <1>7 DEF Knows

LEMMA AbandonKeeps ==
  ASSUME IInv, NEW t \in Tx, pc[t] \notin {"idle", "report", "done"},
         NEW answer \in Answers, Abandon(t, answer),
         answer # "audit_failed", answer # "version_conflict",
         answer \in {"credential_retired", "credential_not_found"} => job[t].kind # "rotate"
  PROVE  IInv'
<1>1. EndTx(t) /\ Answer(t, answer) /\ UNCHANGED <<database, alarm, wraps, job, latest>>
  BY DEF Abandon
<1>2. TypeOK'
  BY <1>1, EndsClean DEF IInv, TypeOK, Answer, Goto, database
<1>3. OnlyMoves(t)
  BY <1>1, EndsClean DEF IInv, TypeOK, OnlyMoves, Answer, Goto, database
<1>4. pc'[t] = "done" /\ result'[t] = answer
  BY <1>1 DEF Answer, Goto, IInv, TypeOK
<1>5. Knows(t)'
  BY <1>1, <1>4, EndsUnknowing DEF database
<1>6. Reported(t)'
  BY <1>1, <1>4 DEF IInv, Reported, database
<1> QED BY <1>1, <1>2, <1>3, <1>5, <1>6, EndsClean, StepKeeps

-----------------------------------------------------------------------------
(* The steps inside a transaction.                                         *)

LEMMA FindConnectionsKeeps ==
  ASSUME IInv, NEW t \in Tx, FindConnections(t)
  PROVE  IInv'
<1>1. /\ TypeOK /\ Knows(t) /\ Reported(t) /\ pc[t] = "move"
      /\ job[t].kind \in {"rotate"} /\ job[t].version \in Version
  BY JobTypes DEF IInv, FindConnections, Knows, StepsFit
<1>2. /\ pc'[t] = "moving" /\ job' = job /\ latest' = latest /\ result' = result
      /\ envelope' = envelope /\ connection' = connection
      /\ audit' = audit /\ alarm' = alarm
      /\ envelopeLock' = envelopeLock /\ connectionLock' = connectionLock
      /\ toLock'[t] = {c \in Conn : Exists(c)} /\ writes' = writes
  BY <1>1 DEF FindConnections, Goto, TypeOK, database, locks
<1>3. TypeOK'
  BY <1>1 DEF FindConnections, TypeOK, Goto, database, locks
<1>4. OnlyMoves(t)
  BY <1>1, <1>2 DEF FindConnections, TypeOK, OnlyMoves, Goto, database, locks
<1>5. LocksExclude'
  BY DEF FindConnections, IInv, LocksExclude, locks
<1>6. StepsFit(t)'
  BY <1>1, <1>2 DEF Knows, StepsFit, Rotating, Stored
<1>7. VersionLocked(t)'
  BY <1>1, <1>2 DEF Knows, VersionLocked, Rotating, Retiring, Referring
<1>8. VersionKept(t)'
  BY <1>1, <1>2 DEF Knows, VersionKept, Made, Rotating, Sealing, Retiring, Referring,
     Ending
<1>9. EnvelopeWritten(t)'
  BY <1>1, <1>2 DEF Knows, EnvelopeWritten, VersionKept, Made, Retires, Rotating, Sealing,
     Retiring, Ending
<1>10. ConnectionsWritten(t)'
  BY <1>1, <1>2 DEF Knows, ConnectionsWritten, Written, Exists, Rotating, Referring,
     ConnectionsFit
<1>11. ConnectionsFit(t)'
  BY <1>1, <1>2 DEF Knows, ConnectionsFit, Referring, Exists
<1>12. ReferencesCounted(t)'
  BY <1>1, <1>2 DEF Knows, ReferencesCounted, Retires, Retiring, Ending, VersionKept
<1>13. Reported(t)'
  BY <1>1, <1>2 DEF Reported
<1> QED BY <1>2, <1>3, <1>4, <1>5, <1>6, <1>7, <1>8,
       <1>9, <1>10, <1>11, <1>12, <1>13, StepKeeps DEF Knows

LEMMA AllMovedKeeps ==
  ASSUME IInv, NEW t \in Tx, AllMoved(t)
  PROVE  IInv'
<1>1. /\ TypeOK /\ Knows(t) /\ Reported(t) /\ pc[t] = "moving"
      /\ job[t].kind \in {"rotate"} /\ job[t].version \in Version
  BY JobTypes DEF IInv, AllMoved, Knows, StepsFit
<1>2. /\ pc'[t] = "append" /\ job' = job /\ latest' = latest /\ result' = result
      /\ envelope' = envelope /\ connection' = connection
      /\ audit' = audit /\ alarm' = alarm
      /\ envelopeLock' = envelopeLock /\ connectionLock' = connectionLock
      /\ toLock'[t] = {} /\ toLock[t] = {} /\ writes' = writes
  BY <1>1 DEF AllMoved, Goto, TypeOK, database, locks
<1>3. TypeOK'
  BY <1>1 DEF AllMoved, TypeOK, Goto, database, locks
<1>4. OnlyMoves(t)
  BY <1>1, <1>2 DEF AllMoved, TypeOK, OnlyMoves, Goto, database, locks
<1>5. LocksExclude'
  BY DEF AllMoved, IInv, LocksExclude, locks
<1>6. StepsFit(t)'
  BY <1>1, <1>2 DEF Knows, StepsFit, Rotating, Stored
<1>7. VersionLocked(t)'
  BY <1>1, <1>2 DEF Knows, VersionLocked, Rotating, Retiring, Referring
<1>8. VersionKept(t)'
  BY <1>1, <1>2 DEF Knows, VersionKept, Made, Rotating, Sealing, Retiring, Referring,
     Ending
<1>9. EnvelopeWritten(t)'
  BY <1>1, <1>2 DEF Knows, EnvelopeWritten, VersionKept, Made, Retires, Rotating, Sealing,
     Retiring, Ending
<1>10. ConnectionsWritten(t)'
  BY <1>1, <1>2 DEF Knows, ConnectionsWritten, Written, Exists, Rotating, Referring,
     ConnectionsFit
<1>11. ConnectionsFit(t)'
  BY <1>1, <1>2 DEF Knows, ConnectionsFit, Referring, Exists
<1>12. ReferencesCounted(t)'
  BY <1>1, <1>2 DEF Knows, ReferencesCounted, Retires, Retiring, Ending, VersionKept
<1>13. Reported(t)'
  BY <1>1, <1>2 DEF Reported
<1> QED BY <1>2, <1>3, <1>4, <1>5, <1>6, <1>7, <1>8,
       <1>9, <1>10, <1>11, <1>12, <1>13, StepKeeps DEF Knows

LEMMA FindReferencesKeeps ==
  ASSUME IInv, NEW t \in Tx, FindReferences(t)
  PROVE  IInv'
<1>1. /\ TypeOK /\ Knows(t) /\ Reported(t) /\ pc[t] = "count"
      /\ job[t].kind \in {"retire"} /\ job[t].version \in Version
  BY JobTypes DEF IInv, FindReferences, Knows, StepsFit
<1>2. /\ pc'[t] = "counting" /\ job' = job /\ latest' = latest /\ result' = result
      /\ envelope' = envelope /\ connection' = connection
      /\ audit' = audit /\ alarm' = alarm
      /\ envelopeLock' = envelopeLock /\ connectionLock' = connectionLock
      /\ toLock'[t] = {c \in Conn : connection[c].version = job[t].version} /\ writes' = writes
  BY <1>1 DEF FindReferences, Goto, TypeOK, database, locks
<1>3. TypeOK'
  BY <1>1 DEF FindReferences, TypeOK, Goto, database, locks
<1>4. OnlyMoves(t)
  BY <1>1, <1>2 DEF FindReferences, TypeOK, OnlyMoves, Goto, database, locks
<1>5. LocksExclude'
  BY DEF FindReferences, IInv, LocksExclude, locks
<1>6. StepsFit(t)'
  BY <1>1, <1>2 DEF Knows, StepsFit, Rotating, Stored
<1>7. VersionLocked(t)'
  BY <1>1, <1>2 DEF Knows, VersionLocked, Rotating, Retiring, Referring
<1>8. VersionKept(t)'
  BY <1>1, <1>2 DEF Knows, VersionKept, Made, Rotating, Sealing, Retiring, Referring,
     Ending
<1>9. EnvelopeWritten(t)'
  BY <1>1, <1>2 DEF Knows, EnvelopeWritten, VersionKept, Made, Retires, Rotating, Sealing,
     Retiring, Ending
<1>10. ConnectionsWritten(t)'
  BY <1>1, <1>2 DEF Knows, ConnectionsWritten, Written, Exists, Rotating, Referring,
     ConnectionsFit
<1>11. ConnectionsFit(t)'
  <2>1. job[t].version # NoRow
    BY <1>1 DEF Version, NoRow
  <2> QED BY <1>1, <1>2, <2>1 DEF Knows, ConnectionsFit, Referring, Exists
<1>12. ReferencesCounted(t)'
  BY <1>1, <1>2 DEF Knows, ReferencesCounted, Retires, Retiring, Ending, VersionKept
<1>13. Reported(t)'
  BY <1>1, <1>2 DEF Reported
<1> QED BY <1>2, <1>3, <1>4, <1>5, <1>6, <1>7, <1>8,
       <1>9, <1>10, <1>11, <1>12, <1>13, StepKeeps DEF Knows

LEMMA LockReferenceKeeps ==
  ASSUME IInv, NEW t \in Tx, NEW c \in Conn, LockReference(t, c)
  PROVE  IInv'
<1>1. /\ TypeOK /\ Knows(t) /\ Reported(t) /\ pc[t] = "counting"
      /\ job[t].kind \in {"retire"} /\ job[t].version \in Version
  BY JobTypes DEF IInv, LockReference, Knows, StepsFit
<1>2. /\ pc'[t] = "counting" /\ job' = job /\ latest' = latest /\ result' = result
      /\ envelope' = envelope /\ connection' = connection
      /\ audit' = audit /\ alarm' = alarm
      /\ envelopeLock' = envelopeLock
      /\ connectionLock' = connectionLock \cup {<<t, c, "shared">>}
      /\ toLock'[t] = toLock[t] \ {c} /\ writes' = writes
  BY <1>1 DEF LockReference, Goto, TypeOK, database, locks
<1>3. TypeOK'
  BY <1>1 DEF LockReference, TypeOK, Goto, database, locks, Lock
<1>4. OnlyMoves(t)
  BY <1>1, <1>2 DEF LockReference, TypeOK, OnlyMoves, Goto, database, locks
<1>5. LocksExclude'
  BY DEF LockReference, IInv, LocksExclude, locks, Free
<1>6. StepsFit(t)'
  BY <1>1, <1>2 DEF Knows, StepsFit, Rotating, Stored
<1>7. VersionLocked(t)'
  BY <1>1, <1>2 DEF Knows, VersionLocked, Rotating, Retiring, Referring
<1>8. VersionKept(t)'
  BY <1>1, <1>2 DEF Knows, VersionKept, Made, Rotating, Sealing, Retiring, Referring,
     Ending
<1>9. EnvelopeWritten(t)'
  BY <1>1, <1>2 DEF Knows, EnvelopeWritten, VersionKept, Made, Retires, Rotating, Sealing,
     Retiring, Ending
<1>10. ConnectionsWritten(t)'
  BY <1>1, <1>2 DEF Knows, ConnectionsWritten, Written, Exists, Rotating, Referring,
     ConnectionsFit
<1>11. ConnectionsFit(t)'
  BY <1>1, <1>2 DEF Knows, ConnectionsFit, Referring, Exists
<1>12. ReferencesCounted(t)'
  BY <1>1, <1>2 DEF Knows, ReferencesCounted, Retires, Retiring, Ending, VersionKept
<1>13. Reported(t)'
  BY <1>1, <1>2 DEF Reported
<1> QED BY <1>2, <1>3, <1>4, <1>5, <1>6, <1>7, <1>8,
       <1>9, <1>10, <1>11, <1>12, <1>13, StepKeeps DEF Knows

\* The row of a connection as a statement writes it.
LEMMA WriteEffect ==
  ASSUME TypeOK, NEW t \in Tx, NEW c \in Conn, NEW version \in 0..MaxVersion,
         NEW stamps \in SUBSET Nat, Write(t, c, version, stamps)
  PROVE  /\ writes' \in [Tx -> [envelope : [Version -> {"absent", "active", "retired"}],
                                connection : [Conn -> Row]]]
         /\ writes'[t].envelope = writes[t].envelope
         /\ writes'[t].connection[c].version = version
         /\ writes'[t].connection[c].revision \in stamps
         /\ \A d \in Conn \ {c} : writes'[t].connection[d] = writes[t].connection[d]
         /\ \A u \in Tx \ {t} : writes'[u] = writes[u]
<1>1. PICK at \in stamps :
        writes' = [writes EXCEPT ![t].connection[c] = [version |-> version, revision |-> at]]
  BY DEF Write
<1>2. [version |-> version, revision |-> at] \in Row
  BY DEF Row
<1>3. writes[t].connection \in [Conn -> Row]
      /\ writes[t].envelope \in [Version -> {"absent", "active", "retired"}]
  BY DEF TypeOK
<1> DEFINE row == [version |-> version, revision |-> at]
           rows == [writes[t].connection EXCEPT ![c] = row]
<1>4. rows \in [Conn -> Row] /\ rows[c] = row
      /\ \A d \in Conn \ {c} : rows[d] = writes[t].connection[d]
  BY <1>2, <1>3
<1>5. writes' = [writes EXCEPT ![t] = [writes[t] EXCEPT !.connection = rows]]
  BY <1>1
<1>6. [writes[t] EXCEPT !.connection = rows].connection = rows
      /\ [writes[t] EXCEPT !.connection = rows].envelope = writes[t].envelope
      /\ [writes[t] EXCEPT !.connection = rows] \in
           [envelope : [Version -> {"absent", "active", "retired"}], connection : [Conn -> Row]]
  <2> HIDE DEF rows
  <2> QED BY <1>3, <1>4 DEF TypeOK
<1>7. writes'[t] = [writes[t] EXCEPT !.connection = rows]
      /\ \A u \in Tx \ {t} : writes'[u] = writes[u]
  BY <1>5 DEF TypeOK
<1>8. writes' \in [Tx -> [envelope : [Version -> {"absent", "active", "retired"}],
                                connection : [Conn -> Row]]]
  BY <1>5, <1>6 DEF TypeOK
<1> QED BY <1>4, <1>6, <1>7, <1>8

\* A stamp is later than the one it replaces.
LEMMA StampsGrow ==
  ASSUME TypeOK, NEW c \in Conn
  PROVE  Stamps(c) \in SUBSET Nat /\ \A at \in Stamps(c) : at > connection[c].revision
BY BoundsNatural DEF TypeOK, Row, Stamps

LEMMA MoveConnectionKeeps ==
  ASSUME IInv, NEW t \in Tx, NEW c \in Conn, MoveConnection(t, c)
  PROVE  IInv'
<1>1. /\ TypeOK /\ Knows(t) /\ Reported(t) /\ pc[t] = "moving"
      /\ job[t].kind \in {"rotate"} /\ job[t].version \in Version
  BY JobTypes DEF IInv, MoveConnection, Knows, StepsFit
<1>w. /\ writes' \in [Tx -> [envelope : [Version -> {"absent", "active", "retired"}],
                            connection : [Conn -> Row]]]
      /\ writes'[t].envelope = writes[t].envelope
      /\ writes'[t].connection[c].version = latest[t] + 1
      /\ Exists(c) => writes'[t].connection[c].revision > connection[c].revision
      /\ \A d \in Conn \ {c} : writes'[t].connection[d] = writes[t].connection[d]
      /\ \A u \in Tx \ {t} : writes'[u] = writes[u]
  <2>1. latest[t] + 1 \in 0..MaxVersion /\ Write(t, c, latest[t] + 1, Stamps(c))
    BY <1>1, RoomLeft DEF MoveConnection, Version
  <2> QED BY <1>1, <2>1, WriteEffect, StampsGrow
<1>2. /\ pc'[t] = "moving" /\ job' = job /\ latest' = latest /\ result' = result
      /\ envelope' = envelope /\ connection' = connection
      /\ audit' = audit /\ alarm' = alarm
      /\ envelopeLock' = envelopeLock
      /\ connectionLock' = connectionLock \cup {<<t, c, "exclusive">>}
      /\ toLock'[t] = toLock[t] \ {c} /\ c \in toLock[t]
  BY <1>1 DEF MoveConnection, Goto, TypeOK, database, locks
<1>3. TypeOK'
  BY <1>1, <1>w DEF MoveConnection, TypeOK, Goto, database, locks, Lock
<1>4. OnlyMoves(t)
  BY <1>1, <1>2, <1>w DEF MoveConnection, TypeOK, OnlyMoves, Goto, database, locks
<1>5. LocksExclude'
  BY DEF MoveConnection, IInv, LocksExclude, locks, Free
<1>6. StepsFit(t)'
  BY <1>1, <1>2, <1>w DEF Knows, StepsFit, Rotating, Stored
<1>7. VersionLocked(t)'
  BY <1>1, <1>2, <1>w DEF Knows, VersionLocked, Rotating, Retiring, Referring
<1>8. VersionKept(t)'
  BY <1>1, <1>2, <1>w DEF Knows, VersionKept, Made, Rotating, Sealing, Retiring,
     Referring, Ending
<1>9. EnvelopeWritten(t)'
  BY <1>1, <1>2, <1>w DEF Knows, EnvelopeWritten, VersionKept, Made, Retires, Rotating,
     Sealing, Retiring, Ending
<1>10. ConnectionsWritten(t)'
  <2>1. ASSUME NEW d \in Conn \ {c} PROVE Written(t, d)' <=> Written(t, d)
    BY <1>w, <2>1 DEF Written
  <2>2. ASSUME NEW d \in Conn \ {c}, Written(t, d)'
        PROVE  /\ <<t, d, "exclusive">> \in connectionLock'
               /\ (Rotating(t) \/ (Referring(t) /\ d = job[t].connection))'
               /\ writes'[t].connection[d].version =
                    IF job[t].kind = "rotate" THEN latest[t] + 1 ELSE job[t].version
               /\ Exists(d)' => writes'[t].connection[d].revision > connection'[d].revision
               /\ Exists(d)' \/ job[t].kind = "create"
    BY <1>1, <1>2, <1>w, <2>1, <2>2 DEF Knows, ConnectionsWritten, Exists, Rotating,
       Referring
  <2>3. /\ <<t, c, "exclusive">> \in connectionLock'
        /\ (Rotating(t) \/ (Referring(t) /\ c = job[t].connection))'
        /\ Exists(c)' => writes'[t].connection[c].revision > connection'[c].revision
        /\ Exists(c)' \/ job[t].kind = "create"
    BY <1>1, <1>2, <1>w DEF Knows, Exists, ConnectionsFit, Rotating, Referring
  <2> QED BY <1>1, <1>2, <1>w, <2>2, <2>3 DEF ConnectionsWritten
<1>11. ConnectionsFit(t)'
  BY <1>1, <1>2, <1>w DEF Knows, ConnectionsFit, Referring, Exists
<1>12. ReferencesCounted(t)'
  BY <1>1, <1>2, <1>w DEF Knows, ReferencesCounted, Retires, Retiring, Ending, VersionKept
<1>13. Reported(t)'
  BY <1>1, <1>2 DEF Reported
<1> QED BY <1>2, <1>3, <1>4, <1>5, <1>6, <1>7, <1>8,
       <1>9, <1>10, <1>11, <1>12, <1>13, StepKeeps DEF Knows

LEMMA WriteConnectionKeeps ==
  ASSUME IInv, NEW t \in Tx, WriteConnection(t)
  PROVE  IInv'
<1>1. /\ TypeOK /\ Knows(t) /\ Reported(t) /\ pc[t] = "write"
      /\ job[t].kind \in {"create", "update"} /\ job[t].version \in Version
      /\ job[t].connection \in Conn
  BY JobTypes DEF IInv, WriteConnection, Knows, StepsFit
<1>w. /\ writes' \in [Tx -> [envelope : [Version -> {"absent", "active", "retired"}],
                            connection : [Conn -> Row]]]
      /\ writes'[t].envelope = writes[t].envelope
      /\ writes'[t].connection[job[t].connection].version = job[t].version
      /\ Exists(job[t].connection) =>
           writes'[t].connection[job[t].connection].revision
             > connection[job[t].connection].revision
      /\ \A d \in Conn \ {job[t].connection} :
           writes'[t].connection[d] = writes[t].connection[d]
      /\ \A u \in Tx \ {t} : writes'[u] = writes[u]
  <2>1. job[t].connection \in Conn /\ job[t].version \in 0..MaxVersion
    BY <1>1, JobTypes DEF Version
  <2>2. CASE job[t].kind = "update"
    <3>1. Write(t, job[t].connection, job[t].version, Stamps(job[t].connection))
      BY <2>2 DEF WriteConnection
    <3> QED BY <1>1, <2>1, <3>1, WriteEffect, StampsGrow
  <2>3. CASE job[t].kind = "create"
    <3>1. Write(t, job[t].connection, job[t].version, 0..MaxClock)
      BY <2>3 DEF WriteConnection
    <3>2. ~Exists(job[t].connection)
      BY <1>1, <2>3 DEF Knows, ConnectionsFit
    <3> QED BY <1>1, <2>1, <3>1, <3>2, WriteEffect, BoundsNatural
  <2> QED BY <1>1, <2>2, <2>3
<1>2. /\ pc'[t] = "append" /\ job' = job /\ latest' = latest /\ result' = result
      /\ envelope' = envelope /\ connection' = connection
      /\ audit' = audit /\ alarm' = alarm
      /\ envelopeLock' = envelopeLock
      /\ connectionLock' = connectionLock \cup {<<t, job[t].connection, "exclusive">>}
      /\ toLock' = toLock
  BY <1>1 DEF WriteConnection, Goto, TypeOK, database, locks
<1>3. TypeOK'
  BY <1>1, <1>w DEF WriteConnection, TypeOK, Goto, database, locks, Lock
<1>4. OnlyMoves(t)
  BY <1>1, <1>2, <1>w DEF WriteConnection, TypeOK, OnlyMoves, Goto, database, locks
<1>5. LocksExclude'
  BY DEF WriteConnection, IInv, LocksExclude, locks, Free
<1>6. StepsFit(t)'
  BY <1>1, <1>2, <1>w DEF Knows, StepsFit, Rotating, Stored
<1>7. VersionLocked(t)'
  BY <1>1, <1>2, <1>w DEF Knows, VersionLocked, Rotating, Retiring, Referring
<1>8. VersionKept(t)'
  BY <1>1, <1>2, <1>w DEF Knows, VersionKept, Made, Rotating, Sealing, Retiring,
     Referring, Ending
<1>9. EnvelopeWritten(t)'
  BY <1>1, <1>2, <1>w DEF Knows, EnvelopeWritten, VersionKept, Made, Retires, Rotating,
     Sealing, Retiring, Ending
<1>10. ConnectionsWritten(t)'
  <2>1. ASSUME NEW d \in Conn \ {job[t].connection} PROVE Written(t, d)' <=> Written(t, d)
    BY <1>w, <2>1 DEF Written
  <2>2. ASSUME NEW d \in Conn \ {job[t].connection}, Written(t, d)'
        PROVE  /\ <<t, d, "exclusive">> \in connectionLock'
               /\ (Rotating(t) \/ (Referring(t) /\ d = job[t].connection))'
               /\ writes'[t].connection[d].version =
                    IF job[t].kind = "rotate" THEN latest[t] + 1 ELSE job[t].version
               /\ Exists(d)' => writes'[t].connection[d].revision > connection'[d].revision
               /\ Exists(d)' \/ job[t].kind = "create"
    BY <1>1, <1>2, <1>w, <2>1, <2>2 DEF Knows, ConnectionsWritten, Exists, Rotating,
       Referring
  <2>3. /\ <<t, job[t].connection, "exclusive">> \in connectionLock'
        /\ (Rotating(t) \/ (Referring(t) /\ job[t].connection = job[t].connection))'
        /\ Exists(job[t].connection)' =>
             writes'[t].connection[job[t].connection].revision
               > connection'[job[t].connection].revision
        /\ Exists(job[t].connection)' \/ job[t].kind = "create"
    BY <1>1, <1>2, <1>w DEF Knows, Exists, ConnectionsFit, Rotating, Referring
  <2> QED BY <1>1, <1>2, <1>w, <2>2, <2>3 DEF ConnectionsWritten
<1>11. ConnectionsFit(t)'
  BY <1>1, <1>2, <1>w DEF Knows, ConnectionsFit, Referring, Exists
<1>12. ReferencesCounted(t)'
  BY <1>1, <1>2, <1>w DEF Knows, ReferencesCounted, Retires, Retiring, Ending, VersionKept
<1>13. Reported(t)'
  BY <1>1, <1>2 DEF Reported
<1> QED BY <1>2, <1>3, <1>4, <1>5, <1>6, <1>7, <1>8,
       <1>9, <1>10, <1>11, <1>12, <1>13, StepKeeps DEF Knows

\* The version of a credential as a statement writes it.
LEMMA WriteVersionEffect ==
  ASSUME TypeOK, NEW t \in Tx, NEW v \in Version, NEW status \in {"active", "retired"},
         writes' = [writes EXCEPT ![t].envelope[v] = status]
  PROVE  /\ writes' \in [Tx -> [envelope : [Version -> {"absent", "active", "retired"}],
                                connection : [Conn -> Row]]]
         /\ writes'[t].connection = writes[t].connection
         /\ writes'[t].envelope[v] = status
         /\ \A w \in Version \ {v} : writes'[t].envelope[w] = writes[t].envelope[w]
         /\ \A u \in Tx \ {t} : writes'[u] = writes[u]
<1> DEFINE versions == [writes[t].envelope EXCEPT ![v] = status]
           W == [writes[t] EXCEPT !.envelope = versions]
           Types == [envelope : [Version -> {"absent", "active", "retired"}],
                     connection : [Conn -> Row]]
<1>1. writes[t] \in Types
  BY DEF TypeOK
<1>2. versions \in [Version -> {"absent", "active", "retired"}] /\ versions[v] = status
      /\ \A w \in Version \ {v} : versions[w] = writes[t].envelope[w]
  BY <1>1
<1>3. writes' = [writes EXCEPT ![t] = W]
  OBVIOUS
<1>4. W.envelope = versions /\ W.connection = writes[t].connection /\ W \in Types
  <2> HIDE DEF versions
  <2> QED BY <1>1, <1>2
<1>5. writes \in [Tx -> Types]
  BY DEF TypeOK
<1>6. writes'[t] = W /\ writes' \in [Tx -> Types]
      /\ \A u \in Tx \ {t} : writes'[u] = writes[u]
  <2> HIDE DEF W, Types
  <2> QED BY <1>3, <1>4, <1>5
<1> QED BY <1>2, <1>4, <1>6

LEMMA InsertVersionKeeps ==
  ASSUME IInv, NEW t \in Tx, InsertVersion(t)
  PROVE  IInv'
<1>1. /\ TypeOK /\ Knows(t) /\ Reported(t) /\ pc[t] = "insert"
      /\ job[t].kind \in {"rotate", "seal"} /\ latest[t] + 1 \in Version /\ latest[t] \in Nat
  BY RoomLeft DEF IInv, InsertVersion, Knows, StepsFit, TypeOK
<1>2. CASE Abandon(t, "wrap_quota_exhausted")
  BY <1>1, <1>2, AbandonKeeps DEF Answers
<1>3. CASE wraps' = wraps + 1 /\ QuotaLeft /\ EndTx(t) /\ Answer(t, "internal_error")
           /\ UNCHANGED <<database, alarm, job, latest>>
  <2>1. pc'[t] = "done" /\ result'[t] = "internal_error"
    BY <1>1, <1>3 DEF Answer, Goto, TypeOK
  <2>2. TypeOK'
    BY <1>1, <1>3, EndsClean, BoundsNatural DEF TypeOK, Answer, Goto, database, Answers,
       QuotaLeft
  <2>3. OnlyMoves(t)
    BY <1>1, <1>3, EndsClean DEF TypeOK, OnlyMoves, Answer, Goto, database
  <2>4. Knows(t)'
    BY <1>1, <1>3, <2>1, EndsUnknowing DEF database
  <2>5. Reported(t)'
    BY <1>1, <1>3, <2>1 DEF Reported, database
  <2> QED BY <1>3, <2>2, <2>3, <2>4, <2>5, EndsClean, StepKeeps
<1>4. CASE /\ wraps' = wraps + 1 /\ QuotaLeft /\ envelope[latest[t] + 1] = "absent"
           /\ writes' = [writes EXCEPT ![t].envelope[latest[t] + 1] = "active"]
           /\ Goto(t, IF job[t].kind = "seal" THEN "append" ELSE "move")
           /\ UNCHANGED <<toLock, locks, result, database, alarm, job, latest>>
  <2>1. /\ pc'[t] = (IF job[t].kind = "seal" THEN "append" ELSE "move")
        /\ job' = job /\ latest' = latest /\ result' = result /\ toLock' = toLock
        /\ envelope' = envelope /\ connection' = connection
        /\ audit' = audit /\ alarm' = alarm
        /\ envelopeLock' = envelopeLock /\ connectionLock' = connectionLock
    BY <1>1, <1>4 DEF Goto, TypeOK, database, locks
  <2>2. /\ writes' \in [Tx -> [envelope : [Version -> {"absent", "active", "retired"}],
                               connection : [Conn -> Row]]]
        /\ writes'[t].connection = writes[t].connection
        /\ writes'[t].envelope[latest[t] + 1] = "active"
        /\ \A w \in Version \ {latest[t] + 1} :
             writes'[t].envelope[w] = writes[t].envelope[w]
        /\ \A u \in Tx \ {t} : writes'[u] = writes[u]
    BY <1>1, <1>4, WriteVersionEffect
  <2>3. TypeOK'
    <3>1. wraps' \in 0..WrapLimit
      BY <1>1, <1>4, BoundsNatural DEF TypeOK, QuotaLeft
    <3> QED BY <1>1, <1>4, <2>1, <2>2, <3>1 DEF TypeOK, Goto
  <2>4. OnlyMoves(t)
    BY <1>1, <1>4, <2>1, <2>2 DEF TypeOK, OnlyMoves, Goto
  <2>5. LocksExclude'
    BY <2>1 DEF IInv, LocksExclude
  <2>6. StepsFit(t)' /\ VersionLocked(t)'
    BY <1>1, <2>1 DEF Knows, StepsFit, VersionLocked, Rotating, Retiring, Referring,
       Stored
  <2>7. VersionKept(t)'
    BY <1>1, <1>4, <2>1 DEF Knows, VersionKept, Made, Rotating, Sealing, Retiring,
       Referring
  <2>8. EnvelopeWritten(t)'
    BY <1>1, <2>1, <2>2 DEF Knows, EnvelopeWritten, Made, Retires, Rotating, Sealing,
       Retiring
  <2>9. ConnectionsWritten(t)'
    BY <1>1, <2>1, <2>2 DEF Knows, ConnectionsWritten, Written, Exists, Rotating,
       Referring
  <2>10. ConnectionsFit(t)' /\ ReferencesCounted(t)'
    BY <1>1, <2>1 DEF Knows, ConnectionsFit, ReferencesCounted, Referring, Exists,
       Retires,
       Retiring
  <2>11. Reported(t)'
    BY <1>1, <2>1 DEF Reported
  <2> QED BY <2>1, <2>3, <2>4, <2>5, <2>6, <2>7, <2>8, <2>9, <2>10, <2>11, StepKeeps DEF
             Knows
<1> QED BY <1>2, <1>3, <1>4 DEF InsertVersion, database

LEMMA SetRetiredKeeps ==
  ASSUME IInv, NEW t \in Tx, SetRetired(t)
  PROVE  IInv'
<1>1. /\ TypeOK /\ Knows(t) /\ Reported(t) /\ pc[t] = "counting" /\ toLock[t] = {}
      /\ job[t].kind = "retire" /\ job[t].version \in Version
  BY JobTypes DEF IInv, SetRetired, Knows, StepsFit
<1>2. CASE Abandon(t, "credential_in_use")
  BY <1>1, <1>2, AbandonKeeps DEF Answers
<1>3. CASE /\ References(t) = {} /\ Goto(t, "append")
           /\ writes' = [writes EXCEPT ![t].envelope[job[t].version] = "retired"]
           /\ UNCHANGED <<database, alarm, wraps, job, latest, toLock, locks, result>>
  <2>1. /\ pc'[t] = "append"
        /\ job' = job /\ latest' = latest /\ result' = result /\ toLock' = toLock
        /\ envelope' = envelope /\ connection' = connection
        /\ audit' = audit /\ alarm' = alarm
        /\ envelopeLock' = envelopeLock /\ connectionLock' = connectionLock
    BY <1>1, <1>3 DEF Goto, TypeOK, database, locks
  <2>2. /\ writes' \in [Tx -> [envelope : [Version -> {"absent", "active", "retired"}],
                               connection : [Conn -> Row]]]
        /\ writes'[t].connection = writes[t].connection
        /\ writes'[t].envelope[job[t].version] = "retired"
        /\ \A w \in Version \ {job[t].version} :
             writes'[t].envelope[w] = writes[t].envelope[w]
        /\ \A u \in Tx \ {t} : writes'[u] = writes[u]
    BY <1>1, <1>3, WriteVersionEffect
  <2>3. TypeOK'
    BY <1>1, <1>3, <2>1, <2>2 DEF TypeOK, Goto
  <2>4. OnlyMoves(t)
    BY <1>1, <1>3, <2>1, <2>2 DEF TypeOK, OnlyMoves, Goto
  <2>5. LocksExclude'
    BY <2>1 DEF IInv, LocksExclude
  <2>6. StepsFit(t)' /\ VersionLocked(t)'
    BY <1>1, <2>1 DEF Knows, StepsFit, VersionLocked, Rotating, Retiring, Referring,
       Stored
  <2>7. VersionKept(t)'
    BY <1>1, <2>1 DEF Knows, VersionKept, Made, Rotating, Sealing, Retiring, Referring,
       Ending
  <2>8. EnvelopeWritten(t)'
    BY <1>1, <2>1, <2>2 DEF Knows, EnvelopeWritten, VersionKept, Made, Retires, Rotating,
       Sealing, Retiring, Ending
  <2>9. ConnectionsWritten(t)'
    BY <1>1, <2>1, <2>2 DEF Knows, ConnectionsWritten, Written, Exists, Rotating,
       Referring
  <2>10. ConnectionsFit(t)'
    BY <1>1, <2>1 DEF Knows, ConnectionsFit, Referring, Exists
  <2>11. ReferencesCounted(t)'
    <3>1. \A c \in Conn : connection[c].version # job[t].version
      <4> SUFFICES ASSUME NEW c \in Conn, connection[c].version = job[t].version
                   PROVE  FALSE
        OBVIOUS
      <4>1. <<t, c, "shared">> \in connectionLock
        BY <1>1 DEF Knows, ReferencesCounted
      <4> QED BY <1>3, <4>1 DEF References
    <3> QED BY <1>1, <2>1, <3>1 DEF ReferencesCounted
  <2>12. Reported(t)'
    BY <1>1, <2>1 DEF Reported
  <2> QED BY <2>1, <2>3, <2>4, <2>5, <2>6, <2>7, <2>8, <2>9, <2>10, <2>11, <2>12,
             StepKeeps
          DEF Knows
<1> QED BY <1>2, <1>3 DEF SetRetired

-----------------------------------------------------------------------------
(* The steps that lock a version, and what they are turned back by.        *)

LEMMA RefuseKeeps ==
  ASSUME IInv, NEW t \in Tx, pc[t] \in {"pick", "lock"}, job[t].kind = "rotate",
         NEW answer \in {"version_conflict", "credential_retired", "credential_not_found"},
         Refuse(t, answer), UNCHANGED <<database, alarm, wraps, job, latest>>
  PROVE  IInv'
<1>1. EndTx(t) /\ pc' = [pc EXCEPT ![t] = "report"] /\ result' = [result EXCEPT ![t] = answer]
  BY DEF Refuse, Goto
<1>2. TypeOK'
  BY <1>1, EndsClean DEF IInv, TypeOK, Answers, database
<1>3. OnlyMoves(t)
  BY <1>1, EndsClean DEF IInv, TypeOK, OnlyMoves, database
<1>4. pc'[t] = "report" /\ result'[t] = answer
  BY <1>1 DEF IInv, TypeOK
<1>5. Knows(t)'
  BY <1>1, <1>4, EndsUnknowing DEF database
<1>6. Reported(t)'
  BY <1>4 DEF IInv, Reported, database
<1> QED BY <1>1, <1>2, <1>3, <1>5, <1>6, EndsClean, StepKeeps

LEMMA PickLatestKeeps ==
  ASSUME IInv, NEW t \in Tx, PickLatest(t)
  PROVE  IInv'
<1>1. TypeOK /\ Knows(t) /\ Reported(t) /\ pc[t] = "pick" /\ job[t].kind = "rotate"
  BY DEF IInv, PickLatest, Knows, StepsFit
<1>2. CASE Refuse(t, "credential_not_found") /\ UNCHANGED latest
  BY <1>1, <1>2, RefuseKeeps DEF PickLatest
<1>3. CASE /\ Stored # {} /\ latest' = [latest EXCEPT ![t] = Max(Stored)]
           /\ Goto(t, "lock") /\ UNCHANGED <<toLock, writes, locks, result>>
  <2>1. Max(Stored) \in Stored /\ Max(Stored) \in 1..MaxVersion
    <3>1. Stored \in SUBSET (0..MaxVersion) /\ Stored \subseteq 1..MaxVersion
      BY EnoughVersions DEF Stored, Version
    <3> HIDE DEF Stored
    <3> QED BY <1>3, <3>1, MaxIsThere, EnoughVersions
  <2>2. /\ pc'[t] = "lock" /\ job' = job /\ latest'[t] = Max(Stored) /\ result' = result
        /\ toLock' = toLock /\ writes' = writes
        /\ envelope' = envelope /\ connection' = connection
        /\ audit' = audit /\ alarm' = alarm
        /\ envelopeLock' = envelopeLock /\ connectionLock' = connectionLock
    BY <1>1, <1>3 DEF PickLatest, Goto, TypeOK, database, locks
  <2>3. TypeOK'
    BY <1>1, <1>3, <2>1, EnoughVersions DEF PickLatest, TypeOK, Goto, database, locks
  <2>4. OnlyMoves(t)
    BY <1>1, <1>3, <2>2 DEF TypeOK, OnlyMoves, Goto
  <2>5. LocksExclude'
    BY <2>2 DEF IInv, LocksExclude
  <2>6. StepsFit(t)'
    BY <1>1, <2>1, <2>2 DEF Knows, StepsFit, Rotating, Stored
  <2>7. (VersionLocked(t) /\ VersionKept(t))'
    BY <1>1, <2>2 DEF VersionLocked, VersionKept, Made, Rotating, Sealing, Retiring,
       Referring
  <2>8. EnvelopeWritten(t)'
    BY <1>1, <2>2 DEF Knows, EnvelopeWritten, Made, Retires, Rotating, Sealing, Retiring
  <2>9. ConnectionsWritten(t)'
    BY <1>1, <2>2 DEF Knows, ConnectionsWritten, Written, Rotating, Referring
  <2>10. ConnectionsFit(t)' /\ ReferencesCounted(t)'
    BY <1>1, <2>2 DEF Knows, ConnectionsFit, ReferencesCounted, Referring, Exists,
       Retires,
       Retiring
  <2>11. Reported(t)'
    BY <1>1, <2>2 DEF Reported
  <2> QED BY <2>2, <2>3, <2>4, <2>5, <2>6, <2>7, <2>8, <2>9, <2>10, <2>11, StepKeeps DEF
             Knows
<1> QED BY <1>2, <1>3 DEF PickLatest

\* A request that locks the row of a version and goes on.
LEMMA LockingKeeps ==
  ASSUME IInv, NEW t \in Tx, pc[t] = "lock", NEW v \in Version,
         NEW mode \in {"shared", "exclusive"},
         NEW step \in {"insert", "count", "append", "write"},
         Free(envelopeLock, t, v, mode),
         envelopeLock' = envelopeLock \cup {<<t, v, mode>>},
         pc' = [pc EXCEPT ![t] = step],
         UNCHANGED <<database, alarm, wraps, job, latest, toLock, writes, connectionLock,
                     result>>,
         StepsFit(t)', VersionLocked(t)', VersionKept(t)', ~Made(t)', ~Retires(t)',
         Referring(t)' /\ job[t].kind = "update" => Exists(job[t].connection)
  PROVE  IInv'
<1>1. TypeOK /\ Knows(t) /\ Reported(t)
  BY DEF IInv
<1>2. pc'[t] = step /\ envelope' = envelope /\ connection' = connection /\ audit' = audit
  BY <1>1 DEF TypeOK, database
<1>3. TypeOK'
  BY <1>1 DEF TypeOK, database, Lock
<1>4. OnlyMoves(t)
  BY <1>1, <1>2 DEF TypeOK, OnlyMoves
<1>5. LocksExclude'
  BY DEF IInv, LocksExclude, Free
<1>6. EnvelopeWritten(t)'
  BY <1>1, <1>2 DEF Knows, EnvelopeWritten, Made, Retires, Rotating, Sealing, Retiring,
     Ending
<1>7. ConnectionsWritten(t)'
  BY <1>1, <1>2 DEF Knows, ConnectionsWritten, Written, Rotating, Referring
<1>8. ConnectionsFit(t)' /\ ReferencesCounted(t)'
  BY <1>1, <1>2 DEF Knows, ConnectionsFit, ReferencesCounted, Referring, Exists
<1>9. Reported(t)'
  BY <1>1, <1>2 DEF Reported
<1> QED BY <1>3, <1>4, <1>5, <1>6, <1>7, <1>8, <1>9, StepKeeps DEF Knows

LEMMA LockLatestKeeps ==
  ASSUME IInv, NEW t \in Tx, LockLatest(t)
  PROVE  IInv'
<1>1. /\ TypeOK /\ Knows(t) /\ pc[t] = "lock" /\ job[t].kind = "rotate"
      /\ latest[t] \in Stored /\ latest[t] \in Version
      /\ UNCHANGED <<database, alarm, wraps, job, latest>>
  BY DEF IInv, LockLatest, Knows, StepsFit, Stored
<1>2. CASE Refuse(t, "version_conflict") \/ Refuse(t, "credential_retired")
  BY <1>1, <1>2, RefuseKeeps
<1>3. CASE /\ IsExpected(t) /\ Free(envelopeLock, t, latest[t], "exclusive")
           /\ envelopeLock' = envelopeLock \cup {<<t, latest[t], "exclusive">>}
           /\ Goto(t, "insert") /\ UNCHANGED <<connectionLock, toLock, writes, result>>
  <2>1. pc'[t] = "insert" /\ job' = job /\ latest' = latest /\ Stored' = Stored
    BY <1>1, <1>3 DEF Goto, TypeOK, database, Stored
  <2>2. StepsFit(t)' /\ VersionLocked(t)' /\ VersionKept(t)' /\ ~Made(t)' /\ ~Retires(t)'
        /\ ~Referring(t)'
    BY <1>1, <1>3, <2>1 DEF Knows, StepsFit, VersionLocked, VersionKept, Made, Rotating,
       Sealing, Retiring, Referring, Retires, IsExpected
  <2> QED BY <1>1, <1>3, <2>2, LockingKeeps DEF Goto
<1> QED BY <1>2, <1>3 DEF LockLatest

LEMMA LockVersionKeeps ==
  ASSUME IInv, NEW t \in Tx, LockVersion(t)
  PROVE  IInv'
<1>1. /\ TypeOK /\ Knows(t) /\ pc[t] = "lock" /\ job[t].kind = "retire"
      /\ job[t].version \in Version
      /\ envelope[job[t].version] \in {"absent", "active", "retired"}
  BY JobTypes DEF IInv, LockVersion, TypeOK
<1> DEFINE step == IF envelope[job[t].version] = "retired" THEN "append" ELSE "count"
<1>2. CASE Abandon(t, "credential_not_found")
  BY <1>1, <1>2, AbandonKeeps DEF Answers
<1>3. CASE /\ envelope[job[t].version] # "absent"
           /\ Free(envelopeLock, t, job[t].version, "exclusive")
           /\ envelopeLock' = envelopeLock \cup {<<t, job[t].version, "exclusive">>}
           /\ Goto(t, step)
           /\ UNCHANGED <<database, alarm, wraps, job, latest, toLock, writes,
                          connectionLock, result>>
  <2>1. pc'[t] = step /\ job' = job /\ latest' = latest /\ envelope' = envelope
    BY <1>1, <1>3 DEF Goto, TypeOK, database
  <2>2. StepsFit(t)' /\ VersionLocked(t)' /\ VersionKept(t)' /\ ~Made(t)' /\ ~Retires(t)'
        /\ ~Referring(t)'
    BY <1>1, <1>3, <2>1 DEF Knows, StepsFit, VersionLocked, VersionKept, Made, Rotating,
       Sealing, Retiring, Referring, Retires, Ending, Stored
  <2> QED BY <1>1, <1>3, <2>2, LockingKeeps DEF Goto
<1> QED BY <1>2, <1>3 DEF LockVersion

LEMMA LockActiveKeeps ==
  ASSUME IInv, NEW t \in Tx, LockActive(t)
  PROVE  IInv'
<1>1. /\ TypeOK /\ Knows(t) /\ pc[t] = "lock" /\ job[t].kind \in {"create", "update"}
      /\ job[t].version \in Version
  BY JobTypes DEF IInv, LockActive, TypeOK
<1>2. CASE Abandon(t, "internal_error")
  BY <1>1, <1>2, AbandonKeeps DEF Answers
<1>3. CASE /\ IsActive(job[t].version)
           /\ job[t].kind = "update" => Exists(job[t].connection)
           /\ Free(envelopeLock, t, job[t].version, "shared")
           /\ envelopeLock' = envelopeLock \cup {<<t, job[t].version, "shared">>}
           /\ Goto(t, "write")
           /\ UNCHANGED <<database, alarm, wraps, job, latest, toLock, writes,
                          connectionLock, result>>
  <2>1. pc'[t] = "write" /\ job' = job /\ latest' = latest /\ envelope' = envelope
    BY <1>1, <1>3 DEF Goto, TypeOK, database
  <2>2. StepsFit(t)' /\ VersionLocked(t)' /\ VersionKept(t)' /\ ~Made(t)' /\ ~Retires(t)'
    BY <1>1, <1>3, <2>1 DEF Knows, StepsFit, VersionLocked, VersionKept, Made, Rotating,
       Sealing, Retiring, Referring, Retires, Ending, Stored, IsActive
  <2> QED BY <1>1, <1>3, <2>2, LockingKeeps DEF Goto
<1> QED BY <1>2, <1>3 DEF LockActive

-----------------------------------------------------------------------------
(* The rest of what leaves the tables alone.                               *)

LEMMA ReportRefusalKeeps ==
  ASSUME IInv, NEW t \in Tx, ReportRefusal(t)
  PROVE  IInv'
<1>1. /\ TypeOK /\ Knows(t) /\ Reported(t) /\ pc[t] = "report" /\ job[t].kind = "rotate"
      /\ job[t].version \in Version
  BY JobTypes DEF IInv, ReportRefusal, Knows, StepsFit
<1>2. /\ pc'[t] = "done" /\ job' = job /\ latest' = latest /\ toLock' = toLock
      /\ writes' = writes /\ envelope' = envelope /\ connection' = connection
      /\ envelopeLock' = envelopeLock /\ connectionLock' = connectionLock
  BY <1>1 DEF ReportRefusal, Goto, TypeOK, locks
<1>3. Event(t, "rotate_failed") \in [by : Tx, action : Action, version : 1..MaxVersion]
  BY <1>1 DEF Event, Action, Version
<1>4. TypeOK'
  BY <1>1, <1>3 DEF ReportRefusal, TypeOK, Goto, locks, Answers
<1>5. OnlyMoves(t)
  BY <1>1, <1>2 DEF ReportRefusal, TypeOK, OnlyMoves, Goto
<1>6. LocksExclude'
  BY <1>2 DEF IInv, LocksExclude
<1>7. Knows(t)'
  <2>1. StepsFit(t)'
    BY <1>1, <1>2 DEF Knows, StepsFit, Rotating, Stored
  <2>2. (VersionLocked(t) /\ VersionKept(t))'
    BY <1>1, <1>2 DEF VersionLocked, VersionKept, Made, Rotating, Sealing, Retiring,
       Referring
  <2>3. EnvelopeWritten(t)'
    BY <1>1, <1>2 DEF Knows, EnvelopeWritten, Made, Retires, Rotating, Sealing, Retiring
  <2>4. ConnectionsWritten(t)'
    BY <1>1, <1>2 DEF Knows, ConnectionsWritten, Written, Rotating, Referring
  <2>5. ConnectionsFit(t)' /\ ReferencesCounted(t)'
    BY <1>1, <1>2 DEF Knows, ConnectionsFit, ReferencesCounted, Referring, Exists,
       Retires,
       Retiring
  <2> QED BY <2>1, <2>2, <2>3, <2>4, <2>5 DEF Knows
<1>8. Reported(t)'
  <2>1. CASE audit' = audit \cup {Event(t, "rotate_failed")} /\ UNCHANGED <<alarm, result>>
    <3>1. /\ Event(t, "rotate_failed").by = t /\ Event(t, "rotate_failed") \in audit'
          /\ Event(t, "rotate_failed").action = "rotate_failed"
      BY <2>1 DEF Event
    <3>2. result'[t] # "audit_failed"
      BY <1>1, <2>1 DEF Reported
    <3> QED BY <1>2, <3>1, <3>2 DEF Reported
  <2>2. CASE /\ alarm' = alarm \cup {t} /\ result' = [result EXCEPT ![t] = "audit_failed"]
             /\ UNCHANGED audit
    <3>1. result'[t] = "audit_failed" /\ t \in alarm'
      BY <1>1, <2>2 DEF TypeOK
    <3> QED BY <1>1, <1>2, <2>2, <3>1 DEF Reported
  <2> QED BY <2>1, <2>2 DEF ReportRefusal
<1> QED BY <1>2, <1>4, <1>5, <1>6, <1>7, <1>8, StepKeeps

LEMMA AppendKeeps ==
  ASSUME IInv, NEW t \in Tx, Append(t)
  PROVE  IInv'
<1>1. TypeOK /\ Knows(t) /\ Reported(t) /\ pc[t] = "append"
  BY DEF IInv, Append
<1>2. CASE /\ Goto(t, "commit")
           /\ UNCHANGED <<database, alarm, wraps, job, latest, toLock, writes, locks, result>>
  <2>1. /\ pc'[t] = "commit" /\ job' = job /\ latest' = latest /\ result' = result
        /\ toLock' = toLock /\ writes' = writes
        /\ envelope' = envelope /\ connection' = connection
        /\ audit' = audit /\ alarm' = alarm
        /\ envelopeLock' = envelopeLock /\ connectionLock' = connectionLock
    BY <1>1, <1>2 DEF Goto, TypeOK, database, locks
  <2>2. TypeOK'
    BY <1>1, <1>2 DEF TypeOK, Goto, database, locks
  <2>3. OnlyMoves(t)
    BY <1>1, <1>2, <2>1 DEF TypeOK, OnlyMoves, Goto
  <2>4. LocksExclude'
    BY <2>1 DEF IInv, LocksExclude
  <2>5. StepsFit(t)' /\ VersionLocked(t)'
    BY <1>1, <2>1 DEF Knows, StepsFit, VersionLocked, Rotating, Retiring, Referring,
       Stored
  <2>6. VersionKept(t)' /\ EnvelopeWritten(t)'
    BY <1>1, <2>1 DEF Knows, VersionKept, EnvelopeWritten, Made, Retires, Rotating,
       Sealing,
       Retiring, Referring, Ending
  <2>7. ConnectionsWritten(t)'
    BY <1>1, <2>1 DEF Knows, ConnectionsWritten, Written, Exists, Rotating, Referring
  <2>8. ConnectionsFit(t)' /\ ReferencesCounted(t)'
    BY <1>1, <2>1 DEF Knows, ConnectionsFit, ReferencesCounted, Referring, Exists,
       Retires,
       Retiring, Ending
  <2>9. Reported(t)'
    BY <1>1, <2>1 DEF Reported
  <2> QED BY <2>1, <2>2, <2>3, <2>4, <2>5, <2>6, <2>7, <2>8, <2>9, StepKeeps DEF Knows
<1>3. CASE /\ alarm' = alarm \cup {t} /\ EndTx(t) /\ Answer(t, "audit_failed")
           /\ UNCHANGED <<database, wraps, job, latest>>
  <2>1. pc'[t] = "done" /\ result'[t] = "audit_failed"
    BY <1>1, <1>3 DEF Answer, Goto, TypeOK
  <2>2. TypeOK'
    BY <1>1, <1>3, EndsClean DEF TypeOK, Answer, Goto, database, Answers
  <2>3. OnlyMoves(t)
    BY <1>1, <1>3, EndsClean DEF TypeOK, OnlyMoves, Answer, Goto, database
  <2>4. Knows(t)'
    BY <1>1, <1>3, <2>1, EndsUnknowing DEF database
  <2>5. Reported(t)'
    BY <1>1, <1>3, <2>1 DEF Reported, database
  <2> QED BY <1>3, <2>2, <2>3, <2>4, <2>5, EndsClean, StepKeeps
<1> QED BY <1>2, <1>3 DEF Append

LEMMA FailKeeps ==
  ASSUME IInv, NEW t \in Tx, Fail(t)
  PROVE  IInv'
BY AbandonKeeps DEF Fail, Answers

LEMMA BeginKeeps ==
  ASSUME IInv, NEW t \in Tx, NEW j \in Jobs, Begin(t, j)
  PROVE  IInv'
<1>1. TypeOK /\ Knows(t) /\ Reported(t) /\ pc[t] = "idle"
  BY DEF IInv, Begin
<1>2. j.kind \in {"seal", "rotate", "retire", "create", "update"}
  BY DEF Jobs
<1>3. /\ pc'[t] = (CASE j.kind = "seal" -> "insert" [] j.kind = "rotate" -> "pick"
                     [] OTHER -> "lock")
      /\ job'[t] = j /\ latest' = latest /\ result' = result
      /\ toLock' = toLock /\ writes' = writes
      /\ envelope' = envelope /\ connection' = connection
      /\ audit' = audit /\ alarm' = alarm
      /\ envelopeLock' = envelopeLock /\ connectionLock' = connectionLock
  BY <1>1 DEF Begin, Goto, TypeOK, database, locks
<1>4. pc'[t] \in {"insert", "pick", "lock"}
  BY <1>3
<1>5. TypeOK'
  BY <1>1, <1>3, <1>4 DEF Begin, TypeOK, Goto, database, locks
<1>6. OnlyMoves(t)
  BY <1>1, <1>3 DEF Begin, TypeOK, OnlyMoves, Goto
<1>7. LocksExclude'
  BY <1>3 DEF IInv, LocksExclude
<1>8. OneCreator'
  BY <1>1, <1>3 DEF IInv, OneCreator, Begin, TypeOK
<1>9. latest[t] = 0
  BY <1>1 DEF Knows, StepsFit
<1>10. StepsFit(t)'
  BY <1>2, <1>3, <1>9 DEF StepsFit, Rotating
<1>11. (VersionLocked(t) /\ VersionKept(t))'
  BY <1>2, <1>3, <1>4 DEF VersionLocked, VersionKept, Made, Rotating, Sealing, Retiring,
     Referring
<1>12. (EnvelopeWritten(t) /\ ConnectionsWritten(t))'
  BY <1>1, <1>3, <1>4 DEF Knows, StepsFit, EnvelopeWritten, ConnectionsWritten, Made,
     Retires,
     Written, Rotating, Sealing, Retiring, Referring, Ending
<1>13. (ConnectionsFit(t) /\ ReferencesCounted(t))'
  BY <1>1, <1>3, <1>4 DEF Knows, ConnectionsFit, ReferencesCounted, Referring, Exists,
     Retires,
     Retiring, Ending, Begin
<1>14. Reported(t)'
  BY <1>1, <1>3, <1>4 DEF Reported
<1>15. \A u \in Tx : (Knows(u) /\ Reported(u))'
  BY <1>6, <1>10, <1>11, <1>12, <1>13, <1>14, OthersKnow DEF Knows
<1> QED BY <1>1, <1>5, <1>6, <1>7, <1>8, <1>15, TablesKept DEF IInv

-----------------------------------------------------------------------------
(* The commit.                                                             *)

\* What a commit does to the tables, the trail and the request.
Committed(t) ==
  /\ \A v \in Version :
       envelope'[v] = IF Made(t) /\ v = latest[t] + 1 THEN "active"
                      ELSE IF Retires(t) /\ v = job[t].version THEN "retired"
                      ELSE envelope[v]
  /\ \A c \in Conn :
       connection'[c] = IF Written(t, c) THEN writes[t].connection[c] ELSE connection[c]
  /\ audit' = audit \cup {Event(t, job[t].kind)}
  /\ pc'[t] = "done" /\ toLock'[t] = {} /\ writes'[t] = NoWrites
  /\ result'[t] \in {"ok", "internal_error"}
  /\ alarm' = alarm /\ job' = job /\ latest' = latest
  /\ \A u \in Tx \ {t} :
       /\ pc'[u] = pc[u] /\ toLock'[u] = toLock[u] /\ writes'[u] = writes[u]
       /\ result'[u] = result[u]
  /\ \A l \in envelopeLock : l[1] # t => l \in envelopeLock'
  /\ \A l \in connectionLock : l[1] # t => l \in connectionLock'

LEMMA CommitDoes ==
  ASSUME IInv, NEW t \in Tx, Commit(t)
  PROVE  Committed(t) /\ LocksExclude' /\ TypeOK'
<1>1. TypeOK /\ Knows(t) /\ pc[t] = "commit"
  BY DEF IInv, Commit
<1>2. /\ \A v \in Version :
           envelope'[v] = IF writes[t].envelope[v] = "absent" THEN envelope[v]
                          ELSE writes[t].envelope[v]
      /\ \A c \in Conn :
           connection'[c] = IF Written(t, c) THEN writes[t].connection[c] ELSE connection[c]
  BY DEF Commit, Publish, PublishTables, Written
<1>3. \A v \in Version :
        envelope'[v] = IF Made(t) /\ v = latest[t] + 1 THEN "active"
                       ELSE IF Retires(t) /\ v = job[t].version THEN "retired"
                       ELSE envelope[v]
  BY <1>1, <1>2 DEF Knows, EnvelopeWritten
<1>4. EndTx(t) /\ alarm' = alarm /\ job' = job /\ latest' = latest /\ wraps' = wraps
      /\ audit' = audit \cup {Event(t, job[t].kind)}
  BY DEF Commit, Publish
<1>5. /\ pc' = [pc EXCEPT ![t] = "done"]
      /\ \E answer \in {"ok", "internal_error"} : result' = [result EXCEPT ![t] = answer]
  BY DEF Commit, Answer, Goto
<1>6. Committed(t)
  BY <1>1, <1>2, <1>3, <1>4, <1>5, EndsClean DEF Committed, TypeOK
<1>7. Event(t, job[t].kind) \in [by : Tx, action : Action, version : 1..MaxVersion]
  <2>1. job[t].kind \in {"seal", "rotate", "retire", "create", "update"}
    BY <1>1, JobTypes DEF Knows, StepsFit
  <2>2. 1 \in Version
    BY EnoughVersions, FS_CardinalityType DEF Version
  <2>3. latest[t] + 1 \in Version
    BY <1>1, RoomLeft
  <2> QED BY <1>1, <2>1, <2>2, <2>3, JobTypes DEF Event, Action, Version
<1>8. /\ envelope' \in [Version -> {"absent", "active", "retired"}]
      /\ connection' \in [Conn -> Row]
  <2>1. writes[t] \in [envelope : [Version -> {"absent", "active", "retired"}],
                       connection : [Conn -> Row]]
    BY <1>1 DEF TypeOK
  <2> QED BY <1>1, <2>1 DEF Commit, Publish, PublishTables, TypeOK
<1>9. TypeOK'
  BY <1>1, <1>4, <1>5, <1>7, <1>8, EndsClean DEF TypeOK, Answers
<1> QED BY <1>4, <1>6, <1>9, EndsClean

\* What is on record of a request that commits: nothing yet.
LEMMA Committing ==
  ASSUME IInv, NEW t \in Tx, pc[t] = "commit"
  PROVE  /\ job[t].kind \in {"seal", "rotate", "retire", "create", "update"}
         /\ Rotating(t) <=> job[t].kind = "rotate"
         /\ Sealing(t) <=> job[t].kind = "seal"
         /\ Retiring(t) <=> job[t].kind = "retire"
         /\ Referring(t) <=> job[t].kind \in {"create", "update"}
         /\ Made(t) <=> job[t].kind \in {"rotate", "seal"}
         /\ job[t].kind = "rotate" => latest[t] = job[t].version
         /\ job[t].kind # "rotate" => latest[t] = 0
         /\ latest[t] + 1 \in Version
         /\ ~\E a \in audit : a.by = t
         /\ Knows(t)
<1>1. Knows(t) /\ Reported(t) /\ TypeOK
  BY DEF IInv
<1>2. job[t].kind \in {"seal", "rotate", "retire", "create", "update"}
  BY <1>1, JobTypes DEF Knows, StepsFit
<1>3. /\ Rotating(t) <=> job[t].kind = "rotate"
      /\ Sealing(t) <=> job[t].kind = "seal"
      /\ Retiring(t) <=> job[t].kind = "retire"
      /\ Referring(t) <=> job[t].kind \in {"create", "update"}
      /\ Made(t) <=> job[t].kind \in {"rotate", "seal"}
  BY DEF Rotating, Sealing, Retiring, Referring, Made
<1>4. latest[t] + 1 \in Version
  BY RoomLeft
<1> QED BY <1>1, <1>2, <1>3, <1>4 DEF Knows, StepsFit, Reported

\* Whoever works on a version is alone with it, but for the references.
LEMMA VersionsApart ==
  ASSUME IInv, NEW t \in Tx, pc[t] = "commit", NEW u \in Tx \ {t}
  PROVE  /\ Retiring(u) /\ Retiring(t) => job[u].version # job[t].version
         /\ Retiring(u) /\ Referring(t) => job[u].version # job[t].version
         /\ Referring(u) /\ Retiring(t) => job[u].version # job[t].version
         /\ Made(u) /\ Made(t) => latest[u] # latest[t]
<1>1. Knows(t) /\ Knows(u) /\ TypeOK /\ LocksExclude /\ OneCreator
  BY DEF IInv
<1>2. \A v, m, n : <<t, v, m>> \in envelopeLock /\ <<u, v, n>> \in envelopeLock =>
        m = "shared" /\ n = "shared"
  BY <1>1 DEF LocksExclude
<1>3. Made(u) /\ Made(t) => latest[u] # latest[t]
  <2>1. CASE Rotating(u) /\ Rotating(t)
    BY <1>1, <1>2, <2>1 DEF Knows, VersionLocked
  <2>2. CASE Sealing(u) /\ Sealing(t)
    BY <1>1, <2>2 DEF OneCreator, Sealing
  <2>3. \A w \in {t, u} : /\ Rotating(w) => latest[w] # 0
                          /\ Sealing(w) => latest[w] = 0
    <3> SUFFICES ASSUME NEW w \in {t, u}
                 PROVE  (Rotating(w) => latest[w] # 0) /\ (Sealing(w) => latest[w] = 0)
      OBVIOUS
    <3>1. Knows(w) /\ w \in Tx
      BY <1>1
    <3>2. job[w].kind = "rotate" => job[w].version # 0
      BY <1>1, <3>1, JobTypes
    <3> QED BY <3>1, <3>2 DEF Knows, StepsFit, Rotating, Sealing
  <2> QED BY <2>1, <2>2, <2>3 DEF Made
<1> QED BY <1>1, <1>2, <1>3 DEF Knows, VersionLocked

LEMMA CommitSparesOthers ==
  ASSUME IInv, NEW t \in Tx, pc[t] = "commit", Committed(t), NEW u \in Tx \ {t}
  PROVE  (Knows(u) /\ Reported(u))'
<1>1. /\ Knows(u) /\ Reported(u) /\ Knows(t) /\ TypeOK /\ LocksExclude /\ OneCreator
      /\ envelope \in [Version -> {"absent", "active", "retired"}]
  BY DEF IInv, TypeOK
<1>2. /\ job'[u] = job[u] /\ pc'[u] = pc[u] /\ latest'[u] = latest[u]
      /\ toLock'[u] = toLock[u] /\ writes'[u] = writes[u] /\ result'[u] = result[u]
      /\ alarm' = alarm
  BY DEF Committed
<1>3. \A v \in Version : v \in Stored => v \in Stored'
  BY DEF Committed, Stored
<1>4. \A m, v : <<u, v, m>> \in envelopeLock => <<u, v, m>> \in envelopeLock'
  BY DEF Committed
<1>5. \A m, c : <<u, c, m>> \in connectionLock => <<u, c, m>> \in connectionLock'
  BY DEF Committed
<1>6. StepsFit(u)'
  BY <1>1, <1>2, <1>3 DEF Knows, StepsFit, Rotating, Stored
<1>7. VersionLocked(u)'
  BY <1>1, <1>2, <1>4 DEF Knows, VersionLocked, Rotating, Retiring, Referring
<1>8. Retiring(u) => /\ job[u].version \in Version
                     /\ envelope'[job[u].version] = envelope[job[u].version]
                     /\ envelope[job[u].version] # "absent"
  <2> SUFFICES ASSUME Retiring(u)
               PROVE  /\ job[u].version \in Version
                      /\ envelope'[job[u].version] = envelope[job[u].version]
                      /\ envelope[job[u].version] # "absent"
    OBVIOUS
  <2>1. job[u].version \in Version
    BY <1>1, JobTypes DEF Retiring
  <2>2. envelope[job[u].version] # "absent"
    BY <1>1 DEF Knows, VersionKept
  <2>3. Made(t) => job[u].version # latest[t] + 1
    BY <1>1, <2>2 DEF Knows, VersionKept
  <2>4. Retires(t) => job[u].version # job[t].version
    BY VersionsApart DEF Retires
  <2> QED BY <2>1, <2>2, <2>3, <2>4 DEF Committed
<1>9. VersionKept(u)'
  <2>1. Made(u) => envelope'[latest[u] + 1] = "absent"
    <3> SUFFICES ASSUME Made(u) PROVE envelope'[latest[u] + 1] = "absent"
      OBVIOUS
    <3>1. latest[u] + 1 \in Version /\ envelope[latest[u] + 1] = "absent"
      BY <1>1, RoomLeft DEF Knows, VersionKept, Made, Rotating, Sealing
    <3>2. Made(t) => latest[u] + 1 # latest[t] + 1
      <4>1. latest[u] \in Int /\ latest[t] \in Int
        BY <1>1 DEF TypeOK
      <4>2. Made(t) => latest[u] # latest[t]
        BY VersionsApart
      <4> QED BY <4>1, <4>2
    <3>3. Retires(t) => latest[u] + 1 # job[t].version
      BY <1>1, <3>1 DEF Knows, VersionKept, Retires
    <3> QED BY <3>1, <3>2, <3>3 DEF Committed
  <2>2. Referring(u) => envelope'[job[u].version] = "active"
    <3> SUFFICES ASSUME Referring(u) PROVE envelope'[job[u].version] = "active"
      OBVIOUS
    <3>1. job[u].version \in Version /\ envelope[job[u].version] = "active"
      BY <1>1, JobTypes DEF Knows, VersionKept, Referring
    <3>2. Retires(t) => job[u].version # job[t].version
      BY VersionsApart DEF Retires
    <3> QED BY <3>1, <3>2 DEF Committed
  <2>3. (Made(u)' <=> Made(u)) /\ (Retiring(u)' <=> Retiring(u))
        /\ (Referring(u)' <=> Referring(u)) /\ (Ending(u)' <=> Ending(u))
    BY <1>2 DEF Made, Rotating, Sealing, Retiring, Referring, Ending
  <2> QED BY <1>1, <1>2, <1>8, <2>1, <2>2, <2>3 DEF Knows, VersionKept
<1>10. Retires(u)' <=> Retires(u)
  BY <1>2, <1>8 DEF Retires, Retiring, Ending
<1>11. EnvelopeWritten(u)'
  BY <1>1, <1>2, <1>10 DEF Knows, EnvelopeWritten, Made, Rotating, Sealing
<1>12. \A c \in Conn : Exists(c) => Exists(c)'
  BY DEF Committed, Exists, Written
<1>13. ConnectionsWritten(u)'
  <2>1. \A c \in Conn : Written(u, c) => connection'[c] = connection[c]
    <3>1. \A c \in Conn : Written(u, c) => ~Written(t, c)
      BY <1>1 DEF Knows, ConnectionsWritten, LocksExclude
    <3> QED BY <3>1 DEF Committed
  <2> QED BY <1>1, <1>2, <1>5, <2>1 DEF Knows, ConnectionsWritten, Written, Exists,
             Rotating,
     Referring
<1>14. ConnectionsFit(u)'
  <2>1. job[u].kind = "create" /\ pc[u] # "done" => ~Exists(job[u].connection)'
    <3> SUFFICES ASSUME job[u].kind = "create", pc[u] # "done"
                 PROVE  ~Exists(job[u].connection)'
      OBVIOUS
    <3>1. job[u].connection \in Conn /\ ~Exists(job[u].connection)
      BY <1>1, JobTypes DEF Knows, ConnectionsFit
    <3>2. ~Written(t, job[u].connection)
      <4>1. SUFFICES ASSUME Written(t, job[u].connection) PROVE FALSE
        OBVIOUS
      <4>2. job[t].kind = "create" /\ job[t].connection = job[u].connection
        BY <1>1, <3>1, <4>1 DEF Knows, ConnectionsWritten, Rotating
      <4> QED BY <1>1, <4>2 DEF OneCreator
    <3> QED BY <3>1, <3>2 DEF Committed, Exists
  <2>2. Referring(u) /\ job[u].kind = "update" => Exists(job[u].connection)'
    <3> SUFFICES ASSUME Referring(u), job[u].kind = "update"
                 PROVE  Exists(job[u].connection)'
      OBVIOUS
    <3>1. job[u].connection \in Conn /\ Exists(job[u].connection)
      BY <1>1, JobTypes DEF Knows, ConnectionsFit
    <3> QED BY <1>2, <1>12, <3>1
  <2>3. \A c \in toLock[u] : Exists(c)'
    BY <1>1, <1>12 DEF Knows, ConnectionsFit, TypeOK
  <2> QED BY <1>1, <1>2, <2>1, <2>2, <2>3 DEF Knows, ConnectionsFit, Referring, Exists
<1>15. ReferencesCounted(u)'
  <2>1. \A c \in Conn : Retiring(u) /\ connection'[c].version = job[u].version =>
          connection[c].version = job[u].version
    <3> SUFFICES ASSUME NEW c \in Conn, Retiring(u), Written(t, c)
                 PROVE  writes[t].connection[c].version # job[u].version
      BY DEF Committed
    <3>1. CASE Rotating(t)
      <4>1. writes[t].connection[c].version = latest[t] + 1
        BY <1>1, <3>1 DEF Knows, ConnectionsWritten, Rotating
      <4>2. envelope[latest[t] + 1] = "absent"
        BY <1>1, <3>1 DEF Knows, VersionKept, Made
      <4> QED BY <1>8, <4>1, <4>2
    <3>2. CASE Referring(t)
      <4>1. writes[t].connection[c].version = job[t].version
        BY <1>1, <3>2 DEF Knows, ConnectionsWritten, Referring
      <4> QED BY <3>2, <4>1, VersionsApart
    <3> QED BY <1>1, <3>1, <3>2 DEF Knows, ConnectionsWritten
  <2>2. pc[u] = "counting" => Retiring(u)
    BY <1>1 DEF Knows, StepsFit, Retiring
  <2>3. Retires(u) => Retiring(u)
    BY DEF Retires
  <2> QED BY <1>1, <1>2, <1>5, <1>10, <2>1, <2>2, <2>3 DEF Knows, ReferencesCounted
<1>16. Reported(u)'
  <2>1. \A a : a.by = u => (a \in audit' <=> a \in audit)
    BY DEF Committed, Event
  <2> QED BY <1>1, <1>2, <2>1 DEF Reported
<1> QED BY <1>6, <1>7, <1>9, <1>11, <1>13, <1>14, <1>15, <1>16 DEF Knows

LEMMA CommitterKnows ==
  ASSUME IInv, NEW t \in Tx, pc[t] = "commit", Committed(t)
  PROVE  (Knows(t) /\ Reported(t))'
<1>1. Knows(t) /\ TypeOK
  BY DEF IInv
<1>2. pc'[t] = "done" /\ job' = job /\ latest' = latest
  BY DEF Committed
<1>3. \A v \in Version : v \in Stored => v \in Stored'
  BY DEF Committed, Stored
<1>4. StepsFit(t)'
  BY <1>1, <1>2, <1>3 DEF Knows, StepsFit, Rotating, Stored
<1>5. (VersionLocked(t) /\ VersionKept(t))' /\ ~Made(t)' /\ ~Retires(t)'
  BY <1>2 DEF VersionLocked, VersionKept, Made, Retires, Rotating, Sealing, Retiring,
     Referring
<1>6. (EnvelopeWritten(t) /\ ConnectionsWritten(t))'
  BY <1>5 DEF Committed, EnvelopeWritten, ConnectionsWritten, Written, NoWrites
<1>7. (ConnectionsFit(t) /\ ReferencesCounted(t))'
  BY <1>2, <1>5 DEF Committed, ConnectionsFit, ReferencesCounted, Referring
<1>8. Reported(t)'
  BY <1>2 DEF Committed, Reported
<1> QED BY <1>4, <1>5, <1>6, <1>7, <1>8 DEF Knows

LEMMA CommitKeepsReferences ==
  ASSUME IInv, NEW t \in Tx, pc[t] = "commit", Committed(t)
  PROVE  NoRetiredReference'
<1>1. Knows(t) /\ TypeOK
  BY DEF IInv
<1> SUFFICES ASSUME NEW c \in Conn, Exists(c)'
             PROVE  envelope'[connection'[c].version] = "active"
  BY DEF NoRetiredReference
<1>2. CASE Written(t, c) /\ Rotating(t)
  <2>1. connection'[c].version = latest[t] + 1
    BY <1>1, <1>2 DEF Committed, Knows, ConnectionsWritten, Rotating
  <2> QED BY <1>2, <2>1, Committing DEF Committed, Rotating
<1>3. CASE Written(t, c) /\ Referring(t)
  <2>1. connection'[c].version = job[t].version /\ envelope[job[t].version] = "active"
    BY <1>1, <1>3 DEF Committed, Knows, ConnectionsWritten, VersionKept, Referring
  <2>2. job[t].version \in Version
    BY <1>1, <1>3, JobTypes DEF Referring
  <2>3. ~Retires(t)
    BY <1>3 DEF Retires, Retiring, Referring
  <2> QED BY <2>1, <2>2, <2>3 DEF Committed
<1>4. CASE ~Written(t, c)
  <2>1. connection'[c] = connection[c] /\ Exists(c)
    BY <1>4 DEF Committed, Exists
  <2>2. envelope[connection[c].version] = "active" /\ connection[c].version \in Version
    BY <1>1, <2>1, EnoughVersions DEF IInv, NoRetiredReference, TypeOK, Row, Version,
       Exists, NoRow
  <2>3. Retires(t) => connection[c].version # job[t].version
    BY <1>1 DEF Knows, ReferencesCounted
  <2> QED BY <2>1, <2>2, <2>3 DEF Committed
<1> QED BY <1>1, <1>2, <1>3, <1>4 DEF Knows, ConnectionsWritten

LEMMA CommitCounts ==
  ASSUME IInv, NEW t \in Tx, pc[t] = "commit", Committed(t)
  PROVE  VersionsCounted'
<1>1. Ended' = Ended \cup {t} /\ t \notin Ended /\ Ended \subseteq Tx
  BY DEF Committed, Ended
<1>2. IsFiniteSet(Ended)
  BY <1>1, EnoughVersions, FS_Subset
<1>3. Cardinality(Ended') = Cardinality(Ended) + 1 /\ Cardinality(Ended) \in Nat
  BY <1>1, <1>2, FS_AddElement, FS_CardinalityType
<1>4. latest[t] = 0 \/ latest[t] <= 1 + Cardinality(Ended)
  BY DEF IInv, VersionsCounted, Knows, StepsFit
<1>5. latest[t] \in Int
  BY DEF IInv, TypeOK
<1>6. \A v \in Stored' : v \in Stored \/ v = latest[t] + 1
  <2> SUFFICES ASSUME NEW v \in Version, envelope'[v] # "absent", envelope[v] = "absent"
               PROVE  v = latest[t] + 1
    BY DEF Stored
  <2>1. Retires(t) => v # job[t].version
    BY DEF IInv, Knows, VersionKept, Retires
  <2> QED BY <2>1 DEF Committed
<1>7. \A v \in Stored : v <= 1 + Cardinality(Ended) /\ v \in Int
  BY DEF IInv, VersionsCounted, Stored, Version
<1> QED BY <1>3, <1>4, <1>5, <1>6, <1>7 DEF VersionsCounted

LEMMA CommitRecords ==
  ASSUME IInv, NEW t \in Tx, pc[t] = "commit", Committed(t)
  PROVE  Recorded'
<1> DEFINE e == Event(t, job[t].kind)
<1>1. /\ Knows(t) /\ TypeOK /\ RotationsDone /\ OneRotationPerVersion /\ TrailMatchesVersions
      /\ latest[t] + 1 \in Version
  BY Committing DEF IInv, Recorded
<1>2. audit' = audit \cup {e} /\ e \notin audit /\ e.by = t /\ e.action = job[t].kind
      /\ e.version = IF job[t].kind = "rotate" THEN latest[t] + 1 ELSE job[t].version
  BY Committing DEF Committed, Event
<1>3. pc'[t] = "done" /\ job' = job /\ \A u \in Tx : pc[u] = "done" => pc'[u] = "done"
  BY DEF Committed
<1>4. \A v \in Version : v \in Stored => v \in Stored'
  BY DEF Committed, Stored
<1>5. job[t].kind = "rotate" =>
        /\ latest[t] = job[t].version /\ latest[t] + 1 \in Stored'
        /\ latest[t] + 1 \notin Stored
  <2> SUFFICES ASSUME job[t].kind = "rotate"
               PROVE  /\ latest[t] = job[t].version /\ latest[t] + 1 \in Stored'
                      /\ latest[t] + 1 \notin Stored
    OBVIOUS
  <2>1. Made(t) /\ latest[t] = job[t].version
    BY Committing
  <2> QED BY <1>1, <2>1 DEF Committed, Stored, Knows, VersionKept
<1> HIDE DEF e
<1>6. RotationsDone'
  <2> SUFFICES ASSUME NEW a \in audit', a.action = "rotate"
               PROVE  /\ pc'[a.by] = "done" /\ job'[a.by].kind = "rotate"
                      /\ a.version = job'[a.by].version + 1 /\ a.version \in Stored'
    BY DEF RotationsDone
  <2>1. CASE a = e
    BY <1>2, <1>3, <1>5, <2>1
  <2>2. CASE a \in audit
    <3>1. a.by \in Tx
      BY <1>1, <2>2 DEF TypeOK
    <3> QED BY <1>1, <1>3, <1>4, <2>2, <3>1 DEF RotationsDone, Stored
  <2> QED BY <1>2, <2>1, <2>2
<1>7. OneRotationPerVersion'
  <2>1. \A u \in Tx : u # t => (Rotated(u)' <=> Rotated(u))
    BY <1>2 DEF Rotated
  <2>2. Rotated(t)' => job[t].kind = "rotate"
    BY <1>2, Committing DEF Rotated
  <2>3. \A u \in Tx : Rotated(u) => job[u].version + 1 \in Stored
    BY <1>1 DEF RotationsDone, Rotated
  <2>4. \A u \in Tx : u # t /\ Rotated(u)' /\ Rotated(t)' => job[u].version # job[t].version
    BY <1>5, <2>1, <2>2, <2>3
  <2> QED BY <1>1, <1>3, <2>1, <2>4 DEF OneRotationPerVersion
<1>8. TrailMatchesVersions'
  <2> SUFFICES ASSUME NEW v \in Version
               PROVE  /\ v > 1 => Cardinality({a \in audit' : a.action = "rotate" /\ a.version = v})
                                    = IF v \in Stored' THEN 1 ELSE 0
                      /\ envelope'[v] = "retired"
                           <=> \E a \in audit' : a.action = "retire" /\ a.version = v
    BY DEF TrailMatchesVersions
  <2>1. envelope[v] = "retired" <=> \E a \in audit : a.action = "retire" /\ a.version = v
    BY <1>1 DEF TrailMatchesVersions
  <2>2. CASE job[t].kind = "rotate" /\ v = latest[t] + 1
    <3>1. {a \in audit' : a.action = "rotate" /\ a.version = v} = {e}
      BY <1>1, <1>2, <1>5, <2>2 DEF RotationsDone
    <3>2. Cardinality({e}) = 1
      BY FS_Singleton
    <3>3. envelope'[v] = "active" /\ envelope[v] # "retired"
      BY <1>1, <1>5, <2>2, Committing DEF Committed, Stored
    <3>4. (\E a \in audit' : a.action = "retire" /\ a.version = v)
            <=> \E a \in audit : a.action = "retire" /\ a.version = v
      BY <1>2, <2>2
    <3> QED BY <1>5, <2>1, <2>2, <3>1, <3>2, <3>3, <3>4
  <2>3. CASE ~(job[t].kind = "rotate" /\ v = latest[t] + 1)
    <3>1. {a \in audit' : a.action = "rotate" /\ a.version = v}
            = {a \in audit : a.action = "rotate" /\ a.version = v}
      BY <1>2, <2>3
    <3>2. v > 1 => (v \in Stored' <=> v \in Stored)
      <4> SUFFICES ASSUME v > 1 PROVE v \in Stored' <=> v \in Stored
        OBVIOUS
      <4>1. ~(Made(t) /\ v = latest[t] + 1)
        BY <2>3, Committing
      <4>2. Retires(t) => v \in Stored \/ v # job[t].version
        BY <1>1 DEF Knows, VersionKept, Retires, Stored
      <4> QED BY <4>1, <4>2 DEF Committed, Stored
    <3>3. CASE job[t].kind = "retire" /\ v = job[t].version
      <4>1. envelope[v] \in {"active", "retired"} /\ ~Made(t)
        BY <1>1, <3>3, Committing DEF Knows, VersionKept
      <4>2. envelope[v] = "active" => Retires(t)
        BY <3>3, Committing DEF Retires, Ending
      <4>3. envelope'[v] = "retired"
        BY <3>3, <4>1, <4>2 DEF Committed
      <4>4. \E a \in audit' : a.action = "retire" /\ a.version = v
        BY <1>2, <3>3
      <4> QED BY <1>1, <3>1, <3>2, <4>3, <4>4 DEF TrailMatchesVersions
    <3>4. CASE ~(job[t].kind = "retire" /\ v = job[t].version)
      <4>1. ~(Retires(t) /\ v = job[t].version)
        BY <3>4 DEF Retires, Retiring
      <4>2. Made(t) /\ v = latest[t] + 1 => envelope[v] = "absent"
        BY <1>1 DEF Knows, VersionKept
      <4>3. envelope'[v] = "retired" <=> envelope[v] = "retired"
        BY <4>1, <4>2 DEF Committed
      <4>4. (\E a \in audit' : a.action = "retire" /\ a.version = v)
              <=> \E a \in audit : a.action = "retire" /\ a.version = v
        BY <1>2, <3>4
      <4> QED BY <1>1, <2>1, <3>1, <3>2, <4>3, <4>4 DEF TrailMatchesVersions
    <3> QED BY <3>3, <3>4
  <2> QED BY <2>2, <2>3
<1> QED BY <1>6, <1>7, <1>8 DEF Recorded

LEMMA CommitKeeps ==
  ASSUME IInv, NEW t \in Tx, Commit(t)
  PROVE  IInv'
<1>1. pc[t] = "commit" /\ Committed(t) /\ LocksExclude' /\ TypeOK'
  BY CommitDoes DEF Commit
<1>2. OneCreator'
  BY <1>1 DEF IInv, OneCreator, Committed
<1>3. \A u \in Tx : (Knows(u) /\ Reported(u))'
  BY <1>1, CommitSparesOthers, CommitterKnows
<1>4. (VersionsCounted /\ NoRetiredReference /\ Recorded)'
  BY <1>1, CommitCounts, CommitKeepsReferences, CommitRecords
<1> QED BY <1>1, <1>2, <1>3, <1>4 DEF IInv

-----------------------------------------------------------------------------
(* The invariant and the theorems.                                         *)

LEMMA InitHolds == Init => IInv
<1> SUFFICES ASSUME Init PROVE IInv
  OBVIOUS
<1>1. PICK first \in {"absent", "active"} :
        /\ envelope = [v \in Version |-> IF v = 1 THEN first ELSE "absent"]
        /\ connection \in [Conn -> [version : IF first = "active" THEN {NoRow, 1} ELSE {NoRow},
                                    revision : {0}]]
  BY DEF Init
<1>2. 1 \in Version /\ MaxVersion \in Nat
  BY EnoughVersions, FS_CardinalityType DEF Version
<1>3. connection \in [Conn -> Row] /\ \A c \in Conn : Exists(c) =>
        connection[c].version = 1 /\ first = "active"
  <2>1. CASE first = "active"
    <3>1. connection \in [Conn -> [version : {0, 1}, revision : {0}]]
      BY <1>1, <2>1 DEF NoRow
    <3>2. {0, 1} \subseteq 0..MaxVersion
      BY <1>2 DEF Version
    <3> QED BY <2>1, <3>1, <3>2 DEF Row, NoRow, Exists
  <2>2. CASE first = "absent"
    <3>1. connection \in [Conn -> [version : {0}, revision : {0}]]
      BY <1>1, <2>2 DEF NoRow
    <3>2. {0} \subseteq 0..MaxVersion
      BY <1>2
    <3> QED BY <3>1, <3>2 DEF Row, NoRow, Exists
  <2> QED BY <2>1, <2>2
<1>4. NoWrites \in [envelope : [Version -> {"absent", "active", "retired"}],
                    connection : [Conn -> Row]]
  BY EnoughVersions DEF NoWrites, Row, NoRow
<1>5. TypeOK
  BY <1>1, <1>2, <1>3, <1>4 DEF Init, TypeOK, Answers
<1>6. LocksExclude /\ OneCreator
  BY DEF Init, LocksExclude, OneCreator, NoJob
<1>7. VersionsCounted
  <2>1. Ended = {}
    BY DEF Init, Ended
  <2>2. Cardinality({}) = 0
    BY FS_EmptySet
  <2>3. \A v \in Stored : v = 1
    BY <1>1 DEF Stored
  <2> QED BY <2>1, <2>2, <2>3 DEF VersionsCounted
<1>8. NoRetiredReference
  BY <1>1, <1>2, <1>3 DEF NoRetiredReference
<1>9. Recorded
  <2>1. RotationsDone /\ OneRotationPerVersion
    BY DEF Init, RotationsDone, OneRotationPerVersion, Rotated
  <2>2. \A v : {a \in audit : a.action = "rotate" /\ a.version = v} = {}
    BY DEF Init
  <2>3. Cardinality({}) = 0
    BY FS_EmptySet
  <2>4. \A v \in Version : (v > 1 => v \notin Stored) /\ envelope[v] # "retired"
    BY <1>1 DEF Stored
  <2>5. audit = {}
    BY DEF Init
  <2>6. TrailMatchesVersions
    BY <2>2, <2>3, <2>4, <2>5 DEF TrailMatchesVersions
  <2> QED BY <2>1, <2>6 DEF Recorded
<1>10. ASSUME NEW t \in Tx PROVE Knows(t) /\ Reported(t)
  <2>1. /\ pc[t] = "idle" /\ job[t] = NoJob /\ latest[t] = 0 /\ toLock[t] = {}
        /\ writes[t] = NoWrites /\ audit = {} /\ result[t] = "pending"
    BY DEF Init
  <2>2. StepsFit(t) /\ VersionLocked(t) /\ VersionKept(t) /\ ~Made(t) /\ ~Retires(t)
    BY <2>1 DEF StepsFit, VersionLocked, VersionKept, Made, Retires, Rotating, Sealing,
       Retiring, Referring, NoJob
  <2>3. EnvelopeWritten(t) /\ ConnectionsWritten(t)
    BY <2>1, <2>2 DEF EnvelopeWritten, ConnectionsWritten, Written, NoWrites
  <2>4. ConnectionsFit(t) /\ ReferencesCounted(t) /\ Reported(t)
    BY <2>1, <2>2 DEF ConnectionsFit, ReferencesCounted, Referring, Reported, NoJob
  <2> QED BY <2>2, <2>3, <2>4 DEF Knows
<1> QED BY <1>5, <1>6, <1>7, <1>8, <1>9, <1>10 DEF IInv

LEMMA StutterKeeps ==
  ASSUME IInv, UNCHANGED vars
  PROVE  IInv'
<1>1. /\ envelope' = envelope /\ connection' = connection /\ audit' = audit /\ alarm' = alarm
      /\ wraps' = wraps /\ job' = job /\ pc' = pc /\ latest' = latest /\ toLock' = toLock
      /\ writes' = writes /\ envelopeLock' = envelopeLock
      /\ connectionLock' = connectionLock /\ result' = result
  BY DEF vars, database, locks
<1>2. TypeOK' /\ LocksExclude' /\ OneCreator' /\ NoRetiredReference'
  BY <1>1 DEF IInv, TypeOK, LocksExclude, OneCreator, NoRetiredReference, Exists
<1>3. VersionsCounted' /\ Recorded'
  BY <1>1 DEF IInv, VersionsCounted, Recorded, RotationsDone, OneRotationPerVersion,
     Rotated,
     TrailMatchesVersions, Stored, Ended
<1>4. \A t \in Tx : (Knows(t) /\ Reported(t))'
  <2> SUFFICES ASSUME NEW t \in Tx PROVE (Knows(t) /\ Reported(t))'
    OBVIOUS
  <2>1. Knows(t) /\ Reported(t)
    BY DEF IInv
  <2>2. (StepsFit(t) /\ VersionLocked(t) /\ VersionKept(t))'
    BY <1>1, <2>1 DEF Knows, StepsFit, VersionLocked, VersionKept, Made, Rotating,
       Sealing,
       Retiring, Referring, Ending, Stored
  <2>3. (EnvelopeWritten(t) /\ ConnectionsWritten(t))'
    BY <1>1, <2>1 DEF Knows, EnvelopeWritten, ConnectionsWritten, Written, Exists, Made,
       Retires, Rotating, Sealing, Retiring, Referring, Ending
  <2>4. (ConnectionsFit(t) /\ ReferencesCounted(t) /\ Reported(t))'
    BY <1>1, <2>1 DEF Knows, ConnectionsFit, ReferencesCounted, Reported, Exists, Retires,
       Retiring, Referring, Ending
  <2> QED BY <2>2, <2>3, <2>4 DEF Knows
<1> QED BY <1>2, <1>3, <1>4 DEF IInv

LEMMA NextKeeps == IInv /\ [Next]_vars => IInv'
<1> SUFFICES ASSUME IInv, [Next]_vars PROVE IInv'
  OBVIOUS
<1>1. CASE UNCHANGED vars
  BY <1>1, StutterKeeps
<1>2. ASSUME NEW t \in Tx, Step(t) PROVE IInv'
  <2>1. ASSUME NEW j \in Jobs, Begin(t, j) PROVE IInv'
    BY <2>1, BeginKeeps
  <2>2. ASSUME NEW c \in Conn, MoveConnection(t, c) PROVE IInv'
    BY <2>2, MoveConnectionKeeps
  <2>3. ASSUME NEW c \in Conn, LockReference(t, c) PROVE IInv'
    BY <2>3, LockReferenceKeeps
  <2> QED BY <1>2, <2>1, <2>2, <2>3, PickLatestKeeps, LockLatestKeeps, ReportRefusalKeeps,
     InsertVersionKeeps, FindConnectionsKeeps, AllMovedKeeps, LockVersionKeeps,
     FindReferencesKeeps, SetRetiredKeeps, LockActiveKeeps, WriteConnectionKeeps, AppendKeeps,
     CommitKeeps, FailKeeps DEF Step
<1> QED BY <1>1, <1>2 DEF Next

LEMMA Invariance == Spec => []IInv
<1>1. Init => IInv
  BY InitHolds
<1>2. IInv /\ [Next]_vars => IInv'
  BY NextKeeps
<1> QED BY <1>1, <1>2, PTL DEF Spec

\* The tables, the locks and the requests keep their types: in particular the
\* versions stay below the bound, and no wrap is made beyond the limit of
\* ReserveWrap.
THEOREM TypeCorrect == Spec => []TypeOK
<1>1. IInv => TypeOK
  BY DEF IInv
<1> QED BY <1>1, Invariance, PTL

\* No connection ever references a retired version: the count that Retire made
\* is still right when it commits, whatever Create, Update and Rotate do
\* meanwhile.
THEOREM NoReferenceIsRetired == Spec => []NoRetiredReference
<1>1. IInv => NoRetiredReference
  BY DEF IInv
<1> QED BY <1>1, Invariance, PTL

\* A version is rotated away by at most one committed rotation.
THEOREM VersionsRotateOnce == Spec => []OneRotationPerVersion
<1>1. IInv => OneRotationPerVersion
  BY DEF IInv, Recorded
<1> QED BY <1>1, Invariance, PTL

\* The trail has one event for each version that was made or retired, and an
\* event or an alarm for every refused rotation.
THEOREM TrailsAreComplete == Spec => []TrailIsComplete
<1>1. IInv => TrailIsComplete
  BY DEF IInv, Recorded, TrailIsComplete, RefusalsAreReported, Reported
<1> QED BY <1>1, Invariance, PTL

\* The revision that the pool manager compares grows with every committed
\* change of a connection.
THEOREM RevisionsGrow == Spec => RevisionGrows
<1> DEFINE Grows == \A c \in Conn : Exists(c) /\ connection'[c] # connection[c] =>
                      connection'[c].revision > connection[c].revision
<1>1. ASSUME IInv, NEW t \in Tx, Commit(t) PROVE Grows
  <2>1. Committed(t) /\ Knows(t)
    BY <1>1, CommitDoes DEF IInv
  <2> QED BY <2>1 DEF Committed, Knows, ConnectionsWritten
<1>2. ASSUME NEW t \in Tx, Step(t), ~Commit(t) PROVE connection' = connection
  <2>1. \A j \in Jobs : Begin(t, j) => connection' = connection
    BY DEF Begin, database
  <2>2. \A c \in Conn : MoveConnection(t, c) \/ LockReference(t, c) => connection' = connection
    BY DEF MoveConnection, LockReference, database
  <2>3. PickLatest(t) \/ LockLatest(t) \/ ReportRefusal(t) => connection' = connection
    BY DEF PickLatest, LockLatest, ReportRefusal, database
  <2>4. InsertVersion(t) \/ FindConnections(t) \/ AllMoved(t) => connection' = connection
    BY DEF InsertVersion, FindConnections, AllMoved, Abandon, database
  <2>5. LockVersion(t) \/ FindReferences(t) \/ SetRetired(t) => connection' = connection
    BY DEF LockVersion, FindReferences, SetRetired, Abandon, database
  <2>6. LockActive(t) \/ WriteConnection(t) \/ Append(t) \/ Fail(t) => connection' = connection
    BY DEF LockActive, WriteConnection, Append, Fail, Abandon, database
  <2> QED BY <1>2, <2>1, <2>2, <2>3, <2>4, <2>5, <2>6 DEF Step
<1>3. IInv /\ [Next]_vars => [Grows]_connection
  BY <1>1, <1>2 DEF Next, vars, database
<1> QED BY <1>3, Invariance, PTL DEF Spec, RevisionGrows
=============================================================================
