------------------------- MODULE CredentialLifecycle -------------------------
(***************************************************************************)
(* The transactions that move one credential (one workspace_id, secret_ref *)
(* pair) and the connections that reference it:                            *)
(*                                                                         *)
(*   credentials/lifecycle.go      Create, Rotate, Retire and their audit  *)
(*   connections/service.go        Create and Update of a connection       *)
(*   metadata/atomic_tx.go         AppendAudit, the gate in Commit         *)
(*   metadata/postgres_credential_repo.go   the statements and their locks *)
(*   credentials/kek.go            ReserveWrap                             *)
(*                                                                         *)
(* Every operation is one PostgreSQL transaction at READ COMMITTED: each   *)
(* statement reads the rows committed when it starts, waits for the row    *)
(* locks of other transactions, and looks at a row again once it holds it. *)
(* What a transaction writes is seen by the others when it commits.  One   *)
(* action is one statement, or the locking of one row of a statement that  *)
(* locks several.                                                          *)
(***************************************************************************)
EXTENDS Integers, FiniteSetsExt

CONSTANTS
  Tx,           \* requests, each with its transaction
  Conn,         \* connections of the workspace
  MaxVersion,   \* bound: versions of the credential
  MaxClock,     \* bound: readings of clock_timestamp()
  WrapLimit,    \* maxWrapsPerKEK
  Faulty        \* requests whose statements, commit or deadline may fail

\* One rotation per request, so the bound on versions is never met.
ASSUME EnoughVersions ==
  MaxVersion \in Nat /\ IsFiniteSet(Tx) /\ Cardinality(Tx) < MaxVersion

ASSUME BoundsNatural == MaxClock \in Nat /\ WrapLimit \in Nat

ASSUME FaultyAreRequests == Faulty \subseteq Tx

Version == 1..MaxVersion
NoRow == 0                    \* the connection has no row yet

VARIABLES
  envelope,     \* credential_envelopes: version -> absent, active or retired
  connection,   \* connections: id -> [secret_version, updated_at]
  audit,        \* audit_events of this credential
  alarm,        \* requests that raised $SECURITY_ALERT
  wraps,        \* ReserveWrap's counter of the active KEK
  job,          \* what each request asks for
  pc,           \* the next statement of each request
  latest,       \* the version LockEnvelopeForUpdate picked
  toLock,       \* the rows a statement still has to lock
  writes,       \* what each transaction has written and not committed
  envelopeLock, connectionLock,   \* <<transaction, row, mode>>
  result        \* what the caller got

database == <<envelope, connection, audit>>
locks == <<envelopeLock, connectionLock>>
vars == <<database, alarm, wraps, job, pc, latest, toLock, writes, locks, result>>

\* A row that is "absent" or NoRow among the writes of a transaction is one that
\* it has not written.
NoWrites == [envelope |-> [v \in Version |-> "absent"],
             connection |-> [c \in Conn |-> [version |-> NoRow, revision |-> 0]]]
NoJob == [kind |-> "none", version |-> 0, connection |-> "none"]

\* "seal" is LifecycleManager.Create, "create" and "update" are the
\* operations on a connection.
Jobs ==
  [kind : {"seal"}, version : {1}, connection : {"none"}]
    \cup [kind : {"rotate", "retire"}, version : 1..(MaxVersion - 1), connection : {"none"}]
    \cup [kind : {"create", "update"}, version : 1..(MaxVersion - 1), connection : Conn]

Row == [version : 0..MaxVersion, revision : Nat]

\* The credential is not there yet, or was created earlier with some of the
\* connections.
Init ==
  /\ \E first \in {"absent", "active"} :
       /\ envelope = [v \in Version |-> IF v = 1 THEN first ELSE "absent"]
       /\ connection \in [Conn -> [version : IF first = "active" THEN {NoRow, 1} ELSE {NoRow},
                                  revision : {0}]]
  /\ audit = {}
  /\ alarm = {}
  /\ wraps \in 0..WrapLimit
  /\ job = [t \in Tx |-> NoJob]
  /\ pc = [t \in Tx |-> "idle"]
  /\ latest = [t \in Tx |-> 0]
  /\ toLock = [t \in Tx |-> {}]
  /\ writes = [t \in Tx |-> NoWrites]
  /\ envelopeLock = {}
  /\ connectionLock = {}
  /\ result = [t \in Tx |-> "pending"]

-----------------------------------------------------------------------------
(* Row locks, and how a transaction ends.                                  *)

\* FOR UPDATE and a row's UPDATE exclude everything; FOR SHARE and FOR KEY
\* SHARE exclude only them.
Free(held, t, row, mode) ==
  \A l \in held : l[2] = row /\ l[1] # t =>
    mode = "shared" /\ l[3] = "shared"

Exists(c) == connection[c].version # NoRow

Stored == {v \in Version : envelope[v] # "absent"}

Goto(t, step) == pc' = [pc EXCEPT ![t] = step]

\* The end of a transaction, by its Commit or by its deferred Rollback: the
\* row locks go with it.
EndTx(t) ==
  /\ envelopeLock' = {l \in envelopeLock : l[1] # t}
  /\ connectionLock' = {l \in connectionLock : l[1] # t}
  /\ writes' = [writes EXCEPT ![t] = NoWrites]
  /\ toLock' = [toLock EXCEPT ![t] = {}]

Answer(t, answer) ==
  /\ result' = [result EXCEPT ![t] = answer]
  /\ Goto(t, "done")

\* An early return inside the transaction.
Abandon(t, answer) ==
  /\ EndTx(t)
  /\ Answer(t, answer)
  /\ UNCHANGED <<database, alarm, wraps, job, latest>>

\* An audit event, with the version the operation is about.
Event(t, action) ==
  [by |-> t, action |-> action,
   version |-> IF action = "rotate" THEN latest[t] + 1 ELSE job[t].version]

\* The operations begin.  A credential and a connection are created under a
\* fresh identifier.
Begin(t, j) ==
  /\ pc[t] = "idle"
  /\ j.kind = "seal" => Stored = {} /\ \A u \in Tx : job[u].kind # "seal"
  /\ j.kind = "create" =>
       /\ ~Exists(j.connection)
       /\ \A u \in Tx : job[u].kind = "create" => job[u].connection # j.connection
  /\ job' = [job EXCEPT ![t] = j]
  /\ Goto(t, CASE j.kind = "seal" -> "insert"
               [] j.kind = "rotate" -> "pick"
               [] OTHER -> "lock")
  /\ UNCHANGED <<database, alarm, wraps, latest, toLock, writes, locks, result>>

-----------------------------------------------------------------------------
(* Rotate.                                                                 *)

\* The lock is released before the E5 event is written, outside the
\* transaction.
Refuse(t, answer) ==
  /\ EndTx(t)
  /\ Goto(t, "report")
  /\ result' = [result EXCEPT ![t] = answer]

\* SELECT ... ORDER BY version DESC LIMIT 1 FOR UPDATE: the row is chosen
\* among the versions committed now, and locked when it becomes free.
PickLatest(t) ==
  /\ pc[t] = "pick"
  /\ \/ /\ Stored = {}
        /\ Refuse(t, "credential_not_found")
        /\ UNCHANGED latest
     \/ /\ Stored # {}
        /\ latest' = [latest EXCEPT ![t] = Max(Stored)]
        /\ Goto(t, "lock")
        /\ UNCHANGED <<toLock, writes, locks, result>>
  /\ UNCHANGED <<database, alarm, wraps, job>>

\* Mutation of IsExpected: expected_version is not compared.
IsExpectedUnchecked(t) == TRUE

IsExpected(t) == latest[t] = job[t].version

LockLatest(t) ==
  /\ pc[t] = "lock" /\ job[t].kind = "rotate"
  /\ Free(envelopeLock, t, latest[t], "exclusive")
  /\ CASE ~IsExpected(t) -> Refuse(t, "version_conflict")
       [] IsExpected(t) /\ envelope[latest[t]] = "retired" ->
            Refuse(t, "credential_retired")
       [] OTHER ->
            /\ envelopeLock' = envelopeLock \cup {<<t, latest[t], "exclusive">>}
            /\ Goto(t, "insert")
            /\ UNCHANGED <<connectionLock, toLock, writes, result>>
  /\ UNCHANGED <<database, alarm, wraps, job, latest>>

\* writeRotateFailedAudit: E5, or audit_failed and an alarm.
ReportRefusal(t) ==
  /\ pc[t] = "report"
  /\ \/ /\ audit' = audit \cup {Event(t, "rotate_failed")}
        /\ UNCHANGED <<alarm, result>>
     \/ /\ t \in Faulty
        /\ alarm' = alarm \cup {t}
        /\ result' = [result EXCEPT ![t] = "audit_failed"]
        /\ UNCHANGED audit
  /\ Goto(t, "done")
  /\ UNCHANGED <<envelope, connection, wraps, job, latest, toLock, writes, locks>>

\* Mutation of QuotaLeft: one wrap too many.
QuotaLeftInclusive == wraps <= WrapLimit

QuotaLeft == wraps < WrapLimit

\* ReserveWrap, which a later failure does not give back, then InsertEnvelope,
\* which the unique constraint on (workspace_id, secret_ref, version) refuses
\* when the version exists.  The first version is inserted the same way.
InsertVersion(t) ==
  /\ pc[t] = "insert"
  /\ \/ /\ ~QuotaLeft
        /\ Abandon(t, "wrap_quota_exhausted")
     \/ /\ QuotaLeft
        /\ wraps' = wraps + 1
        /\ IF envelope[latest[t] + 1] # "absent"
           THEN EndTx(t) /\ Answer(t, "internal_error")
           ELSE /\ writes' = [writes EXCEPT ![t].envelope[latest[t] + 1] = "active"]
                /\ Goto(t, IF job[t].kind = "seal" THEN "append" ELSE "move")
                /\ UNCHANGED <<toLock, locks, result>>
        /\ UNCHANGED <<database, alarm, job, latest>>

\* UpdateConnectionVersion begins: the rows that reference the credential.
FindConnections(t) ==
  /\ pc[t] = "move"
  /\ toLock' = [toLock EXCEPT ![t] = {c \in Conn : Exists(c)}]
  /\ Goto(t, "moving")
  /\ UNCHANGED <<database, alarm, wraps, job, latest, writes, locks, result>>

\* Mutation of Stamps: updated_at is the clock.
StampsOfClock(c) == 0..MaxClock

\* GREATEST(clock_timestamp(), updated_at + interval '1 microsecond'); the
\* clock may stand still or go back.
Stamps(c) == {IF now > connection[c].revision THEN now ELSE connection[c].revision + 1
                : now \in 0..MaxClock}

Write(t, c, version, stamps) ==
  \E at \in stamps :
    writes' = [writes EXCEPT ![t].connection[c] = [version |-> version, revision |-> at]]

MoveConnection(t, c) ==
  /\ pc[t] = "moving"
  /\ c \in toLock[t]
  /\ Free(connectionLock, t, c, "exclusive")
  /\ connectionLock' = connectionLock \cup {<<t, c, "exclusive">>}
  /\ toLock' = [toLock EXCEPT ![t] = @ \ {c}]
  /\ Write(t, c, latest[t] + 1, Stamps(c))
  /\ UNCHANGED <<database, alarm, wraps, job, pc, latest, envelopeLock, result>>

AllMoved(t) ==
  /\ pc[t] = "moving" /\ toLock[t] = {}
  /\ Goto(t, "append")
  /\ UNCHANGED <<database, alarm, wraps, job, latest, toLock, writes, locks, result>>

-----------------------------------------------------------------------------
(* Retire.                                                                 *)

\* LockEnvelopeVersion.  A version that is retired already is retired again.
LockVersion(t) ==
  /\ pc[t] = "lock" /\ job[t].kind = "retire"
  /\ LET v == job[t].version IN
     \/ /\ envelope[v] = "absent"
        /\ Abandon(t, "credential_not_found")
     \/ /\ envelope[v] # "absent"
        /\ Free(envelopeLock, t, v, "exclusive")
        /\ envelopeLock' = envelopeLock \cup {<<t, v, "exclusive">>}
        /\ Goto(t, IF envelope[v] = "retired" THEN "append" ELSE "count")
        /\ UNCHANGED <<database, alarm, wraps, job, latest, toLock, writes,
                       connectionLock, result>>

\* CountConnectionsByVersion begins.
FindReferences(t) ==
  /\ pc[t] = "count"
  /\ toLock' = [toLock EXCEPT ![t] = {c \in Conn : connection[c].version = job[t].version}]
  /\ Goto(t, "counting")
  /\ UNCHANGED <<database, alarm, wraps, job, latest, writes, locks, result>>

LockReference(t, c) ==
  /\ pc[t] = "counting"
  /\ c \in toLock[t]
  /\ Free(connectionLock, t, c, "shared")
  /\ connectionLock' = connectionLock \cup {<<t, c, "shared">>}
  /\ toLock' = [toLock EXCEPT ![t] = @ \ {c}]
  /\ UNCHANGED <<database, alarm, wraps, job, pc, latest, writes, envelopeLock, result>>

\* The rows that still reference the version once they are locked.
References(t) == {l \in connectionLock : l[1] = t /\ connection[l[2]].version = job[t].version}

SetRetired(t) ==
  /\ pc[t] = "counting" /\ toLock[t] = {}
  /\ \/ /\ References(t) # {}
        /\ Abandon(t, "credential_in_use")
     \/ /\ References(t) = {}
        /\ writes' = [writes EXCEPT ![t].envelope[job[t].version] = "retired"]
        /\ Goto(t, "append")
        /\ UNCHANGED <<database, alarm, wraps, job, latest, toLock, locks, result>>

-----------------------------------------------------------------------------
(* Create and Update of a connection.                                      *)

\* Mutation of IsActive: retired_at is not looked at.
IsActiveOrRetired(v) == envelope[v] # "absent"

IsActive(v) == envelope[v] = "active"

\* The version is locked FOR KEY SHARE, and tested again once it is.  A
\* version or a connection that is missing is an internal failure here.
LockActive(t) ==
  /\ pc[t] = "lock" /\ job[t].kind \in {"create", "update"}
  /\ LET v == job[t].version IN
     \/ /\ \/ ~IsActive(v) /\ Free(envelopeLock, t, v, "shared")
           \/ job[t].kind = "update" /\ ~Exists(job[t].connection)
        /\ Abandon(t, "internal_error")
     \/ /\ IsActive(v)
        /\ job[t].kind = "update" => Exists(job[t].connection)
        /\ Free(envelopeLock, t, v, "shared")
        /\ envelopeLock' = envelopeLock \cup {<<t, v, "shared">>}
        /\ Goto(t, "write")
        /\ UNCHANGED <<database, alarm, wraps, job, latest, toLock, writes,
                       connectionLock, result>>

\* A new row is seen by nobody until the commit; an existing one is locked.
WriteConnection(t) ==
  /\ pc[t] = "write"
  /\ LET c == job[t].connection IN
     /\ Free(connectionLock, t, c, "exclusive")
     /\ connectionLock' = connectionLock \cup {<<t, c, "exclusive">>}
     /\ Write(t, c, job[t].version,
              IF job[t].kind = "create" THEN 0..MaxClock ELSE Stamps(c))
  /\ Goto(t, "append")
  /\ UNCHANGED <<database, alarm, wraps, job, latest, toLock, envelopeLock, result>>

-----------------------------------------------------------------------------
(* The event and the commit of all four.                                   *)

\* AppendAudit: a failure rolls back, alarms and answers audit_failed.
Append(t) ==
  /\ pc[t] = "append"
  /\ \/ /\ Goto(t, "commit")
        /\ UNCHANGED <<database, alarm, wraps, job, latest, toLock, writes, locks, result>>
     \/ /\ t \in Faulty
        /\ alarm' = alarm \cup {t}
        /\ EndTx(t)
        /\ Answer(t, "audit_failed")
        /\ UNCHANGED <<database, wraps, job, latest>>

\* The tables as the transaction leaves them.
PublishTables(t) ==
  /\ envelope' = [v \in Version |-> IF writes[t].envelope[v] = "absent" THEN envelope[v]
                                    ELSE writes[t].envelope[v]]
  /\ connection' = [c \in Conn |-> IF writes[t].connection[c].version = NoRow
                                   THEN connection[c] ELSE writes[t].connection[c]]

\* Mutation of Publish: the mutation is committed and the event is not.
PublishUnaudited(t) == PublishTables(t) /\ UNCHANGED audit

Publish(t) ==
  /\ PublishTables(t)
  /\ audit' = audit \cup {Event(t, job[t].kind)}

\* The answer of a commit can be lost; the caller then gets an error for a
\* change that was made.
Commit(t) ==
  /\ pc[t] = "commit"
  /\ Publish(t)
  /\ EndTx(t)
  /\ \/ Answer(t, "ok")
     \/ t \in Faulty /\ Answer(t, "internal_error")
  /\ UNCHANGED <<alarm, wraps, job, latest>>

\* A statement or the commit fails: the database, the deadline of
\* atomicTxTimeout, the caller's disconnection, a deadlock PostgreSQL broke.
Fail(t) ==
  /\ t \in Faulty
  /\ pc[t] \notin {"idle", "report", "append", "done"}
  /\ Abandon(t, "internal_error")

Step(t) ==
  \/ \E j \in Jobs : Begin(t, j)
  \/ PickLatest(t) \/ LockLatest(t) \/ ReportRefusal(t) \/ InsertVersion(t)
  \/ FindConnections(t) \/ AllMoved(t)
  \/ \E c \in Conn : MoveConnection(t, c) \/ LockReference(t, c)
  \/ LockVersion(t) \/ FindReferences(t) \/ SetRetired(t)
  \/ LockActive(t) \/ WriteConnection(t)
  \/ Append(t) \/ Commit(t) \/ Fail(t)

Next == \E t \in Tx : Step(t)

Spec == Init /\ [][Next]_vars

-----------------------------------------------------------------------------
(* Properties.                                                             *)

Action == {"seal", "rotate", "retire", "create", "update", "rotate_failed"}
Answers == {"pending", "ok", "version_conflict", "credential_retired", "credential_in_use",
            "credential_not_found", "wrap_quota_exhausted", "audit_failed", "internal_error"}
Lock(Rows) == Tx \X Rows \X {"shared", "exclusive"}

\* Types of the tables, the locks and the transactions.
TypeOK ==
  /\ envelope \in [Version -> {"absent", "active", "retired"}]
  /\ connection \in [Conn -> Row]
  /\ audit \subseteq [by : Tx, action : Action, version : 1..MaxVersion]
  /\ alarm \subseteq Tx
  /\ wraps \in 0..WrapLimit
  /\ job \in [Tx -> Jobs \cup {NoJob}]
  /\ writes \in [Tx -> [envelope : [Version -> {"absent", "active", "retired"}],
                        connection : [Conn -> Row]]]
  /\ pc \in [Tx -> {"idle", "pick", "lock", "report", "insert", "move", "moving", "count",
                    "counting", "write", "append", "commit", "done"}]
  /\ latest \in [Tx -> 0..MaxVersion]
  /\ toLock \in [Tx -> SUBSET Conn]
  /\ envelopeLock \subseteq Lock(Version)
  /\ connectionLock \subseteq Lock(Conn)
  /\ result \in [Tx -> Answers]

\* No connection references a retired version, whatever order Retire's count,
\* the creation or update of a connection and Rotate's rewriting take: the
\* reference check that found nothing stays true until Retire commits.
NoRetiredReference ==
  \A c \in Conn : Exists(c) => envelope[connection[c].version] = "active"

\* A version is rotated away at most once: two rotations that expected the
\* same version never both commit, even when the second waited on the row
\* the first one held, and even when the answer of the first was lost.
Rotated(t) == \E a \in audit : a.by = t /\ a.action = "rotate"
OneRotationPerVersion ==
  \A t, u \in Tx :
    Rotated(t) /\ Rotated(u) /\ job[t].version = job[u].version => t = u

\* The audit trail and the table of versions tell the same story: a version
\* after the first exists exactly when one committed rotation made it, and is
\* retired exactly when a retirement was recorded.
TrailMatchesVersions ==
  \A v \in Version :
    /\ v > 1 => Cardinality({a \in audit : a.action = "rotate" /\ a.version = v})
                  = IF v \in Stored THEN 1 ELSE 0
    /\ envelope[v] = "retired"
         <=> \E a \in audit : a.action = "retire" /\ a.version = v

\* A refused rotation leaves its E5 event or an alarm, and a request that was
\* told audit_failed changed nothing and raised the alarm.
RefusalsAreReported ==
  \A t \in Tx : pc[t] = "done" =>
    /\ result[t] \in {"version_conflict", "credential_retired",
                         "credential_not_found"} /\ job[t].kind = "rotate" =>
         \E a \in audit : a.by = t /\ a.action = "rotate_failed"
    /\ result[t] = "audit_failed" =>
         t \in alarm /\ ~\E a \in audit : a.by = t

\* The trail can be relied on: it has every version, and every refusal or alarm.
TrailIsComplete == TrailMatchesVersions /\ RefusalsAreReported

\* updated_at, which the pool manager takes as the revision of the connection's
\* configuration, grows with every committed change of a connection, whichever
\* of two overlapping transactions commits first and whatever the clock says.
RevisionGrows ==
  [][\A c \in Conn : Exists(c) /\ connection'[c] # connection[c] =>
       connection'[c].revision > connection[c].revision]_connection

\* "Exactly one succeeds, the other gets version_conflict, its
\* expected_version not matching": checked without any fault, so that a
\* rotation has no other reason to fail.
RotateLoserIsConflict ==
  \A t \in Tx : job[t].kind = "rotate" => result[t] # "internal_error"
=============================================================================
