--------------------------- MODULE TargetSession ---------------------------
(***************************************************************************)
(* PoolHandle.Query, NextPage, Schemas, Tables and Columns on one pool     *)
(* (adapter/manager.go, adapter/readonly.go): the permit, the session of   *)
(* the target database a call borrows, the read-only transaction around    *)
(* its query, and the way back.  LoadTableMetadata, ResolveQualifiedTable  *)
(* and Ping borrow sessions of the same pool, without a permit.            *)
(*                                                                         *)
(* A statement sent to the target, and each deferred call, is a step.  The *)
(* pools of pgx and database/sql and the two database servers are modelled *)
(* from what the code relies on.                                           *)
(***************************************************************************)
EXTENDS Integers, FiniteSets

CONSTANTS
  Query,        \* calls of Query and NextPage, each made once
  Catalog,      \* calls of Schemas, Tables and Columns, each made once
  Lookup,       \* statements of LoadTableMetadata, ResolveQualifiedTable and
                \* Ping, each on a session of its own
  Session,      \* the places of the pool (MaxOpen)
  MaxPermits,   \* what the tightest limiter of the calls' scope allows
  MaxFaults     \* bound: statements that fail, sessions that die and
                \* contexts that end

Call == Query \cup Catalog \cup Lookup

ASSUME CallsDisjoint == Query \cap Catalog = {} /\ (Query \cup Catalog) \cap Lookup = {}
ASSUME PoolFinite == IsFiniteSet(Session) /\ IsFiniteSet(Call)
ASSUME BoundsNatural == MaxPermits \in Nat \ {0} /\ MaxFaults \in Nat

VARIABLES
  engine,    \* "pg" or "mysql", for good
  serving,   \* "open", "draining" or "closed": poolEntry.draining and closed
  permit,    \* the calls that hold a permit
  session,   \* what each place of the pool holds
  holds,     \* the session of each call: a set of at most one
  pc,
  reply,     \* the answer of each query; those of the others are left out
  over,      \* how the context of a call ended, "live" while it has not
  ran,       \* the transaction the call's query ran in, "no" before it runs
  ended,     \* the rollback of the call's transaction was confirmed
  harmed,    \* a transaction of somebody else was ended
  faults

vars == <<engine, serving, permit, session, holds, pc, reply, over, ran, ended,
          harmed, faults>>
cvars == <<permit, holds, pc, reply, ran, ended>>

\* A live session: the transaction the server has open on it ("ro" read-only,
\* "rw" any other) and whether autocommit and sql_mode are what the code wants.
Live == [tx : {"none", "ro", "rw"}, auto : BOOLEAN, mode : BOOLEAN]
Gone == [tx |-> "gone", auto |-> FALSE, mode |-> FALSE]
Fresh(e) == IF e = "pg" THEN {s \in Live : s.tx # "ro" /\ s.auto /\ s.mode}
                        ELSE {s \in Live : s.tx # "ro" /\ (s.auto => s.tx = "none")}

Steps == {"start", "checked", "admitted", "probe", "begin", "verify", "run", "read",
          "list", "end", "undo", "discard", "give", "release", "done"}
Errors == {"pool_closed", "rate_limited", "connection_busy", "query_cancelled",
           "query_timeout", "database_error", "connection_failed",
           "result_too_large", "panic"}

Held == UNION {holds[c] : c \in Call}

Goto(c, step) == pc' = [pc EXCEPT ![c] = step]

\* A call turns back, and a query knows its answer.
Fail(c, step, e) ==
  /\ Goto(c, step)
  /\ reply' = [q \in Query |-> IF q = c THEN e ELSE reply[q]]

\* mapAcquireError and mapExecError of what ended the context; anything else that
\* goes wrong is a database error.
Acquiring == [canceled |-> "query_cancelled", deadline |-> "connection_busy",
              live |-> "database_error"]
Executing == [canceled |-> "query_cancelled", deadline |-> "query_timeout",
              live |-> "database_error"]

Init ==
  /\ engine \in {"pg", "mysql"}
  /\ serving = "open"
  /\ permit = {}
  /\ session = [s \in Session |-> Gone]
  /\ holds = [c \in Call |-> {}]
  /\ pc = [c \in Call |-> "start"]
  /\ reply = [c \in Query |-> "none"]
  /\ over = [c \in Call |-> "live"]
  /\ ran = [c \in Call |-> "no"]
  /\ ended = [c \in Call |-> FALSE]
  /\ harmed = FALSE
  /\ faults = 0

-----------------------------------------------------------------------------
(* A statement on the session of a call.                                   *)

\* The server carries it out and the session is then as `new' says.
Succeeds(c, s, bound, new) ==
  /\ s \in holds[c] /\ session[s] # Gone
  /\ bound => over[c] = "live"
  /\ session' = [session EXCEPT ![s] = new]
  /\ UNCHANGED faults

\* It fails: the session is gone already, or its context is over (the driver
\* closes the connection when that happens on the way), or the server refuses
\* it or the connection breaks.
Fails(c, s, bound) ==
  /\ s \in holds[c]
  /\ session' \in {session, [session EXCEPT ![s] = Gone]}
  /\ \/ (session[s] = Gone \/ (bound /\ over[c] # "live")) /\ UNCHANGED faults
     \/ faults < MaxFaults /\ faults' = faults + 1

-----------------------------------------------------------------------------
(* The calls.                                                              *)

\* PoolHandle.check.  A lookup asks for no permit, and the later statements of
\* one LoadTableMetadata are not checked.
Check(c) ==
  /\ pc[c] = "start"
  /\ \/ /\ serving = "open" \/ c \in Lookup
        /\ Goto(c, IF c \in Lookup THEN "admitted" ELSE "checked")
        /\ UNCHANGED reply
     \/ serving # "open" /\ Fail(c, "done", "pool_closed")
  /\ UNCHANGED <<engine, serving, permit, session, holds, over, ran, ended, harmed,
                 faults>>

\* TryAcquire, in one step (module Admission has its own): its limits count all
\* pools of the user, so it may refuse whatever this one does.
Admit(c) ==
  /\ pc[c] = "checked"
  /\ \/ /\ Cardinality(permit) < MaxPermits
        /\ permit' = permit \cup {c}
        /\ Goto(c, "admitted") /\ UNCHANGED reply
     \/ /\ Fail(c, "done", "rate_limited")
        /\ UNCHANGED permit
     \/ /\ serving # "open"
        /\ Fail(c, "done", "pool_closed")
        /\ UNCHANGED permit
  /\ UNCHANGED <<engine, serving, session, holds, over, ran, ended, harmed, faults>>

\* Where a call goes without a session: a lookup has no permit to release.
Exit(c) == IF c \in Lookup THEN "done" ELSE "release"

\* Mutation of Acquire: a call that gets no session keeps its permit.
AcquireKeepsPermit(c) ==
  /\ pc[c] = "admitted"
  /\ \/ /\ serving # "closed" /\ over[c] = "live"
        /\ \E s \in Session \ Held, new \in Fresh(engine) :
             /\ session[s] = Gone
             /\ holds' = [holds EXCEPT ![c] = {s}]
             /\ session' = [session EXCEPT ![s] = new]
        /\ Goto(c, IF c \in Query THEN "probe" ELSE "list")
        /\ UNCHANGED reply
     \/ /\ over[c] # "live"
        /\ Fail(c, "done", Acquiring[over[c]])
        /\ UNCHANGED <<session, holds>>
  /\ UNCHANGED <<engine, serving, permit, over, ran, ended, harmed, faults>>

\* pgPool.Acquire or sqlDB.Conn within connAcquireTimeout, by themselves or inside
\* pool.Query: an idle session, which may have died unnoticed, or a new one.  None
\* is to be had when the context is over or the pool closed, when all places stay
\* taken for the five seconds, or when connecting fails or takes that long.
Acquire(c) ==
  /\ pc[c] = "admitted"
  /\ \/ /\ serving # "closed" /\ over[c] = "live"
        /\ \E s \in Session \ Held :
             /\ holds' = [holds EXCEPT ![c] = {s}]
             /\ IF session[s] = Gone
                THEN \E new \in Fresh(engine) : session' = [session EXCEPT ![s] = new]
                ELSE UNCHANGED session
        /\ Goto(c, IF c \in Query THEN "probe" ELSE "list")
        /\ UNCHANGED <<reply, faults>>
     \/ /\ \/ /\ over[c] # "live" \/ serving = "closed"
              /\ Fail(c, Exit(c), Acquiring[over[c]])
              /\ UNCHANGED faults
           \/ /\ Held = Session
              /\ Fail(c, Exit(c), Acquiring["deadline"])
              /\ UNCHANGED faults
           \/ /\ faults < MaxFaults /\ faults' = faults + 1
              /\ \E how \in {"live", "deadline"} : Fail(c, Exit(c), Acquiring[how])
        /\ UNCHANGED <<session, holds>>
  /\ UNCHANGED <<engine, serving, permit, over, ran, ended, harmed>>

\* Where a call goes when its session cannot be made read-only: execMySQL destroys
\* the session, execPG leaves that to the pool.
Refused == IF engine = "pg" THEN "give" ELSE "discard"

\* A read on a session without autocommit opens a transaction.
Read(s) == IF session[s].auto \/ session[s].tx # "none" THEN session[s]
           ELSE [session[s] EXCEPT !.tx = "rw"]

\* beginReadOnlyPG looks at the TxStatus that pgx keeps, "idle" on a connection
\* that broke unnoticed.
ProbePG(c) ==
  /\ pc[c] = "probe" /\ engine = "pg"
  /\ IF \E s \in holds[c] : session[s].tx \in {"ro", "rw"}
     THEN Fail(c, Refused, "connection_failed")
     ELSE Goto(c, "begin") /\ UNCHANGED reply
  /\ UNCHANGED <<engine, serving, permit, session, holds, over, ran, ended, harmed,
                 faults>>

\* Mutation of ProbeMySQL: autocommit is not looked at.
ProbeModeOnly(c) ==
  /\ pc[c] = "probe" /\ engine = "mysql"
  /\ \E s \in holds[c] :
       \/ /\ Succeeds(c, s, TRUE, Read(s))
          /\ IF session[s].mode THEN Goto(c, "begin") /\ UNCHANGED reply
                                ELSE Fail(c, Refused, "connection_failed")
       \/ Fails(c, s, TRUE) /\ Fail(c, Refused, "connection_failed")
  /\ UNCHANGED <<engine, serving, permit, holds, over, ran, ended, harmed>>

\* verifyMySQLSessionMode and @@autocommit of beginReadOnlyMySQL.
ProbeMySQL(c) ==
  /\ pc[c] = "probe" /\ engine = "mysql"
  /\ \E s \in holds[c] :
       \/ /\ Succeeds(c, s, TRUE, Read(s))
          /\ IF session[s].mode /\ session[s].auto
             THEN Goto(c, "begin") /\ UNCHANGED reply
             ELSE Fail(c, Refused, "connection_failed")
       \/ Fails(c, s, TRUE) /\ Fail(c, Refused, "connection_failed")
  /\ UNCHANGED <<engine, serving, permit, holds, over, ran, ended, harmed>>

\* BEGIN TRANSACTION READ ONLY, which changes nothing inside a transaction and may
\* not mean what it says to a server that is not quite PostgreSQL; START
\* TRANSACTION READ ONLY of MySQL commits what is open.
Begin(c) ==
  /\ pc[c] = "begin"
  /\ \E s \in holds[c] :
       \/ /\ \E tx \in IF engine = "mysql" THEN {"ro"}
                       ELSE IF session[s].tx = "none" THEN {"ro", "rw"}
                       ELSE {session[s].tx} :
               Succeeds(c, s, TRUE, [session[s] EXCEPT !.tx = tx])
          /\ harmed' = (harmed \/ (engine = "mysql" /\ session[s].tx = "rw"))
          /\ Goto(c, IF engine = "pg" THEN "verify" ELSE "run")
          /\ UNCHANGED reply
       \/ /\ Fails(c, s, TRUE) /\ Fail(c, Refused, "connection_failed")
          /\ UNCHANGED harmed
  /\ UNCHANGED <<engine, serving, permit, holds, over, ran, ended>>

\* SHOW transaction_read_only.
Verify(c) ==
  /\ pc[c] = "verify"
  /\ \E s \in holds[c] :
       \/ /\ Succeeds(c, s, TRUE, session[s])
          /\ IF session[s].tx = "ro" THEN Goto(c, "run") /\ UNCHANGED reply
                                     ELSE Fail(c, "give", "connection_failed")
       \/ Fails(c, s, TRUE) /\ Fail(c, "give", "connection_failed")
  /\ UNCHANGED <<engine, serving, permit, holds, over, ran, ended, harmed>>

\* conn.Query of the statement of the user; the server may have run it although
\* the call fails.
Run(c) ==
  /\ pc[c] = "run"
  /\ \E s \in holds[c] :
       /\ ran' = [ran EXCEPT ![c] = session[s].tx]
       /\ \/ Succeeds(c, s, TRUE, session[s]) /\ Goto(c, "read") /\ UNCHANGED reply
          \/ Fails(c, s, TRUE) /\ Fail(c, "undo", Executing[over[c]])
  /\ UNCHANGED <<engine, serving, permit, holds, over, ended, harmed>>

\* The rows: all of them, or a cell or page beyond its limit, a failure of the
\* database or of the context, a panic.  rows.Close in each case.
ReadRows(c) ==
  /\ pc[c] = "read"
  /\ \E s \in holds[c] :
       \/ Succeeds(c, s, TRUE, session[s]) /\ Goto(c, "end") /\ UNCHANGED reply
       \/ /\ \E e \in {"result_too_large", "panic"} : Fail(c, "undo", e)
          /\ Succeeds(c, s, FALSE, session[s])
       \/ Fails(c, s, TRUE) /\ Fail(c, "undo", Executing[over[c]])
  /\ UNCHANGED <<engine, serving, permit, holds, over, ran, ended, harmed>>

\* ROLLBACK under a context of its own.
RolledBack(c, s) ==
  /\ Succeeds(c, s, FALSE, [session[s] EXCEPT !.tx = "none"])
  /\ ended' = [ended EXCEPT ![c] = TRUE]
  /\ harmed' = (harmed \/ session[s].tx = "rw")

\* Mutation of End: what the rollback returns is ignored.
EndIgnoresError(c) ==
  /\ pc[c] = "end"
  /\ \E s \in holds[c] :
       \/ RolledBack(c, s)
       \/ Fails(c, s, FALSE) /\ UNCHANGED <<ended, harmed>>
  /\ Fail(c, "give", "rows")
  /\ UNCHANGED <<engine, serving, permit, holds, over, ran>>

\* The explicit end, after which the rows may be returned.
End(c) ==
  /\ pc[c] = "end"
  /\ \E s \in holds[c] :
       \/ RolledBack(c, s) /\ Fail(c, "give", "rows")
       \/ /\ Fails(c, s, FALSE) /\ Fail(c, "discard", "connection_failed")
          /\ UNCHANGED <<ended, harmed>>
  /\ UNCHANGED <<engine, serving, permit, holds, over, ran>>

\* Mutation of Undo: MySQL too leaves a failed rollback to the pool.
UndoTrustsPool(c) ==
  /\ pc[c] = "undo"
  /\ \E s \in holds[c] :
       \/ RolledBack(c, s)
       \/ Fails(c, s, FALSE) /\ UNCHANGED <<ended, harmed>>
  /\ Goto(c, "give")
  /\ UNCHANGED <<engine, serving, permit, holds, reply, over, ran>>

\* The deferred end after an error or a panic: execPG ignores its failure,
\* execMySQL destroys the session.
Undo(c) ==
  /\ pc[c] = "undo"
  /\ \E s \in holds[c] :
       \/ RolledBack(c, s) /\ Goto(c, "give")
       \/ Fails(c, s, FALSE) /\ Goto(c, Refused) /\ UNCHANGED <<ended, harmed>>
  /\ UNCHANGED <<engine, serving, permit, holds, reply, over, ran>>

\* discardConn, discardPGConn.
Discard(c) ==
  /\ pc[c] = "discard"
  /\ session' = [s \in Session |-> IF s \in holds[c] THEN Gone ELSE session[s]]
  /\ Goto(c, "give")
  /\ UNCHANGED <<engine, serving, permit, holds, reply, over, ran, ended, harmed,
                 faults>>

\* The one statement of a metadata listing or a lookup, under a deadline of its
\* own; the session belongs to the pool, no transaction is begun for it.
List(c) ==
  /\ pc[c] = "list"
  /\ \E s \in holds[c] :
       Succeeds(c, s, TRUE, Read(s)) \/ Fails(c, s, TRUE)
  /\ Goto(c, "give")
  /\ UNCHANGED <<engine, serving, permit, holds, reply, over, ran, ended, harmed>>

\* Mutation of GiveBack: the permit is released before the session.
GiveBackLater(c) ==
  /\ pc[c] = "give"
  /\ permit' = permit \ {c}
  /\ Goto(c, "release")
  /\ UNCHANGED <<engine, serving, session, holds, reply, over, ran, ended, harmed,
                 faults>>

\* conn.Release, conn.Close: pgxpool destroys a session that is in a transaction,
\* database/sql keeps what was not discarded, at most MaxIdle of them.
GiveBack(c) ==
  /\ pc[c] = "give"
  /\ \E s \in holds[c], keep \in BOOLEAN :
       /\ keep => serving # "closed" /\ (engine = "pg" => session[s].tx = "none")
       /\ session' = IF keep THEN session ELSE [session EXCEPT ![s] = Gone]
  /\ holds' = [holds EXCEPT ![c] = {}]
  /\ Goto(c, Exit(c))
  /\ UNCHANGED <<engine, serving, permit, reply, over, ran, ended, harmed, faults>>

\* permit.Release, deferred first and so run last.
Release(c) ==
  /\ pc[c] = "release"
  /\ permit' = permit \ {c}
  /\ Goto(c, "done")
  /\ UNCHANGED <<engine, serving, session, holds, reply, over, ran, ended, harmed,
                 faults>>

CallStep(c) ==
  \/ Check(c) \/ Admit(c) \/ Acquire(c) \/ ProbePG(c) \/ ProbeMySQL(c) \/ Begin(c)
  \/ Verify(c) \/ Run(c) \/ ReadRows(c) \/ End(c) \/ Undo(c) \/ Discard(c) \/ List(c)
  \/ GiveBack(c) \/ Release(c)

-----------------------------------------------------------------------------
(* Everybody else.                                                         *)

\* The client disconnects or the deadline passes.
Expire(c) ==
  /\ pc[c] \notin {"start", "done"} /\ over[c] = "live" /\ faults < MaxFaults
  /\ \E how \in {"canceled", "deadline"} : over' = [over EXCEPT ![c] = how]
  /\ faults' = faults + 1
  /\ UNCHANGED <<engine, serving, session, harmed, cvars>>

\* The server or the network drops a session, and with it its transaction.
Die(s) ==
  /\ session[s] # Gone /\ faults < MaxFaults
  /\ session' = [session EXCEPT ![s] = Gone]
  /\ faults' = faults + 1
  /\ UNCHANGED <<engine, serving, over, harmed, cvars>>

\* poolEntry.drain, then poolEntry.close: sessions in use go when given back.
Drain ==
  /\ serving = "open"
  /\ serving' = "draining"
  /\ UNCHANGED <<engine, session, over, harmed, faults, cvars>>

ClosePool ==
  /\ serving = "draining"
  /\ serving' = "closed"
  /\ session' = [s \in Session |-> IF s \in Held THEN session[s] ELSE Gone]
  /\ UNCHANGED <<engine, over, harmed, faults, cvars>>

Next ==
  \/ \E c \in Call : CallStep(c) \/ Expire(c)
  \/ \E s \in Session : Die(s)
  \/ Drain \/ ClosePool

Spec == Init /\ [][Next]_vars

\* Every statement has a deadline (30 s without one of the request, 5 s to
\* acquire, 10 s to roll back) and Release and the deferred calls run whatever
\* happens: a call never stops in the middle.
FairSpec == Spec /\ \A c \in Call : WF_vars(pc[c] # "start" /\ CallStep(c))

-----------------------------------------------------------------------------
TypeOK ==
  /\ engine \in {"pg", "mysql"}
  /\ serving \in {"open", "draining", "closed"}
  /\ permit \subseteq Call
  /\ session \in [Session -> Live \cup {Gone}]
  /\ holds \in [Call -> SUBSET Session]
  /\ pc \in [Call -> Steps]
  /\ reply \in [Query -> Errors \cup {"none", "rows"}]
  /\ over \in [Call -> {"live", "canceled", "deadline"}]
  /\ ran \in [Call -> {"no", "none", "ro", "rw", "gone"}]
  /\ ended \in [Call -> BOOLEAN]
  /\ harmed \in BOOLEAN
  /\ faults \in Nat

\* No session goes back to the pool inside the read-only transaction of a query:
\* whatever failed on the way, the rollback or the destruction of the session came
\* first.  (A transaction a server without autocommit opens by itself may stay.)
PooledSessionsAreClean ==
  \A s \in Session \ Held : session[s].tx # "ro"

\* The statement of a user never reaches a session outside a read-only
\* transaction, and making or ending that transaction never ends another one:
\* beginReadOnlyPG and beginReadOnlyMySQL refuse every session they cannot tell.
RunsReadOnly ==
  /\ \A c \in Query : ran[c] \in {"no", "ro", "gone"}
  /\ ~harmed

\* The rows of a query are returned only when its transaction was rolled back on
\* the server, and a refusal the client may simply repeat (connection_busy,
\* rate_limited, pool_closed) is never given to a query that was sent.
RepliesAreHonest ==
  \A c \in Query :
    /\ reply[c] = "rows" => ended[c]
    /\ reply[c] \in {"connection_busy", "rate_limited", "pool_closed"} => ran[c] = "no"

\* A session has one user at a time.  A query or a listing has it only under its
\* permit; what uses sessions beside the permits is a lookup, and never sends the
\* statement of a user.
SessionsCovered ==
  /\ \A c \in Call : holds[c] # {} /\ c \notin permit => c \in Lookup /\ ran[c] = "no"
  /\ \A c, d \in Call : c # d => holds[c] \cap holds[d] = {}

\* Whatever fails, every call that went in comes out, without its session and its
\* permit; and a pool that was closed ends up with no session at all.
SessionsReturn ==
  /\ \A c \in Call : pc[c] # "start" ~>
                     pc[c] = "done" /\ holds[c] = {} /\ c \notin permit
  /\ serving = "closed" ~> \A s \in Session : session[s] = Gone

=============================================================================
