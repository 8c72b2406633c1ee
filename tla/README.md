# A TLA+ model of WebDB

WebDB lets the members of a workspace read PostgreSQL and MySQL databases
through a Go service (`apps/api`) that checks who may read, limits how much runs
at once, records everything in an audit trail and returns results page by page.
This directory models the parts of that service that hold state and that several
requests, goroutines or database transactions touch at the same time, and the
algorithms its promises rest on: paging by keyset, the statement policy, the
conversion of results, the events of the audit trail.

The modules are translated from the code under `src/apps/api/internal`; design
notes (`docs/adr`, `docs/tasks`) are used only where a run compares the code with
what they say. `PROJECT.json` maps every definition to the lines it stands for.

## The system

| Part | State it keeps | Operations | What is hard about it |
|---|---|---|---|
| Continuation registry (`pagination/registry.go`, `state.go`) | one-shot page tokens with an owner, a size, a deadline and a version; token and byte counters per global, user, workspace and connection account | `Create`, `Claim`, `Revoke`, `CleanupExpired`, `Close`; on a claim `Rotate`, `Complete`, `Abort` | finalizers that outlive their token, eviction among claimed tokens, eight counters kept by hand |
| Pool manager (`adapter/manager.go`) | one pool per connection with revision and configuration, the channels of calls that are creating one, a generation counter | `Get`, `createPool`, `Close`, background drain | the mutex is dropped for a dial of seconds; waiters, creators, replacement and shutdown overlap |
| Admission control (`adapter/admission.go`) | three families of counters | `TryAcquire`, `Release`, close | three counters under three locks, with rollback |
| Audited pipeline (`execution/pipeline.go`, `audit.go`) | a row in `executions` and events in `audit_events` per call, and the progress of the call | `Execute`, `ExecuteNextPage` | metadata writes that fail or whose answer is lost, disconnects, panics, restarts, rights that change between pages |
| Credential lifecycle (`credentials/lifecycle.go`, `kek.go`) | versions of a credential, active or retired; wraps done under a key | `Create`, `Rotate`, `Retire`, `Resolve` | concurrent PostgreSQL transactions, waiting on row locks |
| Connections service (`connections/service.go`) | `connections`: version of the credential, `updated_at` | `Create`, `Update`, `Test` | references a credential that may be rotated or retired meanwhile |
| Metadata store (`metadata/`) | the tables above; the audit gate of an atomic transaction; the validator of events | `AppendAudit`, `Commit`, `Rollback`, CRUD | one event per mutation or no mutation; an event that is refused takes its mutation along |
| Read-only execution (`adapter/manager.go`, `readonly.go`) | a permit, a session of the target, the read-only transaction on it; the pool's drain and close | `Query`, `NextPage`, `Schemas`, `Tables`, `Columns`, `LoadTableMetadata`, `ResolveQualifiedTable`, `Ping` | whatever fails, the session must go back clean or be destroyed, and rows leave only after the rollback |
| Keyset paging (`adapter/keyset.go`, `manager.go`, `queryplan/`) | none between pages but the token: plan, last sort values, count, schema generation | prove a total order from the catalog, read a page and its sentinel row, continue behind the last row | nulls, ties, budgets; rows and constraints that change between pages |
| SQL policy (`sqlpolicy/`) | none | `Decide`, `AnalyzeShape` | set operations, CTEs, locking clauses, `EXPLAIN ANALYZE` nest |
| Browse service (`browse/`) | none | list connections, schemas, tables, columns | rights read one by one while administrators change them; response budget |
| HTTP layer (`executionhttp/`, `browsehttp/`) | none | handlers, error codes, values on the wire | a value is exact or refused; codes that no validator knows |
| Process (`cmd/server`), migration and seeding, web client | none | wiring | — |

How they interact. A query arrives at the pipeline, which authorizes it, records
a pending execution, resolves the credential, asks the **pool manager** for a
handle (whose revision is the connection's `updated_at`, stamped by the
**connections service** or by a **rotation**), takes slots in **admission
control**, runs, and records status and audit event in one metadata transaction.
If there are more rows it stores a token in the **continuation registry** before
that record and returns it only after; the next page claims the token, authorizes
again and rotates it. The registry, the manager and admission control are shared
memory under mutexes; the pipeline and the credential operations meet in the
metadata database. Under a handle, **read-only execution** takes a permit of
admission control and a session of the pool for each page, and **keyset paging**
decides whether there is a next one. In front of all this the handlers of the HTTP
layer and the browse and connections services check who asks, and the **SQL policy**
what is asked; behind it the result becomes JSON or is refused.

## Modules

| Module | What it models | Extends / instantiates |
|---|---|---|
| `OneShotToken` | what a registry promises: a token is issued once, taken once, replaced by one successor or dropped | abstract |
| `ContinuationRegistry` | the registry, one action per critical section; the loops of `evictForQuota` and `CleanupExpired` step by step, because what they pick matters | implements `OneShotToken` (`ImplementsOneShot`) |
| `ContinuationRegistryProofs` | nine theorems about it | |
| `PoolManager` | `Get` split where it drops the mutex (start, wait and retry, dial, ping, register), `Close`, the draining goroutines | |
| `PoolManagerProofs` | six theorems about it | |
| `Admission` | `TryAcquire` and `Release`, one step per limiter lock | |
| `AdmissionProofs` | three theorems about it | |
| `AuditedExecution` | `Execute` and `ExecuteNextPage`, one action per metadata transaction, registry call or adapter call | uses `OneShotToken` for the registry |
| `AuditedExecutionProofs` | six theorems about it | |
| `CredentialLifecycle` | `Create`, `Rotate`, `Retire`, and `Create`/`Update` of a connection, one action per SQL statement or row lock, under PostgreSQL READ COMMITTED | |
| `CredentialLifecycleProofs` | five theorems about it | |
| `TargetSession` | `Query`, `NextPage`, the listings and the lookups beside them on one pool: permit, session, read-only transaction, rollback, discard; drain and close. One action per statement sent to the target and per deferred call | |
| `TargetSessionProofs` | five theorems about it | |
| `KeysetPaging` | one query read page by page: loading of constraints, proof of uniqueness, pages with sentinel row and budget, the keyset predicate, the schema generation, against concurrent writes and an `ALTER` | |
| `KeysetPagingProofs` | six theorems about it | |
| `SqlPolicy` | `Decide` and `AnalyzeShape` as operators on parsed statements | |
| `AuditEvents` | the events of a query and of a connection test, and the validator that admits them | |
| `WireResult` | `toWireResult`: values of the drivers to JSON values, within budgets of cell and row | |
| `Gateway` | one request (list connections, browse a target, execute, test a connection) from handler to answer, one action per call that leaves the process or reads what administrators may change | extends `SqlPolicy`, `AuditEvents`, `WireResult` |
| `GatewayProofs` | seven theorems about it and the three modules it extends | |
| `MC*` | instances for TLC | each extends its module |

`OneShotToken` is the hinge: the registry is shown to implement it, and the
pipeline is checked against it, so that the pipeline's state space does not carry
quotas, clocks and evictions. (Eviction and expiry are `Expire` there: a ready
token may vanish at any time.) In the same way `Gateway` treats as one step, with
an outcome, what lies between `Execute` and the target: that is `PoolManager`,
`Admission`, `TargetSession` and `KeysetPaging`.

### How state and actions correspond to the code

*ContinuationRegistry.* `entries` is the map of `Registry`, `count` and `bytes` its
eight counters by account, `creating`/`sweeping` say that a call holds `mu` in the middle of its
loop, `claims` are the `Claim` values callers hold, which outlive the entries they
name. Handles are model values; a state is its owner and its size. Sizes include
one above the limit, so that `Create` and `Rotate` refuse. `chain` records
the first token of each chain and its deadline, so that properties can speak of a
token's ancestors.

*PoolManager.* One connection: pools of different connections share only the
mutex and `genCounter`. `creating` is the channel in the `creating` map,
`signalled` the channels that were closed, `entry[g]` the pool of generation `g`.
A waiter that finds a stale revision after its wait goes on to dial *without a
channel of its own*, as the code does; this is what makes two creators overlap.

*Admission.* `holder` is `ac.mu`; `Release` does not take it, so its three
decrements fall between the increments of `TryAcquire`.

*AuditedExecution.* `exec` and `audit` are what is committed. A metadata
transaction ends `ok`, `failed`, or `lost` (committed, error reported). A
transaction bound to the request's context fails once the client is gone; one
that strips cancellation does not: the model keeps which is which. `Panic` may
hit any callee once the execution exists. For a following page that includes
`ExtractLastValues`, `Rotate` and `Complete`, which come after the page was
recorded (`PanicPoint`): the deferred recovery records it once more, since
`UpdateExecution` has no guard on the status, and turns `completed` into
`failed` with a second event. What could panic in `Rotate` (copying the state,
drawing the handle) comes before it touches the registry. Left out are panics
of the metadata driver inside the recording itself, of `Abort` and `Revoke`,
and a second panic while the first is finalized; the handle's `Release` does
nothing. A comment at `pipeline.go:708` says that `ExecuteNextPage` writes no
audit events, while the code below it does; the model follows the code.

*CredentialLifecycle.* The three tables hold what is committed; `writes[t]` is
what transaction `t` has written and nobody else sees; `envelopeLock` and
`connectionLock` are row locks, shared (`FOR KEY SHARE`, `FOR SHARE`) or exclusive
(`FOR UPDATE`, `UPDATE`). A statement chooses its rows among those committed when
it starts, then locks them one at a time and tests them again. `Fail` stands for
everything that ends a transaction from outside: a database error, the deadline of
`atomicTxTimeout`, the caller's disconnection, a deadlock broken by PostgreSQL.
PostgreSQL itself is not part of the repository; its locks are modelled from the
statements that rely on them.

*TargetSession.* One pool of either engine, with `Session` places, each empty
or holding what a session is: its transaction (none, read-only, read-write, or
gone with the connection) and whether it autocommits. A fresh session may
already be without autocommit or inside a transaction, since a server or a
pooler between may be configured so: this is what `beginReadOnlyPG` and
`beginReadOnlyMySQL` probe for. A context may end before any statement, a
statement may fail, a connection may break, a callee may panic; the deferred
calls run in their order, which is why the session is given back before the
permit. What pgxpool and `database/sql` promise (one holder of a session, what
`Close` waits for) is modelled from what the code relies on.
`LoadTableMetadata` (before every paged query), `ResolveQualifiedTable` and
`Ping` take sessions of the same pool without asking admission control: they
are the calls in `Lookup`, one for each statement they send. So the limits of
admission bound the queries and listings on a target, not the sessions in use,
which only the size of the pool does. What listings and lookups answer is left
out.

*KeysetPaging.* A row is an identity, which no query sees, and its content; the
keys of a request name output columns, which the shape of the statement maps to
columns of the table (aliases may swap them). The first page loads the catalog in
two reads, proves from it that the keys cover a unique index without nulls, so that
they order the rows totally,
and keeps in its token the last sort values, the number of rows returned and the
schema generation. Between any two steps others insert, change or delete rows, and
the catalog may change once. A catalog that changes and changes back has the same
generation, by construction of the hash, and is not told apart in the code either;
so the model does not let it. Reading the primary key and the unique indexes, two
statements in the code, is one step. `history` variables (`shown`, `stable`) say
what the reader got and which rows nobody touched.

*SqlPolicy, AuditEvents, WireResult.* Operators, one for each function of the
code. A statement is the trees its parser returns, reduced to the clauses the
policy looks at and to which of the constructs it looks for occur where; what
the lexers say of the text (executable comments, unbound placeholders) is a
label of the text. The model has what the classifier overlooks as well: a MySQL
query in parentheses (the field `paren`), and assignments of user variables in
clauses and expressions that are not walked (`"unseen"`: `LIMIT`, `WINDOW` and
expressions other than parentheses, operators, calls, `CASE` and subqueries).
An event is a function from field names to values. Strings on the wire are
their length and the length of their encoding; numbers and times of day keep
their digits, since there the conversion computes.

*Gateway.* The metadata is what it is when it is read: role, connection, policy
and the connection's row are separate reads in the code and separate steps
here, with changes by administrators between them (members come and go,
connections are created, policies created and updated; no code deletes a
connection). The history variables `rights` and `view` record what the caller
was entitled to at some moment of the request and what there was to list when
it was listed. A connection test passes `ConfigRevision` 0, which is stale
where the pipeline has a pool already: that is the outcome `stale_config` of
asking for a pool. The conversion to the wire comes after the record, and its
failure withholds rows that are recorded as read (the code also leaves the
page's token to its deadline, which is not seen here); a body above 8 MiB is
refused there, whatever the rows. Of
the faults of a credential `wrap_quota_exhausted` is left out, which resolving
one never returns.
Panics are modelled in `AuditedExecution`, and `handleQueryPages` is one call
of `ExecuteNextPage` there.

## Runs

Each run finishes within about a minute with two workers, `target_session` within
three.

| Run | Question | Bounds, and why they are enough |
|---|---|---|
| `registry_safety` | Are the counters exact, the limits kept, tokens single-use and never renewed, claimed tokens never evicted? | 4 handles, 2 users, 2 connections: a claimed, a rotated, an evicted and a fresh token at once; limits of 2 and 3 so that each dimension fills first in some run; TTL 2 of 3 ticks, so tokens expire before and after a rotation |
| `registry_liveness` | Does every token leave, does `Create` end, is `OneShotToken` implemented? | 3 handles of one user; a chain of three tokens and an eviction fit |
| `pool_safety` | Leaks, stale handles? Does every `Get` return, is every pool closed after `Close`? | 3 calls, revisions 0..2, 2 configurations: a creator, a waiter that retries and a call with a newer revision; a creator without a channel needs three. The requests are put in order at the start, which replaces a symmetry set, unsound for liveness |
| `admission` | Are slots exact and all returned? | 3 calls, 2 users, 2 connections, limits 2/2/1: each of the three limiters is the one that refuses in some run |
| `audit_safety` | Do client, database and registry agree under two faults, two changes of rights, a restart, panics and disconnects? Does a recorded execution end, or raise an alarm? | a first page and two following pages, which may race for one token or follow each other; two faults reach a failure of the record and of its fallback (308,208 states) |
| `audit_pending` | (violation) Is no execution left pending? | no faults at all |
| `credentials_safety` | No reference to a retired version, one rotation per version, trail complete, revisions grow? | 3 transactions, 2 connections, clock 0..1 (which stands still and goes back), 4 versions (never exhausted by 3 rotations), 3 wraps; every statement may fail. A race needs two transactions; the third commits something in between (620,328 states) |
| `credentials_conflict` | (violation) Does the loser of a rotation get `version_conflict`? | 2 transactions, no faults |
| `target_session` | Do queries run read-only, do sessions go back clean, do rows leave only after the rollback, is no query or listing on a session without its permit, does every call come out? | 1 query, 1 listing and 1 lookup on one place of either engine: the next inherits what the one before left there; 2 permits, so that they do wait for the place; 2 faults, one to fail a step and one to fail the way back (353,465 states) |
| `keyset_paging` | Is an untouched row returned exactly once, in order, and is a token good exactly while the constraints hold? | 3 rows, of two columns of which one may be null, asked page sizes 0, 1, 2 and 4 around a default of 2 and a cap of 3: a page break between equal values, before and behind a null, and at the limit; 7 sort orders, 4 shapes, 4 catalogs; 2 changes of rows and one of the catalog (1.8 million states) |
| `gateway` | Is nobody served without a right, are all branches judged, do answer, record and trail agree, are cells exact and listings whole? | 1 request of each kind, one connection per engine, statements and results of every kind the code tells apart, limits small enough to be passed; 2 changes, enough to take a right away and to give it back (207,747 states) |
| `gateway_faults` | (violation) Are internal faults told as `connection_unavailable`? | as above |

Deadlock is not checked by TLC's flag in any run, because every system here may
come to rest (all requests served, registry closed). That callers are not stuck
waiting is stated instead: `NothingHangs`, `GetReturns`, `CloseReleasesPools`,
`SlotsReturn`, `ExecutionEnds`, `SessionsReturn`. Symmetry is used for safety only.

Each property has a mutation in its module: a plausible bug (a dropped test, a
missing release, a swapped order) under which the run must fail. They are the
operators commented "Mutation of ...".

### Where the code and its documents differ

* `audit_pending`: a refusal after the pending record is written under the
  request's context; if the client is gone it fails, an alarm is raised, and the
  row stays pending. ADR-016 rules out a permanent `pending`.
* `credentials_conflict`: `SELECT ... ORDER BY version DESC LIMIT 1 FOR UPDATE`
  picks its row before it waits, so the second of two rotators is handed the old
  version, passes the `expected_version` test and dies on the unique constraint
  with `internal_error` and no E5 event; the integration test LIFE-07 expects
  `version_conflict`. Nothing wrong is stored (`OneRotationPerVersion` holds: the
  constraint is the second of the two protections).

* `gateway_faults`: the comment of `mapExecutionCode` (`handlers.go:263`) says that
  internal faults of credentials, keys, pools and configurations are folded into
  `connection_unavailable`. Those of credentials fall into the default of the
  switch, `internal_error`; those of the pool do get that code, which is not in
  the validator's `stableErrorCodes`, so that the event is refused and the client
  is told `audit_failed`.

More divergences are modelled as the code has them and are not turned into runs:

* a generation is drawn (`manager.go:207`) before dialing and installed after it,
  so a later pool may have the smaller one; the comment at line 337 says that it
  increases when a connection is rebuilt;
* a following page that panics behind its record has two audit events and, when
  they can be written, no alarm; the comment at `pipeline.go:815` speaks of ending
  a *running* execution (`Overturned` is the exception in `TraceOrAlarm` and
  `AuditAgrees`);
* a rate-limited query is audited `failed` (`pipeline.go:1377`), ADR-016 says
  `denied`;
* `Execute` answers `internal_error` to a policy whose limits are not positive, a
  comment of `code.go` has them under `ErrPolicyNotConfigured`;
* `Retire` of a version that is retired already succeeds and is audited again (the
  proposal of P0-05 answers `credential_not_found`), and a rotation that fails
  after its lock leaves no E5 event.

## Fairness

Only what the code schedules by itself is fair.

* Registry: the clock, whoever is inside the mutex, and the ticker of
  `cleanupLoop` (strong fairness, since the mutex may be taken at each of its
  ticks). No client is assumed to claim a token or to finish with it, so
  `EveryTokenLeaves` rests on expiry alone.
* Pool manager: the steps of a call in progress (a dial has a ping timeout) and the
  draining goroutines. `Close` is not fair.
* Admission: strong fairness of `Enter` (`sync.Mutex` does not starve waiters); a
  query ends by its deadline and its permit is released by a `defer`.
* Pipeline: a call in flight goes on, since metadata writes and target queries have
  timeouts. Faults, disconnects, panics and restarts are never fair.
* Target sessions: a call that went in goes on. Every statement has a deadline
  (30 s without one of the request, 5 s to acquire a session, 10 s to roll back),
  and the deferred calls run whatever happens. Faults, drain and close are not fair.
* Gateway and keyset paging: no liveness is stated; a request is a finite sequence
  of steps.
* Credentials: no liveness is stated. Every transaction ends at its deadline, and
  nothing more is promised.

## Proofs

Proved with TLAPS, for any finite number of handles, calls or rows and all limits.
Every safety property that a run checks is also stated by a theorem.

*Registry* (`ContinuationRegistryProofs`), from the assumptions `AccountsDisjoint`
(identifiers of users, workspaces and connections differ, as UUIDs in separate
maps do), `HandlesFinite` and `ConfigNormalized` (`NormalizedConfig` replaces
limits that are not positive): `TypeCorrect`, `QuotasAreExact`, `LimitsAreKept`
(together `QuotasAreKept`), `ClaimsAreFinal`, `ChainsDoNotFork`, `DeadlinesAreAbsolute`,
`EvictionSparesInFlight`, and `RegistryImplementsOneShot`. The inductive invariant
`IInv` is the conjunction of those invariants with `Bookkeeping`: one holder of
the mutex at a time, a closed registry is empty, handles in use were issued, no
entry is larger than one state may be. Without the first, a sweep could run inside
a `Create` and the room it made would not be the room `Create` measured; without
the last, `Rotate`'s arithmetic on sizes could not be bounded. The argument
factors every action into one of six effects on the table of entries (nothing,
deletion, insertion, exchange, claim, closing) and shows what each does to the counts; bytes are
counted as the cardinality of a set of byte units, so no sum over a set is needed.

*Admission* (`AdmissionProofs`), from `LimitersDisjoint`, `LimitsPositive` and
`CallsFinite`: `TypeCorrect`, `SlotsAreExact`, `ConcurrencyIsBounded`. The
invariant is `TypeOK /\ SlotsExact /\ WithinMax`. `SlotsExact` is what makes it
inductive: a call that gives back a slot is one of those counted, so `dec`, which
ignores a zero, never meets one.

*Pool manager* (`PoolManagerProofs`), from `MaxRevNatural`: `TypeCorrect`,
`PoolsDoNotLeak`, `HandlesMatch`, `OnePoolServes`, `WaitersHaveAWaker`,
`RevisionsOnlyGrow`. The invariant adds to the properties where each generation is:
one being connected is no pool yet and belongs to one call (else the pool of
another call could be overwritten under a handle), a connected one has the
configuration its call asked for, the registered one has the current revision and
configuration (so sharing it is right), and what is in callers' hands and open is
the registered one (so replacing it drains all there is). The channel in
`creating` belongs to a call that is still creating; a creator without a channel
may close it early, which the invariant allows, as a waiter looks again.

*Audited pipeline* (`AuditedExecutionProofs`), from `CallsDisjoint` and
`BoundsNatural`: `TypeCorrect`, `RowsAreAudited`, `AccessIsTraced`,
`AuditFollowsStatus`, `TokensFollowAudit`, `TokensCarryNoAuthorization`. The
properties speak of calls that have returned; the invariant says of every call, at
each of its steps, what the database has on record (`OnRecord`), which verdicts are
possible (`Judged`), that status and event agree (`Agrees`), what was traced or
alarmed (`Traced`), who may hold rows (`Rows`), what its tokens may be (`Tokens`)
and how old its reading of rights may be (`Fresh`). A step of one call disturbs the
others only by what it does to tokens: `OthersKeep` shows that tokens move one way,
ready to claimed to spent, and `UsedReturned` that a call whose token is in use has
returned, so that what is known of it no longer changes. A crash is the one step
that ends all calls and all tokens; it leaves the tables alone.

*Credential lifecycle* (`CredentialLifecycleProofs`), from `EnoughVersions`,
`BoundsNatural` and `FaultyAreRequests`: `TypeCorrect`, `NoReferenceIsRetired`,
`VersionsRotateOnce`, `TrailsAreComplete`, `RevisionsGrow`. The invariant says for
each request which row it has locked and what it knows because of the lock: a
rotation that has written its version knows that the next one is absent, a
retirement that its version is active and which references are still to be looked
at (`ReferencesCounted`), a reference that its version is active. `LocksExclude`
carries this over the steps of others, and `CommitSparesOthers` over a commit, the
only step that changes the tables. `EnoughVersions` says that there are more
versions than requests, so that the bound is never what keeps a property true
(`VersionsCounted`).

*Target sessions* (`TargetSessionProofs`), from `CallsDisjoint`, `PoolFinite` and
`BoundsNatural`: `TypeCorrect`, `SessionsReturnClean`, `StatementsRunReadOnly`,
`AnswersAreHonest`, `PermitsCoverSessions`. The invariant places each session with
at most one call, under its permit unless it is a lookup (`Places`), and says what may be open on it by
the call's step (`Transactions`), that a read-only transaction has a call that will
end it (`Owned`), what a call has answered by then (`Answers`), and, for MySQL,
that a transaction nobody asked for shows in the session's autocommit
(`Uncommitted`): without this the probe, which looks at autocommit, could take
such a session for a free one.

*Keyset paging* (`KeysetPagingProofs`), from `LimitsPositive`, `MaxChangesNatural`,
`TableTyped` (finitely many rows; values are integers or null; a catalog speaks of
the columns there are) and `RequestTyped` (keys have a direction; `Execute` refuses
a row limit that is not positive): `TypeCorrect`, `PagesAreInOrder`,
`TokensCanBeRedeemed`, `StableRowsAreReadOnce`, and of the operators `PlanOrder` and
`AfterIsBefore`. The last says that the recursive predicate of `buildAfter` is the
lexicographic order of `ORDER BY`, which `PlanOrder` shows to be total; so a page
splits what was behind the cursor into what it shows and what is behind its last
row (`PageSplits`). While the proof of uniqueness holds, no two rows share a cursor
(`TuplesAreUnique`), so nothing falls between two pages. The invariant says that, as
long as the token can still be redeemed (`Redeemable`), a row nobody touched has been
shown exactly if it is not behind the cursor (`Split`); that nothing shown is behind
it (`Cursor`) and nothing is shown twice (`ShownOnce`); that the plan was proved from
the constraints its generation names (`Verified`); and that the table respects its
catalog, which changes once (`Catalog`). Without `Redeemable` it is not inductive: an
`ALTER` that drops the unique index lets two rows share the cursor, and the later
check of the generation is what keeps such a token from being used.

*Gateway* (`GatewayProofs`), from `TreesNest` (what is inside a statement is less
deep than the statement), `BudgetsPositive`, `LimitsNatural`, `ListingsFinite`,
`ConnectionsTyped` (the `CHECK` constraints of `00001_p0_schema.sql`),
`ScenariosTyped` and `ResultsCapped` (results are finite lists, no longer than a row
count may be, of values that carry what their driver type does):
`NobodyElseGetsThere`, `EveryBranchIsJudged`, `TheThreeRecordsAgree`,
`NoCellIsAltered`, `NoListingIsCutOff`, and of the operators `NumericExact` and
`ClockExact`. The invariant follows the request: which kinds reach which step
(`Route`), what was found to be allowed and therefore stays in the history
(`Entitled`: the rights at this moment are among those recorded, which is why a
right that is taken away between two reads does no harm to the argument), that what
is past the judgement was allowed (`Judged`), and for each step what code, execution
row, pending event and trail say (`Records`), which is where the validator's
acceptance of each event is used; `UnavailableRefused` shows that the one exception
of `RecordsAgree` is a real one.

Recursive definitions are recursive functions here. That one exists is shown by
giving a function with that recursion (`LinearSolved`, `ReachUnfolds`), and two that
recur alike are compared at the first place where they would differ (`Smallest`,
`NeverDiffer`), a least element of a set of numbers taking the place of induction.
This is how the numerals (`ZerosMultiply`, `ZerosVanish`), the running size of a row
(`SizesTyped`), the predicate of the keyset (`AfterIsBefore`) and the features of
nested statements (`BranchesAllowed`) are reasoned about.

Some results hold in no run of their own, being about a part of a property that a
run does check or an operator of the model: `ConcurrencyIsBounded`,
`WaitersHaveAWaker`, `RevisionsOnlyGrow`, `QuotasAreExact`, `LimitsAreKept`,
`PlanOrder`, `AfterIsBefore`, `NumericExact`, `ClockExact`, and the `TypeCorrect` of
`Admission`, `AuditedExecution`, `KeysetPaging` and `TargetSession`.

Only model-checked: all liveness (`NothingHangs`, `GetReturns`,
`CloseReleasesPools`, `SlotsReturn`, `ExecutionEnds`, `SessionsReturn`), which is
out of the prover's reach, as `ENABLED` and fairness are.

## Not modelled

* The SQL parsers and the two lexers: third-party or text analysis. What they
  return is an input of `SqlPolicy`.
* Of the HTTP layer, decoding of JSON, headers and the recovery middleware.
* Envelope cryptography (`credentials/envelope.go`): a computation.
* Plain CRUD of users and workspaces, and queries of the audit trail.
* `cmd/server`: wiring. Its shutdown is `Close` of `PoolManager` and of the
  registry, and `Crash` of `AuditedExecution`. (`connections.Service` is wired only
  in the seeding command at this commit; `Gateway` and `CredentialLifecycle` model
  it as any caller may use it.)
* Migration, seeding, the web client.
* In `KeysetPaging`: case and quoting of identifiers, table inheritance of
  PostgreSQL, the copying of values.
* A crash of the process in the middle of a credential transaction is `Fail`: the
  database rolls back; that the caller hears nothing changes no property.
* Two hazards of `PROJECT.json` have no property: a `Rotate` that fails after its
  page was audited (`pipeline.go:1003`) and an update that waited on a rotation
  (`atomic_tx.go:507`). Their notes say why.

## Plan

Done, in this order: `OneShotToken`, `ContinuationRegistry` and its proofs;
`PoolManager` and its proofs; `Admission` and its proofs; `AuditedExecution`;
`CredentialLifecycle`; `TargetSession` and its proofs; `KeysetPaging`; `SqlPolicy`,
`AuditEvents`, `WireResult` and `Gateway`; the proofs of `CredentialLifecycle`,
`AuditedExecution`, `KeysetPaging` and `Gateway`.

Next:

1. The composition of `PoolManager` with `CredentialLifecycle`: a rotation's stamp
   reaches the pool, and no query authorized after it uses the old credential.
2. Idempotence of seeding under a crash between its steps.
