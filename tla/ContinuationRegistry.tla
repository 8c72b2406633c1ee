------------------------ MODULE ContinuationRegistry ------------------------
(***************************************************************************)
(* The in-memory registry of continuation tokens (pagination/registry.go). *)
(*                                                                         *)
(* A token is an opaque handle the client presents once to read the next   *)
(* page.  Every operation runs under one mutex and is one action here,     *)
(* except the two that loop over the entries: Create, which evicts ready   *)
(* tokens until the new one fits, and CleanupExpired.  Their iterations    *)
(* are separate steps taken while `creating' or `sweeping' records who     *)
(* holds the mutex; the clock goes on meanwhile, everything else waits.    *)
(* An operation the code refuses without touching the registry is a        *)
(* stuttering step and has no action.                                      *)
(***************************************************************************)
EXTENDS Integers, FiniteSets

CONSTANTS
  Handle,       \* what genHandle can return; a handle is never drawn twice
  User, Workspace, Connection,
  Global,       \* the account every token is charged to
  Sizes,        \* the byte sizes a continuation state can have
  TTL,
  MaxGlobal, MaxUser, MaxWS, MaxConn,
  MaxStateBytes, MaxGlobalBytes, MaxUserBytes, MaxWSBytes, MaxConnBytes,
  MaxClock      \* bound: the clock stops here, and no token outlives it

Account == User \cup Workspace \cup Connection \cup {Global}

ASSUME AccountsDisjoint ==
  /\ User \cap Workspace = {} /\ User \cap Connection = {}
  /\ Workspace \cap Connection = {}
  /\ Global \notin User \cup Workspace \cup Connection

ASSUME HandlesFinite == IsFiniteSet(Handle)

\* NormalizedConfig replaces every limit that is not positive by a default,
\* and a state that passes validState has at least one byte.
ASSUME ConfigNormalized ==
  /\ {TTL, MaxGlobal, MaxUser, MaxWS, MaxConn} \subseteq Nat \ {0}
  /\ {MaxStateBytes, MaxGlobalBytes, MaxUserBytes, MaxWSBytes, MaxConnBytes}
       \subseteq Nat \ {0}
  /\ Sizes \subseteq Nat \ {0}
  /\ MaxClock \in Nat

\* What the registry tells apart in a ContinuationState.
State == [user : User, ws : Workspace, conn : Connection, bytes : Sizes]

\* The four quota dimensions a state is charged to.
KeysOf(s) == {s.user, s.ws, s.conn, Global}

CountLimit(k) == CASE k \in User       -> MaxUser
                   [] k \in Workspace  -> MaxWS
                   [] k \in Connection -> MaxConn
                   [] OTHER            -> MaxGlobal

ByteLimit(k) == CASE k \in User       -> MaxUserBytes
                  [] k \in Workspace  -> MaxWSBytes
                  [] k \in Connection -> MaxConnBytes
                  [] OTHER            -> MaxGlobalBytes

VARIABLES
  now,       \* the clock
  entries,   \* the live tokens: a partial function on Handle
  count,     \* userCount, wsCount, connCount, globalCount by account
  bytes,     \* userBytes, wsBytes, connBytes, globalBytes by account
  seq,       \* the last version handed out
  closed,
  creating,  \* the Create call that holds the mutex, if any
  sweeping,  \* the clock reading of the CleanupExpired that holds it, if any
  claims,    \* every Claim ever returned: its finalizers may run at any time
  chain      \* history: for each handle issued, the first token of its chain
             \* and the deadline that one was created with

vars == <<now, entries, count, bytes, seq, closed, creating, sweeping, claims,
          chain>>
quota == <<count, bytes>>

Status == {"ready", "inFlight"}

EntryType == [user : User, ws : Workspace, conn : Connection, bytes : Sizes,
              status : Status, version : Nat, expiresAt : Nat]
RequestType == [user : User, ws : Workspace, conn : Connection, bytes : Sizes,
                expiresAt : Nat]
ClaimType == [handle : Handle, version : Nat]

Issued == DOMAIN chain
Fresh == Handle \ Issued
Ready == {h \in DOMAIN entries : entries[h].status = "ready"}
InFlight == {h \in DOMAIN entries : entries[h].status = "inFlight"}
Expired(h, t) == t >= entries[h].expiresAt

Unlocked == creating = {} /\ sweeping = {}

-----------------------------------------------------------------------------
(* Quota bookkeeping.                                                      *)

\* What remains of a byte counter v of account k when n bytes are released:
\* the per-owner counters fall to zero, the global one is left as it is when
\* it holds less than n.
ReleaseBytes(k, v, n) ==
  IF k = Global THEN (IF v >= n THEN v - n ELSE v)
                ELSE (IF v > n THEN v - n ELSE 0)

CountWithout(e) ==
  [k \in Account |-> IF k \in KeysOf(e) /\ count[k] > 0
                     THEN count[k] - 1 ELSE count[k]]

BytesWithout(e) ==
  [k \in Account |-> IF k \in KeysOf(e) THEN ReleaseBytes(k, bytes[k], e.bytes)
                                        ELSE bytes[k]]

\* deleteEntry: the entry goes and its quota is released.
DeleteEntry(h) ==
  /\ entries' = [g \in DOMAIN entries \ {h} |-> entries[g]]
  /\ count' = CountWithout(entries[h])
  /\ bytes' = BytesWithout(entries[h])

NewEntry(s, deadline) ==
  [user |-> s.user, ws |-> s.ws, conn |-> s.conn, bytes |-> s.bytes,
   status |-> "ready", version |-> seq + 1, expiresAt |-> deadline]

\* evictForQuota's test.
HasRoom(s) ==
  \A k \in KeysOf(s) : /\ count[k] < CountLimit(k)
                       /\ bytes[k] + s.bytes <= ByteLimit(k)

\* fitsBytes: a rotation keeps its slot, so only the change in bytes counts.
FitsBytes(s, net) == \A k \in KeysOf(s) : bytes[k] + net <= ByteLimit(k)

OverLimit(k, s) == \/ count[k] >= CountLimit(k)
                   \/ bytes[k] + s.bytes > ByteLimit(k)

\* The account whose tokens may be evicted for s: its user if that one is over
\* a limit, else its workspace, else its connection, else everybody.
Pressed(s) == CASE OverLimit(s.user, s) -> s.user
                [] ~OverLimit(s.user, s) /\ OverLimit(s.ws, s) -> s.ws
                [] /\ ~OverLimit(s.user, s) /\ ~OverLimit(s.ws, s)
                   /\ OverLimit(s.conn, s) -> s.conn
                [] OTHER -> Global

\* Mutation of Evictable: forgets that a token in flight must be spared.
EvictableInFlight(s) == {h \in DOMAIN entries : Pressed(s) \in KeysOf(entries[h])}

Evictable(s) == {h \in Ready : Pressed(s) \in KeysOf(entries[h])}

\* pickEvictable: the oldest; map iteration order decides between equals.
Oldest(S) == {h \in S : \A g \in S : entries[h].expiresAt <= entries[g].expiresAt}

-----------------------------------------------------------------------------
Init ==
  /\ now = 0
  /\ entries = [h \in {} |-> 0]
  /\ count = [k \in Account |-> 0]
  /\ bytes = [k \in Account |-> 0]
  /\ seq = 0
  /\ closed = FALSE
  /\ creating = {}
  /\ sweeping = {}
  /\ claims = {}
  /\ chain = [h \in {} |-> 0]

Tick ==
  /\ now < MaxClock
  /\ now' = now + 1
  /\ UNCHANGED <<entries, quota, seq, closed, creating, sweeping, claims, chain>>

\* Create, up to the eviction loop.  A closed registry, an invalid state and
\* one larger than MaxStateBytes are refused with nothing changed.
CreateBegin(s) ==
  /\ Unlocked
  /\ ~closed
  /\ s.bytes <= MaxStateBytes
  /\ now + TTL <= MaxClock
  /\ Fresh # {}
  /\ creating' = {[user |-> s.user, ws |-> s.ws, conn |-> s.conn,
                   bytes |-> s.bytes, expiresAt |-> now + TTL]}
  /\ UNCHANGED <<now, entries, quota, seq, closed, sweeping, claims, chain>>

\* One turn of evictForQuota.
Evict(s, h) ==
  /\ ~HasRoom(s)
  /\ h \in Oldest(Evictable(s))
  /\ DeleteEntry(h)
  /\ UNCHANGED <<now, seq, closed, creating, sweeping, claims, chain>>

\* There is room: the new token becomes ready.
CreateInsert(s, h) ==
  /\ HasRoom(s)
  /\ h \in Fresh
  /\ entries' = [g \in DOMAIN entries \cup {h} |->
                   IF g = h THEN NewEntry(s, s.expiresAt) ELSE entries[g]]
  /\ count' = [k \in Account |-> IF k \in KeysOf(s) THEN count[k] + 1 ELSE count[k]]
  /\ bytes' = [k \in Account |->
                 IF k \in KeysOf(s) THEN bytes[k] + s.bytes ELSE bytes[k]]
  /\ seq' = seq + 1
  /\ chain' = [g \in Issued \cup {h} |->
                 IF g = h THEN [root |-> h, deadline |-> s.expiresAt] ELSE chain[g]]
  /\ creating' = {}
  /\ UNCHANGED <<now, closed, sweeping, claims>>

\* Create gives up: nothing more can be evicted, or there is room and
\* genHandle fails.  What was evicted on the way stays evicted.
CreateFail(s) ==
  /\ HasRoom(s) \/ Evictable(s) = {}
  /\ creating' = {}
  /\ UNCHANGED <<now, entries, quota, seq, closed, sweeping, claims, chain>>

\* Claim: the first caller takes the ready token; an expired one is deleted.
Claim(h) ==
  /\ Unlocked
  /\ ~closed
  /\ h \in Ready
  /\ IF Expired(h, now)
     THEN DeleteEntry(h) /\ UNCHANGED claims
     ELSE /\ entries' = [entries EXCEPT ![h].status = "inFlight"]
          /\ claims' = claims \cup {[handle |-> h, version |-> entries[h].version]}
          /\ UNCHANGED quota
  /\ UNCHANGED <<now, seq, closed, creating, sweeping, chain>>

\* Revoke: only a token nobody has claimed.
Revoke(h) ==
  /\ Unlocked
  /\ ~closed
  /\ h \in Ready
  /\ DeleteEntry(h)
  /\ UNCHANGED <<now, seq, closed, creating, sweeping, claims, chain>>

\* CleanupExpired reads the clock once and deletes what is past it, in-flight
\* tokens too.  A sweep that finds nothing changes nothing.
SweepBegin ==
  /\ Unlocked
  /\ \E h \in DOMAIN entries : Expired(h, now)
  /\ sweeping' = {now}
  /\ UNCHANGED <<now, entries, quota, seq, closed, creating, claims, chain>>

\* Mutation of SweepDelete: passes over the tokens in flight.
SweepDeleteReady(t, h) ==
  /\ h \in Ready
  /\ Expired(h, t)
  /\ DeleteEntry(h)
  /\ UNCHANGED <<now, seq, closed, creating, sweeping, claims, chain>>

SweepDelete(t, h) ==
  /\ h \in DOMAIN entries
  /\ Expired(h, t)
  /\ DeleteEntry(h)
  /\ UNCHANGED <<now, seq, closed, creating, sweeping, claims, chain>>

SweepEnd(t) ==
  /\ \A h \in DOMAIN entries : ~Expired(h, t)
  /\ sweeping' = {}
  /\ UNCHANGED <<now, entries, quota, seq, closed, creating, claims, chain>>

\* The test every finalizer starts with.
Owns(c) ==
  /\ c.handle \in DOMAIN entries
  /\ entries[c.handle].status = "inFlight"
  /\ entries[c.handle].version = c.version

SameIdentity(s, e) == s.user = e.user /\ s.ws = e.ws /\ s.conn = e.conn

RotateAllowed(e, s, valid) ==
  /\ now < e.expiresAt
  /\ valid
  /\ SameIdentity(s, e)
  /\ s.bytes <= MaxStateBytes
  /\ FitsBytes(s, s.bytes - e.bytes)

\* Mutation of SuccessorDeadline: a rotation starts a new period.
SuccessorDeadlineRenewed(e) == now + TTL

\* The deadline of the successor is that of the token it replaces.
SuccessorDeadline(e) == e.expiresAt

\* Mutation of Replace: the successor is added and the claimed token stays.
ReplaceKeepsOld(old, s, h) ==
  /\ entries' = [g \in DOMAIN entries \cup {h} |->
                   IF g = h THEN NewEntry(s, SuccessorDeadline(entries[old]))
                            ELSE entries[g]]
  /\ seq' = seq + 1
  /\ chain' = [g \in Issued \cup {h} |-> IF g = h THEN chain[old] ELSE chain[g]]
  /\ UNCHANGED quota

\* Mutation of Replace: the successor is charged as if it had the old size.
ReplaceSameBytes(old, s, h) ==
  /\ entries' = [g \in (DOMAIN entries \ {old}) \cup {h} |->
                   IF g = h THEN NewEntry(s, SuccessorDeadline(entries[old]))
                            ELSE entries[g]]
  /\ seq' = seq + 1
  /\ chain' = [g \in Issued \cup {h} |-> IF g = h THEN chain[old] ELSE chain[g]]
  /\ UNCHANGED quota

\* Rotate's success: one critical section deletes the claimed token and inserts
\* its successor in the slot it leaves.
Replace(old, s, h) ==
  LET e == entries[old]
  IN /\ entries' = [g \in (DOMAIN entries \ {old}) \cup {h} |->
                      IF g = h THEN NewEntry(s, SuccessorDeadline(e))
                               ELSE entries[g]]
     /\ count' = [k \in Account |-> IF k \in KeysOf(s) THEN CountWithout(e)[k] + 1
                                                       ELSE CountWithout(e)[k]]
     /\ bytes' = [k \in Account |-> IF k \in KeysOf(s)
                                    THEN BytesWithout(e)[k] + s.bytes
                                    ELSE BytesWithout(e)[k]]
     /\ seq' = seq + 1
     /\ chain' = [g \in Issued \cup {h} |-> IF g = h THEN chain[old] ELSE chain[g]]

\* Mutation of RotateFail: the slot is released twice, without the guard at zero.
RotateFailTwice(c) ==
  /\ entries' = [g \in DOMAIN entries \ {c.handle} |-> entries[g]]
  /\ count' = [k \in Account |-> IF k \in KeysOf(entries[c.handle])
                                 THEN count[k] - 2 ELSE count[k]]
  /\ bytes' = BytesWithout(entries[c.handle])
  /\ UNCHANGED <<seq, chain>>

\* Rotate fails: past the deadline, not an acceptable state, or no handle.  The
\* claimed token is deleted, never restored.
RotateFail(c) ==
  /\ DeleteEntry(c.handle)
  /\ UNCHANGED <<seq, chain>>

Rotate(c, s, valid) ==
  /\ Unlocked
  /\ Owns(c)
  /\ \/ /\ RotateAllowed(entries[c.handle], s, valid)
        /\ \E h \in Fresh : Replace(c.handle, s, h)
     \/ RotateFail(c)
  /\ UNCHANGED <<now, closed, creating, sweeping, claims>>

\* Mutation of Finish: a failed page gives the client its token back.
FinishRestores(c) ==
  /\ Unlocked
  /\ Owns(c)
  /\ entries' = [entries EXCEPT ![c.handle].status = "ready"]
  /\ UNCHANGED <<now, quota, seq, closed, creating, sweeping, claims, chain>>

\* Complete and Abort have the same body: no next page, or a failure, a
\* cancellation or a panic of the holder.
Finish(c) ==
  /\ Unlocked
  /\ Owns(c)
  /\ DeleteEntry(c.handle)
  /\ UNCHANGED <<now, seq, closed, creating, sweeping, claims, chain>>

\* Close drops the entries; the counters keep what they held.
Close ==
  /\ Unlocked
  /\ ~closed
  /\ closed' = TRUE
  /\ entries' = [h \in {} |-> 0]
  /\ UNCHANGED <<now, quota, seq, creating, sweeping, claims, chain>>

-----------------------------------------------------------------------------
CreateStep ==
  \E s \in creating : \/ \E h \in Handle : Evict(s, h) \/ CreateInsert(s, h)
                      \/ CreateFail(s)

SweepStep ==
  \E t \in sweeping : (\E h \in Handle : SweepDelete(t, h)) \/ SweepEnd(t)

Next ==
  \/ Tick
  \/ \E s \in State : CreateBegin(s)
  \/ CreateStep
  \/ \E h \in Handle : Claim(h) \/ Revoke(h)
  \/ SweepBegin
  \/ SweepStep
  \/ \E c \in claims, s \in State, valid \in BOOLEAN : Rotate(c, s, valid)
  \/ \E c \in claims : Finish(c)
  \/ Close

Spec == Init /\ [][Next]_vars

\* The clock advances, a holder of the mutex runs on, and cleanupLoop's ticker
\* keeps firing until Close (which empties the registry itself).  Nothing makes
\* a client use a token or a holder finish with it.
FairSpec == /\ Spec
            /\ WF_vars(Tick)
            /\ WF_vars(CreateStep)
            /\ SF_vars(SweepBegin)
            /\ WF_vars(SweepStep)

-----------------------------------------------------------------------------
TypeOK ==
  /\ now \in 0..MaxClock
  /\ DOMAIN entries \subseteq Issued
  /\ entries \in [DOMAIN entries -> EntryType]
  /\ count \in [Account -> Nat]
  /\ bytes \in [Account -> Nat]
  /\ seq \in Nat
  /\ closed \in BOOLEAN
  /\ creating \subseteq RequestType
  /\ sweeping \subseteq Nat
  /\ claims \subseteq ClaimType
  /\ Issued \subseteq Handle
  /\ chain \in [Issued -> [root : Handle, deadline : Nat]]

\* The tokens charged to an account, and one element per byte they hold.
ChargedTo(k) == {h \in DOMAIN entries : k \in KeysOf(entries[h])}
UnitsOf(k) == {u \in ChargedTo(k) \X (1..MaxStateBytes) :
                 u[2] <= entries[u[1]].bytes}

\* The counters removeQuota and addQuota keep are exactly what the live tokens
\* hold, whatever the order of evictions, sweeps, rotations and finalizers: they
\* neither drift nor go negative.
QuotaExact ==
  ~closed => \A k \in Account : /\ count[k] = Cardinality(ChargedTo(k))
                                /\ bytes[k] = Cardinality(UnitsOf(k))

\* No user, workspace, connection nor the registry as a whole ever holds more
\* tokens or bytes than its limit, rotations included (ADR-015 sections 5 and 6).
WithinLimits ==
  \A k \in Account : count[k] <= CountLimit(k) /\ bytes[k] <= ByteLimit(k)

\* The quota holds and means what it says: the counters equal what the live
\* tokens hold, and never pass their limits.
QuotaKept == QuotaExact /\ WithinLimits

\* A handle that was claimed is never ready again, and while its entry exists
\* it is the one the claim was taken on: no failure or late finalizer revives it.
ClaimedStaysClaimed ==
  \A c \in claims : c.handle \in DOMAIN entries => Owns(c)

\* At most one token of a chain is alive: rotation replaces, it does not fork.
OneTokenPerChain ==
  \A g, h \in DOMAIN entries : chain[g].root = chain[h].root => g = h

\* The deadline is absolute: however often a chain is rotated, its token expires
\* when the first one would have (ADR-015 section 6).
DeadlineAbsolute ==
  \A h \in DOMAIN entries : entries[h].expiresAt = chain[h].deadline

\* The pressure of a new token never takes a token somebody is using.
InFlightNotEvicted ==
  [][creating # {} => InFlight \subseteq InFlight']_vars

\* A token whose holder never finishes, or that is never claimed, leaves the
\* registry all the same.
EveryTokenLeaves ==
  \A h \in Handle : h \in DOMAIN entries ~> h \notin DOMAIN entries

\* The eviction loop terminates: Create always lets go of the mutex.
CreateReturns == creating # {} ~> creating = {}

\* Nothing stays for ever, neither a token nor a Create in its eviction loop.
NothingHangs == EveryTokenLeaves /\ CreateReturns

-----------------------------------------------------------------------------
\* What the invariants above rest on: one holder of the mutex at a time, nothing
\* is alive or being created once the registry is closed, every handle and chain
\* in use was issued, and no entry is larger than Create and Rotate accept.
Bookkeeping ==
  /\ closed => DOMAIN entries = {} /\ creating = {}
  /\ creating = {} \/ sweeping = {}
  /\ \A c \in claims : c.handle \in Issued
  /\ \A h \in Issued : chain[h].root \in Issued
  /\ \A h \in DOMAIN entries : entries[h].bytes <= MaxStateBytes
  /\ \A s \in creating : s.bytes <= MaxStateBytes

\* The inductive invariant.
IInv ==
  /\ TypeOK
  /\ Bookkeeping
  /\ QuotaExact
  /\ WithinLimits
  /\ ClaimedStaysClaimed
  /\ OneTokenPerChain
  /\ DeadlineAbsolute

\* The one-shot token each handle stands for.
TokenStatus == [h \in Handle |-> CASE h \in Ready    -> "ready"
                                   [] h \in InFlight -> "claimed"
                                   [] h \in Fresh    -> "unused"
                                   [] OTHER          -> "spent"]
TokenChain == [h \in Handle |-> IF h \in Issued THEN chain[h].root ELSE h]

OneShot == INSTANCE OneShotToken WITH status <- TokenStatus, chainOf <- TokenChain

\* The registry implements the one-shot token: no interleaving of clients,
\* finalizers, evictions and sweeps lets a token be used twice or come back, and
\* a rotation exchanges one token for one successor in a single step.
ImplementsOneShot == OneShot!Spec

=============================================================================
