---------------------------- MODULE PoolManager ----------------------------
(***************************************************************************)
(* AdapterManager.Get and Close (adapter/manager.go) for one connection    *)
(* id: which pool a call gets, who creates it, and who closes it.          *)
(*                                                                         *)
(* A critical section of m.mu is one action.  Outside the mutex a call     *)
(* waits on the singleflight channel of another, or connects and pings for *)
(* as long as it takes; goroutines close replaced pools in the background. *)
(* The state of different connection ids is disjoint except for `closed'   *)
(* and genCounter, so one is enough.                                       *)
(***************************************************************************)
EXTENDS Integers, FiniteSets

CONSTANTS
  Call,     \* the calls of Get, each made once
  Config,   \* what compareConfig tells apart in a ConnectConfig
  MaxRev    \* bound: the ConfigRevisions callers pass are 0..MaxRev

ASSUME MaxRevNatural == MaxRev \in Nat
ASSUME CallsFinite == IsFiniteSet(Call)

Revision == 0..MaxRev

VARIABLES
  closed,
  pool,        \* m.pools[cid]: the set holding its generation, or {}
  currentRev,  \* m.currentRevs[cid], 0 when absent
  currentCfg,  \* m.currentCfgs[cid]: a set of at most one configuration
  creating,    \* the channel in m.creating, named after the call that stored
               \* it: a set of at most one call
  signalled,   \* the channels that were closed
  genCounter,
  entry,       \* every pool that was connected: a partial function on generations
  reaping,     \* pools a background goroutine is about to close
  pc, req, awaits, gen, result   \* the progress of each call

vars == <<closed, pool, currentRev, currentCfg, creating, signalled, genCounter,
          entry, reaping, pc, req, awaits, gen, result>>
mvars == <<closed, pool, currentRev, currentCfg, creating, signalled>>

Steps == {"start", "waiting", "dialing", "pinging", "opened", "done"}
PoolState == {"open", "draining", "closed"}
Errors == {"pool_closed", "stale_config", "config_conflict", "create_failed",
           "canceled"}
Pending == "pending"

Usable(g) == entry[g].state # "closed"    \* !ex.isClosed()

Init ==
  /\ closed = FALSE
  /\ pool = {}
  /\ currentRev = 0
  /\ currentCfg = {}
  /\ creating = {}
  /\ signalled = {}
  /\ genCounter = 0
  /\ entry = [g \in {} |-> 0]
  /\ reaping = {}
  /\ pc = [c \in Call |-> "start"]
  /\ req \in [Call -> [rev : Revision, cfg : Config]]
  /\ awaits = [c \in Call |-> {}]
  /\ gen = [c \in Call |-> 0]
  /\ result = [c \in Call |-> Pending]

\* Return of a call with an error, or with a handle of pool g.
Fail(c, err) ==
  /\ pc' = [pc EXCEPT ![c] = "done"]
  /\ result' = [result EXCEPT ![c] = err]
  /\ UNCHANGED gen

Hand(c, g) ==
  /\ pc' = [pc EXCEPT ![c] = "done"]
  /\ gen' = [gen EXCEPT ![c] = g]
  /\ result' = [result EXCEPT ![c] = "handle"]

Goto(c, step) ==
  /\ pc' = [pc EXCEPT ![c] = step]
  /\ UNCHANGED <<gen, result>>

\* The pool a call of this revision would share.
Registered(c) == {g \in pool : req[c].rev = currentRev /\ Usable(g)}

\* Mutation of SameConfig: any registered pool of the revision is shared.
SameConfigUnchecked(c) == TRUE

SameConfig(c) == currentCfg = {req[c].cfg}

\* A registered pool of the same revision is shared, or refused when it was
\* created for another configuration.
ShareOrConflict(c) ==
  \E g \in Registered(c) : IF SameConfig(c) THEN Hand(c, g)
                                           ELSE Fail(c, "config_conflict")

-----------------------------------------------------------------------------
(* Get, up to creating a pool.                                             *)

\* The first critical section.
GetStart(c) ==
  /\ pc[c] = "start"
  /\ \/ closed /\ Fail(c, "pool_closed") /\ UNCHANGED <<creating, awaits>>
     \/ ~closed /\ req[c].rev < currentRev
        /\ Fail(c, "stale_config") /\ UNCHANGED <<creating, awaits>>
     \/ ~closed /\ Registered(c) # {}
        /\ ShareOrConflict(c) /\ UNCHANGED <<creating, awaits>>
     \/ /\ ~closed /\ req[c].rev >= currentRev /\ Registered(c) = {}
        /\ \/ /\ creating = {}
              /\ creating' = {c}
              /\ Goto(c, "dialing")
              /\ UNCHANGED awaits
           \/ /\ creating # {}
              /\ awaits' = [awaits EXCEPT ![c] = creating]
              /\ Goto(c, "waiting")
              /\ UNCHANGED creating
  /\ UNCHANGED <<closed, pool, currentRev, currentCfg, signalled, genCounter,
                 entry, reaping, req>>

\* The channel was closed: the critical section after the wait.  A call with a
\* newer revision goes on to create a pool without storing a channel.
Retry(c) ==
  /\ pc[c] = "waiting"
  /\ awaits[c] \subseteq signalled
  /\ CASE closed -> Fail(c, "pool_closed")
       [] ~closed /\ req[c].rev < currentRev -> Fail(c, "stale_config")
       [] ~closed /\ req[c].rev > currentRev -> Goto(c, "dialing")
       [] OTHER -> \/ ShareOrConflict(c)
                   \/ Registered(c) = {} /\ Fail(c, "config_conflict")
  /\ UNCHANGED <<mvars, genCounter, entry, reaping, req, awaits>>

\* The context of a waiting call ends.
Cancel(c) ==
  /\ pc[c] = "waiting"
  /\ Fail(c, "canceled")
  /\ UNCHANGED <<mvars, genCounter, entry, reaping, req, awaits>>

-----------------------------------------------------------------------------
(* createPool, outside the mutex.                                          *)

\* Mutation of Dial: the pool gets the generation handed out before.
DialLastGeneration(c) ==
  /\ pc[c] = "dialing"
  /\ genCounter' = genCounter + 1
  /\ gen' = [gen EXCEPT ![c] = genCounter]
  /\ pc' = [pc EXCEPT ![c] = "pinging"]
  /\ UNCHANGED <<mvars, entry, reaping, req, awaits, result>>

\* The configuration is acceptable and the pool gets its generation.
Dial(c) ==
  /\ pc[c] = "dialing"
  /\ genCounter' = genCounter + 1
  /\ gen' = [gen EXCEPT ![c] = genCounter + 1]
  /\ pc' = [pc EXCEPT ![c] = "pinging"]
  /\ UNCHANGED <<mvars, entry, reaping, req, awaits, result>>

\* The database answered.
Connect(c) ==
  /\ pc[c] = "pinging"
  /\ entry' = [g \in DOMAIN entry \cup {gen[c]} |->
                 IF g = gen[c] THEN [rev |-> req[c].rev, cfg |-> req[c].cfg,
                                     state |-> "open"]
                               ELSE entry[g]]
  /\ pc' = [pc EXCEPT ![c] = "opened"]
  /\ UNCHANGED <<mvars, genCounter, reaping, req, awaits, gen, result>>

\* Mutation of Signal: the channel is removed but not closed.
SignalForgotten == creating' = {} /\ UNCHANGED signalled

\* Whatever channel is in m.creating is closed and removed, its own or not.
Signal == /\ signalled' = signalled \cup creating
          /\ creating' = {}

\* The configuration is refused, or connecting or the ping fails, times out or
\* is cancelled.
CreateFails(c) ==
  /\ pc[c] \in {"dialing", "pinging"}
  /\ Signal
  /\ Fail(c, "create_failed")
  /\ UNCHANGED <<closed, pool, currentRev, currentCfg, genCounter, entry,
                 reaping, req, awaits>>

-----------------------------------------------------------------------------
(* The critical section after createPool.                                  *)

SetState(g, state) == entry' = [entry EXCEPT ![g].state = state]

\* Mutation of Discard: the pool that lost the race is not closed.
DiscardLeaks(c) == UNCHANGED <<entry, pool, currentRev, currentCfg, reaping>>

\* The new pool is not needed: it is closed at once.
Discard(c) ==
  /\ SetState(gen[c], "closed")
  /\ UNCHANGED <<pool, currentRev, currentCfg, reaping>>

Stale(c) == req[c].rev < currentRev

\* Mutation of Install: the old pool is replaced without being drained or closed.
InstallForgetsOld(c) ==
  /\ pool' = {gen[c]}
  /\ currentRev' = req[c].rev
  /\ currentCfg' = {req[c].cfg}
  /\ Hand(c, gen[c])
  /\ UNCHANGED <<entry, reaping>>

\* The new pool replaces the registered one, which is drained and left to a
\* goroutine to close.
Install(c) ==
  /\ entry' = [g \in DOMAIN entry |-> IF g \in pool /\ Usable(g)
                                      THEN [entry[g] EXCEPT !.state = "draining"]
                                      ELSE entry[g]]
  /\ reaping' = reaping \cup {g \in pool : Usable(g)}
  /\ pool' = {gen[c]}
  /\ currentRev' = req[c].rev
  /\ currentCfg' = {req[c].cfg}
  /\ Hand(c, gen[c])

Register(c) ==
  /\ pc[c] = "opened"
  /\ Signal
  /\ CASE closed -> Discard(c) /\ Fail(c, "pool_closed")
       [] ~closed /\ Stale(c) -> Discard(c) /\ Fail(c, "stale_config")
       [] ~closed /\ ~Stale(c) /\ Registered(c) # {} ->
            Discard(c) /\ ShareOrConflict(c)
       [] OTHER -> Install(c)
  /\ UNCHANGED <<closed, genCounter, req, awaits>>

-----------------------------------------------------------------------------
(* Closing.                                                                *)

\* AdapterManager.Close: the registered pools are handed to goroutines.
Close ==
  /\ ~closed
  /\ closed' = TRUE
  /\ reaping' = reaping \cup pool
  /\ UNCHANGED <<pool, currentRev, currentCfg, creating, signalled, genCounter,
                 entry, pc, req, awaits, gen, result>>

\* Mutation of Reap: the pool is drained and never closed.
ReapDrainsOnly(g) ==
  /\ SetState(g, "draining")
  /\ reaping' = reaping \ {g}
  /\ UNCHANGED <<mvars, genCounter, pc, req, awaits, gen, result>>

\* A goroutine drains, then closes, the pool it was given.
Reap(g) ==
  /\ IF entry[g].state = "open"
     THEN SetState(g, "draining") /\ UNCHANGED reaping
     ELSE SetState(g, "closed") /\ reaping' = reaping \ {g}
  /\ UNCHANGED <<mvars, genCounter, pc, req, awaits, gen, result>>

Next ==
  \/ \E c \in Call : \/ GetStart(c) \/ Retry(c) \/ Cancel(c)
                     \/ Dial(c) \/ Connect(c) \/ CreateFails(c) \/ Register(c)
  \/ \E g \in reaping : Reap(g)
  \/ Close

Spec == Init /\ [][Next]_vars

\* A call never idles: createPool ends within its ping timeout, a closed channel
\* wakes its waiters, a mutex is granted.  Background goroutines run.  A caller's
\* context need not end, and Close need not be called.
Fairness ==
  /\ \A c \in Call : /\ WF_vars(GetStart(c))
                     /\ WF_vars(Retry(c))
                     /\ WF_vars(Dial(c) \/ Connect(c) \/ CreateFails(c))
                     /\ WF_vars(Register(c))
  /\ WF_vars(\E g \in reaping : Reap(g))

FairSpec == Spec /\ Fairness

-----------------------------------------------------------------------------
TypeOK ==
  /\ closed \in BOOLEAN
  /\ currentRev \in Revision
  /\ currentCfg \subseteq Config
  /\ creating \subseteq Call /\ signalled \subseteq Call
  /\ genCounter \in Nat
  /\ DOMAIN entry \subseteq 1..genCounter
  /\ entry \in [DOMAIN entry -> [rev : Revision, cfg : Config, state : PoolState]]
  /\ pool \subseteq DOMAIN entry /\ reaping \subseteq DOMAIN entry
  /\ pc \in [Call -> Steps]
  /\ req \in [Call -> [rev : Revision, cfg : Config]]
  /\ awaits \in [Call -> SUBSET Call]
  /\ gen \in [Call -> 0..genCounter]
  /\ result \in [Call -> Errors \cup {Pending, "handle"}]

Opened(c) == pc[c] = "opened"
Served(c) == result[c] = "handle"

\* Every connected pool is registered, being closed, closed, or in the hands of
\* the one call that is about to register it: a lost race leaks no connections.
NoPoolLeaks ==
  \A g \in DOMAIN entry :
    \/ entry[g].state = "closed" \/ g \in reaping
    \/ g \in pool /\ ~closed
    \/ \E c \in Call : Opened(c) /\ gen[c] = g

\* A call is never handed a pool connected with another configuration or
\* another revision than it asked for.
HandleMatchesRequest ==
  \A c \in Call : Served(c) => /\ entry[gen[c]].cfg = req[c].cfg
                               /\ entry[gen[c]].rev = req[c].rev

\* Of all pools ever handed out at most one still accepts queries: a replaced
\* configuration stops serving in the step that installs its successor.
OneServingPool ==
  \A c, d \in Call :
    Served(c) /\ Served(d) /\ entry[gen[c]].state = "open"
      /\ entry[gen[d]].state = "open" => gen[c] = gen[d]

\* A call that waits has somebody to wake it: the call it waits for is still
\* creating its pool under the registered channel, or has closed the channel.
WaitersAreServed ==
  \A c \in Call : pc[c] = "waiting" =>
    \A d \in awaits[c] :
      d \in signalled \/ (creating = {d} /\ pc[d] \in {"dialing", "pinging", "opened"})

\* The registered revision of a connection only grows: a slow creator never puts
\* an old configuration back.
RevisionNeverRegresses == [][currentRev' >= currentRev]_currentRev

\* Every Get returns.
GetReturns == \A c \in Call : pc[c] # "done" ~> pc[c] = "done"

\* Once the manager is closed no pool stays connected, those of calls that were
\* still connecting included.
CloseReleasesPools ==
  \A g \in 1..Cardinality(Call) :
    closed /\ g \in DOMAIN entry ~> g \in DOMAIN entry /\ entry[g].state = "closed"

=============================================================================
