----------------------------- MODULE Admission -----------------------------
(***************************************************************************)
(* AdmissionController (adapter/admission.go): how many queries run at the *)
(* same time for a user, a workspace and a connection.                     *)
(*                                                                         *)
(* TryAcquire runs under ac.mu but increments three limiters one after the *)
(* other, each under its own lock; Permit.Release takes only those locks,  *)
(* so its three decrements fall between the increments of other calls.     *)
(* Each of them is a step.                                                 *)
(***************************************************************************)
EXTENDS Integers, FiniteSets

CONSTANTS
  Call,                        \* the queries of pool handles, each made once
  User, Workspace, Connection,
  MaxUser, MaxWorkspace, MaxConn

Limiter == User \cup Workspace \cup Connection

ASSUME LimitersDisjoint ==
  /\ User \cap Workspace = {} /\ User \cap Connection = {}
  /\ Workspace \cap Connection = {}
ASSUME LimitsPositive == {MaxUser, MaxWorkspace, MaxConn} \subseteq Nat \ {0}
ASSUME CallsFinite == IsFiniteSet(Call)

VARIABLES
  closed,
  count,     \* of every limiter; a limiter ensure has not made yet counts 0
  scope,     \* the user, workspace and connection of each call
  holder,    \* the call inside TryAcquire, which holds ac.mu: at most one
  pc

vars == <<closed, count, scope, holder, pc>>

\* A call is idle, inside TryAcquire (named after the next limiter to take or to
\* give back), running with its permit, inside Release, or over.
Steps == {"idle", "takeUser", "takeWs", "takeConn", "undoWs", "undoUser",
          "running", "dropConn", "dropWs", "dropUser", "released", "refused"}

MaxOf(l) == CASE l \in User      -> MaxUser
              [] l \in Workspace -> MaxWorkspace
              [] OTHER           -> MaxConn

Goto(c, step) == pc' = [pc EXCEPT ![c] = step]

\* limiter.tryInc, which also says where the call goes on.
TryInc(c, l, taken, full) ==
  IF count[l] >= MaxOf(l)
  THEN Goto(c, full) /\ UNCHANGED count
  ELSE Goto(c, taken) /\ count' = [count EXCEPT ![l] = @ + 1]

\* limiter.dec.
Dec(l) == count' = [count EXCEPT ![l] = IF @ > 0 THEN @ - 1 ELSE @]

Init ==
  /\ closed = FALSE
  /\ count = [l \in Limiter |-> 0]
  /\ scope \in [Call -> [user : User, ws : Workspace, conn : Connection]]
  /\ holder = {}
  /\ pc = [c \in Call |-> "idle"]

-----------------------------------------------------------------------------
(* TryAcquire.                                                             *)

Enter(c) ==
  /\ pc[c] = "idle"
  /\ holder = {}
  /\ IF closed THEN Goto(c, "refused") /\ UNCHANGED holder
               ELSE Goto(c, "takeUser") /\ holder' = {c}
  /\ UNCHANGED <<closed, count, scope>>

TakeUser(c) ==
  /\ pc[c] = "takeUser"
  /\ TryInc(c, scope[c].user, "takeWs", "refused")
  /\ holder' = IF pc'[c] = "refused" THEN {} ELSE holder
  /\ UNCHANGED <<closed, scope>>

TakeWs(c) ==
  /\ pc[c] = "takeWs"
  /\ TryInc(c, scope[c].ws, "takeConn", "undoUser")
  /\ UNCHANGED <<closed, scope, holder>>

\* Mutation of TakeConn: a full connection gives back the workspace only.
TakeConnKeepsUser(c) ==
  /\ pc[c] = "takeConn"
  /\ IF count[scope[c].conn] >= MaxConn
     THEN Goto(c, "refused") /\ Dec(scope[c].ws)
     ELSE /\ Goto(c, "running")
          /\ count' = [count EXCEPT ![scope[c].conn] = @ + 1]
  /\ holder' = {}
  /\ UNCHANGED <<closed, scope>>

TakeConn(c) ==
  /\ pc[c] = "takeConn"
  /\ TryInc(c, scope[c].conn, "running", "undoWs")
  /\ holder' = IF pc'[c] = "running" THEN {} ELSE holder
  /\ UNCHANGED <<closed, scope>>

UndoWs(c) ==
  /\ pc[c] = "undoWs"
  /\ Dec(scope[c].ws)
  /\ Goto(c, "undoUser")
  /\ UNCHANGED <<closed, scope, holder>>

UndoUser(c) ==
  /\ pc[c] = "undoUser"
  /\ Dec(scope[c].user)
  /\ Goto(c, "refused")
  /\ holder' = {}
  /\ UNCHANGED <<closed, scope>>

-----------------------------------------------------------------------------
(* Permit.Release, which sets `released' first: a second call is a no-op.  *)

\* Mutation of Release: the released flag is not looked at.
ReleaseAgain(c) ==
  /\ pc[c] \in {"running", "released"}
  /\ Dec(scope[c].conn)
  /\ Goto(c, "dropWs")
  /\ UNCHANGED <<closed, scope, holder>>

Release(c) ==
  /\ pc[c] = "running"
  /\ Goto(c, "dropConn")
  /\ UNCHANGED <<closed, count, scope, holder>>

DropConn(c) ==
  /\ pc[c] = "dropConn"
  /\ Dec(scope[c].conn)
  /\ Goto(c, "dropWs")
  /\ UNCHANGED <<closed, scope, holder>>

DropWs(c) ==
  /\ pc[c] = "dropWs"
  /\ Dec(scope[c].ws)
  /\ Goto(c, "dropUser")
  /\ UNCHANGED <<closed, scope, holder>>

DropUser(c) ==
  /\ pc[c] = "dropUser"
  /\ Dec(scope[c].user)
  /\ Goto(c, "released")
  /\ UNCHANGED <<closed, scope, holder>>

\* AdapterManager.Close; the permits given out stay valid.
Close ==
  /\ ~closed
  /\ holder = {}
  /\ closed' = TRUE
  /\ UNCHANGED <<count, scope, holder, pc>>

CallStep(c) ==
  \/ Enter(c) \/ TakeUser(c) \/ TakeWs(c) \/ TakeConn(c) \/ UndoWs(c) \/ UndoUser(c)
  \/ Release(c) \/ DropConn(c) \/ DropWs(c) \/ DropUser(c)

Next == Close \/ \E c \in Call : CallStep(c)

Spec == Init /\ [][Next]_vars

\* ac.mu is granted to whoever waits for it again and again, and a query ends
\* within its deadline; its permit is released by a defer.
FairSpec == Spec /\ \A c \in Call : /\ SF_vars(Enter(c))
                                    /\ WF_vars(~ (pc[c] = "idle") /\ CallStep(c))

-----------------------------------------------------------------------------
TypeOK ==
  /\ closed \in BOOLEAN
  /\ count \in [Limiter -> Nat]
  /\ scope \in [Call -> [user : User, ws : Workspace, conn : Connection]]
  /\ holder \subseteq Call
  /\ pc \in [Call -> Steps]

\* Where a call must be for its slot of each dimension to be taken.
HoldsUser == {"takeWs", "takeConn", "undoWs", "undoUser", "running", "dropConn",
              "dropWs", "dropUser"}
HoldsWs == {"takeConn", "undoWs", "running", "dropConn", "dropWs"}
HoldsConn == {"running", "dropConn"}

Holders(l) == {c \in Call : \/ scope[c].user = l /\ pc[c] \in HoldsUser
                            \/ scope[c].ws = l /\ pc[c] \in HoldsWs
                            \/ scope[c].conn = l /\ pc[c] \in HoldsConn}

\* Every limiter counts exactly the calls that hold one of its slots, whatever
\* rollback and release steps interleave: no slot is lost, none is freed twice.
SlotsExact == \A l \in Limiter : count[l] = Cardinality(Holders(l))

Running(l) == {c \in Call : pc[c] = "running"
                            /\ l \in {scope[c].user, scope[c].ws, scope[c].conn}}

\* No user, workspace or connection ever runs more queries than it may.
ConcurrencyBounded == \A l \in Limiter : Cardinality(Running(l)) <= MaxOf(l)

\* TryAcquire never deadlocks on its locks and every call ends, with its slots
\* given back: once all calls are over all limiters are at zero again.
SlotsReturn == <>[](/\ \A c \in Call : pc[c] \in {"released", "refused"}
                    /\ \A l \in Limiter : count[l] = 0)

=============================================================================
