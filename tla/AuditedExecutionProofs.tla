--------------------- MODULE AuditedExecutionProofs ----------------------
(***************************************************************************)
(* Proofs about the execution pipeline, for any number of calls of Execute *)
(* and ExecuteNextPage, of metadata faults, changes and crashes: rows and  *)
(* tokens leave only after their page was audited; an execution has one    *)
(* audit event that agrees with its status, or a second one that takes     *)
(* back a success, or an alarm; and a token does not carry an              *)
(* authorization along.                                                    *)
(*                                                                         *)
(* The invariant says what the database has on record of a call at each of *)
(* its steps, and what its token may be.  A step of one call disturbs the  *)
(* others only by what it does to tokens; OthersKeep shows that a token    *)
(* moves one way only and that a call whose token is in use has returned.  *)
(***************************************************************************)
EXTENDS AuditedExecution, SequenceTheorems, TLAPS

-----------------------------------------------------------------------------
(* The invariant.                                                          *)

Seen == [version : Nat, config : Nat]
Start == [member : BOOLEAN, version : Nat, config : Nat]
Step == {"start", "admitted", "pending", "authorized", "resolved", "refuse", "credfail",
         "claimed", "member", "rechecked", "begun", "running", "connected", "queried",
         "record", "append", "recorded", "finalize", "done", "crashed"}
Progress == [pc : Step, verdict : Verdict, canceled : BOOLEAN, uses : SUBSET Request,
             seen : Seen, touched : BOOLEAN, alarmed : BOOLEAN, reply : Reply,
             data : BOOLEAN, published : BOOLEAN, since : Start]

Types ==
  /\ exec \in [Request -> {"none", "pending", "running"} \cup Terminal]
  /\ audit \in [Request -> Seq(Outcome)]
  /\ member \in BOOLEAN /\ version \in Nat /\ config \in Nat
  /\ faults \in Nat /\ changes \in Nat /\ crashes \in Nat
  /\ token \in [Request -> {"unused", "ready", "claimed", "spent"}]
  /\ call \in [Request -> Progress]

\* What is on record of a call by its step.
Unrecorded == {"start", "admitted", "claimed", "member", "rechecked"}
Begun == {"pending", "authorized", "resolved", "refuse"}
Working == {"begun", "running", "connected", "queried"}
Recording == {"record", "append", "recorded"}
Over == {"credfail", "finalize", "done"}

\* The page was recorded as read.
Audited(r) == exec[r] = "completed" /\ audit[r] = <<"succeeded">>

\* A following page that panicked; it may have been recorded before.
Again(r) == r \in Follow /\ call[r].verdict = "panic"

OnRecord(r) ==
  /\ call[r].pc \in Unrecorded => exec[r] = "none"
  /\ call[r].pc \in Begun => exec[r] = "pending"
  /\ call[r].pc \in Working => exec[r] = "running"
  /\ call[r].pc \in {"credfail", "finalize"} => exec[r] \in {"pending", "running"}
  /\ call[r].pc \in {"append", "recorded"} => exec[r] = StatusOf(call[r].verdict)
  /\ call[r].pc \notin Recording \cup {"done", "crashed"} => audit[r] = <<>>
  /\ call[r].pc = "record" =>
       (exec[r] = "running" /\ audit[r] = <<>>) \/ (Again(r) /\ Audited(r))
  /\ call[r].pc = "append" =>
       audit[r] = <<>> \/ (Again(r) /\ audit[r] = <<"succeeded">>)
  /\ call[r].pc = "recorded" =>
       \/ audit[r] = <<OutcomeOf(call[r].verdict)>>
       \/ Again(r) /\ audit[r] = <<"succeeded", "failed">>

\* The verdict of a call by its step.
Judged(r) ==
  /\ call[r].pc = "start" => call[r].verdict = "none" /\ call[r].uses = {}
  /\ call[r].pc \in {"refuse", "credfail"} => call[r].verdict \in {"denied", "failed"}
  /\ call[r].pc \in Begun \cup {"admitted", "queried", "finalize"} => r \in First
  /\ \A s, t \in call[r].uses : s = t

\* An audit event agrees with the status of its execution; one that does not says
\* what was taken back.
Answered(r) == \E o \in Outcome : audit[r] = <<o>> /\ exec[r] = StatusFor(o)
TakenBack(r) ==
  /\ Again(r) /\ exec[r] = "failed"
  /\ audit[r] \in {<<"succeeded">>, <<"succeeded", "failed">>}
Agrees(r) == audit[r] = <<>> \/ Answered(r) \/ TakenBack(r)

\* A call that returned has ended its execution or raised an alarm, and a target
\* is reached under a running execution.
Traced(r) ==
  /\ call[r].touched => exec[r] \in {"running"} \cup Terminal
  /\ Done(r) /\ exec[r] # "none" =>
       call[r].alarmed \/ Answered(r) \/ Overturned(r)

\* Rows are kept by a call that succeeded, until they cannot be recorded.
Rows(r) ==
  call[r].data => /\ call[r].pc \in Recording \cup {"done"}
                  /\ call[r].verdict = "succeeded"
                  /\ Done(r) => Audited(r)

\* What was read of the access rights is no older than the call.
Fresh(r) ==
  LET c == call[r] IN
  /\ c.since.version <= version /\ c.since.config <= config /\ (member => c.since.member)
  /\ r \in First => c.uses = {}
  /\ c.pc \in {"admitted", "pending", "authorized", "resolved", "member", "rechecked",
               "begun", "running", "connected", "queried"} =>
       c.since.member /\ c.seen.config >= c.since.config
  /\ r \in Follow /\ c.pc \in {"rechecked", "begun", "running", "connected"} =>
       \A t \in c.uses : call[t].seen.version >= c.since.version
  /\ c.verdict = "succeeded" =>
       /\ c.since.member
       /\ \A t \in c.uses : /\ call[t].seen.version >= c.since.version
                            /\ call[t].seen.config >= c.since.config

\* The token a call created, and the one it claimed.
Tokens(r) ==
  /\ token[r] # "unused" =>
       /\ call[r].verdict = "succeeded"
       /\ call[r].pc \in {"done", "crashed"} \/ (call[r].pc \in Recording /\ r \in First)
  /\ call[r].published => Done(r) /\ Audited(r) /\ call[r].verdict = "succeeded"
  /\ token[r] = "claimed" => call[r].published
  /\ call[r].pc \in {"done", "crashed"} /\ token[r] = "ready" => call[r].published
  /\ \A t \in call[r].uses : token[t] \in {"claimed", "spent"} /\ call[t].published
  /\ call[r].pc \in Over => \A t \in call[r].uses : token[t] = "spent"

Known(r) ==
  /\ OnRecord(r) /\ Judged(r) /\ Agrees(r) /\ Traced(r)
  /\ Rows(r) /\ Fresh(r) /\ Tokens(r)

IInv == Types /\ \A r \in Request : Known(r)

-----------------------------------------------------------------------------
(* A step of one call, seen from the others.                               *)

\* A token that is not the call's own is taken or spent, and nothing else.
TokenMoves(x) ==
  \/ token'[x] = token[x]
  \/ token[x] = "ready" /\ token'[x] = "claimed" /\ call[x].published
  \/ token[x] \in {"ready", "claimed"} /\ token'[x] = "spent"

Moves(r) ==
  /\ call[r].pc \notin {"done", "crashed"}
  /\ member' = member /\ version' = version /\ config' = config
  /\ \A u \in Request \ {r} :
       /\ call'[u] = call[u] /\ exec'[u] = exec[u] /\ audit'[u] = audit[u]
       /\ TokenMoves(u)

\* The call whose token is in use has returned.
LEMMA UsedReturned ==
  ASSUME IInv, NEW u \in Request, NEW t \in call[u].uses
  PROVE  t \in Request /\ Done(t)
<1>1. t \in Request
  BY DEF IInv, Types, Progress
<1> QED BY <1>1 DEF IInv, Known, Tokens

LEMMA OthersKeep ==
  ASSUME IInv, NEW r \in Request, Moves(r), NEW u \in Request \ {r}
  PROVE  Known(u)'
<1>1. Known(u)
  BY DEF IInv
<1>2. call'[u] = call[u] /\ exec'[u] = exec[u] /\ audit'[u] = audit[u] /\ TokenMoves(u)
      /\ member' = member /\ version' = version /\ config' = config
  BY DEF Moves
<1>3. \A t \in call[u].uses :
        t \in Request /\ call'[t] = call[t] /\ TokenMoves(t) /\ token[t] \in {"claimed", "spent"}
  <2>1. \A t \in call[u].uses : t \in Request /\ t # r
    BY UsedReturned DEF Moves, Done, At
  <2> QED BY <1>1, <2>1 DEF Moves, Known, Tokens
<1>4. (OnRecord(u) /\ Judged(u) /\ Agrees(u))'
  BY <1>1, <1>2 DEF Known, OnRecord, Judged, Agrees, Answered, TakenBack, Again, Audited
<1>5. (Traced(u) /\ Rows(u))'
  BY <1>1, <1>2 DEF Known, Traced, Rows, Answered, Overturned, Audited, Done, At
<1>6. Fresh(u)'
  BY <1>1, <1>2, <1>3 DEF Known, Fresh
<1>7. Tokens(u)'
  BY <1>1, <1>2, <1>3 DEF Known, Tokens, TokenMoves, Audited, Done, At
<1> QED BY <1>4, <1>5, <1>6, <1>7 DEF Known

LEMMA StepKeeps ==
  ASSUME IInv, Types', NEW r \in Request, Moves(r), Known(r)'
  PROVE  IInv'
BY OthersKeep DEF IInv

\* How tokens move.
LEMMA DropMoves ==
  ASSUME IInv, NEW S, Registry!Drop(S)
  PROVE  /\ token' \in [Request -> {"unused", "ready", "claimed", "spent"}]
         /\ \A x \in Request : TokenMoves(x)
         /\ \A x \in Request : token'[x] = IF x \in S THEN "spent" ELSE token[x]
BY DEF Registry!Drop, Registry!Live, TokenMoves, IInv, Types

LEMMA AbortMoves ==
  ASSUME IInv, NEW r \in Request, Abort(r)
  PROVE  /\ token' \in [Request -> {"unused", "ready", "claimed", "spent"}]
         /\ \A x \in Request : TokenMoves(x)
         /\ \A x \in Request : x \notin call[r].uses => token'[x] = token[x]
         /\ \A x \in call[r].uses : token'[x] = "spent"
         /\ call[r].pc \notin {"done", "crashed"} => token'[r] = token[r]
<1>1. /\ token' \in [Request -> {"unused", "ready", "claimed", "spent"}]
      /\ \A x \in Request : TokenMoves(x)
      /\ \A x \in Request : token'[x] = IF x \in call[r].uses \cap Registry!Live THEN "spent"
                                        ELSE token[x]
  BY DropMoves DEF Abort
<1>2. \A x \in call[r].uses : x \in Request /\ token[x] \in {"claimed", "spent"} /\ Done(x)
  BY UsedReturned DEF IInv, Known, Tokens
<1> QED BY <1>1, <1>2 DEF Registry!Live, Done, At

LEMMA TxFaults ==
  ASSUME IInv, NEW r \in Request, NEW bound \in BOOLEAN, NEW o \in Ends, Tx(r, bound, o)
  PROVE  faults' \in Nat
BY DEF Tx, IInv, Types

-----------------------------------------------------------------------------
(* What a step of a call is made of: what happens elsewhere, and what       *)
(* becomes of the call.                                                     *)

Elsewhere(r) ==
  /\ member' = member /\ version' = version /\ config' = config
  /\ changes' = changes /\ crashes' = crashes /\ faults' \in Nat
  /\ exec' \in [Request -> {"none", "pending", "running"} \cup Terminal]
  /\ audit' \in [Request -> Seq(Outcome)]
  /\ token' \in [Request -> {"unused", "ready", "claimed", "spent"}]
  /\ \A u \in Request \ {r} : exec'[u] = exec[u] /\ audit'[u] = audit[u] /\ TokenMoves(u)

LEMMA Unwritten ==
  ASSUME IInv, NEW r \in Request, UNCHANGED db
  PROVE  /\ exec' = exec /\ audit' = audit /\ faults' = faults
         /\ UNCHANGED env /\ UNCHANGED registry => Elsewhere(r)
         /\ UNCHANGED env /\ Abort(r) => Elsewhere(r)
<1>1. exec' = exec /\ audit' = audit /\ faults' = faults
  BY DEF db
<1>2. ASSUME UNCHANGED env, UNCHANGED registry PROVE Elsewhere(r)
  BY <1>1, <1>2 DEF Elsewhere, env, registry, IInv, Types, TokenMoves
<1>3. ASSUME UNCHANGED env, Abort(r) PROVE Elsewhere(r)
  <2>1. /\ token' \in [Request -> {"unused", "ready", "claimed", "spent"}]
        /\ \A x \in Request : TokenMoves(x)
    BY <1>3, AbortMoves
  <2>2. member' = member /\ version' = version /\ config' = config
        /\ changes' = changes /\ crashes' = crashes
    BY <1>3 DEF env
  <2> QED BY <1>1, <2>1, <2>2 DEF Elsewhere, IInv, Types
<1> QED BY <1>1, <1>2, <1>3

\* What a transaction leaves alone.
LEMMA Around ==
  ASSUME IInv, NEW r \in Request, NEW bound \in BOOLEAN, NEW o \in Ends, Tx(r, bound, o),
         UNCHANGED env, UNCHANGED registry \/ Abort(r)
  PROVE  /\ faults' \in Nat /\ member' = member /\ version' = version /\ config' = config
         /\ changes' = changes /\ crashes' = crashes
         /\ token' \in [Request -> {"unused", "ready", "claimed", "spent"}]
         /\ \A x \in Request : TokenMoves(x)
<1>1. faults' \in Nat /\ member' = member /\ version' = version /\ config' = config
      /\ changes' = changes /\ crashes' = crashes
  BY TxFaults DEF env
<1>2. CASE UNCHANGED registry
  BY <1>1, <1>2 DEF registry, TokenMoves, IInv, Types
<1>3. CASE Abort(r)
  BY <1>1, <1>3, AbortMoves
<1> QED BY <1>2, <1>3

\* A call under way: it has handed out nothing, and has no rows before the end.
LEMMA UnderWay ==
  ASSUME IInv, NEW r \in Request, call[r].pc \notin {"done", "crashed"}
  PROVE  /\ call[r] \in Progress /\ ~call[r].published /\ token[r] # "claimed"
         /\ call[r].pc \notin Recording => token[r] = "unused" /\ ~call[r].data
         /\ \A t \in call[r].uses : t \in Request /\ t # r /\ Done(t)
         /\ call[r].pc \notin Recording => audit[r] = <<>>
<1>1. Known(r) /\ call[r] \in Progress /\ token[r] \in {"unused", "ready", "claimed", "spent"}
  BY DEF IInv, Types
<1>2. \A t \in call[r].uses : t \in Request /\ t # r /\ Done(t)
  BY UsedReturned DEF Done, At
<1>3. ~call[r].published
  BY <1>1 DEF Known, Tokens, Done, At
<1>4. call[r].pc \notin Recording => token[r] = "unused" /\ ~call[r].data
  BY <1>1 DEF Known, Tokens, Rows
<1> QED BY <1>1, <1>2, <1>3, <1>4 DEF Known, Tokens, OnRecord

LEMMA Becomes ==
  ASSUME IInv, NEW r \in Request, NEW n \in Progress, call' = [call EXCEPT ![r] = n],
         Elsewhere(r), call[r].pc \notin {"done", "crashed"}
  PROVE  /\ Types' /\ Moves(r) /\ call'[r] = n
         /\ \A t \in call[r].uses : t \in Request /\ t # r /\ call'[t] = call[t]
<1>1. /\ call' \in [Request -> Progress] /\ call'[r] = n
      /\ \A u \in Request \ {r} : call'[u] = call[u]
  BY DEF IInv, Types
<1>2. Types'
  BY <1>1 DEF IInv, Types, Elsewhere
<1>3. Moves(r)
  BY <1>1 DEF Moves, Elsewhere
<1>4. \A t \in call[r].uses : t \in Request /\ t # r /\ call'[t] = call[t]
  BY <1>1, UnderWay
<1> QED BY <1>1, <1>2, <1>3, <1>4

\* A call returns.
LEMMA ReturnKeeps ==
  ASSUME IInv, NEW r \in Request, NEW n \in Progress, call' = [call EXCEPT ![r] = n],
         Elsewhere(r), call[r].pc \notin {"done", "crashed"},
         n.pc = "done", n.verdict = call[r].verdict, n.uses = call[r].uses,
         n.touched = call[r].touched,
         \/ n.since = call[r].since
         \/ call[r].pc = "start" /\ n.since = [member |-> member, version |-> version,
                                             config |-> config],
         token'[r] # "unused" => n.verdict = "succeeded",
         token'[r] # "claimed", token'[r] = "ready" => n.published,
         \A t \in call[r].uses : token'[t] = "spent",
         n.published => n.verdict = "succeeded" /\ Audited(r)',
         n.data => n.verdict = "succeeded" /\ Audited(r)',
         exec'[r] # "none" =>
           \/ n.alarmed \/ Answered(r)'
           \/ /\ r \in Follow /\ n.verdict = "panic" /\ exec'[r] = "failed"
              /\ audit'[r] = <<"succeeded", "failed">>,
         n.touched => exec'[r] \in {"running"} \cup Terminal,
         Agrees(r)'
  PROVE  IInv'
<1>1. /\ Types' /\ Moves(r) /\ call'[r] = n /\ Known(r)
      /\ \A t \in call[r].uses : t \in Request /\ t # r /\ call'[t] = call[t]
  BY Becomes DEF IInv
<1>2. (OnRecord(r) /\ Judged(r) /\ Traced(r) /\ Rows(r))'
  BY <1>1 DEF Known, OnRecord, Judged, Traced, Overturned, Rows, Done, At, Unrecorded, Begun,
     Working, Recording
<1>3. Fresh(r)'
  <2>1. CASE n.since = call[r].since
    BY <1>1, <2>1 DEF Known, Fresh, Moves
  <2>2. CASE call[r].pc = "start" /\ n.since = [member |-> member, version |-> version,
                                               config |-> config]
    <3>1. n.since.version = version /\ n.since.config = config /\ n.since.member = member
          /\ version \in Nat /\ config \in Nat
      BY <2>2 DEF IInv, Types
    <3>2. n.verdict = "none" /\ n.uses = {}
      BY <1>1, <2>2 DEF Known, Judged
    <3> QED BY <1>1, <3>1, <3>2 DEF Fresh, Moves
  <2> QED BY <2>1, <2>2
<1>4. Tokens(r)'
  <2>1. \A t \in call[r].uses : call[t].published
    BY <1>1 DEF Known, Tokens
  <2> QED BY <1>1, <2>1 DEF Tokens, Audited, Done, At, Over
<1> QED BY <1>1, <1>2, <1>3, <1>4, StepKeeps DEF Known

\* A call goes on.  What it has read of the access rights is a matter of its own.
LEMMA GoesOnKeeps ==
  ASSUME IInv, NEW r \in Request, NEW n \in Progress, call' = [call EXCEPT ![r] = n],
         Elsewhere(r), call[r].pc \notin {"done", "crashed"},
         n.pc \notin {"start", "done", "crashed"}, n.published = call[r].published,
         OnRecord(r)', Judged(r)', Agrees(r)', Fresh(r)',
         n.touched => exec'[r] \in {"running"} \cup Terminal,
         n.data => n.pc \in Recording /\ n.verdict = "succeeded",
         token'[r] # "unused" => n.pc \in Recording /\ r \in First /\ n.verdict = "succeeded",
         token'[r] # "claimed",
         \A t \in n.uses : t # r /\ token'[t] \in {"claimed", "spent"} /\ call[t].published,
         n.pc \in Over => \A t \in n.uses : token'[t] = "spent"
  PROVE  IInv'
<1>1. Types' /\ Moves(r) /\ call'[r] = n /\ ~call[r].published
  BY Becomes, UnderWay
<1>2. (Traced(r) /\ Rows(r))'
  BY <1>1 DEF Traced, Rows, Done, At
<1>3. \A t \in n.uses : call'[t] = call[t]
  BY DEF Progress
<1>4. Tokens(r)'
  BY <1>1, <1>3 DEF Tokens, Done, At
<1> QED BY <1>1, <1>2, <1>4, StepKeeps DEF Known

\* What it has read stays as good as it was.
Early == {"admitted", "pending", "authorized", "resolved", "member", "rechecked", "begun",
          "running", "connected", "queried"}
Late == {"rechecked", "begun", "running", "connected"}

LEMMA StaysFresh ==
  ASSUME IInv, NEW r \in Request, NEW n \in Progress, call' = [call EXCEPT ![r] = n],
         Elsewhere(r), call[r].pc \notin {"done", "crashed"},
         n.uses = call[r].uses, n.since = call[r].since, n.seen.config = call[r].seen.config,
         n.pc \in Early => call[r].pc \in Early,
         r \in Follow /\ n.pc \in Late => call[r].pc \in Late,
         n.verdict = "succeeded" => call[r].verdict = "succeeded"
  PROVE  Fresh(r)'
<1>1. /\ Moves(r) /\ call'[r] = n /\ Fresh(r)
      /\ \A t \in call[r].uses : t \in Request /\ t # r /\ call'[t] = call[t]
  BY Becomes DEF IInv, Known
<1> QED BY <1>1 DEF Fresh, Moves, Early, Late

\* A call goes on, or fails, without a record.
Turning == {"pending", "authorized", "resolved", "begun", "running", "connected", "queried"}

LEMMA TurnKeeps ==
  ASSUME IInv, NEW r \in Request, NEW n \in Progress, call' = [call EXCEPT ![r] = n],
         Elsewhere(r), exec'[r] = exec[r], audit'[r] = audit[r], token'[r] = token[r],
         \A t \in call[r].uses : token'[t] \in {"claimed", "spent"},
         call[r].pc \in Turning, n.published = call[r].published,
         n.uses = call[r].uses, n.since = call[r].since, n.data = call[r].data,
         n.seen.config = call[r].seen.config,
         n.touched = call[r].touched \/ call[r].pc \in Working,
         \/ call[r].pc \in Begun /\ n.pc \in Begun \cup {"credfail", "finalize"}
         \/ call[r].pc \in Working /\ n.pc \in Working \cup {"record", "credfail", "finalize"},
         n.verdict # "succeeded" \/ n.verdict = call[r].verdict,
         n.pc \in {"refuse", "credfail"} => n.verdict \in {"denied", "failed"},
         n.pc \in {"queried", "finalize"} => r \in First,
         n.pc \in Over => \A t \in call[r].uses : token'[t] = "spent",
         r \in Follow /\ n.pc \in Late => call[r].pc \in Late
  PROVE  IInv'
<1> call[r].pc \notin {"done", "crashed"} \cup Recording
  BY DEF Turning, Recording
<1>1. /\ call'[r] = n /\ Known(r) /\ token[r] = "unused" /\ ~call[r].data /\ audit[r] = <<>>
      /\ \A t \in call[r].uses : t # r
  <2>1. token[r] = "unused" /\ ~call[r].data /\ audit[r] = <<>> /\ \A t \in call[r].uses : t # r
    BY UnderWay DEF Recording
  <2>2. call'[r] = n
    BY Becomes
  <2> QED BY <2>1, <2>2 DEF IInv
<1>2. (OnRecord(r) /\ Judged(r) /\ Agrees(r))'
  BY <1>1 DEF Known, OnRecord, Judged, Agrees, Unrecorded, Begun, Working, Recording
<1>3. Fresh(r)'
  BY StaysFresh DEF Turning, Early, Begun, Working
<1>4. \A t \in call[r].uses : call[t].published
  BY <1>1 DEF Known, Tokens
<1>5. n.touched => exec'[r] \in {"running"} \cup Terminal
  BY <1>1 DEF Known, OnRecord, Traced, Working
<1> QED BY <1>1, <1>2, <1>3, <1>4, <1>5, GoesOnKeeps, ZenonT(60) DEF Turning, Begun,
           Working

-----------------------------------------------------------------------------
(* Execute, up to the adapter.                                             *)

LEMMA AuthorizeKeeps ==
  ASSUME IInv, NEW r \in Request, Authorize(r)
  PROVE  IInv'
<1> DEFINE now == [member |-> member, version |-> version, config |-> config]
<1>1. /\ call[r].pc = "start" /\ Known(r) /\ call[r] \in Progress /\ exec' = exec
      /\ audit' = audit /\ Elsewhere(r) /\ token' = token /\ r \in First
  BY Unwritten DEF Authorize, At, IInv, Types, registry
<1>2. /\ now \in Start /\ now.member = member /\ now.version = version
      /\ now.config = config /\ version \in Nat /\ config \in Nat
  BY DEF Start, IInv, Types
<1> HIDE DEF now
<1>3. CASE member /\ call' = [call EXCEPT ![r].pc = "admitted", ![r].since = now,
                                          ![r].seen.config = config]
  <2> DEFINE n == [call[r] EXCEPT !.pc = "admitted", !.since = now, !.seen.config = config]
  <2>1. call' = [call EXCEPT ![r] = n]
    BY <1>3
  <2>2. /\ n.pc = "admitted" /\ n.since = now /\ n.seen.config = config
        /\ n.verdict = call[r].verdict /\ n.uses = call[r].uses /\ n.data = call[r].data
        /\ n.touched = call[r].touched /\ n.published = call[r].published /\ n \in Progress
    BY <1>1, <1>2 DEF Progress, Seen, Step
  <2> HIDE DEF n
  <2>3. Moves(r) /\ call'[r] = n
    BY <1>1, <2>1, <2>2, Becomes
  <2>4. (OnRecord(r) /\ Judged(r) /\ Agrees(r))'
    BY <1>1, <2>2, <2>3 DEF Known, OnRecord, Judged, Agrees, Unrecorded, Begun, Working, Recording
  <2>5. Fresh(r)'
    <3>1. n.since.member /\ n.uses = {} /\ n.verdict = "none"
      BY <1>1, <1>2, <1>3, <2>2 DEF Known, Judged
    <3> QED BY <1>1, <1>2, <2>2, <2>3, <3>1 DEF Fresh, Moves
  <2> QED BY <1>1, <2>1, <2>2, <2>4, <2>5, UnderWay, GoesOnKeeps
          DEF Known, Judged, Traced, Recording, Tokens, Rows
<1>4. CASE call' = [call EXCEPT ![r].pc = "done", ![r].reply = "error", ![r].since = now]
  <2> DEFINE n == [call[r] EXCEPT !.pc = "done", !.reply = "error", !.since = now]
  <2>1. call' = [call EXCEPT ![r] = n]
    BY <1>4
  <2>2. /\ n.pc = "done" /\ n.since = now /\ n.alarmed = call[r].alarmed
        /\ n.verdict = call[r].verdict /\ n.uses = call[r].uses /\ n.data = call[r].data
        /\ n.touched = call[r].touched /\ n.published = call[r].published /\ n \in Progress
    BY <1>1, <1>2 DEF Progress, Seen, Step, Reply
  <2> HIDE DEF n
  <2> QED BY <1>1, <2>1, <2>2, UnderWay, ReturnKeeps
          DEF Known, OnRecord, Judged, Agrees, Traced, Recording, Unrecorded, now
<1> QED BY <1>3, <1>4 DEF Authorize, now

LEMMA CheckPolicyKeeps ==
  ASSUME IInv, NEW r \in Request, CheckPolicy(r)
  PROVE  IInv'
<1>1. /\ call[r].pc = "pending" /\ call[r] \in Progress /\ exec' = exec /\ audit' = audit
      /\ Elsewhere(r) /\ token' = token
      /\ \A t \in call[r].uses : token'[t] \in {"claimed", "spent"}
  BY Unwritten DEF CheckPolicy, At, IInv, Types, registry, Known, Tokens
<1>2. version \in Nat
  BY DEF IInv, Types
<1>3. CASE call' = [call EXCEPT ![r].pc = "authorized", ![r].seen.version = version]
  <2> DEFINE n == [call[r] EXCEPT !.pc = "authorized", !.seen.version = version]
  <2>1. call' = [call EXCEPT ![r] = n]
    BY <1>3
  <2>2. /\ n.pc = "authorized" /\ n.seen.version = version /\ n.verdict = call[r].verdict
        /\ n.uses = call[r].uses /\ n.since = call[r].since
        /\ n.touched = call[r].touched /\ n.data = call[r].data
        /\ n.published = call[r].published /\ n.alarmed = call[r].alarmed
        /\ n.seen.config = call[r].seen.config /\ n \in Progress
    BY <1>1, <1>2 DEF Progress, Step, Seen
  <2> HIDE DEF n
  <2> QED BY <1>1, <1>2, <2>1, <2>2, TurnKeeps DEF Turning, Begun, Working, Late, Over
<1>4. ASSUME NEW v \in {"denied", "failed"}, Settle(r, "refuse", v) PROVE IInv'
  <2> DEFINE n == [call[r] EXCEPT !.pc = "refuse", !.verdict = v]
  <2>1. call' = [call EXCEPT ![r] = n]
    BY <1>4 DEF Settle
  <2>2. /\ n.pc = "refuse" /\ n.verdict = v /\ n.uses = call[r].uses
        /\ n.since = call[r].since /\ n.touched = call[r].touched
        /\ n.data = call[r].data /\ n.published = call[r].published
        /\ n.alarmed = call[r].alarmed /\ n.seen = call[r].seen /\ n \in Progress
    BY <1>1, <1>4 DEF Progress, Step, Verdict
  <2> HIDE DEF n
  <2> QED BY <1>1, <1>4, <2>1, <2>2, TurnKeeps DEF Turning, Begun, Working, Late, Over
<1> QED BY <1>3, <1>4 DEF CheckPolicy

LEMMA ResolveCredentialKeeps ==
  ASSUME IInv, NEW r \in Request, ResolveCredential(r)
  PROVE  IInv'
<1>1. /\ call[r].pc = "authorized" /\ call[r] \in Progress /\ exec' = exec /\ audit' = audit
      /\ Elsewhere(r) /\ token' = token /\ call[r].uses = {}
      /\ \A t \in call[r].uses : token'[t] \in {"claimed", "spent"}
  BY Unwritten DEF ResolveCredential, At, IInv, Types, registry, Known, Tokens, Judged,
     Fresh, Begun
<1>2. CASE Goto(r, "resolved")
  <2> DEFINE n == [call[r] EXCEPT !.pc = "resolved"]
  <2>1. call' = [call EXCEPT ![r] = n]
    BY <1>2 DEF Goto
  <2>2. /\ n.pc = "resolved" /\ n.verdict = call[r].verdict /\ n.uses = call[r].uses
        /\ n.since = call[r].since /\ n.touched = call[r].touched
        /\ n.data = call[r].data /\ n.published = call[r].published
        /\ n.alarmed = call[r].alarmed /\ n.seen = call[r].seen /\ n \in Progress
    BY <1>1 DEF Progress, Step, Verdict
  <2> HIDE DEF n
  <2> QED BY <1>1, <2>1, <2>2, TurnKeeps DEF Turning, Begun, Working, Late, Over
<1>3. ASSUME NEW step \in {"refuse", "credfail"}, Settle(r, step, "failed") PROVE IInv'
  <2> DEFINE n == [call[r] EXCEPT !.pc = step, !.verdict = "failed"]
  <2>1. call' = [call EXCEPT ![r] = n]
    BY <1>3 DEF Settle
  <2>2. /\ n.pc = step /\ n.verdict = "failed" /\ n.uses = call[r].uses
        /\ n.since = call[r].since /\ n.touched = call[r].touched
        /\ n.data = call[r].data /\ n.published = call[r].published
        /\ n.alarmed = call[r].alarmed /\ n.seen = call[r].seen /\ n \in Progress
    BY <1>1, <1>3 DEF Progress, Step, Verdict
  <2> HIDE DEF n
  <2> QED BY <1>1, <1>3, <2>1, <2>2, TurnKeeps DEF Turning, Begun, Working, Late, Over
<1> QED BY <1>2, <1>3 DEF ResolveCredential

LEMMA ReResolveKeeps ==
  ASSUME IInv, NEW r \in Request, ReResolve(r)
  PROVE  IInv'
<1>1. /\ call[r].pc = "begun" /\ call[r] \in Progress /\ exec' = exec /\ audit' = audit
      /\ UNCHANGED <<db, env>>
  BY Unwritten DEF ReResolve, At, IInv, Types
<1>2. CASE Goto(r, "running") /\ UNCHANGED registry
  <2> DEFINE n == [call[r] EXCEPT !.pc = "running"]
  <2>1. call' = [call EXCEPT ![r] = n]
    BY <1>2 DEF Goto
  <2>2. /\ n.pc = "running" /\ n.verdict = call[r].verdict /\ n.uses = call[r].uses
        /\ n.since = call[r].since /\ n.touched = call[r].touched
        /\ n.data = call[r].data /\ n.published = call[r].published
        /\ n.alarmed = call[r].alarmed /\ n.seen = call[r].seen /\ n \in Progress
    BY <1>1, <1>2 DEF Progress, Step, Verdict
  <2> HIDE DEF n
  <2>3. Elsewhere(r) /\ token' = token
    BY <1>1, <1>2, Unwritten DEF registry
  <2>4. \A t \in call[r].uses : token'[t] \in {"claimed", "spent"}
    BY <2>3 DEF IInv, Known, Tokens
  <2> QED BY <1>1, <1>2, <2>1, <2>2, <2>3, <2>4, TurnKeeps DEF Turning, Begun, Working,
             Late, Over
<1>3. ASSUME NEW step \in {"record", "credfail"}, Settle(r, step, "failed"), Abort(r)
      PROVE  IInv'
  <2> DEFINE n == [call[r] EXCEPT !.pc = step, !.verdict = "failed"]
  <2>1. call' = [call EXCEPT ![r] = n]
    BY <1>3 DEF Settle
  <2>2. /\ n.pc = step /\ n.verdict = "failed" /\ n.uses = call[r].uses
        /\ n.since = call[r].since /\ n.touched = call[r].touched
        /\ n.data = call[r].data /\ n.published = call[r].published
        /\ n.alarmed = call[r].alarmed /\ n.seen = call[r].seen /\ n \in Progress
    BY <1>1, <1>3 DEF Progress, Step, Verdict
  <2> HIDE DEF n
  <2>3. Elsewhere(r) /\ token'[r] = token[r] /\ \A t \in call[r].uses : token'[t] = "spent"
    BY <1>1, <1>3, Unwritten, AbortMoves
  <2> QED BY <1>1, <1>3, <2>1, <2>2, <2>3, TurnKeeps DEF Turning, Begun, Working, Late,
             Over
<1> QED BY <1>2, <1>3 DEF ReResolve

LEMMA GetHandleKeeps ==
  ASSUME IInv, NEW r \in Request, GetHandle(r)
  PROVE  IInv'
<1>1. /\ call[r].pc = "running" /\ call[r] \in Progress /\ exec' = exec /\ audit' = audit
      /\ UNCHANGED <<db, env>>
  BY Unwritten DEF GetHandle, At, IInv, Types
<1>2. CASE call' = [call EXCEPT ![r].pc = "connected", ![r].touched = TRUE] /\ UNCHANGED registry
  <2> DEFINE n == [call[r] EXCEPT !.pc = "connected", !.touched = TRUE]
  <2>1. call' = [call EXCEPT ![r] = n]
    BY <1>2
  <2>2. /\ n.pc = "connected" /\ n.touched = TRUE /\ n.verdict = call[r].verdict
        /\ n.uses = call[r].uses /\ n.since = call[r].since /\ n.data = call[r].data
        /\ n.published = call[r].published /\ n.alarmed = call[r].alarmed
        /\ n.seen = call[r].seen /\ n \in Progress
    BY <1>1, <1>2 DEF Progress, Step, Verdict
  <2> HIDE DEF n
  <2>3. Elsewhere(r) /\ token' = token
    BY <1>1, <1>2, Unwritten DEF registry
  <2>4. \A t \in call[r].uses : token'[t] \in {"claimed", "spent"}
    BY <2>3 DEF IInv, Known, Tokens
  <2> QED BY <1>1, <1>2, <2>1, <2>2, <2>3, <2>4, TurnKeeps DEF Turning, Begun, Working,
             Late, Over
<1>3. ASSUME NEW v \in {"failed", "cancelled"},
             call' = [call EXCEPT ![r].pc = "record", ![r].verdict = v, ![r].touched = TRUE], Abort(r)
      PROVE  IInv'
  <2> DEFINE n == [call[r] EXCEPT !.pc = "record", !.verdict = v, !.touched = TRUE]
  <2>1. call' = [call EXCEPT ![r] = n]
    BY <1>3
  <2>2. /\ n.pc = "record" /\ n.verdict = v /\ n.touched = TRUE /\ n.uses = call[r].uses
        /\ n.since = call[r].since /\ n.data = call[r].data
        /\ n.published = call[r].published /\ n.alarmed = call[r].alarmed
        /\ n.seen = call[r].seen /\ n \in Progress
    BY <1>1, <1>3 DEF Progress, Step, Verdict
  <2> HIDE DEF n
  <2>3. Elsewhere(r) /\ token'[r] = token[r] /\ \A t \in call[r].uses : token'[t] = "spent"
    BY <1>1, <1>3, Unwritten, AbortMoves
  <2> QED BY <1>1, <1>3, <2>1, <2>2, <2>3, TurnKeeps DEF Turning, Begun, Working, Late,
             Over
<1> QED BY <1>2, <1>3 DEF GetHandle, AdapterErrors

LEMMA QueryKeeps ==
  ASSUME IInv, NEW r \in Request, Query(r)
  PROVE  IInv'
<1>1. /\ call[r].pc = "connected" /\ call[r] \in Progress /\ exec' = exec /\ audit' = audit
      /\ Elsewhere(r) /\ token' = token /\ r \in First
      /\ \A t \in call[r].uses : token'[t] \in {"claimed", "spent"}
  BY Unwritten DEF Query, At, IInv, Types, registry, Known, Tokens
<1>2. CASE Goto(r, "queried")
  <2> DEFINE n == [call[r] EXCEPT !.pc = "queried"]
  <2>1. call' = [call EXCEPT ![r] = n]
    BY <1>2 DEF Goto
  <2>2. /\ n.pc = "queried" /\ n.verdict = call[r].verdict /\ n.uses = call[r].uses
        /\ n.since = call[r].since /\ n.touched = call[r].touched
        /\ n.data = call[r].data /\ n.published = call[r].published
        /\ n.alarmed = call[r].alarmed /\ n.seen = call[r].seen /\ n \in Progress
    BY <1>1 DEF Progress, Step, Verdict
  <2> HIDE DEF n
  <2> QED BY <1>1, <2>1, <2>2, TurnKeeps DEF Turning, Begun, Working, Late, Over
<1>3. ASSUME NEW v \in {"failed", "cancelled", "unsupported", "rate_limited"},
             Settle(r, "record", v)
      PROVE  IInv'
  <2> DEFINE n == [call[r] EXCEPT !.pc = "record", !.verdict = v]
  <2>1. call' = [call EXCEPT ![r] = n]
    BY <1>3 DEF Settle
  <2>2. /\ n.pc = "record" /\ n.verdict = v /\ n.uses = call[r].uses
        /\ n.since = call[r].since /\ n.touched = call[r].touched
        /\ n.data = call[r].data /\ n.published = call[r].published
        /\ n.alarmed = call[r].alarmed /\ n.seen = call[r].seen /\ n \in Progress
    BY <1>1, <1>3 DEF Progress, Step, Verdict
  <2> HIDE DEF n
  <2> QED BY <1>1, <1>3, <2>1, <2>2, TurnKeeps DEF Turning, Begun, Working, Late, Over
<1> QED BY <1>2, <1>3 DEF Query, AdapterErrors

\* Before the execution is recorded a panic is one more way to fail.  Behind the
\* record of a following page it leads to a second one.
LEMMA PanicKeeps ==
  ASSUME IInv, NEW r \in Request, Panic(r)
  PROVE  IInv'
<1> DEFINE step == IF r \in First THEN "finalize" ELSE "record"
           n == [call[r] EXCEPT !.pc = step, !.verdict = "panic", !.data = FALSE]
<1>1. /\ PanicPoint(r) /\ call[r] \in Progress /\ exec' = exec /\ audit' = audit
      /\ UNCHANGED <<db, env>> /\ Known(r) /\ call' = [call EXCEPT ![r] = n]
  BY Unwritten DEF Panic, IInv, Types
<1>2. /\ n.pc = step /\ n.verdict = "panic" /\ n.uses = call[r].uses
      /\ n.since = call[r].since /\ n.touched = call[r].touched
      /\ n.data = FALSE /\ n.published = call[r].published
      /\ n.alarmed = call[r].alarmed /\ n.seen = call[r].seen /\ n \in Progress
  BY <1>1 DEF Progress, Step, Verdict
<1>3. call[r].pc \notin {"done", "crashed"} /\ step \in {"record", "finalize"}
  BY <1>1 DEF PanicPoint, At
<1>4. Elsewhere(r) /\ token'[r] = token[r] /\ \A t \in call[r].uses : token'[t] = "spent"
  BY <1>1, <1>3, Unwritten, AbortMoves DEF Panic
<1> HIDE DEF n
<1>5. CASE call[r].pc \in Turning
  <2>1. n.data = call[r].data
    <3>1. ~call[r].data /\ call[r].data \in BOOLEAN
      BY <1>1, <1>5, UnderWay DEF Turning, Recording, Progress
    <3> QED BY <1>2, <3>1
  <2>2. call[r].pc \in Begun => step = "finalize"
    BY <1>1 DEF Known, Judged
  <2>3. /\ step = "finalize" => r \in First
        /\ step \notin Late /\ step \notin {"refuse", "credfail", "queried"}
    BY DEF Late
  <2>4. \/ call[r].pc \in Begun /\ n.pc \in Begun \cup {"credfail", "finalize"}
        \/ call[r].pc \in Working /\ n.pc \in Working \cup {"record", "credfail", "finalize"}
    BY <1>2, <1>3, <1>5, <2>2 DEF Turning, Begun, Working
  <2> HIDE DEF step
  <2> QED BY <1>1, <1>2, <1>4, <1>5, <2>1, <2>3, <2>4, TurnKeeps
<1>6. CASE r \in Follow /\ call[r].pc = "recorded" /\ call[r].verdict = "succeeded"
  <2>1. /\ step = "record" /\ token[r] = "unused"
    BY <1>1, <1>6, CallsDisjoint DEF Known, Tokens
  <2>2. Audited(r)
    BY <1>1, <1>6 DEF Known, OnRecord, Again, Audited, StatusOf, OutcomeOf
  <2>3. call'[r] = n
    BY <1>1, <1>2, <1>3, <1>4, Becomes
  <2>4. (Audited(r) /\ Again(r))'
    BY <1>1, <1>2, <1>6, <2>2, <2>3 DEF Audited, Again
  <2>5. (OnRecord(r) /\ Judged(r))'
    BY <1>1, <1>2, <1>6, <2>1, <2>3, <2>4
       DEF Known, OnRecord, Judged, Unrecorded, Begun, Working, Recording
  <2>6. Agrees(r)'
    BY <2>4 DEF Agrees, Answered, Audited, Outcome, StatusFor
  <2>7. Fresh(r)'
    BY <1>1, <1>2, <1>3, <1>4, <2>1, StaysFresh DEF Early, Late
  <2>8. n.touched => exec'[r] \in {"running"} \cup Terminal
    BY <1>1, <1>2 DEF Known, Traced
  <2>9. \A t \in n.uses : t # r /\ call[t].published
    BY <1>1, <1>2, <1>3, UnderWay DEF Known, Tokens
  <2> QED BY <1>1, <1>2, <1>3, <1>4, <2>1, <2>5, <2>6, <2>7, <2>8, <2>9, GoesOnKeeps
          DEF Over
<1> QED BY <1>1, <1>5, <1>6 DEF PanicPoint, Turning, At

\* A call that begins to be recorded.
LEMMA BeginsKeeps ==
  ASSUME IInv, NEW r \in Request, NEW bound \in BOOLEAN, Tx(r, bound, "ok"),
         NEW status \in {"pending", "running"}, NEW step \in {"pending", "running", "begun"},
         Write(r, "ok", status, <<>>), UNCHANGED env, UNCHANGED registry, Goto(r, step),
         \/ call[r].pc = "admitted" /\ step = "pending" /\ status = "pending"
         \/ call[r].pc = "resolved" /\ step = "running" /\ status = "running"
         \/ call[r].pc = "rechecked" /\ step = "begun" /\ status = "running"
  PROVE  IInv'
<1> DEFINE n == [call[r] EXCEPT !.pc = step]
<1>1. /\ Known(r) /\ call[r] \in Progress /\ token[r] = "unused" /\ ~call[r].data
      /\ audit[r] = <<>> /\ <<>> \in Seq(Outcome)
      /\ \A t \in call[r].uses : t # r /\ token[t] \in {"claimed", "spent"} /\ call[t].published
  BY UnderWay DEF IInv, Known, Tokens, Recording
<1>2. call' = [call EXCEPT ![r] = n]
  BY DEF Goto
<1>3. /\ n.pc = step /\ n.verdict = call[r].verdict /\ n.uses = call[r].uses
      /\ n.since = call[r].since /\ n.touched = call[r].touched /\ n.data = call[r].data
      /\ n.published = call[r].published /\ n.seen = call[r].seen /\ n \in Progress
  BY <1>1 DEF Progress, Step
<1> HIDE DEF n
<1>4. /\ Elsewhere(r) /\ token' = token /\ exec'[r] = status /\ audit'[r] = <<>>
  <2>1. exec' = [exec EXCEPT ![r] = status] /\ audit' = [audit EXCEPT ![r] = <<>>]
    <3>1. <<>> \o <<>> = <<>>
      OBVIOUS
    <3> QED BY <1>1, <3>1 DEF Write
  <2>2. /\ exec \in [Request -> {"none", "pending", "running"} \cup Terminal]
        /\ audit \in [Request -> Seq(Outcome)]
    BY DEF IInv, Types
  <2>3. token' = token
    BY DEF registry
  <2>4. /\ faults' \in Nat /\ member' = member /\ version' = version /\ config' = config
        /\ changes' = changes /\ crashes' = crashes
        /\ token' \in [Request -> {"unused", "ready", "claimed", "spent"}]
        /\ \A x \in Request : TokenMoves(x)
    BY Around DEF Ends
  <2> QED BY <1>1, <2>1, <2>2, <2>3, <2>4 DEF Elsewhere
<1>5. call'[r] = n
  BY <1>2, <1>3, <1>4, Becomes
<1>6. (OnRecord(r) /\ Judged(r) /\ Agrees(r))'
  BY <1>1, <1>3, <1>4, <1>5 DEF Known, OnRecord, Judged, Agrees, Unrecorded, Begun,
     Working, Recording
<1>7. Fresh(r)'
  <2>1. /\ call[r].pc \in Early /\ (r \in Follow => call[r].pc \in Late)
        /\ call[r].pc \notin {"done", "crashed"}
    BY <1>1, CallsDisjoint DEF Known, Judged, Begun, Early, Late
  <2> QED BY <1>2, <1>3, <1>4, <2>1, StaysFresh
<1>8. n.touched => exec'[r] \in {"running"} \cup Terminal
  BY <1>1, <1>3, <1>4 DEF Known, OnRecord, Traced, Unrecorded, Begun, Terminal
<1> QED BY <1>1, <1>2, <1>3, <1>4, <1>6, <1>7, <1>8, GoesOnKeeps DEF Over

\* A call that returns what a record could not be made of, with an alarm.
LEMMA AlarmKeeps ==
  ASSUME IInv, NEW r \in Request, NEW n \in Progress, call' = [call EXCEPT ![r] = n],
         Elsewhere(r), call[r].pc \notin {"done", "crashed"},
         n.pc = "done", n.alarmed, ~n.data, ~n.published, n.verdict = call[r].verdict,
         n.uses = call[r].uses, n.touched = call[r].touched, n.since = call[r].since,
         token'[r] \notin {"claimed", "ready"}, \A t \in call[r].uses : token'[t] = "spent",
         token'[r] # "unused" => n.verdict = "succeeded",
         Agrees(r)', n.touched => exec'[r] \in {"running"} \cup Terminal
  PROVE  IInv'
BY ReturnKeeps

LEMMA AuditFailedDoes ==
  ASSUME NEW r \in Request, AuditFailed(r), call[r] \in Progress
  PROVE  \E n \in Progress :
           /\ call' = [call EXCEPT ![r] = n] /\ n.pc = "done" /\ n.alarmed /\ ~n.data
           /\ ~n.published /\ n.verdict = call[r].verdict /\ n.uses = call[r].uses
           /\ n.touched = call[r].touched /\ n.since = call[r].since
<1> DEFINE n == [call[r] EXCEPT !.pc = "done", !.reply = "audit_failed", !.alarmed = TRUE,
                                !.data = FALSE, !.published = FALSE]
<1>1. call' = [call EXCEPT ![r] = n]
  BY DEF AuditFailed
<1>2. /\ n.pc = "done" /\ n.alarmed = TRUE /\ n.data = FALSE /\ n.published = FALSE
      /\ n.verdict = call[r].verdict /\ n.uses = call[r].uses
      /\ n.touched = call[r].touched /\ n.since = call[r].since /\ n \in Progress
  BY DEF Progress, Step, Reply
<1> HIDE DEF n
<1> QED BY <1>1, <1>2

\* A record was not made, or was made and reported as failed: the call raises an alarm.
Stored(r, status, outcomes) ==
  exec' = [exec EXCEPT ![r] = status] /\ audit' = [audit EXCEPT ![r] = outcomes]

LEMMA LostKeeps ==
  ASSUME IInv, NEW r \in Request, NEW n \in Progress, call' = [call EXCEPT ![r] = n],
         call[r].pc \notin {"done", "crashed"},
         n.pc = "done", n.alarmed, ~n.data, ~n.published, n.verdict = call[r].verdict,
         n.uses = call[r].uses, n.touched = call[r].touched, n.since = call[r].since,
         NEW bound \in BOOLEAN, NEW o \in Ends, Tx(r, bound, o), UNCHANGED env,
         token' \in [Request -> {"unused", "ready", "claimed", "spent"}],
         \A x \in Request \ {r} : TokenMoves(x),
         token'[r] \notin {"claimed", "ready"}, \A t \in call[r].uses : token'[t] = "spent",
         token'[r] # "unused" => n.verdict = "succeeded",
         NEW status \in {"none", "pending", "running"} \cup Terminal,
         NEW outcomes \in Seq(Outcome),
         (exec' = exec /\ audit' = audit) \/ Stored(r, status, outcomes),
         \/ outcomes = <<>>
         \/ \E x \in Outcome : outcomes = <<x>> /\ status = StatusFor(x)
         \/ /\ Again(r) /\ status = "failed"
            /\ outcomes \in {<<"succeeded">>, <<"succeeded", "failed">>},
         n.touched => status \in {"running"} \cup Terminal
  PROVE  IInv'
<1>1. /\ member' = member /\ version' = version /\ config' = config
      /\ changes' = changes /\ crashes' = crashes /\ faults' \in Nat
  BY TxFaults DEF env
<1>2. /\ exec \in [Request -> {"none", "pending", "running"} \cup Terminal]
      /\ audit \in [Request -> Seq(Outcome)] /\ Traced(r) /\ Agrees(r)
  BY DEF IInv, Types, Known
<1>3. /\ Elsewhere(r)
      /\ \/ exec'[r] = exec[r] /\ audit'[r] = audit[r]
         \/ exec'[r] = status /\ audit'[r] = outcomes
  <2>1. CASE exec' = exec /\ audit' = audit
    BY <1>1, <1>2, <2>1 DEF Elsewhere
  <2>2. CASE Stored(r, status, outcomes)
    BY <1>1, <1>2, <2>2 DEF Elsewhere, Stored
  <2> QED BY <2>1, <2>2
<1>4. Agrees(r)'
  <2>1. call'[r] = n
    BY <1>3, Becomes
  <2> QED BY <1>2, <1>3, <2>1 DEF Agrees, Answered, TakenBack, Again
<1>5. n.touched => exec'[r] \in {"running"} \cup Terminal
  BY <1>2, <1>3 DEF Traced
<1> QED BY <1>3, <1>4, <1>5, AlarmKeeps

LEMMA WriteStores ==
  ASSUME NEW r \in Request, NEW o \in Ends, NEW status, NEW outcomes, audit[r] = <<>>,
         outcomes \in Seq(Outcome), Write(r, o, status, outcomes)
  PROVE  (exec' = exec /\ audit' = audit) \/ Stored(r, status, outcomes)
<1>1. <<>> \o outcomes = outcomes
  OBVIOUS
<1> QED BY <1>1 DEF Write, Stored

LEMMA WriteAdds ==
  ASSUME NEW r \in Request, NEW o \in Ends, NEW status, NEW outcomes, NEW all,
         audit[r] \o outcomes = all, Write(r, o, status, outcomes)
  PROVE  /\ (exec' = exec /\ audit' = audit) \/ Stored(r, status, all)
         /\ o = "ok" => Stored(r, status, all)
BY DEF Write, Stored

\* A step that changes nothing of the registry.
LEMMA TokensStay ==
  ASSUME IInv, UNCHANGED registry
  PROVE  /\ token' = token /\ token' \in [Request -> {"unused", "ready", "claimed", "spent"}]
         /\ \A x \in Request : TokenMoves(x)
BY DEF registry, IInv, Types, TokenMoves

LEMMA CreatePendingKeeps ==
  ASSUME IInv, NEW r \in Request, CreatePending(r)
  PROVE  IInv'
<1>1. /\ call[r].pc = "admitted" /\ UNCHANGED env /\ UNCHANGED registry /\ Known(r)
      /\ call[r] \in Progress /\ audit[r] = <<>> /\ ~call[r].data /\ ~call[r].published
      /\ token[r] = "unused" /\ call[r].uses = {} /\ ~call[r].touched
  BY UnderWay DEF CreatePending, At, IInv, Known, Recording, Judged, Fresh, Traced,
     OnRecord,
                  Unrecorded, Terminal
<1>2. PICK o \in Ends :
        /\ Tx(r, TRUE, o) /\ Write(r, o, "pending", <<>>)
        /\ IF o = "ok" THEN Goto(r, "pending")
           ELSE call' = [call EXCEPT ![r].pc = "done", ![r].reply = "error",
                                     ![r].alarmed = TRUE]
  BY DEF CreatePending
<1>3. CASE o = "ok"
  BY <1>1, <1>2, <1>3, BeginsKeeps
<1>4. CASE o # "ok"
  <2> DEFINE n == [call[r] EXCEPT !.pc = "done", !.reply = "error", !.alarmed = TRUE]
  <2>1. call' = [call EXCEPT ![r] = n]
    BY <1>2, <1>4
  <2>2. /\ n.pc = "done" /\ n.alarmed = TRUE /\ n.data = call[r].data
        /\ n.published = call[r].published /\ n.verdict = call[r].verdict
        /\ n.uses = call[r].uses /\ n.touched = call[r].touched
        /\ n.since = call[r].since /\ n \in Progress
    BY <1>1 DEF Progress, Step, Reply
  <2> HIDE DEF n
  <2>3. <<>> \in Seq(Outcome) /\ "pending" \in {"none", "pending", "running"} \cup Terminal
    OBVIOUS
  <2>4. (exec' = exec /\ audit' = audit) \/ Stored(r, "pending", <<>>)
    BY <1>1, <1>2, <2>3, WriteStores
  <2> QED BY <1>1, <1>2, <2>1, <2>2, <2>3, <2>4, TokensStay, LostKeeps
<1> QED BY <1>3, <1>4

LEMMA MarkRunningKeeps ==
  ASSUME IInv, NEW r \in Request, MarkRunning(r)
  PROVE  IInv'
<1>1. /\ call[r].pc = "resolved" /\ UNCHANGED env /\ UNCHANGED registry
      /\ call[r] \in Progress /\ audit[r] = <<>> /\ token[r] = "unused" /\ call[r].uses = {}
  BY UnderWay DEF MarkRunning, At, IInv, Known, Recording, Judged, Fresh, Begun
<1>2. PICK o \in Ends :
        /\ Tx(r, TRUE, o) /\ Write(r, o, "running", <<>>)
        /\ IF o = "ok" THEN Goto(r, "running") ELSE AuditFailed(r)
  BY DEF MarkRunning
<1>3. CASE o = "ok"
  BY <1>1, <1>2, <1>3, BeginsKeeps
<1>4. CASE o # "ok"
  <2>1. PICK n \in Progress :
          /\ call' = [call EXCEPT ![r] = n] /\ n.pc = "done" /\ n.alarmed /\ ~n.data
          /\ ~n.published /\ n.verdict = call[r].verdict /\ n.uses = call[r].uses
          /\ n.touched = call[r].touched /\ n.since = call[r].since
    BY <1>1, <1>2, <1>4, AuditFailedDoes
  <2>2. <<>> \in Seq(Outcome)
    OBVIOUS
  <2>3. (exec' = exec /\ audit' = audit) \/ Stored(r, "running", <<>>)
    BY <1>1, <1>2, <2>2, WriteStores
  <2> QED BY <1>1, <1>2, <2>1, <2>2, <2>3, TokensStay, LostKeeps
<1> QED BY <1>3, <1>4

LEMMA BeginContinuationKeeps ==
  ASSUME IInv, NEW r \in Request, BeginContinuation(r)
  PROVE  IInv'
<1>1. /\ call[r].pc = "rechecked" /\ UNCHANGED env
      /\ call[r] \in Progress /\ audit[r] = <<>> /\ token[r] = "unused"
  BY UnderWay DEF BeginContinuation, At, Recording
<1>2. PICK o \in Ends :
        /\ Tx(r, FALSE, o) /\ Write(r, o, "running", <<>>)
        /\ IF o = "ok" THEN Goto(r, "begun") /\ UNCHANGED registry
           ELSE AuditFailed(r) /\ Abort(r)
  BY DEF BeginContinuation
<1>3. CASE o = "ok"
  BY <1>1, <1>2, <1>3, BeginsKeeps
<1>4. CASE o # "ok"
  <2>1. PICK n \in Progress :
          /\ call' = [call EXCEPT ![r] = n] /\ n.pc = "done" /\ n.alarmed /\ ~n.data
          /\ ~n.published /\ n.verdict = call[r].verdict /\ n.uses = call[r].uses
          /\ n.touched = call[r].touched /\ n.since = call[r].since
    BY <1>1, <1>2, <1>4, AuditFailedDoes
  <2>2. <<>> \in Seq(Outcome)
    OBVIOUS
  <2>3. (exec' = exec /\ audit' = audit) \/ Stored(r, "running", <<>>)
    BY <1>1, <1>2, <2>2, WriteStores
  <2>4. /\ token' \in [Request -> {"unused", "ready", "claimed", "spent"}]
        /\ \A x \in Request : TokenMoves(x)
        /\ \A x \in call[r].uses : token'[x] = "spent"
        /\ token'[r] = "unused"
    BY <1>1, <1>2, <1>4, AbortMoves
  <2> QED BY <1>1, <1>2, <2>1, <2>2, <2>3, <2>4, LostKeeps
<1> QED BY <1>3, <1>4

\* An execution that ends early is failed, and its audit event says denied or failed.
LEMMA EndEarlyKeeps ==
  ASSUME IInv, NEW r \in Request, NEW o \in Ends, NEW raised \in BOOLEAN,
         EndEarly(r, o, raised), call[r].pc \in {"refuse", "credfail"},
         UNCHANGED env, UNCHANGED registry
  PROVE  IInv'
<1> DEFINE events == <<OutcomeOf(call[r].verdict)>>
<1>1. /\ call[r] \in Progress /\ audit[r] = <<>> /\ token[r] = "unused" /\ Known(r)
      /\ ~call[r].data /\ ~call[r].published /\ \A t \in call[r].uses : token[t] = "spent"
      /\ call[r].verdict \in {"denied", "failed"} /\ (r \in First \/ r \notin First)
  BY UnderWay DEF IInv, Known, Recording, Judged, Fresh, Begun, Tokens, Over
<1>2. /\ events \in Seq(Outcome) /\ events # <<>> /\ <<>> \o events = events
      /\ \E x \in Outcome : events = <<x>> /\ StatusFor(x) = "failed"
  BY <1>1 DEF OutcomeOf, Outcome, StatusFor
<1> HIDE DEF events
<1>3. /\ Tx(r, r \in First, o) /\ Write(r, o, "failed", events)
      /\ IF o = "ok"
         THEN call' = [call EXCEPT ![r].pc = "done", ![r].reply = "error",
                                   ![r].alarmed = raised]
         ELSE AuditFailed(r)
  BY DEF EndEarly, events
<1>4. PICK bound \in BOOLEAN : Tx(r, bound, o)
  <2>1. CASE r \in First
    BY <1>3, <2>1 DEF Tx
  <2>2. CASE r \notin First
    BY <1>3, <2>2 DEF Tx
  <2> QED BY <2>1, <2>2
<1>5. (exec' = exec /\ audit' = audit) \/ Stored(r, "failed", events)
  BY <1>1, <1>2, <1>3, WriteStores
<1>6. CASE o = "ok"
  <2> DEFINE n == [call[r] EXCEPT !.pc = "done", !.reply = "error", !.alarmed = raised]
  <2>1. call' = [call EXCEPT ![r] = n]
    BY <1>3, <1>6
  <2>2. /\ n.pc = "done" /\ n.data = call[r].data
        /\ n.published = call[r].published /\ n.verdict = call[r].verdict
        /\ n.uses = call[r].uses /\ n.touched = call[r].touched
        /\ n.since = call[r].since /\ n \in Progress
    BY <1>1 DEF Progress, Step, Reply
  <2> HIDE DEF n
  <2>3. Stored(r, "failed", events)
    BY <1>1, <1>2, <1>3, <1>6 DEF Write, Stored
  <2>4. /\ Elsewhere(r) /\ exec'[r] = "failed" /\ audit'[r] = events /\ token' = token
    <3>1. exec \in [Request -> {"none", "pending", "running"} \cup Terminal]
          /\ audit \in [Request -> Seq(Outcome)] /\ "failed" \in Terminal
      BY DEF IInv, Types, Terminal
    <3>2. /\ faults' \in Nat /\ member' = member /\ version' = version /\ config' = config
          /\ changes' = changes /\ crashes' = crashes
      BY <1>4, Around
    <3> QED BY <1>2, <2>3, <3>1, <3>2, TokensStay DEF Elsewhere, Stored
  <2>5. Agrees(r)'
    BY <1>2, <2>4 DEF Agrees, Answered
  <2>6. Answered(r)'
    BY <1>2, <2>4 DEF Answered
  <2> QED BY <1>1, <1>2, <2>1, <2>2, <2>4, <2>5, <2>6, ReturnKeeps DEF Terminal
<1>7. CASE o # "ok"
  <2>1. PICK n \in Progress :
          /\ call' = [call EXCEPT ![r] = n] /\ n.pc = "done" /\ n.alarmed /\ ~n.data
          /\ ~n.published /\ n.verdict = call[r].verdict /\ n.uses = call[r].uses
          /\ n.touched = call[r].touched /\ n.since = call[r].since
    BY <1>1, <1>3, <1>7, AuditFailedDoes
  <2> QED BY <1>1, <1>2, <1>5, <1>4, <2>1, TokensStay, LostKeeps DEF Terminal
<1> QED BY <1>6, <1>7

LEMMA RefuseKeeps ==
  ASSUME IInv, NEW r \in Request, Refuse(r)
  PROVE  IInv'
BY EndEarlyKeeps DEF Refuse, At

LEMMA CredentialFailsKeeps ==
  ASSUME IInv, NEW r \in Request, CredentialFails(r)
  PROVE  IInv'
BY EndEarlyKeeps DEF CredentialFails, At

LEMMA FinalizePanicKeeps ==
  ASSUME IInv, NEW r \in Request, FinalizePanic(r)
  PROVE  IInv'
<1>1. /\ call[r].pc = "finalize" /\ UNCHANGED env /\ UNCHANGED registry
      /\ call[r] \in Progress /\ audit[r] = <<>> /\ token[r] = "unused"
      /\ ~call[r].data /\ ~call[r].published /\ \A t \in call[r].uses : token[t] = "spent"
  BY UnderWay DEF FinalizePanic, At, IInv, Known, Recording, Tokens, Over
<1>2. PICK o \in Ends :
        /\ Tx(r, FALSE, o) /\ Write(r, o, "failed", <<"failed">>)
        /\ call' = [call EXCEPT ![r].pc = "done", ![r].reply = "panic",
                                ![r].alarmed = o # "ok"]
  BY DEF FinalizePanic
<1> DEFINE n == [call[r] EXCEPT !.pc = "done", !.reply = "panic", !.alarmed = o # "ok"]
<1>3. call' = [call EXCEPT ![r] = n]
  BY <1>2
<1>4. /\ n.pc = "done" /\ n.alarmed = (o # "ok") /\ n.data = call[r].data
      /\ n.published = call[r].published /\ n.verdict = call[r].verdict
      /\ n.uses = call[r].uses /\ n.touched = call[r].touched
      /\ n.since = call[r].since /\ n \in Progress
  BY <1>1 DEF Progress, Step, Reply
<1> HIDE DEF n
<1>5. /\ <<"failed">> \in Seq(Outcome) /\ <<"failed">> # <<>> /\ <<>> \o <<"failed">> = <<"failed">>
      /\ "failed" \in Outcome /\ StatusFor("failed") = "failed"
  BY DEF Outcome, StatusFor
<1>6. CASE o = "ok"
  <2>1. Stored(r, "failed", <<"failed">>)
    BY <1>1, <1>2, <1>5, <1>6 DEF Write, Stored
  <2>2. /\ Elsewhere(r) /\ exec'[r] = "failed" /\ audit'[r] = <<"failed">> /\ token' = token
    BY <1>1, <1>2, <1>5, <2>1, Around, TokensStay DEF Elsewhere, Stored, IInv, Types,
       Terminal
  <2>3. Agrees(r)'
    BY <1>5, <2>2 DEF Agrees, Answered
  <2>4. Answered(r)'
    BY <1>5, <2>2 DEF Answered
  <2> QED BY <1>1, <1>3, <1>4, <1>5, <2>2, <2>3, <2>4, ReturnKeeps DEF Terminal
<1>7. CASE o # "ok"
  <2>1. (exec' = exec /\ audit' = audit) \/ Stored(r, "failed", <<"failed">>)
    BY <1>1, <1>2, <1>5, WriteStores
  <2> QED BY <1>1, <1>2, <1>3, <1>4, <1>5, <1>7, <2>1, TokensStay, LostKeeps DEF Terminal
<1> QED BY <1>6, <1>7

-----------------------------------------------------------------------------
(* What an adapter call led to is recorded, then returned.                 *)

LEMMA WithholdDoes ==
  ASSUME IInv, NEW r \in Request, Withhold(r), call[r].pc \in {"record", "append"}
  PROVE  /\ token' \in [Request -> {"unused", "ready", "claimed", "spent"}]
         /\ \A x \in Request : TokenMoves(x)
         /\ token'[r] \notin {"claimed", "ready"} /\ \A t \in call[r].uses : token'[t] = "spent"
         /\ token'[r] # "unused" => call[r].verdict = "succeeded"
         /\ \E n \in Progress :
              /\ call' = [call EXCEPT ![r] = n] /\ n.pc = "done" /\ n.alarmed /\ ~n.data
              /\ ~n.published /\ n.verdict = call[r].verdict /\ n.uses = call[r].uses
              /\ n.touched = call[r].touched /\ n.since = call[r].since
<1>1. /\ call[r] \in Progress /\ Known(r) /\ ~call[r].published
      /\ token \in [Request -> {"unused", "ready", "claimed", "spent"}]
      /\ \A t \in call[r].uses : t \in Request /\ token[t] \in {"claimed", "spent"}
  BY UnderWay DEF IInv, Types, Known, Tokens
<1>2. /\ token' \in [Request -> {"unused", "ready", "claimed", "spent"}]
      /\ \A x \in Request : TokenMoves(x)
      /\ \A x \in Request : token'[x] = IF x \in (call[r].uses \cup {r}) \cap Registry!Live
                                        THEN "spent" ELSE token[x]
  BY DropMoves DEF Withhold
<1>3. /\ token'[r] \notin {"claimed", "ready"} /\ \A t \in call[r].uses : token'[t] = "spent"
      /\ token'[r] # "unused" => call[r].verdict = "succeeded"
  BY <1>1, <1>2 DEF Registry!Live, Known, Tokens
<1>4. CASE call[r].verdict = "panic"
  <2> DEFINE n == [call[r] EXCEPT !.pc = "done", !.reply = "panic", !.alarmed = TRUE]
  <2>1. call' = [call EXCEPT ![r] = n]
    BY <1>4 DEF Withhold, PanicWithAlarm
  <2>2. /\ n.pc = "done" /\ n.alarmed = TRUE /\ n.data = call[r].data
        /\ n.published = call[r].published /\ n.verdict = call[r].verdict
        /\ n.uses = call[r].uses /\ n.touched = call[r].touched
        /\ n.since = call[r].since /\ n \in Progress
    BY <1>1 DEF Progress, Step, Reply
  <2> HIDE DEF n
  <2>3. ~n.data
    BY <1>1, <1>4, <2>2 DEF Known, Rows
  <2> QED BY <1>1, <1>2, <1>3, <2>1, <2>2, <2>3
<1>5. CASE call[r].verdict # "panic"
  <2>1. AuditFailed(r)
    BY <1>5 DEF Withhold
  <2> QED BY <1>1, <1>2, <1>3, <2>1, AuditFailedDoes
<1> QED BY <1>4, <1>5

LEMMA Verdicts ==
  ASSUME NEW v \in Verdict
  PROVE  /\ OutcomeOf(v) \in Outcome /\ StatusOf(v) \in Terminal
         /\ StatusFor(OutcomeOf(v)) = StatusOf(v)
BY DEF Verdict, Outcome, OutcomeOf, StatusOf, StatusFor, Terminal

LEMMA RecordTerminalKeeps ==
  ASSUME IInv, NEW r \in Request, RecordTerminal(r)
  PROVE  IInv'
<1> DEFINE status == StatusOf(call[r].verdict)
           before == audit[r]
<1>1. /\ call[r].pc = "record" /\ UNCHANGED env /\ call[r] \in Progress
      /\ Known(r) /\ ~call[r].published /\ token[r] # "claimed"
  BY UnderWay DEF RecordTerminal, At, IInv
<1>2. status \in Terminal /\ before \in Seq(Outcome) /\ before \o <<>> = before
  BY <1>1, Verdicts DEF Progress, IInv, Types
<1>a. before = <<>> \/ (Again(r) /\ before = <<"succeeded">> /\ status = "failed")
  BY <1>1 DEF Known, OnRecord, Again, Audited, StatusOf
<1>3. PICK o \in Ends :
        /\ Tx(r, FALSE, o) /\ Write(r, o, status, <<>>)
        /\ IF o = "ok" THEN Goto(r, "append") /\ UNCHANGED registry ELSE Withhold(r)
  BY DEF RecordTerminal
<1> HIDE DEF status
<1>b. audit[r] \o <<>> = before /\ audit[r] = before
  BY <1>2
<1> HIDE DEF before
<1>4. CASE o = "ok"
  <2> DEFINE n == [call[r] EXCEPT !.pc = "append"]
  <2>1. call' = [call EXCEPT ![r] = n]
    BY <1>3, <1>4 DEF Goto
  <2>2. /\ n.pc = "append" /\ n.verdict = call[r].verdict /\ n.uses = call[r].uses
        /\ n.since = call[r].since /\ n.touched = call[r].touched /\ n.data = call[r].data
        /\ n.published = call[r].published /\ n.seen = call[r].seen /\ n \in Progress
    BY <1>1 DEF Progress, Step
  <2> HIDE DEF n
  <2>3. Stored(r, status, before)
    BY <1>3, <1>4, <1>b, WriteAdds
  <2>4. /\ Elsewhere(r) /\ exec'[r] = status /\ audit'[r] = before /\ token' = token
    <3>1. /\ exec \in [Request -> {"none", "pending", "running"} \cup Terminal]
          /\ audit \in [Request -> Seq(Outcome)]
      BY DEF IInv, Types
    <3>2. /\ faults' \in Nat /\ member' = member /\ version' = version /\ config' = config
          /\ changes' = changes /\ crashes' = crashes
      BY <1>1, <1>3, TxFaults DEF env
    <3> QED BY <1>2, <1>3, <1>4, <2>3, <3>1, <3>2, TokensStay DEF Elsewhere, Stored
  <2>5. call'[r] = n
    BY <1>1, <2>1, <2>2, <2>4, Becomes
  <2>6. (OnRecord(r) /\ Judged(r) /\ Agrees(r))'
    <3>1. before = <<>> \/ (Again(r)' /\ before = <<"succeeded">> /\ status = "failed")
      BY <1>a, <2>2, <2>5 DEF Again
    <3>2. OnRecord(r)' /\ Judged(r)'
      BY <1>1, <2>2, <2>4, <2>5, <3>1
         DEF Known, OnRecord, Judged, Unrecorded, Begun, Working, Recording, status
    <3>3. Agrees(r)'
      BY <2>4, <3>1 DEF Agrees, TakenBack
    <3> QED BY <3>2, <3>3
  <2>7. Fresh(r)'
    BY <1>1, <2>1, <2>2, <2>4, StaysFresh DEF Early, Late
  <2>8. /\ n.data => n.pc \in Recording /\ n.verdict = "succeeded"
        /\ token'[r] # "unused" => n.pc \in Recording /\ r \in First /\ n.verdict = "succeeded"
        /\ \A t \in n.uses : t # r /\ token'[t] \in {"claimed", "spent"} /\ call[t].published
        /\ n.touched => exec'[r] \in {"running"} \cup Terminal
    BY <1>1, <1>2, <2>2, <2>4, UnderWay DEF Known, Rows, Tokens, Recording
  <2> QED BY <1>1, <2>1, <2>2, <2>4, <2>6, <2>7, <2>8, GoesOnKeeps DEF Over
<1>5. CASE o # "ok"
  <2>1. (exec' = exec /\ audit' = audit) \/ Stored(r, status, before)
    BY <1>3, <1>b, WriteAdds
  <2>2. /\ token' \in [Request -> {"unused", "ready", "claimed", "spent"}]
        /\ \A x \in Request : TokenMoves(x)
        /\ token'[r] \notin {"claimed", "ready"} /\ \A t \in call[r].uses : token'[t] = "spent"
        /\ token'[r] # "unused" => call[r].verdict = "succeeded"
        /\ \E n \in Progress :
             /\ call' = [call EXCEPT ![r] = n] /\ n.pc = "done" /\ n.alarmed /\ ~n.data
             /\ ~n.published /\ n.verdict = call[r].verdict /\ n.uses = call[r].uses
             /\ n.touched = call[r].touched /\ n.since = call[r].since
    BY <1>1, <1>3, <1>5, WithholdDoes
  <2> QED BY <1>1, <1>2, <1>3, <1>a, <2>1, <2>2, LostKeeps
<1> QED BY <1>4, <1>5

\* Two events, one after the other.
LEMMA Concatenated ==
  ASSUME NEW S, NEW a \in S, NEW b \in S
  PROVE  <<a>> \o <<b>> = <<a, b>>
<1> DEFINE s == <<a>> \o <<b>>
           t == <<a, b>>
<1>1. s \in Seq(S) /\ Len(s) = 2 /\ s[1] = a /\ s[2] = b
  OBVIOUS
<1>2. t \in Seq(S) /\ Len(t) = 2 /\ t[1] = a /\ t[2] = b
  OBVIOUS
<1> HIDE DEF s, t
<1>3. \A i \in 1 .. Len(s) : s[i] = t[i]
  BY <1>1, <1>2
<1>4. s = t
  BY <1>1, <1>2, <1>3, SeqEqual
<1> QED BY <1>4 DEF s, t

LEMMA AppendAuditKeeps ==
  ASSUME IInv, NEW r \in Request, AppendAudit(r)
  PROVE  IInv'
<1> DEFINE event == <<OutcomeOf(call[r].verdict)>>
           events == audit[r] \o event
<1>1. /\ call[r].pc = "append" /\ UNCHANGED env /\ call[r] \in Progress
      /\ Known(r) /\ ~call[r].published /\ token[r] # "claimed"
      /\ exec[r] = StatusOf(call[r].verdict)
  BY UnderWay DEF AppendAudit, At, IInv, Known, OnRecord
<1>2. /\ exec[r] \in Terminal /\ OutcomeOf(call[r].verdict) \in Outcome
      /\ StatusFor(OutcomeOf(call[r].verdict)) = exec[r]
  BY <1>1, Verdicts DEF Progress
<1>3. \/ audit[r] = <<>>
      \/ Again(r) /\ audit[r] = <<"succeeded">> /\ OutcomeOf(call[r].verdict) = "failed"
  BY <1>1 DEF Known, OnRecord, Again, OutcomeOf
<1>a. events \in Seq(Outcome)
  <2>1. audit[r] \in Seq(Outcome)
    BY DEF IInv, Types
  <2> QED BY <1>2, <2>1
<1>4. \/ events = <<OutcomeOf(call[r].verdict)>>
      \/ Again(r) /\ events = <<"succeeded", "failed">>
  <2>1. CASE audit[r] = <<>>
    BY <1>2, <2>1
  <2>2. CASE Again(r) /\ audit[r] = <<"succeeded">> /\ OutcomeOf(call[r].verdict) = "failed"
    <3>1. event = <<"failed">>
      BY <2>2
    <3>2. <<"succeeded">> \o <<"failed">> = <<"succeeded", "failed">>
      <4>1. \A a, b \in {"succeeded", "failed"} : <<a>> \o <<b>> = <<a, b>>
        BY Concatenated
      <4> QED BY <4>1
    <3> HIDE DEF event
    <3> QED BY <2>2, <3>1, <3>2
  <2> QED BY <1>3, <2>1, <2>2
<1>b. Again(r) => exec[r] = "failed"
  BY <1>1 DEF Again, StatusOf
<1>5. PICK o \in Ends :
        /\ Tx(r, FALSE, o) /\ Write(r, o, exec[r], event)
        /\ IF o = "ok" THEN Goto(r, "recorded") /\ UNCHANGED registry ELSE Withhold(r)
  BY DEF AppendAudit
<1>c. /\ (exec' = exec /\ audit' = audit) \/ Stored(r, exec[r], events)
      /\ o = "ok" => Stored(r, exec[r], events)
  <2> HIDE DEF event
  <2> QED BY <1>5, WriteAdds
<1> HIDE DEF events
<1>6. CASE o = "ok"
  <2> DEFINE n == [call[r] EXCEPT !.pc = "recorded"]
  <2>1. call' = [call EXCEPT ![r] = n]
    BY <1>5, <1>6 DEF Goto
  <2>2. /\ n.pc = "recorded" /\ n.verdict = call[r].verdict /\ n.uses = call[r].uses
        /\ n.since = call[r].since /\ n.touched = call[r].touched /\ n.data = call[r].data
        /\ n.published = call[r].published /\ n.seen = call[r].seen /\ n \in Progress
    BY <1>1 DEF Progress, Step
  <2> HIDE DEF n
  <2>3. Stored(r, exec[r], events)
    BY <1>6, <1>c
  <2>4. /\ Elsewhere(r) /\ exec'[r] = exec[r] /\ audit'[r] = events /\ token' = token
    <3>1. /\ exec \in [Request -> {"none", "pending", "running"} \cup Terminal]
          /\ audit \in [Request -> Seq(Outcome)]
      BY DEF IInv, Types
    <3>2. /\ faults' \in Nat /\ member' = member /\ version' = version /\ config' = config
          /\ changes' = changes /\ crashes' = crashes
      BY <1>1, <1>5, TxFaults DEF env
    <3> QED BY <1>a, <1>5, <1>6, <2>3, <3>1, <3>2, TokensStay DEF Elsewhere, Stored
  <2>5. call'[r] = n
    BY <1>1, <2>1, <2>2, <2>4, Becomes
  <2>6. OnRecord(r)' /\ Judged(r)'
    <3>1. \/ events = <<OutcomeOf(call[r].verdict)>>
          \/ Again(r)' /\ events = <<"succeeded", "failed">>
      BY <1>4, <2>2, <2>5 DEF Again
    <3> QED BY <1>1, <2>2, <2>4, <2>5, <3>1
            DEF Known, OnRecord, Judged, Unrecorded, Begun, Working, Recording
  <2>7. Agrees(r)'
    <3>1. CASE events = <<OutcomeOf(call[r].verdict)>>
      BY <1>2, <2>4, <3>1 DEF Agrees, Answered
    <3>2. CASE Again(r) /\ events = <<"succeeded", "failed">>
      BY <1>b, <2>2, <2>4, <2>5, <3>2 DEF Agrees, TakenBack, Again
    <3> QED BY <1>4, <3>1, <3>2
  <2>8. Fresh(r)'
    BY <1>1, <2>1, <2>2, <2>4, StaysFresh DEF Early, Late
  <2>9. /\ n.data => n.pc \in Recording /\ n.verdict = "succeeded"
        /\ token'[r] # "unused" => n.pc \in Recording /\ r \in First /\ n.verdict = "succeeded"
        /\ \A t \in n.uses : t # r /\ token'[t] \in {"claimed", "spent"} /\ call[t].published
        /\ n.touched => exec'[r] \in {"running"} \cup Terminal
    BY <1>1, <1>2, <2>2, <2>4, UnderWay DEF Known, Rows, Tokens, Recording
  <2> QED BY <1>1, <2>1, <2>2, <2>4, <2>6, <2>7, <2>8, <2>9, GoesOnKeeps DEF Over
<1>7. CASE o # "ok"
  <2>1. (exec' = exec /\ audit' = audit) \/ Stored(r, exec[r], events)
    BY <1>c
  <2>2. /\ token' \in [Request -> {"unused", "ready", "claimed", "spent"}]
        /\ \A x \in Request : TokenMoves(x)
        /\ token'[r] \notin {"claimed", "ready"} /\ \A t \in call[r].uses : token'[t] = "spent"
        /\ token'[r] # "unused" => call[r].verdict = "succeeded"
        /\ \E n \in Progress :
             /\ call' = [call EXCEPT ![r] = n] /\ n.pc = "done" /\ n.alarmed /\ ~n.data
             /\ ~n.published /\ n.verdict = call[r].verdict /\ n.uses = call[r].uses
             /\ n.touched = call[r].touched /\ n.since = call[r].since
    BY <1>1, <1>5, <1>7, WithholdDoes
  <2>3. \/ \E x \in Outcome : events = <<x>> /\ exec[r] = StatusFor(x)
        \/ Again(r) /\ exec[r] = "failed" /\ events = <<"succeeded", "failed">>
    BY <1>2, <1>4, <1>b
  <2> QED BY <1>1, <1>2, <1>5, <1>a, <2>1, <2>2, <2>3, LostKeeps
<1> QED BY <1>6, <1>7

-----------------------------------------------------------------------------
(* ExecuteNextPage, up to the adapter.                                     *)

LEMMA ClaimKeeps ==
  ASSUME IInv, NEW r \in Request, Claim(r)
  PROVE  IInv'
<1> DEFINE now == [member |-> member, version |-> version, config |-> config]
<1>1. PICK t \in Request :
        /\ call[t].published
        /\ \/ /\ Registry!Take(t)
              /\ call' = [call EXCEPT ![r].pc = "claimed", ![r].uses = {t}, ![r].since = now]
           \/ /\ token[t] # "ready"
              /\ call' = [call EXCEPT ![r].pc = "done", ![r].reply = "error", ![r].since = now]
              /\ UNCHANGED registry
  BY DEF Claim
<1>2. /\ call[r].pc = "start" /\ r \in Follow /\ UNCHANGED env /\ exec' = exec /\ audit' = audit
      /\ faults' = faults /\ Known(r) /\ call[r] \in Progress /\ token[r] = "unused"
      /\ ~call[r].data /\ ~call[r].published /\ exec[r] = "none" /\ audit[r] = <<>>
      /\ call[r].uses = {} /\ call[r].verdict = "none" /\ ~call[r].touched
  BY UnderWay DEF Claim, At, IInv, db, Known, Recording, OnRecord, Unrecorded, Judged,
     Traced,
                  Terminal
<1>3. /\ now \in Start /\ now.member = member /\ now.version = version
      /\ now.config = config /\ version \in Nat /\ config \in Nat
  BY DEF Start, IInv, Types
<1>4. /\ member' = member /\ version' = version /\ config' = config /\ faults' \in Nat
      /\ changes' = changes /\ crashes' = crashes
      /\ exec \in [Request -> {"none", "pending", "running"} \cup Terminal]
      /\ audit \in [Request -> Seq(Outcome)] /\ t # r
      /\ token \in [Request -> {"unused", "ready", "claimed", "spent"}]
  BY <1>1, <1>2 DEF env, IInv, Types
<1> HIDE DEF now
<1>5. CASE /\ Registry!Take(t)
           /\ call' = [call EXCEPT ![r].pc = "claimed", ![r].uses = {t}, ![r].since = now]
  <2> DEFINE n == [call[r] EXCEPT !.pc = "claimed", !.uses = {t}, !.since = now]
  <2>1. call' = [call EXCEPT ![r] = n]
    BY <1>5
  <2>2. /\ n.pc = "claimed" /\ n.verdict = call[r].verdict /\ n.uses = {t}
        /\ n.since = now /\ n.touched = call[r].touched /\ n.data = call[r].data
        /\ n.published = call[r].published /\ n.seen = call[r].seen /\ n \in Progress
    BY <1>1, <1>2, <1>3 DEF Progress, Step
  <2> HIDE DEF n
  <2>3. token' = [token EXCEPT ![t] = "claimed"] /\ token[t] = "ready"
    BY <1>5 DEF Registry!Take
  <2>4. Elsewhere(r) /\ token'[r] = "unused" /\ token'[t] = "claimed"
    BY <1>1, <1>2, <1>4, <2>3 DEF Elsewhere, TokenMoves
  <2>5. call'[r] = n
    BY <1>2, <2>1, <2>2, <2>4, Becomes
  <2>6. (OnRecord(r) /\ Judged(r) /\ Agrees(r))'
    BY <1>2, <2>2, <2>5 DEF OnRecord, Judged, Agrees, Unrecorded, Begun, Working, Recording
  <2>7. Fresh(r)'
    BY <1>2, <1>3, <1>4, <2>2, <2>5, CallsDisjoint DEF Fresh
  <2> QED BY <1>1, <1>2, <1>4, <2>1, <2>2, <2>4, <2>6, <2>7, GoesOnKeeps, ZenonT(60) DEF
             Over
<1>6. CASE /\ call' = [call EXCEPT ![r].pc = "done", ![r].reply = "error", ![r].since = now]
           /\ UNCHANGED registry
  <2> DEFINE n == [call[r] EXCEPT !.pc = "done", !.reply = "error", !.since = now]
  <2>1. call' = [call EXCEPT ![r] = n]
    BY <1>6
  <2>2. /\ n.pc = "done" /\ n.since = now /\ n.alarmed = call[r].alarmed
        /\ n.verdict = call[r].verdict /\ n.uses = call[r].uses /\ n.data = call[r].data
        /\ n.touched = call[r].touched /\ n.published = call[r].published /\ n \in Progress
    BY <1>2, <1>3 DEF Progress, Step, Reply
  <2> HIDE DEF n
  <2>3. Elsewhere(r) /\ token' = token
    BY <1>2, <1>4, <1>6, TokensStay DEF Elsewhere
  <2>4. Agrees(r)'
    BY <1>2 DEF Agrees
  <2> QED BY <1>2, <2>1, <2>2, <2>3, <2>4, ReturnKeeps DEF now
<1> QED BY <1>1, <1>5, <1>6

LEMMA RejectKeeps ==
  ASSUME IInv, NEW r \in Request, Reject(r)
  PROVE  IInv'
<1>1. /\ call[r].pc \in {"claimed", "member"} /\ UNCHANGED <<db, env>> /\ Abort(r)
      /\ Known(r) /\ call[r] \in Progress /\ token[r] = "unused"
      /\ ~call[r].data /\ ~call[r].published /\ exec[r] = "none" /\ audit[r] = <<>>
      /\ ~call[r].touched /\ exec' = exec /\ audit' = audit
  BY UnderWay, Unwritten DEF Reject, IInv, Known, Recording, OnRecord, Unrecorded, Traced,
     Terminal
<1>2. PICK reply \in {"error", "panic"} : Return(r, reply)
  BY DEF Reject
<1> DEFINE n == [call[r] EXCEPT !.pc = "done", !.reply = reply]
<1>3. call' = [call EXCEPT ![r] = n]
  BY <1>2 DEF Return
<1>4. /\ n.pc = "done" /\ n.since = call[r].since /\ n.alarmed = call[r].alarmed
      /\ n.verdict = call[r].verdict /\ n.uses = call[r].uses /\ n.data = call[r].data
      /\ n.touched = call[r].touched /\ n.published = call[r].published /\ n \in Progress
  BY <1>1, <1>2 DEF Progress, Step, Reply
<1> HIDE DEF n
<1>5. Elsewhere(r) /\ token'[r] = "unused" /\ \A t \in call[r].uses : token'[t] = "spent"
  BY <1>1, Unwritten, AbortMoves
<1>6. Agrees(r)'
  BY <1>1 DEF Agrees
<1> QED BY <1>1, <1>3, <1>4, <1>5, <1>6, ReturnKeeps

LEMMA CheckMemberKeeps ==
  ASSUME IInv, NEW r \in Request, CheckMember(r)
  PROVE  IInv'
<1>1. /\ call[r].pc = "claimed" /\ UNCHANGED <<db, env>> /\ UNCHANGED registry /\ member
      /\ Known(r) /\ call[r] \in Progress /\ token[r] = "unused"
      /\ ~call[r].data /\ ~call[r].published /\ exec' = exec /\ audit' = audit
      /\ call' = [call EXCEPT ![r].pc = "member", ![r].seen.config = config]
      /\ config \in Nat /\ Elsewhere(r) /\ token' = token
  BY UnderWay, Unwritten, TokensStay DEF CheckMember, At, IInv, Types, Recording
<1> DEFINE n == [call[r] EXCEPT !.pc = "member", !.seen.config = config]
<1>2. call' = [call EXCEPT ![r] = n]
  BY <1>1
<1>3. /\ n.pc = "member" /\ n.since = call[r].since /\ n.seen.config = config
      /\ n.verdict = call[r].verdict /\ n.uses = call[r].uses /\ n.data = call[r].data
      /\ n.touched = call[r].touched /\ n.published = call[r].published /\ n \in Progress
  BY <1>1 DEF Progress, Step, Seen
<1> HIDE DEF n
<1>4. /\ call'[r] = n /\ Moves(r)
      /\ \A t \in call[r].uses : t \in Request /\ t # r /\ call'[t] = call[t]
  BY <1>1, <1>2, <1>3, Becomes
<1>5. (OnRecord(r) /\ Judged(r) /\ Agrees(r))'
  BY <1>1, <1>3, <1>4, ZenonT(60)
     DEF Known, OnRecord, Judged, Agrees, Unrecorded, Begun, Working, Recording
<1>6. Fresh(r)'
  BY <1>1, <1>3, <1>4, ZenonT(60) DEF Known, Fresh, Moves
<1>7. n.touched => exec'[r] \in {"running"} \cup Terminal
  BY <1>1, <1>3 DEF Known, Traced
<1>8. \A t \in n.uses : t # r /\ token'[t] \in {"claimed", "spent"} /\ call[t].published
  BY <1>1, <1>3, <1>4 DEF Known, Tokens
<1> QED BY <1>1, <1>2, <1>3, <1>5, <1>6, <1>7, <1>8, GoesOnKeeps DEF Over

LEMMA RecheckPolicyKeeps ==
  ASSUME IInv, NEW r \in Request, RecheckPolicy(r)
  PROVE  IInv'
<1>1. /\ call[r].pc = "member" /\ UNCHANGED <<db, env>> /\ UNCHANGED registry
      /\ Known(r) /\ call[r] \in Progress /\ token[r] = "unused"
      /\ ~call[r].data /\ ~call[r].published /\ exec' = exec /\ audit' = audit
      /\ call' = [call EXCEPT ![r].pc = "rechecked", ![r].seen.version = version]
      /\ \A t \in call[r].uses : version = call[t].seen.version
      /\ version \in Nat /\ Elsewhere(r) /\ token' = token
  BY UnderWay, Unwritten, TokensStay DEF RecheckPolicy, SamePolicy, At, IInv, Types,
     Recording
<1> DEFINE n == [call[r] EXCEPT !.pc = "rechecked", !.seen.version = version]
<1>2. call' = [call EXCEPT ![r] = n]
  BY <1>1
<1>3. /\ n.pc = "rechecked" /\ n.since = call[r].since /\ n.seen.config = call[r].seen.config
      /\ n.verdict = call[r].verdict /\ n.uses = call[r].uses /\ n.data = call[r].data
      /\ n.touched = call[r].touched /\ n.published = call[r].published /\ n \in Progress
  BY <1>1 DEF Progress, Step, Seen
<1> HIDE DEF n
<1>4. /\ call'[r] = n /\ Moves(r)
      /\ \A t \in call[r].uses : t \in Request /\ t # r /\ call'[t] = call[t]
  BY <1>1, <1>2, <1>3, Becomes
<1>5. (OnRecord(r) /\ Judged(r) /\ Agrees(r))'
  BY <1>1, <1>3, <1>4, ZenonT(60)
     DEF Known, OnRecord, Judged, Agrees, Unrecorded, Begun, Working, Recording
<1>6. Fresh(r)'
  <2>1. /\ n.since.version \in Nat /\ n.since.version <= version /\ n.since.config <= config
        /\ n.since.member /\ n.seen.config >= n.since.config /\ (r \in First => n.uses = {})
    BY <1>1, <1>3 DEF Known, Fresh, Progress, Start
  <2>2. \A t \in n.uses : call'[t] = call[t] /\ call[t].seen.version = version
    BY <1>1, <1>3, <1>4
  <2>3. n.verdict = "succeeded" =>
          \A t \in call[r].uses : call[t].seen.config >= call[r].since.config
    BY <1>1, <1>3 DEF Known, Fresh
  <2> QED BY <1>3, <1>4, <2>1, <2>2, <2>3 DEF Fresh, Moves
<1>7. n.touched => exec'[r] \in {"running"} \cup Terminal
  BY <1>1, <1>3 DEF Known, Traced
<1>8. \A t \in n.uses : t # r /\ token'[t] \in {"claimed", "spent"} /\ call[t].published
  BY <1>1, <1>3, <1>4 DEF Known, Tokens
<1> QED BY <1>1, <1>2, <1>3, <1>5, <1>6, <1>7, <1>8, GoesOnKeeps DEF Over

-----------------------------------------------------------------------------
(* The page, and what is returned.                                         *)

\* A page was read: the rows and, for the first one, perhaps a token.
LEMMA PageKeeps ==
  ASSUME IInv, NEW r \in Request, UNCHANGED db, UNCHANGED env,
         call[r].pc \in {"connected", "queried"},
         NEW n \in Progress, call' = [call EXCEPT ![r] = n],
         n.pc = "record", n.verdict = "succeeded", n.data = TRUE, n.since = call[r].since,
         n.seen = call[r].seen, n.uses = call[r].uses, n.touched = call[r].touched,
         n.published = call[r].published,
         token' \in [Request -> {"unused", "ready", "claimed", "spent"}],
         \A x \in Request \ {r} : token'[x] = token[x],
         token'[r] = "unused" \/ (token'[r] = "ready" /\ r \in First),
         r \in First \/ (call[r].pc = "connected" /\
                         \A t \in call[r].uses : call[t].seen.config = call[r].seen.config)
  PROVE  IInv'
<1>1. /\ Known(r) /\ call[r] \in Progress /\ ~call[r].published /\ exec' = exec
      /\ audit' = audit /\ exec[r] = "running" /\ audit[r] = <<>> /\ faults' = faults
      /\ r \in First \/ r \in Follow
  BY UnderWay DEF IInv, db, Known, OnRecord, Working, Recording, Request
<1>2. Elsewhere(r)
  BY <1>1 DEF Elsewhere, env, IInv, Types, TokenMoves
<1>3. /\ call'[r] = n /\ Moves(r)
      /\ \A t \in call[r].uses : t \in Request /\ t # r /\ call'[t] = call[t]
  BY <1>1, <1>2, Becomes
<1>4. (OnRecord(r) /\ Judged(r) /\ Agrees(r))'
  <2>1. exec'[r] = "running" /\ audit'[r] = <<>>
    BY <1>1
  <2>2. OnRecord(r)'
    BY <1>3, <2>1 DEF OnRecord, Unrecorded, Begun, Working, Recording
  <2>3. Judged(r)'
    BY <1>1, <1>3 DEF Known, Judged, Begun
  <2> QED BY <2>1, <2>2, <2>3 DEF Agrees
<1>5. Fresh(r)'
  <2>1. /\ n.since.version <= version /\ n.since.config <= config
        /\ n.since.member /\ n.seen.config >= n.since.config /\ (r \in First => n.uses = {})
    BY <1>1 DEF Known, Fresh
  <2>2. r \in Follow => \A t \in call[r].uses :
                          /\ call[t].seen.version >= call[r].since.version
                          /\ call[t].seen.config = call[r].seen.config
    <3>1. r \in Follow => r \notin First
      BY CallsDisjoint
    <3> QED BY <1>1, <3>1 DEF Known, Fresh
  <2>3. \A t \in n.uses : /\ call'[t].seen.version >= n.since.version
                          /\ call'[t].seen.config >= n.since.config
    <3>1. CASE r \in First
      BY <2>1, <3>1
    <3>2. CASE r \in Follow
      <4>1. \A t \in n.uses : call'[t] = call[t] /\ call[t].seen.config = n.seen.config
        BY <1>3, <2>2, <3>2
      <4>2. \A t \in n.uses : call[t].seen.version >= n.since.version
        BY <2>2, <3>2
      <4> QED BY <2>1, <4>1, <4>2
    <3> QED BY <1>1, <3>1, <3>2
  <2> QED BY <1>3, <2>1, <2>3 DEF Fresh, Moves
<1>6. \A t \in n.uses : t # r /\ token'[t] \in {"claimed", "spent"} /\ call[t].published
  BY <1>1, <1>3 DEF Known, Tokens
<1> QED BY <1>1, <1>2, <1>4, <1>5, <1>6, GoesOnKeeps DEF Over, Recording

LEMMA CreateContinuationKeeps ==
  ASSUME IInv, NEW r \in Request, CreateContinuation(r)
  PROVE  IInv'
<1>1. /\ call[r].pc = "queried" /\ UNCHANGED db /\ UNCHANGED env /\ r \in First
      /\ token \in [Request -> {"unused", "ready", "claimed", "spent"}]
      /\ call[r] \in Progress /\ token[r] = "unused" /\ call[r].uses = {}
      /\ exec' = exec /\ audit' = audit
  BY UnderWay, Unwritten
     DEF CreateContinuation, At, IInv, Types, Known, Judged, Fresh, Begun, Recording
<1>2. CASE /\ call' = [call EXCEPT ![r].pc = "record", ![r].verdict = "succeeded",
                                  ![r].data = TRUE]
           /\ Registry!Issue(r) \/ UNCHANGED registry
  <2> DEFINE n == [call[r] EXCEPT !.pc = "record", !.verdict = "succeeded", !.data = TRUE]
  <2>1. call' = [call EXCEPT ![r] = n]
    BY <1>2
  <2>2. /\ n.pc = "record" /\ n.verdict = "succeeded" /\ n.data = TRUE
        /\ n.since = call[r].since /\ n.seen = call[r].seen /\ n.uses = call[r].uses
        /\ n.touched = call[r].touched /\ n.published = call[r].published /\ n \in Progress
    BY <1>1 DEF Progress, Step, Verdict
  <2> HIDE DEF n
  <2>3. /\ token' \in [Request -> {"unused", "ready", "claimed", "spent"}]
        /\ \A x \in Request \ {r} : token'[x] = token[x]
        /\ token'[r] = "unused" \/ token'[r] = "ready"
    BY <1>1, <1>2 DEF Registry!Issue, registry
  <2> QED BY <1>1, <2>1, <2>2, <2>3, PageKeeps
<1>3. CASE Settle(r, "record", "failed") /\ UNCHANGED registry
  <2> DEFINE n == [call[r] EXCEPT !.pc = "record", !.verdict = "failed"]
  <2>1. call' = [call EXCEPT ![r] = n]
    BY <1>3 DEF Settle
  <2>2. /\ n.pc = "record" /\ n.verdict = "failed" /\ n.uses = call[r].uses
        /\ n.since = call[r].since /\ n.touched = call[r].touched
        /\ n.data = call[r].data /\ n.published = call[r].published
        /\ n.seen = call[r].seen /\ n \in Progress
    BY <1>1 DEF Progress, Step, Verdict
  <2> HIDE DEF n
  <2>3. Elsewhere(r) /\ token' = token
    BY <1>1, <1>3, Unwritten, TokensStay
  <2> QED BY <1>1, <2>1, <2>2, <2>3, TurnKeeps DEF Turning, Begun, Working, Late, Over
<1> QED BY <1>2, <1>3 DEF CreateContinuation

LEMMA NextPageKeeps ==
  ASSUME IInv, NEW r \in Request, NextPage(r)
  PROVE  IInv'
<1>1. /\ call[r].pc = "connected" /\ UNCHANGED db /\ UNCHANGED env /\ r \in Follow
      /\ token \in [Request -> {"unused", "ready", "claimed", "spent"}]
      /\ call[r] \in Progress /\ token[r] = "unused" /\ exec' = exec /\ audit' = audit
  BY UnderWay, Unwritten DEF NextPage, At, IInv, Types, Recording
<1>2. CASE /\ \A t \in call[r].uses : SameConnection(r, t)
           /\ call' = [call EXCEPT ![r].pc = "record", ![r].verdict = "succeeded",
                                   ![r].data = TRUE]
           /\ UNCHANGED registry
  <2> DEFINE n == [call[r] EXCEPT !.pc = "record", !.verdict = "succeeded", !.data = TRUE]
  <2>1. call' = [call EXCEPT ![r] = n]
    BY <1>2
  <2>2. /\ n.pc = "record" /\ n.verdict = "succeeded" /\ n.data = TRUE
        /\ n.since = call[r].since /\ n.seen = call[r].seen /\ n.uses = call[r].uses
        /\ n.touched = call[r].touched /\ n.published = call[r].published /\ n \in Progress
    BY <1>1 DEF Progress, Step, Verdict
  <2> HIDE DEF n
  <2>3. token' = token /\ \A t \in call[r].uses : call[t].seen.config = call[r].seen.config
    BY <1>2 DEF SameConnection, registry
  <2> QED BY <1>1, <2>1, <2>2, <2>3, PageKeeps
<1>3. ASSUME NEW v \in {"failed", "cancelled", "rate_limited"}, Settle(r, "record", v), Abort(r)
      PROVE  IInv'
  <2> DEFINE n == [call[r] EXCEPT !.pc = "record", !.verdict = v]
  <2>1. call' = [call EXCEPT ![r] = n]
    BY <1>3 DEF Settle
  <2>2. /\ n.pc = "record" /\ n.verdict = v /\ n.uses = call[r].uses
        /\ n.since = call[r].since /\ n.touched = call[r].touched
        /\ n.data = call[r].data /\ n.published = call[r].published
        /\ n.seen = call[r].seen /\ n \in Progress
    BY <1>1, <1>3 DEF Progress, Step, Verdict
  <2> HIDE DEF n
  <2>3. Elsewhere(r) /\ token'[r] = token[r] /\ \A t \in call[r].uses : token'[t] = "spent"
    BY <1>1, <1>3, Unwritten, AbortMoves
  <2> QED BY <1>1, <1>3, <2>1, <2>2, <2>3, TurnKeeps DEF Turning, Begun, Working, Late,
             Over
<1> QED BY <1>2, <1>3 DEF NextPage, AdapterErrors

LEMMA ReturnFirstKeeps ==
  ASSUME IInv, NEW r \in Request, ReturnFirst(r)
  PROVE  IInv'
<1>1. /\ call[r].pc = "recorded" /\ UNCHANGED db /\ UNCHANGED env /\ UNCHANGED registry
      /\ r \in First /\ call[r] \in Progress /\ call[r].uses = {} /\ Known(r)
      /\ ~call[r].published /\ token[r] # "claimed" /\ exec' = exec /\ audit' = audit
      /\ exec[r] = StatusOf(call[r].verdict) /\ audit[r] = <<OutcomeOf(call[r].verdict)>>
      /\ Elsewhere(r) /\ token' = token /\ token[r] \in {"unused", "ready", "claimed", "spent"}
  BY UnderWay, Unwritten, TokensStay, CallsDisjoint
     DEF ReturnFirst, At, IInv, Types, Known, Fresh, OnRecord, Again
<1>2. /\ exec[r] \in Terminal /\ Answered(r)' /\ Agrees(r)'
      /\ call[r].verdict = "succeeded" => Audited(r)'
  BY <1>1, Verdicts DEF Progress, Agrees, Answered, Audited, StatusOf, OutcomeOf
<1>3. CASE /\ call[r].verdict = "succeeded"
           /\ call' = [call EXCEPT ![r].pc = "done", ![r].reply = "ok",
                                   ![r].published = token[r] # "unused"]
  <2> DEFINE n == [call[r] EXCEPT !.pc = "done", !.reply = "ok",
                                  !.published = token[r] # "unused"]
  <2>1. call' = [call EXCEPT ![r] = n]
    BY <1>3
  <2>2. /\ n.pc = "done" /\ n.published = (token[r] # "unused") /\ n.verdict = call[r].verdict
        /\ n.uses = call[r].uses /\ n.since = call[r].since /\ n.touched = call[r].touched
        /\ n.data = call[r].data /\ n \in Progress
    BY <1>1 DEF Progress, Step, Reply
  <2> HIDE DEF n
  <2> QED BY <1>1, <1>2, <1>3, <2>1, <2>2, ReturnKeeps DEF Known, Tokens
<1>4. CASE call[r].verdict # "succeeded" /\ Return(r, "error")
  <2> DEFINE n == [call[r] EXCEPT !.pc = "done", !.reply = "error"]
  <2>1. call' = [call EXCEPT ![r] = n]
    BY <1>4 DEF Return
  <2>2. /\ n.pc = "done" /\ n.published = call[r].published /\ n.verdict = call[r].verdict
        /\ n.uses = call[r].uses /\ n.since = call[r].since /\ n.touched = call[r].touched
        /\ n.data = call[r].data /\ n \in Progress
    BY <1>1 DEF Progress, Step, Reply
  <2> HIDE DEF n
  <2>3. token[r] = "unused" /\ ~call[r].data
    BY <1>1, <1>4 DEF Known, Tokens, Rows
  <2> QED BY <1>1, <1>2, <2>1, <2>2, <2>3, ReturnKeeps
<1> QED BY <1>3, <1>4 DEF ReturnFirst

LEMMA ReturnFollowKeeps ==
  ASSUME IInv, NEW r \in Request, ReturnFollow(r)
  PROVE  IInv'
<1>1. /\ call[r].pc = "recorded" /\ UNCHANGED <<db, env>> /\ UNCHANGED db /\ UNCHANGED env
      /\ r \in Follow /\ r \notin First /\ call[r] \in Progress /\ Known(r) /\ ~call[r].published
      /\ exec' = exec /\ audit' = audit /\ faults' = faults
      /\ exec[r] = StatusOf(call[r].verdict)
      /\ \/ audit[r] = <<OutcomeOf(call[r].verdict)>>
         \/ call[r].verdict = "panic" /\ audit[r] = <<"succeeded", "failed">>
      /\ token \in [Request -> {"unused", "ready", "claimed", "spent"}]
  BY UnderWay, CallsDisjoint DEF ReturnFollow, At, IInv, Types, Known, OnRecord, Again, db
<1>2. /\ exec[r] \in Terminal
      /\ \/ Answered(r)'
         \/ /\ call[r].verdict = "panic" /\ exec'[r] = "failed"
            /\ audit'[r] = <<"succeeded", "failed">>
      /\ call[r].verdict = "succeeded" => Audited(r)' /\ Answered(r)'
  <2>1. StatusOf("panic") = "failed" /\ StatusOf("succeeded") = "completed"
        /\ OutcomeOf("succeeded") = "succeeded"
    BY DEF StatusOf, OutcomeOf
  <2> QED BY <1>1, <2>1, Verdicts DEF Progress, Answered, Audited
<1>a. ASSUME call'[r].verdict = call[r].verdict PROVE Agrees(r)'
  BY <1>1, <1>2, <1>a DEF Agrees, TakenBack, Again
<1>3. /\ token[r] = "unused" /\ (call[r].data => call[r].verdict = "succeeded")
      /\ \A s, t \in call[r].uses : s = t
      /\ \A t \in call[r].uses : t \in Request /\ t # r
  BY <1>1, UnderWay DEF Known, Tokens, Rows, Judged
<1>4. ASSUME Abort(r)
      PROVE  Elsewhere(r) /\ token'[r] = "unused" /\ \A t \in call[r].uses : token'[t] = "spent"
  BY <1>1, <1>3, <1>4, Unwritten, AbortMoves
<1>5. ASSUME call[r].verdict = "succeeded", NEW t \in call[r].uses, Registry!Exchange(t, r),
             call' = [call EXCEPT ![r].pc = "done", ![r].reply = "ok", ![r].published = TRUE]
      PROVE  IInv'
  <2> DEFINE n == [call[r] EXCEPT !.pc = "done", !.reply = "ok", !.published = TRUE]
  <2>1. call' = [call EXCEPT ![r] = n]
    BY <1>5
  <2>2. /\ n.pc = "done" /\ n.published = TRUE /\ n.verdict = call[r].verdict
        /\ n.uses = call[r].uses /\ n.since = call[r].since /\ n.touched = call[r].touched
        /\ n.data = call[r].data /\ n \in Progress
    BY <1>1 DEF Progress, Step, Reply
  <2> HIDE DEF n
  <2>3. token[t] = "claimed" /\ token' = [token EXCEPT ![t] = "spent", ![r] = "ready"]
    BY <1>5 DEF Registry!Exchange
  <2>4. /\ token' \in [Request -> {"unused", "ready", "claimed", "spent"}]
        /\ token'[t] = "spent" /\ token'[r] = "ready"
        /\ \A x \in Request \ {r} : TokenMoves(x)
    BY <1>1, <1>3, <1>5, <2>3 DEF TokenMoves
  <2>5. Elsewhere(r)
    BY <1>1, <2>4 DEF Elsewhere, env, IInv, Types
  <2>6. \A x \in call[r].uses : token'[x] = "spent"
    BY <1>3, <1>5, <2>4
  <2>7. Agrees(r)'
    BY <1>1, <1>a, <2>1, <2>2, <2>5, Becomes
  <2> QED BY <1>1, <1>2, <1>5, <2>1, <2>2, <2>4, <2>5, <2>6, <2>7, ReturnKeeps
<1>6. ASSUME Abort(r), NEW reply \in {"ok", "error", "panic"}, Return(r, reply) PROVE IInv'
  <2> DEFINE n == [call[r] EXCEPT !.pc = "done", !.reply = reply]
  <2>1. call' = [call EXCEPT ![r] = n]
    BY <1>6 DEF Return
  <2>2. /\ n.pc = "done" /\ n.published = call[r].published /\ n.verdict = call[r].verdict
        /\ n.uses = call[r].uses /\ n.since = call[r].since /\ n.touched = call[r].touched
        /\ n.data = call[r].data /\ n \in Progress
    BY <1>1, <1>6 DEF Progress, Step, Reply
  <2> HIDE DEF n
  <2>3. Agrees(r)'
    BY <1>1, <1>a, <1>4, <1>6, <2>1, <2>2, Becomes
  <2> QED BY <1>1, <1>2, <1>3, <1>4, <1>6, <2>1, <2>2, <2>3, ReturnKeeps
<1>7. ASSUME call[r].verdict = "succeeded", Abort(r), NEW rows \in BOOLEAN,
             call' = [call EXCEPT ![r].pc = "done", ![r].reply = "error", ![r].data = rows]
      PROVE  IInv'
  <2> DEFINE n == [call[r] EXCEPT !.pc = "done", !.reply = "error", !.data = rows]
  <2>1. call' = [call EXCEPT ![r] = n]
    BY <1>7
  <2>2. /\ n.pc = "done" /\ n.published = call[r].published /\ n.verdict = call[r].verdict
        /\ n.uses = call[r].uses /\ n.since = call[r].since /\ n.touched = call[r].touched
        /\ n \in Progress
    BY <1>1, <1>7 DEF Progress, Step, Reply
  <2> HIDE DEF n
  <2>3. Agrees(r)'
    BY <1>1, <1>a, <1>4, <1>7, <2>1, <2>2, Becomes
  <2> QED BY <1>1, <1>2, <1>4, <1>7, <2>1, <2>2, <2>3, ReturnKeeps
<1> QED BY <1>5, <1>6, <1>7 DEF ReturnFollow

-----------------------------------------------------------------------------
(* What the pipeline does not choose.                                      *)

LEMMA DisconnectKeeps ==
  ASSUME IInv, NEW r \in Request, Disconnect(r)
  PROVE  IInv'
<1>1. /\ call[r].pc \notin {"start", "done", "crashed"} /\ UNCHANGED db /\ UNCHANGED env
      /\ UNCHANGED registry /\ call[r] \in Progress /\ Known(r) /\ ~call[r].published
      /\ exec' = exec /\ audit' = audit /\ Elsewhere(r) /\ token' = token
      /\ token[r] # "claimed"
      /\ call' = [call EXCEPT ![r].canceled = TRUE]
  BY UnderWay, Unwritten, TokensStay DEF Disconnect, InFlight, IInv, Types
<1> DEFINE n == [call[r] EXCEPT !.canceled = TRUE]
<1>2. call' = [call EXCEPT ![r] = n]
  BY <1>1
<1>3. /\ n.pc = call[r].pc /\ n.verdict = call[r].verdict /\ n.uses = call[r].uses
      /\ n.seen = call[r].seen /\ n.touched = call[r].touched /\ n.data = call[r].data
      /\ n.published = call[r].published /\ n.since = call[r].since /\ n \in Progress
  BY <1>1 DEF Progress
<1> HIDE DEF n
<1>4. /\ call'[r] = n
      /\ \A t \in call[r].uses : t \in Request /\ t # r /\ call'[t] = call[t]
  BY <1>1, <1>2, <1>3, Becomes
<1>5. (OnRecord(r) /\ Judged(r) /\ Agrees(r))'
  BY <1>1, <1>3, <1>4
     DEF Known, OnRecord, Judged, Agrees, Answered, TakenBack, Again, Audited
<1>6. Fresh(r)'
  BY <1>1, <1>2, <1>3, StaysFresh
<1>7. n.touched => exec'[r] \in {"running"} \cup Terminal
  BY <1>1, <1>3 DEF Known, Traced
<1>8. /\ n.data => n.pc \in Recording /\ n.verdict = "succeeded"
      /\ token'[r] # "unused" => n.pc \in Recording /\ r \in First /\ n.verdict = "succeeded"
  BY <1>1, <1>3 DEF Known, Rows, Tokens
<1>9. /\ \A t \in n.uses : t # r /\ token'[t] \in {"claimed", "spent"} /\ call[t].published
      /\ n.pc \in Over => \A t \in n.uses : token'[t] = "spent"
  BY <1>1, <1>3, <1>4 DEF Known, Tokens
<1> QED BY <1>1, <1>2, <1>3, <1>5, <1>6, <1>7, <1>8, <1>9, GoesOnKeeps

LEMMA ExpireKeeps ==
  ASSUME IInv, Expire
  PROVE  IInv'
<1>1. PICK e \in Registry!Live : Registry!Drop({e})
  BY DEF Expire
<1>2. /\ token' \in [Request -> {"unused", "ready", "claimed", "spent"}]
      /\ \A x \in Request : TokenMoves(x)
  BY <1>1, DropMoves
<1>3. /\ exec' = exec /\ audit' = audit /\ faults' = faults /\ call' = call
      /\ member' = member /\ version' = version /\ config' = config
      /\ changes' = changes /\ crashes' = crashes
  BY DEF Expire, db, env
<1>4. Types'
  BY <1>2, <1>3 DEF IInv, Types
<1>5. ASSUME NEW u \in Request PROVE Known(u)'
  <2>1. Known(u) /\ TokenMoves(u) /\ \A t \in call[u].uses : t \in Request /\ TokenMoves(t)
    BY <1>2 DEF IInv, Types, Progress
  <2>2. (OnRecord(u) /\ Judged(u) /\ Agrees(u) /\ Traced(u) /\ Rows(u) /\ Fresh(u))'
    BY <1>3, <2>1
       DEF Known, OnRecord, Judged, Agrees, Answered, TakenBack, Again, Traced, Overturned,
           Rows, Fresh, Audited, Done, At
  <2>3. Tokens(u)'
    BY <1>3, <2>1 DEF Known, Tokens, TokenMoves, Audited, Done, At
  <2> QED BY <2>2, <2>3 DEF Known
<1> QED BY <1>4, <1>5 DEF IInv

LEMMA ChangeKeeps ==
  ASSUME IInv, Change
  PROVE  IInv'
<1>1. /\ exec' = exec /\ audit' = audit /\ faults' = faults /\ call' = call /\ token' = token
      /\ crashes' = crashes
  BY DEF Change, db, registry
<1>2. /\ member' \in BOOLEAN /\ version' \in Nat /\ config' \in Nat /\ changes' \in Nat
      /\ (member' => member) /\ version <= version' /\ config <= config'
      /\ version \in Nat /\ config \in Nat
  <2>1. /\ member \in BOOLEAN /\ version \in Nat /\ config \in Nat /\ changes \in Nat
        /\ changes' = changes + 1
    BY DEF Change, IInv, Types
  <2>2. CASE member' = FALSE /\ UNCHANGED <<version, config>>
    <3>1. member' \in BOOLEAN /\ (member' => member)
      BY <2>2
    <3>2. version' = version /\ config' = config
      BY <2>2
    <3> QED BY <2>1, <3>1, <3>2
  <2>3. CASE version' = version + 1 /\ UNCHANGED <<member, config>>
    BY <2>1, <2>3
  <2>4. CASE config' = config + 1 /\ UNCHANGED <<member, version>>
    BY <2>1, <2>4
  <2> QED BY <2>2, <2>3, <2>4 DEF Change
<1>3. Types'
  BY <1>1, <1>2 DEF IInv, Types
<1>4. ASSUME NEW u \in Request PROVE Known(u)'
  <2>1. Known(u) /\ call[u].since.version \in Nat /\ call[u].since.config \in Nat
    BY DEF IInv, Types, Progress, Start
  <2>2. (OnRecord(u) /\ Judged(u) /\ Agrees(u) /\ Traced(u) /\ Rows(u) /\ Tokens(u))'
    BY <1>1, <2>1
       DEF Known, OnRecord, Judged, Agrees, Answered, TakenBack, Again, Traced, Overturned,
           Rows, Tokens, Audited, Done, At
  <2>3. Fresh(u)'
    BY <1>1, <1>2, <2>1 DEF Known, Fresh
  <2> QED BY <2>2, <2>3 DEF Known
<1> QED BY <1>3, <1>4 DEF IInv

LEMMA CrashKeeps ==
  ASSUME IInv, Crash
  PROVE  IInv'
<1> DEFINE after(r) == IF InFlight(r) THEN [call[r] EXCEPT !.pc = "crashed", !.data = FALSE]
                       ELSE call[r]
<1>1. /\ exec' = exec /\ audit' = audit /\ faults' = faults /\ changes' = changes
      /\ member' = member /\ version' = version /\ config' = config /\ crashes' \in Nat
  <2>1. crashes \in Nat /\ crashes' = crashes + 1
    BY DEF Crash, IInv, Types
  <2>2. UNCHANGED <<db, member, version, config, changes>>
    BY DEF Crash
  <2> QED BY <2>1, <2>2 DEF db
<1>2. /\ token' \in [Request -> {"unused", "ready", "claimed", "spent"}]
      /\ \A x \in Request : token'[x] \in {"unused", "spent"}
      /\ \A x \in Request : token[x] \in {"claimed", "spent"} => token'[x] = "spent"
      /\ \A x \in Request : token[x] = "unused" => token'[x] = "unused"
  <2>1. token' = [x \in Request |-> IF x \in Registry!Live THEN "spent" ELSE token[x]]
    BY DEF Crash, Registry!Drop
  <2>2. token \in [Request -> {"unused", "ready", "claimed", "spent"}]
    BY DEF IInv, Types
  <2> QED BY <2>1, <2>2 DEF Registry!Live
<1>3. \A u \in Request :
        /\ call[u] \in Progress /\ call'[u] \in Progress
        /\ call[u].pc \in {"start", "done", "crashed"} => call'[u] = call[u]
        /\ call[u].pc \notin {"start", "done", "crashed"} =>
             /\ call'[u].pc = "crashed" /\ call'[u].data = FALSE
        /\ call'[u].verdict = call[u].verdict /\ call'[u].uses = call[u].uses
        /\ call'[u].since = call[u].since /\ call'[u].seen = call[u].seen
        /\ call'[u].touched = call[u].touched /\ call'[u].published = call[u].published
  <2> TAKE u \in Request
  <2>1. call[u] \in Progress /\ call'[u] = after(u)
    BY DEF Crash, IInv, Types
  <2>2. CASE InFlight(u)
    <3> DEFINE n == [call[u] EXCEPT !.pc = "crashed", !.data = FALSE]
    <3>1. /\ n \in Progress /\ n.pc = "crashed" /\ n.data = FALSE
          /\ n.verdict = call[u].verdict /\ n.uses = call[u].uses
          /\ n.since = call[u].since /\ n.seen = call[u].seen
          /\ n.touched = call[u].touched /\ n.published = call[u].published
      BY <2>1 DEF Progress, Step
    <3>2. call'[u] = n
      BY <2>1, <2>2
    <3> HIDE DEF n
    <3> QED BY <2>1, <2>2, <3>1, <3>2 DEF InFlight
  <2>3. CASE ~InFlight(u)
    <3>1. call'[u] = call[u] /\ call[u].pc \in {"start", "done", "crashed"}
      BY <2>1, <2>3 DEF InFlight
    <3> QED BY <2>1, <3>1
  <2> QED BY <2>2, <2>3
<1> HIDE DEF after
<1>4. Types'
  <2>1. call' \in [Request -> Progress]
    BY <1>3 DEF Crash
  <2> QED BY <1>1, <1>2, <2>1 DEF IInv, Types
<1>5. ASSUME NEW u \in Request PROVE Known(u)'
  <2>1. Known(u) /\ \A t \in call[u].uses : t \in Request /\ Done(t)
    BY UsedReturned DEF IInv
  <2>2. \A t \in call[u].uses : call'[t] = call[t] /\ token'[t] = "spent"
    BY <1>2, <1>3, <2>1 DEF Known, Tokens, Done, At
  <2>3. (OnRecord(u) /\ Judged(u) /\ Agrees(u))'
    BY <1>1, <1>3, <2>1
       DEF Known, OnRecord, Judged, Agrees, Answered, TakenBack, Again, Audited, Unrecorded,
           Begun, Working, Recording
  <2>4. (Traced(u) /\ Rows(u))'
    BY <1>1, <1>3, <2>1 DEF Known, Traced, Answered, Overturned, Rows, Audited, Done, At
  <2>5. Fresh(u)'
    BY <1>1, <1>3, <2>1, <2>2 DEF Known, Fresh
  <2>6. Tokens(u)'
    <3>1. CASE call[u].pc \in {"start", "done", "crashed"}
      <4>1. call'[u] = call[u] /\ token'[u] \in {"unused", "spent"}
        BY <1>2, <1>3, <3>1
      <4>2. token'[u] # "unused" => token[u] # "unused"
        BY <1>2
      <4>3. /\ call[u].published => Done(u) /\ Audited(u)
            /\ call[u].published => call[u].verdict = "succeeded"
            /\ \A t \in call[u].uses : call[t].published
        BY <2>1 DEF Known, Tokens
      <4>4. token[u] # "unused" =>
              call[u].verdict = "succeeded" /\ call[u].pc \in {"done", "crashed"}
        BY <2>1, <3>1 DEF Known, Tokens, Recording
      <4>5. call'[u].published => (Done(u) /\ Audited(u))'
        BY <1>1, <4>1, <4>3 DEF Done, At, Audited
      <4> QED BY <2>1, <2>2, <4>1, <4>2, <4>3, <4>4, <4>5 DEF Tokens
    <3>2. CASE call[u].pc \notin {"start", "done", "crashed"}
      <4>1. ~call[u].published
        BY <2>1, <3>2 DEF Known, Tokens, Done, At
      <4> QED BY <1>2, <1>3, <2>1, <2>2, <3>2, <4>1 DEF Known, Tokens, Done, At
    <3> QED BY <3>1, <3>2
  <2> QED BY <2>3, <2>4, <2>5, <2>6 DEF Known
<1> QED BY <1>4, <1>5 DEF IInv

-----------------------------------------------------------------------------
(* The invariant holds, and what follows from it.                          *)

LEMMA InitKnows ==
  ASSUME Init
  PROVE  IInv
<1>1. Idle \in Progress
  BY DEF Idle, Progress, Step, Verdict, Seen, Reply, Start
<1>2. Types
  BY <1>1 DEF Init, Types, Registry!Init
<1>3. ASSUME NEW r \in Request PROVE Known(r)
  <2>1. /\ call[r] = Idle /\ exec[r] = "none" /\ audit[r] = <<>> /\ token[r] = "unused"
        /\ member = TRUE /\ version = 0 /\ config = 0
    BY DEF Init, Registry!Init
  <2>2. /\ Idle.pc = "start" /\ Idle.verdict = "none" /\ Idle.uses = {} /\ Idle.touched = FALSE
        /\ Idle.data = FALSE /\ Idle.published = FALSE /\ Idle.since.member = TRUE
        /\ Idle.since.version = 0 /\ Idle.since.config = 0
    BY DEF Idle
  <2>3. OnRecord(r) /\ Judged(r) /\ Agrees(r)
    BY <2>1, <2>2 DEF OnRecord, Judged, Agrees, Unrecorded, Begun, Working, Recording
  <2>4. Traced(r) /\ Rows(r)
    BY <2>1, <2>2 DEF Traced, Rows, Done, At
  <2>5. Fresh(r)
    BY <2>1, <2>2 DEF Fresh
  <2>6. Tokens(r)
    BY <2>1, <2>2 DEF Tokens, Done, At, Over
  <2> QED BY <2>3, <2>4, <2>5, <2>6 DEF Known
<1> QED BY <1>2, <1>3 DEF IInv

LEMMA StutterKeeps ==
  ASSUME IInv, UNCHANGED vars
  PROVE  IInv'
<1>1. /\ exec' = exec /\ audit' = audit /\ faults' = faults /\ call' = call /\ token' = token
      /\ member' = member /\ version' = version /\ config' = config
      /\ changes' = changes /\ crashes' = crashes
  BY DEF vars
<1> QED
  BY <1>1 DEF IInv, Types, Known, OnRecord, Judged, Agrees, Answered, TakenBack, Again,
              Traced, Overturned, Rows, Fresh, Tokens, Audited, Done, At

LEMMA ServeKeeps ==
  ASSUME IInv, NEW r \in Request, Serve(r)
  PROVE  IInv'
BY AuthorizeKeeps, CreatePendingKeeps, CheckPolicyKeeps, ResolveCredentialKeeps,
   RefuseKeeps,
   CredentialFailsKeeps, MarkRunningKeeps, ClaimKeeps, RejectKeeps, CheckMemberKeeps,
   RecheckPolicyKeeps, BeginContinuationKeeps, ReResolveKeeps, GetHandleKeeps, QueryKeeps,
   CreateContinuationKeeps, NextPageKeeps, RecordTerminalKeeps, AppendAuditKeeps,
   ReturnFirstKeeps, ReturnFollowKeeps, FinalizePanicKeeps
   DEF Serve

LEMMA NextKeeps ==
  ASSUME IInv, [Next]_vars
  PROVE  IInv'
BY ServeKeeps, PanicKeeps, DisconnectKeeps, ExpireKeeps, ChangeKeeps, CrashKeeps,
   StutterKeeps
   DEF Next

LEMMA Invariance == Spec => []IInv
BY InitKnows, NextKeeps, PTL DEF Spec

\* Rows leave a call only after its execution was recorded as completed and its audit
\* event was written, whatever the metadata database loses and whenever the process
\* is restarted.
THEOREM RowsAreAudited == Spec => []ShownIsAudited
<1>1. IInv => ShownIsAudited
  BY DEF IInv, Known, Rows, Audited, ShownIsAudited
<1> QED BY <1>1, Invariance, PTL

LEMMA AnsweredOnce ==
  ASSUME NEW r \in Request, Answered(r)
  PROVE  Accounted(r)
BY DEF Answered, Accounted

\* A target database is reached under a running execution only, and a call that
\* returned has ended its execution with one audit event that agrees with it, or with
\* a second one that takes its success back, or has raised an alarm.
THEOREM AccessIsTraced == Spec => []TraceOrAlarm
<1>1. IInv => TraceOrAlarm
  BY AnsweredOnce DEF IInv, Known, Traced, TraceOrAlarm, Accounted
<1> QED BY <1>1, Invariance, PTL

\* An execution has one audit event, which agrees with the status, also when a commit
\* succeeds and is reported as failed; only a following page that panics after its
\* success was recorded has a second one or lacks it, and it returns neither rows nor a
\* token.
THEOREM AuditFollowsStatus == Spec => []AuditAgrees
<1>1. ASSUME IInv PROVE AuditAgrees
  <2> SUFFICES ASSUME NEW r \in Request, audit[r] # <<>>
      PROVE  /\ \/ Accounted(r)
                \/ /\ r \in Follow /\ call[r].verdict = "panic"
                   /\ exec[r] = "failed" /\ audit[r] = <<"succeeded">>
             /\ call[r].verdict = "panic" =>
                  ~call[r].data /\ ~call[r].published /\ token[r] = "unused"
    BY DEF AuditAgrees
  <2>1. Agrees(r) /\ Rows(r) /\ Tokens(r)
    BY <1>1 DEF IInv, Known
  <2>2. Answered(r) => Accounted(r)
    BY AnsweredOnce
  <2>3. TakenBack(r) /\ audit[r] # <<"succeeded">> => Accounted(r)
    BY DEF TakenBack, Again, Accounted, Overturned
  <2>4. call[r].verdict = "panic" => ~call[r].data /\ ~call[r].published /\ token[r] = "unused"
    BY <2>1 DEF Rows, Tokens
  <2> QED BY <2>1, <2>2, <2>3, <2>4 DEF Agrees, TakenBack, Again
<1> QED BY <1>1, Invariance, PTL

\* A token reaches a client, or is used, only after its page was audited, and what must
\* not be used again is not left behind in the registry.
THEOREM TokensFollowAudit == Spec => []TokenFollowsAudit
<1>1. IInv => TokenFollowsAudit
  BY DEF IInv, Known, Tokens, Audited, TokenFollowsAudit, Done, At, Over
<1> QED BY <1>1, Invariance, PTL

\* A following page is read under the membership, the policy and the connection in
\* force when it was asked for, or later ones.
THEOREM TokensCarryNoAuthorization == Spec => []AuthorizationIsFresh
<1>1. ASSUME IInv PROVE AuthorizationIsFresh
  <2>1. \A r \in Request : call[r].data => call[r].verdict = "succeeded"
    BY <1>1 DEF IInv, Known, Rows
  <2> QED BY <1>1, <2>1 DEF IInv, Known, Fresh, AuthorizationIsFresh
<1> QED BY <1>1, Invariance, PTL

\* The variables of the pipeline keep their types.
THEOREM TypeCorrect == Spec => []TypeOK
<1>1. IInv => TypeOK
  <2> SUFFICES ASSUME IInv PROVE TypeOK
    OBVIOUS
  <2>1. \A r \in Request : /\ DOMAIN call[r] = DOMAIN Idle
                           /\ call[r].verdict \in Verdict /\ call[r].reply \in Reply
                           /\ call[r].uses \subseteq Request
    BY DEF IInv, Types, Progress, Idle
  <2> QED BY <2>1 DEF IInv, Types, TypeOK
<1> QED BY <1>1, Invariance, PTL
=============================================================================
