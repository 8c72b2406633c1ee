-------------------------- MODULE AuditedExecution --------------------------
(***************************************************************************)
(* execution.Pipeline: Execute (the first page of a query) and             *)
(* ExecuteNextPage (the following ones), with what they leave in the       *)
(* metadata database (executions, audit_events), what they do to the       *)
(* continuation registry and what they return.                             *)
(*                                                                         *)
(* A metadata transaction is one action: it commits, fails without effect, *)
(* or is committed while its caller sees an error.  Clients disconnect,    *)
(* callees panic, the process crashes, access rights and connections       *)
(* change at any point.  The registry is the abstract OneShotToken that    *)
(* ContinuationRegistry implements; the token a call creates is named      *)
(* after the call.                                                         *)
(***************************************************************************)
EXTENDS Integers, Sequences

CONSTANTS
  First,       \* the calls of Execute
  Follow,      \* the calls of ExecuteNextPage
  MaxFaults,   \* bound: how many metadata transactions report an error
  MaxChanges,  \* bound: how often rights, policy or connection change
  MaxCrashes   \* bound: how often the process is restarted

ASSUME CallsDisjoint == First \cap Follow = {}
ASSUME BoundsNatural == {MaxFaults, MaxChanges, MaxCrashes} \subseteq Nat

Request == First \cup Follow

VARIABLES
  exec,    \* executions.status of every call, "none" when it has no row
  audit,   \* the outcomes of its audit events, in order
  member,  \* the user is an active member who may read
  version, \* the policy version in force
  config,  \* the revision of the connection in force
  token, chain,     \* the registry
  faults, changes, crashes,
  call     \* the progress of every call

db == <<exec, audit, faults>>
env == <<member, version, config, changes, crashes>>
registry == <<token, chain>>
vars == <<exec, audit, member, version, config, token, chain, faults, changes,
          crashes, call>>

Registry == INSTANCE OneShotToken WITH Handle <- Request, status <- token,
                                       chainOf <- chain

\* "panic" is the verdict of a call whose callee panicked.
Verdict == {"none", "succeeded", "denied", "failed", "cancelled", "unsupported",
            "rate_limited", "panic"}
Outcome == {"succeeded", "denied", "failed", "cancelled"}
Terminal == {"completed", "failed", "cancelled"}
Reply == {"none", "ok", "error", "audit_failed", "panic"}

\* The switch of recordPostExecution.
StatusOf(verdict) == CASE verdict = "succeeded" -> "completed"
                       [] verdict = "cancelled" -> "cancelled"
                       [] OTHER -> "failed"

OutcomeOf(verdict) == CASE verdict \in {"succeeded", "cancelled"} -> verdict
                        [] verdict \in {"denied", "unsupported"} -> "denied"
                        [] OTHER -> "failed"

Idle == [pc |-> "start",
         verdict |-> "none",
         canceled |-> FALSE,      \* the client's context has ended
         uses |-> {},             \* the token it claimed
         seen |-> [version |-> 0, config |-> 0],
         touched |-> FALSE,       \* it reached for the target database
         alarmed |-> FALSE,       \* $SECURITY_ALERT was raised
         reply |-> "none",
         data |-> FALSE,          \* rows are returned
         published |-> FALSE,     \* a page token is returned
         since |-> [member |-> TRUE, version |-> 0, config |-> 0]]  \* at its start

Init ==
  /\ exec = [r \in Request |-> "none"]
  /\ audit = [r \in Request |-> <<>>]
  /\ member = TRUE /\ version = 0 /\ config = 0
  /\ Registry!Init
  /\ faults = 0 /\ changes = 0 /\ crashes = 0
  /\ call = [r \in Request |-> Idle]

At(r, pc) == call[r].pc = pc

Goto(r, pc) == call' = [call EXCEPT ![r].pc = pc]

\* A verdict that ends the work of a call; what is left is to record it.
Settle(r, pc, verdict) ==
  call' = [call EXCEPT ![r].pc = pc, ![r].verdict = verdict]

Return(r, reply) ==
  call' = [call EXCEPT ![r].pc = "done", ![r].reply = reply]

\* auditFailed: an alarm, and neither rows nor a token.
AuditFailed(r) ==
  call' = [call EXCEPT ![r].pc = "done", ![r].reply = "audit_failed",
                       ![r].alarmed = TRUE, ![r].data = FALSE,
                       ![r].published = FALSE]

\* Claim.Abort of the token a call claimed; nothing if that is gone.
Abort(r) == Registry!Drop(call[r].uses \cap Registry!Live)

-----------------------------------------------------------------------------
(* Metadata transactions.                                                  *)

\* How a transaction ends: "ok", "failed", or "lost" when it is committed and
\* an error is reported.  One bound to the request fails once that is canceled.
Tx(r, bound, o) ==
  \/ o = "ok" /\ ~(bound /\ call[r].canceled) /\ UNCHANGED faults
  \/ o = "failed" /\ bound /\ call[r].canceled /\ UNCHANGED faults
  \/ o \in {"failed", "lost"} /\ faults < MaxFaults /\ faults' = faults + 1

Ends == {"ok", "failed", "lost"}

Write(r, o, status, outcomes) ==
  IF o = "failed" THEN UNCHANGED <<exec, audit>>
  ELSE /\ exec' = [exec EXCEPT ![r] = status]
       /\ audit' = [audit EXCEPT ![r] = @ \o outcomes]

-----------------------------------------------------------------------------
(* Execute, up to the adapter.                                             *)

\* Membership and connection are read; neither refusal is audited.
Authorize(r) ==
  /\ r \in First /\ At(r, "start")
  /\ LET now == [member |-> member, version |-> version, config |-> config]
     IN \/ /\ member
           /\ call' = [call EXCEPT ![r].pc = "admitted", ![r].since = now,
                                   ![r].seen.config = config]
        \/ call' = [call EXCEPT ![r].pc = "done", ![r].reply = "error",
                                ![r].since = now]
  /\ UNCHANGED <<db, env, registry>>

CreatePending(r) ==
  /\ At(r, "admitted")
  /\ \E o \in Ends :
       /\ Tx(r, TRUE, o)
       /\ Write(r, o, "pending", <<>>)
       /\ IF o = "ok" THEN Goto(r, "pending")
          ELSE call' = [call EXCEPT ![r].pc = "done", ![r].reply = "error",
                                    ![r].alarmed = TRUE]
  /\ UNCHANGED <<env, registry>>

\* The SQL decision, then the stored policy.
CheckPolicy(r) ==
  /\ At(r, "pending")
  /\ \/ call' = [call EXCEPT ![r].pc = "authorized", ![r].seen.version = version]
     \/ \E v \in {"denied", "failed"} : Settle(r, "refuse", v)
  /\ UNCHANGED <<db, env, registry>>

ResolveCredential(r) ==
  /\ At(r, "authorized")
  /\ \/ Goto(r, "resolved")
     \/ \E pc \in {"refuse", "credfail"} : Settle(r, pc, "failed")
  /\ UNCHANGED <<db, env, registry>>

\* failExecutionWith: status and audit event in one transaction.  Execute uses the
\* request's context, ExecuteNextPage one of its own.
EndEarly(r, o, raised) ==
  /\ Tx(r, r \in First, o)
  /\ Write(r, o, "failed", <<OutcomeOf(call[r].verdict)>>)
  /\ IF o = "ok"
     THEN call' = [call EXCEPT ![r].pc = "done", ![r].reply = "error",
                               ![r].alarmed = raised]
     ELSE AuditFailed(r)

Refuse(r) ==
  /\ At(r, "refuse")
  /\ \E o \in Ends : EndEarly(r, o, FALSE)
  /\ UNCHANGED <<env, registry>>

\* A credential that cannot be decrypted, and not merely found, raises an alarm.
CredentialFails(r) ==
  /\ At(r, "credfail")
  /\ \E o \in Ends, decrypt \in BOOLEAN : EndEarly(r, o, decrypt)
  /\ UNCHANGED <<env, registry>>

\* Mutation of MarkRunning: a failure to record is ignored.
MarkRunningBestEffort(r) ==
  /\ At(r, "resolved")
  /\ \E o \in Ends : Tx(r, TRUE, o) /\ Write(r, o, "running", <<>>)
  /\ Goto(r, "running")
  /\ UNCHANGED <<env, registry>>

MarkRunning(r) ==
  /\ At(r, "resolved")
  /\ \E o \in Ends :
       /\ Tx(r, TRUE, o)
       /\ Write(r, o, "running", <<>>)
       /\ IF o = "ok" THEN Goto(r, "running") ELSE AuditFailed(r)
  /\ UNCHANGED <<env, registry>>

-----------------------------------------------------------------------------
(* ExecuteNextPage, up to the adapter.                                     *)

\* Claim of a token some call returned, or of one that is no longer there.
Claim(r) ==
  /\ r \in Follow /\ At(r, "start")
  /\ \E t \in Request :
       /\ call[t].published
       /\ LET now == [member |-> member, version |-> version, config |-> config]
          IN \/ /\ Registry!Take(t)
                /\ call' = [call EXCEPT ![r].pc = "claimed", ![r].uses = {t},
                                        ![r].since = now]
             \/ /\ token[t] # "ready"
                /\ call' = [call EXCEPT ![r].pc = "done", ![r].reply = "error",
                                        ![r].since = now]
                /\ UNCHANGED registry
  /\ UNCHANGED <<db, env>>

\* A refusal before the execution exists: the token is aborted, nothing recorded.
Reject(r) ==
  /\ call[r].pc \in {"claimed", "member"}
  /\ Abort(r)
  /\ \E reply \in {"error", "panic"} : Return(r, reply)
  /\ UNCHANGED <<db, env>>

\* Principal, membership and connection.
CheckMember(r) ==
  /\ At(r, "claimed")
  /\ member
  /\ call' = [call EXCEPT ![r].pc = "member", ![r].seen.config = config]
  /\ UNCHANGED <<db, env, registry>>

\* Mutation of SamePolicy: the version the token carries is not compared.
SamePolicyUnchecked(r, t) == TRUE

SamePolicy(r, t) == version = call[t].seen.version

RecheckPolicy(r) ==
  /\ At(r, "member")
  /\ \A t \in call[r].uses : SamePolicy(r, t)
  /\ call' = [call EXCEPT ![r].pc = "rechecked", ![r].seen.version = version]
  /\ UNCHANGED <<db, env, registry>>

\* beginContinuationExecution, in a context of its own.
BeginContinuation(r) ==
  /\ At(r, "rechecked")
  /\ \E o \in Ends :
       /\ Tx(r, FALSE, o)
       /\ Write(r, o, "running", <<>>)
       /\ IF o = "ok" THEN Goto(r, "begun") /\ UNCHANGED registry
                      ELSE AuditFailed(r) /\ Abort(r)
  /\ UNCHANGED env

\* The credential is resolved again, for a connection row read before.
ReResolve(r) ==
  /\ At(r, "begun")
  /\ \/ Goto(r, "running") /\ UNCHANGED registry
     \/ Abort(r) /\ \E pc \in {"record", "credfail"} : Settle(r, pc, "failed")
  /\ UNCHANGED <<db, env>>

-----------------------------------------------------------------------------
(* The adapter, in both.                                                   *)

\* What an adapter call may fail with.
AdapterErrors(r) ==
  {"failed"} \cup IF call[r].canceled THEN {"cancelled"} ELSE {}

GetHandle(r) ==
  /\ At(r, "running")
  /\ \/ /\ call' = [call EXCEPT ![r].pc = "connected",
                                ![r].touched = TRUE]
        /\ UNCHANGED registry
     \/ /\ \E v \in AdapterErrors(r) :
             call' = [call EXCEPT ![r].pc = "record", ![r].verdict = v,
                                  ![r].touched = TRUE]
        /\ Abort(r)
  /\ UNCHANGED <<db, env>>

\* The first page is read, or the query is refused or fails.
Query(r) ==
  /\ r \in First /\ At(r, "connected")
  /\ \/ Goto(r, "queried")
     \/ \E v \in AdapterErrors(r) \cup {"unsupported", "rate_limited"} :
          Settle(r, "record", v)
  /\ UNCHANGED <<db, env, registry>>

\* Mutation of CreateContinuation: the token is published when it is created.
CreateContinuationPublishes(r) ==
  /\ At(r, "queried")
  /\ Registry!Issue(r)
  /\ call' = [call EXCEPT ![r].pc = "record", ![r].verdict = "succeeded",
                          ![r].data = TRUE, ![r].published = TRUE]
  /\ UNCHANGED <<db, env>>

\* The page needs no token, or one is created for it, or cannot be.
CreateContinuation(r) ==
  /\ At(r, "queried")
  /\ \/ /\ call' = [call EXCEPT ![r].pc = "record", ![r].verdict = "succeeded",
                                ![r].data = TRUE]
        /\ Registry!Issue(r) \/ UNCHANGED registry
     \/ Settle(r, "record", "failed") /\ UNCHANGED registry
  /\ UNCHANGED <<db, env>>

SameConnection(r, t) == call[r].seen.config = call[t].seen.config

\* The generations are compared and the page is read.
NextPage(r) ==
  /\ r \in Follow /\ At(r, "connected")
  /\ \/ /\ \A t \in call[r].uses : SameConnection(r, t)
        /\ call' = [call EXCEPT ![r].pc = "record", ![r].verdict = "succeeded",
                                ![r].data = TRUE]
        /\ UNCHANGED registry
     \* "failed" stands for generations that differ, too.
     \/ /\ \E v \in AdapterErrors(r) \cup {"rate_limited"} :
             Settle(r, "record", v)
        /\ Abort(r)
  /\ UNCHANGED <<db, env>>

-----------------------------------------------------------------------------
(* What an adapter call led to is recorded, then returned.                 *)

PanicWithAlarm(r) ==
  call' = [call EXCEPT ![r].pc = "done", ![r].reply = "panic", ![r].alarmed = TRUE]

\* Mutation of Withhold: the rows stay in the result.
WithholdKeepsRows(r) ==
  /\ Registry!Drop((call[r].uses \cup {r}) \cap Registry!Live)
  /\ Return(r, "audit_failed")

\* The page could not be recorded: the unpublished token is revoked, the claimed
\* one aborted, nothing is returned.
Withhold(r) ==
  /\ Registry!Drop((call[r].uses \cup {r}) \cap Registry!Live)
  /\ IF call[r].verdict = "panic" THEN PanicWithAlarm(r) ELSE AuditFailed(r)

\* recordPostExecution, first transaction: the terminal status.
RecordTerminal(r) ==
  /\ At(r, "record")
  /\ \E o \in Ends :
       /\ Tx(r, FALSE, o)
       /\ Write(r, o, StatusOf(call[r].verdict), <<>>)
       /\ IF o = "ok" THEN Goto(r, "append") /\ UNCHANGED registry
                      ELSE Withhold(r)
  /\ UNCHANGED env

\* Mutation of AppendAudit: a reported failure is retried.
AppendAuditRetries(r) ==
  /\ At(r, "append")
  /\ \E o \in Ends :
       /\ Tx(r, FALSE, o)
       /\ Write(r, o, exec[r], <<OutcomeOf(call[r].verdict)>>)
       /\ IF o = "ok" THEN Goto(r, "recorded") ELSE UNCHANGED call
  /\ UNCHANGED <<env, registry>>

\* Second write: the audit event.
AppendAudit(r) ==
  /\ At(r, "append")
  /\ \E o \in Ends :
       /\ Tx(r, FALSE, o)
       /\ Write(r, o, exec[r], <<OutcomeOf(call[r].verdict)>>)
       /\ IF o = "ok" THEN Goto(r, "recorded") /\ UNCHANGED registry
                      ELSE Withhold(r)
  /\ UNCHANGED env

\* Execute returns: an error, or the rows and, if one was created, the token.
ReturnFirst(r) ==
  /\ r \in First /\ At(r, "recorded")
  /\ IF call[r].verdict = "succeeded"
     THEN call' = [call EXCEPT ![r].pc = "done", ![r].reply = "ok",
                               ![r].published = token[r] # "unused"]
     ELSE Return(r, "error")
  /\ UNCHANGED <<db, env, registry>>

\* ExecuteNextPage returns: the token is rotated or completed after the page was
\* recorded.  Complete succeeds whether or not the token is still there; a failed
\* Rotate drops the rows, a page without usable sort values keeps them.
ReturnFollow(r) ==
  /\ r \in Follow /\ At(r, "recorded")
  /\ \/ /\ call[r].verdict = "succeeded"
        /\ \E t \in call[r].uses : Registry!Exchange(t, r)
        /\ call' = [call EXCEPT ![r].pc = "done", ![r].reply = "ok",
                                ![r].published = TRUE]
     \/ /\ call[r].verdict = "succeeded"
        /\ Abort(r)
        /\ \/ Return(r, "ok")
           \/ \E rows \in BOOLEAN :
                call' = [call EXCEPT ![r].pc = "done", ![r].reply = "error",
                                     ![r].data = rows]
     \/ /\ call[r].verdict # "succeeded"
        /\ Abort(r)
        /\ Return(r, IF call[r].verdict = "panic" THEN "panic" ELSE "error")
  /\ UNCHANGED <<db, env>>

-----------------------------------------------------------------------------
(* What the pipeline does not choose.                                      *)

\* Where a callee other than the metadata database may panic once the execution
\* exists.  Behind the record that is ExtractLastValues, Rotate and Complete.
PanicPoint(r) ==
  \/ call[r].pc \in {"pending", "authorized", "resolved", "begun", "running",
                     "connected", "queried"}
  \/ r \in Follow /\ At(r, "recorded") /\ call[r].verdict = "succeeded"

\* The claim is aborted, the execution finalized, for the second time if the page
\* was recorded, and the panic goes on.
Panic(r) ==
  /\ PanicPoint(r)
  /\ call' = [call EXCEPT ![r].pc = IF r \in First THEN "finalize" ELSE "record",
                          ![r].verdict = "panic", ![r].data = FALSE]
  /\ Abort(r)
  /\ UNCHANGED <<db, env>>

\* Mutation of FinalizePanic: a failure to finalize is swallowed.
FinalizePanicSilently(r) ==
  /\ At(r, "finalize")
  /\ \E o \in Ends : Tx(r, FALSE, o) /\ Write(r, o, "failed", <<"failed">>)
  /\ Return(r, "panic")
  /\ UNCHANGED <<env, registry>>

\* finalizePanic of Execute: status and audit event in one transaction.
FinalizePanic(r) ==
  /\ At(r, "finalize")
  /\ \E o \in Ends :
       /\ Tx(r, FALSE, o)
       /\ Write(r, o, "failed", <<"failed">>)
       /\ call' = [call EXCEPT ![r].pc = "done", ![r].reply = "panic",
                               ![r].alarmed = o # "ok"]
  /\ UNCHANGED <<env, registry>>

InFlight(r) == call[r].pc \notin {"start", "done", "crashed"}

Disconnect(r) ==
  /\ InFlight(r) /\ ~call[r].canceled
  /\ call' = [call EXCEPT ![r].canceled = TRUE]
  /\ UNCHANGED <<db, env, registry>>

\* The registry expires or evicts a token.
Expire ==
  /\ \E t \in Registry!Live : Registry!Drop({t})
  /\ UNCHANGED <<db, env, call>>

\* The member is removed, the policy updated, or the connection updated.
Change ==
  /\ changes < MaxChanges
  /\ changes' = changes + 1
  /\ \/ member' = FALSE /\ UNCHANGED <<version, config>>
     \/ version' = version + 1 /\ UNCHANGED <<member, config>>
     \/ config' = config + 1 /\ UNCHANGED <<member, version>>
  /\ UNCHANGED <<db, registry, crashes, call>>

\* The process is restarted: calls and tokens are lost, the database is not.
Crash ==
  /\ crashes < MaxCrashes
  /\ crashes' = crashes + 1
  /\ call' = [r \in Request |-> IF InFlight(r)
                                THEN [call[r] EXCEPT !.pc = "crashed", !.data = FALSE]
                                ELSE call[r]]
  /\ Registry!Drop(Registry!Live)
  /\ UNCHANGED <<db, member, version, config, changes>>

Serve(r) ==
  \/ Authorize(r) \/ CreatePending(r) \/ CheckPolicy(r) \/ ResolveCredential(r)
  \/ Refuse(r) \/ CredentialFails(r) \/ MarkRunning(r)
  \/ Claim(r) \/ Reject(r) \/ CheckMember(r) \/ RecheckPolicy(r)
  \/ BeginContinuation(r) \/ ReResolve(r)
  \/ GetHandle(r) \/ Query(r) \/ CreateContinuation(r) \/ NextPage(r)
  \/ RecordTerminal(r) \/ AppendAudit(r) \/ ReturnFirst(r) \/ ReturnFollow(r)
  \/ FinalizePanic(r)

Next ==
  \/ \E r \in Request : Serve(r) \/ Panic(r) \/ Disconnect(r)
  \/ Expire \/ Change \/ Crash

Spec == Init /\ [][Next]_vars

\* Once begun, a call goes on: metadata writes and target queries have timeouts.
FairSpec == Spec /\ \A r \in Request : WF_vars(InFlight(r) /\ Serve(r))

-----------------------------------------------------------------------------
TypeOK ==
  /\ exec \in [Request -> {"none", "pending", "running"} \cup Terminal]
  /\ audit \in [Request -> Seq(Outcome)]
  /\ member \in BOOLEAN
  /\ {version, config, faults, changes, crashes} \subseteq Nat
  /\ token \in [Request -> {"unused", "ready", "claimed", "spent"}]
  /\ \A r \in Request :
       /\ DOMAIN call[r] = DOMAIN Idle
       /\ call[r].verdict \in Verdict /\ call[r].reply \in Reply
       /\ call[r].uses \subseteq Request

Done(r) == At(r, "done")

\* Rows leave Execute or ExecuteNextPage only after the execution was recorded as
\* completed and its audit event was written.
ShownIsAudited ==
  \A r \in Request : Done(r) /\ call[r].data =>
    exec[r] = "completed" /\ audit[r] = <<"succeeded">>

\* What an audit event says of the status of its execution.
StatusFor(outcome) == CASE outcome = "succeeded" -> "completed"
                        [] outcome = "cancelled" -> "cancelled"
                        [] OTHER -> "failed"

\* The success of a following page was recorded, and then taken back because it
\* panicked: the one execution with two events.
Overturned(r) ==
  /\ r \in Follow /\ call[r].verdict = "panic" /\ exec[r] = "failed"
  /\ audit[r] = <<"succeeded", "failed">>

Accounted(r) ==
  \/ Len(audit[r]) = 1 /\ exec[r] = StatusFor(audit[r][1])
  \/ Overturned(r)

\* No access to a target goes unnoticed: the target database is never reached
\* before an execution record says so, and that record survives a crash; and every
\* call that created an execution has ended it with one audit event that agrees
\* with it, or with a second one that takes its success back, or has raised an
\* alarm.
TraceOrAlarm ==
  \A r \in Request :
    /\ call[r].touched => exec[r] \in {"running"} \cup Terminal
    /\ Done(r) /\ exec[r] # "none" => call[r].alarmed \/ Accounted(r)

\* An execution has one audit event, and it agrees with the status, also when a
\* commit succeeds and is reported as failed.  The exception is a following page
\* that panics after its success was recorded: its status is failed, and the event
\* of that is the second, or is missing while, or because, it could not be written.
\* A call that panicked returns no rows and no token.
AuditAgrees ==
  \A r \in Request : audit[r] # <<>> =>
    /\ \/ Accounted(r)
       \/ /\ r \in Follow /\ call[r].verdict = "panic"
          /\ exec[r] = "failed" /\ audit[r] = <<"succeeded">>
    /\ call[r].verdict = "panic" =>
         ~call[r].data /\ ~call[r].published /\ token[r] = "unused"

\* A token reaches a client, or is used, only after its page was audited; and what
\* must not be used again, a token its creator did not hand out or a claim of a
\* call that returned, is not left behind in the registry.
TokenFollowsAudit ==
  /\ \A t \in Request : call[t].published \/ token[t] = "claimed" =>
       exec[t] = "completed" /\ audit[t] = <<"succeeded">>
  /\ \A r \in Request : Done(r) =>
       /\ token[r] = "ready" => call[r].published
       /\ \A t \in call[r].uses : token[t] = "spent"

\* Rows of a following page are read under the membership, the policy and the
\* connection in force when the page was asked for, or later ones: a token does
\* not carry an authorization along.
AuthorizationIsFresh ==
  \A r \in Request : call[r].data =>
    /\ call[r].since.member
    /\ \A t \in call[r].uses : /\ call[t].seen.version >= call[r].since.version
                               /\ call[t].seen.config >= call[r].since.config

\* An execution does not stay pending or running: it is ended, or an alarm is
\* raised, or the process crashed.
ExecutionEnds ==
  \A r \in Request : exec[r] \in {"pending", "running"} ~>
    exec[r] \in Terminal \/ call[r].alarmed \/ At(r, "crashed")

-----------------------------------------------------------------------------
(* Statements of the repository that the code does not keep.               *)

\* ADR-016 lines 57 and 65: no path may leave an execution pending or running.
\* A call that returned, with no fault of the metadata database and no crash,
\* has ended its execution.
NoPermanentPending ==
  \A r \in Request : Done(r) /\ faults = 0 => exec[r] \notin {"pending", "running"}

=============================================================================
