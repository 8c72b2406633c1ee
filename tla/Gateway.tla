------------------------------ MODULE Gateway ------------------------------
(* One request through the server, from the HTTP handler to the answer: list *)
(* connections and browse a target (browsehttp, browse), execute a statement  *)
(* (executionhttp, execution.Execute), test a connection (connections.Test).  *)
(* It composes the statement policy, the audit events and their validator,    *)
(* and the conversion to wire values; what happens between Execute and the    *)
(* target database is TargetSession, KeysetPaging and PoolManager, here one   *)
(* step with an outcome.  While the request runs, administrators change what  *)
(* it reads.                                                                  *)
EXTENDS SqlPolicy, AuditEvents, WireResult, FiniteSetsExt

CONSTANTS
  Scenarios,      \* the requests considered, with what the metadata says of them
  Conn,           \* the connections of the workspace
  ConnData,       \* their rows: engine, environment, versions
  Entries,        \* what there is to list in a target database
  Results,        \* the results a query may return
  MaxConnections, \* Limits.MaxConnections: 200 in the code
  MaxEntries,     \* Limits.MaxEntries: 1000 in the code
  MaxChanges      \* bound: changes by administrators during the request

Roles == {"none", "owner", "admin", "editor", "viewer", "unknown"}
Policies == {"none", "unset", "no", "yes", "limitless"}

ASSUME LimitsNatural == MaxConnections \in Nat /\ MaxEntries \in Nat
ASSUME ListingsFinite == IsFiniteSet(Conn) /\ IsFiniteSet(Entries)
\* The rows of the connections, as the columns of the database constrain them.
ASSUME ConnectionsTyped ==
  \A c \in Conn :
    /\ ConnData[c].engine \in Dialect
    /\ ConnData[c].environment \in {"development", "staging", "production"}
    /\ {ConnData[c].secretVersion, ConnData[c].kekVersion} \subseteq Nat \ {0}
ASSUME ScenariosTyped ==
  \A s \in Scenarios :
    /\ s.req.kind \in {"connections", "browse", "execute", "test"}
    /\ s.req.conn \in Conn /\ s.req.text.trees \in Seq(Tree)
    /\ s.role \in Roles /\ s.conns \subseteq Conn /\ s.policy \in [Conn -> Policies]
    /\ \A c \in Conn \ s.conns : s.policy[c] = "none"  \* a foreign key of the policies
\* A result is a list of lists of values, of 500 rows at most.
Listed(s) == DOMAIN s = 1..Len(s) /\ Len(s) \in 0..MaxInt32
ASSUME ResultsCapped ==
  \A d \in Dialect : \A r \in Results[d] :
    /\ Listed(r.rows)
    /\ \A i \in DOMAIN r.rows :
         Listed(r.rows[i]) /\ \A j \in DOMAIN r.rows[i] : Measured(r.rows[i][j])

VARIABLES
  role,    \* the caller's role in the workspace, as the metadata database has it
  conns,   \* the connections that exist
  policy,  \* their policies: "none" (no row), "unset", "no", "yes", "limitless"
  changes, \* how many changes the administrators have made
  req,     \* the request
  pc,      \* what it does next
  code,    \* result.ErrorCode of the pipeline
  due,     \* the event that is to be recorded
  result,  \* the result that the adapter returned
  exec,    \* the execution record
  trail,   \* the audit events that the validator accepted and the store keeps
  alarmed, \* was a security alert emitted?
  touched, \* was the target database asked for anything?
  answer,  \* what the client was answered
  rights,  \* history: what the caller was entitled to at some moment so far
  view,    \* history: what there was to list when the listing was read
  faulted, \* history: did a write to the metadata database fail?
  inner    \* history: the credential or pool fault that ended the request

world == <<role, conns, policy, changes>>
vars == <<role, conns, policy, changes, req, pc, code, due, result, exec, trail,
          alarmed, touched, answer, rights, view, faulted, inner>>

NoEvent == [action |-> "none"]
NoExec == [status |-> "none", code |-> ""]
Unanswered == [code |-> "none", rows |-> << >>, listed |-> {}]
Execute == req.kind = "execute"
Conn1 == ConnData[req.conn]

\* "limitless" allows reading but has a limit that is not positive.
AllowsRead(p) == p \in {"yes", "limitless"}

\* What the caller may do, in the metadata database as it is.
Held(r, cs, ps) ==
  (IF r \in {"owner", "admin", "editor", "viewer"} THEN {"member"} ELSE {})
  \cup (IF r \in {"owner", "admin"} THEN {"manager"} ELSE {})
  \cup (IF req.conn \in cs THEN {"connection"} ELSE {})
  \cup (IF AllowsRead(ps[req.conn]) THEN {"read"} ELSE {})

Init ==
  /\ \E s \in Scenarios :
       /\ req = s.req /\ role = s.role /\ conns = s.conns /\ policy = s.policy
  /\ changes = 0
  /\ pc = IF req.kind = "test" THEN "member" ELSE "received"  \* Test has no route
  /\ code = "" /\ due = NoEvent /\ result = << >>
  /\ exec = NoExec /\ trail = << >> /\ alarmed = FALSE /\ touched = FALSE
  /\ answer = Unanswered
  /\ rights = Held(role, conns, policy)
  /\ view = {} /\ faulted = FALSE /\ inner = ""

\* The answer of the request.  Most steps leave the rest as it is.
Reply(c) == answer' = [Unanswered EXCEPT !.code = c] /\ pc' = "answered"
Goto(next) == pc' = next /\ UNCHANGED answer
Steady(vs) == UNCHANGED <<world, req, rights>> /\ UNCHANGED vs
Record == <<due, exec, trail, alarmed, faulted>>

\* What the metadata database may answer to a read, and the codes of
\* mapMembershipError, mapConnectionError, mapPolicyStoreError and mapStoreError.
StoreFaults == {"deadline", "cancelled", "broken"}
StoreCode(fault) ==
  CASE fault = "deadline" -> "query_timeout"
    [] fault = "cancelled" -> "query_cancelled"
    [] OTHER -> "internal_error"

\* mapExecutionCode.
AnswerCode(c) ==
  CASE c = "connection_config_conflict" -> "connection_unavailable"
    [] c \in {"decryption_failed", "unknown_kek_version", "credential_not_found",
              "credential_retired", "wrap_quota_exhausted", "unsupported_engine",
              "internal_error"} -> "internal_error"
    [] OTHER -> c

\* A failure that is the answer.  Only what Execute returns is folded: the codes of
\* browsing are public ones, and Test returns its own.
Refuse(c) == code' = c /\ Reply(IF Execute THEN AnswerCode(c) ELSE c)

-----------------------------------------------------------------------------
\* authenticate and workspaceScope: who asks, and for the workspace of the path.
TurnedAway ==
  CASE req.caller = "none" -> "unauthorized"
    [] req.caller # "none" /\ req.scope = "malformed" -> "invalid_scope"
    [] req.caller # "none" /\ req.scope = "other" -> "forbidden"
    [] OTHER -> ""

\* handleExecutions: then the body.
ReceiveExecution ==
  /\ pc = "received" /\ Execute
  /\ Steady(<<code, result, Record, touched, view, inner>>)
  /\ CASE TurnedAway # "" -> Reply(TurnedAway)
       [] TurnedAway = "" /\ ~req.wellFormed -> Reply("invalid_request")
       [] TurnedAway = "" /\ req.wellFormed /\ req.text.blank -> Reply("empty_sql")
       [] OTHER -> Goto("member")

\* handleListConnections, handleListSchemas, handleListTables and
\* handleListColumns: then, of all but the first, the ids and identifiers.
ReceiveListing ==
  /\ pc = "received" /\ req.kind \in {"connections", "browse"}
  /\ Steady(<<code, result, Record, touched, view, inner>>)
  /\ CASE TurnedAway # "" -> Reply(TurnedAway)
       [] TurnedAway = "" /\ req.kind = "browse" /\ ~req.wellFormed -> Reply("invalid_scope")
       [] OTHER -> Goto("member")

\* MemberByWorkspaceAndUser, and CanRead or requireManager.
ReadMember ==
  /\ pc = "member"
  /\ Steady(<<result, Record, touched, view, inner>>)
  /\ \/ \E fault \in StoreFaults :
          Refuse(IF req.kind = "test" THEN "forbidden" ELSE StoreCode(fault))
     \/ /\ (IF req.kind = "test" THEN "manager" ELSE "member") \notin Held(role, conns, policy)
        /\ Refuse("forbidden")
     \/ /\ (IF req.kind = "test" THEN "manager" ELSE "member") \in Held(role, conns, policy)
        /\ Goto(IF req.kind = "connections" THEN "list" ELSE "connection")
        /\ UNCHANGED code

\* ConnectionByID.
ReadConnection ==
  /\ pc = "connection"
  /\ Steady(<<result, Record, touched, view, inner>>)
  /\ \/ \E fault \in StoreFaults :
          Refuse(IF req.kind = "test" THEN "internal_error" ELSE StoreCode(fault))
     \/ req.conn \notin conns /\ Refuse("connection_not_found")
     \/ /\ req.conn \in conns
        /\ Goto(CASE req.kind = "test" -> "credential"
                  [] Execute -> "judge" [] OTHER -> "policy")
        /\ UNCHANGED code

\* A write of the metadata database: done, failed, or done and reported as
\* failed.
Writes == {"done", "failed", "lost"}

\* auditFailed.
AuditFailed ==
  alarmed' = TRUE /\ code' = "audit_failed" /\ result' = << >> /\ Reply("audit_failed")

\* EvaluateSQL, the placeholder test, and the pending execution.
JudgeSQL ==
  /\ pc = "judge"
  /\ LET reason == Judge(Conn1.engine, req.text)
     IN \E write \in Writes :
          /\ exec' = IF write = "failed" THEN exec ELSE [status |-> "pending", code |-> ""]
          /\ faulted' = (write # "done")
          /\ IF write # "done"
             THEN alarmed' = TRUE /\ Refuse("internal_error") /\ UNCHANGED due
             ELSE /\ UNCHANGED alarmed
                  /\ IF reason = "allowed" THEN Goto("policy") /\ UNCHANGED <<code, due>>
                     ELSE /\ code' = reason /\ due' = DeniedEvent(Conn1.engine, reason)
                          /\ Goto("refuse")
  /\ Steady(<<result, trail, touched, view, inner>>)

\* Mutation of PolicyCode: a connection without a policy falls back to the
\* default of its columns.
PolicyCodeDefault(p) == IF p \in {"unset", "no"} THEN "read_not_allowed" ELSE ""

\* A policy that is absent or does not say yes refuses.
PolicyCode(p) ==
  CASE p = "none" -> "policy_not_configured"
    [] p \in {"unset", "no"} -> "read_not_allowed"
    [] OTHER -> ""

\* PolicyByConnection.  Execute records its refusals; limits that are not
\* positive are an internal error, which browsing does not look at.
ReadPolicy ==
  /\ pc = "policy"
  /\ \E fault \in StoreFaults \cup {"none"} :
       LET c == IF fault # "none" THEN StoreCode(fault)
                ELSE IF PolicyCode(policy[req.conn]) # "" THEN PolicyCode(policy[req.conn])
                ELSE IF Execute /\ policy[req.conn] = "limitless" THEN "internal_error"
                ELSE ""
           denied == fault = "none" /\ c # "internal_error"
       IN IF c = "" THEN Goto("credential") /\ UNCHANGED <<code, due>>
          ELSE IF Execute
          THEN /\ code' = c /\ Goto("refuse")
               /\ due' = IF denied THEN DeniedEvent(Conn1.engine, c)
                         ELSE FailedEvent(Conn1.engine, c)
          ELSE Refuse(c) /\ UNCHANGED due
  /\ Steady(<<result, exec, trail, alarmed, faulted, touched, view, inner>>)

\* ResolveCredential and mapCredentialError (whose wrap_quota_exhausted is a refusal
\* to wrap, which resolving never does).  A failed decryption is an alert.
CredentialFaults == {"credential_not_found", "credential_retired", "decryption_failed",
                     "unknown_kek_version", "internal_error"}
DecryptFaults == {"decryption_failed", "unknown_kek_version"}
ResolveCredential ==
  /\ pc = "credential"
  /\ \/ /\ Goto(IF Execute THEN "run" ELSE "target")
        /\ UNCHANGED <<code, due, alarmed, inner>>
     \/ \E c \in CredentialFaults :
          /\ inner' = IF c = "internal_error" THEN inner ELSE c
          /\ alarmed' = (alarmed \/ (req.kind # "browse" /\ c \in DecryptFaults))
          /\ IF req.kind = "browse" THEN Refuse("connection_unavailable") /\ UNCHANGED due
             ELSE /\ code' = c /\ Goto("refuse")
                  /\ due' = IF Execute THEN CredentialEvent(Conn1, c)
                            ELSE TestEvent(Conn1, c, FALSE)
  /\ Steady(<<result, exec, trail, faulted, touched, view>>)

\* failExecutionWith: one transaction with the failed execution and the event;
\* and writeAudit of a connection test, which is the event alone.
RecordRefusal ==
  /\ pc = "refuse"
  /\ \E write \in Writes :
       LET kept == write # "failed" /\ Accepts(due)
       IN /\ faulted' = (faulted \/ write # "done")
          /\ trail' = IF kept THEN Append(trail, due) ELSE trail
          /\ exec' = IF kept /\ Execute THEN [status |-> "failed", code |-> code] ELSE exec
          /\ IF write = "done" /\ Accepts(due)
             THEN Refuse(code) /\ UNCHANGED <<alarmed, result>>
             ELSE AuditFailed
  /\ Steady(<<due, touched, view, inner>>)

\* connectionConfigRevision (the connection rows considered have a sound
\* updated_at), and the record that the execution runs.
Run ==
  /\ pc = "run"
  /\ \E write \in Writes :
       /\ faulted' = (write # "done")
       /\ exec' = IF write = "failed" THEN exec ELSE [exec EXCEPT !.status = "running"]
       /\ IF write = "done" THEN Goto("target") /\ UNCHANGED <<alarmed, code, result>>
          ELSE AuditFailed
  /\ Steady(<<due, trail, touched, view, inner>>)

\* The codes of the adapter, and mapAdapterError; internal_error stands for an error
\* that it does not know.
PoolFaults == {"connection_failed", "stale_config", "config_conflict", "pool_closed",
               "invalid_config"}
AdapterCodes == PoolFaults \cup
  {"rate_limited", "connection_busy", "query_timeout", "query_cancelled",
   "database_error", "result_too_large", "unsupported_query", "internal_error"}
MapAdapter(c) ==
  CASE c = "config_conflict" /\ Execute -> "connection_config_conflict"
    [] c \in PoolFaults -> "connection_unavailable"
    [] OTHER -> c

\* adapter.Get, the proof of a paged query, Query, and createContinuation, whose
\* registry may be full or closed.
QueryTarget ==
  /\ pc = "target" /\ Execute
  /\ touched' = TRUE
  /\ \/ \E c \in AdapterCodes :
          /\ code' = MapAdapter(c)
          /\ inner' = IF c \in PoolFaults THEN c ELSE inner
          /\ UNCHANGED result
     \/ /\ req.paged /\ ~HasShape(Conn1.engine, req.text)
        /\ code' = "unsupported_query"
        /\ UNCHANGED <<result, inner>>
     \/ /\ req.paged /\ HasShape(Conn1.engine, req.text)
        /\ code' \in {"pagination_capacity_exhausted", "internal_error"}
        /\ UNCHANGED <<result, inner>>
     \/ /\ req.paged => HasShape(Conn1.engine, req.text)
        /\ \E r \in Results[Conn1.engine] : result' = r
        /\ UNCHANGED <<code, inner>>
  /\ Goto("finish")
  /\ Steady(<<Record, view>>)

\* recordPostExecution: the execution in a transaction of its own.
Finish ==
  /\ pc = "finish"
  /\ \E write \in Writes :
       /\ faulted' = (write # "done")
       /\ exec' = IF write = "failed" THEN exec
                  ELSE [status |-> PostStatus(code), code |-> code]
       /\ due' = PostEvent(Conn1, code, IF code = "" THEN Len(result.rows) ELSE 0)
       /\ IF write = "done" THEN Goto("audit") /\ UNCHANGED <<alarmed, code, result>>
          ELSE AuditFailed
  /\ Steady(<<trail, touched, view, inner>>)

\* Then the event, on its own.
Audit ==
  /\ pc = "audit"
  /\ \E write \in Writes :
       /\ faulted' = (faulted \/ write # "done")
       /\ trail' = IF write # "failed" /\ Accepts(due) THEN Append(trail, due) ELSE trail
       /\ IF write = "done" /\ Accepts(due)
          THEN /\ UNCHANGED <<alarmed, result>>
               /\ IF code = "" THEN Goto("convert") /\ UNCHANGED code ELSE Refuse(code)
          ELSE AuditFailed
  /\ Steady(<<due, exec, touched, view, inner>>)

\* writeQueryResponse; writeDataEnvelope refuses a body above its 8 MiB.
Convert ==
  /\ pc = "convert"
  /\ LET wire == ToWireResult(Conn1.engine, result)
     IN IF wire.error # "" THEN Reply(wire.error)
        ELSE \/ Reply("result_too_large")
             \/ /\ answer' = [code |-> "ok", rows |-> wire.rows, listed |-> {}]
                /\ pc' = "answered"
  /\ Steady(<<code, result, Record, touched, view, inner>>)

-----------------------------------------------------------------------------
\* Mutation of Sentinel: the query is limited to what may be listed.
SentinelExact(n) == n

\* boundedSentinel: one more than may be listed, to notice that there is more.
Sentinel(n) == n + 1

\* A query with LIMIT (not below one) and the test of its rows.  The response
\* may also exceed its 8 MiB.
AnswerListing(all, max) ==
  /\ view' = all
  /\ \E rows \in SUBSET all :
       /\ Cardinality(rows) =
            Min({Cardinality(all), Max({Sentinel(max), 1})})
       /\ IF Cardinality(rows) > max THEN Refuse("result_too_large")
          ELSE \/ Refuse("result_too_large")
               \/ /\ answer' = [code |-> "ok", rows |-> << >>, listed |-> rows]
                  /\ pc' = "answered" /\ UNCHANGED code

\* ListConnectionsAllowed: the connections whose policy allows reading.
ListConnections ==
  /\ pc = "list"
  /\ \/ \E fault \in StoreFaults : Refuse(StoreCode(fault)) /\ UNCHANGED view
     \/ AnswerListing({c \in conns : AllowsRead(policy[c])}, MaxConnections)
  /\ Steady(<<result, Record, touched, inner>>)

\* MetadataBrowser: Get, then Schemas, Tables or Columns.
BrowseTarget ==
  /\ pc = "target" /\ req.kind = "browse"
  /\ touched' = TRUE
  /\ \/ \E c \in AdapterCodes \ {"unsupported_query"} :
          /\ Refuse(MapAdapter(c))
          /\ inner' = IF c \in PoolFaults THEN c ELSE inner
          /\ UNCHANGED view
     \/ /\ \E all \in SUBSET Entries : AnswerListing(all, MaxEntries)
        /\ UNCHANGED inner
  /\ Steady(<<result, Record>>)

\* connections.Test: the ping, and mapConnectionTestError.
PingTarget ==
  /\ pc = "target" /\ req.kind = "test"
  /\ touched' = TRUE
  /\ \E c \in PoolFaults \cup {"", "execution_timeout", "query_cancelled"} :
       /\ code' = c /\ due' = TestEvent(Conn1, c, TRUE)
       /\ inner' = IF c \in PoolFaults THEN c ELSE inner
  /\ Goto("report")
  /\ Steady(<<result, exec, trail, alarmed, faulted, view>>)

Report ==
  /\ pc = "report"
  /\ \E write \in Writes :
       /\ faulted' = (write # "done")
       /\ trail' = IF write # "failed" /\ Accepts(due) THEN Append(trail, due) ELSE trail
       /\ IF write = "done" /\ Accepts(due)
          THEN /\ UNCHANGED <<alarmed, result, code>>
               /\ Reply(IF code = "" THEN "ok" ELSE code)
          ELSE AuditFailed
  /\ Steady(<<due, exec, touched, view, inner>>)

\* What administrators do while the request runs: RemoveMember and AddMember,
\* CreateConnection, CreatePolicy and UpdatePolicy.  (UpdateConnection changes
\* nothing here: each request reads the row once.  No connection is ever deleted.)
Change ==
  /\ pc \notin {"received", "answered"} /\ changes < MaxChanges
  /\ changes' = changes + 1
  /\ \/ /\ role' \in IF role = "none" THEN {"owner", "viewer"} ELSE {"none"}
        /\ UNCHANGED <<conns, policy>>
     \/ \E c \in Conn \ conns : conns' = conns \cup {c} /\ UNCHANGED <<role, policy>>
     \/ \E c \in conns, p \in {"yes", "no"} :
          /\ policy[c] # p
          /\ policy' = [policy EXCEPT ![c] = p] /\ UNCHANGED <<role, conns>>
  /\ rights' = rights \cup Held(role', conns', policy')
  /\ UNCHANGED <<req, pc, code, due, result, exec, trail, alarmed, touched, answer,
                 view, faulted, inner>>

Next ==
  \/ ReceiveExecution \/ ReceiveListing \/ ReadMember \/ ReadConnection
  \/ JudgeSQL \/ ReadPolicy
  \/ ResolveCredential \/ RecordRefusal \/ Run \/ QueryTarget \/ Finish \/ Audit
  \/ Convert \/ ListConnections \/ BrowseTarget \/ PingTarget \/ Report \/ Change

Spec == Init /\ [][Next]_vars

-----------------------------------------------------------------------------
Answered == pc = "answered"
Shown == answer.code = "ok"

\* Nobody reaches a target database, or is shown connections, without having
\* been entitled to it: member, owner or administrator, the connection in the
\* workspace, its policy saying yes, each at some moment of this request and
\* whatever administrators changed between the reads (authorizeRead,
\* requireManager and Execute read them one by one).
TargetOnlyByRight ==
  /\ touched => (IF req.kind = "test" THEN {"manager", "connection"}
                 ELSE {"member", "connection", "read"}) \subseteq rights
  /\ Shown /\ req.kind = "connections" => "member" \in rights

\* Every branch of the statement that reached the target would have been
\* allowed standing alone: a set operation is no way around the policy.
Branches(t) ==
  LET branches[x \in Tree] ==
        {x} \cup IF x.node = "Select" THEN UNION {branches[b] : b \in ToSet(x.branches)}
                ELSE {}
  IN branches[t]
BranchesAreJudged ==
  touched /\ Execute => \A t \in Branches(req.text.trees[1]) :
                           JudgeTree(Conn1.engine, t) = "allowed"

\* What the client is told, the execution record and the audit event say the
\* same, unless a write failed, which raises an alert and withholds the result.
\* The validator refuses no event of the pipeline, except one whose code is
\* connection_unavailable.
RecordsAgree ==
  Answered /\ Execute /\ exec # NoExec =>
    IF faulted THEN alarmed /\ ~Shown /\ answer.rows = << >>
    ELSE IF answer.code = "audit_failed"
    THEN alarmed /\ exec.code = "connection_unavailable"
    ELSE /\ Len(trail) = 1
         /\ LET event == trail[1]
                told == event.metadata
            IN /\ exec.status = "completed" <=> event.outcome = "succeeded"
               /\ exec.status = "cancelled" <=> event.outcome = "cancelled"
               /\ exec.status = "failed" <=> event.outcome \in {"denied", "failed"}
               /\ Shown => exec.status = "completed" /\ told.row_count = Len(answer.rows)
               /\ exec.status # "completed" =>
                    /\ answer.code = AnswerCode(exec.code)
                    /\ exec.code = IF event.outcome = "denied" THEN told.reason_code
                                   ELSE told.error_code

\* The cells that are shown are the values that were read: numbers keep their
\* value, times of day theirs, NULL stays NULL; every row is there, and within
\* its budgets.
Numeral(digits) ==
  LET n[i \in 0..Len(digits)] == IF i = 0 THEN 0 ELSE 10 * n[i - 1] + digits[i]
  IN n[Len(digits)]
TenTo(exp) == LET p[i \in 0..exp] == IF i = 0 THEN 1 ELSE 10 * p[i - 1] IN p[exp]
Shows(v, cell) ==
  CASE v.is \in {"null", "pgtime_null"} -> cell.is = "null"
    [] v.is \in {"int", "numeric"} ->
         LET shift == v.exp + Len(cell.val.frac)
         IN /\ cell.is = "digits" /\ cell.val.neg = v.neg
            /\ cell.val.whole # << >> /\ shift >= 0
            /\ Numeral(cell.val.whole \o cell.val.frac) = Numeral(v.digits) * TenTo(shift)
    [] v.is = "pgtime" ->
         /\ cell.is = "clock"
         /\ cell.val[2] < 60 /\ cell.val[3] < 60 /\ cell.val[4] < MicrosPerSecond
         /\ ((cell.val[1] * 60 + cell.val[2]) * 60 + cell.val[3]) * MicrosPerSecond
              + cell.val[4] = v.micros
    [] OTHER -> cell.is \notin {"null", "error"}
CellsAreExact ==
  Shown /\ Execute =>
    /\ Len(answer.rows) = Len(result.rows)
    /\ \A r \in DOMAIN answer.rows :
         /\ DOMAIN answer.rows[r] = DOMAIN result.rows[r]
         /\ \A i \in DOMAIN answer.rows[r] : Shows(result.rows[r][i], answer.rows[r][i])
         /\ Sizes(answer.rows[r])[Len(answer.rows[r])] <= MaxRowBytes

\* A listing is everything there was to list when it was read, or refused as
\* too large; it is never cut off.
ListingsAreWhole ==
  Shown /\ req.kind \in {"connections", "browse"} => answer.listed = view

\* What the comment of mapExecutionCode says: the faults of credentials, keys,
\* pools and configurations are all told as connection_unavailable.
FaultsAreFolded ==
  Answered /\ Execute /\ inner # "" /\ ~faulted => answer.code = "connection_unavailable"
=============================================================================
