---------------------------- MODULE AuditEvents ----------------------------
(* The audit events of a request, as execution/pipeline.go and              *)
(* connections/service.go build them, and the validator AppendAudit runs    *)
(* before it inserts one (metadata/audit_metadata.go, fail-closed).  The     *)
(* metadata of an event is a function from field names to values; a hash,    *)
(* a reference and a duration are kept as what their validators test.        *)
EXTENDS Integers

MaxInt32 == 2147483647

\* auditActionFields, for the actions a request can be recorded under.
AllowedFields ==
  [sql_execute |-> {"statement_hash", "row_count", "duration_ms", "error_code",
                    "reason_code", "engine", "environment"},
   connection_test |-> {"engine", "environment", "duration_ms", "error_code"},
   credential_lookup |-> {"secret_ref", "error_code"},
   credential_decrypt |-> {"secret_ref", "secret_version", "kek_version", "error_code"}]

\* auditActionRequired: what each outcome of an action must carry; an outcome
\* that is not listed is refused.
RequiredFields ==
  [sql_execute |->
     [denied |-> {"statement_hash", "reason_code", "engine"},
      succeeded |-> {"statement_hash", "engine", "environment"},
      failed |-> {"statement_hash", "error_code", "engine"},
      cancelled |-> {"statement_hash", "error_code", "engine"}],
   connection_test |->
     [succeeded |-> {"engine", "environment", "duration_ms"},
      failed |-> {"engine", "environment", "error_code"}],
   credential_lookup |-> [failed |-> {"secret_ref", "error_code"}],
   credential_decrypt |-> [failed |-> {"secret_ref", "secret_version", "error_code"}]]

StableReasonCodes ==
  {"allowed", "sql_parse_error", "multiple_statements", "statement_not_allowed",
   "unsupported_statement", "empty_sql", "executable_comment_detected",
   "policy_not_configured", "read_not_allowed", "unsupported_query"}

StableErrorCodes ==
  {"invalid_scope", "unauthorized", "forbidden", "connection_not_found",
   "query_timeout", "query_cancelled", "rate_limited", "connection_busy",
   "result_too_large", "database_error", "audit_failed", "internal_error",
   "unsupported_engine", "invalid_page_token", "pagination_capacity_exhausted",
   "unsupported_query", "stale_config", "config_conflict", "decryption_failed",
   "unknown_envelope_suite", "unknown_kek_version", "invalid_payload",
   "payload_too_large", "credential_not_found", "credential_retired",
   "version_conflict", "credential_in_use", "wrap_quota_exhausted",
   "execution_timeout", "execution_cancelled", "connection_config_conflict",
   "connection_failed", "invalid_config", "pool_closed"}

\* auditFieldSpecs and the field validators.
FieldValid(field, value) ==
  CASE field \in {"secret_version", "kek_version"} -> value > 0
    [] field \in {"row_count", "duration_ms"} -> value \in 0..MaxInt32
    [] field = "error_code" -> value \in StableErrorCodes
    [] field = "reason_code" -> value \in StableReasonCodes
    [] field = "engine" -> value \in {"postgresql", "mysql"}
    [] field = "environment" -> value \in {"development", "staging", "production"}
    [] field = "statement_hash" -> value = "hash"
    [] field = "secret_ref" -> value = "ref"

\* ValidateAuditEventMetadata, as AppendAudit calls it.  (What relates the two
\* versions of a rotation belongs to an action that is not listed here.)
Accepts(event) ==
  LET fields == DOMAIN event.metadata
  IN /\ event.action \in DOMAIN AllowedFields
     /\ fields \subseteq AllowedFields[event.action]
     /\ \A f \in fields : FieldValid(f, event.metadata[f])
     /\ event.outcome \in DOMAIN RequiredFields[event.action]
     /\ RequiredFields[event.action][event.outcome] \subseteq fields
     /\ event.outcome \in {"succeeded", "denied"} => "error_code" \notin fields

-----------------------------------------------------------------------------
\* newAuditEvent: the actor is the user, or the system for a credential that
\* could not be resolved; only the user's events name the execution.
Event(action, actor, outcome, metadata) ==
  [action |-> action, actor |-> actor, execution |-> actor = "user",
   outcome |-> outcome, metadata |-> metadata]

\* What failPreExecution is given when the request is refused, and when a
\* step before the query fails.
DeniedEvent(engine, reason) ==
  Event("sql_execute", "user", "denied",
        [statement_hash |-> "hash", reason_code |-> reason, engine |-> engine])
FailedEvent(engine, code) ==
  Event("sql_execute", "user", "failed",
        [statement_hash |-> "hash", error_code |-> code, engine |-> engine])

\* recordCredentialFailure: E15 and E16 for a decryption, E14 for the rest.
CredentialEvent(conn, code) ==
  IF code \in {"decryption_failed", "unknown_kek_version"}
  THEN Event("credential_decrypt", "system", "failed",
             IF code = "unknown_kek_version"
             THEN [secret_ref |-> "ref", secret_version |-> conn.secretVersion,
                   error_code |-> code, kek_version |-> conn.kekVersion]
             ELSE [secret_ref |-> "ref", secret_version |-> conn.secretVersion,
                   error_code |-> code])
  ELSE Event("credential_lookup", "system", "failed",
             [secret_ref |-> "ref", error_code |-> code])

\* The status recordPostExecution gives the execution, and its outcome.
PostStatus(code) ==
  CASE code = "" -> "completed"
    [] code = "query_cancelled" -> "cancelled"
    [] OTHER -> "failed"
PostOutcome(code) ==
  CASE code = "" -> "succeeded"
    [] code = "query_cancelled" -> "cancelled"
    [] code = "unsupported_query" -> "denied"
    [] OTHER -> "failed"

\* Mutation of PostEvent: a page that cannot be proved is reported with an
\* error code, as every other failure is.
PostEventAlwaysCoded(conn, code, rows) ==
  Event("sql_execute", "user", PostOutcome(code),
    IF code = "" THEN [statement_hash |-> "hash", engine |-> conn.engine,
                       environment |-> conn.environment, row_count |-> rows]
    ELSE [statement_hash |-> "hash", engine |-> conn.engine, error_code |-> code])

\* recordPostExecution: timeouts and cancellations leave out the environment,
\* a query that cannot be paged is denied for a reason and has no error code.
\* (duration_ms is added when it is positive.)
PostEvent(conn, code, rows) ==
  Event("sql_execute", "user", PostOutcome(code),
    CASE code \in {"query_cancelled", "query_timeout"} ->
           [statement_hash |-> "hash", engine |-> conn.engine, error_code |-> code]
      [] code = "unsupported_query" ->
           [statement_hash |-> "hash", engine |-> conn.engine,
            environment |-> conn.environment, reason_code |-> code]
      [] code = "" ->
           [statement_hash |-> "hash", engine |-> conn.engine,
            environment |-> conn.environment, row_count |-> rows]
      [] OTHER ->
           [statement_hash |-> "hash", engine |-> conn.engine,
            environment |-> conn.environment, error_code |-> code])

\* connections.Test: E7 and E8.  A credential that could not be resolved is
\* recorded without a duration, a ping with one.
TestEvent(conn, code, pinged) ==
  Event("connection_test", "user", IF code = "" THEN "succeeded" ELSE "failed",
    CASE code = "" -> [engine |-> conn.engine, environment |-> conn.environment,
                       duration_ms |-> 0]
      [] code # "" /\ pinged ->
           [engine |-> conn.engine, environment |-> conn.environment,
            duration_ms |-> 0, error_code |-> code]
      [] OTHER -> [engine |-> conn.engine, environment |-> conn.environment,
                   error_code |-> code])
=============================================================================
