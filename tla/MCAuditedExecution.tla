------------------------- MODULE MCAuditedExecution -------------------------
(* Instances of AuditedExecution for TLC: one first page and two requests    *)
(* for the pages after it, so that two requests race for one token.          *)
EXTENDS AuditedExecution
=============================================================================
