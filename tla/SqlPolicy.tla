----------------------------- MODULE SqlPolicy -----------------------------
(* The statement policy (internal/sqlpolicy): what Decide allows, and which  *)
(* statements AnalyzeShape accepts for paging.  The parsers are external: a   *)
(* text is the trees they return, with what the lexers find in it.  A tree    *)
(* keeps the clauses the policy looks at and, of its expressions, only which  *)
(* of the looked-for constructs occur where.                                  *)
EXTENDS Naturals, FiniteSets, SequencesExt

CONSTANTS
  Tree,    \* the syntax trees considered
  Height   \* how deeply they nest

Dialect == {"postgresql", "mysql"}

\* A text: is it blank, what the lexers say, does it parse, and the trees.
Text(lex, bound, parses, trees) ==
  [blank |-> FALSE, lex |-> lex, bound |-> bound, parses |-> parses, trees |-> trees]
Blank == [blank |-> TRUE, lex |-> "clean", bound |-> "bound", parses |-> FALSE,
          trees |-> <<>>]

\* The trees.  A select names its base tables in from ("table", or "other" for
\* a join or a subquery) and its targets as pairs of exposed and base column
\* ("*" for a star, "expr" for anything computed); paren is the query in
\* parentheses that a MySQL select may be, if it is one.
Select(clauses, ctes, recursive, branches, where, others, from, targets, paren) ==
  [node |-> "Select", clauses |-> clauses, ctes |-> ctes, recursive |-> recursive,
   branches |-> branches, where |-> where, others |-> others, from |-> from,
   targets |-> targets, paren |-> paren]
Explain(analyze, targets) ==
  [node |-> "Explain", analyze |-> analyze, targets |-> targets]
Leaf(node) == [node |-> node]

\* The statements inside a statement that the classifiers look into: the branches
\* of a set operation, which the types of the parsers make selects, and the bodies
\* of the CTEs.  Neither looks into the query in parentheses; what the parser
\* repeats of it in the select around is its own.
Inside(s) == ToSet(s.branches) \cup ToSet(s.ctes)
Selects == {t \in Tree : t.node = "Select"}

ASSUME TreesNest ==
  /\ Height \in [Tree -> Nat]
  /\ \A s \in Selects :
       /\ ToSet(s.branches) \subseteq Selects
       /\ \A t \in Inside(s) : t \in Tree /\ Height[t] < Height[s]

\* The top-level switch of classifyPGAST and classifyMySQLAST.  TABLE t is a
\* SELECT for MySQL only; what neither knows is UNKNOWN.
Kind(dialect, node) ==
  CASE node = "Select" \/ (node = "Table" /\ dialect = "mysql") -> "SELECT"
    [] node = "Explain" -> "EXPLAIN"
    [] node \in {"Insert", "Update", "Delete", "Ddl", "Call", "Transaction"} -> node
    [] node = "Set" \/ (node = "Values" /\ dialect = "mysql") -> "OTHER"
    [] OTHER -> "UNKNOWN"

\* The features of a branch or a CTE body that mergePGFeatures and
\* mergeMySQLFeatures hand on to the statement around it.
MergedPG == {"CTE", "RecursiveCTE", "SetOperation", "LockingClause", "SelectInto",
             "ModifyingCTE", "DangerousFunc"}
MergedMySQL == {"CTE", "RecursiveCTE", "SetOperation", "LockingClause",
                "IntoOutfile", "IntoVar", "Assignment", "ModifyingCTE"}

\* hasDangerousPGFunc walks the whole tree, nested statements included.
CallsDangerous(s) ==
  LET calls[t \in Tree] ==
        t.node = "Select" /\ (\/ "danger" \in t.where \cup t.others
                              \/ \E x \in Inside(t) : calls[x])
  IN calls[s]

\* hasModifyingCTEPG: a CTE of its own that writes.
ModifyingCTE(s) ==
  \E t \in ToSet(s.ctes) : t.node \in {"Insert", "Update", "Delete", "Merge"}

\* Mutation of PGFeatures: the locking clause of a branch is not merged.
PGFeaturesUnmerged(s) ==
  LET features[t \in Selects] ==
        {f \in MergedPG :
          \/ f = "SetOperation" /\ t.branches # <<>>
          \/ f \in t.clauses
          \/ f = "DangerousFunc" /\ CallsDangerous(t)
          \/ f # "LockingClause" /\ \E b \in ToSet(t.branches) : f \in features[b]}
  IN features[s]

\* classifyPGSelect: its own clauses, and those of the branches of a set
\* operation.
PGFeatures(s) ==
  LET features[t \in Selects] ==
        {f \in MergedPG :
          \/ f = "CTE" /\ t.ctes # <<>>
          \/ f = "RecursiveCTE" /\ t.ctes # <<>> /\ t.recursive
          \/ f = "ModifyingCTE" /\ ModifyingCTE(t)
          \/ f = "SetOperation" /\ t.branches # <<>>
          \/ f \in t.clauses
          \/ f = "DangerousFunc" /\ CallsDangerous(t)
          \/ \E b \in ToSet(t.branches) : f \in features[b]}
  IN features[s]

\* hasAssignmentInExprs and its kin: is a variable assigned in a target, WHERE,
\* HAVING, GROUP BY, ORDER BY or FROM, below parentheses, binary operators,
\* arguments of calls, CASE and subqueries?  An assignment in another clause (LIMIT,
\* WINDOW) or below another expression is "unseen", and not looked at.
HasAssignment(s) == "assign" \in s.where \cup s.others

\* classifyMySQLSelect merges the bodies of the CTEs as well, and looks for
\* assignments.
MySQLFeatures(s) ==
  LET features[t \in Selects] ==
        {f \in MergedMySQL :
          \/ f = "CTE" /\ t.ctes # <<>>
          \/ f = "RecursiveCTE" /\ t.ctes # <<>> /\ t.recursive
          \/ f = "SetOperation" /\ t.branches # <<>>
          \/ f \in t.clauses
          \/ f = "Assignment" /\ HasAssignment(t)
          \/ \E x \in Inside(t) \cap Selects : f \in features[x]}
  IN features[s]

\* classifyPGExplain and classifyMySQLExplain.
ExplainFeatures(t) ==
  {f \in {"ExplainAnalyze", "NestedExplain", "ExplainDMLDDL"} :
    \/ f = "ExplainAnalyze" /\ t.analyze
    \/ f = "NestedExplain" /\ \E x \in ToSet(t.targets) : x.node = "Explain"
    \/ f = "ExplainDMLDDL"
         /\ \E x \in ToSet(t.targets) : x.node \notin {"Select", "Explain"}}

Features(dialect, t) ==
  IF t.node = "Explain" THEN ExplainFeatures(t)
  ELSE IF t.node # "Select" THEN {}
  ELSE IF dialect = "postgresql" THEN PGFeatures(t) ELSE MySQLFeatures(t)

\* The features applyPolicy refuses; a CTE and a set operation are not among
\* them.
Refused == {"LockingClause", "SelectInto", "IntoOutfile", "IntoVar", "Assignment",
            "ExplainAnalyze", "ModifyingCTE", "ExplainDMLDDL", "NestedExplain",
            "DangerousFunc"}

JudgeTree(dialect, t) ==
  LET kind == Kind(dialect, t.node)
  IN CASE kind = "UNKNOWN" -> "unsupported_statement"
       [] kind \notin {"SELECT", "EXPLAIN"} -> "statement_not_allowed"
       [] Features(dialect, t) \cap Refused # {} -> "statement_not_allowed"
       [] OTHER -> "allowed"

\* classifyPG and classifyMySQL: one statement that parses.
Classify(dialect, text) ==
  CASE ~text.parses \/ text.trees = <<>> -> "sql_parse_error"
    [] Len(text.trees) > 1 -> "multiple_statements"
    [] OTHER -> JudgeTree(dialect, text.trees[1])

\* Decide: the reason code.  MySQL texts pass the executable-comment lexer
\* first; the pipeline always asks with the one supported session mode.
Decide(dialect, text) ==
  CASE text.blank -> "empty_sql"
    [] dialect = "mysql" /\ text.lex = "unclear" -> "sql_parse_error"
    [] dialect = "mysql" /\ text.lex = "comment" -> "executable_comment_detected"
    [] OTHER -> Classify(dialect, text)

\* EvaluateSQL and the placeholder test of Execute: the reason of the decision
\* and, when it is a refusal, the error code of the request.
Judge(dialect, text) ==
  LET reason == Decide(dialect, text)
  IN IF reason = "allowed" /\ text.bound # "bound" THEN "statement_not_allowed"
     ELSE reason

-----------------------------------------------------------------------------
\* What rejectPGShape and rejectMySQLShape refuse (ORDER BY is not among it).
Unpageable == {"distinct", "group", "having", "window", "limit", "source",
               "LockingClause", "SelectInto", "IntoOutfile", "IntoVar"}

\* Can the statement be replayed page by page?  One plain select of one base
\* table, no call in its predicate, and every target a column or a star, no
\* name exposed twice.  PostgreSQL also counts CURRENT_TIMESTAMP and the like.
HasShape(dialect, text) ==
  /\ text.parses
  /\ Len(text.trees) = 1
  /\ LET s == text.trees[1]
     IN /\ s.node = "Select"
        /\ s.ctes = <<>> /\ s.branches = <<>> /\ s.paren = <<>>
        /\ s.clauses \cap Unpageable = {}
        /\ s.where \cap ({"call", "danger"} \cup
             (IF dialect = "postgresql" THEN {"value"} ELSE {})) = {}
        /\ s.from = <<"table">>
        /\ s.targets # <<>>
        /\ \A i \in DOMAIN s.targets : s.targets[i][2] # "expr"
        /\ \A i, j \in DOMAIN s.targets :
             i # j /\ s.targets[i][2] # "*" /\ s.targets[j][2] # "*"
               => s.targets[i][1] # s.targets[j][1]
=============================================================================
