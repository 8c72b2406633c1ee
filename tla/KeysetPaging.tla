---------------------------- MODULE KeysetPaging ----------------------------
(***************************************************************************)
(* One query read page by page: the page sizes and the proof of uniqueness *)
(* of the first page (execution/pipeline.go, queryplan/plan.go), the       *)
(* keyset predicate and the sentinel row (adapter/keyset.go, manager.go),  *)
(* the continuation state, and the checks of each later page, while others *)
(* change the table and its constraints between and within the requests.   *)
(*                                                                         *)
(* Claim, Rotate and the audit of the pages are modules                    *)
(* ContinuationRegistry and AuditedExecution.                              *)
(***************************************************************************)
EXTENDS Integers, FiniteSets, Sequences, SequencesExt

CONSTANTS
  Row,          \* identities of rows, which no query sees
  Content,      \* what a row may hold: records with the columns a and b
  Metadata,     \* the catalog of the table: its columns that are NOT NULL and its
                \* unique indexes, of which some columns count in part only (a
                \* prefix or an expression): [notnull, unique], of [cols, part]
  Request,      \* what a client may ask: [shape, keys, page, max], see Init
  Null,
  Cap,          \* 500: the most rows of a page and of a query
  DefaultPage,  \* 100
  MaxChanges    \* bound: changes others make to rows; the catalog changes once

ASSUME LimitsPositive == {Cap, DefaultPage} \subseteq Nat \ {0} /\ DefaultPage <= Cap
ASSUME MaxChangesNatural == MaxChanges \in Nat

Column == {"a", "b"}
Computed == "computed"    \* the base of an expression in a select list
Value == Int \cup {Null}
Key == [col : STRING, asc : BOOLEAN, nullsLast : BOOLEAN]

\* What a table is made of; and what reaches the plan of a request: keys with a
\* direction, and a row limit that Execute found to be positive.
ASSUME TableTyped ==
  /\ IsFiniteSet(Row)
  /\ Null \notin Int
  /\ Content \subseteq [a : Value, b : Value, wide : BOOLEAN]
  /\ \A m \in Metadata : /\ m.notnull \subseteq Column
                         /\ \A ix \in m.unique : ix.cols \subseteq Column
ASSUME RequestTyped ==
  \A q \in Request : q.page \in Int /\ q.max \in Nat \ {0} /\ q.keys \in Seq(Key)

VARIABLES
  table,     \* the rows there are: a partial function from Row to Content
  meta,      \* the catalog as it is
  altered,   \* has it changed?
  columns,   \* the columns that were NOT NULL when they were read last
  req,       \* the request; its max is the row limit of the policy
  pc, reply,
  plan,      \* the specs of the VerifiedSortPlan, <<>> without one
  gen,       \* the schema generation of the plan
  token,     \* the last sort values and the count of a continuation: at most one
  shown,     \* the rows returned so far, with what they held
  stable,    \* rows nobody has touched since the first page was read
  changes

vars == <<table, meta, altered, columns, req, pc, reply, plan, gen, token, shown,
          stable, changes>>
theirs == <<table, meta, altered, changes>>

-----------------------------------------------------------------------------
(* Uniqueness: VerifySortPlan.                                             *)

\* scanMySQLUniquePairs: an index with a column that counts in part is dropped as a
\* whole, what is left of its columns is no constraint.  (pg_constraint does not
\* list such indexes.)
UniqueConstraints(m) == {ix.cols : ix \in {i \in m.unique : i.part = {}}}

\* LoadTableMetadata, of columns and constraints that were read one after the other.
Loaded(notnull, m) == [notnull |-> notnull, unique |-> UniqueConstraints(m)]

\* computeSchemaGeneration: the hash of a snapshot tells apart what was loaded.
Generation(loaded) == <<loaded.notnull, loaded.unique>>

\* Mutation of UniqueProofs: nullable unique constraints count.
NullableProofs(m) == m.unique

\* findUniqueProofs: the primary key and the unique constraints without nullable
\* columns.
UniqueProofs(m) == {u \in m.unique : u \subseteq m.notnull}

\* The columns of the table behind the sort keys.
BaseColumns(shape, keys) == {shape[keys[i].col] : i \in DOMAIN keys}

\* The sort keys are exposed columns of the table, each once, and cover a proof.
\* The shape is empty when AnalyzeShape cannot trace the query to one table.
Verifies(m, shape, keys) ==
  /\ keys # <<>>
  /\ \A i \in DOMAIN keys : keys[i].col \in DOMAIN shape
  /\ \A i, j \in DOMAIN keys : keys[i].col = keys[j].col => i = j
  /\ BaseColumns(shape, keys) \subseteq Column
  /\ \E proof \in UniqueProofs(m) : proof \subseteq BaseColumns(shape, keys)

-----------------------------------------------------------------------------
(* Order.  A row is seen as the sequence of its sort values.               *)

Values(specs, content) == [i \in DOMAIN specs |-> content[req.shape[specs[i].col]]]

\* nullRank and nonNullRank of a sortSpec, applied to a value.
Rank(spec, v) == IF (v = Null) = spec.nullsLast THEN 1 ELSE 0

Compare(spec, v, w) == v # Null /\ w # Null /\ IF spec.asc THEN v < w ELSE w < v

\* ORDER BY of buildOrderByClause: NULLS FIRST and LAST of PostgreSQL, the rank
\* before the column for MySQL.
Before(specs, x, y) ==
  \E i \in DOMAIN specs :
    /\ \A j \in 1..i - 1 : x[j] = y[j]
    /\ \/ Rank(specs[i], x[i]) < Rank(specs[i], y[i])
       \/ x[i] # Null /\ Compare(specs[i], x[i], y[i])

\* Mutation of After: the direction of a key is forgotten.
AfterAscending(specs, last, x) ==
  LET after[i \in 1..Len(specs) + 1] ==
        IF i > Len(specs) THEN FALSE
        ELSE LET s == [specs[i] EXCEPT !.asc = TRUE]
             IN \/ Rank(s, x[i]) > Rank(s, last[i])
                \/ Compare(s, last[i], x[i])
                \/ x[i] = last[i] /\ after[i + 1]
  IN after[1]

\* buildAfter: the predicate that continues behind the last sort values.  A
\* comparison with NULL is unknown and, nothing being negated, selects nothing.
After(specs, last, x) ==
  LET after[i \in 1..Len(specs) + 1] ==
        IF i > Len(specs) THEN FALSE
        ELSE LET s == specs[i]
                 same == Rank(s, x[i]) = Rank(s, last[i])
                 null == Rank(s, x[i]) = Rank(s, Null)
             IN \/ Rank(s, x[i]) > Rank(s, last[i])
                \/ same /\ ~null /\ Compare(s, last[i], x[i])
                \/ /\ same
                   /\ null \/ (x[i] # Null /\ x[i] = last[i])
                   /\ after[i + 1]
  IN after[1]

\* The results a database may give to the wrapped query: rows behind the cursor in
\* an order that respects ORDER BY, cut at the limit.
Sorted(specs, rows) ==
  \A i, j \in DOMAIN rows :
    i < j => ~Before(specs, Values(specs, table[rows[j]]), Values(specs, table[rows[i]]))

Results(specs, last, limit) ==
  LET qualified == {r \in DOMAIN table :
                      last = <<>> \/ After(specs, last, Values(specs, table[r]))}
      least(n) == IF Cardinality(qualified) < n THEN Cardinality(qualified) ELSE n
  IN {SubSeq(rows, 1, least(limit)) : rows \in {s \in SetToSeqs(qualified) : Sorted(specs, s)}}

-----------------------------------------------------------------------------
(* Pages.                                                                  *)

Least(x, y) == IF x < y THEN x ELSE y

\* effectiveMaxRows and effectivePageSize of Execute.
MaxRows == Least(req.max, Cap)
PageSize == Least(IF req.page <= 0 THEN DefaultPage ELSE Least(req.page, Cap), MaxRows)
RequiresPagination == MaxRows > PageSize

\* execQuery and the row loops: the rows of a page and the row behind them, which
\* is counted and not looked at.
EffPage(cum) == Least(PageSize, MaxRows - cum)

\* Mutation of HasMore: the sentinel alone decides.
HasMoreBeyondBudget(fetched, cum) == Len(fetched) > EffPage(cum)

\* HasMore of finalizeResult.
HasMore(fetched, cum) ==
  /\ Len(fetched) > EffPage(cum)
  /\ cum + EffPage(cum) < MaxRows

Page(fetched, cum) == SubSeq(fetched, 1, Least(Len(fetched), EffPage(cum)))

\* A cell or the page is larger than allowed.
TooLarge(page) == \E i \in DOMAIN page : table[page[i]].wide

\* ExtractLastValues of the last row, and the count, in the ContinuationState.
Continue(page, cum) ==
  {[last |-> Values(plan, table[page[Len(page)]]), cum |-> cum + Len(page)]}

Finish(e) == pc' = "over" /\ reply' = e /\ token' = {}

\* The page leaves with or without a token.
Deliver(fetched, cum) ==
  LET page == Page(fetched, cum) IN
  IF TooLarge(page) THEN Finish("result_too_large") /\ UNCHANGED shown
  ELSE /\ shown' = shown \o [i \in DOMAIN page |-> <<page[i], table[page[i]]>>]
       /\ IF RequiresPagination /\ HasMore(fetched, cum)
          THEN /\ token' = Continue(page, cum)
               /\ pc' = "token" /\ UNCHANGED reply
          ELSE Finish("complete")

Respects(t, m) ==
  /\ \A r \in DOMAIN t, c \in m.notnull : t[r][c] # Null
  /\ \A u \in UniqueConstraints(m), r, q \in DOMAIN t :
       (r # q /\ \A c \in u : t[r][c] = t[q][c]) => \E c \in u : t[r][c] = Null

Init ==
  /\ req \in Request
  /\ meta \in Metadata
  /\ table \in {t \in UNION {[rows -> Content] : rows \in SUBSET Row} : Respects(t, meta)}
  /\ pc = "start" /\ reply = "none"
  /\ altered = FALSE /\ columns = {}
  /\ plan = <<>> /\ gen = <<>> /\ token = {}
  /\ shown = <<>> /\ stable = {} /\ changes = 0

\* The first of the statements that load the metadata, for either page.  (The
\* others, for the primary key and the unique indexes, are one.)
ReadColumns ==
  /\ \/ pc = "start" /\ pc' = "planning"
     \/ pc = "token" /\ pc' = "rechecking"
  /\ columns' = meta.notnull
  /\ UNCHANGED <<theirs, req, reply, plan, gen, token, shown, stable>>

\* verifySortPlan, which loads the metadata before anything else is read.
Prepare ==
  /\ pc = "planning"
  /\ gen' = Generation(Loaded(columns, meta))
  /\ IF RequiresPagination /\ ~Verifies(Loaded(columns, meta), req.shape, req.keys)
     THEN Finish("unsupported_query") /\ UNCHANGED plan
     ELSE /\ pc' = "prepared"
          /\ plan' = IF RequiresPagination THEN req.keys ELSE <<>>
          /\ UNCHANGED <<reply, token>>
  /\ UNCHANGED <<theirs, columns, req, shown, stable>>

\* PoolHandle.Query: without a plan one page, all of it or nothing.
FirstPage ==
  /\ pc = "prepared"
  /\ \E fetched \in Results(plan, <<>>, PageSize + 1) :
       IF plan = <<>> /\ Len(fetched) > EffPage(0) /\ ~TooLarge(Page(fetched, 0))
       THEN Finish("result_too_large") /\ UNCHANGED shown
       ELSE Deliver(fetched, 0)
  /\ stable' = DOMAIN table
  /\ UNCHANGED <<theirs, columns, req, plan, gen>>

\* NewVerifiedNextPagePlan.
PlanValid(t) ==
  /\ plan # <<>> /\ PageSize > 0 /\ MaxRows > 0
  /\ t.cum >= 0 /\ t.cum < MaxRows
  /\ Len(t.last) = Len(plan)

\* ExecuteNextPage up to the plan: the schema generation is computed anew.
Recheck ==
  /\ pc = "rechecking"
  /\ \E t \in token :
       IF Generation(Loaded(columns, meta)) = gen /\ PlanValid(t)
       THEN pc' = "rechecked" /\ UNCHANGED <<reply, token>>
       ELSE Finish("invalid_page_token")
  /\ UNCHANGED <<theirs, columns, req, plan, gen, shown, stable>>

\* PoolHandle.NextPage, then Rotate or Complete.
NextPage ==
  /\ pc = "rechecked"
  /\ \E t \in token :
       \E fetched \in Results(plan, t.last, EffPage(t.cum) + 1) : Deliver(fetched, t.cum)
  /\ UNCHANGED <<theirs, columns, req, plan, gen, stable>>

-----------------------------------------------------------------------------
(* The table belongs to others.                                            *)

\* A row is inserted or changed, one row at a time.
Write(r) ==
  /\ pc # "over" /\ changes < MaxChanges
  /\ \E content \in Content :
       /\ r \in DOMAIN table => table[r] # content
       /\ table' = [q \in DOMAIN table \cup {r} |-> IF q = r THEN content ELSE table[q]]
  /\ Respects(table', meta)
  /\ stable' = stable \ {r}
  /\ changes' = changes + 1
  /\ UNCHANGED <<meta, altered, columns, req, pc, reply, plan, gen, token, shown>>

Delete(r) ==
  /\ pc # "over" /\ changes < MaxChanges /\ r \in DOMAIN table
  /\ table' = [q \in DOMAIN table \ {r} |-> table[q]]
  /\ stable' = stable \ {r}
  /\ changes' = changes + 1
  /\ UNCHANGED <<meta, altered, columns, req, pc, reply, plan, gen, token, shown>>

\* ALTER TABLE, once: a catalog that changes and changes back is not told from one
\* that did not.
Alter ==
  /\ pc # "over" /\ ~altered
  /\ altered' = TRUE
  /\ meta' \in Metadata \ {meta}
  /\ Respects(table, meta')
  /\ UNCHANGED <<table, columns, req, pc, reply, plan, gen, token, shown, stable, changes>>

Next ==
  \/ ReadColumns \/ Prepare \/ FirstPage \/ Recheck \/ NextPage
  \/ \E r \in Row : Write(r) \/ Delete(r)
  \/ Alter

Spec == Init /\ [][Next]_vars

-----------------------------------------------------------------------------
TypeOK ==
  /\ DOMAIN table \subseteq Row /\ \A r \in DOMAIN table : table[r] \in Content
  /\ req \in Request
  /\ meta \in Metadata /\ altered \in BOOLEAN /\ columns \subseteq Column
  /\ pc \in {"start", "planning", "prepared", "token", "rechecking", "rechecked", "over"}
  /\ reply \in {"none", "complete", "unsupported_query", "result_too_large",
                "invalid_page_token"}
  /\ plan \in {<<>>, req.keys}
  /\ \A t \in token : DOMAIN t = {"last", "cum"}
  /\ Cardinality(token) <= 1
  /\ stable \subseteq DOMAIN table
  /\ changes \in 0..MaxChanges

\* The plan still rests on the constraints the table has.
PlanHolds == gen = Generation(Loaded(meta.notnull, meta))

ShownRows == {shown[i][1] : i \in DOMAIN shown}

\* However the table changes under the reader, a row nobody touches is returned
\* exactly once: the pages split the table at the cursor, what was shown is not
\* behind it and what is behind it was not shown; and a reading that ends below the
\* row limit has returned every such row.  Two rows with the same sort values at a
\* page break, or a null the predicate does not select, would be lost in silence;
\* a single page that is not everything would be taken for everything.
StableRowsOnce ==
  /\ \A i, j \in DOMAIN shown :
       i # j /\ shown[i][1] = shown[j][1] => shown[i][1] \notin stable
  /\ \A t \in token, r \in stable :
       PlanHolds => (r \in ShownRows <=> ~Before(plan, t.last, Values(plan, table[r])))
  /\ reply = "complete" /\ (Len(shown) < MaxRows \/ plan = <<>>) => stable \subseteq ShownRows

\* The rows of all pages are one sequence in the order asked for.
PagesInOrder ==
  plan # <<>> =>
    \A i, j \in DOMAIN shown :
      i < j => ~Before(plan, Values(plan, shown[j][2]), Values(plan, shown[i][2]))

\* A token is given exactly when it can be redeemed: its count is that of the rows
\* returned, there is budget for another row, and only a change of the constraints
\* makes it invalid.  No reading returns more rows than the policy allows.
TokensAreGood ==
  /\ \A t \in token : t.cum = Len(shown) /\ PlanValid(t)
  /\ reply = "invalid_page_token" => ~PlanHolds
  /\ Len(shown) <= MaxRows

=============================================================================
