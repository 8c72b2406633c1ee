----------------------------- MODULE MCGateway -----------------------------
(* Two connections, one of each engine; statements of every kind that the     *)
(* policy tells apart, results of every kind of value the drivers return.     *)
EXTENDS Gateway

MCConn == {"pg", "my"}
MCConnData ==
  [pg |-> [engine |-> "postgresql", environment |-> "production",
           secretVersion |-> 1, kekVersion |-> 1],
   my |-> [engine |-> "mysql", environment |-> "staging",
           secretVersion |-> 2, kekVersion |-> 1]]

\* Statements.
One(t) == Text("clean", "bound", TRUE, <<t>>)
Sel(clauses, branches, others) ==
  Select(clauses, << >>, FALSE, branches, {}, others, <<"table">>, <<<<"id", "id">>>>,
         << >>)
With(t) == Select({}, <<t>>, TRUE, << >>, {}, {}, <<"other">>, <<<<"id", "id">>>>, << >>)
Union(a, b) == Select({}, << >>, FALSE, <<a, b>>, {}, {}, << >>, << >>, << >>)
Paren(t) == Select({}, << >>, FALSE, << >>, {}, {}, << >>, << >>, <<t>>)
Simple == Sel({}, << >>, {})
Locked == Sel({"LockingClause"}, << >>, {})
Statements ==
  {Simple, Locked, Sel({"SelectInto"}, << >>, {}), Sel({"IntoOutfile"}, << >>, {}),
   Sel({}, << >>, {"assign"}), Sel({}, << >>, {"unseen"}), Paren(Simple), Paren(Locked),
   Sel({}, << >>, {"danger"}), Sel({"distinct"}, << >>, {}),
   Union(Simple, Simple), Union(Simple, Locked), Union(Locked, Simple),
   Union(Simple, Union(Simple, Locked)), Union(Sel({}, << >>, {"danger"}), Simple),
   With(Simple), With(Locked), With(Leaf("Insert")),
   Explain(FALSE, <<Simple>>), Explain(TRUE, <<Simple>>),
   Explain(FALSE, <<Leaf("Delete")>>), Explain(FALSE, <<Explain(FALSE, <<Simple>>)>>),
   Leaf("Update"), Leaf("Ddl"), Leaf("Set"), Leaf("Table"), Leaf("Merge")}
\* With what is inside them.
RECURSIVE Subtrees(_), Depth(_)
Subtrees(t) ==
  {t} \cup IF t.node = "Select" THEN UNION {Subtrees(x) : x \in Inside(t)} ELSE {}
Depth(t) ==
  IF t.node = "Select" THEN 1 + Max({0} \cup {Depth(x) : x \in Inside(t)}) ELSE 0
MCTree == UNION {Subtrees(t) : t \in Statements}
MCHeight == [t \in MCTree |-> Depth(t)]
Texts ==
  {One(t) : t \in Statements}
    \cup {Text("clean", "bound", FALSE, << >>), Text("clean", "unbound", TRUE, <<Simple>>),
          Text("clean", "bound", TRUE, <<Simple, Simple>>),
          Text("unclear", "bound", TRUE, <<Simple>>),
          Text("comment", "bound", TRUE, <<Simple>>)}

Request(kind, caller, scope, wellFormed, conn, text, paged) ==
  [kind |-> kind, caller |-> caller, scope |-> scope, wellFormed |-> wellFormed,
   conn |-> conn, text |-> text, paged |-> paged]
Plainly(kind, conn) == Request(kind, "known", "mine", TRUE, conn, One(Simple), FALSE)

Scenario(q, r, cs, ps) == [req |-> q, role |-> r, conns |-> cs, policy |-> ps]
AllYes == [c \in MCConn |-> "yes"]
MCScenarios ==
  \* one request of each kind against any metadata
  {Scenario(Plainly(k, "pg"), r, cs, [c \in MCConn |-> IF c \in cs THEN ps[c] ELSE "none"]) :
     k \in {"connections", "browse", "execute", "test"}, r \in Roles,
     cs \in {{}, {"pg"}, MCConn}, ps \in {f \in [MCConn -> Policies] :
                                          f["my"] \in {"none", "yes"}}}
  \* any statement against metadata that allows it (for MySQL a CTE that writes
  \* does not parse, for PostgreSQL parentheses leave no trace)
  \cup {Scenario(Request("execute", "known", "mine", TRUE, "pg", t, g), "viewer",
                 MCConn, AllYes) : t \in Texts \ {One(Paren(Simple)), One(Paren(Locked))},
                                   g \in BOOLEAN}
  \cup {Scenario(Request("execute", "known", "mine", TRUE, "my", t, g), "viewer",
                 MCConn, AllYes) : t \in Texts \ {One(With(Leaf("Insert")))}, g \in BOOLEAN}
  \* and requests that the handlers turn away
  \cup {Scenario(Request(k, a, s, w, "my", t, FALSE), "owner", MCConn, AllYes) :
          k \in {"connections", "browse", "execute"}, a \in {"none", "known"},
          s \in {"mine", "other", "malformed"}, w \in BOOLEAN, t \in {Blank, One(Simple)}}

\* Results.
Grid(columns, rows) == [columns |-> columns, rows |-> rows]
Column(native, values) == {Grid(<<native>>, <<<<v>>>>) : v \in values}
Numerics == {Number("numeric", n, d, e) :
               n \in BOOLEAN, d \in {<<0>>, <<7>>, <<1, 2>>, <<3, 0, 5>>}, e \in -4..2}
Clocks == {TimeOfDay(t) : t \in {-1, 0, 1, 119, 120, 7199, 7200, MicrosPerDay - 1,
                                 MicrosPerDay, MicrosPerDay + 1}}
Str(n, e) == Sized("string", n, e)
PGResults ==
  Column("numeric", Numerics \cup {Sized("special", 3, 5), Plain("invalid")})
    \cup Column("time", Clocks \cup {Plain("pgtime_null")})
    \cup Column("int4", {Number("int", TRUE, <<4, 2>>, 0), Plain("null")})
    \cup Column("float8", {Sized("float", 3, 3), Plain("nonfinite"), Plain("null")})
    \cup Column("bool", {Plain("bool"), Plain("null")})
    \cup Column("timestamptz", {Plain("time"), Sized("stringer", 8, 8), Plain("null")})
    \cup Column("jsonb", {Sized("document", 9, 30), Sized("document", 9, 41)})
    \cup Column("uuid", {Plain("uuid")})
    \cup {Grid(<<"text", "text">>, <<<<Str(1, 2), Str(2, 2)>>, <<Plain("null"), Str(30, 40)>>>>),
          Grid(<<"text">>, << >>),
          Grid(<<"text">>, <<<<Str(1, 2)>>, <<Str(30, 41)>>>>),
          Grid(<<"text", "bytea">>, <<<<Str(30, 40), Sized("bytes", 15, 15)>>>>),
          Grid(<<"text", "bytea">>, <<<<Str(30, 40), Sized("bytes", 16, 16)>>>>),
          Grid(<<"bytea">>, <<<<Sized("bytes", 33, 33)>>>>),
          Grid(<<"other">>, <<<<Plain("opaque")>>>>)}
MySQLResults ==
  {Grid(<<"BIGINT", "DECIMAL">>, <<<<Number("int", FALSE, <<7>>, 0), Sized("bytes", 4, 4)>>>>),
   Grid(<<"DATETIME", "TIME">>, <<<<Sized("bytes", 19, 19), Sized("bytes", 8, 8)>>>>),
   Grid(<<"JSON">>, <<<<Sized("bytes", 20, 24)>>, <<Plain("null")>>>>),
   Grid(<<"JSON">>, <<<<Plain("garbled")>>>>),
   Grid(<<"VARCHAR", "BIT">>, <<<<Sized("bytes", 3, 5), Sized("bytes", 1, 1)>>>>)}
MCResults == [postgresql |-> PGResults, mysql |-> MySQLResults]
=============================================================================
