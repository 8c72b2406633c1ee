----------------------------- MODULE WireResult -----------------------------
(* The wire form of a result (executionhttp/wire.go): toWireResult turns the *)
(* values of the drivers into JSON values, within a budget for every cell and *)
(* every row, or refuses the whole result.  Strings are abstracted to their   *)
(* length and the length of their JSON encoding; numbers and times of day     *)
(* keep their digits, because that is where the conversion computes.          *)
EXTENDS Integers, SequencesExt

CONSTANTS
  MaxCellBytes,   \* 256 KiB in the code
  MaxRowBytes,    \* 1 MiB in the code
  MicrosPerSecond \* 1,000,000 in the code

ASSUME BudgetsPositive ==
  {MaxCellBytes, MaxRowBytes, MicrosPerSecond} \subseteq Nat \ {0}

MicrosPerDay == 24 * 60 * 60 * MicrosPerSecond

\* A value that a driver returns: what it is, and what the conversion looks at.
Plain(is) == [is |-> is]
Sized(is, bytes, encoded) == [is |-> is, bytes |-> bytes, encoded |-> encoded]
Number(is, neg, digits, exp) == [is |-> is, neg |-> neg, digits |-> digits, exp |-> exp]
TimeOfDay(micros) == [is |-> "pgtime", micros |-> micros]
\* The kinds that are looked at that closely, and what they carry.
Measured(v) ==
  /\ v.is \in {"int", "numeric"} => v.digits \in Seq(0..9) \ {<<>>} /\ v.exp \in Int
  /\ v.is = "pgtime" => v.micros \in Int
  /\ v.is \in {"string", "bytes", "document", "float", "special", "stringer"} =>
       {v.bytes, v.encoded} \subseteq Nat

\* pgWireType and mysqlWireType.  What they do not know is text.
PGWire == [int2 |-> "int", int4 |-> "int", int8 |-> "int", float8 |-> "float",
           numeric |-> "decimal", bool |-> "boolean", date |-> "date", time |-> "time",
           timestamp |-> "timestamp", timestamptz |-> "timestamptz", json |-> "json_text",
           jsonb |-> "json_text", bytea |-> "binary", uuid |-> "uuid"]
MySQLWire == [INT |-> "int", BIGINT |-> "int", DOUBLE |-> "float", DECIMAL |-> "decimal",
              DATE |-> "date", TIME |-> "time", DATETIME |-> "timestamp",
              JSON |-> "json_text", BIT |-> "binary", BLOB |-> "binary"]
WireType(engine, native) ==
  LET known == IF engine = "postgresql" THEN PGWire ELSE MySQLWire
  IN IF native \in DOMAIN known THEN known[native] ELSE "text"

\* A converted cell, or the failure that takes its place.
Cell(is, val, size) == [is |-> is, val |-> val, size |-> size]
NullCell == Cell("null", 0, 0)
Unrepresentable == Cell("error", "database_error", 0)
TooLarge == Cell("error", "result_too_large", 0)

Zeros(n) == [i \in 1..n |-> 0]

\* Mutation of NumericText: no zeros between the point and the digits.
NumericTextUnpadded(n) ==
  LET len == Len(n.digits)
      whole == len + n.exp
  IN IF n.exp >= 0 THEN [neg |-> n.neg, whole |-> n.digits \o Zeros(n.exp), frac |-> << >>]
     ELSE IF whole <= 0 THEN [neg |-> n.neg, whole |-> <<0>>, frac |-> n.digits]
     ELSE [neg |-> n.neg, whole |-> SubSeq(n.digits, 1, whole),
           frac |-> SubSeq(n.digits, whole + 1, len)]

\* pgNumericString: the digits of the coefficient, shifted by the exponent.
NumericText(n) ==
  LET len == Len(n.digits)
      whole == len + n.exp
  IN IF n.exp >= 0 THEN [neg |-> n.neg, whole |-> n.digits \o Zeros(n.exp), frac |-> << >>]
     ELSE IF whole <= 0
     THEN [neg |-> n.neg, whole |-> <<0>>, frac |-> Zeros(-whole) \o n.digits]
     ELSE [neg |-> n.neg, whole |-> SubSeq(n.digits, 1, whole),
           frac |-> SubSeq(n.digits, whole + 1, len)]

NumeralSize(t) ==
  (IF t.neg THEN 1 ELSE 0) + Len(t.whole) + (IF t.frac = << >> THEN 0 ELSE 1 + Len(t.frac))

\* decimalString.  A numeric that is NaN or infinite keeps its name; an
\* invalid one, and a float that is not finite, is refused.  Of the values it does
\* not know, those that are a fmt.Stringer are asked for their text.
DecimalCell(v) ==
  CASE v.is \in {"int", "numeric"} ->
         LET t == NumericText(v) IN Cell("digits", t, NumeralSize(t))
    [] v.is = "special" -> Cell("name", v, v.bytes)
    [] v.is \in {"string", "bytes", "stringer"} -> Cell("string", v, v.bytes)
    [] v.is = "float" -> Cell("float", v, v.bytes)
    [] OTHER -> Unrepresentable

\* formatPGTime: hours, minutes, seconds and microseconds, midnight at the end
\* of the day included.
PGTimeCell(us) ==
  IF us < 0 \/ us > MicrosPerDay THEN Unrepresentable
  ELSE Cell("clock", <<us \div (60 * 60 * MicrosPerSecond),
                       (us \div (60 * MicrosPerSecond)) % 60,
                       (us \div MicrosPerSecond) % 60, us % MicrosPerSecond>>, 32)

\* timeString and normalizeTimeText (which puts a T for the blank of a
\* timestamp and keeps the length).  An infinite date or timestamp of PostgreSQL
\* comes as a value of pgx that is only a fmt.Stringer.
TimeCell(v) ==
  CASE v.is = "time" -> Cell("moment", v, 32)
    [] v.is = "pgtime" -> PGTimeCell(v.micros)
    [] v.is = "pgtime_null" -> NullCell
    [] v.is \in {"string", "bytes", "stringer"} -> Cell("string", v, v.bytes)
    [] OTHER -> Unrepresentable

\* Base64 gives four characters for three bytes.
BinaryCell(v) ==
  IF v.is \in {"string", "bytes"} THEN Cell("base64", v, 4 * ((v.bytes + 2) \div 3))
  ELSE Unrepresentable

\* A text of JSON must be valid (a garbled one is not); a decoded document is
\* encoded again.
JSONCell(v) ==
  CASE v.is \in {"string", "bytes"} -> Cell("string", v, v.encoded)
    [] v.is = "document" ->
         IF v.encoded > MaxCellBytes THEN TooLarge ELSE Cell("string", v, v.encoded)
    [] OTHER -> Unrepresentable

\* wireCell: SQL NULL is null whatever the type.
WireCell(type, v) ==
  IF v.is = "null" THEN NullCell
  ELSE CASE type \in {"int", "decimal"} -> DecimalCell(v)
         [] type = "boolean" -> IF v.is = "bool" THEN Cell("bool", v, 1) ELSE Unrepresentable
         [] type = "float" -> IF v.is = "float" THEN Cell("float", v, 8) ELSE Unrepresentable
         [] type \in {"date", "time", "timestamp", "timestamptz"} -> TimeCell(v)
         [] type = "binary" -> BinaryCell(v)
         [] type = "json_text" -> JSONCell(v)
         [] type = "uuid" -> IF v.is = "uuid" THEN Cell("string", v, 36)
                             ELSE IF v.is \in {"string", "bytes"}
                             THEN Cell("string", v, v.bytes) ELSE Unrepresentable
         [] OTHER -> IF v.is \in {"string", "bytes"} THEN Cell("string", v, v.encoded)
                     ELSE Unrepresentable

\* rowBytes after each cell.
Sizes(cells) ==
  LET size[i \in 0..Len(cells)] == IF i = 0 THEN 0 ELSE size[i - 1] + cells[i].size
  IN size

\* toWireResult: the cells of a row in order, the first failure ends it all.
\* The limit of a binary cell was the adapter's, on the bytes.
WireRow(types, row) ==
  LET cells == [i \in DOMAIN row |-> WireCell(types[i], row[i])]
      size == Sizes(cells)
      failed == {i \in DOMAIN row :
                   \/ cells[i].is = "error"
                   \/ types[i] # "binary" /\ cells[i].size > MaxCellBytes
                   \/ size[i] > MaxRowBytes}
  IN IF failed = {} THEN [error |-> "", cells |-> cells]
     ELSE LET first == cells[CHOOSE i \in failed : \A j \in failed : i <= j]
          IN [error |-> IF first.is = "error" THEN first.val ELSE "result_too_large",
              cells |-> << >>]

ToWireResult(engine, result) ==
  LET types == [i \in DOMAIN result.columns |-> WireType(engine, result.columns[i])]
      rows == [r \in DOMAIN result.rows |-> WireRow(types, result.rows[r])]
      failed == {r \in DOMAIN rows : rows[r].error # ""}
  IN IF failed # {}
     THEN [error |-> rows[CHOOSE r \in failed : \A s \in failed : r <= s].error, rows |-> << >>]
     ELSE [error |-> "", rows |-> [r \in DOMAIN rows |-> rows[r].cells]]
=============================================================================
