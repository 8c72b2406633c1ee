--------------------------- MODULE MCKeysetPaging ---------------------------
(* Instance of KeysetPaging for TLC: three rows, a column with nulls beside  *)
(* one without, sort orders in both directions, aliases that swap the       *)
(* columns, and page sizes around the limits.                               *)
EXTENDS KeysetPaging, TLC

CONSTANTS r1, r2, r3

MCContent == [a : {1, 2, Null}, b : {1, 2}, wide : {FALSE}]
               \cup {[a |-> 2, b |-> 3, wide |-> w] : w \in BOOLEAN}

Whole(cols) == [cols |-> cols, part |-> {}]
MCMetadata == {[unique |-> {Whole({"b"})}, notnull |-> {"b"}],
               [unique |-> {Whole({"a", "b"})}, notnull |-> {"a", "b"}],
               [unique |-> {Whole({"a"})}, notnull |-> {"b"}],
               [unique |-> {[cols |-> {"a", "b"}, part |-> {"a"}]}, notnull |-> {"a", "b"}]}

By(c, asc, last) == [col |-> c, asc |-> asc, nullsLast |-> last]
Plain == [a |-> "a", b |-> "b"]
Swapped == [a |-> "b", b |-> "a"]
Partial == [a |-> "a", b |-> Computed]
NoShape == [c \in {} |-> Computed]

MCKeys == {<<By("a", TRUE, TRUE)>>,
           <<By("b", TRUE, TRUE)>>,
           <<By("a", TRUE, TRUE), By("b", FALSE, FALSE)>>,
           <<By("b", FALSE, FALSE), By("a", TRUE, FALSE)>>,
           <<By("a", FALSE, TRUE), By("b", TRUE, FALSE)>>,
           <<By("a", TRUE, FALSE), By("a", FALSE, FALSE)>>,
           <<>>}

MCRequest ==
  [shape : {Plain, Swapped}, keys : MCKeys, page : {1}, max : {2, 4}]
    \cup [shape : {Partial, NoShape}, keys : MCKeys, page : {1}, max : {4}]
    \cup [shape : {Plain}, keys : {<<By("b", TRUE, TRUE)>>}, page : {0, 2, 4}, max : 1..4]

MCSymmetry == Permutations(Row)
=============================================================================
