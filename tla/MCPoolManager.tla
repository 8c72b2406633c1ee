--------------------------- MODULE MCPoolManager ---------------------------
(* An instance of PoolManager for TLC: three concurrent calls, revisions     *)
(* 0..2, two configurations.                                                 *)
EXTENDS PoolManager

CONSTANTS p1, p2, p3, k1, k2

\* The calls are alike and so are the configurations.  Symmetry sets are unsound
\* for liveness; the requests are put in order once, at the start, instead: by
\* revision, then configuration, the first call asking for k1.
Before(c, d) ==
  \/ req[c].rev < req[d].rev
  \/ req[c].rev = req[d].rev /\ (req[c].cfg = k1 \/ req[d].cfg = k2)

MCInit == Init /\ Before(p1, p2) /\ Before(p2, p3) /\ req[p1].cfg = k1

MCSpec == MCInit /\ [][Next]_vars /\ Fairness
=============================================================================
