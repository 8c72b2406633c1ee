----------------------- MODULE MCContinuationRegistry -----------------------
(* Instances of ContinuationRegistry for TLC: two users of one workspace,    *)
(* two connections, limits low enough that each of the four dimensions       *)
(* presses in turn.                                                          *)
EXTENDS ContinuationRegistry, TLC

CONSTANTS h1, h2, h3, h4, u1, u2, w1, c1, c2, all

MCHandle == {h1, h2, h3, h4}

\* Handles, users and connections are interchangeable (safety runs only).
MCSymmetry == Permutations(MCHandle) \cup Permutations({u1, u2})
                \cup Permutations({c1, c2})
=============================================================================
