---------------------------- MODULE MCAdmission ----------------------------
(* Instance of Admission for TLC: three concurrent queries of two users on    *)
(* two connections of one workspace.                                         *)
EXTENDS Admission, TLC

CONSTANTS q1, q2, q3, u1, u2, w1, c1, c2
=============================================================================
