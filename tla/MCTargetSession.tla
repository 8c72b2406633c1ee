-------------------------- MODULE MCTargetSession --------------------------
(* Instance of TargetSession for TLC: a query, a listing and a lookup        *)
(* compete for one session, the first two under two permits.                *)
EXTENDS TargetSession, TLC

CONSTANTS q1, l1, k1, s1
=============================================================================
