---------------------------- MODULE OneShotToken ----------------------------
(***************************************************************************)
(* What the continuation registry promises (ADR-015 section 6), without    *)
(* its mutex, quotas, clock or versions: a token is issued once, taken by  *)
(* at most one caller, and never comes back; the caller may exchange it    *)
(* for exactly one successor; any token may be dropped at any time.        *)
(***************************************************************************)
CONSTANT Handle

VARIABLES
  status,   \* of every handle: unused, ready, claimed or spent
  chainOf   \* the first handle of the chain a handle belongs to

ovars == <<status, chainOf>>

Live == {h \in Handle : status[h] \in {"ready", "claimed"}}

Init ==
  /\ status = [h \in Handle |-> "unused"]
  /\ chainOf = [h \in Handle |-> h]

Issue(h) ==
  /\ status[h] = "unused"
  /\ status' = [status EXCEPT ![h] = "ready"]
  /\ UNCHANGED chainOf

Take(h) ==
  /\ status[h] = "ready"
  /\ status' = [status EXCEPT ![h] = "claimed"]
  /\ UNCHANGED chainOf

\* The one exchange: the old token is spent in the step that issues the new one.
Exchange(h, g) ==
  /\ status[h] = "claimed"
  /\ status[g] = "unused"
  /\ status' = [status EXCEPT ![h] = "spent", ![g] = "ready"]
  /\ chainOf' = [chainOf EXCEPT ![g] = chainOf[h]]

\* Completion, abort, revocation, expiry, eviction; shutdown drops them all.
Drop(S) ==
  /\ S \subseteq Live
  /\ status' = [h \in Handle |-> IF h \in S THEN "spent" ELSE status[h]]
  /\ UNCHANGED chainOf

Next ==
  \/ \E h \in Handle : Issue(h) \/ Take(h)
  \/ \E g, h \in Handle : Exchange(h, g)
  \/ \E S \in SUBSET Handle : Drop(S)

Spec == Init /\ [][Next]_ovars
=============================================================================
