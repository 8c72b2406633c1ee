------------------------ MODULE MCCredentialLifecycle ------------------------
(* Instances of CredentialLifecycle for TLC.                               *)
EXTENDS CredentialLifecycle, TLC

\* Requests are interchangeable where all of them, or none, may fail, and so
\* are connections.
Symmetry == Permutations(Tx) \cup Permutations(Conn)
=============================================================================
