------------------------------ MODULE MCClient ------------------------------
(* Finite instances of Client for TLC. *)
EXTENDS Client

\* A server that may have one connection, with a weight the draw can miss, and
\* one that may have two.
OneInfo == {[weight |-> 1, maxConn |-> 2]}
TwoInfos == {[weight |-> 0, maxConn |-> 1], [weight |-> 2, maxConn |-> 2]}

=============================================================================
