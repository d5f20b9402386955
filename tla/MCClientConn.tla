---------------------------- MODULE MCClientConn ----------------------------
(* Finite instances of ClientConn for TLC. *)
EXTENDS ClientConnRefinement, TLC

CONSTANTS r1, r2, r3, u

\* r1 is synchronous; r2 and r3 are not and share the user channel u, which
\* holds one call only: the second notification can be dropped.
MixedReqs == {r1, r2, r3}
MixedChan == (r2 :> u) @@ (r3 :> u)
UnitCap == [ch \in UserChans |-> 1]

\* r1 is synchronous, nobody waits for r2.
TwoReqs == {r1, r2}
TwoChan == r2 :> NoChan

\* Synchronous invocations only.
NoAsync == [r \in {} |-> NoChan]

ObjSymmetry == Permutations(Objs)
ObjConnSymmetry == Permutations(Objs) \cup Permutations(Conns)

=============================================================================
