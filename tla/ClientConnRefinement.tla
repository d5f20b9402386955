------------------------ MODULE ClientConnRefinement ------------------------
(***************************************************************************)
(* ClientConn keeps the promise of RpcCall: the goroutines, the channels,  *)
(* the pool and the connections behind an invocation are invisible to its  *)
(* caller.                                                                 *)
(***************************************************************************)
EXTENDS ClientConnInv

StageOf(r) ==
    CASE phase[r] = "idle" -> "new"
      [] phase[r] \in Live -> "outstanding"
      [] phase[r] = "completed" -> "reported"
      [] OTHER -> "returned"

OutcomeOf(r) ==
    IF phase[r] \in Live \cup {"idle"} THEN "none"
    ELSE IF r \in answered THEN "reply" ELSE "error"

HandedTo(r) ==
    CASE result[r] = "none" -> "none"
      [] result[r] = "nil" -> "reply"
      [] OTHER -> "error"

Promise == INSTANCE RpcCall WITH
    stage <- [r \in Reqs |-> StageOf(r)],
    outcome <- [r \in Reqs |-> OutcomeOf(r)],
    handed <- [r \in Reqs |-> HandedTo(r)],
    sound <- ReportedOnce

\* Whatever the writer, the reader, the pool and the network do, a caller sees
\* its invocation reported once, and is handed the outcome of that very
\* invocation, until some invocation is reported twice (call.go:18, client.go:200).
KeepsPromise == Promise!Spec

=============================================================================
