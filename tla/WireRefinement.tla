--------------------------- MODULE WireRefinement ---------------------------
(***************************************************************************)
(* Wire implements RemoteCall: in and out of step, the two ends execute a  *)
(* call at most once and never report a success that is none.              *)
(***************************************************************************)
EXTENDS Wire

StageOf(r) ==
    CASE r > made -> "new"
      [] r <= made /\ reported[r] = "no" -> "outstanding"
      [] r <= made /\ reported[r] = "nil" -> "success"
      [] OTHER -> "failure"

IsStarted(r) == \E x \in started : x.call = r

ExecutionOf(r) ==
    CASE ~IsStarted(r) -> "none"
      [] IsStarted(r) /\ returned[r] # "no" -> returned[r]
      [] IsStarted(r) /\ returned[r] = "no" /\ r \in running -> "running"
      [] OTHER -> "panicked"

Remote == INSTANCE RemoteCall WITH
    stage <- [r \in Calls |-> StageOf(r)],
    execution <- [r \in Calls |-> ExecutionOf(r)],
    oneWay <- {r \in 1 .. made : ~kind[r].reply}

\* Wherever the connection breaks and whatever either end takes for a header, a
\* method is started at most once and only for a call that was made, a call is
\* reported at most once, and a caller sees a success only for a method that has
\* done its part (server_conn.go:271, client_conn.go:175, 211).
ExecutedOnce == Remote!Spec

=============================================================================
