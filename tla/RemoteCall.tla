----------------------------- MODULE RemoteCall -----------------------------
(***************************************************************************)
(* What a call over a connection amounts to, with streams, headers, codecs *)
(* and both loops left out.  The caller's end has a call outstanding until *)
(* it reports it, once, as a success or a failure; the server's end        *)
(* executes it at most once, and only if it was made.                      *)
(*                                                                         *)
(* The two ends are tied in one direction only.  A success means that the  *)
(* method returned without an error or, for a call without Reply, that it  *)
(* was started.  A failure says nothing about the server: the method may   *)
(* have run, may be running, and may still be started.                     *)
(***************************************************************************)
CONSTANT Calls

VARIABLES
    stage,      \* at the caller: "new", "outstanding", "success" or "failure"
    execution,  \* at the server: "none", "running", "panicked", "nil" or "error"
    oneWay      \* the calls made without Reply

vars == <<stage, execution, oneWay>>

Outstanding == {r \in Calls : stage[r] = "outstanding"}

Init ==
    /\ stage = [r \in Calls |-> "new"]
    /\ execution = [r \in Calls |-> "none"]
    /\ oneWay = {}

Fails(S) == stage' = [q \in Calls |-> IF q \in S THEN "failure" ELSE stage[q]]

\* The call is written.
Make(r) ==
    /\ stage[r] = "new"
    /\ stage' = [stage EXCEPT ![r] = "outstanding"]
    /\ oneWay' \in {oneWay, oneWay \cup {r}}
    /\ UNCHANGED execution

\* It cannot be written, and takes the calls before it along.
MakeFails(r) ==
    /\ stage[r] = "new"
    /\ \E S \in SUBSET Outstanding : Fails(S \cup {r})
    /\ oneWay' \in {oneWay, oneWay \cup {r}}
    /\ UNCHANGED execution

\* An error of the method, of the codec or of the connection.
Fail(S) ==
    /\ S \subseteq Outstanding
    /\ Fails(S)
    /\ UNCHANGED <<execution, oneWay>>

Succeed(r) ==
    /\ stage[r] = "outstanding"
    /\ IF r \in oneWay THEN execution[r] # "none" ELSE execution[r] = "nil"
    /\ stage' = [stage EXCEPT ![r] = "success"]
    /\ UNCHANGED <<execution, oneWay>>

\* The server starts the method, also of a call that has failed.
Start(r) ==
    /\ stage[r] # "new"
    /\ execution[r] = "none"
    /\ execution' = [execution EXCEPT ![r] = "running"]
    /\ UNCHANGED <<stage, oneWay>>

Finish(r, result) ==
    /\ execution[r] = "running"
    /\ execution' = [execution EXCEPT ![r] = result]
    /\ UNCHANGED <<stage, oneWay>>

Next ==
    \/ \E r \in Calls : \/ Make(r) \/ MakeFails(r) \/ Succeed(r) \/ Start(r)
                        \/ \E result \in {"nil", "error", "panicked"} : Finish(r, result)
    \/ \E S \in SUBSET Calls : Fail(S)

Spec == Init /\ [][Next]_vars

=============================================================================
