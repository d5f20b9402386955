------------------------------ MODULE RpcCall -------------------------------
(***************************************************************************)
(* What a caller of SyncCall or AsyncCall may rely on, with connections,   *)
(* goroutines, channels and the pool left out: an invocation is            *)
(* outstanding until it is reported, with its reply or with an error; it   *)
(* is reported once; and its caller is handed exactly what was reported.   *)
(*                                                                         *)
(* The code breaks the promise in one way, a second report of the same     *)
(* invocation, which pools its TCall twice.  From then on nothing is       *)
(* promised to anybody: sound is FALSE.                                    *)
(***************************************************************************)
CONSTANT Reqs       \* the invocations

VARIABLES
    stage,      \* "new", "outstanding", "reported" or "returned"
    outcome,    \* what was reported: "none" yet, "reply" or "error"
    handed,     \* what the caller was handed, in the same terms
    sound       \* no invocation was reported twice

vars == <<stage, outcome, handed, sound>>

Outcomes == {"reply", "error"}

Init ==
    /\ stage = [r \in Reqs |-> "new"]
    /\ outcome = [r \in Reqs |-> "none"]
    /\ handed = [r \in Reqs |-> "none"]
    /\ sound = TRUE

\* SyncCall or AsyncCall begins.
Invoke(r) ==
    /\ stage[r] = "new"
    /\ stage' = [stage EXCEPT ![r] = "outstanding"]
    /\ UNCHANGED <<outcome, handed, sound>>

\* WhenCallDone.
Report(r) ==
    /\ stage[r] = "outstanding"
    /\ stage' = [stage EXCEPT ![r] = "reported"]
    /\ \E o \in Outcomes : outcome' = [outcome EXCEPT ![r] = o]
    /\ UNCHANGED <<handed, sound>>

\* The caller receives the call from its Done channel and reads Error.
Return(r) ==
    /\ stage[r] = "reported"
    /\ stage' = [stage EXCEPT ![r] = "returned"]
    /\ handed' = [handed EXCEPT ![r] = outcome[r]]
    /\ UNCHANGED <<outcome, sound>>

\* WhenCallDone for an invocation that was reported already.
ReportAgain(r) ==
    /\ stage[r] \in {"reported", "returned"}
    /\ sound' = FALSE

Unsound == ~sound /\ ~sound'

Next ==
    \/ sound /\ \E r \in Reqs : Invoke(r) \/ Report(r) \/ Return(r) \/ ReportAgain(r)
    \/ Unsound

Spec == Init /\ [][Next]_vars

=============================================================================
