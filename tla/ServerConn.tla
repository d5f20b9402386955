----------------------------- MODULE ServerConn -----------------------------
(***************************************************************************)
(* TServerConn (rpc/server_conn.go): one connection of a server.           *)
(* RoutineRun reads requests and starts a goroutine for each call,         *)
(* RoutineWriteResponse writes the responses that arrive on doneChan in    *)
(* groups, and pendingWg counts the requests that are not yet answered.    *)
(*                                                                         *)
(* The deadline of a read decides only when it fails, and here a read may  *)
(* fail at any time.  A section under sendingMutex is one step.  A call is *)
(* executed the same way by RoutineDoCall and by a dispatch function that  *)
(* takes it.                                                               *)
(***************************************************************************)
EXTENDS Integers, Sequences, FiniteSets

CONSTANTS
    Conns,          \* the TServerConn objects
    Reqs,           \* the requests clients send
    Kinds,          \* what a request may be, a subset of AllKinds
    Rets,           \* how a method may end: "nil", "error", "panic"
    DispatchFails,  \* the kinds of call for which dispatchFunc may fail
    MaxWaitResp,    \* capacity of doneChan
    UnitePackageNum,
    Nil

\* "call" and "dummy" are calls, "bad" has a header but an unknown method or a
\* body that cannot be decoded, "noname" is a bad one with an empty method.
AllKinds == {"call", "dummy", "ping", "bad", "noname"}

ASSUME ServerConnAssumption ==
    /\ Kinds \subseteq AllKinds
    /\ Rets \subseteq {"nil", "error", "panic"}
    /\ DispatchFails \subseteq {"call", "dummy"}
    /\ MaxWaitResp \in Nat \ {0}     \* an unbuffered doneChan is left out
    /\ UnitePackageNum \in Nat
    /\ Nil \notin Reqs \cup Conns \cup AllKinds
    /\ IsFiniteSet(Reqs)

VARIABLES
    \* RoutineRun
    runPc, current,
    exit,           \* what is left to do after the loop
    \* TServerConn
    chanOpen, doneChan, codecOpen, pendingWg,
    \* RoutineWriteResponse
    writePc,
    group,          \* groupResponse of each goroutine in doWriteResponse
    \* the requests that were read, and the goroutines that execute the calls
    kind, on, callPc, ret,
    answers,        \* history: the responses written for a request
    waited          \* history: the connections whose pendingWg.Wait() returned

runVars == <<runPc, current, exit, waited>>
chanVars == <<chanOpen, doneChan>>
writerVars == <<writePc, group>>
requestVars == <<kind, on, callPc, ret, answers>>
connVars == <<runVars, chanVars, codecOpen, pendingWg, writerVars, requestVars>>

Writers == {"run", "write"}
ExitSteps == {"chan", "codec", "leave"}
Responses == [noData : BOOLEAN, body : BOOLEAN]

ConnTypeOK ==
    /\ runPc \in [Conns -> {"off", "read", "collect", "dispatch", "reply",
                            "wait", "exit"}]
    /\ current \in [Conns -> Reqs \cup {Nil}]
    /\ \A c \in Conns : runPc[c] \in {"collect", "dispatch", "reply"} =>
          current[c] \in Reqs
    /\ exit \in [Conns -> Seq(ExitSteps)]
    /\ chanOpen \in [Conns -> BOOLEAN]
    /\ doneChan \in [Conns -> Seq(Reqs)]
    /\ codecOpen \in [Conns -> BOOLEAN]
    /\ pendingWg \in [Conns -> Int]
    /\ writePc \in [Conns -> {"off", "recv", "collect", "ended"}]
    /\ group \in [Conns -> [Writers -> SUBSET Reqs]]
    /\ kind \in [Reqs -> AllKinds \cup {Nil}]
    /\ on \in [Reqs -> Conns \cup {Nil}]
    /\ callPc \in [Reqs -> {"none", "refused", "running", "returned", "ended"}]
    /\ ret \in [Reqs -> {"nil", "error", "panic"}]
    /\ answers \in [Reqs -> Seq(Responses)]
    /\ waited \subseteq Conns

ConnInit ==
    /\ runPc = [c \in Conns |-> "off"]
    /\ current = [c \in Conns |-> Nil]
    /\ exit = [c \in Conns |-> <<>>]
    /\ chanOpen = [c \in Conns |-> TRUE]
    /\ doneChan = [c \in Conns |-> <<>>]
    /\ codecOpen = [c \in Conns |-> TRUE]
    /\ pendingWg = [c \in Conns |-> 0]
    /\ writePc = [c \in Conns |-> "off"]
    /\ group = [c \in Conns |-> [w \in Writers |-> {}]]
    /\ kind = [q \in Reqs |-> Nil]
    /\ on = [q \in Reqs |-> Nil]
    /\ callPc = [q \in Reqs |-> "none"]
    /\ ret = [q \in Reqs |-> "nil"]
    /\ answers = [q \in Reqs |-> <<>>]
    /\ waited = {}

-----------------------------------------------------------------------------
(* Leaving RoutineRun.                                                     *)

\* The loop ends with break: the channel and the codec are closed, then the
\* deferred OneServerConnStop runs.
Break(c) ==
    /\ runPc' = [runPc EXCEPT ![c] = "exit"]
    /\ exit' = [exit EXCEPT ![c] = <<"chan", "codec", "leave">>]

\* Mutant: OneServerConnStop is called at the end, and not deferred.
PanicInRunStays(c) ==
    /\ runPc' = [runPc EXCEPT ![c] = "exit"]
    /\ exit' = [exit EXCEPT ![c] = <<"chan", "codec">>]

\* It ends with a panic: the deferred functions run in the reverse order.
PanicInRun(c) ==
    /\ runPc' = [runPc EXCEPT ![c] = "exit"]
    /\ exit' = [exit EXCEPT ![c] = <<"leave", "chan", "codec">>]

\* Mutant: the channel is not closed.
CloseNoChan(c) ==
    /\ exit[c] # <<>> /\ Head(exit[c]) = "chan"
    /\ exit' = [exit EXCEPT ![c] = Tail(@)]
    /\ UNCHANGED <<runPc, current, waited, chanVars, codecOpen, pendingWg,
                   writerVars, requestVars>>

CloseDoneChan(c) ==
    /\ exit[c] # <<>> /\ Head(exit[c]) = "chan"
    /\ exit' = [exit EXCEPT ![c] = Tail(@)]
    /\ chanOpen' = [chanOpen EXCEPT ![c] = FALSE]
    /\ UNCHANGED <<runPc, current, waited, doneChan, codecOpen, pendingWg,
                   writerVars, requestVars>>

CloseCodec(c) ==
    /\ exit[c] # <<>> /\ Head(exit[c]) = "codec"
    /\ exit' = [exit EXCEPT ![c] = Tail(@)]
    /\ codecOpen' = [codecOpen EXCEPT ![c] = FALSE]
    /\ UNCHANGED <<runPc, current, waited, chanVars, pendingWg, writerVars,
                   requestVars>>

\* The step of OneServerConnStop.
LeaveStep(c) ==
    /\ exit[c] # <<>> /\ Head(exit[c]) = "leave"
    /\ exit' = [exit EXCEPT ![c] = Tail(@)]
    /\ UNCHANGED <<runPc, current, waited, chanVars, codecOpen, pendingWg,
                   writerVars, requestVars>>

-----------------------------------------------------------------------------
(* Writing responses.                                                      *)

\* The header of a call's response, and its body: SendGroupResponse writes the
\* reply whatever makeRespHeader says.  A dummy call is answered before it runs.
GroupResponse(q) == [noData |-> kind[q] = "call" /\ ret[q] = "error", body |-> TRUE]

\* Mutant: the reply is written for these as well.
EmptyResponseWithBody == [noData |-> TRUE, body |-> TRUE]

\* SendResponse is only called with a nil reply.
EmptyResponse == [noData |-> TRUE, body |-> FALSE]

\* WriteResponse and Flush of the responses in resp, a function on the requests
\* they answer.
Write(resp) ==
    answers' = [q \in Reqs |-> IF q \in DOMAIN resp THEN Append(answers[q], resp[q])
                                                    ELSE answers[q]]

\* n calls of pendingWg.Done(), up to the one that makes the counter negative
\* and panics.
Panics(c, n) == pendingWg[c] < n

\* Mutant: once for the whole group.
WgDoneOnce(c, n) == pendingWg' = [pendingWg EXCEPT ![c] = @ - 1]

WgDone(c, n) ==
    pendingWg' = [pendingWg EXCEPT ![c] = IF ~Panics(c, n) THEN @ - n
                                          ELSE IF @ < 0 THEN @ - 1 ELSE -1]

\* SendResponse, for a ping, a bad request or a call that was not dispatched.
Reply(c) ==
    /\ runPc[c] = "reply"
    /\ IF codecOpen[c] THEN Write([q \in {current[c]} |-> EmptyResponse]) ELSE UNCHANGED answers
    /\ WgDone(c, 1)
    /\ IF Panics(c, 1)
       THEN PanicInRun(c)
       ELSE runPc' = [runPc EXCEPT ![c] = "read"] /\ UNCHANGED exit
    /\ UNCHANGED <<current, waited, chanVars, codecOpen, writerVars, kind, on,
                   callPc, ret>>

Collecting(c, w) == IF w = "run" THEN runPc[c] = "collect" ELSE writePc[c] = "collect"

\* doWriteResponse takes what else is on doneChan ...
Collect(c, w) ==
    /\ Collecting(c, w)
    /\ Cardinality(group[c][w]) <= UnitePackageNum
    /\ doneChan[c] # <<>>
    /\ group' = [group EXCEPT ![c][w] = @ \cup {Head(doneChan[c])}]
    /\ doneChan' = [doneChan EXCEPT ![c] = Tail(@)]
    /\ UNCHANGED <<runVars, chanOpen, codecOpen, pendingWg, writePc, requestVars>>

\* ... gives up all it has when the channel turns out to be closed ...
CollectClosed(c) ==
    /\ writePc[c] = "collect"
    /\ Cardinality(group[c]["write"]) <= UnitePackageNum
    /\ doneChan[c] = <<>> /\ ~chanOpen[c]
    /\ group' = [group EXCEPT ![c]["write"] = {}]
    /\ writePc' = [writePc EXCEPT ![c] = "ended"]
    /\ UNCHANGED <<runVars, chanVars, codecOpen, pendingWg, requestVars>>

\* ... or sends it when there is no more, or enough.  A reply that cannot be
\* encoded closes the codec, and what comes after it is not written.
SendGroup(c, w) ==
    /\ Collecting(c, w)
    /\ \/ Cardinality(group[c][w]) > UnitePackageNum
       \/ doneChan[c] = <<>> /\ chanOpen[c]
    /\ \/ /\ codecOpen[c]
          /\ Write([q \in group[c][w] |-> GroupResponse(q)])
          /\ UNCHANGED codecOpen
       \/ /\ codecOpen[c]
          /\ \E S \in SUBSET group[c][w] :
                /\ S # group[c][w]
                /\ Write([q \in S |-> GroupResponse(q)])
          /\ codecOpen' = [codecOpen EXCEPT ![c] = FALSE]
       \/ /\ ~codecOpen[c]
          /\ UNCHANGED <<answers, codecOpen>>

\* The end of SendGroupResponse, and what its caller does next.
WriteGroup(c, w) ==
    LET n == Cardinality(group[c][w])
    IN  /\ SendGroup(c, w)
        /\ WgDone(c, n)
        /\ group' = [group EXCEPT ![c][w] = {}]
        /\ \/ /\ w = "run"
              /\ IF Panics(c, n)
                 THEN PanicInRun(c)
                 ELSE runPc' = [runPc EXCEPT ![c] = "dispatch"] /\ UNCHANGED exit
              /\ UNCHANGED writePc
           \/ /\ w = "write"
              /\ writePc' = [writePc EXCEPT ![c] =
                                IF Panics(c, n) THEN "ended" ELSE "recv"]
              /\ UNCHANGED <<runPc, exit>>
        /\ UNCHANGED <<current, waited, chanVars, kind, on, callPc, ret>>

\* The select of RoutineWriteResponse.
Recv(c) ==
    /\ writePc[c] = "recv"
    /\ doneChan[c] # <<>>
    /\ group' = [group EXCEPT ![c]["write"] = {Head(doneChan[c])}]
    /\ doneChan' = [doneChan EXCEPT ![c] = Tail(@)]
    /\ writePc' = [writePc EXCEPT ![c] = "collect"]
    /\ UNCHANGED <<runVars, chanOpen, codecOpen, pendingWg, requestVars>>

RecvClosed(c) ==
    /\ writePc[c] = "recv"
    /\ doneChan[c] = <<>> /\ ~chanOpen[c]
    /\ writePc' = [writePc EXCEPT ![c] = "ended"]
    /\ UNCHANGED <<runVars, chanVars, codecOpen, pendingWg, group, requestVars>>

RoutineWriteResponse(c) ==
    Recv(c) \/ RecvClosed(c) \/ Collect(c, "write") \/ CollectClosed(c)
            \/ WriteGroup(c, "write")

-----------------------------------------------------------------------------
(* RoutineRun.                                                             *)

\* TServerConn.Start.
StartConn(c) ==
    /\ runPc' = [runPc EXCEPT ![c] = "read"]
    /\ writePc' = [writePc EXCEPT ![c] = "recv"]
    /\ UNCHANGED <<current, exit, waited, chanVars, codecOpen, pendingWg, group,
                   requestVars>>

\* A read fails, or ends without a header, while the server runs.  The request
\* that was not read is counted.
ReadFails(c) ==
    /\ runPc[c] = "read"
    /\ pendingWg' = [pendingWg EXCEPT ![c] = @ + 1]
    /\ Break(c)
    /\ UNCHANGED <<current, waited, chanVars, codecOpen, writerVars, requestVars>>

\* Where RoutineRun goes with a request.  One without a name gets no response
\* and is never taken off pendingWg.
AfterRead == [call |-> "dispatch", dummy |-> "collect", ping |-> "reply",
              bad |-> "reply", noname |-> "read"]

\* ReadRequest returns a request while the server runs.
ReadRequest(c, q, k) ==
    /\ runPc[c] = "read"
    /\ kind[q] = Nil
    /\ pendingWg' = [pendingWg EXCEPT ![c] = @ + 1]
    /\ kind' = [kind EXCEPT ![q] = k]
    /\ on' = [on EXCEPT ![q] = c]
    /\ current' = [current EXCEPT ![c] = q]
    /\ runPc' = [runPc EXCEPT ![c] = AfterRead[k]]
    /\ group' = IF k = "dummy" THEN [group EXCEPT ![c]["run"] = {q}] ELSE group
    /\ UNCHANGED <<exit, waited, chanVars, codecOpen, writePc, callPc, ret, answers>>

\* A read returns, whatever it brings, when the server no longer runs.
ReadStopping(c) ==
    /\ runPc[c] = "read"
    /\ runPc' = [runPc EXCEPT ![c] = "wait"]
    /\ UNCHANGED <<current, exit, waited, chanVars, codecOpen, pendingWg,
                   writerVars, requestVars>>

\* Mutant: the wait is left out.
WaitNot(c) ==
    /\ runPc[c] = "wait"
    /\ waited' = waited \cup {c}
    /\ Break(c)
    /\ UNCHANGED <<current, chanVars, codecOpen, pendingWg, writerVars, requestVars>>

\* pendingWg.Wait().
Wait(c) ==
    /\ runPc[c] = "wait"
    /\ pendingWg[c] = 0
    /\ waited' = waited \cup {c}
    /\ Break(c)
    /\ UNCHANGED <<current, chanVars, codecOpen, pendingWg, writerVars, requestVars>>

\* dispatchRequest, and the goroutine that executes the call.
Dispatch(c) ==
    /\ runPc[c] = "dispatch"
    /\ runPc' = [runPc EXCEPT ![c] = "read"]
    /\ callPc' = [callPc EXCEPT ![current[c]] = "running"]
    /\ UNCHANGED <<current, exit, waited, chanVars, codecOpen, pendingWg,
                   writerVars, kind, on, ret, answers>>

\* dispatchFunc returns an error and has not taken the call.
DispatchError(c) ==
    /\ runPc[c] = "dispatch"
    /\ kind[current[c]] \in DispatchFails
    /\ runPc' = [runPc EXCEPT ![c] = "reply"]
    /\ callPc' = [callPc EXCEPT ![current[c]] = "refused"]
    /\ UNCHANGED <<current, exit, waited, chanVars, codecOpen, pendingWg,
                   writerVars, kind, on, ret, answers>>

-----------------------------------------------------------------------------
(* The goroutine of a call.                                                *)

\* A panic is recovered, and nothing is sent on doneChan.
MethodReturns(q, r) ==
    /\ callPc[q] = "running"
    /\ r \in Rets
    /\ ret' = [ret EXCEPT ![q] = r]
    /\ callPc' = [callPc EXCEPT ![q] = IF r = "panic" THEN "ended" ELSE "returned"]
    /\ UNCHANGED <<runVars, chanVars, codecOpen, pendingWg, writerVars, kind, on,
                   answers>>

\* Mutant: dummy calls have a Done channel, too.
WhenDummyCallDone(q) ==
    LET c == on[q]
    IN  /\ callPc[q] = "returned"
        /\ \/ ~chanOpen[c] /\ UNCHANGED doneChan
           \/ /\ chanOpen[c]
              /\ Len(doneChan[c]) < MaxWaitResp
              /\ doneChan' = [doneChan EXCEPT ![c] = Append(@, q)]
        /\ callPc' = [callPc EXCEPT ![q] = "ended"]
        /\ UNCHANGED <<runVars, chanOpen, codecOpen, pendingWg, writerVars, kind,
                       on, ret, answers>>

\* WhenFuncCallDone.  The send blocks while the channel is full, and panics,
\* with a recover around it, when the channel is closed.
WhenFuncCallDone(q) ==
    LET c == on[q]
    IN  /\ callPc[q] = "returned"
        /\ \/ /\ kind[q] = "dummy" \/ ~chanOpen[c]
              /\ UNCHANGED doneChan
           \/ /\ kind[q] = "call" /\ chanOpen[c]
              /\ Len(doneChan[c]) < MaxWaitResp
              /\ doneChan' = [doneChan EXCEPT ![c] = Append(@, q)]
        /\ callPc' = [callPc EXCEPT ![q] = "ended"]
        /\ UNCHANGED <<runVars, chanOpen, codecOpen, pendingWg, writerVars, kind,
                       on, ret, answers>>

RoutineDoCall(q) == (\E r \in Rets : MethodReturns(q, r)) \/ WhenFuncCallDone(q)

=============================================================================
