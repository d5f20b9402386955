---------------------------- MODULE ServerProofs ----------------------------
(***************************************************************************)
(* Theorems about Server: its type invariant, the list of connections, who *)
(* may answer a request and how often, and what a graceful close leaves    *)
(* unanswered.                                                             *)
(***************************************************************************)
EXTENDS Server, FiniteSetTheorems, TLAPS

-----------------------------------------------------------------------------
(* What the steps that write do to answers.                                *)

\* A response is a header and perhaps a body.
LEMMA ResponseTypes ==
  /\ EmptyResponse \in Responses
  /\ \A q : GroupResponse(q) \in Responses
BY DEF EmptyResponse, GroupResponse, Responses

\* A reply of the run loop appends to the current request, or does nothing.
LEMMA ReplyAnswers ==
  ASSUME TypeOK, NEW c \in Conns, Reply(c)
  PROVE  /\ current[c] \in Reqs
         /\ answers' \in [Reqs -> Seq(Responses)]
         /\ \A q \in Reqs :
               answers'[q] = IF codecOpen[c] /\ q = current[c]
                             THEN Append(answers[q], EmptyResponse) ELSE answers[q]
<1>1. current[c] \in Reqs /\ answers \in [Reqs -> Seq(Responses)]
  BY DEF TypeOK, ConnTypeOK, Reply
<1>2. \/ codecOpen[c] /\ Write([q \in {current[c]} |-> EmptyResponse])
      \/ ~codecOpen[c] /\ answers' = answers
  BY DEF Reply
<1>3. CASE codecOpen[c] /\ Write([q \in {current[c]} |-> EmptyResponse])
  <2>1. answers' = [q \in Reqs |-> IF q \in {current[c]} THEN Append(answers[q], EmptyResponse)
                                                         ELSE answers[q]]
    BY <1>3 DEF Write
  <2> QED
    BY <1>1, <1>3, <2>1, ResponseTypes
<1> QED
  BY <1>1, <1>2, <1>3

\* A group is answered, or a part of it, and then the codec is closed.
LEMMA GroupAnswers ==
  ASSUME TypeOK, NEW c \in Conns, NEW w \in Writers, WriteGroup(c, w)
  PROVE  /\ answers' \in [Reqs -> Seq(Responses)]
         /\ codecOpen' \in [Conns -> BOOLEAN]
         /\ \A d \in Conns : codecOpen'[d] => codecOpen[d]
         /\ \A d \in Conns : d # c => codecOpen'[d] = codecOpen[d]
         /\ \E S \in SUBSET group[c][w] :
               /\ codecOpen'[c] => S = group[c][w]
               /\ \A q \in Reqs :
                     answers'[q] = IF q \in S THEN Append(answers[q], GroupResponse(q))
                                              ELSE answers[q]
<1>1. /\ answers \in [Reqs -> Seq(Responses)] /\ codecOpen \in [Conns -> BOOLEAN]
      /\ group[c][w] \in SUBSET Reqs
  BY DEF TypeOK, ConnTypeOK
<1>2. ASSUME NEW S \in SUBSET group[c][w], Write([q \in S |-> GroupResponse(q)])
      PROVE  /\ answers' \in [Reqs -> Seq(Responses)]
             /\ \A q \in Reqs :
                   answers'[q] = IF q \in S THEN Append(answers[q], GroupResponse(q))
                                            ELSE answers[q]
  <2>1. answers' = [q \in Reqs |-> IF q \in S THEN Append(answers[q], GroupResponse(q))
                                              ELSE answers[q]]
    BY <1>2 DEF Write
  <2> QED
    BY <1>1, <2>1, ResponseTypes
<1>3. \/ Write([q \in group[c][w] |-> GroupResponse(q)]) /\ codecOpen' = codecOpen
      \/ /\ \E S \in SUBSET group[c][w] : Write([q \in S |-> GroupResponse(q)])
         /\ codecOpen' = [codecOpen EXCEPT ![c] = FALSE]
      \/ ~codecOpen[c] /\ answers' = answers /\ codecOpen' = codecOpen
  BY DEF WriteGroup, SendGroup
<1>4. CASE Write([q \in group[c][w] |-> GroupResponse(q)]) /\ codecOpen' = codecOpen
  <2>1. group[c][w] \in SUBSET group[c][w]
    OBVIOUS
  <2>2. /\ answers' \in [Reqs -> Seq(Responses)]
        /\ \A q \in Reqs :
              answers'[q] = IF q \in group[c][w] THEN Append(answers[q], GroupResponse(q))
                                                ELSE answers[q]
    BY <1>2, <1>4, <2>1
  <2> QED
    BY <1>1, <1>4, <2>1, <2>2
<1>5. CASE /\ \E S \in SUBSET group[c][w] : Write([q \in S |-> GroupResponse(q)])
           /\ codecOpen' = [codecOpen EXCEPT ![c] = FALSE]
  BY <1>1, <1>2, <1>5
<1>6. CASE ~codecOpen[c] /\ answers' = answers /\ codecOpen' = codecOpen
  <2>1. \A q \in Reqs : answers'[q] = IF q \in {} THEN Append(answers[q], GroupResponse(q))
                                                  ELSE answers[q]
    BY <1>6
  <2>2. \E S \in SUBSET group[c][w] :
           /\ codecOpen'[c] => S = group[c][w]
           /\ \A q \in Reqs :
                 answers'[q] = IF q \in S THEN Append(answers[q], GroupResponse(q))
                                          ELSE answers[q]
    <3> WITNESS {} \in SUBSET group[c][w]
    <3> QED
      BY <1>6, <2>1
  <2>3. /\ answers' \in [Reqs -> Seq(Responses)]
        /\ codecOpen' \in [Conns -> BOOLEAN]
        /\ \A d \in Conns : codecOpen'[d] = codecOpen[d]
    BY <1>1, <1>6
  <2> QED
    BY <2>2, <2>3
<1> QED
  BY <1>3, <1>4, <1>5, <1>6

-----------------------------------------------------------------------------
(* The type invariant.                                                     *)

LEMMA InitTypeOK == Init => TypeOK
<1> SUFFICES ASSUME Init PROVE TypeOK
  OBVIOUS
<1>1. ConnTypeOK
  BY DEF Init, ConnInit, ConnTypeOK, Writers, ExitSteps
<1> QED
  BY <1>1 DEF Init, TypeOK

\* What the goroutines in Start and Stop keep.
LEMMA ServerTypeOK == TypeOK /\ (StartRoutine \/ StopRoutine) => TypeOK'
<1> SUFFICES ASSUME TypeOK, StartRoutine \/ StopRoutine PROVE TypeOK'
  OBVIOUS
<1>1. CASE Start \/ AcceptFails \/ Sleep \/ ListConn
  BY <1>1 DEF Start, AcceptFails, AcceptError, Sleep, ListConn, TypeOK, ConnTypeOK,
              connVars, runVars, chanVars, writerVars, requestVars
<1>2. ASSUME NEW c \in Conns, Accept(c) PROVE TypeOK'
  BY <1>2 DEF Accept, TypeOK, ConnTypeOK,
              connVars, runVars, chanVars, writerVars, requestVars
<1>3. CASE Serve
  <2>1. accepted \in Conns
    BY <1>3 DEF Serve, TypeOK
  <2>2. ConnTypeOK'
    BY <1>3, <2>1 DEF Serve, StartConn, TypeOK, ConnTypeOK, chanVars, requestVars
  <2> QED
    BY <1>3, <2>2 DEF Serve, TypeOK
<1>4. CASE StopRoutine
  BY <1>4 DEF StopRoutine, Stop, CloseListener, StopConns, TypeOK, ConnTypeOK,
              connVars, runVars, chanVars, writerVars, requestVars
<1> QED
  BY <1>1, <1>2, <1>3, <1>4 DEF StartRoutine

\* What is left to do after the loop has its type.
LEMMA ExitTypes ==
  /\ <<"chan", "codec", "leave">> \in Seq(ExitSteps)
  /\ <<"leave", "chan", "codec">> \in Seq(ExitSteps)
BY DEF ExitSteps

LEMMA BreakTypes ==
  ASSUME ConnTypeOK, NEW c \in Conns, Break(c) \/ PanicInRun(c)
  PROVE  /\ runPc' = [runPc EXCEPT ![c] = "exit"]
         /\ exit' \in [Conns -> Seq(ExitSteps)]
<1>1. exit \in [Conns -> Seq(ExitSteps)]
  BY DEF ConnTypeOK
<1>2. CASE Break(c)
  BY <1>1, <1>2, ExitTypes DEF Break
<1>3. CASE PanicInRun(c)
  BY <1>1, <1>3, ExitTypes DEF PanicInRun
<1> QED
  BY <1>2, <1>3

LEMMA WgTypes ==
  ASSUME ConnTypeOK, NEW c \in Conns, NEW n \in Nat, WgDone(c, n)
  PROVE  pendingWg' \in [Conns -> Int]
<1>1. pendingWg \in [Conns -> Int]
  BY DEF ConnTypeOK
<1> DEFINE k == IF ~(pendingWg[c] < n) THEN pendingWg[c] - n
                ELSE IF pendingWg[c] < 0 THEN pendingWg[c] - 1 ELSE -1
<1>2. k \in Int
  BY <1>1
<1>3. pendingWg' = [pendingWg EXCEPT ![c] = k]
  BY DEF WgDone, Panics
<1> HIDE DEF k
<1> QED
  BY <1>1, <1>2, <1>3

\* A group is a finite set.
LEMMA GroupFinite ==
  ASSUME TypeOK, NEW c \in Conns, NEW w \in Writers
  PROVE  IsFiniteSet(group[c][w]) /\ Cardinality(group[c][w]) \in Nat
<1>1. group[c][w] \in SUBSET Reqs
  BY DEF TypeOK, ConnTypeOK
<1> QED
  BY <1>1, FS_Subset, FS_CardinalityType, ServerConnAssumption

\* What the run loop keeps.
LEMMA RunTypeOK ==
  ASSUME TypeOK, NEW c \in Conns,
         \/ ReadReturns(c) \/ Wait(c) \/ Reply(c) \/ Dispatch(c) \/ DispatchError(c)
         \/ CloseDoneChan(c) \/ CloseCodec(c) \/ LeaveStep(c)
  PROVE  ConnTypeOK'
<1> USE DEF TypeOK, ConnTypeOK, runVars, chanVars, writerVars, requestVars
<1>1. CASE ReadFails(c)
  <2>1. exit' \in [Conns -> Seq(ExitSteps)] /\ runPc' = [runPc EXCEPT ![c] = "exit"]
    BY <1>1, BreakTypes DEF ReadFails
  <2> QED
    BY <1>1, <2>1 DEF ReadFails
<1>2. ASSUME NEW q \in Reqs, NEW k \in Kinds, ReadRequest(c, q, k) PROVE ConnTypeOK'
  <2>1. k \in AllKinds /\ AfterRead[k] \in {"dispatch", "collect", "reply", "read"}
    BY ServerConnAssumption DEF AllKinds, AfterRead
  <2>2. runPc' \in [Conns -> {"off", "read", "collect", "dispatch", "reply",
                              "wait", "exit"}]
    BY <1>2, <2>1 DEF ReadRequest
  <2>3. group' \in [Conns -> [Writers -> SUBSET Reqs]]
    BY <1>2 DEF ReadRequest
  <2>4. \A d \in Conns : runPc'[d] \in {"collect", "dispatch", "reply"} =>
           current'[d] \in Reqs
    BY <1>2 DEF ReadRequest
  <2>5. /\ kind' \in [Reqs -> AllKinds \cup {Nil}] /\ on' \in [Reqs -> Conns \cup {Nil}]
        /\ current' \in [Conns -> Reqs \cup {Nil}] /\ pendingWg' \in [Conns -> Int]
    BY <1>2, <2>1 DEF ReadRequest
  <2>6. UNCHANGED <<exit, waited, chanOpen, doneChan, codecOpen, writePc, callPc, ret,
                    answers>>
    BY <1>2 DEF ReadRequest
  <2>7. /\ exit' \in [Conns -> Seq(ExitSteps)] /\ waited' \subseteq Conns
        /\ chanOpen' \in [Conns -> BOOLEAN] /\ doneChan' \in [Conns -> Seq(Reqs)]
        /\ codecOpen' \in [Conns -> BOOLEAN]
        /\ writePc' \in [Conns -> {"off", "recv", "collect", "ended"}]
        /\ callPc' \in [Reqs -> {"none", "refused", "running", "returned", "ended"}]
        /\ ret' \in [Reqs -> {"nil", "error", "panic"}]
        /\ answers' \in [Reqs -> Seq(Responses)]
    BY <2>6
  <2> QED
    BY <2>2, <2>3, <2>4, <2>5, <2>7
<1>3. CASE ReadStopping(c)
  BY <1>3 DEF ReadStopping
<1>4. CASE Wait(c)
  <2>1. exit' \in [Conns -> Seq(ExitSteps)] /\ runPc' = [runPc EXCEPT ![c] = "exit"]
    BY <1>4, BreakTypes DEF Wait
  <2> QED
    BY <1>4, <2>1 DEF Wait
<1>5. CASE Reply(c)
  <2>1. answers' \in [Reqs -> Seq(Responses)]
    BY <1>5, ReplyAnswers
  <2>2. pendingWg' \in [Conns -> Int]
    BY <1>5, WgTypes DEF Reply
  <2>3. /\ exit' \in [Conns -> Seq(ExitSteps)]
        /\ runPc' = [runPc EXCEPT ![c] = "exit"] \/ runPc' = [runPc EXCEPT ![c] = "read"]
    BY <1>5, BreakTypes DEF Reply
  <2> QED
    BY <1>5, <2>1, <2>2, <2>3 DEF Reply
<1>6. CASE Dispatch(c)
  <2>1. current[c] \in Reqs
    BY <1>6 DEF Dispatch
  <2> QED
    BY <1>6, <2>1 DEF Dispatch
<1>7. CASE DispatchError(c)
  <2>1. current[c] \in Reqs
    BY <1>7 DEF DispatchError
  <2> QED
    BY <1>7, <2>1 DEF DispatchError
<1>8. CASE CloseDoneChan(c) \/ CloseCodec(c) \/ LeaveStep(c)
  <2>1. exit[c] \in Seq(ExitSteps) /\ exit[c] # <<>>
    BY <1>8 DEF CloseDoneChan, CloseCodec, LeaveStep
  <2>2. Tail(exit[c]) \in Seq(ExitSteps)
    BY <2>1
  <2>3. exit' = [exit EXCEPT ![c] = Tail(exit[c])]
    BY <1>8 DEF CloseDoneChan, CloseCodec, LeaveStep
  <2>4. exit' \in [Conns -> Seq(ExitSteps)]
    BY <2>2, <2>3
  <2> QED
    BY <1>8, <2>4 DEF CloseDoneChan, CloseCodec, LeaveStep
<1> QED
  BY <1>1, <1>2, <1>3, <1>4, <1>5, <1>6, <1>7, <1>8 DEF ReadReturns

\* What the writer keeps, and both that collect a group.
LEMMA WriterTypeOK ==
  ASSUME TypeOK, NEW c \in Conns, NEW w \in Writers,
         \/ Recv(c) \/ RecvClosed(c) \/ CollectClosed(c)
         \/ Collect(c, w) \/ WriteGroup(c, w)
  PROVE  ConnTypeOK'
<1> USE DEF TypeOK, ConnTypeOK, runVars, chanVars, writerVars, requestVars
<1>1. CASE RecvClosed(c)
  BY <1>1 DEF RecvClosed
<1>2. CASE CollectClosed(c)
  <2>1. group' \in [Conns -> [Writers -> SUBSET Reqs]]
    BY <1>2 DEF CollectClosed
  <2> QED
    BY <1>2, <2>1 DEF CollectClosed
<1>3. ASSUME doneChan[c] # <<>>, doneChan' = [doneChan EXCEPT ![c] = Tail(@)]
      PROVE  Head(doneChan[c]) \in Reqs /\ doneChan' \in [Conns -> Seq(Reqs)]
  <2>1. doneChan[c] \in Seq(Reqs)
    OBVIOUS
  <2>2. Head(doneChan[c]) \in Reqs /\ Tail(doneChan[c]) \in Seq(Reqs)
    BY <1>3, <2>1
  <2> QED
    BY <1>3, <2>2
<1>4. CASE Recv(c)
  <2>1. Head(doneChan[c]) \in Reqs /\ doneChan' \in [Conns -> Seq(Reqs)]
    BY <1>3, <1>4 DEF Recv
  <2>2. group' \in [Conns -> [Writers -> SUBSET Reqs]]
    BY <1>4, <2>1 DEF Recv
  <2> QED
    BY <1>4, <2>1, <2>2 DEF Recv
<1>5. CASE Collect(c, w)
  <2>1. Head(doneChan[c]) \in Reqs /\ doneChan' \in [Conns -> Seq(Reqs)]
    BY <1>3, <1>5 DEF Collect
  <2>2. group[c][w] \cup {Head(doneChan[c])} \in SUBSET Reqs
    BY <2>1
  <2>3. group' \in [Conns -> [Writers -> SUBSET Reqs]]
    BY <1>5, <2>2 DEF Collect
  <2> QED
    BY <1>5, <2>1, <2>3 DEF Collect
<1>6. CASE WriteGroup(c, w)
  <2>1. answers' \in [Reqs -> Seq(Responses)] /\ codecOpen' \in [Conns -> BOOLEAN]
    BY <1>6, GroupAnswers
  <2>2. pendingWg' \in [Conns -> Int]
    BY <1>6, WgTypes, GroupFinite DEF WriteGroup
  <2>3. group' \in [Conns -> [Writers -> SUBSET Reqs]]
    BY <1>6 DEF WriteGroup
  <2>4. /\ exit' \in [Conns -> Seq(ExitSteps)]
        /\ \/ runPc' = [runPc EXCEPT ![c] = "exit"] \/ runPc' = [runPc EXCEPT ![c] = "dispatch"]
           \/ runPc' = runPc
    BY <1>6, BreakTypes DEF WriteGroup
  <2>5. writePc' \in [Conns -> {"off", "recv", "collect", "ended"}]
    BY <1>6 DEF WriteGroup
  <2>6. \A d \in Conns : runPc'[d] \in {"collect", "dispatch", "reply"} =>
           current[d] \in Reqs
    <3>1. CASE w = "run"
      <4>1. runPc[c] = "collect"
        BY <1>6, <3>1 DEF WriteGroup, SendGroup, Collecting
      <4> QED
        BY <2>4, <4>1
    <3>2. CASE w # "run"
      <4>1. runPc' = runPc
        BY <1>6, <3>2 DEF WriteGroup
      <4> QED
        BY <4>1
    <3> QED
      BY <3>1, <3>2
  <2>7. runPc' \in [Conns -> {"off", "read", "collect", "dispatch", "reply",
                              "wait", "exit"}]
    BY <2>4
  <2>8. UNCHANGED <<current, waited, chanOpen, doneChan, kind, on, callPc, ret>>
    BY <1>6 DEF WriteGroup
  <2> QED
    BY <2>1, <2>2, <2>3, <2>4, <2>5, <2>6, <2>7, <2>8
<1> QED
  BY <1>1, <1>2, <1>4, <1>5, <1>6

\* What the goroutine of a call keeps.
LEMMA CallTypeOK ==
  ASSUME TypeOK, RequestInv, NEW q \in Reqs, RoutineDoCall(q)
  PROVE  ConnTypeOK'
<1> USE DEF TypeOK, ConnTypeOK, runVars, chanVars, writerVars, requestVars
<1>1. ASSUME NEW r \in Rets, MethodReturns(q, r) PROVE ConnTypeOK'
  <2>1. r \in {"nil", "error", "panic"}
    BY ServerConnAssumption
  <2> QED
    BY <1>1, <2>1 DEF MethodReturns
<1>2. CASE WhenFuncCallDone(q)
  <2>1. on[q] \in Conns
    BY <1>2, ServerConnAssumption DEF WhenFuncCallDone, RequestInv, AllKinds
  <2>2. Append(doneChan[on[q]], q) \in Seq(Reqs)
    BY <2>1
  <2>3. doneChan' \in [Conns -> Seq(Reqs)]
    BY <1>2, <2>1, <2>2 DEF WhenFuncCallDone
  <2> QED
    BY <1>2, <2>3 DEF WhenFuncCallDone
<1> QED
  BY <1>1, <1>2 DEF RoutineDoCall

LEMMA TypeStep == TypeOK /\ RequestInv /\ [Next]_vars => TypeOK'
<1> SUFFICES ASSUME TypeOK, RequestInv, [Next]_vars PROVE TypeOK'
  OBVIOUS
<1>1. CASE StartRoutine \/ StopRoutine
  BY <1>1, ServerTypeOK
<1>2. ASSUME ConnTypeOK', UNCHANGED serverVars PROVE TypeOK'
  BY <1>2 DEF TypeOK, serverVars
<1>3. ASSUME NEW c \in Conns, RoutineRun(c) PROVE TypeOK'
  <2>1. ConnTypeOK'
    BY <1>3, RunTypeOK, WriterTypeOK DEF RoutineRun, OneServerConnStop, Writers
  <2>2. CASE OneServerConnStop(c)
    BY <2>1, <2>2 DEF OneServerConnStop, TypeOK
  <2> QED
    BY <1>2, <1>3, <2>1, <2>2 DEF RoutineRun
<1>4. ASSUME NEW c \in Conns, RoutineWriteResponse(c), UNCHANGED serverVars PROVE TypeOK'
  <2>1. ConnTypeOK'
    BY <1>4, WriterTypeOK DEF RoutineWriteResponse, Writers
  <2> QED
    BY <1>2, <1>4, <2>1
<1>5. ASSUME NEW q \in Reqs, RoutineDoCall(q), UNCHANGED serverVars PROVE TypeOK'
  BY <1>2, <1>5, CallTypeOK
<1>6. CASE UNCHANGED vars
  BY <1>6 DEF vars, serverVars, connVars, TypeOK, ConnTypeOK,
              runVars, chanVars, writerVars, requestVars
<1> QED
  BY <1>1, <1>3, <1>4, <1>5, <1>6 DEF Next, Conn

-----------------------------------------------------------------------------
(* The list of connections.                                                *)

LEMMA InitListInv == Init => ListInv
BY DEF Init, ConnInit, ListInv, ListedWhileRunning, ExitShapes

\* Those that leave nothing to do on the list.
NoLeave == {<<>>, <<"chan", "codec">>, <<"codec">>}

LEMMA ShapesLeave ==
  \A e \in ExitShapes : (\A i \in 1 .. Len(e) : e[i] # "leave") <=> e \in NoLeave
<1> SUFFICES ASSUME NEW e \in ExitShapes
             PROVE  (\A i \in 1 .. Len(e) : e[i] # "leave") <=> e \in NoLeave
  OBVIOUS
<1>1. CASE e = <<"chan", "codec", "leave">>
  <2>1. Len(e) = 3 /\ e[3] = "leave"
    BY <1>1
  <2>2. e \notin NoLeave
    BY <1>1, <2>1 DEF NoLeave
  <2>3. 3 \in 1 .. Len(e)
    BY <2>1
  <2> QED
    BY <2>1, <2>2, <2>3
<1>2. CASE e = <<"codec", "leave">>
  <2>1. Len(e) = 2 /\ e[2] = "leave"
    BY <1>2
  <2>2. e \notin NoLeave
    BY <1>2, <2>1 DEF NoLeave
  <2>3. 2 \in 1 .. Len(e)
    BY <2>1
  <2> QED
    BY <2>1, <2>2, <2>3
<1>3. CASE e \in {<<"leave">>, <<"leave", "chan", "codec">>}
  <2>1. Len(e) \in {1, 3} /\ e[1] = "leave"
    BY <1>3
  <2>2. e \notin NoLeave
    BY <1>3, <2>1 DEF NoLeave
  <2>3. 1 \in 1 .. Len(e)
    BY <2>1
  <2> QED
    BY <2>1, <2>2, <2>3
<1>4. CASE e \in NoLeave
  BY <1>4 DEF NoLeave
<1> QED
  BY <1>1, <1>2, <1>3, <1>4 DEF ExitShapes, NoLeave

\* A step of the way out leads to a shape.
LEMMA ShapeTails ==
  ASSUME NEW e \in ExitShapes, e # <<>>
  PROVE  /\ Tail(e) \in ExitShapes
         /\ Head(e) = "leave" => e \notin NoLeave /\ Tail(e) \in NoLeave
         /\ Head(e) # "leave" => (e \in NoLeave <=> Tail(e) \in NoLeave)
<1>1. CASE e = <<"chan", "codec", "leave">>
  <2>1. Head(e) = "chan" /\ Tail(e) = <<"codec", "leave">> /\ Len(e) = 3 /\ e[3] = "leave"
    BY <1>1
  <2>2. Len(Tail(e)) = 2 /\ Tail(e)[2] = "leave"
    BY <2>1
  <2> QED
    BY <2>1, <2>2 DEF ExitShapes, NoLeave
<1>2. CASE e = <<"codec", "leave">>
  <2>1. Head(e) = "codec" /\ Tail(e) = <<"leave">> /\ Len(e) = 2 /\ e[2] = "leave"
    BY <1>2
  <2>2. Len(Tail(e)) = 1 /\ Tail(e)[1] = "leave"
    BY <2>1
  <2> QED
    BY <2>1, <2>2 DEF ExitShapes, NoLeave
<1>3. CASE e = <<"leave">>
  <2>1. Head(e) = "leave" /\ Tail(e) = <<>> /\ Len(e) = 1 /\ e[1] = "leave"
    BY <1>3
  <2> QED
    BY <2>1 DEF ExitShapes, NoLeave
<1>4. CASE e = <<"leave", "chan", "codec">>
  <2>1. Head(e) = "leave" /\ Tail(e) = <<"chan", "codec">> /\ Len(e) = 3 /\ e[1] = "leave"
    BY <1>4
  <2> QED
    BY <2>1 DEF ExitShapes, NoLeave
<1>5. CASE e = <<"chan", "codec">>
  <2>1. Head(e) = "chan" /\ Tail(e) = <<"codec">>
    BY <1>5
  <2> QED
    BY <1>5, <2>1 DEF ExitShapes, NoLeave
<1>6. CASE e = <<"codec">>
  <2>1. Head(e) = "codec" /\ Tail(e) = <<>>
    BY <1>6
  <2> QED
    BY <1>6, <2>1 DEF ExitShapes, NoLeave
<1> QED
  BY <1>1, <1>2, <1>3, <1>4, <1>5, <1>6 DEF ExitShapes

\* ListedWhileRunning in these terms.
LEMMA LeftMeansNoLeave ==
  ASSUME NEW c \in Conns, exit[c] \in ExitShapes
  PROVE  HasLeft(c) <=> runPc[c] = "exit" /\ exit[c] \in NoLeave
BY ShapesLeave DEF HasLeft

Loops(c) == runPc[c] \notin {"off", "exit"}

\* How a connection's own steps move its run loop: on, out of the loop, or a step
\* further on the way out; the last one leaves the list.
LEMMA RunSteps ==
  ASSUME TypeOK, NEW c \in Conns,
         RoutineRun(c) \/ (RoutineWriteResponse(c) /\ UNCHANGED serverVars)
  PROVE  \/ UNCHANGED <<runPc, exit, serverVars>>
         \/ /\ Loops(c) /\ UNCHANGED <<exit, serverVars>>
            /\ \E p \in {"read", "collect", "dispatch", "reply", "wait"} :
                  runPc' = [runPc EXCEPT ![c] = p]
         \/ Loops(c) /\ (Break(c) \/ PanicInRun(c)) /\ UNCHANGED serverVars
         \/ /\ exit[c] # <<>> /\ Head(exit[c]) # "leave"
            /\ exit' = [exit EXCEPT ![c] = Tail(@)]
            /\ UNCHANGED <<runPc, serverVars>>
         \/ OneServerConnStop(c)
<1> USE DEF Loops
<1>1. CASE UNCHANGED serverVars /\ ReadReturns(c)
  <2>1. CASE ReadFails(c)
    BY <1>1, <2>1 DEF ReadFails
  <2>2. ASSUME NEW q \in Reqs, NEW k \in Kinds, ReadRequest(c, q, k)
        PROVE  /\ Loops(c) /\ UNCHANGED exit
               /\ \E p \in {"read", "collect", "dispatch", "reply", "wait"} :
                     runPc' = [runPc EXCEPT ![c] = p]
    <3>1. AfterRead[k] \in {"read", "collect", "dispatch", "reply"}
      BY ServerConnAssumption DEF AllKinds, AfterRead
    <3> QED
      BY <2>2, <3>1 DEF ReadRequest
  <2>3. CASE ReadStopping(c)
    BY <1>1, <2>3 DEF ReadStopping
  <2> QED
    BY <1>1, <2>1, <2>2, <2>3 DEF ReadReturns
<1>2. CASE UNCHANGED serverVars /\ Wait(c)
  BY <1>2 DEF Wait
<1>3. CASE UNCHANGED serverVars /\ Reply(c)
  BY <1>3 DEF Reply
<1>4. CASE UNCHANGED serverVars /\ (Dispatch(c) \/ DispatchError(c))
  BY <1>4 DEF Dispatch, DispatchError
<1>5. CASE UNCHANGED serverVars /\ (CloseDoneChan(c) \/ CloseCodec(c))
  BY <1>5 DEF CloseDoneChan, CloseCodec
<1>6. CASE UNCHANGED serverVars /\ WriteGroup(c, "run")
  <2>1. runPc[c] = "collect"
    BY <1>6 DEF WriteGroup, SendGroup, Collecting
  <2> QED
    BY <1>6, <2>1 DEF WriteGroup
<1>7. CASE UNCHANGED serverVars /\ WriteGroup(c, "write")
  BY <1>7 DEF WriteGroup
<1>8. CASE /\ UNCHANGED serverVars
           /\ \/ Collect(c, "run") \/ Collect(c, "write") \/ Recv(c) \/ RecvClosed(c)
              \/ CollectClosed(c)
  BY <1>8 DEF Collect, Recv, RecvClosed, CollectClosed, runVars
<1>9. CASE OneServerConnStop(c)
  BY <1>9
<1> QED
  BY <1>1, <1>2, <1>3, <1>4, <1>5, <1>6, <1>7, <1>8, <1>9
     DEF RoutineRun, RoutineWriteResponse

LEMMA BreakShapes ==
  ASSUME exit \in [Conns -> Seq(ExitSteps)], NEW c \in Conns, Break(c) \/ PanicInRun(c)
  PROVE  /\ \A d \in Conns : d # c => exit'[d] = exit[d]
         /\ exit'[c] \in ExitShapes \ NoLeave
<1>1. \/ exit'[c] = <<"chan", "codec", "leave">>
      \/ exit'[c] = <<"leave", "chan", "codec">>
  BY DEF Break, PanicInRun
<1>2. exit'[c] \in ExitShapes
  BY <1>1 DEF ExitShapes
<1>3. \E i \in 1 .. Len(exit'[c]) : exit'[c][i] = "leave"
  <2>1. CASE exit'[c] = <<"chan", "codec", "leave">>
    <3>1. Len(exit'[c]) = 3 /\ exit'[c][3] = "leave"
      BY <2>1
    <3> QED
      BY <3>1
  <2>2. CASE exit'[c] = <<"leave", "chan", "codec">>
    <3>1. Len(exit'[c]) = 3 /\ exit'[c][1] = "leave"
      BY <2>2
    <3> QED
      BY <3>1
  <2> QED
    BY <1>1, <2>1, <2>2
<1>4. exit'[c] \notin NoLeave
  BY <1>2, <1>3, ShapesLeave
<1>5. \A d \in Conns : d # c => exit'[d] = exit[d]
  BY DEF Break, PanicInRun
<1> QED
  BY <1>2, <1>4, <1>5

\* ListInv in terms of shapes.
ShapeInv ==
    /\ startPc \in {"list", "serve"} => runPc[accepted] = "off"
    /\ startPc = "serve" => accepted \in connList
    /\ \A c \in Conns :
          /\ exit[c] \in ExitShapes
          /\ runPc[c] # "exit" => exit[c] = <<>>
          /\ runPc[c] # "off" =>
                (c \in connList <=> ~(runPc[c] = "exit" /\ exit[c] \in NoLeave))

LEMMA ListInvIsShapeInv == ListInv <=> ShapeInv
<1>1. ListInv => ShapeInv
  BY LeftMeansNoLeave DEF ListInv, ListedWhileRunning, ShapeInv
<1>2. ShapeInv => ListInv
  BY LeftMeansNoLeave DEF ListInv, ListedWhileRunning, ShapeInv
<1> QED
  BY <1>1, <1>2

LEMMA ShapeStep == TypeOK /\ ShapeInv /\ [Next]_vars => ShapeInv'
<1> SUFFICES ASSUME TypeOK, ShapeInv, [Next]_vars PROVE ShapeInv'
  OBVIOUS
<1>1. /\ runPc \in [Conns -> {"off", "read", "collect", "dispatch", "reply", "wait", "exit"}]
      /\ exit \in [Conns -> Seq(ExitSteps)]
      /\ startPc \in {"list", "serve"} => accepted \in Conns
  BY DEF TypeOK, ConnTypeOK
<1>2. CASE StartRoutine
  <2>1. CASE Start \/ AcceptFails \/ Sleep
    BY <2>1 DEF Start, AcceptFails, Sleep, ShapeInv, connVars, runVars
  <2>2. ASSUME NEW c \in Conns, Accept(c) PROVE ShapeInv'
    BY <2>2 DEF Accept, ShapeInv, connVars, runVars
  <2>3. CASE ListConn
    BY <1>1, <2>3 DEF ListConn, ShapeInv, connVars, runVars
  <2>4. CASE Serve
    BY <1>1, <2>4 DEF Serve, StartConn, ShapeInv
  <2> QED
    BY <1>2, <2>1, <2>2, <2>3, <2>4 DEF StartRoutine
<1>3. CASE StopRoutine
  BY <1>3 DEF StopRoutine, Stop, CloseListener, StopConns, ShapeInv, connVars, runVars
<1>4. ASSUME NEW c \in Conns,
             RoutineRun(c) \/ (RoutineWriteResponse(c) /\ UNCHANGED serverVars)
      PROVE  ShapeInv'
  <2>1. CASE UNCHANGED <<runPc, exit, serverVars>>
    BY <2>1 DEF ShapeInv, serverVars
  <2>2. ASSUME NEW p \in {"read", "collect", "dispatch", "reply", "wait"},
               Loops(c), runPc' = [runPc EXCEPT ![c] = p], UNCHANGED <<exit, serverVars>>
        PROVE  ShapeInv'
    BY <1>1, <2>2 DEF Loops, ShapeInv, serverVars
  <2>3. CASE Loops(c) /\ (Break(c) \/ PanicInRun(c)) /\ UNCHANGED serverVars
    <3>1. runPc' = [runPc EXCEPT ![c] = "exit"]
      BY <2>3 DEF Break, PanicInRun
    <3>2. \A d \in Conns : d # c => exit'[d] = exit[d]
      BY <1>1, <2>3, BreakShapes
    <3>3. exit'[c] \in ExitShapes /\ exit'[c] \notin NoLeave
      BY <1>1, <2>3, BreakShapes
    <3> QED
      BY <1>1, <2>3, <3>1, <3>2, <3>3 DEF Loops, ShapeInv, serverVars
  <2>4. ASSUME exit[c] # <<>>, exit' = [exit EXCEPT ![c] = Tail(@)]
        PROVE  /\ \A d \in Conns : d # c => exit'[d] = exit[d]
               /\ runPc[c] = "exit" /\ exit[c] \in ExitShapes
               /\ exit'[c] = Tail(exit[c])
    BY <1>1, <2>4 DEF ShapeInv
  <2>5. CASE /\ exit[c] # <<>> /\ Head(exit[c]) # "leave"
             /\ exit' = [exit EXCEPT ![c] = Tail(@)]
             /\ UNCHANGED <<runPc, serverVars>>
    <3>1. exit'[c] \in ExitShapes /\ (exit[c] \in NoLeave <=> exit'[c] \in NoLeave)
      BY <2>4, <2>5, ShapeTails
    <3> QED
      BY <1>1, <2>4, <2>5, <3>1 DEF ShapeInv, serverVars
  <2>6. CASE OneServerConnStop(c)
    <3>1. /\ exit[c] # <<>> /\ Head(exit[c]) = "leave"
          /\ exit' = [exit EXCEPT ![c] = Tail(@)]
          /\ connList' = connList \ {c}
          /\ UNCHANGED <<runPc, startPc, accepted>>
      BY <2>6 DEF OneServerConnStop, LeaveStep
    <3>2. exit'[c] \in ExitShapes /\ exit'[c] \in NoLeave
      BY <2>4, <3>1, ShapeTails
    <3>3. startPc = "serve" => accepted # c
      BY <2>4, <3>1 DEF ShapeInv
    <3> QED
      BY <1>1, <2>4, <3>1, <3>2, <3>3 DEF ShapeInv
  <2> QED
    BY <1>4, <2>1, <2>2, <2>3, <2>5, <2>6, RunSteps
<1>5. ASSUME NEW q \in Reqs, RoutineDoCall(q), UNCHANGED serverVars PROVE ShapeInv'
  BY <1>5 DEF RoutineDoCall, MethodReturns, WhenFuncCallDone, runVars, serverVars, ShapeInv
<1>6. CASE UNCHANGED vars
  BY <1>6 DEF vars, serverVars, connVars, runVars, ShapeInv
<1> QED
  BY <1>2, <1>3, <1>4, <1>5, <1>6 DEF Next, Conn

LEMMA ListStep == TypeOK /\ ListInv /\ [Next]_vars => ListInv'
<1>1. ListInv' <=> ShapeInv'
  BY ListInvIsShapeInv, PTL
<1> QED
  BY <1>1, ListInvIsShapeInv, ShapeStep

-----------------------------------------------------------------------------
(* Who answers a request, and how often.                                   *)

LEMMA InitAnswerInv == Init => AnswerInv
BY ServerConnAssumption
   DEF Init, ConnInit, AnswerInv, RequestInv, FramingInv, AnsweredOnce, ChanInv,
       GroupInv, CurrentInv, Writers, AllKinds

\* The steps that neither answer a request nor move it.
LEMMA QuietKeeps ==
  ASSUME AnswerInv,
         UNCHANGED <<current, doneChan, group, kind, on, callPc, ret, answers>>,
         \A c \in Conns : \/ runPc'[c] = runPc[c]
                          \/ /\ runPc[c] \in {"off", "read", "wait"}
                             /\ runPc'[c] \in {"read", "wait", "exit"},
         \A c \in Conns : \/ writePc'[c] = writePc[c]
                          \/ /\ writePc[c] # "collect"
                             /\ runPc'[c] # "off"
  PROVE  AnswerInv'
<1>1. RequestInv' /\ FramingInv' /\ AnsweredOnce'
  BY DEF AnswerInv, RequestInv, FramingInv, AnsweredOnce, Refused
<1>2. ChanInv'
  BY DEF AnswerInv, ChanInv, AwaitsWriter
<1>3. GroupInv'
  BY DEF AnswerInv, GroupInv, AwaitsWriter, AnsweredFirst
<1>4. CurrentInv'
  BY DEF AnswerInv, CurrentInv, AnsweredFirst
<1> QED
  BY <1>1, <1>2, <1>3, <1>4 DEF AnswerInv

LEMMA ServerAnswerInv ==
  ASSUME TypeOK, ListInv, AnswerInv, StartRoutine \/ StopRoutine
  PROVE  AnswerInv'
<1>1. CASE Serve
  <2>1. accepted \in Conns /\ runPc[accepted] = "off"
    BY <1>1 DEF Serve, TypeOK, ListInv
  <2>2. writePc[accepted] = "off"
    BY <2>1 DEF AnswerInv, GroupInv
  <2>3. /\ runPc' = [runPc EXCEPT ![accepted] = "read"]
        /\ writePc' = [writePc EXCEPT ![accepted] = "recv"]
        /\ runPc \in [Conns -> {"off", "read", "collect", "dispatch", "reply", "wait", "exit"}]
        /\ writePc \in [Conns -> {"off", "recv", "collect", "ended"}]
        /\ UNCHANGED <<current, doneChan, group, kind, on, callPc, ret, answers>>
    BY <1>1 DEF Serve, StartConn, chanVars, requestVars, TypeOK, ConnTypeOK
  <2>4. \A c \in Conns : \/ runPc'[c] = runPc[c]
                         \/ runPc[c] \in {"off", "read", "wait"} /\ runPc'[c] \in {"read", "wait", "exit"}
    BY <2>1, <2>3
  <2>5. \A c \in Conns : \/ writePc'[c] = writePc[c]
                         \/ writePc[c] # "collect" /\ runPc'[c] # "off"
    BY <2>1, <2>2, <2>3
  <2> QED
    BY <2>3, <2>4, <2>5, QuietKeeps
<1>2. CASE UNCHANGED connVars
  BY <1>2, QuietKeeps DEF connVars, runVars, chanVars, writerVars, requestVars
<1> QED
  BY <1>1, <1>2 DEF StartRoutine, Start, AcceptFails, Sleep, ListConn, Accept,
                    StopRoutine, Stop, CloseListener, StopConns

\* The steps of a connection that are quiet in this sense.
LEMMA QuietRunAnswerInv ==
  ASSUME TypeOK, AnswerInv, NEW c \in Conns,
         \/ ReadFails(c) \/ ReadStopping(c) \/ Wait(c) \/ RecvClosed(c)
         \/ CloseDoneChan(c) \/ CloseCodec(c) \/ LeaveStep(c)
  PROVE  AnswerInv'
<1>1. /\ runPc \in [Conns -> {"off", "read", "collect", "dispatch", "reply", "wait", "exit"}]
      /\ writePc \in [Conns -> {"off", "recv", "collect", "ended"}]
  BY DEF TypeOK, ConnTypeOK
<1>2. CASE ReadFails(c) \/ ReadStopping(c) \/ Wait(c)
  <2>1. /\ runPc[c] \in {"read", "wait"}
        /\ runPc' = [runPc EXCEPT ![c] = "exit"] \/ runPc' = [runPc EXCEPT ![c] = "wait"]
        /\ UNCHANGED <<current, doneChan, group, writePc, kind, on, callPc, ret, answers>>
    BY <1>2 DEF ReadFails, ReadStopping, Wait, Break, chanVars, writerVars, requestVars
  <2> QED
    BY <1>1, <2>1, QuietKeeps
<1>3. CASE RecvClosed(c)
  <2>1. runPc[c] # "off"
    BY <1>3 DEF RecvClosed, AnswerInv, GroupInv
  <2>2. /\ writePc[c] = "recv" /\ writePc' = [writePc EXCEPT ![c] = "ended"]
        /\ UNCHANGED <<runPc, current, doneChan, group, kind, on, callPc, ret, answers>>
    BY <1>3 DEF RecvClosed, runVars, chanVars, requestVars
  <2> QED
    BY <1>1, <2>1, <2>2, QuietKeeps
<1>4. CASE CloseDoneChan(c) \/ CloseCodec(c) \/ LeaveStep(c)
  BY <1>4, QuietKeeps
     DEF CloseDoneChan, CloseCodec, LeaveStep, chanVars, writerVars, requestVars
<1> QED
  BY <1>2, <1>3, <1>4

\* A request is read.
LEMMA ReadRequestAnswerInv ==
  ASSUME TypeOK, AnswerInv, NEW c \in Conns, NEW q \in Reqs, NEW k \in Kinds,
         ReadRequest(c, q, k)
  PROVE  AnswerInv'
<1>1. /\ kind[q] = Nil /\ on[q] = Nil /\ callPc[q] = "none" /\ answers[q] = <<>>
      /\ k \in AllKinds /\ k # Nil /\ Nil \notin Conns /\ runPc[c] = "read"
  BY ServerConnAssumption DEF ReadRequest, AnswerInv, RequestInv
<1>2. /\ runPc' = [runPc EXCEPT ![c] = AfterRead[k]]
      /\ kind' = [kind EXCEPT ![q] = k] /\ on' = [on EXCEPT ![q] = c]
      /\ current' = [current EXCEPT ![c] = q]
      /\ group' = IF k = "dummy" THEN [group EXCEPT ![c]["run"] = {q}] ELSE group
      /\ UNCHANGED <<doneChan, writePc, callPc, ret, answers>>
  BY DEF ReadRequest, chanVars
<1>3. /\ runPc \in [Conns -> {"off", "read", "collect", "dispatch", "reply", "wait", "exit"}]
      /\ kind \in [Reqs -> AllKinds \cup {Nil}] /\ on \in [Reqs -> Conns \cup {Nil}]
      /\ current \in [Conns -> Reqs \cup {Nil}]
      /\ group \in [Conns -> [Writers -> SUBSET Reqs]]
      /\ doneChan \in [Conns -> Seq(Reqs)] /\ answers \in [Reqs -> Seq(Responses)]
  BY DEF TypeOK, ConnTypeOK
<1>4. /\ k \in {"call", "dummy", "ping", "bad", "noname"}
      /\ runPc'[c] = AfterRead[k]
      /\ k = "call" => AfterRead[k] = "dispatch"
      /\ k = "dummy" => AfterRead[k] = "collect"
      /\ k \in {"ping", "bad"} => AfterRead[k] = "reply"
      /\ k = "noname" => AfterRead[k] = "read"
  BY <1>1, <1>2, <1>3 DEF AllKinds, AfterRead
<1>5. \A p \in Reqs : p # q => kind'[p] = kind[p] /\ on'[p] = on[p]
  BY <1>2, <1>3
<1>6. \A p \in Reqs, d \in Conns : AwaitsWriter(p, d) => p # q /\ AwaitsWriter(p, d)'
  BY <1>1, <1>2, <1>5 DEF AwaitsWriter
<1>7. \A p \in Reqs, d \in Conns : AnsweredFirst(p, d) => d # c /\ p # q /\ AnsweredFirst(p, d)'
  BY <1>1, <1>2, <1>3, <1>5 DEF AnsweredFirst
<1>8. kind'[q] = k /\ on'[q] = c /\ current'[c] = q
  BY <1>2, <1>3
<1>9. RequestInv'
  BY <1>1, <1>2, <1>5, <1>8 DEF AnswerInv, RequestInv
<1>10. FramingInv'
  <2>1. \A p \in Reqs : \A i \in 1 .. Len(answers[p]) : p # q
    BY <1>1
  <2> QED
    BY <1>2, <1>5, <2>1 DEF AnswerInv, FramingInv
<1>11. AnsweredOnce'
  <2>1. Len(answers[q]) = 0
    BY <1>1
  <2> QED
    BY <1>2, <1>5, <2>1 DEF AnswerInv, AnsweredOnce, Refused
<1>12. \A d \in Conns : /\ group'[d]["write"] = group[d]["write"]
                        /\ d # c => group'[d]["run"] = group[d]["run"]
                        /\ group'[c]["run"] = IF k = "dummy" THEN {q} ELSE {}
  <2>1. group[c]["run"] = {}
    BY <1>1 DEF AnswerInv, GroupInv
  <2> QED
    BY <1>2, <1>3, <2>1 DEF Writers
<1>13. ChanInv'
  <2> SUFFICES ASSUME NEW d \in Conns, NEW p \in Reqs,
                      NEW i \in 1 .. Len(doneChan[d]), doneChan[d][i] = p
               PROVE  /\ AwaitsWriter(p, d)'
                      /\ \A w \in Writers : p \notin group'[d][w]
                      /\ \A j \in 1 .. Len(doneChan[d]) : doneChan[d][j] = p => i = j
    BY <1>2 DEF ChanInv
  <2>1. /\ AwaitsWriter(p, d)
        /\ \A w \in Writers : p \notin group[d][w]
        /\ \A j \in 1 .. Len(doneChan[d]) : doneChan[d][j] = p => i = j
    BY DEF AnswerInv, ChanInv
  <2> QED
    BY <1>6, <1>12, <2>1 DEF Writers
<1>14. k = "dummy" => AnsweredFirst(q, c)'
  BY <1>1, <1>2, <1>4, <1>8 DEF AnsweredFirst
<1>15. GroupInv'
  <2> SUFFICES ASSUME NEW d \in Conns
               PROVE  /\ \A p \in group'[d]["run"] : AwaitsWriter(p, d)' \/ AnsweredFirst(p, d)'
                      /\ \A p \in group'[d]["write"] :
                            AwaitsWriter(p, d)' /\ p \notin group'[d]["run"]
                      /\ runPc'[d] # "collect" => group'[d]["run"] = {}
                      /\ writePc'[d] # "collect" => group'[d]["write"] = {}
                      /\ runPc'[d] = "off" => writePc'[d] = "off"
    BY DEF GroupInv
  <2>1. /\ \A p \in group[d]["run"] : AwaitsWriter(p, d) \/ AnsweredFirst(p, d)
        /\ \A p \in group[d]["write"] : AwaitsWriter(p, d) /\ p \notin group[d]["run"]
        /\ runPc[d] # "collect" => group[d]["run"] = {}
        /\ writePc[d] # "collect" => group[d]["write"] = {}
        /\ runPc[d] = "off" => writePc[d] = "off"
        /\ group[d]["run"] \subseteq Reqs /\ group[d]["write"] \subseteq Reqs
    BY <1>3 DEF AnswerInv, GroupInv, Writers
  <2>2. \A p \in group[d]["write"] : AwaitsWriter(p, d)' /\ p # q
    BY <1>6, <2>1
  <2>3. CASE d # c
    <3>1. runPc'[d] = runPc[d]
      BY <1>2, <1>3, <2>3
    <3>2. \A p \in group[d]["run"] : AwaitsWriter(p, d)' \/ AnsweredFirst(p, d)'
      BY <1>6, <1>7, <2>1
    <3> QED
      BY <1>2, <1>12, <2>1, <2>2, <2>3, <3>1, <3>2
  <2>4. CASE d = c
    <3>1. runPc'[d] # "off" /\ (runPc'[d] # "collect" => k # "dummy")
      BY <1>4, <2>4
    <3> QED
      BY <1>2, <1>12, <1>14, <2>1, <2>2, <2>4, <3>1
  <2> QED
    BY <2>3, <2>4
<1>16. CurrentInv'
  <2> SUFFICES ASSUME NEW d \in Conns, NEW p \in Reqs, current'[d] = p
               PROVE  /\ runPc'[d] = "collect" => AnsweredFirst(p, d)'
                      /\ runPc'[d] = "dispatch" =>
                            /\ on'[p] = d /\ kind'[p] \in {"call", "dummy"}
                            /\ callPc'[p] = "none"
                      /\ runPc'[d] = "reply" =>
                            /\ on'[p] = d
                            /\ kind'[p] \in {"ping", "bad"} \/ callPc'[p] = "refused"
                            /\ Len(answers'[p]) <= IF kind'[p] = "dummy" THEN 1 ELSE 0
    BY DEF CurrentInv
  <2>1. CASE d # c
    <3>1. current[d] = p /\ runPc'[d] = runPc[d]
      BY <1>2, <1>3, <2>1
    <3>2. runPc[d] \in {"collect", "dispatch", "reply"} => p # q
      BY <1>1, <3>1 DEF AnswerInv, CurrentInv, AnsweredFirst
    <3>3. runPc[d] = "collect" => AnsweredFirst(p, d)'
      BY <1>7, <3>1 DEF AnswerInv, CurrentInv
    <3> QED
      BY <1>2, <1>5, <3>1, <3>2, <3>3 DEF AnswerInv, CurrentInv
  <2>2. CASE d = c
    <3>1. Len(answers[q]) = 0 /\ p = q
      BY <1>1, <1>8, <2>2
    <3>2. runPc'[c] = "collect" => k = "dummy"
      BY <1>4
    <3>3. runPc'[c] = "dispatch" => k = "call"
      BY <1>4
    <3>4. runPc'[c] = "reply" => k \in {"ping", "bad"}
      BY <1>4
    <3> QED
      BY <1>1, <1>2, <1>8, <1>14, <2>2, <3>1, <3>2, <3>3, <3>4
  <2> QED
    BY <2>1, <2>2
<1> QED
  BY <1>9, <1>10, <1>11, <1>13, <1>15, <1>16 DEF AnswerInv

\* The responses on doneChan wait there while doneChan does not change.
LEMMA ChanKept ==
  ASSUME ChanInv, doneChan' = doneChan,
         \A d \in Conns, w \in Writers : group'[d][w] \subseteq group[d][w],
         \A d \in Conns, p \in Reqs : \A i \in 1 .. Len(doneChan[d]) :
            doneChan[d][i] = p /\ AwaitsWriter(p, d) => AwaitsWriter(p, d)'
  PROVE  ChanInv'
<1> SUFFICES ASSUME NEW d \in Conns, NEW p \in Reqs,
                    NEW i \in 1 .. Len(doneChan[d]), doneChan[d][i] = p
             PROVE  /\ AwaitsWriter(p, d)'
                    /\ \A w \in Writers : p \notin group'[d][w]
                    /\ \A j \in 1 .. Len(doneChan[d]) : doneChan[d][j] = p => i = j
  BY DEF ChanInv
<1>1. /\ AwaitsWriter(p, d)
      /\ \A w \in Writers : p \notin group[d][w]
      /\ \A j \in 1 .. Len(doneChan[d]) : doneChan[d][j] = p => i = j
  BY DEF ChanInv
<1> QED
  BY <1>1

\* So do those in a group that does not grow.
LEMMA GroupKept ==
  ASSUME TypeOK, GroupInv,
         \A d \in Conns, w \in Writers : group'[d][w] \subseteq group[d][w],
         \A d \in Conns, p \in Reqs :
            /\ p \in group'[d]["run"] \cup group'[d]["write"] /\ AwaitsWriter(p, d) =>
                  AwaitsWriter(p, d)'
            /\ p \in group'[d]["run"] /\ AnsweredFirst(p, d) => AnsweredFirst(p, d)',
         \A d \in Conns :
            /\ runPc[d] = "collect" /\ runPc'[d] # "collect" => group'[d]["run"] = {}
            /\ writePc[d] = "collect" /\ writePc'[d] # "collect" => group'[d]["write"] = {}
            /\ runPc'[d] = "off" => runPc[d] = "off"
            /\ writePc[d] = "off" => writePc'[d] = "off"
  PROVE  GroupInv'
<1> SUFFICES ASSUME NEW d \in Conns
             PROVE  /\ \A p \in group'[d]["run"] : AwaitsWriter(p, d)' \/ AnsweredFirst(p, d)'
                    /\ \A p \in group'[d]["write"] :
                          AwaitsWriter(p, d)' /\ p \notin group'[d]["run"]
                    /\ runPc'[d] # "collect" => group'[d]["run"] = {}
                    /\ writePc'[d] # "collect" => group'[d]["write"] = {}
                    /\ runPc'[d] = "off" => writePc'[d] = "off"
  BY DEF GroupInv
<1>1. /\ group'[d]["run"] \subseteq group[d]["run"] /\ group[d]["run"] \subseteq Reqs
      /\ group'[d]["write"] \subseteq group[d]["write"] /\ group[d]["write"] \subseteq Reqs
  BY DEF Writers, TypeOK, ConnTypeOK
<1>2. \A p \in group'[d]["run"] : AwaitsWriter(p, d)' \/ AnsweredFirst(p, d)'
  BY <1>1 DEF GroupInv
<1>3. \A p \in group'[d]["write"] : AwaitsWriter(p, d)' /\ p \notin group'[d]["run"]
  BY <1>1 DEF GroupInv
<1>4. /\ runPc'[d] # "collect" => group'[d]["run"] = {}
      /\ writePc'[d] # "collect" => group'[d]["write"] = {}
  BY <1>1 DEF GroupInv
<1> QED
  BY <1>2, <1>3, <1>4 DEF GroupInv

\* The run loop replies, or sends a call on its way.
LEMMA ReplyAnswerInv ==
  ASSUME TypeOK, AnswerInv, NEW c \in Conns, Reply(c)
  PROVE  AnswerInv'
<1> DEFINE q == current[c]
<1>1. /\ q \in Reqs /\ current' = current
      /\ on[q] = c /\ runPc[c] = "reply"
      /\ kind[q] \in {"ping", "bad"} \/ callPc[q] = "refused"
      /\ Len(answers[q]) <= IF kind[q] = "dummy" THEN 1 ELSE 0
      /\ answers \in [Reqs -> Seq(Responses)]
  BY DEF Reply, TypeOK, ConnTypeOK, AnswerInv, CurrentInv
<1>2. \A p \in Reqs : \/ answers'[p] = answers[p]
                      \/ p = q /\ answers'[p] = Append(answers[p], EmptyResponse)
  BY ReplyAnswers
<1>3. /\ runPc'[c] \in {"read", "exit"}
      /\ \A d \in Conns : d # c => runPc'[d] = runPc[d]
      /\ UNCHANGED <<doneChan, group, writePc, kind, on, callPc, ret>>
  BY DEF Reply, PanicInRun, chanVars, writerVars, TypeOK, ConnTypeOK
<1>4. \A p \in Reqs, d \in Conns : AwaitsWriter(p, d) => p # q /\ AwaitsWriter(p, d)'
  BY <1>1, <1>2, <1>3 DEF AwaitsWriter
<1>5. \A p \in Reqs, d \in Conns : AnsweredFirst(p, d) => p # q /\ AnsweredFirst(p, d)'
  BY <1>1, <1>2, <1>3 DEF AnsweredFirst
<1> HIDE DEF q
<1>6. RequestInv'
  <2>1. kind[q] # Nil
    BY <1>1, ServerConnAssumption DEF AnswerInv, RequestInv, AllKinds
  <2> QED
    BY <1>1, <1>2, <1>3, <2>1 DEF AnswerInv, RequestInv
<1>7. FramingInv'
  <2> SUFFICES ASSUME NEW p \in Reqs, NEW i \in 1 .. Len(answers'[p]),
                      answers'[p][i].noData = answers'[p][i].body
               PROVE  kind[p] = "call" /\ callPc[p] = "ended" /\ ret[p] = "error"
    BY <1>3 DEF FramingInv
  <2>1. i \in 1 .. Len(answers[p]) /\ answers'[p][i] = answers[p][i]
    <3>1. CASE answers'[p] = answers[p]
      BY <3>1
    <3>2. CASE answers'[p] = Append(answers[p], EmptyResponse)
      <4>1. answers[p] \in Seq(Responses)
        BY <1>1
      <4>2. answers'[p][i] # EmptyResponse
        BY DEF EmptyResponse
      <4> QED
        BY <3>2, <4>1, <4>2
    <3> QED
      BY <1>2, <3>1, <3>2
  <2> QED
    BY <2>1 DEF AnswerInv, FramingInv
<1>8. AnsweredOnce'
  <2> SUFFICES ASSUME NEW p \in Reqs
               PROVE  Len(answers'[p]) <= IF Refused(p) THEN 2 ELSE 1
    BY <1>3 DEF AnsweredOnce, Refused
  <2>1. CASE answers'[p] = answers[p]
    BY <2>1 DEF AnswerInv, AnsweredOnce
  <2>2. CASE p = q /\ answers'[p] = Append(answers[p], EmptyResponse)
    <3>1. Len(answers'[p]) = Len(answers[p]) + 1
      BY <1>1, <2>2
    <3> QED
      BY <1>1, <2>2, <3>1 DEF Refused
  <2> QED
    BY <1>2, <2>1, <2>2
<1>9. ChanInv'
  BY <1>3, <1>4, ChanKept DEF AnswerInv
<1>10. GroupInv'
  BY <1>1, <1>3, <1>4, <1>5, GroupKept DEF AnswerInv
<1>11. CurrentInv'
  <2> SUFFICES ASSUME NEW d \in Conns, d # c, NEW p \in Reqs, current[d] = p
               PROVE  /\ runPc[d] = "collect" => AnsweredFirst(p, d)'
                      /\ runPc[d] = "dispatch" =>
                            /\ on[p] = d /\ kind[p] \in {"call", "dummy"}
                            /\ callPc[p] = "none"
                      /\ runPc[d] = "reply" =>
                            /\ on[p] = d
                            /\ kind[p] \in {"ping", "bad"} \/ callPc[p] = "refused"
                            /\ Len(answers'[p]) <= IF kind[p] = "dummy" THEN 1 ELSE 0
    BY <1>1, <1>3 DEF CurrentInv
  <2>1. runPc[d] = "reply" => p # q
    BY <1>1 DEF AnswerInv, CurrentInv
  <2> QED
    BY <1>2, <1>5, <2>1 DEF AnswerInv, CurrentInv
<1> QED
  BY <1>6, <1>7, <1>8, <1>9, <1>10, <1>11 DEF AnswerInv

\* A response goes from doneChan into a group.
LEMMA TakeAnswerInv ==
  ASSUME TypeOK, AnswerInv, NEW c \in Conns, NEW w \in Writers,
         doneChan[c] # <<>>,
         doneChan' = [doneChan EXCEPT ![c] = Tail(@)],
         group' = [group EXCEPT ![c][w] = @ \cup {Head(doneChan[c])}],
         UNCHANGED <<runPc, current, kind, on, callPc, ret, answers>>,
         w = "run" => runPc[c] = "collect" /\ writePc' = writePc,
         w = "write" => writePc[c] # "off" /\ writePc' = [writePc EXCEPT ![c] = "collect"]
  PROVE  AnswerInv'
<1>1. PICK h \in Reqs : h = Head(doneChan[c]) /\ h = doneChan[c][1]
  BY DEF TypeOK, ConnTypeOK
<1>2. /\ AwaitsWriter(h, c)
      /\ \A v \in Writers : h \notin group[c][v]
      /\ \A j \in 1 .. Len(doneChan[c]) : doneChan[c][j] = h => j = 1
  <2>1. 1 \in 1 .. Len(doneChan[c])
    BY DEF TypeOK, ConnTypeOK
  <2>2. \A i \in 1 .. Len(doneChan[c]) :
           doneChan[c][i] = h =>
              /\ AwaitsWriter(h, c)
              /\ \A v \in Writers : h \notin group[c][v]
              /\ \A j \in 1 .. Len(doneChan[c]) : doneChan[c][j] = h => i = j
    BY DEF AnswerInv, ChanInv
  <2>3. doneChan[c][1] = h
    BY <1>1
  <2> QED
    BY <2>1, <2>2, <2>3
<1>3. /\ \A p \in Reqs, d \in Conns : AwaitsWriter(p, d) => AwaitsWriter(p, d)'
      /\ \A p \in Reqs, d \in Conns : AnsweredFirst(p, d) => AnsweredFirst(p, d)'
  BY DEF AwaitsWriter, AnsweredFirst
<1>4. \A d \in Conns, v \in Writers :
         group'[d][v] = IF d = c /\ v = w THEN group[c][w] \cup {h} ELSE group[d][v]
  BY <1>1 DEF TypeOK, ConnTypeOK
<1>5. RequestInv' /\ FramingInv' /\ AnsweredOnce'
  BY DEF AnswerInv, RequestInv, FramingInv, AnsweredOnce, Refused
<1>6. ChanInv'
  <2> SUFFICES ASSUME NEW d \in Conns, NEW p \in Reqs,
                      NEW i \in 1 .. Len(doneChan'[d]), doneChan'[d][i] = p
               PROVE  /\ AwaitsWriter(p, d)'
                      /\ \A v \in Writers : p \notin group'[d][v]
                      /\ \A j \in 1 .. Len(doneChan'[d]) : doneChan'[d][j] = p => i = j
    BY DEF ChanInv
  <2>1. CASE d # c
    <3>1. doneChan'[d] = doneChan[d]
      BY <2>1 DEF TypeOK, ConnTypeOK
    <3>2. /\ AwaitsWriter(p, d)
          /\ \A v \in Writers : p \notin group[d][v]
          /\ \A j \in 1 .. Len(doneChan[d]) : doneChan[d][j] = p => i = j
      <4>1. i \in 1 .. Len(doneChan[d]) /\ doneChan[d][i] = p
        BY <3>1
      <4> QED
        BY <4>1 DEF AnswerInv, ChanInv
    <3>3. \A v \in Writers : group'[d][v] = group[d][v]
      BY <1>4, <2>1
    <3>4. \A v \in Writers : p \notin group'[d][v]
      BY <3>2, <3>3
    <3>5. AwaitsWriter(p, d)'
      BY <1>3, <3>2
    <3> QED
      BY <3>1, <3>2, <3>4, <3>5
  <2>2. CASE d = c
    <3>1. /\ Len(doneChan'[c]) = Len(doneChan[c]) - 1 /\ Len(doneChan[c]) \in Nat
          /\ \A j \in 1 .. Len(doneChan'[c]) : doneChan'[c][j] = doneChan[c][j + 1]
      BY DEF TypeOK, ConnTypeOK
    <3>2. i + 1 \in 1 .. Len(doneChan[c]) /\ doneChan[c][i + 1] = p
      BY <2>2, <3>1
    <3>3. /\ AwaitsWriter(p, c)
          /\ \A v \in Writers : p \notin group[c][v]
          /\ \A j \in 1 .. Len(doneChan[c]) : doneChan[c][j] = p => i + 1 = j
      BY <3>2 DEF AnswerInv, ChanInv
    <3>4. p # h
      BY <1>2, <2>2, <3>2
    <3>5. \A j \in 1 .. Len(doneChan'[c]) : doneChan'[c][j] = p => i = j
      BY <2>2, <3>1, <3>3
    <3>6. AwaitsWriter(p, c)'
      BY <1>3, <3>3
    <3>7. \A v \in Writers : p \notin group'[c][v]
      BY <1>4, <3>3, <3>4
    <3> QED
      BY <2>2, <3>5, <3>6, <3>7
  <2> QED
    BY <2>1, <2>2
<1>7. GroupInv'
  <2> SUFFICES ASSUME NEW d \in Conns
               PROVE  /\ \A p \in group'[d]["run"] : AwaitsWriter(p, d)' \/ AnsweredFirst(p, d)'
                      /\ \A p \in group'[d]["write"] :
                            AwaitsWriter(p, d)' /\ p \notin group'[d]["run"]
                      /\ runPc'[d] # "collect" => group'[d]["run"] = {}
                      /\ writePc'[d] # "collect" => group'[d]["write"] = {}
                      /\ runPc'[d] = "off" => writePc'[d] = "off"
    BY DEF GroupInv
  <2>1. /\ group[d]["run"] \subseteq Reqs /\ group[d]["write"] \subseteq Reqs
        /\ "run" \in Writers /\ "write" \in Writers
        /\ writePc \in [Conns -> {"off", "recv", "collect", "ended"}]
    BY DEF Writers, TypeOK, ConnTypeOK
  <2>2. \A p \in group[d]["run"] : AwaitsWriter(p, d)' \/ AnsweredFirst(p, d)'
    BY <1>3, <2>1 DEF AnswerInv, GroupInv
  <2>3. \A p \in group[d]["write"] : AwaitsWriter(p, d)' /\ p \notin group[d]["run"]
    BY <1>3, <2>1 DEF AnswerInv, GroupInv
  <2>4. CASE d # c
    <3>1. writePc'[d] = writePc[d] /\ group'[d]["run"] = group[d]["run"]
          /\ group'[d]["write"] = group[d]["write"]
      BY <1>4, <2>1, <2>4 DEF Writers
    <3> QED
      BY <2>2, <2>3, <3>1 DEF AnswerInv, GroupInv
  <2>5. CASE d = c /\ w = "run"
    <3>1. /\ group'[c]["run"] = group[c]["run"] \cup {h}
          /\ group'[c]["write"] = group[c]["write"] /\ writePc' = writePc
      BY <1>4, <2>1, <2>5
    <3>2. AwaitsWriter(h, c)' /\ h \notin group[c]["write"]
      BY <1>2, <1>3, <2>1
    <3> QED
      BY <2>2, <2>3, <2>5, <3>1, <3>2 DEF AnswerInv, GroupInv
  <2>6. CASE d = c /\ w = "write"
    <3>1. /\ group'[c]["write"] = group[c]["write"] \cup {h}
          /\ group'[c]["run"] = group[c]["run"] /\ writePc'[c] = "collect"
      BY <1>4, <2>1, <2>6
    <3>2. AwaitsWriter(h, c)' /\ h \notin group[c]["run"]
      BY <1>2, <1>3, <2>1
    <3> QED
      BY <2>2, <2>3, <2>6, <3>1, <3>2 DEF AnswerInv, GroupInv
  <2> QED
    BY <2>4, <2>5, <2>6 DEF Writers
<1>8. CurrentInv'
  BY <1>3 DEF AnswerInv, CurrentInv
<1> QED
  BY <1>5, <1>6, <1>7, <1>8 DEF AnswerInv

LEMMA CollectAnswerInv ==
  ASSUME TypeOK, AnswerInv, NEW c \in Conns, NEW w \in Writers, Collect(c, w)
  PROVE  AnswerInv'
<1>1. /\ doneChan[c] # <<>>
      /\ doneChan' = [doneChan EXCEPT ![c] = Tail(@)]
      /\ group' = [group EXCEPT ![c][w] = @ \cup {Head(doneChan[c])}]
      /\ UNCHANGED <<runPc, current, writePc, kind, on, callPc, ret, answers>>
  BY DEF Collect, runVars, requestVars
<1>2. /\ w = "run" => runPc[c] = "collect"
      /\ w = "write" => writePc[c] = "collect"
  BY DEF Collect, Collecting
<1>3. w = "write" => writePc' = [writePc EXCEPT ![c] = "collect"]
  BY <1>1, <1>2 DEF TypeOK, ConnTypeOK
<1> QED
  BY <1>1, <1>2, <1>3, TakeAnswerInv

LEMMA RecvAnswerInv ==
  ASSUME TypeOK, AnswerInv, NEW c \in Conns, Recv(c)
  PROVE  AnswerInv'
<1>1. /\ writePc[c] = "recv" /\ doneChan[c] # <<>>
      /\ doneChan' = [doneChan EXCEPT ![c] = Tail(@)]
      /\ group' = [group EXCEPT ![c]["write"] = {Head(doneChan[c])}]
      /\ writePc' = [writePc EXCEPT ![c] = "collect"]
      /\ UNCHANGED <<runPc, current, kind, on, callPc, ret, answers>>
  BY DEF Recv, runVars, requestVars
<1>2. group[c]["write"] = {}
  BY <1>1 DEF AnswerInv, GroupInv
<1>3. group' = [group EXCEPT ![c]["write"] = @ \cup {Head(doneChan[c])}]
  BY <1>1, <1>2 DEF TypeOK, ConnTypeOK, Writers
<1>4. "write" \in Writers
  BY DEF Writers
<1> QED
  BY <1>1, <1>3, <1>4, TakeAnswerInv

\* The writer gives up its group.
LEMMA GiveUpAnswerInv ==
  ASSUME TypeOK, AnswerInv, NEW c \in Conns, CollectClosed(c)
  PROVE  AnswerInv'
<1>1. /\ writePc[c] = "collect"
      /\ group' = [group EXCEPT ![c]["write"] = {}]
      /\ writePc' = [writePc EXCEPT ![c] = "ended"]
      /\ UNCHANGED <<runPc, current, doneChan, kind, on, callPc, ret, answers>>
      /\ writePc \in [Conns -> {"off", "recv", "collect", "ended"}]
      /\ group \in [Conns -> [Writers -> SUBSET Reqs]]
  BY DEF CollectClosed, runVars, chanVars, requestVars, TypeOK, ConnTypeOK
<1>2. \A d \in Conns, w \in Writers : group'[d][w] \subseteq group[d][w]
  BY <1>1
<1>3. /\ \A p \in Reqs, d \in Conns : AwaitsWriter(p, d) => AwaitsWriter(p, d)'
      /\ \A p \in Reqs, d \in Conns : AnsweredFirst(p, d) => AnsweredFirst(p, d)'
  BY <1>1 DEF AwaitsWriter, AnsweredFirst
<1>4. \A d \in Conns : /\ writePc[d] = "collect" /\ writePc'[d] # "collect" =>
                             group'[d]["write"] = {}
                       /\ writePc[d] = "off" => writePc'[d] = "off"
  BY <1>1 DEF Writers
<1>5. RequestInv' /\ FramingInv' /\ AnsweredOnce'
  BY <1>1 DEF AnswerInv, RequestInv, FramingInv, AnsweredOnce, Refused
<1>6. ChanInv'
  BY <1>1, <1>2, <1>3, ChanKept DEF AnswerInv
<1>7. GroupInv'
  BY <1>1, <1>2, <1>3, <1>4, GroupKept DEF AnswerInv
<1>8. CurrentInv'
  BY <1>1, <1>3 DEF AnswerInv, CurrentInv
<1> QED
  BY <1>5, <1>6, <1>7, <1>8 DEF AnswerInv

\* A call is started, or refused.
LEMMA DispatchAnswerInv ==
  ASSUME TypeOK, AnswerInv, NEW c \in Conns, Dispatch(c) \/ DispatchError(c)
  PROVE  AnswerInv'
<1>1. PICK q \in Reqs : q = current[c]
  BY DEF Dispatch, DispatchError, TypeOK, ConnTypeOK
<1>2. /\ on[q] = c /\ kind[q] \in {"call", "dummy"} /\ callPc[q] = "none"
      /\ runPc[c] = "dispatch"
  BY <1>1 DEF Dispatch, DispatchError, AnswerInv, CurrentInv
<1>3. /\ callPc' = [callPc EXCEPT ![q] = "running"] \/ callPc' = [callPc EXCEPT ![q] = "refused"]
      /\ runPc' = [runPc EXCEPT ![c] = "read"] \/ runPc' = [runPc EXCEPT ![c] = "reply"]
      /\ runPc'[c] = "reply" => callPc'[q] = "refused"
      /\ UNCHANGED <<current, doneChan, group, writePc, kind, on, ret, answers>>
      /\ callPc \in [Reqs -> {"none", "refused", "running", "returned", "ended"}]
      /\ runPc \in [Conns -> {"off", "read", "collect", "dispatch", "reply", "wait", "exit"}]
  BY <1>1 DEF Dispatch, DispatchError, chanVars, writerVars, TypeOK, ConnTypeOK
<1>4. /\ \A d \in Conns : d # c => runPc'[d] = runPc[d]
      /\ \A p \in Reqs : p # q => callPc'[p] = callPc[p]
      /\ runPc'[c] \in {"read", "reply"} /\ callPc'[q] \in {"running", "refused"}
  BY <1>3
<1>5. \A p \in Reqs, d \in Conns : AwaitsWriter(p, d) => AwaitsWriter(p, d)'
  BY <1>2, <1>3, <1>4 DEF AwaitsWriter
<1>6. \A p \in Reqs, d \in Conns : AnsweredFirst(p, d) => AnsweredFirst(p, d)'
  BY <1>2, <1>3, <1>4 DEF AnsweredFirst
<1>7. RequestInv'
  BY <1>2, <1>3, <1>4, ServerConnAssumption DEF AnswerInv, RequestInv, AllKinds
<1>8. FramingInv'
  BY <1>2, <1>3, <1>4 DEF AnswerInv, FramingInv
<1>9. AnsweredOnce' /\ Len(answers[q]) <= IF kind[q] = "dummy" THEN 1 ELSE 0
  <2>1. \A p \in Reqs : Refused(p) => Refused(p)'
    BY <1>2, <1>3, <1>4 DEF Refused
  <2>2. \A p \in Reqs : Len(answers[p]) \in Nat
    BY DEF TypeOK, ConnTypeOK
  <2>3. ~Refused(q) /\ (kind[q] = "call" => answers[q] = <<>>)
    BY <1>2 DEF Refused, AnswerInv, RequestInv
  <2> QED
    BY <1>2, <1>3, <2>1, <2>2, <2>3 DEF AnswerInv, AnsweredOnce
<1>10. ChanInv'
  BY <1>3, <1>5, ChanKept DEF AnswerInv
<1>11. GroupInv'
  BY <1>2, <1>3, <1>4, <1>5, <1>6, GroupKept DEF AnswerInv
<1>12. CurrentInv'
  <2> SUFFICES ASSUME NEW d \in Conns, NEW p \in Reqs, current[d] = p
               PROVE  /\ runPc'[d] = "collect" => AnsweredFirst(p, d)'
                      /\ runPc'[d] = "dispatch" =>
                            /\ on[p] = d /\ kind[p] \in {"call", "dummy"}
                            /\ callPc'[p] = "none"
                      /\ runPc'[d] = "reply" =>
                            /\ on[p] = d
                            /\ kind[p] \in {"ping", "bad"} \/ callPc'[p] = "refused"
                            /\ Len(answers[p]) <= IF kind[p] = "dummy" THEN 1 ELSE 0
    BY <1>3 DEF CurrentInv
  <2>1. CASE d # c
    <3>1. runPc[d] \in {"dispatch", "reply"} => p # q
      BY <1>2, <2>1 DEF AnswerInv, CurrentInv
    <3> QED
      BY <1>3, <1>4, <1>6, <2>1, <3>1 DEF AnswerInv, CurrentInv
  <2>2. CASE d = c
    BY <1>1, <1>2, <1>3, <1>4, <1>9, <2>2
  <2> QED
    BY <2>1, <2>2
<1> QED
  BY <1>7, <1>8, <1>9, <1>10, <1>11, <1>12 DEF AnswerInv

\* A method returns, or its response is handed over.
LEMMA CallAnswerInv ==
  ASSUME TypeOK, AnswerInv, NEW q \in Reqs, RoutineDoCall(q)
  PROVE  AnswerInv'
<1>1. /\ callPc[q] \in {"running", "returned"}
      /\ callPc' = [callPc EXCEPT ![q] = "returned"] \/ callPc' = [callPc EXCEPT ![q] = "ended"]
      /\ UNCHANGED <<runPc, current, writePc, group, kind, on, answers>>
      /\ callPc \in [Reqs -> {"none", "refused", "running", "returned", "ended"}]
      /\ \A p \in Reqs : p # q => ret'[p] = ret[p]
  BY DEF RoutineDoCall, MethodReturns, WhenFuncCallDone, runVars, writerVars, TypeOK, ConnTypeOK
<1>2. /\ \A p \in Reqs : p # q => callPc'[p] = callPc[p]
      /\ callPc'[q] \in {"returned", "ended"}
      /\ kind[q] \in {"call", "dummy"} /\ on[q] \in Conns
      /\ callPc'[q] = "returned" => ret'[q] # "panic"
  <2>1. callPc'[q] = "returned" => ret'[q] # "panic"
    <3>1. ASSUME NEW r \in Rets, MethodReturns(q, r)
          PROVE  callPc'[q] = "returned" => ret'[q] # "panic"
      BY <3>1 DEF MethodReturns, TypeOK, ConnTypeOK
    <3>2. CASE WhenFuncCallDone(q)
      BY <1>1, <3>2 DEF WhenFuncCallDone
    <3> QED
      BY <3>1, <3>2 DEF RoutineDoCall
  <2> QED
    BY <1>1, <2>1, ServerConnAssumption DEF AnswerInv, RequestInv, AllKinds
<1>3. \A p \in Reqs, d \in Conns : AwaitsWriter(p, d) => p # q /\ AwaitsWriter(p, d)'
  BY <1>1, <1>2 DEF AwaitsWriter
<1>4. \A p \in Reqs, d \in Conns : AnsweredFirst(p, d) => p # q /\ AnsweredFirst(p, d)'
  BY <1>1, <1>2 DEF AnsweredFirst
<1>5. RequestInv'
  BY <1>1, <1>2, ServerConnAssumption DEF AnswerInv, RequestInv, AllKinds
<1>6. FramingInv'
  BY <1>1, <1>2 DEF AnswerInv, FramingInv
<1>7. AnsweredOnce'
  BY <1>1, <1>2 DEF AnswerInv, AnsweredOnce, Refused
<1>8. GroupInv'
  BY <1>1, <1>3, <1>4, GroupKept DEF AnswerInv
<1>9. CurrentInv'
  <2> SUFFICES ASSUME NEW d \in Conns, NEW p \in Reqs, current[d] = p
               PROVE  /\ runPc[d] = "collect" => AnsweredFirst(p, d)'
                      /\ runPc[d] = "dispatch" =>
                            /\ on[p] = d /\ kind[p] \in {"call", "dummy"}
                            /\ callPc'[p] = "none"
                      /\ runPc[d] = "reply" =>
                            /\ on[p] = d
                            /\ kind[p] \in {"ping", "bad"} \/ callPc'[p] = "refused"
                            /\ Len(answers[p]) <= IF kind[p] = "dummy" THEN 1 ELSE 0
    BY <1>1 DEF CurrentInv
  <2>1. runPc[d] \in {"dispatch", "reply"} => p # q
    BY <1>1, <1>2 DEF AnswerInv, CurrentInv
  <2> QED
    BY <1>2, <1>4, <2>1 DEF AnswerInv, CurrentInv
<1>10. ChanInv'
  <2>1. CASE doneChan' = doneChan
    BY <1>1, <1>3, <2>1, ChanKept DEF AnswerInv
  <2>2. CASE /\ callPc[q] = "returned" /\ callPc'[q] = "ended" /\ kind[q] = "call"
             /\ ret' = ret /\ doneChan' = [doneChan EXCEPT ![on[q]] = Append(@, q)]
    <3> SUFFICES ASSUME NEW d \in Conns, NEW p \in Reqs,
                        NEW i \in 1 .. Len(doneChan'[d]), doneChan'[d][i] = p
                 PROVE  /\ AwaitsWriter(p, d)'
                        /\ \A w \in Writers : p \notin group[d][w]
                        /\ \A j \in 1 .. Len(doneChan'[d]) : doneChan'[d][j] = p => i = j
      BY <1>1 DEF ChanInv
    <3>1. /\ doneChan[d] \in Seq(Reqs)
          /\ doneChan'[d] = IF d = on[q] THEN Append(doneChan[d], q) ELSE doneChan[d]
      BY <1>2, <2>2 DEF TypeOK, ConnTypeOK
    <3>2. \A r \in Reqs : \A j \in 1 .. Len(doneChan[d]) :
             doneChan[d][j] = r =>
                /\ AwaitsWriter(r, d)
                /\ \A w \in Writers : r \notin group[d][w]
                /\ \A k \in 1 .. Len(doneChan[d]) : doneChan[d][k] = r => j = k
      BY DEF AnswerInv, ChanInv
    <3>3. \A j \in 1 .. Len(doneChan[d]) : doneChan[d][j] # q
      BY <1>3, <3>2
    <3>4. \A w \in Writers : q \notin group[d][w]
      BY <1>3, <1>4 DEF AnswerInv, GroupInv, Writers
    <3>5. CASE i \in 1 .. Len(doneChan[d])
      <4>1. doneChan[d][i] = p
        BY <3>1, <3>5
      <4>2. p # q
        BY <3>3, <3>5, <4>1
      <4>3. \A j \in 1 .. Len(doneChan'[d]) :
               doneChan'[d][j] = p => j \in 1 .. Len(doneChan[d]) /\ doneChan[d][j] = p
        BY <3>1, <4>2
      <4>4. /\ AwaitsWriter(p, d)
            /\ \A w \in Writers : p \notin group[d][w]
            /\ \A j \in 1 .. Len(doneChan[d]) : doneChan[d][j] = p => i = j
        BY <3>2, <3>5, <4>1
      <4> QED
        BY <1>3, <4>3, <4>4
    <3>6. CASE i \notin 1 .. Len(doneChan[d])
      <4>1. d = on[q] /\ i = Len(doneChan[d]) + 1 /\ p = q
        BY <3>1, <3>6
      <4>2. \A j \in 1 .. Len(doneChan'[d]) : doneChan'[d][j] = p => i = j
        BY <3>1, <3>3, <4>1
      <4>3. AwaitsWriter(q, d)'
        <5>1. ret'[q] # "panic" /\ answers[q] = <<>>
          BY <2>2 DEF AnswerInv, RequestInv
        <5>2. on' = on /\ kind' = kind /\ answers' = answers
          BY <1>1
        <5> QED
          BY <2>2, <4>1, <5>1, <5>2 DEF AwaitsWriter
      <4> QED
        BY <3>4, <4>1, <4>2, <4>3
    <3> QED
      BY <3>5, <3>6
  <2> QED
    <3>1. CASE \E r \in Rets : MethodReturns(q, r)
      BY <2>1, <3>1 DEF MethodReturns, chanVars
    <3>2. CASE WhenFuncCallDone(q)
      <4>1. callPc[q] = "returned" /\ callPc' = [callPc EXCEPT ![q] = "ended"]
        BY <3>2 DEF WhenFuncCallDone
      <4>2. callPc'[q] = "ended"
        BY <1>1, <4>1
      <4> QED
        BY <2>1, <2>2, <3>2, <4>1, <4>2 DEF WhenFuncCallDone
    <3> QED
      BY <3>1, <3>2 DEF RoutineDoCall
<1> QED
  BY <1>5, <1>6, <1>7, <1>8, <1>9, <1>10 DEF AnswerInv

\* A group is written: those of it that are answered had no answer before.
LEMMA WriteAnswerInv ==
  ASSUME TypeOK, AnswerInv, NEW c \in Conns, NEW w \in Writers, WriteGroup(c, w)
  PROVE  AnswerInv'
<1>1. PICK S \in SUBSET group[c][w] :
         \A q \in Reqs :
            answers'[q] = IF q \in S THEN Append(answers[q], GroupResponse(q)) ELSE answers[q]
  BY GroupAnswers
<1>2. /\ UNCHANGED <<current, doneChan, kind, on, callPc, ret>>
      /\ group' = [group EXCEPT ![c][w] = {}]
      /\ group \in [Conns -> [Writers -> SUBSET Reqs]]
      /\ \A d \in Conns : d # c => runPc'[d] = runPc[d] /\ writePc'[d] = writePc[d]
      /\ w = "run" => /\ runPc[c] = "collect" /\ runPc'[c] \in {"dispatch", "exit"}
                      /\ writePc' = writePc
      /\ w = "write" => /\ writePc[c] = "collect" /\ writePc'[c] \in {"recv", "ended"}
                        /\ runPc' = runPc
  <2>1. /\ runPc \in [Conns -> {"off", "read", "collect", "dispatch", "reply", "wait", "exit"}]
        /\ writePc \in [Conns -> {"off", "recv", "collect", "ended"}]
        /\ group \in [Conns -> [Writers -> SUBSET Reqs]]
    BY DEF TypeOK, ConnTypeOK
  <2>2. /\ UNCHANGED <<current, doneChan, kind, on, callPc, ret>>
        /\ group' = [group EXCEPT ![c][w] = {}]
        /\ w = "run" => runPc[c] = "collect"
        /\ w = "write" => writePc[c] = "collect"
    BY DEF WriteGroup, SendGroup, Collecting, chanVars
  <2>3. \/ /\ w = "run" /\ UNCHANGED writePc
           /\ \/ runPc' = [runPc EXCEPT ![c] = "exit"]
              \/ runPc' = [runPc EXCEPT ![c] = "dispatch"]
        \/ /\ w = "write" /\ UNCHANGED runPc
           /\ \/ writePc' = [writePc EXCEPT ![c] = "ended"]
              \/ writePc' = [writePc EXCEPT ![c] = "recv"]
    BY DEF WriteGroup, PanicInRun
  <2> QED
    BY <2>1, <2>2, <2>3
<1>3. \A q \in S : /\ q \in Reqs
                   /\ answers[q] = <<>> /\ on[q] = c
                   /\ kind[q] = "call" => callPc[q] = "ended"
                   /\ \/ kind[q] = "call" /\ callPc[q] = "ended"
                      \/ w = "run" /\ kind[q] = "dummy" /\ callPc[q] = "none"
  <2>3. S \subseteq Reqs
    BY <1>1, <1>2
  <2> SUFFICES ASSUME NEW q \in S
               PROVE  \/ AwaitsWriter(q, c)
                      \/ w = "run" /\ AnsweredFirst(q, c)
    BY <2>3 DEF AwaitsWriter, AnsweredFirst
  <2>1. CASE w = "run"
    BY <2>1 DEF AnswerInv, GroupInv
  <2>2. CASE w = "write"
    BY <2>2 DEF AnswerInv, GroupInv
  <2> QED
    BY <2>1, <2>2 DEF Writers
<1>4. \A d \in Conns, v \in Writers :
         /\ group'[d][v] = IF d = c /\ v = w THEN {} ELSE group[d][v]
         /\ group'[d][v] \subseteq group[d][v]
  BY <1>2
<1>5. \A q \in S, d \in Conns, v \in Writers : q \notin group'[d][v]
  <2> SUFFICES ASSUME NEW q \in S, NEW d \in Conns, NEW v \in Writers, q \in group'[d][v]
               PROVE  FALSE
    OBVIOUS
  <2>1. q \in group[d][v] /\ (d # c \/ v # w)
    BY <1>4
  <2>2. on[q] = d
    BY <2>1 DEF AnswerInv, GroupInv, AwaitsWriter, AnsweredFirst, Writers
  <2>3. d = c /\ v # w /\ q \in group[c][w]
    BY <1>1, <1>3, <2>1, <2>2
  <2> QED
    BY <2>1, <2>3 DEF AnswerInv, GroupInv, Writers
<1>6. \A p \in Reqs, d \in Conns : p \notin S /\ AwaitsWriter(p, d) => AwaitsWriter(p, d)'
  BY <1>1, <1>2 DEF AwaitsWriter
<1>7. \A p \in Reqs, d \in Conns :
         (d # c \/ w = "write") /\ AnsweredFirst(p, d) => p \notin S /\ AnsweredFirst(p, d)'
  BY <1>1, <1>2, <1>3 DEF AnsweredFirst
<1>8. RequestInv'
  <2> SUFFICES ASSUME NEW q \in Reqs
               PROVE  /\ kind[q] = Nil => callPc[q] = "none" /\ on[q] = Nil /\ answers'[q] = <<>>
                      /\ kind[q] # Nil => on[q] \in Conns
                      /\ callPc[q] # "none" => kind[q] \in {"call", "dummy"}
                      /\ kind[q] = "call" /\ callPc[q] \in {"none", "running", "returned"} =>
                            answers'[q] = <<>>
                      /\ callPc[q] = "returned" => ret[q] # "panic"
    BY <1>2 DEF RequestInv
  <2>1. CASE q \in S
    <3>1. kind[q] # Nil
      BY <1>3, <2>1, ServerConnAssumption DEF AllKinds
    <3> QED
      BY <1>3, <2>1, <3>1 DEF AnswerInv, RequestInv
  <2>2. CASE q \notin S
    BY <1>1, <2>2 DEF AnswerInv, RequestInv
  <2> QED
    BY <2>1, <2>2
<1>9. FramingInv' /\ AnsweredOnce'
  <2>1. ASSUME NEW q \in S
        PROVE  /\ Len(answers'[q]) = 1
               /\ answers'[q][1] = GroupResponse(q)
    <3>1. q \in Reqs /\ answers[q] \in Seq(Responses) /\ Len(answers[q]) = 0
      BY <1>3 DEF TypeOK, ConnTypeOK
    <3>2. answers'[q] = Append(answers[q], GroupResponse(q)) /\ GroupResponse(q) \in Responses
      BY <1>1, <3>1, ResponseTypes
    <3> QED
      BY <3>1, <3>2
  <2>2. FramingInv'
    <3> SUFFICES ASSUME NEW q \in Reqs, NEW i \in 1 .. Len(answers'[q]),
                        answers'[q][i].noData = answers'[q][i].body
                 PROVE  kind[q] = "call" /\ callPc[q] = "ended" /\ ret[q] = "error"
      BY <1>2 DEF FramingInv
    <3>1. CASE q \in S
      <4>1. i = 1 /\ answers'[q][i] = GroupResponse(q)
        BY <2>1, <3>1
      <4>2. /\ GroupResponse(q).noData <=> (kind[q] = "call" /\ ret[q] = "error")
            /\ GroupResponse(q).body = TRUE
            /\ GroupResponse(q).noData \in BOOLEAN
        BY DEF GroupResponse
      <4>3. GroupResponse(q).noData = GroupResponse(q).body
        BY <4>1
      <4>4. kind[q] = "call" /\ ret[q] = "error"
        BY <4>2, <4>3
      <4> QED
        BY <1>3, <3>1, <4>4
    <3>2. CASE q \notin S
      BY <1>1, <3>2 DEF AnswerInv, FramingInv
    <3> QED
      BY <3>1, <3>2
  <2>3. AnsweredOnce'
    <3> SUFFICES ASSUME NEW q \in Reqs
                 PROVE  Len(answers'[q]) <= IF Refused(q) THEN 2 ELSE 1
      BY <1>2 DEF AnsweredOnce, Refused
    <3>1. CASE q \in S
      <4>1. Len(answers'[q]) = 1
        BY <2>1, <3>1
      <4>2. CASE Refused(q)
        BY <4>1, <4>2
      <4>3. CASE ~Refused(q)
        BY <4>1, <4>3
      <4> QED
        BY <4>2, <4>3
    <3>2. CASE q \notin S
      BY <1>1, <3>2 DEF AnswerInv, AnsweredOnce
    <3> QED
      BY <3>1, <3>2
  <2> QED
    BY <2>2, <2>3
<1>10. ChanInv'
  <2>1. \A d \in Conns, p \in Reqs : \A i \in 1 .. Len(doneChan[d]) :
           doneChan[d][i] = p /\ AwaitsWriter(p, d) => p \notin S
    BY <1>1, <1>3 DEF AnswerInv, ChanInv, AwaitsWriter
  <2> QED
    BY <1>2, <1>4, <1>6, <2>1, ChanKept DEF AnswerInv
<1>11. GroupInv'
  <2>1. \A d \in Conns, p \in Reqs :
           p \in group'[d]["run"] \cup group'[d]["write"] => p \notin S
    BY <1>5 DEF Writers
  <2>2. \A d \in Conns, p \in Reqs :
           p \in group'[d]["run"] /\ AnsweredFirst(p, d) => AnsweredFirst(p, d)'
    BY <1>4, <1>7 DEF Writers
  <2>3. \A d \in Conns :
            /\ runPc[d] = "collect" /\ runPc'[d] # "collect" => group'[d]["run"] = {}
            /\ writePc[d] = "collect" /\ writePc'[d] # "collect" => group'[d]["write"] = {}
            /\ runPc'[d] = "off" => runPc[d] = "off"
            /\ writePc[d] = "off" => writePc'[d] = "off"
    BY <1>2, <1>4 DEF Writers
  <2> QED
    BY <1>4, <1>6, <2>1, <2>2, <2>3, GroupKept DEF AnswerInv
<1>12. CurrentInv'
  <2> SUFFICES ASSUME NEW d \in Conns, NEW p \in Reqs, current[d] = p
               PROVE  /\ runPc'[d] = "collect" => AnsweredFirst(p, d)'
                      /\ runPc'[d] = "dispatch" =>
                            /\ on[p] = d /\ kind[p] \in {"call", "dummy"}
                            /\ callPc[p] = "none"
                      /\ runPc'[d] = "reply" =>
                            /\ on[p] = d
                            /\ kind[p] \in {"ping", "bad"} \/ callPc[p] = "refused"
                            /\ Len(answers'[p]) <= IF kind[p] = "dummy" THEN 1 ELSE 0
    BY <1>2 DEF CurrentInv
  <2>1. CASE d # c \/ w = "write"
    <3>1. runPc'[d] = runPc[d]
      BY <1>2, <2>1
    <3>2. runPc[d] = "reply" => p \notin S
      BY <1>3 DEF AnswerInv, CurrentInv
    <3> QED
      BY <1>1, <1>7, <2>1, <3>1, <3>2 DEF AnswerInv, CurrentInv
  <2>2. CASE d = c /\ w = "run"
    BY <1>2, <2>2 DEF AnswerInv, CurrentInv, AnsweredFirst
  <2> QED
    BY <2>1, <2>2 DEF Writers
<1> QED
  BY <1>8, <1>9, <1>10, <1>11, <1>12 DEF AnswerInv

LEMMA AnswerStep == TypeOK /\ ListInv /\ AnswerInv /\ [Next]_vars => AnswerInv'
<1> SUFFICES ASSUME TypeOK, ListInv, AnswerInv, [Next]_vars PROVE AnswerInv'
  OBVIOUS
<1>1. CASE StartRoutine \/ StopRoutine
  BY <1>1, ServerAnswerInv
<1>2. ASSUME NEW c \in Conns, RoutineRun(c) PROVE AnswerInv'
  <2>1. CASE ReadReturns(c)
    BY <2>1, QuietRunAnswerInv, ReadRequestAnswerInv DEF ReadReturns
  <2>2. CASE Wait(c) \/ CloseDoneChan(c) \/ CloseCodec(c) \/ OneServerConnStop(c)
    BY <2>2, QuietRunAnswerInv DEF OneServerConnStop
  <2>3. CASE Reply(c)
    BY <2>3, ReplyAnswerInv
  <2>4. CASE Collect(c, "run") \/ WriteGroup(c, "run")
    BY <2>4, CollectAnswerInv, WriteAnswerInv DEF Writers
  <2>5. CASE Dispatch(c) \/ DispatchError(c)
    BY <2>5, DispatchAnswerInv
  <2> QED
    BY <1>2, <2>1, <2>2, <2>3, <2>4, <2>5 DEF RoutineRun
<1>3. ASSUME NEW c \in Conns, RoutineWriteResponse(c) PROVE AnswerInv'
  BY <1>3, RecvAnswerInv, QuietRunAnswerInv, CollectAnswerInv, GiveUpAnswerInv,
     WriteAnswerInv DEF RoutineWriteResponse, Writers
<1>4. ASSUME NEW q \in Reqs, RoutineDoCall(q) PROVE AnswerInv'
  BY <1>4, CallAnswerInv
<1>5. CASE UNCHANGED vars
  BY <1>5, QuietKeeps DEF vars, connVars, runVars, chanVars, writerVars, requestVars
<1> QED
  BY <1>1, <1>2, <1>3, <1>4, <1>5 DEF Next, Conn

-----------------------------------------------------------------------------
(* What pendingWg counts.                                                  *)

\* Nothing is taken back: a codec stays closed, a loop that was left is not
\* entered again, a request stays with its connection and keeps its answers.
Grows ==
    /\ \A c \in Conns : codecOpen'[c] => codecOpen[c]
    /\ \A c \in Conns : runPc[c] = "exit" => runPc'[c] = "exit"
    /\ \A q \in Reqs : kind[q] # Nil => kind'[q] = kind[q]
    /\ \A q \in Reqs : callPc[q] \in {"refused", "ended"} => callPc'[q] = callPc[q]
    /\ \A q \in Reqs, c \in Conns : on[q] = c => on'[q] = c
    /\ \A q \in Reqs, c \in Conns : on'[q] = c /\ on[q] # c => runPc[c] = "read"
    /\ \A q \in Reqs : Len(answers[q]) > 0 => Len(answers'[q]) > 0
    /\ \A c \in waited' : c \in waited \/ (c \in Conns /\ Wait(c))

LEMMA CallGrows ==
  ASSUME TypeOK, NEW q \in Reqs, RoutineDoCall(q)
  PROVE  Grows
<1>1. /\ callPc[q] \in {"running", "returned"}
      /\ \E v : callPc' = [callPc EXCEPT ![q] = v]
      /\ UNCHANGED <<codecOpen, runPc, kind, on, answers, waited>>
      /\ callPc \in [Reqs -> {"none", "refused", "running", "returned", "ended"}]
  BY DEF RoutineDoCall, MethodReturns, WhenFuncCallDone, runVars, TypeOK, ConnTypeOK
<1>2. \A p \in Reqs : callPc[p] \in {"refused", "ended"} => callPc'[p] = callPc[p]
  BY <1>1
<1> QED
  BY <1>1, <1>2 DEF Grows

LEMMA WriterGrows ==
  ASSUME TypeOK, NEW c \in Conns, NEW w \in Writers,
         \/ Recv(c) \/ RecvClosed(c) \/ CollectClosed(c)
         \/ Collect(c, w) \/ WriteGroup(c, w)
  PROVE  Grows
<1>1. CASE Recv(c) \/ RecvClosed(c) \/ CollectClosed(c) \/ Collect(c, w)
  <2>1. UNCHANGED <<codecOpen, runPc, kind, on, callPc, answers, waited>>
    BY <1>1 DEF Recv, RecvClosed, CollectClosed, Collect, runVars, requestVars
  <2> QED
    BY <2>1 DEF Grows
<1>2. CASE WriteGroup(c, w)
  <2>1. UNCHANGED <<kind, on, callPc, waited>>
    BY <1>2 DEF WriteGroup
  <2>2. \A d \in Conns : codecOpen'[d] => codecOpen[d]
    BY <1>2, GroupAnswers
  <2>3. \A q \in Reqs : Len(answers[q]) > 0 => Len(answers'[q]) > 0
    <3> SUFFICES ASSUME NEW q \in Reqs, Len(answers[q]) > 0 PROVE Len(answers'[q]) > 0
      OBVIOUS
    <3>1. \/ answers'[q] = answers[q]
          \/ answers'[q] = Append(answers[q], GroupResponse(q))
      BY <1>2, GroupAnswers
    <3>2. answers[q] \in Seq(Responses)
      BY DEF TypeOK, ConnTypeOK
    <3> QED
      BY <3>1, <3>2
  <2>4. \A d \in Conns : runPc[d] = "exit" => runPc'[d] = "exit"
    <3>1. \/ runPc' = runPc \/ runPc' = [runPc EXCEPT ![c] = "exit"]
          \/ runPc[c] = "collect" /\ runPc' = [runPc EXCEPT ![c] = "dispatch"]
      BY <1>2 DEF WriteGroup, SendGroup, Collecting, PanicInRun
    <3> QED
      BY <3>1 DEF TypeOK, ConnTypeOK
  <2> QED
    BY <2>1, <2>2, <2>3, <2>4 DEF Grows
<1> QED
  BY <1>1, <1>2

LEMMA RunGrows ==
  ASSUME TypeOK, AnswerInv, NEW c \in Conns,
         \/ ReadReturns(c) \/ Wait(c) \/ Reply(c) \/ Dispatch(c) \/ DispatchError(c)
         \/ CloseDoneChan(c) \/ CloseCodec(c) \/ LeaveStep(c)
  PROVE  Grows
<1>1. /\ runPc \in [Conns -> {"off", "read", "collect", "dispatch", "reply", "wait", "exit"}]
      /\ codecOpen \in [Conns -> BOOLEAN]
  BY DEF TypeOK, ConnTypeOK
<1>2. CASE ReadFails(c) \/ ReadStopping(c) \/ Wait(c)
  <2>1. /\ runPc[c] \in {"read", "wait"}
        /\ \E v : runPc' = [runPc EXCEPT ![c] = v]
        /\ UNCHANGED <<codecOpen, kind, on, callPc, answers>>
    BY <1>2 DEF ReadFails, ReadStopping, Wait, Break, requestVars
  <2>2. \A d \in waited' : d \in waited \/ (d \in Conns /\ Wait(d))
    BY <1>2 DEF ReadFails, ReadStopping, Wait
  <2> QED
    BY <1>1, <2>1, <2>2 DEF Grows
<1>3. ASSUME NEW q \in Reqs, NEW k \in Kinds, ReadRequest(c, q, k)
      PROVE  Grows
  <2>1. /\ runPc[c] = "read" /\ kind[q] = Nil /\ on[q] = Nil /\ Nil \notin Conns
        /\ \E v : runPc' = [runPc EXCEPT ![c] = v]
        /\ kind' = [kind EXCEPT ![q] = k] /\ on' = [on EXCEPT ![q] = c]
        /\ UNCHANGED <<codecOpen, callPc, answers, waited>>
    BY <1>3, ServerConnAssumption DEF ReadRequest, AnswerInv, RequestInv, AllKinds
  <2>2. /\ kind \in [Reqs -> AllKinds \cup {Nil}] /\ on \in [Reqs -> Conns \cup {Nil}]
    BY DEF TypeOK, ConnTypeOK
  <2>3. \A p \in Reqs : p # q => kind'[p] = kind[p] /\ on'[p] = on[p]
    BY <2>1, <2>2
  <2>4. on'[q] = c
    BY <2>1, <2>2
  <2> QED
    BY <1>1, <2>1, <2>3, <2>4 DEF Grows
<1>4. CASE Reply(c)
  <2>1. /\ UNCHANGED <<codecOpen, kind, on, callPc, waited>>
        /\ runPc[c] = "reply" /\ \E v : runPc' = [runPc EXCEPT ![c] = v]
    BY <1>4 DEF Reply, PanicInRun
  <2>2. \A q \in Reqs : Len(answers[q]) > 0 => Len(answers'[q]) > 0
    <3> SUFFICES ASSUME NEW q \in Reqs, Len(answers[q]) > 0 PROVE Len(answers'[q]) > 0
      OBVIOUS
    <3>1. \/ answers'[q] = answers[q]
          \/ answers'[q] = Append(answers[q], EmptyResponse)
      BY <1>4, ReplyAnswers
    <3>2. answers[q] \in Seq(Responses)
      BY DEF TypeOK, ConnTypeOK
    <3> QED
      BY <3>1, <3>2
  <2> QED
    BY <1>1, <2>1, <2>2 DEF Grows
<1>5. CASE Dispatch(c) \/ DispatchError(c)
  <2>1. PICK q \in Reqs : q = current[c]
    BY <1>5 DEF Dispatch, DispatchError, TypeOK, ConnTypeOK
  <2>2. /\ runPc[c] = "dispatch" /\ callPc[q] = "none"
        /\ \E v : callPc' = [callPc EXCEPT ![q] = v]
        /\ \E v : runPc' = [runPc EXCEPT ![c] = v]
        /\ UNCHANGED <<codecOpen, kind, on, answers, waited>>
        /\ callPc \in [Reqs -> {"none", "refused", "running", "returned", "ended"}]
    BY <1>5, <2>1 DEF Dispatch, DispatchError, AnswerInv, CurrentInv, TypeOK, ConnTypeOK
  <2>3. \A p \in Reqs : callPc[p] \in {"refused", "ended"} => callPc'[p] = callPc[p]
    BY <2>2
  <2> QED
    BY <1>1, <2>2, <2>3 DEF Grows
<1>6. CASE CloseDoneChan(c) \/ CloseCodec(c) \/ LeaveStep(c)
  <2>1. /\ UNCHANGED <<runPc, kind, on, callPc, answers, waited>>
        /\ codecOpen' = codecOpen \/ codecOpen' = [codecOpen EXCEPT ![c] = FALSE]
    BY <1>6 DEF CloseDoneChan, CloseCodec, LeaveStep, chanVars, requestVars
  <2> QED
    BY <1>1, <2>1 DEF Grows
<1> QED
  BY <1>2, <1>3, <1>4, <1>5, <1>6 DEF ReadReturns

LEMMA GrowsStep == TypeOK /\ ListInv /\ AnswerInv /\ [Next]_vars => Grows
<1> SUFFICES ASSUME TypeOK, ListInv, AnswerInv, [Next]_vars PROVE Grows
  OBVIOUS
<1>1. CASE StartRoutine \/ StopRoutine
  <2>1. CASE Serve
    <3>1. accepted \in Conns /\ runPc[accepted] = "off"
      BY <2>1 DEF Serve, TypeOK, ListInv
    <3>2. /\ runPc' = [runPc EXCEPT ![accepted] = "read"]
          /\ UNCHANGED <<codecOpen, kind, on, callPc, answers, waited>>
      BY <2>1 DEF Serve, StartConn, requestVars
    <3> QED
      BY <3>1, <3>2 DEF Grows, TypeOK, ConnTypeOK
  <2>2. CASE UNCHANGED connVars
    BY <2>2 DEF Grows, connVars, runVars, requestVars
  <2> QED
    BY <1>1, <2>1, <2>2 DEF StartRoutine, Start, AcceptFails, Sleep, ListConn, Accept,
                            StopRoutine, Stop, CloseListener, StopConns
<1>2. ASSUME NEW c \in Conns, RoutineRun(c) PROVE Grows
  <2>1. "run" \in Writers
    BY DEF Writers
  <2> QED
    BY <1>2, <2>1, RunGrows, WriterGrows DEF RoutineRun, OneServerConnStop
<1>3. ASSUME NEW c \in Conns, RoutineWriteResponse(c) PROVE Grows
  <2>1. "write" \in Writers
    BY DEF Writers
  <2> QED
    BY <1>3, <2>1, WriterGrows DEF RoutineWriteResponse
<1>4. ASSUME NEW q \in Reqs, RoutineDoCall(q) PROVE Grows
  BY <1>4, CallGrows
<1>5. CASE UNCHANGED vars
  BY <1>5 DEF Grows, vars, connVars, runVars, requestVars
<1> QED
  BY <1>1, <1>2, <1>3, <1>4, <1>5 DEF Next, Conn

LEMMA AppendNotEmpty ==
  ASSUME NEW s \in Seq(Responses), NEW r \in Responses
  PROVE  Append(s, r) # <<>>
<1>1. Len(Append(s, r)) = Len(s) + 1 /\ Len(s) \in Nat
  OBVIOUS
<1> QED
  BY <1>1

LEMMA UnansweredFinite ==
  ASSUME NEW c \in Conns
  PROVE  IsFiniteSet(Unanswered(c)) /\ Cardinality(Unanswered(c)) \in Nat
<1>1. Unanswered(c) \in SUBSET Reqs
  BY DEF Unanswered, Accepted
<1> QED
  BY <1>1, FS_Subset, FS_CardinalityType, ServerConnAssumption

\* A request that was taken off twice stays so.
LEMMA OvercountedStays ==
  ASSUME Grows, NEW c \in Conns, ~Overcounted(c)'
  PROVE  ~Overcounted(c)
<1> SUFFICES ASSUME NEW q \in Reqs, on[q] = c, Refused(q) PROVE FALSE
  BY DEF Overcounted, Accepted
<1>1. on'[q] = c /\ Refused(q)'
  BY ServerConnAssumption DEF Grows, Refused, AllKinds
<1> QED
  BY <1>1 DEF Overcounted, Accepted

\* A connection that is counted rightly after a step was so before it.
LEMMA CountedBefore ==
  ASSUME CountInv, Grows, NEW c \in Conns,
         codecOpen'[c], ~Overcounted(c)', runPc'[c] # "exit"
  PROVE  /\ codecOpen[c] /\ ~Overcounted(c) /\ runPc[c] # "exit"
         /\ pendingWg[c] = Cardinality(Unanswered(c))
BY OvercountedStays DEF Grows, CountInv

LEMMA CountKept ==
  ASSUME CountInv, Grows, UNCHANGED <<pendingWg, on, answers>>
  PROVE  CountInv'
<1> SUFFICES ASSUME NEW c \in Conns, codecOpen'[c], ~Overcounted(c)', runPc'[c] # "exit"
             PROVE  pendingWg'[c] = Cardinality(Unanswered(c)')
  BY DEF CountInv
<1>1. pendingWg[c] = Cardinality(Unanswered(c))
  BY CountedBefore
<1>2. Unanswered(c)' = Unanswered(c)
  BY DEF Unanswered, Accepted
<1> QED
  BY <1>1, <1>2

LEMMA ReadCount ==
  ASSUME TypeOK, AnswerInv, CountInv, Grows, NEW c \in Conns,
         ReadFails(c) \/ \E q \in Reqs, k \in Kinds : ReadRequest(c, q, k)
  PROVE  CountInv'
<1> SUFFICES ASSUME NEW d \in Conns, codecOpen'[d], ~Overcounted(d)', runPc'[d] # "exit"
             PROVE  pendingWg'[d] = Cardinality(Unanswered(d)')
  BY DEF CountInv
<1>1. pendingWg[d] = Cardinality(Unanswered(d))
  BY CountedBefore
<1>2. CASE ReadFails(c)
  <2>1. d # c
    BY <1>2 DEF ReadFails, Break, TypeOK, ConnTypeOK
  <2>2. Unanswered(d)' = Unanswered(d) /\ pendingWg'[d] = pendingWg[d]
    BY <1>2, <2>1 DEF ReadFails, requestVars, Unanswered, Accepted, TypeOK, ConnTypeOK
  <2> QED
    BY <1>1, <2>2
<1>3. ASSUME NEW q \in Reqs, NEW k \in Kinds, ReadRequest(c, q, k)
      PROVE  pendingWg'[d] = Cardinality(Unanswered(d)')
  <2>1. /\ on[q] = Nil /\ Nil \notin Conns /\ answers[q] = <<>> /\ answers' = answers
        /\ \A p \in Reqs : on'[p] = IF p = q THEN c ELSE on[p]
        /\ pendingWg'[d] = IF d = c THEN pendingWg[d] + 1 ELSE pendingWg[d]
    BY <1>3, ServerConnAssumption
       DEF ReadRequest, AnswerInv, RequestInv, TypeOK, ConnTypeOK
  <2>2. CASE d = c
    <3>1. Unanswered(c)' = Unanswered(c) \cup {q} /\ q \notin Unanswered(c)
      BY <2>1 DEF Unanswered, Accepted
    <3>2. Cardinality(Unanswered(c) \cup {q}) = Cardinality(Unanswered(c)) + 1
      BY <3>1, UnansweredFinite, FS_AddElement
    <3> QED
      BY <1>1, <2>1, <2>2, <3>1, <3>2
  <2>3. CASE d # c
    <3>1. Unanswered(d)' = Unanswered(d)
      BY <2>1, <2>3 DEF Unanswered, Accepted
    <3> QED
      BY <1>1, <2>1, <2>3, <3>1
  <2> QED
    BY <2>2, <2>3
<1> QED
  BY <1>2, <1>3

LEMMA ReplyCount ==
  ASSUME TypeOK, AnswerInv, CountInv, Grows, NEW c \in Conns, Reply(c)
  PROVE  CountInv'
<1> SUFFICES ASSUME NEW d \in Conns, codecOpen'[d], ~Overcounted(d)', runPc'[d] # "exit"
             PROVE  pendingWg'[d] = Cardinality(Unanswered(d)')
  BY DEF CountInv
<1>1. /\ codecOpen[d] /\ ~Overcounted(d)
      /\ pendingWg[d] = Cardinality(Unanswered(d))
  BY CountedBefore
<1>2. PICK q \in Reqs : q = current[c]
  BY ReplyAnswers
<1>3. /\ on[q] = c /\ runPc[c] = "reply" /\ on' = on
      /\ kind[q] \in {"ping", "bad"} \/ callPc[q] = "refused"
      /\ Len(answers[q]) <= IF kind[q] = "dummy" THEN 1 ELSE 0
  BY <1>2 DEF Reply, AnswerInv, CurrentInv
<1>4. \A p \in Reqs : answers[p] \in Seq(Responses)
  BY DEF TypeOK, ConnTypeOK
<1>5. \A p \in Reqs : answers'[p] = IF codecOpen[c] /\ p = q
                                    THEN Append(answers[p], EmptyResponse) ELSE answers[p]
  BY <1>2, ReplyAnswers
<1>6. CASE d = c
  <2>1. pendingWg'[c] = pendingWg[c] - 1
    <3>1. ~Panics(c, 1)
      BY <1>6 DEF Reply, PanicInRun, TypeOK, ConnTypeOK
    <3>2. pendingWg' = [pendingWg EXCEPT ![c] = @ - 1]
      BY <3>1 DEF Reply, WgDone
    <3> QED
      BY <3>2 DEF TypeOK, ConnTypeOK
  <2>2. answers[q] = <<>>
    <3>1. kind[q] # "dummy"
      BY <1>1, <1>3, <1>6 DEF Overcounted, Accepted, Refused
    <3>2. Len(answers[q]) = 0
      BY <1>3, <1>4, <3>1
    <3> QED
      BY <1>4, <3>2
  <2>3. answers'[q] # <<>>
    BY <1>1, <1>4, <1>5, <1>6, ResponseTypes, AppendNotEmpty
  <2>4. Unanswered(c)' = Unanswered(c) \ {q} /\ q \in Unanswered(c)
    BY <1>3, <1>5, <2>2, <2>3 DEF Unanswered, Accepted
  <2>5. Cardinality(Unanswered(c) \ {q}) = Cardinality(Unanswered(c)) - 1
    BY <2>4, UnansweredFinite, FS_RemoveElement
  <2> QED
    BY <1>1, <1>6, <2>1, <2>4, <2>5
<1>7. CASE d # c
  <2>1. Unanswered(d)' = Unanswered(d)
    BY <1>3, <1>5, <1>7 DEF Unanswered, Accepted
  <2>2. pendingWg'[d] = pendingWg[d]
    BY <1>7 DEF Reply, WgDone, TypeOK, ConnTypeOK
  <2> QED
    BY <1>1, <2>1, <2>2
<1> QED
  BY <1>6, <1>7

LEMMA WriteCount ==
  ASSUME TypeOK, AnswerInv, CountInv, Grows, NEW c \in Conns, NEW w \in Writers,
         WriteGroup(c, w)
  PROVE  CountInv'
<1> SUFFICES ASSUME NEW d \in Conns, codecOpen'[d], ~Overcounted(d)', runPc'[d] # "exit"
             PROVE  pendingWg'[d] = Cardinality(Unanswered(d)')
  BY DEF CountInv
<1>1. pendingWg[d] = Cardinality(Unanswered(d))
  BY CountedBefore
<1>2. PICK S \in SUBSET group[c][w] :
         /\ codecOpen'[c] => S = group[c][w]
         /\ \A q \in Reqs :
               answers'[q] = IF q \in S THEN Append(answers[q], GroupResponse(q))
                                        ELSE answers[q]
  BY GroupAnswers
<1>3. group[c][w] \subseteq Unanswered(c)
  <2>1. group[c][w] \subseteq Reqs
    BY DEF TypeOK, ConnTypeOK
  <2>2. \A q \in group[c][w] : AwaitsWriter(q, c) \/ AnsweredFirst(q, c)
    BY DEF AnswerInv, GroupInv, Writers
  <2> QED
    BY <2>1, <2>2 DEF Unanswered, Accepted, AwaitsWriter, AnsweredFirst
<1>4. on' = on /\ \A q \in Reqs : answers[q] \in Seq(Responses)
  BY DEF WriteGroup, TypeOK, ConnTypeOK
<1>5. CASE d = c
  <2> DEFINE n == Cardinality(group[c][w])
  <2>1. n \in Nat /\ n <= pendingWg[c]
    BY <1>1, <1>3, <1>5, GroupFinite, UnansweredFinite, FS_Subset
  <2>2. pendingWg'[c] = pendingWg[c] - n
    <3>1. ~Panics(c, n)
      BY <2>1 DEF Panics, TypeOK, ConnTypeOK
    <3>2. pendingWg' = [pendingWg EXCEPT ![c] = @ - n]
      BY <3>1 DEF WriteGroup, WgDone
    <3> QED
      BY <3>2 DEF TypeOK, ConnTypeOK
  <2>3. \A q \in Reqs : answers'[q] = <<>> <=> answers[q] = <<>> /\ q \notin S
    BY <1>2, <1>4, ResponseTypes, AppendNotEmpty
  <2>4. Unanswered(c)' = Unanswered(c) \ group[c][w]
    BY <1>2, <1>4, <1>5, <2>3 DEF Unanswered, Accepted
  <2>5. Cardinality(Unanswered(c) \ group[c][w]) = Cardinality(Unanswered(c)) - n
    <3>1. Unanswered(c) \cap group[c][w] = group[c][w]
      BY <1>3
    <3> QED
      BY <3>1, UnansweredFinite, FS_Difference
  <2> QED
    BY <1>1, <1>5, <2>2, <2>4, <2>5
<1>6. CASE d # c
  <2>1. \A q \in S : on[q] = c
    BY <1>2, <1>3 DEF Unanswered, Accepted
  <2>2. Unanswered(d)' = Unanswered(d)
    BY <1>2, <1>4, <1>6, <2>1 DEF Unanswered, Accepted
  <2>3. pendingWg'[d] = pendingWg[d]
    BY <1>6 DEF WriteGroup, WgDone, TypeOK, ConnTypeOK
  <2> QED
    BY <1>1, <2>2, <2>3
<1> QED
  BY <1>5, <1>6

LEMMA CountStep ==
  TypeOK /\ AnswerInv /\ CountInv /\ Grows /\ [Next]_vars => CountInv'
<1> SUFFICES ASSUME TypeOK, AnswerInv, CountInv, Grows, [Next]_vars PROVE CountInv'
  OBVIOUS
<1>1. CASE UNCHANGED <<pendingWg, on, answers>>
  BY <1>1, CountKept
<1>2. ASSUME NEW c \in Conns, RoutineRun(c) PROVE CountInv'
  <2>1. CASE ReadReturns(c)
    <3>1. CASE ReadStopping(c)
      BY <1>1, <3>1 DEF ReadStopping, requestVars
    <3> QED
      BY <2>1, <3>1, ReadCount DEF ReadReturns
  <2>2. CASE Reply(c)
    BY <2>2, ReplyCount
  <2>3. CASE WriteGroup(c, "run")
    BY <2>3, WriteCount DEF Writers
  <2>4. CASE \/ Wait(c) \/ Collect(c, "run") \/ Dispatch(c) \/ DispatchError(c)
             \/ CloseDoneChan(c) \/ CloseCodec(c) \/ OneServerConnStop(c)
    BY <1>1, <2>4 DEF Wait, Collect, Dispatch, DispatchError, CloseDoneChan, CloseCodec,
                      OneServerConnStop, LeaveStep, requestVars
  <2> QED
    BY <1>2, <2>1, <2>2, <2>3, <2>4 DEF RoutineRun
<1>3. ASSUME NEW c \in Conns, RoutineWriteResponse(c) PROVE CountInv'
  <2>1. CASE WriteGroup(c, "write")
    BY <2>1, WriteCount DEF Writers
  <2>2. CASE Recv(c) \/ RecvClosed(c) \/ Collect(c, "write") \/ CollectClosed(c)
    BY <1>1, <2>2 DEF Recv, RecvClosed, Collect, CollectClosed, requestVars
  <2> QED
    BY <1>3, <2>1, <2>2 DEF RoutineWriteResponse
<1>4. CASE \E q \in Reqs : RoutineDoCall(q)
  BY <1>1, <1>4 DEF RoutineDoCall, MethodReturns, WhenFuncCallDone
<1>5. CASE StartRoutine \/ StopRoutine \/ UNCHANGED vars
  BY <1>1, <1>5 DEF StartRoutine, Start, AcceptFails, Sleep, ListConn, Serve, StartConn,
                    Accept, StopRoutine, Stop, CloseListener, StopConns, vars, connVars,
                    requestVars
<1> QED
  BY <1>2, <1>3, <1>4, <1>5 DEF Next, Conn

-----------------------------------------------------------------------------
(* What pendingWg waits for, written or not.                               *)

LEMMA HeldFinite ==
  ASSUME NEW c \in Conns
  PROVE  IsFiniteSet(Held(c)) /\ Cardinality(Held(c)) \in Nat
<1>1. Held(c) \in SUBSET Reqs
  BY DEF Held, Accepted
<1> QED
  BY <1>1, FS_Subset, FS_CardinalityType, ServerConnAssumption

LEMMA HeldBefore ==
  ASSUME TypeOK, HeldInv, Grows, NEW c \in Conns, ~Overcounted(c)', runPc'[c] # "exit"
  PROVE  /\ ~Overcounted(c) /\ pendingWg[c] = Cardinality(Held(c))
         /\ pendingWg[c] \in Int
BY OvercountedStays DEF Grows, HeldInv, TypeOK, ConnTypeOK

\* As long as pendingWg does not change, neither may the requests that it counts.
LEMMA HeldSame ==
  ASSUME TypeOK, HeldInv, Grows, pendingWg' = pendingWg,
         \A c \in Conns : ~Overcounted(c)' /\ runPc'[c] # "exit" => Held(c)' = Held(c)
  PROVE  HeldInv'
<1> SUFFICES ASSUME NEW c \in Conns, ~Overcounted(c)', runPc'[c] # "exit"
             PROVE  pendingWg'[c] = Cardinality(Held(c)')
  BY DEF HeldInv
<1> QED
  BY HeldBefore

LEMMA QuietHeld ==
  ASSUME TypeOK, HeldInv, Grows,
         UNCHANGED <<pendingWg, doneChan, current, kind, on, callPc, ret>>,
         \A c \in Conns : runPc'[c] # "exit" =>
            /\ \A w \in Writers : group'[c][w] = group[c][w]
            /\ runPc'[c] = "reply" <=> runPc[c] = "reply"
  PROVE  HeldInv'
<1>1. \A c \in Conns : runPc'[c] # "exit" => Held(c)' = Held(c)
  BY DEF Held, Accepted, Stuck
<1> QED
  BY <1>1, HeldSame

LEMMA TakeHeld ==
  ASSUME TypeOK, AnswerInv, HeldInv, Grows, NEW c \in Conns, NEW w \in Writers,
         Collect(c, w) \/ Recv(c)
  PROVE  HeldInv'
<1>1. /\ UNCHANGED <<pendingWg, runPc, current, kind, on, callPc, ret>>
      /\ doneChan[c] # <<>> /\ doneChan' = [doneChan EXCEPT ![c] = Tail(@)]
      /\ doneChan \in [Conns -> Seq(Reqs)] /\ group \in [Conns -> [Writers -> SUBSET Reqs]]
  BY DEF Collect, Recv, runVars, requestVars, TypeOK, ConnTypeOK
<1>2. \E u \in Writers :
         \A d \in Conns, v \in Writers :
            group'[d][v] = IF d = c /\ v = u THEN group[d][v] \cup {doneChan[c][1]}
                                             ELSE group[d][v]
  <2>1. CASE Collect(c, w)
    <3>1. group' = [group EXCEPT ![c][w] = @ \cup {doneChan[c][1]}]
      BY <1>1, <2>1 DEF Collect
    <3>2. \A d \in Conns, v \in Writers :
            group'[d][v] = IF d = c /\ v = w THEN group[d][v] \cup {doneChan[c][1]}
                                             ELSE group[d][v]
      BY <1>1, <3>1
    <3> QED
      BY <3>2
  <2>2. CASE Recv(c)
    <3>1. group[c]["write"] = {} /\ "write" \in Writers
      BY <2>2 DEF Recv, AnswerInv, GroupInv, Writers
    <3>2. \A d \in Conns, v \in Writers :
            group'[d][v] = IF d = c /\ v = "write" THEN group[d][v] \cup {doneChan[c][1]}
                                                   ELSE group[d][v]
      <4>1. group' = [group EXCEPT ![c]["write"] = {doneChan[c][1]}]
        BY <1>1, <2>2 DEF Recv
      <4>2. \A d \in Conns, v \in Writers :
               group'[d][v] = IF d = c /\ v = "write" THEN {doneChan[c][1]} ELSE group[d][v]
        BY <1>1, <4>1
      <4> QED
        BY <3>1, <4>2
    <3> QED
      BY <3>1, <3>2
  <2> QED
    BY <2>1, <2>2
<1>3. /\ 1 \in 1 .. Len(doneChan[c])
      /\ \A i \in 1 .. Len(doneChan'[c]) : /\ i + 1 \in 1 .. Len(doneChan[c])
                                           /\ doneChan'[c][i] = doneChan[c][i + 1]
      /\ \A i \in 1 .. Len(doneChan[c]) :
            i # 1 => /\ i - 1 \in 1 .. Len(doneChan'[c])
                     /\ doneChan'[c][i - 1] = doneChan[c][i]
      /\ \A d \in Conns : d # c => doneChan'[d] = doneChan[d]
  BY <1>1
<1>4. ASSUME NEW d \in Conns, NEW q \in Reqs
      PROVE  (\E i \in 1 .. Len(doneChan[d]) : doneChan[d][i] = q)
                <=> \/ \E i \in 1 .. Len(doneChan'[d]) : doneChan'[d][i] = q
                    \/ d = c /\ q = doneChan[c][1]
  <2>1. CASE d = c
    BY <1>3, <2>1
  <2>2. CASE d # c
    BY <1>3, <2>2
  <2> QED
    BY <2>1, <2>2
<1>5. ASSUME NEW d \in Conns, NEW q \in Reqs
      PROVE  (q \in Held(d)') <=> (q \in Held(d))
  <2>1. ((\E i \in 1 .. Len(doneChan'[d]) : doneChan'[d][i] = q)
            \/ \E v \in Writers : q \in group'[d][v])
          <=> ((\E i \in 1 .. Len(doneChan[d]) : doneChan[d][i] = q)
                 \/ \E v \in Writers : q \in group[d][v])
    <3>1. (\E v \in Writers : q \in group'[d][v])
             <=> (\E v \in Writers : q \in group[d][v]) \/ (d = c /\ q = doneChan[c][1])
      <4>1. PICK u \in Writers :
               \A v \in Writers :
                  group'[d][v] = IF d = c /\ v = u THEN group[d][v] \cup {doneChan[c][1]}
                                                   ELSE group[d][v]
        BY <1>2
      <4>2. \A v \in Writers : q \in group'[d][v]
                  <=> q \in group[d][v] \/ (d = c /\ v = u /\ q = doneChan[c][1])
        BY <4>1
      <4> QED
        BY <4>2
    <3> QED
      BY <1>4, <3>1
  <2>2. q \in Stuck(d)' <=> q \in Stuck(d)
    BY <1>1 DEF Stuck, Accepted
  <2> QED
    BY <1>1, <2>1, <2>2 DEF Held, Accepted
<1>6. \A d \in Conns : Held(d)' = Held(d)
  BY <1>5 DEF Held, Accepted
<1> QED
  BY <1>1, <1>6, HeldSame

LEMMA DispatchHeld ==
  ASSUME TypeOK, AnswerInv, HeldInv, Grows, NEW c \in Conns, Dispatch(c) \/ DispatchError(c)
  PROVE  HeldInv'
<1>1. PICK q \in Reqs : q = current[c]
  BY DEF Dispatch, DispatchError, TypeOK, ConnTypeOK
<1>2. /\ on[q] = c /\ kind[q] \in {"call", "dummy"} /\ callPc[q] = "none"
      /\ runPc[c] = "dispatch"
  BY <1>1 DEF Dispatch, DispatchError, AnswerInv, CurrentInv
<1>3. /\ UNCHANGED <<pendingWg, current, doneChan, group, kind, on, ret>>
      /\ \A p \in Reqs : p # q => callPc'[p] = callPc[p]
      /\ \A d \in Conns : d # c => runPc'[d] = runPc[d]
      /\ \/ callPc'[q] = "running" /\ runPc'[c] # "reply"
         \/ callPc'[q] = "refused" /\ runPc'[c] = "reply"
  BY <1>1 DEF Dispatch, DispatchError, chanVars, writerVars, TypeOK, ConnTypeOK
<1>4. ASSUME NEW d \in Conns, ~Overcounted(d)', NEW p \in Reqs, on[p] = d
      PROVE  p \in Held(d)' <=> p \in Held(d)
  <2>1. CASE p = q
    <3>1. d = c
      BY <1>2, <1>4, <2>1
    <3>2. CASE kind[q] = "call"
      BY <1>1, <1>2, <1>3, <1>4, <2>1, <3>1, <3>2 DEF Held, Accepted
    <3>3. CASE kind[q] = "dummy"
      <4>1. callPc'[q] # "refused"
        BY <1>3, <1>4, <2>1, <3>3 DEF Overcounted, Accepted, Refused
      <4>2. runPc'[d] # "reply" /\ runPc[d] # "reply"
        BY <1>2, <1>3, <3>1, <4>1
      <4> QED
        BY <1>3, <1>4, <2>1, <3>3, <4>2 DEF Held, Accepted, Stuck
    <3> QED
      BY <1>2, <3>2, <3>3
  <2>2. CASE p # q
    <3>1. runPc'[d] = "reply" /\ p = current[d] <=> runPc[d] = "reply" /\ p = current[d]
      BY <1>1, <1>2, <1>3, <2>2
    <3> QED
      BY <1>3, <1>4, <2>2, <3>1 DEF Held, Accepted, Stuck
  <2> QED
    BY <2>1, <2>2
<1>5. ASSUME NEW d \in Conns, ~Overcounted(d)'
      PROVE  Held(d)' = Held(d)
  <2>1. /\ Held(d) \subseteq Reqs /\ \A p \in Held(d) : on[p] = d
        /\ Held(d)' \subseteq Reqs /\ \A p \in Held(d)' : on[p] = d
    BY <1>3 DEF Held, Accepted
  <2> QED
    BY <1>4, <1>5, <2>1
<1> QED
  BY <1>3, <1>5, HeldSame

LEMMA CallHeld ==
  ASSUME TypeOK, AnswerInv, HeldInv, WorkInv, Grows, NEW q \in Reqs, RoutineDoCall(q)
  PROVE  HeldInv'
<1>1. /\ UNCHANGED <<pendingWg, runPc, current, group, kind, on>>
      /\ callPc[q] \in {"running", "returned"}
      /\ \A p \in Reqs : p # q => callPc'[p] = callPc[p] /\ ret'[p] = ret[p]
      /\ kind[q] \in {"call", "dummy"} /\ on[q] \in Conns
  BY ServerConnAssumption
     DEF RoutineDoCall, MethodReturns, WhenFuncCallDone, runVars, writerVars,
         AnswerInv, RequestInv, AllKinds, TypeOK, ConnTypeOK
<1>2. \/ /\ doneChan' = doneChan
         /\ kind[q] = "call" =>
               \/ callPc'[q] = "returned"
               \/ callPc'[q] = "ended" /\ ret'[q] = "panic"
               \/ runPc[on[q]] = "exit"
      \/ kind[q] = "call" /\ doneChan' = [doneChan EXCEPT ![on[q]] = Append(@, q)]
  <2>1. ASSUME NEW r \in Rets, MethodReturns(q, r)
        PROVE  /\ doneChan' = doneChan
               /\ \/ callPc'[q] = "returned"
                  \/ callPc'[q] = "ended" /\ ret'[q] = "panic"
    BY <2>1 DEF MethodReturns, chanVars, TypeOK, ConnTypeOK
  <2>2. CASE WhenFuncCallDone(q)
    <3>1. ~chanOpen[on[q]] => runPc[on[q]] = "exit"
      BY <1>1 DEF WorkInv
    <3>2. \/ doneChan' = doneChan /\ (kind[q] = "dummy" \/ ~chanOpen[on[q]])
          \/ kind[q] = "call" /\ doneChan' = [doneChan EXCEPT ![on[q]] = Append(@, q)]
      BY <2>2 DEF WhenFuncCallDone
    <3> QED
      BY <3>1, <3>2
  <2> QED
    BY <2>1, <2>2 DEF RoutineDoCall
<1>3. ASSUME NEW d \in Conns, NEW p \in Reqs
      PROVE  (\E i \in 1 .. Len(doneChan'[d]) : doneChan'[d][i] = p)
                <=> \/ \E j \in 1 .. Len(doneChan[d]) : doneChan[d][j] = p
                    \/ doneChan' # doneChan /\ p = q /\ d = on[q]
  <2>1. CASE doneChan' = doneChan
    BY <2>1
  <2>2. CASE doneChan' # doneChan
    <3>1. /\ doneChan[d] \in Seq(Reqs)
          /\ doneChan'[d] = IF d = on[q] THEN Append(doneChan[d], q) ELSE doneChan[d]
      <4>1. doneChan' = [doneChan EXCEPT ![on[q]] = Append(@, q)]
        BY <1>2, <2>2
      <4>2. doneChan \in [Conns -> Seq(Reqs)]
        BY DEF TypeOK, ConnTypeOK
      <4> QED
        BY <4>1, <4>2
    <3>2. CASE d = on[q]
      <4> DEFINE s == doneChan[d]
      <4>1. s \in Seq(Reqs) /\ doneChan'[d] = Append(s, q)
        BY <3>1, <3>2
      <4> HIDE DEF s
      <4>2. /\ Len(s) \in Nat /\ Len(Append(s, q)) = Len(s) + 1
            /\ Append(s, q)[Len(s) + 1] = q
            /\ \A i \in 1 .. Len(s) : Append(s, q)[i] = s[i]
        BY <4>1
      <4>3. (\E i \in 1 .. Len(s) + 1 : Append(s, q)[i] = p)
               <=> (\E i \in 1 .. Len(s) : s[i] = p) \/ p = q
        BY <4>2
      <4> QED
        BY <2>2, <3>2, <4>1, <4>2, <4>3 DEF s
    <3>3. CASE d # on[q]
      BY <3>1, <3>3
    <3> QED
      BY <3>2, <3>3
  <2> QED
    BY <2>1, <2>2
<1>4. ASSUME NEW d \in Conns, runPc'[d] # "exit", NEW p \in Reqs, on[p] = d
      PROVE  p \in Held(d)' <=> p \in Held(d)
  <2>1. CASE p = q /\ kind[q] = "call"
    <3>1. p \in Held(d)
      BY <1>1, <1>4, <2>1 DEF Held, Accepted
    <3>2. CASE doneChan' # doneChan
      <4>1. \E i \in 1 .. Len(doneChan'[d]) : doneChan'[d][i] = p
        BY <1>3, <1>4, <2>1, <3>2
      <4>2. p \in Held(d)'
        BY <1>1, <1>4, <4>1 DEF Held, Accepted
      <4> QED
        BY <3>1, <4>2
    <3>3. CASE doneChan' = doneChan
      <4>1. callPc'[q] = "returned" \/ (callPc'[q] = "ended" /\ ret'[q] = "panic")
            \/ doneChan' = [doneChan EXCEPT ![on[q]] = Append(@, q)]
        BY <1>1, <1>2, <1>4, <2>1
      <4>2. ~(doneChan' = [doneChan EXCEPT ![on[q]] = Append(@, q)])
        <5>1. doneChan[on[q]] \in Seq(Reqs)
          BY <1>1 DEF TypeOK, ConnTypeOK
        <5>2. Len(Append(doneChan[on[q]], q)) # Len(doneChan[on[q]])
          BY <5>1
        <5> QED
          BY <1>1, <3>3, <5>2 DEF TypeOK, ConnTypeOK
      <4> QED
        BY <1>1, <1>4, <2>1, <4>1, <4>2 DEF Held, Accepted, Stuck
    <3> QED
      BY <3>1, <3>2, <3>3
  <2>2. CASE p # q \/ kind[q] = "dummy"
    <3>1. (\E i \in 1 .. Len(doneChan'[d]) : doneChan'[d][i] = p)
             <=> \E i \in 1 .. Len(doneChan[d]) : doneChan[d][i] = p
      BY <1>2, <1>3, <2>2
    <3>2. (p \in Stuck(d)') <=> (p \in Stuck(d))
      BY <1>1, <2>2 DEF Stuck, Accepted
    <3>3. kind[p] = "call" /\ callPc'[p] \in {"none", "running", "returned"}
             <=> kind[p] = "call" /\ callPc[p] \in {"none", "running", "returned"}
      BY <1>1, <2>2
    <3> QED
      BY <1>1, <3>1, <3>2, <3>3 DEF Held, Accepted
  <2> QED
    BY <1>1, <2>1, <2>2
<1>5. ASSUME NEW d \in Conns, runPc'[d] # "exit"
      PROVE  Held(d)' = Held(d)
  <2>1. /\ Held(d) \subseteq Reqs /\ \A p \in Held(d) : on[p] = d
        /\ Held(d)' \subseteq Reqs /\ \A p \in Held(d)' : on[p] = d
    BY <1>1 DEF Held, Accepted
  <2> QED
    BY <1>4, <1>5, <2>1
<1> QED
  BY <1>1, <1>5, HeldSame

LEMMA ReadHeld ==
  ASSUME TypeOK, AnswerInv, HeldInv, Grows, NEW c \in Conns,
         ReadFails(c) \/ \E q \in Reqs, k \in Kinds : ReadRequest(c, q, k)
  PROVE  HeldInv'
<1> SUFFICES ASSUME NEW d \in Conns, ~Overcounted(d)', runPc'[d] # "exit"
             PROVE  pendingWg'[d] = Cardinality(Held(d)')
  BY DEF HeldInv
<1>1. pendingWg[d] = Cardinality(Held(d)) /\ pendingWg[d] \in Int
  BY HeldBefore
<1>2. CASE ReadFails(c)
  <2>1. d # c
    BY <1>2 DEF ReadFails, Break, TypeOK, ConnTypeOK
  <2>2. Held(d)' = Held(d) /\ pendingWg'[d] = pendingWg[d]
    BY <1>2, <2>1 DEF ReadFails, Break, chanVars, writerVars, requestVars, Held, Accepted,
                      Stuck, TypeOK, ConnTypeOK
  <2> QED
    BY <1>1, <2>2
<1>3. ASSUME NEW q \in Reqs, NEW k \in Kinds, ReadRequest(c, q, k)
      PROVE  pendingWg'[d] = Cardinality(Held(d)')
  <2>1. /\ on[q] = Nil /\ Nil \notin Conns /\ callPc[q] = "none" /\ runPc[c] = "read"
        /\ \A p \in Reqs : p # q => on'[p] = on[p] /\ kind'[p] = kind[p]
        /\ on'[q] = c /\ kind'[q] = k
        /\ \A e \in Conns : e # c => current'[e] = current[e] /\ runPc'[e] = runPc[e]
        /\ current'[c] = q /\ runPc'[c] = AfterRead[k]
        /\ pendingWg'[d] = IF d = c THEN pendingWg[d] + 1 ELSE pendingWg[d]
        /\ UNCHANGED <<doneChan, callPc, ret>>
    BY <1>3, ServerConnAssumption
       DEF ReadRequest, AnswerInv, RequestInv, chanVars, TypeOK, ConnTypeOK
  <2>2. \A e \in Conns, w \in Writers :
           group'[e][w] = IF e = c /\ w = "run" /\ k = "dummy" THEN {q} ELSE group[e][w]
    BY <1>3 DEF ReadRequest, Writers, TypeOK, ConnTypeOK
  <2>3. group[c]["run"] = {}
    BY <2>1 DEF AnswerInv, GroupInv
  <2>4. \A p \in Reqs : p # q /\ on[p] = d => (p \in Held(d)' <=> p \in Held(d))
    <3> SUFFICES ASSUME NEW p \in Reqs, p # q, on[p] = d
                 PROVE  p \in Held(d)' <=> p \in Held(d)
      OBVIOUS
    <3>1. (\E w \in Writers : p \in group'[d][w]) <=> \E w \in Writers : p \in group[d][w]
      BY <2>2, <2>3
    <3>2. runPc'[d] = "reply" /\ p = current'[d] <=> runPc[d] = "reply" /\ p = current[d]
      BY <2>1
    <3>3. (p \in Stuck(d)') <=> (p \in Stuck(d))
      BY <2>1 DEF Stuck, Accepted
    <3> QED
      BY <2>1, <3>1, <3>2, <3>3 DEF Held, Accepted
  <2>5. q \notin Held(d)
    BY <2>1 DEF Held, Accepted
  <2>6. CASE d = c
    <3>1. q \in Held(c)'
      <4>1. k \in AllKinds
        BY ServerConnAssumption
      <4>2. CASE k = "call"
        BY <2>1, <4>2 DEF Held, Accepted
      <4>3. CASE k = "dummy"
        <5>1. "run" \in Writers /\ q \in group'[c]["run"]
          BY <2>2, <4>3 DEF Writers
        <5> QED
          BY <2>1, <5>1 DEF Held, Accepted
      <4>4. CASE k \in {"ping", "bad"}
        BY <2>1, <4>4 DEF AfterRead, Held, Accepted
      <4>5. CASE k = "noname"
        BY <2>1, <4>5 DEF Held, Accepted, Stuck
      <4> QED
        BY <4>1, <4>2, <4>3, <4>4, <4>5 DEF AllKinds
    <3>2. Held(c)' = Held(c) \cup {q}
      <4>1. /\ Held(c) \subseteq Reqs /\ \A p \in Held(c) : on[p] = c
            /\ Held(c)' \subseteq Reqs /\ \A p \in Held(c)' : on'[p] = c
        BY DEF Held, Accepted
      <4> QED
        BY <2>1, <2>4, <2>6, <3>1, <4>1
    <3>3. Cardinality(Held(c) \cup {q}) = Cardinality(Held(c)) + 1
      BY <2>5, <2>6, HeldFinite, FS_AddElement
    <3> QED
      BY <1>1, <2>1, <2>6, <3>2, <3>3
  <2>7. CASE d # c
    <3>1. Held(d)' = Held(d)
      <4>1. /\ Held(d) \subseteq Reqs /\ \A p \in Held(d) : on[p] = d
            /\ Held(d)' \subseteq Reqs /\ \A p \in Held(d)' : on'[p] = d
        BY DEF Held, Accepted
      <4>2. on[q] # d /\ on'[q] # d
        BY <2>1, <2>7
      <4>3. \A p \in Reqs : p # q => (on'[p] = d <=> on[p] = d)
        BY <2>1
      <4>4. \A p \in Reqs : p \in Held(d)' <=> p \in Held(d)
        BY <2>4, <4>1, <4>2, <4>3
      <4> QED
        BY <4>1, <4>4
    <3> QED
      BY <1>1, <2>1, <2>7, <3>1
  <2> QED
    BY <2>6, <2>7
<1> QED
  BY <1>2, <1>3

\* What is taken off pendingWg is no longer held.
LEMMA HeldTakenOff ==
  ASSUME TypeOK, HeldInv, Grows, NEW c \in Conns, NEW G,
         \A d \in Conns : d # c => Held(d)' = Held(d),
         ~Overcounted(c)' => G \subseteq Held(c) /\ Held(c)' = Held(c) \ G,
         WgDone(c, Cardinality(G))
  PROVE  HeldInv'
<1> SUFFICES ASSUME NEW d \in Conns, ~Overcounted(d)', runPc'[d] # "exit"
             PROVE  pendingWg'[d] = Cardinality(Held(d)')
  BY DEF HeldInv
<1>1. pendingWg[d] = Cardinality(Held(d)) /\ pendingWg[d] \in Int
  BY HeldBefore
<1>2. CASE d # c
  <2>1. pendingWg'[d] = pendingWg[d]
    BY <1>2 DEF WgDone, TypeOK, ConnTypeOK
  <2> QED
    BY <1>1, <1>2, <2>1
<1>3. CASE d = c
  <2> DEFINE n == Cardinality(G)
  <2>1. G \subseteq Held(c) /\ Held(c)' = Held(c) \ G
    BY <1>3
  <2>2. IsFiniteSet(G) /\ n \in Nat /\ n <= Cardinality(Held(c))
    BY <2>1, HeldFinite, FS_Subset, FS_CardinalityType
  <2>3. pendingWg'[c] = pendingWg[c] - n
    <3>1. ~Panics(c, n)
      BY <1>1, <1>3, <2>2, HeldFinite DEF Panics
    <3>2. pendingWg' = [pendingWg EXCEPT ![c] = @ - n]
      BY <3>1 DEF WgDone
    <3> QED
      BY <3>2 DEF TypeOK, ConnTypeOK
  <2>4. Cardinality(Held(c) \ G) = Cardinality(Held(c)) - n
    <3>1. Held(c) \cap G = G
      BY <2>1
    <3> QED
      BY <3>1, HeldFinite, FS_Difference
  <2> QED
    BY <1>1, <1>3, <2>1, <2>3, <2>4
<1> QED
  BY <1>2, <1>3

LEMMA ReplyHeld ==
  ASSUME TypeOK, AnswerInv, HeldInv, Grows, NEW c \in Conns, Reply(c)
  PROVE  HeldInv'
<1>1. PICK q \in Reqs : q = current[c]
  BY ReplyAnswers
<1>2. /\ on[q] = c /\ runPc[c] = "reply"
      /\ kind[q] \in {"ping", "bad"} \/ callPc[q] = "refused"
  BY <1>1 DEF Reply, AnswerInv, CurrentInv
<1>3. /\ UNCHANGED <<current, doneChan, group, kind, on, callPc, ret>>
      /\ runPc'[c] # "reply" /\ \A d \in Conns : d # c => runPc'[d] = runPc[d]
      /\ WgDone(c, 1)
  BY DEF Reply, PanicInRun, chanVars, writerVars, TypeOK, ConnTypeOK
<1>4. Cardinality({q}) = 1
  BY FS_Singleton
<1>5. \A d \in Conns : d # c => Held(d)' = Held(d)
  BY <1>3 DEF Held, Accepted, Stuck
<1>6. {q} \subseteq Held(c)
  BY <1>1, <1>2 DEF Held, Accepted
<1>7. q \notin Held(c)'
  <2>1. ~AwaitsWriter(q, c) /\ ~AnsweredFirst(q, c)
    BY <1>2 DEF AwaitsWriter, AnsweredFirst
  <2>2. \A i \in 1 .. Len(doneChan[c]) : doneChan[c][i] # q
    BY <2>1 DEF AnswerInv, ChanInv
  <2>3. \A w \in Writers : q \notin group[c][w]
    BY <2>1 DEF AnswerInv, GroupInv, Writers
  <2>4. /\ ~(kind[q] = "call" /\ callPc[q] \in {"none", "running", "returned"})
        /\ q \notin Stuck(c)
    BY <1>2 DEF Stuck, AnswerInv, RequestInv
  <2> QED
    BY <1>3, <2>2, <2>3, <2>4 DEF Held, Accepted, Stuck
<1>8. Held(c)' = Held(c) \ {q}
  <2>1. \A p \in Reqs : p # q => (p \in Held(c)' <=> p \in Held(c))
    BY <1>1, <1>3 DEF Held, Accepted, Stuck
  <2> QED
    BY <1>7, <2>1 DEF Held, Accepted
<1>9. WgDone(c, Cardinality({q}))
  BY <1>3, <1>4
<1> QED
  BY <1>5, <1>6, <1>8, <1>9, HeldTakenOff

LEMMA WriteHeld ==
  ASSUME TypeOK, AnswerInv, HeldInv, Grows, NEW c \in Conns, NEW w \in Writers,
         WriteGroup(c, w)
  PROVE  HeldInv'
<1> DEFINE G == group[c][w]
<1>1. /\ UNCHANGED <<current, doneChan, kind, on, callPc, ret>>
      /\ \A d \in Conns : runPc'[d] = "reply" <=> runPc[d] = "reply"
      /\ \A d \in Conns, v \in Writers :
            group'[d][v] = IF d = c /\ v = w THEN {} ELSE group[d][v]
      /\ WgDone(c, Cardinality(G))
      /\ G \subseteq Reqs
  BY DEF WriteGroup, Collecting, PanicInRun, SendGroup, chanVars, TypeOK, ConnTypeOK
<1>2. \A d \in Conns : d # c => Held(d)' = Held(d)
  BY <1>1 DEF Held, Accepted, Stuck
<1>3. \A q \in G : \/ AwaitsWriter(q, c)
                   \/ w = "run" /\ AnsweredFirst(q, c)
  <2>1. CASE w = "run"
    BY <2>1 DEF AnswerInv, GroupInv
  <2>2. CASE w = "write"
    BY <2>2 DEF AnswerInv, GroupInv
  <2> QED
    BY <2>1, <2>2 DEF Writers
<1>4. G \subseteq Held(c)
  BY <1>1, <1>3 DEF Held, Accepted, AwaitsWriter, AnsweredFirst
<1>5. \A q \in G : q \notin Held(c)'
  <2> SUFFICES ASSUME NEW q \in Reqs, q \in G PROVE q \notin Held(c)'
    BY <1>1
  <2>1. \A i \in 1 .. Len(doneChan[c]) : doneChan[c][i] # q
    BY DEF AnswerInv, ChanInv
  <2>2. \A v \in Writers : q \notin group'[c][v]
    BY <1>1 DEF AnswerInv, GroupInv, Writers
  <2>3. /\ ~(kind[q] = "call" /\ callPc[q] \in {"none", "running", "returned"})
        /\ q \notin Stuck(c)
    BY <1>3 DEF AwaitsWriter, AnsweredFirst, Stuck
  <2>4. ~(runPc'[c] = "reply" /\ q = current[c])
    BY <1>1, <1>3 DEF AwaitsWriter, AnsweredFirst, AnswerInv, CurrentInv
  <2> QED
    BY <1>1, <2>1, <2>2, <2>3, <2>4 DEF Held, Accepted, Stuck
<1>6. Held(c)' = Held(c) \ G
  <2>1. \A p \in Reqs : p \notin G => (p \in Held(c)' <=> p \in Held(c))
    BY <1>1 DEF Held, Accepted, Stuck
  <2> QED
    BY <1>5, <2>1 DEF Held, Accepted
<1> HIDE DEF G
<1> QED
  BY <1>1, <1>2, <1>4, <1>6, HeldTakenOff

LEMMA HeldStep ==
  TypeOK /\ ListInv /\ AnswerInv /\ HeldInv /\ WorkInv /\ Grows /\ [Next]_vars => HeldInv'
<1> SUFFICES ASSUME TypeOK, ListInv, AnswerInv, HeldInv, WorkInv, Grows, [Next]_vars
             PROVE  HeldInv'
  OBVIOUS
<1>1. CASE /\ UNCHANGED <<pendingWg, doneChan, current, kind, on, callPc, ret, group>>
           /\ \A c \in Conns : runPc'[c] = "exit" \/ (runPc'[c] = "reply" <=> runPc[c] = "reply")
  BY <1>1, QuietHeld
<1>2. ASSUME NEW c \in Conns, RoutineRun(c) PROVE HeldInv'
  <2>1. CASE ReadReturns(c)
    <3>1. CASE ReadStopping(c)
      BY <1>1, <3>1 DEF ReadStopping, chanVars, writerVars, requestVars, TypeOK, ConnTypeOK
    <3> QED
      BY <2>1, <3>1, ReadHeld DEF ReadReturns
  <2>2. CASE Reply(c)
    BY <2>2, ReplyHeld
  <2>3. CASE WriteGroup(c, "run") \/ Collect(c, "run")
    BY <2>3, WriteHeld, TakeHeld DEF Writers
  <2>4. CASE Dispatch(c) \/ DispatchError(c)
    BY <2>4, DispatchHeld
  <2>5. CASE Wait(c) \/ CloseDoneChan(c) \/ CloseCodec(c) \/ OneServerConnStop(c)
    BY <1>1, <2>5 DEF Wait, Break, CloseDoneChan, CloseCodec, OneServerConnStop, LeaveStep,
                      chanVars, writerVars, requestVars, TypeOK, ConnTypeOK
  <2> QED
    BY <1>2, <2>1, <2>2, <2>3, <2>4, <2>5 DEF RoutineRun
<1>3. ASSUME NEW c \in Conns, RoutineWriteResponse(c) PROVE HeldInv'
  <2>1. CASE WriteGroup(c, "write") \/ Recv(c) \/ Collect(c, "write")
    BY <2>1, WriteHeld, TakeHeld DEF Writers
  <2>2. CASE RecvClosed(c)
    BY <1>1, <2>2 DEF RecvClosed, runVars, chanVars, requestVars
  <2>3. CASE CollectClosed(c)
    <3>1. /\ runPc' = runPc /\ runPc[c] = "exit"
          /\ \A d \in Conns : d # c => group'[d] = group[d]
      BY <2>3 DEF CollectClosed, runVars, WorkInv, TypeOK, ConnTypeOK
    <3> QED
      BY <2>3, <3>1, QuietHeld DEF CollectClosed, runVars, chanVars, requestVars
  <2> QED
    BY <1>3, <2>1, <2>2, <2>3 DEF RoutineWriteResponse
<1>4. ASSUME NEW q \in Reqs, RoutineDoCall(q) PROVE HeldInv'
  BY <1>4, CallHeld
<1>5. CASE StartRoutine \/ StopRoutine \/ UNCHANGED vars
  <2>1. CASE Serve
    <3>1. /\ accepted \in Conns /\ runPc' = [runPc EXCEPT ![accepted] = "read"]
          /\ runPc[accepted] = "off"
      BY <2>1 DEF Serve, StartConn, TypeOK, ListInv
    <3> QED
      BY <1>1, <2>1, <3>1 DEF Serve, StartConn, chanVars, requestVars, TypeOK, ConnTypeOK
  <2>2. CASE UNCHANGED connVars
    BY <1>1, <2>2 DEF connVars, runVars, chanVars, writerVars, requestVars
  <2> QED
    BY <1>5, <2>1, <2>2 DEF StartRoutine, Start, AcceptFails, Sleep, ListConn, Accept,
                            StopRoutine, Stop, CloseListener, StopConns, vars
<1> QED
  BY <1>2, <1>3, <1>4, <1>5 DEF Next, Conn

-----------------------------------------------------------------------------
(* The writers, and the calls that wait to be started.                     *)

\* The channel is closed, and a call is left behind, only by a read loop that ends.
LEMMA WorkRun ==
  ASSUME TypeOK, ListInv, AnswerInv, WorkInv, Grows, NEW c \in Conns, RoutineRun(c)
  PROVE  WorkInv'
<1>1. /\ UNCHANGED <<writePc>>
      /\ \A d \in Conns : d # c => /\ runPc'[d] = runPc[d] /\ chanOpen'[d] = chanOpen[d]
                                  /\ current'[d] = current[d]
      /\ runPc[c] # "off"
      /\ runPc'[c] = "exit" \/ (runPc[c] # "exit" /\ chanOpen'[c] = chanOpen[c])
  <2>1. CASE ReadReturns(c)
    BY <2>1 DEF ReadReturns, ReadFails, ReadRequest, ReadStopping, AfterRead, Break, chanVars,
                writerVars, TypeOK, ConnTypeOK
  <2>2. CASE Wait(c) \/ Reply(c) \/ Dispatch(c) \/ DispatchError(c)
    BY <2>2 DEF Wait, Reply, Dispatch, DispatchError, Break, PanicInRun, chanVars, writerVars,
                TypeOK, ConnTypeOK
  <2>3. CASE Collect(c, "run") \/ WriteGroup(c, "run")
    BY <2>3 DEF Collect, WriteGroup, SendGroup, Collecting, PanicInRun, runVars, chanVars,
                TypeOK, ConnTypeOK
  <2>4. CASE CloseDoneChan(c) \/ CloseCodec(c) \/ OneServerConnStop(c)
    <3>1. runPc[c] = "exit"
      BY <2>4 DEF CloseDoneChan, CloseCodec, OneServerConnStop, LeaveStep, ListInv
    <3> QED
      BY <2>4, <3>1 DEF CloseDoneChan, CloseCodec, OneServerConnStop, LeaveStep, chanVars,
                        writerVars, TypeOK, ConnTypeOK
  <2> QED
    BY <2>1, <2>2, <2>3, <2>4 DEF RoutineRun
<1>2. ASSUME NEW d \in Conns, runPc'[d] # "exit"
      PROVE  /\ chanOpen'[d]
             /\ \/ runPc'[d] = "off" \/ Overcounted(d)' \/ writePc'[d] \in {"recv", "collect"}
  BY <1>1, <1>2, OvercountedStays DEF WorkInv, Grows
<1>3. ASSUME NEW q \in Reqs, kind'[q] = "call", callPc'[q] = "none"
      PROVE  runPc'[on'[q]] = "dispatch" /\ current'[on'[q]] = q
  <2>1. CASE kind[q] = Nil
    <3>1. \E k \in Kinds : ReadRequest(c, q, k)
      <4>1. ASSUME NEW p \in Reqs, NEW k \in Kinds, ReadRequest(c, p, k)
            PROVE  p = q
        BY <1>3, <2>1, <4>1, ServerConnAssumption DEF ReadRequest, AllKinds, TypeOK, ConnTypeOK
      <4>2. kind' # kind
        BY <1>3, <2>1, ServerConnAssumption DEF AllKinds
      <4>3. ReadReturns(c)
        BY <4>2 DEF RoutineRun, Wait, Reply, Collect, WriteGroup, Dispatch, DispatchError,
                    CloseDoneChan, CloseCodec, OneServerConnStop, LeaveStep, requestVars
      <4>4. \E p \in Reqs, k \in Kinds : ReadRequest(c, p, k)
        BY <4>2, <4>3 DEF ReadReturns, ReadFails, ReadStopping, requestVars
      <4> QED
        BY <4>1, <4>4
    <3>2. PICK k \in Kinds : ReadRequest(c, q, k)
      BY <3>1
    <3>3. kind'[q] = k /\ on'[q] = c /\ current'[c] = q /\ runPc'[c] = AfterRead[k]
      BY <3>2 DEF ReadRequest, TypeOK, ConnTypeOK
    <3>4. runPc'[c] = "dispatch"
      BY <1>3, <3>3 DEF AfterRead
    <3> QED
      BY <3>3, <3>4
  <2>2. CASE kind[q] # Nil
    <3>1. kind'[q] = kind[q] /\ on'[q] = on[q] /\ on[q] \in Conns /\ callPc[q] = "none"
      <4>1. kind'[q] = kind[q] /\ on[q] \in Conns /\ on'[q] = on[q]
        BY <2>2 DEF Grows, AnswerInv, RequestInv
      <4>2. callPc' = callPc \/ Dispatch(c) \/ DispatchError(c)
        BY DEF RoutineRun, ReadReturns, ReadFails, ReadRequest, ReadStopping, Wait, Reply,
               Collect, WriteGroup, CloseDoneChan, CloseCodec, OneServerConnStop, LeaveStep,
               requestVars
      <4>3. callPc[q] = "none"
        BY <1>3, <4>2 DEF Dispatch, DispatchError, TypeOK, ConnTypeOK
      <4> QED
        BY <4>1, <4>3
    <3>2. runPc[on[q]] = "dispatch" /\ current[on[q]] = q
      BY <1>3, <3>1 DEF WorkInv
    <3>3. on[q] # c
      <4> SUFFICES ASSUME on[q] = c PROVE FALSE
        OBVIOUS
      <4>1. Dispatch(c) \/ DispatchError(c)
        BY <3>2 DEF RoutineRun, ReadReturns, ReadFails, ReadRequest, ReadStopping, Wait, Reply,
                    Collect, Collecting, WriteGroup, SendGroup, CloseDoneChan, CloseCodec,
                    OneServerConnStop, LeaveStep, ListInv
      <4>2. callPc'[q] # "none"
        BY <3>2, <4>1 DEF Dispatch, DispatchError, TypeOK, ConnTypeOK
      <4> QED
        BY <1>3, <4>2
    <3> QED
      BY <1>1, <3>1, <3>2, <3>3
  <2> QED
    BY <2>1, <2>2
<1> QED
  BY <1>2, <1>3 DEF WorkInv

\* A writer ends when the channel is closed, or when pendingWg is too small for its
\* group.
LEMMA WorkWriter ==
  ASSUME TypeOK, AnswerInv, HeldInv, WorkInv, Grows, NEW c \in Conns, RoutineWriteResponse(c)
  PROVE  WorkInv'
<1>1. UNCHANGED <<runPc, current, chanOpen, kind, on, callPc>>
  BY DEF RoutineWriteResponse, Recv, RecvClosed, Collect, CollectClosed, WriteGroup, runVars,
         chanVars, requestVars
<1>2. \A d \in Conns : d # c => writePc'[d] = writePc[d]
  BY DEF RoutineWriteResponse, Recv, RecvClosed, Collect, CollectClosed, WriteGroup, TypeOK,
         ConnTypeOK
<1>3. ASSUME runPc[c] # "exit", runPc[c] # "off", ~Overcounted(c)
      PROVE  writePc'[c] \in {"recv", "collect"}
  <2>1. chanOpen[c] /\ writePc[c] \in {"recv", "collect"}
    BY <1>3 DEF WorkInv
  <2>2. CASE Recv(c) \/ Collect(c, "write")
    BY <2>1, <2>2 DEF Recv, Collect, TypeOK, ConnTypeOK
  <2>3. CASE WriteGroup(c, "write")
    <3> DEFINE G == group[c]["write"]
    <3>1. G \subseteq Held(c)
      BY DEF AnswerInv, GroupInv, AwaitsWriter, Held, Accepted, Writers, TypeOK, ConnTypeOK
    <3>2. Cardinality(G) <= Cardinality(Held(c)) /\ Cardinality(G) \in Nat
      BY <3>1, HeldFinite, FS_Subset, FS_CardinalityType
    <3>3. pendingWg[c] = Cardinality(Held(c))
      BY <1>3 DEF HeldInv
    <3>4. ~Panics(c, Cardinality(G))
      BY <3>2, <3>3, HeldFinite DEF Panics
    <3> QED
      BY <2>3, <3>4 DEF WriteGroup, TypeOK, ConnTypeOK
  <2> QED
    BY <2>1, <2>2, <2>3 DEF RoutineWriteResponse, RecvClosed, CollectClosed
<1> QED
  BY <1>1, <1>2, <1>3 DEF WorkInv, Overcounted, Accepted, Refused

LEMMA WorkStep ==
  TypeOK /\ ListInv /\ AnswerInv /\ HeldInv /\ WorkInv /\ Grows /\ [Next]_vars => WorkInv'
<1> SUFFICES ASSUME TypeOK, ListInv, AnswerInv, HeldInv, WorkInv, Grows, [Next]_vars
             PROVE  WorkInv'
  OBVIOUS
<1>1. ASSUME NEW q \in Reqs, RoutineDoCall(q) PROVE WorkInv'
  <2>1. /\ UNCHANGED <<runPc, current, chanOpen, writePc, kind, on>>
        /\ \A p \in Reqs : callPc'[p] = "none" => callPc[p] = "none"
        /\ \A p \in Reqs : callPc[p] = "refused" => callPc'[p] = "refused"
    BY <1>1 DEF RoutineDoCall, MethodReturns, WhenFuncCallDone, runVars, chanVars, writerVars,
                TypeOK, ConnTypeOK
  <2> QED
    BY <2>1 DEF WorkInv, Overcounted, Accepted, Refused
<1>2. CASE UNCHANGED connVars
  BY <1>2 DEF connVars, runVars, chanVars, writerVars, requestVars, WorkInv, Overcounted,
              Accepted, Refused
<1>3. CASE Serve
  <2>1. /\ accepted \in Conns /\ runPc[accepted] = "off"
        /\ runPc' = [runPc EXCEPT ![accepted] = "read"]
        /\ writePc' = [writePc EXCEPT ![accepted] = "recv"]
        /\ UNCHANGED <<current, chanOpen, kind, on, callPc>>
    BY <1>3 DEF Serve, StartConn, TypeOK, ListInv, chanVars, requestVars
  <2>2. \A q \in Reqs : kind[q] = "call" /\ callPc[q] = "none" =>
           on[q] # accepted /\ on[q] \in Conns
    BY <2>1, ServerConnAssumption DEF WorkInv, AnswerInv, RequestInv, AllKinds
  <2> QED
    BY <2>1, <2>2 DEF WorkInv, Overcounted, Accepted, Refused, TypeOK, ConnTypeOK
<1>4. CASE StartRoutine \/ StopRoutine \/ UNCHANGED vars
  BY <1>2, <1>3, <1>4 DEF StartRoutine, Start, AcceptFails, Sleep, ListConn, Accept,
                          StopRoutine, Stop, CloseListener, StopConns, vars
<1> QED
  BY <1>1, <1>4, WorkRun, WorkWriter DEF Next, Conn

\* A request that is counted and can be answered is in somebody's hands.
LEMMA SomebodyHolds ==
  ASSUME TypeOK, AnswerInv, HeldInv, WorkInv, NEW c \in Conns, runPc[c] = "wait",
         ~Overcounted(c), pendingWg[c] # Cardinality(Stuck(c))
  PROVE  SomebodyGoesOn(c)
<1>1. writePc[c] \in {"recv", "collect"}
  BY DEF WorkInv
<1>2. PICK q \in Held(c) : q \notin Stuck(c)
  <2>1. Stuck(c) \subseteq Held(c)
    BY DEF Held, Stuck
  <2>2. Held(c) # Stuck(c)
    BY DEF HeldInv
  <2> QED
    BY <2>1, <2>2
<1>3. q \in Accepted(c) /\ on[q] = c /\ q \in Reqs
  BY DEF Held, Accepted
<1>4. CASE doneChan[c] # <<>>
  BY <1>1, <1>4 DEF SomebodyGoesOn
<1>5. CASE \E w \in Writers : q \in group[c][w]
  BY <1>5 DEF AnswerInv, GroupInv, Writers, SomebodyGoesOn
<1>6. CASE /\ doneChan[c] = <<>>
           /\ kind[q] = "call" /\ callPc[q] \in {"none", "running", "returned"}
  <2>1. callPc[q] # "none"
    BY <1>3, <1>6 DEF WorkInv
  <2>2. Len(doneChan[c]) < MaxWaitResp
    BY <1>6, ServerConnAssumption
  <2> QED
    BY <1>3, <1>6, <2>1, <2>2 DEF SomebodyGoesOn
<1>7. doneChan[c] = <<>> => ~ \E i \in 1 .. Len(doneChan[c]) : doneChan[c][i] = q
  OBVIOUS
<1> QED
  BY <1>2, <1>3, <1>4, <1>5, <1>6, <1>7 DEF Held

-----------------------------------------------------------------------------
(* The graceful close.                                                     *)

LEMMA CloseStep ==
  /\ TypeOK /\ AnswerInv /\ CountInv /\ HeldInv
  /\ WaitedInv /\ SettledInv /\ GracefulCloseAnswersAll /\ Grows
  => WaitedInv' /\ SettledInv' /\ GracefulCloseAnswersAll'
<1> SUFFICES ASSUME TypeOK, AnswerInv, CountInv, HeldInv,
                    WaitedInv, SettledInv, GracefulCloseAnswersAll, Grows
             PROVE  WaitedInv' /\ SettledInv' /\ GracefulCloseAnswersAll'
  OBVIOUS
<1> SUFFICES ASSUME NEW c \in waited'
             PROVE  /\ runPc'[c] = "exit"
                    /\ ~Overcounted(c)' => \A q \in Reqs : on'[q] = c /\ kind'[q] = "call" =>
                                              callPc'[q] \in {"refused", "ended"}
                    /\ codecOpen'[c] /\ ~Overcounted(c)' =>
                          \A q \in Reqs : on'[q] = c => Len(answers'[q]) > 0
  BY DEF WaitedInv, SettledInv, GracefulCloseAnswersAll, Accepted
<1>1. CASE c \in waited
  <2>1. runPc[c] = "exit" /\ c \in Conns
    BY <1>1 DEF WaitedInv, TypeOK, ConnTypeOK
  <2>2. /\ ~Overcounted(c)' => ~Overcounted(c)
        /\ codecOpen'[c] => codecOpen[c]
    BY <2>1, OvercountedStays DEF Grows
  <2>3. \A q \in Reqs : on'[q] = c => on[q] = c /\ kind'[q] = kind[q]
    BY <2>1, ServerConnAssumption DEF Grows, AnswerInv, RequestInv
  <2>4. ASSUME ~Overcounted(c)', NEW q \in Reqs, on'[q] = c, kind'[q] = "call"
        PROVE  callPc'[q] \in {"refused", "ended"}
    <3>1. callPc[q] \in {"refused", "ended"}
      BY <1>1, <2>2, <2>3, <2>4 DEF SettledInv, Accepted
    <3> QED
      BY <3>1 DEF Grows
  <2> QED
    BY <1>1, <2>1, <2>2, <2>3, <2>4 DEF Grows, GracefulCloseAnswersAll, Accepted
<1>2. CASE c \notin waited
  <2>1. /\ c \in Conns /\ runPc[c] = "wait" /\ pendingWg[c] = 0 /\ Break(c)
        /\ UNCHANGED <<codecOpen, kind, on, callPc, answers>>
    BY <1>2 DEF Grows, Wait, requestVars
  <2>2. runPc'[c] = "exit"
    BY <2>1 DEF Break, TypeOK, ConnTypeOK
  <2>3. ASSUME codecOpen'[c], ~Overcounted(c)'
        PROVE  \A q \in Reqs : on'[q] = c => Len(answers'[q]) > 0
    <3>1. codecOpen[c] /\ ~Overcounted(c)
      BY <2>1, <2>3 DEF Overcounted, Accepted, Refused
    <3>2. Cardinality(Unanswered(c)) = 0
      BY <2>1, <3>1 DEF CountInv
    <3>3. Unanswered(c) = {}
      BY <2>1, <3>2, UnansweredFinite, FS_EmptySet
    <3>4. \A q \in Reqs : on[q] = c => answers[q] # <<>> /\ answers[q] \in Seq(Responses)
      BY <3>3 DEF Unanswered, Accepted, TypeOK, ConnTypeOK
    <3>5. \A a \in Seq(Responses) : a # <<>> => Len(a) > 0
      OBVIOUS
    <3> QED
      BY <2>1, <3>4, <3>5
  <2>4. ASSUME ~Overcounted(c)', NEW q \in Reqs, on'[q] = c, kind'[q] = "call"
        PROVE  callPc'[q] \in {"refused", "ended"}
    <3>1. ~Overcounted(c)
      BY <2>1, <2>4, OvercountedStays
    <3>2. Cardinality(Held(c)) = 0
      BY <2>1, <3>1 DEF HeldInv
    <3>3. Held(c) = {}
      BY <2>1, <3>2, HeldFinite, FS_EmptySet
    <3>4. callPc[q] \notin {"none", "running", "returned"}
      BY <2>1, <2>4, <3>3 DEF Held, Accepted
    <3> QED
      BY <2>1, <3>4 DEF TypeOK, ConnTypeOK
  <2> QED
    BY <2>2, <2>3, <2>4
<1> QED
  BY <1>1, <1>2

-----------------------------------------------------------------------------
(* The theorems.                                                           *)

LEMMA InitIInv == Init => IInv
<1> SUFFICES ASSUME Init PROVE IInv
  OBVIOUS
<1>1. CountInv
  <2> SUFFICES ASSUME NEW c \in Conns PROVE pendingWg[c] = Cardinality(Unanswered(c))
    BY DEF CountInv
  <2>1. Unanswered(c) = {}
    BY ServerConnAssumption DEF Init, ConnInit, Unanswered, Accepted
  <2> QED
    BY <2>1, FS_EmptySet DEF Init, ConnInit
<1>2. WaitedInv /\ SettledInv /\ GracefulCloseAnswersAll
  BY DEF Init, ConnInit, WaitedInv, SettledInv, GracefulCloseAnswersAll
<1>3. HeldInv
  <2> SUFFICES ASSUME NEW c \in Conns PROVE pendingWg[c] = Cardinality(Held(c))
    BY DEF HeldInv
  <2>1. Held(c) = {}
    BY ServerConnAssumption DEF Init, ConnInit, Held, Accepted
  <2> QED
    BY <2>1, FS_EmptySet DEF Init, ConnInit
<1>4. WorkInv
  <2>1. \A c \in Conns : chanOpen[c] /\ runPc[c] = "off"
    BY DEF Init, ConnInit
  <2>2. \A q \in Reqs : kind[q] # "call"
    BY ServerConnAssumption DEF Init, ConnInit, AllKinds
  <2> QED
    BY <2>1, <2>2 DEF WorkInv
<1> QED
  BY <1>1, <1>2, <1>3, <1>4, InitTypeOK, InitListInv, InitAnswerInv DEF IInv

LEMMA IInvStep == IInv /\ [Next]_vars => IInv'
<1> SUFFICES ASSUME IInv, [Next]_vars PROVE IInv'
  OBVIOUS
<1>1. TypeOK' /\ ListInv' /\ AnswerInv'
  BY TypeStep, ListStep, AnswerStep DEF IInv, AnswerInv
<1>2. Grows
  BY GrowsStep DEF IInv
<1>3. CountInv' /\ HeldInv' /\ WorkInv'
  BY <1>2, CountStep, HeldStep, WorkStep DEF IInv
<1>4. WaitedInv' /\ SettledInv' /\ GracefulCloseAnswersAll'
  BY <1>2, CloseStep DEF IInv
<1> QED
  BY <1>1, <1>3, <1>4 DEF IInv

\* The inductive invariant: what is left to do on the way out of the run loop, who
\* holds a request that waits for its answer (the run loop, doneChan or one of the
\* two groups, and only one of them), what pendingWg counts, and that the writer is
\* there as long as it may count something.
THEOREM Inductive == Spec => []IInv
BY InitIInv, IInvStep, PTL DEF Spec

\* The variables have their types.
THEOREM TypeCorrect == Spec => []TypeOK
BY Inductive, PTL DEF IInv

\* A connection is on serverConnList as long as it runs, and no longer, however it
\* ends (server.go:247, 270, 316).
THEOREM ListedWhileRunningHolds == Spec => []ListedWhileRunning
BY Inductive, PTL DEF IInv, ListInv

\* A request is answered once at most, but for a dummy call that is refused after
\* it was answered (server_conn.go:178, 185).
THEOREM AnsweredOnceHolds == Spec => []AnsweredOnce
BY Inductive, PTL DEF IInv, AnswerInv

\* Only the response of a method that returned an error has a header and a body
\* that disagree (server_conn.go:361, 389).
THEOREM OnlyErrorsBreakFramingHolds == Spec => []OnlyErrorsBreakFraming
<1>1. FramingInv => OnlyErrorsBreakFraming
  BY DEF FramingInv, OnlyErrorsBreakFraming
<1>2. IInv => OnlyErrorsBreakFraming
  BY <1>1 DEF IInv, AnswerInv
<1> QED
  BY <1>2, Inductive, PTL

\* A connection that is closed because the server stops has answered every request
\* it read, for any number of connections and requests (server_conn.go:135).
THEOREM GracefulCloseAnswersAllHolds == Spec => []GracefulCloseAnswersAll
BY Inductive, PTL DEF IInv

\* When the read loop waits for pendingWg, it does not wait for goroutines that all
\* wait themselves, however small doneChan and however large the groups
\* (server_conn.go:137, 286, 405).
THEOREM WaitIsForSomebodyHolds == Spec => []WaitIsForSomebody
<1>1. IInv => WaitIsForSomebody
  BY SomebodyHolds DEF IInv, WaitIsForSomebody
<1> QED
  BY <1>1, Inductive, PTL

\* The response of a method is lost only on a connection whose read loop failed, or
\* whose counter was taken off twice (server_conn.go:137, 286).
THEOREM NoResponseLostInStopHolds == Spec => NoResponseLostInStop
<1> DEFINE Step == \A q \in Reqs :
                      callPc[q] = "returned" /\ callPc'[q] = "ended"
                         /\ kind[q] = "call" /\ ~chanOpen[on[q]]
                      => on[q] \notin waited \/ Overcounted(on[q])
<1>1. IInv => Step
  BY DEF IInv, SettledInv, Accepted
<1>2. IInv /\ [Next]_vars => [Step]_vars
  BY <1>1
<1>3. Spec => [][Step]_vars
  BY <1>2, Inductive, PTL DEF Spec
<1> QED
  BY <1>3 DEF NoResponseLostInStop

=============================================================================
