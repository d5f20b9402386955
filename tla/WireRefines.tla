---------------------------- MODULE WireRefines ----------------------------
(***************************************************************************)
(* The proof that Wire implements RemoteCall, for every value of the       *)
(* constants.  A step of either end changes what the caller sees of its    *)
(* calls, or what the server has done with them, but never both.           *)
(***************************************************************************)
EXTENDS WireRefinement, WireProofs

OneWay == {r \in 1 .. made : ~kind[r].reply}

CallerSame == OneWay' = OneWay /\ \A q \in Calls : StageOf(q)' = StageOf(q)
ServerSame == \A q \in Calls : ExecutionOf(q)' = ExecutionOf(q)

LEMMA CallerFrame ==
  ASSUME UNCHANGED <<made, kind, reported>>
  PROVE  CallerSame
BY DEF CallerSame, OneWay, StageOf

LEMMA ServerFrame ==
  ASSUME UNCHANGED <<started, returned, running>>
  PROVE  ServerSame
BY DEF ServerSame, ExecutionOf, IsStarted

LEMMA Invisible ==
  ASSUME CallerSame, ServerSame
  PROVE  UNCHANGED Remote!vars
BY DEF CallerSame, ServerSame, OneWay, Remote!vars

LEMMA MappedInit == Init => Remote!Init
<1> SUFFICES ASSUME Init PROVE Remote!Init
  OBVIOUS
<1>1. \A r \in Calls : StageOf(r) = "new" /\ ExecutionOf(r) = "none"
  BY WireAssumption DEF Init, StageOf, ExecutionOf, IsStarted, Calls
<1>2. 1 .. made = {}
  BY DEF Init
<1> QED
  BY <1>1, <1>2 DEF Remote!Init

-----------------------------------------------------------------------------
(* The stages of the calls.                                                *)

\* A call that is made and not reported is outstanding.
LEMMA OutstandingCall ==
  ASSUME TypeOK, NEW r \in 1 .. made, reported[r] = "no"
  PROVE  r \in Calls /\ StageOf(r) = "outstanding" /\ r \in Remote!Outstanding
<1>1. r \in Calls /\ r <= made /\ ~(r > made)
  BY Numbers
<1>2. StageOf(r) = "outstanding"
  BY <1>1 DEF StageOf
<1> QED
  BY <1>1, <1>2 DEF Remote!Outstanding

LEMMA FailureCall ==
  ASSUME TypeOK, NEW r \in 1 .. made, reported[r] \notin {"no", "nil"}
  PROVE  r \in Calls /\ StageOf(r) = "failure"
<1>1. r \in Calls /\ r <= made /\ ~(r > made)
  BY Numbers
<1> QED
  BY <1>1 DEF StageOf

LEMMA WriteRequestMapped ==
  ASSUME TypeOK, TypeOK', CallInv, NEW k \in Kinds, WriteRequest(k), NEW r, r = made + 1
  PROVE  r \in Calls /\ Remote!Make(r)
<1>1. /\ made < NCalls /\ made' = r /\ kind' = [kind EXCEPT ![r] = k]
      /\ reported' = reported /\ ServerSame
  BY ServerFrame DEF WriteRequest, serverVars
<1>2. r \in Calls /\ made \in Nat /\ r > made /\ reported[r] = "no"
  BY <1>1, Numbers DEF CallInv, Calls
<1>3. kind \in [Calls -> Kinds \cup {NoCall}]
  BY DEF TypeOK
<1>4. StageOf(r) = "new" /\ StageOf(r)' = "outstanding"
  BY <1>1, <1>2 DEF StageOf
<1>5. \A q \in Calls \ {r} : StageOf(q)' = StageOf(q)
  <2> TAKE q \in Calls \ {r}
  <2>1. q \in Nat /\ (q > made <=> q > made') /\ (q <= made <=> q <= made')
    BY <1>1, <1>2 DEF Calls
  <2> QED
    BY <1>1, <2>1 DEF StageOf
<1>6. OneWay' \in {OneWay, OneWay \cup {r}}
  <2>1. \A q \in 1 .. made : q # r /\ kind'[q] = kind[q]
    BY <1>1, <1>2, <1>3, Numbers
  <2>2. 1 .. made' = (1 .. made) \cup {r}
    BY <1>1, <1>2
  <2> QED
    BY <1>2, <2>1, <2>2 DEF OneWay
<1> QED
  BY <1>1, <1>2, <1>4, <1>5, <1>6 DEF ServerSame, OneWay, Remote!Make

LEMMA WriteFailsMapped ==
  ASSUME TypeOK, TypeOK', CallInv, NEW k \in Kinds, WriteFails(k), NEW r, r = made + 1
  PROVE  r \in Calls /\ Remote!MakeFails(r)
<1>1. /\ made < NCalls /\ made' = r /\ kind' = [kind EXCEPT ![r] = k]
      /\ ServerSame
  BY ServerFrame DEF WriteFails, serverVars
<1>2. PICK first \in 1 .. r :
         reported' = [q \in Calls |-> IF q \in {p \in pending : p >= first} \cup {r}
                                      THEN "write" ELSE reported[q]]
  BY DEF WriteFails
<1>3. r \in Calls /\ made \in Nat /\ r > made /\ reported[r] = "no"
  BY <1>1, Numbers DEF CallInv, Calls
<1>4. kind \in [Calls -> Kinds \cup {NoCall}]
  BY DEF TypeOK
<1> DEFINE S == {q \in pending : q >= first}
<1>5. S \subseteq Remote!Outstanding
  BY OutstandingCall, Numbers DEF TypeOK
<1>6. StageOf(r) = "new"
  BY <1>3 DEF StageOf
<1>7. ASSUME NEW q \in Calls
      PROVE  StageOf(q)' = IF q \in S \cup {r} THEN "failure" ELSE StageOf(q)
  <2>1. reported'[q] = IF q \in S \cup {r} THEN "write" ELSE reported[q]
    BY <1>2
  <2>2. CASE q \in S \cup {r}
    <3>1. q <= made' /\ ~(q > made')
      BY <1>1, <1>3, <2>2, Numbers
    <3> QED
      BY <2>1, <2>2, <3>1 DEF StageOf
  <2>3. CASE q \notin S \cup {r}
    <3>1. q \in Nat /\ (q > made <=> q > made') /\ (q <= made <=> q <= made')
      BY <1>1, <1>3, <2>3 DEF Calls
    <3> QED
      BY <2>1, <2>3, <3>1 DEF StageOf
  <2> QED
    BY <2>2, <2>3
<1>8. OneWay' \in {OneWay, OneWay \cup {r}}
  <2>1. \A q \in 1 .. made : q # r /\ kind'[q] = kind[q]
    BY <1>1, <1>3, <1>4, Numbers
  <2>2. 1 .. made' = (1 .. made) \cup {r}
    BY <1>1, <1>3
  <2> QED
    BY <1>3, <2>1, <2>2 DEF OneWay
<1> HIDE DEF S
<1>9. Remote!Fails(S \cup {r})
  BY <1>7 DEF Remote!Fails
<1> QED
  BY <1>1, <1>3, <1>5, <1>6, <1>8, <1>9 DEF ServerSame, OneWay, Remote!MakeFails

\* The reader of the client reports errors, to all pending calls if it ends.
LEMMA FailuresMapped ==
  ASSUME TypeOK, TypeOK', NEW S \in SUBSET (1 .. made), \A r \in S : reported[r] = "no",
         NEW e \in {"remote", "body", "down"}, NEW ended \in BOOLEAN, Reports(S, e, ended),
         UNCHANGED serverVars
  PROVE  \E T \in SUBSET Calls : Remote!Fail(T)
<1>1. /\ made' = made /\ kind' = kind
      /\ reported' = [r \in Calls |-> IF r \in S THEN e
                                      ELSE IF ended /\ r \in pending THEN "down"
                                      ELSE reported[r]]
  BY DEF Reports
<1> DEFINE T == S \cup (IF ended THEN pending ELSE {})
<1>2. T \subseteq 1 .. made /\ T \subseteq Calls /\ \A r \in T : reported[r] = "no"
  BY Numbers DEF TypeOK
<1>3. T \subseteq Remote!Outstanding
  BY <1>2, OutstandingCall
<1>4. ASSUME NEW q \in Calls
      PROVE  StageOf(q)' = IF q \in T THEN "failure" ELSE StageOf(q)
  <2>1. CASE q \in T
    <3>1. reported'[q] \in {"remote", "body", "down"} /\ q \in 1 .. made
      BY <1>1, <1>2, <2>1
    <3>2. q <= made' /\ ~(q > made')
      BY <1>1, <3>1, Numbers
    <3> QED
      BY <2>1, <3>1, <3>2 DEF StageOf
  <2>2. CASE q \notin T
    <3>1. reported'[q] = reported[q]
      BY <1>1, <2>2
    <3> QED
      BY <1>1, <2>2, <3>1 DEF StageOf
  <2> QED
    BY <2>1, <2>2
<1>5. OneWay' = OneWay
  BY <1>1 DEF OneWay
<1>6. ServerSame
  BY ServerFrame DEF serverVars
<1> HIDE DEF T
<1>7. Remote!Fails(T)
  BY <1>4 DEF Remote!Fails
<1> QED
  BY <1>2, <1>3, <1>5, <1>6, <1>7 DEF ServerSame, OneWay, Remote!Fail

\* A reply is taken for a success only if the server has done its part.
LEMMA ReplyMapped ==
  ASSUME TypeOK, TypeOK', CallInv, StartedInv, ClientPlaceInv, ReadReply,
         NEW r, r = clientCall
  PROVE  r \in Calls /\ Remote!Succeed(r)
<1>1. /\ clientAt = "body" /\ made' = made /\ kind' = kind
      /\ reported' = [q \in Calls |-> IF q \in {r} THEN "nil" ELSE reported[q]]
  BY DEF ReadReply, ClientReads, Reports
<1>2. ServerSame
  BY ServerFrame DEF ReadReply, serverVars
<1>3. OneWay' = OneWay
  BY <1>1 DEF OneWay
<1>4. r \in 1 .. made /\ reported[r] = "no" /\ Served(r)
  BY <1>1 DEF CallInv, ClientPlaceInv
<1>5. r \in Calls /\ StageOf(r) = "outstanding"
  BY <1>4, OutstandingCall
<1>6. StageOf(r)' = "success"
  <2>1. r <= made' /\ ~(r > made') /\ reported'[r] = "nil"
    BY <1>1, <1>4, <1>5, Numbers
  <2> QED
    BY <2>1 DEF StageOf
<1>7. \A q \in Calls \ {r} : StageOf(q)' = StageOf(q)
  BY <1>1 DEF StageOf
<1>8. IF r \in OneWay THEN ExecutionOf(r) # "none" ELSE ExecutionOf(r) = "nil"
  <2>1. IsStarted(r) /\ (kind[r].reply => returned[r] = "nil")
    BY <1>4 DEF Served, IsStarted
  <2>2. returned[r] \in {"no", "nil", "error"}
    BY <1>5 DEF TypeOK
  <2>3. ExecutionOf(r) # "none"
    BY <2>1, <2>2 DEF ExecutionOf
  <2>4. r \notin OneWay => kind[r].reply
    BY <1>4 DEF OneWay
  <2>5. returned[r] = "nil" => ExecutionOf(r) = "nil"
    BY <2>1 DEF ExecutionOf
  <2> QED
    BY <2>1, <2>3, <2>4, <2>5
<1> QED
  BY <1>2, <1>3, <1>5, <1>6, <1>7, <1>8 DEF ServerSame, OneWay, Remote!Succeed

LEMMA ClientReaderMapped ==
  ASSUME IInv, TypeOK', ClientReader
  PROVE  Remote!Next \/ UNCHANGED Remote!vars
<1>0. /\ TypeOK /\ CallInv /\ StartedInv /\ ClientPlaceInv /\ ResponseStream(toClient)
      /\ UNCHANGED serverVars
  BY DEF IInv, ClientReader, ReadNoResponse, ReadResponseHeader, ReadReply, ReadReplyFails,
         SkipReply, ReadEnd
<1>1. ServerSame
  BY <1>0, ServerFrame DEF serverVars
<1>2. ASSUME UNCHANGED <<made, kind, reported>>
      PROVE  UNCHANGED Remote!vars
  BY <1>1, <1>2, CallerFrame, Invisible
<1>3. ASSUME NEW S \in SUBSET (1 .. made), \A r \in S : reported[r] = "no",
             NEW e \in {"remote", "body", "down"}, NEW ended \in BOOLEAN, Reports(S, e, ended)
      PROVE  Remote!Next
  <2>1. \E T \in SUBSET Calls : Remote!Fail(T)
    BY <1>0, <1>3, FailuresMapped
  <2> QED
    BY <2>1 DEF Remote!Next
<1>4. CASE ReadNoResponse
  <2>1. Reports({}, "down", TRUE)
    BY <1>4 DEF ReadNoResponse
  <2> QED
    BY <1>3, <2>1
<1>5. CASE ReadResponseHeader
  <2>0. toClient # <<>> /\ Head(toClient).what = "header"
    BY <1>5 DEF ReadResponseHeader, ClientReads
  <2> DEFINE h == Head(toClient)
  <2>1. CASE UNCHANGED <<made, kind, reported>>
    BY <1>2, <2>1
  <2>2. CASE /\ ~IsPing(h.call) /\ h.call \in pending /\ h.noData
             /\ Reports({h.call}, IF h.err THEN "remote" ELSE "nil", FALSE)
    <3>1. h.err
      BY <1>0, <2>0, <2>2, HeadResponseHeader
    <3>2. Reports({h.call}, "remote", FALSE)
      BY <2>2, <3>1
    <3>3. {h.call} \in SUBSET (1 .. made) /\ \A r \in {h.call} : reported[r] = "no"
      BY <1>0, <2>2, Numbers DEF TypeOK
    <3> QED
      BY <1>3, <3>2, <3>3
  <2> QED
    BY <1>5, <2>1, <2>2 DEF ReadResponseHeader, CallOf, clientVars
<1>6. CASE ReadReply
  <2>1. \E r \in Calls : Remote!Succeed(r)
    <3>1. PICK r : r = clientCall
      OBVIOUS
    <3>2. r \in Calls /\ Remote!Succeed(r)
      BY <1>0, <1>6, <3>1, ReplyMapped
    <3> QED
      BY <3>2
  <2> QED
    BY <2>1 DEF Remote!Next
<1>7. ASSUME clientAt = "body"
      PROVE  {clientCall} \in SUBSET (1 .. made) /\ \A r \in {clientCall} : reported[r] = "no"
  BY <1>0, <1>7 DEF CallInv
<1>8. CASE ReadReplyFails
  <2>1. clientAt = "body" /\ Reports({clientCall}, "body", TRUE)
    BY <1>8 DEF ReadReplyFails, ClientReads
  <2> QED
    BY <1>3, <1>7, <2>1
<1>9. CASE SkipReply
  BY <1>2, <1>9 DEF SkipReply
<1>10. CASE ReadEnd
  <2>1. CASE clientAt = "body"
    <3>1. Reports({clientCall}, "body", TRUE)
      BY <1>10, <2>1 DEF ReadEnd
    <3> QED
      BY <1>3, <1>7, <2>1, <3>1
  <2>2. CASE clientAt # "body"
    <3>1. Reports({}, "body", TRUE)
      BY <1>10, <2>2 DEF ReadEnd
    <3> QED
      BY <1>3, <3>1
  <2> QED
    BY <2>1, <2>2
<1> QED
  BY <1>4, <1>5, <1>6, <1>8, <1>9, <1>10 DEF ClientReader

-----------------------------------------------------------------------------
(* The executions of the methods.                                          *)

LEMMA ReadArgsMapped ==
  ASSUME TypeOK, ServerPlaceInv, StartedInv, ReadArgs, NEW r, r = serverCall
  PROVE  r \in Calls /\ Remote!Start(r)
<1>1. /\ serverAt = "body" /\ running' = running \cup {r} /\ returned' = returned
      /\ started' = started \cup {[call |-> r, args |-> Head(toServer).call]}
      /\ UNCHANGED <<made, kind, reported>>
  BY DEF ReadArgs, ServerReads, clientVars
<1>2. CallerSame
  BY <1>1, CallerFrame
<1>3. r \in 1 .. made /\ r \in Calls
  BY <1>1, Numbers DEF ServerPlaceInv
<1>4. StageOf(r) # "new"
  <2>1. ~(r > made) /\ r <= made
    BY <1>3, Numbers
  <2> QED
    BY <2>1 DEF StageOf
<1>5. ~IsStarted(r)
  BY <1>1 DEF StartedInv, Ahead, IsStarted
<1>6. returned[r] = "no"
  BY <1>3, <1>5 DEF StartedInv, IsStarted
<1>7. ExecutionOf(r) = "none"
  BY <1>5 DEF ExecutionOf
<1>8. IsStarted(r)' /\ \A q \in Calls \ {r} : IsStarted(q)' <=> IsStarted(q)
  <2> DEFINE new == [call |-> r, args |-> Head(toServer).call]
  <2>1. new.call = r
    OBVIOUS
  <2>2. started' = started \cup {new}
    BY <1>1
  <2> HIDE DEF new
  <2> QED
    BY <2>1, <2>2 DEF IsStarted
<1>9. ExecutionOf(r)' = "running"
  BY <1>1, <1>6, <1>8 DEF ExecutionOf
<1>10. \A q \in Calls \ {r} : ExecutionOf(q)' = ExecutionOf(q)
  <2> TAKE q \in Calls \ {r}
  <2>1. (q \in running' <=> q \in running) /\ (IsStarted(q)' <=> IsStarted(q))
    BY <1>1, <1>8
  <2> QED
    BY <1>1, <2>1 DEF ExecutionOf
<1> QED
  BY <1>2, <1>3, <1>4, <1>7, <1>9, <1>10 DEF CallerSame, OneWay, Remote!Start

\* A method that runs has been started and has not returned.
LEMMA MethodMapped ==
  ASSUME TypeOK, StartedInv, NEW r \in Calls,
         \/ \E ret \in {"nil", "error"} : MethodReturns(r, ret)
         \/ EncodeFails(r) \/ MethodPanics(r)
  PROVE  \E result \in {"nil", "error", "panicked"} : Remote!Finish(r, result)
<1>1. /\ r \in running /\ running' = running \ {r} /\ started' = started
      /\ UNCHANGED <<made, kind, reported>>
  <2>1. ASSUME NEW ret, MethodReturns(r, ret)
        PROVE  /\ r \in running /\ running' = running \ {r} /\ started' = started
               /\ UNCHANGED <<made, kind, reported>>
    BY <2>1 DEF MethodReturns, clientVars
  <2>2. CASE EncodeFails(r)
    BY <2>2 DEF EncodeFails, clientVars
  <2>3. CASE MethodPanics(r)
    BY <2>3 DEF MethodPanics, clientVars
  <2> QED
    BY <2>1, <2>2, <2>3
<1>2. PICK ret \in {"no", "nil", "error"} : returned' = [returned EXCEPT ![r] = ret]
  <2>1. CASE \E ret \in {"nil", "error"} : MethodReturns(r, ret)
    BY <2>1 DEF MethodReturns
  <2>2. CASE EncodeFails(r)
    BY <2>2 DEF EncodeFails
  <2>3. CASE MethodPanics(r)
    <3>1. returned' = returned /\ returned[r] = "no"
      BY <1>1, <2>3 DEF MethodPanics, StartedInv
    <3>2. returned' = [returned EXCEPT ![r] = "no"]
      BY <3>1 DEF TypeOK
    <3> QED
      BY <3>2
  <2> QED
    BY <2>1, <2>2, <2>3
<1>3. returned[r] = "no" /\ IsStarted(r)
  BY <1>1 DEF StartedInv, IsStarted
<1>4. CallerSame
  BY <1>1, CallerFrame
<1>5. ExecutionOf(r) = "running"
  BY <1>1, <1>3 DEF ExecutionOf
<1>6. /\ returned'[r] = ret
      /\ \A q \in Calls \ {r} : returned'[q] = returned[q]
  BY <1>2 DEF TypeOK
<1>7. \A q \in Calls : IsStarted(q)' <=> IsStarted(q)
  BY <1>1 DEF IsStarted
<1>8. \A q \in Calls \ {r} : ExecutionOf(q)' = ExecutionOf(q)
  <2> TAKE q \in Calls \ {r}
  <2>1. q \in running' <=> q \in running
    BY <1>1
  <2> QED
    BY <1>6, <1>7, <2>1 DEF ExecutionOf
<1>9. ExecutionOf(r)' = IF ret = "no" THEN "panicked" ELSE ret
  <2>1. r \notin running' /\ IsStarted(r)'
    BY <1>1, <1>3, <1>7
  <2> QED
    BY <1>6, <2>1 DEF ExecutionOf
<1>10. \E result \in {"nil", "error", "panicked"} : ExecutionOf(r)' = result
  BY <1>9
<1> QED
  BY <1>4, <1>5, <1>8, <1>10 DEF CallerSame, OneWay, Remote!Finish

LEMMA ServerMapped ==
  ASSUME IInv, Server
  PROVE  Remote!Next \/ UNCHANGED Remote!vars
<1>0. TypeOK /\ ServerPlaceInv /\ StartedInv
  BY DEF IInv
<1>1. CASE ReadArgs
  <2>1. PICK r : r = serverCall
    OBVIOUS
  <2>2. r \in Calls /\ Remote!Start(r)
    BY <1>0, <1>1, <2>1, ReadArgsMapped
  <2> QED
    BY <2>2 DEF Remote!Next
<1>2. ASSUME NEW r \in Calls,
             \/ \E ret \in {"nil", "error"} : MethodReturns(r, ret)
             \/ EncodeFails(r) \/ MethodPanics(r)
      PROVE  Remote!Next
  <2>1. \E result \in {"nil", "error", "panicked"} : Remote!Finish(r, result)
    BY <1>0, <1>2, MethodMapped
  <2> QED
    BY <2>1 DEF Remote!Next
<1>3. CASE \/ ReadNoHeader \/ ReadPing \/ ReadRequestHeader \/ ReadArgsFails \/ SkipBody
           \/ NoBody \/ NoHeader
  <2>1. UNCHANGED <<made, kind, reported, started, returned, running>>
    BY <1>3 DEF ReadNoHeader, ReadPing, ReadRequestHeader, ReadArgsFails, SkipBody, NoBody,
                NoHeader, clientVars, serverVars
  <2> QED
    BY <2>1, CallerFrame, ServerFrame, Invisible
<1> QED
  BY <1>1, <1>2, <1>3 DEF Server, ServerReader

-----------------------------------------------------------------------------

LEMMA MappedStep ==
  ASSUME IInv, IInv', [Next]_vars
  PROVE  [Remote!Next]_Remote!vars
<1>0. TypeOK /\ TypeOK' /\ CallInv
  BY DEF IInv
<1>1. ASSUME NEW k \in Kinds, WriteRequest(k) \/ WriteFails(k)
      PROVE  Remote!Next
  <2>1. PICK r : r = made + 1
    OBVIOUS
  <2>2. r \in Calls /\ (Remote!Make(r) \/ Remote!MakeFails(r))
    BY <1>0, <1>1, <2>1, WriteRequestMapped, WriteFailsMapped
  <2> QED
    BY <2>2 DEF Remote!Next
<1>2. CASE KeepAlive \/ Registers \/ NetBreak \/ UNCHANGED vars
  <2>1. UNCHANGED <<made, kind, reported, started, returned, running>>
    BY <1>2 DEF KeepAlive, Registers, NetBreak, vars, clientVars, serverVars
  <2> QED
    BY <2>1, CallerFrame, ServerFrame, Invisible
<1>3. CASE ClientReader
  BY <1>0, <1>3, ClientReaderMapped
<1>4. CASE Server
  BY <1>4, ServerMapped
<1> QED
  BY <1>1, <1>2, <1>3, <1>4 DEF Next, Client

\* Wire implements RemoteCall: with the two ends in or out of step, over a
\* connection that may break at any point, a method is executed at most once and
\* only for a call that was made, and a success is reported only for a method that
\* has done its part (server_conn.go:271, client_conn.go:175, 211).
THEOREM ExecutedOnceHolds == Spec => ExecutedOnce
<1>1. Init => Remote!Init
  BY MappedInit
<1>2. IInv /\ IInv' /\ [Next]_vars => [Remote!Next]_Remote!vars
  BY MappedStep
<1> QED
  BY <1>1, <1>2, Inductive, PTL DEF Spec, ExecutedOnce, Remote!Spec

=============================================================================
