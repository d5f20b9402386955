------------------------- MODULE ClientConnRefines -------------------------
(***************************************************************************)
(* The proof that ClientConn implements RpcCall, for every value of the    *)
(* constants.  Each step of a goroutine has one of four shapes, seen from  *)
(* the callers: nothing, a new invocation, a report, a return.             *)
(***************************************************************************)
EXTENDS ClientConnRefinement, ClientConnProofs

-----------------------------------------------------------------------------
(* What a step does to the phases, as long as no call is reported twice.   *)

Others(r) == \A q \in Reqs \ {r} : phase'[q] = phase[q]

\* No caller notices.
Silent ==
    /\ UNCHANGED <<answered, result>>
    /\ \A q \in Reqs : \/ phase'[q] = phase[q]
                       \/ phase[q] \in Live /\ phase'[q] \in Live

Begins(r) ==
    /\ phase[r] = "idle" /\ phase'[r] = "made" /\ Others(r)
    /\ UNCHANGED <<answered, result>>

Reports(r) ==
    /\ phase[r] \in Live /\ phase'[r] = "completed" /\ Others(r)
    /\ result' = result
    /\ answered' \in {answered, answered \cup {r}}

Returns(r) ==
    /\ phase[r] = "completed" /\ phase'[r] = "returned" /\ Others(r)
    /\ answered' = answered
    /\ \E e \in Errors : result' = [result EXCEPT ![r] = e]

Shaped == Silent \/ \E r \in Reqs : Begins(r) \/ Reports(r) \/ Returns(r)

\* A step that moves a call on, or reports it.
LEMMA MovedIsSilent ==
    ASSUME TypeOK, NEW r \in Reqs, NEW p \in Live, phase[r] \in Live, Moved(r, p)
    PROVE  Shaped
BY DEF TypeOK, Moved, Shaped, Silent

LEMMA CompletedReports ==
    ASSUME TypeOK, NEW r \in Reqs, phase[r] \in Live, Completed(r)
    PROVE  Shaped
<1>1. Reports(r)
  BY DEF TypeOK, Completed, Reports, Others
<1> QED
  BY <1>1 DEF Shaped

LEMMA FrameIsSilent ==
    ASSUME UNCHANGED callerVars
    PROVE  Shaped
BY DEF callerVars, Shaped, Silent

LEMMA CallerShape ==
    ASSUME TypeOK, Owned, Caller
    PROVE  Shaped
<1>1. ASSUME NEW r \in Reqs, Make(r)
      PROVE  Shaped
  <2>1. Begins(r)
    BY <1>1 DEF TypeOK, Make, Begins, Others
  <2> QED
    BY <2>1 DEF Shaped
<1>2. ASSUME NEW r \in Reqs, Enqueue(r)
      PROVE  Shaped
  BY <1>2, MovedIsSilent DEF Enqueue, Live
<1>3. ASSUME NEW r \in Reqs, EnqueueFull(r)
      PROVE  Shaped
  BY <1>3, CompletedReports DEF EnqueueFull, Live
<1>4. ASSUME NEW r \in Reqs, Cancel(r)
      PROVE  Shaped
  BY <1>4, FrameIsSilent DEF Cancel
<1>5. ASSUME NEW ch \in Chans, Receive(ch)
      PROVE  Shaped
  <2>1. PICK r \in Reqs : /\ phase[r] = "completed" /\ phase'[r] = "returned"
                          /\ \A q \in Reqs \ {r} : phase'[q] = phase[q]
    BY <1>5, ReceiveKeepsCalls DEF Owned
  <2>2. PICK q \in Reqs : /\ result' = [result EXCEPT ![q] = heap[Head(done[ch])].err]
                          /\ phase' = [phase EXCEPT ![q] = "returned"]
    BY <1>5 DEF Receive
  <2>3. q = r
    BY <2>1, <2>2 DEF TypeOK
  <2>4. Head(done[ch]) \in Objs
    BY <1>5 DEF Receive, Collect, TypeOK, CallTypeOK
  <2>5. heap[Head(done[ch])].err \in Errors
    BY <2>4 DEF TypeOK, CallTypeOK, TCall
  <2>6. answered' = answered
    BY <1>5 DEF Receive
  <2>7. Returns(r)
    BY <2>1, <2>2, <2>3, <2>5, <2>6 DEF Returns, Others
  <2> QED
    BY <2>7 DEF Shaped
<1>6. ASSUME NEW ch \in UserChans, UserClosesChan(ch)
      PROVE  Shaped
  BY <1>6, FrameIsSilent DEF UserClosesChan
<1> QED
  BY <1>1, <1>2, <1>3, <1>4, <1>5, <1>6 DEF Caller

LEMMA WriterShape ==
    ASSUME TypeOK, Owned, ReportedOnce', NEW c \in Conns, Writer(c) \/ PingTimer(c)
    PROVE  Shaped
<1>0. PlacesOwn /\ CallsOwned
  BY DEF Owned
<1>1. CASE WTake(c)
  <2>1. /\ inq # <<>> /\ Moved(Head(inq).req, "taken")
        /\ Head(inq) \in Item /\ Head(inq) = inq[1] /\ 1 \in DOMAIN inq
    BY <1>1, TailFacts DEF WTake, TypeOK
  <2>2. Head(inq).req \in Reqs /\ phase[Head(inq).req] = "queued"
    BY <1>0, <2>1 DEF Item, PlacesOwn, QueueOwns
  <2> QED
    BY <2>1, <2>2, MovedIsSilent DEF Live
<1>2. CASE WRefuse(c)
  <2>1. wcall[c].req \in Reqs /\ phase[wcall[c].req] = "taken" /\ Completed(wcall[c].req)
    BY <1>0, <1>2 DEF WRefuse, TypeOK, Item, PlacesOwn, WriterOwns
  <2> QED
    BY <2>1, CompletedReports DEF Live
<1>3. CASE WLock(c)
  <2>1. /\ wcall[c].req \in Reqs /\ phase[wcall[c].req] = "taken"
        /\ File(c, wcall[c])
    BY <1>0, <1>3 DEF WLock, TypeOK, Item, PlacesOwn, WriterOwns
  <2> QED
    BY <2>1, MovedIsSilent DEF File, Live
<1>4. CASE WGather(c)
  <2>1. /\ inq # <<>> /\ File(c, Head(inq))
        /\ Head(inq) \in Item /\ Head(inq) = inq[1] /\ 1 \in DOMAIN inq
    BY <1>4, TailFacts DEF WGather, TypeOK
  <2>2. Head(inq).req \in Reqs /\ phase[Head(inq).req] = "queued"
    BY <1>0, <2>1 DEF Item, PlacesOwn, QueueOwns
  <2>3. Moved(Head(inq).req, "pending")
    BY <2>1 DEF File
  <2> QED
    BY <2>2, <2>3, MovedIsSilent DEF Live
<1>5. CASE WFailOne(c)
  <2>1. PICK e \in pending[c] : Completed(e.req)
    BY <1>5 DEF WFailOne, Lookup
  <2>2. e.req \in Reqs
    BY EntryType
  <2>3. completions[e.req] = 0
    BY <2>1, <2>2, ReportIsFirst
  <2>4. phase[e.req] = "pending"
    BY <1>0, <2>3 DEF PlacesOwn, PendingOwns
  <2> QED
    BY <2>1, <2>2, <2>4, CompletedReports DEF Live
<1>6. CASE WUnlock(c) \/ WWrite(c) \/ WFlush(c) \/ WFail(c) \/ WFailSkip(c)
  BY <1>6, FrameIsSilent DEF WUnlock, WWrite, WFlush, WFail, WFailSkip
<1>7. CASE WFailed(c) \/ WPanic(c) \/ WExitNotify(c) \/ PingTimer(c)
  BY <1>7, FrameIsSilent DEF WFailed, WPanic, WExitNotify, PingTimer, WPing,
                             WPingFail, WEnds
<1> QED
  BY <1>1, <1>2, <1>3, <1>4, <1>5, <1>6, <1>7 DEF Writer

LEMMA ReaderShape ==
    ASSUME TypeOK, Locking, Owned, NEW c \in Conns, Reader(c)
    PROVE  Shaped
<1>0. PlacesOwn
  BY DEF Owned
<1>1. ASSUME NEW m \in wire[c], RTake(c, m)
      PROVE  Shaped
  <2>1. PICK e \in pending[c] : Moved(e.req, "reading")
    BY <1>1 DEF RTake, TakeInto, Lookup
  <2>2. rpc[c] = "read"
    BY <1>1 DEF RTake, Reads
  <2>3. ~shutdown[c]
    BY <2>2 DEF Locking, ShutdownByReader
  <2>4. e.req \in Reqs /\ phase[e.req] = "pending"
    BY <1>0, <2>3, EntryType DEF PlacesOwn, PendingOwns
  <2> QED
    BY <2>1, <2>4, MovedIsSilent DEF Live
<1>2. ASSUME NEW m \in wire[c], RPing(c, m) \/ RStray(c, m)
      PROVE  Shaped
  BY <1>2, FrameIsSilent DEF RPing, RStray
<1>3. CASE Deliver(c)
  <2>1. /\ rcall[c].req \in Reqs /\ phase[rcall[c].req] = "reading"
        /\ rcall[c].from = rcall[c].req
    BY <1>0, <1>3 DEF Deliver, RRemoteError, RReply, RBodyFail, TypeOK, Answer,
                      PlacesOwn, ReaderOwns
  <2>2. CASE RRemoteError(c) \/ RBodyFail(c)
    BY <2>1, <2>2, CompletedReports DEF RRemoteError, RBodyFail, Live
  <2>3. CASE RReply(c)
    <3>1. /\ phase' = [phase EXCEPT ![rcall[c].req] = "completed"]
          /\ answered' = answered \cup ({rcall[c].from} \cap Reqs)
          /\ result' = result
      BY <2>3 DEF RReply
    <3>2. answered' = answered \cup {rcall[c].req}
      BY <2>1, <3>1
    <3>3. phase[rcall[c].req] \in Live
      BY <2>1 DEF Live
    <3>4. phase'[rcall[c].req] = "completed" /\ Others(rcall[c].req)
      BY <2>1, <3>1 DEF TypeOK, Others
    <3>5. Reports(rcall[c].req)
      BY <3>1, <3>2, <3>3, <3>4 DEF Reports
    <3> QED
      BY <2>1, <3>5 DEF Shaped
  <2> QED
    BY <1>3, <2>2, <2>3 DEF Deliver
<1>4. CASE RDrain(c)
  <2>1. PICK e \in todrain[c] : Completed(e.req)
    BY <1>4 DEF RDrain
  <2>2. e.req \in Reqs /\ phase[e.req] = "pending"
    BY <1>0, EntryType DEF PlacesOwn, DrainOwns
  <2> QED
    BY <2>1, <2>2, CompletedReports DEF Live
<1>5. CASE RShutdown(c) \/ RNotify(c)
  BY <1>5, FrameIsSilent DEF RShutdown, RNotify
<1> QED
  BY <1>1, <1>2, <1>3, <1>4, <1>5 DEF Reader

LEMMA StepShape ==
    ASSUME TypeOK, Locking, Owned, ReportedOnce', Next
    PROVE  Shaped
<1>1. ASSUME NEW c \in Conns, Start(c) \/ Close(c) \/ NetBreak(c)
      PROVE  Shaped
  BY <1>1, FrameIsSilent DEF Start, Close, NetBreak
<1> QED
  BY <1>1, CallerShape, WriterShape, ReaderShape DEF Next

-----------------------------------------------------------------------------
(* From shapes to the steps of RpcCall.                                    *)

LEMMA MappedInit ==
    ASSUME Init
    PROVE  Promise!Init
<1>1. \A r \in Reqs : StageOf(r) = "new" /\ OutcomeOf(r) = "none" /\ HandedTo(r) = "none"
  BY DEF Init, StageOf, OutcomeOf, HandedTo, Live
<1>2. ReportedOnce = TRUE
  BY DEF Init, ReportedOnce
<1> QED
  BY <1>1, <1>2 DEF Promise!Init

\* An invocation that keeps its phase, result and answer keeps its image.
LEMMA SameImage ==
    ASSUME NEW q \in Reqs,
           \/ phase'[q] = phase[q]
           \/ phase[q] \in Live /\ phase'[q] \in Live,
           q \in answered' <=> q \in answered,
           result'[q] = result[q]
    PROVE  StageOf(q)' = StageOf(q) /\ OutcomeOf(q)' = OutcomeOf(q)
           /\ HandedTo(q)' = HandedTo(q)
<1>1. HandedTo(q)' = HandedTo(q)
  BY DEF HandedTo
<1>2. StageOf(q)' = StageOf(q)
  BY DEF StageOf, Live
<1>3. OutcomeOf(q)' = OutcomeOf(q)
  BY DEF OutcomeOf, Live
<1> QED
  BY <1>1, <1>2, <1>3

LEMMA MappedShape ==
    ASSUME TypeOK, Owned, Owned', ReportedOnce, ReportedOnce', Shaped
    PROVE  [Promise!Next]_Promise!vars
<1>0. ReportedOnce' = ReportedOnce
  BY DEF ReportedOnce
<1>1. CASE Silent
  <2>1. \A q \in Reqs : StageOf(q)' = StageOf(q) /\ OutcomeOf(q)' = OutcomeOf(q)
                        /\ HandedTo(q)' = HandedTo(q)
    BY <1>1, SameImage DEF Silent
  <2> QED
    BY <1>0, <2>1 DEF Promise!vars
<1>2. ASSUME NEW r \in Reqs, Begins(r)
      PROVE  Promise!Invoke(r)
  <2>1. \A q \in Reqs \ {r} : StageOf(q)' = StageOf(q) /\ OutcomeOf(q)' = OutcomeOf(q)
                              /\ HandedTo(q)' = HandedTo(q)
    BY <1>2, SameImage DEF Begins, Others
  <2>2. StageOf(r) = "new" /\ StageOf(r)' = "outstanding"
    BY <1>2 DEF Begins, StageOf, Live
  <2>3. OutcomeOf(r)' = OutcomeOf(r) /\ HandedTo(r)' = HandedTo(r)
    BY <1>2 DEF Begins, OutcomeOf, HandedTo, Live
  <2> QED
    BY <1>0, <2>1, <2>2, <2>3 DEF Promise!Invoke
<1>3. ASSUME NEW r \in Reqs, Reports(r)
      PROVE  Promise!Report(r)
  <2>1. \A q \in Reqs \ {r} : StageOf(q)' = StageOf(q) /\ OutcomeOf(q)' = OutcomeOf(q)
                              /\ HandedTo(q)' = HandedTo(q)
    BY <1>3, SameImage DEF Reports, Others
  <2>2. StageOf(r) = "outstanding" /\ StageOf(r)' = "reported"
    BY <1>3 DEF Reports, StageOf, Live
  <2>3. OutcomeOf(r)' \in {"reply", "error"} /\ HandedTo(r)' = HandedTo(r)
    BY <1>3 DEF Reports, OutcomeOf, HandedTo, Live
  <2> QED
    BY <1>0, <2>1, <2>2, <2>3 DEF Promise!Report, Promise!Outcomes
<1>4. ASSUME NEW r \in Reqs, Returns(r)
      PROVE  Promise!Return(r)
  <2>1. PICK e \in Errors : result' = [result EXCEPT ![r] = e]
    BY <1>4 DEF Returns
  <2>2. \A q \in Reqs \ {r} : StageOf(q)' = StageOf(q) /\ OutcomeOf(q)' = OutcomeOf(q)
                              /\ HandedTo(q)' = HandedTo(q)
    BY <1>4, <2>1, SameImage DEF Returns, Others, TypeOK
  <2>3. StageOf(r) = "reported" /\ StageOf(r)' = "returned"
    BY <1>4 DEF Returns, StageOf, Live
  <2>4. OutcomeOf(r)' = OutcomeOf(r)
    BY <1>4 DEF Returns, OutcomeOf, Live
  <2>5. result'[r] = e /\ e # "none"
    BY <2>1 DEF TypeOK, Errors
  <2>6. result'[r] = "nil" <=> r \in answered
    BY <1>4 DEF Returns, Owned, CallsOwned, ResultIsOutcome
  <2>7. HandedTo(r)' = OutcomeOf(r)
    BY <1>4, <2>5, <2>6 DEF Returns, HandedTo, OutcomeOf, Live
  <2> QED
    BY <1>0, <2>2, <2>3, <2>4, <2>7 DEF Promise!Return
<1> QED
  BY <1>1, <1>2, <1>3, <1>4 DEF Shaped, Promise!Next

\* The invocation whose second report spoils the promise was reported before.
LEMMA MappedSecondReport ==
    ASSUME IInv, ReportedOnce, ~ReportedOnce', [Next]_vars
    PROVE  Promise!Next
<1>1. PICK r \in Reqs : ~(completions'[r] <= 1)
  BY DEF ReportedOnce
<1>2. \A q \in Reqs : completions[q] \in Nat /\ completions'[q] \in Nat
  BY CompletionsGrow DEF IInv
<1>3. completions'[r] <= completions[r] + 1
  BY CompletionsGrow DEF IInv
<1>4. completions[r] # 0
  BY <1>1, <1>2, <1>3
<1>5. phase[r] \in {"completed", "returned"}
  BY <1>4 DEF IInv, TypeOK, Phases, Owned, CallsOwned, NotYetReported, Live
<1>6. StageOf(r) \in {"reported", "returned"}
  BY <1>5 DEF StageOf, Live
<1>7. Promise!ReportAgain(r)
  BY <1>6 DEF Promise!ReportAgain
<1> QED
  BY <1>7 DEF Promise!Next

\* Every step of a connection is a step of the promise, or invisible.
LEMMA MappedStep ==
    ASSUME IInv, IInv', [Next]_vars
    PROVE  [Promise!Next]_Promise!vars
<1>1. CASE UNCHANGED vars
  <2>1. Silent
    BY <1>1 DEF vars, callerVars, Silent
  <2>2. \A q \in Reqs : StageOf(q)' = StageOf(q) /\ OutcomeOf(q)' = OutcomeOf(q)
                        /\ HandedTo(q)' = HandedTo(q)
    BY <2>1, SameImage DEF Silent
  <2>3. ReportedOnce' = ReportedOnce
    BY <1>1 DEF vars, callerVars, ReportedOnce
  <2> QED
    BY <2>2, <2>3 DEF Promise!vars
<1>2. CASE Next /\ ReportedOnce /\ ReportedOnce'
  <2>1. TypeOK /\ Locking /\ Owned /\ Owned'
    BY <1>2 DEF IInv
  <2>2. Shaped
    BY <1>2, <2>1, StepShape
  <2> QED
    BY <1>2, <2>1, <2>2, MappedShape
<1>3. CASE ReportedOnce /\ ~ReportedOnce'
  BY <1>3, MappedSecondReport
<1>4. CASE ~ReportedOnce
  <2>1. PICK r \in Reqs : ~(completions[r] <= 1)
    BY <1>4 DEF ReportedOnce
  <2>2. /\ completions[r] \in Nat /\ completions'[r] \in Nat
        /\ completions'[r] >= completions[r]
    BY CompletionsGrow DEF IInv
  <2>3. ~ReportedOnce'
    BY <2>1, <2>2 DEF ReportedOnce
  <2> QED
    BY <1>4, <2>3 DEF Promise!Next, Promise!Unsound
<1> QED
  BY <1>1, <1>2, <1>3, <1>4

\* ClientConn implements RpcCall: whatever the goroutines and the network do, an
\* invocation is reported once and its caller is handed its own outcome, until
\* the clean-up of a writer has reported an invocation a second time.
THEOREM KeepsPromiseHolds == Spec => KeepsPromise
<1>1. Init => Promise!Init
  BY MappedInit
<1>2. IInv /\ IInv' /\ [Next]_vars => [Promise!Next]_Promise!vars
  BY MappedStep
<1> QED
  BY <1>1, <1>2, Inductive, PTL DEF Spec, KeepsPromise, Promise!Spec

=============================================================================
