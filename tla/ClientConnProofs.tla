-------------------------- MODULE ClientConnProofs --------------------------
(***************************************************************************)
(* Proofs about ClientConn, for every value of its constants.              *)
(***************************************************************************)
EXTENDS ClientConnInv, TLAPS

-----------------------------------------------------------------------------
(* What the operations on a call do to the types of heap, pool and done.   *)

\* The channel an invocation is notified on is a channel or NoChan.
LEMMA ChanOfType ==
    ASSUME NEW r \in Reqs
    PROVE  ChanOf(r) \in Chans \cup {NoChan}
BY CallAssumption DEF ChanOf, Chans

LEMMA CapType ==
    ASSUME NEW ch \in Chans
    PROVE  Cap(ch) \in Nat
BY CallAssumption DEF Cap, Chans

\* A zero TCall is a TCall.
LEMMA BlankType == Blank \in TCall
BY DEF Blank, TCall, Errors

LEMMA NewCallType ==
    ASSUME CallTypeOK, NEW o \in Objs, NEW r \in Reqs, NewCall(o, r)
    PROVE  CallTypeOK'
<1>1. pool' \in [Objs -> Nat]
  BY DEF CallTypeOK, NewCall
<1>2. heap' \in [Objs -> TCall]
  BY ChanOfType DEF CallTypeOK, NewCall, TCall
<1> QED
  BY <1>1, <1>2 DEF CallTypeOK, NewCall

LEMMA FreeCallType ==
    ASSUME CallTypeOK, NEW o \in Objs, FreeCall(o)
    PROVE  heap' \in [Objs -> TCall] /\ pool' \in [Objs -> Nat]
BY BlankType DEF CallTypeOK, FreeCall

\* WhenCallDone keeps the types, whatever error it is given.
LEMMA WhenCallDoneType ==
    ASSUME CallTypeOK, NEW o \in Objs, NEW e \in Errors, WhenCallDone(o, e)
    PROVE  CallTypeOK'
<1>1. closed' = closed
  BY DEF WhenCallDone
<1>2. CASE FreeCall(o) /\ UNCHANGED done
  BY <1>1, <1>2, FreeCallType DEF CallTypeOK
<1>3. CASE /\ Notifies(o)
           /\ heap' = [heap EXCEPT ![o].err = e]
           /\ done' = [done EXCEPT ![heap[o].done] = Append(@, o)]
           /\ UNCHANGED pool
  <2>1. heap[o].done \in Chans
    BY <1>3 DEF CallTypeOK, TCall, Notifies
  <2>2. done' \in [Chans -> Seq(Objs)]
    BY <1>3, <2>1 DEF CallTypeOK
  <2>3. heap' \in [Objs -> TCall]
    BY <1>3 DEF CallTypeOK, TCall
  <2> QED
    BY <1>1, <1>3, <2>2, <2>3 DEF CallTypeOK
<1>4. CASE heap' = [heap EXCEPT ![o].err = e] /\ UNCHANGED <<pool, done>>
  <2>1. heap' \in [Objs -> TCall]
    BY <1>4 DEF CallTypeOK, TCall
  <2> QED
    BY <1>1, <1>4, <2>1 DEF CallTypeOK
<1> QED
  BY <1>2, <1>3, <1>4 DEF WhenCallDone

LEMMA CancelCallType ==
    ASSUME CallTypeOK, NEW o \in Objs, CancelCall(o)
    PROVE  CallTypeOK'
<1>1. heap' = [heap EXCEPT ![o] = [@ EXCEPT !.cancel = TRUE]]
  BY DEF CancelCall
<1>2. heap[o] \in TCall
  BY DEF CallTypeOK
<1>3. [heap[o] EXCEPT !.cancel = TRUE] \in TCall
  BY <1>2 DEF TCall
<1>4. heap' \in [Objs -> TCall]
  BY <1>1, <1>3 DEF CallTypeOK
<1> QED
  BY <1>4 DEF CallTypeOK, CancelCall

LEMMA CollectType ==
    ASSUME CallTypeOK, NEW ch \in Chans, Collect(ch)
    PROVE  CallTypeOK'
<1>1. Head(done[ch]) \in Objs /\ Tail(done[ch]) \in Seq(Objs)
  BY DEF CallTypeOK, Collect
<1>2. done' \in [Chans -> Seq(Objs)]
  BY <1>1 DEF CallTypeOK, Collect
<1>3. FreeCall(Head(done[ch])) /\ closed' = closed
  BY DEF Collect
<1> QED
  BY <1>1, <1>2, <1>3, FreeCallType DEF CallTypeOK

\* What is left of a queue whose head was taken.
LEMMA TailFacts ==
    ASSUME NEW S, NEW s \in Seq(S), s # <<>>
    PROVE  /\ Tail(s) \in Seq(S) /\ Len(Tail(s)) = Len(s) - 1
           /\ \A i \in DOMAIN Tail(s) : i + 1 \in DOMAIN s /\ Tail(s)[i] = s[i + 1]
           /\ DOMAIN Tail(s) \subseteq Nat \ {0}
           /\ Head(s) = s[1] /\ 1 \in DOMAIN s
<1>1. Tail(s) \in Seq(S) /\ Len(Tail(s)) = Len(s) - 1 /\ Len(s) \in Nat \ {0}
  OBVIOUS
<1>2. DOMAIN Tail(s) = 1 .. Len(s) - 1 /\ DOMAIN s = 1 .. Len(s)
  BY <1>1
<1>3. \A i \in 1 .. Len(s) - 1 : Tail(s)[i] = s[i + 1]
  BY <1>1
<1> QED
  BY <1>1, <1>2, <1>3

-----------------------------------------------------------------------------
(* Type correctness.                                                       *)

LEMMA InitTypeOK == Init => TypeOK
BY BlankType DEF Init, CallInit, TypeOK, CallTypeOK, Phases

\* The steps of the callers.
LEMMA CallerTypeOK ==
    ASSUME TypeOK, Caller
    PROVE  TypeOK'
<1> USE DEF TypeOK, Phases, writerVars, connVars, readerVars, netVars
<1>1. ASSUME NEW r \in Reqs, Make(r)
      PROVE  TypeOK'
  <2>1. PICK o \in Objs : NewCall(o, r) /\ obj' = [obj EXCEPT ![r] = o]
    BY <1>1 DEF Make
  <2>2. CallTypeOK'
    BY <2>1, NewCallType
  <2> QED
    BY <1>1, <2>1, <2>2 DEF Make
<1>2. ASSUME NEW r \in Reqs, Enqueue(r)
      PROVE  TypeOK'
  <2>1. CallTypeOK'
    BY <1>2 DEF Enqueue, CallTypeOK, callVars
  <2>2. inq' \in Seq(Item)
    BY <1>2 DEF Enqueue, Item
  <2> QED
    BY <1>2, <2>1, <2>2 DEF Enqueue, Moved
<1>3. ASSUME NEW r \in Reqs, EnqueueFull(r)
      PROVE  TypeOK'
  <2>1. CallTypeOK'
    BY <1>3, WhenCallDoneType DEF EnqueueFull, Errors
  <2> QED
    BY <1>3, <2>1 DEF EnqueueFull, Completed
<1>4. ASSUME NEW r \in Reqs, Cancel(r)
      PROVE  TypeOK'
  <2>1. CallTypeOK'
    BY <1>4, CancelCallType DEF Cancel
  <2> QED
    BY <1>4, <2>1 DEF Cancel, callerVars
<1>5. ASSUME NEW ch \in Chans, Receive(ch)
      PROVE  TypeOK'
  <2>1. CallTypeOK'
    BY <1>5, CollectType DEF Receive
  <2>2. Head(done[ch]) \in Objs
    BY <1>5 DEF Receive, Collect, CallTypeOK
  <2>3. heap[Head(done[ch])].err \in Errors
    BY <2>2 DEF CallTypeOK, TCall
  <2>4. PICK r \in Reqs :
          /\ result' = [result EXCEPT ![r] = heap[Head(done[ch])].err]
          /\ phase' = [phase EXCEPT ![r] = "returned"]
    BY <1>5 DEF Receive
  <2> QED
    BY <1>5, <2>1, <2>3, <2>4 DEF Receive
<1>6. ASSUME NEW ch \in UserChans, UserClosesChan(ch)
      PROVE  TypeOK'
  <2>1. CallTypeOK'
    BY <1>6 DEF UserClosesChan, CloseChan, CallTypeOK
  <2> QED
    BY <1>6, <2>1 DEF UserClosesChan, callerVars
<1> QED
  BY <1>1, <1>2, <1>3, <1>4, <1>5, <1>6 DEF Caller

\* Filing a call keeps the types of the connection's sequence number, pending
\* calls and group.
LEMMA FileType ==
    ASSUME TypeOK, NEW c \in Conns, NEW item \in Item, File(c, item)
    PROVE  /\ seq' \in [Conns -> Nat]
           /\ pending' \in [Conns -> SUBSET Entry]
           /\ group' \in [Conns -> Seq(Entry)]
           /\ phase' = [phase EXCEPT ![item.req] = "pending"]
           /\ item.req \in Reqs
           /\ UNCHANGED <<obj, result, completions, answered>>
<1> DEFINE e == [seq |-> seq[c], obj |-> item.obj, req |-> item.req]
<1>1. e \in Entry
  BY DEF TypeOK, Item, Entry
<1>2. /\ seq' = [seq EXCEPT ![c] = @ + 1]
      /\ pending' = [pending EXCEPT ![c] = (@ \ Lookup(c, e.seq)) \cup {e}]
      /\ group' = [group EXCEPT ![c] = Append(@, e)]
      /\ Moved(item.req, "pending")
  BY DEF File
<1>3. item.req \in Reqs
  BY DEF Item
<1> HIDE DEF e
<1>4. seq' \in [Conns -> Nat]
  BY <1>2 DEF TypeOK
<1>5. pending' \in [Conns -> SUBSET Entry]
  BY <1>1, <1>2 DEF TypeOK
<1>6. group' \in [Conns -> Seq(Entry)]
  <2>1. Append(group[c], e) \in Seq(Entry)
    BY <1>1 DEF TypeOK
  <2> QED
    BY <1>2, <2>1 DEF TypeOK
<1> QED
  BY <1>2, <1>3, <1>4, <1>5, <1>6 DEF Moved

\* A step that reports invocation r, whose call is object o.
LEMMA ReportType ==
    ASSUME TypeOK, NEW o \in Objs, NEW r \in Reqs, NEW e \in Errors,
           WhenCallDone(o, e), Completed(r)
    PROVE  /\ CallTypeOK'
           /\ phase' \in [Reqs -> Phases]
           /\ \A q \in Reqs : phase'[q] = "made" => obj'[q] \in Objs
           /\ completions' \in [Reqs -> Nat]
           /\ UNCHANGED <<obj, result, answered>>
<1>1. CallTypeOK'
  BY WhenCallDoneType DEF TypeOK
<1> QED
  BY <1>1 DEF TypeOK, Completed, Phases

LEMMA WriterTypeOK ==
    ASSUME TypeOK, NEW c \in Conns, Writer(c) \/ PingTimer(c)
    PROVE  TypeOK'
<1> USE DEF TypeOK, Phases, callVars, callerVars, writerVars, connVars,
            readerVars, netVars, CallTypeOK
<1>1. CASE WTake(c)
  <2>1. Head(inq) \in Item /\ Tail(inq) \in Seq(Item)
    BY <1>1 DEF WTake
  <2>2. Head(inq).req \in Reqs
    BY <2>1 DEF Item
  <2> QED
    BY <1>1, <2>1, <2>2 DEF WTake, Moved
<1>2. CASE WRefuse(c)
  <2>1. wcall[c].obj \in Objs /\ wcall[c].req \in Reqs
    BY <1>2 DEF WRefuse, Item
  <2> QED
    BY <1>2, <2>1, ReportType DEF WRefuse, Errors
<1>3. CASE WLock(c)
  <2>1. wcall[c] \in Item /\ File(c, wcall[c])
    BY <1>3 DEF WLock
  <2> QED
    BY <1>3, <2>1, FileType, ZenonT(60) DEF WLock
<1>4. CASE WGather(c)
  <2>1. Head(inq) \in Item /\ Tail(inq) \in Seq(Item) /\ File(c, Head(inq))
    BY <1>4 DEF WGather
  <2> QED
    BY <1>4, <2>1, FileType, ZenonT(60) DEF WGather
<1>5. CASE WUnlock(c)
  BY <1>5 DEF WUnlock
<1>6. CASE WWrite(c)
  <2>1. wire' \in [Conns -> SUBSET Message]
    <3>1. CASE UNCHANGED wire
      BY <3>1
    <3>2. CASE wire' = [wire EXCEPT ![c] = @ \cup
                          {[seq |-> group[c][wi[c] + 1].seq, req |-> NextWrite(c),
                            ping |-> NextWrite(c) \in PingReqs]}]
      <4>1. group[c][wi[c] + 1] \in Entry
        BY <1>6 DEF WWrite
      <4>2. NextWrite(c) \in Reqs \cup {NoReq} /\ group[c][wi[c] + 1].seq \in Nat
        BY <4>1 DEF NextWrite, Entry, TCall
      <4>3. [seq |-> group[c][wi[c] + 1].seq, req |-> NextWrite(c),
             ping |-> NextWrite(c) \in PingReqs] \in Message
        BY <4>2 DEF Message
      <4> QED
        BY <3>2, <4>3
    <3> QED
      BY <1>6, <3>1, <3>2 DEF WWrite
  <2>2. /\ wi' = [wi EXCEPT ![c] = @ + 1]
        /\ UNCHANGED <<callVars, callerVars, inq, wpc, wcall, group, connVars,
                       readerVars, netUp>>
    BY <1>6 DEF WWrite
  <2> QED
    BY <2>1, <2>2
<1>7. CASE WFlush(c)
  BY <1>7 DEF WFlush
<1>8. CASE WFail(c)
  BY <1>8 DEF WFail
<1>9. CASE WFailOne(c)
  <2>1. PICK e \in pending[c] :
           /\ pending' = [pending EXCEPT ![c] = @ \ {e}]
           /\ WhenCallDone(e.obj, "write")
           /\ Completed(e.req)
    BY <1>9 DEF WFailOne, Lookup
  <2>2. e.obj \in Objs /\ e.req \in Reqs
    BY DEF Entry
  <2>3. /\ CallTypeOK'
        /\ phase' \in [Reqs -> Phases]
        /\ \A q \in Reqs : phase'[q] = "made" => obj'[q] \in Objs
        /\ completions' \in [Reqs -> Nat]
        /\ UNCHANGED <<obj, result, answered>>
    <3>1. "write" \in Errors
      BY DEF Errors
    <3> QED
      BY <2>1, <2>2, <3>1, ReportType
  <2>4. /\ pending' \in [Conns -> SUBSET Entry]
        /\ wi' \in [Conns -> Nat]
    BY <1>9, <2>1 DEF WFailOne
  <2>5. UNCHANGED <<inq, wpc, wcall, group, mutex, seq, closing, shutdown,
                    exitNotify, readerVars, netVars>>
    BY <1>9 DEF WFailOne
  <2> QED
    BY <2>3, <2>4, <2>5
<1>10. CASE WFailSkip(c)
  BY <1>10 DEF WFailSkip
<1>11. CASE WFailed(c)
  BY <1>11 DEF WFailed, WEnds
<1>12. CASE WPanic(c)
  BY <1>12 DEF WPanic, WEnds
<1>13. CASE WExitNotify(c)
  BY <1>13 DEF WExitNotify, WEnds
<1>14. CASE WPing(c)
  <2>1. PingMessage \in Message
    BY DEF PingMessage, Message
  <2> QED
    BY <1>14, <2>1 DEF WPing
<1>15. CASE WPingFail(c)
  BY <1>15 DEF WPingFail, WEnds
<1> QED
  BY <1>1, <1>2, <1>3, <1>4, <1>5, <1>6, <1>7, <1>8, <1>9, <1>10, <1>11,
     <1>12, <1>13, <1>14, <1>15 DEF Writer, PingTimer

LEMMA ReaderTypeOK ==
    ASSUME TypeOK, NEW c \in Conns, Reader(c)
    PROVE  TypeOK'
<1> USE DEF TypeOK, Phases, callVars, callerVars, writerVars, connVars,
            readerVars, netVars, CallTypeOK
<1>1. ASSUME NEW m \in wire[c], RPing(c, m)
      PROVE  TypeOK'
  BY <1>1 DEF RPing, Reads
<1>2. ASSUME NEW m \in wire[c], RStray(c, m)
      PROVE  TypeOK'
  BY <1>2 DEF RStray, Reads
<1>3. ASSUME NEW m \in wire[c], RTake(c, m)
      PROVE  TypeOK'
  <2>1. PICK e \in pending[c] :
          /\ pending' = [pending EXCEPT ![c] = @ \ {e}]
          /\ rcall' = [rcall EXCEPT ![c] =
                          [obj |-> e.obj, req |-> e.req, from |-> m.req]]
          /\ Moved(e.req, "reading")
    BY <1>3 DEF RTake, TakeInto, Lookup
  <2>2. e.obj \in Objs /\ e.req \in Reqs /\ m.req \in Reqs \cup {NoReq}
    BY DEF Entry, Message
  <2>3. [obj |-> e.obj, req |-> e.req, from |-> m.req] \in Answer
    BY <2>2 DEF Answer
  <2>4. rcall' \in [Conns -> Answer \cup {Nil}] /\ rcall'[c] \in Answer
    BY <2>1, <2>3
  <2>5. /\ wire' = [wire EXCEPT ![c] = @ \ {m}]
        /\ rpc' = [rpc EXCEPT ![c] = "deliver"]
        /\ UNCHANGED <<callVars, inq, writerVars, mutex, seq, closing, shutdown,
                       exitNotify, todrain, netUp>>
    BY <1>3 DEF RTake, TakeInto, Reads
  <2>6. \A d \in Conns : rpc'[d] = "deliver" => rcall'[d] \in Answer
    BY <2>1, <2>4, <2>5
  <2> QED
    BY <2>1, <2>2, <2>4, <2>5, <2>6 DEF Moved
<1>4. CASE Deliver(c)
  <2>1. /\ rcall[c] \in Answer
        /\ rcall[c].obj \in Objs
        /\ rcall[c].req \in Reqs
        /\ heap[rcall[c].obj].err \in Errors
    BY <1>4 DEF Deliver, RRemoteError, RReply, RBodyFail, Answer, TCall
  <2>2. PICK next \in {"read", "broken"} : Delivered(c, next)
    BY <1>4 DEF Deliver, RRemoteError, RReply, RBodyFail
  <2>3. CASE RRemoteError(c) \/ RBodyFail(c)
    <3>1. PICK e \in Errors : WhenCallDone(rcall[c].obj, e) /\ Completed(rcall[c].req)
      BY <2>3 DEF RRemoteError, RBodyFail, Errors
    <3> QED
      BY <2>1, <2>2, <3>1, ReportType DEF Delivered
  <2>4. CASE RReply(c)
    <3>1. CallTypeOK'
      BY <2>1, <2>4, WhenCallDoneType DEF RReply
    <3>2. /\ completions' = [completions EXCEPT ![rcall[c].req] = @ + 1]
          /\ phase' = [phase EXCEPT ![rcall[c].req] = "completed"]
          /\ answered' \subseteq Reqs
          /\ UNCHANGED <<obj, result>>
      BY <2>4 DEF RReply
    <3> QED
      BY <2>1, <2>2, <3>1, <3>2 DEF Delivered
  <2> QED
    BY <1>4, <2>3, <2>4 DEF Deliver
<1>5. CASE RShutdown(c)
  BY <1>5 DEF RShutdown
<1>6. CASE RDrain(c)
  <2>1. PICK e \in todrain[c] :
          /\ todrain' = [todrain EXCEPT ![c] = @ \ {e}]
          /\ WhenCallDone(e.obj, "down")
          /\ Completed(e.req)
    BY <1>6 DEF RDrain
  <2>2. e.obj \in Objs /\ e.req \in Reqs
    BY DEF Entry
  <2> QED
    BY <1>6, <2>1, <2>2, ReportType DEF RDrain, Errors
<1>7. CASE RNotify(c)
  BY <1>7 DEF RNotify
<1> QED
  BY <1>1, <1>2, <1>3, <1>4, <1>5, <1>6, <1>7 DEF Reader

LEMMA NextTypeOK == TypeOK /\ [Next]_vars => TypeOK'
<1> SUFFICES ASSUME TypeOK, [Next]_vars
             PROVE  TypeOK'
  OBVIOUS
<1> USE DEF callVars, callerVars, writerVars, connVars, readerVars, netVars
<1>1. CASE Caller
  BY <1>1, CallerTypeOK
<1>2. ASSUME NEW c \in Conns, Start(c)
      PROVE  TypeOK'
  BY <1>2 DEF Start, TypeOK, CallTypeOK, Phases
<1>3. ASSUME NEW c \in Conns, Close(c)
      PROVE  TypeOK'
  BY <1>3 DEF Close, TypeOK, CallTypeOK, Phases
<1>4. ASSUME NEW c \in Conns, NetBreak(c)
      PROVE  TypeOK'
  BY <1>4 DEF NetBreak, TypeOK, CallTypeOK, Phases
<1>5. ASSUME NEW c \in Conns, Writer(c) \/ PingTimer(c)
      PROVE  TypeOK'
  BY <1>5, WriterTypeOK
<1>6. ASSUME NEW c \in Conns, Reader(c)
      PROVE  TypeOK'
  BY <1>6, ReaderTypeOK
<1>7. CASE UNCHANGED vars
  BY <1>7 DEF vars, TypeOK, CallTypeOK
<1> QED
  BY <1>1, <1>2, <1>3, <1>4, <1>5, <1>6, <1>7 DEF Next

\* Every field keeps its type: in particular a call that the reader or the
\* writer hands to WhenCallDone is a call object, never nil.
THEOREM TypeCorrect == Spec => []TypeOK
BY InitTypeOK, NextTypeOK, PTL DEF Spec

-----------------------------------------------------------------------------
(* The mutex and the clean-up of a connection that is shut down.           *)

LEMMA InitLocking == Init => Locking
BY DEF Init, Locking, MutexHeld, ShutdownByReader, Drained

LEMMA EntryType ==
    ASSUME TypeOK, NEW c \in Conns, NEW e \in pending[c] \cup todrain[c]
    PROVE  e.seq \in Nat /\ e.obj \in Objs /\ e.req \in Reqs
<1>1. e \in Entry
  BY DEF TypeOK
<1> QED
  BY <1>1 DEF Entry

\* What was reported stays reported.
LEMMA CompletionsGrow ==
    ASSUME TypeOK, [Next]_vars, NEW r \in Reqs
    PROVE  /\ completions[r] \in Nat
           /\ completions'[r] \in Nat
           /\ completions'[r] >= completions[r]
           /\ completions'[r] <= completions[r] + 1
<1>1. completions \in [Reqs -> Nat] /\ completions' \in [Reqs -> Nat]
  BY NextTypeOK DEF TypeOK
<1> USE DEF callerVars, Moved, Completed
<1>2. UNCHANGED completions \/ \E q \in Reqs : completions' = [completions EXCEPT ![q] = @ + 1]
  <2>1. CASE Caller
    <3>1. CASE \E q \in Reqs : Make(q) \/ Enqueue(q) \/ Cancel(q)
      BY <3>1 DEF Make, Enqueue, Cancel
    <3>2. CASE \E q \in Reqs : EnqueueFull(q)
      BY <3>2 DEF EnqueueFull
    <3>3. CASE \E ch \in Chans : Receive(ch)
      BY <3>3 DEF Receive
    <3>4. CASE \E ch \in UserChans : UserClosesChan(ch)
      BY <3>4 DEF UserClosesChan
    <3> QED
      BY <2>1, <3>1, <3>2, <3>3, <3>4 DEF Caller
  <2>2. ASSUME NEW c \in Conns, Start(c) \/ Close(c) \/ NetBreak(c)
        PROVE  UNCHANGED completions
    BY <2>2 DEF Start, Close, NetBreak
  <2>3. ASSUME NEW c \in Conns, Writer(c) \/ PingTimer(c)
        PROVE  \/ UNCHANGED completions
               \/ \E q \in Reqs : completions' = [completions EXCEPT ![q] = @ + 1]
    <3>1. CASE WRefuse(c)
      BY <3>1 DEF WRefuse, TypeOK, Item
    <3>2. CASE WFailOne(c)
      <4>1. PICK e \in pending[c] : Completed(e.req)
        BY <3>2 DEF WFailOne, Lookup
      <4> QED
        BY <4>1, EntryType
    <3> QED
      BY <2>3, <3>1, <3>2 DEF Writer, PingTimer, WTake, WLock, WGather, File,
                      WUnlock, WWrite, WFlush, WFail, WFailSkip,
                      WFailed, WPanic, WExitNotify, WPing, WPingFail, WEnds
  <2>4. ASSUME NEW c \in Conns, Reader(c)
        PROVE  \/ UNCHANGED completions
               \/ \E q \in Reqs : completions' = [completions EXCEPT ![q] = @ + 1]
    <3>1. CASE \E m \in wire[c] : RPing(c, m) \/ RStray(c, m) \/ RTake(c, m)
      BY <3>1 DEF RPing, RStray, RTake, TakeInto
    <3>2. CASE Deliver(c)
      BY <3>2 DEF Deliver, RRemoteError, RReply, RBodyFail, TypeOK, Answer
    <3>3. CASE RDrain(c)
      <4>1. PICK e \in todrain[c] : Completed(e.req)
        BY <3>3 DEF RDrain
      <4> QED
        BY <4>1, EntryType
    <3>4. CASE RShutdown(c) \/ RNotify(c)
      BY <3>4 DEF RShutdown, RNotify
    <3> QED
      BY <2>4, <3>1, <3>2, <3>3, <3>4 DEF Reader
  <2>5. CASE UNCHANGED vars
    BY <2>5 DEF vars
  <2> QED
    BY <2>1, <2>2, <2>3, <2>4, <2>5 DEF Next
<1> QED
  BY <1>1, <1>2

\* The steps of the callers leave the goroutines and connections alone.
LEMMA CallerFrame ==
    ASSUME Caller
    PROVE  UNCHANGED <<writerVars, connVars, readerVars, netVars>>
<1>1. CASE \E r \in Reqs : Make(r) \/ Enqueue(r) \/ EnqueueFull(r)
  BY <1>1 DEF Make, Enqueue, EnqueueFull
<1>2. CASE \E r \in Reqs : Cancel(r)
  BY <1>2 DEF Cancel
<1>3. CASE \E ch \in Chans : Receive(ch)
  BY <1>3 DEF Receive
<1>4. CASE \E ch \in UserChans : UserClosesChan(ch)
  BY <1>4 DEF UserClosesChan
<1> QED
  BY <1>1, <1>2, <1>3, <1>4 DEF Caller

Lock == MutexHeld /\ ShutdownByReader

LEMMA LockStep ==
    ASSUME TypeOK, Lock, [Next]_vars
    PROVE  Lock'
<1> USE DEF Lock, MutexHeld, ShutdownByReader, writerVars, connVars, readerVars
<1>0. /\ mutex \in [Conns -> {"free", "writer", "reader"}]
      /\ wpc \in [Conns -> {"off", "select", "got", "gather", "write", "fail", "exit"}]
      /\ rpc \in [Conns -> {"off", "read", "deliver", "broken", "drain", "exit"}]
      /\ shutdown \in [Conns -> BOOLEAN]
      /\ todrain \in [Conns -> SUBSET Entry]
  BY DEF TypeOK
<1>1. CASE Caller
  BY <1>1, CallerFrame
<1>2. ASSUME NEW c \in Conns, Close(c) \/ NetBreak(c)
      PROVE  Lock'
  BY <1>2 DEF Close, NetBreak
<1>3. ASSUME NEW c \in Conns, Start(c)
      PROVE  Lock'
  BY <1>0, <1>3 DEF Start
<1>4. ASSUME NEW c \in Conns, Writer(c) \/ PingTimer(c)
      PROVE  Lock'
  <2>1. CASE WTake(c) \/ WRefuse(c) \/ WFlush(c) \/ WFail(c) \/ WFailed(c) \/ WPanic(c)
    <3>1. /\ wpc[c] \notin {"off", "gather"}
          /\ \E p \in {"got", "exit", "select", "fail"} : wpc' = [wpc EXCEPT ![c] = p]
          /\ UNCHANGED <<mutex, rpc, shutdown, todrain>>
      BY <2>1 DEF WTake, WRefuse, WFlush, WFail, WFailed, WPanic, WEnds
    <3> QED
      BY <1>0, <3>1
  <2>2. CASE WLock(c)
    BY <1>0, <2>2 DEF WLock
  <2>3. CASE WGather(c)
    BY <1>0, <2>3 DEF WGather
  <2>4. CASE WUnlock(c)
    BY <1>0, <2>4 DEF WUnlock
  <2>5. CASE WWrite(c)
    BY <1>0, <2>5 DEF WWrite
  <2>6. CASE WFailOne(c)
    BY <1>0, <2>6 DEF WFailOne
  <2>7. CASE WFailSkip(c) \/ WPing(c)
    BY <1>0, <2>7 DEF WFailSkip, WPing
  <2>8. CASE WExitNotify(c) \/ WPingFail(c)
    BY <1>0, <2>8 DEF WExitNotify, WPingFail, WEnds
  <2> QED
    BY <1>4, <2>1, <2>2, <2>3, <2>4, <2>5, <2>6, <2>7, <2>8 DEF Writer, PingTimer
<1>5. ASSUME NEW c \in Conns, Reader(c)
      PROVE  Lock'
  <2>1. CASE \E m \in wire[c] : RPing(c, m) \/ RStray(c, m)
    BY <1>0, <2>1 DEF RPing, RStray, Reads
  <2>2. CASE \E m \in wire[c] : RTake(c, m)
    BY <1>0, <2>2 DEF RTake, TakeInto, Reads
  <2>3. CASE Deliver(c)
    <3>1. PICK next \in {"read", "broken"} : Delivered(c, next) /\ rpc[c] = "deliver"
      BY <2>3 DEF Deliver, RRemoteError, RReply, RBodyFail
    <3> QED
      BY <1>0, <3>1 DEF Delivered
  <2>4. CASE RShutdown(c)
    BY <1>0, <2>4 DEF RShutdown
  <2>5. CASE RDrain(c)
    BY <1>0, <2>5 DEF RDrain
  <2>6. CASE RNotify(c)
    BY <1>0, <2>6 DEF RNotify
  <2> QED
    BY <1>5, <2>1, <2>2, <2>3, <2>4, <2>5, <2>6 DEF Reader
<1>6. CASE UNCHANGED vars
  BY <1>6 DEF vars
<1> QED
  BY <1>1, <1>2, <1>3, <1>4, <1>5, <1>6 DEF Next

\* A call of a connection that is being shut down, or has been, was either
\* reported before this step or is reported by it.
LEMMA DrainedStep ==
    ASSUME TypeOK, Locking, [Next]_vars,
           NEW d \in Conns, rpc'[d] \in {"drain", "exit"},
           NEW e \in pending'[d] \ todrain'[d]
    PROVE  completions'[e.req] >= 1
<1> DEFINE Before == rpc[d] \in {"drain", "exit"} /\ e \in pending[d] \ todrain[d]
           Now == e \in todrain[d] /\ Completed(e.req)
<1> USE DEF writerVars, connVars, readerVars
<1>0. /\ rpc \in [Conns -> {"off", "read", "deliver", "broken", "drain", "exit"}]
      /\ todrain \in [Conns -> SUBSET Entry]
      /\ pending \in [Conns -> SUBSET Entry]
  BY DEF TypeOK
<1>1. CASE Before
  <2>1. e.req \in Reqs /\ completions[e.req] >= 1
    BY <1>1, EntryType DEF Locking, Drained
  <2> QED
    BY <2>1, CompletionsGrow
<1>2. CASE Now
  <2>1. e.req \in Reqs /\ completions[e.req] \in Nat
    BY <1>2, EntryType DEF TypeOK
  <2> QED
    BY <1>2, <2>1 DEF Completed, TypeOK
<1>3. Before \/ Now
  <2>1. CASE Caller
    BY <2>1, CallerFrame
  <2>2. ASSUME NEW c \in Conns, Start(c) \/ Close(c) \/ NetBreak(c)
        PROVE  Before
    BY <1>0, <2>2 DEF Start, Close, NetBreak
  <2>3. ASSUME NEW c \in Conns, Writer(c) \/ PingTimer(c)
        PROVE  Before
    <3>1. CASE WLock(c) \/ WGather(c)
      <4>1. ~shutdown[c] /\ UNCHANGED <<rpc, todrain>>
        BY <3>1 DEF WLock, WGather, Locking, ShutdownByReader
      <4>2. d # c
        BY <4>1 DEF Locking, ShutdownByReader
      <4>3. pending'[d] = pending[d]
        BY <1>0, <3>1, <4>2 DEF WLock, WGather, File
      <4> QED
        BY <4>1, <4>3
    <3>2. CASE WFailOne(c)
      <4>1. PICK f : pending' = [pending EXCEPT ![c] = @ \ {f}]
        BY <3>2 DEF WFailOne
      <4> QED
        BY <1>0, <3>2, <4>1 DEF WFailOne
    <3>3. CASE WTake(c) \/ WRefuse(c) \/ WUnlock(c) \/ WFlush(c) \/ WFail(c)
      BY <3>3 DEF WTake, WRefuse, WUnlock, WFlush, WFail
    <3>4. CASE WWrite(c) \/ WFailSkip(c) \/ WPing(c)
      BY <3>4 DEF WWrite, WFailSkip, WPing
    <3>5. CASE WFailed(c) \/ WPanic(c) \/ WExitNotify(c) \/ WPingFail(c)
      BY <3>5 DEF WFailed, WPanic, WExitNotify, WPingFail, WEnds
    <3> QED
      BY <2>3, <3>1, <3>2, <3>3, <3>4, <3>5 DEF Writer, PingTimer
  <2>4. ASSUME NEW c \in Conns, Reader(c)
        PROVE  Before \/ Now
    <3>1. CASE \E m \in wire[c] : RPing(c, m) \/ RStray(c, m)
      BY <1>0, <3>1 DEF RPing, RStray
    <3>2. CASE \E m \in wire[c] : RTake(c, m)
      <4>1. PICK f : pending' = [pending EXCEPT ![c] = @ \ {f}]
        BY <3>2 DEF RTake, TakeInto
      <4> QED
        BY <1>0, <3>2, <4>1 DEF RTake, TakeInto
    <3>3. CASE Deliver(c)
      <4>1. PICK next \in {"read", "broken"} : Delivered(c, next)
        BY <3>3 DEF Deliver, RRemoteError, RReply, RBodyFail
      <4> QED
        BY <1>0, <4>1 DEF Delivered
    <3>4. CASE RShutdown(c)
      BY <1>0, <3>4 DEF RShutdown
    <3>5. CASE RDrain(c)
      <4>1. PICK f \in todrain[c] : todrain' = [todrain EXCEPT ![c] = @ \ {f}] /\ Completed(f.req)
        BY <3>5 DEF RDrain
      <4> QED
        BY <1>0, <3>5, <4>1 DEF RDrain
    <3>6. CASE RNotify(c)
      BY <1>0, <3>6 DEF RNotify
    <3> QED
      BY <2>4, <3>1, <3>2, <3>3, <3>4, <3>5, <3>6 DEF Reader
  <2>5. CASE UNCHANGED vars
    BY <2>5 DEF vars
  <2> QED
    BY <2>1, <2>2, <2>3, <2>4, <2>5 DEF Next
<1> QED
  BY <1>1, <1>2, <1>3

LEMMA LockingStep ==
    ASSUME TypeOK, Locking, [Next]_vars
    PROVE  Locking'
<1>1. Lock'
  BY LockStep DEF Lock, Locking
<1>2. Drained'
  BY DrainedStep DEF Drained
<1> QED
  BY <1>1, <1>2 DEF Lock, Locking

\* onShutDown and sendCall exclude each other through the mutex, so whatever is
\* left in pending when the reader has ended was reported.
THEOREM DeadConnHoldsNothingHolds == Spec => []DeadConnHoldsNothing
<1>1. Init => TypeOK /\ Locking
  BY InitTypeOK, InitLocking
<1>2. TypeOK /\ Locking /\ [Next]_vars => TypeOK' /\ Locking'
  BY NextTypeOK, LockingStep
<1>3. Locking => DeadConnHoldsNothing
  BY DEF Locking, Drained, ShutdownByReader, DeadConnHoldsNothing
<1> QED
  BY <1>1, <1>2, <1>3, PTL DEF Spec

-----------------------------------------------------------------------------
(* Who owns a call.                                                        *)

LEMMA ChanFacts ==
    /\ \A r \in Reqs : ChanOf(r) = NoChan \/ ChanOf(r) \in Chans
    /\ NoChan \notin Chans
    /\ \A r \in Reqs, q \in SyncReqs : ChanOf(r) = q <=> r = q
    /\ \A q \in SyncReqs : q \in Chans /\ q \in Reqs /\ Cap(q) = 1 /\ q \notin UserChans
BY CallAssumption DEF ChanOf, Chans, Cap

\* Two live invocations have two calls, and neither call waits in a channel.
LEMMA LiveDistinct ==
    ASSUME CallsOwned, NEW r \in Reqs, phase[r] \in Live
    PROVE  /\ \A q \in Reqs : phase[q] \in Live /\ obj[q] = obj[r] => q = r
           /\ \A ch \in Chans : \A i \in DOMAIN done[ch] : done[ch][i] # obj[r]
<1>1. \A q \in Reqs : phase[q] \in Live /\ obj[q] = obj[r] => q = r
  BY DEF CallsOwned, LiveHoldsCall
<1>2. \A ch \in Chans : \A i \in DOMAIN done[ch] : done[ch][i] # obj[r]
  BY DEF CallsOwned, LiveHoldsCall, DoneHoldsCalls, Waiting, Live
<1> QED
  BY <1>1, <1>2

\* Reporting a live invocation ends its ownership of the call: the call goes to
\* the Done channel, back to the pool, or to nobody.
LEMMA ReportKeepsCalls ==
    ASSUME TypeOK, CallsOwned, NEW r \in Reqs, phase[r] \in Live,
           NEW e \in Errors, WhenCallDone(obj[r], e),
           phase' = [phase EXCEPT ![r] = "completed"],
           completions' = [completions EXCEPT ![r] = @ + 1],
           UNCHANGED <<obj, result>>,
           answered' = IF e = "nil" THEN answered \cup {r} ELSE answered
    PROVE  CallsOwned'
<1> DEFINE o == obj[r]
           ch == heap[o].done
<1>1. /\ o \in Objs /\ pool[o] = 0 /\ heap[o].req = r /\ ch = ChanOf(r)
      /\ heap[o].err = "nil" /\ (r \in SyncReqs => ~heap[o].cancel)
      /\ completions[r] = 0 /\ r \notin answered /\ (r \in SyncReqs => done[r] = <<>>)
  BY DEF CallsOwned, LiveHoldsCall, NotYetReported
<1>2. /\ heap \in [Objs -> TCall] /\ pool \in [Objs -> Nat]
      /\ done \in [Chans -> Seq(Objs)] /\ closed \subseteq UserChans
      /\ phase \in [Reqs -> Phases] /\ completions \in [Reqs -> Nat]
      /\ obj \in [Reqs -> Objs \cup {Nil}]
  BY DEF TypeOK, CallTypeOK
<1>3. /\ \A q \in Reqs : phase[q] \in Live /\ obj[q] = o => q = r
      /\ \A c \in Chans : \A i \in DOMAIN done[c] : done[c][i] # o
  BY LiveDistinct
<1>4. /\ \A p \in Objs \ {o} : heap'[p] = heap[p] /\ pool'[p] = pool[p]
      /\ \/ /\ heap'[o] = Blank /\ pool'[o] = 1 /\ done' = done /\ ~Notifies(o)
         \/ /\ heap'[o].err = e /\ heap'[o].req = r /\ heap'[o].done = ch
            /\ pool'[o] = 0 /\ Notifies(o)
            /\ \/ /\ Len(done[ch]) < Cap(ch)
                  /\ done' = [done EXCEPT ![ch] = Append(@, o)]
               \/ Len(done[ch]) >= Cap(ch) /\ done' = done
  <2>1. heap[o] \in TCall
    BY <1>1, <1>2
  <2>2. CASE ~Notifies(o) /\ FreeCall(o) /\ UNCHANGED done
    BY <1>1, <1>2, <2>2 DEF FreeCall
  <2>3. CASE heap' = [heap EXCEPT ![o].err = e] /\ UNCHANGED pool /\ Notifies(o)
    <3>1. heap'[o].err = e /\ heap'[o].req = r /\ heap'[o].done = ch
      BY <1>1, <1>2, <2>1, <2>3 DEF TCall
    <3>2. \A p \in Objs \ {o} : heap'[p] = heap[p] /\ pool'[p] = pool[p]
      BY <1>1, <1>2, <2>3
    <3> QED
      BY <1>1, <2>3, <3>1, <3>2 DEF WhenCallDone
  <2> QED
    BY <2>2, <2>3 DEF WhenCallDone
<1>5. /\ \A q \in Reqs \ {r} : /\ phase'[q] = phase[q]
                              /\ completions'[q] = completions[q]
                              /\ q \in answered' <=> q \in answered
      /\ phase'[r] = "completed"
      /\ r \in answered' <=> e = "nil"
  BY <1>1, <1>2
<1>6. Notifies(o) => ch \in Chans /\ done[ch] \in Seq(Objs) /\ Cap(ch) \in Nat
  BY <1>1, <1>2, ChanFacts, CapType DEF Notifies
<1>7. \A c \in Chans : \/ done'[c] = done[c]
                     \/ /\ c = ch /\ done'[c] = Append(done[c], o) /\ Notifies(o)
                        /\ pool'[o] = 0
  BY <1>2, <1>4
<1> HIDE DEF o, ch
<1>8. LiveHoldsCall'
  <2> SUFFICES ASSUME NEW q \in Reqs, phase'[q] \in Live
               PROVE  /\ obj'[q] \in Objs
                      /\ pool'[obj'[q]] = 0
                      /\ heap'[obj'[q]].req = q
                      /\ heap'[obj'[q]].done = ChanOf(q)
                      /\ heap'[obj'[q]].err = "nil"
                      /\ q \in SyncReqs => ~heap'[obj'[q]].cancel
    BY DEF LiveHoldsCall
  <2>1. q # r /\ phase[q] \in Live
    BY <1>5 DEF Live
  <2>2. obj[q] \in Objs \ {o}
    BY <1>3, <2>1 DEF CallsOwned, LiveHoldsCall
  <2> QED
    BY <1>4, <2>1, <2>2 DEF CallsOwned, LiveHoldsCall
<1>9. NotYetReported'
  <2> SUFFICES ASSUME NEW q \in Reqs, phase'[q] \in Live \cup {"idle"}
               PROVE  /\ completions'[q] = 0
                      /\ q \notin answered'
                      /\ q \in SyncReqs => done'[q] = <<>>
    BY DEF NotYetReported
  <2>1. q # r /\ phase[q] \in Live \cup {"idle"}
    BY <1>5 DEF Live
  <2>2. q \in SyncReqs => done'[q] = done[q]
    BY <1>1, <1>7, <2>1, ChanFacts
  <2> QED
    BY <1>5, <2>1, <2>2 DEF CallsOwned, NotYetReported
<1>10. PooledIsBlank'
  BY <1>1, <1>4 DEF CallsOwned, PooledIsBlank
<1>11. DoneHoldsCalls'
  <2> DEFINE WaitsNext(c, p) ==
               /\ pool'[p] = 0
               /\ heap'[p].done = c
               /\ \E q \in Reqs :
                     /\ heap'[p].req = q
                     /\ ChanOf(q) = c
                     /\ phase'[q] = "completed"
                     /\ obj'[q] = p
                     /\ heap'[p].err = "nil" <=> q \in answered'
  <2>1. ASSUME NEW c \in Chans, NEW i \in DOMAIN done[c]
        PROVE  WaitsNext(c, done[c][i])
    <3>1. done[c][i] \in Objs \ {o} /\ Waiting(c, done[c][i])
      BY <1>2, <1>3 DEF CallsOwned, DoneHoldsCalls
    <3>2. PICK q \in Reqs : /\ heap[done[c][i]].req = q /\ ChanOf(q) = c
                            /\ phase[q] = "completed" /\ obj[q] = done[c][i]
                            /\ heap[done[c][i]].err = "nil" <=> q \in answered
      BY <3>1 DEF Waiting
    <3>3. q # r
      BY <3>2 DEF Live
    <3> QED
      BY <1>4, <1>5, <3>1, <3>2, <3>3 DEF Waiting
  <2>2. ASSUME Notifies(o), ch \in Chans, pool'[o] = 0
        PROVE  WaitsNext(ch, o)
    BY <1>1, <1>4, <1>5, <2>2 DEF Waiting, o
  <2> HIDE DEF WaitsNext
  <2> SUFFICES ASSUME NEW c \in Chans
               PROVE  /\ \A i \in DOMAIN done'[c] : WaitsNext(c, done'[c][i])
                      /\ \A i, j \in DOMAIN done'[c] : done'[c][i] = done'[c][j] => i = j
    BY DEF DoneHoldsCalls, Waiting, WaitsNext
  <2>3. CASE done'[c] = done[c]
    BY <2>1, <2>3 DEF CallsOwned, DoneHoldsCalls
  <2>4. CASE c = ch /\ done'[c] = Append(done[c], o) /\ Notifies(o) /\ pool'[o] = 0
    <3>1. done[c] \in Seq(Objs)
      BY <1>2
    <3>2. DOMAIN done'[c] = 1 .. Len(done[c]) + 1 /\ DOMAIN done[c] = 1 .. Len(done[c])
      BY <1>1, <2>4, <3>1
    <3>3. \A i \in DOMAIN done[c] : done'[c][i] = done[c][i] /\ done'[c][i] # o
      BY <1>1, <1>3, <2>4, <3>1
    <3>4. done'[c][Len(done[c]) + 1] = o
      BY <1>1, <2>4, <3>1
    <3>5. \A i \in DOMAIN done'[c] : i \in DOMAIN done[c] \/ i = Len(done[c]) + 1
      BY <3>1, <3>2
    <3>6. \A i \in DOMAIN done'[c] : WaitsNext(c, done'[c][i])
      <4> TAKE i \in DOMAIN done'[c]
      <4>1. CASE i \in DOMAIN done[c]
        BY <2>1, <3>3, <4>1
      <4>2. CASE i = Len(done[c]) + 1
        BY <2>2, <2>4, <3>4, <4>2
      <4> QED
        BY <3>5, <4>1, <4>2
    <3>7. \A i, j \in DOMAIN done[c] : done[c][i] = done[c][j] => i = j
      BY DEF CallsOwned, DoneHoldsCalls
    <3> QED
      BY <3>3, <3>4, <3>5, <3>6, <3>7
  <2> QED
    BY <1>7, <2>3, <2>4
<1>12. SyncIsWaiting'
  <2> SUFFICES ASSUME NEW q \in SyncReqs, phase'[q] = "completed"
               PROVE  done'[q] = <<obj'[q]>>
    BY DEF SyncIsWaiting
  <2>1. CASE q = r
    <3>1. ch = r /\ r \in Chans /\ Cap(r) = 1 /\ done[r] = <<>> /\ ch # NoChan
      BY <1>1, <2>1, ChanFacts
    <3>2. Notifies(o)
      BY <1>1, <1>2, <2>1, <3>1, ChanFacts DEF Notifies, ch
    <3>3. Len(done[ch]) < Cap(ch)
      BY <3>1
    <3>4. done' = [done EXCEPT ![ch] = Append(@, o)]
      BY <1>4, <3>2, <3>3, <1>6
    <3> QED
      BY <1>2, <2>1, <3>1, <3>4 DEF o
  <2>2. CASE q # r
    <3>1. done'[q] = done[q]
      BY <1>1, <1>7, <2>2, ChanFacts
    <3> QED
      BY <1>5, <2>2, <3>1, ChanFacts DEF CallsOwned, SyncIsWaiting
  <2> QED
    BY <2>1, <2>2
<1>13. ResultIsOutcome'
  BY <1>5 DEF CallsOwned, ResultIsOutcome
<1> QED
  BY <1>8, <1>9, <1>10, <1>11, <1>12, <1>13 DEF CallsOwned

\* A call moves on inside the client.
LEMMA MoveKeepsCalls ==
    ASSUME TypeOK, CallsOwned, NEW r \in Reqs, phase[r] \in Live,
           NEW p \in Live, Moved(r, p), UNCHANGED callVars
    PROVE  CallsOwned'
<1>1. /\ \A q \in Reqs : phase'[q] \in Live \cup {"idle"} <=> phase[q] \in Live \cup {"idle"}
      /\ \A q \in Reqs : phase'[q] \in Live <=> phase[q] \in Live
      /\ \A q \in Reqs : phase'[q] \in {"completed", "returned"} => phase'[q] = phase[q]
      /\ \A q \in Reqs : phase[q] \in {"completed", "returned"} => phase'[q] = phase[q]
      /\ UNCHANGED <<heap, pool, done, obj, result, completions, answered>>
  BY DEF Moved, TypeOK, Live, callVars
<1>2. LiveHoldsCall' /\ NotYetReported' /\ PooledIsBlank'
  BY <1>1 DEF CallsOwned, LiveHoldsCall, NotYetReported, PooledIsBlank
<1>3. DoneHoldsCalls'
  BY <1>1 DEF CallsOwned, DoneHoldsCalls, Waiting
<1>4. SyncIsWaiting' /\ ResultIsOutcome'
  BY <1>1, ChanFacts DEF CallsOwned, SyncIsWaiting, ResultIsOutcome
<1> QED
  BY <1>2, <1>3, <1>4 DEF CallsOwned

\* A user closes its channel, or the step touches neither calls nor callers.
LEMMA FrameKeepsCalls ==
    ASSUME CallsOwned, UNCHANGED <<heap, pool, done, callerVars>>
    PROVE  CallsOwned'
BY DEF CallsOwned, LiveHoldsCall, NotYetReported, PooledIsBlank, DoneHoldsCalls,
       Waiting, SyncIsWaiting, ResultIsOutcome, callerVars

\* A new invocation gets a zero call that nobody refers to.
LEMMA MakeKeepsCalls ==
    ASSUME TypeOK, CallsOwned, NEW r \in Reqs, Make(r)
    PROVE  CallsOwned'
<1>1. PICK o \in Objs : NewCall(o, r) /\ obj' = [obj EXCEPT ![r] = o]
  BY DEF Make
<1>2. pool[o] = 1 /\ heap[o] = Blank
  BY <1>1 DEF TypeOK, CallTypeOK, CallsOwned, PooledIsBlank, NewCall
<1>3. /\ phase[r] = "idle" /\ phase'[r] = "made" /\ obj'[r] = o
      /\ \A q \in Reqs \ {r} : phase'[q] = phase[q] /\ obj'[q] = obj[q]
      /\ UNCHANGED <<result, completions, answered, done>>
  BY <1>1 DEF Make, TypeOK, NewCall
<1>4. /\ pool'[o] = 0 /\ heap'[o].req = r /\ heap'[o].done = ChanOf(r)
      /\ heap'[o].err = "nil" /\ ~heap'[o].cancel
      /\ \A p \in Objs \ {o} : pool'[p] = pool[p] /\ heap'[p] = heap[p]
  BY <1>1, <1>2 DEF NewCall, Blank, TypeOK, CallTypeOK
<1>5. \A ch \in Chans : \A i \in DOMAIN done[ch] : done[ch][i] \in Objs \ {o}
  BY <1>2 DEF CallsOwned, DoneHoldsCalls, Waiting, TypeOK, CallTypeOK
<1>6. LiveHoldsCall'
  <2>1. \A q \in Reqs \ {r} : phase[q] \in Live => obj[q] \in Objs \ {o}
    BY <1>2 DEF CallsOwned, LiveHoldsCall
  <2> QED
    BY <1>3, <1>4, <2>1 DEF CallsOwned, LiveHoldsCall
<1>7. NotYetReported'
  BY <1>3 DEF CallsOwned, NotYetReported
<1>8. PooledIsBlank'
  BY <1>4 DEF CallsOwned, PooledIsBlank
<1>9. DoneHoldsCalls'
  <2>1. ASSUME NEW ch \in Chans, NEW p \in Objs \ {o}, Waiting(ch, p)
        PROVE  /\ pool'[p] = 0
               /\ heap'[p].done = ch
               /\ \E q \in Reqs : /\ heap'[p].req = q
                                  /\ ChanOf(q) = ch
                                  /\ phase'[q] = "completed"
                                  /\ obj'[q] = p
                                  /\ heap'[p].err = "nil" <=> q \in answered'
    <3>1. PICK q \in Reqs : /\ heap[p].req = q /\ ChanOf(q) = ch
                            /\ phase[q] = "completed" /\ obj[q] = p
                            /\ heap[p].err = "nil" <=> q \in answered
      BY <2>1 DEF Waiting
    <3>2. q # r
      BY <1>3, <3>1
    <3> QED
      BY <1>3, <1>4, <2>1, <3>1, <3>2 DEF Waiting
  <2> QED
    BY <1>3, <1>5, <2>1 DEF CallsOwned, DoneHoldsCalls, Waiting
<1>10. SyncIsWaiting'
  BY <1>3, ChanFacts DEF CallsOwned, SyncIsWaiting
<1>11. ResultIsOutcome'
  BY <1>3 DEF CallsOwned, ResultIsOutcome
<1> QED
  BY <1>6, <1>7, <1>8, <1>9, <1>10, <1>11 DEF CallsOwned

\* Only asynchronous invocations are cancelled, and a cancelled call stays where
\* it is.
LEMMA CancelKeepsCalls ==
    ASSUME TypeOK, CallsOwned, NEW r \in Reqs, Cancel(r)
    PROVE  CallsOwned'
<1>1. PICK o \in Objs : heap[o].req = r /\ CancelCall(o)
  BY DEF Cancel
<1>2. r \notin SyncReqs /\ UNCHANGED <<pool, done, callerVars>>
  BY <1>1 DEF Cancel, CancelCall
<1>3. /\ \A p \in Objs : /\ heap'[p].req = heap[p].req
                         /\ heap'[p].done = heap[p].done
                         /\ heap'[p].err = heap[p].err
      /\ \A p \in Objs \ {o} : heap'[p] = heap[p]
  <2>1. heap[o] \in TCall /\ heap \in [Objs -> TCall]
    BY DEF TypeOK, CallTypeOK
  <2> QED
    BY <1>1, <2>1 DEF CancelCall, TCall
<1>4. pool[o] # 1
  BY <1>1, CallAssumption DEF CallsOwned, PooledIsBlank, Blank
<1>5. LiveHoldsCall'
  BY <1>1, <1>2, <1>3 DEF CallsOwned, LiveHoldsCall, callerVars
<1>6. PooledIsBlank'
  BY <1>2, <1>3, <1>4 DEF CallsOwned, PooledIsBlank
<1>7. DoneHoldsCalls'
  <2>1. \A ch \in Chans : \A i \in DOMAIN done[ch] : done[ch][i] \in Objs
    BY DEF TypeOK, CallTypeOK
  <2> QED
    BY <1>2, <1>3, <2>1 DEF CallsOwned, DoneHoldsCalls, Waiting, callerVars
<1> QED
  BY <1>2, <1>5, <1>6, <1>7 DEF CallsOwned, NotYetReported, SyncIsWaiting,
                                ResultIsOutcome, callerVars

\* A caller takes a call off its channel: the call is its own.
LEMMA ReceiveKeepsCalls ==
    ASSUME TypeOK, CallsOwned, NEW ch \in Chans, Receive(ch)
    PROVE  /\ CallsOwned'
           /\ \E r \in Reqs : /\ phase[r] = "completed" /\ phase'[r] = "returned"
                             /\ \A q \in Reqs \ {r} : phase'[q] = phase[q]
<1> DEFINE o == Head(done[ch])
<1>1. /\ done[ch] \in Seq(Objs) /\ done[ch] # <<>>
      /\ done' = [done EXCEPT ![ch] = Tail(@)]
      /\ FreeCall(o)
  BY DEF Receive, Collect, TypeOK, CallTypeOK
<1>2. o \in Objs /\ o = done[ch][1] /\ 1 \in DOMAIN done[ch]
  BY <1>1
<1>3. Waiting(ch, o)
  BY <1>2 DEF CallsOwned, DoneHoldsCalls
<1>4. PICK r \in Reqs : /\ heap[o].req = r /\ ChanOf(r) = ch
                        /\ phase[r] = "completed" /\ obj[r] = o
                        /\ heap[o].err = "nil" <=> r \in answered
  BY <1>3 DEF Waiting
<1>5. ch \in SyncReqs => ch = r
  BY <1>4, ChanFacts
<1>6. /\ result' = [result EXCEPT ![r] = heap[o].err]
      /\ phase' = [phase EXCEPT ![r] = "returned"]
      /\ UNCHANGED <<obj, completions, answered>>
  BY <1>4, <1>5 DEF Receive
<1>7. /\ phase'[r] = "returned" /\ result'[r] = heap[o].err
      /\ \A q \in Reqs \ {r} : phase'[q] = phase[q] /\ result'[q] = result[q]
  BY <1>6 DEF TypeOK
<1>8. /\ pool'[o] = 1 /\ heap'[o] = Blank
      /\ \A p \in Objs \ {o} : pool'[p] = pool[p] /\ heap'[p] = heap[p]
  BY <1>1, <1>2, <1>3 DEF FreeCall, TypeOK, CallTypeOK, Waiting
<1>9. \A c \in Chans \ {ch} : done'[c] = done[c]
  BY <1>1 DEF TypeOK, CallTypeOK
<1>10. done'[ch] = Tail(done[ch])
  BY <1>1 DEF TypeOK, CallTypeOK
<1>11. /\ Len(done'[ch]) = Len(done[ch]) - 1
       /\ \A i \in DOMAIN done'[ch] : i + 1 \in DOMAIN done[ch] /\ done'[ch][i] = done[ch][i + 1]
       /\ DOMAIN done'[ch] \subseteq Nat \ {0}
  BY <1>1, <1>10, TailFacts
<1>12. \A i \in DOMAIN done'[ch] : done'[ch][i] # o
  BY <1>2, <1>11 DEF CallsOwned, DoneHoldsCalls
<1>13. \A c \in Chans \ {ch} : \A i \in DOMAIN done'[c] : done'[c][i] # o
  BY <1>3, <1>9 DEF CallsOwned, DoneHoldsCalls, Waiting
<1> HIDE DEF o
<1>14. LiveHoldsCall'
  <2> SUFFICES ASSUME NEW q \in Reqs, phase'[q] \in Live
               PROVE  /\ obj'[q] \in Objs
                      /\ pool'[obj'[q]] = 0
                      /\ heap'[obj'[q]].req = q
                      /\ heap'[obj'[q]].done = ChanOf(q)
                      /\ heap'[obj'[q]].err = "nil"
                      /\ q \in SyncReqs => ~heap'[obj'[q]].cancel
    BY DEF LiveHoldsCall
  <2>1. q # r /\ phase[q] \in Live
    BY <1>7 DEF Live
  <2>2. obj[q] \in Objs \ {o}
    BY <1>4, <2>1 DEF CallsOwned, LiveHoldsCall
  <2> QED
    BY <1>6, <1>8, <2>1, <2>2 DEF CallsOwned, LiveHoldsCall
<1>15. NotYetReported'
  <2> SUFFICES ASSUME NEW q \in Reqs, phase'[q] \in Live \cup {"idle"}
               PROVE  /\ completions'[q] = 0
                      /\ q \notin answered'
                      /\ q \in SyncReqs => done'[q] = <<>>
    BY DEF NotYetReported
  <2>1. q # r /\ phase[q] \in Live \cup {"idle"}
    BY <1>7 DEF Live
  <2>2. q \in SyncReqs => q # ch /\ q \in Chans
    BY <1>4, <2>1, ChanFacts
  <2> QED
    BY <1>6, <1>9, <2>1, <2>2 DEF CallsOwned, NotYetReported
<1>16. PooledIsBlank'
  BY <1>8 DEF CallsOwned, PooledIsBlank
<1>17. DoneHoldsCalls'
  <2> DEFINE WaitsNext(c, p) ==
               /\ pool'[p] = 0
               /\ heap'[p].done = c
               /\ \E q \in Reqs :
                     /\ heap'[p].req = q
                     /\ ChanOf(q) = c
                     /\ phase'[q] = "completed"
                     /\ obj'[q] = p
                     /\ heap'[p].err = "nil" <=> q \in answered'
  <2>1. ASSUME NEW c \in Chans, NEW p \in Objs \ {o}, Waiting(c, p)
        PROVE  WaitsNext(c, p)
    <3>1. PICK q \in Reqs : /\ heap[p].req = q /\ ChanOf(q) = c
                            /\ phase[q] = "completed" /\ obj[q] = p
                            /\ heap[p].err = "nil" <=> q \in answered
      BY <2>1 DEF Waiting
    <3>2. q # r
      BY <1>4, <3>1
    <3> QED
      BY <1>6, <1>7, <1>8, <2>1, <3>1, <3>2 DEF Waiting
  <2>2. \A c \in Chans : \A i \in DOMAIN done'[c] : done'[c][i] \in Objs \ {o}
    <3>1. CallTypeOK'
      BY CollectType DEF Receive, TypeOK
    <3> QED
      BY <1>12, <1>13, <3>1 DEF CallTypeOK
  <2> HIDE DEF WaitsNext
  <2> SUFFICES ASSUME NEW c \in Chans
               PROVE  /\ \A i \in DOMAIN done'[c] : WaitsNext(c, done'[c][i])
                      /\ \A i, j \in DOMAIN done'[c] : done'[c][i] = done'[c][j] => i = j
    BY DEF DoneHoldsCalls, Waiting, WaitsNext
  <2>3. CASE c # ch
    BY <1>9, <2>1, <2>2, <2>3 DEF CallsOwned, DoneHoldsCalls
  <2>4. CASE c = ch
    <3>1. \A i \in DOMAIN done'[c] : Waiting(c, done'[c][i])
      BY <1>11, <2>4 DEF CallsOwned, DoneHoldsCalls
    <3>2. \A i, j \in DOMAIN done'[c] : done'[c][i] = done'[c][j] => i + 1 = j + 1
      BY <1>11, <2>4 DEF CallsOwned, DoneHoldsCalls
    <3> QED
      BY <1>11, <2>1, <2>2, <2>4, <3>1, <3>2
  <2> QED
    BY <2>3, <2>4
<1>18. SyncIsWaiting'
  <2> SUFFICES ASSUME NEW q \in SyncReqs, phase'[q] = "completed"
               PROVE  done'[q] = <<obj'[q]>>
    BY DEF SyncIsWaiting
  <2>1. q # r /\ q \in Reqs /\ q \in Chans /\ phase[q] = "completed"
    BY <1>7, ChanFacts
  <2>2. q # ch
    BY <1>4, <2>1, ChanFacts
  <2> QED
    BY <1>6, <1>9, <2>1, <2>2 DEF CallsOwned, SyncIsWaiting
<1>19. ResultIsOutcome'
  BY <1>4, <1>6, <1>7 DEF CallsOwned, ResultIsOutcome
<1> QED
  BY <1>4, <1>7, <1>14, <1>15, <1>16, <1>17, <1>18, <1>19 DEF CallsOwned

-----------------------------------------------------------------------------
(* Where a call is.  One lemma for each kind of place, about the steps that *)
(* add nothing to it.                                                       *)

\* The step leaves invocation q where it is.
Still(q) == phase'[q] = phase[q] /\ obj'[q] = obj[q]

LEMMA QueueKept ==
    ASSUME QueueOwns, inq' = inq, \A i \in DOMAIN inq : Still(inq[i].req)
    PROVE  QueueOwns'
BY DEF QueueOwns, Still

\* The head of the queue is taken; nobody else in it moves.
LEMMA QueueTaken ==
    ASSUME TypeOK, QueueOwns, inq # <<>>, inq' = Tail(inq),
           \A q \in Reqs \ {Head(inq).req} : Still(q)
    PROVE  QueueOwns'
<1>1. /\ \A i \in DOMAIN inq' : i + 1 \in DOMAIN inq /\ inq'[i] = inq[i + 1]
      /\ DOMAIN inq' \subseteq Nat \ {0} /\ Head(inq) = inq[1] /\ 1 \in DOMAIN inq
  BY TailFacts DEF TypeOK
<1>2. \A i \in DOMAIN inq : inq[i] \in Item
  BY DEF TypeOK
<1>3. \A i \in DOMAIN inq' : inq'[i].req \in Reqs \ {Head(inq).req}
  BY <1>1, <1>2 DEF QueueOwns, Item
<1>4. \A i \in DOMAIN inq' :
         phase'[inq'[i].req] = "queued" /\ inq'[i].obj = obj'[inq'[i].req]
  BY <1>1, <1>3 DEF QueueOwns, Still
<1>5. \A i, j \in DOMAIN inq' : inq'[i].req = inq'[j].req => i + 1 = j + 1
  BY <1>1 DEF QueueOwns
<1> QED
  BY <1>1, <1>4, <1>5 DEF QueueOwns

LEMMA WriterKept ==
    ASSUME WriterOwns,
           \A d \in Conns : wpc'[d] = "got" =>
              wpc[d] = "got" /\ wcall'[d] = wcall[d] /\ Still(wcall[d].req)
    PROVE  WriterOwns'
BY DEF WriterOwns, Still

LEMMA ReaderKept ==
    ASSUME ReaderOwns,
           \A d \in Conns : rpc'[d] = "deliver" =>
              rpc[d] = "deliver" /\ rcall'[d] = rcall[d] /\ Still(rcall[d].req)
    PROVE  ReaderOwns'
BY DEF ReaderOwns, Still

\* No call is filed, and a call that stays pending is left alone, or reported
\* by the shutdown.
LEMMA PendingKept ==
    ASSUME TypeOK, [Next]_vars, PendingOwns, PendingOnce, SeqUnique, seq' = seq,
           \A c \in Conns :
              /\ shutdown[c] => shutdown'[c]
              /\ \A e \in pending'[c] :
                    /\ e \in pending[c]
                    /\ \/ Still(e.req)
                       \/ /\ shutdown'[c] /\ completions'[e.req] >= 1
                          /\ phase'[e.req] \in {"completed", "returned"}
    PROVE  PendingOwns' /\ PendingOnce' /\ SeqUnique'
<1>1. PendingOwns'
  <2> SUFFICES ASSUME NEW c \in Conns, NEW e \in pending'[c]
               PROVE  \/ phase'[e.req] = "pending" /\ e.obj = obj'[e.req]
                      \/ shutdown'[c] /\ completions'[e.req] >= 1
                            /\ phase'[e.req] \in {"completed", "returned"}
    BY DEF PendingOwns
  <2>1. e \in pending[c] /\ e.req \in Reqs
    BY EntryType
  <2>2. completions[e.req] >= 1 => completions'[e.req] >= 1
    BY <2>1, CompletionsGrow
  <2> QED
    BY <2>1, <2>2 DEF PendingOwns, Still
<1>2. PendingOnce'
  BY DEF PendingOnce
<1>3. SeqUnique'
  BY DEF SeqUnique
<1> QED
  BY <1>1, <1>2, <1>3

LEMMA GroupKept ==
    ASSUME GroupAgrees, seq' = seq,
           \A c \in Conns : /\ pending'[c] \subseteq pending[c]
                            /\ group'[c] \in {group[c], <<>>}
    PROVE  GroupAgrees'
BY DEF GroupAgrees

LEMMA WireKept ==
    ASSUME WireAgrees, seq' = seq,
           \A c \in Conns :
              /\ \A e \in pending'[c] :
                    e \in pending[c] /\ (phase'[e.req] = "pending" => phase[e.req] = "pending")
              /\ \A m \in wire'[c] : m \in wire[c] \/ m.ping
    PROVE  WireAgrees'
BY DEF WireAgrees

LEMMA DrainKept ==
    ASSUME DrainOwns,
           \A c \in Conns : \A e \in todrain'[c] :
              e \in todrain[c] /\ e \in pending'[c] /\ Still(e.req)
    PROVE  DrainOwns'
BY DEF DrainOwns, Still

\* A step that leaves all places alone, for an invocation that is in none.
LEMMA PlacesKept ==
    ASSUME TypeOK, [Next]_vars, PlacesOwn, NEW r \in Reqs,
           phase[r] \in {"idle", "made", "completed"},
           phase[r] = "completed" => phase'[r] = "returned",
           \A q \in Reqs \ {r} : Still(q),
           UNCHANGED <<wpc, wcall, group, seq, pending, shutdown, rpc, rcall,
                       todrain, wire>>
    PROVE  /\ inq' = inq => QueueOwns'
           /\ WriterOwns' /\ PendingOwns' /\ PendingOnce' /\ SeqUnique' /\ DrainOwns'
           /\ ReaderOwns' /\ GroupAgrees' /\ WireAgrees'
<1> USE DEF PlacesOwn
<1>1. inq' = inq => QueueOwns'
  <2>0. \A i \in DOMAIN inq : inq[i] \in Item
    BY DEF TypeOK
  <2>1. \A i \in DOMAIN inq : inq[i].req \in Reqs \ {r}
    BY <2>0 DEF QueueOwns, Item
  <2>2. \A i \in DOMAIN inq : Still(inq[i].req)
    BY <2>1
  <2> QED
    BY <2>2, QueueKept
<1>2. WriterOwns'
  <2>1. \A c \in Conns : wpc[c] = "got" => wcall[c].req \in Reqs \ {r}
    BY DEF WriterOwns, TypeOK, Item
  <2> QED
    BY <2>1, WriterKept
<1>3. ReaderOwns'
  <2>1. \A c \in Conns : rpc[c] = "deliver" => rcall[c].req \in Reqs \ {r}
    BY DEF ReaderOwns, TypeOK, Answer
  <2> QED
    BY <2>1, ReaderKept
<1>4. \A c \in Conns : \A e \in pending[c] :
         \/ e.req \in Reqs \ {r}
         \/ e.req = r /\ phase[r] = "completed" /\ shutdown[c] /\ completions[r] >= 1
  BY EntryType DEF PendingOwns
<1>5. completions[r] >= 1 => completions'[r] >= 1
  BY CompletionsGrow
<1>6. PendingOwns' /\ PendingOnce' /\ SeqUnique'
  <2>1. \A c \in Conns :
           /\ shutdown[c] => shutdown'[c]
           /\ \A e \in pending'[c] :
                 /\ e \in pending[c]
                 /\ \/ Still(e.req)
                    \/ /\ shutdown'[c] /\ completions'[e.req] >= 1
                       /\ phase'[e.req] \in {"completed", "returned"}
    BY <1>4, <1>5
  <2> QED
    BY <2>1, PendingKept
<1>7. DrainOwns'
  <2>1. \A c \in Conns : \A e \in todrain[c] : e.req \in Reqs \ {r} /\ e \in pending[c]
    BY EntryType DEF DrainOwns
  <2> QED
    BY <2>1, DrainKept
<1>8. GroupAgrees'
  BY GroupKept
<1>9. WireAgrees'
  <2>1. \A c \in Conns : \A e \in pending[c] :
           e \in pending[c] /\ (phase'[e.req] = "pending" => phase[e.req] = "pending")
    BY <1>4 DEF Still
  <2>2. /\ WireAgrees /\ seq' = seq
        /\ \A c \in Conns : pending'[c] = pending[c] /\ wire'[c] = wire[c]
    OBVIOUS
  <2>3. \A c \in Conns : \A m \in wire'[c] : m \in wire[c] \/ m.ping
    BY <2>2
  <2> QED
    BY <2>1, <2>2, <2>3, WireKept
<1> QED
  BY <1>1, <1>2, <1>3, <1>6, <1>7, <1>8, <1>9

\* A step of a goroutine's control: no call moves and none is filed.
LEMMA PlacesControl ==
    ASSUME TypeOK, [Next]_vars, PlacesOwn,
           UNCHANGED <<callerVars, inq, seq, pending, shutdown, todrain>>,
           \A c \in Conns :
              /\ wpc'[c] = "got" => wpc[c] = "got" /\ wcall'[c] = wcall[c]
              /\ rpc'[c] = "deliver" => rpc[c] = "deliver" /\ rcall'[c] = rcall[c]
              /\ group'[c] \in {group[c], <<>>}
    PROVE  /\ QueueOwns' /\ WriterOwns' /\ PendingOwns' /\ PendingOnce' /\ SeqUnique'
           /\ DrainOwns' /\ ReaderOwns' /\ GroupAgrees'
           /\ (\A c \in Conns : \A m \in wire'[c] : m \in wire[c] \/ m.ping) => PlacesOwn'
<1> USE DEF PlacesOwn
<1>1. \A q : Still(q)
  BY DEF Still, callerVars
<1>2. QueueOwns'
  BY <1>1, QueueKept
<1>3. WriterOwns' /\ ReaderOwns'
  BY <1>1, WriterKept, ReaderKept
<1>4. PendingOwns' /\ PendingOnce' /\ SeqUnique'
  BY <1>1, PendingKept
<1>5. DrainOwns'
  BY <1>1, DrainKept DEF DrainOwns
<1>6. GroupAgrees'
  BY GroupKept
<1>7. (\A c \in Conns : \A m \in wire'[c] : m \in wire[c] \/ m.ping) => WireAgrees'
  BY <1>1, WireKept DEF Still
<1> QED
  BY <1>2, <1>3, <1>4, <1>5, <1>6, <1>7

LEMMA CallerOwned ==
    ASSUME TypeOK, Owned, [Next]_vars, Caller
    PROVE  Owned'
<1>1. UNCHANGED <<wpc, wcall, group, seq, pending, shutdown, rpc, rcall, todrain, wire>>
  BY CallerFrame DEF writerVars, connVars, readerVars, netVars
<1> USE DEF Owned
<1>2. ASSUME NEW r \in Reqs, Make(r)
      PROVE  Owned'
  <2>1. CallsOwned'
    BY <1>2, MakeKeepsCalls
  <2>2. /\ phase[r] = "idle" /\ inq' = inq
        /\ \A q \in Reqs \ {r} : Still(q)
    BY <1>2 DEF Make, Still, TypeOK
  <2> QED
    BY <1>1, <2>1, <2>2, PlacesKept DEF PlacesOwn
<1>3. ASSUME NEW r \in Reqs, Enqueue(r)
      PROVE  Owned'
  <2>1. CallsOwned'
    BY <1>3, MoveKeepsCalls DEF Enqueue, Live
  <2>2. /\ phase[r] = "made" /\ phase'[r] = "queued" /\ obj' = obj
        /\ \A q \in Reqs \ {r} : Still(q)
    BY <1>3 DEF Enqueue, Moved, Still, TypeOK
  <2>3. QueueOwns'
    <3> DEFINE item == [obj |-> obj[r], req |-> r]
    <3>1. inq \in Seq(Item) /\ item \in Item /\ inq' = Append(inq, item)
      BY <1>3, <2>2 DEF TypeOK, Item, Enqueue
    <3>0. \A i \in DOMAIN inq : inq[i].req \in Reqs
      <4>1. \A i \in DOMAIN inq : inq[i] \in Item
        BY DEF TypeOK
      <4> QED
        BY <4>1 DEF Item
    <3> HIDE DEF item
    <3>2. /\ DOMAIN inq' = 1 .. Len(inq) + 1 /\ DOMAIN inq = 1 .. Len(inq)
          /\ \A i \in DOMAIN inq : inq'[i] = inq[i]
          /\ inq'[Len(inq) + 1] = item
      BY <3>1
    <3>3. \A i \in DOMAIN inq : inq[i].req # r /\ Still(inq[i].req)
      BY <2>2, <3>0 DEF PlacesOwn, QueueOwns
    <3>4. \A i \in DOMAIN inq' : i \in DOMAIN inq \/ i = Len(inq) + 1
      BY <3>1, <3>2
    <3> QED
      BY <2>2, <3>2, <3>3, <3>4 DEF PlacesOwn, QueueOwns, Still, item
  <2> QED
    BY <1>1, <2>1, <2>2, <2>3, PlacesKept DEF PlacesOwn
<1>4. ASSUME NEW r \in Reqs, EnqueueFull(r)
      PROVE  Owned'
  <2>1. CallsOwned'
    BY <1>4, ReportKeepsCalls DEF EnqueueFull, Completed, Live, Errors
  <2>2. /\ phase[r] = "made" /\ inq' = inq
        /\ \A q \in Reqs \ {r} : Still(q)
    BY <1>4 DEF EnqueueFull, Completed, Still, TypeOK
  <2> QED
    BY <1>1, <2>1, <2>2, PlacesKept DEF PlacesOwn
<1>5. ASSUME NEW r \in Reqs, Cancel(r)
      PROVE  Owned'
  <2>1. CallsOwned'
    BY <1>5, CancelKeepsCalls
  <2>2. UNCHANGED <<callerVars, inq>>
    BY <1>5 DEF Cancel
  <2> QED
    BY <1>1, <2>1, <2>2, PlacesControl
<1>6. ASSUME NEW ch \in Chans, Receive(ch)
      PROVE  Owned'
  <2>1. CallsOwned'
    BY <1>6, ReceiveKeepsCalls
  <2>2. PICK r \in Reqs : /\ phase[r] = "completed" /\ phase'[r] = "returned"
                          /\ \A q \in Reqs \ {r} : phase'[q] = phase[q]
    BY <1>6, ReceiveKeepsCalls
  <2>3. inq' = inq /\ \A q \in Reqs \ {r} : Still(q)
    BY <1>6, <2>2 DEF Receive, Still
  <2> QED
    BY <1>1, <2>1, <2>2, <2>3, PlacesKept DEF PlacesOwn
<1>7. ASSUME NEW ch \in UserChans, UserClosesChan(ch)
      PROVE  Owned'
  <2>1. UNCHANGED <<heap, pool, done, callerVars, inq>>
    BY <1>7 DEF UserClosesChan, CloseChan
  <2>2. CallsOwned'
    BY <2>1, FrameKeepsCalls
  <2> QED
    BY <1>1, <2>1, <2>2, PlacesControl
<1> QED
  BY <1>2, <1>3, <1>4, <1>5, <1>6, <1>7 DEF Caller

\* Filing a call under a fresh number.
LEMMA FileKeepsPlaces ==
    ASSUME TypeOK, PlacesOwn, NEW c \in Conns, NEW item \in Item, File(c, item),
           phase[item.req] \in {"queued", "taken"}, item.obj = obj[item.req],
           UNCHANGED <<shutdown, todrain, wire, rpc, rcall>>
    PROVE  /\ PendingOwns' /\ PendingOnce' /\ SeqUnique' /\ DrainOwns'
           /\ ReaderOwns' /\ GroupAgrees' /\ WireAgrees'
<1> DEFINE r == item.req
           e == [seq |-> seq[c], obj |-> item.obj, req |-> item.req]
<1> USE DEF PlacesOwn
<1>1. r \in Reqs /\ e \in Entry /\ e.seq = seq[c] /\ e.obj = item.obj /\ e.req = r
  BY DEF TypeOK, Item, Entry
<1>2. Lookup(c, e.seq) = {}
  BY EntryType DEF SeqUnique, Lookup, TypeOK
<1>3. /\ seq' = [seq EXCEPT ![c] = @ + 1]
      /\ pending' = [pending EXCEPT ![c] = (@ \ Lookup(c, e.seq)) \cup {e}]
      /\ group' = [group EXCEPT ![c] = Append(@, e)]
      /\ Moved(r, "pending")
  BY DEF File
<1> HIDE DEF r, e
<1>4. /\ pending'[c] = pending[c] \cup {e}
      /\ seq[c] \in Nat /\ seq'[c] = seq[c] + 1
      /\ \A d \in Conns \ {c} : /\ pending'[d] = pending[d] /\ seq'[d] = seq[d]
                              /\ group'[d] = group[d]
      /\ phase'[r] = "pending" /\ obj' = obj /\ completions' = completions
      /\ \A q \in Reqs \ {r} : Still(q)
  BY <1>1, <1>2, <1>3 DEF TypeOK, Moved, Still
<1>5. \A d \in Conns : \A f \in pending[d] : f.req \in Reqs \ {r} /\ f.seq \in Nat
  BY EntryType DEF PendingOwns, r
<1>6. PendingOwns'
  <2> SUFFICES ASSUME NEW d \in Conns, NEW f \in pending'[d]
               PROVE  \/ phase'[f.req] = "pending" /\ f.obj = obj'[f.req]
                      \/ shutdown'[d] /\ completions'[f.req] >= 1
                            /\ phase'[f.req] \in {"completed", "returned"}
    BY DEF PendingOwns
  <2>1. CASE f \in pending[d]
    BY <1>4, <1>5, <2>1 DEF PendingOwns, Still
  <2>2. CASE f = e
    BY <1>1, <1>4, <2>2 DEF r
  <2> QED
    BY <1>4, <2>1, <2>2
<1>7. PendingOnce'
  <2> SUFFICES ASSUME NEW d1 \in Conns, NEW d2 \in Conns,
                      NEW f \in pending'[d1], NEW g \in pending'[d2], f.req = g.req
               PROVE  d1 = d2 /\ f = g
    BY DEF PendingOnce
  <2>1. f \in pending[d1] \/ (d1 = c /\ f = e)
    BY <1>4
  <2>2. g \in pending[d2] \/ (d2 = c /\ g = e)
    BY <1>4
  <2> QED
    BY <1>1, <1>5, <2>1, <2>2 DEF PendingOnce
<1>8. SeqUnique'
  <2> SUFFICES ASSUME NEW d \in Conns, NEW f \in pending'[d]
               PROVE  /\ f.seq < seq'[d]
                      /\ \A g \in pending'[d] : f.seq = g.seq => f = g
    BY DEF SeqUnique
  <2>1. CASE d # c
    BY <1>4, <2>1 DEF SeqUnique
  <2>2. CASE d = c
    <3>1. \A g \in pending[c] : g.seq < seq[c] /\ g.seq \in Nat
      BY <1>5 DEF SeqUnique
    <3> QED
      BY <1>1, <1>4, <2>2, <3>1 DEF SeqUnique
  <2> QED
    BY <2>1, <2>2
<1>9. DrainOwns'
  <2>1. \A d \in Conns : \A f \in todrain'[d] :
           f \in todrain[d] /\ f \in pending'[d] /\ Still(f.req)
    BY <1>4, <1>5 DEF DrainOwns
  <2> QED
    BY <2>1, DrainKept
<1>10. ReaderOwns'
  <2>1. \A d \in Conns : rpc[d] = "deliver" => rcall[d].req \in Reqs \ {r}
    BY DEF ReaderOwns, TypeOK, Answer, r
  <2> QED
    BY <1>4, <2>1, ReaderKept
<1>11. GroupAgrees'
  <2> SUFFICES ASSUME NEW d \in Conns, NEW i \in DOMAIN group'[d]
               PROVE  /\ group'[d][i].seq < seq'[d]
                      /\ \A f \in pending'[d] : f.seq = group'[d][i].seq => f = group'[d][i]
    BY DEF GroupAgrees
  <2>1. CASE d # c
    BY <1>4, <2>1 DEF GroupAgrees
  <2>2. CASE d = c
    <3>1. group[c] \in Seq(Entry) /\ group'[c] = Append(group[c], e)
      BY <1>3 DEF TypeOK
    <3>2. \/ i \in DOMAIN group[c] /\ group'[c][i] = group[c][i] /\ group[c][i] \in Entry
          \/ group'[c][i] = e
      BY <1>1, <2>2, <3>1
    <3>3. \A g \in pending[c] : g.seq < seq[c] /\ g.seq \in Nat
      BY <1>5 DEF SeqUnique
    <3>4. CASE i \in DOMAIN group[c] /\ group'[c][i] = group[c][i] /\ group[c][i] \in Entry
      <4>1. group[c][i].seq \in Nat /\ group[c][i].seq < seq[c]
        BY <3>4 DEF GroupAgrees, Entry
      <4> QED
        BY <1>1, <1>4, <2>2, <3>4, <4>1 DEF GroupAgrees
    <3>5. CASE group'[c][i] = e
      BY <1>1, <1>4, <2>2, <3>3, <3>5
    <3> QED
      BY <3>2, <3>4, <3>5
  <2> QED
    BY <2>1, <2>2
<1>12. WireAgrees'
  <2> SUFFICES ASSUME NEW d \in Conns, NEW m \in wire[d], ~m.ping
               PROVE  /\ m.seq < seq'[d]
                      /\ \A f \in pending'[d] :
                            f.seq = m.seq /\ phase'[f.req] = "pending" => m.req = f.req
    BY DEF WireAgrees
  <2>1. m.seq \in Nat /\ m.seq < seq[d]
    <3>1. m \in Message
      BY DEF TypeOK
    <3> QED
      BY <3>1 DEF WireAgrees, Message
  <2>2. ASSUME NEW f \in pending[d], f.seq = m.seq, phase'[f.req] = "pending"
        PROVE  m.req = f.req
    BY <1>4, <1>5, <2>2 DEF WireAgrees, Still
  <2>3. CASE d # c
    BY <1>4, <2>1, <2>2, <2>3
  <2>4. CASE d = c
    BY <1>1, <1>4, <2>1, <2>2, <2>4
  <2> QED
    BY <2>3, <2>4
<1> QED
  BY <1>6, <1>7, <1>8, <1>9, <1>10, <1>11, <1>12

\* While no call is reported twice, a step that reports invocation r finds it
\* unreported.
LEMMA ReportIsFirst ==
    ASSUME TypeOK, NEW r \in Reqs, ReportedOnce', Completed(r)
    PROVE  completions[r] = 0
BY DEF TypeOK, ReportedOnce, Completed

\* The steps of the writer on which no call moves.
LEMMA WriterControlOwned ==
    ASSUME TypeOK, Owned, [Next]_vars, NEW c \in Conns,
           \/ WUnlock(c) \/ WFlush(c) \/ WFail(c) \/ WFailSkip(c) \/ WFailed(c)
           \/ WPanic(c) \/ WExitNotify(c) \/ WPing(c) \/ WPingFail(c)
    PROVE  Owned'
<1>1. UNCHANGED <<heap, pool, done, callerVars, inq, wcall, seq, pending, shutdown,
                  todrain, rpc, rcall>>
  <2> USE DEF callVars, connVars, readerVars, writerVars
  <2>1. CASE WUnlock(c) \/ WFlush(c) \/ WFail(c) \/ WFailSkip(c)
    BY <2>1 DEF WUnlock, WFlush, WFail, WFailSkip
  <2>2. CASE WFailed(c) \/ WPanic(c) \/ WExitNotify(c) \/ WPing(c) \/ WPingFail(c)
    BY <2>2 DEF WFailed, WPanic, WExitNotify, WPing, WPingFail, WEnds
  <2> QED
    BY <2>1, <2>2
<1>2. wpc' = wpc \/ \E p \in {"write", "select", "fail", "exit"} : wpc' = [wpc EXCEPT ![c] = p]
  BY DEF WUnlock, WFlush, WFail, WFailSkip, WFailed, WPanic, WExitNotify, WPing,
         WPingFail, WEnds, writerVars
<1>3. group' = group \/ group' = [group EXCEPT ![c] = <<>>]
  <2> USE DEF writerVars
  <2>1. CASE WUnlock(c) \/ WFlush(c) \/ WFail(c) \/ WFailSkip(c)
    BY <2>1 DEF WUnlock, WFlush, WFail, WFailSkip
  <2>2. CASE WFailed(c) \/ WPanic(c) \/ WExitNotify(c) \/ WPing(c) \/ WPingFail(c)
    BY <2>2 DEF WFailed, WPanic, WExitNotify, WPing, WPingFail, WEnds
  <2> QED
    BY <2>1, <2>2
<1>4. wire' = wire \/ wire' = [wire EXCEPT ![c] = @ \cup {PingMessage}]
  <2> USE DEF netVars
  <2>1. CASE WUnlock(c) \/ WFlush(c) \/ WFail(c) \/ WFailSkip(c)
    BY <2>1 DEF WUnlock, WFlush, WFail, WFailSkip
  <2>2. CASE WFailed(c) \/ WPanic(c) \/ WExitNotify(c) \/ WPing(c) \/ WPingFail(c)
    BY <2>2 DEF WFailed, WPanic, WExitNotify, WPing, WPingFail, WEnds
  <2> QED
    BY <2>1, <2>2
<1>5. \A d \in Conns :
         /\ wpc'[d] = "got" => wpc[d] = "got" /\ wcall'[d] = wcall[d]
         /\ rpc'[d] = "deliver" => rpc[d] = "deliver" /\ rcall'[d] = rcall[d]
         /\ group'[d] \in {group[d], <<>>}
  BY <1>1, <1>2, <1>3 DEF TypeOK
<1>6. \A d \in Conns : \A m \in wire'[d] : m \in wire[d] \/ m.ping
  <2>1. PingMessage.ping
    BY DEF PingMessage
  <2>2. \A d \in Conns : wire'[d] = wire[d] \/ wire'[d] = wire[d] \cup {PingMessage}
    BY <1>4 DEF TypeOK
  <2> QED
    BY <2>1, <2>2
<1>7. CallsOwned'
  BY <1>1, FrameKeepsCalls DEF Owned
<1>8. PlacesOwn'
  BY <1>1, <1>5, <1>6, PlacesControl DEF Owned
<1> QED
  BY <1>7, <1>8 DEF Owned

\* Nobody but the queue and the writers holds a call that is not filed yet, so
\* the other places do not notice where it goes.
LEMMA TakenElsewhere ==
    ASSUME TypeOK, PlacesOwn, [Next]_vars, NEW r \in Reqs,
           phase[r] \in {"queued", "taken"},
           \A q \in Reqs \ {r} : Still(q),
           UNCHANGED <<group, seq, pending, shutdown, rpc, rcall, todrain, wire>>
    PROVE  /\ inq' = inq /\ phase[r] = "taken" => QueueOwns'
           /\ PendingOwns' /\ PendingOnce' /\ SeqUnique'
           /\ DrainOwns' /\ ReaderOwns' /\ GroupAgrees' /\ WireAgrees'
<1> USE DEF PlacesOwn
<1>1. ASSUME inq' = inq, phase[r] = "taken"
      PROVE  QueueOwns'
  <2>1. \A i \in DOMAIN inq : inq[i] \in Item
    BY DEF TypeOK
  <2>2. \A i \in DOMAIN inq : Still(inq[i].req)
    BY <1>1, <2>1 DEF QueueOwns, Item
  <2> QED
    BY <1>1, <2>2, QueueKept
<1>2. ReaderOwns'
  <2>1. \A d \in Conns : rpc[d] = "deliver" => rcall[d].req \in Reqs \ {r}
    BY DEF ReaderOwns, TypeOK, Answer
  <2> QED
    BY <2>1, ReaderKept
<1>3. \A d \in Conns : \A e \in pending[d] : e.req \in Reqs \ {r}
  BY EntryType DEF PendingOwns
<1>4. PendingOwns' /\ PendingOnce' /\ SeqUnique'
  BY <1>3, PendingKept
<1>5. DrainOwns'
  <2>1. \A d \in Conns : \A e \in todrain'[d] :
           e \in todrain[d] /\ e \in pending'[d] /\ Still(e.req)
    BY <1>3 DEF DrainOwns
  <2> QED
    BY <2>1, DrainKept
<1>6. GroupAgrees'
  BY GroupKept
<1>7. WireAgrees'
  BY <1>3, WireKept DEF Still
<1> QED
  BY <1>1, <1>2, <1>4, <1>5, <1>6, <1>7

\* A call leaves pending, for the reader or because writing it failed.
LEMMA LeavesPending ==
    ASSUME TypeOK, PlacesOwn, [Next]_vars, NEW c \in Conns, NEW e \in pending[c],
           phase[e.req] = "pending", todrain[c] = {},
           pending' = [pending EXCEPT ![c] = @ \ {e}],
           \A q \in Reqs \ {e.req} : Still(q), phase'[e.req] # "pending",
           UNCHANGED <<inq, wpc, wcall, group, seq, shutdown, todrain>>,
           \A d \in Conns : wire'[d] \subseteq wire[d]
    PROVE  /\ QueueOwns' /\ WriterOwns' /\ PendingOwns' /\ PendingOnce' /\ SeqUnique'
           /\ DrainOwns' /\ GroupAgrees' /\ WireAgrees'
           /\ UNCHANGED <<rpc, rcall>> => ReaderOwns'
<1> DEFINE r == e.req
<1> USE DEF PlacesOwn
<1>1. r \in Reqs
  BY EntryType
<1>2. \A d \in Conns : \A f \in pending'[d] : f \in pending[d] /\ f.req \in Reqs \ {r}
  BY EntryType DEF PendingOnce, TypeOK
<1> HIDE DEF r
<1>3. \A q \in Reqs \ {r} : Still(q)
  BY DEF r
<1>4. phase[r] = "pending"
  BY DEF r
<1>5. QueueOwns'
  <2>1. \A i \in DOMAIN inq : inq[i] \in Item
    BY DEF TypeOK
  <2>2. \A i \in DOMAIN inq : Still(inq[i].req)
    BY <1>3, <1>4, <2>1 DEF QueueOwns, Item
  <2> QED
    BY <2>2, QueueKept
<1>6. WriterOwns'
  <2>1. \A d \in Conns : wpc[d] = "got" => wcall[d].req \in Reqs \ {r}
    BY <1>4 DEF WriterOwns, TypeOK, Item
  <2> QED
    BY <1>3, <2>1, WriterKept
<1>7. PendingOwns' /\ PendingOnce' /\ SeqUnique'
  BY <1>2, <1>3, PendingKept
<1>8. DrainOwns'
  <2>1. \A d \in Conns \ {c} : pending'[d] = pending[d]
    BY DEF TypeOK
  <2>2. \A d \in Conns : \A f \in todrain'[d] :
           f \in todrain[d] /\ f \in pending'[d] /\ Still(f.req)
    BY <1>2, <1>3, <2>1 DEF DrainOwns
  <2> QED
    BY <2>2, DrainKept
<1>9. GroupAgrees'
  BY <1>2, GroupKept
<1>10. WireAgrees'
  <2>1. \A d \in Conns :
           /\ \A f \in pending'[d] :
                 f \in pending[d] /\ (phase'[f.req] = "pending" => phase[f.req] = "pending")
           /\ \A m \in wire'[d] : m \in wire[d] \/ m.ping
    BY <1>2, <1>3 DEF Still
  <2> QED
    BY <2>1, WireKept
<1>11. UNCHANGED <<rpc, rcall>> => ReaderOwns'
  <2>1. \A d \in Conns : rpc[d] = "deliver" => rcall[d].req \in Reqs \ {r}
    BY <1>4 DEF ReaderOwns, TypeOK, Answer
  <2> QED
    BY <1>3, <2>1, ReaderKept
<1> QED
  BY <1>5, <1>6, <1>7, <1>8, <1>9, <1>10, <1>11

LEMMA WriterOwned ==
    ASSUME TypeOK, Locking, Owned, ReportedOnce', [Next]_vars,
           NEW c \in Conns, Writer(c) \/ PingTimer(c)
    PROVE  Owned'
<1> USE DEF Owned, callVars, callerVars, connVars, readerVars, netVars
<1>1. CASE WTake(c)
  <2> DEFINE r == Head(inq).req
  <2>1. /\ inq # <<>> /\ Head(inq) \in Item /\ Head(inq) = inq[1] /\ 1 \in DOMAIN inq
    BY <1>1, TailFacts DEF WTake, TypeOK
  <2>2. r \in Reqs /\ phase[r] = "queued" /\ Head(inq).obj = obj[r]
    BY <2>1 DEF Item, PlacesOwn, QueueOwns
  <2>3. /\ Moved(r, "taken") /\ inq' = Tail(inq) /\ wcall' = [wcall EXCEPT ![c] = Head(inq)]
        /\ wpc' = [wpc EXCEPT ![c] = "got"]
        /\ UNCHANGED <<callVars, group, seq, pending, shutdown, rpc, rcall, todrain, wire>>
    BY <1>1 DEF WTake
  <2>4. CallsOwned'
    BY <2>2, <2>3, MoveKeepsCalls DEF Live
  <2> HIDE DEF r
  <2>5. phase'[r] = "taken" /\ obj' = obj /\ \A q \in Reqs \ {r} : Still(q)
    BY <2>2, <2>3 DEF Moved, Still, TypeOK
  <2>6. QueueOwns'
    BY <2>1, <2>3, <2>5, QueueTaken DEF PlacesOwn, r
  <2>7. WriterOwns'
    <3>1. \A d \in Conns : wpc[d] = "got" => wcall[d].req \in Reqs \ {r}
      BY <2>2 DEF PlacesOwn, WriterOwns, TypeOK, Item
    <3>2. wpc'[c] = "got" /\ wcall'[c] = Head(inq)
      BY <2>3 DEF TypeOK
    <3>3. \A d \in Conns \ {c} : wpc'[d] = wpc[d] /\ wcall'[d] = wcall[d]
      BY <2>3 DEF TypeOK
    <3> QED
      BY <2>2, <2>5, <3>1, <3>2, <3>3 DEF PlacesOwn, WriterOwns, Still, r
  <2>8. PendingOwns' /\ PendingOnce' /\ SeqUnique' /\ DrainOwns' /\ ReaderOwns'
        /\ GroupAgrees' /\ WireAgrees'
    BY <2>2, <2>3, <2>5, TakenElsewhere DEF PlacesOwn, r
  <2> QED
    BY <2>4, <2>6, <2>7, <2>8 DEF PlacesOwn
<1>2. CASE WRefuse(c)
  <2> DEFINE r == wcall[c].req
  <2>1. /\ wcall[c] \in Item /\ wpc[c] = "got" /\ WhenCallDone(wcall[c].obj, "shutdown")
        /\ Completed(r) /\ wpc' = [wpc EXCEPT ![c] = "exit"]
        /\ wcall' = [wcall EXCEPT ![c] = Nil]
        /\ UNCHANGED <<inq, group, seq, pending, shutdown, rpc, rcall, todrain, wire>>
    BY <1>2 DEF WRefuse, TypeOK
  <2>2. r \in Reqs /\ phase[r] = "taken" /\ wcall[c].obj = obj[r]
    BY <2>1 DEF Item, PlacesOwn, WriterOwns
  <2>3. CallsOwned'
    BY <2>1, <2>2, ReportKeepsCalls DEF Live, Errors, Completed
  <2>4. phase'[r] = "completed" /\ \A q \in Reqs \ {r} : Still(q)
    BY <2>1, <2>2 DEF Completed, Still, TypeOK
  <2>5. \A d \in Conns \ {c} : wpc[d] = "got" => wcall[d].req \in Reqs \ {r}
    BY <2>1 DEF PlacesOwn, WriterOwns, TypeOK, Item
  <2> HIDE DEF r
  <2>6. WriterOwns'
    <3>1. \A d \in Conns : wpc'[d] = "got" =>
             d # c /\ wpc[d] = "got" /\ wcall'[d] = wcall[d]
      BY <2>1 DEF TypeOK
    <3> QED
      BY <2>4, <2>5, <3>1, WriterKept DEF PlacesOwn
  <2>7. QueueOwns' /\ ReaderOwns' /\ PendingOwns' /\ PendingOnce' /\ SeqUnique'
        /\ DrainOwns' /\ GroupAgrees' /\ WireAgrees'
    BY <2>1, <2>2, <2>4, TakenElsewhere
  <2> QED
    BY <2>3, <2>6, <2>7 DEF PlacesOwn
<1>3. CASE WLock(c)
  <2> DEFINE r == wcall[c].req
  <2>1. /\ wcall[c] \in Item /\ wpc[c] = "got" /\ File(c, wcall[c])
        /\ wpc' = [wpc EXCEPT ![c] = "gather"]
        /\ wcall' = [wcall EXCEPT ![c] = Nil]
        /\ UNCHANGED <<callVars, inq, shutdown, rpc, rcall, todrain, wire>>
    BY <1>3 DEF WLock, TypeOK
  <2>2. r \in Reqs /\ phase[r] = "taken" /\ wcall[c].obj = obj[r]
    BY <2>1 DEF Item, PlacesOwn, WriterOwns
  <2>3. Moved(r, "pending")
    BY <2>1 DEF File
  <2>4. CallsOwned'
    BY <2>1, <2>2, <2>3, MoveKeepsCalls DEF Live
  <2>5. \A q \in Reqs \ {r} : Still(q)
    BY <2>2, <2>3 DEF Moved, Still, TypeOK
  <2>6. \A d \in Conns \ {c} : wpc[d] = "got" => wcall[d].req \in Reqs \ {r}
    BY <2>1 DEF PlacesOwn, WriterOwns, TypeOK, Item
  <2>7. PendingOwns' /\ PendingOnce' /\ SeqUnique' /\ DrainOwns' /\ ReaderOwns'
        /\ GroupAgrees' /\ WireAgrees'
    BY <2>1, <2>2, FileKeepsPlaces
  <2> HIDE DEF r
  <2>8. WriterOwns'
    <3>1. \A d \in Conns : wpc'[d] = "got" =>
             d # c /\ wpc[d] = "got" /\ wcall'[d] = wcall[d]
      BY <2>1 DEF TypeOK
    <3> QED
      BY <2>5, <2>6, <3>1, WriterKept DEF PlacesOwn
  <2>9. QueueOwns'
    <3>1. \A i \in DOMAIN inq : inq[i] \in Item
      BY DEF TypeOK
    <3>2. \A i \in DOMAIN inq : Still(inq[i].req)
      BY <2>2, <2>5, <3>1 DEF PlacesOwn, QueueOwns, Item
    <3> QED
      BY <2>1, <3>2, QueueKept DEF PlacesOwn
  <2> QED
    BY <2>4, <2>7, <2>8, <2>9 DEF PlacesOwn
<1>4. CASE WGather(c)
  <2> DEFINE r == Head(inq).req
  <2>1. /\ inq # <<>> /\ Head(inq) \in Item /\ Head(inq) = inq[1] /\ 1 \in DOMAIN inq
    BY <1>4, TailFacts DEF WGather, TypeOK
  <2>2. r \in Reqs /\ phase[r] = "queued" /\ Head(inq).obj = obj[r]
    BY <2>1 DEF Item, PlacesOwn, QueueOwns
  <2>3. /\ File(c, Head(inq)) /\ Moved(r, "pending") /\ inq' = Tail(inq)
        /\ UNCHANGED <<callVars, wpc, wcall, shutdown, rpc, rcall, todrain, wire>>
    BY <1>4 DEF WGather, File
  <2>4. CallsOwned'
    BY <2>2, <2>3, MoveKeepsCalls DEF Live
  <2>5. PendingOwns' /\ PendingOnce' /\ SeqUnique' /\ DrainOwns' /\ ReaderOwns'
        /\ GroupAgrees' /\ WireAgrees'
    BY <2>1, <2>2, <2>3, FileKeepsPlaces
  <2> HIDE DEF r
  <2>6. \A q \in Reqs \ {r} : Still(q)
    BY <2>2, <2>3 DEF Moved, Still, TypeOK
  <2>7. QueueOwns'
    BY <2>1, <2>3, <2>6, QueueTaken DEF PlacesOwn, r
  <2>8. WriterOwns'
    <3>1. \A d \in Conns : wpc[d] = "got" => wcall[d].req \in Reqs \ {r}
      BY <2>2 DEF PlacesOwn, WriterOwns, TypeOK, Item
    <3> QED
      BY <2>3, <2>6, <3>1, WriterKept DEF PlacesOwn
  <2> QED
    BY <2>4, <2>5, <2>7, <2>8 DEF PlacesOwn
<1>5. CASE WWrite(c)
  <2> DEFINE g == group[c][wi[c] + 1]
             m == [seq |-> g.seq, req |-> NextWrite(c), ping |-> NextWrite(c) \in PingReqs]
  <2>1. UNCHANGED <<heap, pool, done, callerVars, inq, wpc, wcall, group, seq,
                    pending, shutdown, todrain, rpc, rcall>>
    BY <1>5 DEF WWrite
  <2>2. wire' = [wire EXCEPT ![c] = @ \cup {m}] \/ wire' = wire
    BY <1>5 DEF WWrite
  <2>3. CallsOwned'
    BY <2>1, FrameKeepsCalls
  <2>4. QueueOwns' /\ WriterOwns' /\ PendingOwns' /\ PendingOnce' /\ SeqUnique'
        /\ DrainOwns' /\ ReaderOwns' /\ GroupAgrees'
    BY <2>1, PlacesControl
  <2>5. wi[c] + 1 \in DOMAIN group[c] /\ g \in Entry
    BY <1>5 DEF WWrite, TypeOK
  <2>6. /\ g.seq < seq[c]
        /\ \A e \in pending[c] : e.seq = g.seq => e = g
    BY <2>5 DEF PlacesOwn, GroupAgrees
  <2>7. \A e \in pending[c] :
           e.seq = g.seq /\ phase[e.req] = "pending" => NextWrite(c) = e.req
    <3> SUFFICES ASSUME NEW e \in pending[c], e.seq = g.seq, phase[e.req] = "pending"
                 PROVE  heap[g.obj].req = e.req
      BY DEF NextWrite
    <3>1. e = g /\ e.req \in Reqs
      BY <2>6, EntryType
    <3>2. e.obj = obj[e.req]
      BY <3>1 DEF PlacesOwn, PendingOwns
    <3> QED
      BY <3>1, <3>2 DEF CallsOwned, LiveHoldsCall, Live
  <2>8. m.seq = g.seq /\ m.req = NextWrite(c)
    OBVIOUS
  <2> HIDE DEF m, g
  <2>9. WireAgrees'
    <3>1. \A d \in Conns : \A n \in wire'[d] : n \in wire[d] \/ (d = c /\ n = m)
      BY <2>2 DEF TypeOK
    <3> QED
      BY <2>1, <2>6, <2>7, <2>8, <3>1 DEF PlacesOwn, WireAgrees
  <2> QED
    BY <2>3, <2>4, <2>9 DEF PlacesOwn
<1>6. CASE WFailOne(c)
  <2>1. PICK e \in pending[c] :
           /\ pending' = [pending EXCEPT ![c] = @ \ {e}]
           /\ WhenCallDone(e.obj, "write")
           /\ Completed(e.req)
    BY <1>6 DEF WFailOne, Lookup
  <2> DEFINE r == e.req
  <2>2. r \in Reqs
    BY EntryType
  <2>3. phase[r] = "pending" /\ e.obj = obj[r]
    BY <2>1, <2>2, ReportIsFirst DEF PlacesOwn, PendingOwns
  <2>4. CallsOwned'
    BY <2>1, <2>2, <2>3, ReportKeepsCalls DEF Live, Errors, Completed
  <2>5. todrain[c] = {}
    BY <1>6 DEF WFailOne, Locking, MutexHeld, ShutdownByReader
  <2>6. phase'[r] # "pending" /\ \A q \in Reqs \ {r} : Still(q)
    BY <2>1, <2>2 DEF Completed, Still, TypeOK
  <2>7. UNCHANGED <<inq, wpc, wcall, group, seq, shutdown, todrain, wire, rpc, rcall>>
    BY <1>6 DEF WFailOne
  <2>8. \A d \in Conns : wire'[d] \subseteq wire[d]
    BY <2>7
  <2>9. PlacesOwn'
    BY <2>1, <2>3, <2>5, <2>6, <2>7, <2>8, LeavesPending DEF PlacesOwn
  <2> QED
    BY <2>4, <2>9
<1>7. CASE \/ WUnlock(c) \/ WFlush(c) \/ WFail(c) \/ WFailSkip(c) \/ WFailed(c)
           \/ WPanic(c) \/ WExitNotify(c) \/ PingTimer(c)
  BY <1>7, WriterControlOwned DEF PingTimer
<1> QED
  BY <1>1, <1>2, <1>3, <1>4, <1>5, <1>6, <1>7 DEF Writer

\* Nobody but its reader holds a call whose response is being read.
LEMMA ReadingElsewhere ==
    ASSUME TypeOK, PlacesOwn, [Next]_vars, NEW r \in Reqs, phase[r] = "reading",
           \A q \in Reqs \ {r} : Still(q),
           UNCHANGED <<inq, wpc, wcall, group, seq, pending, shutdown, todrain, wire>>
    PROVE  /\ QueueOwns' /\ WriterOwns' /\ PendingOwns' /\ PendingOnce' /\ SeqUnique'
           /\ DrainOwns' /\ GroupAgrees' /\ WireAgrees'
<1> USE DEF PlacesOwn
<1>1. QueueOwns'
  <2>1. \A i \in DOMAIN inq : inq[i] \in Item
    BY DEF TypeOK
  <2>2. \A i \in DOMAIN inq : Still(inq[i].req)
    BY <2>1 DEF QueueOwns, Item
  <2> QED
    BY <2>2, QueueKept
<1>2. WriterOwns'
  <2>1. \A d \in Conns : wpc[d] = "got" => wcall[d].req \in Reqs \ {r}
    BY DEF WriterOwns, TypeOK, Item
  <2> QED
    BY <2>1, WriterKept
<1>3. \A d \in Conns : \A e \in pending[d] : e.req \in Reqs \ {r}
  BY EntryType DEF PendingOwns
<1>4. PendingOwns' /\ PendingOnce' /\ SeqUnique'
  BY <1>3, PendingKept
<1>5. DrainOwns'
  <2>1. \A d \in Conns : \A e \in todrain'[d] :
           e \in todrain[d] /\ e \in pending'[d] /\ Still(e.req)
    BY <1>3 DEF DrainOwns
  <2> QED
    BY <2>1, DrainKept
<1>6. GroupAgrees'
  BY GroupKept
<1>7. WireAgrees'
  BY <1>3, WireKept DEF Still
<1> QED
  BY <1>1, <1>2, <1>4, <1>5, <1>6, <1>7

LEMMA ReaderOwned ==
    ASSUME TypeOK, Locking, Owned, ReportedOnce', [Next]_vars,
           NEW c \in Conns, Reader(c)
    PROVE  Owned'
<1> USE DEF Owned, callVars, callerVars, writerVars, connVars
<1>1. CASE \E m \in wire[c] : RPing(c, m) \/ RStray(c, m)
  <2>1. UNCHANGED <<heap, pool, done, callerVars, inq, wpc, wcall, group, seq,
                    pending, shutdown, todrain, rcall>>
    BY <1>1 DEF RPing, RStray, readerVars
  <2>2. /\ rpc' = rpc \/ \E p \in {"read", "broken"} : rpc' = [rpc EXCEPT ![c] = p]
        /\ \E m : wire' = [wire EXCEPT ![c] = @ \ {m}]
    BY <1>1 DEF RPing, RStray, Reads, readerVars
  <2>3. \A d \in Conns : rpc'[d] = "deliver" => rpc[d] = "deliver"
    BY <2>2 DEF TypeOK
  <2>4. \A d \in Conns : \A m \in wire'[d] : m \in wire[d] \/ m.ping
    BY <2>2 DEF TypeOK
  <2>5. CallsOwned'
    BY <2>1, FrameKeepsCalls
  <2>6. PlacesOwn'
    BY <2>1, <2>3, <2>4, PlacesControl
  <2> QED
    BY <2>5, <2>6
<1>2. ASSUME NEW m \in wire[c], RTake(c, m)
      PROVE  Owned'
  <2>1. PICK e \in Lookup(c, m.seq) :
          /\ pending' = [pending EXCEPT ![c] = @ \ {e}]
          /\ rcall' = [rcall EXCEPT ![c] =
                          [obj |-> e.obj, req |-> e.req, from |-> m.req]]
          /\ Moved(e.req, "reading")
    BY <1>2 DEF RTake, TakeInto
  <2> DEFINE r == e.req
  <2>2. e \in pending[c] /\ e.seq = m.seq /\ r \in Reqs
    BY <2>1, EntryType DEF Lookup
  <2>3. ~m.ping /\ mutex[c] = "free" /\ rpc[c] = "read"
    BY <1>2 DEF RTake, TakeInto, Reads
  <2>4. ~shutdown[c] /\ todrain[c] = {}
    BY <2>3 DEF Locking, MutexHeld, ShutdownByReader
  <2>5. phase[r] = "pending" /\ e.obj = obj[r] /\ m.req = r
    BY <2>2, <2>3, <2>4 DEF PlacesOwn, PendingOwns, WireAgrees
  <2>6. /\ UNCHANGED <<callVars, inq, wpc, wcall, group, seq, shutdown, todrain>>
        /\ rpc' = [rpc EXCEPT ![c] = "deliver"]
        /\ wire' = [wire EXCEPT ![c] = @ \ {m}]
    BY <1>2 DEF RTake, TakeInto, Reads
  <2>7. CallsOwned'
    BY <2>1, <2>2, <2>5, <2>6, MoveKeepsCalls DEF Live
  <2>8. /\ phase'[r] = "reading" /\ obj' = obj
        /\ \A q \in Reqs \ {r} : Still(q)
    BY <2>1, <2>2 DEF Moved, Still, TypeOK
  <2>9. \A d \in Conns : wire'[d] \subseteq wire[d]
    BY <2>6 DEF TypeOK
  <2>10. QueueOwns' /\ WriterOwns' /\ PendingOwns' /\ PendingOnce' /\ SeqUnique'
         /\ DrainOwns' /\ GroupAgrees' /\ WireAgrees'
    BY <2>1, <2>2, <2>4, <2>5, <2>6, <2>8, <2>9, LeavesPending
  <2>11. ReaderOwns'
    <3>1. \A d \in Conns : rpc[d] = "deliver" => rcall[d].req \in Reqs \ {r}
      BY <2>5 DEF PlacesOwn, ReaderOwns, TypeOK, Answer
    <3>2. /\ rpc'[c] = "deliver" /\ rcall'[c].req = r /\ rcall'[c].obj = e.obj
          /\ rcall'[c].from = m.req
      BY <2>1, <2>6 DEF TypeOK
    <3>3. \A d \in Conns \ {c} : rpc'[d] = rpc[d] /\ rcall'[d] = rcall[d]
      BY <2>1, <2>6 DEF TypeOK
    <3> HIDE DEF r
    <3> QED
      BY <2>5, <2>8, <3>1, <3>2, <3>3 DEF PlacesOwn, ReaderOwns, Still
  <2> QED
    BY <2>7, <2>10, <2>11 DEF PlacesOwn
<1>3. CASE Deliver(c)
  <2> DEFINE r == rcall[c].req
  <2>1. /\ rpc[c] = "deliver" /\ rcall[c] \in Answer
        /\ \E next \in {"read", "broken"} : Delivered(c, next)
    BY <1>3 DEF Deliver, RRemoteError, RReply, RBodyFail, TypeOK
  <2>2. /\ r \in Reqs /\ phase[r] = "reading" /\ rcall[c].obj = obj[r]
        /\ rcall[c].from = r
    BY <2>1 DEF Answer, PlacesOwn, ReaderOwns
  <2>3. heap[obj[r]].err = "nil"
    BY <2>2 DEF CallsOwned, LiveHoldsCall, Live
  <2>4. PICK e \in Errors :
          /\ WhenCallDone(obj[r], e)
          /\ phase' = [phase EXCEPT ![r] = "completed"]
          /\ completions' = [completions EXCEPT ![r] = @ + 1]
          /\ UNCHANGED <<obj, result>>
          /\ answered' = IF e = "nil" THEN answered \cup {r} ELSE answered
    <3>1. CASE RRemoteError(c)
      BY <2>2, <3>1 DEF RRemoteError, Completed, Errors
    <3>2. CASE RReply(c)
      BY <2>2, <2>3, <3>2 DEF RReply, Errors
    <3>3. CASE RBodyFail(c)
      BY <2>2, <3>3 DEF RBodyFail, Completed, Errors
    <3> QED
      BY <1>3, <3>1, <3>2, <3>3 DEF Deliver
  <2>5. CallsOwned'
    BY <2>2, <2>4, ReportKeepsCalls DEF Live
  <2>6. phase'[r] = "completed" /\ \A q \in Reqs \ {r} : Still(q)
    BY <2>2, <2>4 DEF Still, TypeOK
  <2>7. /\ UNCHANGED <<inq, wpc, wcall, group, seq, pending, shutdown, todrain, wire>>
        /\ rpc'[c] # "deliver"
        /\ \A d \in Conns \ {c} : rpc'[d] = rpc[d] /\ rcall'[d] = rcall[d]
    BY <2>1 DEF Delivered, TypeOK, netVars
  <2>8. \A d \in Conns \ {c} : rpc[d] = "deliver" => rcall[d].req \in Reqs \ {r}
    BY <2>1 DEF PlacesOwn, ReaderOwns, TypeOK, Answer
  <2> HIDE DEF r
  <2>9. ReaderOwns'
    <3>1. \A d \in Conns : rpc'[d] = "deliver" =>
             rpc[d] = "deliver" /\ rcall'[d] = rcall[d] /\ Still(rcall[d].req)
      BY <2>6, <2>7, <2>8
    <3> QED
      BY <3>1, ReaderKept DEF PlacesOwn
  <2>10. QueueOwns' /\ WriterOwns' /\ PendingOwns' /\ PendingOnce' /\ SeqUnique'
         /\ DrainOwns' /\ GroupAgrees' /\ WireAgrees'
    BY <2>2, <2>6, <2>7, ReadingElsewhere
  <2> QED
    BY <2>5, <2>9, <2>10 DEF PlacesOwn
<1>4. CASE RShutdown(c)
  <2>1. /\ UNCHANGED <<heap, pool, done, callerVars, inq, wpc, wcall, group, seq,
                       pending, rcall, wire>>
        /\ shutdown' = [shutdown EXCEPT ![c] = TRUE]
        /\ todrain' = [todrain EXCEPT ![c] = pending[c]]
        /\ rpc' = [rpc EXCEPT ![c] = "drain"]
    BY <1>4 DEF RShutdown, netVars
  <2>2. /\ \A q : Still(q)
        /\ \A d \in Conns : shutdown[d] => shutdown'[d]
        /\ \A d \in Conns : rpc'[d] = "deliver" => rpc[d] = "deliver"
    BY <2>1 DEF Still, TypeOK
  <2>3. ~shutdown[c]
    BY <1>4 DEF RShutdown, Locking, ShutdownByReader
  <2>4. CallsOwned'
    BY <2>1, FrameKeepsCalls
  <2>5. QueueOwns' /\ WriterOwns' /\ ReaderOwns'
    BY <2>1, <2>2, QueueKept, WriterKept, ReaderKept DEF PlacesOwn
  <2>6. PendingOwns' /\ PendingOnce' /\ SeqUnique'
    BY <2>1, <2>2, PendingKept DEF PlacesOwn
  <2>7. GroupAgrees'
    BY <2>1, GroupKept DEF PlacesOwn
  <2>8. WireAgrees'
    BY <2>1, <2>2, WireKept DEF PlacesOwn, Still
  <2>9. DrainOwns'
    <3>1. \A e \in pending[c] : phase[e.req] = "pending"
      BY <2>3 DEF PlacesOwn, PendingOwns
    <3>2. todrain'[c] = pending[c] /\ \A d \in Conns \ {c} : todrain'[d] = todrain[d]
      BY <2>1 DEF TypeOK
    <3> QED
      BY <2>1, <3>1, <3>2 DEF PlacesOwn, DrainOwns
  <2> QED
    BY <2>4, <2>5, <2>6, <2>7, <2>8, <2>9 DEF PlacesOwn
<1>5. CASE RDrain(c)
  <2>1. PICK e \in todrain[c] :
          /\ todrain' = [todrain EXCEPT ![c] = @ \ {e}]
          /\ WhenCallDone(e.obj, "down")
          /\ Completed(e.req)
    BY <1>5 DEF RDrain
  <2> DEFINE r == e.req
  <2>2. r \in Reqs /\ e \in pending[c] /\ phase[r] = "pending"
    BY EntryType DEF PlacesOwn, DrainOwns
  <2>3. e.obj = obj[r] /\ shutdown[c]
    BY <1>5, <2>2 DEF PlacesOwn, PendingOwns, RDrain, Locking, ShutdownByReader
  <2>4. CallsOwned'
    BY <2>1, <2>2, <2>3, ReportKeepsCalls DEF Live, Errors, Completed
  <2>5. /\ phase'[r] = "completed" /\ completions'[r] >= 1
        /\ \A q \in Reqs \ {r} : Still(q)
    BY <2>1, <2>2 DEF Completed, Still, TypeOK
  <2>6. UNCHANGED <<inq, wpc, wcall, group, seq, pending, shutdown, rpc, rcall, wire>>
    BY <1>5 DEF RDrain, netVars
  <2>7. \A d \in Conns : \A f \in pending[d] :
           f.req \in Reqs /\ (f.req = r => d = c /\ f = e)
    BY <2>2, EntryType DEF PlacesOwn, PendingOnce
  <2> HIDE DEF r
  <2>8. QueueOwns' /\ WriterOwns' /\ ReaderOwns'
    <3>1. \A i \in DOMAIN inq : inq[i] \in Item
      BY DEF TypeOK
    <3>2. \A i \in DOMAIN inq : Still(inq[i].req)
      BY <2>2, <2>5, <3>1 DEF PlacesOwn, QueueOwns, Item
    <3>3. \A d \in Conns : wpc[d] = "got" => Still(wcall[d].req)
      BY <2>2, <2>5 DEF PlacesOwn, WriterOwns, TypeOK, Item
    <3>4. \A d \in Conns : rpc[d] = "deliver" => Still(rcall[d].req)
      BY <2>2, <2>5 DEF PlacesOwn, ReaderOwns, TypeOK, Answer
    <3> QED
      BY <2>6, <3>2, <3>3, <3>4, QueueKept, WriterKept, ReaderKept DEF PlacesOwn
  <2>9. PendingOwns' /\ PendingOnce' /\ SeqUnique'
    <3>1. \A d \in Conns :
             /\ shutdown[d] => shutdown'[d]
             /\ \A f \in pending'[d] :
                   /\ f \in pending[d]
                   /\ \/ Still(f.req)
                      \/ /\ shutdown'[d] /\ completions'[f.req] >= 1
                         /\ phase'[f.req] \in {"completed", "returned"}
      BY <2>3, <2>5, <2>6, <2>7
    <3> QED
      BY <2>6, <3>1, PendingKept DEF PlacesOwn
  <2>10. DrainOwns'
    <3>1. \A d \in Conns : \A f \in todrain'[d] : f \in todrain[d] /\ ~(d = c /\ f = e)
      BY <2>1 DEF TypeOK
    <3>2. \A d \in Conns : \A f \in todrain'[d] :
             f \in todrain[d] /\ f \in pending'[d] /\ Still(f.req)
      BY <2>5, <2>6, <2>7, <3>1 DEF PlacesOwn, DrainOwns
    <3> QED
      BY <3>2, DrainKept DEF PlacesOwn
  <2>11. GroupAgrees'
    BY <2>6, GroupKept DEF PlacesOwn
  <2>12. WireAgrees'
    <3>1. \A d \in Conns :
             /\ \A f \in pending'[d] :
                   f \in pending[d] /\ (phase'[f.req] = "pending" => phase[f.req] = "pending")
             /\ \A m \in wire'[d] : m \in wire[d] \/ m.ping
      BY <2>5, <2>6, <2>7 DEF Still
    <3> QED
      BY <2>6, <3>1, WireKept DEF PlacesOwn
  <2> QED
    BY <2>4, <2>8, <2>9, <2>10, <2>11, <2>12 DEF PlacesOwn
<1>6. CASE RNotify(c)
  <2>1. /\ UNCHANGED <<heap, pool, done, callerVars, inq, wpc, wcall, group, seq,
                       pending, shutdown, todrain, rcall, wire>>
        /\ rpc' = [rpc EXCEPT ![c] = "exit"]
    BY <1>6 DEF RNotify, netVars
  <2>2. \A d \in Conns : rpc'[d] = "deliver" => rpc[d] = "deliver"
    BY <2>1 DEF TypeOK
  <2>3. CallsOwned'
    BY <2>1, FrameKeepsCalls
  <2>4. PlacesOwn'
    BY <2>1, <2>2, PlacesControl
  <2> QED
    BY <2>3, <2>4
<1> QED
  BY <1>1, <1>2, <1>3, <1>4, <1>5, <1>6 DEF Reader

-----------------------------------------------------------------------------
(* The inductive invariant, and what follows from it.                      *)

LEMMA InitIInv == Init => IInv
<1> SUFFICES ASSUME Init
             PROVE  Owned
  BY InitTypeOK, InitLocking DEF IInv
<1>1. CallsOwned
  <2> USE DEF Init, CallInit
  <2>1. LiveHoldsCall /\ NotYetReported /\ PooledIsBlank
    BY ChanFacts DEF LiveHoldsCall, NotYetReported, PooledIsBlank, Live
  <2>2. DoneHoldsCalls
    BY DEF DoneHoldsCalls
  <2>3. SyncIsWaiting /\ ResultIsOutcome
    BY ChanFacts DEF SyncIsWaiting, ResultIsOutcome
  <2> QED
    BY <2>1, <2>2, <2>3 DEF CallsOwned
<1>2. PlacesOwn
  BY DEF Init, PlacesOwn, QueueOwns, WriterOwns, PendingOwns, PendingOnce, SeqUnique,
         DrainOwns, ReaderOwns, GroupAgrees, WireAgrees
<1> QED
  BY <1>1, <1>2 DEF Owned

LEMMA NextIInv == IInv /\ [Next]_vars => IInv'
<1> SUFFICES ASSUME IInv, [Next]_vars
             PROVE  IInv'
  OBVIOUS
<1>1. TypeOK /\ Locking /\ TypeOK' /\ Locking'
  BY NextTypeOK, LockingStep DEF IInv
<1>2. ASSUME ReportedOnce'
      PROVE  Owned'
  <2>1. Owned
    BY <1>1, <1>2, CompletionsGrow DEF IInv, ReportedOnce
  <2>2. CASE Caller
    BY <1>1, <2>1, <2>2, CallerOwned
  <2>3. ASSUME NEW c \in Conns, Start(c)
        PROVE  Owned'
    <3>1. /\ UNCHANGED <<heap, pool, done, callerVars, inq, wcall, group, seq,
                         pending, shutdown, todrain, rcall, wire>>
          /\ wpc' = [wpc EXCEPT ![c] = "select"]
          /\ rpc' = [rpc EXCEPT ![c] = "read"]
      BY <2>3 DEF Start, callVars, connVars
    <3>2. \A d \in Conns : /\ wpc'[d] = "got" => wpc[d] = "got"
                          /\ rpc'[d] = "deliver" => rpc[d] = "deliver"
      BY <1>1, <3>1 DEF TypeOK
    <3> QED
      BY <1>1, <2>1, <3>1, <3>2, FrameKeepsCalls, PlacesControl DEF Owned
  <2>4. ASSUME NEW c \in Conns, Close(c) \/ NetBreak(c)
        PROVE  Owned'
    <3>1. UNCHANGED <<heap, pool, done, callerVars, inq, wpc, wcall, group, seq,
                      pending, shutdown, todrain, rpc, rcall, wire>>
      BY <2>4 DEF Close, NetBreak, callVars, connVars, writerVars, readerVars
    <3> QED
      BY <1>1, <2>1, <3>1, FrameKeepsCalls, PlacesControl DEF Owned
  <2>5. ASSUME NEW c \in Conns, Writer(c) \/ PingTimer(c)
        PROVE  Owned'
    BY <1>1, <1>2, <2>1, <2>5, WriterOwned
  <2>6. ASSUME NEW c \in Conns, Reader(c)
        PROVE  Owned'
    BY <1>1, <1>2, <2>1, <2>6, ReaderOwned
  <2>7. CASE UNCHANGED vars
    <3>1. UNCHANGED <<heap, pool, done, callerVars, inq, wpc, wcall, group, seq,
                      pending, shutdown, todrain, rpc, rcall, wire>>
      BY <2>7 DEF vars, callVars, connVars, writerVars, readerVars, netVars
    <3> QED
      BY <1>1, <2>1, <3>1, FrameKeepsCalls, PlacesControl DEF Owned
  <2> QED
    BY <2>2, <2>3, <2>4, <2>5, <2>6, <2>7 DEF Next
<1> QED
  BY <1>1, <1>2 DEF IInv

\* The invariant behind the theorems below.
THEOREM Inductive == Spec => []IInv
BY InitIInv, NextIInv, PTL DEF Spec

\* No TCall serves two invocations, and none is pooled while somebody still
\* refers to it, until an invocation is reported twice.
THEOREM CallsNotSharedHolds == Spec => []CallsNotShared
<1>1. IInv => CallsNotShared
  <2> SUFFICES ASSUME TypeOK, Owned
               PROVE  /\ \A o \in Objs : pool[o] <= 1
                      /\ \A r \in InFlight : pool[obj[r]] = 0 /\ heap[obj[r]].req = r
                      /\ \A ch \in Chans : \A i \in DOMAIN done[ch] :
                            LET o == done[ch][i]
                            IN  pool[o] = 0 /\ \A r \in InFlight : obj[r] # o
    BY DEF IInv, CallsNotShared
  <2>1. \A r \in InFlight : r \in Reqs /\ phase[r] \in Live
    BY DEF InFlight, Live
  <2>2. \A r \in InFlight : pool[obj[r]] = 0 /\ heap[obj[r]].req = r
    BY <2>1 DEF Owned, CallsOwned, LiveHoldsCall
  <2>3. \A o \in Objs : pool[o] <= 1
    BY DEF Owned, CallsOwned, PooledIsBlank
  <2>4. \A ch \in Chans : \A i \in DOMAIN done[ch] : pool[done[ch][i]] = 0
    BY DEF Owned, CallsOwned, DoneHoldsCalls, Waiting
  <2>5. \A ch \in Chans : \A i \in DOMAIN done[ch] : \A r \in InFlight : obj[r] # done[ch][i]
    BY <2>1, LiveDistinct DEF Owned
  <2> QED
    BY <2>2, <2>3, <2>4, <2>5
<1> QED
  BY Inductive, <1>1, PTL

\* A response is matched with the invocation it answers.
THEOREM ResponseReachesItsCallHolds == Spec => []ResponseReachesItsCall
<1>1. IInv => ResponseReachesItsCall
  BY DEF IInv, ResponseReachesItsCall, Owned, PlacesOwn, ReaderOwns
<1> QED
  BY Inductive, <1>1, PTL

\* A caller is told of success exactly when its response was read.
THEOREM NilErrorMeansAnsweredHolds == Spec => []NilErrorMeansAnswered
<1>1. IInv => NilErrorMeansAnswered
  BY DEF IInv, NilErrorMeansAnswered, Owned, CallsOwned, ResultIsOutcome
<1> QED
  BY Inductive, <1>1, PTL

\* The notification of a SyncCall is never dropped or misdirected.
THEOREM SyncCallIsNotifiedHolds == Spec => []SyncCallIsNotified
<1>1. IInv => SyncCallIsNotified
  BY DEF IInv, SyncCallIsNotified, Owned, CallsOwned, SyncIsWaiting
<1> QED
  BY Inductive, <1>1, PTL

\* A step that reports nothing, or reports an invocation that was not reported.
FirstReport ==
    \/ UNCHANGED completions
    \/ \E r \in Reqs : completions' = [completions EXCEPT ![r] = @ + 1] /\ completions[r] = 0

LEMMA LateReport ==
    ASSUME IInv, ReportedOnce, Next
    PROVE  FirstReport \/ \E c \in Conns : wpc[c] = "fail" /\ shutdown[c]
<1> USE DEF FirstReport, callerVars, Moved
<1>0. /\ TypeOK /\ Locking /\ PlacesOwn
      /\ \A r \in Reqs : phase[r] \in Live => completions[r] = 0
  BY DEF IInv, Owned, CallsOwned, NotYetReported
<1>1. CASE Caller
  <2>1. CASE \E r \in Reqs : EnqueueFull(r)
    BY <1>0, <2>1 DEF EnqueueFull, Completed, Live
  <2>2. CASE \E r \in Reqs : Make(r) \/ Enqueue(r) \/ Cancel(r)
    BY <2>2 DEF Make, Enqueue, Cancel
  <2>3. CASE \E ch \in Chans : Receive(ch)
    BY <2>3 DEF Receive
  <2>4. CASE \E ch \in UserChans : UserClosesChan(ch)
    BY <2>4 DEF UserClosesChan
  <2> QED
    BY <1>1, <2>1, <2>2, <2>3, <2>4 DEF Caller
<1>2. ASSUME NEW c \in Conns, Start(c) \/ Close(c) \/ NetBreak(c)
      PROVE  UNCHANGED completions
  BY <1>2 DEF Start, Close, NetBreak
<1>3. ASSUME NEW c \in Conns, Writer(c) \/ PingTimer(c)
      PROVE  FirstReport \/ (wpc[c] = "fail" /\ shutdown[c])
  <2>1. CASE WRefuse(c)
    <3>1. wcall[c].req \in Reqs /\ phase[wcall[c].req] = "taken" /\ Completed(wcall[c].req)
      BY <1>0, <2>1 DEF WRefuse, TypeOK, Item, PlacesOwn, WriterOwns
    <3> QED
      BY <1>0, <3>1 DEF Completed, Live
  <2>2. CASE WFailOne(c)
    <3>1. PICK e \in pending[c] : Completed(e.req)
      BY <2>2 DEF WFailOne, Lookup
    <3>2. e.req \in Reqs /\ (phase[e.req] = "pending" \/ shutdown[c])
      BY <1>0, EntryType DEF PlacesOwn, PendingOwns
    <3> QED
      BY <1>0, <2>2, <3>1, <3>2 DEF WFailOne, Completed, Live
  <2>3. CASE ~WRefuse(c) /\ ~WFailOne(c)
    BY <1>3, <2>3 DEF Writer, PingTimer, WTake, WLock, WGather, File, WUnlock, WWrite,
                      WFlush, WFail, WFailSkip, WFailed, WPanic, WExitNotify, WPing,
                      WPingFail, WEnds
  <2> QED
    BY <2>1, <2>2, <2>3
<1>4. ASSUME NEW c \in Conns, Reader(c)
      PROVE  FirstReport
  <2>1. CASE \E m \in wire[c] : RPing(c, m) \/ RStray(c, m) \/ RTake(c, m)
    BY <2>1 DEF RPing, RStray, RTake, TakeInto
  <2>2. CASE Deliver(c)
    <3>1. /\ rcall[c].req \in Reqs /\ phase[rcall[c].req] = "reading"
          /\ completions' = [completions EXCEPT ![rcall[c].req] = @ + 1]
      BY <1>0, <2>2 DEF Deliver, RRemoteError, RReply, RBodyFail, TypeOK, Answer,
                        PlacesOwn, ReaderOwns, Completed
    <3> QED
      BY <1>0, <3>1 DEF Live
  <2>3. CASE RDrain(c)
    <3>1. PICK e \in todrain[c] : Completed(e.req)
      BY <2>3 DEF RDrain
    <3>2. e.req \in Reqs /\ phase[e.req] = "pending"
      BY <1>0, EntryType DEF PlacesOwn, DrainOwns
    <3> QED
      BY <1>0, <3>1, <3>2 DEF Completed, Live
  <2>4. CASE RShutdown(c) \/ RNotify(c)
    BY <2>4 DEF RShutdown, RNotify
  <2> QED
    BY <1>4, <2>1, <2>2, <2>3, <2>4 DEF Reader
<1> QED
  BY <1>1, <1>2, <1>3, <1>4 DEF Next

\* The clean-up of a failed write, on a connection that onShutDown has been
\* through, is the only place where a call can be reported again.
THEOREM SecondReportNeedsShutdownHolds == Spec => SecondReportNeedsShutdown
<1>1. IInv /\ [Next]_vars =>
         [ReportedOnce /\ ~ReportedOnce' => \E c \in Conns : wpc[c] = "fail" /\ shutdown[c]]_vars
  <2> SUFFICES ASSUME IInv, Next, ReportedOnce, FirstReport
               PROVE  ReportedOnce'
    BY LateReport DEF vars, callerVars, ReportedOnce
  <2>1. completions \in [Reqs -> Nat]
    BY DEF IInv, TypeOK
  <2> QED
    BY <2>1 DEF FirstReport, ReportedOnce
<1> QED
  BY Inductive, <1>1, PTL DEF Spec, SecondReportNeedsShutdown

=============================================================================
