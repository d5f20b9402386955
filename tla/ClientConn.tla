----------------------------- MODULE ClientConn -----------------------------
(***************************************************************************)
(* TClientConn (rpc/client_conn.go): the connections from one client to    *)
(* one server address.  They share the address's CallChan.  Each has a     *)
(* writer goroutine, which takes calls off the channel, files them in      *)
(* pending under a sequence number and writes them to the wire in groups,  *)
(* and a reader goroutine, which matches responses with pending calls and, *)
(* when it cannot read any more, fails what is still pending.              *)
(*                                                                         *)
(* The callers (SyncCall, AsyncCall, the channel send of SendCall) drive   *)
(* the connections; which server SendCall picks and when it dials belong   *)
(* to TClient and are not in this module.                                  *)
(***************************************************************************)
EXTENDS Call

CONSTANTS
    Conns,             \* the connections
    MaxWaitCall,       \* capacity of CallChan
    UnitePackageNum,   \* how many calls join the first one of a group
    BadReqs,           \* invocations whose Args the codec fails to encode
    PanicReqs,         \* invocations whose Args make it panic (a nil pointer); one
                       \* that is in both sets may do either
    PingReqs,          \* invocations of the method named "ping"
    Nil                \* the nil pointer

ASSUME ClientConnAssumption ==
    /\ MaxWaitCall \in Nat \ {0}     \* an unbuffered CallChan is left out
    /\ UnitePackageNum \in Nat
    /\ BadReqs \subseteq Reqs
    /\ PanicReqs \subseteq Reqs
    /\ PingReqs \subseteq Reqs

VARIABLES
    \* the callers
    phase,        \* how far each invocation has got
    obj,          \* the local variable call of SyncCall and AsyncCall
    result,       \* the error an invocation's caller was handed
    completions,  \* history: how often WhenCallDone ran for an invocation
    answered,     \* history: invocations whose response was read without error
    inq,          \* CallChan
    \* the writer goroutine of each connection
    wpc, wcall, group, wi,
    \* TClientConn
    mutex, seq, pending, closing, shutdown, exitNotify,
    \* the reader goroutine of each connection
    rpc, rcall, todrain,
    \* the TCP connection and the server behind it
    netUp, wire

callerVars == <<phase, obj, result, completions, answered>>
writerVars == <<wpc, wcall, group, wi>>
connVars == <<mutex, seq, pending, closing, shutdown, exitNotify>>
readerVars == <<rpc, rcall, todrain>>
netVars == <<netUp, wire>>
vars == <<callVars, callerVars, inq, writerVars, connVars, readerVars, netVars>>

\* A call on its way through the client: the object, and the invocation the
\* object was handed over for.  The code only has the object.
Item == [obj : Objs, req : Reqs]
Entry == [seq : Nat, obj : Objs, req : Reqs]

\* A request on the wire: it stays there until its response is read.
Message == [seq : Nat, req : Reqs \cup {NoReq}, ping : BOOLEAN]
PingMessage == [seq |-> 0, req |-> NoReq, ping |-> TRUE]

\* A call taken out of pending for the response to invocation "from".
Answer == [obj : Objs, req : Reqs, from : Reqs \cup {NoReq}]

Phases == {"idle", "made", "queued", "taken", "pending", "reading",
           "completed", "returned"}

TypeOK ==
    /\ CallTypeOK
    /\ phase \in [Reqs -> Phases]
    /\ obj \in [Reqs -> Objs \cup {Nil}]
    /\ \A r \in Reqs : phase[r] = "made" => obj[r] \in Objs
    /\ result \in [Reqs -> Errors \cup {"none"}]
    /\ completions \in [Reqs -> Nat]
    /\ answered \subseteq Reqs
    /\ inq \in Seq(Item)
    /\ wpc \in [Conns -> {"off", "select", "got", "gather", "write", "fail", "exit"}]
    /\ wcall \in [Conns -> Item \cup {Nil}]
    /\ \A c \in Conns : wpc[c] = "got" => wcall[c] \in Item
    /\ group \in [Conns -> Seq(Entry)]
    /\ wi \in [Conns -> Nat]
    /\ mutex \in [Conns -> {"free", "writer", "reader"}]
    /\ seq \in [Conns -> Nat]
    /\ pending \in [Conns -> SUBSET Entry]
    /\ closing \in [Conns -> BOOLEAN]
    /\ shutdown \in [Conns -> BOOLEAN]
    /\ exitNotify \in [Conns -> BOOLEAN]
    /\ rpc \in [Conns -> {"off", "read", "deliver", "broken", "drain", "exit"}]
    /\ rcall \in [Conns -> Answer \cup {Nil}]
    /\ \A c \in Conns : rpc[c] = "deliver" => rcall[c] \in Answer
    /\ todrain \in [Conns -> SUBSET Entry]
    /\ netUp \in [Conns -> BOOLEAN]
    /\ wire \in [Conns -> SUBSET Message]

Init ==
    /\ CallInit
    /\ phase = [r \in Reqs |-> "idle"]
    /\ obj = [r \in Reqs |-> Nil]
    /\ result = [r \in Reqs |-> "none"]
    /\ completions = [r \in Reqs |-> 0]
    /\ answered = {}
    /\ inq = <<>>
    /\ wpc = [c \in Conns |-> "off"]
    /\ wcall = [c \in Conns |-> Nil]
    /\ group = [c \in Conns |-> <<>>]
    /\ wi = [c \in Conns |-> 0]
    /\ mutex = [c \in Conns |-> "free"]
    /\ seq = [c \in Conns |-> 0]
    /\ pending = [c \in Conns |-> {}]
    /\ closing = [c \in Conns |-> FALSE]
    /\ shutdown = [c \in Conns |-> FALSE]
    /\ exitNotify = [c \in Conns |-> FALSE]
    /\ rpc = [c \in Conns |-> "off"]
    /\ rcall = [c \in Conns |-> Nil]
    /\ todrain = [c \in Conns |-> {}]
    /\ netUp = [c \in Conns |-> FALSE]
    /\ wire = [c \in Conns |-> {}]

-----------------------------------------------------------------------------
(* The callers.                                                            *)

\* Bookkeeping of one run of WhenCallDone for invocation r.
Completed(r) ==
    /\ completions' = [completions EXCEPT ![r] = @ + 1]
    /\ phase' = [phase EXCEPT ![r] = "completed"]
    /\ UNCHANGED <<obj, result, answered>>

Moved(r, p) ==
    /\ phase' = [phase EXCEPT ![r] = p]
    /\ UNCHANGED <<obj, result, completions, answered>>

\* SyncCall and AsyncCall up to SendCall.
Make(r) ==
    /\ phase[r] = "idle"
    /\ \E o \in Objs :
          /\ NewCall(o, r)
          /\ obj' = [obj EXCEPT ![r] = o]
    /\ phase' = [phase EXCEPT ![r] = "made"]
    /\ UNCHANGED <<result, completions, answered, inq,
                   writerVars, connVars, readerVars, netVars>>

\* The select of SendCall: the channel has room ...
Enqueue(r) ==
    /\ phase[r] = "made"
    /\ Len(inq) < MaxWaitCall
    /\ inq' = Append(inq, [obj |-> obj[r], req |-> r])
    /\ Moved(r, "queued")
    /\ UNCHANGED <<callVars, writerVars, connVars, readerVars, netVars>>

\* ... or it is full.
EnqueueFull(r) ==
    /\ phase[r] = "made"
    /\ Len(inq) >= MaxWaitCall
    /\ WhenCallDone(obj[r], "full")
    /\ Completed(r)
    /\ UNCHANGED <<inq, writerVars, connVars, readerVars, netVars>>

\* A caller gets a call from its channel, reads its Error and frees it: the end
\* of SyncCall, or what the user of AsyncCall is told to do.
Receive(ch) ==
    /\ Collect(ch)
    /\ LET r == IF ch \in SyncReqs THEN ch ELSE heap[Head(done[ch])].req
       IN  /\ r \in Reqs
           /\ result' = [result EXCEPT ![r] = heap[Head(done[ch])].err]
           /\ phase' = [phase EXCEPT ![r] = "returned"]
    /\ UNCHANGED <<obj, completions, answered, inq,
                   writerVars, connVars, readerVars, netVars>>

\* The user of AsyncCall gives up a call that it still owns.
Cancel(r) ==
    /\ r \notin SyncReqs
    /\ phase[r] \notin {"idle", "made", "returned"}
    /\ AsyncChan[r] \in UserChans \ closed
    /\ \E o \in Objs :
          /\ o = obj[r]
          /\ heap[o].req = r
          /\ ~heap[o].cancel
          /\ CancelCall(o)
    /\ UNCHANGED <<callerVars, inq, writerVars, connVars, readerVars, netVars>>

UserClosesChan(ch) ==
    /\ CloseChan(ch)
    /\ UNCHANGED <<callerVars, inq, writerVars, connVars, readerVars, netVars>>

Caller ==
    \/ \E r \in Reqs : Make(r) \/ Enqueue(r) \/ EnqueueFull(r) \/ Cancel(r)
    \/ \E ch \in Chans : Receive(ch)
    \/ \E ch \in UserChans : UserClosesChan(ch)

-----------------------------------------------------------------------------
(* The writer goroutine, RoutineWriteRequst.                               *)

Lookup(c, s) == {e \in pending[c] : e.seq = s}

\* Start: the dial succeeded, both goroutines run.  A failed dial starts none
\* and leaves the connection as it was.
Start(c) ==
    /\ wpc[c] = "off"
    /\ wpc' = [wpc EXCEPT ![c] = "select"]
    /\ rpc' = [rpc EXCEPT ![c] = "read"]
    /\ netUp' = [netUp EXCEPT ![c] = TRUE]
    /\ UNCHANGED <<callVars, callerVars, inq, wcall, group, wi, connVars,
                   rcall, todrain, wire>>

\* The first case of the select: a call.  CallChan is never closed.
WTake(c) ==
    /\ wpc[c] = "select"
    /\ inq # <<>>
    /\ wcall' = [wcall EXCEPT ![c] = Head(inq)]
    /\ inq' = Tail(inq)
    /\ wpc' = [wpc EXCEPT ![c] = "got"]
    /\ Moved(Head(inq).req, "taken")
    /\ UNCHANGED <<callVars, group, wi, connVars, readerVars, netVars>>

\* sendCall finds the connection shut down or closed; the writer ends.
WRefuse(c) ==
    /\ wpc[c] = "got"
    /\ mutex[c] = "free"
    /\ shutdown[c] \/ closing[c]
    /\ WhenCallDone(wcall[c].obj, "shutdown")
    /\ Completed(wcall[c].req)
    /\ wcall' = [wcall EXCEPT ![c] = Nil]
    /\ wpc' = [wpc EXCEPT ![c] = "exit"]
    /\ UNCHANGED <<inq, group, wi, connVars, readerVars, netVars>>

\* Mutant: makeRequestHeader does not count up.
FileSameSeq(c, item) ==
    LET e == [seq |-> seq[c], obj |-> item.obj, req |-> item.req]
    IN  /\ pending' = [pending EXCEPT ![c] = (@ \ Lookup(c, e.seq)) \cup {e}]
        /\ group' = [group EXCEPT ![c] = Append(@, e)]
        /\ Moved(item.req, "pending")
        /\ UNCHANGED seq

\* makeRequestHeader, under the mutex, and the append to groupRequest.
File(c, item) ==
    LET e == [seq |-> seq[c], obj |-> item.obj, req |-> item.req]
    IN  /\ seq' = [seq EXCEPT ![c] = @ + 1]
        /\ pending' = [pending EXCEPT ![c] = (@ \ Lookup(c, e.seq)) \cup {e}]
        /\ group' = [group EXCEPT ![c] = Append(@, e)]
        /\ Moved(item.req, "pending")

\* Mutant: sendCall files the call whatever became of the connection.
WLockUnchecked(c) ==
    /\ wpc[c] = "got"
    /\ mutex[c] = "free"
    /\ mutex' = [mutex EXCEPT ![c] = "writer"]
    /\ File(c, wcall[c])
    /\ wcall' = [wcall EXCEPT ![c] = Nil]
    /\ wpc' = [wpc EXCEPT ![c] = "gather"]
    /\ UNCHANGED <<callVars, inq, wi, closing, shutdown, exitNotify,
                   readerVars, netVars>>

\* sendCall locks the mutex and files the call it was given.
WLock(c) ==
    /\ wpc[c] = "got"
    /\ mutex[c] = "free"
    /\ ~shutdown[c] /\ ~closing[c]
    /\ mutex' = [mutex EXCEPT ![c] = "writer"]
    /\ File(c, wcall[c])
    /\ wcall' = [wcall EXCEPT ![c] = Nil]
    /\ wpc' = [wpc EXCEPT ![c] = "gather"]
    /\ UNCHANGED <<callVars, inq, wi, closing, shutdown, exitNotify,
                   readerVars, netVars>>

\* One round of sendCall's loop: a waiting call joins the group ...
WGather(c) ==
    /\ wpc[c] = "gather"
    /\ Len(group[c]) <= UnitePackageNum
    /\ inq # <<>>
    /\ File(c, Head(inq))
    /\ inq' = Tail(inq)
    /\ UNCHANGED <<callVars, wpc, wcall, wi, mutex, closing, shutdown,
                   exitNotify, readerVars, netVars>>

\* ... until none is waiting or the group is full.
WUnlock(c) ==
    /\ wpc[c] = "gather"
    /\ inq = <<>> \/ Len(group[c]) > UnitePackageNum
    /\ mutex' = [mutex EXCEPT ![c] = "free"]
    /\ wpc' = [wpc EXCEPT ![c] = "write"]
    /\ UNCHANGED <<callVars, callerVars, inq, wcall, group, wi, seq, pending,
                   closing, shutdown, exitNotify, readerVars, netVars>>

\* What WriteRequest encodes is what the object holds by now.
NextWrite(c) == heap[group[c][wi[c] + 1].obj].req

\* WriteRequest, with as much of the buffer flushed as the code may flush: a
\* request can be answered before the rest of its group is written.  Bytes
\* written to a connection that is down are lost.
WWrite(c) ==
    /\ wpc[c] = "write"
    /\ wi[c] < Len(group[c])
    /\ NextWrite(c) \notin BadReqs \cup PanicReqs
    /\ wi' = [wi EXCEPT ![c] = @ + 1]
    /\ \/ /\ netUp[c]
          /\ wire' = [wire EXCEPT ![c] = @ \cup
                        {[seq |-> group[c][wi[c] + 1].seq, req |-> NextWrite(c),
                          ping |-> NextWrite(c) \in PingReqs]}]
       \/ /\ ~netUp[c]
          /\ UNCHANGED wire
    /\ UNCHANGED <<callVars, callerVars, inq, wpc, wcall, group, connVars,
                   readerVars, netUp>>

\* The whole group is flushed.
WFlush(c) ==
    /\ wpc[c] = "write"
    /\ wi[c] = Len(group[c])
    /\ group' = [group EXCEPT ![c] = <<>>]
    /\ wi' = [wi EXCEPT ![c] = 0]
    /\ wpc' = [wpc EXCEPT ![c] = "select"]
    /\ UNCHANGED <<callVars, callerVars, inq, wcall, connVars, readerVars, netVars>>

\* WriteRequest or Flush fails: the connection is down, or the codec cannot
\* encode the arguments.
WFail(c) ==
    /\ wpc[c] = "write"
    /\ \/ ~netUp[c]
       \/ wi[c] < Len(group[c]) /\ NextWrite(c) \in BadReqs
    /\ wi' = [wi EXCEPT ![c] = 0]
    /\ wpc' = [wpc EXCEPT ![c] = "fail"]
    /\ UNCHANGED <<callVars, callerVars, inq, wcall, group, connVars,
                   readerVars, netVars>>

\* Mutant: the clean-up deletes the call from pending and tells nobody.
WFailOneSilently(c) ==
    /\ wpc[c] = "fail"
    /\ wi[c] < Len(group[c])
    /\ mutex[c] = "free"
    /\ wi' = [wi EXCEPT ![c] = @ + 1]
    /\ \E e \in Lookup(c, group[c][wi[c] + 1].seq) :
          pending' = [pending EXCEPT ![c] = @ \ {e}]
    /\ UNCHANGED <<callVars, callerVars, inq, wpc, wcall, group, mutex, seq,
                   closing, shutdown, exitNotify, readerVars, netVars>>

\* sendGroupCall's clean-up takes the next call of the group out of pending
\* and fails it ...
WFailOne(c) ==
    /\ wpc[c] = "fail"
    /\ wi[c] < Len(group[c])
    /\ mutex[c] = "free"
    /\ wi' = [wi EXCEPT ![c] = @ + 1]
    /\ \E e \in Lookup(c, group[c][wi[c] + 1].seq) :
          /\ pending' = [pending EXCEPT ![c] = @ \ {e}]
          /\ WhenCallDone(e.obj, "write")
          /\ Completed(e.req)
    /\ UNCHANGED <<inq, wpc, wcall, group, mutex, seq, closing, shutdown,
                   exitNotify, readerVars, netVars>>

\* ... unless its response has taken it out already.
WFailSkip(c) ==
    /\ wpc[c] = "fail"
    /\ wi[c] < Len(group[c])
    /\ mutex[c] = "free"
    /\ Lookup(c, group[c][wi[c] + 1].seq) = {}
    /\ wi' = [wi EXCEPT ![c] = @ + 1]
    /\ UNCHANGED <<callVars, callerVars, inq, wpc, wcall, group, connVars,
                   readerVars, netVars>>

WEnds(c) ==
    /\ wpc' = [wpc EXCEPT ![c] = "exit"]
    /\ UNCHANGED <<callVars, callerVars, inq, wcall, mutex, seq, pending,
                   closing, shutdown, readerVars, netVars>>

\* sendCall returned an error: the writer ends and nobody is told.
WFailed(c) ==
    /\ wpc[c] = "fail"
    /\ wi[c] = Len(group[c])
    /\ group' = [group EXCEPT ![c] = <<>>]
    /\ wi' = [wi EXCEPT ![c] = 0]
    /\ WEnds(c)
    /\ UNCHANGED exitNotify

\* WriteRequest panics and RoutineWriteRequst recovers: the writer ends and the
\* calls of its group stay pending.
WPanic(c) ==
    /\ wpc[c] = "write"
    /\ wi[c] < Len(group[c])
    /\ NextWrite(c) \in PanicReqs
    /\ group' = [group EXCEPT ![c] = <<>>]
    /\ wi' = [wi EXCEPT ![c] = 0]
    /\ WEnds(c)
    /\ UNCHANGED exitNotify

\* The ping timer fires: sendPing, with sequence number 0 and no pending call.
WPing(c) ==
    /\ wpc[c] = "select"
    /\ netUp[c]
    /\ wire' = [wire EXCEPT ![c] = @ \cup {PingMessage}]
    /\ UNCHANGED <<callVars, callerVars, inq, writerVars, connVars, readerVars, netUp>>

WPingFail(c) ==
    /\ wpc[c] = "select"
    /\ ~netUp[c]
    /\ WEnds(c)
    /\ UNCHANGED <<group, wi, exitNotify>>

\* The third case of the select: the reader has shut the connection down.
WExitNotify(c) ==
    /\ wpc[c] = "select"
    /\ exitNotify[c]
    /\ exitNotify' = [exitNotify EXCEPT ![c] = FALSE]
    /\ WEnds(c)
    /\ UNCHANGED <<group, wi>>

Writer(c) ==
    \/ WTake(c) \/ WRefuse(c) \/ WLock(c) \/ WGather(c) \/ WUnlock(c)
    \/ WWrite(c) \/ WFlush(c)
    \/ WFail(c) \/ WFailOne(c) \/ WFailSkip(c) \/ WFailed(c) \/ WPanic(c)
    \/ WExitNotify(c)

PingTimer(c) == WPing(c) \/ WPingFail(c)

-----------------------------------------------------------------------------
(* The reader goroutine, RoutineReadResponse.  Responses are read in any   *)
(* order: the server runs each request in a goroutine of its own.          *)

Reads(c, m) ==
    /\ rpc[c] = "read"
    /\ m \in wire[c]
    /\ wire' = [wire EXCEPT ![c] = @ \ {m}]

\* The response to a ping is ignored, whoever sent the ping.
RPing(c, m) ==
    /\ Reads(c, m)
    /\ m.ping
    /\ UNCHANGED <<callVars, callerVars, inq, writerVars, connVars, readerVars, netUp>>

\* No call is pending under this number: writing its group failed half-way.  The
\* reply is read and dropped; the loop ends if it cannot be read.
RStray(c, m) ==
    /\ Reads(c, m)
    /\ ~m.ping
    /\ mutex[c] = "free"
    /\ Lookup(c, m.seq) = {}
    /\ \E next \in {"read", "broken"} : rpc' = [rpc EXCEPT ![c] = next]
    /\ UNCHANGED <<callVars, callerVars, inq, writerVars, connVars, rcall,
                   todrain, netUp>>

TakeInto(c, m, e) ==
    /\ rcall' = [rcall EXCEPT ![c] = [obj |-> e.obj, req |-> e.req, from |-> m.req]]
    /\ Moved(e.req, "reading")
    /\ rpc' = [rpc EXCEPT ![c] = "deliver"]
    /\ UNCHANGED <<callVars, inq, writerVars, mutex, seq, closing, shutdown,
                   exitNotify, todrain, netUp>>

\* Mutants: the reader looks a call up and leaves it in pending, ...
RTakeKeeps(c, m) ==
    /\ Reads(c, m)
    /\ ~m.ping
    /\ mutex[c] = "free"
    /\ \E e \in Lookup(c, m.seq) : TakeInto(c, m, e)
    /\ UNCHANGED pending

\* ... takes the response to a ping for that of a call, ...
RTakePing(c, m) ==
    /\ Reads(c, m)
    /\ mutex[c] = "free"
    /\ \E e \in Lookup(c, m.seq) :
          /\ pending' = [pending EXCEPT ![c] = @ \ {e}]
          /\ TakeInto(c, m, e)

\* ... or goes on with the nil call of an unknown number.
RTakeNil(c, m) ==
    /\ Reads(c, m)
    /\ ~m.ping
    /\ mutex[c] = "free"
    /\ \/ \E e \in Lookup(c, m.seq) :
             /\ pending' = [pending EXCEPT ![c] = @ \ {e}]
             /\ TakeInto(c, m, e)
       \/ /\ Lookup(c, m.seq) = {}
          /\ rpc' = [rpc EXCEPT ![c] = "deliver"]
          /\ UNCHANGED <<callVars, callerVars, inq, writerVars, connVars, rcall,
                         todrain, netUp>>

\* The reader takes the call of this number out of pending.
RTake(c, m) ==
    /\ Reads(c, m)
    /\ ~m.ping
    /\ mutex[c] = "free"
    /\ \E e \in Lookup(c, m.seq) :
          /\ pending' = [pending EXCEPT ![c] = @ \ {e}]
          /\ TakeInto(c, m, e)

Delivered(c, next) ==
    /\ rpc' = [rpc EXCEPT ![c] = next]
    /\ rcall' = [rcall EXCEPT ![c] = Nil]
    /\ UNCHANGED <<inq, writerVars, connVars, todrain, netVars>>

\* The response carries the error the remote method returned.  The loop ends if
\* the reply that comes with it cannot be read.
RRemoteError(c) ==
    /\ rpc[c] = "deliver"
    /\ WhenCallDone(rcall[c].obj, "remote")
    /\ Completed(rcall[c].req)
    /\ \E next \in {"read", "broken"} : Delivered(c, next)

\* The reply is decoded.  Error is not assigned: it stays what it was.
RReply(c) ==
    /\ rpc[c] = "deliver"
    /\ WhenCallDone(rcall[c].obj, heap[rcall[c].obj].err)
    /\ completions' = [completions EXCEPT ![rcall[c].req] = @ + 1]
    /\ phase' = [phase EXCEPT ![rcall[c].req] = "completed"]
    /\ answered' = answered \cup ({rcall[c].from} \cap Reqs)
    /\ UNCHANGED <<obj, result>>
    /\ Delivered(c, "read")

\* The reply cannot be decoded; the loop ends.
RBodyFail(c) ==
    /\ rpc[c] = "deliver"
    /\ WhenCallDone(rcall[c].obj, "body")
    /\ Completed(rcall[c].req)
    /\ Delivered(c, "broken")

\* Mutant: onShutDown does nothing for a connection that its user has closed.
RShutdownUnlessClosing(c) ==
    /\ rpc[c] \in {"read", "broken"}
    /\ mutex[c] = "free"
    /\ ~closing[c]
    /\ mutex' = [mutex EXCEPT ![c] = "reader"]
    /\ shutdown' = [shutdown EXCEPT ![c] = TRUE]
    /\ todrain' = [todrain EXCEPT ![c] = pending[c]]
    /\ rpc' = [rpc EXCEPT ![c] = "drain"]
    /\ UNCHANGED <<callVars, callerVars, inq, writerVars, seq, pending, closing,
                   exitNotify, rcall, netVars>>

\* ReadResponseHeader fails (end of file, reset, undecodable bytes), or the
\* loop has ended: onShutDown.  Only the reader calls it, so shutdown is unset.
RShutdown(c) ==
    /\ rpc[c] \in {"read", "broken"}
    /\ mutex[c] = "free"
    /\ mutex' = [mutex EXCEPT ![c] = "reader"]
    /\ shutdown' = [shutdown EXCEPT ![c] = TRUE]
    /\ todrain' = [todrain EXCEPT ![c] = pending[c]]
    /\ rpc' = [rpc EXCEPT ![c] = "drain"]
    /\ UNCHANGED <<callVars, callerVars, inq, writerVars, seq, pending, closing,
                   exitNotify, rcall, netVars>>

\* onShutDown fails one pending call.  The call stays in pending.
RDrain(c) ==
    /\ rpc[c] = "drain"
    /\ \E e \in todrain[c] :
          /\ todrain' = [todrain EXCEPT ![c] = @ \ {e}]
          /\ WhenCallDone(e.obj, "down")
          /\ Completed(e.req)
    /\ UNCHANGED <<inq, writerVars, connVars, rpc, rcall, netVars>>

\* Mutant: the writer is not notified.
RNotifyNobody(c) ==
    /\ rpc[c] = "drain"
    /\ todrain[c] = {}
    /\ mutex' = [mutex EXCEPT ![c] = "free"]
    /\ rpc' = [rpc EXCEPT ![c] = "exit"]
    /\ UNCHANGED <<callVars, callerVars, inq, writerVars, seq, pending, closing,
                   shutdown, exitNotify, rcall, todrain, netVars>>

\* The send to exitNotify (capacity 1) and the unlock.  The removal from the
\* client's connection list that follows belongs to TClient.
RNotify(c) ==
    /\ rpc[c] = "drain"
    /\ todrain[c] = {}
    /\ ~exitNotify[c]
    /\ exitNotify' = [exitNotify EXCEPT ![c] = TRUE]
    /\ mutex' = [mutex EXCEPT ![c] = "free"]
    /\ rpc' = [rpc EXCEPT ![c] = "exit"]
    /\ UNCHANGED <<callVars, callerVars, inq, writerVars, seq, pending, closing,
                   shutdown, rcall, todrain, netVars>>

Deliver(c) == RRemoteError(c) \/ RReply(c) \/ RBodyFail(c)

Reader(c) ==
    \/ \E m \in wire[c] : RPing(c, m) \/ RStray(c, m) \/ RTake(c, m)
    \/ Deliver(c) \/ RShutdown(c) \/ RDrain(c) \/ RNotify(c)

-----------------------------------------------------------------------------

\* Close, called by the user of a connection.
Close(c) ==
    /\ wpc[c] # "off"
    /\ mutex[c] = "free"
    /\ ~closing[c]
    /\ closing' = [closing EXCEPT ![c] = TRUE]
    /\ netUp' = [netUp EXCEPT ![c] = FALSE]
    /\ UNCHANGED <<callVars, callerVars, inq, writerVars, mutex, seq, pending,
                   shutdown, exitNotify, readerVars, wire>>

\* The server closes the connection, or the network does.
NetBreak(c) ==
    /\ netUp[c]
    /\ netUp' = [netUp EXCEPT ![c] = FALSE]
    /\ UNCHANGED <<callVars, callerVars, inq, writerVars, connVars, readerVars, wire>>

Next ==
    \/ Caller
    \/ \E c \in Conns :
          \/ Start(c) \/ Close(c) \/ NetBreak(c)
          \/ Writer(c) \/ PingTimer(c) \/ Reader(c)

Spec == Init /\ [][Next]_vars

\* Goroutines that can run do run.  The server answers what reaches it and the
\* answer arrives unless the connection fails.  A reader whose connection is down
\* or undecodable notices.  A server that receives nothing any more closes the
\* connection (ServerIdleTimeout, server_conn.go:127).
Fairness ==
    /\ \A c \in Conns :
          /\ WF_vars(Writer(c))
          /\ WF_vars(Deliver(c))
          /\ WF_vars((~netUp[c] \/ rpc[c] = "broken") /\ RShutdown(c))
          /\ WF_vars(RDrain(c) \/ RNotify(c))
          /\ WF_vars(wpc[c] = "exit" /\ NetBreak(c))
          /\ \A r \in Reqs : SF_vars(\E m \in wire[c] : m.req = r /\ RTake(c, m))

FairSpec == Spec /\ Fairness

-----------------------------------------------------------------------------
(* Properties.                                                             *)

\* An invocation is reported at most once: WhenCallDone runs at most once for
\* it.  sendGroupCall looks a call up in pending before it fails it, "because
\* RoutineReadResponse may have deleted it" (client_conn.go:312), so that it
\* is not reported by both goroutines.
ReportedOnce == \A r \in Reqs : completions[r] <= 1

\* The invocations whose call is with the client.
InFlight == {r \in Reqs : phase[r] \in {"made", "queued", "taken", "pending", "reading"}}

\* A TCall serves one invocation at a time (call.go:72, FreeCall): an object that
\* is in flight, or waits in a Done channel for its user, is not in the pool and
\* does not serve a second invocation, and no object is pooled twice.
CallsNotShared ==
    ReportedOnce =>
       /\ \A o \in Objs : pool[o] <= 1
       /\ \A r \in InFlight : pool[obj[r]] = 0 /\ heap[obj[r]].req = r
       /\ \A ch \in Chans : \A i \in DOMAIN done[ch] :
             LET o == done[ch][i]
             IN  pool[o] = 0 /\ \A r \in InFlight : obj[r] # o

\* The response the reader is about to hand over answers the very invocation
\* whose call it found under the sequence number (client_conn.go:177), whatever
\* failed, was recycled or was pinged in between.
ResponseReachesItsCall ==
    ReportedOnce =>
       \A c \in Conns : rpc[c] = "deliver" => rcall[c].from = rcall[c].req

\* A caller sees no error exactly if the response of its own invocation was
\* read completely: no stale Error of a recycled call, no success by default.
NilErrorMeansAnswered ==
    ReportedOnce =>
       \A r \in Reqs : phase[r] = "returned" => (result[r] = "nil" <=> r \in answered)

\* A SyncCall that was reported has its call waiting in its own channel: done()
\* never drops it and nobody else's call gets there (call.go:116).
SyncCallIsNotified ==
    ReportedOnce =>
       \A r \in SyncReqs : phase[r] = "completed" => done[r] = <<obj[r]>>

\* When the reader has ended, nothing is left unreported in the connection's
\* pending calls, however sendCall and onShutDown raced (client_conn.go:255,335).
DeadConnHoldsNothing ==
    \A c \in Conns : rpc[c] = "exit" =>
       \A e \in pending[c] : completions[e.req] >= 1

\* The one way to report a call twice: the writer cleans up after a failed write
\* on a connection whose onShutDown has run (client_conn.go:310, 355).
SecondReportNeedsShutdown ==
    [][ReportedOnce /\ ~ReportedOnce' =>
          \E c \in Conns : wpc[c] = "fail" /\ shutdown[c]]_vars

\* A call that the writer takes off the channel is reported in the end ("TCall
\* records an rpc call and notifies its outcome", call.go:18), whatever fails
\* on its way.  The code does not keep this for a user's method named "ping", whose
\* response is ignored, nor once a call was reported twice.
TakenIsReported ==
    \A r \in Reqs \ PingReqs :
       phase[r] = "taken" ~> (completions[r] > 0 \/ ~ReportedOnce)

\* The writer of a connection that is shut down ends: no goroutine is leaked.
ShutdownStopsWriter ==
    \A c \in Conns : shutdown[c] ~> wpc[c] = "exit"

\* A connection whose writer has stopped is shut down in the end, which takes it
\* off the client's list.  The writer itself does nothing about it
\* (client_conn.go:149): this hangs on the server's idle timeout.
WriterExitShutsDown ==
    \A c \in Conns : wpc[c] = "exit" ~> shutdown[c]

=============================================================================
