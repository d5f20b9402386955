------------------------------- MODULE Server -------------------------------
(***************************************************************************)
(* TServer (rpc/server.go): the goroutine in Start that accepts            *)
(* connections, the list of connections, and Stop, together with the       *)
(* connections of ServerConn.  A section under serverConnListMu is one     *)
(* step.                                                                   *)
(***************************************************************************)
EXTENDS ServerConn

VARIABLES
    status,         \* TServer.status
    listening,      \* the listener is open
    startPc,        \* the goroutine in Start
    accepted,       \* its serverConn
    stopPc,         \* the goroutine in Stop
    connList        \* serverConnList

serverVars == <<status, listening, startPc, accepted, stopPc, connList>>
vars == <<serverVars, connVars>>

TypeOK ==
    /\ ConnTypeOK
    /\ status \in {"new", "running", "stoping"}
    /\ listening \in BOOLEAN
    /\ startPc \in {"start", "accept", "sleep", "list", "serve", "returned"}
    /\ accepted \in Conns \cup {Nil}
    /\ startPc \in {"list", "serve"} => accepted \in Conns
    /\ stopPc \in {"idle", "close", "conns", "returned"}
    /\ connList \subseteq Conns

Init ==
    /\ ConnInit
    /\ status = "new"
    /\ listening = TRUE
    /\ startPc = "start"
    /\ accepted = Nil
    /\ stopPc = "idle"
    /\ connList = {}

-----------------------------------------------------------------------------
(* Start.                                                                  *)

Start ==
    /\ startPc = "start"
    /\ status' = "running"
    /\ startPc' = "accept"
    /\ UNCHANGED <<listening, accepted, stopPc, connList, connVars>>

\* Mutant: the connection goes into a variable of the inner block.
AcceptShadowed(c) ==
    /\ startPc = "accept"
    /\ listening
    /\ runPc[c] = "off"
    /\ startPc' = "list"
    /\ UNCHANGED <<status, listening, accepted, stopPc, connList, connVars>>

Accept(c) ==
    /\ startPc = "accept"
    /\ listening
    /\ runPc[c] = "off"
    /\ accepted' = c
    /\ startPc' = "list"
    /\ UNCHANGED <<status, listening, stopPc, connList, connVars>>

\* What Accept returns on a listener that Close was called on.  A timeout error
\* would take a deadline, and the call that set one is commented out.
AcceptError == IF listening THEN "other" ELSE "closed"

\* Accept fails: Start returns after a timeout and tries again after any other
\* error.
AcceptFails ==
    /\ startPc = "accept"
    /\ startPc' = IF AcceptError = "timeout" THEN "returned" ELSE "sleep"
    /\ UNCHANGED <<status, listening, accepted, stopPc, connList, connVars>>

Sleep ==
    /\ startPc = "sleep"
    /\ startPc' = "accept"
    /\ UNCHANGED <<status, listening, accepted, stopPc, connList, connVars>>

\* serverConnList.PushBack.
ListConn ==
    /\ startPc = "list"
    /\ connList' = connList \cup {accepted}
    /\ startPc' = "serve"
    /\ UNCHANGED <<status, listening, accepted, stopPc, connVars>>

Serve ==
    /\ startPc = "serve"
    /\ StartConn(accepted)
    /\ startPc' = "accept"
    /\ UNCHANGED <<status, listening, accepted, stopPc, connList>>

StartRoutine ==
    \/ Start \/ AcceptFails \/ Sleep \/ ListConn \/ Serve
    \/ \E c \in Conns : Accept(c)

-----------------------------------------------------------------------------
(* Stop.                                                                   *)

\* Stop does nothing unless the server runs.
Stop ==
    /\ stopPc = "idle"
    /\ status = "running"
    /\ status' = "stoping"
    /\ stopPc' = "close"
    /\ UNCHANGED <<listening, startPc, accepted, connList, connVars>>

CloseListener ==
    /\ stopPc = "close"
    /\ listening' = FALSE
    /\ stopPc' = "conns"
    /\ UNCHANGED <<status, startPc, accepted, connList, connVars>>

\* The reads of the listed connections are given a deadline, which makes them
\* fail, as they may at any time.
StopConns ==
    /\ stopPc = "conns"
    /\ stopPc' = "returned"
    /\ UNCHANGED <<status, listening, startPc, accepted, connList, connVars>>

StopRoutine == Stop \/ CloseListener \/ StopConns

-----------------------------------------------------------------------------
(* The connections.                                                        *)

isRunning == status = "running"

OneServerConnStop(c) ==
    /\ LeaveStep(c)
    /\ connList' = connList \ {c}
    /\ UNCHANGED <<status, listening, startPc, accepted, stopPc>>

\* A read returns.
ReadReturns(c) ==
    \/ isRunning /\ ReadFails(c)
    \/ isRunning /\ \E q \in Reqs, k \in Kinds : ReadRequest(c, q, k)
    \/ ~isRunning /\ ReadStopping(c)

RoutineRun(c) ==
    \/ /\ \/ ReadReturns(c) \/ Wait(c) \/ Reply(c)
          \/ Collect(c, "run") \/ WriteGroup(c, "run")
          \/ Dispatch(c) \/ DispatchError(c)
          \/ CloseDoneChan(c) \/ CloseCodec(c)
       /\ UNCHANGED serverVars
    \/ OneServerConnStop(c)

Conn(c) == RoutineRun(c) \/ (RoutineWriteResponse(c) /\ UNCHANGED serverVars)

Next ==
    \/ StartRoutine
    \/ StopRoutine
    \/ \E c \in Conns : Conn(c)
    \/ \E q \in Reqs : RoutineDoCall(q) /\ UNCHANGED serverVars

Spec == Init /\ [][Next]_vars

\* The goroutines go on, methods return, and a read returns at the latest when
\* the idle timeout is over.
Fairness ==
    /\ WF_vars(StartRoutine)
    /\ WF_vars(stopPc # "idle" /\ StopRoutine)
    /\ \A c \in Conns :
          /\ WF_vars(RoutineRun(c))
          /\ WF_vars(RoutineWriteResponse(c) /\ UNCHANGED serverVars)
    /\ \A q \in Reqs : WF_vars(RoutineDoCall(q) /\ UNCHANGED serverVars)

FairSpec == Spec /\ Fairness

-----------------------------------------------------------------------------
(* Properties.                                                             *)

Accepted(c) == {q \in Reqs : on[q] = c}

\* A dummy call that could not be dispatched is taken off pendingWg twice, once
\* for each of its two responses (server_conn.go:185).
Refused(q) == kind[q] = "dummy" /\ callPc[q] = "refused"
Overcounted(c) == \E q \in Accepted(c) : Refused(q)

\* When a connection is closed because the server stops, every request it had
\* counted is answered, be it by the run loop, in the group of a dummy call or by
\* the writer; only a reply that cannot be encoded prevents it, or a request
\* that was taken off twice (server_conn.go:135-142, 405).
GracefulCloseAnswersAll ==
    \A c \in waited : codecOpen[c] /\ ~Overcounted(c) =>
       \A q \in Accepted(c) : Len(answers[q]) > 0

\* A request is answered once at most, whoever answers it, for the client takes a
\* second response for the sign of a request that it failed to write
\* (client_conn.go:184): only a dummy call that is not dispatched afterwards is
\* answered twice.
AnsweredOnce ==
    \A q \in Reqs : Len(answers[q]) <= IF Refused(q) THEN 2 ELSE 1

\* A method's goroutine that finds doneChan closed loses its response.  That
\* happens when the read loop failed, and never on a connection that was closed
\* because the server stops (server_conn.go:286).
NoResponseLostInStop ==
    [][\A q \in Reqs :
          callPc[q] = "returned" /\ callPc'[q] = "ended"
             /\ kind[q] = "call" /\ ~chanOpen[on[q]]
          => on[q] \notin waited \/ Overcounted(on[q])]_vars

\* The header of a response says rightly whether a body follows, whichever path
\* wrote it, unless the method returned an error: then a body follows that the
\* header denies, and the client reads it as the next header (server_conn.go:361,
\* 389).
OnlyErrorsBreakFraming ==
    \A q \in Reqs : \A i \in 1 .. Len(answers[q]) :
       answers[q][i].noData = answers[q][i].body => ret[q] = "error"

HasLeft(c) ==
    runPc[c] = "exit" /\ \A i \in 1 .. Len(exit[c]) : exit[c][i] # "leave"

\* A connection that runs is on the list, where Stop finds it, until it leaves,
\* also the one that fails at once, and then it is not, however it ended
\* (server.go:247, 270, 316).
ListedWhileRunning ==
    \A c \in Conns : runPc[c] # "off" => (c \in connList <=> ~HasLeft(c))

\* The requests that are counted for ever.
Stuck(c) ==
    {q \in Accepted(c) :
        \/ kind[q] = "noname"
        \/ kind[q] = "call" /\ callPc[q] = "ended" /\ ret[q] = "panic"}

\* A goroutine of the connection, other than its read loop, can go on: a method
\* that runs or can send its result, or a writer that has something to write.
SomebodyGoesOn(c) ==
    \/ \E q \in Accepted(c) :
          /\ kind[q] = "call"
          /\ \/ callPc[q] = "running"
             \/ callPc[q] = "returned" /\ Len(doneChan[c]) < MaxWaitResp
    \/ writePc[c] = "recv" /\ doneChan[c] # <<>>
    \/ writePc[c] = "collect"

\* The read loop never waits for pendingWg while everybody else waits as well: as
\* long as the counter holds more than the requests that are never answered, some
\* goroutine goes on that will take one off, however full doneChan is and whether
\* or not the codec still writes (server_conn.go:137, 286, 405).
WaitIsForSomebody ==
    \A c \in Conns :
       runPc[c] = "wait" /\ ~Overcounted(c) /\ pendingWg[c] # Cardinality(Stuck(c))
          => SomebodyGoesOn(c)

\* What keeps a connection from being closed: pendingWg has been driven below zero,
\* and has perhaps ended the writer (server_conn.go:185), or it counts a request
\* that is never answered (server_conn.go:153, 276).
CounterBroken(c) ==
    pendingWg[c] < 0 \/ (writePc[c] = "ended" /\ chanOpen[c])

Unanswerable(q) == kind[q] = "noname" \/ (kind[q] = "call" /\ ret[q] = "panic")

\* After Stop every connection is closed in the end, whatever is on its way and
\* whoever is blocked on a full channel at that moment, unless the counter is
\* wrong by then (server.go:50, server_conn.go:135).
StopEndsConns ==
    \A c \in Conns :
       status = "stoping" /\ runPc[c] # "off"
          ~> \/ HasLeft(c) \/ CounterBroken(c)
             \/ \E q \in Accepted(c) : Unanswerable(q)

\* "Waits until all requests in execution are executed, then stops the service"
\* (server.go:50).
StopStopsService ==
    \A c \in Conns : status = "stoping" /\ runPc[c] # "off" ~> HasLeft(c)

\* No goroutine of a closed connection stays behind: the writer ends, and so do
\* the methods that were blocked on the full channel (server_conn.go:197, 286).
GoroutinesEnd ==
    /\ \A c \in Conns : runPc[c] = "exit" ~> writePc[c] = "ended"
    /\ \A q \in Reqs : callPc[q] = "returned" ~> callPc[q] = "ended"

-----------------------------------------------------------------------------
(* The inductive invariants behind the safety properties.                  *)

\* What may be left to do after the loop, after a break and after a panic.
ExitShapes ==
    {<<"chan", "codec", "leave">>, <<"codec", "leave">>, <<"leave">>, <<>>,
     <<"leave", "chan", "codec">>, <<"chan", "codec">>, <<"codec">>}

\* ListedWhileRunning, with the connection that is about to start.
ListInv ==
    /\ startPc \in {"list", "serve"} => runPc[accepted] = "off"
    /\ startPc = "serve" => accepted \in connList
    /\ \A c \in Conns : /\ exit[c] \in ExitShapes
                        /\ runPc[c] # "exit" => exit[c] = <<>>
    /\ ListedWhileRunning

\* A call whose response waits to be written.
AwaitsWriter(q, c) ==
    /\ on[q] = c /\ kind[q] = "call" /\ answers[q] = <<>>
    /\ callPc[q] = "ended" /\ ret[q] # "panic"

\* The dummy call that is being answered before it runs.
AnsweredFirst(q, c) ==
    /\ runPc[c] = "collect" /\ q = current[c]
    /\ on[q] = c /\ kind[q] = "dummy" /\ callPc[q] = "none" /\ answers[q] = <<>>

RequestInv ==
    \A q \in Reqs :
       /\ kind[q] = Nil => callPc[q] = "none" /\ on[q] = Nil /\ answers[q] = <<>>
       /\ kind[q] # Nil => on[q] \in Conns
       /\ callPc[q] # "none" => kind[q] \in {"call", "dummy"}
       /\ kind[q] = "call" /\ callPc[q] \in {"none", "running", "returned"} =>
             answers[q] = <<>>
       /\ callPc[q] = "returned" => ret[q] # "panic"

FramingInv ==
    \A q \in Reqs : \A i \in 1 .. Len(answers[q]) :
       answers[q][i].noData = answers[q][i].body =>
          kind[q] = "call" /\ callPc[q] = "ended" /\ ret[q] = "error"

ChanInv ==
    \A c \in Conns, q \in Reqs : \A i \in 1 .. Len(doneChan[c]) :
       doneChan[c][i] = q =>
          /\ AwaitsWriter(q, c)
          /\ \A w \in Writers : q \notin group[c][w]
          /\ \A j \in 1 .. Len(doneChan[c]) : doneChan[c][j] = q => i = j

GroupInv ==
    \A c \in Conns :
       /\ \A q \in group[c]["run"] : AwaitsWriter(q, c) \/ AnsweredFirst(q, c)
       /\ \A q \in group[c]["write"] : AwaitsWriter(q, c) /\ q \notin group[c]["run"]
       /\ runPc[c] # "collect" => group[c]["run"] = {}
       /\ writePc[c] # "collect" => group[c]["write"] = {}
       /\ runPc[c] = "off" => writePc[c] = "off"

CurrentInv ==
    \A c \in Conns, q \in Reqs :
       current[c] = q =>
          /\ runPc[c] = "collect" => AnsweredFirst(q, c)
          /\ runPc[c] = "dispatch" =>
                on[q] = c /\ kind[q] \in {"call", "dummy"} /\ callPc[q] = "none"
          /\ runPc[c] = "reply" =>
                /\ on[q] = c
                /\ kind[q] \in {"ping", "bad"} \/ callPc[q] = "refused"
                /\ Len(answers[q]) <= IF kind[q] = "dummy" THEN 1 ELSE 0

Unanswered(c) == {q \in Accepted(c) : answers[q] = <<>>}

\* pendingWg counts the requests without an answer, as long as that matters.
CountInv ==
    \A c \in Conns :
       codecOpen[c] /\ ~Overcounted(c) /\ runPc[c] # "exit" =>
          pendingWg[c] = Cardinality(Unanswered(c))

\* The requests that pendingWg counts: those that a later step will take off, or
\* may, and those that none will.
Held(c) ==
    {q \in Accepted(c) :
        \/ kind[q] = "call" /\ callPc[q] \in {"none", "running", "returned"}
        \/ \E i \in 1 .. Len(doneChan[c]) : doneChan[c][i] = q
        \/ \E w \in Writers : q \in group[c][w]
        \/ runPc[c] = "reply" /\ q = current[c]
        \/ q \in Stuck(c)}

\* pendingWg counts them exactly, even if responses are not written.
HeldInv ==
    \A c \in Conns :
       ~Overcounted(c) /\ runPc[c] # "exit" => pendingWg[c] = Cardinality(Held(c))

\* Until the connection is closed its writer works, and a call that has not been
\* started is the current one.
WorkInv ==
    /\ \A c \in Conns : runPc[c] # "exit" =>
          /\ chanOpen[c]
          /\ runPc[c] = "off" \/ Overcounted(c) \/ writePc[c] \in {"recv", "collect"}
    /\ \A q \in Reqs : kind[q] = "call" /\ callPc[q] = "none" =>
          runPc[on[q]] = "dispatch" /\ current[on[q]] = q

WaitedInv == \A c \in waited : runPc[c] = "exit"

\* NoResponseLostInStop: the calls of a connection that waited are over.
SettledInv ==
    \A c \in waited : ~Overcounted(c) =>
       \A q \in Accepted(c) : kind[q] = "call" => callPc[q] \in {"refused", "ended"}

AnswerInv ==
    RequestInv /\ FramingInv /\ AnsweredOnce /\ ChanInv /\ GroupInv /\ CurrentInv

IInv ==
    /\ TypeOK /\ ListInv /\ AnswerInv
    /\ CountInv /\ HeldInv /\ WorkInv
    /\ WaitedInv /\ SettledInv /\ GracefulCloseAnswersAll

=============================================================================
