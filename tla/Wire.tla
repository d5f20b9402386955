-------------------------------- MODULE Wire --------------------------------
(***************************************************************************)
(* The two ends of one connection: the writer and the reader of a client,  *)
(* the read loop and the calls of a server, and the two streams between    *)
(* them, with the gob codec (rpc/codec.go).  A stream is a sequence of     *)
(* items, headers and bodies, and nothing in an item says what the reader  *)
(* should expect: both ends must agree from the headers.  gob reads one    *)
(* item for each Decode, also for Decode(nil), which skips it, and fails   *)
(* if a header is read into a body or a body into a header.                *)
(*                                                                         *)
(* Which goroutine does what, and under which lock, is the matter of       *)
(* ClientConn and ServerConn.  Here one step writes a request or a         *)
(* response, and one step reads an item and acts on it.                    *)
(***************************************************************************)
EXTENDS Registry

CONSTANTS
    NCalls,         \* how many calls are made
    Kinds,          \* what a call may be
    PanicNames,     \* the methods that may panic
    MaxKeepAlives,  \* how many pings of the timer are modelled
    NoCall

PingName == <<"ping">>

ASSUME WireAssumption ==
    /\ NCalls \in Nat /\ MaxKeepAlives \in Nat
    /\ \A k \in Kinds : /\ DOMAIN k = {"name", "args", "reply"}
                        /\ k.name \in Seq(STRING)
                        /\ k.args \in BOOLEAN      \* Args is not nil
                        /\ k.reply \in BOOLEAN     \* Reply is not nil
    /\ NoCall \notin 1 .. NCalls /\ NoCall \notin Kinds

VARIABLES
    open,       \* the TCP connection
    toServer, toClient,
    \* the client
    kind, made, writing, pending, reported, gotReply, clientAt, clientCall,
    keepAlives,
    \* the server
    serverAt, serverCall, running,
    \* history
    started,    \* the methods that were started, with the call of their arguments
    returned,   \* what the method of a call returned
    stolen,     \* the calls whose header was read where a body was expected
    derailed    \* the ends that have read a body where a header was expected

clientVars == <<kind, made, writing, pending, reported, gotReply, clientAt,
                clientCall, keepAlives>>
serverVars == <<serverAt, serverCall, running, started, returned>>
vars == <<services, open, toServer, toClient, clientVars, serverVars, stolen,
          derailed>>

Calls == 1 .. NCalls

\* noData and err are the flag and the ErrorMsg of a response header.
Item == [what : {"header", "body"}, call : Calls \cup {NoCall},
         noData : BOOLEAN, err : BOOLEAN]

Request(r) == [what |-> "header", call |-> r, noData |-> FALSE, err |-> FALSE]
Body(r) == [what |-> "body", call |-> r, noData |-> FALSE, err |-> FALSE]
Response(r, noData, err) == [what |-> "header", call |-> r, noData |-> noData,
                             err |-> err]

Results == {"nil", "remote", "body", "write", "shutdown", "down"}

TypeOK ==
    /\ RegistryTypeOK
    /\ open \in BOOLEAN
    /\ toServer \in Seq(Item) /\ toClient \in Seq(Item)
    /\ kind \in [Calls -> Kinds \cup {NoCall}]
    /\ made \in 0 .. NCalls
    /\ writing \in BOOLEAN
    /\ pending \subseteq 1 .. made
    /\ \A r \in pending : kind[r] \in Kinds /\ reported[r] = "no"
    /\ reported \in [Calls -> Results \cup {"no"}]
    /\ gotReply \in [Calls -> Calls \cup {NoCall}]
    /\ clientAt \in {"header", "body", "skip", "end"}
    /\ clientAt = "body" => clientCall \in Calls \ pending
    /\ keepAlives \in 0 .. MaxKeepAlives
    /\ serverAt \in {"header", "body", "skip", "end"}
    /\ serverAt \in {"body", "skip"} => serverCall \in Calls
    /\ running \subseteq Calls
    /\ started \subseteq [call : Calls, args : Calls]
    /\ returned \in [Calls -> {"no", "nil", "error"}]
    /\ stolen \subseteq Calls
    /\ derailed \subseteq {"client", "server"}

Init ==
    /\ RegistryInit
    /\ open = TRUE
    /\ toServer = <<>> /\ toClient = <<>>
    /\ kind = [r \in Calls |-> NoCall]
    /\ made = 0
    /\ writing = TRUE
    /\ pending = {}
    /\ reported = [r \in Calls |-> "no"]
    /\ gotReply = [r \in Calls |-> NoCall]
    /\ clientAt = "header" /\ clientCall = NoCall
    /\ keepAlives = 0
    /\ serverAt = "header" /\ serverCall = NoCall
    /\ running = {}
    /\ started = {}
    /\ returned = [r \in Calls |-> "no"]
    /\ stolen = {}
    /\ derailed = {}

\* The keep-alive of the client's timer, or a call to a method of that name.
IsPing(r) == IF r = NoCall THEN TRUE ELSE kind[r].name = PingName

\* Bytes written to a connection that is down are lost.
Sends(stream, items) == stream' = IF open THEN stream \o items ELSE stream

-----------------------------------------------------------------------------
(* The client writes.                                                      *)

\* The next call is filed and written: its header, and its Args unless nil.
WriteRequest(k) ==
    LET r == made + 1
    IN  /\ writing /\ clientAt # "end"
        /\ made < NCalls
        /\ made' = r
        /\ kind' = [kind EXCEPT ![r] = k]
        /\ pending' = pending \cup {r}
        /\ Sends(toServer, IF k.args THEN <<Request(r), Body(r)>> ELSE <<Request(r)>>)
        /\ UNCHANGED <<services, open, toClient, writing, reported, gotReply, clientAt,
                       clientCall, keepAlives, serverVars, stolen, derailed>>

\* The Args cannot be encoded, and the writer ends.  A full buffer may have
\* sent the header by then.  The calls of the group that came before it, from
\* "first" on, are failed with it, whether they were sent or not.
WriteFails(k) ==
    LET r == made + 1
    IN  /\ writing /\ clientAt # "end"
        /\ made < NCalls
        /\ k.args
        /\ made' = r
        /\ kind' = [kind EXCEPT ![r] = k]
        /\ writing' = FALSE
        /\ \E first \in 1 .. r :
              LET failed == {q \in pending : q >= first} \cup {r}
              IN  /\ pending' = pending \ failed
                  /\ reported' = [q \in Calls |-> IF q \in failed THEN "write"
                                                                  ELSE reported[q]]
        /\ \/ Sends(toServer, <<Request(r)>>)
           \/ UNCHANGED toServer
        /\ UNCHANGED <<services, open, toClient, gotReply, clientAt, clientCall,
                       keepAlives, serverVars, stolen, derailed>>

\* sendPing.
KeepAlive ==
    /\ writing
    /\ keepAlives < MaxKeepAlives
    /\ keepAlives' = keepAlives + 1
    /\ Sends(toServer, <<Request(NoCall)>>)
    /\ UNCHANGED <<services, open, toClient, kind, made, writing, pending, reported,
                   gotReply, clientAt, clientCall, serverVars, stolen, derailed>>

-----------------------------------------------------------------------------
(* The read loop of the server.                                            *)

ServerReads(at, what) ==
    /\ serverAt = at
    /\ toServer # <<>>
    /\ Head(toServer).what \in what
    /\ toServer' = Tail(toServer)

ServerGoes(at, r) ==
    /\ serverAt' = at
    /\ serverCall' = r

\* The loop ends and the codec is closed.  What was sent may still arrive.
ServerCloses ==
    /\ ServerGoes("end", NoCall)
    /\ open' = FALSE
    /\ toClient' \in {toClient, <<>>}

\* SendResponse with the error of a request: no body, and none to a request
\* without a name.
SendError(r) ==
    Sends(toClient, IF kind[r].name = <<>> THEN <<>> ELSE <<Response(r, TRUE, TRUE)>>)

\* Mutant: an undecodable header does not end the loop.
ReadNoHeaderGoesOn ==
    /\ ServerReads("header", {"body"})
    /\ ServerGoes("header", NoCall)
    /\ derailed' = derailed \cup {"server"}
    /\ UNCHANGED <<services, open, toClient, clientVars, running, started, returned,
                   stolen>>

\* What should be a header is a body.
ReadNoHeader ==
    /\ ServerReads("header", {"body"})
    /\ ServerCloses
    /\ derailed' = derailed \cup {"server"}
    /\ UNCHANGED <<services, clientVars, running, started, returned, stolen>>

ReadPing ==
    /\ ServerReads("header", {"header"})
    /\ IsPing(Head(toServer).call)
    /\ Sends(toClient, <<Response(Head(toServer).call, TRUE, FALSE)>>)
    /\ UNCHANGED <<services, open, clientVars, serverVars, stolen, derailed>>

\* Mutant: the body of a request for an unknown method is not read.
ReadRequestHeaderOnly ==
    LET r == Head(toServer).call
    IN  /\ ServerReads("header", {"header"})
        /\ ~IsPing(r)
        /\ \/ /\ getSeviceMethod(kind[r].name) # {}
              /\ ServerGoes("body", r)
              /\ UNCHANGED toClient
           \/ /\ getSeviceMethod(kind[r].name) = {}
              /\ SendError(r)
              /\ UNCHANGED <<serverAt, serverCall>>
        /\ UNCHANGED <<services, open, clientVars, running, started, returned,
                       stolen, derailed>>

\* ReadRequestHeader, with the lookup that decides how the body is read.
ReadRequestHeader ==
    LET r == Head(toServer).call
    IN  /\ ServerReads("header", {"header"})
        /\ ~IsPing(r)
        /\ ServerGoes(IF getSeviceMethod(kind[r].name) # {} THEN "body" ELSE "skip", r)
        /\ UNCHANGED <<services, open, toClient, clientVars, running, started,
                       returned, stolen, derailed>>

\* A header has been read where the body of the request should be.
Steals == stolen' = stolen \cup ({Head(toServer).call} \cap Calls)

\* The arguments are decoded and the method is started.  A call without Reply
\* is answered at once, with an empty reply.
ReadArgs ==
    /\ ServerReads("body", {"body"})
    /\ started' = started \cup {[call |-> serverCall, args |-> Head(toServer).call]}
    /\ running' = running \cup {serverCall}
    /\ Sends(toClient, IF kind[serverCall].reply THEN <<>>
                       ELSE <<Response(serverCall, FALSE, FALSE), Body(serverCall)>>)
    /\ ServerGoes("header", NoCall)
    /\ UNCHANGED <<services, open, clientVars, returned, stolen, derailed>>

\* Mutant: the arguments are asked for again when they cannot be decoded.
ReadArgsRetry ==
    /\ ServerReads("body", {"header", "body"})
    /\ IF Head(toServer).what = "header" THEN Steals ELSE UNCHANGED stolen
    /\ SendError(serverCall)
    /\ UNCHANGED <<services, open, clientVars, serverVars, derailed>>

\* They cannot be decoded: they are of another type, or a header.
ReadArgsFails ==
    /\ ServerReads("body", {"header", "body"})
    /\ IF Head(toServer).what = "header" THEN Steals ELSE UNCHANGED stolen
    /\ SendError(serverCall)
    /\ ServerGoes("header", NoCall)
    /\ UNCHANGED <<services, open, clientVars, running, started, returned, derailed>>

\* ReadRequestBody(nil), for an unknown method, takes the next item whatever it is.
SkipBody ==
    /\ ServerReads("skip", {"header", "body"})
    /\ IF Head(toServer).what = "header" THEN Steals ELSE UNCHANGED stolen
    /\ SendError(serverCall)
    /\ ServerGoes("header", NoCall)
    /\ UNCHANGED <<services, open, clientVars, running, started, returned, derailed>>

\* No body comes: the connection is down, or the idle timeout is over, which
\* does not end the loop here.
NoBody ==
    /\ serverAt \in {"body", "skip"}
    /\ toServer = <<>>
    /\ SendError(serverCall)
    /\ ServerGoes("header", NoCall)
    /\ UNCHANGED <<services, open, toServer, clientVars, running, started, returned,
                   stolen, derailed>>

\* No header comes, for the same reasons.
NoHeader ==
    /\ serverAt = "header"
    /\ toServer = <<>>
    /\ ServerCloses
    /\ UNCHANGED <<services, toServer, clientVars, running, started, returned,
                   stolen, derailed>>

ServerReader ==
    \/ ReadNoHeader \/ ReadPing \/ ReadRequestHeader
    \/ ReadArgs \/ ReadArgsFails \/ SkipBody \/ NoBody

-----------------------------------------------------------------------------
(* The calls of the server.                                                *)

\* Mutant: the header does not carry the method's error.
MethodResponseNoError(r, ret) == <<Response(r, FALSE, FALSE), Body(r)>>

\* The header of a method's error says that nothing follows; the reply follows.
MethodResponse(r, ret) ==
    <<Response(r, ret = "error", ret = "error"), Body(r)>>

\* Mutant: a method that returns an error is run again.
MethodReturnsRetries(r, ret) ==
    /\ r \in running
    /\ running' = IF ret = "error" THEN running ELSE running \ {r}
    /\ returned' = [returned EXCEPT ![r] = ret]
    /\ Sends(toClient, IF kind[r].reply /\ ret = "nil" THEN MethodResponse(r, ret)
                       ELSE <<>>)
    /\ UNCHANGED <<services, open, toServer, clientVars, serverAt, serverCall, started,
                   stolen, derailed>>

MethodReturns(r, ret) ==
    /\ r \in running
    /\ running' = running \ {r}
    /\ returned' = [returned EXCEPT ![r] = ret]
    /\ Sends(toClient, IF kind[r].reply THEN MethodResponse(r, ret) ELSE <<>>)
    /\ UNCHANGED <<services, open, toServer, clientVars, serverAt, serverCall, started,
                   stolen, derailed>>

\* The reply cannot be encoded: the header is flushed and the codec closed.
EncodeFails(r) ==
    /\ r \in running
    /\ kind[r].reply
    /\ running' = running \ {r}
    /\ returned' = [returned EXCEPT ![r] = "nil"]
    /\ toClient' = IF open THEN Append(toClient, Response(r, FALSE, FALSE)) ELSE toClient
    /\ open' = FALSE
    /\ toServer' = <<>>
    /\ UNCHANGED <<services, clientVars, serverAt, serverCall, started, stolen, derailed>>

MethodPanics(r) ==
    /\ r \in running
    /\ kind[r].name \in PanicNames
    /\ running' = running \ {r}
    /\ UNCHANGED <<services, open, toServer, toClient, clientVars, serverAt, serverCall,
                   started, returned, stolen, derailed>>

-----------------------------------------------------------------------------
(* The client reads.                                                       *)

ClientReads(at, what) ==
    /\ clientAt = at
    /\ toClient # <<>>
    /\ Head(toClient).what \in what
    /\ toClient' = Tail(toClient)

\* WhenCallDone for the calls in S, and for those that are pending when the loop
\* has ended (onShutDown).
Reports(S, e, ended) ==
    /\ reported' = [r \in Calls |-> IF r \in S THEN e
                                    ELSE IF ended /\ r \in pending THEN "down"
                                    ELSE reported[r]]
    /\ pending' = IF ended THEN {} ELSE pending \ S
    /\ clientAt' = IF ended THEN "end" ELSE "header"
    /\ clientCall' = NoCall
    /\ UNCHANGED <<kind, made, writing, keepAlives>>

ReadNoResponse ==
    /\ ClientReads("header", {"body"})
    /\ Reports({}, "down", TRUE)
    /\ derailed' = derailed \cup {"client"}
    /\ UNCHANGED <<services, open, toServer, gotReply, serverVars, stolen>>

\* Mutant: responses are taken to come in the order of the requests.
CallFor(r) ==
    IF pending = {} THEN r ELSE CHOOSE q \in pending : \A p \in pending : q <= p

\* The pending call that a sequence number stands for.
CallOf(r) == r

\* Mutant: a call is left in pending while its reply is read.
ReadResponseHeaderKeeps ==
    LET h == Head(toClient)
        r == CallOf(h.call)
    IN  /\ ClientReads("header", {"header"})
        /\ IF IsPing(h.call) \/ (r \notin pending /\ h.noData)
           THEN UNCHANGED clientVars
           ELSE IF r \in pending /\ h.noData
           THEN Reports({r}, IF h.err THEN "remote" ELSE "nil", FALSE) /\ UNCHANGED gotReply
           ELSE /\ clientAt' = IF r \in pending THEN "body" ELSE "skip"
                /\ clientCall' = r
                /\ UNCHANGED <<kind, made, writing, pending, reported, gotReply,
                               keepAlives>>
        /\ UNCHANGED <<services, open, toServer, serverVars, stolen, derailed>>

\* The header of a response: to a ping, to a call that is not pending any more,
\* with an error, or with a reply to come.
ReadResponseHeader ==
    LET h == Head(toClient)
        r == CallOf(h.call)
    IN  /\ ClientReads("header", {"header"})
        /\ IF IsPing(h.call) \/ (r \notin pending /\ h.noData)
           THEN UNCHANGED clientVars
           ELSE IF r \in pending /\ h.noData
           THEN Reports({r}, IF h.err THEN "remote" ELSE "nil", FALSE) /\ UNCHANGED gotReply
           ELSE /\ clientAt' = IF r \in pending THEN "body" ELSE "skip"
                /\ clientCall' = r
                /\ pending' = pending \ {r}
                /\ UNCHANGED <<kind, made, writing, reported, gotReply, keepAlives>>
        /\ UNCHANGED <<services, open, toServer, serverVars, stolen, derailed>>

\* The reply is decoded; for a call without Reply the item is skipped, whatever
\* it is.
ReadReply ==
    /\ ClientReads("body", IF kind[clientCall].reply THEN {"body"} ELSE {"header", "body"})
    /\ gotReply' = [gotReply EXCEPT ![clientCall] = Head(toClient).call]
    /\ Reports({clientCall}, "nil", FALSE)
    /\ UNCHANGED <<services, open, toServer, serverVars, stolen, derailed>>

\* It cannot be decoded, and the loop ends.
ReadReplyFails ==
    /\ ClientReads("body", {"header", "body"})
    /\ kind[clientCall].reply
    /\ Reports({clientCall}, "body", TRUE)
    /\ UNCHANGED <<services, open, toServer, gotReply, serverVars, stolen, derailed>>

\* The reply of a call that is not pending any more is skipped.
SkipReply ==
    /\ ClientReads("skip", {"header", "body"})
    /\ clientAt' = "header"
    /\ clientCall' = NoCall
    /\ UNCHANGED <<services, open, toServer, kind, made, writing, pending, reported,
                   gotReply, keepAlives, serverVars, stolen, derailed>>

\* The connection is down and nothing is left to read.
ReadEnd ==
    /\ clientAt # "end"
    /\ toClient = <<>> /\ ~open
    /\ Reports(IF clientAt = "body" THEN {clientCall} ELSE {}, "body", TRUE)
    /\ UNCHANGED <<services, open, toServer, toClient, gotReply, serverVars, stolen,
                   derailed>>

ClientReader ==
    \/ ReadNoResponse \/ ReadResponseHeader \/ ReadReply \/ ReadReplyFails
    \/ SkipReply \/ ReadEnd

-----------------------------------------------------------------------------

\* The network fails, or the client's user closes the connection.
NetBreak ==
    /\ open
    /\ open' = FALSE
    /\ toServer' = <<>> /\ toClient' = <<>>
    /\ UNCHANGED <<services, clientVars, serverVars, stolen, derailed>>

Client == \/ \E k \in Kinds : WriteRequest(k) \/ WriteFails(k)
          \/ KeepAlive \/ ClientReader

Server == \/ ServerReader \/ NoHeader
          \/ \E r \in Calls : \/ \E ret \in {"nil", "error"} : MethodReturns(r, ret)
                              \/ EncodeFails(r) \/ MethodPanics(r)

Registers == /\ Register \/ RegisterName
             /\ UNCHANGED <<open, toServer, toClient, clientVars, serverVars, stolen,
                            derailed>>

Next == Client \/ Server \/ Registers \/ NetBreak

Spec == Init /\ [][Next]_vars

\* Both ends read what arrives.  A body that does not arrive is given up after
\* the idle timeout; that a header does not arrive need not happen, for the
\* client's keep-alives are headers.  Methods return.
Fairness ==
    /\ WF_vars(ServerReader)
    /\ WF_vars(~open /\ NoHeader)
    /\ WF_vars(ClientReader)
    /\ \A r \in Calls : WF_vars(\E ret \in {"nil", "error"} : MethodReturns(r, ret))

FairSpec == Spec /\ Fairness

-----------------------------------------------------------------------------
(* Properties.                                                             *)

\* A method is executed with the arguments of its own call, however far the two
\* ends have got out of step (server_conn.go:295, 312).
OwnArgs == \A x \in started : x.args = x.call

\* A caller that sees no error has the reply of its own call, whose method was
\* started and did not return an error; all but the last holds for a call
\* without Reply as well, which is answered before it runs (client_conn.go:211,
\* server_conn.go:175).
SuccessIsReal ==
    \A r \in Calls : reported[r] = "nil" =>
       /\ \E x \in started : x.call = r
       /\ kind[r].reply => gotReply[r] = r /\ returned[r] = "nil"

\* The calls that put the server out of step: nil Args, which the server waits
\* for; a ping with Args, which it does not; Args that could not be encoded.
Misleading(r) ==
    kind[r] # NoCall /\ (kind[r].args = (kind[r].name = PingName) \/ reported[r] = "write")

\* An end reads a body for a header only for a reason: the server after a
\* misleading call, the client after a method's error (server_conn.go:389).
OutOfStepForAReason ==
    /\ "server" \in derailed => \E r \in Calls : Misleading(r)
    /\ "client" \in derailed => \E r \in Calls : returned[r] = "error"

\* A call that was written is reported in the end.  On a connection that lives on,
\* three kinds of call may be left without an answer: one with nil Args whose header
\* was read as the body of another call, a ping without Args, and a call without
\* a method name (client_conn.go:170, 302, server_conn.go:153, 295).  A method that
\* panics leaves its call without one, too (server_conn.go:275).
WrittenIsReported ==
    \A r \in Calls :
       r \in pending ~>
          \/ r \notin pending
          \/ r \in stolen /\ ~kind[r].args
          \/ kind[r].name = PingName /\ ~kind[r].args
          \/ kind[r].name \in {<<>>} \cup PanicNames

\* "We read the header successfully.  If we see an error now, we can still recover
\* and move on to the next request" (server_conn.go:335): the next request is not
\* lost.
RecoversAfterHeader == \A r \in Calls : r \notin stolen

-----------------------------------------------------------------------------
(* The inductive invariant behind the safety properties.                   *)

\* The body after item i of a stream, if there is one, belongs to it.
Followed(s, i) == i < Len(s) /\ s[i + 1].what = "body"

\* A body comes directly after the header of its call, unless that was read.
Paired(s) ==
    \A i \in 1 .. Len(s) : Followed(s, i) => s[i].what = "header" /\ s[i + 1].call = s[i].call

\* The headers of a stream belong to calls that were made, or to keep-alives, and
\* its bodies to calls.
Known(s) ==
    \A i \in 1 .. Len(s) : s[i].call \in 1 .. made \/ (s[i].call = NoCall /\ s[i].what = "header")

\* The next item is a body.
BodyNext(s) == s # <<>> /\ Head(s).what = "body"

Misled == \E r \in Calls : Misleading(r)
SomeError == \E r \in Calls : returned[r] = "error"

CallInv ==
    /\ \A r \in Calls : IF r <= made THEN kind[r] \in Kinds
                                     ELSE kind[r] = NoCall /\ reported[r] = "no"
    /\ clientAt = "body" => clientCall \in 1 .. made /\ reported[clientCall] = "no"

\* A stream of requests: no call has two headers, and a header says what follows.
RequestStream(s) ==
    /\ Paired(s) /\ Known(s)
    /\ \A i, j \in 1 .. Len(s) :
          (/\ s[i].what = "header" /\ s[j].what = "header"
           /\ s[i].call = s[j].call /\ s[i].call # NoCall)
          => i = j
    /\ \A i \in 1 .. Len(s) : s[i].what = "header" =>
          \/ Followed(s, i) <=> ~IsPing(s[i].call)
          \/ s[i].call # NoCall /\ Misleading(s[i].call)

\* Where the server is in the stream: out of step only if it was misled.
ServerPlaceInv ==
    /\ serverAt \in {"body", "skip"} =>
          /\ serverCall \in 1 .. made /\ ~IsPing(serverCall)
          /\ open \/ toServer # <<>> => BodyNext(toServer) \/ Misleading(serverCall)
          /\ BodyNext(toServer) => Head(toServer).call = serverCall
    /\ serverAt = "header" /\ BodyNext(toServer) => Misled
    /\ "server" \in derailed => Misled

HasHeader(s, r) == \E i \in 1 .. Len(s) : s[i].what = "header" /\ s[i].call = r

\* The method of a call may still be started.
Ahead(r) ==
    \/ r > made
    \/ HasHeader(toServer, r)
    \/ serverAt = "body" /\ serverCall = r

\* A method is started once, and with its own arguments.
StartedInv ==
    /\ serverAt = "body" => ~HasHeader(toServer, serverCall)
    /\ \A x \in started : x.args = x.call /\ ~Ahead(x.call) /\ ~IsPing(x.call)
    /\ \A r \in running : returned[r] = "no" /\ \E x \in started : x.call = r
    /\ \A r \in Calls : returned[r] # "no" => \E x \in started : x.call = r

\* The reply of a call is there to be read.
Served(r) ==
    /\ \E x \in started : x.call = r
    /\ kind[r].reply => returned[r] = "nil"

\* A stream of responses: a header says what follows, but for a method's error.
ResponseStream(s) ==
    /\ Paired(s) /\ Known(s)
    /\ \A i \in 1 .. Len(s) : s[i].what = "header" =>
          IF s[i].noData
          THEN /\ s[i].err \/ IsPing(s[i].call)
               /\ Followed(s, i) => SomeError
          ELSE /\ s[i].call # NoCall /\ Served(s[i].call)
               /\ Followed(s, i) \/ (i = Len(s) /\ ~open)

\* Where the client is in the stream: out of step only after a method's error.
ClientPlaceInv ==
    /\ clientAt = "body" => Served(clientCall)
    /\ clientAt \in {"body", "skip"} =>
          IF toClient = <<>> THEN ~open
          ELSE BodyNext(toClient) /\ Head(toClient).call = clientCall
    /\ clientAt = "header" /\ BodyNext(toClient) => SomeError
    /\ "client" \in derailed => SomeError

IInv ==
    /\ TypeOK /\ RegistryInv /\ CallInv
    /\ RequestStream(toServer) /\ ServerPlaceInv /\ StartedInv
    /\ ResponseStream(toClient) /\ ClientPlaceInv /\ SuccessIsReal

=============================================================================
