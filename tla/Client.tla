------------------------------- MODULE Client -------------------------------
(***************************************************************************)
(* TClient (rpc/client.go): the addresses one service is offered at, the   *)
(* connections to each, and the path of a call through SendCall: choose a  *)
(* server, dial it when it has no connection or calls are waiting, and put *)
(* the call on the server's CallChan.                                      *)
(*                                                                         *)
(* A connection is seen from outside here: it takes calls off CallChan     *)
(* while its writer runs and leaves the list when its reader shuts it      *)
(* down; ClientConn has the rest.  A section between Lock and Unlock (or   *)
(* RLock and RUnlock) of TClient.mu never blocks and is one step.          *)
(***************************************************************************)
EXTENDS Integers, Sequences, FiniteSets

CONSTANTS
    Servers,        \* the addresses
    Calls,          \* the calls passed to SendCall, one goroutine for each
    Conns,          \* the TClientConn objects that exist at one time
    Infos,          \* the weights and connection limits AddServer is called with
    MaxWaitCall,    \* capacity of a CallChan
    Nil

ASSUME ClientAssumption ==
    /\ Infos \subseteq [weight : Nat, maxConn : Nat]
    /\ MaxWaitCall \in Nat \ {0}     \* an unbuffered CallChan is left out
    /\ Nil \notin Servers \cup Conns
    /\ IsFiniteSet(Servers) /\ IsFiniteSet(Conns)

VARIABLES
    \* TClient and TServerInfo
    known,         \* the keys of mapServerInfo
    info,          \* Weight and MaxConnNum
    status, callChan, connList, totalWeight,
    \* the goroutines in SendCall
    pc, server, conn, validServerNum,
    outcome,       \* what has become of each call
    \* the connections
    state, addr, writing,
    invalidated    \* history: the calls during which onClientInvalid was called

serverVars == <<known, info, status, connList, totalWeight>>
callerVars == <<pc, server, conn, validServerNum, invalidated>>
connVars == <<state, addr, writing>>
vars == <<serverVars, callChan, callerVars, outcome, connVars>>

Statuses == {"norm", "pause", "failed"}
Failures == {"noserver", "pause", "full", "dial", "drained"}

TypeOK ==
    /\ known \subseteq Servers
    /\ info \in [Servers -> [weight : Nat, maxConn : Nat]]
    /\ status \in [Servers -> Statuses]
    /\ callChan \in [Servers -> Seq(Calls)]
    /\ connList \in [Servers -> SUBSET Conns]
    /\ totalWeight \in Nat
    /\ pc \in [Calls -> {"idle", "lock", "dial", "failed", "count",
                     "drain", "send", "done"}]
    /\ server \in [Calls -> Servers \cup {Nil}]
    /\ \A k \in Calls : pc[k] \notin {"idle", "done"} => server[k] \in known
    /\ conn \in [Calls -> Conns \cup {Nil}]
    /\ \A k \in Calls : pc[k] \in {"dial", "failed"} => conn[k] \in Conns
    /\ validServerNum \in [Calls -> Nat]
    /\ outcome \in [Calls -> Failures \cup {"none", "taken"}]
    /\ state \in [Conns -> {"unused", "dialing", "up", "down"}]
    /\ addr \in [Conns -> Servers \cup {Nil}]
    /\ \A c \in Conns : state[c] # "unused" \/ writing[c] => addr[c] \in known
    /\ writing \in [Conns -> BOOLEAN]
    /\ invalidated \subseteq Calls

Init ==
    /\ known = {}
    /\ info = [s \in Servers |-> [weight |-> 0, maxConn |-> 0]]
    /\ status = [s \in Servers |-> "norm"]
    /\ callChan = [s \in Servers |-> <<>>]
    /\ connList = [s \in Servers |-> {}]
    /\ totalWeight = 0
    /\ pc = [k \in Calls |-> "idle"]
    /\ server = [k \in Calls |-> Nil]
    /\ conn = [k \in Calls |-> Nil]
    /\ validServerNum = [k \in Calls |-> 0]
    /\ outcome = [k \in Calls |-> "none"]
    /\ state = [c \in Conns |-> "unused"]
    /\ addr = [c \in Conns |-> Nil]
    /\ writing = [c \in Conns |-> FALSE]
    /\ invalidated = {}

-----------------------------------------------------------------------------
(* The configuration of the service.                                       *)

\* A weight is a number of shares, and the shares are counted.
Shares(S, i) == UNION {{s} \X (1 .. i[s].weight) : s \in S}
SumWeight(S, i) == Cardinality(Shares(S, i))

\* Mutant: the weights of all servers are added up, paused ones included.
TotalOfAll(S, i, st) == SumWeight(S, i)

\* updateTotalWeight.
TotalWeight(S, i, st) == SumWeight({s \in S : st[s] = "norm"}, i)

AddServer(s, new) ==
    /\ known' = known \cup {s}
    /\ info' = [info EXCEPT ![s] = new]
    /\ totalWeight' = TotalWeight(known', info', status)
    /\ UNCHANGED <<status, connList, callChan, callerVars, outcome, connVars>>

\* An operator takes a server out of use, or puts it back.
ChangeServerStatus(s, st) ==
    /\ s \in known
    /\ status' = [status EXCEPT ![s] = st]
    /\ totalWeight' = TotalWeight(known, info, status')
    /\ UNCHANGED <<known, info, connList, callChan, callerVars, outcome, connVars>>

Operator ==
    \E s \in Servers : \/ \E new \in Infos : AddServer(s, new)
                       \/ \E st \in {"norm", "pause"} : ChangeServerStatus(s, st)

-----------------------------------------------------------------------------
(* SendCall.                                                               *)

\* getServerInfo walks the map in any order and stops at the first server where
\* the sum of the weights so far reaches a random number.
RandNums == IF totalWeight > 0 THEN 0 .. totalWeight - 1 ELSE {0}
Choosable == {s \in known : status[s] # "pause"}

\* Mutant: sum is set to the weight, and not increased by it.
LeadsToLast(randNum, before, s) ==
    /\ \A b \in before : info[b].weight < randNum
    /\ info[s].weight >= randNum

\* The walk that has passed the servers in before stops at s.
LeadsTo(randNum, before, s) ==
    /\ before # {} => SumWeight(before, info) < randNum
    /\ SumWeight(before \cup {s}, info) >= randNum

CanChoose(s) ==
    \E randNum \in RandNums, before \in SUBSET (Choosable \ {s}) :
       LeadsTo(randNum, before, s)

CanChooseNone ==
    \/ Choosable = {}
    \/ \E randNum \in RandNums : SumWeight(Choosable, info) < randNum

Report(k, o) ==
    /\ pc' = [pc EXCEPT ![k] = "done"]
    /\ outcome' = [outcome EXCEPT ![k] = o]

\* chooseServerForReq, under RLock: no server.
ChooseNone(k) ==
    /\ pc[k] = "idle"
    /\ CanChooseNone
    /\ Report(k, IF \E s \in known : status[s] = "pause" THEN "pause" ELSE "noserver")
    /\ UNCHANGED <<serverVars, callChan, server, conn, validServerNum,
                   invalidated, connVars>>

\* A server is chosen.  It is used as it is when it has a connection and either
\* no call is waiting or it may have no more connections.
Choose(k, s) ==
    /\ pc[k] = "idle"
    /\ s \in Choosable
    /\ CanChoose(s)
    /\ server' = [server EXCEPT ![k] = s]
    /\ \/ /\ connList[s] # {}
          /\ callChan[s] = <<>> \/ Cardinality(connList[s]) >= info[s].maxConn
          /\ pc' = [pc EXCEPT ![k] = "send"]
       \/ /\ \/ connList[s] = {}
             \/ callChan[s] # <<>> /\ Cardinality(connList[s]) < info[s].maxConn
          /\ pc' = [pc EXCEPT ![k] = "lock"]
    /\ UNCHANGED <<serverVars, callChan, conn, validServerNum, outcome,
                   invalidated, connVars>>

\* Mutant: the new connection goes into a variable of the inner block.
AddConnShadowed(k, s, c) ==
    /\ state[c] = "unused"
    /\ ~writing[c]
    /\ state' = [state EXCEPT ![c] = "dialing"]
    /\ addr' = [addr EXCEPT ![c] = s]
    /\ connList' = [connList EXCEPT ![s] = @ \cup {c}]
    /\ pc' = [pc EXCEPT ![k] = "dial"]
    /\ UNCHANGED <<known, info, status, totalWeight, callChan, server, conn,
                   validServerNum, outcome, invalidated, writing>>

\* addConn: the connection is listed before it is dialled.
AddConn(k, s, c) ==
    /\ state[c] = "unused"
    /\ ~writing[c]
    /\ state' = [state EXCEPT ![c] = "dialing"]
    /\ addr' = [addr EXCEPT ![c] = s]
    /\ connList' = [connList EXCEPT ![s] = @ \cup {c}]
    /\ conn' = [conn EXCEPT ![k] = c]
    /\ pc' = [pc EXCEPT ![k] = "dial"]
    /\ UNCHANGED <<known, info, status, totalWeight, callChan, server,
                   validServerNum, outcome, invalidated, writing>>

\* Mutant: the decision taken under RLock is not repeated under Lock.
CreateConnUnchecked(k) ==
    /\ pc[k] = "lock"
    /\ \E c \in Conns : AddConn(k, server[k], c)

\* chooseServerForReq, under Lock: the numbers are read once more.
CreateConn(k) ==
    LET s == server[k]
    IN  /\ pc[k] = "lock"
        /\ \/ connList[s] = {}
           \/ callChan[s] # <<>> /\ Cardinality(connList[s]) < info[s].maxConn
        /\ \E c \in Conns : AddConn(k, s, c)

CreateNoConn(k) ==
    LET s == server[k]
    IN  /\ pc[k] = "lock"
        /\ connList[s] # {}
        /\ callChan[s] = <<>> \/ Cardinality(connList[s]) >= info[s].maxConn
        /\ pc' = [pc EXCEPT ![k] = "send"]
        /\ UNCHANGED <<serverVars, callChan, server, conn, validServerNum,
                       outcome, invalidated, connVars>>

\* TClientConn.Start returns.
Dial(k) ==
    /\ pc[k] = "dial"
    /\ \/ /\ pc' = [pc EXCEPT ![k] = "send"]
          /\ state' = [state EXCEPT ![conn[k]] = "up"]
          /\ writing' = [writing EXCEPT ![conn[k]] = TRUE]
       \/ /\ pc' = [pc EXCEPT ![k] = "failed"]
          /\ UNCHANGED <<state, writing>>
    /\ UNCHANGED <<serverVars, callChan, server, conn, validServerNum, outcome,
                   invalidated, addr>>

\* Mutant: removeConn takes the connection at the back of the list.
RemoveSomeConn(k) == \E c \in connList[server[k]] :
    connList' = [connList EXCEPT ![server[k]] = @ \ {c}]

\* removeConn.
RemoveConn(k) == connList' = [connList EXCEPT ![server[k]] = @ \ {conn[k]}]

\* The dial failed: the connection is taken off the list, and the server is
\* marked when it has none left.  onConnectFailed then counts the servers that
\* are not marked.
DialFailed(k) ==
    /\ pc[k] = "failed"
    /\ RemoveConn(k)
    /\ state' = [state EXCEPT ![conn[k]] = "unused"]
    /\ \/ /\ connList'[server[k]] = {}
          /\ status' = [status EXCEPT ![server[k]] = "failed"]
          /\ pc' = [pc EXCEPT ![k] = "count"]
       \/ /\ connList'[server[k]] # {}
          /\ pc' = [pc EXCEPT ![k] = "send"]
          /\ UNCHANGED status
    /\ UNCHANGED <<known, info, totalWeight, callChan, server, conn,
                   validServerNum, outcome, invalidated, addr, writing>>

CountValid(k) ==
    /\ pc[k] = "count"
    /\ validServerNum' = [validServerNum EXCEPT ![k] =
          Cardinality({s \in known : status[s] \in {"norm", "pause"}})]
    /\ pc' = [pc EXCEPT ![k] = "drain"]
    /\ UNCHANGED <<serverVars, callChan, server, conn, outcome, invalidated,
                   connVars>>

\* Mutant: the error goes to the caller's own call.
DrainReportsOwn(k) ==
    LET s == server[k]
    IN  /\ pc[k] = "drain"
        /\ callChan[s] # <<>>
        /\ outcome' = [outcome EXCEPT ![k] = "drained"]
        /\ callChan' = [callChan EXCEPT ![s] = Tail(@)]
        /\ UNCHANGED <<serverVars, callerVars, connVars>>

\* onConnectFailed fails the calls that wait for this server ...
Drain(k) ==
    LET s == server[k]
    IN  /\ pc[k] = "drain"
        /\ callChan[s] # <<>>
        /\ outcome' = [outcome EXCEPT ![Head(callChan[s])] = "drained"]
        /\ callChan' = [callChan EXCEPT ![s] = Tail(@)]
        /\ UNCHANGED <<serverVars, callerVars, connVars>>

\* Mutant: the loop waits for the next call.
DrainEndWaits(k) ==
    /\ pc[k] = "drain"
    /\ callChan[server[k]] # <<>>
    /\ Report(k, "dial")
    /\ UNCHANGED <<serverVars, callChan, server, conn, validServerNum,
                   invalidated, connVars>>

\* ... until there is none, and calls onClientInvalid when no server was valid.
\* SendCall reports the error of the dial.
DrainEnd(k) ==
    /\ pc[k] = "drain"
    /\ callChan[server[k]] = <<>>
    /\ invalidated' = IF validServerNum[k] = 0 THEN invalidated \cup {k}
                                               ELSE invalidated
    /\ Report(k, "dial")
    /\ UNCHANGED <<serverVars, callChan, server, conn, validServerNum, connVars>>

\* The select of SendCall.
Send(k) ==
    LET s == server[k]
    IN  /\ pc[k] = "send"
        /\ Len(callChan[s]) < MaxWaitCall
        /\ callChan' = [callChan EXCEPT ![s] = Append(@, k)]
        /\ pc' = [pc EXCEPT ![k] = "done"]
        /\ UNCHANGED <<serverVars, server, conn, validServerNum, outcome,
                       invalidated, connVars>>

SendFull(k) ==
    /\ pc[k] = "send"
    /\ Len(callChan[server[k]]) >= MaxWaitCall
    /\ Report(k, "full")
    /\ UNCHANGED <<serverVars, callChan, server, conn, validServerNum,
                   invalidated, connVars>>

SendCall(k) ==
    \/ ChooseNone(k)
    \/ \E s \in Servers : Choose(k, s)
    \/ CreateConn(k) \/ CreateNoConn(k) \/ Dial(k) \/ DialFailed(k)
    \/ CountValid(k) \/ Drain(k) \/ DrainEnd(k) \/ Send(k) \/ SendFull(k)

-----------------------------------------------------------------------------
(* The connections, as ClientConn has them.                                *)

\* RoutineWriteRequst takes a call off the channel, also after the shutdown.
Take(c) ==
    /\ writing[c]
    /\ callChan[addr[c]] # <<>>
    /\ outcome' = [outcome EXCEPT ![Head(callChan[addr[c]])] = "taken"]
    /\ callChan' = [callChan EXCEPT ![addr[c]] = Tail(@)]
    /\ UNCHANGED <<serverVars, callerVars, connVars>>

\* RoutineWriteRequst ends: a write failed, or it is notified of the shutdown.
WriterEnds(c) ==
    /\ writing[c]
    /\ writing' = [writing EXCEPT ![c] = FALSE]
    /\ UNCHANGED <<serverVars, callChan, callerVars, outcome, state, addr>>

\* RoutineReadResponse ends: onShutDown ...
ShutDown(c) ==
    /\ state[c] = "up"
    /\ state' = [state EXCEPT ![c] = "down"]
    /\ UNCHANGED <<serverVars, callChan, callerVars, outcome, addr, writing>>

\* ... and then onConnShutdown.
OnConnShutdown(c) ==
    /\ state[c] = "down"
    /\ connList' = [connList EXCEPT ![addr[c]] = @ \ {c}]
    /\ state' = [state EXCEPT ![c] = "unused"]
    /\ UNCHANGED <<known, info, status, totalWeight, callChan, callerVars,
                   outcome, addr, writing>>

Connection(c) == Take(c) \/ WriterEnds(c) \/ ShutDown(c) \/ OnConnShutdown(c)

-----------------------------------------------------------------------------

Next ==
    \/ Operator
    \/ \E k \in Calls : SendCall(k)
    \/ \E c \in Conns : Connection(c)

Spec == Init /\ [][Next]_vars

\* A goroutine in SendCall goes on.  A writer takes what waits for it and ends
\* after the shutdown; a reader whose writer has ended shuts the connection down,
\* at the latest when the server's idle timeout closes it.
Fairness ==
    /\ \A k \in Calls : WF_vars(pc[k] # "idle" /\ SendCall(k))
    /\ \A c \in Conns :
          /\ WF_vars(Take(c))
          /\ WF_vars(state[c] # "up" /\ WriterEnds(c))
          /\ WF_vars(~writing[c] /\ ShutDown(c))
          /\ WF_vars(OnConnShutdown(c))

FairSpec == Spec /\ Fairness

-----------------------------------------------------------------------------
(* Properties.                                                             *)

\* Calls that find connections missing at the same moment do not open more than
\* MaxConnNum of them: the decision taken under RLock is repeated under Lock
\* (client.go:311).  One connection is opened whatever the limit.
ConnLimit ==
    [][\A s \in Servers : ~(connList'[s] \subseteq connList[s]) =>
          \/ Cardinality(connList'[s]) <= 1
          \/ Cardinality(connList'[s]) <= info[s].maxConn]_vars

\* While some server is not paused, every random number leads to a server,
\* although totalWeight is not updated when a dial fails (client.go:326) and
\* servers that cannot be connected to take part in the draw (client.go:277).
DrawFindsServer == Choosable # {} => ~CanChooseNone

\* The random numbers are shared out by weight, give or take one, whatever the
\* order of the walk, as long as the total is that of the servers it passes: the
\* first of them has one too many and the last one too few (client.go:277).
DrawFollowsWeights ==
    0 < totalWeight /\ totalWeight = SumWeight(Choosable, info) =>
       \A s \in Choosable : \A before \in SUBSET (Choosable \ {s}) :
          LET n == Cardinality({x \in RandNums : LeadsTo(x, before, s)})
          IN  n - info[s].weight \in {-1, 0, 1}

\* ConnList holds exactly the connections that are being dialled or are not yet
\* shut down, each at its own server: neither a failed dial nor the shutdown of
\* another connection, in any order, removes or leaves a wrong one
\* (client.go:251, 341).
ListMatchesConns ==
    \A s \in Servers :
       connList[s] = {c \in Conns : state[c] # "unused" /\ addr[c] = s}

Positions(k) == {p \in Servers \X (1 .. MaxWaitCall) :
                    p[2] <= Len(callChan[p[1]]) /\ callChan[p[1]][p[2]] = k}

\* A call is in one place: with its goroutine, once in one channel, or reported
\* or taken once.  None is lost and none is in two hands when writers, draining
\* callers and full channels compete (client.go:165, 372, client_conn.go:126).
CallsAccountedFor ==
    \A k \in Calls :
       IF pc[k] = "done" /\ outcome[k] = "none"
       THEN \E p \in Positions(k) : Positions(k) = {p}
       ELSE Positions(k) = {}

\* SendCall returns: neither the dial nor the draining of a channel that others
\* keep filling holds a caller for ever (client.go:371).
SendReturns == \A k \in Calls : pc[k] # "idle" ~> pc[k] = "done"

\* A server that an operator paused stays paused until the operator says
\* otherwise ("being updated, not usable for now", client.go:55).
PauseIsKept ==
    [][\A s \in Servers : status[s] = "pause" =>
          status'[s] = "pause" \/ ChangeServerStatus(s, status'[s])]_vars

\* onClientInvalid is for a client that finds all its servers unusable
\* (type.go:56): when no valid server is counted after a failed dial, no other
\* server has a working connection.
InvalidMeansUnusable ==
    [][\A k \in Calls : CountValid(k) /\ validServerNum'[k] = 0 =>
          \A c \in Conns : state[c] = "up" /\ writing[c] => addr[c] = server[k]]_vars

\* A synchronous call returns in the end, be it by its timeout (call.go:35).
SyncCallReturns == \A k \in Calls : pc[k] = "done" ~> outcome[k] # "none"

-----------------------------------------------------------------------------
(* The inductive invariant behind the safety properties.                   *)

\* A connection that is being dialled belongs to one goroutine.
DiallerOwnsConn ==
    /\ \A k \in Calls : pc[k] \in {"dial", "failed"} =>
          state[conn[k]] = "dialing" /\ addr[conn[k]] = server[k]
    /\ \A j, k \in Calls :
          pc[j] \in {"dial", "failed"} /\ pc[k] \in {"dial", "failed"}
             /\ conn[j] = conn[k] => j = k

ChanBounded == \A s \in Servers : Len(callChan[s]) <= MaxWaitCall

\* CallsAccountedFor, seen from the channels.
NotYetReported == \A k \in Calls : pc[k] # "done" => outcome[k] = "none"

WaitingIsSent ==
    \A s \in Servers : \A i \in 1 .. Len(callChan[s]) :
       pc[callChan[s][i]] = "done" /\ outcome[callChan[s][i]] = "none"

WaitingOnce ==
    \A s, t \in Servers :
       \A i \in 1 .. Len(callChan[s]) : \A j \in 1 .. Len(callChan[t]) :
          callChan[s][i] = callChan[t][j] => s = t /\ i = j

SentIsWaiting ==
    \A k \in Calls : pc[k] = "done" /\ outcome[k] = "none" =>
       \E s \in Servers : \E i \in 1 .. Len(callChan[s]) : callChan[s][i] = k

\* The draw: no random number is beyond the servers that can be drawn.
TotalInv == totalWeight <= SumWeight(Choosable, info)

IInv ==
    /\ TypeOK /\ TotalInv /\ ListMatchesConns /\ DiallerOwnsConn /\ ChanBounded
    /\ NotYetReported /\ WaitingIsSent /\ WaitingOnce /\ SentIsWaiting

=============================================================================
