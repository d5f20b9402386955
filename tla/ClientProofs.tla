---------------------------- MODULE ClientProofs ----------------------------
(***************************************************************************)
(* Theorems about Client: its type invariant, the bookkeeping of the       *)
(* connection lists and of the calls, and the bound on connections.        *)
(***************************************************************************)
EXTENDS Client, FiniteSetTheorems, TLAPS

-----------------------------------------------------------------------------
(* Sums of weights.                                                        *)

Weighted(S, i) == IsFiniteSet(S) /\ \A s \in S : i[s].weight \in Nat

LEMMA SharesFinite ==
  ASSUME NEW S, NEW i, Weighted(S, i)
  PROVE  IsFiniteSet(Shares(S, i))
<1> DEFINE Of(s) == {s} \X (1 .. i[s].weight)
           T == {Of(s) : s \in S}
           f == [s \in S |-> Of(s)]
<1>1. IsFiniteSet(T)
  <2>1. f \in Surjection(S, T)
    BY DEF Surjection
  <2> QED
    BY <2>1, FS_Surjection DEF Weighted
<1>2. \A U \in T : IsFiniteSet(U)
  <2> SUFFICES ASSUME NEW s \in S PROVE IsFiniteSet(Of(s))
    OBVIOUS
  <2>1. 1 \in Int /\ i[s].weight \in Int
    BY DEF Weighted
  <2>2. IsFiniteSet({s}) /\ IsFiniteSet(1 .. i[s].weight)
    BY <2>1, FS_Singleton, FS_Interval
  <2> QED
    BY <2>2, FS_Product
<1>3. IsFiniteSet(UNION T)
  BY <1>1, <1>2, FS_UNION
<1> QED
  BY <1>3 DEF Shares

LEMMA SumType ==
  ASSUME NEW S, NEW i, Weighted(S, i)
  PROVE  SumWeight(S, i) \in Nat
BY SharesFinite, FS_CardinalityType DEF SumWeight

LEMMA SumEmpty == \A i : SumWeight({}, i) = 0
<1>1. \A i : Shares({}, i) = {}
  BY DEF Shares
<1> QED
  BY <1>1, FS_EmptySet DEF SumWeight

\* More servers do not weigh less.
LEMMA SumMonotone ==
  ASSUME NEW T, NEW i, Weighted(T, i), NEW S \in SUBSET T
  PROVE  SumWeight(S, i) <= SumWeight(T, i)
<1>1. Shares(S, i) \in SUBSET Shares(T, i)
  BY DEF Shares
<1> QED
  BY <1>1, SharesFinite, FS_Subset DEF SumWeight

\* A server adds its own weight.
LEMMA SumAdds ==
  ASSUME NEW T, NEW i, Weighted(T, i), NEW s \in T, NEW S \in SUBSET (T \ {s})
  PROVE  SumWeight(S \cup {s}, i) = SumWeight(S, i) + i[s].weight
<1> DEFINE own == {s} \X (1 .. i[s].weight)
<1>1. Weighted(S, i)
  BY FS_Subset DEF Weighted
<1>2. IsFiniteSet(Shares(S, i)) /\ Cardinality(Shares(S, i)) \in Nat
  BY <1>1, SharesFinite, FS_CardinalityType
<1>3. Shares(S \cup {s}, i) = Shares(S, i) \cup own
  BY DEF Shares
<1>4. Shares(S, i) \cap own = {}
  BY DEF Shares
<1>5. IsFiniteSet(own) /\ Cardinality(own) = i[s].weight
  <2>1. /\ IsFiniteSet({s}) /\ Cardinality({s}) = 1
        /\ i[s].weight \in Nat
    BY FS_Singleton DEF Weighted
  <2>2. IsFiniteSet(1 .. i[s].weight) /\ Cardinality(1 .. i[s].weight) = i[s].weight
    <3>1. 1 \in Int /\ i[s].weight \in Int
      BY <2>1
    <3>2. /\ IsFiniteSet(1 .. i[s].weight)
          /\ Cardinality(1 .. i[s].weight) =
                IF 1 > i[s].weight THEN 0 ELSE i[s].weight - 1 + 1
      BY <3>1, FS_Interval
    <3> QED
      BY <2>1, <3>2
  <2>3. IsFiniteSet(own) /\ Cardinality(own) = 1 * i[s].weight
    BY <2>1, <2>2, FS_Product
  <2> QED
    BY <2>1, <2>3
<1> HIDE DEF own
<1>6. Cardinality(Shares(S, i) \cup own) =
         Cardinality(Shares(S, i)) + Cardinality(own) - Cardinality({})
  BY <1>2, <1>4, <1>5, FS_Union
<1>7. i[s].weight \in Nat /\ Cardinality({}) = 0
  BY FS_EmptySet DEF Weighted
<1>8. Cardinality(Shares(S, i) \cup own) = Cardinality(Shares(S, i)) + i[s].weight
  BY <1>2, <1>5, <1>6, <1>7
<1> QED
  BY <1>3, <1>8 DEF SumWeight

\* updateTotalWeight.
LEMMA TotalType ==
  ASSUME NEW S \in SUBSET Servers, NEW i \in [Servers -> [weight : Nat, maxConn : Nat]],
         NEW st
  PROVE  TotalWeight(S, i, st) \in Nat
<1> DEFINE T == {s \in S : st[s] = "norm"}
<1>1. T \in SUBSET Servers
  OBVIOUS
<1>2. Weighted(T, i)
  BY <1>1, FS_Subset, ClientAssumption DEF Weighted
<1> QED
  BY <1>2, SumType DEF TotalWeight

LEMMA ServersWeighted ==
  ASSUME TypeOK
  PROVE  Weighted(known, info) /\ Weighted(Choosable, info)
<1>1. known \subseteq Servers /\ Choosable \subseteq known
  BY DEF TypeOK, Choosable
<1>2. IsFiniteSet(known) /\ IsFiniteSet(Choosable)
  BY <1>1, FS_Subset, ClientAssumption
<1> QED
  BY <1>1, <1>2 DEF Weighted, TypeOK

-----------------------------------------------------------------------------
(* The type invariant.                                                     *)

LEMMA InitTypeOK == Init => TypeOK
BY ClientAssumption DEF Init, TypeOK, Statuses, Failures

\* What AddServer and ChangeServerStatus keep.
LEMMA OperatorTypeOK == TypeOK /\ Operator => TypeOK'
<1> SUFFICES ASSUME TypeOK, Operator PROVE TypeOK'
  OBVIOUS
<1> USE ClientAssumption
<1>1. ASSUME NEW s \in Servers, NEW new \in Infos, AddServer(s, new) PROVE TypeOK'
  <2>1. new \in [weight : Nat, maxConn : Nat]
    OBVIOUS
  <2>2. /\ known' \subseteq Servers
        /\ info' \in [Servers -> [weight : Nat, maxConn : Nat]]
    BY <1>1, <2>1 DEF TypeOK, AddServer
  <2>3. totalWeight' \in Nat
    BY <1>1, <2>2, TotalType DEF AddServer
  <2> QED
    BY <1>1, <2>2, <2>3 DEF TypeOK, AddServer, callerVars, connVars
<1>2. ASSUME NEW s \in Servers, NEW st \in {"norm", "pause"}, ChangeServerStatus(s, st)
      PROVE TypeOK'
  <2>1. totalWeight' \in Nat
    BY <1>2, TotalType DEF ChangeServerStatus, TypeOK
  <2> QED
    BY <1>2, <2>1 DEF TypeOK, ChangeServerStatus, callerVars, connVars, Statuses
<1> QED
  BY <1>1, <1>2 DEF Operator

\* What the steps of a goroutine in SendCall keep.
LEMMA CallerTypeOK ==
  ASSUME TypeOK, DiallerOwnsConn, NEW k \in Calls, SendCall(k)
  PROVE  TypeOK'
<1> USE ClientAssumption
<1>1. CASE ChooseNone(k)
  BY <1>1 DEF TypeOK, ChooseNone, Report, serverVars, connVars, Failures
<1>2. ASSUME NEW s \in Servers, Choose(k, s) PROVE TypeOK'
  BY <1>2 DEF TypeOK, Choose, Choosable, serverVars, connVars
<1>3. CASE CreateConn(k)
  <2>1. PICK c \in Conns : AddConn(k, server[k], c)
    BY <1>3 DEF CreateConn
  <2>2. server[k] \in known /\ server[k] \in Servers
    BY <1>3 DEF CreateConn, TypeOK
  <2> QED
    <3>1. state' \in [Conns -> {"unused", "dialing", "up", "down"}]
      BY <2>1 DEF TypeOK, AddConn
    <3>2. addr' \in [Conns -> Servers \cup {Nil}]
      BY <2>1, <2>2 DEF TypeOK, AddConn
    <3>3. \A d \in Conns : state'[d] # "unused" \/ writing'[d] => addr'[d] \in known'
      BY <2>1, <2>2 DEF TypeOK, AddConn
    <3> QED
      BY <2>1, <2>2, <3>1, <3>2, <3>3 DEF TypeOK, AddConn
<1>4. CASE CreateNoConn(k)
  BY <1>4 DEF TypeOK, CreateNoConn, serverVars, connVars
<1>5. CASE Dial(k)
  <2>1. conn[k] \in Conns /\ pc[k] = "dial" /\ addr[conn[k]] \in known
    BY <1>5 DEF TypeOK, Dial, DiallerOwnsConn
  <2>2. \A c \in Conns : state'[c] # "unused" \/ writing'[c] => addr'[c] \in known'
    <3>1. \A c \in Conns \ {conn[k]} : state'[c] = state[c] /\ writing'[c] = writing[c]
      BY <1>5, <2>1 DEF TypeOK, Dial
    <3>3. \A c \in Conns : state[c] # "unused" \/ writing[c] => addr[c] \in known
      BY DEF TypeOK
    <3>2. addr' = addr /\ known' = known
      BY <1>5 DEF Dial, serverVars
    <3> QED
      <4> SUFFICES ASSUME NEW c \in Conns, state'[c] # "unused" \/ writing'[c]
                   PROVE  addr[c] \in known
        BY <3>2
      <4>1. CASE c = conn[k]
        BY <2>1, <4>1
      <4>2. CASE c # conn[k]
        <5>1. state'[c] = state[c] /\ writing'[c] = writing[c]
          BY <3>1, <4>2
        <5> QED
          BY <3>3, <5>1
      <4> QED
        BY <4>1, <4>2
  <2>3. writing' \in [Conns -> BOOLEAN]
    BY <1>5, <2>1 DEF TypeOK, Dial
  <2>4. state' \in [Conns -> {"unused", "dialing", "up", "down"}]
    BY <1>5, <2>1 DEF TypeOK, Dial
  <2> QED
    <3>1. pc' \in [Calls -> {"idle", "lock", "dial", "failed", "count",
                             "drain", "send", "done"}]
      <4>1. pc' = [pc EXCEPT ![k] = "send"] \/ pc' = [pc EXCEPT ![k] = "failed"]
        BY <1>5 DEF Dial
      <4>2. pc \in [Calls -> {"idle", "lock", "dial", "failed", "count",
                              "drain", "send", "done"}]
        BY DEF TypeOK
      <4> QED
        BY <4>1, <4>2
    <3>2. \A j \in Calls : pc'[j] \notin {"idle", "done"} => server[j] \in known
      BY <1>5 DEF TypeOK, Dial
    <3>3. \A j \in Calls : pc'[j] \in {"dial", "failed"} => conn[j] \in Conns
      BY <1>5 DEF TypeOK, Dial
    <3>4. UNCHANGED <<known, info, status, connList, totalWeight, callChan, server, conn,
                      validServerNum, outcome, invalidated, addr>>
      BY <1>5 DEF Dial, serverVars
    <3> QED
      BY <2>2, <2>3, <2>4, <3>1, <3>2, <3>3, <3>4 DEF TypeOK
<1>6. CASE DialFailed(k)
  <2>1. conn[k] \in Conns /\ server[k] \in known /\ server[k] \in Servers
    BY <1>6 DEF TypeOK, DialFailed
  <2>2. connList' \in [Servers -> SUBSET Conns]
    BY <1>6, <2>1 DEF TypeOK, DialFailed, RemoveConn
  <2>3. status' \in [Servers -> Statuses]
    BY <1>6, <2>1 DEF TypeOK, DialFailed, Statuses
  <2> QED
    BY <1>6, <2>1, <2>2, <2>3 DEF TypeOK, DialFailed
<1>7. CASE CountValid(k)
  <2>1. IsFiniteSet({s \in known : status[s] \in {"norm", "pause"}})
    BY FS_Subset DEF TypeOK
  <2>2. Cardinality({s \in known : status[s] \in {"norm", "pause"}}) \in Nat
    BY <2>1, FS_CardinalityType
  <2> QED
    BY <1>7, <2>2 DEF TypeOK, CountValid, serverVars, connVars
<1>8. CASE Drain(k)
  <2>1. server[k] \in Servers /\ callChan[server[k]] \in Seq(Calls)
    BY <1>8 DEF TypeOK, Drain
  <2>2. Head(callChan[server[k]]) \in Calls /\ Tail(callChan[server[k]]) \in Seq(Calls)
    BY <1>8, <2>1 DEF Drain
  <2>3. outcome' \in [Calls -> Failures \cup {"none", "taken"}]
    BY <1>8, <2>2 DEF TypeOK, Drain, Failures
  <2>4. callChan' \in [Servers -> Seq(Calls)]
    BY <1>8, <2>2 DEF TypeOK, Drain
  <2> QED
    BY <1>8, <2>3, <2>4 DEF TypeOK, Drain, serverVars, callerVars, connVars
<1>9. CASE DrainEnd(k)
  BY <1>9 DEF TypeOK, DrainEnd, Report, serverVars, connVars, Failures
<1>10. CASE Send(k)
  <2>1. server[k] \in Servers /\ callChan[server[k]] \in Seq(Calls)
    BY <1>10 DEF TypeOK, Send
  <2>2. callChan' \in [Servers -> Seq(Calls)]
    BY <1>10, <2>1 DEF TypeOK, Send
  <2> QED
    BY <1>10, <2>2 DEF TypeOK, Send, serverVars, connVars
<1>11. CASE SendFull(k)
  BY <1>11 DEF TypeOK, SendFull, Report, serverVars, connVars, Failures
<1> QED
  BY <1>1, <1>2, <1>3, <1>4, <1>5, <1>6, <1>7, <1>8, <1>9, <1>10, <1>11 DEF SendCall

\* What the steps of a connection keep.
LEMMA ConnectionTypeOK ==
  ASSUME TypeOK, NEW c \in Conns, Connection(c)
  PROVE  TypeOK'
<1> USE ClientAssumption
<1>1. CASE Take(c)
  BY <1>1 DEF TypeOK, Take, serverVars, callerVars, connVars
<1>2. CASE WriterEnds(c)
  BY <1>2 DEF TypeOK, WriterEnds, serverVars, callerVars
<1>3. CASE ShutDown(c)
  BY <1>3 DEF TypeOK, ShutDown, serverVars, callerVars
<1>4. CASE OnConnShutdown(c)
  BY <1>4 DEF TypeOK, OnConnShutdown, callerVars
<1> QED
  BY <1>1, <1>2, <1>3, <1>4 DEF Connection

LEMMA StepTypeOK == TypeOK /\ DiallerOwnsConn /\ [Next]_vars => TypeOK'
<1> SUFFICES ASSUME TypeOK, DiallerOwnsConn, [Next]_vars PROVE TypeOK'
  OBVIOUS
<1>1. CASE UNCHANGED vars
  BY <1>1 DEF TypeOK, vars, serverVars, callerVars, connVars
<1> QED
  BY <1>1, OperatorTypeOK, CallerTypeOK, ConnectionTypeOK DEF Next

-----------------------------------------------------------------------------
(* The connections.                                                        *)

\* No two goroutines dial the same connection: addConn takes an unused one, and
\* only the goroutine that dials can end the dialling.
LEMMA StepDiallerOwnsConn ==
  TypeOK /\ DiallerOwnsConn /\ [Next]_vars => DiallerOwnsConn'
<1> SUFFICES ASSUME TypeOK, DiallerOwnsConn, [Next]_vars PROVE DiallerOwnsConn'
  OBVIOUS
<1> USE DEF DiallerOwnsConn
<1>0. \A j \in Calls : pc[j] \in {"dial", "failed"} => conn[j] \in Conns
  BY DEF TypeOK
<1>1. CASE UNCHANGED vars
  BY <1>1 DEF vars, callerVars, connVars
<1>2. CASE Operator
  BY <1>2 DEF Operator, AddServer, ChangeServerStatus, callerVars, connVars
<1>3. ASSUME NEW k \in Calls, SendCall(k) PROVE DiallerOwnsConn'
  <2>1. CASE ChooseNone(k) \/ CountValid(k) \/ DrainEnd(k) \/ Send(k)
             \/ SendFull(k) \/ Drain(k) \/ CreateNoConn(k)
    <3>1. \A j \in Calls : pc'[j] \in {"dial", "failed"} => pc[j] \in {"dial", "failed"}
      BY <2>1 DEF TypeOK, ChooseNone, CountValid, DrainEnd, Send, SendFull, Drain,
                  CreateNoConn, Report, callerVars
    <3>2. conn' = conn /\ server' = server /\ state' = state /\ addr' = addr
      BY <2>1 DEF ChooseNone, CountValid, DrainEnd, Send, SendFull, Drain,
                  CreateNoConn, callerVars, connVars
    <3> QED
      BY <3>1, <3>2
  <2>2. CASE \E s \in Servers : Choose(k, s)
    <3>1. \A j \in Calls : pc'[j] \in {"dial", "failed"} =>
             pc[j] \in {"dial", "failed"} /\ server'[j] = server[j]
      BY <2>2 DEF TypeOK, Choose
    <3>2. conn' = conn /\ state' = state /\ addr' = addr
      BY <2>2 DEF Choose, connVars
    <3> QED
      BY <3>1, <3>2
  <2>3. CASE CreateConn(k)
    <3>1. PICK c \in Conns : AddConn(k, server[k], c)
      BY <2>3 DEF CreateConn
    <3>2. \A j \in Calls : pc[j] \in {"dial", "failed"} => conn[j] # c
      BY <3>1 DEF AddConn
    <3>3. conn'[k] = c /\ \A j \in Calls \ {k} : conn'[j] = conn[j] /\ pc'[j] = pc[j]
      BY <3>1 DEF TypeOK, AddConn
    <3>4. state'[c] = "dialing" /\ addr'[c] = server[k] /\ server' = server
      BY <3>1 DEF TypeOK, AddConn
    <3>5. \A d \in Conns \ {c} : state'[d] = state[d] /\ addr'[d] = addr[d]
      BY <3>1 DEF TypeOK, AddConn
    <3> QED
      BY <1>0, <3>2, <3>3, <3>4, <3>5
  <2>4. CASE Dial(k)
    <3>1. \A j \in Calls \ {k} : pc[j] \in {"dial", "failed"} => conn[j] # conn[k]
      BY <2>4 DEF Dial
    <3>2. conn' = conn /\ server' = server /\ addr' = addr
      BY <2>4 DEF Dial
    <3>3. conn[k] \in Conns /\ \A j \in Calls \ {k} : pc'[j] = pc[j]
      BY <2>4 DEF Dial, TypeOK
    <3>4. \A d \in Conns \ {conn[k]} : state'[d] = state[d]
      BY <2>4, <3>3 DEF Dial, TypeOK
    <3>5. pc'[k] \in {"dial", "failed"} => state' = state
      BY <2>4 DEF Dial, TypeOK
    <3> QED
      <4>1. pc'[k] \in {"dial", "failed"} => state'[conn[k]] = "dialing"
        BY <2>4, <3>5 DEF Dial
      <4> QED
        BY <1>0, <2>4, <3>1, <3>2, <3>3, <3>4, <4>1 DEF Dial
  <2>5. CASE DialFailed(k)
    <3>1. \A j \in Calls \ {k} : pc[j] \in {"dial", "failed"} => conn[j] # conn[k]
      BY <2>5 DEF DialFailed
    <3>2. conn' = conn /\ server' = server /\ addr' = addr
      BY <2>5 DEF DialFailed
    <3>3. conn[k] \in Conns /\ pc'[k] \notin {"dial", "failed"}
          /\ \A j \in Calls \ {k} : pc'[j] = pc[j]
      BY <2>5 DEF DialFailed, TypeOK
    <3>4. \A d \in Conns \ {conn[k]} : state'[d] = state[d]
      BY <2>5, <3>3 DEF DialFailed, TypeOK
    <3> QED
      BY <1>0, <3>1, <3>2, <3>3, <3>4
  <2> QED
    BY <1>3, <2>1, <2>2, <2>3, <2>4, <2>5 DEF SendCall
<1>4. ASSUME NEW c \in Conns, Connection(c) PROVE DiallerOwnsConn'
  <2>1. CASE Take(c) \/ WriterEnds(c)
    BY <2>1 DEF Take, WriterEnds, callerVars, connVars
  <2>2. CASE ShutDown(c)
    BY <2>2 DEF TypeOK, ShutDown, callerVars
  <2>3. CASE OnConnShutdown(c)
    BY <2>3 DEF TypeOK, OnConnShutdown, callerVars
  <2> QED
    BY <1>4, <2>1, <2>2, <2>3 DEF Connection
<1> QED
  BY <1>1, <1>2, <1>3, <1>4 DEF Next

\* Only addConn, removeConn and onConnShutdown change a list, each together with
\* the state of the connection that it moves.
LEMMA StepListMatchesConns ==
  TypeOK /\ DiallerOwnsConn /\ ListMatchesConns /\ [Next]_vars => ListMatchesConns'
<1> SUFFICES ASSUME TypeOK, DiallerOwnsConn, ListMatchesConns, [Next]_vars,
                    NEW s \in Servers
             PROVE  connList'[s] = {c \in Conns : state'[c] # "unused" /\ addr'[c] = s}
  BY DEF ListMatchesConns
<1> USE DEF ListMatchesConns
<1>1. CASE UNCHANGED vars
  BY <1>1 DEF vars, serverVars, connVars
<1>2. CASE Operator
  BY <1>2 DEF Operator, AddServer, ChangeServerStatus, connVars
<1>3. ASSUME NEW k \in Calls, SendCall(k)
      PROVE  connList'[s] = {c \in Conns : state'[c] # "unused" /\ addr'[c] = s}
  <2>1. CASE ChooseNone(k) \/ CountValid(k) \/ DrainEnd(k) \/ Send(k)
             \/ SendFull(k) \/ Drain(k) \/ CreateNoConn(k)
    BY <2>1 DEF ChooseNone, CountValid, DrainEnd, Send, SendFull, Drain,
                CreateNoConn, serverVars, connVars
  <2>2. CASE \E t \in Servers : Choose(k, t)
    BY <2>2 DEF Choose, serverVars, connVars
  <2>3. CASE CreateConn(k)
    <3>1. PICK c \in Conns : AddConn(k, server[k], c)
      BY <2>3 DEF CreateConn
    <3>2. state[c] = "unused" /\ state'[c] = "dialing" /\ addr'[c] = server[k]
      BY <3>1 DEF TypeOK, AddConn
    <3>3. \A d \in Conns \ {c} : state'[d] = state[d] /\ addr'[d] = addr[d]
      BY <3>1 DEF TypeOK, AddConn
    <3>4. connList'[s] = IF s = server[k] THEN connList[s] \cup {c} ELSE connList[s]
      BY <3>1 DEF TypeOK, AddConn
    <3> QED
      BY <3>2, <3>3, <3>4
  <2>4. CASE Dial(k)
    <3>1. conn[k] \in Conns /\ state[conn[k]] = "dialing" /\ addr' = addr
      BY <2>4 DEF Dial, TypeOK, DiallerOwnsConn
    <3>2. \A d \in Conns : state'[d] # "unused" <=> state[d] # "unused"
      BY <2>4, <3>1 DEF Dial, TypeOK
    <3> QED
      BY <2>4, <3>1, <3>2 DEF Dial, serverVars
  <2>5. CASE DialFailed(k)
    <3>1. conn[k] \in Conns /\ addr[conn[k]] = server[k] /\ addr' = addr
      BY <2>5 DEF DialFailed, TypeOK, DiallerOwnsConn
    <3>2. \A d \in Conns : state'[d] # "unused" <=> state[d] # "unused" /\ d # conn[k]
      BY <2>5, <3>1 DEF DialFailed, TypeOK, DiallerOwnsConn
    <3>3. connList'[s] = connList[s] \ (IF s = server[k] THEN {conn[k]} ELSE {})
      BY <2>5 DEF DialFailed, RemoveConn, TypeOK
    <3> QED
      BY <3>1, <3>2, <3>3
  <2> QED
    BY <1>3, <2>1, <2>2, <2>3, <2>4, <2>5 DEF SendCall
<1>4. ASSUME NEW c \in Conns, Connection(c)
      PROVE  connList'[s] = {d \in Conns : state'[d] # "unused" /\ addr'[d] = s}
  <2>1. CASE Take(c) \/ WriterEnds(c)
    BY <2>1 DEF Take, WriterEnds, serverVars, connVars
  <2>2. CASE ShutDown(c)
    BY <2>2 DEF TypeOK, ShutDown, serverVars
  <2>3. CASE OnConnShutdown(c)
    <3>1. \A d \in Conns : state'[d] # "unused" <=> state[d] # "unused" /\ d # c
      BY <2>3 DEF OnConnShutdown, TypeOK
    <3>2. connList'[s] = connList[s] \ (IF s = addr[c] THEN {c} ELSE {})
      BY <2>3 DEF OnConnShutdown, TypeOK
    <3> QED
      BY <2>3, <3>1, <3>2 DEF OnConnShutdown
  <2> QED
    BY <1>4, <2>1, <2>2, <2>3 DEF Connection
<1> QED
  BY <1>1, <1>2, <1>3, <1>4 DEF Next

-----------------------------------------------------------------------------
(* The calls.  What a step does to them is one of four things.             *)

Quiet ==
    /\ callChan' = callChan
    /\ outcome' = outcome
    /\ \A k \in Calls : pc'[k] = "done" <=> pc[k] = "done"

Reported(k) ==
    /\ pc[k] # "done" /\ pc'[k] = "done"
    /\ outcome'[k] # "none"
    /\ \A j \in Calls \ {k} : pc'[j] = pc[j] /\ outcome'[j] = outcome[j]
    /\ callChan' = callChan

Sent(k, s) ==
    /\ pc[k] # "done" /\ pc'[k] = "done"
    /\ \A j \in Calls \ {k} : pc'[j] = pc[j]
    /\ outcome' = outcome
    /\ Len(callChan[s]) < MaxWaitCall
    /\ callChan' = [callChan EXCEPT ![s] = Append(@, k)]

Removed(s) ==
    /\ callChan[s] # <<>>
    /\ callChan' = [callChan EXCEPT ![s] = Tail(@)]
    /\ outcome'[Head(callChan[s])] # "none"
    /\ \A j \in Calls \ {Head(callChan[s])} : outcome'[j] = outcome[j]
    /\ pc' = pc

LEMMA CallStep ==
  ASSUME TypeOK, [Next]_vars
  PROVE  \/ Quiet
         \/ \E k \in Calls : Reported(k)
         \/ \E k \in Calls, s \in Servers : Sent(k, s)
         \/ \E s \in Servers : Removed(s)
<1>1. CASE UNCHANGED vars
  BY <1>1 DEF vars, callerVars, Quiet
<1>2. CASE Operator
  BY <1>2 DEF Operator, AddServer, ChangeServerStatus, callerVars, Quiet
<1>3. ASSUME NEW k \in Calls, SendCall(k)
      PROVE  \/ Quiet
             \/ Reported(k)
             \/ \E s \in Servers : Sent(k, s) \/ Removed(s)
  <2>1. CASE ChooseNone(k)
    BY <2>1 DEF TypeOK, ChooseNone, Report, Reported
  <2>2. CASE SendFull(k)
    BY <2>2 DEF TypeOK, SendFull, Report, Reported
  <2>3. CASE DrainEnd(k)
    BY <2>3 DEF TypeOK, DrainEnd, Report, Reported
  <2>4. CASE Send(k)
    BY <2>4 DEF TypeOK, Send, Sent
  <2>5. CASE Drain(k)
    <3>1. server[k] \in Servers /\ callChan[server[k]] \in Seq(Calls)
      BY <2>5 DEF TypeOK, Drain
    <3>2. Head(callChan[server[k]]) \in Calls
      BY <2>5, <3>1 DEF Drain
    <3> QED
      BY <2>5, <3>1, <3>2 DEF TypeOK, Drain, Removed, callerVars
  <2>6. CASE \E s \in Servers : Choose(k, s)
    BY <2>6 DEF TypeOK, Choose, Quiet
  <2>7. CASE CreateConn(k)
    BY <2>7 DEF TypeOK, CreateConn, AddConn, Quiet
  <2>8. CASE CreateNoConn(k) \/ CountValid(k)
    BY <2>8 DEF TypeOK, CreateNoConn, CountValid, Quiet
  <2>9. CASE Dial(k)
    BY <2>9 DEF TypeOK, Dial, Quiet
  <2>10. CASE DialFailed(k)
    BY <2>10 DEF TypeOK, DialFailed, Quiet
  <2> QED
    BY <1>3, <2>1, <2>2, <2>3, <2>4, <2>5, <2>6, <2>7, <2>8, <2>9, <2>10 DEF SendCall
<1>4. ASSUME NEW c \in Conns, Connection(c)
      PROVE  Quiet \/ \E s \in Servers : Removed(s)
  <2>1. CASE Take(c)
    <3>1. addr[c] \in Servers /\ callChan[addr[c]] \in Seq(Calls)
      BY <2>1 DEF TypeOK, Take
    <3>2. Head(callChan[addr[c]]) \in Calls
      BY <2>1, <3>1 DEF Take
    <3> QED
      BY <2>1, <3>1, <3>2 DEF TypeOK, Take, Removed, callerVars
  <2>2. CASE WriterEnds(c) \/ ShutDown(c) \/ OnConnShutdown(c)
    BY <2>2 DEF WriterEnds, ShutDown, OnConnShutdown, callerVars, Quiet
  <2> QED
    BY <1>4, <2>1, <2>2 DEF Connection
<1> QED
  BY <1>1, <1>2, <1>3, <1>4 DEF Next

CallsInv ==
    /\ ChanBounded /\ NotYetReported /\ WaitingIsSent /\ WaitingOnce /\ SentIsWaiting

LEMMA ElementsAreCalls ==
  ASSUME TypeOK, NEW s \in Servers, NEW i \in 1 .. Len(callChan[s])
  PROVE  callChan[s][i] \in Calls
BY DEF TypeOK

LEMMA QuietCalls ==
  ASSUME TypeOK, CallsInv, Quiet
  PROVE  CallsInv'
<1> USE DEF CallsInv, Quiet
<1>1. ChanBounded' /\ WaitingOnce'
  BY DEF ChanBounded, WaitingOnce
<1>2. NotYetReported' /\ SentIsWaiting'
  BY DEF NotYetReported, SentIsWaiting
<1>3. WaitingIsSent'
  BY ElementsAreCalls DEF WaitingIsSent
<1> QED
  BY <1>1, <1>2, <1>3

\* A reported call was with its goroutine, so it is not in a channel.
LEMMA ReportedCalls ==
  ASSUME TypeOK, CallsInv, NEW k \in Calls, Reported(k)
  PROVE  CallsInv'
<1> USE DEF CallsInv, Reported
<1>1. ChanBounded' /\ WaitingOnce'
  BY DEF ChanBounded, WaitingOnce
<1>2. NotYetReported' /\ SentIsWaiting'
  BY DEF NotYetReported, SentIsWaiting
<1>3. WaitingIsSent'
  BY ElementsAreCalls DEF WaitingIsSent
<1> QED
  BY <1>1, <1>2, <1>3

\* A call that is sent was in no channel before.
LEMMA SentCalls ==
  ASSUME TypeOK, CallsInv, NEW k \in Calls, NEW s \in Servers, Sent(k, s)
  PROVE  CallsInv'
<1> USE ClientAssumption DEF CallsInv, Sent
<1>1. callChan[s] \in Seq(Calls) /\ \A t \in Servers : Len(callChan[t]) \in Nat
  BY DEF TypeOK
<1>2. \A t \in Servers : callChan'[t] = IF t = s THEN Append(callChan[s], k) ELSE callChan[t]
  BY DEF TypeOK
<1>0. callChan'[s] = Append(callChan[s], k)
  BY <1>2
<1>3. Len(callChan'[s]) = Len(callChan[s]) + 1 /\ callChan'[s][Len(callChan[s]) + 1] = k
  <2> HIDE DEF CallsInv, Sent
  <2> QED
    BY <1>0, <1>1
<1>4. \A i \in 1 .. Len(callChan[s]) : callChan'[s][i] = callChan[s][i]
  BY <1>1, <1>2
<1>5. \A t \in Servers : \A i \in 1 .. Len(callChan[t]) : callChan[t][i] # k
  BY DEF WaitingIsSent
<1>6. ChanBounded'
  BY <1>1, <1>2, <1>3 DEF ChanBounded
<1>7. NotYetReported'
  BY DEF NotYetReported
<1>8. WaitingIsSent'
  <2> SUFFICES ASSUME NEW t \in Servers, NEW i \in 1 .. Len(callChan'[t])
               PROVE  pc'[callChan'[t][i]] = "done" /\ outcome'[callChan'[t][i]] = "none"
    BY DEF WaitingIsSent
  <2>1. CASE t = s /\ i = Len(callChan[s]) + 1
    BY <1>3, <2>1 DEF NotYetReported
  <2>2. CASE ~(t = s /\ i = Len(callChan[s]) + 1)
    <3>1. i \in 1 .. Len(callChan[t]) /\ callChan'[t][i] = callChan[t][i]
      BY <1>1, <1>2, <1>3, <1>4, <2>2
    <3> QED
      BY <1>5, <3>1, ElementsAreCalls DEF WaitingIsSent
  <2> QED
    BY <2>1, <2>2
<1>9. WaitingOnce'
  <2> SUFFICES ASSUME NEW t \in Servers, NEW u \in Servers,
                      NEW i \in 1 .. Len(callChan'[t]), NEW j \in 1 .. Len(callChan'[u]),
                      callChan'[t][i] = callChan'[u][j]
               PROVE  t = u /\ i = j
    BY DEF WaitingOnce
  <2>1. \A v \in Servers, n \in Nat :
           n \in 1 .. Len(callChan'[v]) =>
              \/ n \in 1 .. Len(callChan[v]) /\ callChan'[v][n] = callChan[v][n]
              \/ v = s /\ n = Len(callChan[s]) + 1 /\ callChan'[v][n] = k
    BY <1>1, <1>2, <1>3, <1>4
  <2>2. i \in Nat /\ j \in Nat
    OBVIOUS
  <2> QED
    BY <1>5, <2>1, <2>2 DEF WaitingOnce
<1>10. SentIsWaiting'
  <2> SUFFICES ASSUME NEW j \in Calls, pc'[j] = "done", outcome'[j] = "none"
               PROVE  \E t \in Servers : \E i \in 1 .. Len(callChan'[t]) : callChan'[t][i] = j
    BY DEF SentIsWaiting
  <2>1. CASE j = k
    <3>1. Len(callChan[s]) + 1 \in 1 .. Len(callChan'[s])
      BY <1>1, <1>3
    <3> QED
      BY <1>3, <2>1, <3>1
  <2>2. CASE j # k
    <3>0. PICK t \in Servers : \E i \in 1 .. Len(callChan[t]) : callChan[t][i] = j
      BY <2>2 DEF SentIsWaiting
    <3>1. PICK i \in 1 .. Len(callChan[t]) : callChan[t][i] = j
      BY <3>0
    <3>2. i \in 1 .. Len(callChan'[t]) /\ callChan'[t][i] = j
      BY <1>1, <1>2, <1>3, <1>4, <3>1
    <3> QED
      BY <3>2
  <2> QED
    BY <2>1, <2>2
<1> QED
  BY <1>6, <1>7, <1>8, <1>9, <1>10

\* A call that leaves a channel was there once.
LEMMA RemovedCalls ==
  ASSUME TypeOK, CallsInv, NEW s \in Servers, Removed(s)
  PROVE  CallsInv'
<1> USE DEF CallsInv, Removed
<1>1. callChan[s] \in Seq(Calls) /\ \A t \in Servers : Len(callChan[t]) \in Nat
  BY DEF TypeOK
<1>2. \A t \in Servers : callChan'[t] = IF t = s THEN Tail(callChan[s]) ELSE callChan[t]
  BY DEF TypeOK
<1>0. callChan'[s] = Tail(callChan[s]) /\ callChan[s] # <<>>
  BY <1>2
<1>3. Len(callChan'[s]) = Len(callChan[s]) - 1 /\ Len(callChan[s]) >= 1
  <2> HIDE DEF CallsInv, Removed
  <2> QED
    BY <1>0, <1>1
<1>4. \A i \in 1 .. Len(callChan'[s]) : callChan'[s][i] = callChan[s][i + 1]
  <2> HIDE DEF CallsInv, Removed
  <2> QED
    BY <1>0, <1>1
<1>5. Head(callChan[s]) = callChan[s][1] /\ callChan[s][1] \in Calls
  BY <1>1, <1>3
<1> DEFINE old(t, i) == IF t = s THEN i + 1 ELSE i
<1>6. \A t \in Servers : \A i \in 1 .. Len(callChan'[t]) :
         /\ old(t, i) \in 1 .. Len(callChan[t])
         /\ callChan'[t][i] = callChan[t][old(t, i)]
         /\ callChan'[t][i] # callChan[s][1]
  <2> SUFFICES ASSUME NEW t \in Servers, NEW i \in 1 .. Len(callChan'[t])
               PROVE  /\ old(t, i) \in 1 .. Len(callChan[t])
                      /\ callChan'[t][i] = callChan[t][old(t, i)]
                      /\ callChan'[t][i] # callChan[s][1]
    OBVIOUS
  <2>1. old(t, i) \in 1 .. Len(callChan[t]) /\ callChan'[t][i] = callChan[t][old(t, i)]
    BY <1>1, <1>2, <1>3, <1>4
  <2>2. t # s \/ old(t, i) # 1
    OBVIOUS
  <2>3. 1 \in 1 .. Len(callChan[s])
    BY <1>1, <1>3
  <2> QED
    BY <2>1, <2>2, <2>3 DEF WaitingOnce
<1> HIDE DEF old
<1>7. ChanBounded'
  BY <1>1, <1>2, <1>3, ClientAssumption DEF ChanBounded
<1>8. NotYetReported'
  <2>1. pc[callChan[s][1]] = "done"
    BY <1>1, <1>3 DEF WaitingIsSent
  <2> QED
    BY <1>5, <2>1 DEF NotYetReported
<1>9. WaitingIsSent'
  <2> SUFFICES ASSUME NEW t \in Servers, NEW i \in 1 .. Len(callChan'[t])
               PROVE  pc'[callChan'[t][i]] = "done" /\ outcome'[callChan'[t][i]] = "none"
    BY DEF WaitingIsSent
  <2>1. callChan'[t][i] \in Calls /\ callChan'[t][i] # Head(callChan[s])
    BY <1>5, <1>6, ElementsAreCalls
  <2>2. pc[callChan'[t][i]] = "done" /\ outcome[callChan'[t][i]] = "none"
    BY <1>6 DEF WaitingIsSent
  <2> QED
    BY <2>1, <2>2
<1>10. WaitingOnce'
  <2> SUFFICES ASSUME NEW t \in Servers, NEW u \in Servers,
                      NEW i \in 1 .. Len(callChan'[t]), NEW j \in 1 .. Len(callChan'[u]),
                      callChan'[t][i] = callChan'[u][j]
               PROVE  t = u /\ i = j
    BY DEF WaitingOnce
  <2>1. t = u /\ old(t, i) = old(u, j)
    BY <1>6 DEF WaitingOnce
  <2> QED
    BY <2>1 DEF old
<1>11. SentIsWaiting'
  <2> SUFFICES ASSUME NEW j \in Calls, pc'[j] = "done", outcome'[j] = "none"
               PROVE  \E t \in Servers : \E i \in 1 .. Len(callChan'[t]) : callChan'[t][i] = j
    BY DEF SentIsWaiting
  <2>1. j # callChan[s][1] /\ outcome[j] = "none"
    BY <1>5
  <2>0. PICK t \in Servers : \E i \in 1 .. Len(callChan[t]) : callChan[t][i] = j
    BY <2>1 DEF SentIsWaiting
  <2>2. PICK i \in 1 .. Len(callChan[t]) : callChan[t][i] = j
    BY <2>0
  <2>3. CASE t = s
    <3>1. i # 1
      BY <2>1, <2>2, <2>3
    <3>2. i - 1 \in 1 .. Len(callChan'[s]) /\ callChan'[s][i - 1] = j
      BY <1>1, <1>3, <1>4, <2>2, <2>3, <3>1
    <3> QED
      BY <3>2
  <2>4. CASE t # s
    BY <1>2, <2>2, <2>4
  <2> QED
    BY <2>3, <2>4
<1> QED
  BY <1>7, <1>8, <1>9, <1>10, <1>11

LEMMA StepCallsInv == TypeOK /\ CallsInv /\ [Next]_vars => CallsInv'
BY CallStep, QuietCalls, ReportedCalls, SentCalls, RemovedCalls

-----------------------------------------------------------------------------
(* The draw.                                                               *)

\* What was added up at the last change was added up over some of the servers
\* that can be drawn now.
LEMMA StepTotalInv == TypeOK /\ TypeOK' /\ TotalInv /\ [Next]_vars => TotalInv'
<1> SUFFICES ASSUME TypeOK, TypeOK', TotalInv, [Next]_vars PROVE TotalInv'
  OBVIOUS
<1>0. Weighted(Choosable', info')
  <2>1. known' \subseteq Servers /\ Choosable' \subseteq known'
    BY DEF TypeOK, Choosable
  <2>2. IsFiniteSet(Choosable')
    BY <2>1, FS_Subset, ClientAssumption
  <2> QED
    BY <2>1, <2>2 DEF Weighted, TypeOK
<1>1. CASE Operator
  <2> DEFINE norm == {s \in known' : status'[s] = "norm"}
  <2>1. totalWeight' = SumWeight(norm, info')
    BY <1>1 DEF Operator, AddServer, ChangeServerStatus, TotalWeight
  <2>2. norm \subseteq Choosable'
    BY DEF Choosable
  <2> QED
    BY <1>0, <2>1, <2>2, SumMonotone DEF TotalInv
<1>2. CASE /\ UNCHANGED <<known, info, totalWeight>>
           /\ Choosable \subseteq Choosable'
  <2>1. SumWeight(Choosable, info) <= SumWeight(Choosable', info)
    BY <1>0, <1>2, SumMonotone
  <2>2. SumWeight(Choosable, info) \in Nat /\ SumWeight(Choosable', info) \in Nat
    BY <1>0, <1>2, ServersWeighted, SumType
  <2>3. totalWeight \in Nat
    BY DEF TypeOK
  <2> QED
    BY <1>2, <2>1, <2>2, <2>3 DEF TotalInv
<1>3. ASSUME NEW k \in Calls, SendCall(k)
      PROVE  /\ UNCHANGED <<known, info, totalWeight>>
             /\ Choosable \subseteq Choosable'
  <2>1. CASE DialFailed(k)
    <3>1. \A s \in known : status[s] # "pause" => status'[s] # "pause"
      BY <2>1 DEF DialFailed, TypeOK
    <3> QED
      BY <2>1, <3>1 DEF DialFailed, Choosable
  <2>2. CASE UNCHANGED <<known, info, totalWeight, status>>
    BY <2>2 DEF Choosable
  <2> QED
    BY <1>3, <2>1, <2>2 DEF SendCall, ChooseNone, Choose, CreateConn, CreateNoConn, AddConn,
          Dial, CountValid, Drain, DrainEnd, Send, SendFull, serverVars
<1>4. ASSUME NEW c \in Conns, Connection(c)
      PROVE  UNCHANGED <<known, info, totalWeight, status>>
  BY <1>4 DEF Connection, Take, WriterEnds, ShutDown, OnConnShutdown, serverVars
<1>5. UNCHANGED <<known, info, totalWeight, status>> => Choosable' = Choosable
  BY DEF Choosable
<1>6. UNCHANGED vars => UNCHANGED <<known, info, totalWeight, status>>
  BY DEF vars, serverVars
<1> QED
  BY <1>1, <1>2, <1>3, <1>4, <1>5, <1>6 DEF Next

\* The random numbers that lead to s after the servers in before.
LEMMA DrawnNumbers ==
  ASSUME NEW T \in Nat \ {0}, NEW W \in Nat, NEW w \in Nat, W + w <= T,
         NEW first \in BOOLEAN, first => W = 0,
         NEW X, X = {x \in 0 .. T - 1 : (first \/ W < x) /\ W + w >= x}
  PROVE  Cardinality(X) - w \in {-1, 0, 1}
<1> DEFINE lo == IF first THEN 0 ELSE W + 1
           hi == IF W + w < T THEN W + w ELSE T - 1
<1>1. lo \in Int /\ hi \in Int
  OBVIOUS
<1>2. X = lo .. hi
  OBVIOUS
<1>3. Cardinality(X) = IF lo > hi THEN 0 ELSE hi - lo + 1
  <2> HIDE DEF lo, hi
  <2> QED
    BY <1>1, <1>2, FS_Interval
<1> QED
  BY <1>3

-----------------------------------------------------------------------------
(* The theorems.                                                           *)

LEMMA InitIInv == Init => IInv
<1> SUFFICES ASSUME Init PROVE IInv
  OBVIOUS
<1>1. TypeOK
  BY InitTypeOK
<1>2. ListMatchesConns
  BY DEF Init, ListMatchesConns
<1>3. DiallerOwnsConn /\ NotYetReported /\ SentIsWaiting
  BY DEF Init, DiallerOwnsConn, NotYetReported, SentIsWaiting
<1>4. \A s \in Servers : Len(callChan[s]) = 0
  BY DEF Init
<1>5. ChanBounded /\ WaitingIsSent /\ WaitingOnce
  BY <1>4, ClientAssumption DEF ChanBounded, WaitingIsSent, WaitingOnce
<1>6. TotalInv
  <2>1. SumWeight(Choosable, info) \in Nat
    BY <1>1, ServersWeighted, SumType
  <2> QED
    BY <2>1 DEF Init, TotalInv
<1> QED
  BY <1>1, <1>2, <1>3, <1>5, <1>6 DEF IInv

\* The invariant that the safety properties rest on is inductive.
THEOREM Inductive == Spec => []IInv
<1>1. IInv /\ [Next]_vars => IInv'
  BY StepTypeOK, StepDiallerOwnsConn, StepListMatchesConns, StepCallsInv, StepTotalInv
     DEF IInv, CallsInv
<1> QED
  BY <1>1, InitIInv, PTL DEF Spec

\* Every reachable state has the shape the module declares: in particular a
\* goroutine past its choice has a server that is in mapServerInfo, and one that
\* dials has a connection (client.go:286).
THEOREM TypeCorrect == Spec => []TypeOK
<1>1. IInv => TypeOK
  BY DEF IInv
<1> QED
  BY <1>1, Inductive, PTL

\* ConnList holds exactly the connections of its server that are being dialled or
\* are not shut down, for any number of callers and connections (client.go:251).
THEOREM ListMatchesConnsHolds == Spec => []ListMatchesConns
<1>1. IInv => ListMatchesConns
  BY DEF IInv
<1> QED
  BY <1>1, Inductive, PTL

\* No call is lost between SendCall and the writers, and none is in two hands
\* (client.go:165, 372).
THEOREM CallsAccountedForHolds == Spec => []CallsAccountedFor
<1>1. IInv => CallsAccountedFor
  <2> SUFFICES ASSUME IInv, NEW k \in Calls
               PROVE  IF pc[k] = "done" /\ outcome[k] = "none"
                      THEN \E p \in Positions(k) : Positions(k) = {p}
                      ELSE Positions(k) = {}
    BY DEF CallsAccountedFor
  <2> USE DEF IInv
  <2>1. \A p \in Positions(k) :
           /\ p[1] \in Servers
           /\ p[2] \in 1 .. Len(callChan[p[1]])
           /\ callChan[p[1]][p[2]] = k
           /\ p = <<p[1], p[2]>>
    BY ClientAssumption DEF Positions, TypeOK
  <2>2. CASE pc[k] = "done" /\ outcome[k] = "none"
    <3>1. PICK s \in Servers : \E i \in 1 .. Len(callChan[s]) : callChan[s][i] = k
      BY <2>2 DEF SentIsWaiting
    <3>2. PICK i \in 1 .. Len(callChan[s]) : callChan[s][i] = k
      BY <3>1
    <3>3. <<s, i>> \in Positions(k)
      <4>1. Len(callChan[s]) \in Nat /\ Len(callChan[s]) <= MaxWaitCall
        BY DEF TypeOK, ChanBounded
      <4>2. i \in 1 .. MaxWaitCall
        BY <4>1, ClientAssumption
      <4> QED
        BY <3>2, <4>2 DEF Positions
    <3>4. \A p \in Positions(k) : p[1] = s /\ p[2] = i
      BY <2>1, <3>2 DEF WaitingOnce
    <3>5. Positions(k) = {<<s, i>>}
      BY <2>1, <3>3, <3>4
    <3> QED
      BY <2>2, <3>3, <3>5
  <2>3. CASE ~(pc[k] = "done" /\ outcome[k] = "none")
    BY <2>1, <2>3 DEF WaitingIsSent
  <2> QED
    BY <2>2, <2>3
<1> QED
  BY <1>1, Inductive, PTL

\* However many callers find connections missing at the same moment, none of them
\* opens one beyond MaxConnNum (client.go:311, 315).
THEOREM ConnLimitHolds == Spec => ConnLimit
<1>1. ASSUME IInv, Next, NEW s \in Servers, ~(connList'[s] \subseteq connList[s])
      PROVE  \/ Cardinality(connList'[s]) <= 1
             \/ Cardinality(connList'[s]) <= info[s].maxConn
  <2>1. TypeOK
    BY <1>1 DEF IInv
  <2>2. PICK k \in Calls : CreateConn(k)
    <3>1. ~Operator
      <4>1. Operator => connList' = connList
        BY DEF Operator, AddServer, ChangeServerStatus
      <4> QED
        BY <1>1, <4>1
    <3>2. \A c \in Conns : ~Connection(c)
      <4> SUFFICES ASSUME NEW c \in Conns, Connection(c) PROVE FALSE
        OBVIOUS
      <4>1. CASE Take(c) \/ WriterEnds(c) \/ ShutDown(c)
        BY <1>1, <4>1 DEF Take, WriterEnds, ShutDown, serverVars
      <4>2. CASE OnConnShutdown(c)
        <5>1. connList'[s] = connList[s] \/ connList'[s] = connList[s] \ {c}
          BY <2>1, <4>2 DEF OnConnShutdown, TypeOK
        <5> QED
          BY <1>1, <5>1
      <4> QED
        BY <4>1, <4>2 DEF Connection
    <3>3. PICK k \in Calls : SendCall(k)
      BY <1>1, <3>1, <3>2 DEF Next
    <3>4. CreateConn(k)
      <4>1. ~ChooseNone(k) /\ ~(\E t \in Servers : Choose(k, t)) /\ ~CreateNoConn(k)
            /\ ~Dial(k) /\ ~CountValid(k) /\ ~Drain(k) /\ ~DrainEnd(k) /\ ~Send(k)
            /\ ~SendFull(k)
        BY <1>1 DEF ChooseNone, Choose, CreateNoConn, Dial, CountValid, Drain, DrainEnd,
                    Send, SendFull, serverVars
      <4>2. ~DialFailed(k)
        <5>1. DialFailed(k) =>
                 connList'[s] = connList[s] \/ connList'[s] = connList[s] \ {conn[k]}
          BY <2>1 DEF DialFailed, RemoveConn, TypeOK
        <5> QED
          BY <1>1, <5>1
      <4> QED
        BY <3>3, <4>1, <4>2 DEF SendCall
    <3> QED
      BY <3>4
  <2>3. PICK c \in Conns : AddConn(k, server[k], c)
    BY <2>2 DEF CreateConn
  <2>4. s = server[k] /\ connList'[s] = connList[s] \cup {c}
    BY <1>1, <2>1, <2>3 DEF AddConn, TypeOK
  <2>5. IsFiniteSet(connList[s])
    BY <2>1, FS_Subset, ClientAssumption DEF TypeOK
  <2>6. /\ Cardinality(connList[s]) \in Nat
        /\ Cardinality(connList[s] \cup {c}) =
              IF c \in connList[s] THEN Cardinality(connList[s])
                                   ELSE Cardinality(connList[s]) + 1
    BY <2>5, FS_CardinalityType, FS_AddElement
  <2>7. CASE connList[s] = {}
    <3>1. Cardinality(connList[s]) = 0
      BY <2>7, FS_EmptySet
    <3> QED
      BY <2>4, <2>6, <3>1
  <2>8. CASE Cardinality(connList[s]) < info[s].maxConn
    <3>1. info[s].maxConn \in Nat
      BY <2>1 DEF TypeOK
    <3> QED
      BY <2>4, <2>6, <2>8, <3>1
  <2> QED
    BY <2>2, <2>4, <2>7, <2>8 DEF CreateConn
<1>2. IInv /\ [Next]_vars =>
         [\A s \in Servers : ~(connList'[s] \subseteq connList[s]) =>
             \/ Cardinality(connList'[s]) <= 1
             \/ Cardinality(connList'[s]) <= info[s].maxConn]_vars
  BY <1>1
<1> QED
  BY <1>2, Inductive, PTL DEF Spec, ConnLimit

\* While some server is not paused every random number leads to a server, whatever
\* the weights and however many dials have failed since they were added up
\* (client.go:277, 326).
THEOREM DrawFindsServerHolds == Spec => []DrawFindsServer
<1>1. IInv => DrawFindsServer
  <2> SUFFICES ASSUME IInv, Choosable # {}, NEW randNum \in RandNums
               PROVE  ~(SumWeight(Choosable, info) < randNum)
    BY DEF DrawFindsServer, CanChooseNone
  <2>1. SumWeight(Choosable, info) \in Nat
    BY ServersWeighted, SumType DEF IInv
  <2> QED
    BY <2>1 DEF RandNums, IInv, TypeOK, TotalInv
<1> QED
  BY <1>1, Inductive, PTL

\* Each server is led to by as many random numbers as it weighs, give or take one,
\* for any number of servers with any weights in any order (client.go:277).
THEOREM DrawFollowsWeightsHolds == Spec => []DrawFollowsWeights
<1>1. IInv => DrawFollowsWeights
  <2> SUFFICES ASSUME IInv, 0 < totalWeight, totalWeight = SumWeight(Choosable, info),
                      NEW s \in Choosable, NEW before \in SUBSET (Choosable \ {s})
               PROVE  Cardinality({x \in RandNums : LeadsTo(x, before, s)})
                         - info[s].weight \in {-1, 0, 1}
    BY DEF DrawFollowsWeights
  <2> DEFINE W == SumWeight(before, info)
             w == info[s].weight
             X == {x \in RandNums : LeadsTo(x, before, s)}
             first == before = {}
  <2>1. Weighted(Choosable, info)
    BY ServersWeighted DEF IInv
  <2>2. Weighted(before, info)
    BY <2>1, FS_Subset DEF Weighted
  <2>3. W \in Nat /\ w \in Nat /\ totalWeight \in Nat \ {0}
    <3>1. W \in Nat
      BY <2>2, SumType
    <3>2. w \in Nat
      BY <2>1 DEF Weighted
    <3>3. totalWeight \in Nat
      BY DEF IInv, TypeOK
    <3> QED
      BY <3>1, <3>2, <3>3
  <2>4. SumWeight(before \cup {s}, info) = W + w
    BY <2>1, SumAdds
  <2>5. W + w <= totalWeight
    <3>1. before \cup {s} \in SUBSET Choosable
      OBVIOUS
    <3>2. SumWeight(before \cup {s}, info) <= SumWeight(Choosable, info)
      BY <2>1, <3>1, SumMonotone
    <3> QED
      BY <2>4, <3>2
  <2>6. first \in BOOLEAN /\ (first => W = 0)
    BY SumEmpty
  <2>7. RandNums = 0 .. totalWeight - 1
    BY <2>3 DEF RandNums
  <2>8. X = {x \in 0 .. totalWeight - 1 : (first \/ W < x) /\ W + w >= x}
    BY <2>4, <2>7 DEF LeadsTo
  <2> HIDE DEF W, w, X, first
  <2>9. Cardinality(X) - w \in {-1, 0, 1}
    BY <2>3, <2>5, <2>6, <2>8, DrawnNumbers
  <2> QED
    BY <2>9 DEF X, w
<1> QED
  BY <1>1, Inductive, PTL

=============================================================================
