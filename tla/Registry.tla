------------------------------ MODULE Registry ------------------------------
(***************************************************************************)
(* The services of a TServer (rpc/server.go): Register, RegisterName and   *)
(* getSeviceMethod, which the read loop of every connection calls while    *)
(* services are still being added.  A section under mu is one step.        *)
(*                                                                         *)
(* A name is the sequence of its parts between dots: "test.Echo" is        *)
(* <<"test", "Echo">> and the empty string is <<>>.                        *)
(***************************************************************************)
EXTENDS Naturals, Sequences

CONSTANTS
    Receivers,      \* the values passed to Register and RegisterName
    TypeName,       \* the name of the type of each, <<>> if it has none
    ExportedNames,  \* the names that begin with an upper-case letter
    MethodsOf,      \* the methods of each
    ServiceNames    \* the names passed to RegisterName

\* What reflection tells of a type: how many pointers lead to what.
Type == [ptrs : Nat, base : {"exported", "builtin", "unexported"}]

\* The first of ins is the receiver.
IsMethod(m) ==
    /\ DOMAIN m = {"name", "exported", "ins", "outs"}
    /\ m.name \in STRING
    /\ m.exported \in BOOLEAN
    /\ m.ins \in Seq(Type)
    /\ m.outs \in Seq({"error", "other"})

ASSUME RegistryAssumption ==
    /\ \A v \in Receivers : TypeName[v] \in Seq(STRING) /\ Len(TypeName[v]) <= 1
    /\ ServiceNames \subseteq Seq(STRING)
    /\ \A v \in Receivers : \A m, n \in MethodsOf[v] :
          IsMethod(m) /\ (m.name = n.name => m = n)

VARIABLE services    \* serviceMap, as the set of its values

Service == [name : ServiceNames \cup {TypeName[v] : v \in Receivers},
            rcvr : Receivers,
            method : SUBSET UNION {MethodsOf[v] : v \in Receivers}]

RegistryTypeOK == services \subseteq Service

RegistryInit == services = {}

-----------------------------------------------------------------------------

IsExported(name) == name \in ExportedNames
IsExportedOrBuiltinType(t) == t.base # "unexported"

\* Mutant: the second argument may be a value.
suitableMethodsByValue(v) ==
    {m \in MethodsOf[v] :
        /\ m.exported
        /\ Len(m.ins) = 3
        /\ IsExportedOrBuiltinType(m.ins[2])
        /\ IsExportedOrBuiltinType(m.ins[3])
        /\ m.outs = <<"error">>}

suitableMethods(v) ==
    {m \in MethodsOf[v] :
        /\ m.exported
        /\ Len(m.ins) = 3
        /\ IsExportedOrBuiltinType(m.ins[2])
        /\ m.ins[3].ptrs > 0
        /\ IsExportedOrBuiltinType(m.ins[3])
        /\ m.outs = <<"error">>}

\* Mutant: a service takes the place of the one that has its name.
registerAgain(v, sname) ==
    /\ sname # <<>>
    /\ suitableMethods(v) # {}
    /\ services' = {s \in services : s.name # sname}
                      \cup {[name |-> sname, rcvr |-> v, method |-> suitableMethods(v)]}

\* register.  When a condition fails, an error is returned and nothing changes.
register(v, sname) ==
    /\ sname # <<>>
    /\ \A s \in services : s.name # sname
    /\ suitableMethods(v) # {}
    /\ services' = services \cup
          {[name |-> sname, rcvr |-> v, method |-> suitableMethods(v)]}

Register ==
    \E v \in Receivers : IsExported(TypeName[v]) /\ register(v, TypeName[v])

RegisterName ==
    \E v \in Receivers, name \in ServiceNames : register(v, name)

\* getSeviceMethod: the service before the first dot, and its method after it.
\* The empty set stands for the three errors.
getSeviceMethod(name) ==
    IF Len(name) < 2 THEN {}
    ELSE UNION {{[rcvr |-> s.rcvr, method |-> m] :
                    m \in {m \in s.method : <<m.name>> = Tail(name)}} :
                 s \in {s \in services : s.name = <<Head(name)>>}}

-----------------------------------------------------------------------------
(* Properties.                                                             *)

\* The read loop and the goroutine of a call trust a registered method: the third
\* of its three parameters is made with ReplyType.Elem(), which panics on anything
\* but a pointer, and its result is asserted to be an error (server_conn.go:235,
\* 283, 319).  Its name leads to it, unless there is a dot in the name of the service,
\* which RegisterName does not refuse: then nothing does (server.go:288).
RegisteredIsServable ==
    \A s \in services : \A m \in s.method :
       /\ Len(m.ins) = 3 /\ m.ins[3].ptrs > 0
       /\ \A i \in DOMAIN m.outs : m.outs[i] = "error"
       /\ getSeviceMethod(s.name \o <<m.name>>) =
             IF Len(s.name) = 1 THEN {[rcvr |-> s.rcvr, method |-> m]} ELSE {}

\* "Services may be added at run time, but no method to a service", for which
\* reason the map of methods is read without the lock (server.go:296): what a
\* lookup has found it finds again.
FoundIsFoundAgain ==
    [][\A s \in services : \A m \in s.method :
          LET name == s.name \o <<m.name>>
          IN  getSeviceMethod(name) # {} =>
                 getSeviceMethod(name)' = getSeviceMethod(name)]_services

-----------------------------------------------------------------------------
(* The inductive invariant behind RegisteredIsServable.                    *)

RegistryInv ==
    /\ RegistryTypeOK
    /\ \A s \in services : s.name # <<>> /\ s.method = suitableMethods(s.rcvr)
    /\ \A s, t \in services : s.name = t.name => s = t

=============================================================================
