------------------------------- MODULE MCWire -------------------------------
(* Finite instances of Wire for TLC. *)
EXTENDS WireRefinement

T(p, b) == [ptrs |-> p, base |-> b]
Echo == [name |-> "Echo", exported |-> TRUE, outs |-> <<"error">>,
         ins |-> <<T(1, "exported"), T(0, "builtin"), T(1, "builtin")>>]
\* The reply is not a pointer.
Bare == [name |-> "Bare", exported |-> TRUE, outs |-> <<"error">>,
         ins |-> <<T(1, "exported"), T(0, "builtin"), T(0, "exported")>>]
Panic == [Echo EXCEPT !.name = "Panic"]

\* Two services with the same type name, one with a method that is not suitable; a
\* name with a dot.
MCTypeName == [v \in Receivers |-> <<"Test">>]
MCNames == {<<"v2", "Test">>}
MCExported == {<<"Test">>}
MCMethods == [v \in Receivers |-> IF v = "a" THEN {Echo, Bare} ELSE {Panic, Echo}]

K(n, a, r) == [name |-> n, args |-> a, reply |-> r]
EchoName == <<"Test", "Echo">>
MCPanicNames == {<<"Test", "Panic">>}
EchoKinds == {K(EchoName, a, r) : a \in BOOLEAN, r \in BOOLEAN}
AllKinds ==
    EchoKinds
       \cup {K(<<"Test", "Panic">>, TRUE, TRUE), K(PingName, TRUE, TRUE),
             K(PingName, FALSE, TRUE), K(<<>>, TRUE, TRUE)}

=============================================================================
