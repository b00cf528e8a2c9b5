-------------------------- MODULE MCJsonSerializer --------------------------
(* Messages of two properties, of every pair of kinds, with the values that *)
(* the serializer may mistake.                                              *)
EXTENDS JsonSerializer

Of(k) == [k |-> k]
ListOf(k) == [k |-> "list", of |-> k]
MapOf(key, k) == [k |-> "map", key |-> key, of |-> k]
Message(kinds) == [k |-> "message", of |-> kinds]
Dense == [k |-> "enum", table |-> <<"zero", "one">>, values |-> <<0, 1>>]
Sparse == [k |-> "enum", table |-> <<"zero", "two">>, values |-> <<0, 2>>]

A == <<"plain", "a">>
Strings == <<<<>>, <<A>>, <<Word("null")>>, <<Num(1)>>, <<A, Quote>>, <<Backslash, A>>, <<A, Backslash>>>>
Point == Message(<<Of("int"), Of("string")>>)
Zero == <<0, <<>>>>
One == <<1, <<A>>>>

MCKinds ==
  <<[kind |-> Of("int"), values |-> <<0, 1>>],
    [kind |-> Of("bool"), values |-> <<FALSE, TRUE>>],
    [kind |-> Of("float"), values |-> <<0, 10, 15>>],
    [kind |-> Of("double"), values |-> <<0, 15>>],
    [kind |-> Of("string"), values |-> Strings],
    [kind |-> Of("bytes"), values |-> <<0, 1>>],
    [kind |-> Dense, values |-> <<0, 1>>],
    [kind |-> Sparse, values |-> <<0, 2>>],
    [kind |-> ListOf(Of("int")), values |-> <<<<>>, <<0>>, <<1, 0>>>>],
    [kind |-> ListOf(Of("float")), values |-> <<<<10>>, <<10, 15>>>>],
    [kind |-> ListOf(Of("string")), values |-> <<<<>>, <<<<>>>>, <<<<A>>, <<Word("null")>>>>, <<<<A, Quote>>>>>>],
    [kind |-> ListOf(Of("bytes")), values |-> <<<<0, 1>>>>],
    [kind |-> ListOf(Dense), values |-> <<<<>>, <<1, 0, 1>>>>],
    [kind |-> ListOf(Sparse), values |-> <<<<0, 2>>>>],
    [kind |-> Point, values |-> <<Zero, One>>],
    [kind |-> Message(<<>>), values |-> <<<<>>>>],
    [kind |-> Message(<<ListOf(Of("int")), Dense>>), values |-> <<<<<<>>, 0>>, <<<<1>>, 1>>>>],
    [kind |-> ListOf(Point), values |-> <<<<>>, <<Zero>>, <<One, Zero, One>>, <<Null, One>>>>],
    [kind |-> MapOf(Of("int"), Of("string")),
     values |-> <<<<>>, <<<<0, <<>>>>>>, <<<<0, <<A>>>>, <<1, <<A, Quote>>>>>>, <<<<0, <<A>>>>, <<1, <<>>>>>>>>],
    [kind |-> MapOf(Of("string"), Point),
     values |-> <<<<>>, <<<<<<>>, One>>>>, <<<<<<A>>, Zero>>, <<<<A, A>>, Null>>>>, <<<<<<A>>, One>>, <<<<A, A>>, Zero>>>>>>],
    [kind |-> MapOf(Of("bool"), Of("int")), values |-> <<<<<<FALSE, 1>>>>, <<<<FALSE, 1>>, <<TRUE, 0>>>>>>]>>
=============================================================================
