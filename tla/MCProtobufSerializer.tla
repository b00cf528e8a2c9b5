------------------------ MODULE MCProtobufSerializer ------------------------
(***************************************************************************)
(* Model for TLC: three payload bits and one continuation bit per byte,    *)
(* 8 bit integers.  Every kind of property travels next to a number or     *)
(* next to a string, before or after it, to a reader that knows both,      *)
(* either or none.                                                         *)
(***************************************************************************)
EXTENDS ProtobufSerializer

MCSchemas ==
  {1 :> k @@ 9 :> other : k \in Kinds, other \in {"int", "bytes", "double"}}

MCInner == 1 :> "int" @@ 2 :> "bytes"
MCPair == 1 :> "uint" @@ 2 :> "bytes"

Object(i, s) == 1 :> i @@ 2 :> s

(* Zero, the last number of one byte, the first of two, and the extremes; *)
(* lengths above and below one byte.                                       *)
MCValues ==
  [uint |-> {0, 7, 8, 255}, sint |-> {-128, -1, 0, 127}, int |-> {-128, -1, 0, 127},
   fixed |-> {<<0, 0>>, <<8, 1>>}, double |-> {<<0, 0, 0, 0>>, <<8, 1, 8, 1>>},
   bytes |-> {<<>>, <<0>>, <<9, 15>>},
   uints |-> {<<>>, <<8, 0>>}, sints |-> {<<0, -128>>}, ints |-> {<<>>, <<0, 0>>, <<-1, 127>>},
   fixeds |-> {<<>>, <<<<0, 0>>, <<8, 1>>>>}, enums |-> {<<>>, <<0, 1>>},
   strings |-> {<<<<>>>>, <<<<0>>, <<>>, <<9, 15>>>>},
   object |-> {Object(0, <<>>), Object(-1, <<8>>)},
   objects |-> {<<>>, <<Object(0, <<>>), Object(8, <<9>>)>>},
   map |-> {<<>>, 0 :> <<>>, 0 :> <<8>> @@ 255 :> <<>>}]
=============================================================================
