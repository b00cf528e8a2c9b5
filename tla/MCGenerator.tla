---------------------------- MODULE MCGenerator ----------------------------
(***************************************************************************)
(* Model for TLC: two files.  The first holds the messages X, with N       *)
(* nested in it, and Y; the second, which it imports, Z with W nested in   *)
(* it.  A field of every kind is put into each of the messages of the      *)
(* first file.                                                             *)
(***************************************************************************)
EXTENDS Generator

Field(base, kind, of, card, key) ==
  [name |-> Name(base), kind |-> kind, of |-> of, card |-> card, key |-> key]

MessageFields ==
  {Field("f", "message", t, c, IF c = "map" THEN "int" ELSE "") :
     t \in {"X", "N", "Y", "Z", "W"}, c \in {"one", "many", "map"}}

OtherFields ==
  {Field("f", "enum", t, c, IF c = "map" THEN "string" ELSE "") :
     t \in {"A", "B", "D", "G"}, c \in {"one", "many", "map"}}
  \union {Field("f", "int", "", "one", ""), Field("f", "string", "", "map", "int"),
          Field("f", "qt", "QUrl", "one", ""), Field("f", "qt", "QUrl", "many", ""),
          Field("f", "qt", "QUrl", "map", "int")}

OfX == {<<>>, <<Field("a", "enum", "A", "one", ""), Field("b", "enum", "A", "many", "")>>,
        <<Field("y", "message", "Y", "many", "")>>, <<Field("u", "qt", "QUrl", "one", "")>>,
        <<Field("n", "message", "N", "many", "")>>,
        <<Field("i", "string", "", "map", "int"), Field("n", "message", "N", "one", "")>>}

Fields == MessageFields \union OtherFields

Descriptor(is, base, f, parent) ==
  [is |-> is, name |-> Name(base), file |-> f, parent |-> parent]

Cased(base, lower) == IF lower THEN ToLower(Name(base)) ELSE Name(base)

Schema(package, folder, low, syntax, methods, x, n, y) ==
  [desc |-> [X |-> [Descriptor("message", "X", "one", "") EXCEPT !.name = Cased("X", "X" \in low)],
             N |-> Descriptor("message", "N", "one", "X"),
             Y |-> Descriptor("message", "Y", "one", ""),
             Z |-> Descriptor("message", "Z", "two", ""),
             W |-> Descriptor("message", "W", "two", "Z"),
             A |-> Descriptor("enum", "A", "one", "X"),
             B |-> Descriptor("enum", "B", "one", "Y"),
             D |-> Descriptor("enum", "D", "two", "Z"),
             G |-> Descriptor("enum", "G", "two", ""),
             S |-> Descriptor("service", "S", "one", "")],
   fields |-> [X |-> x, N |-> n, Y |-> y, Z |-> <<>>, W |-> <<>>],
   nested |-> [X |-> <<"N">>, N |-> <<>>, Y |-> <<>>, Z |-> <<"W">>, W |-> <<>>],
   enums |-> [X |-> <<"A">>, N |-> <<>>, Y |-> <<"B">>, Z |-> <<"D">>, W |-> <<>>],
   value |-> [e \in {"A", "B", "D", "G"} |-> Cased("ONE", e \in low)],
   methods |-> [S |-> methods],
   file |-> [one |-> [package |-> <<Name("p"), Name("q")>>, dir |-> <<>>, name |-> Name("one"),
                      imports |-> <<"two">>, messages |-> <<"X", "Y">>, enums |-> <<>>,
                      services |-> <<"S">>, proto3 |-> TRUE],
             two |-> [package |-> package, dir |-> IF folder THEN package ELSE <<>>,
                      name |-> Name("two"), imports |-> <<>>, messages |-> <<"Z">>,
                      enums |-> <<"G">>, services |-> <<>>, proto3 |-> syntax]]]

Packages == {<<Name("p"), Name("q")>>, <<Name("r"), Name("s")>>}

MCOptions ==
  {<<"QML">>, <<"FOLDER", "FIELDENUM">>, <<"EXTRA_NAMESPACE">>,
   <<"MULTI", "FOLDER", "EXTRA_NAMESPACE">>}

Plain == {Field("f", "int", "", "one", ""), Field("f", "string", "", "map", "int")}

TopMethods == <<[in |-> "Y", out |-> "Z"]>>
NestedMethods == <<[in |-> "Z", out |-> "N"]>>
OtherMethods == <<[in |-> "X", out |-> "W"]>>

(* Package and fields of X, one more field and the message that has it, the *)
(* options, what begins with a small letter, the second file's syntax, methods. *)
MCKeys ==
  Packages \X OfX \X Fields \X {"X", "N", "Y"} \X MCOptions \X {{}} \X {TRUE} \X {TopMethods}
  \union {<<>>, <<Name("p")>>} \X OfX \X Plain \X {"X", "N", "Y"}
         \X {<<"QML", "FIELDENUM">>, <<"EXTRA_NAMESPACE", "QML">>, <<"MULTI", "QML">>}
         \X {{}, {"X"}} \X BOOLEAN \X {TopMethods, NestedMethods, OtherMethods}
  \union Packages \X {<<>>} \X {Field("f", "enum", "A", c, "") : c \in {"one", "many"}} \X {"X"}
         \X MCOptions \X {{}, {"A"}} \X {TRUE} \X {TopMethods}

MCInputs ==
  [i \in MCKeys |->
     LET In(m) == IF i[4] = m THEN <<i[3]>> ELSE <<>>
     IN [schema |-> Schema(i[1], "FOLDER" \in ToSet(i[5]), i[6], i[7], i[8],
                           i[2] \o In("X"), In("N"), In("Y")),
         env |-> i[5]]]
=============================================================================
