------------------------- MODULE ProtobufSerializer -------------------------
(***************************************************************************)
(* A message travels through QProtobufSerializer: serializeMessage writes  *)
(* the properties of the sender's object one by one, the bytes arrive,     *)
(* possibly cut short, at a receiver whose message type may lack some of   *)
(* the sender's fields, and deserialize reads them field by field into an  *)
(* object with default values.                                             *)
(*                                                                         *)
(* The calls of the decoder are a stack of frames: one for the message,    *)
(* one above it for an embedded object (deserializeObject, on a copy of    *)
(* the object's bytes) or for a pair of a map (deserializeMapPair, on the  *)
(* bytes of the message itself).                                           *)
(***************************************************************************)
EXTENDS WireFormat, FiniteSetsExt, Functions, TLC

CONSTANTS
  Schemas,   \* the sender's message types: functions from field numbers to kinds
  Inner,     \* the message type of embedded objects, of flat kinds
  Pair,      \* the types of a map's key and value: a function on {1, 2}
  Values     \* for each kind the values that a property can have

(* Field numbers are positive and leave room for the wire type in the uint32 *)
(* of a header.  Two restrictions of the model, not of the code: an embedded  *)
(* message has no embedded messages or maps of its own, and the key and the   *)
(* value of a map are basic types.                                            *)
IsSchema(schema, kinds) ==
  /\ schema = [f \in DOMAIN schema |-> schema[f]] /\ IsFiniteSet(DOMAIN schema)
  /\ \A f \in DOMAIN schema :
       f \in Nat \ {0} /\ f * 8 + 7 < Modulus /\ schema[f] \in kinds

ASSUME SchemaAssumption ==
  /\ \A schema \in Schemas : IsSchema(schema, Kinds)
  /\ IsSchema(Inner, Kinds \ Nested)
  /\ IsSchema(Pair, Basic) /\ DOMAIN Pair = {1, 2}

(* What the C++ type of a property can hold. *)
BasicValues(kind) ==
  CASE kind = "uint" -> 0..(Modulus - 1)
    [] kind \in {"sint", "int"} -> (-Half)..(Half - 1)
    [] kind \in {"fixed", "double"} -> [1..Size(WireType(kind)) -> Nat]
    [] kind = "bytes" -> Seq(Nat)

FlatValues(kind) ==
  CASE kind \in Basic -> BasicValues(kind)
    [] kind \in Packed -> Seq(BasicValues(Elem[kind]))
    [] kind = "strings" -> Seq(Seq(Nat))

IsObject(v) ==
  v = [f \in DOMAIN Inner |-> v[f]] /\ \A f \in DOMAIN Inner : v[f] \in FlatValues(Inner[f])

IsMap(v) ==
  /\ v = [k \in DOMAIN v |-> v[k]] /\ IsFiniteSet(DOMAIN v)
  /\ \A k \in DOMAIN v : k \in BasicValues(Pair[1]) /\ v[k] \in BasicValues(Pair[2])

ASSUME ValuesAssumption ==
  /\ \A kind \in Kinds \ Nested : \A v \in Values[kind] : v \in FlatValues(kind)
  /\ \A v \in Values["object"] : IsObject(v)
  /\ \A v \in Values["objects"] : v \in Seq(Range(v)) /\ \A i \in DOMAIN v : IsObject(v[i])
  /\ \A v \in Values["map"] : IsMap(v)

VARIABLES
  writer,    \* message type of the sender
  reader,    \* message type of the receiver
  sent,      \* the sender's object
  todo,      \* properties that serializeMessage has not come to
  fields,    \* the fields written so far, a sequence of byte sequences
  stack,     \* the frames of the decoder
  status     \* "writing", "reading", "done", or the exception thrown

vars == <<writer, reader, sent, todo, fields, stack, status>>

-----------------------------------------------------------------------------
(* The objects of a schema, and the one that a default constructor makes.  A value *)
(* is chosen together with its kind: values of two kinds cannot be compared.       *)

ObjectsOf(schema) ==
  LET tagged == UNION {{<<kind, v>> : v \in Values[kind]} : kind \in Range(schema)}
      chosen == {c \in [DOMAIN schema -> tagged] : \A f \in DOMAIN schema : c[f][1] = schema[f]}
  IN {[f \in DOMAIN schema |-> c[f][2]] : c \in chosen}

FlatDefault(kind) ==
  CASE kind \in {"uint", "sint", "int"} -> 0
    [] kind \in {"fixed", "double"} -> [i \in 1..Size(WireType(kind)) |-> 0]
    [] OTHER -> <<>>

(* An embedded object always exists: reading its lazy pointer makes one. *)
Default(kind) ==
  IF kind = "object" THEN [f \in DOMAIN Inner |-> FlatDefault(Inner[f])]
  ELSE FlatDefault(kind)

NewObject(schema) == [f \in DOMAIN schema |-> Default(schema[f])]

-----------------------------------------------------------------------------
(* Serialization. *)

SerializeObject(field, obj, order) ==
  EncodeHeader(field, LengthDelimited) \o
  PrependLengthDelimitedSize(SerializeMessage(Inner, obj, order))

SerializeList(field, list, order) ==
  [i \in 1..Len(list) |-> SerializeObject(field, list[i], order)]

SerializeMapPair(field, key, value) ==
  EncodeHeader(field, LengthDelimited) \o
  PrependLengthDelimitedSize(FlattenSeq(SerializeFlat(Pair[1], key, 1) \o
                                        SerializeFlat(Pair[2], value, 2)))

SerializeMap(field, map, keys) ==
  [i \in 1..Len(keys) |-> SerializeMapPair(field, keys[i], map[keys[i]])]

(* A map is written in the order of its keys, a QMap's; another implementation  *)
(* may send them in any order.                                                  *)
KeyOrders(map) == SetToSeqs(DOMAIN map)

(* The sequences of fields by which a property may be sent: serializeProperty *)
(* leaves out a null string, the order inside an embedded object is that of   *)
(* a hash table, and another implementation sends a negative int32 with its   *)
(* sign extended to 64 bits, which this one must read.                        *)
Encodings(kind, v, field) ==
  LET orders == SetToSeqs(DOMAIN Inner)
  IN CASE kind = "object" -> {<<SerializeObject(field, v, o)>> : o \in orders}
       [] kind = "objects" -> {SerializeList(field, v, o) : o \in orders}
       [] kind = "map" -> {SerializeMap(field, v, keys) : keys \in KeyOrders(v)}
       [] kind = "bytes" /\ v = <<>> -> {<<>>, SerializeFlat(kind, v, field)}
       [] kind = "int" /\ v < 0 ->
            {SerializeFlat(kind, v, field),
             <<EncodeHeader(field, Varint) \o SerializeVarint(v + Modulus * Modulus)>>}
       [] OTHER -> {SerializeFlat(kind, v, field)}

(* A field is shorter than its uint32 length can say: a QByteArray is. *)
ASSUME SizeAssumption ==
  \A schema \in Schemas : \A f \in DOMAIN schema : \A v \in Values[schema[f]] :
    \A e \in Encodings(schema[f], v, f) : \A i \in DOMAIN e : Len(e[i]) < Modulus

SerializeProperty(field) ==
  /\ status = "writing"
  /\ field \in todo
  /\ todo' = todo \ {field}
  /\ \E e \in Encodings(writer[field], sent[field], field) : fields' = fields \o e
  /\ UNCHANGED <<writer, reader, sent, stack, status>>

-----------------------------------------------------------------------------
(* Deserialization. *)

(* pair: the frame is a deserializeMapPair; last: where its loop ends;     *)
(* field: the property of the frame below that receives the result.        *)
Frame(pair, schema, data, it, last, field) ==
  [pair |-> pair, schema |-> schema, data |-> data, it |-> it, last |-> last,
   obj |-> NewObject(schema), field |-> field]

Top == stack[Len(stack)]

(* deserialize() starts on the first n bytes of the message. *)
Receive(n) ==
  /\ status = "writing" /\ todo = {}
  /\ status' = "reading"
  /\ LET data == SubSeq(FlattenSeq(fields), 1, n)
     IN stack' = <<Frame(FALSE, reader, data, 0, n, 0)>>
  /\ UNCHANGED <<writer, reader, sent, todo, fields>>

(* The property a header names; a pair of a map takes every field but the *)
(* first for the value.                                                    *)
Target(h) == IF ~Top.pair THEN h.field ELSE IF h.field = 1 THEN 1 ELSE 2

Throw(exception) == status' = exception /\ UNCHANGED stack

Continue(frame) ==
  /\ stack' = [stack EXCEPT ![Len(stack)] = frame]
  /\ UNCHANGED status

(* Faulty variant: the iterator is handed over by value. *)
EnterByValue(it, callee) ==
  /\ stack' = Append(stack, callee)
  /\ UNCHANGED status

(* Calls a function that reads the frame `callee' and moves on to `it'. *)
Enter(it, callee) ==
  /\ stack' = Append([stack EXCEPT ![Len(stack)].it = it], callee)
  /\ UNCHANGED status

(* Faulty variant: every field of a list starts it again. *)
MergeReplaces(kind, old, new) ==
  CASE kind = "enums" -> new
    [] kind \in {"strings", "objects"} -> <<new>>
    [] kind = "map" -> [k \in DOMAIN old \union {new[1]} |->
                          IF k = new[1] THEN new[2] ELSE old[k]]
    [] OTHER -> new

(* The value of a property after one more field of it was read: numbers, *)
(* numeric lists and objects are replaced, other lists and maps extended. *)
Merge(kind, old, new) ==
  CASE kind = "enums" -> old \o new
    [] kind \in {"strings", "objects"} -> Append(old, new)
    [] kind = "map" -> [k \in DOMAIN old \union {new[1]} |->
                          IF k = new[1] THEN new[2] ELSE old[k]]
    [] OTHER -> new

Write(frame, field, new) ==
  [frame EXCEPT !.obj[field] = Merge(frame.schema[field], frame.obj[field], new)]

(* The header h cannot be read, or is not valid. *)
BadHeader(h) ==
  \/ h.it = Thrown
  \/ ~Top.pair /\ ~ValidHeader(h)

RejectHeader(h) ==
  /\ BadHeader(h)
  /\ Throw(IF h.it = Thrown THEN "out_of_range" ELSE "invalid_argument")

SkipUnknown(h) ==
  /\ ~BadHeader(h)
  /\ ~Top.pair /\ h.field \notin DOMAIN Top.schema
  /\ LET it == SkipSerializedFieldBytes(h.type, Top.data, h.it)
     IN IF it = Thrown THEN Throw("out_of_range")
        ELSE Continue([Top EXCEPT !.it = it])

(* The kind of the property that h names, "none" when the cases above apply. *)
Known(h) ==
  IF BadHeader(h) \/ Target(h) \notin DOMAIN Top.schema
  THEN "none" ELSE Top.schema[Target(h)]

DeserializeFlat(h, kind) ==
  /\ kind \notin Nested \union {"none"}
  /\ LET r == IF kind \in Packed
              THEN DeserializeList(Elem[kind], Top.data, h.it)
              ELSE DeserializeBasic(IF kind = "strings" THEN "bytes" ELSE kind,
                                    Top.data, h.it)
     IN IF r.it = Thrown THEN Throw("out_of_range")
        ELSE Continue([Write(Top, Target(h), r.val) EXCEPT !.it = r.it])

DeserializeObject(h, kind) ==
  /\ kind \in {"object", "objects"}
  /\ LET r == DeserializeLengthDelimited(Top.data, h.it)
     IN IF r.it = Thrown THEN Throw("out_of_range")
        ELSE Enter(r.it, Frame(FALSE, Inner, r.val, 0, Len(r.val), Target(h)))

DeserializeMapPair(h, kind) ==
  /\ kind = "map"
  /\ LET count == DeserializeVarint(Top.data, h.it)
         last == IF count.it = Thrown THEN Thrown
                 ELSE Advance(Top.data, count.it, count.val)
     IN IF last = Thrown THEN Throw("out_of_range")
        ELSE Enter(last, Frame(TRUE, Pair, Top.data, count.it, last, Target(h)))

(* One round of the loop of deserializeMessage or deserializeMapPair. *)
DeserializeProperty ==
  /\ status = "reading"
  /\ Top.it # Top.last
  /\ LET h == DecodeHeader(Top.data, Top.it)
         kind == Known(h)
     IN \/ RejectHeader(h)
        \/ SkipUnknown(h)
        \/ DeserializeFlat(h, kind)
        \/ DeserializeObject(h, kind)
        \/ DeserializeMapPair(h, kind)
  /\ UNCHANGED <<writer, reader, sent, todo, fields>>

(* The loop of a called function ends and its caller writes the property. *)
Return ==
  /\ status = "reading"
  /\ Len(stack) > 1
  /\ Top.it = Top.last
  /\ LET caller == stack[Len(stack) - 1]
         result == IF Top.pair THEN <<Top.obj[1], Top.obj[2]>> ELSE Top.obj
     IN stack' = Append(SubSeq(stack, 1, Len(stack) - 2),
                        Write(caller, Top.field, result))
  /\ UNCHANGED <<writer, reader, sent, todo, fields, status>>

Finish ==
  /\ status = "reading"
  /\ Len(stack) = 1
  /\ Top.it = Top.last
  /\ status' = "done"
  /\ UNCHANGED <<writer, reader, sent, todo, fields, stack>>

-----------------------------------------------------------------------------
Init ==
  /\ writer \in Schemas
  /\ reader \in {Restrict(writer, S) : S \in SUBSET DOMAIN writer}
  /\ sent \in ObjectsOf(writer)
  /\ todo = DOMAIN writer
  /\ fields = <<>>
  /\ stack = <<>>
  /\ status = "writing"

(* deserialize has returned or thrown. *)
Ended ==
  /\ status \notin {"writing", "reading"}
  /\ UNCHANGED vars

Next ==
  \/ \E f \in todo : SerializeProperty(f)
  \/ \E n \in 0..Len(FlattenSeq(fields)) : Receive(n)
  \/ DeserializeProperty
  \/ Return
  \/ Finish
  \/ Ended

Spec == Init /\ [][Next]_vars

-----------------------------------------------------------------------------
(* The frames stand where the iterator's checks let them: inside the bytes *)
(* they read.                                                              *)
TypeOK ==
  /\ status \in {"writing", "reading", "done", "out_of_range", "invalid_argument"}
  /\ status = "writing" <=> stack = <<>>
  /\ \A i \in DOMAIN stack :
       /\ DOMAIN stack[i].obj = DOMAIN stack[i].schema
       /\ stack[i].it \in 0..Len(stack[i].data)
       /\ stack[i].last \in 0..Len(stack[i].data)

Received == Len(stack[1].data)
Boundaries == {Len(FlattenSeq(SubSeq(fields, 1, i))) : i \in 0..Len(fields)}

(* A message that arrives whole is read without error, and each property   *)
(* that both types have ends with the sender's value, whatever the order of *)
(* the fields, the values left out and the fields skipped as unknown.       *)
RoundTrip ==
  status \notin {"writing", "reading"} /\ Received = Len(FlattenSeq(fields)) =>
    /\ status = "done"
    /\ \A f \in DOMAIN reader : stack[1].obj[f] = sent[f]

(* deserialize throws out_of_range exactly when its input ends inside a     *)
(* field, be that field known, unknown or nested, and never invalid_argument *)
(* for a part of a well-formed message.                                      *)
ThrowsIffCut ==
  /\ status = "done" => Received \in Boundaries
  /\ status = "out_of_range" => Received \notin Boundaries
  /\ status # "invalid_argument"

(* a is what a property may hold when only some of its fields were read. *)
InitialPart(kind, a, b) ==
  \/ a = Default(kind) \/ a = b
  \/ kind \in {"strings", "objects"} /\ IsPrefix(a, b)
  \/ kind = "map" /\ DOMAIN a \subseteq DOMAIN b /\ \A k \in DOMAIN a : a[k] = b[k]

(* The object that deserialize fills, and hands out even when it throws,   *)
(* never holds part of a field: each property has its default, its final    *)
(* value, or the first elements of it.                                       *)
PartsAreWhole ==
  stack # <<>> =>
    \A f \in DOMAIN reader : InitialPart(reader[f], stack[1].obj[f], sent[f])

(* The bytes that the loops under way have before them, and their calls. *)
Remaining ==
  LET bytes[i \in 0..Len(stack)] ==
        IF i = 0 THEN 0 ELSE bytes[i - 1] + stack[i].last - stack[i].it
  IN 2 * bytes[Len(stack)] + Len(stack)

(* Every step of the decoder uses up bytes or returns from a call: a field, *)
(* however it is nested, cannot make the loops turn for ever.                *)
Progresses ==
  [][status = "reading" /\ status' = "reading" => Remaining' < Remaining]_vars
=============================================================================
