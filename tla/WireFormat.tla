----------------------------- MODULE WireFormat -----------------------------
(***************************************************************************)
(* The binary encoding of QProtobufSerializer: varints, ZigZag numbers,    *)
(* fixed-length values, length-delimited values, packed lists, headers,    *)
(* and the bounds-checked iterator the decoder moves over the bytes        *)
(* (qprotobufserializer_p.h, qprotobufselfcheckiterator.h).                *)
(*                                                                         *)
(* A varint byte carries a number below Chunk (128 in the code) and a      *)
(* continuation bit, so a byte is a number below 2 * Chunk.  uint32 counts *)
(* modulo 2 * Half (2^32).  A fixed-length value is the memory image of    *)
(* FixedSize (4) or 2 * FixedSize bytes, which the code copies as it is.   *)
(***************************************************************************)
EXTENDS Integers, Sequences, SequencesExt

CONSTANTS Chunk, Half, FixedSize

ASSUME WidthAssumption ==
  /\ Chunk \in Nat \ {0, 1}
  /\ Half \in Nat \ {0}
  /\ FixedSize \in Nat \ {0}

Modulus == 2 * Half

(***************************************************************************)
(* The kinds of properties.  Each stands for every C++ type that shares    *)
(* its code: "int" for int32, int64 and enums, "uint" also for bool,       *)
(* "double" for the 64 bit fixed types, "bytes" for QString.               *)
(***************************************************************************)
Elem == [uints |-> "uint", sints |-> "sint", ints |-> "int",
         fixeds |-> "fixed", enums |-> "int"]

Basic == {"uint", "sint", "int", "fixed", "double", "bytes"}
Packed == DOMAIN Elem
Nested == {"object", "objects", "map"}
Kinds == Basic \union Packed \union {"strings"} \union Nested

Varint == 0
Fixed64 == 1
LengthDelimited == 2
Fixed32 == 5
WireTypes == {Varint, Fixed64, LengthDelimited, Fixed32}

(* The wire type with which each type is entered in the handlers. *)
WireType(kind) ==
  CASE kind \in {"uint", "sint", "int"} -> Varint
    [] kind = "fixed" -> Fixed32
    [] kind = "double" -> Fixed64
    [] OTHER -> LengthDelimited

Size(type) == IF type = Fixed64 THEN 2 * FixedSize ELSE FixedSize

-----------------------------------------------------------------------------
(* Numbers. *)

(* static_cast between a signed type and its unsigned counterpart *)
Unsigned(v) == v % Modulus
Signed(u) == IF u < Half THEN u ELSE u - Modulus

(* (value << 1) ^ (value >> 31): the second operand is 0 or all ones. *)
ZigZag(v) == IF v >= 0 THEN Unsigned(2 * v) ELSE Modulus - 1 - Unsigned(2 * v)

(* (u >> 1) ^ (-1 * (u & 1)), stored in the signed type *)
UnZigZag(u) ==
  IF u % 2 = 0 THEN Signed(u \div 2) ELSE Signed(Modulus - 1 - u \div 2)

-----------------------------------------------------------------------------
(* Serializers. *)

SerializeVarint(v) ==
  LET groups[n \in Nat] ==
        IF n < Chunk THEN <<n>> ELSE <<(n % Chunk) + Chunk>> \o groups[n \div Chunk]
  IN groups[v]

PrependLengthDelimitedSize(bytes) ==
  SerializeVarint(Unsigned(Len(bytes))) \o bytes

EncodeHeader(field, type) == SerializeVarint(Unsigned(field * 8 + type))

(* A zero number is the empty byte array, which stands for "not sent". *)
SerializeBasic(kind, v) ==
  CASE kind \in {"fixed", "double"} -> v
    [] kind = "bytes" -> PrependLengthDelimitedSize(v)
    [] OTHER ->
         LET u == IF kind = "sint" THEN ZigZag(v) ELSE Unsigned(v)
         IN IF u = 0 THEN <<>> ELSE SerializeVarint(u)

(* Faulty variant: a zero is left out of the list as it is left out of a message. *)
PackedElementNoZero(kind, v) == SerializeBasic(kind, v)

(* In a packed list a zero is a byte of its own. *)
PackedElement(kind, v) ==
  LET element == SerializeBasic(kind, v)
  IN IF element = <<>> THEN <<0>> ELSE element

(* The fields that serializeProperty appends for a value that is not an  *)
(* object or a map, each with its header: none for a zero or empty value, *)
(* one for each element of a list of strings.                             *)
SerializeFlat(kind, v, field) ==
  CASE kind \in Basic ->
         LET bytes == SerializeBasic(kind, v)
         IN IF bytes = <<>> THEN <<>>
            ELSE <<EncodeHeader(field, WireType(kind)) \o bytes>>
    [] kind \in Packed ->
         IF v = <<>> THEN <<>>
         ELSE <<EncodeHeader(field, LengthDelimited) \o
                PrependLengthDelimitedSize(
                  FlattenSeq([i \in 1..Len(v) |-> PackedElement(Elem[kind], v[i])]))>>
    [] kind = "strings" ->
         [i \in 1..Len(v) |-> EncodeHeader(field, LengthDelimited) \o
                              PrependLengthDelimitedSize(v[i])]

(* serializeMessage over the properties of obj, in the order given: the  *)
(* property table is an unordered_map.                                    *)
SerializeMessage(schema, obj, order) ==
  FlattenSeq([i \in 1..Len(order) |->
    FlattenSeq(SerializeFlat(schema[order[i]], obj[order[i]], order[i]))])

-----------------------------------------------------------------------------
(***************************************************************************)
(* The iterator and the deserializers.  `it' counts the bytes before the   *)
(* iterator; Thrown stands for the iterator's std::out_of_range.  A        *)
(* QByteArray ends with a zero that can be read but not stepped over.      *)
(***************************************************************************)
Thrown == -1

At(data, it) == IF it < Len(data) THEN data[it + 1] ELSE 0

(* Faulty variant: the iterator stops at the end instead of throwing. *)
AdvanceCapped(data, it, count) ==
  IF it + count > Len(data) THEN Len(data) ELSE it + count

Advance(data, it, count) == IF it + count > Len(data) THEN Thrown ELSE it + count

(* The byte without continuation bit that ends the varint at it. *)
VarintEnd(data, it) ==
  CHOOSE i \in it..Len(data) :
    /\ At(data, i) < Chunk
    /\ \A j \in it..(i - 1) : At(data, j) >= Chunk

(* value[i] is the number whose lowest group of bits is the byte at i. *)
DeserializeVarint(data, it) ==
  LET value[i \in 0..Len(data)] ==
        (At(data, i) % Chunk) + (IF At(data, i) < Chunk THEN 0 ELSE Chunk * value[i + 1])
  IN [val |-> Unsigned(value[it]), it |-> Advance(data, VarintEnd(data, it), 1)]

(* A byte read without the iterator's check.  Outside stands for whatever lies  *)
(* in memory behind the array; that such a read may fault is not modelled.      *)
Outside == -2

ReadByte(data, it) == IF it > Len(data) THEN Outside ELSE At(data, it)

(* The count bytes at it, for an iterator that has not thrown before.  They are  *)
(* copied first; only then the iterator checks that they were there.             *)
Take(data, it, count) ==
  IF it = Thrown THEN [val |-> <<>>, it |-> Thrown]
  ELSE [val |-> [i \in 1..count |-> ReadByte(data, it + i - 1)],
        it |-> Advance(data, it, count)]

DeserializeLengthDelimited(data, it) ==
  LET length == DeserializeVarint(data, it)
  IN Take(data, length.it, length.val)

DeserializeBasic(kind, data, it) ==
  CASE kind = "bytes" -> DeserializeLengthDelimited(data, it)
    [] kind \in {"fixed", "double"} -> Take(data, it, Size(WireType(kind)))
    [] OTHER ->
         LET r == DeserializeVarint(data, it)
         IN CASE kind = "uint" -> r
              [] kind = "int" -> [r EXCEPT !.val = Signed(r.val)]
              [] kind = "sint" -> [r EXCEPT !.val = UnZigZag(r.val)]

(* Elements are read until the iterator stands at the end of the list; one *)
(* that stepped over that end reads on until it throws.                    *)
DeserializeList(kind, data, it) ==
  LET count == DeserializeVarint(data, it)
      last == IF count.it = Thrown THEN Thrown
              ELSE Advance(data, count.it, count.val)
      read[i \in 0..Len(data)] ==
        IF i = last THEN [val |-> <<>>, it |-> last]
        ELSE LET r == DeserializeBasic(kind, data, i)
             IN IF r.it = Thrown THEN [val |-> <<>>, it |-> Thrown]
                ELSE [val |-> <<r.val>> \o read[r.it].val, it |-> read[r.it].it]
  IN IF last = Thrown THEN [val |-> <<>>, it |-> Thrown] ELSE read[count.it]

DecodeHeader(data, it) ==
  LET r == DeserializeVarint(data, it)
  IN [field |-> r.val \div 8, type |-> r.val % 8, it |-> r.it]

ValidHeader(header) == header.field > 0 /\ header.type \in WireTypes

(* skipSerializedFieldBytes: the position behind the value of an unknown  *)
(* field.                                                                  *)
SkipSerializedFieldBytes(type, data, it) ==
  CASE type = Varint -> Advance(data, VarintEnd(data, it), 1)
    [] type \in {Fixed32, Fixed64} -> Advance(data, it, Size(type))
    [] type = LengthDelimited -> DeserializeLengthDelimited(data, it).it
=============================================================================
