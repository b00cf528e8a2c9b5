--------------------------- MODULE JsonSerializer ---------------------------
(***************************************************************************)
(* QProtobufJsonSerializer: a message is written as JSON, by it or by a    *)
(* peer that omits properties, writes null for them or adds some of its    *)
(* own, and is read into a new object, property by property.               *)
(*                                                                         *)
(* A kind is the type of a property: a record whose field `k' is "int",    *)
(* "float" (what has a six digit text: float, and double in a list),       *)
(* "double", "bool", "string", "bytes", "enum" (with its table of values), *)
(* "list" or "map" (of a kind) or "message" (of a sequence of kinds).  A   *)
(* message is the sequence of the values of its properties; property i has *)
(* the name i.  Null is a null pointer in a list or a map.                 *)
(*                                                                         *)
(* Text is a sequence of tokens, tuples: brackets, quotes, commas, colons  *)
(* and backslashes, and runs of other characters, each of which is a       *)
(* number, a word, a name or a piece of plain text.                        *)
(***************************************************************************)
EXTENDS Integers, Sequences, SequencesExt, FiniteSets

CONSTANTS
  Kinds,         \* the kinds of properties: a sequence of records [kind, values], the
                 \* values a sequence too
  MaxProperties  \* bound: the properties of a message

Null == <<"null", "pointer", "">>

(* A QVariant holds a value or is invalid. *)
Invalid == <<>>
Valid(v) == <<v>>

VARIABLES
  sent,    \* the message and its type
  peer,    \* what is written of each property: "value", "null" or "absent"
  left,    \* the properties that parseJsonObject has found and that are not written
  current, \* deserializeValue: the property, what is left of its text, its value
  got,     \* the object that is read into
  phase    \* "write", "read", "loop" (in deserializeValue), "done"; "broken" is a
           \* text that is not JSON

vars == <<sent, peer, left, current, got, phase>>

Quote == <<"quote">>  Backslash == <<"backslash">>  Comma == <<",">>  Colon == <<":">>
Num(n) == <<"num", n>>
Word(w) == <<"word", w>>
Quoted(t) == <<Quote>> \o t \o <<Quote>>

Has(k, kinds) == k.k \in kinds

(* F of the value of e, which is evaluated once. *)
With(e, F(_)) == CHOOSE r \in {F(x) : x \in {e}} : TRUE

(* The types with a handler in the global registry; the others are simple. *)
HasHandler(k) == \/ Has(k, {"enum", "map", "message"})
                 \/ k.k = "list" /\ Has(k.of, {"enum", "message"})

-----------------------------------------------------------------------------
(* Writing. *)

IsNullPointer(k, v) == k.k = "message" /\ v = Null

(* QString::number with format g keeps six digits: the last of these is lost. *)
SixDigits(n) == n - (n % 10)

(* metaEnum.key(value) takes the index of a key, not a value: the text is    *)
(* empty when there is none.                                                 *)
Key(k, v) == IF v + 1 \in DOMAIN k.table THEN <<<<"key", k.table[v + 1]>>>> ELSE <<>>

Text(q) == <<Word(IF q THEN "true" ELSE "false")>>

(* Faulty variant: nothing removes the comma after the last element. *)
EndKeepingComma(buffer, close) == Append(buffer, close)

(* serializeListEnd, serializeMapEnd and the end of the simple lists *)
End(buffer, close) ==
  Append(IF Last(buffer) = Comma THEN Front(buffer) ELSE buffer, close)

RECURSIVE serializeValue(_, _)
RECURSIVE serializeObject(_, _)

Elements(k, v) ==
  FlattenSeq([i \in DOMAIN v |->
                IF IsNullPointer(k, v[i]) THEN <<>> ELSE serializeValue(k, v[i]) \o <<Comma>>])

(* key.toString(): the text of a key is quoted whatever its type is. *)
KeyText(k, v) == IF k.k = "string" THEN v ELSE IF k.k = "bool" THEN Text(v) ELSE <<Num(v)>>

Pairs(k, v) ==
  FlattenSeq([i \in DOMAIN v |->
                IF IsNullPointer(k.of, v[i][2]) THEN <<>>
                ELSE Quoted(KeyText(k.key, v[i][1])) \o <<Colon>>
                     \o serializeValue(k.of, v[i][2]) \o <<Comma>>])

serializeValue(k, v) ==
  CASE k.k \in {"int", "double"} -> <<Num(v)>>
    [] k.k = "float" -> <<Num(SixDigits(v))>>
    [] k.k = "bool" -> Text(v)
    [] k.k = "string" -> Quoted(v)
    [] k.k = "bytes" -> Quoted(<<<<"base64", v>>>>)
    [] k.k = "enum" -> Quoted(Key(k, v))
    [] k.k = "list" -> With(<<<<"[">>>> \o Elements(k.of, v), LAMBDA buffer : End(buffer, <<"]">>))
    [] k.k = "map" -> With(<<<<"{">>>> \o Pairs(k, v), LAMBDA buffer : End(buffer, <<"}">>))
    [] k.k = "message" -> serializeObject(k.of, v)

serializeProperty(i, k, v) ==
  Quoted(<<<<"name", i>>>>) \o <<Colon>> \o serializeValue(k, v) \o <<Comma>>

(* The last character is removed, whatever it is. *)
serializeObject(kinds, v) ==
  With(<<<<"{">>>> \o FlattenSeq([i \in DOMAIN kinds |-> serializeProperty(i, kinds[i], v[i])]),
       LAMBDA result : Append(Front(result), <<"}">>))

(* What a peer may write: as above, in any order, with a property that this *)
(* side does not know, with nulls, and without some of the properties.      *)
PeerText(order, how, unknown) ==
  LET one(i) == CASE how[i] = "value" -> serializeProperty(i, sent.type[i], sent.message[i])
                  [] how[i] = "null" ->
                       Quoted(<<<<"name", i>>>>) \o <<Colon, Word("null"), Comma>>
                  [] how[i] = "absent" -> <<>>
      more == IF unknown THEN serializeProperty(0, [k |-> "int"], 1) ELSE <<>>
  IN With(<<<<"{">>>> \o FlattenSeq([i \in DOMAIN order |-> one(order[i])]) \o more,
          LAMBDA buffer : End(buffer, <<"}">>))

-----------------------------------------------------------------------------
(* microjson, as the serializer uses it. *)

(* The last token of a string that begins before i, and of a value that     *)
(* begins at i, inside of `depth' brackets; 0 if it has no end.             *)
RECURSIVE StringEnd(_, _)
StringEnd(t, i) ==
  IF i > Len(t) THEN 0 ELSE IF t[i] = Quote THEN i
  ELSE With(IF t[i] = Backslash THEN i + 2 ELSE i + 1, LAMBDA next : StringEnd(t, next))

Depth(token) == CASE token \in {<<"{">>, <<"[">>} -> 1
                  [] token \in {<<"}">>, <<"]">>} -> -1
                  [] OTHER -> 0

RECURSIVE EndFrom(_, _, _)
EndFrom(t, i, depth) ==
  IF i > Len(t) THEN 0
  ELSE With(<<IF t[i] = Quote THEN StringEnd(t, i + 1) ELSE i, depth + Depth(t[i])>>,
            LAMBDA now : IF 0 \in {now[1], now[2]} THEN now[1] ELSE EndFrom(t, now[1] + 1, now[2]))

ValueEnd(t) == With(t, LAMBDA text : EndFrom(text, 1, 0))

JsonType(token) ==
  CASE token = Quote -> "string" [] token = <<"[">> -> "array"
    [] token[1] = "num" -> "number" [] token \in {Word("true"), Word("false")} -> "bool"
    [] OTHER -> "object"

Starts(t) == t # <<>> /\ Head(t)[1] \in {"quote", "{", "[", "num", "word"} /\ ValueEnd(t) # 0

(* extractValue: the value at the start of t, and the rest behind its comma. *)
ValueTo(t, e) ==
  LET more == e < Len(t) /\ t[e + 1] = Comma
  IN [type |-> JsonType(Head(t)),
      value |-> IF Head(t) = Quote THEN SubSeq(t, 2, e - 1) ELSE SubSeq(t, 1, e),
      rest |-> SubSeq(t, IF more THEN e + 2 ELSE e + 1, Len(t)),
      comma |-> more]

extractValue(t) == With(ValueEnd(t), LAMBDA e : ValueTo(t, e))

(* extractProperty: a name, a colon and a value *)
IsProperty(t) ==
  /\ t # <<>> /\ Head(t) = Quote
  /\ With(ValueEnd(t), LAMBDA e : e # 0 /\ e < Len(t) /\ t[e + 1] = Colon /\ Starts(SubSeq(t, e + 2, Len(t))))

extractProperty(t) ==
  With(ValueEnd(t), LAMBDA e :
         extractValue(SubSeq(t, e + 2, Len(t))) @@ [name |-> SubSeq(t, 2, e - 1)])

(* The members of an object or an array, from behind its opening bracket, *)
(* and whether the text is JSON.                                           *)
RECURSIVE Members(_, _, _)
Members(t, close, first) ==
  IF t = <<close>> /\ first THEN [json |-> TRUE, all |-> <<>>]
  ELSE IF ~(IF close = <<"}">> THEN IsProperty(t) ELSE Starts(t)) THEN [json |-> FALSE, all |-> <<>>]
  ELSE With(IF close = <<"}">> THEN extractProperty(t) ELSE extractValue(t), LAMBDA m :
         IF ~m.comma THEN [json |-> m.rest = <<close>>, all |-> <<m>>]
         ELSE With(Members(m.rest, close, FALSE), LAMBDA others :
                [json |-> others.json, all |-> <<m>> \o others.all]))

Parsed(t, open, close) ==
  IF t # <<>> /\ Head(t) = open THEN With(Tail(t), LAMBDA inner : Members(inner, close, TRUE))
  ELSE [json |-> FALSE, all |-> <<>>]

parseJsonObject(t) == Parsed(t, <<"{">>, <<"}">>)
parseJsonArray(t) == Parsed(t, <<"[">>, <<"]">>)

-----------------------------------------------------------------------------
(* Reading. *)

RECURSIVE Default(_)
Default(k) ==
  CASE k.k \in {"int", "float", "double", "enum", "bytes"} -> 0
    [] k.k = "bool" -> FALSE
    [] k.k \in {"string", "list", "map"} -> <<>>
    [] k.k = "message" -> [i \in DOMAIN k.of |-> Default(k.of[i])]

(* QVariant::value and QMetaProperty::write: what is invalid is a default. *)
OrDefault(k, v) == IF v = Invalid THEN Default(k) ELSE v[1]

Result(good, v) == [ok |-> good, value |-> v]

Unescaped(s) ==
  FlattenSeq([i \in DOMAIN s |->
                IF s[i] = Backslash /\ i < Len(s) /\ s[i + 1] = Quote THEN <<>> ELSE <<s[i]>>])

(* A handler of a simple type.  `ok |= type == JsonNumberType': a number, in *)
(* quotes or not, and anything that microjson takes for a number.            *)
deserializeSimple(k, t, type) ==
  CASE k.k \in {"int", "float", "double"} ->
         IF Len(t) = 1 /\ t[1][1] = "num" THEN Result(TRUE, Valid(t[1][2]))
         ELSE Result(type = "number", Valid(0))
    [] k.k = "bool" ->
         IF type = "bool" THEN Result(TRUE, Valid(t = Text(TRUE))) ELSE Result(FALSE, Invalid)
    [] k.k = "string" ->
         IF type = "string" THEN Result(TRUE, Valid(Unescaped(t))) ELSE Result(FALSE, Invalid)
    [] k.k = "bytes" ->
         IF type = "string" THEN Result(TRUE, Valid(t[1][2])) ELSE Result(FALSE, Invalid)

(* The lists of numbers, strings and bytes: an element that is not one gets *)
(* the default.                                                             *)
deserializeList(k, t, type) ==
  LET element(x) == OrDefault(k.of, deserializeSimple(k.of, x.value, x.type).value)
  IN IF type # "array" THEN Result(FALSE, Invalid)
     ELSE With(parseJsonArray(t).all, LAMBDA values :
            Result(TRUE, Valid([i \in DOMAIN values |-> element(values[i])])))

(* keyToValue: -1 when there is no such key *)
keyToValue(k, t) ==
  IF \E v \in DOMAIN k.table : t = <<<<"key", k.table[v]>>>>
  THEN k.values[CHOOSE v \in DOMAIN k.table : t = <<<<"key", k.table[v]>>>>] ELSE -1

deserializeEnumList(k, t) ==
  With(parseJsonArray(t).all, LAMBDA values :
         [i \in DOMAIN values |-> IF values[i].value = <<Word("null")>> THEN k.values[1]
                                  ELSE keyToValue(k, values[i].value)])

Step(t, v) == [it |-> t, value |-> v]

RECURSIVE deserializeObject(_, _)
RECURSIVE deserializeValue(_, _, _)
RECURSIVE HandlerLoop(_, _, _)

Skip(t, bracket) == IF Head(t) = bracket THEN Tail(t) ELSE t

(* One element of a list, and the iterator behind it. *)
ListElement(k, r, previous) ==
  With(extractValue(r), LAMBDA x :
         Step(x.rest, Valid(Append(OrDefault(k, previous), deserializeObject(k.of.of, x.value)))))

(* Faulty variant: the iterator stays at the bracket that closes the list. *)
deserializeListObjectStays(k, t, previous) ==
  With(Skip(t, <<"[">>), LAMBDA r :
         IF Starts(r) THEN ListElement(k, r, previous) ELSE Step(r, previous))

(* At the end of the list, the iterator goes to the end of the text. *)
deserializeListObject(k, t, previous) ==
  With(Skip(t, <<"[">>), LAMBDA r :
         IF Starts(r) THEN ListElement(k, r, previous) ELSE Step(<<>>, previous))

(* A QMap is kept as the sequence of its pairs: out[key] = value *)
Insert(pairs, key, value) ==
  LET at == SelectInSeq(pairs, LAMBDA p : p[1] = key)
  IN IF at = 0 THEN Append(pairs, <<key, value>>) ELSE [pairs EXCEPT ![at] = <<key, value>>]

(* What deserializeValue has returned; without `ok' it is dropped. *)
Read(k, r) == IF r.ok THEN OrDefault(k, r.value) ELSE Default(k)

deserializeMapPair(k, t, previous) ==
  With(Skip(t, <<"{">>), LAMBDA r :
    IF ~IsProperty(r) THEN Step(<<>>, previous)
    ELSE With(extractProperty(r), LAMBDA x :
           With(deserializeValue(k.of, x.value, x.type), LAMBDA value :
             Step(x.rest, Valid(Insert(OrDefault(k, previous),
                                       Read(k.key, deserializeValue(k.key, x.name, "string")),
                                       Read(k.of, value)))))))

(* A call of the handler of a type. *)
Handler(k, t, previous) ==
  CASE k.k = "enum" -> Step(<<>>, Valid(keyToValue(k, t)))
    [] k.k = "message" -> Step(<<>>, Valid(deserializeObject(k.of, t)))
    [] k.k = "map" -> deserializeMapPair(k, t, previous)
    [] k.k = "list" /\ k.of.k = "message" -> deserializeListObject(k, t, previous)
    [] k.k = "list" /\ k.of.k = "enum" -> Step(<<>>, Valid(deserializeEnumList(k.of, t)))

(* while (it != last) *)
HandlerLoop(k, t, previous) ==
  IF t = <<>> THEN previous
  ELSE With(Handler(k, t, previous), LAMBDA s : HandlerLoop(k, s.it, s.value))

Simple(k, t, type) ==
  IF k.k = "list" THEN deserializeList(k, t, type) ELSE deserializeSimple(k, t, type)

deserializeValue(k, t, type) ==
  IF HasHandler(k) THEN Result(t # <<>>, HandlerLoop(k, t, Invalid)) ELSE Simple(k, t, type)

IsNull(p) == p.value = <<Word("null")>> /\ p.type = "object"

(* Property p of a text belongs to property i of the type. *)
Names(p, i) == p.name = <<<<"name", i>>>>

(* An object in an object, read in one go. *)
deserializeObject(kinds, t) ==
  With(parseJsonObject(t).all, LAMBDA found :
    [i \in DOMAIN kinds |->
       With(SelectSeq(found, LAMBDA p : Names(p, i) /\ ~IsNull(p)), LAMBDA given :
         IF given = <<>> THEN Default(kinds[i])
         ELSE With(deserializeValue(kinds[i], given[1].value, given[1].type),
                   LAMBDA r : Read(kinds[i], r)))])

-----------------------------------------------------------------------------
(* The message is written and read. *)

NoProperty == [at |-> 0, it |-> <<>>, value |-> Invalid, ok |-> FALSE]

Init ==
  /\ \E n \in 0 .. MaxProperties : \E kind \in [1 .. n -> DOMAIN Kinds] :
       \E value \in [1 .. n -> UNION {DOMAIN Kinds[j].values : j \in DOMAIN Kinds}] :
         /\ \A i \in 1 .. n : value[i] \in DOMAIN Kinds[kind[i]].values
         /\ \A i \in 2 .. n : kind[i - 1] <= kind[i]
         /\ sent = [type |-> [i \in 1 .. n |-> Kinds[kind[i]].kind],
                    message |-> [i \in 1 .. n |-> Kinds[kind[i]].values[value[i]]]]
  /\ peer = [i \in DOMAIN sent.type |-> "value"]
  /\ left = {}
  /\ current = NoProperty
  /\ got = [i \in DOMAIN sent.type |-> Default(sent.type[i])]
  /\ phase = "write"

Parse(text) ==
  \E found \in {parseJsonObject(text)} :
    IF found.json THEN phase' = "read" /\ left' = Range(found.all)
    ELSE phase' = "broken" /\ UNCHANGED left

serializeMessage ==
  /\ phase = "write"
  /\ \E text \in {serializeObject(sent.type, sent.message)} : Parse(text)
  /\ UNCHANGED <<sent, peer, current, got>>

(* The order of properties is that of a hash table. *)
PeerWrites ==
  /\ phase = "write"
  /\ \E order \in {[i \in DOMAIN sent.type |-> i], Reverse([i \in DOMAIN sent.type |-> i])},
        how \in [DOMAIN sent.type -> {"value", "null", "absent"}], unknown \in BOOLEAN :
       \E text \in {PeerText(order, how, unknown)} : Parse(text) /\ peer' = how
  /\ UNCHANGED <<sent, current, got>>

(* metaProperty.write(object, value) *)
WriteProperty(i, v) == got' = [got EXCEPT ![i] = OrDefault(sent.type[i], v)]

ReadUnknown(p) ==
  /\ \A i \in DOMAIN sent.type : ~Names(p, i)
  /\ left' = left \ {p}
  /\ UNCHANGED <<current, got, phase>>

ReadNull(p, i) ==
  /\ Names(p, i) /\ IsNull(p)
  /\ WriteProperty(i, Invalid)
  /\ left' = left \ {p}
  /\ UNCHANGED <<current, phase>>

ReadSimple(p, i) ==
  /\ Names(p, i) /\ ~IsNull(p) /\ ~HasHandler(sent.type[i])
  /\ \E r \in {Simple(sent.type[i], p.value, p.type)} :
       IF r.ok THEN WriteProperty(i, r.value) ELSE UNCHANGED got
  /\ left' = left \ {p}
  /\ UNCHANGED <<current, phase>>

BeginLoop(p, i) ==
  /\ Names(p, i) /\ ~IsNull(p) /\ HasHandler(sent.type[i])
  /\ current' = [NoProperty EXCEPT !.at = i, !.it = p.value]
  /\ left' = left \ {p}
  /\ phase' = "loop"
  /\ UNCHANGED got

ReadProperty ==
  /\ phase = "read"
  /\ \E p \in left :
       \/ ReadUnknown(p)
       \/ \E i \in DOMAIN sent.type : ReadNull(p, i) \/ ReadSimple(p, i) \/ BeginLoop(p, i)
  /\ UNCHANGED <<sent, peer>>

CallHandler ==
  /\ phase = "loop" /\ current.it # <<>>
  /\ \E s \in {Handler(sent.type[current.at], current.it, current.value)} :
       current' = [current EXCEPT !.it = s.it, !.value = s.value, !.ok = TRUE]
  /\ UNCHANGED <<sent, peer, left, got, phase>>

EndLoop ==
  /\ phase = "loop" /\ current.it = <<>>
  /\ IF current.ok THEN WriteProperty(current.at, current.value) ELSE UNCHANGED got
  /\ current' = NoProperty
  /\ phase' = "read"
  /\ UNCHANGED <<sent, peer, left>>

Finish ==
  /\ phase = "read" /\ left = {}
  /\ phase' = "done"
  /\ UNCHANGED <<sent, peer, left, current, got>>

Done == phase \in {"done", "broken"} /\ UNCHANGED vars

Next == serializeMessage \/ PeerWrites \/ ReadProperty \/ CallHandler \/ EndLoop \/ Finish \/ Done

Spec == Init /\ [][Next]_vars /\ WF_vars(Next)

-----------------------------------------------------------------------------
(* Properties. *)

(* What this serializer can write and read back. *)
RECURSIVE Representable(_, _)
Representable(k, v) ==
  CASE k.k = "float" -> v % 10 = 0
    [] k.k = "string" -> Quote \notin Range(v) /\ (v # <<>> => Last(v) # Backslash)
    [] k.k = "enum" -> v + 1 \in DOMAIN k.values /\ k.values[v + 1] = v
    [] k.k = "list" -> \A i \in DOMAIN v : ~IsNullPointer(k.of, v[i]) /\ Representable(k.of, v[i])
    [] k.k = "map" ->
         /\ k.key.k = "bool" => \A i \in DOMAIN v : ~v[i][1]
         /\ \A i \in DOMAIN v :
              ~IsNullPointer(k.of, v[i][2]) /\ Representable(k.key, v[i][1]) /\ Representable(k.of, v[i][2])
    [] k.k = "message" -> v # <<>> /\ \A i \in DOMAIN v : Representable(k.of[i], v[i])
    [] OTHER -> TRUE

Regular == Representable([k |-> "message", of |-> sent.type], sent.message)

(* The text of a representable message is JSON, for every nesting of lists, *)
(* maps and messages, empty ones too.  It is read as it was written,        *)
(* whatever the order in which its properties come; one that is null,       *)
(* absent or unknown to this side leaves the others alone, and the message  *)
(* with a default.                                                          *)
JsonRoundTrip ==
  Regular =>
    /\ phase # "broken"
    /\ phase = "done" =>
         got = [i \in DOMAIN sent.type |->
                  IF peer[i] = "value" THEN sent.message[i] ELSE Default(sent.type[i])]

(* The loop of deserializeValue, which calls handlers until one of them has *)
(* moved the iterator to the end of the text, comes to an end.              *)
ReadingEnds == <>(phase \in {"done", "broken"})
=============================================================================
