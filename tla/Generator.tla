----------------------------- MODULE Generator -----------------------------
(***************************************************************************)
(* qtprotobufgen: from the descriptors that protoc hands over to headers   *)
(* and sources, and what a compiler makes of them.                         *)
(*                                                                         *)
(* main parses the options, a generator prints its files, and then one of  *)
(* the sources is compiled, item by item.  Printed text is abstracted to   *)
(* what declares a name or refers to one; `entity' is the descriptor that  *)
(* the generator means, so that a name that resolves to something else is  *)
(* seen.                                                                   *)
(***************************************************************************)
EXTENDS CppUnit, Relation

CONSTANT
  Inputs     \* a family of inputs: proto files, as protoc's descriptors, and the
             \* value of QT_PROTOBUF_OPTIONS, a sequence of options

None == ""

VARIABLES
  schema,    \* the proto files
  env,       \* the options that parseFromEnv has not come to
  options,   \* GeneratorOptions
  source,    \* the source file that is compiled
  headers,   \* the generated headers: a function from paths to items
  todo,      \* the items of the unit that are left
  unit,      \* the state of the compiler
  error      \* the first error: its kind and item

vars == <<schema, env, options, source, headers, todo, unit, error>>

Concat(s, Text(_)) == FlattenSeq([i \in DOMAIN s |-> Text(s[i])])

-----------------------------------------------------------------------------
(* Names. *)

desc(d) == schema.desc[d]
file(d) == schema.file[desc(d).file]
fields(m) == schema.fields[m]

(* The proto names of what contains d, after the names of its package. *)
RECURSIVE Containers(_)
Containers(d) ==
  IF desc(d).parent = None THEN file(d).package
  ELSE Append(Containers(desc(d).parent), desc(desc(d).parent).name)

getNamespaces(d) == IF d = None THEN <<>> ELSE Containers(d)

NestedName(n) == WithSuffix(n, "_QtProtobufNested")

getNestedNamespaces(d) ==
  LET ns == getNamespaces(d)
  IN [i \in DOMAIN ns |-> IF i > Len(file(d).package) THEN NestedName(ns[i]) ELSE ns[i]]

(* Faulty variant: a common first name is enough for the scope to be removed. *)
getScopeNamespacesLoose(original, scope) ==
  IF original # <<>> /\ scope # <<>> /\ original[1] = scope[1]
  THEN SubSeq(original, Min({Len(scope), Len(original)}) + 1, Len(original)) ELSE original

getScopeNamespaces(original, scope) ==
  IF IsPrefix(scope, original) THEN SubSeq(original, Len(scope) + 1, Len(original))
  ELSE original

ExtraNamespace == options.extra

isNested(m) == desc(m).parent # None
isNestedOf(m, containing) == desc(m).parent = containing

RECURSIVE findHighestMessage(_)
findHighestMessage(m) == IF isNested(m) THEN findHighestMessage(desc(m).parent) ELSE m

UsedDirectly(m, n) ==
  \E i \in DOMAIN fields(m) :
    LET f == fields(m)[i] IN f.kind = "message" /\ f.card # "map" /\ f.of = n

(* The nested messages that are printed: those that a field of the message *)
(* has for its type, or all when there is no field.                         *)
nestedMessages(m) ==
  SelectSeq(schema.nested[m], LAMBDA n : fields(m) = <<>> \/ UsedDirectly(m, n))

hasNestedMessages(m) == nestedMessages(m) # <<>>

-----------------------------------------------------------------------------
(* Types: the names by which generated code calls a type, in full and from *)
(* the scope of a message, and those of its lists.                         *)

TypeMap(ns, scopeNs, name, list, entity) ==
  [type |-> name, full_type |-> Append(ns, name), scope_type |-> Append(scopeNs, name),
   list_type |-> list, full_list_type |-> Append(ns, list),
   scope_list_type |-> Append(scopeNs, list),
   scope_namespaces |-> scopeNs, property_type |-> Append(ns, name),
   is |-> entity, list_is |-> <<"list">> \o entity]

ListName(n) == WithSuffix(n, "Repeated")

ClassName(d) == UpperCaseName(desc(d).name)

produceMessageTypeMap(m, scope) ==
  LET ns == ExtraNamespace \o getNamespaces(m)
      nested == IF isNested(m) THEN getNestedNamespaces(m) ELSE ns
  IN TypeMap(ns, getScopeNamespaces(nested, getNamespaces(scope)),
             ClassName(m), ListName(ClassName(m)), <<"message", m>>)

isLocalEnum(e, scope) == scope # None /\ desc(e).parent = scope

enumVisibility(e, scope) ==
  IF isLocalEnum(e, scope) THEN "local"
  ELSE IF desc(e).parent # None /\ ~isNested(desc(e).parent) THEN "neighbor" ELSE "global"

EnumGadget(e) == WithSuffix(ClassName(e), "Gadget")

produceEnumTypeMap(e, scope) ==
  LET visibility == enumVisibility(e, scope)
      name == ClassName(e)
      ns == ExtraNamespace \o getNamespaces(e) \o
            (IF visibility = "global" THEN <<EnumGadget(e)>> ELSE <<>>)
      map == TypeMap(ns, getScopeNamespaces(ns, getNamespaces(scope)),
                     name, ListName(name), <<"enum", e>>)
  IN IF visibility = "local" THEN [map EXCEPT !.property_type = <<name>>] ELSE map

(* Numbers live in namespace QtProtobuf, strings and lists of them do not. *)
produceSimpleTypeMap(kind) ==
  IF kind = "string"
  THEN TypeMap(<<>>, <<>>, Name("QString"), Name("QStringList"), <<"QString">>)
  ELSE LET ns == <<Name("QtProtobuf")>>
       IN TypeMap(ns, ns, Name("int32"), Name("int32List"), <<"int32">>)

isQtType(f) == f.kind = "qt"
isPureMessage(f) == f.kind = "message" /\ f.card = "one"

(* The list of a Qt type has a name that is never declared. *)
produceQtTypeMap(f) == TypeMap(<<>>, <<>>, Name(f.of), Name("QList<Repeated>"), <<"qt", f.of>>)

produceTypeMap(f, scope) ==
  CASE isQtType(f) -> produceQtTypeMap(f)
    [] f.kind = "message" -> produceMessageTypeMap(f.of, scope)
    [] f.kind = "enum" -> produceEnumTypeMap(f.of, scope)
    [] OTHER -> produceSimpleTypeMap(f.kind)

(* The type of a map is named after protoc's message for its entries, which *)
(* is contained in the message but does not count as nested.                *)
produceMapTypeMap(f, m) ==
  LET ns == Append(ExtraNamespace \o getNamespaces(m), desc(m).name)
      name == WithSuffix(f.name, "Entry")
      value == produceTypeMap(f, m)
  IN TypeMap(ns, getScopeNamespaces(ns, getNamespaces(m)), name, ListName(name),
             <<"QMap", f.key>> \o value.is)

producePropertyMap(f, m) ==
  IF f.card = "map" THEN produceMapTypeMap(f, m) ELSE produceTypeMap(f, m)

(* The type by which a field is stored, passed and returned. *)
MemberType(f, m) ==
  LET map == producePropertyMap(f, m)
  IN IF f.card = "many" THEN [path |-> map.scope_list_type, is |-> map.list_is]
     ELSE [path |-> map.scope_type, is |-> map.is]

(* A method names its messages by their proto names. *)
produceMethodType(m) ==
  [path |-> Append(getNamespaces(m), desc(m).name), is |-> <<"message", m>>]

-----------------------------------------------------------------------------
(* Printers. *)

printNamespaces(d) == Opens(ExtraNamespace \o getNamespaces(d))
encloseNamespaces(d) == Closes(ExtraNamespace \o getNamespaces(d))

printListType(m) == Define(ListName(ClassName(m)), <<"list", "message", m>>)

RECURSIVE printClassForwardDeclarationPrivate(_)
printClassForwardDeclarationPrivate(m) ==
  (IF hasNestedMessages(m)
   THEN <<Open(NestedName(ClassName(m)))>> \o
        Concat(nestedMessages(m), printClassForwardDeclarationPrivate) \o <<Close>>
   ELSE <<>>)
  \o <<Forward(ClassName(m), <<"message", m>>), printListType(m)>>

printClassForwardDeclaration(m) ==
  printNamespaces(m) \o printClassForwardDeclarationPrivate(m) \o encloseNamespaces(m)

(* The values of an enumeration are written with a capital. *)
printEnum(e) ==
  <<Begin(ClassName(e), <<"enum", e>>), Define(UpperCaseName(schema.value[e]), <<"value", e>>), Close>>

printQEnums(m) ==
  (IF options.fieldenum
   THEN <<Define(Name("QtProtobufFieldEnum"), <<"fieldenum", m>>)>> ELSE <<>>)
  \o Concat(schema.enums[m], printEnum)
  \o Concat(schema.enums[m], LAMBDA e : <<Define(ListName(ClassName(e)), <<"list", "enum", e>>)>>)

printNested(m) ==
  Concat(nestedMessages(m), LAMBDA n :
    LET map == produceMessageTypeMap(n, m)
    IN <<Alias(map.type, Append(map.scope_namespaces, map.type), map.is),
         Alias(map.list_type, Append(map.scope_namespaces, map.list_type), map.list_is)>>)

printMaps(m) ==
  Concat(SelectSeq(fields(m), LAMBDA f : f.card = "map"), LAMBDA f :
    LET map == producePropertyMap(f, m)
        value == produceTypeMap(f, m)
    IN <<Use(value.scope_type, value.is), Define(map.type, map.is)>>)

UsesMemberTypes(m) ==
  Concat(fields(m), LAMBDA f : LET t == MemberType(f, m) IN <<Use(t.path, t.is)>>)

(* One constructor for every number of first fields. *)
printConstructors(m) == UsesMemberTypes(m)

isQmlList(f) == options.qml /\ f.kind = "message" /\ f.card = "many"

printGetters(m) ==
  UsesMemberTypes(m) \o
  Concat(SelectSeq(fields(m), isQmlList), LAMBDA f :
    LET map == produceTypeMap(f, m) IN <<Use(map.scope_type, map.is)>>)

printSetters(m) == UsesMemberTypes(m)
printClassMembers(m) == UsesMemberTypes(m)

printClassBody(m) ==
  printQEnums(m) \o printNested(m) \o printMaps(m) \o printConstructors(m)
  \o printGetters(m) \o printSetters(m) \o printClassMembers(m)

RECURSIVE printClassDeclarationPrivate(_)
printClassDeclarationPrivate(m) ==
  <<Open(NestedName(ClassName(m)))>>
  \o Concat(nestedMessages(m), printClassDeclarationPrivate)
  \o <<Close, Begin(ClassName(m), <<"message", m>>)>>
  \o printClassBody(m)
  \o <<Close, printListType(m)>>

(* The guard of a map names its key type twice: a second map with the same *)
(* key is left to QMap's own meta type.                                    *)
printFieldMetaTypes(f, m) ==
  LET map == producePropertyMap(f, m)
  IN IF f.card # "map" /\ f.kind = "enum" /\ isLocalEnum(f.of, m)
     THEN <<MetaType(map.full_type, map.is, ""), MetaType(map.full_list_type, map.list_is, "")>>
     ELSE IF f.card = "map" THEN <<MetaType(map.full_type, map.is, f.key)>> ELSE <<>>

(* Faulty variant: the nested messages are left out. *)
printMetaTypesDeclarationTop(m) ==
  LET map == produceMessageTypeMap(m, None)
  IN <<MetaType(map.full_type, map.is, ""), MetaType(map.full_list_type, map.list_is, "")>>
     \o Concat(fields(m), LAMBDA f : printFieldMetaTypes(f, m))

RECURSIVE printMetaTypesDeclaration(_)
printMetaTypesDeclaration(m) ==
  LET map == produceMessageTypeMap(m, None)
  IN <<MetaType(map.full_type, map.is, ""), MetaType(map.full_list_type, map.list_is, "")>>
     \o Concat(fields(m), LAMBDA f : printFieldMetaTypes(f, m))
     \o Concat(nestedMessages(m), printMetaTypesDeclaration)

printClassDeclaration(m) ==
  printNamespaces(m) \o printClassDeclarationPrivate(m) \o encloseNamespaces(m)
  \o printMetaTypesDeclaration(m)

(* Definitions: return types are outside the class, the rest inside.  The *)
(* code that moc makes of Q_PROPERTY is in the scope of the class, too.    *)
printReturnTypes(m) ==
  Concat(fields(m), LAMBDA f :
    LET map == produceTypeMap(f, m)
    IN IF isPureMessage(f) THEN <<UseComplete(map.scope_type, map.is)>>
       ELSE IF isQmlList(f) THEN <<Use(map.full_type, map.is)>> ELSE <<>>)

printProperties(m) ==
  Concat(fields(m), LAMBDA f :
    LET map == producePropertyMap(f, m)
    IN IF f.card = "many" THEN <<Use(map.full_list_type, map.list_is)>>
       ELSE <<Use(map.property_type, map.is)>>)

printRegisterBody(m) ==
  <<Use(<<ClassName(m)>>, <<"message", m>>), Use(<<ListName(ClassName(m))>>, <<"list", "message", m>>)>>
  \o Concat(fields(m), LAMBDA f :
       LET map == producePropertyMap(f, m)
           value == produceTypeMap(f, m)
       IN IF f.card = "map" THEN <<Use(map.scope_type, map.is), Use(value.scope_type, value.is)>>
          ELSE IF f.kind = "enum" /\ isLocalEnum(f.of, m)
          THEN <<Use(map.scope_type, map.is), Use(map.scope_list_type, map.list_is)>> ELSE <<>>)

(* An enumeration starts as its first value, called as in the proto file. *)
printInitializationList(m) ==
  Concat(fields(m), LAMBDA f :
    LET map == produceTypeMap(f, m)
    IN IF f.kind = "enum" /\ f.card = "one"
       THEN <<Use(Append(map.scope_type, schema.value[f.of]), <<"value", f.of>>)>>
       ELSE IF isPureMessage(f) THEN <<UseComplete(map.scope_type, map.is)>> ELSE <<>>)

RECURSIVE printClassDefinitionPrivate(_)
printClassDefinitionPrivate(m) ==
  (IF hasNestedMessages(m)
   THEN <<Open(NestedName(ClassName(m)))>> \o
        Concat(nestedMessages(m), printClassDefinitionPrivate) \o <<Close>>
   ELSE <<>>)
  \o printReturnTypes(m)
  \o <<Enter(ClassName(m))>> \o printProperties(m) \o printRegisterBody(m)
  \o printInitializationList(m) \o <<Close>>

(* The properties of the meta object, in the order in which Q_PROPERTY is *)
(* printed, and the one that a field is read and written by.  Property 0   *)
(* is QObject's own.                                                       *)
hasQmlAlias(f) == options.qml /\ f.kind = "int" /\ f.card = "one"

MetaProperties(m) ==
  Concat(fields(m), LAMBDA f : <<f.name>>)
  \o Concat(SelectSeq(fields(m), LAMBDA f : isQmlList(f) \/ hasQmlAlias(f)),
            LAMBDA f : <<WithSuffix(f.name, "alias")>>)

printFieldsOrdering(m) == [i \in DOMAIN fields(m) |-> i]

printClassDefinition(m) ==
  printNamespaces(m) \o printClassDefinitionPrivate(m) \o encloseNamespaces(m)

EnumDeclaration(e) ==
  LET map == produceEnumTypeMap(e, None)
  IN printNamespaces(e)
     \o <<Begin(EnumGadget(e), <<"gadget", e>>)>> \o printEnum(e)
     \o <<Define(map.list_type, map.list_is), Close>>
     \o encloseNamespaces(e)
     \o <<MetaType(map.full_list_type, map.list_is, "")>>

EnumDefinition(e) ==
  LET map == produceEnumTypeMap(e, None)
  IN printNamespaces(e)
     \o <<Enter(EnumGadget(e)), Use(<<map.type>>, map.is), Use(map.full_type, map.is), Close>>
     \o encloseNamespaces(e)

ClientName(s) == WithSuffix(ClassName(s), "Client")

ClientMethods(s, complete) ==
  Concat(schema.methods[s], LAMBDA x :
    LET in == produceMethodType(x.in)
        out == produceMethodType(x.out)
    IN IF complete THEN <<UseComplete(out.path, out.is), UseComplete(in.path, in.is)>>
       ELSE <<Use(out.path, out.is), Use(in.path, in.is)>>)

ClientDeclaration(s) ==
  printNamespaces(s) \o <<Begin(ClientName(s), <<"client", s>>)>>
  \o ClientMethods(s, FALSE) \o <<Close>> \o encloseNamespaces(s)

ClientDefinition(s) ==
  printNamespaces(s) \o <<Enter(ClientName(s))>>
  \o ClientMethods(s, TRUE) \o <<Close>> \o encloseNamespaces(s)

-----------------------------------------------------------------------------
(* Files.  A path is that of a file in the output directory, where includes *)
(* are looked for after the directory of the file that includes.            *)

Default == <<Define(Name("QString"), <<"QString">>), Define(Name("QStringList"), <<"list", "QString">>),
             Open(Name("QtProtobuf")), Define(Name("int32"), <<"int32">>),
             Define(Name("int32List"), <<"list", "int32">>), Close>>

External(t) == Define(Name(t), <<"qt", t>>)

Package(f) == schema.file[f].package
Dir(f) == IF options.folder THEN Package(f) ELSE <<>>
generateBaseName(f, n) == Append(Dir(f), n)

(* SingleFileGenerator: a header and a source for the messages of a file, *)
(* and another two for its services.                                       *)
MessagesName(f) == WithSuffix(schema.file[f].name, ".qpb")
ServicesName(f) == WithSuffix(schema.file[f].name, "_grpc.qpb")

(* The header of another file is named after the path of its import. *)
ImportName(f) == Append(schema.file[f].dir, MessagesName(f))

QtTypesOf(m) ==
  SelectSeq(fields(m), LAMBDA f : isQtType(f) /\ f.card = "one")

SingleHeader(f) ==
  Default
  \o Concat(schema.file[f].messages, LAMBDA m : Concat(QtTypesOf(m), LAMBDA x : <<External(x.of)>>))
  \o Concat(schema.file[f].imports, LAMBDA i : <<Include(Dir(f), ImportName(i))>>)
  \o Concat(schema.file[f].enums, EnumDeclaration)
  \o Concat(schema.file[f].messages, printClassForwardDeclaration)
  \o Concat(schema.file[f].messages, printClassDeclaration)

SingleSource(f) ==
  <<Include(Dir(f), generateBaseName(f, MessagesName(f)))>>
  \o Concat(schema.file[f].enums, EnumDefinition)
  \o Concat(schema.file[f].messages, printClassDefinition)

Methods(s) == Concat(schema.methods[s], LAMBDA x : <<x.in, x.out>>)

SingleServicesHeader(f) ==
  Default
  \o Concat(schema.file[f].services, LAMBDA s :
       Concat(SelectSeq(Methods(s), LAMBDA m : desc(m).file # f),
              LAMBDA m : <<Include(Dir(f), ImportName(desc(m).file))>>))
  \o (IF schema.file[f].messages # <<>>
      THEN <<Include(Dir(f), generateBaseName(f, MessagesName(f)))>> ELSE <<>>)
  \o Concat(schema.file[f].services, ClientDeclaration)

SingleServicesSource(f) ==
  <<Include(Dir(f), generateBaseName(f, ServicesName(f)))>>
  \o Concat(schema.file[f].services, ClientDefinition)

(* MultiFileGenerator: a header and a source for every message. *)
MessageFile(m) == ToLower(desc(m).name)
PackagePath(t, m) ==
  Append(IF file(t).package # file(m).package THEN file(t).package ELSE <<>>, MessageFile(t))

(* What printInclude prints for one field: a header, Qt's or generated. *)
printFieldInclude(f, m) ==
  LET d == Dir(desc(m).file)
  IN CASE isQtType(f) -> <<External(f.of)>>
       [] f.kind = "message" ->
            IF ~isNested(f.of) THEN <<Include(d, PackagePath(f.of, m))>>
            ELSE IF ~isNestedOf(f.of, m) /\ findHighestMessage(f.of) # m
            THEN <<Include(d, PackagePath(findHighestMessage(f.of), m))>> ELSE <<>>
       [] f.kind = "enum" ->
            (CASE enumVisibility(f.of, m) = "global" -> <<Include(<<>>, <<Name("globalenums")>>)>>
               [] enumVisibility(f.of, m) = "neighbor" ->
                    <<Include(d, <<MessageFile(desc(f.of).parent)>>)>>
               [] OTHER -> <<>>)
       [] OTHER -> <<>>

PureTypes(m) ==
  Concat(SelectSeq(fields(m), isPureMessage), LAMBDA f : <<f.of>>)

RECURSIVE findNestedDependency(_)
findNestedDependency(m) ==
  Concat(nestedMessages(m), LAMBDA n : PureTypes(n) \o findNestedDependency(n))

Dependencies(m) == findNestedDependency(m) \o PureTypes(m)

(* A dependency is declared in the namespaces of its package, not in the *)
(* extra namespace.                                                       *)
ForwardDependency(t) ==
  LET ns == IF isNested(t) THEN getNestedNamespaces(t) ELSE getNamespaces(t)
  IN Opens(ns) \o <<Forward(ClassName(t), <<"message", t>>)>> \o Closes(ns)

MultiHeader(m) ==
  Default
  \o Concat(fields(m), LAMBDA f : printFieldInclude(f, m))
  \o Concat(Dependencies(m), LAMBDA t :
       <<Include(Dir(desc(m).file), PackagePath(findHighestMessage(t), m))>>)
  \o Concat(SelectSeq(Dependencies(m), LAMBDA t : ~isNestedOf(t, m)), ForwardDependency)
  \o printClassDeclaration(m)

MultiSource(m) ==
  <<Include(Dir(desc(m).file), <<MessageFile(m)>>)>> \o printClassDefinition(m)

AllEnums == Concat(SetToSeq(DOMAIN schema.file), LAMBDA f : schema.file[f].enums)
GlobalEnumsHeader == Default \o Concat(AllEnums, EnumDeclaration)

ServiceFile(s) == WithSuffix(ToLower(desc(s).name), "client")

MultiServiceHeader(s) ==
  Default
  \o Concat(Methods(s), LAMBDA m : <<Include(Dir(desc(s).file), <<MessageFile(m)>>)>>)
  \o ClientDeclaration(s)

(* The source includes a header named after the service, without `client'. *)
MultiServiceSource(s) ==
  <<Include(Dir(desc(s).file), <<ToLower(desc(s).name)>>)>> \o ClientDefinition(s)

TopLevel(f) == ToSet(schema.file[f].messages)
AllTopLevel == UNION {TopLevel(f) : f \in DOMAIN schema.file}
AllServices == UNION {ToSet(schema.file[f].services) : f \in DOMAIN schema.file}

(* The headers by their paths. *)
Headers ==
  IF options.multi
  THEN [p \in {<<Name("globalenums")>>} |-> GlobalEnumsHeader]
       @@ [p \in {generateBaseName(desc(m).file, MessageFile(m)) : m \in AllTopLevel} |->
             MultiHeader(CHOOSE m \in AllTopLevel : p = generateBaseName(desc(m).file, MessageFile(m)))]
       @@ [p \in {generateBaseName(desc(s).file, ServiceFile(s)) : s \in AllServices} |->
             MultiServiceHeader(CHOOSE s \in AllServices : p = generateBaseName(desc(s).file, ServiceFile(s)))]
  ELSE [p \in {generateBaseName(f, MessagesName(f)) : f \in DOMAIN schema.file} |->
          SingleHeader(CHOOSE f \in DOMAIN schema.file : p = generateBaseName(f, MessagesName(f)))]
       @@ [p \in {generateBaseName(f, ServicesName(f)) : f \in {g \in DOMAIN schema.file : schema.file[g].services # <<>>}} |->
             SingleServicesHeader(CHOOSE f \in DOMAIN schema.file : p = generateBaseName(f, ServicesName(f)))]

(* The sources, by what they are made for. *)
Sources ==
  IF options.multi
  THEN [m \in AllTopLevel |-> MultiSource(m)] @@ [s \in AllServices |-> MultiServiceSource(s)]
  ELSE [f \in DOMAIN schema.file |-> SingleSource(f) \o
          (IF schema.file[f].services # <<>> THEN SingleServicesSource(f) ELSE <<>>)]

-----------------------------------------------------------------------------
(* main: options, generation, and the compiler that follows. *)

(* The extra namespace is what follows the first `=' of all options, so it *)
(* is a name only when it comes last.                                      *)
ParseOption ==
  /\ env # <<>>
  /\ env' = Tail(env)
  /\ options' = CASE Head(env) = "MULTI" -> [options EXCEPT !.multi = TRUE]
                  [] Head(env) = "QML" -> [options EXCEPT !.qml = TRUE]
                  [] Head(env) = "FOLDER" -> [options EXCEPT !.folder = TRUE]
                  [] Head(env) = "FIELDENUM" -> [options EXCEPT !.fieldenum = TRUE]
                  [] Head(env) = "EXTRA_NAMESPACE" ->
                       [options EXCEPT !.extra =
                          <<IF Tail(env) = <<>> THEN Name("E") ELSE WithSuffix(Name("E"), IllFormed)>>]
                  [] OTHER -> options
  /\ UNCHANGED <<schema, source, headers, todo, unit, error>>

(* Another syntax than proto3 is refused. *)
Supported == \A f \in DOMAIN schema.file : schema.file[f].proto3

Refuse ==
  /\ env = <<>> /\ source = None /\ ~Supported
  /\ source' = "refused"
  /\ error' = [kind |-> "syntax", at |-> Close]
  /\ UNCHANGED <<schema, env, options, headers, todo, unit>>

(* The files are printed, and one source is handed to the compiler. *)
Generate ==
  /\ env = <<>> /\ source = None /\ Supported
  /\ headers' = Headers
  /\ LET sources == Sources
     IN \E s \in DOMAIN sources : source' = s /\ todo' = sources[s]
  /\ UNCHANGED <<schema, env, options, unit, error>>

Compiling == source # None /\ error.kind = "" /\ todo # <<>>

IncludedFile(x) == IF x.dir \o x.path \in DOMAIN headers THEN x.dir \o x.path ELSE x.path

(* #include, of a file with #pragma once. *)
CompileInclude ==
  /\ Compiling /\ Head(todo).op = "include"
  /\ LET p == IncludedFile(Head(todo))
     IN IF p \notin DOMAIN headers
        THEN /\ error' = [kind |-> "no file", at |-> Head(todo)]
             /\ UNCHANGED <<todo, unit>>
        ELSE /\ todo' = (IF p \in unit.seen THEN <<>> ELSE headers[p]) \o Tail(todo)
             /\ unit' = [unit EXCEPT !.seen = @ \union {p}]
             /\ UNCHANGED error
  /\ UNCHANGED <<schema, env, options, source, headers>>

(* The items up to the next #include, or up to an error. *)
RECURSIVE Compile(_, _)
Compile(u, items) ==
  IF items = <<>> \/ Head(items).op = "include" \/ Error(u, Head(items)) # ""
  THEN [unit |-> u, rest |-> items]
  ELSE Compile(Compiled(u, Head(items)), Tail(items))

CompileItems ==
  /\ Compiling /\ Head(todo).op # "include"
  /\ LET r == Compile(unit, todo)
     IN /\ unit' = r.unit
        /\ todo' = r.rest
        /\ error' = IF r.rest = <<>> \/ Head(r.rest).op = "include" THEN error
                    ELSE [kind |-> Error(r.unit, Head(r.rest)), at |-> Head(r.rest)]
  /\ UNCHANGED <<schema, env, options, source, headers>>

Init ==
  /\ \E i \in DOMAIN Inputs : schema = Inputs[i].schema /\ env = Inputs[i].env
  /\ options = [multi |-> FALSE, qml |-> FALSE, folder |-> FALSE, fieldenum |-> FALSE, extra |-> <<>>]
  /\ source = None /\ headers = <<>> /\ todo = <<>>
  /\ unit = EmptyUnit
  /\ error = [kind |-> "", at |-> Close]

Done == source # None /\ (todo = <<>> \/ error.kind # "")

Next ==
  \/ ParseOption
  \/ Refuse
  \/ Generate
  \/ CompileInclude
  \/ CompileItems
  \/ Done /\ UNCHANGED vars

Spec == Init /\ [][Next]_vars

-----------------------------------------------------------------------------
(* What is promised.  Schemas that the generator has names for are called  *)
(* regular; the clauses below are the restrictions, each of them needed.   *)

(* A nested message exists in the output when its container has it. *)
RECURSIVE Emitted(_)
Emitted(m) ==
  isNested(m) => Emitted(desc(m).parent) /\ m \in ToSet(nestedMessages(desc(m).parent))

EmittedMessages == {m \in DOMAIN schema.fields : Emitted(m)}

(* The class of top level message a is complete before that of m begins. *)
Before(a, m) ==
  \/ desc(a).file # desc(m).file
  \/ \E i, j \in DOMAIN file(a).messages :
       i < j /\ file(a).messages[i] = a /\ file(a).messages[j] = findHighestMessage(m)

(* Names keep their case, so what contains something must be upper case. *)
Capitalised(m) == ~desc(m).name.lower

QtTypesIncluded(f) == {x.of : x \in UNION {ToSet(QtTypesOf(m)) : m \in TopLevel(f)}}

EnumIsComplete(e, m) ==
  LET owner == desc(e).parent
  IN \/ owner \in {None, m}
     \/ ~isNested(owner) /\ Before(owner, m)

(* Field f of message m has a type that the header of a file can name. *)
Nameable(f, m) ==
  /\ f.card = "map" => Capitalised(m) /\ ~(isNested(m) /\ ExtraNamespace # <<>>)
  /\ f.kind = "message" => Emitted(f.of)
  /\ f.kind = "enum" => EnumIsComplete(f.of, m) /\ (f.card = "one" => ~schema.value[f.of].lower)
  /\ f.kind = "qt" => f.card # "many" /\ f.of \in QtTypesIncluded(desc(m).file)

(* An enumeration of a message is the type of one of its fields at most, *)
(* since each of them declares it to QMetaType.                           *)
EnumsUsedOnce(m) ==
  \A i, j \in DOMAIN fields(m) :
    LET a == fields(m)[i]
        b == fields(m)[j]
    IN (i # j /\ {a.kind, b.kind} = {"enum"} /\ "map" \notin {a.card, b.card} /\ a.of = b.of)
         => ~isLocalEnum(a.of, m)

Contained(m) == isNested(m) => Capitalised(findHighestMessage(m))

Regular ==
  /\ \A m \in EmittedMessages :
       /\ Contained(m)
       /\ EnumsUsedOnce(m)
       /\ \A f \in ToSet(fields(m)) : Nameable(f, m)
  /\ \A s \in AllServices : \A m \in ToSet(Methods(s)) : Emitted(m) /\ Capitalised(m)
  /\ ExtraNamespace \in {<<>>, <<Name("E")>>}

Failed == error.kind \notin {"", "syntax"}

(* The headers that the header of m includes for a message. *)
IncludedMessages ==
  [m \in AllTopLevel |->
     {findHighestMessage(f.of) : f \in {g \in ToSet(fields(m)) : g.kind = "message"}}
     \union {desc(f.of).parent : f \in {g \in ToSet(fields(m)) : g.kind = "enum"}}
     \union {findHighestMessage(t) : t \in ToSet(Dependencies(m))}]

IncludesBack(t, m) ==
  LET R == [p \in AllTopLevel \X AllTopLevel |-> p[2] \in IncludedMessages[p[1]]]
  IN t = m \/ TransitiveClosure(R, AllTopLevel)[<<t, m>>]

(* A header of one message sees less.  Where headers include each other a   *)
(* message is only declared, and that in the wrong place when there is an    *)
(* extra namespace; for the fields of a nested message nothing but single    *)
(* messages is included.                                                     *)
MultiNameable(f, m) ==
  LET top == findHighestMessage(m)
      declared == f.card = "one" /\ ExtraNamespace = <<>>
  IN CASE f.kind = "message" ->
            /\ isNested(m) => f.card = "one"
            /\ declared \/ (f.card = "one" /\ f.of = m) \/ ~IncludesBack(findHighestMessage(f.of), top)
       [] f.kind = "enum" /\ ~isNested(m) /\ enumVisibility(f.of, m) = "neighbor" ->
            file(f.of).package = file(m).package /\ ~IncludesBack(desc(f.of).parent, m)
       [] OTHER -> isNested(m) => f.kind \in {"int", "string"}

(* No source of a service compiles with MULTI, since it includes a file that *)
(* is not written.                                                           *)
Nameless ==
  options.multi /\ (\/ source \in AllServices /\ error.kind = "no file"
                    \/ \E m \in EmittedMessages : \E f \in ToSet(fields(m)) : ~MultiNameable(f, m))

(* What SingleFileGenerator and MultiFileGenerator make of a regular file   *)
(* compiles, the latter when fields are nameable in headers of their own:   *)
(* every name that is printed is declared where it is used, denotes the     *)
(* type of the field or method, is complete where it has to be, and no      *)
(* name, class or meta type is declared twice.                              *)
RegularCompiles == Failed => ~Regular \/ Nameless

CompiledMessages ==
  {m \in EmittedMessages :
     source \in {desc(m).file, findHighestMessage(m)} /\ Contained(m)}

(* Once a source is compiled, every message of it has a complete class under *)
(* the name that its proto has, nested or not, and both the class and its    *)
(* list are known to QMetaType: qRegisterProtobufType needs them.  And the   *)
(* property that the serializers use for a field is the field's own.         *)
MessagesUsable ==
  source # None /\ todo = <<>> /\ error.kind = "" =>
    /\ unit.scopes = <<<<>>>>
    /\ \A m \in CompiledMessages :
         LET map == produceMessageTypeMap(m, None)
         IN /\ Denotes(unit, map.full_type, map.is)
            /\ unit.symbols[Lookup(unit, map.full_type)].complete
            /\ {map.is, map.list_is} \subseteq unit.metatypes
            /\ \A i \in DOMAIN fields(m) :
                 MetaProperties(m)[printFieldsOrdering(m)[i]] = fields(m)[i].name
=============================================================================
