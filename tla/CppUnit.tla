------------------------------ MODULE CppUnit ------------------------------
(***************************************************************************)
(* What a C++ compiler makes of the declarations in generated code: the    *)
(* language's rules for namespaces, classes, aliases, includes and names,  *)
(* as far as the generator's output uses them.  A translation unit is a    *)
(* sequence of items, read one by one.                                     *)
(*                                                                         *)
(* A name is a record: `base' without its case, `lower' when its first     *)
(* letter is a lower case one, and a suffix that the generator appended.   *)
(* A path is a sequence of names.                                          *)
(***************************************************************************)
EXTENDS Naturals, Sequences, SequencesExt, FiniteSetsExt, Functions, TLC

Name(base) == [base |-> base, lower |-> FALSE, suffix |-> ""]
UpperCaseName(n) == [n EXCEPT !.lower = FALSE]
ToLower(n) == [n EXCEPT !.lower = TRUE]
WithSuffix(n, s) == [n EXCEPT !.suffix = s]

(* The items.  An entity says what a declared name stands for. *)
Include(dir, path) == [op |-> "include", dir |-> dir, path |-> path]
Open(n) == [op |-> "open", name |-> n]
Close == [op |-> "close"]
Forward(n, entity) == [op |-> "forward", name |-> n, is |-> entity]
Begin(n, entity) == [op |-> "begin", name |-> n, is |-> entity]
Define(n, entity) == [op |-> "define", name |-> n, is |-> entity]
Alias(n, path, entity) == [op |-> "alias", name |-> n, path |-> path, is |-> entity]
Enter(n) == [op |-> "enter", name |-> n]
Use(path, entity) == [op |-> "use", path |-> path, is |-> entity, complete |-> FALSE]
UseComplete(path, entity) == [op |-> "use", path |-> path, is |-> entity, complete |-> TRUE]
MetaType(path, entity, guard) == [op |-> "metatype", path |-> path, is |-> entity, guard |-> guard]

Opens(path) == [i \in DOMAIN path |-> Open(path[i])]
Closes(path) == [i \in DOMAIN path |-> Close]

IllFormed == ":"     \* the suffix of what is not an identifier

Namespace == <<"namespace">>
NotFound == <<>>

-----------------------------------------------------------------------------
(* The state of the compiler: symbols, the open scopes, innermost last, the *)
(* files included, the types declared to QMetaType, macros defined.         *)
EmptyUnit ==
  [symbols |-> <<>>, scopes |-> <<<<>>>>, seen |-> {}, metatypes |-> {}, macros |-> {}]

Scope(u) == u.scopes[Len(u.scopes)]

(* A class can be looked into once it is complete, or from inside it. *)
CanLookInto(u, p) ==
  \/ u.symbols[p].is = Namespace
  \/ u.symbols[p].complete
  \/ \E i \in DOMAIN u.scopes : IsPrefix(p, u.scopes[i])

Member(u, p, n) ==
  IF p # NotFound /\ CanLookInto(u, p) /\ Append(p, n) \in DOMAIN u.symbols
  THEN u.symbols[Append(p, n)].to ELSE NotFound

(* The first name is looked for in the scopes from the inside out, and the *)
(* search ends where it is found; the others in what it denotes.           *)
Lookup(u, path) ==
  LET inner == {k \in 0..Len(Scope(u)) :
                  Append(SubSeq(Scope(u), 1, k), path[1]) \in DOMAIN u.symbols}
      first == IF inner = {} THEN NotFound
               ELSE u.symbols[Append(SubSeq(Scope(u), 1, Max(inner)), path[1])].to
  IN FoldLeft(LAMBDA p, n : Member(u, p, n), first, Tail(path))

Denotes(u, path, entity) ==
  LET p == Lookup(u, path) IN p # NotFound /\ u.symbols[p].is = entity

(* Declares name n of the current scope; an alias denotes the path `to'. *)
Declare(u, n, entity, to, complete) ==
  LET p == Append(Scope(u), n)
      old == p \in DOMAIN u.symbols
      new == [is |-> entity, to |-> IF to = NotFound THEN p ELSE to,
              complete |-> complete \/ (old /\ u.symbols[p].complete)]
  IN [u EXCEPT !.symbols = (p :> new) @@ @]

(* n may be declared as `entity' in the current scope. *)
Free(u, n, entity) ==
  LET p == Append(Scope(u), n) IN p \in DOMAIN u.symbols => u.symbols[p].is = entity

Push(u, p) == [u EXCEPT !.scopes = Append(@, p)]
Pop(u) == [u EXCEPT !.scopes = Front(@)]

(* What is wrong with the next item x of a unit, or "". *)
Error(u, x) ==
  CASE x.op = "open" /\ x.name.suffix = IllFormed -> "not a name"
    [] x.op \in {"open", "forward", "define"} ->
         IF Free(u, x.name, IF x.op = "open" THEN Namespace ELSE x.is) THEN "" ELSE "clash"
    [] x.op = "begin" ->
         IF ~Free(u, x.name, x.is) THEN "clash"
         ELSE IF Append(Scope(u), x.name) \in DOMAIN u.symbols
                 /\ u.symbols[Append(Scope(u), x.name)].complete THEN "redefined" ELSE ""
    [] x.op = "alias" ->
         IF ~Denotes(u, x.path, x.is) THEN "unresolved"
         ELSE IF Free(u, x.name, x.is) THEN "" ELSE "clash"
    [] x.op = "enter" -> IF Lookup(u, <<x.name>>) = NotFound THEN "unresolved" ELSE ""
    [] x.op = "use" ->
         IF ~Denotes(u, x.path, x.is) THEN "unresolved"
         ELSE IF x.complete /\ ~u.symbols[Lookup(u, x.path)].complete THEN "incomplete" ELSE ""
    [] x.op = "metatype" ->
         IF x.guard # "" /\ x.guard \in u.macros THEN ""
         ELSE IF ~Denotes(u, x.path, x.is) THEN "unresolved"
         ELSE IF x.is \in u.metatypes THEN "redefined" ELSE ""
    [] OTHER -> ""

(* The unit after item x, which is not an include. *)
Compiled(u, x) ==
  CASE x.op = "open" ->
         Push(Declare(u, x.name, Namespace, NotFound, TRUE), Append(Scope(u), x.name))
    [] x.op = "close" ->
         LET v == IF Scope(u) \in DOMAIN u.symbols
                  THEN [u EXCEPT !.symbols[Scope(u)].complete = TRUE] ELSE u
         IN Pop(v)
    [] x.op = "forward" -> Declare(u, x.name, x.is, NotFound, FALSE)
    [] x.op = "define" -> Declare(u, x.name, x.is, NotFound, TRUE)
    [] x.op = "begin" ->
         Push(Declare(u, x.name, x.is, NotFound, FALSE), Append(Scope(u), x.name))
    [] x.op = "alias" -> Declare(u, x.name, x.is, Lookup(u, x.path), TRUE)
    [] x.op = "enter" -> Push(u, Lookup(u, <<x.name>>))
    [] x.op = "metatype" ->
         IF x.guard # "" /\ x.guard \in u.macros THEN u
         ELSE [u EXCEPT !.metatypes = @ \union {x.is},
                        !.macros = @ \union ({x.guard} \ {""})]
    [] OTHER -> u
=============================================================================
