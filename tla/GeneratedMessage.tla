-------------------------- MODULE GeneratedMessage --------------------------
(***************************************************************************)
(* What the generated C++ class of a message does at run time: its         *)
(* constructors, assignments, comparison, getters and setters, and who     *)
(* owns the objects that it holds.                                         *)
(*                                                                         *)
(* The class has three fields, one for each way in which the generator     *)
(* holds a value: `kind' an enum, `child' a message in a                   *)
(* QProtobufLazyMessagePointer, and `list', repeated messages in           *)
(* QSharedPointers.  The class of `child' and of the elements of `list'    *)
(* has one field, `v', a number.                                           *)
(***************************************************************************)
EXTENDS Integers, Sequences, FiniteSets, Functions

CONSTANTS
  Messages,    \* places for message objects: variables of the user's program
  MaxObjects   \* bound: objects of the child's class that exist at a time

ASSUME BoundAssumption == MaxObjects \in Nat \ {0}

Objects == 1 .. MaxObjects
Null == 0                     \* the null pointer, and no connection
Absent == [none |-> TRUE]     \* a place that holds no message
Values == 0 .. 1              \* 0 is the default of a number and of an enum

VARIABLES
  qml,      \* QT_QML_LIB is defined
  msg,      \* for every place, the message: kind, child (m_ptr), destroyed
            \* (m_destroyed: the object it is connected to), list; and given, a
            \* history: the child was not made by the message but set by a pointer
  obj       \* for every object, its owner and v; owner "nobody" is no object, "cpp"
            \* is whoever holds it, "other" the JavaScript engine or the user

vars == <<qml, msg, obj>>

Nobody == [owner |-> "nobody", v |-> 0]

Init ==
  /\ qml \in BOOLEAN
  /\ msg = [m \in Messages |-> Absent]
  /\ obj = [o \in Objects |-> Nobody]

-----------------------------------------------------------------------------
(* A step is a sequence of effects on the program: each of the operators   *)
(* below takes the program before an effect and returns the one after it.  *)
(* `told' are the Changed signals that the step has emitted so far.        *)

Program == [msg |-> msg, obj |-> obj, told |-> {}]

Becomes(s) == msg' = s.msg /\ obj' = s.obj /\ UNCHANGED qml

Exists(s, m) == s.msg[m] # Absent
Live(s, o) == s.obj[o].owner # "nobody"
Held(s, o) == \E m \in Messages : Exists(s, m) /\ o \in {s.msg[m].child} \union Range(s.msg[m].list)
InList(s, o) == \E m \in Messages : Exists(s, m) /\ o \in Range(s.msg[m].list)

Fresh(s) == {o \in Objects : ~Live(s, o) /\ ~Held(s, o)}
NextFresh(s) == CHOOSE o \in Fresh(s) : \A p \in Fresh(s) : o <= p

Tell(s, who, what) == [s EXCEPT !.told = @ \union {<<who, what>>}]

(* The child of m, which is a default message when there is no object. *)
ChildV(s, m) == IF s.msg[m].child = Null THEN 0 ELSE s.obj[s.msg[m].child].v

(* The value of a message, as its fields would be serialized. *)
Value(s, m) ==
  [kind |-> s.msg[m].kind, child |-> ChildV(s, m),
   list |-> [i \in DOMAIN s.msg[m].list |-> s.obj[s.msg[m].list[i]].v]]

-----------------------------------------------------------------------------
(* The class of the child: a number that is set, copied and moved. *)

Make(s, o, owner, v) == [s EXCEPT !.obj[o] = [owner |-> owner, v |-> v]]

SetV(s, o, v) ==
  IF s.obj[o].v = v THEN s ELSE Tell([s EXCEPT !.obj[o].v = v], o, "v")

(* setV(std::exchange(other.m_v, 0)); other.vChanged() *)
MoveV(s, o, other) ==
  Tell(SetV([s EXCEPT !.obj[other].v = 0], o, s.obj[other].v), other, "v")

-----------------------------------------------------------------------------
(* QProtobufLazyMessagePointer. *)

(* operator*, operator-> and get(): an object is made when there is none. *)
Deref(s, m) ==
  IF s.msg[m].child # Null THEN s
  ELSE LET o == NextFresh(s) IN [Make(s, o, "cpp", 0) EXCEPT !.msg[m].child = o]

(* Faulty variant: a pointer without an object is equal to every other. *)
LazyEqualNull(s, a, b) ==
  LET p == s.msg[a].child
      q == s.msg[b].child
  IN p = Null \/ q = Null \/ s.obj[p].v = s.obj[q].v

(* operator==: a pointer without an object is compared as a default one. *)
LazyEqual(s, a, b) ==
  LET p == s.msg[a].child
      q == s.msg[b].child
  IN \/ p = Null /\ q = Null
     \/ p = Null /\ q # Null /\ s.obj[q].v = 0
     \/ p # Null /\ q = Null /\ s.obj[p].v = 0
     \/ p # Null /\ q # Null /\ s.obj[p].v = s.obj[q].v

(* A message without its child and the connection to it. *)
Dropped(r) == [r EXCEPT !.child = Null, !.destroyed = Null, !.given = FALSE]

(* Objects are deleted: the slots on their destroyed signals drop the       *)
(* pointers.                                                                *)
DeleteAll(s, os) ==
  [s EXCEPT !.obj = [o \in Objects |-> IF o \in os THEN Nobody ELSE s.obj[o]],
            !.msg = [m \in Messages |->
                       IF Exists(s, m) /\ s.msg[m].destroyed \in os
                       THEN Dropped(s.msg[m]) ELSE s.msg[m]]]

Delete(s, o) == DeleteAll(s, {o})

(* Faulty variant: the owner of the object is not asked for. *)
checkAndReleaseAlways(s, m) == [s EXCEPT !.msg[m] = Dropped(@)]

checkAndRelease(s, m) ==
  LET p == s.msg[m].child
  IN IF p # Null /\ (qml => s.obj[p].owner = "other")
     THEN [s EXCEPT !.msg[m] = Dropped(@)] ELSE s

(* m_ptr.reset(p): the pointer is replaced, then the old object deleted. *)
ResetPtr(s, m, p) ==
  LET r == [s EXCEPT !.msg[m] = [@ EXCEPT !.child = p, !.given = p # Null]]
  IN IF s.msg[m].child = Null THEN r ELSE Delete(r, s.msg[m].child)

(* Faulty variant: the new object's destroyed signal is not connected. *)
ResetUnheard(s, m, p) ==
  LET r == checkAndRelease(s, m) IN ResetPtr([r EXCEPT !.msg[m].destroyed = Null], m, p)

Reset(s, m, p) ==
  LET r == checkAndRelease(s, m) IN ResetPtr([r EXCEPT !.msg[m].destroyed = p], m, p)

-----------------------------------------------------------------------------
(* QList of QSharedPointers: an object that the last list lets go of is     *)
(* deleted.                                                                 *)
HoldList(s, m, l) == [s EXCEPT !.msg[m].list = l]

PutList(s, m, l) ==
  LET r == HoldList(s, m, l)
  IN DeleteAll(r, {o \in Range(s.msg[m].list) : ~InList(r, o)})

SetList(s, m, l) ==
  IF s.msg[m].list = l THEN s ELSE Tell(PutList(s, m, l), m, "list")

SetKind(s, m, k) ==
  IF s.msg[m].kind = k THEN s ELSE Tell([s EXCEPT !.msg[m].kind = k], m, "kind")

(* Faulty variant: elements are compared as pointers. *)
repeatedValueComparePointers(s, a, b) == a = b

repeatedValueCompare(s, a, b) ==
  /\ Len(a) = Len(b)
  /\ \A i \in DOMAIN a : a[i] = b[i] \/ s.obj[a[i]].v = s.obj[b[i]].v

-----------------------------------------------------------------------------
(* The operations of the generated class. *)

NewMessage == [kind |-> 0, child |-> Null, destroyed |-> Null,
               given |-> FALSE, list |-> <<>>]

(* A message whose object was deleted by another holder cannot be used.    *)
Usable(s, m) ==
  Exists(s, m) /\ (s.msg[m].child # Null => Live(s, s.msg[m].child))

(* Bound: the objects that an operation on messages ms may make, and n more. *)
Room(ms, n) ==
  Cardinality(Fresh(Program)) >=
    n + Cardinality({m \in ms : Exists(Program, m) /\ msg[m].child = Null})

MayConstruct(m, other) == ~Exists(Program, m) /\ Usable(Program, other) /\ Room({other}, 1)
MayAssign(m, other) == Usable(Program, m) /\ Usable(Program, other) /\ Room({m, other}, 0)

(* The constructor that takes the first n fields. *)
Constructed(s, m, n, k, x) ==
  LET e == [s EXCEPT !.msg[m] = [NewMessage EXCEPT !.kind = IF n >= 1 THEN k ELSE 0]]
      c == IF n >= 2 THEN SetV(Deref(e, m), Deref(e, m).msg[m].child, x) ELSE e
      o == NextFresh(c)
  IN IF n >= 3 THEN HoldList(Make(c, o, "cpp", x), m, <<o>>) ELSE c

Construct(m, n, k, x) ==
  /\ ~Exists(Program, m) /\ Room({}, n - 1)
  /\ Becomes(Constructed(Program, m, n, k, x))

\* if (m_child != other.m_child) { *m_child = *other.m_child; ... }
CopyChild(s, m, other, tell) ==
  IF LazyEqual(s, m, other) THEN s
  ELSE LET r == Deref(Deref(s, m), other)
           c == SetV(r, r.msg[m].child, ChildV(r, other))
       IN IF tell THEN Tell(c, m, "child") ELSE c

\* if (m_child != other.m_child) { *m_child = std::move(*other.m_child); ... }
MoveChild(s, m, other, tell) ==
  IF LazyEqual(s, m, other) THEN s
  ELSE LET r == Deref(Deref(s, m), other)
           c == MoveV(r, r.msg[m].child, r.msg[other].child)
       IN IF tell THEN Tell(Tell(c, m, "child"), other, "child") ELSE c

CopyConstructed(s, m, other) ==
  LET e == [s EXCEPT !.msg[m] = [NewMessage EXCEPT !.kind = s.msg[other].kind]]
  IN SetList(CopyChild(e, m, other, FALSE), m, s.msg[other].list)

MoveConstructed(s, m, other) ==
  LET e == [s EXCEPT !.msg[m] = [NewMessage EXCEPT !.kind = s.msg[other].kind]]
      c == MoveChild(e, m, other, FALSE)
  IN Tell(HoldList(HoldList(c, m, s.msg[other].list), other, <<>>), other, "list")

CopyAssigned(s, m, other) ==
  SetList(CopyChild(SetKind(s, m, s.msg[other].kind), m, other, TRUE), m, s.msg[other].list)

(* Faulty variant: the list is taken without a word to the one it had. *)
MoveAssignedSilent(s, m, other) ==
  LET c == MoveChild([s EXCEPT !.msg[m].kind = s.msg[other].kind], m, other, TRUE)
      l == s.msg[other].list
  IN IF s.msg[m].list = l THEN {c}
     ELSE {Tell(PutList(PutList(c, m, l), other, <<>>), m, "list")}

(* Qt leaves a list that was moved from empty, or with what the other had. *)
MoveAssigned(s, m, other) ==
  LET c == MoveChild([s EXCEPT !.msg[m].kind = s.msg[other].kind], m, other, TRUE)
      l == s.msg[other].list
      moved(rest) ==
        LET r == HoldList(HoldList(c, m, l), other, rest)
            d == DeleteAll(r, {o \in Range(s.msg[m].list) : ~InList(r, o)})
        IN Tell(Tell(d, m, "list"), other, "list")
  IN IF s.msg[m].list = l THEN {c} ELSE {moved(<<>>), moved(s.msg[m].list)}

CopyConstruct(m, other) == MayConstruct(m, other) /\ Becomes(CopyConstructed(Program, m, other))
MoveConstruct(m, other) == MayConstruct(m, other) /\ Becomes(MoveConstructed(Program, m, other))
CopyAssign(m, other) == MayAssign(m, other) /\ Becomes(CopyAssigned(Program, m, other))
MoveAssign(m, other) ==
  MayAssign(m, other) /\ \E s \in MoveAssigned(Program, m, other) : Becomes(s)

setKind(m, k) == Exists(Program, m) /\ Becomes(SetKind(Program, m, k))

SetChild(s, m, x) ==
  LET d == Deref(s, m)
  IN IF ChildV(d, m) = x THEN d ELSE Tell(SetV(d, d.msg[m].child, x), m, "child")

setChild(m, x) == MayAssign(m, m) /\ Becomes(SetChild(Program, m, x))

(* What setChild_p may be given: null, an object of the engine or the user, *)
(* and what child_p() of another message has returned.                      *)
Pointers(m) ==
  {Null} \union {o \in Objects : obj[o].owner = "other"}
         \union {msg[n].child : n \in {n \in Messages \ {m} : Usable(Program, n)}}

SetChildP(s, m, p) ==
  LET d == Deref(s, m)
  IN IF d.msg[m].child = p THEN d ELSE Tell(Reset(d, m, p), m, "child")

setChild_p(m, p) ==
  MayAssign(m, m) /\ p \in Pointers(m) /\ Becomes(SetChildP(Program, m, p))

(* child() and child_p() *)
getChild(m) == MayAssign(m, m) /\ Becomes(Deref(Program, m))

(* setList with what another message has, with a new element, or with none. *)
setList(m, l) == Exists(Program, m) /\ Becomes(SetList(Program, m, l))

setListNew(m, x) ==
  /\ Exists(Program, m) /\ Room({}, 1)
  /\ LET o == NextFresh(Program)
     IN Becomes(SetList(Make(Program, o, "cpp", x), m, <<o>>))

(* QML appends an object of the engine's, which becomes the list's.         *)
(* Restriction: the code also takes an object that a message holds already, *)
(* as its child or in this or another list, and gives it a second owner     *)
(* that deletes it once more; the model appends only objects nobody holds.  *)
qmllistpropertyAppend(m, o) ==
  /\ qml /\ Exists(Program, m) /\ msg[m].list = <<>>
  /\ obj[o].owner = "other" /\ ~Held(Program, o)
  /\ Becomes(HoldList([Program EXCEPT !.obj[o].owner = "cpp"], m, <<o>>))

qmllistpropertyReset(m) == qml /\ Exists(Program, m) /\ Becomes(PutList(Program, m, <<>>))

(* operator==.  Its only effect are the objects that it makes: children     *)
(* that the lazy pointers tell apart are dereferenced and compared again.   *)
Compared(s, a, b) ==
  IF s.msg[a].kind # s.msg[b].kind \/ LazyEqual(s, a, b) THEN s ELSE Deref(Deref(s, a), b)

Equal(s, a, b) ==
  LET t == Compared(s, a, b)
  IN /\ s.msg[a].kind = s.msg[b].kind
     /\ LazyEqual(s, a, b) \/ t.obj[t.msg[a].child].v = t.obj[t.msg[b].child].v
     /\ repeatedValueCompare(t, t.msg[a].list, t.msg[b].list)

Compare(m, other) == MayAssign(m, other) /\ Becomes(Compared(Program, m, other))

Destroy(m) ==
  /\ Usable(Program, m)
  /\ LET s == [checkAndRelease(Program, m) EXCEPT !.msg[m].destroyed = Null]
         d == PutList(ResetPtr(s, m, Null), m, <<>>)
     IN Becomes([d EXCEPT !.msg[m] = Absent])

(* The engine, or the user, makes an object, changes one, deletes its own. *)
NewObject(x) ==
  Room({}, 1) /\ Becomes(Make(Program, NextFresh(Program), "other", x))

ChangeObject(o, x) == Live(Program, o) /\ Becomes(SetV(Program, o, x))

CollectObject(o) == obj[o].owner = "other" /\ Becomes(Delete(Program, o))

Next ==
  \/ \E m \in Messages :
       \/ \E n \in 0 .. 3, k, x \in Values : Construct(m, n, k, x)
       \/ \E other \in Messages :
            \/ CopyConstruct(m, other) \/ MoveConstruct(m, other)
            \/ CopyAssign(m, other) \/ MoveAssign(m, other) \/ Compare(m, other)
            \/ Exists(Program, other) /\ setList(m, msg[other].list)
       \/ \E x \in Values : setKind(m, x) \/ setChild(m, x) \/ setListNew(m, x)
       \/ \E p \in Objects \union {Null} : setChild_p(m, p)
       \/ getChild(m) \/ setList(m, <<>>) \/ qmllistpropertyReset(m) \/ Destroy(m)
       \/ \E o \in Objects : qmllistpropertyAppend(m, o)
  \/ \E x \in Values : NewObject(x)
  \/ \E o \in Objects : CollectObject(o) \/ \E x \in Values : ChangeObject(o, x)

Spec == Init /\ [][Next]_vars

-----------------------------------------------------------------------------
(* Properties. *)

(* operator== of the generated class, with its lazily made children and its *)
(* lists of shared objects, is equality of values, and it reads no element  *)
(* that is deleted: it does not tell a child that is not there from a       *)
(* default one, nor a shared element from a copy.  It is const and makes    *)
(* children nevertheless: these change no message's value, leave every      *)
(* message usable, and do not change the answer of a second comparison.     *)
EqualityIsByValue ==
  \A a, b \in Messages :
    MayAssign(a, b) =>
      LET t == Compared(Program, a, b) IN
      /\ Equal(Program, a, b) <=> Value(Program, a) = Value(Program, b)
      /\ \A o \in Range(msg[a].list) \union Range(msg[b].list) : Live(Program, o)
      /\ Equal(t, b, a) <=> Equal(Program, a, b)
      /\ \A m \in Messages :
           Usable(Program, m) => Usable(t, m) /\ Value(t, m) = Value(Program, m)

(* Copying and moving, by construction or assignment and from a message to  *)
(* itself too, give the target the source's value; a copy leaves the source *)
(* its value, and so does moving a message to itself.                       *)
AssignmentCarriesValue ==
  \A m, other \in Messages :
    LET v == Value(Program, other) IN
    /\ MayConstruct(m, other) =>
         /\ Value(CopyConstructed(Program, m, other), m) = v
         /\ Value(CopyConstructed(Program, m, other), other) = v
         /\ Value(MoveConstructed(Program, m, other), m) = v
    /\ MayAssign(m, other) =>
         /\ Value(CopyAssigned(Program, m, other), m) = v
         /\ Value(CopyAssigned(Program, m, other), other) = v
         /\ \A s \in MoveAssigned(Program, m, other) : Value(s, m) = v

(* A child that was set by a pointer is there as long as the message shows  *)
(* it: its owner may delete it at any time, and the message has let go then. *)
SetPointersAreLive ==
  \A m \in Messages : Exists(Program, m) /\ msg[m].given => Live(Program, msg[m].child)

(* With QML, an object that C++ owns is held by a message until it is       *)
(* deleted: no sequence of assignments, setters and destructions leaks one. *)
NothingLost ==
  qml => \A o \in Objects : obj[o].owner = "cpp" => Held(Program, o)

(* A property that an assignment or a setter changes in the message it is   *)
(* called on, or in the one that is moved from, is announced by the message *)
(* or by the child that has changed; only an enum that is moved is not.     *)
Tells(s, m, fields) ==
  /\ "child" \in fields /\ ChildV(s, m) # ChildV(Program, m) =>
       <<m, "child">> \in s.told \/ <<s.msg[m].child, "v">> \in s.told
  /\ "list" \in fields /\ s.msg[m].list # msg[m].list => <<m, "list">> \in s.told
  /\ "kind" \in fields /\ s.msg[m].kind # msg[m].kind => <<m, "kind">> \in s.told

ChangeIsTold ==
  \A m, other \in Messages :
    /\ MayConstruct(m, other) =>
         Tells(MoveConstructed(Program, m, other), other, {"kind", "child", "list"})
    /\ MayAssign(m, other) =>
         /\ Tells(CopyAssigned(Program, m, other), m, {"kind", "child", "list"})
         /\ \A s \in MoveAssigned(Program, m, other) :
              Tells(s, m, {"child", "list"}) /\ Tells(s, other, {"child", "list"})
         /\ \A p \in Pointers(m) : Tells(SetChildP(Program, m, p), m, {"kind", "child", "list"})
         /\ \A x \in Values : Tells(SetChild(Program, m, x), m, {"kind", "child", "list"})
=============================================================================
