----------------------- MODULE GeneratedMessageProofs -----------------------
(***************************************************************************)
(* Proofs about GeneratedMessage, for any number of messages and objects:  *)
(* who owns the objects that messages hold, and what operator== compares.  *)
(*                                                                         *)
(* An operation is a chain of operators from program to program, so most   *)
(* lemmas are about one operator: what it changes, and that the program    *)
(* after it is as sound as the one before.                                 *)
(***************************************************************************)
EXTENDS GeneratedMessage, FiniteSetTheorems, SequenceTheorems, WellFoundedInduction, TLAPS

Message == [kind : Values, child : Objects \union {Null}, destroyed : Objects \union {Null},
            given : BOOLEAN, list : Seq(Objects)]
Object == [owner : {"nobody", "cpp", "other"}, v : Values]
Signals == (Messages \union Objects) \X {"kind", "child", "list", "v"}
Prog == [msg : [Messages -> Message \union {Absent}], obj : [Objects -> Object],
         told : SUBSET Signals]

\* A message is connected to the child that it was given, which exists.
Heard(s) ==
  \A m \in Messages : Exists(s, m) =>
    /\ s.msg[m].destroyed # Null =>
         s.msg[m].child = s.msg[m].destroyed /\ Live(s, s.msg[m].destroyed)
    /\ s.msg[m].given => s.msg[m].destroyed # Null

\* The elements of lists belong to the lists, and are nobody's child.
Elements(s) ==
  \A o \in Objects : InList(s, o) =>
    /\ s.obj[o].owner = "cpp"
    /\ \A m \in Messages : Exists(s, m) => s.msg[m].child # o

\* What C++ owns and no message holds.
Lost(s) == {o \in Objects : s.obj[o].owner = "cpp" /\ ~Held(s, o)}

Sound(s) == s \in Prog /\ Heard(s) /\ Elements(s)

\* The inductive invariant.
IInv == qml \in BOOLEAN /\ Sound(Program) /\ (qml => Lost(Program) = {})

-----------------------------------------------------------------------------
(* Types. *)

\* The null pointer is no object, and a place without message holds none.
LEMMA Basics ==
  /\ Objects \subseteq Nat /\ 0 \notin Objects /\ Null = 0 /\ Null \notin Objects
  /\ Absent \notin Message
<1>1. Objects \subseteq Nat /\ 0 \notin Objects /\ Null = 0
  BY BoundAssumption DEF Objects, Null
<1>2. Absent \notin Message
  <2>1. ASSUME Absent \in Message PROVE FALSE
    <3>1. DOMAIN Absent = {"none"}
      BY DEF Absent
    <3>2. DOMAIN Absent = {"kind", "child", "destroyed", "given", "list"}
      BY <2>1 DEF Message
    <3> QED
      BY <3>1, <3>2
  <2> QED
    BY <2>1
<1> QED
  BY <1>1, <1>2

\* The parts of a program.
LEMMA Parts ==
  ASSUME NEW s \in Prog
  PROVE  /\ s.msg \in [Messages -> Message \union {Absent}]
         /\ s.obj \in [Objects -> Object]
         /\ s.told \in SUBSET Signals
         /\ s = [msg |-> s.msg, obj |-> s.obj, told |-> s.told]
         /\ \A m \in Messages : Exists(s, m) <=> s.msg[m] \in Message
         /\ \A m \in Messages : Exists(s, m) =>
              /\ s.msg[m].kind \in Values
              /\ s.msg[m].child \in Objects \union {Null}
              /\ s.msg[m].destroyed \in Objects \union {Null}
              /\ s.msg[m].given \in BOOLEAN
              /\ s.msg[m].list \in Seq(Objects)
         /\ \A o \in Objects : s.obj[o].owner \in {"nobody", "cpp", "other"} /\ s.obj[o].v \in Values
<1>1. /\ s.msg \in [Messages -> Message \union {Absent}]
      /\ s.obj \in [Objects -> Object]
      /\ s.told \in SUBSET Signals
      /\ s = [msg |-> s.msg, obj |-> s.obj, told |-> s.told]
  BY DEF Prog
<1>2. \A m \in Messages : Exists(s, m) <=> s.msg[m] \in Message
  BY <1>1, Basics DEF Exists
<1>3. \A r \in Message :
              /\ r.kind \in Values
              /\ r.child \in Objects \union {Null}
              /\ r.destroyed \in Objects \union {Null}
              /\ r.given \in BOOLEAN
              /\ r.list \in Seq(Objects)
  BY DEF Message
<1>4. \A r \in Object : r.owner \in {"nobody", "cpp", "other"} /\ r.v \in Values
  BY DEF Object
<1> QED
  BY <1>1, <1>2, <1>3, <1>4

\* One message is replaced.
LEMMA PutMessage ==
  ASSUME NEW s \in Prog, NEW m \in Messages, NEW r \in Message \union {Absent}
  PROVE  /\ [s EXCEPT !.msg[m] = r] \in Prog
         /\ [s EXCEPT !.msg[m] = r].obj = s.obj
         /\ [s EXCEPT !.msg[m] = r].told = s.told
         /\ [s EXCEPT !.msg[m] = r].msg[m] = r
         /\ \A n \in Messages \ {m} : [s EXCEPT !.msg[m] = r].msg[n] = s.msg[n]
<1>1. s.msg \in [Messages -> Message \union {Absent}]
  BY Parts
<1>2. [s.msg EXCEPT ![m] = r] \in [Messages -> Message \union {Absent}]
  BY <1>1
<1> QED
  BY <1>1, <1>2 DEF Prog

\* One object is replaced.
LEMMA PutObject ==
  ASSUME NEW s \in Prog, NEW o \in Objects, NEW r \in Object
  PROVE  /\ [s EXCEPT !.obj[o] = r] \in Prog
         /\ [s EXCEPT !.obj[o] = r].msg = s.msg
         /\ [s EXCEPT !.obj[o] = r].told = s.told
         /\ [s EXCEPT !.obj[o] = r].obj[o] = r
         /\ \A p \in Objects \ {o} : [s EXCEPT !.obj[o] = r].obj[p] = s.obj[p]
<1>1. s.obj \in [Objects -> Object]
  BY Parts
<1>2. [s.obj EXCEPT ![o] = r] \in [Objects -> Object]
  BY <1>1
<1> QED
  BY <1>1, <1>2 DEF Prog

\* A signal changes no object.
LEMMA TellIs ==
  ASSUME NEW s \in Prog, NEW who \in Messages \union Objects,
         NEW what \in {"kind", "child", "list", "v"}
  PROVE  /\ Tell(s, who, what) \in Prog
         /\ Tell(s, who, what).msg = s.msg
         /\ Tell(s, who, what).obj = s.obj
         /\ Tell(s, who, what).told = s.told \union {<<who, what>>}
<1>1. s.told \union {<<who, what>>} \in SUBSET Signals
  BY Parts DEF Signals
<1> QED
  BY <1>1 DEF Tell, Prog

\* The child's setter changes its number only.
LEMMA SetVIs ==
  ASSUME NEW s \in Prog, NEW o \in Objects, NEW x \in Values
  PROVE  /\ SetV(s, o, x) \in Prog
         /\ SetV(s, o, x).msg = s.msg
         /\ SetV(s, o, x).obj[o].v = x
         /\ \A p \in Objects : SetV(s, o, x).obj[p].owner = s.obj[p].owner
         /\ \A p \in Objects \ {o} : SetV(s, o, x).obj[p].v = s.obj[p].v
         /\ s.told \subseteq SetV(s, o, x).told
         /\ s.obj[o].v # x => <<o, "v">> \in SetV(s, o, x).told
<1> DEFINE r == [s.obj[o] EXCEPT !.v = x]
           t == [s EXCEPT !.obj[o] = r]
<1>1. r \in Object /\ r.v = x /\ r.owner = s.obj[o].owner
  BY Parts DEF Object
<1>2. /\ t \in Prog /\ t.msg = s.msg /\ t.told = s.told /\ t.obj[o] = r
      /\ \A p \in Objects \ {o} : t.obj[p] = s.obj[p]
  BY <1>1, PutObject
<1>3. CASE s.obj[o].v = x
  BY <1>3 DEF SetV
<1>4. CASE s.obj[o].v # x
  <2>1. SetV(s, o, x) = Tell(t, o, "v")
    BY <1>4 DEF SetV
  <2> HIDE DEF t, r
  <2>2. /\ Tell(t, o, "v") \in Prog /\ Tell(t, o, "v").msg = t.msg
        /\ Tell(t, o, "v").obj = t.obj /\ Tell(t, o, "v").told = t.told \union {<<o, "v">>}
    BY <1>2, TellIs
  <2> QED
    BY <1>1, <1>2, <2>1, <2>2
<1> QED
  BY <1>3, <1>4

\* The child's move assignment: the number goes over, a zero stays.
LEMMA MoveVIs ==
  ASSUME NEW s \in Prog, NEW o \in Objects, NEW p \in Objects, o # p
  PROVE  /\ MoveV(s, o, p) \in Prog
         /\ MoveV(s, o, p).msg = s.msg
         /\ MoveV(s, o, p).obj[o].v = s.obj[p].v
         /\ MoveV(s, o, p).obj[p].v = 0
         /\ \A q \in Objects : MoveV(s, o, p).obj[q].owner = s.obj[q].owner
         /\ \A q \in Objects \ {o, p} : MoveV(s, o, p).obj[q].v = s.obj[q].v
         /\ s.told \subseteq MoveV(s, o, p).told
         /\ <<p, "v">> \in MoveV(s, o, p).told
         /\ s.obj[o].v # s.obj[p].v => <<o, "v">> \in MoveV(s, o, p).told
<1> DEFINE r == [s.obj[p] EXCEPT !.v = 0]
           t == [s EXCEPT !.obj[p] = r]
           u == SetV(t, o, s.obj[p].v)
<1>1. r \in Object /\ r.v = 0 /\ r.owner = s.obj[p].owner
  BY Parts DEF Object, Values
<1>2. /\ t \in Prog /\ t.msg = s.msg /\ t.told = s.told /\ t.obj[p] = r
      /\ \A q \in Objects \ {p} : t.obj[q] = s.obj[q]
  BY <1>1, PutObject
<1>3. MoveV(s, o, p) = Tell(u, p, "v")
  BY DEF MoveV
<1>4. s.obj[p].v \in Values
  BY Parts
<1> HIDE DEF t, r
<1>5. /\ u \in Prog /\ u.msg = t.msg /\ u.obj[o].v = s.obj[p].v
      /\ \A q \in Objects : u.obj[q].owner = t.obj[q].owner
      /\ \A q \in Objects \ {o} : u.obj[q].v = t.obj[q].v
      /\ t.told \subseteq u.told
      /\ t.obj[o].v # s.obj[p].v => <<o, "v">> \in u.told
  BY <1>2, <1>4, SetVIs
<1> HIDE DEF u
<1>6. /\ Tell(u, p, "v") \in Prog /\ Tell(u, p, "v").msg = u.msg
      /\ Tell(u, p, "v").obj = u.obj /\ Tell(u, p, "v").told = u.told \union {<<p, "v">>}
  BY <1>5, TellIs
<1>7. t.obj[o] = s.obj[o]
  BY <1>2
<1>8. \A q \in Objects : t.obj[q].owner = s.obj[q].owner
  BY <1>1, <1>2
<1>9. p \in Objects \ {o}
  OBVIOUS
<1>10. MoveV(s, o, p).obj[p].v = 0
  BY <1>1, <1>2, <1>3, <1>5, <1>6, <1>9
<1>11. \A q \in Objects \ {o, p} : MoveV(s, o, p).obj[q].v = s.obj[q].v
  BY <1>2, <1>3, <1>5, <1>6
<1>12. \A q \in Objects : MoveV(s, o, p).obj[q].owner = s.obj[q].owner
  BY <1>3, <1>5, <1>6, <1>8
<1>13. s.told \subseteq MoveV(s, o, p).told /\ <<p, "v">> \in MoveV(s, o, p).told
       /\ (s.obj[o].v # s.obj[p].v => <<o, "v">> \in MoveV(s, o, p).told)
  BY <1>2, <1>3, <1>5, <1>6, <1>7
<1> QED
  BY <1>2, <1>3, <1>5, <1>6, <1>10, <1>11, <1>12, <1>13

-----------------------------------------------------------------------------
(* Programs that hold the same. *)

\* The same objects with the same owners, held by the same messages.
Alike(s, t) ==
  /\ \A o \in Objects : t.obj[o].owner = s.obj[o].owner
  /\ \A m \in Messages :
       /\ Exists(t, m) <=> Exists(s, m)
       /\ Exists(s, m) =>
            /\ t.msg[m].child = s.msg[m].child /\ t.msg[m].destroyed = s.msg[m].destroyed
            /\ t.msg[m].given = s.msg[m].given /\ t.msg[m].list = s.msg[m].list

LEMMA AlikeSound ==
  ASSUME NEW s \in Prog, NEW t \in Prog, Alike(s, t)
  PROVE  /\ Sound(s) => Sound(t)
         /\ Lost(t) = Lost(s) /\ Fresh(t) = Fresh(s)
<1>1. \A o \in Objects : Live(t, o) <=> Live(s, o)
  BY DEF Alike, Live
<1>2. \A o \in Objects : (Held(t, o) <=> Held(s, o)) /\ (InList(t, o) <=> InList(s, o))
  BY DEF Alike, Held, InList
<1>3. Heard(s) => Heard(t)
  <2> SUFFICES ASSUME Heard(s), NEW m \in Messages, Exists(t, m)
               PROVE  /\ t.msg[m].destroyed # Null =>
                           t.msg[m].child = t.msg[m].destroyed /\ Live(t, t.msg[m].destroyed)
                      /\ t.msg[m].given => t.msg[m].destroyed # Null
    BY DEF Heard
  <2>1. Exists(s, m) /\ t.msg[m].child = s.msg[m].child /\ t.msg[m].destroyed = s.msg[m].destroyed
        /\ t.msg[m].given = s.msg[m].given
    BY DEF Alike
  <2>2. s.msg[m].destroyed \in Objects \union {Null}
    BY <2>1, Parts
  <2> QED
    BY <1>1, <2>1, <2>2 DEF Heard
<1>4. Elements(s) => Elements(t)
  BY <1>2 DEF Elements, Alike
<1> QED
  BY <1>1, <1>2, <1>3, <1>4 DEF Sound, Lost, Fresh, Alike

-----------------------------------------------------------------------------
(* New objects. *)

\* A set of natural numbers has a least element.
LEMMA Least ==
  ASSUME NEW T, T \subseteq Nat, T # {}
  PROVE  \E x \in T : \A y \in T : x <= y
<1> DEFINE R == OpToRel(<, Nat)
<1>1. IsWellFoundedOn(R, Nat)
  BY NatLessThanWellFounded
<1>2. \A x, y \in Nat : y < x => <<y, x>> \in R
  BY DEF OpToRel
<1> HIDE DEF R
<1>3. PICK x \in T : \A y \in T : ~ (<<y, x>> \in R)
  BY <1>1, WFMin
<1>4. \A y \in T : ~(y < x)
  BY <1>2, <1>3
<1> QED
  BY <1>4

\* As long as there is room, the next object is one that does not exist yet.
LEMMA NextFreshIs ==
  ASSUME NEW s, Fresh(s) # {}
  PROVE  /\ NextFresh(s) \in Objects
         /\ ~Live(s, NextFresh(s)) /\ ~Held(s, NextFresh(s)) /\ ~InList(s, NextFresh(s))
         /\ NextFresh(s) \in Fresh(s)
<1>1. Fresh(s) \subseteq Nat
  BY Basics DEF Fresh
<1>2. \E o \in Fresh(s) : \A p \in Fresh(s) : o <= p
  BY <1>1, Least
<1>3. NextFresh(s) \in Fresh(s)
  BY <1>2 DEF NextFresh
<1>4. NextFresh(s) \in Objects /\ ~Live(s, NextFresh(s)) /\ ~Held(s, NextFresh(s))
  BY <1>3 DEF Fresh
<1> QED
  BY <1>3, <1>4 DEF Held, InList

\* operator* makes a default child when there is none, and that only.
LEMMA DerefIs ==
  ASSUME NEW s \in Prog, NEW m \in Messages, Exists(s, m),
         s.msg[m].child = Null => Fresh(s) # {}
  PROVE  /\ Deref(s, m) \in Prog
         /\ Deref(s, m).told = s.told
         /\ \A n \in Messages \ {m} : Deref(s, m).msg[n] = s.msg[n]
         /\ s.msg[m].child # Null => Deref(s, m) = s
         /\ s.msg[m].child = Null =>
              /\ Deref(s, m).msg[m] = [s.msg[m] EXCEPT !.child = NextFresh(s)]
              /\ Deref(s, m).obj[NextFresh(s)] = [owner |-> "cpp", v |-> 0]
              /\ \A p \in Objects \ {NextFresh(s)} : Deref(s, m).obj[p] = s.obj[p]
<1>1. CASE s.msg[m].child # Null
  BY <1>1 DEF Deref
<1>2. CASE s.msg[m].child = Null
  <2> DEFINE o == NextFresh(s)
             x == [owner |-> "cpp", v |-> 0]
             t == [s EXCEPT !.obj[o] = x]
             r == [s.msg[m] EXCEPT !.child = o]
             u == [t EXCEPT !.msg[m] = r]
  <2>1. o \in Objects
    BY <1>2, NextFreshIs
  <2>2. Deref(s, m) = [t EXCEPT !.msg[m] = [@ EXCEPT !.child = o]]
    BY <1>2 DEF Deref, Make
  <2> HIDE DEF o
  <2>3. x \in Object
    BY DEF Object, Values
  <2>4. /\ t \in Prog /\ t.msg = s.msg /\ t.told = s.told /\ t.obj[o] = x
        /\ \A p \in Objects \ {o} : t.obj[p] = s.obj[p]
    BY <2>1, <2>3, PutObject
  <2>5. Deref(s, m) = u
    BY <2>2, <2>4
  <2>6. s.msg[m] \in Message
    BY Parts
  <2>7. r \in Message
    BY <2>1, <2>6 DEF Message
  <2> HIDE DEF t, r, x
  <2>8. /\ u \in Prog /\ u.obj = t.obj /\ u.told = t.told /\ u.msg[m] = r
        /\ \A n \in Messages \ {m} : u.msg[n] = t.msg[n]
    BY <2>4, <2>7, PutMessage
  <2> HIDE DEF u
  <2> QED
    BY <1>2, <2>4, <2>5, <2>8 DEF o, r, x
<1> QED
  BY <1>1, <1>2

\* Of what is fresh, operator* takes at most one object.
LEMMA DerefFresh ==
  ASSUME NEW s \in Prog, NEW m \in Messages, Exists(s, m),
         s.msg[m].child = Null => Fresh(s) # {}
  PROVE  /\ \A n \in Messages : Exists(Deref(s, m), n) <=> Exists(s, n)
         /\ Deref(s, m).msg[m].child \in Objects
         /\ Deref(s, m).msg[m].kind = s.msg[m].kind
         /\ Deref(s, m).msg[m].destroyed = s.msg[m].destroyed
         /\ Deref(s, m).msg[m].given = s.msg[m].given
         /\ Deref(s, m).msg[m].list = s.msg[m].list
         /\ \A o \in Objects : InList(Deref(s, m), o) <=> InList(s, o)
         /\ \A o \in Objects : Held(s, o) => Held(Deref(s, m), o)
         /\ \A o \in Objects : Held(Deref(s, m), o) =>
              Held(s, o) \/ (s.msg[m].child = Null /\ o = NextFresh(s))
         /\ s.msg[m].child = Null => Fresh(Deref(s, m)) = Fresh(s) \ {NextFresh(s)}
         /\ s.msg[m].child # Null => Fresh(Deref(s, m)) = Fresh(s)
<1> DEFINE t == Deref(s, m)
<1>1. s.msg[m] \in Message /\ s.msg[m].child \in Objects \union {Null}
  BY Parts
<1>2. CASE s.msg[m].child # Null
  <2>1. Deref(s, m) = s
    BY <1>2, DerefIs
  <2>2. s.msg[m].child \in Objects
    BY <1>1, <1>2
  <2> HIDE DEF t
  <2> QED
    BY <1>2, <2>1, <2>2
<1>3. CASE s.msg[m].child = Null
  <2> DEFINE o == NextFresh(s)
  <2>1. /\ t \in Prog
        /\ \A n \in Messages \ {m} : t.msg[n] = s.msg[n]
        /\ t.msg[m] = [s.msg[m] EXCEPT !.child = o]
        /\ t.obj[o] = [owner |-> "cpp", v |-> 0]
        /\ \A p \in Objects \ {o} : t.obj[p] = s.obj[p]
    BY <1>3, DerefIs
  <2>2. o \in Objects /\ ~Live(s, o) /\ ~Held(s, o) /\ o \in Fresh(s)
    BY <1>3, NextFreshIs
  <2> HIDE DEF t, o
  <2>3. /\ t.msg[m].child = o /\ t.msg[m].kind = s.msg[m].kind
        /\ t.msg[m].destroyed = s.msg[m].destroyed
        /\ t.msg[m].given = s.msg[m].given /\ t.msg[m].list = s.msg[m].list
        /\ t.msg[m] \in Message
    BY <1>1, <2>1, <2>2 DEF Message
  <2>4. \A n \in Messages : Exists(t, n) <=> Exists(s, n)
    BY <2>1, <2>3, Basics DEF Exists
  <2>5. \A p \in Objects : InList(t, p) <=> InList(s, p)
    BY <2>1, <2>3, <2>4 DEF InList
  <2>6. \A p \in Objects : Held(t, p) <=> Held(s, p) \/ p = o
    <3> SUFFICES ASSUME NEW p \in Objects PROVE Held(t, p) <=> Held(s, p) \/ p = o
      OBVIOUS
    <3>1. \A n \in Messages \ {m} : Exists(s, n) =>
            (p \in {t.msg[n].child} \union Range(t.msg[n].list)
               <=> p \in {s.msg[n].child} \union Range(s.msg[n].list))
      BY <2>1
    <3>2. p \in {t.msg[m].child} \union Range(t.msg[m].list)
            <=> p = o \/ p \in {s.msg[m].child} \union Range(s.msg[m].list)
      BY <1>3, <2>3, Basics
    <3> QED
      BY <2>4, <3>1, <3>2 DEF Held
  <2>7. \A p \in Objects \ {o} : Live(t, p) <=> Live(s, p)
    BY <2>1 DEF Live
  <2>8. Live(t, o)
    BY <2>1 DEF Live
  <2>9. Fresh(t) = Fresh(s) \ {o}
    BY <2>2, <2>6, <2>7, <2>8 DEF Fresh
  <2>10. t = Deref(s, m) /\ o = NextFresh(s)
    BY DEF t, o
  <2>11. \A p \in Objects : Held(s, p) => Held(t, p)
    BY <2>6
  <2>12. \A p \in Objects : Held(t, p) => Held(s, p) \/ (s.msg[m].child = Null /\ p = o)
    BY <1>3, <2>6
  <2> QED
    BY <1>3, <2>2, <2>3, <2>4, <2>5, <2>9, <2>10, <2>11, <2>12
<1> QED
  BY <1>2, <1>3

LEMMA DerefSound ==
  ASSUME NEW s, Sound(s), NEW m \in Messages, Exists(s, m),
         s.msg[m].child = Null => Fresh(s) # {}
  PROVE  Sound(Deref(s, m)) /\ Lost(Deref(s, m)) \subseteq Lost(s)
<1> DEFINE t == Deref(s, m)
           o == NextFresh(s)
<1>0. s \in Prog /\ Heard(s) /\ Elements(s)
  BY DEF Sound
<1>1. CASE s.msg[m].child # Null
  BY <1>0, <1>1, DerefIs
<1>2. CASE s.msg[m].child = Null
  <2>1. /\ t \in Prog
        /\ \A n \in Messages \ {m} : t.msg[n] = s.msg[n]
        /\ t.obj[o] = [owner |-> "cpp", v |-> 0]
        /\ \A p \in Objects \ {o} : t.obj[p] = s.obj[p]
        /\ t.msg[m] = [s.msg[m] EXCEPT !.child = o]
    BY <1>0, <1>2, DerefIs
  <2>2. /\ \A n \in Messages : Exists(t, n) <=> Exists(s, n)
        /\ t.msg[m].destroyed = s.msg[m].destroyed /\ t.msg[m].given = s.msg[m].given
        /\ \A p \in Objects : InList(t, p) <=> InList(s, p)
        /\ \A p \in Objects : Held(s, p) => Held(t, p)
    BY <1>0, <1>2, DerefFresh
  <2>3. o \in Objects /\ ~InList(s, o)
    BY <1>2, NextFreshIs
  <2>4. s.msg[m] \in Message /\ s.msg[m].destroyed = Null /\ ~s.msg[m].given
    BY <1>0, <1>2, Parts DEF Heard
  <2>5. t.msg[m].child = o
    BY <2>1, <2>4 DEF Message
  <2> HIDE DEF t, o
  <2>6. Heard(t)
    <3> SUFFICES ASSUME NEW n \in Messages, Exists(t, n)
                 PROVE  /\ t.msg[n].destroyed # Null =>
                             t.msg[n].child = t.msg[n].destroyed /\ Live(t, t.msg[n].destroyed)
                        /\ t.msg[n].given => t.msg[n].destroyed # Null
      BY DEF Heard
    <3>1. CASE n = m
      BY <2>2, <2>4, <3>1
    <3>2. CASE n # m
      <4>1. t.msg[n] = s.msg[n] /\ Exists(s, n)
        BY <2>1, <2>2, <3>2
      <4>2. s.msg[n].destroyed \in Objects \union {Null}
        BY <1>0, <4>1, Parts
      <4>3. \A p \in Objects : Live(s, p) => Live(t, p)
        BY <2>1 DEF Live
      <4> QED
        BY <1>0, <4>1, <4>2, <4>3 DEF Heard
    <3> QED
      BY <3>1, <3>2
  <2>7. Elements(t)
    <3> SUFFICES ASSUME NEW p \in Objects, InList(t, p)
                 PROVE  /\ t.obj[p].owner = "cpp"
                        /\ \A n \in Messages : Exists(t, n) => t.msg[n].child # p
      BY DEF Elements
    <3>1. InList(s, p) /\ p # o
      BY <2>2, <2>3
    <3>2. s.obj[p].owner = "cpp" /\ \A n \in Messages : Exists(s, n) => s.msg[n].child # p
      BY <1>0, <3>1 DEF Elements
    <3> QED
      BY <2>1, <2>2, <2>5, <3>1, <3>2
  <2>8. Lost(t) \subseteq Lost(s)
    <3> SUFFICES ASSUME NEW p \in Objects, t.obj[p].owner = "cpp", ~Held(t, p)
                 PROVE  s.obj[p].owner = "cpp" /\ ~Held(s, p)
      BY DEF Lost
    <3>1. Held(t, o)
      BY <2>2, <2>5 DEF Held
    <3> QED
      BY <2>1, <2>2, <3>1
  <2> QED
    BY <2>1, <2>6, <2>7, <2>8 DEF Sound, t
<1> QED
  BY <1>1, <1>2

\* A fresh object is made, which no message holds yet.
LEMMA MakeSound ==
  ASSUME NEW s, Sound(s), NEW o \in Objects, ~Live(s, o), ~Held(s, o),
         NEW owner \in {"cpp", "other"}, NEW x \in Values
  PROVE  /\ Sound(Make(s, o, owner, x))
         /\ Make(s, o, owner, x).msg = s.msg
         /\ Make(s, o, owner, x).obj[o] = [owner |-> owner, v |-> x]
         /\ \A p \in Objects \ {o} : Make(s, o, owner, x).obj[p] = s.obj[p]
         /\ Lost(Make(s, o, owner, x)) \subseteq
              Lost(s) \union (IF owner = "cpp" THEN {o} ELSE {})
<1> DEFINE r == [owner |-> owner, v |-> x]
           t == Make(s, o, owner, x)
<1>0. s \in Prog /\ Heard(s) /\ Elements(s)
  BY DEF Sound
<1>1. r \in Object /\ r.owner = owner
  BY DEF Object
<1>2. t = [s EXCEPT !.obj[o] = r]
  BY DEF Make
<1> HIDE DEF r
<1>3. /\ t \in Prog /\ t.msg = s.msg /\ t.obj[o] = r
      /\ \A p \in Objects \ {o} : t.obj[p] = s.obj[p]
  BY <1>0, <1>1, <1>2, PutObject
<1> HIDE DEF t
<1>4. \A n \in Messages : Exists(t, n) <=> Exists(s, n)
  BY <1>3 DEF Exists
<1>5. \A p \in Objects : (Held(t, p) <=> Held(s, p)) /\ (InList(t, p) <=> InList(s, p))
  BY <1>3, <1>4 DEF Held, InList
<1>6. \A p \in Objects : Live(s, p) => Live(t, p)
  BY <1>3 DEF Live
<1>7. Heard(t)
  <2>1. \A n \in Messages : Exists(s, n) => s.msg[n].destroyed \in Objects \union {Null}
    BY <1>0, Parts
  <2> QED
    BY <1>0, <1>3, <1>4, <1>6, <2>1 DEF Heard
<1>8. ~InList(s, o)
  BY DEF Held, InList
<1>9. Elements(t)
  BY <1>0, <1>3, <1>4, <1>5, <1>8 DEF Elements
<1>10. Lost(t) \subseteq Lost(s) \union (IF owner = "cpp" THEN {o} ELSE {})
  BY <1>1, <1>3, <1>5 DEF Lost
<1> QED
  BY <1>3, <1>7, <1>9, <1>10 DEF Sound, t, r

-----------------------------------------------------------------------------
(* Deleted objects. *)

LEMMA DeleteAllIs ==
  ASSUME NEW s \in Prog, NEW os \in SUBSET Objects
  PROVE  /\ DeleteAll(s, os) \in Prog
         /\ DeleteAll(s, os).told = s.told
         /\ \A o \in os : DeleteAll(s, os).obj[o] = Nobody
         /\ \A o \in Objects \ os : DeleteAll(s, os).obj[o] = s.obj[o]
         /\ \A m \in Messages : Exists(DeleteAll(s, os), m) <=> Exists(s, m)
         /\ \A m \in Messages : Exists(s, m) =>
              /\ DeleteAll(s, os).msg[m].kind = s.msg[m].kind
              /\ DeleteAll(s, os).msg[m].list = s.msg[m].list
              /\ s.msg[m].destroyed \notin os => DeleteAll(s, os).msg[m] = s.msg[m]
              /\ s.msg[m].destroyed \in os =>
                   /\ DeleteAll(s, os).msg[m].child = Null
                   /\ DeleteAll(s, os).msg[m].destroyed = Null
                   /\ DeleteAll(s, os).msg[m].given = FALSE
<1> DEFINE drop(m) == Dropped(s.msg[m])
           ob == [o \in Objects |-> IF o \in os THEN Nobody ELSE s.obj[o]]
           ms == [m \in Messages |->
                    IF Exists(s, m) /\ s.msg[m].destroyed \in os THEN drop(m) ELSE s.msg[m]]
           t == DeleteAll(s, os)
<1>1. t = [s EXCEPT !.obj = ob, !.msg = ms]
  BY DEF DeleteAll
<1>2. Nobody \in Object
  BY DEF Nobody, Object, Values
<1>3. ob \in [Objects -> Object]
  BY <1>2, Parts
<1>4. \A m \in Messages : Exists(s, m) =>
        /\ drop(m) \in Message
        /\ drop(m).child = Null /\ drop(m).destroyed = Null /\ drop(m).given = FALSE
        /\ drop(m).kind = s.msg[m].kind /\ drop(m).list = s.msg[m].list
  <2> SUFFICES ASSUME NEW m \in Messages, Exists(s, m)
               PROVE  /\ drop(m) \in Message
                      /\ drop(m).child = Null /\ drop(m).destroyed = Null /\ drop(m).given = FALSE
                      /\ drop(m).kind = s.msg[m].kind /\ drop(m).list = s.msg[m].list
    OBVIOUS
  <2>1. s.msg[m] \in Message
    BY Parts
  <2> QED
    BY <2>1 DEF Message, Dropped
<1> HIDE DEF drop
<1>5. s.msg \in [Messages -> Message \union {Absent}]
  BY Parts
<1>6. ms \in [Messages -> Message \union {Absent}]
  BY <1>4, <1>5
<1>7. t \in Prog /\ t.obj = ob /\ t.msg = ms /\ t.told = s.told
  BY <1>1, <1>3, <1>6 DEF Prog
<1>8. /\ \A o \in os : t.obj[o] = Nobody
      /\ \A o \in Objects \ os : t.obj[o] = s.obj[o]
  BY <1>7
<1>9. \A m \in Messages : Exists(s, m) =>
        t.msg[m] = IF s.msg[m].destroyed \in os THEN drop(m) ELSE s.msg[m]
  BY <1>7
<1>10. \A m \in Messages : ~Exists(s, m) => t.msg[m] = s.msg[m]
  BY <1>7
<1> HIDE DEF t, ob, ms
<1>11. ASSUME NEW m \in Messages PROVE Exists(t, m) <=> Exists(s, m)
  <2>1. CASE Exists(s, m)
    <3>1. t.msg[m] \in Message
      BY <1>4, <1>9, <2>1, Parts
    <3> QED
      BY <2>1, <3>1, <1>7, Parts
  <2>2. CASE ~Exists(s, m)
    BY <1>10, <2>2 DEF Exists
  <2> QED
    BY <2>1, <2>2
<1> QED
  BY <1>4, <1>7, <1>8, <1>9, <1>11 DEF t

\* Deleting objects that are in no list: no message points to them, as far as it
\* listens to them, and whatever else was held is held.
LEMMA DeleteAllSound ==
  ASSUME NEW s, Sound(s), NEW os \in SUBSET Objects, \A o \in os : ~InList(s, o)
  PROVE  /\ Sound(DeleteAll(s, os))
         /\ Lost(DeleteAll(s, os)) \subseteq Lost(s) \ os
<1> DEFINE t == DeleteAll(s, os)
<1>0. s \in Prog /\ Heard(s) /\ Elements(s)
  BY DEF Sound
<1>1. /\ t \in Prog
      /\ \A o \in os : t.obj[o] = Nobody
      /\ \A o \in Objects \ os : t.obj[o] = s.obj[o]
      /\ \A m \in Messages : Exists(t, m) <=> Exists(s, m)
  BY <1>0, DeleteAllIs
<1>2. \A m \in Messages : Exists(s, m) =>
        /\ t.msg[m].list = s.msg[m].list
        /\ s.msg[m].destroyed \notin os => t.msg[m] = s.msg[m]
        /\ s.msg[m].destroyed \in os =>
             t.msg[m].child = Null /\ t.msg[m].destroyed = Null /\ ~t.msg[m].given
  BY <1>0, DeleteAllIs
<1> HIDE DEF t
<1>3. \A o \in Objects : InList(t, o) <=> InList(s, o)
  BY <1>1, <1>2 DEF InList
<1>4. \A o \in os : t.obj[o].owner = "nobody"
  BY <1>1 DEF Nobody
<1>5. Heard(t)
  <2> SUFFICES ASSUME NEW n \in Messages, Exists(t, n)
               PROVE  /\ t.msg[n].destroyed # Null =>
                           t.msg[n].child = t.msg[n].destroyed /\ Live(t, t.msg[n].destroyed)
                      /\ t.msg[n].given => t.msg[n].destroyed # Null
    BY DEF Heard
  <2>1. CASE s.msg[n].destroyed \in os
    BY <1>1, <1>2, <2>1
  <2>2. CASE s.msg[n].destroyed \notin os
    <3>1. t.msg[n] = s.msg[n] /\ Exists(s, n)
      BY <1>1, <1>2, <2>2
    <3>2. s.msg[n].destroyed \in (Objects \ os) \union {Null}
      BY <1>0, <2>2, <3>1, Parts
    <3>3. \A o \in Objects \ os : Live(t, o) <=> Live(s, o)
      BY <1>1 DEF Live
    <3> QED
      BY <1>0, <3>1, <3>2, <3>3 DEF Heard
  <2> QED
    BY <2>1, <2>2
<1>6. Elements(t)
  <2> SUFFICES ASSUME NEW o \in Objects, InList(t, o)
               PROVE  /\ t.obj[o].owner = "cpp"
                      /\ \A n \in Messages : Exists(t, n) => t.msg[n].child # o
    BY DEF Elements
  <2>1. InList(s, o) /\ o \in Objects \ os
    BY <1>3
  <2>2. s.obj[o].owner = "cpp" /\ \A n \in Messages : Exists(s, n) => s.msg[n].child # o
    BY <1>0, <2>1 DEF Elements
  <2>3. o # Null
    BY Basics
  <2> QED
    BY <1>1, <1>2, <2>1, <2>2, <2>3
<1>7. Lost(t) \subseteq Lost(s) \ os
  <2> SUFFICES ASSUME NEW o \in Objects, t.obj[o].owner = "cpp", ~Held(t, o)
               PROVE  s.obj[o].owner = "cpp" /\ ~Held(s, o) /\ o \notin os
    BY DEF Lost
  <2>1. o \notin os /\ s.obj[o].owner = "cpp"
    BY <1>1, <1>4
  <2>2. ASSUME NEW n \in Messages, Exists(s, n), o \in {s.msg[n].child} \union Range(s.msg[n].list)
        PROVE  Held(t, o)
    <3>1. CASE o \in Range(s.msg[n].list)
      BY <1>1, <1>2, <2>2, <3>1 DEF Held
    <3>2. CASE o = s.msg[n].child
      <4>1. s.msg[n].destroyed \notin os
        <5>1. s.msg[n].destroyed \in os => s.msg[n].destroyed = o
          BY <1>0, <2>2, <3>2, Basics DEF Heard
        <5> QED
          BY <2>1, <5>1
      <4> QED
        BY <1>1, <1>2, <2>2, <3>2, <4>1 DEF Held
    <3> QED
      BY <2>2, <3>1, <3>2
  <2> QED
    BY <2>1, <2>2 DEF Held
<1> QED
  BY <1>1, <1>5, <1>6, <1>7 DEF Sound, t

\* Lists change, and hold objects that are theirs: what is lost was in a list.
LEMMA RelistSound ==
  ASSUME NEW s, Sound(s), NEW t \in Prog, t.obj = s.obj,
         \A n \in Messages : Exists(t, n) <=> Exists(s, n),
         \A n \in Messages : Exists(s, n) =>
           /\ t.msg[n].child = s.msg[n].child /\ t.msg[n].destroyed = s.msg[n].destroyed
           /\ t.msg[n].given = s.msg[n].given,
         \A o \in Objects : InList(t, o) =>
           /\ s.obj[o].owner = "cpp"
           /\ \A n \in Messages : Exists(s, n) => s.msg[n].child # o
  PROVE  /\ Sound(t)
         /\ \A o \in Lost(t) : ~InList(t, o) /\ (o \in Lost(s) \/ InList(s, o))
<1>0. s \in Prog /\ Heard(s) /\ Elements(s)
  BY DEF Sound
<1>1. Heard(t)
  <2>1. \A o : Live(t, o) <=> Live(s, o)
    BY DEF Live
  <2> QED
    BY <1>0, <2>1 DEF Heard
<1>2. Elements(t)
  BY DEF Elements
<1>3. ASSUME NEW o \in Lost(t) PROVE ~InList(t, o) /\ (o \in Lost(s) \/ InList(s, o))
  <2>1. o \in Objects /\ s.obj[o].owner = "cpp" /\ ~Held(t, o)
    BY <1>3 DEF Lost
  <2>2. ~InList(t, o)
    BY <2>1 DEF Held, InList
  <2>3. Held(s, o) => InList(s, o)
    BY <2>1 DEF Held, InList
  <2> QED
    BY <2>1, <2>2, <2>3 DEF Lost
<1> QED
  BY <1>1, <1>2, <1>3 DEF Sound

\* One message gets another child, not from a list: only the old one may be lost.
LEMMA RepointSound ==
  ASSUME NEW s, Sound(s), NEW m \in Messages, Exists(s, m),
         NEW t \in Prog, t.obj = s.obj, Exists(t, m),
         \A n \in Messages \ {m} : t.msg[n] = s.msg[n],
         t.msg[m].list = s.msg[m].list,
         t.msg[m].destroyed # Null =>
           t.msg[m].child = t.msg[m].destroyed /\ Live(s, t.msg[m].destroyed),
         t.msg[m].given => t.msg[m].destroyed # Null,
         t.msg[m].child # Null => ~InList(s, t.msg[m].child)
  PROVE  /\ Sound(t)
         /\ \A o \in Objects : InList(t, o) <=> InList(s, o)
         /\ Lost(t) \subseteq Lost(s) \union {s.msg[m].child}
<1>0. s \in Prog /\ Heard(s) /\ Elements(s)
  BY DEF Sound
<1>1. \A n \in Messages : Exists(t, n) <=> Exists(s, n)
  BY DEF Exists
<1>2. \A o \in Objects : InList(t, o) <=> InList(s, o)
  BY <1>1 DEF InList
<1>3. Heard(t)
  <2> SUFFICES ASSUME NEW n \in Messages, Exists(t, n)
               PROVE  /\ t.msg[n].destroyed # Null =>
                           t.msg[n].child = t.msg[n].destroyed /\ Live(t, t.msg[n].destroyed)
                      /\ t.msg[n].given => t.msg[n].destroyed # Null
    BY DEF Heard
  <2>1. \A o : Live(t, o) <=> Live(s, o)
    BY DEF Live
  <2>2. CASE n = m
    BY <2>1, <2>2
  <2>3. CASE n # m
    BY <1>0, <1>1, <2>1, <2>3 DEF Heard
  <2> QED
    BY <2>2, <2>3
<1>4. Elements(t)
  <2> SUFFICES ASSUME NEW o \in Objects, InList(t, o)
               PROVE  /\ t.obj[o].owner = "cpp"
                      /\ \A n \in Messages : Exists(t, n) => t.msg[n].child # o
    BY DEF Elements
  <2>1. InList(s, o) /\ o # Null
    BY <1>2, Basics
  <2>2. s.obj[o].owner = "cpp" /\ \A n \in Messages : Exists(s, n) => s.msg[n].child # o
    BY <1>0, <2>1 DEF Elements
  <2>3. t.msg[m].child # o
    BY <2>1
  <2> QED
    BY <1>1, <2>2, <2>3
<1>5. Lost(t) \subseteq Lost(s) \union {s.msg[m].child}
  <2> SUFFICES ASSUME NEW o \in Objects, t.obj[o].owner = "cpp", ~Held(t, o), Held(s, o)
               PROVE  o = s.msg[m].child
    BY DEF Lost
  <2>1. PICK n \in Messages : Exists(s, n) /\ o \in {s.msg[n].child} \union Range(s.msg[n].list)
    BY DEF Held
  <2>2. n = m
    BY <1>1, <2>1 DEF Held
  <2>3. o \notin Range(s.msg[m].list)
    BY <1>1, <2>1, <2>2 DEF Held
  <2> QED
    BY <2>1, <2>2, <2>3
<1> QED
  BY <1>2, <1>3, <1>4, <1>5 DEF Sound

-----------------------------------------------------------------------------
(* Lists. *)

\* The list of one message is replaced by one whose elements belong to lists.
LEMMA PutListSound ==
  ASSUME NEW s, Sound(s), NEW m \in Messages, Exists(s, m), NEW l \in Seq(Objects),
         \A o \in Range(l) :
           /\ s.obj[o].owner = "cpp"
           /\ \A n \in Messages : Exists(s, n) => s.msg[n].child # o
  PROVE  /\ Sound(PutList(s, m, l))
         /\ Lost(PutList(s, m, l)) \subseteq Lost(s) \ Range(l)
         /\ PutList(s, m, l).told = s.told
         /\ PutList(s, m, l).msg[m].list = l
         /\ \A n \in Messages \ {m} : PutList(s, m, l).msg[n] = s.msg[n]
         /\ PutList(s, m, l).msg[m].kind = s.msg[m].kind
         /\ PutList(s, m, l).msg[m].child = s.msg[m].child
         /\ \A n \in Messages : Exists(PutList(s, m, l), n) <=> Exists(s, n)
         /\ \A o \in Objects :
              (o \in Range(l) \/ ~InList(s, o)) => PutList(s, m, l).obj[o] = s.obj[o]
         /\ \A o \in Objects, n \in Messages \ {m} :
              Exists(s, n) /\ o \in Range(s.msg[n].list) => PutList(s, m, l).obj[o] = s.obj[o]
<1> DEFINE x == [s.msg[m] EXCEPT !.list = l]
           r == [s EXCEPT !.msg[m] = x]
           os == {o \in Range(s.msg[m].list) : ~InList(r, o)}
           t == DeleteAll(r, os)
<1>0. s \in Prog /\ Heard(s) /\ Elements(s)
  BY DEF Sound
<1>1. PutList(s, m, l) = t
  BY DEF PutList, HoldList
<1>2. s.msg[m] \in Message /\ s.msg[m].list \in Seq(Objects)
  BY <1>0, Parts
<1>3. /\ x \in Message /\ x.list = l /\ x.kind = s.msg[m].kind
      /\ x.child = s.msg[m].child /\ x.destroyed = s.msg[m].destroyed
      /\ x.given = s.msg[m].given
  BY <1>2 DEF Message
<1> HIDE DEF x
<1>4. /\ r \in Prog /\ r.obj = s.obj /\ r.told = s.told /\ r.msg[m] = x
      /\ \A n \in Messages \ {m} : r.msg[n] = s.msg[n]
  BY <1>0, <1>3, PutMessage
<1> HIDE DEF r
<1>5. \A n \in Messages : Exists(r, n) <=> Exists(s, n)
  BY <1>3, <1>4, Basics DEF Exists
<1>6. \A o \in Range(l) : o \in Objects /\ InList(r, o)
  BY <1>3, <1>4, <1>5 DEF Range, InList
<1>7. \A o \in Objects : InList(r, o) => o \in Range(l) \/ InList(s, o)
  BY <1>3, <1>4, <1>5 DEF InList
<1>8. \A o \in Objects : InList(r, o) =>
        s.obj[o].owner = "cpp" /\ \A n \in Messages : Exists(s, n) => s.msg[n].child # o
  BY <1>0, <1>7 DEF Elements
<1>9. \A n \in Messages : Exists(s, n) =>
        /\ r.msg[n].child = s.msg[n].child /\ r.msg[n].destroyed = s.msg[n].destroyed
        /\ r.msg[n].given = s.msg[n].given
  BY <1>3, <1>4
<1>10. Sound(r) /\ \A o \in Lost(r) : ~InList(r, o) /\ (o \in Lost(s) \/ InList(s, o))
  BY <1>4, <1>5, <1>8, <1>9, RelistSound
<1>11. \A o \in Range(s.msg[m].list) : o \in Objects /\ InList(s, o)
  BY <1>2 DEF Range, InList
<1>12. os \in SUBSET Objects /\ \A o \in os : ~InList(r, o) /\ InList(s, o)
  BY <1>11
<1>13. \A o \in Objects : InList(s, o) => InList(r, o) \/ o \in os
  BY <1>4, <1>5 DEF InList
<1> HIDE DEF os
<1>14. Sound(t) /\ Lost(t) \subseteq Lost(r) \ os
  BY <1>10, <1>12, DeleteAllSound
<1>15. /\ t.told = r.told
       /\ \A o \in Objects \ os : t.obj[o] = r.obj[o]
       /\ \A n \in Messages : Exists(t, n) <=> Exists(r, n)
       /\ \A n \in Messages : Exists(r, n) =>
            t.msg[n].list = r.msg[n].list /\ (r.msg[n].destroyed \notin os => t.msg[n] = r.msg[n])
  BY <1>4, <1>12, DeleteAllIs
<1>16. t \in Prog
  BY <1>14 DEF Sound
<1> HIDE DEF t
<1>17. Lost(t) \subseteq Lost(s) \ Range(l)
  <2> SUFFICES ASSUME NEW o \in Lost(t) PROVE o \in Lost(s) /\ o \notin Range(l)
    OBVIOUS
  <2>1. o \in Lost(r) /\ o \notin os /\ o \in Objects
    BY <1>14 DEF Lost
  <2>2. ~InList(r, o) /\ (o \in Lost(s) \/ InList(s, o))
    BY <1>10, <2>1
  <2> QED
    BY <1>6, <1>13, <2>1, <2>2
<1>18. \A n \in Messages : Exists(s, n) => s.msg[n].destroyed \notin os
  BY <1>0, <1>12, Basics DEF Heard, Elements
<1>19. \A n \in Messages : Exists(s, n) => t.msg[n] = r.msg[n]
  BY <1>5, <1>9, <1>15, <1>18
<1>20. \A n \in Messages \ {m} : t.msg[n] = s.msg[n]
  <2> SUFFICES ASSUME NEW n \in Messages \ {m} PROVE t.msg[n] = s.msg[n]
    OBVIOUS
  <2>1. CASE Exists(s, n)
    BY <1>4, <1>19, <2>1
  <2>2. CASE ~Exists(s, n)
    BY <1>5, <1>15, <2>2 DEF Exists
  <2> QED
    BY <2>1, <2>2
<1>21. \A o \in Objects : (o \in Range(l) \/ ~InList(s, o)) => t.obj[o] = s.obj[o]
  BY <1>4, <1>6, <1>12, <1>15
<1>22. \A o \in Objects, n \in Messages \ {m} :
         Exists(s, n) /\ o \in Range(s.msg[n].list) => t.obj[o] = s.obj[o]
  <2> SUFFICES ASSUME NEW o \in Objects, NEW n \in Messages \ {m},
                      Exists(s, n), o \in Range(s.msg[n].list)
               PROVE  t.obj[o] = s.obj[o]
    OBVIOUS
  <2>1. InList(r, o)
    BY <1>4, <1>5 DEF InList
  <2> QED
    BY <1>4, <1>12, <1>15, <2>1
<1> QED
  BY <1>1, <1>3, <1>4, <1>5, <1>14, <1>15, <1>17, <1>19, <1>20, <1>21, <1>22

\* The lists of messages satisfy what PutListSound asks for.
LEMMA ListsAreLists ==
  ASSUME NEW s, Sound(s), NEW n \in Messages, Exists(s, n)
  PROVE  /\ s.msg[n].list \in Seq(Objects)
         /\ \A o \in Range(s.msg[n].list) :
              /\ o \in Objects /\ InList(s, o)
              /\ s.obj[o].owner = "cpp"
              /\ \A k \in Messages : Exists(s, k) => s.msg[k].child # o
<1>1. s \in Prog /\ Elements(s)
  BY DEF Sound
<1>2. s.msg[n].list \in Seq(Objects)
  BY <1>1, Parts
<1>3. \A o \in Range(s.msg[n].list) : o \in Objects /\ InList(s, o)
  BY <1>2 DEF Range, InList
<1> QED
  BY <1>1, <1>2, <1>3 DEF Elements

\* A signal changes neither soundness nor what is lost.
LEMMA TellSound ==
  ASSUME NEW s, Sound(s), NEW who \in Messages \union Objects,
         NEW what \in {"kind", "child", "list", "v"}
  PROVE  /\ Sound(Tell(s, who, what)) /\ Lost(Tell(s, who, what)) = Lost(s)
         /\ Tell(s, who, what).msg = s.msg /\ Tell(s, who, what).obj = s.obj
         /\ \A n \in Messages : Exists(Tell(s, who, what), n) <=> Exists(s, n)
<1> DEFINE t == Tell(s, who, what)
<1>1. s \in Prog
  BY DEF Sound
<1>2. t \in Prog /\ t.msg = s.msg /\ t.obj = s.obj
  BY <1>1, TellIs
<1> HIDE DEF t
<1>3. \A n \in Messages : Exists(t, n) <=> Exists(s, n)
  BY <1>2 DEF Exists
<1>4. Alike(s, t)
  BY <1>2, <1>3 DEF Alike
<1>5. Sound(t) /\ Lost(t) = Lost(s)
  BY <1>1, <1>2, <1>4, AlikeSound
<1> QED
  BY <1>2, <1>3, <1>5 DEF t

LEMMA SetListSound ==
  ASSUME NEW s, Sound(s), NEW m \in Messages, Exists(s, m), NEW l \in Seq(Objects),
         \A o \in Range(l) :
           /\ s.obj[o].owner = "cpp"
           /\ \A n \in Messages : Exists(s, n) => s.msg[n].child # o
  PROVE  /\ Sound(SetList(s, m, l))
         /\ s.msg[m].list # l => Lost(SetList(s, m, l)) \subseteq Lost(s) \ Range(l)
         /\ Lost(SetList(s, m, l)) \subseteq Lost(s)
<1>1. CASE s.msg[m].list = l
  BY <1>1 DEF SetList
<1>2. CASE s.msg[m].list # l
  <2>1. SetList(s, m, l) = Tell(PutList(s, m, l), m, "list")
    BY <1>2 DEF SetList
  <2>2. Sound(PutList(s, m, l)) /\ Lost(PutList(s, m, l)) \subseteq Lost(s) \ Range(l)
    BY PutListSound
  <2>3. Sound(SetList(s, m, l)) /\ Lost(SetList(s, m, l)) = Lost(PutList(s, m, l))
    BY <2>1, <2>2, TellSound
  <2> QED
    BY <2>2, <2>3
<1> QED
  BY <1>1, <1>2

-----------------------------------------------------------------------------
(* Children. *)

\* A message without the child it had, or with another one that it listens to.
Given(s, m, p) ==
  [s EXCEPT !.msg[m] = [s.msg[m] EXCEPT !.child = p, !.destroyed = p, !.given = (p # Null)]]

LEMMA GivenIs ==
  ASSUME NEW s \in Prog, NEW m \in Messages, Exists(s, m), NEW p \in Objects \union {Null}
  PROVE  /\ Given(s, m, p) \in Prog
         /\ Given(s, m, p).obj = s.obj /\ Given(s, m, p).told = s.told
         /\ \A n \in Messages \ {m} : Given(s, m, p).msg[n] = s.msg[n]
         /\ Given(s, m, p).msg[m] \in Message /\ Exists(Given(s, m, p), m)
         /\ Given(s, m, p).msg[m].child = p /\ Given(s, m, p).msg[m].destroyed = p
         /\ Given(s, m, p).msg[m].given = (p # Null)
         /\ Given(s, m, p).msg[m].list = s.msg[m].list
         /\ Given(s, m, p).msg[m].kind = s.msg[m].kind
<1> DEFINE y == [s.msg[m] EXCEPT !.child = p, !.destroyed = p, !.given = (p # Null)]
<1>1. s.msg[m] \in Message
  BY Parts
<1>2. (p # Null) \in BOOLEAN
  OBVIOUS
<1>3. /\ y \in Message /\ y.child = p /\ y.destroyed = p /\ y.given = (p # Null)
      /\ y.list = s.msg[m].list /\ y.kind = s.msg[m].kind
  BY <1>1, <1>2 DEF Message
<1> HIDE DEF y
<1>4. Given(s, m, p) = [s EXCEPT !.msg[m] = y]
  BY DEF Given, y
<1>5. /\ Given(s, m, p) \in Prog
      /\ Given(s, m, p).obj = s.obj /\ Given(s, m, p).told = s.told
      /\ Given(s, m, p).msg[m] = y
      /\ \A n \in Messages \ {m} : Given(s, m, p).msg[n] = s.msg[n]
  BY <1>3, <1>4, PutMessage
<1>6. Exists(Given(s, m, p), m)
  BY <1>3, <1>5, Basics DEF Exists
<1> QED
  BY <1>3, <1>5, <1>6

\* Messages, and programs, are determined by their parts.
LEMMA SameParts ==
  /\ \A x, y \in Message :
       /\ x.kind = y.kind /\ x.child = y.child /\ x.destroyed = y.destroyed
       /\ x.given = y.given /\ x.list = y.list
       => x = y
  /\ \A s, t \in Prog :
       s.obj = t.obj /\ s.told = t.told /\ (\A n \in Messages : s.msg[n] = t.msg[n]) => s = t
<1>1. ASSUME NEW x \in Message, NEW y \in Message,
             x.kind = y.kind, x.child = y.child, x.destroyed = y.destroyed,
             x.given = y.given, x.list = y.list
      PROVE  x = y
  <2>1. x = [kind |-> x.kind, child |-> x.child, destroyed |-> x.destroyed,
             given |-> x.given, list |-> x.list]
    BY DEF Message
  <2>2. y = [kind |-> y.kind, child |-> y.child, destroyed |-> y.destroyed,
             given |-> y.given, list |-> y.list]
    BY DEF Message
  <2> QED
    BY <1>1, <2>1, <2>2, Zenon
<1>2. ASSUME NEW s \in Prog, NEW t \in Prog,
             s.obj = t.obj, s.told = t.told, \A n \in Messages : s.msg[n] = t.msg[n]
      PROVE  s = t
  <2>1. s.msg \in [Messages -> Message \union {Absent}] /\ t.msg \in [Messages -> Message \union {Absent}]
    BY Parts
  <2>2. s.msg = t.msg
    BY <1>2, <2>1
  <2>3. s = [msg |-> s.msg, obj |-> s.obj, told |-> s.told]
        /\ t = [msg |-> t.msg, obj |-> t.obj, told |-> t.told]
    BY Parts
  <2> QED
    BY <1>2, <2>2, <2>3, Zenon
<1> QED
  BY <1>1, <1>2

\* m_ptr.reset(p) when the connection has been moved to p already.
LEMMA ResetPtrIs ==
  ASSUME NEW s \in Prog, NEW m \in Messages, Exists(s, m), NEW p \in Objects \union {Null},
         NEW r \in Prog, r.obj = s.obj, r.told = s.told, Exists(r, m),
         \A n \in Messages \ {m} : r.msg[n] = s.msg[n],
         r.msg[m].kind = s.msg[m].kind, r.msg[m].list = s.msg[m].list
  PROVE  LET q == [r EXCEPT !.msg[m].destroyed = p] IN
         ResetPtr(q, m, p) = IF r.msg[m].child = Null THEN Given(s, m, p)
                             ELSE Delete(Given(s, m, p), r.msg[m].child)
<1> DEFINE x == [r.msg[m] EXCEPT !.destroyed = p]
           q == [r EXCEPT !.msg[m] = x]
           y == [x EXCEPT !.child = p, !.given = (p # Null)]
           w == [q EXCEPT !.msg[m] = y]
<1>1. [r EXCEPT !.msg[m].destroyed = p] = q
  OBVIOUS
<1>2. r.msg[m] \in Message
  BY Parts
<1>3. x \in Message /\ x.destroyed = p /\ x.child = r.msg[m].child
      /\ x.kind = s.msg[m].kind /\ x.list = s.msg[m].list
  BY <1>2 DEF Message
<1>4. (p # Null) \in BOOLEAN
  OBVIOUS
<1> HIDE DEF x
<1>5. /\ y \in Message /\ y.destroyed = p /\ y.child = p /\ y.given = (p # Null)
      /\ y.kind = s.msg[m].kind /\ y.list = s.msg[m].list
  BY <1>3, <1>4 DEF Message
<1>6. /\ q \in Prog /\ q.obj = r.obj /\ q.told = r.told /\ q.msg[m] = x
      /\ \A n \in Messages \ {m} : q.msg[n] = r.msg[n]
  BY <1>3, PutMessage
<1>7. [q EXCEPT !.msg[m] = [@ EXCEPT !.child = p, !.given = (p # Null)]] = w
  BY <1>6
<1>8. ResetPtr(q, m, p) = IF q.msg[m].child = Null THEN w ELSE Delete(w, q.msg[m].child)
  BY <1>7 DEF ResetPtr
<1> HIDE DEF q, y
<1>9. /\ w \in Prog /\ w.obj = q.obj /\ w.told = q.told /\ w.msg[m] = y
      /\ \A n \in Messages \ {m} : w.msg[n] = q.msg[n]
  BY <1>5, <1>6, PutMessage
<1> HIDE DEF w
<1>10. /\ Given(s, m, p) \in Prog
       /\ Given(s, m, p).obj = s.obj /\ Given(s, m, p).told = s.told
       /\ \A n \in Messages \ {m} : Given(s, m, p).msg[n] = s.msg[n]
       /\ Given(s, m, p).msg[m] \in Message
       /\ Given(s, m, p).msg[m].child = p /\ Given(s, m, p).msg[m].destroyed = p
       /\ Given(s, m, p).msg[m].given = (p # Null)
       /\ Given(s, m, p).msg[m].list = s.msg[m].list
       /\ Given(s, m, p).msg[m].kind = s.msg[m].kind
  BY GivenIs
<1>11. Given(s, m, p).msg[m] = y
  <2>1. Given(s, m, p).msg[m].given = y.given
    BY <1>5, <1>10
  <2> QED
    BY <1>5, <1>10, <2>1, SameParts
<1>12. \A n \in Messages : Given(s, m, p).msg[n] = w.msg[n]
  BY <1>6, <1>9, <1>10, <1>11
<1>13. Given(s, m, p) = w
  <2>1. Given(s, m, p).obj = w.obj /\ Given(s, m, p).told = w.told
    BY <1>6, <1>9, <1>10
  <2> QED
    BY <1>9, <1>10, <1>12, <2>1, SameParts
<1> QED
  BY <1>1, <1>3, <1>6, <1>8, <1>13

\* reset() in terms of Given: the old child is deleted, unless it is released.
LEMMA ResetIs ==
  ASSUME NEW s \in Prog, NEW m \in Messages, Exists(s, m), NEW p \in Objects \union {Null}
  PROVE  LET c == s.msg[m].child
             released == c # Null /\ (qml => s.obj[c].owner = "other")
         IN  Reset(s, m, p) = IF c = Null \/ released THEN Given(s, m, p)
                              ELSE Delete(Given(s, m, p), c)
<1> DEFINE c == s.msg[m].child
           released == c # Null /\ (qml => s.obj[c].owner = "other")
           x == Dropped(s.msg[m])
           r == [s EXCEPT !.msg[m] = x]
<1>1. s.msg[m] \in Message
  BY Parts
<1>2. CASE released
  <2>1. checkAndRelease(s, m) = r
    BY <1>2 DEF checkAndRelease
  <2>2. x \in Message /\ x.child = Null /\ x.kind = s.msg[m].kind /\ x.list = s.msg[m].list
    BY <1>1 DEF Message, Dropped
  <2> HIDE DEF x
  <2>3. /\ r \in Prog /\ r.obj = s.obj /\ r.told = s.told /\ r.msg[m] = x
        /\ \A n \in Messages \ {m} : r.msg[n] = s.msg[n]
    BY <2>2, PutMessage
  <2> HIDE DEF r
  <2>4. Exists(r, m)
    BY <2>2, <2>3, Basics DEF Exists
  <2>5. ResetPtr([r EXCEPT !.msg[m].destroyed = p], m, p) = Given(s, m, p)
    BY <2>2, <2>3, <2>4, ResetPtrIs
  <2>6. Reset(s, m, p) = Given(s, m, p)
    BY <2>1, <2>5 DEF Reset
  <2> QED
    BY <1>2, <2>6
<1>3. CASE ~released
  <2>1. checkAndRelease(s, m) = s
    BY <1>3 DEF checkAndRelease
  <2>2. ResetPtr([s EXCEPT !.msg[m].destroyed = p], m, p)
          = IF c = Null THEN Given(s, m, p) ELSE Delete(Given(s, m, p), c)
    BY ResetPtrIs
  <2>3. Reset(s, m, p) = IF c = Null THEN Given(s, m, p) ELSE Delete(Given(s, m, p), c)
    BY <2>1, <2>2 DEF Reset
  <2> QED
    BY <1>3, <2>3
<1> QED
  BY <1>2, <1>3

\* A message takes a pointer to an object that is in no list: it lets go of its
\* child, and deletes it if it is C++'s.
LEMMA ResetSound ==
  ASSUME NEW s, Sound(s), NEW m \in Messages, Exists(s, m), NEW p \in Objects \union {Null},
         p # Null => Live(s, p) /\ ~InList(s, p) /\ p # s.msg[m].child
  PROVE  /\ Sound(Reset(s, m, p))
         /\ qml => Lost(Reset(s, m, p)) \subseteq Lost(s)
         /\ \A n \in Messages : Exists(Reset(s, m, p), n) <=> Exists(s, n)
         /\ Reset(s, m, p).msg[m].child = p
         /\ Reset(s, m, p).msg[m].list = s.msg[m].list
         /\ Reset(s, m, p).msg[m].kind = s.msg[m].kind
         /\ Reset(s, m, p).told = s.told
<1> DEFINE c == s.msg[m].child
           released == c # Null /\ (qml => s.obj[c].owner = "other")
           u == Given(s, m, p)
           t == Reset(s, m, p)
<1>0. s \in Prog /\ Heard(s) /\ Elements(s)
  BY DEF Sound
<1>1. /\ u \in Prog /\ u.obj = s.obj /\ u.told = s.told
      /\ \A n \in Messages \ {m} : u.msg[n] = s.msg[n]
      /\ Exists(u, m)
      /\ u.msg[m].child = p /\ u.msg[m].destroyed = p
      /\ u.msg[m].given = (p # Null)
      /\ u.msg[m].list = s.msg[m].list
      /\ u.msg[m].kind = s.msg[m].kind
  BY <1>0, GivenIs
<1>2. t = IF c = Null \/ released THEN u ELSE Delete(u, c)
  BY <1>0, ResetIs
<1>3. c \in Objects \union {Null}
  BY <1>0, Parts
<1> HIDE DEF u, t, c
<1>4. /\ Sound(u)
      /\ \A o \in Objects : InList(u, o) <=> InList(s, o)
      /\ Lost(u) \subseteq Lost(s) \union {c}
  <2>1. /\ u.msg[m].destroyed # Null =>
             u.msg[m].child = u.msg[m].destroyed /\ Live(s, u.msg[m].destroyed)
        /\ u.msg[m].given => u.msg[m].destroyed # Null
        /\ u.msg[m].child # Null => ~InList(s, u.msg[m].child)
    BY <1>1
  <2> QED
    BY <1>1, <2>1, RepointSound DEF c
<1>5. \A n \in Messages : Exists(u, n) <=> Exists(s, n)
  BY <1>1 DEF Exists
<1>6. CASE c = Null \/ released
  <2>1. t = u
    BY <1>2, <1>6
  <2>2. qml => c \notin Lost(u)
    BY <1>1, <1>6, Basics DEF Lost
  <2> QED
    BY <1>1, <1>4, <1>5, <2>1, <2>2 DEF t
<1>7. CASE ~(c = Null \/ released)
  <2>1. t = DeleteAll(u, {c})
    BY <1>2, <1>7 DEF Delete
  <2>2. c \in Objects /\ {c} \in SUBSET Objects /\ ~InList(u, c)
    <3>1. c \in Objects
      BY <1>3, <1>7
    <3>2. ~InList(s, c)
      BY <1>0, <3>1 DEF Elements, c
    <3> QED
      BY <1>4, <3>1, <3>2
  <2>3. Sound(t) /\ Lost(t) \subseteq Lost(u) \ {c}
    BY <1>4, <2>1, <2>2, DeleteAllSound
  <2>4. /\ t.told = u.told
        /\ \A n \in Messages : Exists(t, n) <=> Exists(u, n)
        /\ u.msg[m].destroyed \notin {c} => t.msg[m] = u.msg[m]
    BY <1>1, <2>1, <2>2, DeleteAllIs
  <2>5. u.msg[m].destroyed # c
    BY <1>1, <1>7 DEF c
  <2> QED
    BY <1>1, <1>4, <1>5, <2>3, <2>4, <2>5 DEF t
<1> QED
  BY <1>6, <1>7

-----------------------------------------------------------------------------
(* Messages. *)

\* A constructor starts from a message that holds nothing.
LEMMA NewSound ==
  ASSUME NEW s, Sound(s), NEW m \in Messages, ~Exists(s, m), NEW k \in Values
  PROVE  LET e == [s EXCEPT !.msg[m] = [NewMessage EXCEPT !.kind = k]] IN
         /\ Sound(e) /\ Lost(e) = Lost(s) /\ Fresh(e) = Fresh(s)
         /\ e.obj = s.obj /\ e.told = s.told
         /\ \A n \in Messages \ {m} : e.msg[n] = s.msg[n]
         /\ Exists(e, m) /\ \A n \in Messages \ {m} : Exists(e, n) <=> Exists(s, n)
         /\ e.msg[m] = [kind |-> k, child |-> Null, destroyed |-> Null, given |-> FALSE, list |-> <<>>]
<1> DEFINE x == [NewMessage EXCEPT !.kind = k]
           e == [s EXCEPT !.msg[m] = x]
<1>0. s \in Prog /\ Heard(s) /\ Elements(s)
  BY DEF Sound
<1>1. /\ x = [kind |-> k, child |-> Null, destroyed |-> Null, given |-> FALSE, list |-> <<>>]
      /\ x.child = Null /\ x.destroyed = Null /\ ~x.given /\ x.list = <<>>
  <2>1. NewMessage \in Message /\ NewMessage.child = Null /\ NewMessage.destroyed = Null
        /\ NewMessage.given = FALSE /\ NewMessage.list = <<>>
    <3>1. <<>> \in Seq(Objects)
      BY EmptySeq
    <3> QED
      BY <3>1 DEF NewMessage, Message, Values
  <2>2. x \in Message /\ x.kind = k /\ x.child = Null /\ x.destroyed = Null
        /\ x.given = FALSE /\ x.list = <<>>
    BY <2>1 DEF Message
  <2> DEFINE y == [kind |-> k, child |-> Null, destroyed |-> Null, given |-> FALSE, list |-> <<>>]
  <2>3. y \in Message /\ y.kind = k /\ y.child = Null /\ y.destroyed = Null
        /\ y.given = FALSE /\ y.list = <<>>
    <3>1. <<>> \in Seq(Objects)
      BY EmptySeq
    <3> QED
      BY <3>1 DEF Message
  <2> HIDE DEF x, y
  <2>4. x = y
    BY <2>2, <2>3, SameParts
  <2> QED
    BY <2>2, <2>4 DEF y
<1>2. x \in Message
  <2>1. <<>> \in Seq(Objects)
    BY EmptySeq
  <2> QED
    BY <1>1, <2>1 DEF Message
<1> HIDE DEF x
<1>3. /\ e \in Prog /\ e.obj = s.obj /\ e.told = s.told /\ e.msg[m] = x
      /\ \A n \in Messages \ {m} : e.msg[n] = s.msg[n]
  BY <1>0, <1>2, PutMessage
<1> HIDE DEF e
<1>4. Exists(e, m) /\ \A n \in Messages \ {m} : Exists(e, n) <=> Exists(s, n)
  BY <1>2, <1>3, Basics DEF Exists
<1>5. Range(x.list) = {}
  BY <1>1 DEF Range
<1>6. \A o \in Objects : (Held(e, o) <=> Held(s, o)) /\ (InList(e, o) <=> InList(s, o))
  <2> SUFFICES ASSUME NEW o \in Objects
               PROVE  (Held(e, o) <=> Held(s, o)) /\ (InList(e, o) <=> InList(s, o))
    OBVIOUS
  <2>1. o \notin {e.msg[m].child} \union Range(e.msg[m].list)
    BY <1>1, <1>3, <1>5, Basics
  <2> QED
    BY <1>3, <1>4, <2>1 DEF Held, InList
<1>7. \A o : Live(e, o) <=> Live(s, o)
  BY <1>3 DEF Live
<1>8. Heard(e)
  <2> SUFFICES ASSUME NEW n \in Messages, Exists(e, n)
               PROVE  /\ e.msg[n].destroyed # Null =>
                           e.msg[n].child = e.msg[n].destroyed /\ Live(e, e.msg[n].destroyed)
                      /\ e.msg[n].given => e.msg[n].destroyed # Null
    BY DEF Heard
  <2>1. CASE n = m
    BY <1>1, <1>3, <2>1
  <2>2. CASE n # m
    BY <1>0, <1>3, <1>4, <1>7, <2>2 DEF Heard
  <2> QED
    BY <2>1, <2>2
<1>9. Elements(e)
  <2> SUFFICES ASSUME NEW o \in Objects, InList(e, o)
               PROVE  /\ e.obj[o].owner = "cpp"
                      /\ \A n \in Messages : Exists(e, n) => e.msg[n].child # o
    BY DEF Elements
  <2>1. s.obj[o].owner = "cpp" /\ \A n \in Messages : Exists(s, n) => s.msg[n].child # o
    BY <1>0, <1>6 DEF Elements
  <2> QED
    BY <1>1, <1>3, <1>4, <2>1, Basics
<1>10. Lost(e) = Lost(s) /\ Fresh(e) = Fresh(s)
  BY <1>3, <1>6, <1>7 DEF Lost, Fresh
<1> QED
  BY <1>1, <1>3, <1>4, <1>8, <1>9, <1>10 DEF Sound, e, x

\* A message that holds nothing goes away.
LEMMA GoneSound ==
  ASSUME NEW s, Sound(s), NEW m \in Messages, Exists(s, m),
         s.msg[m].child = Null, s.msg[m].list = <<>>
  PROVE  Sound([s EXCEPT !.msg[m] = Absent]) /\ Lost([s EXCEPT !.msg[m] = Absent]) = Lost(s)
<1> DEFINE e == [s EXCEPT !.msg[m] = Absent]
<1>0. s \in Prog /\ Heard(s) /\ Elements(s)
  BY DEF Sound
<1>1. /\ e \in Prog /\ e.obj = s.obj /\ e.msg[m] = Absent
      /\ \A n \in Messages \ {m} : e.msg[n] = s.msg[n]
  BY <1>0, PutMessage
<1> HIDE DEF e
<1>2. ~Exists(e, m) /\ \A n \in Messages \ {m} : Exists(e, n) <=> Exists(s, n)
  BY <1>1 DEF Exists
<1>3. Range(s.msg[m].list) = {}
  BY DEF Range
<1>4. \A o \in Objects : (Held(e, o) <=> Held(s, o)) /\ (InList(e, o) <=> InList(s, o))
  <2> SUFFICES ASSUME NEW o \in Objects
               PROVE  (Held(e, o) <=> Held(s, o)) /\ (InList(e, o) <=> InList(s, o))
    OBVIOUS
  <2>1. o \notin {s.msg[m].child} \union Range(s.msg[m].list)
    BY <1>3, Basics
  <2> QED
    BY <1>1, <1>2, <2>1 DEF Held, InList
<1>5. Heard(e)
  <2>1. \A o : Live(e, o) <=> Live(s, o)
    BY <1>1 DEF Live
  <2>2. \A n \in Messages : Exists(e, n) => Exists(s, n) /\ e.msg[n] = s.msg[n]
    BY <1>1, <1>2
  <2> QED
    BY <1>0, <2>1, <2>2 DEF Heard
<1>6. Elements(e)
  <2>1. \A n \in Messages : Exists(e, n) => Exists(s, n) /\ e.msg[n] = s.msg[n]
    BY <1>1, <1>2
  <2> QED
    BY <1>0, <1>1, <1>4, <2>1 DEF Elements
<1>7. Lost(e) = Lost(s)
  BY <1>1, <1>4 DEF Lost
<1> QED
  BY <1>1, <1>5, <1>6, <1>7 DEF Sound, e

-----------------------------------------------------------------------------
(* Copying and moving a child. *)

\* Nothing but children and objects of no list differ, and signals are added.
Kept(s, t) ==
  /\ \A n \in Messages : Exists(t, n) <=> Exists(s, n)
  /\ \A n \in Messages : Exists(s, n) =>
       t.msg[n].list = s.msg[n].list /\ t.msg[n].kind = s.msg[n].kind
  /\ \A o \in Objects : InList(s, o) => t.obj[o] = s.obj[o]
  /\ s.told \subseteq t.told

LEMMA KeptKept ==
  ASSUME NEW s, NEW r, NEW t, Kept(s, r), Kept(r, t)
  PROVE  Kept(s, t)
<1>1. \A o \in Objects : InList(s, o) => InList(r, o)
  BY DEF Kept, InList
<1> QED
  BY <1>1 DEF Kept

LEMMA KeptSelf == \A s : Kept(s, s)
BY DEF Kept

\* A child that was not there has the value of the one that is made.
LEMMA DerefKept ==
  ASSUME NEW s, Sound(s), NEW m \in Messages, Exists(s, m),
         s.msg[m].child = Null => Fresh(s) # {}
  PROVE  /\ Kept(s, Deref(s, m))
         /\ \A n \in Messages : Exists(s, n) => ChildV(Deref(s, m), n) = ChildV(s, n)
<1> DEFINE t == Deref(s, m)
           o == NextFresh(s)
<1>0. s \in Prog
  BY DEF Sound
<1>1. CASE s.msg[m].child # Null
  <2>1. t = s
    BY <1>0, <1>1, DerefIs
  <2> QED
    BY <2>1, KeptSelf
<1>2. CASE s.msg[m].child = Null
  <2>1. /\ t \in Prog /\ t.told = s.told
        /\ \A n \in Messages \ {m} : t.msg[n] = s.msg[n]
        /\ t.obj[o] = [owner |-> "cpp", v |-> 0]
        /\ \A p \in Objects \ {o} : t.obj[p] = s.obj[p]
        /\ t.msg[m] = [s.msg[m] EXCEPT !.child = o]
    BY <1>0, <1>2, DerefIs
  <2>2. /\ \A n \in Messages : Exists(t, n) <=> Exists(s, n)
        /\ t.msg[m].list = s.msg[m].list /\ t.msg[m].kind = s.msg[m].kind
    BY <1>0, <1>2, DerefFresh
  <2>3. o \in Objects /\ ~InList(s, o) /\ ~Held(s, o)
    BY <1>2, NextFreshIs
  <2>4. s.msg[m] \in Message
    BY <1>0, Parts
  <2>5. t.msg[m].child = o
    BY <2>1, <2>4 DEF Message
  <2> HIDE DEF t, o
  <2>6. Kept(s, t)
    BY <2>1, <2>2, <2>3 DEF Kept
  <2>7. ASSUME NEW n \in Messages, Exists(s, n) PROVE ChildV(t, n) = ChildV(s, n)
    <3>1. CASE n = m
      <4>1. o # Null
        BY <2>3, Basics
      <4>2. t.obj[o].v = 0
        BY <2>1
      <4>3. ChildV(t, m) = t.obj[o].v
        BY <2>5, <4>1 DEF ChildV
      <4>4. ChildV(s, m) = 0
        BY <1>2 DEF ChildV
      <4> QED
        BY <3>1, <4>2, <4>3, <4>4
    <3>2. CASE n # m
      <4>1. t.msg[n] = s.msg[n] /\ s.msg[n].child \in Objects \union {Null}
        BY <1>0, <2>1, <2>7, <3>2, Parts
      <4>2. s.msg[n].child # o
        BY <2>3, <2>7 DEF Held
      <4> QED
        BY <2>1, <4>1, <4>2 DEF ChildV
    <3> QED
      BY <3>1, <3>2
  <2> QED
    BY <2>6, <2>7 DEF t
<1> QED
  BY <1>1, <1>2

\* There is room for the objects that operator* makes for two messages.
RoomFor(s, m, other) ==
  /\ s.msg[m].child = Null => Fresh(s) # {}
  /\ Deref(s, m).msg[other].child = Null => Fresh(Deref(s, m)) # {}

\* Both messages have a child then.
LEMMA BothDeref ==
  ASSUME NEW s, Sound(s), NEW m \in Messages, Exists(s, m), NEW other \in Messages, Exists(s, other),
         RoomFor(s, m, other)
  PROVE  LET r == Deref(Deref(s, m), other) IN
         /\ Sound(r) /\ Lost(r) \subseteq Lost(s) /\ Kept(s, r)
         /\ \A n \in Messages : Exists(s, n) => ChildV(r, n) = ChildV(s, n)
         /\ r.msg[m].child \in Objects /\ r.msg[other].child \in Objects
<1> DEFINE t == Deref(s, m)
           r == Deref(t, other)
<1>0. s \in Prog
  BY DEF Sound
<1>1. /\ Sound(t) /\ Lost(t) \subseteq Lost(s) /\ Kept(s, t)
      /\ \A n \in Messages : Exists(s, n) => ChildV(t, n) = ChildV(s, n)
  BY DerefSound, DerefKept DEF RoomFor
<1>2. t.msg[m].child \in Objects
  BY <1>0, DerefFresh DEF RoomFor
<1>3. t \in Prog /\ \A n \in Messages : Exists(t, n) <=> Exists(s, n)
  BY <1>1 DEF Kept, Sound
<1>4. t.msg[other].child = Null => Fresh(t) # {}
  BY DEF RoomFor
<1> HIDE DEF t
<1>5. /\ Sound(r) /\ Lost(r) \subseteq Lost(t) /\ Kept(t, r)
      /\ \A n \in Messages : Exists(t, n) => ChildV(r, n) = ChildV(t, n)
  BY <1>1, <1>3, <1>4, DerefSound, DerefKept
<1>6. r.msg[other].child \in Objects
  BY <1>3, <1>4, DerefFresh
<1>7. r.msg[m].child \in Objects
  <2>1. CASE other = m
    BY <1>6, <2>1
  <2>2. CASE other # m
    <3>1. t \in Prog /\ Exists(t, other) /\ m \in Messages \ {other}
      BY <1>3, <2>2
    <3>2. \A n \in Messages \ {other} : Deref(t, other).msg[n] = t.msg[n]
      BY <1>4, <3>1, DerefIs
    <3>3. Deref(t, other).msg[m] = t.msg[m]
      BY <3>1, <3>2
    <3> QED
      BY <1>2, <3>3
  <2> QED
    BY <2>1, <2>2
<1>8. Kept(s, r)
  BY <1>1, <1>5, KeptKept
<1>9. \A n \in Messages : Exists(s, n) => ChildV(r, n) = ChildV(s, n)
  BY <1>1, <1>3, <1>5
<1> HIDE DEF r
<1>10. Lost(r) \subseteq Lost(s)
  BY <1>1, <1>5
<1> QED
  BY <1>5, <1>6, <1>7, <1>8, <1>9, <1>10 DEF r, t

\* A child's number changes: who holds what does not.
LEMMA NumberSound ==
  ASSUME NEW s, Sound(s), NEW t \in Prog, t.msg = s.msg,
         \A o \in Objects : t.obj[o].owner = s.obj[o].owner
  PROVE  Sound(t) /\ Lost(t) = Lost(s) /\ \A n \in Messages : Exists(t, n) <=> Exists(s, n)
<1>1. s \in Prog
  BY DEF Sound
<1>2. \A n \in Messages : Exists(t, n) <=> Exists(s, n)
  BY DEF Exists
<1>3. Alike(s, t)
  BY <1>2 DEF Alike
<1> QED
  BY <1>1, <1>2, <1>3, AlikeSound

\* Objects are equal when owner and number are.
LEMMA SameObject ==
  \A x, y \in Object : x.owner = y.owner /\ x.v = y.v => x = y
<1> SUFFICES ASSUME NEW x \in Object, NEW y \in Object, x.owner = y.owner, x.v = y.v PROVE x = y
  OBVIOUS
<1>1. x = [owner |-> x.owner, v |-> x.v] /\ y = [owner |-> y.owner, v |-> y.v]
  BY DEF Object
<1> QED
  BY <1>1, Zenon

\* operator== of two lazy pointers compares the children as their getters give
\* them.
LEMMA LazyEqualIs ==
  ASSUME NEW s, NEW a, NEW b
  PROVE  LazyEqual(s, a, b) <=> ChildV(s, a) = ChildV(s, b)
BY DEF LazyEqual, ChildV

LEMMA CopyChildSound ==
  ASSUME NEW s, Sound(s), NEW m \in Messages, Exists(s, m), NEW other \in Messages, Exists(s, other),
         RoomFor(s, m, other), NEW tell \in BOOLEAN
  PROVE  LET t == CopyChild(s, m, other, tell) IN
         /\ Sound(t) /\ Lost(t) \subseteq Lost(s) /\ Kept(s, t)
         /\ ChildV(t, m) = ChildV(s, other) /\ ChildV(t, other) = ChildV(s, other)
         /\ tell /\ ChildV(s, m) # ChildV(s, other) => <<m, "child">> \in t.told
<1> DEFINE t == CopyChild(s, m, other, tell)
           r == Deref(Deref(s, m), other)
           a == r.msg[m].child
           b == r.msg[other].child
           x == ChildV(r, other)
           c == SetV(r, a, x)
<1>1. CASE ChildV(s, m) = ChildV(s, other)
  <2>1. t = s
    BY <1>1, LazyEqualIs DEF CopyChild
  <2> QED
    BY <1>1, <2>1, KeptSelf
<1>2. CASE ChildV(s, m) # ChildV(s, other)
  <2>1. t = IF tell THEN Tell(c, m, "child") ELSE c
    BY <1>2, LazyEqualIs DEF CopyChild
  <2>2. /\ Sound(r) /\ Lost(r) \subseteq Lost(s) /\ Kept(s, r)
        /\ \A n \in Messages : Exists(s, n) => ChildV(r, n) = ChildV(s, n)
        /\ a \in Objects /\ b \in Objects
    BY BothDeref
  <2> HIDE DEF r
  <2>3. r \in Prog /\ Elements(r) /\ a # Null /\ b # Null
    BY <2>2, Basics DEF Sound
  <2>4. ChildV(r, m) = r.obj[a].v /\ x = r.obj[b].v /\ a # b /\ x = ChildV(s, other)
    BY <1>2, <2>2, <2>3 DEF ChildV
  <2>5. x \in Values
    BY <2>2, <2>3, <2>4, Parts
  <2> HIDE DEF x, a, b
  <2>6. /\ c \in Prog /\ c.msg = r.msg /\ c.obj[a].v = x
        /\ \A p \in Objects : c.obj[p].owner = r.obj[p].owner
        /\ \A p \in Objects \ {a} : c.obj[p].v = r.obj[p].v
        /\ r.told \subseteq c.told
    <3>1. r \in Prog /\ a \in Objects /\ x \in Values
      BY <2>2, <2>3, <2>5
    <3> QED
      BY <3>1, SetVIs
  <2> HIDE DEF c
  <2>7. Sound(c) /\ Lost(c) = Lost(r) /\ \A n \in Messages : Exists(c, n) <=> Exists(r, n)
    BY <2>2, <2>6, NumberSound
  <2>8. Exists(r, m)
    BY <2>2 DEF Kept
  <2>9. \A o \in Objects : InList(r, o) => o # a
    BY <2>3, <2>8 DEF Elements, a
  <2>10. \A o \in Objects : InList(r, o) => c.obj[o] = r.obj[o]
    <3>1. \A o \in Objects : c.obj[o] \in Object /\ r.obj[o] \in Object
      BY <2>3, <2>6, Parts
    <3> QED
      BY <2>6, <2>9, <3>1, SameObject
  <2>11. Kept(r, c)
    BY <2>6, <2>7, <2>10 DEF Kept
  <2>12. Kept(s, c)
    BY <2>2, <2>11, KeptKept
  <2>13. c.msg[m].child = a /\ c.msg[other].child = b
    BY <2>6 DEF a, b
  <2>14. ChildV(c, m) = x /\ ChildV(c, other) = x
    BY <2>2, <2>3, <2>4, <2>6, <2>13 DEF ChildV
  <2>15. CASE ~tell
    <3>1. t = c
      BY <2>1, <2>15
    <3> QED
      BY <2>2, <2>4, <2>7, <2>12, <2>14, <2>15, <3>1
  <2>16. CASE tell
    <3>1. t = Tell(c, m, "child")
      BY <2>1, <2>16
    <3> HIDE DEF t
    <3>2. /\ Sound(t) /\ Lost(t) = Lost(c) /\ t.msg = c.msg /\ t.obj = c.obj
          /\ \A n \in Messages : Exists(t, n) <=> Exists(c, n)
      <4>1. Sound(c)
        BY <2>7
      <4> QED
        BY <3>1, <4>1, TellSound
    <3>3. t.told = c.told \union {<<m, "child">>}
      <4>1. c \in Prog
        BY <2>6
      <4> QED
        BY <3>1, <4>1, TellIs
    <3>4. Kept(c, t)
      BY <3>2, <3>3 DEF Kept
    <3>5. Kept(s, t)
      BY <2>12, <3>4, KeptKept
    <3>6. ChildV(t, m) = ChildV(c, m) /\ ChildV(t, other) = ChildV(c, other)
      BY <3>2 DEF ChildV
    <3>7. <<m, "child">> \in t.told
      BY <3>3
    <3>8. Lost(t) \subseteq Lost(s)
      BY <2>2, <2>7, <3>2
    <3> QED
      BY <2>4, <2>14, <3>2, <3>5, <3>6, <3>7, <3>8 DEF t
  <2> QED
    BY <2>15, <2>16
<1> QED
  BY <1>1, <1>2

LEMMA MoveChildSound ==
  ASSUME NEW s, Sound(s), NEW m \in Messages, Exists(s, m), NEW other \in Messages, Exists(s, other),
         RoomFor(s, m, other), NEW tell \in BOOLEAN
  PROVE  LET t == MoveChild(s, m, other, tell) IN
         /\ Sound(t) /\ Lost(t) \subseteq Lost(s) /\ Kept(s, t)
         /\ ChildV(t, m) = ChildV(s, other)
         /\ ChildV(s, m) # ChildV(s, other) =>
              /\ tell => <<m, "child">> \in t.told /\ <<other, "child">> \in t.told
              /\ <<t.msg[other].child, "v">> \in t.told
         /\ ChildV(s, m) = ChildV(s, other) => ChildV(t, other) = ChildV(s, other)
<1> DEFINE t == MoveChild(s, m, other, tell)
           r == Deref(Deref(s, m), other)
           a == r.msg[m].child
           b == r.msg[other].child
           c == MoveV(r, a, b)
           d == Tell(c, m, "child")
<1>1. CASE ChildV(s, m) = ChildV(s, other)
  <2>1. t = s
    BY <1>1, LazyEqualIs DEF MoveChild
  <2> QED
    BY <1>1, <2>1, KeptSelf
<1>2. CASE ChildV(s, m) # ChildV(s, other)
  <2>1. t = IF tell THEN Tell(d, other, "child") ELSE c
    BY <1>2, LazyEqualIs DEF MoveChild
  <2>2. /\ Sound(r) /\ Lost(r) \subseteq Lost(s) /\ Kept(s, r)
        /\ \A n \in Messages : Exists(s, n) => ChildV(r, n) = ChildV(s, n)
        /\ a \in Objects /\ b \in Objects
    BY BothDeref
  <2> HIDE DEF r
  <2>3. r \in Prog /\ Elements(r) /\ a # Null /\ b # Null
    BY <2>2, Basics DEF Sound
  <2>4. ChildV(r, m) = r.obj[a].v /\ ChildV(s, other) = r.obj[b].v /\ a # b
    BY <1>2, <2>2, <2>3 DEF ChildV
  <2> HIDE DEF a, b
  <2>6. /\ c \in Prog /\ c.msg = r.msg /\ c.obj[a].v = r.obj[b].v
        /\ \A p \in Objects : c.obj[p].owner = r.obj[p].owner
        /\ \A p \in Objects \ {a, b} : c.obj[p].v = r.obj[p].v
        /\ r.told \subseteq c.told /\ <<b, "v">> \in c.told
    BY <2>2, <2>3, <2>4, MoveVIs
  <2> HIDE DEF c
  <2>7. Sound(c) /\ Lost(c) = Lost(r) /\ \A n \in Messages : Exists(c, n) <=> Exists(r, n)
    BY <2>2, <2>6, NumberSound
  <2>8. Exists(r, m) /\ Exists(r, other)
    BY <2>2 DEF Kept
  <2>9. \A o \in Objects : InList(r, o) => o # a /\ o # b
    BY <2>3, <2>8 DEF Elements, a, b
  <2>10. \A o \in Objects : InList(r, o) => c.obj[o] = r.obj[o]
    <3>1. \A o \in Objects : c.obj[o] \in Object /\ r.obj[o] \in Object
      BY <2>3, <2>6, Parts
    <3> QED
      BY <2>6, <2>9, <3>1, SameObject
  <2>11. Kept(r, c)
    BY <2>6, <2>7, <2>10 DEF Kept
  <2>12. Kept(s, c)
    BY <2>2, <2>11, KeptKept
  <2>13. c.msg[m].child = a /\ c.msg[other].child = b
    BY <2>6 DEF a, b
  <2>14. ChildV(c, m) = ChildV(s, other)
    BY <2>3, <2>4, <2>6, <2>13 DEF ChildV
  <2>15. CASE ~tell
    <3>1. t = c
      BY <2>1, <2>15
    <3> HIDE DEF t
    <3> QED
      BY <1>2, <2>2, <2>6, <2>7, <2>12, <2>13, <2>14, <2>15, <3>1 DEF t
  <2>16. CASE tell
    <3>1. t = Tell(d, other, "child")
      BY <2>1, <2>16
    <3> HIDE DEF t
    <3>2. /\ Sound(d) /\ Lost(d) = Lost(c) /\ d.msg = c.msg /\ d.obj = c.obj
          /\ \A n \in Messages : Exists(d, n) <=> Exists(c, n)
      BY <2>7, TellSound
    <3>3. d.told = c.told \union {<<m, "child">>} /\ d \in Prog
      BY <2>6, TellIs
    <3> HIDE DEF d
    <3>4. /\ Sound(t) /\ Lost(t) = Lost(d) /\ t.msg = d.msg /\ t.obj = d.obj
          /\ \A n \in Messages : Exists(t, n) <=> Exists(d, n)
      <4>1. Sound(d)
        BY <3>2
      <4> QED
        BY <3>1, <4>1, TellSound
    <3>5. t.told = d.told \union {<<other, "child">>}
      <4>1. d \in Prog
        BY <3>3
      <4> QED
        BY <3>1, <4>1, TellIs
    <3>6. Kept(c, t)
      BY <3>2, <3>3, <3>4, <3>5 DEF Kept
    <3>7. Kept(s, t)
      BY <2>12, <3>6, KeptKept
    <3>8. ChildV(t, m) = ChildV(c, m)
      BY <3>2, <3>4 DEF ChildV
    <3>9. /\ <<m, "child">> \in t.told /\ <<other, "child">> \in t.told
          /\ <<t.msg[other].child, "v">> \in t.told
      BY <2>6, <2>13, <3>2, <3>3, <3>4, <3>5
    <3>10. Lost(t) \subseteq Lost(s)
      BY <2>2, <2>7, <3>2, <3>4
    <3> QED
      BY <1>2, <2>14, <3>4, <3>7, <3>8, <3>9, <3>10 DEF t
  <2> QED
    BY <2>15, <2>16
<1> QED
  BY <1>1, <1>2

-----------------------------------------------------------------------------
(* Room for new objects. *)

\* There are objects for the children that m and other lack.
Ample(s, m, other) ==
  /\ Null \in {s.msg[m].child, s.msg[other].child} => Fresh(s) # {}
  /\ m # other /\ s.msg[m].child = Null /\ s.msg[other].child = Null =>
       \A x \in Fresh(s) : Fresh(s) \ {x} # {}

LEMMA AmpleRoom ==
  ASSUME NEW s \in Prog, NEW m \in Messages, Exists(s, m), NEW other \in Messages, Exists(s, other),
         Ample(s, m, other)
  PROVE  RoomFor(s, m, other)
<1>1. s.msg[m].child = Null => Fresh(s) # {}
  BY DEF Ample
<1>2. ASSUME Deref(s, m).msg[other].child = Null PROVE Fresh(Deref(s, m)) # {}
  <2>1. Deref(s, m).msg[m].child \in Objects
    BY <1>1, DerefFresh
  <2>2. other # m
    BY <1>2, <2>1, Basics
  <2>3. Deref(s, m).msg[other] = s.msg[other]
    <3>1. \A n \in Messages \ {m} : Deref(s, m).msg[n] = s.msg[n]
      BY <1>1, DerefIs
    <3> QED
      BY <2>2, <3>1
  <2>4. CASE s.msg[m].child = Null
    <3>1. Fresh(Deref(s, m)) = Fresh(s) \ {NextFresh(s)}
      BY <1>1, <2>4, DerefFresh
    <3>2. NextFresh(s) \in Fresh(s)
      BY <1>1, <2>4, NextFreshIs
    <3> QED
      BY <1>2, <2>2, <2>3, <2>4, <3>1, <3>2 DEF Ample
  <2>5. CASE s.msg[m].child # Null
    BY <1>2, <2>3, <2>5, DerefIs DEF Ample
  <2> QED
    BY <2>4, <2>5
<1> QED
  BY <1>1, <1>2 DEF RoomFor

\* An object that is there is not made anew, and the one that is made is there.
LEMMA DerefLive ==
  ASSUME NEW s \in Prog, NEW m \in Messages, Exists(s, m),
         s.msg[m].child = Null => Fresh(s) # {},
         NEW n \in Messages, Usable(s, n)
  PROVE  Usable(Deref(s, m), n)
<1> DEFINE t == Deref(s, m)
           o == NextFresh(s)
<1>1. CASE s.msg[m].child # Null
  BY <1>1, DerefIs
<1>2. CASE s.msg[m].child = Null
  <2>1. /\ \A k \in Messages \ {m} : t.msg[k] = s.msg[k]
        /\ t.obj[o] = [owner |-> "cpp", v |-> 0]
        /\ \A p \in Objects \ {o} : t.obj[p] = s.obj[p]
        /\ t.msg[m] = [s.msg[m] EXCEPT !.child = o]
    BY <1>2, DerefIs
  <2>2. Exists(t, n)
    BY <1>2, DerefFresh DEF Usable
  <2>3. s.msg[m] \in Message
    BY Parts
  <2>4. t.msg[m].child = o /\ t.obj[o].owner = "cpp"
    BY <2>1, <2>3 DEF Message
  <2>5. Exists(s, n) /\ s.msg[n].child \in Objects \union {Null}
    BY Parts DEF Usable
  <2> HIDE DEF t, o
  <2>6. ASSUME n = m PROVE Live(t, t.msg[n].child)
    BY <2>4, <2>6 DEF Live
  <2>7. ASSUME n # m, t.msg[n].child # Null PROVE Live(t, t.msg[n].child)
    <3>1. t.msg[n].child = s.msg[n].child /\ Live(s, s.msg[n].child)
      BY <2>1, <2>7 DEF Usable
    <3>2. s.msg[n].child \in Objects
      BY <2>5, <2>7, <3>1
    <3> QED
      BY <2>1, <2>4, <3>1, <3>2 DEF Live
  <2>8. Usable(t, n)
    BY <2>2, <2>6, <2>7 DEF Usable
  <2> QED
    BY <2>8 DEF t
<1> QED
  BY <1>1, <1>2

\* A comparison may make children, and changes nothing that a getter shows.
LEMMA ComparedSound ==
  ASSUME NEW s, Sound(s), NEW a \in Messages, Exists(s, a), NEW b \in Messages, Exists(s, b),
         Ample(s, a, b)
  PROVE  LET t == Compared(s, a, b) IN
         /\ Sound(t) /\ Lost(t) \subseteq Lost(s) /\ Kept(s, t)
         /\ \A n \in Messages : Exists(s, n) => ChildV(t, n) = ChildV(s, n)
         /\ \A n \in Messages : Usable(s, n) => Usable(t, n)
         /\ t = s \/ (t.msg[a].child \in Objects /\ t.msg[b].child \in Objects)
<1> DEFINE t == Compared(s, a, b)
           e == Deref(s, a)
           r == Deref(e, b)
<1>0. s \in Prog
  BY DEF Sound
<1>1. RoomFor(s, a, b)
  BY <1>0, AmpleRoom
<1>2. /\ Sound(r) /\ Lost(r) \subseteq Lost(s) /\ Kept(s, r)
      /\ \A n \in Messages : Exists(s, n) => ChildV(r, n) = ChildV(s, n)
      /\ r.msg[a].child \in Objects /\ r.msg[b].child \in Objects
  BY <1>1, BothDeref
<1>3. \A n \in Messages : Usable(s, n) => Usable(r, n)
  <2>1. /\ s.msg[a].child = Null => Fresh(s) # {}
        /\ e.msg[b].child = Null => Fresh(e) # {}
    BY <1>1 DEF RoomFor
  <2>2. e \in Prog /\ Kept(s, e)
    BY <1>0, <2>1, DerefIs, DerefKept
  <2>3. \A n \in Messages : Usable(s, n) => Usable(e, n)
    BY <1>0, <2>1, DerefLive
  <2>4. Exists(e, b)
    BY <2>2 DEF Kept
  <2> HIDE DEF e
  <2>5. \A n \in Messages : Usable(e, n) => Usable(r, n)
    BY <2>1, <2>2, <2>4, DerefLive
  <2> QED
    BY <2>3, <2>5
<1>4. t = s \/ t = r
  BY DEF Compared
<1> HIDE DEF t, r
<1>5. /\ Sound(t) /\ Lost(t) \subseteq Lost(s) /\ Kept(s, t)
      /\ \A n \in Messages : Exists(s, n) => ChildV(t, n) = ChildV(s, n)
      /\ \A n \in Messages : Usable(s, n) => Usable(t, n)
      /\ t = s \/ (t.msg[a].child \in Objects /\ t.msg[b].child \in Objects)
  <2>1. CASE t = s
    BY <2>1, KeptSelf
  <2>2. CASE t = r
    BY <1>2, <1>3, <2>2
  <2> QED
    BY <1>4, <2>1, <2>2
<1> QED
  BY <1>5 DEF t

\* What a bound on cardinalities means.
LEMMA RoomMeans ==
  ASSUME NEW s, NEW n \in Nat, Cardinality(Fresh(s)) >= n
  PROVE  /\ n >= 1 => Fresh(s) # {}
         /\ n >= 2 => \A x \in Fresh(s) : Fresh(s) \ {x} # {}
<1>1. IsFiniteSet(Objects)
  BY BoundAssumption, FS_Interval DEF Objects
<1>2. IsFiniteSet(Fresh(s))
  BY <1>1, FS_Subset DEF Fresh
<1>3. Cardinality(Fresh(s)) \in Nat /\ (Cardinality(Fresh(s)) = 0 <=> Fresh(s) = {})
  BY <1>2, FS_CardinalityType, FS_EmptySet
<1>4. ASSUME n >= 2, NEW x \in Fresh(s) PROVE Fresh(s) \ {x} # {}
  <2>1. Fresh(s) \ {x} = {} => Fresh(s) = {x}
    OBVIOUS
  <2>2. Cardinality({x}) = 1
    BY FS_Singleton
  <2>3. Fresh(s) = {x} => Cardinality(Fresh(s)) = 1
    BY <2>2
  <2> QED
    BY <1>3, <1>4, <2>1, <2>3
<1>5. n >= 1 => Fresh(s) # {}
  BY <1>3
<1> QED
  BY <1>4, <1>5

\* The bound of operations on two messages.
LEMMA RoomIs ==
  ASSUME NEW m \in Messages, NEW other \in Messages, Exists(Program, m), Exists(Program, other),
         Room({m, other}, 0)
  PROVE  Ample(Program, m, other)
<1> DEFINE need == {k \in {m, other} : Exists(Program, k) /\ msg[k].child = Null}
           F == Cardinality(Fresh(Program))
<1>1. F >= 0 + Cardinality(need)
  BY DEF Room
<1>2. Program.msg = msg
  BY DEF Program
<1>3. IsFiniteSet({m, other}) /\ Cardinality({m}) = 1 /\ Cardinality({other}) = 1
  <2>1. IsFiniteSet({m}) /\ Cardinality({m}) = 1 /\ Cardinality({other}) = 1
    BY FS_Singleton
  <2>2. {m, other} = {m} \union {other}
    OBVIOUS
  <2> QED
    BY <2>1, <2>2, FS_AddElement
<1>4. IsFiniteSet(need)
  BY <1>3, FS_Subset
<1>5. Cardinality(need) \in Nat /\ (Cardinality(need) = 0 <=> need = {})
  BY <1>4, FS_CardinalityType, FS_EmptySet
<1>6. F >= Cardinality(need)
  BY <1>1, <1>5
<1>7. /\ Cardinality(need) >= 1 => Fresh(Program) # {}
      /\ Cardinality(need) >= 2 => \A x \in Fresh(Program) : Fresh(Program) \ {x} # {}
  BY <1>5, <1>6, RoomMeans
<1>8. Null \in {msg[m].child, msg[other].child} => Cardinality(need) >= 1
  <2>1. Null \in {msg[m].child, msg[other].child} => need # {}
    OBVIOUS
  <2> QED
    BY <1>5, <2>1
<1>9. m # other /\ msg[m].child = Null /\ msg[other].child = Null => Cardinality(need) >= 2
  <2> SUFFICES ASSUME m # other, msg[m].child = Null, msg[other].child = Null
               PROVE  Cardinality(need) >= 2
    OBVIOUS
  <2>1. need = {m} \union {other}
    OBVIOUS
  <2> HIDE DEF need
  <2>2. IsFiniteSet({m}) /\ other \notin {m}
    BY FS_Singleton
  <2>3. Cardinality({m} \union {other}) = Cardinality({m}) + 1
    BY <2>2, FS_AddElement
  <2> QED
    BY <1>3, <2>1, <2>3
<1> HIDE DEF need, F
<1> QED
  BY <1>2, <1>7, <1>8, <1>9 DEF Ample

\* The bound of constructors that take from another message.
LEMMA RoomToConstruct ==
  ASSUME NEW other \in Messages, Exists(Program, other), Room({other}, 1)
  PROVE  /\ Fresh(Program) # {}
         /\ msg[other].child = Null =>
              \A x \in Fresh(Program) : Fresh(Program) \ {x} # {}
<1> DEFINE need == {k \in {other} : Exists(Program, k) /\ msg[k].child = Null}
           F == Cardinality(Fresh(Program))
<1>1. F >= 1 + Cardinality(need)
  BY DEF Room
<1>2. IsFiniteSet({other}) /\ Cardinality({other}) = 1
  BY FS_Singleton
<1>3. IsFiniteSet(need)
  BY <1>2, FS_Subset
<1>4. Cardinality(need) \in Nat
  BY <1>3, FS_CardinalityType
<1>5. msg[other].child = Null => need = {other}
  OBVIOUS
<1>6. msg[other].child = Null => Cardinality(need) = 1
  BY <1>2, <1>5
<1> HIDE DEF need
<1>7. 1 + Cardinality(need) \in Nat
  BY <1>4
<1>8. /\ 1 + Cardinality(need) >= 1 => Fresh(Program) # {}
      /\ 1 + Cardinality(need) >= 2 => \A x \in Fresh(Program) : Fresh(Program) \ {x} # {}
  BY <1>1, <1>7, RoomMeans
<1> QED
  BY <1>4, <1>6, <1>8

-----------------------------------------------------------------------------
(* Values. *)

\* The value of a message is its enum, its child's number and its elements' numbers.
LEMMA SameValue ==
  ASSUME NEW s, NEW t, NEW m \in Messages, NEW n \in Messages,
         t.msg[n].kind = s.msg[m].kind, ChildV(t, n) = ChildV(s, m),
         t.msg[n].list = s.msg[m].list, s.msg[m].list \in Seq(Objects),
         \A o \in Range(s.msg[m].list) : t.obj[o].v = s.obj[o].v
  PROVE  Value(t, n) = Value(s, m)
<1> DEFINE l == s.msg[m].list
<1>1. \A i \in DOMAIN l : l[i] \in Range(l)
  BY DEF Range
<1>2. \A i \in DOMAIN l : t.obj[l[i]].v = s.obj[l[i]].v
  BY <1>1
<1>3. [i \in DOMAIN l |-> t.obj[l[i]].v] = [i \in DOMAIN l |-> s.obj[l[i]].v]
  BY <1>2
<1> QED
  BY <1>3 DEF Value

\* What setting a list leaves alone.
LEMMA SetListKeeps ==
  ASSUME NEW s, Sound(s), NEW m \in Messages, Exists(s, m), NEW l \in Seq(Objects),
         \A o \in Range(l) :
           /\ s.obj[o].owner = "cpp"
           /\ \A n \in Messages : Exists(s, n) => s.msg[n].child # o
  PROVE  LET t == SetList(s, m, l) IN
         /\ t.msg[m].list = l
         /\ \A n \in Messages : Exists(t, n) <=> Exists(s, n)
         /\ \A n \in Messages \ {m} : t.msg[n] = s.msg[n]
         /\ \A n \in Messages : Exists(s, n) =>
              t.msg[n].kind = s.msg[n].kind /\ t.msg[n].child = s.msg[n].child /\ ChildV(t, n) = ChildV(s, n)
         /\ \A o \in Range(l) : t.obj[o] = s.obj[o]
         /\ s.told \subseteq t.told
         /\ s.msg[m].list # l => <<m, "list">> \in t.told
<1> DEFINE p == PutList(s, m, l)
           t == SetList(s, m, l)
<1>1. CASE s.msg[m].list = l
  <2>1. t = s
    BY <1>1 DEF SetList
  <2> QED
    BY <1>1, <2>1
<1>2. CASE s.msg[m].list # l
  <2>1. /\ Sound(p) /\ p.told = s.told /\ p.msg[m].list = l
        /\ \A n \in Messages \ {m} : p.msg[n] = s.msg[n]
        /\ p.msg[m].kind = s.msg[m].kind /\ p.msg[m].child = s.msg[m].child
        /\ \A n \in Messages : Exists(p, n) <=> Exists(s, n)
        /\ \A o \in Objects : (o \in Range(l) \/ ~InList(s, o)) => p.obj[o] = s.obj[o]
    BY PutListSound
  <2>2. t = Tell(p, m, "list")
    BY <1>2 DEF SetList
  <2>3. p \in Prog
    BY <2>1 DEF Sound
  <2> HIDE DEF p, t
  <2>4. t.msg = p.msg /\ t.obj = p.obj /\ t.told = p.told \union {<<m, "list">>}
    BY <2>2, <2>3, TellIs
  <2>5. \A n \in Messages : Exists(t, n) <=> Exists(s, n)
    BY <2>1, <2>4 DEF Exists
  <2>6. \A n \in Messages : Exists(s, n) =>
          t.msg[n].kind = s.msg[n].kind /\ t.msg[n].child = s.msg[n].child
    BY <2>1, <2>4
  <2>7. ASSUME NEW n \in Messages, Exists(s, n) PROVE ChildV(t, n) = ChildV(s, n)
    <3>1. s.msg[n].child \in Objects => ~InList(s, s.msg[n].child)
      BY <2>7 DEF Sound, Elements
    <3>2. s.msg[n].child \in Objects \union {Null}
      BY <2>7, Parts DEF Sound
    <3>3. s.msg[n].child # Null => t.obj[s.msg[n].child] = s.obj[s.msg[n].child]
      BY <2>1, <2>4, <3>1, <3>2
    <3> QED
      BY <2>6, <2>7, <3>3 DEF ChildV
  <2>8. \A o \in Range(l) : o \in Objects
    BY DEF Range
  <2>9. \A o \in Range(l) : t.obj[o] = s.obj[o]
    BY <2>1, <2>4, <2>8
  <2> QED
    BY <2>1, <2>4, <2>5, <2>6, <2>7, <2>9 DEF t
<1> QED
  BY <1>1, <1>2

-----------------------------------------------------------------------------
(* Lists that change hands. *)

LEMMA HoldListIs ==
  ASSUME NEW s \in Prog, NEW m \in Messages, Exists(s, m), NEW l \in Seq(Objects)
  PROVE  /\ HoldList(s, m, l) \in Prog
         /\ HoldList(s, m, l).obj = s.obj /\ HoldList(s, m, l).told = s.told
         /\ \A n \in Messages \ {m} : HoldList(s, m, l).msg[n] = s.msg[n]
         /\ \A n \in Messages : Exists(HoldList(s, m, l), n) <=> Exists(s, n)
         /\ HoldList(s, m, l).msg[m].list = l
         /\ HoldList(s, m, l).msg[m].kind = s.msg[m].kind
         /\ HoldList(s, m, l).msg[m].child = s.msg[m].child
         /\ HoldList(s, m, l).msg[m].destroyed = s.msg[m].destroyed
         /\ HoldList(s, m, l).msg[m].given = s.msg[m].given
<1> DEFINE x == [s.msg[m] EXCEPT !.list = l]
<1>1. s.msg[m] \in Message
  BY Parts
<1>2. /\ x \in Message /\ x.list = l /\ x.kind = s.msg[m].kind /\ x.child = s.msg[m].child
      /\ x.destroyed = s.msg[m].destroyed /\ x.given = s.msg[m].given
  BY <1>1 DEF Message
<1>3. HoldList(s, m, l) = [s EXCEPT !.msg[m] = x]
  BY DEF HoldList
<1> HIDE DEF x
<1>4. /\ HoldList(s, m, l) \in Prog
      /\ HoldList(s, m, l).obj = s.obj /\ HoldList(s, m, l).told = s.told
      /\ \A n \in Messages \ {m} : HoldList(s, m, l).msg[n] = s.msg[n]
      /\ HoldList(s, m, l).msg[m] = x
  BY <1>2, <1>3, PutMessage
<1>5. \A n \in Messages : Exists(HoldList(s, m, l), n) <=> Exists(s, n)
  BY <1>2, <1>4, Basics DEF Exists
<1> QED
  BY <1>2, <1>4, <1>5

\* m takes the list of other, which is left with elements that m had.
Swap(c, m, other, rest) == HoldList(HoldList(c, m, c.msg[other].list), other, rest)

\* What other is not left with is deleted, unless another list has it.
Left(c, m, other, rest) ==
  DeleteAll(Swap(c, m, other, rest),
            {o \in Range(c.msg[m].list) : ~InList(Swap(c, m, other, rest), o)})

MaySwap(c, m, other, rest) ==
  /\ Sound(c) /\ Exists(c, m) /\ Exists(c, other) /\ m # other
  /\ rest \in Seq(Objects) /\ Range(rest) \subseteq Range(c.msg[m].list)

LEMMA Swapped ==
  ASSUME NEW c, NEW m \in Messages, NEW other \in Messages, NEW rest,
         MaySwap(c, m, other, rest)
  PROVE  LET r == Swap(c, m, other, rest) IN
         /\ Sound(r) /\ r.obj = c.obj /\ r.told = c.told
         /\ \A n \in Messages : Exists(r, n) <=> Exists(c, n)
         /\ \A n \in Messages : Exists(c, n) =>
              /\ r.msg[n].kind = c.msg[n].kind /\ r.msg[n].child = c.msg[n].child
              /\ r.msg[n].destroyed = c.msg[n].destroyed
         /\ r.msg[m].list = c.msg[other].list /\ r.msg[other].list = rest
         /\ Lost(r) \subseteq Lost(c) \union {o \in Range(c.msg[m].list) : ~InList(r, o)}
<1> DEFINE l == c.msg[other].list
           q == HoldList(c, m, l)
           r == HoldList(q, other, rest)
<1> USE DEF MaySwap
<1>1. c \in Prog /\ l \in Seq(Objects)
  BY Parts DEF Sound
<1> HIDE DEF l
<1>2. /\ q \in Prog /\ q.obj = c.obj /\ q.told = c.told
      /\ \A n \in Messages \ {m} : q.msg[n] = c.msg[n]
      /\ \A n \in Messages : Exists(q, n) <=> Exists(c, n)
      /\ q.msg[m].list = l /\ q.msg[m].kind = c.msg[m].kind
      /\ q.msg[m].child = c.msg[m].child /\ q.msg[m].destroyed = c.msg[m].destroyed
      /\ q.msg[m].given = c.msg[m].given
  BY <1>1, HoldListIs
<1>3. q \in Prog /\ Exists(q, other)
  BY <1>2
<1> HIDE DEF q
<1>4. /\ r \in Prog /\ r.obj = q.obj /\ r.told = q.told
      /\ \A n \in Messages \ {other} : r.msg[n] = q.msg[n]
      /\ \A n \in Messages : Exists(r, n) <=> Exists(q, n)
      /\ r.msg[other].list = rest /\ r.msg[other].kind = q.msg[other].kind
      /\ r.msg[other].child = q.msg[other].child /\ r.msg[other].destroyed = q.msg[other].destroyed
      /\ r.msg[other].given = q.msg[other].given
  BY <1>3, HoldListIs
<1> HIDE DEF r
<1>5. \A n \in Messages : Exists(r, n) <=> Exists(c, n)
  BY <1>2, <1>4
<1>6. \A n \in Messages : Exists(c, n) =>
        /\ r.msg[n].child = c.msg[n].child /\ r.msg[n].destroyed = c.msg[n].destroyed
        /\ r.msg[n].given = c.msg[n].given
  BY <1>2, <1>4
<1>7. r.msg[m].list = l /\ r.msg[other].list = rest
  BY <1>2, <1>4
<1>8. \A n \in Messages \ {m, other} : r.msg[n] = c.msg[n]
  BY <1>2, <1>4
<1>9. ASSUME NEW o \in Objects, InList(r, o) PROVE InList(c, o)
  <2>1. PICK n \in Messages : Exists(r, n) /\ o \in Range(r.msg[n].list)
    BY <1>9 DEF InList
  <2>2. CASE n = m
    BY <1>7, <2>1, <2>2 DEF InList, l
  <2>3. CASE n = other
    <3>1. o \in Range(c.msg[m].list)
      BY <1>7, <2>1, <2>3
    <3> QED
      BY <3>1 DEF InList
  <2>4. CASE n \notin {m, other}
    <3>1. Exists(c, n) /\ o \in Range(c.msg[n].list)
      BY <1>5, <1>8, <2>1, <2>4
    <3> QED
      BY <3>1 DEF InList
  <2> QED
    BY <2>2, <2>3, <2>4
<1>10. \A o \in Objects : InList(r, o) =>
         /\ c.obj[o].owner = "cpp"
         /\ \A n \in Messages : Exists(c, n) => c.msg[n].child # o
  BY <1>9 DEF Sound, Elements
<1>11. r \in Prog /\ r.obj = c.obj /\ r.told = c.told
  BY <1>2, <1>4
<1>12. /\ Sound(r)
       /\ \A o \in Lost(r) : ~InList(r, o) /\ (o \in Lost(c) \/ InList(c, o))
  BY <1>5, <1>6, <1>10, <1>11, RelistSound
<1>13. ASSUME NEW o \in Objects, InList(c, o), ~InList(r, o) PROVE o \in Range(c.msg[m].list)
  <2>1. PICK n \in Messages : Exists(c, n) /\ o \in Range(c.msg[n].list)
    BY <1>13 DEF InList
  <2>2. CASE n = m
    BY <2>1, <2>2
  <2>3. CASE n = other
    <3>1. Exists(r, m) /\ o \in Range(r.msg[m].list)
      BY <1>5, <1>7, <2>1, <2>3 DEF l
    <3> QED
      BY <1>13, <3>1 DEF InList
  <2>4. CASE n \notin {m, other}
    <3>1. Exists(r, n) /\ o \in Range(r.msg[n].list)
      BY <1>5, <1>8, <2>1, <2>4
    <3> QED
      BY <1>13, <3>1 DEF InList
  <2> QED
    BY <2>2, <2>3, <2>4
<1>14. Lost(r) \subseteq Objects
  BY DEF Lost
<1>15. Lost(r) \subseteq Lost(c) \union {o \in Range(c.msg[m].list) : ~InList(r, o)}
  BY <1>12, <1>13, <1>14
<1>16. \A n \in Messages : Exists(c, n) => r.msg[n].kind = c.msg[n].kind
  BY <1>2, <1>4
<1> QED
  BY <1>5, <1>6, <1>7, <1>11, <1>12, <1>15, <1>16 DEF Swap, r, q, l

\* Nothing else changes from c to d.
SwapDone(c, d, m, other, rest) ==
  /\ Sound(d) /\ Lost(d) \subseteq Lost(c) /\ d.told = c.told
  /\ \A n \in Messages : Exists(d, n) <=> Exists(c, n)
  /\ \A n \in Messages : Exists(c, n) =>
       /\ d.msg[n].kind = c.msg[n].kind /\ d.msg[n].child = c.msg[n].child
       /\ ChildV(d, n) = ChildV(c, n)
  /\ d.msg[m].list = c.msg[other].list /\ d.msg[other].list = rest
  /\ \A o \in Range(c.msg[other].list) : d.obj[o] = c.obj[o]

LEMMA SwappedAway ==
  ASSUME NEW c, NEW m \in Messages, NEW other \in Messages, NEW rest,
         MaySwap(c, m, other, rest)
  PROVE  SwapDone(c, Left(c, m, other, rest), m, other, rest)
<1> USE DEF MaySwap
<1> DEFINE r == Swap(c, m, other, rest)
           os == {o \in Range(c.msg[m].list) : ~InList(r, o)}
           d == DeleteAll(r, os)
<1>1. /\ Sound(r) /\ r.obj = c.obj /\ r.told = c.told
      /\ \A n \in Messages : Exists(r, n) <=> Exists(c, n)
      /\ \A n \in Messages : Exists(c, n) =>
           /\ r.msg[n].kind = c.msg[n].kind /\ r.msg[n].child = c.msg[n].child
           /\ r.msg[n].destroyed = c.msg[n].destroyed
      /\ r.msg[m].list = c.msg[other].list /\ r.msg[other].list = rest
      /\ Lost(r) \subseteq Lost(c) \union os
  BY Swapped
<1> HIDE DEF r
<1>2. \A o \in Range(c.msg[m].list) :
        /\ o \in Objects /\ InList(c, o)
        /\ \A k \in Messages : Exists(c, k) => c.msg[k].child # o
  BY ListsAreLists
<1>3. os \in SUBSET Objects /\ \A o \in os : ~InList(r, o)
  BY <1>2
<1>4. \A o \in os, k \in Messages : Exists(c, k) => c.msg[k].child # o
  BY <1>2
<1>5. \A o \in Range(c.msg[other].list) : o \in Objects /\ o \notin os
  <2>1. \A o \in Range(c.msg[other].list) : o \in Objects
    BY ListsAreLists
  <2>2. \A o \in Range(c.msg[other].list) : InList(r, o)
    BY <1>1 DEF InList
  <2> QED
    BY <2>1, <2>2
<1> HIDE DEF os
<1>6. Sound(d) /\ Lost(d) \subseteq Lost(r) \ os
  BY <1>1, <1>3, DeleteAllSound
<1>7. r \in Prog
  BY <1>1 DEF Sound
<1>8. /\ d.told = r.told
      /\ \A o \in Objects \ os : d.obj[o] = r.obj[o]
      /\ \A n \in Messages : Exists(d, n) <=> Exists(r, n)
      /\ \A n \in Messages : Exists(r, n) =>
           (r.msg[n].destroyed \notin os => d.msg[n] = r.msg[n])
  BY <1>3, <1>7, DeleteAllIs
<1> HIDE DEF d
<1>9. ASSUME NEW n \in Messages, Exists(c, n) PROVE r.msg[n].destroyed \notin os
  <2>1. r.msg[n].destroyed # Null => r.msg[n].child = r.msg[n].destroyed
    BY <1>1, <1>9 DEF Sound, Heard
  <2>2. r.msg[n].child \notin os
    BY <1>1, <1>4, <1>9
  <2>3. Null \notin os
    BY <1>3, Basics
  <2> QED
    BY <2>1, <2>2, <2>3
<1>10. \A n \in Messages : Exists(c, n) => d.msg[n] = r.msg[n]
  BY <1>1, <1>8, <1>9
<1>11. ASSUME NEW n \in Messages, Exists(c, n) PROVE ChildV(d, n) = ChildV(c, n)
  <2>1. d.msg[n].child = c.msg[n].child /\ c.msg[n].child \notin os
    BY <1>1, <1>4, <1>10, <1>11
  <2>2. c.msg[n].child \in Objects \union {Null}
    BY <1>11, Parts DEF Sound
  <2>3. c.msg[n].child # Null => d.obj[c.msg[n].child] = c.obj[c.msg[n].child]
    BY <1>1, <1>8, <2>1, <2>2
  <2> QED
    BY <2>1, <2>3 DEF ChildV
<1>12. \A o \in Range(c.msg[other].list) : d.obj[o] = c.obj[o]
  BY <1>1, <1>5, <1>8
<1> QED
  BY <1>1, <1>6, <1>8, <1>10, <1>11, <1>12 DEF Left, SwapDone, d, os, r

-----------------------------------------------------------------------------
(* Assignments and constructors. *)

\* The enum of a message is replaced.
LEMMA KindIs ==
  ASSUME NEW s, Sound(s), NEW m \in Messages, Exists(s, m), NEW k \in Values
  PROVE  LET t == [s EXCEPT !.msg[m].kind = k] IN
         /\ Sound(t) /\ Lost(t) = Lost(s) /\ Fresh(t) = Fresh(s)
         /\ t.obj = s.obj /\ t.told = s.told /\ t.msg[m].kind = k
         /\ \A n \in Messages : Exists(t, n) <=> Exists(s, n)
         /\ \A n \in Messages \ {m} : t.msg[n] = s.msg[n]
         /\ \A n \in Messages : Exists(s, n) =>
              /\ t.msg[n].child = s.msg[n].child /\ t.msg[n].list = s.msg[n].list
              /\ ChildV(t, n) = ChildV(s, n)
<1> DEFINE x == [s.msg[m] EXCEPT !.kind = k]
           t == [s EXCEPT !.msg[m] = x]
<1>1. s \in Prog /\ s.msg[m] \in Message
  BY Parts DEF Sound
<1>2. /\ x \in Message /\ x.list = s.msg[m].list /\ x.kind = k /\ x.child = s.msg[m].child
      /\ x.destroyed = s.msg[m].destroyed /\ x.given = s.msg[m].given
  BY <1>1 DEF Message
<1>3. [s EXCEPT !.msg[m].kind = k] = t
  OBVIOUS
<1> HIDE DEF x
<1>4. /\ t \in Prog /\ t.obj = s.obj /\ t.told = s.told /\ t.msg[m] = x
      /\ \A n \in Messages \ {m} : t.msg[n] = s.msg[n]
  BY <1>1, <1>2, PutMessage
<1> HIDE DEF t
<1>5. \A n \in Messages : Exists(t, n) <=> Exists(s, n)
  BY <1>2, <1>4, Basics DEF Exists
<1>6. \A n \in Messages : Exists(s, n) =>
        /\ t.msg[n].child = s.msg[n].child /\ t.msg[n].destroyed = s.msg[n].destroyed
        /\ t.msg[n].given = s.msg[n].given /\ t.msg[n].list = s.msg[n].list
  BY <1>2, <1>4
<1>7. Alike(s, t)
  BY <1>4, <1>5, <1>6 DEF Alike
<1>8. Sound(t) /\ Lost(t) = Lost(s) /\ Fresh(t) = Fresh(s)
  BY <1>1, <1>4, <1>7, AlikeSound
<1>9. \A n \in Messages : Exists(s, n) => ChildV(t, n) = ChildV(s, n)
  BY <1>4, <1>6 DEF ChildV
<1> QED
  BY <1>2, <1>3, <1>4, <1>5, <1>6, <1>8, <1>9

LEMMA SetKindIs ==
  ASSUME NEW s, Sound(s), NEW m \in Messages, Exists(s, m), NEW k \in Values
  PROVE  LET t == SetKind(s, m, k) IN
         /\ Sound(t) /\ Lost(t) = Lost(s) /\ Fresh(t) = Fresh(s)
         /\ t.obj = s.obj /\ s.told \subseteq t.told /\ t.msg[m].kind = k
         /\ \A n \in Messages : Exists(t, n) <=> Exists(s, n)
         /\ \A n \in Messages \ {m} : t.msg[n] = s.msg[n]
         /\ \A n \in Messages : Exists(s, n) =>
              /\ t.msg[n].child = s.msg[n].child /\ t.msg[n].list = s.msg[n].list
              /\ ChildV(t, n) = ChildV(s, n)
         /\ s.msg[m].kind # k => <<m, "kind">> \in t.told
<1> DEFINE p == [s EXCEPT !.msg[m].kind = k]
           t == SetKind(s, m, k)
<1>1. CASE s.msg[m].kind = k
  <2>1. t = s
    BY <1>1 DEF SetKind
  <2> QED
    BY <1>1, <2>1
<1>2. CASE s.msg[m].kind # k
  <2>1. /\ Sound(p) /\ Lost(p) = Lost(s) /\ Fresh(p) = Fresh(s)
        /\ p.obj = s.obj /\ p.told = s.told /\ p.msg[m].kind = k
        /\ \A n \in Messages : Exists(p, n) <=> Exists(s, n)
        /\ \A n \in Messages \ {m} : p.msg[n] = s.msg[n]
        /\ \A n \in Messages : Exists(s, n) =>
             /\ p.msg[n].child = s.msg[n].child /\ p.msg[n].list = s.msg[n].list
             /\ ChildV(p, n) = ChildV(s, n)
    BY KindIs
  <2>2. t = Tell(p, m, "kind")
    BY <1>2 DEF SetKind
  <2> HIDE DEF p, t
  <2>3. p \in Prog
    BY <2>1 DEF Sound
  <2>4. t.msg = p.msg /\ t.obj = p.obj /\ t.told = p.told \union {<<m, "kind">>}
    BY <2>2, <2>3, TellIs
  <2>5. Sound(t) /\ Lost(t) = Lost(p)
    BY <2>1, <2>2, TellSound
  <2>6. /\ \A n \in Messages : Exists(t, n) <=> Exists(p, n)
        /\ \A n \in Messages : ChildV(t, n) = ChildV(p, n)
        /\ Fresh(t) = Fresh(p)
    BY <2>4 DEF Exists, ChildV, Fresh, Live, Held
  <2> QED
    BY <2>1, <2>4, <2>5, <2>6 DEF t
<1> QED
  BY <1>1, <1>2

\* All but the list of other is copied to m.
Copied(s, c, m, other) ==
  /\ Sound(s) /\ Sound(c) /\ Exists(s, other) /\ Exists(c, m) /\ Exists(c, other)
  /\ c.msg[m].kind = s.msg[other].kind /\ c.msg[other].kind = s.msg[other].kind
  /\ ChildV(c, m) = ChildV(s, other) /\ ChildV(c, other) = ChildV(s, other)
  /\ c.msg[other].list = s.msg[other].list
  /\ \A o \in Range(s.msg[other].list) : c.obj[o] = s.obj[o]

\* So is the list, which makes r of c.
AllCopied(s, c, r, m, other) ==
  /\ Sound(r) /\ Lost(r) \subseteq Lost(c)
  /\ Value(r, m) = Value(s, other) /\ Value(r, other) = Value(s, other)
  /\ c.told \subseteq r.told
  /\ c.msg[m].list # s.msg[other].list => <<m, "list">> \in r.told
  /\ r.msg[m].kind = s.msg[other].kind /\ r.msg[m].list = s.msg[other].list
  /\ ChildV(r, m) = ChildV(s, other)

\* The last step of a copy: m takes the list of other.
LEMMA TakesList ==
  ASSUME NEW s, NEW c, NEW m \in Messages, NEW other \in Messages, Copied(s, c, m, other)
  PROVE  AllCopied(s, c, SetList(c, m, s.msg[other].list), m, other)
<1> USE DEF Copied
<1> DEFINE l == s.msg[other].list
           r == SetList(c, m, l)
<1>1. /\ l \in Seq(Objects)
      /\ \A o \in Range(l) :
           /\ c.obj[o].owner = "cpp"
           /\ \A k \in Messages : Exists(c, k) => c.msg[k].child # o
  BY ListsAreLists
<1>2. Sound(r) /\ Lost(r) \subseteq Lost(c)
  BY <1>1, SetListSound
<1>3. /\ r.msg[m].list = l
      /\ \A n \in Messages \ {m} : r.msg[n] = c.msg[n]
      /\ \A n \in Messages : Exists(c, n) =>
           r.msg[n].kind = c.msg[n].kind /\ ChildV(r, n) = ChildV(c, n)
      /\ \A o \in Range(l) : r.obj[o] = c.obj[o]
      /\ c.told \subseteq r.told
      /\ c.msg[m].list # l => <<m, "list">> \in r.told
  BY <1>1, SetListKeeps
<1> HIDE DEF r
<1>4. r.msg[other].list = l
  BY <1>3
<1>5. \A o \in Range(l) : r.obj[o].v = s.obj[o].v
  BY <1>3
<1>6. Value(r, m) = Value(s, other)
  BY <1>1, <1>3, <1>5, SameValue
<1>7. Value(r, other) = Value(s, other)
  BY <1>1, <1>3, <1>4, <1>5, SameValue
<1> QED
  BY <1>2, <1>3, <1>6, <1>7 DEF AllCopied, r

LEMMA CopyAssignedSound ==
  ASSUME NEW s, Sound(s), NEW m \in Messages, Exists(s, m), NEW other \in Messages, Exists(s, other),
         Ample(s, m, other)
  PROVE  LET r == CopyAssigned(s, m, other) IN
         /\ Sound(r) /\ Lost(r) \subseteq Lost(s)
         /\ Value(r, m) = Value(s, other) /\ Value(r, other) = Value(s, other)
         /\ ChildV(r, m) # ChildV(s, m) => <<m, "child">> \in r.told
         /\ r.msg[m].list # s.msg[m].list => <<m, "list">> \in r.told
         /\ r.msg[m].kind # s.msg[m].kind => <<m, "kind">> \in r.told
<1> DEFINE k == s.msg[other].kind
           a == SetKind(s, m, k)
           c == CopyChild(a, m, other, TRUE)
           r == SetList(c, m, s.msg[other].list)
<1>1. k \in Values
  BY Parts DEF Sound
<1>2. /\ Sound(a) /\ Lost(a) = Lost(s) /\ Fresh(a) = Fresh(s) /\ a.obj = s.obj
      /\ a.msg[m].kind = k
      /\ \A n \in Messages : Exists(a, n) <=> Exists(s, n)
      /\ \A n \in Messages \ {m} : a.msg[n] = s.msg[n]
      /\ \A n \in Messages : Exists(s, n) =>
           /\ a.msg[n].child = s.msg[n].child /\ a.msg[n].list = s.msg[n].list
           /\ ChildV(a, n) = ChildV(s, n)
      /\ s.msg[m].kind # k => <<m, "kind">> \in a.told
  BY <1>1, SetKindIs
<1> HIDE DEF a
<1>3. a \in Prog /\ Exists(a, m) /\ Exists(a, other)
  BY <1>2 DEF Sound
<1>4. Ample(a, m, other)
  BY <1>2 DEF Ample
<1>5. RoomFor(a, m, other)
  BY <1>3, <1>4, AmpleRoom
<1>6. /\ Sound(c) /\ Lost(c) \subseteq Lost(a) /\ Kept(a, c)
      /\ ChildV(c, m) = ChildV(a, other) /\ ChildV(c, other) = ChildV(a, other)
      /\ ChildV(a, m) # ChildV(a, other) => <<m, "child">> \in c.told
  BY <1>2, <1>3, <1>5, CopyChildSound
<1> HIDE DEF c
<1>7. a.msg[other].kind = k
  BY <1>2
<1>8. /\ Exists(c, m) /\ Exists(c, other)
      /\ c.msg[m].kind = k /\ c.msg[other].kind = k
      /\ c.msg[other].list = s.msg[other].list /\ c.msg[m].list = s.msg[m].list
      /\ a.told \subseteq c.told
  BY <1>2, <1>3, <1>6, <1>7 DEF Kept
<1>9. \A o \in Range(s.msg[other].list) : c.obj[o] = s.obj[o]
  <2>1. \A o \in Range(a.msg[other].list) : o \in Objects /\ InList(a, o)
    BY <1>2, <1>3, ListsAreLists
  <2>2. \A o \in Range(a.msg[other].list) : c.obj[o] = a.obj[o]
    BY <1>6, <2>1 DEF Kept
  <2> QED
    BY <1>2, <2>2
<1>10. ChildV(c, m) = ChildV(s, other) /\ ChildV(c, other) = ChildV(s, other)
  BY <1>2, <1>6
<1> HIDE DEF k
<1>11. /\ Sound(r) /\ Lost(r) \subseteq Lost(c)
       /\ Value(r, m) = Value(s, other) /\ Value(r, other) = Value(s, other)
       /\ c.told \subseteq r.told
       /\ c.msg[m].list # s.msg[other].list => <<m, "list">> \in r.told
       /\ r.msg[m].kind = k /\ r.msg[m].list = s.msg[other].list
       /\ ChildV(r, m) = ChildV(s, other)
  <2>1. Copied(s, c, m, other)
    BY <1>6, <1>8, <1>9, <1>10 DEF Copied, k
  <2> QED
    <3>1. AllCopied(s, c, r, m, other)
      BY <2>1, TakesList
    <3> HIDE DEF r
    <3> QED
      BY <3>1 DEF AllCopied, k
<1> HIDE DEF r
<1>12. CopyAssigned(s, m, other) = r
  BY DEF CopyAssigned, r, c, a, k
<1>13. ChildV(r, m) # ChildV(s, m) => <<m, "child">> \in r.told
  BY <1>2, <1>6, <1>11
<1>14. r.msg[m].list # s.msg[m].list => <<m, "list">> \in r.told
  BY <1>8, <1>11
<1>15. r.msg[m].kind # s.msg[m].kind => <<m, "kind">> \in r.told
  BY <1>2, <1>8, <1>11
<1>16. Lost(r) \subseteq Lost(s)
  BY <1>2, <1>6, <1>11
<1> QED
  BY <1>11, <1>12, <1>13, <1>14, <1>15, <1>16

\* A message is about to be constructed from other, whose child it will take.
LEMMA NewFrom ==
  ASSUME NEW s, Sound(s), NEW m \in Messages, ~Exists(s, m), NEW other \in Messages, Exists(s, other),
         Fresh(s) # {},
         s.msg[other].child = Null => \A x \in Fresh(s) : Fresh(s) \ {x} # {}
  PROVE  LET e == [s EXCEPT !.msg[m] = [NewMessage EXCEPT !.kind = s.msg[other].kind]] IN
         /\ Sound(e) /\ Lost(e) = Lost(s) /\ m # other
         /\ Exists(e, m) /\ Exists(e, other) /\ RoomFor(e, m, other)
         /\ e.obj = s.obj /\ e.msg[other] = s.msg[other] /\ e.told = s.told
         /\ ChildV(e, other) = ChildV(s, other)
         /\ e.msg[m].kind = s.msg[other].kind /\ e.msg[m].list = <<>>
<1> DEFINE k == s.msg[other].kind
           e == [s EXCEPT !.msg[m] = [NewMessage EXCEPT !.kind = k]]
<1>1. k \in Values
  BY Parts DEF Sound
<1>2. m # other
  OBVIOUS
<1> HIDE DEF k
<1>3. /\ Sound(e) /\ Lost(e) = Lost(s) /\ Fresh(e) = Fresh(s)
      /\ e.obj = s.obj /\ e.told = s.told
      /\ \A n \in Messages \ {m} : e.msg[n] = s.msg[n]
      /\ Exists(e, m) /\ \A n \in Messages \ {m} : Exists(e, n) <=> Exists(s, n)
      /\ e.msg[m] = [kind |-> k, child |-> Null, destroyed |-> Null, given |-> FALSE, list |-> <<>>]
  BY <1>1, NewSound
<1> HIDE DEF e
<1>4. e.msg[m].kind = k /\ e.msg[m].child = Null /\ e.msg[m].list = <<>>
  BY <1>3
<1>5. Exists(e, other) /\ e.msg[other] = s.msg[other]
  BY <1>2, <1>3
<1>6. Ample(e, m, other)
  BY <1>3, <1>4, <1>5 DEF Ample
<1>7. e \in Prog
  BY <1>3 DEF Sound
<1>8. RoomFor(e, m, other)
  BY <1>3, <1>5, <1>6, <1>7, AmpleRoom
<1>9. ChildV(e, other) = ChildV(s, other)
  BY <1>3, <1>5 DEF ChildV
<1> QED
  BY <1>2, <1>3, <1>4, <1>5, <1>8, <1>9 DEF e, k

LEMMA CopyConstructedSound ==
  ASSUME NEW s, Sound(s), NEW m \in Messages, ~Exists(s, m), NEW other \in Messages, Exists(s, other),
         Fresh(s) # {},
         s.msg[other].child = Null => \A x \in Fresh(s) : Fresh(s) \ {x} # {}
  PROVE  LET r == CopyConstructed(s, m, other) IN
         /\ Sound(r) /\ Lost(r) \subseteq Lost(s)
         /\ Value(r, m) = Value(s, other) /\ Value(r, other) = Value(s, other)
<1> DEFINE k == s.msg[other].kind
           e == [s EXCEPT !.msg[m] = [NewMessage EXCEPT !.kind = k]]
           c == CopyChild(e, m, other, FALSE)
           r == SetList(c, m, s.msg[other].list)
<1>1. /\ Sound(e) /\ Lost(e) = Lost(s)
      /\ Exists(e, m) /\ Exists(e, other) /\ RoomFor(e, m, other)
      /\ e.obj = s.obj /\ e.msg[other] = s.msg[other]
      /\ ChildV(e, other) = ChildV(s, other) /\ e.msg[m].kind = k
  BY NewFrom
<1> HIDE DEF e, k
<1>2. FALSE \in BOOLEAN
  OBVIOUS
<1>3. /\ Sound(c) /\ Lost(c) \subseteq Lost(e) /\ Kept(e, c)
      /\ ChildV(c, m) = ChildV(e, other) /\ ChildV(c, other) = ChildV(e, other)
  BY <1>1, <1>2, CopyChildSound
<1> HIDE DEF c
<1>4. /\ Exists(c, m) /\ Exists(c, other)
      /\ c.msg[m].kind = k /\ c.msg[other].kind = s.msg[other].kind
      /\ c.msg[other].list = s.msg[other].list
  BY <1>1, <1>3 DEF Kept
<1>5. \A o \in Range(s.msg[other].list) : c.obj[o] = s.obj[o]
  <2>1. \A o \in Range(e.msg[other].list) : o \in Objects /\ InList(e, o)
    BY <1>1, ListsAreLists
  <2>2. \A o \in Range(e.msg[other].list) : c.obj[o] = e.obj[o]
    BY <1>3, <2>1 DEF Kept
  <2> QED
    BY <1>1, <2>2
<1>6. ChildV(c, m) = ChildV(s, other) /\ ChildV(c, other) = ChildV(s, other)
  BY <1>1, <1>3
<1>7. c.msg[m].kind = s.msg[other].kind
  BY <1>4 DEF k
<1>8. /\ Sound(r) /\ Lost(r) \subseteq Lost(c)
      /\ Value(r, m) = Value(s, other) /\ Value(r, other) = Value(s, other)
  <2>1. Copied(s, c, m, other)
    BY <1>3, <1>4, <1>5, <1>6, <1>7 DEF Copied
  <2> QED
    <3>1. AllCopied(s, c, r, m, other)
      BY <2>1, TakesList
    <3> HIDE DEF r
    <3> QED
      BY <3>1 DEF AllCopied
<1> HIDE DEF r
<1>9. CopyConstructed(s, m, other) = r
  BY DEF CopyConstructed, r, c, e, k
<1>10. Lost(r) \subseteq Lost(s)
  BY <1>1, <1>3, <1>8
<1> QED
  BY <1>8, <1>9, <1>10

LEMMA MoveConstructedSound ==
  ASSUME NEW s, Sound(s), NEW m \in Messages, ~Exists(s, m), NEW other \in Messages, Exists(s, other),
         Fresh(s) # {},
         s.msg[other].child = Null => \A x \in Fresh(s) : Fresh(s) \ {x} # {}
  PROVE  LET r == MoveConstructed(s, m, other) IN
         /\ Sound(r) /\ Lost(r) \subseteq Lost(s)
         /\ Value(r, m) = Value(s, other)
         /\ ChildV(r, other) # ChildV(s, other) => <<r.msg[other].child, "v">> \in r.told
         /\ <<other, "list">> \in r.told
         /\ r.msg[other].kind = s.msg[other].kind
<1> DEFINE k == s.msg[other].kind
           l == s.msg[other].list
           e == [s EXCEPT !.msg[m] = [NewMessage EXCEPT !.kind = k]]
           c == MoveChild(e, m, other, FALSE)
           h == HoldList(HoldList(c, m, l), other, <<>>)
           r == Tell(h, other, "list")
<1>1. /\ Sound(e) /\ Lost(e) = Lost(s) /\ m # other
      /\ Exists(e, m) /\ Exists(e, other) /\ RoomFor(e, m, other)
      /\ e.obj = s.obj /\ e.msg[other] = s.msg[other]
      /\ ChildV(e, other) = ChildV(s, other) /\ e.msg[m].kind = k /\ e.msg[m].list = <<>>
  BY NewFrom
<1> HIDE DEF e, k
<1>2. FALSE \in BOOLEAN
  OBVIOUS
<1>3. /\ Sound(c) /\ Lost(c) \subseteq Lost(e) /\ Kept(e, c)
      /\ ChildV(c, m) = ChildV(e, other)
      /\ ChildV(e, m) # ChildV(e, other) => <<c.msg[other].child, "v">> \in c.told
      /\ ChildV(e, m) = ChildV(e, other) => ChildV(c, other) = ChildV(e, other)
  BY <1>1, <1>2, MoveChildSound
<1> HIDE DEF c
<1>4. /\ Exists(c, m) /\ Exists(c, other)
      /\ c.msg[m].kind = k /\ c.msg[other].kind = s.msg[other].kind
      /\ c.msg[other].list = l /\ c.msg[m].list = <<>>
  BY <1>1, <1>3 DEF Kept
<1>5. \A o \in Range(l) : c.obj[o] = s.obj[o]
  <2>1. \A o \in Range(e.msg[other].list) : o \in Objects /\ InList(e, o)
    BY <1>1, ListsAreLists
  <2>2. \A o \in Range(e.msg[other].list) : c.obj[o] = e.obj[o]
    BY <1>3, <2>1 DEF Kept
  <2> QED
    BY <1>1, <2>2
<1>6. <<>> \in Seq(Objects) /\ Range(<<>>) = {}
  BY DEF Range
<1>7. l \in Seq(Objects)
  BY Parts DEF Sound
<1> HIDE DEF l
<1>8. /\ Sound(h) /\ h.obj = c.obj /\ h.told = c.told
      /\ \A n \in Messages : Exists(c, n) =>
           h.msg[n].kind = c.msg[n].kind /\ h.msg[n].child = c.msg[n].child
      /\ h.msg[m].list = l
      /\ Lost(h) \subseteq Lost(c) \union {o \in Range(c.msg[m].list) : ~InList(h, o)}
  <2>1. h = Swap(c, m, other, <<>>)
    BY <1>4 DEF Swap
  <2>2. MaySwap(c, m, other, <<>>)
    BY <1>1, <1>3, <1>4, <1>6 DEF MaySwap
  <2> HIDE DEF h
  <2> QED
    BY <1>4, <2>1, <2>2, Swapped
<1> HIDE DEF h
<1>9. Lost(h) \subseteq Lost(s)
  BY <1>1, <1>3, <1>4, <1>6, <1>8
<1>10. h \in Prog
  BY <1>8 DEF Sound
<1>11. r.msg = h.msg /\ r.obj = h.obj /\ r.told = h.told \union {<<other, "list">>}
  BY <1>10, TellIs
<1>12. Sound(r) /\ Lost(r) = Lost(h)
  BY <1>8, TellSound
<1> HIDE DEF r
<1>13. ChildV(r, m) = ChildV(c, m) /\ ChildV(r, other) = ChildV(c, other)
  BY <1>4, <1>8, <1>11 DEF ChildV
<1>14. Value(r, m) = Value(s, other)
  <2>1. \A o \in Range(l) : r.obj[o].v = s.obj[o].v
    BY <1>5, <1>8, <1>11
  <2>2. r.msg[m].kind = s.msg[other].kind
    BY <1>4, <1>8, <1>11 DEF k
  <2>3. r.msg[m].list = s.msg[other].list
    BY <1>8, <1>11 DEF l
  <2>4. ChildV(r, m) = ChildV(s, other)
    BY <1>1, <1>3, <1>13
  <2> QED
    BY <1>7, <2>1, <2>2, <2>3, <2>4, SameValue DEF l
<1>15. ChildV(r, other) # ChildV(s, other) => <<r.msg[other].child, "v">> \in r.told
  BY <1>1, <1>3, <1>4, <1>8, <1>11, <1>13
<1>16. <<other, "list">> \in r.told /\ r.msg[other].kind = s.msg[other].kind
  BY <1>4, <1>8, <1>11
<1>17. MoveConstructed(s, m, other) = r
  BY DEF MoveConstructed, r, h, c, e, k, l
<1> QED
  BY <1>9, <1>12, <1>14, <1>15, <1>16, <1>17

\* other is moved to m, and all that has changed is told.
MoveDone(s, r, m, other) ==
  /\ Sound(r) /\ Lost(r) \subseteq Lost(s)
  /\ Value(r, m) = Value(s, other)
  /\ ChildV(r, m) # ChildV(s, m) => <<m, "child">> \in r.told
  /\ ChildV(r, other) # ChildV(s, other) => <<other, "child">> \in r.told
  /\ r.msg[m].list # s.msg[m].list => <<m, "list">> \in r.told
  /\ r.msg[other].list # s.msg[other].list => <<other, "list">> \in r.told

\* A list that is moved leaves the source empty or with what the target had.
LEMMA MoveAssignedSound ==
  ASSUME NEW s, Sound(s), NEW m \in Messages, Exists(s, m), NEW other \in Messages, Exists(s, other),
         Ample(s, m, other), NEW r \in MoveAssigned(s, m, other)
  PROVE  MoveDone(s, r, m, other)
<1> DEFINE k == s.msg[other].kind
           l == s.msg[other].list
           a == [s EXCEPT !.msg[m].kind = k]
           c == MoveChild(a, m, other, TRUE)
           h(rest) == HoldList(HoldList(c, m, l), other, rest)
           d(rest) == DeleteAll(h(rest), {o \in Range(s.msg[m].list) : ~InList(h(rest), o)})
           t(rest) == Tell(Tell(d(rest), m, "list"), other, "list")
<1>1. k \in Values /\ l \in Seq(Objects) /\ s.msg[m].list \in Seq(Objects)
  BY Parts DEF Sound
<1> HIDE DEF k
<1>2. /\ Sound(a) /\ Lost(a) = Lost(s) /\ Fresh(a) = Fresh(s) /\ a.obj = s.obj
      /\ a.msg[m].kind = k
      /\ \A n \in Messages : Exists(a, n) <=> Exists(s, n)
      /\ \A n \in Messages \ {m} : a.msg[n] = s.msg[n]
      /\ \A n \in Messages : Exists(s, n) =>
           /\ a.msg[n].child = s.msg[n].child /\ a.msg[n].list = s.msg[n].list
           /\ ChildV(a, n) = ChildV(s, n)
  BY <1>1, KindIs
<1>3. r \in IF s.msg[m].list = l THEN {c} ELSE {t(<<>>), t(s.msg[m].list)}
  BY DEF MoveAssigned, k
<1> HIDE DEF a
<1>4. a \in Prog /\ Exists(a, m) /\ Exists(a, other)
  BY <1>2 DEF Sound
<1> USE DEF k
<1>5. Ample(a, m, other)
  BY <1>2 DEF Ample
<1>6. RoomFor(a, m, other)
  BY <1>4, <1>5, AmpleRoom
<1>7. TRUE \in BOOLEAN
  OBVIOUS
<1>8. /\ Sound(c) /\ Lost(c) \subseteq Lost(a) /\ Kept(a, c)
      /\ ChildV(c, m) = ChildV(a, other)
      /\ ChildV(a, m) # ChildV(a, other) =>
           <<m, "child">> \in c.told /\ <<other, "child">> \in c.told
      /\ ChildV(a, m) = ChildV(a, other) => ChildV(c, other) = ChildV(a, other)
  BY <1>2, <1>4, <1>6, <1>7, MoveChildSound
<1> HIDE DEF c
<1>9. /\ Exists(c, m) /\ Exists(c, other) /\ c.msg[m].kind = k
      /\ c.msg[other].list = l /\ c.msg[m].list = s.msg[m].list
  BY <1>2, <1>4, <1>8 DEF Kept
<1>10. \A o \in Range(l) : c.obj[o] = s.obj[o]
  <2>1. \A o \in Range(a.msg[other].list) : o \in Objects /\ InList(a, o)
    BY <1>2, <1>4, ListsAreLists
  <2>2. \A o \in Range(a.msg[other].list) : c.obj[o] = a.obj[o]
    BY <1>8, <2>1 DEF Kept
  <2> QED
    BY <1>2, <2>2
<1>11. /\ Lost(c) \subseteq Lost(s) /\ ChildV(c, m) = ChildV(s, other)
       /\ ChildV(c, m) # ChildV(s, m) => <<m, "child">> \in c.told
       /\ ChildV(c, other) # ChildV(s, other) => <<other, "child">> \in c.told
  BY <1>2, <1>8
<1> HIDE DEF k, l
<1>12. CASE s.msg[m].list = l
  <2>1. r = c
    BY <1>3, <1>12
  <2>2. \A o \in Range(s.msg[other].list) : c.obj[o].v = s.obj[o].v
    BY <1>10 DEF l
  <2>3. c.msg[m].kind = s.msg[other].kind /\ c.msg[m].list = s.msg[other].list
    BY <1>9, <1>12 DEF k, l
  <2>4. Value(c, m) = Value(s, other)
    BY <1>1, <1>11, <2>2, <2>3, SameValue DEF l
  <2> QED
    BY <1>8, <1>9, <1>11, <2>1, <2>4 DEF l, MoveDone
<1>13. ASSUME s.msg[m].list # l, NEW rest \in Seq(Objects), Range(rest) \subseteq Range(s.msg[m].list),
              r = t(rest)
       PROVE  /\ Sound(r) /\ Lost(r) \subseteq Lost(s)
              /\ Value(r, m) = Value(s, other)
              /\ ChildV(r, m) # ChildV(s, m) => <<m, "child">> \in r.told
              /\ ChildV(r, other) # ChildV(s, other) => <<other, "child">> \in r.told
              /\ <<m, "list">> \in r.told /\ <<other, "list">> \in r.told
  <2> DEFINE g == d(rest)
             b == Tell(g, m, "list")
  <2>1. m # other
    BY <1>13 DEF l
  <2>2. /\ Sound(g) /\ Lost(g) \subseteq Lost(c) /\ g.told = c.told
        /\ \A n \in Messages : Exists(c, n) =>
             g.msg[n].kind = c.msg[n].kind /\ ChildV(g, n) = ChildV(c, n)
        /\ g.msg[m].list = l
        /\ \A o \in Range(l) : g.obj[o] = c.obj[o]
    <3>1. MaySwap(c, m, other, rest)
      BY <1>8, <1>9, <1>13, <2>1 DEF MaySwap
    <3>2. h(rest) = Swap(c, m, other, rest)
      BY <1>9 DEF Swap
    <3>3. g = Left(c, m, other, rest)
      BY <1>9, <3>2 DEF Left
    <3> HIDE DEF g
    <3>4. SwapDone(c, g, m, other, rest)
      BY <3>1, <3>3, SwappedAway
    <3> QED
      BY <1>9, <3>4 DEF SwapDone
  <2>3. r = Tell(b, other, "list")
    BY <1>13
  <2> HIDE DEF g
  <2>4. g \in Prog
    BY <2>2 DEF Sound
  <2>5. b \in Prog /\ b.msg = g.msg /\ b.obj = g.obj /\ b.told = g.told \union {<<m, "list">>}
    BY <2>4, TellIs
  <2>6. Sound(b) /\ Lost(b) = Lost(g)
    BY <2>2, TellSound
  <2> HIDE DEF b, t
  <2>7. r.msg = b.msg /\ r.obj = b.obj /\ r.told = b.told \union {<<other, "list">>}
    BY <2>3, <2>5, TellIs
  <2>8. Sound(r) /\ Lost(r) = Lost(b)
    BY <2>3, <2>6, TellSound
  <2>9. \A n \in Messages : ChildV(r, n) = ChildV(g, n)
    BY <2>5, <2>7 DEF ChildV
  <2>10. ChildV(r, m) = ChildV(c, m) /\ ChildV(r, other) = ChildV(c, other)
    BY <1>9, <2>2, <2>9
  <2>11. r.msg[m].kind = s.msg[other].kind /\ r.msg[m].list = s.msg[other].list
    BY <1>9, <2>2, <2>5, <2>7 DEF k, l
  <2>12. \A o \in Range(s.msg[other].list) : r.obj[o].v = s.obj[o].v
    BY <1>10, <2>2, <2>5, <2>7 DEF l
  <2>13. ChildV(r, m) = ChildV(s, other) /\ s.msg[other].list \in Seq(Objects)
    BY <1>1, <1>11, <2>10 DEF l
  <2>14. Value(r, m) = Value(s, other)
    BY <2>11, <2>12, <2>13, SameValue
  <2> QED
    BY <1>11, <2>2, <2>5, <2>6, <2>7, <2>8, <2>10, <2>14
<1>14. CASE s.msg[m].list # l
  <2>1. <<>> \in Seq(Objects) /\ Range(<<>>) = {}
    BY DEF Range
  <2>2. r = t(<<>>) \/ r = t(s.msg[m].list)
    BY <1>3, <1>14
  <2> HIDE DEF t
  <2> QED
    BY <1>1, <1>13, <1>14, <2>1, <2>2 DEF MoveDone
<1> QED
  BY <1>12, <1>14

-----------------------------------------------------------------------------
(* Setters. *)

LEMMA SetChildSound ==
  ASSUME NEW s, Sound(s), NEW m \in Messages, Exists(s, m),
         s.msg[m].child = Null => Fresh(s) # {}, NEW x \in Values
  PROVE  LET r == SetChild(s, m, x) IN
         /\ Sound(r) /\ Lost(r) \subseteq Lost(s)
         /\ r.msg[m].kind = s.msg[m].kind /\ r.msg[m].list = s.msg[m].list
         /\ ChildV(r, m) # ChildV(s, m) => <<m, "child">> \in r.told
<1> DEFINE d == Deref(s, m)
           o == d.msg[m].child
           c == SetV(d, o, x)
           r == SetChild(s, m, x)
<1>1. s \in Prog
  BY DEF Sound
<1>2. Sound(d) /\ Lost(d) \subseteq Lost(s)
  BY DerefSound
<1>3. o \in Objects /\ d.msg[m].kind = s.msg[m].kind /\ d.msg[m].list = s.msg[m].list
  BY <1>1, DerefFresh
<1>4. ChildV(d, m) = ChildV(s, m)
  BY DerefKept
<1>5. CASE ChildV(d, m) = x
  <2>1. r = d
    BY <1>5 DEF SetChild
  <2> QED
    BY <1>2, <1>3, <1>4, <2>1
<1>6. CASE ChildV(d, m) # x
  <2>1. r = Tell(c, m, "child")
    BY <1>6 DEF SetChild
  <2> HIDE DEF o, d
  <2>2. d \in Prog
    BY <1>2 DEF Sound
  <2>3. /\ c \in Prog /\ c.msg = d.msg
        /\ \A p \in Objects : c.obj[p].owner = d.obj[p].owner
    BY <1>3, <2>2, SetVIs
  <2> HIDE DEF c
  <2>4. Sound(c) /\ Lost(c) = Lost(d)
    BY <1>2, <2>3, NumberSound
  <2> HIDE DEF r
  <2>5. r.msg = c.msg /\ r.told = c.told \union {<<m, "child">>}
    BY <2>1, <2>3, TellIs
  <2>6. Sound(r) /\ Lost(r) = Lost(c)
    BY <2>1, <2>4, TellSound
  <2> QED
    BY <1>2, <1>3, <2>3, <2>4, <2>5, <2>6 DEF r
<1> QED
  BY <1>5, <1>6

\* A pointer is set: the child that was there is deleted or let go.
LEMMA SetChildPSound ==
  ASSUME NEW s, Sound(s), NEW m \in Messages, Exists(s, m),
         s.msg[m].child = Null => Fresh(s) # {}, NEW p \in Objects \union {Null},
         p # Null => Live(s, p) /\ ~InList(s, p)
  PROVE  LET r == SetChildP(s, m, p) IN
         /\ Sound(r) /\ (qml => Lost(r) \subseteq Lost(s))
         /\ r.msg[m].kind = s.msg[m].kind /\ r.msg[m].list = s.msg[m].list
         /\ ChildV(r, m) # ChildV(s, m) => <<m, "child">> \in r.told
<1> DEFINE d == Deref(s, m)
           c == Reset(d, m, p)
           r == SetChildP(s, m, p)
<1>1. s \in Prog
  BY DEF Sound
<1>2. Sound(d) /\ Lost(d) \subseteq Lost(s)
  BY DerefSound
<1>3. /\ d.msg[m].kind = s.msg[m].kind /\ d.msg[m].list = s.msg[m].list
      /\ Exists(d, m) /\ \A o \in Objects : InList(d, o) <=> InList(s, o)
  BY <1>1, DerefFresh
<1>4. ChildV(d, m) = ChildV(s, m)
  BY DerefKept
<1>5. p # Null => Live(d, p) /\ ~InList(d, p)
  <2>1. SUFFICES ASSUME p # Null PROVE Live(d, p) /\ ~InList(d, p)
    OBVIOUS
  <2>2. d.obj[p] = s.obj[p]
    <3>1. CASE s.msg[m].child # Null
      BY <1>1, <3>1, DerefIs
    <3>2. CASE s.msg[m].child = Null
      <4>1. p # NextFresh(s)
        BY <2>1, <3>2, NextFreshIs
      <4>2. \A q \in Objects \ {NextFresh(s)} : d.obj[q] = s.obj[q]
        BY <1>1, <3>2, DerefIs
      <4> QED
        BY <2>1, <4>1, <4>2
    <3> QED
      BY <3>1, <3>2
  <2> QED
    BY <1>3, <2>1, <2>2 DEF Live
<1>6. CASE d.msg[m].child = p
  <2>1. r = d
    BY <1>6 DEF SetChildP
  <2> QED
    BY <1>2, <1>3, <1>4, <2>1
<1>7. CASE d.msg[m].child # p
  <2>1. r = Tell(c, m, "child")
    BY <1>7 DEF SetChildP
  <2> HIDE DEF d
  <2>2. /\ Sound(c) /\ (qml => Lost(c) \subseteq Lost(d))
        /\ c.msg[m].list = d.msg[m].list /\ c.msg[m].kind = d.msg[m].kind
    BY <1>2, <1>3, <1>5, <1>7, ResetSound
  <2> HIDE DEF c
  <2>3. c \in Prog
    BY <2>2 DEF Sound
  <2> HIDE DEF r
  <2>4. r.msg = c.msg /\ r.told = c.told \union {<<m, "child">>}
    BY <2>1, <2>3, TellIs
  <2>5. Sound(r) /\ Lost(r) = Lost(c)
    BY <2>1, <2>2, TellSound
  <2> QED
    BY <1>2, <1>3, <2>2, <2>4, <2>5 DEF r
<1> QED
  BY <1>6, <1>7

\* A list of one new element is set.
LEMMA SetListNewSound ==
  ASSUME NEW s, Sound(s), NEW m \in Messages, Exists(s, m), Fresh(s) # {}, NEW x \in Values
  PROVE  LET o == NextFresh(s)
             r == SetList(Make(s, o, "cpp", x), m, <<o>>)
         IN  Sound(r) /\ Lost(r) \subseteq Lost(s)
<1> DEFINE o == NextFresh(s)
           t == Make(s, o, "cpp", x)
           l == <<o>>
<1>1. o \in Objects /\ ~Live(s, o) /\ ~Held(s, o)
  BY NextFreshIs
<1> HIDE DEF o
<1>2. /\ Sound(t) /\ t.msg = s.msg /\ t.obj[o] = [owner |-> "cpp", v |-> x]
      /\ Lost(t) \subseteq Lost(s) \union {o}
  BY <1>1, MakeSound
<1> HIDE DEF t
<1>3. l \in Seq(Objects) /\ Range(l) = {o}
  BY <1>1 DEF Range
<1>4. \A n \in Messages : Exists(t, n) <=> Exists(s, n)
  BY <1>2 DEF Exists
<1>5. \A n \in Messages : Exists(t, n) => t.msg[n].child # o /\ o \notin Range(t.msg[n].list)
  BY <1>1, <1>2, <1>4 DEF Held
<1> HIDE DEF l
<1>6. t.msg[m].list # l
  BY <1>3, <1>4, <1>5
<1>7. \A q \in Range(l) :
        /\ t.obj[q].owner = "cpp"
        /\ \A n \in Messages : Exists(t, n) => t.msg[n].child # q
  BY <1>2, <1>3, <1>5
<1>8. Sound(SetList(t, m, l)) /\ Lost(SetList(t, m, l)) \subseteq Lost(t) \ Range(l)
  BY <1>2, <1>3, <1>4, <1>6, <1>7, SetListSound
<1>9. Lost(SetList(t, m, l)) \subseteq Lost(s)
  BY <1>2, <1>3, <1>8
<1> QED
  BY <1>8, <1>9 DEF t, o, l

\* An object of C++'s that is not held becomes the only element of a list.
LEMMA FirstElement ==
  ASSUME NEW q, Sound(q), NEW m \in Messages, Exists(q, m), q.msg[m].list = <<>>,
         NEW o \in Objects, q.obj[o].owner = "cpp", ~Held(q, o)
  PROVE  Sound(HoldList(q, m, <<o>>)) /\ Lost(HoldList(q, m, <<o>>)) \subseteq Lost(q) \ {o}
<1> DEFINE l == <<o>>
           r == HoldList(q, m, l)
<1>1. q \in Prog
  BY DEF Sound
<1>2. ~InList(q, o) /\ \A n \in Messages : Exists(q, n) => q.msg[n].child # o
  BY DEF Held, InList
<1>3. l \in Seq(Objects) /\ Range(l) = {o} /\ Range(<<>>) = {}
  BY DEF Range
<1> HIDE DEF l
<1>4. /\ r \in Prog /\ r.obj = q.obj
      /\ \A n \in Messages \ {m} : r.msg[n] = q.msg[n]
      /\ \A n \in Messages : Exists(r, n) <=> Exists(q, n)
      /\ r.msg[m].list = l /\ r.msg[m].child = q.msg[m].child
      /\ r.msg[m].destroyed = q.msg[m].destroyed /\ r.msg[m].given = q.msg[m].given
  BY <1>1, <1>3, HoldListIs
<1> HIDE DEF r
<1>5. \A p \in Objects : InList(r, p) => p = o \/ InList(q, p)
  BY <1>3, <1>4 DEF InList
<1>6. \A p \in Objects : InList(q, p) => InList(r, p)
  BY <1>3, <1>4 DEF InList
<1>7. InList(r, o)
  BY <1>3, <1>4 DEF InList
<1>8. \A p \in Objects : InList(r, p) =>
        /\ q.obj[p].owner = "cpp"
        /\ \A n \in Messages : Exists(q, n) => q.msg[n].child # p
  BY <1>2, <1>5 DEF Sound, Elements
<1>9. \A n \in Messages : Exists(q, n) =>
        /\ r.msg[n].child = q.msg[n].child /\ r.msg[n].destroyed = q.msg[n].destroyed
        /\ r.msg[n].given = q.msg[n].given
  BY <1>4
<1>10. Sound(r) /\ \A p \in Lost(r) : ~InList(r, p) /\ (p \in Lost(q) \/ InList(q, p))
  BY <1>4, <1>8, <1>9, RelistSound
<1>11. Lost(r) \subseteq Objects
  BY DEF Lost
<1>12. Lost(r) \subseteq Lost(q) \ {o}
  BY <1>6, <1>7, <1>10, <1>11
<1> QED
  BY <1>10, <1>12 DEF r, l

\* An object of the engine's becomes the only element of a list.
LEMMA AppendSound ==
  ASSUME NEW s, Sound(s), NEW m \in Messages, Exists(s, m), s.msg[m].list = <<>>,
         NEW o \in Objects, s.obj[o].owner = "other", ~Held(s, o)
  PROVE  LET r == HoldList([s EXCEPT !.obj[o].owner = "cpp"], m, <<o>>)
         IN  Sound(r) /\ Lost(r) \subseteq Lost(s)
<1> DEFINE x == [s.obj[o] EXCEPT !.owner = "cpp"]
           q == [s EXCEPT !.obj[o] = x]
<1>1. s \in Prog /\ s.obj[o] \in Object
  BY Parts DEF Sound
<1>2. x \in Object /\ x.owner = "cpp"
  BY <1>1 DEF Object
<1>3. [s EXCEPT !.obj[o].owner = "cpp"] = q
  OBVIOUS
<1> HIDE DEF x
<1>4. /\ q \in Prog /\ q.msg = s.msg /\ q.obj[o] = x
      /\ \A p \in Objects \ {o} : q.obj[p] = s.obj[p]
  BY <1>1, <1>2, PutObject
<1> HIDE DEF q
<1>5. /\ \A n \in Messages : Exists(q, n) <=> Exists(s, n)
      /\ \A p : InList(q, p) <=> InList(s, p)
      /\ \A p : Held(q, p) <=> Held(s, p)
  BY <1>4 DEF Exists, InList, Held
<1>6. ~InList(s, o) /\ \A n \in Messages : Exists(s, n) => s.msg[n].child # o
  BY DEF Held, InList
<1>7. Heard(q)
  <2>1. \A p \in Objects : Live(s, p) => Live(q, p)
    BY <1>2, <1>4 DEF Live
  <2>2. \A n \in Messages : Exists(s, n) => s.msg[n].destroyed \in Objects \union {Null}
    BY <1>1, Parts
  <2> QED
    BY <1>4, <1>5, <2>1, <2>2 DEF Sound, Heard
<1>8. Elements(q)
  BY <1>4, <1>5, <1>6 DEF Sound, Elements
<1>9. Sound(q)
  BY <1>4, <1>7, <1>8 DEF Sound
<1>10. Lost(q) \subseteq Lost(s) \union {o}
  BY <1>4, <1>5 DEF Lost
<1>11. /\ Exists(q, m) /\ q.msg[m].list = <<>>
       /\ q.obj[o].owner = "cpp" /\ ~Held(q, o)
  BY <1>2, <1>4, <1>5
<1>12. Sound(HoldList(q, m, <<o>>)) /\ Lost(HoldList(q, m, <<o>>)) \subseteq Lost(q) \ {o}
  BY <1>9, <1>11, FirstElement
<1>13. Lost(HoldList(q, m, <<o>>)) \subseteq Lost(s)
  BY <1>10, <1>12
<1> QED
  BY <1>3, <1>12, <1>13

\* The number of an object is set.
LEMMA SetVSound ==
  ASSUME NEW s, Sound(s), NEW o \in Objects, NEW x \in Values
  PROVE  /\ Sound(SetV(s, o, x)) /\ Lost(SetV(s, o, x)) = Lost(s) /\ Fresh(SetV(s, o, x)) = Fresh(s)
         /\ SetV(s, o, x).msg = s.msg
         /\ \A n \in Messages : Exists(SetV(s, o, x), n) <=> Exists(s, n)
<1> DEFINE f == SetV(s, o, x)
<1>1. s \in Prog
  BY DEF Sound
<1>2. /\ f \in Prog /\ f.msg = s.msg
      /\ \A q \in Objects : f.obj[q].owner = s.obj[q].owner
  BY <1>1, SetVIs
<1> HIDE DEF f
<1>3. Sound(f) /\ Lost(f) = Lost(s) /\ \A n \in Messages : Exists(f, n) <=> Exists(s, n)
  BY <1>2, NumberSound
<1>4. Alike(s, f)
  BY <1>2, <1>3 DEF Alike
<1>5. Fresh(f) = Fresh(s)
  BY <1>1, <1>2, <1>4, AlikeSound
<1> QED
  BY <1>2, <1>3, <1>5 DEF f

\* The constructor that takes the first n fields.
LEMMA ConstructedSound ==
  ASSUME NEW s, Sound(s), NEW m \in Messages, ~Exists(s, m), NEW n \in 0 .. 3,
         NEW k \in Values, NEW x \in Values,
         n >= 2 => Fresh(s) # {},
         n >= 3 => \A y \in Fresh(s) : Fresh(s) \ {y} # {}
  PROVE  Sound(Constructed(s, m, n, k, x)) /\ Lost(Constructed(s, m, n, k, x)) \subseteq Lost(s)
<1> DEFINE j == IF n >= 1 THEN k ELSE 0
           e == [s EXCEPT !.msg[m] = [NewMessage EXCEPT !.kind = j]]
           d == Deref(e, m)
           p == d.msg[m].child
           f == SetV(d, p, x)
           c == IF n >= 2 THEN f ELSE e
           o == NextFresh(c)
           t == Make(c, o, "cpp", x)
           r == IF n >= 3 THEN HoldList(t, m, <<o>>) ELSE c
<1>1. Constructed(s, m, n, k, x) = r
  BY DEF Constructed
<1>2. j \in Values
  BY DEF Values
<1> HIDE DEF j
<1>3. /\ Sound(e) /\ Lost(e) = Lost(s) /\ Fresh(e) = Fresh(s) /\ Exists(e, m)
      /\ e.msg[m] = [kind |-> j, child |-> Null, destroyed |-> Null, given |-> FALSE, list |-> <<>>]
  BY <1>2, NewSound
<1>4. e.msg[m].child = Null /\ e.msg[m].list = <<>>
  BY <1>3
<1>5. e \in Prog
  BY <1>3 DEF Sound
<1> HIDE DEF e
<1>6. CASE n < 2
  BY <1>1, <1>3, <1>6
<1>7. CASE n >= 2
  <2>1. Fresh(e) # {}
    BY <1>3, <1>7
  <2>2. Sound(d) /\ Lost(d) \subseteq Lost(e)
    BY <1>3, <2>1, DerefSound
  <2>3. /\ p \in Objects /\ d.msg[m].list = <<>> /\ Exists(d, m)
        /\ Fresh(d) = Fresh(e) \ {NextFresh(e)}
    BY <1>3, <1>4, <1>5, <2>1, DerefFresh
  <2> HIDE DEF d, p
  <2>4. /\ Sound(f) /\ Lost(f) = Lost(d) /\ Fresh(f) = Fresh(d) /\ f.msg = d.msg
        /\ \A q \in Messages : Exists(f, q) <=> Exists(d, q)
    BY <2>2, <2>3, SetVSound
  <2> HIDE DEF f
  <2>5. c = f /\ Lost(f) \subseteq Lost(s)
    BY <1>3, <1>7, <2>2, <2>4
  <2>6. CASE n = 2
    <3>1. r = f
      BY <2>5, <2>6
    <3> QED
      BY <1>1, <2>4, <2>5, <3>1
  <2>7. CASE n >= 3
    <3>1. Fresh(f) # {}
      <4>1. NextFresh(e) \in Fresh(e)
        BY <2>1, NextFreshIs
      <4>2. NextFresh(e) \in Fresh(s) /\ Fresh(f) = Fresh(s) \ {NextFresh(e)}
        BY <1>3, <2>3, <2>4, <4>1
      <4> QED
        BY <2>7, <4>2
    <3> HIDE DEF c
    <3>2. Fresh(c) # {} /\ Sound(c)
      BY <2>4, <2>5, <3>1
    <3>3. o \in Objects /\ ~Live(c, o) /\ ~Held(c, o)
      BY <3>2, NextFreshIs
    <3> HIDE DEF o
    <3>4. /\ Sound(t) /\ t.msg = c.msg /\ t.obj[o] = [owner |-> "cpp", v |-> x]
          /\ Lost(t) \subseteq Lost(c) \union {o}
      BY <3>2, <3>3, MakeSound
    <3> HIDE DEF t
    <3>5. ~Held(t, o) /\ \A q \in Messages : Exists(t, q) <=> Exists(c, q)
      BY <3>3, <3>4 DEF Held, Exists
    <3>6. Exists(t, m) /\ t.msg[m].list = <<>> /\ t.obj[o].owner = "cpp"
      BY <2>3, <2>4, <2>5, <3>4, <3>5
    <3>7. /\ Sound(HoldList(t, m, <<o>>))
          /\ Lost(HoldList(t, m, <<o>>)) \subseteq Lost(t) \ {o}
      BY <3>3, <3>4, <3>5, <3>6, FirstElement
    <3>8. r = HoldList(t, m, <<o>>)
      BY <2>7
    <3> HIDE DEF r
    <3> QED
      BY <1>1, <2>5, <3>4, <3>7, <3>8
  <2> QED
    BY <1>7, <2>6, <2>7
<1> QED
  BY <1>6, <1>7

\* The destructor lets go of the child and of the list.
LEMMA DestroyedSound ==
  ASSUME NEW s, Sound(s), NEW m \in Messages, Exists(s, m)
  PROVE  LET t == PutList(Reset(s, m, Null), m, <<>>)
             r == [t EXCEPT !.msg[m] = Absent]
         IN  Sound(r) /\ (qml => Lost(r) \subseteq Lost(s))
<1> DEFINE a == Reset(s, m, Null)
           t == PutList(a, m, <<>>)
           r == [t EXCEPT !.msg[m] = Absent]
<1>1. /\ Sound(a) /\ (qml => Lost(a) \subseteq Lost(s))
      /\ Exists(a, m) /\ a.msg[m].child = Null
  BY ResetSound
<1> HIDE DEF a
<1>2. <<>> \in Seq(Objects) /\ Range(<<>>) = {}
  BY DEF Range
<1>3. /\ Sound(t) /\ Lost(t) \subseteq Lost(a)
      /\ t.msg[m].list = <<>> /\ t.msg[m].child = Null /\ Exists(t, m)
  <2> DEFINE l == <<>>
  <2>1. /\ l \in Seq(Objects)
        /\ \A o \in Range(l) :
             /\ a.obj[o].owner = "cpp"
             /\ \A n \in Messages : Exists(a, n) => a.msg[n].child # o
    BY <1>2
  <2> HIDE DEF l
  <2>2. /\ Sound(PutList(a, m, l)) /\ Lost(PutList(a, m, l)) \subseteq Lost(a)
        /\ PutList(a, m, l).msg[m].list = l /\ PutList(a, m, l).msg[m].child = a.msg[m].child
        /\ Exists(PutList(a, m, l), m)
    BY <1>1, <2>1, PutListSound
  <2> QED
    BY <1>1, <2>2 DEF l
<1> HIDE DEF t
<1>4. Sound(r) /\ Lost(r) = Lost(t)
  BY <1>3, GoneSound
<1> HIDE DEF r
<1> QED
  BY <1>1, <1>3, <1>4 DEF r, t, a

\* An object that is deleted by its owner.
LEMMA CollectedSound ==
  ASSUME NEW s, Sound(s), NEW o \in Objects, s.obj[o].owner = "other"
  PROVE  Sound(Delete(s, o)) /\ Lost(Delete(s, o)) \subseteq Lost(s)
<1>1. ~InList(s, o)
  BY DEF Sound, Elements
<1>2. {o} \in SUBSET Objects /\ \A p \in {o} : ~InList(s, p)
  BY <1>1
<1> QED
  BY <1>2, DeleteAllSound DEF Delete

-----------------------------------------------------------------------------
(* Steps. *)

\* Where a step leads.
LEMMA Arrives ==
  ASSUME IInv, NEW t, Becomes(t), Sound(t), qml => Lost(t) \subseteq Lost(Program)
  PROVE  IInv'
<1> DEFINE q == [msg |-> msg', obj |-> obj', told |-> {}]
<1>1. t \in Prog /\ msg' = t.msg /\ obj' = t.obj /\ qml' = qml
  BY DEF Sound, Becomes
<1>2. q \in Prog /\ q.msg = t.msg /\ q.obj = t.obj
  BY <1>1 DEF Prog
<1> HIDE DEF q
<1>3. Alike(t, q)
  BY <1>2 DEF Alike, Exists
<1>4. Sound(q) /\ Lost(q) = Lost(t)
  BY <1>1, <1>2, <1>3, AlikeSound
<1>5. Program' = q
  BY DEF Program, q
<1>6. Sound(Program') /\ Lost(Program') = Lost(t)
  BY <1>4, <1>5
<1> QED
  BY <1>1, <1>6 DEF IInv

\* The bound of operations that make n objects.
LEMMA RoomToMake ==
  ASSUME NEW n \in Int, Room({}, n)
  PROVE  /\ n >= 1 => Fresh(Program) # {}
         /\ n >= 2 => \A x \in Fresh(Program) : Fresh(Program) \ {x} # {}
<1> DEFINE need == {k \in {} : Exists(Program, k) /\ msg[k].child = Null}
           F == Cardinality(Fresh(Program))
<1>1. F >= n + Cardinality(need)
  BY DEF Room
<1>2. need = {}
  OBVIOUS
<1>3. Cardinality(need) = 0
  BY <1>2, FS_EmptySet
<1> HIDE DEF need
<1>4. F >= n
  BY <1>1, <1>3
<1>5. CASE n < 1
  BY <1>5
<1>6. CASE n >= 1
  <2>1. n \in Nat
    BY <1>6
  <2> QED
    BY <1>4, <2>1, RoomMeans
<1> QED
  BY <1>5, <1>6

\* What is enough for two messages is enough for the first.
LEMMA FewerNeeded ==
  ASSUME NEW m \in Messages, NEW other \in Messages, Room({m, other}, 0)
  PROVE  Room({m, m}, 0)
<1> DEFINE two == {k \in {m, other} : Exists(Program, k) /\ msg[k].child = Null}
           one == {k \in {m, m} : Exists(Program, k) /\ msg[k].child = Null}
           F == Cardinality(Fresh(Program))
<1>1. F >= 0 + Cardinality(two)
  BY DEF Room
<1>2. IsFiniteSet(two)
  <2>1. IsFiniteSet({m}) /\ {m, other} = {m} \union {other}
    BY FS_Singleton
  <2>2. IsFiniteSet({m, other})
    BY <2>1, FS_AddElement
  <2> QED
    BY <2>2, FS_Subset
<1>3. one \subseteq two
  OBVIOUS
<1> HIDE DEF two
<1>4. Cardinality(one) <= Cardinality(two) /\ IsFiniteSet(one)
  BY <1>2, <1>3, FS_Subset
<1>5. Cardinality(one) \in Nat /\ Cardinality(two) \in Nat
  BY <1>2, <1>4, FS_CardinalityType
<1>6. F \in Nat
  <2>1. IsFiniteSet(Objects)
    BY BoundAssumption, FS_Interval DEF Objects
  <2>2. IsFiniteSet(Fresh(Program))
    BY <2>1, FS_Subset DEF Fresh
  <2> QED
    BY <2>2, FS_CardinalityType
<1> HIDE DEF F
<1>7. F >= 0 + Cardinality(one)
  BY <1>1, <1>4, <1>5, <1>6
<1> QED
  BY <1>7 DEF Room, F

\* What setChild_p is given exists, and is no element of a list.
LEMMA PointersAre ==
  ASSUME IInv, NEW m \in Messages, NEW p \in Pointers(m)
  PROVE  /\ p \in Objects \union {Null}
         /\ p # Null => Live(Program, p) /\ ~InList(Program, p)
<1>1. Sound(Program) /\ Program \in Prog /\ Program.msg = msg /\ Program.obj = obj
  BY DEF IInv, Sound, Program
<1>2. CASE p = Null
  BY <1>2
<1>3. CASE p \in Objects /\ obj[p].owner = "other"
  BY <1>1, <1>3 DEF Live, Sound, Elements
<1>4. ASSUME NEW n \in Messages, Usable(Program, n), p = msg[n].child, p # Null
      PROVE  p \in Objects /\ Live(Program, p) /\ ~InList(Program, p)
  <2>1. Exists(Program, n) /\ Live(Program, p)
    BY <1>1, <1>4 DEF Usable
  <2>2. p \in Objects
    BY <1>1, <1>4, <2>1, Parts
  <2> QED
    BY <1>1, <1>4, <2>1, <2>2 DEF Sound, Elements
<1> QED
  BY <1>2, <1>3, <1>4 DEF Pointers

\* The operations on one message that exists.
LEMMA Alone ==
  ASSUME IInv, NEW m \in Messages, MayAssign(m, m)
  PROVE  /\ Sound(Program) /\ Exists(Program, m)
         /\ Program.msg[m].child = Null => Fresh(Program) # {}
<1>1. Sound(Program) /\ Exists(Program, m)
  BY DEF IInv, MayAssign, Usable
<1>2. Room({m, m}, 0)
  BY DEF MayAssign
<1>3. Ample(Program, m, m)
  BY <1>1, <1>2, RoomIs
<1> QED
  BY <1>1, <1>3 DEF Ample

\* The operations on two.
LEMMA Together ==
  ASSUME IInv, NEW m \in Messages, NEW other \in Messages, MayAssign(m, other)
  PROVE  /\ Sound(Program) /\ Exists(Program, m) /\ Exists(Program, other)
         /\ Ample(Program, m, other)
<1>1. Sound(Program) /\ Exists(Program, m) /\ Exists(Program, other)
  BY DEF IInv, MayAssign, Usable
<1>2. Room({m, other}, 0)
  BY DEF MayAssign
<1> QED
  BY <1>1, <1>2, RoomIs

\* The constructors from another message.
LEMMA Source ==
  ASSUME IInv, NEW m \in Messages, NEW other \in Messages, MayConstruct(m, other)
  PROVE  /\ Sound(Program) /\ ~Exists(Program, m) /\ Exists(Program, other)
         /\ Fresh(Program) # {}
         /\ Program.msg[other].child = Null =>
              \A x \in Fresh(Program) : Fresh(Program) \ {x} # {}
<1>1. Sound(Program) /\ ~Exists(Program, m) /\ Exists(Program, other)
  BY DEF IInv, MayConstruct, Usable
<1>2. Room({other}, 1) /\ Program.msg = msg
  BY DEF MayConstruct, Program
<1> QED
  BY <1>1, <1>2, RoomToConstruct

-----------------------------------------------------------------------------
(* Every operation preserves the invariant. *)

LEMMA ConstructStep ==
  ASSUME IInv, NEW m \in Messages, NEW n \in 0 .. 3, NEW k \in Values, NEW x \in Values,
         Construct(m, n, k, x)
  PROVE  IInv'
<1> DEFINE t == Constructed(Program, m, n, k, x)
<1>1. Sound(Program) /\ ~Exists(Program, m) /\ Room({}, n - 1) /\ Becomes(t)
  BY DEF IInv, Construct
<1>2. /\ n - 1 >= 1 => Fresh(Program) # {}
      /\ n - 1 >= 2 => \A y \in Fresh(Program) : Fresh(Program) \ {y} # {}
  BY <1>1, RoomToMake
<1>3. /\ n >= 2 => Fresh(Program) # {}
      /\ n >= 3 => \A y \in Fresh(Program) : Fresh(Program) \ {y} # {}
  BY <1>2
<1>4. Sound(t) /\ Lost(t) \subseteq Lost(Program)
  BY <1>1, <1>3, ConstructedSound
<1> HIDE DEF t
<1> QED
  BY <1>1, <1>4, Arrives

LEMMA TwoMessagesStep ==
  ASSUME IInv, NEW m \in Messages, NEW other \in Messages,
         \/ CopyConstruct(m, other) \/ MoveConstruct(m, other)
         \/ CopyAssign(m, other) \/ MoveAssign(m, other) \/ Compare(m, other)
  PROVE  IInv'
<1>1. CASE CopyConstruct(m, other)
  <2> DEFINE t == CopyConstructed(Program, m, other)
  <2>1. MayConstruct(m, other) /\ Becomes(t)
    BY <1>1 DEF CopyConstruct
  <2>2. Sound(t) /\ Lost(t) \subseteq Lost(Program)
    BY <2>1, Source, CopyConstructedSound
  <2> HIDE DEF t
  <2> QED
    BY <2>1, <2>2, Arrives
<1>2. CASE MoveConstruct(m, other)
  <2> DEFINE t == MoveConstructed(Program, m, other)
  <2>1. MayConstruct(m, other) /\ Becomes(t)
    BY <1>2 DEF MoveConstruct
  <2>2. /\ Sound(Program) /\ ~Exists(Program, m) /\ Exists(Program, other)
        /\ Fresh(Program) # {}
        /\ Program.msg[other].child = Null =>
             \A x \in Fresh(Program) : Fresh(Program) \ {x} # {}
    BY <2>1, Source
  <2>3. Sound(t) /\ Lost(t) \subseteq Lost(Program)
    BY <2>2, MoveConstructedSound
  <2> HIDE DEF t
  <2> QED
    BY <2>1, <2>3, Arrives
<1>3. CASE CopyAssign(m, other)
  <2> DEFINE t == CopyAssigned(Program, m, other)
  <2>1. MayAssign(m, other) /\ Becomes(t)
    BY <1>3 DEF CopyAssign
  <2>2. Sound(t) /\ Lost(t) \subseteq Lost(Program)
    BY <2>1, Together, CopyAssignedSound
  <2> HIDE DEF t
  <2> QED
    BY <2>1, <2>2, Arrives
<1>4. CASE MoveAssign(m, other)
  <2>1. PICK t \in MoveAssigned(Program, m, other) : Becomes(t)
    BY <1>4 DEF MoveAssign
  <2>2. MayAssign(m, other)
    BY <1>4 DEF MoveAssign
  <2>3. Sound(t) /\ Lost(t) \subseteq Lost(Program)
    <3>1. MoveDone(Program, t, m, other)
      BY <2>2, Together, MoveAssignedSound
    <3> QED
      BY <3>1 DEF MoveDone
  <2> QED
    BY <2>1, <2>3, Arrives
<1>5. CASE Compare(m, other)
  <2> DEFINE t == Compared(Program, m, other)
  <2>1. MayAssign(m, other) /\ Becomes(t)
    BY <1>5 DEF Compare
  <2>2. Sound(t) /\ Lost(t) \subseteq Lost(Program)
    BY <2>1, Together, ComparedSound
  <2> HIDE DEF t
  <2> QED
    BY <2>1, <2>2, Arrives
<1> QED
  BY <1>1, <1>2, <1>3, <1>4, <1>5

\* The setters and getters of the enum and of the child.
LEMMA SetterStep ==
  ASSUME IInv, NEW m \in Messages,
         \/ \E x \in Values : setKind(m, x) \/ setChild(m, x)
         \/ \E p \in Objects \union {Null} : setChild_p(m, p)
         \/ getChild(m)
  PROVE  IInv'
<1>1. ASSUME NEW x \in Values, setKind(m, x) PROVE IInv'
  <2> DEFINE t == SetKind(Program, m, x)
  <2>1. Sound(Program) /\ Exists(Program, m) /\ Becomes(t)
    BY <1>1 DEF setKind, IInv
  <2>2. Sound(t) /\ Lost(t) = Lost(Program)
    BY <2>1, SetKindIs
  <2> HIDE DEF t
  <2> QED
    BY <2>1, <2>2, Arrives
<1>2. ASSUME NEW x \in Values, setChild(m, x) PROVE IInv'
  <2> DEFINE t == SetChild(Program, m, x)
  <2>1. MayAssign(m, m) /\ Becomes(t)
    BY <1>2 DEF setChild
  <2>2. Sound(t) /\ Lost(t) \subseteq Lost(Program)
    BY <2>1, Alone, SetChildSound
  <2> HIDE DEF t
  <2> QED
    BY <2>1, <2>2, Arrives
<1>3. ASSUME NEW p \in Objects \union {Null}, setChild_p(m, p) PROVE IInv'
  <2> DEFINE t == SetChildP(Program, m, p)
  <2>1. MayAssign(m, m) /\ p \in Pointers(m) /\ Becomes(t)
    BY <1>3 DEF setChild_p
  <2>2. p # Null => Live(Program, p) /\ ~InList(Program, p)
    BY <2>1, PointersAre
  <2>3. Sound(t) /\ (qml => Lost(t) \subseteq Lost(Program))
    BY <2>1, <2>2, Alone, SetChildPSound
  <2> HIDE DEF t
  <2> QED
    BY <2>1, <2>3, Arrives
<1>4. CASE getChild(m)
  <2> DEFINE t == Deref(Program, m)
  <2>1. MayAssign(m, m) /\ Becomes(t)
    BY <1>4 DEF getChild
  <2>2. Sound(t) /\ Lost(t) \subseteq Lost(Program)
    BY <2>1, Alone, DerefSound
  <2> HIDE DEF t
  <2> QED
    BY <2>1, <2>2, Arrives
<1> QED
  BY <1>1, <1>2, <1>3, <1>4

\* A list that exists, or the empty one, may be set.
LEMMA ListStep ==
  ASSUME IInv, NEW m \in Messages, NEW l \in Seq(Objects),
         \A o \in Range(l) :
           /\ Program.obj[o].owner = "cpp"
           /\ \A n \in Messages : Exists(Program, n) => Program.msg[n].child # o,
         setList(m, l)
  PROVE  IInv'
<1> DEFINE t == SetList(Program, m, l)
<1>1. Sound(Program) /\ Exists(Program, m) /\ Becomes(t)
  BY DEF setList, IInv
<1>2. Sound(t) /\ Lost(t) \subseteq Lost(Program)
  BY <1>1, SetListSound
<1> HIDE DEF t
<1> QED
  BY <1>1, <1>2, Arrives

LEMMA ListsStep ==
  ASSUME IInv, NEW m \in Messages,
         \/ \E other \in Messages : Exists(Program, other) /\ setList(m, msg[other].list)
         \/ \E x \in Values : setListNew(m, x)
         \/ setList(m, <<>>) \/ qmllistpropertyReset(m)
         \/ \E o \in Objects : qmllistpropertyAppend(m, o)
  PROVE  IInv'
<1>0. Sound(Program) /\ Program.msg = msg /\ Program.obj = obj
  BY DEF IInv, Program
<1> DEFINE none == <<>>
<1>1. /\ none \in Seq(Objects)
      /\ \A o \in Range(none) :
           /\ Program.obj[o].owner = "cpp"
           /\ \A n \in Messages : Exists(Program, n) => Program.msg[n].child # o
  BY DEF Range
<1> HIDE DEF none
<1>2. ASSUME NEW other \in Messages, Exists(Program, other), setList(m, msg[other].list) PROVE IInv'
  <2> DEFINE l == msg[other].list
  <2>1. /\ l \in Seq(Objects)
        /\ \A o \in Range(l) :
             /\ Program.obj[o].owner = "cpp"
             /\ \A n \in Messages : Exists(Program, n) => Program.msg[n].child # o
    BY <1>0, <1>2, ListsAreLists
  <2>2. setList(m, l)
    BY <1>2
  <2> HIDE DEF l
  <2> QED
    BY <2>1, <2>2, ListStep
<1>3. ASSUME NEW x \in Values, setListNew(m, x) PROVE IInv'
  <2> DEFINE o == NextFresh(Program)
             t == SetList(Make(Program, o, "cpp", x), m, <<o>>)
  <2>1. Exists(Program, m) /\ Room({}, 1) /\ Becomes(t)
    BY <1>3 DEF setListNew
  <2>2. Fresh(Program) # {}
    BY <2>1, RoomToMake
  <2>3. Sound(t) /\ Lost(t) \subseteq Lost(Program)
    BY <1>0, <2>1, <2>2, SetListNewSound
  <2> HIDE DEF t
  <2> QED
    BY <2>1, <2>3, Arrives
<1>4. CASE setList(m, <<>>)
  <2>1. setList(m, none)
    BY <1>4 DEF none
  <2> QED
    BY <1>1, <2>1, ListStep
<1>5. CASE qmllistpropertyReset(m)
  <2> DEFINE t == PutList(Program, m, none)
  <2>1. Exists(Program, m) /\ Becomes(t)
    BY <1>5 DEF qmllistpropertyReset, none
  <2>2. Sound(t) /\ Lost(t) \subseteq Lost(Program)
    BY <1>0, <1>1, <2>1, PutListSound
  <2> HIDE DEF t
  <2> QED
    BY <2>1, <2>2, Arrives
<1>6. ASSUME NEW o \in Objects, qmllistpropertyAppend(m, o) PROVE IInv'
  <2> DEFINE t == HoldList([Program EXCEPT !.obj[o].owner = "cpp"], m, <<o>>)
  <2>1. /\ Exists(Program, m) /\ Program.msg[m].list = <<>>
        /\ Program.obj[o].owner = "other" /\ ~Held(Program, o) /\ Becomes(t)
    BY <1>0, <1>6 DEF qmllistpropertyAppend
  <2>2. Sound(t) /\ Lost(t) \subseteq Lost(Program)
    BY <1>0, <2>1, AppendSound
  <2> HIDE DEF t
  <2> QED
    BY <2>1, <2>2, Arrives
<1> QED
  BY <1>2, <1>3, <1>4, <1>5, <1>6

LEMMA DestroyStep ==
  ASSUME IInv, NEW m \in Messages, Destroy(m)
  PROVE  IInv'
<1> DEFINE d == PutList(Reset(Program, m, Null), m, <<>>)
           t == [d EXCEPT !.msg[m] = Absent]
<1>1. Sound(Program) /\ Exists(Program, m)
  BY DEF IInv, Destroy, Usable
<1>2. Becomes(t)
  BY DEF Destroy, Reset
<1>3. Sound(t) /\ (qml => Lost(t) \subseteq Lost(Program))
  BY <1>1, DestroyedSound
<1> HIDE DEF t
<1> QED
  BY <1>2, <1>3, Arrives

\* What the engine and the user do to objects.
LEMMA ObjectStep ==
  ASSUME IInv,
         \/ \E x \in Values : NewObject(x)
         \/ \E o \in Objects : CollectObject(o) \/ \E x \in Values : ChangeObject(o, x)
  PROVE  IInv'
<1>0. Sound(Program) /\ Program.obj = obj
  BY DEF IInv, Program
<1>1. ASSUME NEW x \in Values, NewObject(x) PROVE IInv'
  <2> DEFINE o == NextFresh(Program)
             t == Make(Program, o, "other", x)
  <2>1. Room({}, 1) /\ Becomes(t)
    BY <1>1 DEF NewObject
  <2>2. Fresh(Program) # {}
    BY <2>1, RoomToMake
  <2>3. o \in Objects /\ ~Live(Program, o) /\ ~Held(Program, o)
    BY <2>2, NextFreshIs
  <2> HIDE DEF o
  <2>4. Sound(t) /\ Lost(t) \subseteq Lost(Program)
    BY <1>0, <2>3, MakeSound
  <2> HIDE DEF t
  <2> QED
    BY <2>1, <2>4, Arrives
<1>2. ASSUME NEW o \in Objects, CollectObject(o) PROVE IInv'
  <2>1. Program.obj[o].owner = "other" /\ Becomes(Delete(Program, o))
    BY <1>0, <1>2 DEF CollectObject
  <2>2. Sound(Delete(Program, o)) /\ Lost(Delete(Program, o)) \subseteq Lost(Program)
    BY <1>0, <2>1, CollectedSound
  <2> QED
    BY <2>1, <2>2, Arrives
<1>3. ASSUME NEW o \in Objects, NEW x \in Values, ChangeObject(o, x) PROVE IInv'
  <2>1. Becomes(SetV(Program, o, x))
    BY <1>3 DEF ChangeObject
  <2>2. Sound(SetV(Program, o, x)) /\ Lost(SetV(Program, o, x)) = Lost(Program)
    BY <1>0, SetVSound
  <2> QED
    BY <2>1, <2>2, Arrives
<1> QED
  BY <1>1, <1>2, <1>3

LEMMA Initially == Init => IInv
<1> SUFFICES ASSUME Init PROVE IInv
  OBVIOUS
<1>1. /\ qml \in BOOLEAN
      /\ Program.msg = [m \in Messages |-> Absent]
      /\ Program.obj = [o \in Objects |-> Nobody] /\ Program.told = {}
  BY DEF Init, Program
<1>2. \A m \in Messages : ~Exists(Program, m)
  BY <1>1 DEF Exists
<1>3. Nobody \in Object /\ Nobody.owner = "nobody"
  BY DEF Nobody, Object, Values
<1>4. Program \in Prog
  <2>1. msg \in [Messages -> Message \union {Absent}]
    BY DEF Init
  <2>2. obj \in [Objects -> Object]
    BY <1>3 DEF Init
  <2> QED
    BY <2>1, <2>2 DEF Prog, Program
<1>5. Heard(Program) /\ Elements(Program)
  BY <1>2 DEF Heard, Elements, InList
<1>6. Lost(Program) = {}
  BY <1>1, <1>3 DEF Lost
<1> QED
  BY <1>1, <1>4, <1>5, <1>6 DEF IInv, Sound

LEMMA Preserved == IInv /\ [Next]_vars => IInv'
<1> SUFFICES ASSUME IInv, [Next]_vars PROVE IInv'
  OBVIOUS
<1>1. CASE UNCHANGED vars
  <2>1. Becomes(Program)
    BY <1>1 DEF vars, Becomes, Program
  <2>2. Sound(Program)
    BY DEF IInv
  <2> QED
    BY <2>1, <2>2, Arrives
<1>2. ASSUME NEW m \in Messages, NEW n \in 0 .. 3, NEW k \in Values, NEW x \in Values,
             Construct(m, n, k, x)
      PROVE  IInv'
  BY <1>2, ConstructStep
<1>3. ASSUME NEW m \in Messages, NEW other \in Messages,
             \/ CopyConstruct(m, other) \/ MoveConstruct(m, other)
             \/ CopyAssign(m, other) \/ MoveAssign(m, other) \/ Compare(m, other)
      PROVE  IInv'
  BY <1>3, TwoMessagesStep
<1>4. ASSUME NEW m \in Messages,
             \/ \E x \in Values : setKind(m, x) \/ setChild(m, x)
             \/ \E p \in Objects \union {Null} : setChild_p(m, p)
             \/ getChild(m)
      PROVE  IInv'
  BY <1>4, SetterStep
<1>5. ASSUME NEW m \in Messages,
             \/ \E other \in Messages : Exists(Program, other) /\ setList(m, msg[other].list)
             \/ \E x \in Values : setListNew(m, x)
             \/ setList(m, <<>>) \/ qmllistpropertyReset(m)
             \/ \E o \in Objects : qmllistpropertyAppend(m, o)
      PROVE  IInv'
  BY <1>5, ListsStep
<1>6. ASSUME NEW m \in Messages, Destroy(m) PROVE IInv'
  BY <1>6, DestroyStep
<1>7. ASSUME \/ \E x \in Values : NewObject(x)
             \/ \E o \in Objects : CollectObject(o) \/ \E x \in Values : ChangeObject(o, x)
      PROVE  IInv'
  BY <1>7, ObjectStep
<1> QED
  BY <1>1, <1>2, <1>3, <1>4, <1>5, <1>6, <1>7 DEF Next

-----------------------------------------------------------------------------
(* Theorems. *)

(* Whatever the user, QML and the engine do, a message is connected to the  *)
(* child it was given, the elements of lists belong to the lists alone, and *)
(* with QML all that C++ owns is held.                                      *)
THEOREM Invariance == Spec => []IInv
<1>1. Init => IInv
  BY Initially
<1>2. IInv /\ [Next]_vars => IInv'
  BY Preserved
<1> QED
  BY <1>1, <1>2, PTL DEF Spec

(* A child that setChild_p has set exists as long as the message shows it:  *)
(* the slot on the destroyed signal (qprotobuflazymessagepointer.h) has     *)
(* dropped it otherwise.                                                    *)
THEOREM GivenChildrenLive == Spec => []SetPointersAreLive
<1>1. ASSUME IInv PROVE SetPointersAreLive
  <2>1. Heard(Program) /\ Program.msg = msg
    BY <1>1 DEF IInv, Sound, Program
  <2> QED
    BY <2>1 DEF Heard, SetPointersAreLive
<1> QED
  BY <1>1, Invariance, PTL

(* With QML, no sequence of operations leaves an object of C++'s that no    *)
(* message holds.                                                           *)
THEOREM NoLeak == Spec => []NothingLost
<1>1. ASSUME IInv PROVE NothingLost
  <2>1. (qml => Lost(Program) = {}) /\ Program.obj = obj
    BY <1>1 DEF IInv, Program
  <2> QED
    BY <2>1 DEF Lost, NothingLost
<1> QED
  BY <1>1, Invariance, PTL

\* operator== compares the values that the messages have before it makes
\* children: when it has to make any, they differ.
LEMMA EqualIs ==
  ASSUME NEW s, Sound(s), NEW a \in Messages, Exists(s, a), NEW b \in Messages, Exists(s, b),
         Ample(s, a, b)
  PROVE  Equal(s, a, b) <=> Value(s, a) = Value(s, b)
<1> DEFINE k == s.msg[a].list
           l == s.msg[b].list
           f == [i \in DOMAIN k |-> s.obj[k[i]].v]
           g == [i \in DOMAIN l |-> s.obj[l[i]].v]
           t == Compared(s, a, b)
           same == s.msg[a].kind = s.msg[b].kind
           like == ChildV(s, a) = ChildV(s, b)
<1>1. k \in Seq(Objects) /\ l \in Seq(Objects)
  BY Parts DEF Sound
<1>2. Value(s, a) = Value(s, b) <=> same /\ like /\ f = g
  <2>1. /\ Value(s, a) = [kind |-> s.msg[a].kind, child |-> ChildV(s, a), list |-> f]
        /\ Value(s, b) = [kind |-> s.msg[b].kind, child |-> ChildV(s, b), list |-> g]
    BY DEF Value
  <2> HIDE DEF f, g
  <2> QED
    BY <2>1
<1>3. Equal(s, a, b) <=>
        /\ same
        /\ LazyEqual(s, a, b) \/ t.obj[t.msg[a].child].v = t.obj[t.msg[b].child].v
        /\ repeatedValueCompare(t, t.msg[a].list, t.msg[b].list)
  BY DEF Equal
<1>4. LazyEqual(s, a, b) <=> like
  BY LazyEqualIs
<1>5. CASE ~same
  BY <1>2, <1>3, <1>5
<1>6. CASE same /\ like
  <2>1. t = s
    BY <1>4, <1>6 DEF Compared
  <2> HIDE DEF k, l, t, same, like
  <2>2. Len(k) = Len(l) <=> DOMAIN k = DOMAIN l
    BY <1>1
  <2>3. repeatedValueCompare(s, k, l) <=>
          DOMAIN k = DOMAIN l /\ \A i \in DOMAIN k : s.obj[k[i]].v = s.obj[l[i]].v
    BY <2>2 DEF repeatedValueCompare
  <2>4. f = g <=> DOMAIN k = DOMAIN l /\ \A i \in DOMAIN k : s.obj[k[i]].v = s.obj[l[i]].v
    <3>1. ASSUME f = g PROVE DOMAIN k = DOMAIN l /\ \A i \in DOMAIN k : f[i] = g[i]
      <4>1. DOMAIN f = DOMAIN k /\ DOMAIN g = DOMAIN l
        OBVIOUS
      <4> HIDE DEF f, g
      <4> QED
        BY <3>1, <4>1
    <3>2. ASSUME DOMAIN k = DOMAIN l, \A i \in DOMAIN k : s.obj[k[i]].v = s.obj[l[i]].v
          PROVE  f = g
      BY <3>2
    <3> QED
      BY <3>1, <3>2
  <2> HIDE DEF f, g
  <2>5. Equal(s, a, b) <=> repeatedValueCompare(s, k, l)
    BY <1>3, <1>4, <1>6, <2>1 DEF k, l
  <2> QED
    BY <1>2, <1>6, <2>3, <2>4, <2>5
<1>7. CASE same /\ ~like
  <2>1. t = Deref(Deref(s, a), b)
    BY <1>4, <1>7 DEF Compared
  <2>2. RoomFor(s, a, b)
    BY AmpleRoom DEF Sound
  <2>3. /\ t.msg[a].child \in Objects /\ t.msg[b].child \in Objects
        /\ ChildV(t, a) = ChildV(s, a) /\ ChildV(t, b) = ChildV(s, b)
    BY <2>1, <2>2, BothDeref
  <2> HIDE DEF t, f, g
  <2>4. ChildV(t, a) = t.obj[t.msg[a].child].v /\ ChildV(t, b) = t.obj[t.msg[b].child].v
    BY <2>3, Basics DEF ChildV
  <2> QED
    BY <1>2, <1>3, <1>4, <1>7, <2>3, <2>4
<1> QED
  BY <1>5, <1>6, <1>7

\* There is room for the comparison the other way round.
LEMMA ComparedAmple ==
  ASSUME NEW s, Sound(s), NEW a \in Messages, Exists(s, a), NEW b \in Messages, Exists(s, b),
         Ample(s, a, b)
  PROVE  Ample(Compared(s, a, b), b, a)
<1> DEFINE t == Compared(s, a, b)
<1>1. t = s \/ (t.msg[a].child \in Objects /\ t.msg[b].child \in Objects)
  BY ComparedSound
<1> HIDE DEF t
<1>2. Ample(t, b, a)
  BY <1>1, Basics DEF Ample
<1> QED
  BY <1>2 DEF t

(* operator== of the generated class compares values, whichever of the      *)
(* children have been made and whichever of the elements are shared; the    *)
(* children that it makes change no value and no second answer.             *)
THEOREM EqualityByValue == Spec => []EqualityIsByValue
<1>1. ASSUME IInv, NEW a \in Messages, NEW b \in Messages, MayAssign(a, b)
      PROVE  LET t == Compared(Program, a, b) IN
             /\ Equal(Program, a, b) <=> Value(Program, a) = Value(Program, b)
             /\ \A o \in Range(msg[a].list) \union Range(msg[b].list) : Live(Program, o)
             /\ Equal(t, b, a) <=> Equal(Program, a, b)
             /\ \A m \in Messages :
                  Usable(Program, m) => Usable(t, m) /\ Value(t, m) = Value(Program, m)
  <2> DEFINE s == Program
             t == Compared(s, a, b)
  <2>1. Sound(s) /\ Exists(s, a) /\ Exists(s, b) /\ Ample(s, a, b) /\ s.msg = msg
    BY <1>1, Together DEF Program
  <2> HIDE DEF s
  <2>2. /\ Sound(t) /\ Kept(s, t)
        /\ \A n \in Messages : Exists(s, n) => ChildV(t, n) = ChildV(s, n)
        /\ \A n \in Messages : Usable(s, n) => Usable(t, n)
    BY <2>1, ComparedSound
  <2>3. Equal(s, a, b) <=> Value(s, a) = Value(s, b)
    BY <2>1, EqualIs
  <2>4. Ample(t, b, a)
    BY <2>1, ComparedAmple
  <2> HIDE DEF t
  <2>5. Exists(t, a) /\ Exists(t, b)
    BY <2>1, <2>2 DEF Kept
  <2>6. Equal(t, b, a) <=> Value(t, b) = Value(t, a)
    BY <2>2, <2>4, <2>5, EqualIs
  <2>7. ASSUME NEW n \in Messages, Exists(s, n)
        PROVE  \A o \in Range(s.msg[n].list) : o \in Objects /\ InList(s, o)
    <3>1. s.msg[n].list \in Seq(Objects)
      BY <2>1, <2>7, Parts DEF Sound
    <3>2. \A o \in Range(s.msg[n].list) : o \in Objects
      BY <3>1 DEF Range
    <3> QED
      BY <2>7, <3>2 DEF InList
  <2>8. ASSUME NEW n \in Messages, Exists(s, n) PROVE Value(t, n) = Value(s, n)
    <3>1. /\ t.msg[n].kind = s.msg[n].kind /\ ChildV(t, n) = ChildV(s, n)
          /\ t.msg[n].list = s.msg[n].list
      BY <2>2, <2>8 DEF Kept
    <3>2. s.msg[n].list \in Seq(Objects)
      BY <2>1, <2>8, Parts DEF Sound
    <3>3. \A o \in Range(s.msg[n].list) : t.obj[o].v = s.obj[o].v
      BY <2>2, <2>7, <2>8 DEF Kept
    <3> QED
      BY <3>1, <3>2, <3>3, SameValue
  <2>9. \A o \in Range(msg[a].list) \union Range(msg[b].list) : Live(s, o)
    <3>1. \A o \in Range(msg[a].list) \union Range(msg[b].list) : o \in Objects /\ InList(s, o)
      BY <2>1, <2>7
    <3> QED
      BY <2>1, <3>1 DEF Sound, Elements, Live
  <2>10. \A m \in Messages : Usable(s, m) => Usable(t, m) /\ Value(t, m) = Value(s, m)
    BY <2>2, <2>8 DEF Usable
  <2>11. Equal(t, b, a) <=> Equal(s, a, b)
    BY <2>1, <2>3, <2>6, <2>8
  <2> QED
    BY <2>3, <2>9, <2>10, <2>11 DEF s, t
<1>2. ASSUME IInv PROVE EqualityIsByValue
  BY <1>1, <1>2 DEF EqualityIsByValue
<1> QED
  BY <1>2, Invariance, PTL

(* A copy or a move gives the target the value of the source, and a copy    *)
(* leaves it to the source, from a message to itself too.                   *)
THEOREM ValuesCarried == Spec => []AssignmentCarriesValue
<1>1. ASSUME IInv, NEW m \in Messages, NEW other \in Messages, MayConstruct(m, other)
      PROVE  /\ Value(CopyConstructed(Program, m, other), m) = Value(Program, other)
             /\ Value(CopyConstructed(Program, m, other), other) = Value(Program, other)
             /\ Value(MoveConstructed(Program, m, other), m) = Value(Program, other)
  <2>1. /\ Sound(Program) /\ ~Exists(Program, m) /\ Exists(Program, other)
        /\ Fresh(Program) # {}
        /\ Program.msg[other].child = Null =>
             \A x \in Fresh(Program) : Fresh(Program) \ {x} # {}
    BY <1>1, Source
  <2>2. /\ Value(CopyConstructed(Program, m, other), m) = Value(Program, other)
        /\ Value(CopyConstructed(Program, m, other), other) = Value(Program, other)
    BY <2>1, CopyConstructedSound
  <2>3. Value(MoveConstructed(Program, m, other), m) = Value(Program, other)
    BY <2>1, MoveConstructedSound
  <2> QED
    BY <2>2, <2>3
<1>2. ASSUME IInv, NEW m \in Messages, NEW other \in Messages, MayAssign(m, other)
      PROVE  /\ Value(CopyAssigned(Program, m, other), m) = Value(Program, other)
             /\ Value(CopyAssigned(Program, m, other), other) = Value(Program, other)
             /\ \A s \in MoveAssigned(Program, m, other) : Value(s, m) = Value(Program, other)
  <2>1. /\ Sound(Program) /\ Exists(Program, m) /\ Exists(Program, other)
        /\ Ample(Program, m, other)
    BY <1>2, Together
  <2>2. /\ Value(CopyAssigned(Program, m, other), m) = Value(Program, other)
        /\ Value(CopyAssigned(Program, m, other), other) = Value(Program, other)
    BY <2>1, CopyAssignedSound
  <2>3. ASSUME NEW s \in MoveAssigned(Program, m, other) PROVE Value(s, m) = Value(Program, other)
    <3>1. MoveDone(Program, s, m, other)
      BY <2>1, MoveAssignedSound
    <3> QED
      BY <3>1 DEF MoveDone
  <2> QED
    BY <2>2, <2>3
<1>3. ASSUME IInv PROVE AssignmentCarriesValue
  BY <1>1, <1>2, <1>3 DEF AssignmentCarriesValue
<1> QED
  BY <1>3, Invariance, PTL

(* Assignments and setters announce every property that they change in the  *)
(* message they are called on or move from.                                 *)
THEOREM ChangesAnnounced == Spec => []ChangeIsTold
<1> DEFINE all == {"kind", "child", "list"}
<1>0. Program.msg = msg
  BY DEF Program
<1>1. ASSUME IInv, NEW m \in Messages, NEW other \in Messages, MayConstruct(m, other)
      PROVE  Tells(MoveConstructed(Program, m, other), other, all)
  <2> DEFINE r == MoveConstructed(Program, m, other)
  <2>1. /\ Sound(Program) /\ ~Exists(Program, m) /\ Exists(Program, other)
        /\ Fresh(Program) # {}
        /\ Program.msg[other].child = Null =>
             \A x \in Fresh(Program) : Fresh(Program) \ {x} # {}
    BY <1>1, Source
  <2>2. /\ ChildV(r, other) # ChildV(Program, other) => <<r.msg[other].child, "v">> \in r.told
        /\ <<other, "list">> \in r.told
        /\ r.msg[other].kind = Program.msg[other].kind
    BY <2>1, MoveConstructedSound
  <2> HIDE DEF r
  <2>3. Tells(r, other, all)
    BY <1>0, <2>2 DEF Tells
  <2> QED
    BY <2>3 DEF r
<1>2. ASSUME IInv, NEW m \in Messages, NEW other \in Messages, MayAssign(m, other)
      PROVE  /\ Tells(CopyAssigned(Program, m, other), m, all)
             /\ \A s \in MoveAssigned(Program, m, other) :
                  Tells(s, m, {"child", "list"}) /\ Tells(s, other, {"child", "list"})
  <2>1. /\ Sound(Program) /\ Exists(Program, m) /\ Exists(Program, other)
        /\ Ample(Program, m, other)
    BY <1>2, Together
  <2> DEFINE r == CopyAssigned(Program, m, other)
  <2>2. /\ ChildV(r, m) # ChildV(Program, m) => <<m, "child">> \in r.told
        /\ r.msg[m].list # Program.msg[m].list => <<m, "list">> \in r.told
        /\ r.msg[m].kind # Program.msg[m].kind => <<m, "kind">> \in r.told
    BY <2>1, CopyAssignedSound
  <2> HIDE DEF r
  <2>3. Tells(r, m, all)
    BY <1>0, <2>2 DEF Tells
  <2>4. ASSUME NEW s \in MoveAssigned(Program, m, other)
        PROVE  Tells(s, m, {"child", "list"}) /\ Tells(s, other, {"child", "list"})
    <3>1. /\ ChildV(s, m) # ChildV(Program, m) => <<m, "child">> \in s.told
          /\ ChildV(s, other) # ChildV(Program, other) => <<other, "child">> \in s.told
          /\ s.msg[m].list # Program.msg[m].list => <<m, "list">> \in s.told
          /\ s.msg[other].list # Program.msg[other].list => <<other, "list">> \in s.told
      <4>1. MoveDone(Program, s, m, other)
        BY <2>1, MoveAssignedSound
      <4> QED
        BY <4>1 DEF MoveDone
    <3> QED
      BY <1>0, <3>1 DEF Tells
  <2> QED
    BY <2>3, <2>4 DEF r
<1>3. ASSUME IInv, NEW m \in Messages, NEW other \in Messages, MayAssign(m, other)
      PROVE  MayAssign(m, m)
  <2>1. Usable(Program, m) /\ Room({m, other}, 0)
    BY <1>3 DEF MayAssign
  <2>2. Room({m, m}, 0)
    BY <2>1, FewerNeeded
  <2> QED
    BY <2>1, <2>2 DEF MayAssign
<1>4. ASSUME IInv, NEW m \in Messages, MayAssign(m, m), NEW p \in Pointers(m)
      PROVE  Tells(SetChildP(Program, m, p), m, all)
  <2> DEFINE r == SetChildP(Program, m, p)
  <2>1. /\ Sound(Program) /\ Exists(Program, m)
        /\ Program.msg[m].child = Null => Fresh(Program) # {}
    BY <1>4, Alone
  <2>2. /\ p \in Objects \union {Null}
        /\ p # Null => Live(Program, p) /\ ~InList(Program, p)
    BY <1>4, PointersAre
  <2>3. /\ r.msg[m].kind = Program.msg[m].kind /\ r.msg[m].list = Program.msg[m].list
        /\ ChildV(r, m) # ChildV(Program, m) => <<m, "child">> \in r.told
    BY <2>1, <2>2, SetChildPSound
  <2> HIDE DEF r
  <2>4. Tells(r, m, all)
    BY <1>0, <2>3 DEF Tells
  <2> QED
    BY <2>4 DEF r
<1>5. ASSUME IInv, NEW m \in Messages, MayAssign(m, m), NEW x \in Values
      PROVE  Tells(SetChild(Program, m, x), m, all)
  <2> DEFINE r == SetChild(Program, m, x)
  <2>1. /\ Sound(Program) /\ Exists(Program, m)
        /\ Program.msg[m].child = Null => Fresh(Program) # {}
    BY <1>5, Alone
  <2>2. /\ r.msg[m].kind = Program.msg[m].kind /\ r.msg[m].list = Program.msg[m].list
        /\ ChildV(r, m) # ChildV(Program, m) => <<m, "child">> \in r.told
    BY <2>1, SetChildSound
  <2> HIDE DEF r
  <2>3. Tells(r, m, all)
    BY <1>0, <2>2 DEF Tells
  <2> QED
    BY <2>3 DEF r
<1>6. ASSUME IInv PROVE ChangeIsTold
  BY <1>1, <1>2, <1>3, <1>4, <1>5, <1>6 DEF ChangeIsTold
<1> QED
  BY <1>6, Invariance, PTL
=============================================================================
