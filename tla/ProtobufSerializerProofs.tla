-------------------- MODULE ProtobufSerializerProofs --------------------
(***************************************************************************)
(* What is proved about QProtobufSerializer, for every message type whose  *)
(* embedded messages are flat, every value, every order of properties,     *)
(* every reader that knows a part of them and every point at which the     *)
(* input ends.                                                             *)
(*                                                                         *)
(* The argument: each value that serializeProperty writes is read back     *)
(* from where it stands, or the iterator throws when it is cut (varints,   *)
(* lengths, lists, headers, embedded messages: PropertyWritten).  So the   *)
(* fields of a message take the receiver's object step by step from its    *)
(* default to the sender's.  The inductive invariant IInv says that the    *)
(* decoder stands between two of these steps or inside one.  The           *)
(* recursive functions of the wire format are CHOOSE terms; the first part *)
(* shows that such a recursion has a solution.                             *)
(***************************************************************************)
EXTENDS ProtobufSerializer, WellFoundedInduction, SequenceTheorems, FiniteSetTheorems, TLAPS

-----------------------------------------------------------------------------
(***************************************************************************)
(* Recursion and induction over the numbers, by way of the least           *)
(* counterexample.                                                         *)
(***************************************************************************)

(* Every set of numbers that is not empty has a least one. *)
LEMMA LeastNumber ==
  ASSUME NEW T, T \subseteq Nat, T # {}
  PROVE  \E i \in T : \A j \in T : ~(j < i)
<1> DEFINE R == OpToRel(<, Nat)
<1>1. IsWellFoundedOn(R, Nat)
    BY NatLessThanWellFounded
<1>2. \A x, y \in Nat : y < x => <<y, x>> \in R
    BY DEF OpToRel
<1> HIDE DEF R
<1>3. \E x \in T : \A y \in T : ~(<<y, x>> \in R)
    BY <1>1, WFMin
<1> QED
    BY <1>2, <1>3

(* A set of numbers that has each number whose predecessors it has is all of Nat. *)
LEMMA Induction ==
  ASSUME NEW T, \A n \in Nat : (\A m \in 0..(n - 1) : m \in T) => n \in T
  PROVE  \A n \in Nat : n \in T
<1> DEFINE U == {n \in Nat : n \notin T}
<1> SUFFICES ASSUME U # {} PROVE FALSE
    OBVIOUS
<1>1. PICK i \in U : \A j \in U : ~(j < i)
    BY LeastNumber
<1>2. \A m \in 0..(i - 1) : m \in T
  <2> SUFFICES ASSUME NEW m \in 0..(i - 1), m \notin T PROVE FALSE
      OBVIOUS
  <2>1. i \in Nat /\ m \in Nat /\ m < i
      BY <1>1
  <2>2. m \in U
      BY <2>1
  <2> QED
      BY <1>1, <2>1, <2>2
<1> QED
    BY <1>1, <1>2

(***************************************************************************)
(* A recursion: the value at d comes from the value at pred[d], which has  *)
(* a smaller measure, unless d is in B, where it is base[d].  Agrees says  *)
(* that f obeys the recursion at every d of a measure below n.             *)
(***************************************************************************)
Step(B, base, pred, step, f, d) == IF d \in B THEN base[d] ELSE step[d][f[pred[d]]]

(* f obeys the recursion at every d of a measure below n. *)
Agrees(D, mu, B, base, pred, step, f, n) ==
  \A d \in D : mu[d] < n => f[d] = Step(B, base, pred, step, f, d)

(* The recursion is well-founded and stays among the values V. *)
Recursion(D, V, mu, B, base, pred, step) ==
  /\ mu \in [D -> Nat]
  /\ \A d \in D \cap B : base[d] \in V
  /\ \A d \in D \ B : pred[d] \in D /\ mu[pred[d]] < mu[d]
  /\ \A d \in D \ B : \A v \in V : step[d][v] \in V

(* Some f obeys the recursion up to any measure n. *)
LEMMA Approximation ==
  ASSUME NEW D, NEW V, NEW mu, NEW B, NEW base, NEW pred, NEW step,
         Recursion(D, V, mu, B, base, pred, step), V # {}
  PROVE  \A n \in Nat : \E f \in [D -> V] : Agrees(D, mu, B, base, pred, step, f, n)
<1> DEFINE T == {n \in Nat : \E f \in [D -> V] : Agrees(D, mu, B, base, pred, step, f, n)}
<1>1. ASSUME NEW n \in Nat, \A m \in 0..(n - 1) : m \in T PROVE n \in T
  <2>1. CASE n = 0
    <3>1. PICK v \in V : TRUE
        OBVIOUS
    <3>2. [d \in D |-> v] \in [D -> V]
        OBVIOUS
    <3>3. Agrees(D, mu, B, base, pred, step, [d \in D |-> v], 0)
        BY DEF Agrees, Recursion
    <3> QED
        BY <2>1, <3>2, <3>3
  <2>2. CASE n # 0
    <3>1. n - 1 \in T
        BY <1>1, <2>2
    <3>2. PICK f \in [D -> V] : Agrees(D, mu, B, base, pred, step, f, n - 1)
        BY <3>1
    <3> DEFINE g == [d \in D |-> Step(B, base, pred, step, f, d)]
    <3>3. g \in [D -> V]
        BY <3>2 DEF Step, Recursion
    <3>4. ASSUME NEW d \in D, mu[d] < n PROVE g[d] = Step(B, base, pred, step, g, d)
      <4>1. CASE d \in B
          BY <4>1 DEF Step
      <4>2. CASE d \notin B
        <5>1. pred[d] \in D /\ mu[pred[d]] < n - 1
            BY <3>4, <4>2 DEF Recursion
        <5>2. g[pred[d]] = f[pred[d]]
            BY <3>2, <5>1 DEF Agrees
        <5> QED
            BY <4>2, <5>2 DEF Step
      <4> QED
          BY <4>1, <4>2
    <3>5. Agrees(D, mu, B, base, pred, step, g, n)
        BY <3>4 DEF Agrees
    <3> QED
        BY <3>3, <3>5
  <2> QED
      BY <2>1, <2>2
<1> HIDE DEF T
<1>2. \A n \in Nat : n \in T
    BY <1>1, Induction
<1> QED
    BY <1>2 DEF T

(* Two that obey it up to n agree up to n. *)
LEMMA Agreement ==
  ASSUME NEW D, NEW V, NEW mu, NEW B, NEW base, NEW pred, NEW step,
         Recursion(D, V, mu, B, base, pred, step),
         NEW f, NEW g, NEW n \in Nat,
         Agrees(D, mu, B, base, pred, step, f, n),
         Agrees(D, mu, B, base, pred, step, g, n)
  PROVE  \A d \in D : mu[d] < n => f[d] = g[d]
<1> DEFINE T == {k \in Nat : \A d \in D : mu[d] = k /\ k < n => f[d] = g[d]}
<1>1. ASSUME NEW k \in Nat, \A m \in 0..(k - 1) : m \in T PROVE k \in T
  <2> SUFFICES ASSUME NEW d \in D, mu[d] = k, k < n PROVE f[d] = g[d]
      OBVIOUS
  <2>1. f[d] = Step(B, base, pred, step, f, d) /\ g[d] = Step(B, base, pred, step, g, d)
      BY DEF Agrees
  <2>2. CASE d \in B
      BY <2>1, <2>2 DEF Step
  <2>3. CASE d \notin B
    <3>1. pred[d] \in D /\ mu[pred[d]] \in 0..(k - 1)
        BY <2>3 DEF Recursion
    <3>2. f[pred[d]] = g[pred[d]]
        BY <1>1, <3>1
    <3> QED
        BY <2>1, <2>3, <3>2 DEF Step
  <2> QED
      BY <2>2, <2>3
<1> HIDE DEF T
<1>2. \A k \in Nat : k \in T
    BY <1>1, Induction
<1> QED
    BY <1>2 DEF T, Recursion

(* A recursion whose measure falls has a solution. *)
THEOREM RecursionSolved ==
  ASSUME NEW D, NEW V, NEW mu, NEW B, NEW base, NEW pred, NEW step,
         Recursion(D, V, mu, B, base, pred, step), V # {}
  PROVE  \E f \in [D -> V] : \A d \in D : f[d] = Step(B, base, pred, step, f, d)
<1> DEFINE App(n) == CHOOSE f \in [D -> V] : Agrees(D, mu, B, base, pred, step, f, n)
           F == [d \in D |-> App(mu[d] + 1)[d]]
<1>1. \A n \in Nat : App(n) \in [D -> V] /\ Agrees(D, mu, B, base, pred, step, App(n), n)
    BY Approximation
<1>2. \A d \in D : mu[d] \in Nat
    BY DEF Recursion
<1> HIDE DEF App
<1>3. F \in [D -> V]
    BY <1>1, <1>2
<1>4. ASSUME NEW d \in D PROVE F[d] = Step(B, base, pred, step, F, d)
  <2>1. mu[d] + 1 \in Nat /\ mu[d] < mu[d] + 1
      BY <1>2
  <2>2. App(mu[d] + 1)[d] = Step(B, base, pred, step, App(mu[d] + 1), d)
      BY <1>1, <2>1 DEF Agrees
  <2>3. CASE d \in B
      BY <2>2, <2>3 DEF Step
  <2>4. CASE d \notin B
    <3>1. pred[d] \in D /\ mu[pred[d]] \in Nat /\ mu[pred[d]] < mu[d] /\ mu[pred[d]] + 1 \in Nat
        BY <2>4 DEF Recursion
    <3>2. Agrees(D, mu, B, base, pred, step, App(mu[d] + 1), mu[pred[d]] + 1)
        BY <1>1, <1>2, <2>1, <3>1 DEF Agrees
    <3>3. Agrees(D, mu, B, base, pred, step, App(mu[pred[d]] + 1), mu[pred[d]] + 1)
        BY <1>1, <3>1
    <3>4. App(mu[d] + 1)[pred[d]] = App(mu[pred[d]] + 1)[pred[d]]
        BY <3>1, <3>2, <3>3, Agreement
    <3> QED
        BY <2>2, <2>4, <3>1, <3>4 DEF Step
  <2> QED
      BY <2>3, <2>4
<1> QED
    BY <1>3, <1>4

(* What holds where a recursion ends, and at d if it holds at pred[d], holds everywhere. *)
Descends(D, mu, B, pred, T) ==
  /\ \A d \in D : mu[d] \in Nat
  /\ \A d \in D \cap B : d \in T
  /\ \A d \in D \ B : pred[d] \in D /\ mu[pred[d]] < mu[d] /\ (pred[d] \in T => d \in T)

(* The induction along a recursion. *)
LEMMA Descent ==
  ASSUME NEW D, NEW mu, NEW B, NEW pred, NEW T, Descends(D, mu, B, pred, T)
  PROVE  \A d \in D : d \in T
<1> USE DEF Descends
<1> DEFINE U == {n \in Nat : \A d \in D : mu[d] = n => d \in T}
<1>1. ASSUME NEW n \in Nat, \A m \in 0..(n - 1) : m \in U PROVE n \in U
  <2> SUFFICES ASSUME NEW d \in D, mu[d] = n PROVE d \in T
      OBVIOUS
  <2>1. CASE d \in B
      BY <2>1
  <2>2. CASE d \notin B
    <3>1. pred[d] \in D /\ mu[pred[d]] \in 0..(n - 1)
        BY <2>2
    <3>2. pred[d] \in T
        BY <1>1, <3>1
    <3> QED
        BY <2>2, <3>2
  <2> QED
      BY <2>1, <2>2
<1> HIDE DEF U
<1>2. \A n \in Nat : n \in U
    BY <1>1, Induction
<1> QED
    BY <1>2 DEF U

-----------------------------------------------------------------------------
(***************************************************************************)
(* The number conversions of the wire format lose nothing, for integers of *)
(* every width.                                                            *)
(***************************************************************************)

(* The numbers of the signed integer type. *)
SignedRange == (-Half)..(Half - 1)

(* A number below the modulus is its own remainder. *)
LEMMA ModSmall ==
  ASSUME NEW m \in Nat, m > 0, NEW v \in Int, 0 <= v, v < m
  PROVE  v % m = v
OBVIOUS

(* A negative number not below minus the modulus wraps around once. *)
LEMMA ModNegative ==
  ASSUME NEW m \in Nat, m > 0, NEW v \in Int, -m <= v, v < 0
  PROVE  v % m = v + m
OBVIOUS

(* static_cast to the unsigned type of the same width and back is exact:    *)
(* an int32, negative or not, survives serializeBasic and deserializeBasic. *)
THEOREM SignedInverse ==
  \A v \in SignedRange :
    Unsigned(v) \in 0..(Modulus - 1) /\ Signed(Unsigned(v)) = v
<1> SUFFICES ASSUME NEW v \in SignedRange
             PROVE  Unsigned(v) \in 0..(Modulus - 1) /\ Signed(Unsigned(v)) = v
    OBVIOUS
<1>1. /\ Half \in Nat /\ Half > 0 /\ v \in Int
      /\ Modulus \in Nat /\ Modulus > 0 /\ Modulus = 2 * Half
      /\ -Half <= v /\ v < Half
    BY WidthAssumption DEF Modulus, SignedRange
<1>2. CASE v >= 0
  <2>1. Unsigned(v) = v
      BY <1>1, <1>2, ModSmall DEF Unsigned
  <2> QED
      BY <1>1, <1>2, <2>1 DEF Signed
<1>3. CASE v < 0
  <2>1. Unsigned(v) = v + Modulus
      BY <1>1, <1>3, ModNegative DEF Unsigned
  <2> QED
      BY <1>1, <1>3, <2>1 DEF Signed
<1> QED
    BY <1>1, <1>2, <1>3

(* The ZigZag number of v is 2v for the positive and -2v - 1 for the        *)
(* negative numbers: the shift and the exclusive or never overflow.         *)
LEMMA ZigZagValue ==
  \A v \in SignedRange : ZigZag(v) = IF v >= 0 THEN 2 * v ELSE -(2 * v) - 1
<1> SUFFICES ASSUME NEW v \in SignedRange
             PROVE  ZigZag(v) = IF v >= 0 THEN 2 * v ELSE -(2 * v) - 1
    OBVIOUS
<1>1. /\ Half \in Nat /\ Half > 0 /\ v \in Int
      /\ Modulus \in Nat /\ Modulus > 0 /\ Modulus = 2 * Half
      /\ -Half <= v /\ v < Half
    BY WidthAssumption DEF Modulus, SignedRange
<1>2. CASE v >= 0
  <2>1. Unsigned(2 * v) = 2 * v
    <3>1. 2 * v \in Int /\ 0 <= 2 * v /\ 2 * v < Modulus
        BY <1>1, <1>2
    <3> QED
        BY <1>1, <3>1, ModSmall DEF Unsigned
  <2> QED
      BY <1>1, <1>2, <2>1 DEF ZigZag
<1>3. CASE v < 0
  <2>1. Unsigned(2 * v) = 2 * v + Modulus
    <3>1. 2 * v \in Int /\ -Modulus <= 2 * v /\ 2 * v < 0
        BY <1>1, <1>3
    <3> QED
        BY <1>1, <3>1, ModNegative DEF Unsigned
  <2> QED
      BY <1>1, <1>3, <2>1 DEF ZigZag
<1> QED
    BY <1>1, <1>2, <1>3

(* The ZigZag conversion of sint32 and sint64 is exact, down to the least   *)
(* number of the type, and yields an unsigned number of the same width.     *)
THEOREM ZigZagInverse ==
  \A v \in SignedRange :
    ZigZag(v) \in 0..(Modulus - 1) /\ UnZigZag(ZigZag(v)) = v
<1> SUFFICES ASSUME NEW v \in SignedRange
             PROVE  ZigZag(v) \in 0..(Modulus - 1) /\ UnZigZag(ZigZag(v)) = v
    OBVIOUS
<1>1. /\ Half \in Nat /\ Half > 0 /\ v \in Int
      /\ Modulus \in Nat /\ Modulus > 0 /\ Modulus = 2 * Half
      /\ -Half <= v /\ v < Half
    BY WidthAssumption DEF Modulus, SignedRange
<1>2. CASE v >= 0
  <2>1. ZigZag(v) = 2 * v
      BY <1>2, ZigZagValue
  <2>2. (2 * v) % 2 = 0 /\ (2 * v) \div 2 = v
      BY <1>1
  <2> QED
      BY <1>1, <1>2, <2>1, <2>2 DEF UnZigZag, Signed
<1>3. CASE v < 0
  <2>1. ZigZag(v) = -(2 * v) - 1
      BY <1>1, <1>3, ZigZagValue
  <2>2. (-(2 * v) - 1) % 2 = 1 /\ (-(2 * v) - 1) \div 2 = -v - 1
      BY <1>1
  <2> QED
      BY <1>1, <1>3, <2>1, <2>2 DEF UnZigZag, Signed
<1> QED
    BY <1>1, <1>2, <1>3

(* A header that fits into uint32 gives back its field number and its wire  *)
(* type, so that no field is taken for another or skipped by a wrong length.*)
THEOREM HeaderInverse ==
  ASSUME NEW field \in Nat, NEW type \in 0..7, field * 8 + type < Modulus
  PROVE  /\ Unsigned(field * 8 + type) \div 8 = field
         /\ Unsigned(field * 8 + type) % 8 = type
<1>1. Modulus \in Nat /\ Modulus > 0 /\ field * 8 + type \in Nat
    BY WidthAssumption DEF Modulus
<1>2. Unsigned(field * 8 + type) = field * 8 + type
    BY <1>1, ModSmall DEF Unsigned
<1>3. (field * 8 + type) \div 8 = field /\ (field * 8 + type) % 8 = type
    OBVIOUS
<1> QED
    BY <1>2, <1>3

(* The iterator either throws or moves forward inside the bytes. *)
THEOREM AdvanceInBounds ==
  ASSUME NEW data \in Seq(Nat), NEW it \in 0..Len(data), NEW count \in Nat
  PROVE  \/ Advance(data, it, count) = Thrown
         \/ Advance(data, it, count) \in it..Len(data)
BY DEF Advance, Thrown

(* A varint ends inside the bytes or with the zero behind them, for that     *)
(* zero has no continuation bit: the loops of deserializeVarintCommon and    *)
(* skipVarint stop there at the latest.                                      *)
LEMMA VarintEndFound ==
  ASSUME NEW data \in Seq(Nat), NEW it \in 0..Len(data)
  PROVE  VarintEnd(data, it) \in it..Len(data)
<1> DEFINE T == {i \in it..Len(data) : At(data, i) < Chunk}
<1>1. Chunk \in Nat /\ Chunk > 0 /\ Len(data) \in Nat
    BY WidthAssumption
<1>2. At(data, Len(data)) < Chunk
    BY <1>1 DEF At
<1>3. Len(data) \in T /\ T \subseteq Nat
    BY <1>1, <1>2
<1>4. PICK i \in T : \A j \in T : ~(j < i)
    BY <1>3, LeastNumber
<1>5. \A j \in Nat : j < Len(data) => At(data, j) \in Nat
    BY DEF At
<1>6. \A j \in it..(i - 1) : At(data, j) >= Chunk
  <2> SUFFICES ASSUME NEW j \in it..(i - 1) PROVE At(data, j) >= Chunk
      OBVIOUS
  <2>1. j \in it..Len(data) /\ j < i /\ j < Len(data) /\ j \in Nat
      BY <1>1, <1>4
  <2>2. ~(At(data, j) < Chunk)
      BY <1>4, <2>1
  <2> QED
      BY <1>1, <1>5, <2>1, <2>2
<1>7. i \in it..Len(data) /\ At(data, i) < Chunk
    BY <1>4
<1> QED
    BY <1>6, <1>7 DEF VarintEnd

(* Reading or skipping a varint throws or moves the iterator forward by a   *)
(* byte at least, and never past the end: this is what makes the loop of    *)
(* deserializeMessage end on every input.                                    *)
THEOREM VarintProgress ==
  ASSUME NEW data \in Seq(Nat), NEW it \in 0..Len(data)
  PROVE  LET next == DeserializeVarint(data, it).it
         IN next = Thrown \/ next \in (it + 1)..Len(data)
<1> DEFINE end == VarintEnd(data, it)
<1>1. end \in it..Len(data)
    BY VarintEndFound
<1>2. DeserializeVarint(data, it).it = Advance(data, end, 1)
    BY DEF DeserializeVarint
<1> HIDE DEF end
<1> QED
    BY <1>1, <1>2 DEF Advance, Thrown

-----------------------------------------------------------------------------
(***************************************************************************)
(* Varints: what serializeVarintCommon writes.                             *)
(***************************************************************************)

(* Division with remainder. *)
LEMMA DivMod ==
  ASSUME NEW n \in Nat, NEW c \in Nat, c > 1
  PROVE  /\ n \div c \in Nat /\ n % c \in 0..(c - 1)
         /\ n = c * (n \div c) + (n % c)
<1>1. n \div c \in Int /\ n % c \in 0..(c - 1)
    OBVIOUS
<1>2. n = c * (n \div c) + (n % c)
    OBVIOUS
<1>3. n \div c >= 0
    BY <1>1, <1>2
<1> QED
    BY <1>1, <1>2, <1>3

(* A varint's number shrinks from group to group. *)
LEMMA DivSmaller ==
  ASSUME NEW n \in Nat, NEW c \in Nat, c > 1, n >= c
  PROVE  n \div c < n /\ n \div c > 0
<1> DEFINE q == n \div c
           r == n % c
<1>1. q \in Nat /\ r \in 0..(c - 1) /\ n = c * q + r
    BY DivMod
<1> HIDE DEF q, r
<1>2. ASSUME q >= n PROVE FALSE
  <2>1. (c - 2) * q >= 0
      BY <1>1
  <2>2. c * q >= 2 * q
      BY <1>1, <2>1
  <2> QED
      BY <1>1, <1>2, <2>2
<1>3. ASSUME q = 0 PROVE FALSE
    BY <1>1, <1>3
<1> QED
    BY <1>1, <1>2, <1>3 DEF q

(* The continuation bit, Chunk, comes off with the remainder. *)
LEMMA ModAdd ==
  ASSUME NEW n \in Nat, NEW c \in Nat, c > 1, n < c
  PROVE  (n + c) % c = n /\ n % c = n
<1>1. n % c = n
  OBVIOUS
<1>2. (n + c) % c = n
  OBVIOUS
<1> QED BY <1>1, <1>2

(* The bytes that the recursion in SerializeVarint makes. *)
Groups ==
  CHOOSE groups : groups =
    [n \in Nat |-> IF n < Chunk THEN <<n>> ELSE <<(n % Chunk) + Chunk>> \o groups[n \div Chunk]]

(* The recursion of serializeVarintCommon has a solution, so Groups is one. *)
LEMMA GroupsSolved ==
  /\ Groups \in [Nat -> Seq(Nat)]
  /\ \A n \in Nat : Groups[n] =
       IF n < Chunk THEN <<n>> ELSE <<(n % Chunk) + Chunk>> \o Groups[n \div Chunk]
<1> DEFINE V == Seq(Nat)
           B == {n \in Nat : n < Chunk}
           mu == [n \in Nat |-> n]
           base == [n \in Nat |-> <<n>>]
           pred == [n \in Nat |-> n \div Chunk]
           step == [n \in Nat |-> [s \in V |-> <<(n % Chunk) + Chunk>> \o s]]
           Body(f) == [n \in Nat |-> IF n < Chunk THEN <<n>>
                                     ELSE <<(n % Chunk) + Chunk>> \o f[n \div Chunk]]
<1>1. Chunk \in Nat /\ Chunk > 1
    BY WidthAssumption
<1>2. \A n \in Nat : (n % Chunk) + Chunk \in Nat /\ n \div Chunk \in Nat
    BY <1>1, DivMod
<1>3. Recursion(Nat, V, mu, B, base, pred, step)
  <2>1. mu \in [Nat -> Nat] /\ \A d \in Nat \cap B : base[d] \in V
      OBVIOUS
  <2>2. ASSUME NEW d \in Nat \ B PROVE pred[d] \in Nat /\ mu[pred[d]] < mu[d]
      BY <1>1, <1>2, DivSmaller
  <2>3. ASSUME NEW d \in Nat \ B, NEW v \in V PROVE step[d][v] \in V
    <3>1. <<(d % Chunk) + Chunk>> \in V
        BY <1>2
    <3>2. step[d][v] = <<(d % Chunk) + Chunk>> \o v
        OBVIOUS
    <3> HIDE DEF step
    <3> QED
        BY <3>1, <3>2
  <2> QED
      BY <2>1, <2>2, <2>3 DEF Recursion
<1>4. <<>> \in V
    OBVIOUS
<1> HIDE DEF V, B, mu, base, pred, step
<1>5. PICK f \in [Nat -> V] : \A d \in Nat : f[d] = Step(B, base, pred, step, f, d)
    BY <1>3, <1>4, RecursionSolved
<1>6. ASSUME NEW n \in Nat
      PROVE  f[n] = IF n < Chunk THEN <<n>> ELSE <<(n % Chunk) + Chunk>> \o f[n \div Chunk]
    BY <1>2, <1>5 DEF Step, V, B, base, pred, step
<1>7. f = Body(f)
    BY <1>5, <1>6
<1>8. Groups = Body(Groups)
    BY <1>7 DEF Groups
<1>0. \A n \in Nat : /\ n < Chunk => Groups[n] = <<n>>
                     /\ ~(n < Chunk) => Groups[n] = <<(n % Chunk) + Chunk>> \o Groups[n \div Chunk]
    BY <1>8, Zenon
<1>9. Groups \in [Nat -> V]
  <2> DEFINE T == {n \in Nat : Groups[n] \in V}
  <2> HIDE DEF T
  <2>1. ASSUME NEW n \in Nat, \A m \in 0..(n - 1) : m \in T PROVE n \in T
    <3>1. CASE n < Chunk
        BY <1>8, <3>1 DEF T, V
    <3>2. CASE ~(n < Chunk)
      <4>0. n >= Chunk
          BY <1>1, <3>2
      <4>1. n \div Chunk \in 0..(n - 1)
          BY <1>1, <1>2, <4>0, DivSmaller
      <4>2. Groups[n \div Chunk] \in V /\ <<(n % Chunk) + Chunk>> \in V
        <5>1. Groups[n \div Chunk] \in V
            BY <2>1, <4>1 DEF T
        <5>2. <<(n % Chunk) + Chunk>> \in V
            BY <1>2 DEF V
        <5> QED
            BY <5>1, <5>2
      <4>3. Groups[n] = <<(n % Chunk) + Chunk>> \o Groups[n \div Chunk]
          BY <1>0, <3>2, Zenon
      <4>4. \A a, b \in V : a \o b \in V
          BY DEF V
      <4> QED
          BY <4>2, <4>3, <4>4 DEF T
    <3> QED
        BY <3>1, <3>2
  <2>2. \A n \in Nat : n \in T
      BY <2>1, Induction
  <2> QED
      BY <1>8, <2>2 DEF T
<1> QED
    BY <1>8, <1>9 DEF V

(* SerializeVarint obeys its equation. *)
LEMMA VarintEquation ==
  ASSUME NEW v \in Nat
  PROVE  /\ SerializeVarint(v) \in Seq(Nat)
         /\ v < Chunk => SerializeVarint(v) = <<v>>
         /\ ~(v < Chunk) =>
              SerializeVarint(v) = <<(v % Chunk) + Chunk>> \o SerializeVarint(v \div Chunk)
<1>1. \A n : SerializeVarint(n) = Groups[n]
    BY DEF SerializeVarint, Groups
<1>2. Chunk \in Nat
    BY WidthAssumption
<1>3. Groups[v] \in Seq(Nat)
    BY GroupsSolved
<1>4. Groups[v] = IF v < Chunk THEN <<v>> ELSE <<(v % Chunk) + Chunk>> \o Groups[v \div Chunk]
    BY GroupsSolved
<1> QED
    BY <1>1, <1>3, <1>4, Zenon

-----------------------------------------------------------------------------
(***************************************************************************)
(* Varints: deserializeVarintCommon reads them back, or throws when they   *)
(* are cut.                                                                *)
(***************************************************************************)

(* The bytes b stand in data at the position it, or data ends inside of them. *)
Placed(data, it, b) ==
  it + Len(b) <= Len(data) /\ \A j \in 1..Len(b) : data[it + j] = b[j]

(* data ends before b is complete, and what is there agrees with b. *)
Cut(data, it, b) ==
  Len(data) < it + Len(b) /\ \A j \in 1..(Len(data) - it) : data[it + j] = b[j]

(* What SMT needs of a concatenation. *)
LEMMA ConcatBytes ==
  ASSUME NEW b \in Seq(Nat), NEW c \in Seq(Nat)
  PROVE  /\ b \o c \in Seq(Nat)
         /\ Len(b \o c) = Len(b) + Len(c)
         /\ \A j \in 1..Len(b) : (b \o c)[j] = b[j]
         /\ \A j \in 1..Len(c) : (b \o c)[Len(b) + j] = c[j]
OBVIOUS

(* Two pieces stand one behind the other. *)
LEMMA PlacedConcat ==
  ASSUME NEW data \in Seq(Nat), NEW it \in Nat, NEW b \in Seq(Nat), NEW c \in Seq(Nat)
  PROVE  Placed(data, it, b \o c) <=> Placed(data, it, b) /\ Placed(data, it + Len(b), c)
<1> DEFINE bc == b \o c
           L == Len(b)
           M == Len(c)
<1>1. /\ bc \in Seq(Nat) /\ Len(bc) = L + M /\ L \in Nat /\ M \in Nat
      /\ \A j \in 1..L : bc[j] = b[j]
      /\ \A j \in 1..M : bc[L + j] = c[j]
    BY ConcatBytes
<1>2. Len(data) \in Nat
    OBVIOUS
<1> HIDE DEF bc, L, M
<1>3. ASSUME Placed(data, it, bc)
      PROVE  Placed(data, it, b) /\ Placed(data, it + L, c)
  <2>1. /\ it + L + M <= Len(data)
        /\ \A j \in 1..(L + M) : data[it + j] = bc[j]
      BY <1>1, <1>3 DEF Placed
  <2>2. Placed(data, it, b)
    <3>1. it + L <= Len(data) /\ \A j \in 1..L : j \in 1..(L + M)
        BY <1>1, <1>2, <2>1
    <3>2. \A j \in 1..L : data[it + j] = b[j]
        BY <1>1, <2>1, <3>1
    <3> QED
        BY <3>1, <3>2 DEF Placed, L
  <2>3. ASSUME NEW j \in 1..M PROVE data[(it + L) + j] = c[j]
    <3>1. L + j \in 1..(L + M) /\ it + (L + j) = (it + L) + j
        BY <1>1
    <3>2. data[(it + L) + j] = bc[L + j]
        BY <2>1, <3>1
    <3> QED
        BY <1>1, <3>2
  <2> QED
      BY <1>1, <1>2, <2>1, <2>2, <2>3 DEF Placed, M
<1>4. ASSUME Placed(data, it, b), Placed(data, it + L, c)
      PROVE  Placed(data, it, bc)
  <2>1. /\ it + L + M <= Len(data)
        /\ \A j \in 1..L : data[it + j] = b[j]
        /\ \A j \in 1..M : data[(it + L) + j] = c[j]
      BY <1>1, <1>4 DEF Placed, L, M
  <2>2. ASSUME NEW j \in 1..(L + M) PROVE data[it + j] = bc[j]
    <3>1. CASE j <= L
      <4>1. j \in 1..L
          BY <1>1, <3>1
      <4> QED
          BY <1>1, <2>1, <4>1
    <3>2. CASE j > L
      <4>1. j - L \in 1..M /\ L + (j - L) = j /\ (it + L) + (j - L) = it + j
          BY <1>1, <3>2
      <4> QED
          BY <1>1, <2>1, <4>1
    <3> QED
        BY <1>1, <3>1, <3>2
  <2>3. it + Len(bc) <= Len(data) /\ \A j \in 1..Len(bc) : data[it + j] = bc[j]
    <3>1. it + Len(bc) <= Len(data)
        BY <1>1, <1>2, <2>1
    <3> QED
        BY <1>1, <2>2, <3>1
  <2> QED
      BY <2>3 DEF Placed
<1> QED
    BY <1>3, <1>4 DEF bc, L

(* Input that ends in two pieces ends in the first, or in the second behind a whole *)
(* first.                                                                           *)
LEMMA CutConcat ==
  ASSUME NEW data \in Seq(Nat), NEW it \in 0..Len(data), NEW b \in Seq(Nat), NEW c \in Seq(Nat),
         Cut(data, it, b \o c)
  PROVE  \/ Cut(data, it, b)
         \/ /\ Placed(data, it, b) /\ Cut(data, it + Len(b), c)
            /\ it + Len(b) \in 0..Len(data)
<1> DEFINE bc == b \o c
           L == Len(b)
           M == Len(c)
<1>1. /\ bc \in Seq(Nat) /\ Len(bc) = L + M /\ L \in Nat /\ M \in Nat
      /\ \A j \in 1..L : bc[j] = b[j]
      /\ \A j \in 1..M : bc[L + j] = c[j]
    BY ConcatBytes
<1>2. Len(data) \in Nat /\ it \in Nat
    OBVIOUS
<1> HIDE DEF bc, L, M
<1>3. /\ Len(data) < it + L + M
      /\ \A j \in 1..(Len(data) - it) : data[it + j] = bc[j]
    BY <1>1, <1>2 DEF Cut, bc
<1>4. CASE Len(data) < it + L
    BY <1>1, <1>2, <1>3, <1>4 DEF Cut, L
<1>5. CASE ~(Len(data) < it + L)
  <2>1. Placed(data, it, b)
    <3>1. it + L <= Len(data) /\ \A j \in 1..L : j \in 1..(Len(data) - it)
        BY <1>1, <1>2, <1>5
    <3>2. \A j \in 1..L : data[it + j] = b[j]
        BY <1>1, <1>3, <3>1
    <3> QED
        BY <3>1, <3>2 DEF Placed, L
  <2>2. ASSUME NEW j \in 1..(Len(data) - (it + L)) PROVE data[(it + L) + j] = c[j]
    <3>1. L + j \in 1..(Len(data) - it) /\ j \in 1..M /\ it + (L + j) = (it + L) + j
        BY <1>1, <1>2, <1>3, <1>5
    <3>2. data[it + (L + j)] = bc[L + j]
        BY <1>3, <3>1
    <3> QED
        BY <1>1, <3>1, <3>2
  <2>3. Cut(data, it + L, c)
      BY <1>1, <1>2, <1>3, <2>2 DEF Cut, M
  <2> QED
      BY <1>1, <1>2, <1>5, <2>1, <2>3 DEF L
<1> QED
    BY <1>4, <1>5

-----------------------------------------------------------------------------
(* Varints. *)

(* Every byte of a varint but the last has the continuation bit. *)
LEMMA VarintShape ==
  \A v \in Nat : LET b == SerializeVarint(v)
                 IN /\ Len(b) >= 1 /\ b[Len(b)] < Chunk
                    /\ \A j \in 1..(Len(b) - 1) : b[j] >= Chunk
<1> DEFINE P(v) == LET b == SerializeVarint(v)
                   IN /\ Len(b) >= 1 /\ b[Len(b)] < Chunk
                      /\ \A j \in 1..(Len(b) - 1) : b[j] >= Chunk
           T == {v \in Nat : P(v)}
<1>1. Chunk \in Nat /\ Chunk > 1
    BY WidthAssumption
<1>2. ASSUME NEW v \in Nat, \A m \in 0..(v - 1) : m \in T PROVE v \in T
  <2>1. CASE v < Chunk
    <3>1. SerializeVarint(v) = <<v>>
        BY <2>1, VarintEquation
    <3>2. Len(<<v>>) = 1 /\ <<v>>[1] = v
        OBVIOUS
    <3>3. P(v)
        BY <2>1, <3>1, <3>2
    <3> QED
        BY <3>3
  <2>2. CASE ~(v < Chunk)
    <3> DEFINE q == v \div Chunk
               h == (v % Chunk) + Chunk
               b == SerializeVarint(q)
               c == SerializeVarint(v)
    <3>1. v >= Chunk
        BY <1>1, <2>2
    <3>2. q \in 0..(v - 1) /\ h \in Nat /\ h >= Chunk
      <4>1. q \in Nat /\ v % Chunk \in 0..(Chunk - 1)
          BY <1>1, DivMod
      <4>2. q < v
          BY <1>1, <3>1, DivSmaller
      <4> HIDE DEF q
      <4> QED
          BY <1>1, <4>1, <4>2
    <3>3. P(q)
        BY <1>2, <3>2
    <3>4. c = <<h>> \o b /\ b \in Seq(Nat)
      <4>1. c = <<h>> \o b
          BY <2>2, VarintEquation
      <4>2. q \in Nat
          BY <3>2
      <4> HIDE DEF q
      <4>3. b \in Seq(Nat)
          BY <4>2, VarintEquation
      <4> QED
          BY <4>1, <4>3
    <3> HIDE DEF q, h, b, c
    <3>5. Len(b) >= 1 /\ b[Len(b)] < Chunk /\ \A j \in 1..(Len(b) - 1) : b[j] >= Chunk
        BY <3>3 DEF b
    <3>6. Len(c) = Len(b) + 1 /\ c[1] = h /\ \A j \in 1..Len(b) : c[j + 1] = b[j]
        BY <3>2, <3>4
    <3>7. Len(b) \in Nat
        BY <3>4
    <3>8. \A j \in 1..(Len(c) - 1) : c[j] >= Chunk
      <4> SUFFICES ASSUME NEW j \in 1..(Len(c) - 1) PROVE c[j] >= Chunk
          OBVIOUS
      <4>1. CASE j = 1
          BY <3>2, <3>6, <4>1
      <4>2. CASE j # 1
        <5>1. j - 1 \in 1..(Len(b) - 1) /\ (j - 1) + 1 = j
            BY <3>6, <3>7, <4>2
        <5>2. b[j - 1] >= Chunk /\ j - 1 \in 1..Len(b)
            BY <3>5, <3>7, <5>1
        <5> QED
            BY <3>6, <5>1, <5>2
      <4> QED
          BY <4>1, <4>2
    <3>9. Len(c) >= 1 /\ c[Len(c)] < Chunk
        BY <3>5, <3>6, <3>7
    <3>10. P(v)
        BY <3>8, <3>9 DEF c
    <3> QED
        BY <3>10
  <2> QED
      BY <2>1, <2>2
<1> HIDE DEF T
<1>3. \A v \in Nat : v \in T
    BY <1>2, Induction
<1> QED
    BY <1>3 DEF T

(* A varint has at least one byte. *)
LEMMA VarintType ==
  ASSUME NEW v \in Nat
  PROVE  /\ SerializeVarint(v) \in Seq(Nat)
         /\ Len(SerializeVarint(v)) \in Nat /\ Len(SerializeVarint(v)) >= 1
<1>1. SerializeVarint(v) \in Seq(Nat)
    BY VarintEquation
<1>2. Len(SerializeVarint(v)) >= 1
    BY VarintShape
<1> QED
    BY <1>1, <1>2

(* The loop of deserializeVarintCommon stops at the first byte without continuation *)
(* bit.                                                                             *)
LEMMA VarintEndIs ==
  ASSUME NEW data \in Seq(Nat), NEW it \in Nat, NEW i \in it..Len(data),
         At(data, i) < Chunk, \A j \in it..(i - 1) : At(data, j) >= Chunk
  PROVE  VarintEnd(data, it) = i
<1> DEFINE P(k) == At(data, k) < Chunk /\ \A j \in it..(k - 1) : At(data, j) >= Chunk
           e == VarintEnd(data, it)
<1>1. \A k \in it..Len(data) : At(data, k) \in Nat
    BY DEF At
<1>2. e \in it..Len(data) /\ P(e)
    BY DEF VarintEnd
<1> HIDE DEF e
<1>3. Chunk \in Nat
    BY WidthAssumption
<1>4. ASSUME e < i PROVE FALSE
  <2>1. e \in it..(i - 1)
      BY <1>2, <1>4
  <2> QED
      BY <1>1, <1>2, <1>3, <2>1
<1>5. ASSUME i < e PROVE FALSE
  <2>1. i \in it..(e - 1)
      BY <1>2, <1>5
  <2> QED
      BY <1>1, <1>2, <1>3, <2>1
<1> QED
    BY <1>2, <1>4, <1>5 DEF e

(* That byte is the last one of a varint that was written. *)
LEMMA VarintEndPlaced ==
  ASSUME NEW data \in Seq(Nat), NEW it \in Nat, NEW v \in Nat,
         Placed(data, it, SerializeVarint(v))
  PROVE  VarintEnd(data, it) = it + Len(SerializeVarint(v)) - 1
<1> DEFINE b == SerializeVarint(v)
           L == Len(b)
<1>1. b \in Seq(Nat) /\ L \in Nat
    BY VarintType
<1>2. L >= 1 /\ b[L] < Chunk /\ \A j \in 1..(L - 1) : b[j] >= Chunk
    BY VarintShape
<1>3. it + L <= Len(data) /\ \A j \in 1..L : data[it + j] = b[j]
    BY DEF Placed
<1> HIDE DEF b, L
<1>4. ASSUME NEW j \in 1..L PROVE At(data, it + j - 1) = b[j]
    BY <1>1, <1>3 DEF At
<1>5. At(data, it + L - 1) < Chunk
    BY <1>1, <1>2, <1>4
<1>6. ASSUME NEW k \in it..((it + L - 1) - 1) PROVE At(data, k) >= Chunk
  <2>1. k - it + 1 \in 1..(L - 1) /\ it + (k - it + 1) - 1 = k
      BY <1>1
  <2>2. k - it + 1 \in 1..L
      BY <1>1, <2>1
  <2> QED
      BY <1>2, <1>4, <2>1, <2>2
<1>7. it + L - 1 \in it..Len(data)
    BY <1>1, <1>2, <1>3
<1> QED
    BY <1>5, <1>6, <1>7, VarintEndIs DEF L, b

(* In a varint that is cut the loop runs to the end of the data. *)
LEMMA VarintEndCut ==
  ASSUME NEW data \in Seq(Nat), NEW it \in 0..Len(data), NEW v \in Nat,
         Cut(data, it, SerializeVarint(v))
  PROVE  VarintEnd(data, it) = Len(data)
<1> DEFINE b == SerializeVarint(v)
           L == Len(b)
           N == Len(data)
<1>1. b \in Seq(Nat) /\ L \in Nat /\ N \in Nat /\ Chunk \in Nat /\ Chunk > 0
    BY VarintType, WidthAssumption
<1>2. \A j \in 1..(L - 1) : b[j] >= Chunk
    BY VarintShape
<1>3. N < it + L /\ \A j \in 1..(N - it) : data[it + j] = b[j]
    BY DEF Cut
<1>4. At(data, N) < Chunk
    BY <1>1 DEF At
<1> HIDE DEF b, L
<1>5. ASSUME NEW k \in it..(N - 1) PROVE At(data, k) >= Chunk
  <2>0. k \in Int /\ it <= k /\ k <= N - 1 /\ it \in Nat
      BY <1>1
  <2>1. k - it + 1 \in 1..(N - it) /\ k - it + 1 \in 1..(L - 1) /\ it + (k - it + 1) = k + 1 /\ k < N
    <3> HIDE DEF N
    <3> QED
      BY <1>1, <1>3, <2>0
  <2>2. At(data, k) = data[k + 1]
      BY <2>1 DEF At
  <2> QED
      BY <1>2, <1>3, <2>1, <2>2
<1>6. N \in it..Len(data)
    BY <1>1
<1> QED
    BY <1>4, <1>5, <1>6, VarintEndIs

(* The numbers that the recursion in DeserializeVarint computes. *)
Number(data) ==
  CHOOSE value : value =
    [i \in 0..Len(data) |->
       (At(data, i) % Chunk) + (IF At(data, i) < Chunk THEN 0 ELSE Chunk * value[i + 1])]

(* The recursion of deserializeVarintCommon has a solution, so Number is one. *)
LEMMA NumberSolved ==
  ASSUME NEW data \in Seq(Nat)
  PROVE  \A i \in 0..Len(data) :
           /\ Number(data)[i] \in Nat
           /\ At(data, i) < Chunk => Number(data)[i] = At(data, i)
           /\ ~(At(data, i) < Chunk) =>
                Number(data)[i] = (At(data, i) % Chunk) + Chunk * Number(data)[i + 1]
<1> DEFINE N == Len(data)
           D == 0..N
           B == {i \in D : At(data, i) < Chunk}
           mu == [i \in D |-> N - i]
           base == [i \in D |-> (At(data, i) % Chunk) + 0]
           pred == [i \in D |-> i + 1]
           step == [i \in D |-> [x \in Nat |-> (At(data, i) % Chunk) + Chunk * x]]
           Body(f) == [i \in 0..Len(data) |->
              (At(data, i) % Chunk) + (IF At(data, i) < Chunk THEN 0 ELSE Chunk * f[i + 1])]
<1>1. Chunk \in Nat /\ Chunk > 1 /\ N \in Nat
    BY WidthAssumption
<1>2. \A i \in D : At(data, i) \in Nat
    BY DEF At
<1>3. \A i \in D : At(data, i) % Chunk \in Nat
    BY <1>1, <1>2, DivMod
<1>4. \A i \in D \ B : i + 1 \in D
  <2>1. At(data, N) < Chunk
      BY <1>1 DEF At
  <2> QED
      BY <1>1, <2>1
<1>5. Recursion(D, Nat, mu, B, base, pred, step)
  <2>1. mu \in [D -> Nat] /\ \A d \in D \cap B : base[d] \in Nat
      BY <1>1, <1>3
  <2>2. ASSUME NEW d \in D \ B PROVE pred[d] \in D /\ mu[pred[d]] < mu[d]
      BY <1>1, <1>4
  <2>3. ASSUME NEW d \in D \ B, NEW v \in Nat PROVE step[d][v] \in Nat
    <3>1. Chunk * v \in Nat /\ At(data, d) % Chunk \in Nat
        BY <1>1, <1>3
    <3>2. step[d][v] = (At(data, d) % Chunk) + Chunk * v
        OBVIOUS
    <3> HIDE DEF step
    <3> QED
        BY <3>1, <3>2
  <2> QED
      BY <2>1, <2>2, <2>3 DEF Recursion
<1>6. Nat # {}
    OBVIOUS
<1> HIDE DEF D, B, mu, base, pred, step
<1>7. PICK f \in [D -> Nat] : \A d \in D : f[d] = Step(B, base, pred, step, f, d)
    BY <1>5, <1>6, RecursionSolved
<1>8. ASSUME NEW i \in D
      PROVE  f[i] = (At(data, i) % Chunk) + (IF At(data, i) < Chunk THEN 0 ELSE Chunk * f[i + 1])
  <2>1. CASE i \in B
      BY <1>7, <2>1 DEF Step, B, base
  <2>2. CASE i \notin B
    <3>1. f[i] = step[i][f[i + 1]]
        BY <1>7, <2>2 DEF Step, pred
    <3>2. f[i + 1] \in Nat
        BY <1>4, <1>7, <2>2
    <3> QED
        BY <2>2, <3>1, <3>2 DEF B, step
  <2> QED
      BY <2>1, <2>2
<1>9. f = Body(f)
    BY <1>7, <1>8 DEF D
<1>10. Number(data) = Body(Number(data))
    BY <1>9 DEF Number
<1> DEFINE g == Number(data)
<1> HIDE DEF g
<1>11. \A i \in D : /\ At(data, i) < Chunk => g[i] = (At(data, i) % Chunk) + 0
                    /\ ~(At(data, i) < Chunk) => g[i] = (At(data, i) % Chunk) + Chunk * g[i + 1]
    BY <1>10, Zenon DEF D, g
<1>12. \A i \in D : g[i] \in Nat
  <2> DEFINE T == {i \in D : g[i] \in Nat}
  <2>1. \A d \in D : mu[d] \in Nat
      BY <1>5 DEF Recursion
  <2>2. \A d \in D \cap B : d \in T
      BY <1>3, <1>11 DEF B
  <2>3. \A d \in D \ B : pred[d] \in D /\ mu[pred[d]] < mu[d]
      BY <1>5 DEF Recursion
  <2>4. ASSUME NEW d \in D \ B, pred[d] \in T PROVE d \in T
    <3>1. g[d] = (At(data, d) % Chunk) + Chunk * g[d + 1]
        BY <1>11 DEF B
    <3>2. g[d + 1] \in Nat /\ At(data, d) % Chunk \in Nat
        BY <1>3, <2>4 DEF pred
    <3>3. g[d] \in Nat
        BY <1>1, <3>1, <3>2
    <3> QED
        BY <3>3
  <2> HIDE DEF T
  <2>5. \A d \in D \ B : pred[d] \in D /\ mu[pred[d]] < mu[d] /\ (pred[d] \in T => d \in T)
      BY <2>3, <2>4
  <2>6. Descends(D, mu, B, pred, T)
      BY <2>1, <2>2, <2>5 DEF Descends
  <2>7. \A d \in D : d \in T
      BY <2>6, Descent
  <2> QED
      BY <2>7 DEF T
<1>13. ASSUME NEW i \in D, At(data, i) < Chunk PROVE g[i] = At(data, i)
  <2>1. g[i] = (At(data, i) % Chunk) + 0
      BY <1>11, <1>13
  <2>2. At(data, i) % Chunk = At(data, i)
      BY <1>1, <1>2, <1>13, ModAdd
  <2> QED
      BY <1>2, <2>1, <2>2
<1> QED
    BY <1>11, <1>12, <1>13 DEF D, g

(* Reading the bytes that SerializeVarint wrote gives back the number, modulo the    *)
(* width of the type, and stops behind them.                                         *)
LEMMA NumberPlaced ==
  \A v \in Nat : \A data \in Seq(Nat) : \A it \in Nat :
    Placed(data, it, SerializeVarint(v)) => Number(data)[it] = v
<1> DEFINE P(v) == \A data \in Seq(Nat) : \A it \in Nat :
                     Placed(data, it, SerializeVarint(v)) => Number(data)[it] = v
           T == {v \in Nat : P(v)}
<1>1. Chunk \in Nat /\ Chunk > 1
    BY WidthAssumption
<1>2. ASSUME NEW v \in Nat, \A m \in 0..(v - 1) : m \in T PROVE v \in T
  <2> SUFFICES ASSUME NEW data \in Seq(Nat), NEW it \in Nat, Placed(data, it, SerializeVarint(v))
               PROVE  Number(data)[it] = v
      OBVIOUS
  <2>1. CASE v < Chunk
    <3>1. SerializeVarint(v) = <<v>>
        BY <2>1, VarintEquation
    <3>2. it + 1 <= Len(data) /\ data[it + 1] = v
        BY <3>1 DEF Placed
    <3>3. it \in 0..Len(data) /\ At(data, it) = v
        BY <3>2 DEF At
    <3> QED
        BY <2>1, <3>3, NumberSolved
  <2>2. CASE ~(v < Chunk)
    <3> DEFINE q == v \div Chunk
               r == v % Chunk
               b == SerializeVarint(q)
    <3>1. q \in Nat /\ r \in 0..(Chunk - 1) /\ v = Chunk * q + r
        BY <1>1, DivMod
    <3>2. q < v
        BY <1>1, <2>2, DivSmaller
    <3>3. SerializeVarint(v) = <<r + Chunk>> \o b
        BY <2>2, VarintEquation
    <3> HIDE DEF q, r
    <3>4. P(q)
        BY <1>2, <3>1, <3>2
    <3>5. b \in Seq(Nat) /\ r + Chunk \in Nat
        BY <1>1, <3>1, VarintType
    <3> HIDE DEF b
    <3>6. Placed(data, it, <<r + Chunk>>) /\ Placed(data, it + Len(<<r + Chunk>>), b)
      <4>1. <<r + Chunk>> \in Seq(Nat)
          BY <3>5
      <4>2. Placed(data, it, <<r + Chunk>> \o b)
          BY <3>3
      <4> QED
          BY <3>5, <4>1, <4>2, PlacedConcat
    <3>7. it + 1 <= Len(data) /\ data[it + 1] = r + Chunk /\ Placed(data, it + 1, b)
        BY <3>5, <3>6 DEF Placed
    <3>8. it \in 0..Len(data) /\ At(data, it) = r + Chunk
        BY <3>7 DEF At
    <3>9. Number(data)[it + 1] = q
        BY <3>4, <3>7 DEF b
    <3>10. ~(At(data, it) < Chunk) /\ At(data, it) % Chunk = r
      <4>1. r \in Nat /\ r < Chunk /\ ~(r + Chunk < Chunk)
          BY <1>1, <3>1
      <4>2. (r + Chunk) % Chunk = r
          BY <1>1, <4>1, ModAdd
      <4> QED
          BY <3>8, <4>1, <4>2
    <3>11. Number(data)[it] = r + Chunk * q
        BY <3>8, <3>9, <3>10, NumberSolved
    <3> QED
        BY <1>1, <3>1, <3>11
  <2> QED
      BY <2>1, <2>2
<1> HIDE DEF T
<1>3. \A v \in Nat : v \in T
    BY <1>2, Induction
<1> QED
    BY <1>3 DEF T

(* DeserializeVarint in terms of Number. *)
LEMMA DeserializeVarintIs ==
  ASSUME NEW data, NEW it
  PROVE  DeserializeVarint(data, it) =
           [val |-> Unsigned(Number(data)[it]), it |-> Advance(data, VarintEnd(data, it), 1)]
BY DEF DeserializeVarint, Number

(* deserializeVarintCommon undoes serializeVarintCommon: read anywhere among other  *)
(* bytes, the varint gives its number modulo the width of the type and the position *)
(* behind it.                                                                        *)
THEOREM VarintRead ==
  ASSUME NEW data \in Seq(Nat), NEW it \in Nat, NEW v \in Nat,
         Placed(data, it, SerializeVarint(v))
  PROVE  DeserializeVarint(data, it) =
           [val |-> Unsigned(v), it |-> it + Len(SerializeVarint(v))]
<1> DEFINE L == Len(SerializeVarint(v))
<1>1. Number(data)[it] = v
    BY NumberPlaced
<1>2. VarintEnd(data, it) = it + L - 1
    BY VarintEndPlaced
<1>3. L \in Nat /\ L >= 1 /\ it + L <= Len(data)
    BY VarintType DEF Placed
<1> HIDE DEF L
<1>4. Advance(data, it + L - 1, 1) = it + L
    BY <1>3 DEF Advance
<1>5. DeserializeVarint(data, it) = [val |-> Unsigned(v), it |-> it + L]
    BY <1>1, <1>2, <1>4, DeserializeVarintIs, Zenon
<1> QED
    BY <1>5 DEF L

(* Bytes that end inside a varint make the iterator throw. *)
THEOREM VarintCut ==
  ASSUME NEW data \in Seq(Nat), NEW it \in 0..Len(data), NEW v \in Nat,
         Cut(data, it, SerializeVarint(v))
  PROVE  DeserializeVarint(data, it).it = Thrown /\ Advance(data, VarintEnd(data, it), 1) = Thrown
<1>1. VarintEnd(data, it) = Len(data)
    BY VarintEndCut
<1>2. Advance(data, Len(data), 1) = Thrown
    BY DEF Advance
<1> QED
    BY <1>1, <1>2, DeserializeVarintIs

-----------------------------------------------------------------------------
(***************************************************************************)
(* Fields one behind the other.                                            *)
(***************************************************************************)

(* Byte sequences. *)
Bytes == Seq(Nat)

(* The concatenations that the recursion in FlattenSeq makes. *)
Flat(fs) ==
  CHOOSE flatten : flatten =
    [i \in 1..Len(fs) |-> IF i = 1 THEN fs[i] ELSE flatten[i - 1] \o fs[i]]

(* The recursion of FlattenSeq has a solution, so Flat is one. *)
LEMMA FlatSolved ==
  ASSUME NEW fs \in Seq(Bytes)
  PROVE  \A i \in 1..Len(fs) :
           /\ Flat(fs)[i] \in Bytes
           /\ i = 1 => Flat(fs)[i] = fs[i]
           /\ i # 1 => Flat(fs)[i] = Flat(fs)[i - 1] \o fs[i]
<1> DEFINE D == 1..Len(fs)
           B == {1}
           mu == [i \in D |-> i]
           pred == [i \in D |-> i - 1]
           step == [i \in D |-> [x \in Bytes |-> x \o fs[i]]]
           Body(f) == [i \in 1..Len(fs) |-> IF i = 1 THEN fs[i] ELSE f[i - 1] \o fs[i]]
<1>1. Len(fs) \in Nat /\ \A i \in D : fs[i] \in Bytes
    OBVIOUS
<1>2. \A x, y \in Bytes : x \o y \in Bytes
    BY DEF Bytes
<1>3. <<>> \in Bytes
    BY DEF Bytes
<1>4. Recursion(D, Bytes, mu, B, fs, pred, step)
  <2>1. mu \in [D -> Nat]
      BY <1>1
  <2>2. \A d \in D \cap B : fs[d] \in Bytes
      BY <1>1
  <2>3. ASSUME NEW d \in D \ B PROVE pred[d] \in D /\ mu[pred[d]] < mu[d]
      BY <1>1
  <2>4. ASSUME NEW d \in D \ B, NEW v \in Bytes PROVE step[d][v] \in Bytes
      BY <1>1, <1>2
  <2> QED
      BY <2>1, <2>2, <2>3, <2>4 DEF Recursion
<1>5. \A i \in D \ B : i - 1 \in D
    BY <1>1
<1> HIDE DEF D, B, mu, pred, step
<1>6. PICK f \in [D -> Bytes] : \A d \in D : f[d] = Step(B, fs, pred, step, f, d)
    BY <1>3, <1>4, RecursionSolved
<1>7. ASSUME NEW i \in D PROVE f[i] = IF i = 1 THEN fs[i] ELSE f[i - 1] \o fs[i]
  <2>1. CASE i = 1
      BY <1>6, <2>1 DEF Step, B
  <2>2. CASE i # 1
    <3>1. i \in D \ B
        BY <2>2 DEF B
    <3>2. f[i] = step[i][f[i - 1]]
        BY <1>6, <3>1 DEF Step, pred
    <3>3. f[i - 1] \in Bytes
        BY <1>5, <1>6, <3>1
    <3> QED
        BY <2>2, <3>2, <3>3 DEF step
  <2> QED
      BY <2>1, <2>2
<1>8. f = Body(f)
    BY <1>6, <1>7 DEF D
<1>9. Flat(fs) = Body(Flat(fs))
    BY <1>8 DEF Flat
<1> DEFINE g == Flat(fs)
<1> HIDE DEF g
<1>10. \A i \in D : /\ i = 1 => g[i] = fs[i]
                    /\ i # 1 => g[i] = g[i - 1] \o fs[i]
    BY <1>9, Zenon DEF D, g
<1>11. \A i \in D : g[i] \in Bytes
  <2> DEFINE T == {i \in D : g[i] \in Bytes}
  <2>1. \A d \in D : mu[d] \in Nat
      BY <1>4 DEF Recursion
  <2>2. \A d \in D \cap B : d \in T
      BY <1>1, <1>10 DEF B, D
  <2>3. \A d \in D \ B : pred[d] \in D /\ mu[pred[d]] < mu[d]
      BY <1>4 DEF Recursion
  <2>4. ASSUME NEW d \in D \ B, pred[d] \in T PROVE d \in T
    <3>1. g[d] = g[d - 1] \o fs[d] /\ g[d - 1] \in Bytes /\ fs[d] \in Bytes
        BY <1>1, <1>10, <2>4 DEF B, D, pred
    <3> QED
        BY <1>2, <3>1
  <2> HIDE DEF T
  <2>5. Descends(D, mu, B, pred, T)
      BY <2>1, <2>2, <2>3, <2>4 DEF Descends
  <2>6. \A d \in D : d \in T
      BY <2>5, Descent
  <2> QED
      BY <2>6 DEF T
<1> QED
    BY <1>10, <1>11 DEF D, g

(* FlattenSeq in terms of Flat. *)
LEMMA FlattenIs ==
  ASSUME NEW fs \in Seq(Bytes)
  PROVE  /\ fs = <<>> => FlattenSeq(fs) = <<>>
         /\ fs # <<>> => FlattenSeq(fs) = Flat(fs)[Len(fs)]
         /\ FlattenSeq(fs) \in Bytes
<1>1. FlattenSeq(fs) = IF Len(fs) = 0 THEN fs ELSE Flat(fs)[Len(fs)]
    BY DEF FlattenSeq, Flat
<1>2. fs = <<>> <=> Len(fs) = 0
    OBVIOUS
<1>3. CASE fs = <<>>
    BY <1>1, <1>2, <1>3 DEF Bytes
<1>4. CASE fs # <<>>
  <2>1. Len(fs) \in 1..Len(fs)
      BY <1>4
  <2>2. Flat(fs)[Len(fs)] \in Bytes
      BY <2>1, FlatSolved
  <2> QED
      BY <1>1, <1>2, <1>4, <2>2
<1> QED
    BY <1>3, <1>4

(* Flattening goes field by field. *)
LEMMA FlattenAppend ==
  ASSUME NEW fs \in Seq(Bytes), NEW x \in Bytes
  PROVE  FlattenSeq(Append(fs, x)) = FlattenSeq(fs) \o x
<1> DEFINE gs == Append(fs, x)
           n == Len(fs)
<1>1. /\ gs \in Seq(Bytes) /\ Len(gs) = n + 1 /\ gs[n + 1] = x /\ n \in Nat
      /\ \A i \in 1..n : gs[i] = fs[i]
    OBVIOUS
<1> HIDE DEF gs
<1>2. FlattenSeq(gs) = Flat(gs)[n + 1]
  <2>1. gs # <<>>
      BY <1>1
  <2> QED
      BY <1>1, <2>1, FlattenIs
<1>3. CASE n = 0
  <2>0. fs = <<>>
      BY <1>3
  <2>1. FlattenSeq(fs) = <<>>
      BY <2>0, FlattenIs
  <2>2. 1 \in 1..Len(gs) /\ n + 1 = 1
      BY <1>1, <1>3
  <2>3. Flat(gs)[1] = gs[1]
      BY <1>1, <2>2, FlatSolved
  <2>4. FlattenSeq(gs) = x
      BY <1>1, <1>2, <2>2, <2>3
  <2>5. <<>> \o x = x
      BY DEF Bytes
  <2> QED
      BY <2>1, <2>4, <2>5 DEF gs
<1>4. CASE n # 0
  <2> DEFINE T == {i \in Nat : i \in 1..n => Flat(gs)[i] = Flat(fs)[i]}
  <2>1. ASSUME NEW i \in Nat, \A m \in 0..(i - 1) : m \in T PROVE i \in T
    <3> SUFFICES ASSUME i \in 1..n PROVE Flat(gs)[i] = Flat(fs)[i]
        OBVIOUS
    <3>1. i \in 1..Len(gs) /\ i \in 1..Len(fs) /\ gs[i] = fs[i]
        BY <1>1
    <3>2. CASE i = 1
      <4>1. Flat(gs)[i] = gs[i]
          BY <1>1, <3>1, <3>2, FlatSolved
      <4>2. Flat(fs)[i] = fs[i]
          BY <3>1, <3>2, FlatSolved
      <4> QED
          BY <3>1, <4>1, <4>2
    <3>3. CASE i # 1
      <4>1. Flat(gs)[i] = Flat(gs)[i - 1] \o gs[i]
          BY <1>1, <3>1, <3>3, FlatSolved
      <4>2. Flat(fs)[i] = Flat(fs)[i - 1] \o fs[i]
          BY <3>1, <3>3, FlatSolved
      <4>3. i - 1 \in 0..(i - 1) /\ i - 1 \in 1..n
          BY <1>1, <3>3
      <4>4. Flat(gs)[i - 1] = Flat(fs)[i - 1]
          BY <2>1, <4>3
      <4> QED
          BY <3>1, <4>1, <4>2, <4>4
    <3> QED
        BY <3>2, <3>3
  <2> HIDE DEF T
  <2>2. n \in T
      BY <1>1, <2>1, Induction
  <2>3. Flat(gs)[n] = Flat(fs)[n]
      BY <1>1, <1>4, <2>2 DEF T
  <2>4. n + 1 \in 1..Len(gs) /\ n + 1 # 1 /\ (n + 1) - 1 = n
      BY <1>1, <1>4
  <2>5. Flat(gs)[n + 1] = Flat(gs)[(n + 1) - 1] \o gs[n + 1]
      BY <1>1, <2>4, FlatSolved
  <2>6. FlattenSeq(fs) = Flat(fs)[n]
      BY <1>4, FlattenIs
  <2> QED
      BY <1>1, <1>2, <2>3, <2>4, <2>5, <2>6 DEF gs
<1> QED
    BY <1>3, <1>4

-----------------------------------------------------------------------------
(* The position behind the first k of the fields fs. *)
Offset(fs, k) == Len(FlattenSeq(SubSeq(fs, 1, k)))

(* The first k + 1 fields are the first k and one more. *)
LEMMA PrefixFields ==
  ASSUME NEW fs \in Seq(Bytes), NEW k \in 0..(Len(fs) - 1)
  PROVE  /\ SubSeq(fs, 1, k) \in Seq(Bytes)
         /\ FlattenSeq(SubSeq(fs, 1, k)) \in Bytes
         /\ fs[k + 1] \in Bytes
         /\ FlattenSeq(SubSeq(fs, 1, k + 1)) = FlattenSeq(SubSeq(fs, 1, k)) \o fs[k + 1]
<1>1. SubSeq(fs, 1, k) \in Seq(Bytes) /\ fs[k + 1] \in Bytes
    OBVIOUS
<1>2. SubSeq(fs, 1, k + 1) = Append(SubSeq(fs, 1, k), fs[k + 1])
    OBVIOUS
<1>3. FlattenSeq(SubSeq(fs, 1, k)) \in Bytes
    BY <1>1, FlattenIs
<1> QED
    BY <1>1, <1>2, <1>3, FlattenAppend

(* Each field moves the offset by its length. *)
LEMMA OffsetStep ==
  ASSUME NEW fs \in Seq(Bytes)
  PROVE  /\ Offset(fs, 0) = 0
         /\ Offset(fs, Len(fs)) = Len(FlattenSeq(fs))
         /\ \A k \in 0..Len(fs) : Offset(fs, k) \in Nat
         /\ \A k \in 0..(Len(fs) - 1) : Offset(fs, k + 1) = Offset(fs, k) + Len(fs[k + 1])
<1>1. SubSeq(fs, 1, 0) = <<>> /\ SubSeq(fs, 1, Len(fs)) = fs /\ <<>> \in Seq(Bytes)
    OBVIOUS
<1>2. Offset(fs, 0) = 0
  <2>1. FlattenSeq(<<>>) = <<>>
      BY <1>1, FlattenIs
  <2>2. Len(<<>>) = 0
      OBVIOUS
  <2> QED
      BY <1>1, <2>1, <2>2 DEF Offset
<1>3. Offset(fs, Len(fs)) = Len(FlattenSeq(fs))
    BY <1>1 DEF Offset
<1>4. ASSUME NEW k \in 0..Len(fs) PROVE Offset(fs, k) \in Nat
  <2>1. SubSeq(fs, 1, k) \in Seq(Bytes)
      OBVIOUS
  <2>2. FlattenSeq(SubSeq(fs, 1, k)) \in Seq(Nat)
      BY <2>1, FlattenIs DEF Bytes
  <2> QED
      BY <2>2 DEF Offset
<1>5. ASSUME NEW k \in 0..(Len(fs) - 1) PROVE Offset(fs, k + 1) = Offset(fs, k) + Len(fs[k + 1])
  <2> DEFINE a == FlattenSeq(SubSeq(fs, 1, k))
             b == fs[k + 1]
  <2>1. a \in Seq(Nat) /\ b \in Seq(Nat) /\ FlattenSeq(SubSeq(fs, 1, k + 1)) = a \o b
      BY PrefixFields DEF Bytes
  <2> HIDE DEF a, b
  <2>2. Len(a \o b) = Len(a) + Len(b)
      BY <2>1
  <2> QED
      BY <2>1, <2>2 DEF Offset, a, b
<1> QED
    BY <1>2, <1>3, <1>4, <1>5

(* Later fields stand further behind. *)
LEMMA OffsetMonotone ==
  ASSUME NEW fs \in Seq(Bytes), NEW i \in 0..Len(fs), NEW j \in 0..Len(fs), i <= j
  PROVE  Offset(fs, i) <= Offset(fs, j)
<1> DEFINE T == {d \in Nat : i + d <= Len(fs) => Offset(fs, i) <= Offset(fs, i + d)}
<1>1. \A k \in 0..Len(fs) : Offset(fs, k) \in Nat
    BY OffsetStep
<1>2. ASSUME NEW d \in Nat, \A m \in 0..(d - 1) : m \in T PROVE d \in T
  <2> SUFFICES ASSUME i + d <= Len(fs) PROVE Offset(fs, i) <= Offset(fs, i + d)
      OBVIOUS
  <2>1. CASE d = 0
    <3>1. i + d = i
        BY <2>1
    <3> QED
        BY <1>1, <3>1
  <2>2. CASE d # 0
    <3> DEFINE k == i + (d - 1)
    <3>1. d - 1 \in 0..(d - 1) /\ k \in 0..(Len(fs) - 1) /\ k + 1 = i + d /\ k <= Len(fs)
        BY <2>2
    <3>2. Offset(fs, i) <= Offset(fs, k)
        BY <1>2, <3>1
    <3> HIDE DEF k
    <3>3. Offset(fs, k + 1) = Offset(fs, k) + Len(fs[k + 1])
        BY <3>1, OffsetStep
    <3>4. Len(fs[k + 1]) \in Nat
      <4>1. fs[k + 1] \in Bytes
          BY <3>1, PrefixFields
      <4> QED
          BY <4>1 DEF Bytes
    <3>5. Offset(fs, k) \in Nat /\ Offset(fs, i) \in Nat
        BY <1>1, <3>1
    <3> QED
        BY <3>1, <3>2, <3>3, <3>4, <3>5
  <2> QED
      BY <2>1, <2>2
<1> HIDE DEF T
<1>3. j - i \in T
    BY <1>2, Induction
<1>4. i + (j - i) = j
    OBVIOUS
<1> QED
    BY <1>3, <1>4 DEF T

(* Bytes that hold the flattened fields hold each field at its offset. *)
LEMMA FieldsPlaced ==
  ASSUME NEW fs \in Seq(Bytes), NEW data \in Bytes, NEW p \in Nat,
         Placed(data, p, FlattenSeq(fs))
  PROVE  \A k \in 0..(Len(fs) - 1) : Placed(data, p + Offset(fs, k), fs[k + 1])
<1> DEFINE N == Len(fs)
           P(k) == Placed(data, p, FlattenSeq(SubSeq(fs, 1, k)))
           T == {d \in Nat : d <= N => P(N - d)}
<1>1. N \in Nat
    OBVIOUS
<1>2. ASSUME NEW k \in 0..(N - 1), P(k + 1)
      PROVE  P(k) /\ Placed(data, p + Offset(fs, k), fs[k + 1])
  <2> DEFINE a == FlattenSeq(SubSeq(fs, 1, k))
             b == fs[k + 1]
  <2>1. a \in Seq(Nat) /\ b \in Seq(Nat) /\ Placed(data, p, a \o b)
      BY <1>2, PrefixFields DEF Bytes
  <2>2. data \in Seq(Nat)
      BY DEF Bytes
  <2> HIDE DEF a, b
  <2>3. Placed(data, p, a) /\ Placed(data, p + Len(a), b)
      BY <2>1, <2>2, PlacedConcat
  <2> QED
      BY <2>3 DEF a, b, Offset
<1>3. P(N)
  <2>1. SubSeq(fs, 1, N) = fs
      OBVIOUS
  <2> QED
      BY <2>1
<1> HIDE DEF P, N
<1>4. ASSUME NEW d \in Nat, \A m \in 0..(d - 1) : m \in T PROVE d \in T
  <2> SUFFICES ASSUME d <= N PROVE P(N - d)
      OBVIOUS
  <2>1. CASE d = 0
      BY <1>1, <1>3, <2>1
  <2>2. CASE d # 0
    <3>1. d - 1 \in 0..(d - 1) /\ N - d \in 0..(N - 1) /\ (N - d) + 1 = N - (d - 1) /\ d - 1 <= N
        BY <1>1, <2>2
    <3>2. P((N - d) + 1)
        BY <1>4, <3>1
    <3> QED
        BY <1>2, <3>1, <3>2
  <2> QED
      BY <2>1, <2>2
<1> HIDE DEF T
<1>5. ASSUME NEW k \in 0..(N - 1) PROVE P(k + 1)
  <2>1. N - (k + 1) \in Nat /\ N - (k + 1) <= N /\ N - (N - (k + 1)) = k + 1
      BY <1>1
  <2>2. N - (k + 1) \in T
      BY <1>4, <2>1, Induction
  <2> QED
      BY <2>1, <2>2 DEF T
<1> QED
    BY <1>2, <1>5 DEF N

-----------------------------------------------------------------------------
(***************************************************************************)
(* Numbers, lengths and bytes.                                             *)
(***************************************************************************)

(* The kinds whose values are sent as varints. *)
Numeric == {"uint", "sint", "int"}

(* The unsigned number that is sent for v, and what the reader makes of it. *)
Sent(kind, v) == IF kind = "sint" THEN ZigZag(v) ELSE Unsigned(v)

(* The number that deserializeBasic makes of a varint. *)
Decoded(kind, u) ==
  CASE kind = "uint" -> u
    [] kind = "int" -> Signed(u)
    [] kind = "sint" -> UnZigZag(u)

(* A number survives its conversion to the unsigned type and back; only 0 is sent as 0. *)
LEMMA NumberRead ==
  ASSUME NEW kind \in Numeric, NEW v \in BasicValues(kind)
  PROVE  /\ v \in Int
         /\ Sent(kind, v) \in 0..(Modulus - 1)
         /\ Decoded(kind, Sent(kind, v)) = v
         /\ Sent(kind, v) = 0 => v = 0
<1>1. Modulus \in Nat /\ Modulus > 0 /\ Half \in Nat
    BY WidthAssumption DEF Modulus
<1>2. CASE kind = "uint"
  <2>1. v \in 0..(Modulus - 1)
      BY <1>2 DEF BasicValues
  <2>2. Unsigned(v) = v
      BY <1>1, <2>1, ModSmall DEF Unsigned
  <2> QED
      BY <1>1, <1>2, <2>1, <2>2 DEF Sent, Decoded
<1>3. CASE kind = "int"
  <2>1. v \in SignedRange
      BY <1>3 DEF BasicValues, SignedRange
  <2>2. Unsigned(v) \in 0..(Modulus - 1) /\ Signed(Unsigned(v)) = v
      BY <2>1, SignedInverse
  <2>3. Signed(0) = 0
      BY WidthAssumption DEF Signed
  <2>4. v \in Int
      BY <1>1, <2>1 DEF SignedRange
  <2> QED
      BY <1>3, <2>2, <2>3, <2>4 DEF Sent, Decoded
<1>4. CASE kind = "sint"
  <2>1. v \in SignedRange
      BY <1>4 DEF BasicValues, SignedRange
  <2>2. ZigZag(v) \in 0..(Modulus - 1) /\ UnZigZag(ZigZag(v)) = v
      BY <2>1, ZigZagInverse
  <2>3. UnZigZag(0) = 0
      BY WidthAssumption DEF UnZigZag, Signed
  <2>4. v \in Int
      BY <1>1, <2>1 DEF SignedRange
  <2> QED
      BY <1>4, <2>2, <2>3, <2>4 DEF Sent, Decoded
<1> QED
    BY <1>2, <1>3, <1>4 DEF Numeric

(* DeserializeBasic of a number is DeserializeVarint with a conversion. *)
LEMMA NumericIs ==
  ASSUME NEW kind \in Numeric, NEW data, NEW it, NEW u, NEW p,
         DeserializeVarint(data, it) = [val |-> u, it |-> p]
  PROVE  DeserializeBasic(kind, data, it) = [val |-> Decoded(kind, u), it |-> p]
<1>1. CASE kind = "uint"
    BY <1>1 DEF DeserializeBasic, Decoded
<1>2. CASE kind = "int"
    BY <1>2 DEF DeserializeBasic, Decoded
<1>3. CASE kind = "sint"
    BY <1>3 DEF DeserializeBasic, Decoded
<1> QED
    BY <1>1, <1>2, <1>3 DEF Numeric

(* prependLengthDelimitedSize writes the length, exactly, and the bytes. *)
LEMMA LengthPrefix ==
  ASSUME NEW body \in Bytes, Len(body) < Modulus
  PROVE  LET s == SerializeVarint(Len(body))
         IN /\ PrependLengthDelimitedSize(body) = s \o body
            /\ Unsigned(Len(body)) = Len(body) /\ Len(body) \in Nat
            /\ s \in Seq(Nat) /\ body \in Seq(Nat)
            /\ PrependLengthDelimitedSize(body) \in Bytes
            /\ Len(PrependLengthDelimitedSize(body)) = Len(s) + Len(body)
            /\ Len(s) \in Nat /\ Len(s) >= 1
<1> DEFINE s == SerializeVarint(Len(body))
<1>1. body \in Seq(Nat) /\ Len(body) \in Nat
    BY DEF Bytes
<1>2. Modulus \in Nat /\ Modulus > 0
    BY WidthAssumption DEF Modulus
<1>3. Unsigned(Len(body)) = Len(body)
    BY <1>1, <1>2, ModSmall DEF Unsigned
<1>4. PrependLengthDelimitedSize(body) = s \o body
    BY <1>3 DEF PrependLengthDelimitedSize
<1>5. s \in Seq(Nat) /\ Len(s) \in Nat /\ Len(s) >= 1
    BY <1>1, VarintType
<1> HIDE DEF s
<1>6. s \o body \in Seq(Nat) /\ Len(s \o body) = Len(s) + Len(body)
    BY <1>1, <1>5
<1> QED
    BY <1>1, <1>3, <1>4, <1>5, <1>6 DEF s, Bytes

(* The iterator hands out the bytes that stand before it. *)
LEMMA TakePlaced ==
  ASSUME NEW data \in Bytes, NEW it \in Nat, NEW b \in Bytes, Placed(data, it, b)
  PROVE  Take(data, it, Len(b)) = [val |-> b, it |-> it + Len(b)]
<1>1. data \in Seq(Nat) /\ b \in Seq(Nat) /\ Len(b) \in Nat /\ Len(data) \in Nat
    BY DEF Bytes
<1>2. it + Len(b) <= Len(data) /\ \A j \in 1..Len(b) : data[it + j] = b[j]
    BY DEF Placed
<1>3. Advance(data, it, Len(b)) = it + Len(b)
    BY <1>1, <1>2 DEF Advance
<1>4. it # Thrown /\ it + Len(b) # Thrown
    BY <1>1 DEF Thrown
<1>5. [i \in 1..Len(b) |-> ReadByte(data, it + i - 1)] = b
  <2> DEFINE c == [i \in 1..Len(b) |-> ReadByte(data, it + i - 1)]
  <2>1. ASSUME NEW j \in 1..Len(b) PROVE ReadByte(data, it + j - 1) = b[j]
    <3>1. it + j - 1 < Len(data) /\ ~(it + j - 1 > Len(data)) /\ (it + j - 1) + 1 = it + j
        BY <1>1, <1>2
    <3>2. ReadByte(data, it + j - 1) = data[it + j]
        BY <3>1 DEF ReadByte, At
    <3> QED
        BY <1>2, <3>2
  <2>2. \A j \in 1..Len(b) : c[j] = b[j]
      BY <2>1
  <2>3. c \in Seq(Nat) /\ Len(c) = Len(b)
    <3>1. \A j \in 1..Len(b) : b[j] \in Nat
        BY <1>1
    <3>2. c \in [1..Len(b) -> Nat]
        BY <2>1, <3>1
    <3>3. \A m \in Nat : \A d \in [1..m -> Nat] : d \in Seq(Nat) /\ Len(d) = m
        OBVIOUS
    <3> HIDE DEF c
    <3> QED
        BY <1>1, <3>2, <3>3
  <2> HIDE DEF c
  <2>4. c = b
      BY <1>1, <2>2, <2>3, SeqEqual
  <2> QED
      BY <2>4 DEF c
<1> QED
    BY <1>3, <1>4, <1>5 DEF Take

(* It throws when fewer are left, whatever the bytes behind the array were. *)
LEMMA TakeCut ==
  ASSUME NEW data \in Bytes, NEW it \in Nat, NEW n \in Nat, Len(data) < it + n
  PROVE  Take(data, it, n).it = Thrown
<1>1. Advance(data, it, n) = Thrown
    BY DEF Advance
<1>2. it # Thrown
    BY DEF Thrown
<1> QED
    BY <1>1, <1>2 DEF Take

(* The length and the bytes behind it are read back, or the iterator throws. *)
LEMMA LengthDelimitedRead ==
  ASSUME NEW body \in Bytes, Len(body) < Modulus, NEW data \in Bytes, NEW it \in 0..Len(data)
  PROVE  LET b == PrependLengthDelimitedSize(body)
             s == SerializeVarint(Len(body))
         IN /\ Placed(data, it, b) =>
                 /\ DeserializeVarint(data, it) = [val |-> Len(body), it |-> it + Len(s)]
                 /\ Placed(data, it + Len(s), body)
                 /\ DeserializeLengthDelimited(data, it) = [val |-> body, it |-> it + Len(b)]
            /\ Cut(data, it, b) =>
                 /\ DeserializeLengthDelimited(data, it).it = Thrown
                 /\ \/ DeserializeVarint(data, it).it = Thrown
                    \/ /\ DeserializeVarint(data, it) = [val |-> Len(body), it |-> it + Len(s)]
                       /\ Advance(data, it + Len(s), Len(body)) = Thrown
<1> DEFINE b == PrependLengthDelimitedSize(body)
           n == Len(body)
           s == SerializeVarint(n)
<1>1. /\ b = s \o body /\ Unsigned(n) = n /\ n \in Nat /\ s \in Seq(Nat) /\ body \in Seq(Nat)
      /\ b \in Seq(Nat) /\ Len(b) = Len(s) + n /\ Len(s) \in Nat
    BY LengthPrefix DEF Bytes
<1>2. data \in Seq(Nat) /\ it \in Nat /\ Len(data) \in Nat
    BY DEF Bytes
<1> HIDE DEF b, s
<1>3. ASSUME Placed(data, it, b)
      PROVE  /\ DeserializeVarint(data, it) = [val |-> n, it |-> it + Len(s)]
             /\ Placed(data, it + Len(s), body)
             /\ DeserializeLengthDelimited(data, it) = [val |-> body, it |-> it + Len(b)]
  <2>1. Placed(data, it, s) /\ Placed(data, it + Len(s), body)
      BY <1>1, <1>2, <1>3, PlacedConcat
  <2>2. DeserializeVarint(data, it) = [val |-> Unsigned(n), it |-> it + Len(s)]
      BY <1>1, <1>2, <2>1, VarintRead DEF s
  <2>3. DeserializeVarint(data, it) = [val |-> n, it |-> it + Len(s)]
      BY <1>1, <2>2
  <2>4. Take(data, it + Len(s), n) = [val |-> body, it |-> (it + Len(s)) + n]
      BY <1>1, <1>2, <2>1, TakePlaced DEF Bytes
  <2>5. DeserializeLengthDelimited(data, it) = Take(data, it + Len(s), n)
      BY <2>3 DEF DeserializeLengthDelimited
  <2>6. (it + Len(s)) + n = it + Len(b)
      BY <1>1, <1>2
  <2> QED
      BY <2>1, <2>3, <2>4, <2>5, <2>6
<1>4. ASSUME Cut(data, it, b)
      PROVE  /\ DeserializeLengthDelimited(data, it).it = Thrown
             /\ \/ DeserializeVarint(data, it).it = Thrown
                \/ /\ DeserializeVarint(data, it) = [val |-> n, it |-> it + Len(s)]
                   /\ Advance(data, it + Len(s), n) = Thrown
  <2>1. \/ Cut(data, it, s)
        \/ Placed(data, it, s) /\ Cut(data, it + Len(s), body) /\ it + Len(s) \in 0..Len(data)
      BY <1>1, <1>2, <1>4, CutConcat
  <2>2. CASE Cut(data, it, s)
    <3>1. DeserializeVarint(data, it).it = Thrown
        BY <1>1, <1>2, <2>2, VarintCut DEF s
    <3>2. DeserializeLengthDelimited(data, it).it = Thrown
        BY <3>1 DEF DeserializeLengthDelimited, Take
    <3> QED
        BY <3>1, <3>2
  <2>3. CASE Placed(data, it, s) /\ Cut(data, it + Len(s), body)
    <3>1. DeserializeVarint(data, it) = [val |-> Unsigned(n), it |-> it + Len(s)]
        BY <1>1, <1>2, <2>3, VarintRead DEF s
    <3>2. DeserializeVarint(data, it) = [val |-> n, it |-> it + Len(s)]
        BY <1>1, <3>1
    <3>3. Len(data) < (it + Len(s)) + n /\ it + Len(s) \in Nat
        BY <1>1, <1>2, <2>3 DEF Cut
    <3>4. Take(data, it + Len(s), n).it = Thrown
        BY <1>1, <3>3, TakeCut
    <3>5. DeserializeLengthDelimited(data, it) = Take(data, it + Len(s), n)
        BY <3>2 DEF DeserializeLengthDelimited
    <3>6. Advance(data, it + Len(s), n) = Thrown
        BY <3>3 DEF Advance
    <3> QED
        BY <3>2, <3>4, <3>5, <3>6
  <2> QED
      BY <2>1, <2>2, <2>3
<1> QED
    BY <1>3, <1>4 DEF b, s

-----------------------------------------------------------------------------
(***************************************************************************)
(* The value behind a header, read or skipped.                             *)
(***************************************************************************)

(* The bytes of a value of each wire type. *)
ValueBytes(type, b) ==
  \/ type = Varint /\ \E n \in Nat : b = SerializeVarint(n)
  \/ type \in {Fixed32, Fixed64} /\ Len(b) = Size(type)
  \/ type = LengthDelimited /\ \E body \in Bytes :
       Len(body) < Modulus /\ b = PrependLengthDelimitedSize(body)

(* What DeserializeFlat reads for a property of a kind that is not nested. *)
ReadFlat(kind, data, it) ==
  IF kind \in Packed THEN DeserializeList(Elem[kind], data, it)
  ELSE DeserializeBasic(IF kind = "strings" THEN "bytes" ELSE kind, data, it)

(* Wherever the bytes b stand, the reader takes them for v, and it throws where *)
(* they are cut.                                                                 *)
Decodes(kind, type, b, v) ==
  /\ b \in Bytes /\ ValueBytes(type, b)
  /\ \A data \in Bytes : \A it \in 0..Len(data) :
       /\ Placed(data, it, b) => ReadFlat(kind, data, it) = [val |-> v, it |-> it + Len(b)]
       /\ Cut(data, it, b) => ReadFlat(kind, data, it).it = Thrown

(* skipSerializedFieldBytes steps over the value of an unknown field, whatever its  *)
(* wire type, and over nothing else; it throws when the value is cut.               *)
THEOREM SkipValue ==
  ASSUME NEW type, NEW b \in Bytes, ValueBytes(type, b), NEW data \in Bytes, NEW it \in 0..Len(data)
  PROVE  /\ Placed(data, it, b) => SkipSerializedFieldBytes(type, data, it) = it + Len(b)
         /\ Cut(data, it, b) => SkipSerializedFieldBytes(type, data, it) = Thrown
<1>0. data \in Seq(Nat) /\ b \in Seq(Nat) /\ it \in Nat /\ Len(data) \in Nat /\ Len(b) \in Nat
    BY DEF Bytes
<1>1. ASSUME type = Varint, NEW n \in Nat, b = SerializeVarint(n)
      PROVE  /\ Placed(data, it, b) => SkipSerializedFieldBytes(type, data, it) = it + Len(b)
             /\ Cut(data, it, b) => SkipSerializedFieldBytes(type, data, it) = Thrown
  <2>1. SkipSerializedFieldBytes(type, data, it) = Advance(data, VarintEnd(data, it), 1)
      BY <1>1 DEF SkipSerializedFieldBytes, Varint, Fixed32, Fixed64, LengthDelimited
  <2>2. ASSUME Placed(data, it, b) PROVE Advance(data, VarintEnd(data, it), 1) = it + Len(b)
    <3>1. DeserializeVarint(data, it) = [val |-> Unsigned(n), it |-> it + Len(b)]
        BY <1>0, <1>1, <2>2, VarintRead
    <3> QED
        BY <3>1, DeserializeVarintIs
  <2>3. ASSUME Cut(data, it, b) PROVE Advance(data, VarintEnd(data, it), 1) = Thrown
      BY <1>0, <1>1, <2>3, VarintCut
  <2> QED
      BY <2>1, <2>2, <2>3
<1>2. ASSUME type \in {Fixed32, Fixed64}, Len(b) = Size(type)
      PROVE  /\ Placed(data, it, b) => SkipSerializedFieldBytes(type, data, it) = it + Len(b)
             /\ Cut(data, it, b) => SkipSerializedFieldBytes(type, data, it) = Thrown
  <2>1. SkipSerializedFieldBytes(type, data, it) = Advance(data, it, Len(b))
    <3>1. type # Varint /\ type # LengthDelimited
        BY <1>2 DEF Varint, Fixed32, Fixed64, LengthDelimited
    <3>2. SkipSerializedFieldBytes(type, data, it) = Advance(data, it, Size(type))
        BY <1>2, <3>1 DEF SkipSerializedFieldBytes
    <3> QED
        BY <1>2, <3>2
  <2> QED
      BY <1>0, <2>1 DEF Advance, Placed, Cut
<1>3. ASSUME type = LengthDelimited, NEW body \in Bytes, Len(body) < Modulus,
             b = PrependLengthDelimitedSize(body)
      PROVE  /\ Placed(data, it, b) => SkipSerializedFieldBytes(type, data, it) = it + Len(b)
             /\ Cut(data, it, b) => SkipSerializedFieldBytes(type, data, it) = Thrown
  <2>1. SkipSerializedFieldBytes(type, data, it) = DeserializeLengthDelimited(data, it).it
      BY <1>3 DEF SkipSerializedFieldBytes, Varint, Fixed32, Fixed64, LengthDelimited
  <2>2. ASSUME Placed(data, it, b)
        PROVE  DeserializeLengthDelimited(data, it) = [val |-> body, it |-> it + Len(b)]
      BY <1>3, <2>2, LengthDelimitedRead
  <2>3. ASSUME Cut(data, it, b) PROVE DeserializeLengthDelimited(data, it).it = Thrown
      BY <1>3, <2>3, LengthDelimitedRead
  <2> QED
      BY <2>1, <2>2, <2>3
<1> QED
    BY <1>1, <1>2, <1>3 DEF ValueBytes

(* Numbers are read back. *)
LEMMA NumericDecodes ==
  ASSUME NEW kind \in Numeric, NEW v \in BasicValues(kind), NEW n \in Nat,
         Unsigned(n) = Sent(kind, v)
  PROVE  Decodes(kind, Varint, SerializeVarint(n), v)
<1> DEFINE b == SerializeVarint(n)
<1>1. b \in Bytes
    BY VarintType DEF Bytes
<1>2. ValueBytes(Varint, b)
    BY DEF ValueBytes
<1>3. Decoded(kind, Unsigned(n)) = v
    BY NumberRead
<1> HIDE DEF b
<1>4. ASSUME NEW data, NEW it PROVE ReadFlat(kind, data, it) = DeserializeBasic(kind, data, it)
    BY DEF ReadFlat, Numeric, Packed, Elem
<1>5. ASSUME NEW data \in Bytes, NEW it \in 0..Len(data), Placed(data, it, b)
      PROVE  ReadFlat(kind, data, it) = [val |-> v, it |-> it + Len(b)]
  <2>1. data \in Seq(Nat) /\ it \in Nat
      BY DEF Bytes
  <2>2. DeserializeVarint(data, it) = [val |-> Unsigned(n), it |-> it + Len(b)]
      BY <1>5, <2>1, VarintRead DEF b
  <2>3. DeserializeBasic(kind, data, it) = [val |-> Decoded(kind, Unsigned(n)), it |-> it + Len(b)]
      BY <2>2, NumericIs
  <2> QED
      BY <1>3, <1>4, <2>3
<1>6. ASSUME NEW data \in Bytes, NEW it \in 0..Len(data), Cut(data, it, b)
      PROVE  ReadFlat(kind, data, it).it = Thrown
  <2>1. data \in Seq(Nat)
      BY DEF Bytes
  <2>2. DeserializeVarint(data, it).it = Thrown
      BY <1>6, <2>1, VarintCut DEF b
  <2>3. DeserializeVarint(data, it) = [val |-> DeserializeVarint(data, it).val, it |-> Thrown]
      BY <2>2, DeserializeVarintIs
  <2>4. DeserializeBasic(kind, data, it).it = Thrown
      BY <2>3, NumericIs
  <2> QED
      BY <1>4, <2>4
<1>7. Decodes(kind, Varint, b, v)
    BY <1>1, <1>2, <1>5, <1>6 DEF Decodes
<1> QED
    BY <1>7 DEF b

(* So are byte arrays and strings. *)
LEMMA BytesDecode ==
  ASSUME NEW kind \in {"bytes", "strings"}, NEW v \in Bytes, Len(v) < Modulus
  PROVE  Decodes(kind, LengthDelimited, PrependLengthDelimitedSize(v), v)
<1> DEFINE b == PrependLengthDelimitedSize(v)
<1>1. b \in Bytes
    BY LengthPrefix
<1>2. ValueBytes(LengthDelimited, b)
    BY DEF ValueBytes
<1>3. ASSUME NEW data, NEW it PROVE ReadFlat(kind, data, it) = DeserializeLengthDelimited(data, it)
    BY DEF ReadFlat, Packed, Elem, DeserializeBasic
<1>4. ASSUME NEW data \in Bytes, NEW it \in 0..Len(data)
      PROVE  /\ Placed(data, it, b) => DeserializeLengthDelimited(data, it) = [val |-> v, it |-> it + Len(b)]
             /\ Cut(data, it, b) => DeserializeLengthDelimited(data, it).it = Thrown
    BY LengthDelimitedRead
<1> HIDE DEF b
<1>5. Decodes(kind, LengthDelimited, b, v)
    BY <1>1, <1>2, <1>3, <1>4 DEF Decodes
<1> QED
    BY <1>5 DEF b

(* So are values of fixed size. *)
LEMMA FixedDecodes ==
  ASSUME NEW kind \in {"fixed", "double"}, NEW v \in BasicValues(kind)
  PROVE  v \in Bytes /\ Len(v) >= 1 /\ Decodes(kind, WireType(kind), v, v)
<1> DEFINE n == Size(WireType(kind))
           type == WireType(kind)
<1>1. n \in Nat /\ n >= 1 /\ type \in {Fixed32, Fixed64}
    BY WidthAssumption DEF Size, WireType, Fixed32, Fixed64
<1>2. v \in [1..n -> Nat]
    BY DEF BasicValues
<1> HIDE DEF n
<1>3. v \in Bytes /\ Len(v) = n
    BY <1>1, <1>2 DEF Bytes
<1>4. ValueBytes(type, v)
    BY <1>1, <1>3 DEF ValueBytes, n
<1>5. ASSUME NEW data, NEW it PROVE ReadFlat(kind, data, it) = Take(data, it, n)
    BY DEF ReadFlat, Packed, Elem, DeserializeBasic, n
<1>6. ASSUME NEW data \in Bytes, NEW it \in 0..Len(data), Placed(data, it, v)
      PROVE  Take(data, it, n) = [val |-> v, it |-> it + Len(v)]
  <2>1. it \in Nat
      BY DEF Bytes
  <2> QED
      BY <1>3, <1>6, <2>1, TakePlaced
<1>7. ASSUME NEW data \in Bytes, NEW it \in 0..Len(data), Cut(data, it, v)
      PROVE  Take(data, it, n).it = Thrown
  <2>1. it \in Nat /\ Len(data) < it + n
      BY <1>3, <1>7 DEF Bytes, Cut
  <2> QED
      BY <1>1, <2>1, TakeCut
<1> HIDE DEF type
<1>8. Decodes(kind, type, v, v)
    BY <1>3, <1>4, <1>5, <1>6, <1>7 DEF Decodes
<1> QED
    BY <1>1, <1>3, <1>8 DEF type

(* A number is sent as the varint of an unsigned number, or not at all. *)
LEMMA NumericBytes ==
  ASSUME NEW kind \in Numeric, NEW v
  PROVE  SerializeBasic(kind, v) =
           IF Sent(kind, v) = 0 THEN <<>> ELSE SerializeVarint(Sent(kind, v))
BY DEF SerializeBasic, Numeric, Sent

(* What serializeBasic sends, deserializeBasic reads; what it does not send is the  *)
(* value that the property has anyway.                                               *)
LEMMA BasicDecodes ==
  ASSUME NEW kind \in Basic, NEW v \in BasicValues(kind), kind = "bytes" => Len(v) < Modulus
  PROVE  LET b == SerializeBasic(kind, v)
         IN /\ b = <<>> => v = FlatDefault(kind)
            /\ b # <<>> => Decodes(kind, WireType(kind), b, v)
<1> DEFINE b == SerializeBasic(kind, v)
<1>1. CASE kind \in Numeric
  <2> DEFINE u == Sent(kind, v)
  <2>1. u \in 0..(Modulus - 1) /\ (u = 0 => v = 0)
      BY <1>1, NumberRead
  <2>2. Modulus \in Nat /\ Modulus > 0
      BY WidthAssumption DEF Modulus
  <2>3. u \in Nat /\ Unsigned(u) = u
      BY <2>1, <2>2, ModSmall DEF Unsigned
  <2>4. b = IF u = 0 THEN <<>> ELSE SerializeVarint(u)
      BY <1>1, NumericBytes
  <2>5. SerializeVarint(u) # <<>>
    <3>1. Len(SerializeVarint(u)) >= 1
        BY <2>3, VarintType
    <3>2. Len(<<>>) = 0
        OBVIOUS
    <3> QED
        BY <3>1, <3>2
  <2>6. Decodes(kind, Varint, SerializeVarint(u), v)
      BY <1>1, <2>3, NumericDecodes
  <2>7. FlatDefault(kind) = 0 /\ WireType(kind) = Varint
      BY <1>1 DEF FlatDefault, WireType, Numeric
  <2> HIDE DEF u, b
  <2>8. CASE u = 0
      BY <2>1, <2>4, <2>7, <2>8 DEF b
  <2>9. CASE u # 0
      BY <2>4, <2>5, <2>6, <2>7, <2>9 DEF b
  <2> QED
      BY <2>8, <2>9
<1>2. CASE kind \in {"fixed", "double"}
  <2>1. b = v
      BY <1>2 DEF SerializeBasic
  <2>2. v \in Bytes /\ Len(v) >= 1 /\ Decodes(kind, WireType(kind), v, v)
      BY <1>2, FixedDecodes
  <2>3. v # <<>>
      BY <2>2 DEF Bytes
  <2> QED
      BY <2>1, <2>2, <2>3
<1>3. CASE kind = "bytes"
  <2>1. b = PrependLengthDelimitedSize(v) /\ WireType(kind) = LengthDelimited
      BY <1>3 DEF SerializeBasic, WireType
  <2>2. v \in Bytes
      BY <1>3 DEF BasicValues, Bytes
  <2>3. Decodes(kind, LengthDelimited, b, v)
      BY <1>3, <2>1, <2>2, BytesDecode
  <2>4. b # <<>>
    <3>1. Len(b) >= 1
        BY <1>3, <2>1, <2>2, LengthPrefix
    <3> QED
        BY <3>1
  <2> QED
      BY <2>1, <2>3, <2>4
<1> QED
    BY <1>1, <1>2, <1>3 DEF Basic, Numeric

-----------------------------------------------------------------------------
(***************************************************************************)
(* Packed lists.                                                           *)
(***************************************************************************)

(* The kinds of a packed list's elements. *)
Elements == {"uint", "sint", "int", "fixed"}

(* An element of a packed list is read back, and takes up a byte at least. *)
LEMMA ElementRead ==
  ASSUME NEW kind \in Elements, NEW v \in BasicValues(kind)
  PROVE  LET b == PackedElement(kind, v)
         IN /\ b \in Bytes /\ Len(b) >= 1
            /\ \A data \in Bytes : \A it \in 0..Len(data) : Placed(data, it, b) =>
                 DeserializeBasic(kind, data, it) = [val |-> v, it |-> it + Len(b)]
<1> DEFINE b == PackedElement(kind, v)
<1>1. \A data, it : ReadFlat(kind, data, it) = DeserializeBasic(kind, data, it)
    BY DEF ReadFlat, Elements, Packed, Elem
<1>2. CASE kind \in Numeric
  <2> DEFINE u == Sent(kind, v)
  <2>1. u \in 0..(Modulus - 1) /\ (u = 0 => v = 0)
      BY <1>2, NumberRead
  <2>2. Modulus \in Nat /\ Modulus > 0
      BY WidthAssumption DEF Modulus
  <2>3. u \in Nat /\ Unsigned(u) = u
      BY <2>1, <2>2, ModSmall DEF Unsigned
  <2>4. SerializeBasic(kind, v) = IF u = 0 THEN <<>> ELSE SerializeVarint(u)
      BY <1>2, NumericBytes
  <2>5. SerializeVarint(u) \in Seq(Nat) /\ Len(SerializeVarint(u)) >= 1
      BY <2>3, VarintType
  <2>6. SerializeVarint(u) # <<>>
      BY <2>5
  <2>7. 0 < Chunk
      BY WidthAssumption
  <2>8. SerializeVarint(0) = <<0>>
      BY <2>7, VarintEquation
  <2>9. b = SerializeVarint(u)
    <3> HIDE DEF u
    <3>1. CASE u = 0
        BY <2>4, <2>8, <3>1 DEF PackedElement
    <3>2. CASE u # 0
        BY <2>4, <2>6, <3>2 DEF PackedElement
    <3> QED
        BY <3>1, <3>2
  <2>10. Decodes(kind, Varint, b, v)
      BY <1>2, <2>3, <2>9, NumericDecodes
  <2> HIDE DEF b, u
  <2> QED
      BY <1>1, <2>5, <2>9, <2>10 DEF Decodes, Bytes, b
<1>3. CASE kind = "fixed"
  <2>1. v \in Bytes /\ Len(v) >= 1 /\ Decodes(kind, WireType(kind), v, v)
      BY <1>3, FixedDecodes
  <2>2. v # <<>>
      BY <2>1 DEF Bytes
  <2>3. b = v
      BY <1>3, <2>2 DEF PackedElement, SerializeBasic
  <2> HIDE DEF b
  <2> QED
      BY <1>1, <2>1, <2>3 DEF Decodes, b
<1> QED
    BY <1>2, <1>3 DEF Elements, Numeric

(* Reading an element anywhere throws or moves on. *)
LEMMA ElementProgress ==
  ASSUME NEW kind \in Elements, NEW data \in Bytes, NEW it \in 0..Len(data)
  PROVE  LET r == DeserializeBasic(kind, data, it)
         IN /\ r.val \in Int \union Seq(Int)
            /\ r.it # Thrown => r.it \in (it + 1)..Len(data)
<1>1. data \in Seq(Nat) /\ Len(data) \in Nat /\ it \in Nat
    BY DEF Bytes
<1>2. CASE kind \in Numeric
  <2> DEFINE u == Unsigned(Number(data)[it])
             p == DeserializeVarint(data, it).it
  <2>1. DeserializeVarint(data, it) = [val |-> u, it |-> p]
      BY DeserializeVarintIs
  <2>2. p # Thrown => p \in (it + 1)..Len(data)
      BY <1>1, VarintProgress
  <2>3. Modulus \in Nat /\ Modulus > 0 /\ Half \in Nat
      BY WidthAssumption DEF Modulus
  <2>4. Number(data)[it] \in Nat
      BY <1>1, NumberSolved
  <2>5. u \in Int
      BY <2>3, <2>4 DEF Unsigned
  <2> HIDE DEF u, p
  <2>6. Decoded(kind, u) \in Int
      BY <1>2, <2>3, <2>5 DEF Decoded, Numeric, Signed, UnZigZag
  <2>7. DeserializeBasic(kind, data, it) = [val |-> Decoded(kind, u), it |-> p]
      BY <1>2, <2>1, NumericIs
  <2> QED
      BY <2>2, <2>6, <2>7
<1>3. CASE kind = "fixed"
  <2>1. DeserializeBasic(kind, data, it) = Take(data, it, FixedSize)
      BY <1>3 DEF DeserializeBasic, Size, WireType, Fixed64, Fixed32
  <2>2. FixedSize \in Nat /\ FixedSize >= 1
      BY WidthAssumption
  <2>3. it # Thrown
      BY <1>1 DEF Thrown
  <2>4. Take(data, it, FixedSize) = [val |-> [i \in 1..FixedSize |-> ReadByte(data, it + i - 1)],
                                     it |-> Advance(data, it, FixedSize)]
      BY <2>3 DEF Take
  <2>5. [i \in 1..FixedSize |-> ReadByte(data, it + i - 1)] \in Seq(Int)
    <3>1. ASSUME NEW i \in 1..FixedSize PROVE ReadByte(data, it + i - 1) \in Int
      <4>1. it + i - 1 \in Nat
          BY <1>1, <2>2
      <4>2. it + i - 1 < Len(data) => data[(it + i - 1) + 1] \in Nat
          BY <1>1, <4>1
      <4> QED
          BY <1>1, <4>1, <4>2 DEF ReadByte, At, Outside
    <3> DEFINE c == [i \in 1..FixedSize |-> ReadByte(data, it + i - 1)]
    <3>2. c \in [1..FixedSize -> Int]
        BY <3>1
    <3> HIDE DEF c
    <3>3. c \in Seq(Int)
        BY <2>2, <3>2
    <3> QED
        BY <3>3 DEF c
  <2>6. Advance(data, it, FixedSize) # Thrown => Advance(data, it, FixedSize) \in (it + 1)..Len(data)
      BY <1>1, <2>2 DEF Advance
  <2> QED
      BY <2>1, <2>4, <2>5, <2>6
<1> QED
    BY <1>2, <1>3 DEF Elements, Numeric

(* The results of the recursion in DeserializeList, for a list that ends at last. *)
Reads(kind, data, last) ==
  CHOOSE read : read =
    [i \in 0..Len(data) |->
       IF i = last THEN [val |-> <<>>, it |-> last]
       ELSE LET r == DeserializeBasic(kind, data, i)
            IN IF r.it = Thrown THEN [val |-> <<>>, it |-> Thrown]
               ELSE [val |-> <<r.val>> \o read[r.it].val, it |-> read[r.it].it]]

(* The recursion of DeserializeList has a solution, so Reads is one. *)
LEMMA ReadsSolved ==
  ASSUME NEW kind \in Elements, NEW data \in Bytes, NEW last \in 0..Len(data)
  PROVE  \A i \in 0..Len(data) :
           LET f == Reads(kind, data, last)
               r == DeserializeBasic(kind, data, i)
           IN /\ i = last => f[i] = [val |-> <<>>, it |-> last]
              /\ i # last /\ r.it # Thrown =>
                   f[i] = [val |-> <<r.val>> \o f[r.it].val, it |-> f[r.it].it]
<1> DEFINE D == 0..Len(data)
           X == Int \union Seq(Int)
           V == [val : Seq(X), it : Int]
           r(i) == DeserializeBasic(kind, data, i)
           B == {i \in D : i = last \/ r(i).it = Thrown}
           mu == [i \in D |-> Len(data) - i]
           base == [i \in D |-> IF i = last THEN [val |-> <<>>, it |-> last]
                                ELSE [val |-> <<>>, it |-> Thrown]]
           pred == [i \in D |-> r(i).it]
           step == [i \in D |-> [w \in V |-> [val |-> <<r(i).val>> \o w.val, it |-> w.it]]]
           Body(f) == [i \in 0..Len(data) |->
             IF i = last THEN [val |-> <<>>, it |-> last]
             ELSE IF r(i).it = Thrown THEN [val |-> <<>>, it |-> Thrown]
                  ELSE [val |-> <<r(i).val>> \o f[r(i).it].val, it |-> f[r(i).it].it]]
<1>1. Len(data) \in Nat /\ Thrown \in Int /\ last \in Int
    BY DEF Bytes, Thrown
<1>2. ASSUME NEW i \in D PROVE r(i).val \in X /\ (r(i).it # Thrown => r(i).it \in (i + 1)..Len(data))
    BY ElementProgress
<1> HIDE DEF r, X
<1>3. Recursion(D, V, mu, B, base, pred, step)
  <2>1. mu \in [D -> Nat]
      BY <1>1
  <2>2. ASSUME NEW d \in D \cap B PROVE base[d] \in V
      BY <1>1
  <2>3. ASSUME NEW d \in D \ B PROVE pred[d] \in D /\ mu[pred[d]] < mu[d]
    <3>1. r(d).it \in (d + 1)..Len(data)
        BY <1>2
    <3> QED
        BY <1>1, <3>1
  <2>4. ASSUME NEW d \in D \ B, NEW v \in V PROVE step[d][v] \in V
    <3>1. <<r(d).val>> \in Seq(X)
        BY <1>2
    <3>2. v.val \in Seq(X) /\ v.it \in Int
        OBVIOUS
    <3>3. <<r(d).val>> \o v.val \in Seq(X)
        BY <3>1, <3>2
    <3>4. step[d][v] = [val |-> <<r(d).val>> \o v.val, it |-> v.it]
        OBVIOUS
    <3> HIDE DEF step
    <3> QED
        BY <3>2, <3>3, <3>4
  <2> HIDE DEF D, V, mu, B, base, pred, step
  <2> QED
      BY <2>1, <2>2, <2>3, <2>4 DEF Recursion
<1>4. [val |-> <<>>, it |-> last] \in V
    BY <1>1
<1>5. \A i \in D \ B : r(i).it \in D
    BY <1>1, <1>2
<1> HIDE DEF D, V, B, mu, base, pred, step
<1>6. PICK f \in [D -> V] : \A d \in D : f[d] = Step(B, base, pred, step, f, d)
    BY <1>3, <1>4, RecursionSolved
<1>7. ASSUME NEW i \in D
      PROVE  f[i] = IF i = last THEN [val |-> <<>>, it |-> last]
                    ELSE IF r(i).it = Thrown THEN [val |-> <<>>, it |-> Thrown]
                    ELSE [val |-> <<r(i).val>> \o f[r(i).it].val, it |-> f[r(i).it].it]
  <2>1. CASE i \in B
    <3>1. f[i] = base[i]
        BY <1>6, <2>1 DEF Step
    <3> QED
        BY <2>1, <3>1 DEF B, base
  <2>2. CASE i \notin B
    <3>1. f[i] = step[i][f[r(i).it]]
        BY <1>6, <2>2 DEF Step, pred
    <3>2. f[r(i).it] \in V
        BY <1>5, <1>6, <2>2
    <3>3. step[i][f[r(i).it]] = [val |-> <<r(i).val>> \o f[r(i).it].val, it |-> f[r(i).it].it]
        BY <3>2 DEF step
    <3> QED
        BY <2>2, <3>1, <3>3 DEF B
  <2> QED
      BY <2>1, <2>2
<1>8. f = Body(f)
    BY <1>6, <1>7, Zenon DEF D
<1>9. Reads(kind, data, last) = Body(Reads(kind, data, last))
    BY <1>8 DEF Reads, r
<1> QED
    BY <1>9, Zenon DEF r

(* DeserializeList in terms of Reads. *)
LEMMA ListIs ==
  ASSUME NEW kind, NEW data, NEW it, NEW n, NEW p,
         DeserializeVarint(data, it) = [val |-> n, it |-> p]
  PROVE  DeserializeList(kind, data, it) =
           LET last == IF p = Thrown THEN Thrown ELSE Advance(data, p, n)
           IN IF last = Thrown THEN [val |-> <<>>, it |-> Thrown]
              ELSE Reads(kind, data, last)[p]
BY DEF DeserializeList, Reads

(* The recursion over the elements es of a list, which hold the values v, ends at the *)
(* end of the list and has put the values together.                                   *)
LEMMA ListRead ==
  ASSUME NEW kind \in Elements, NEW data \in Bytes, NEW p \in Nat, NEW S,
         NEW v \in Seq(S), NEW es \in Seq(Bytes), Len(es) = Len(v),
         \A k \in 1..Len(es) : Len(es[k]) >= 1,
         Placed(data, p, FlattenSeq(es)),
         \A k \in 0..(Len(v) - 1) :
           DeserializeBasic(kind, data, p + Offset(es, k)) =
             [val |-> v[k + 1], it |-> p + Offset(es, k + 1)]
  PROVE  LET last == p + Len(FlattenSeq(es))
         IN last \in 0..Len(data) /\ Reads(kind, data, last)[p] = [val |-> v, it |-> last]
<1> DEFINE N == Len(v)
           o(k) == Offset(es, k)
           last == p + Len(FlattenSeq(es))
           f == Reads(kind, data, last)
           T == {d \in Nat : d <= N =>
                   f[p + o(N - d)] = [val |-> SubSeq(v, (N - d) + 1, N), it |-> last]}
<1>1. N \in Nat /\ Len(es) = N /\ Len(data) \in Nat
    BY DEF Bytes
<1>2. /\ o(0) = 0 /\ o(N) = Len(FlattenSeq(es))
      /\ \A k \in 0..N : o(k) \in Nat
      /\ \A k \in 0..(N - 1) : o(k + 1) = o(k) + Len(es[k + 1])
    BY <1>1, OffsetStep
<1>3. last \in Nat /\ last <= Len(data) /\ last = p + o(N)
    BY <1>1, <1>2 DEF Placed
<1>4. \A k \in 0..N : o(k) <= o(N)
    BY <1>1, OffsetMonotone
<1>5. \A k \in 0..(N - 1) : o(k) < o(N) /\ Len(es[k + 1]) >= 1
  <2> SUFFICES ASSUME NEW k \in 0..(N - 1) PROVE o(k) < o(N) /\ Len(es[k + 1]) >= 1
      OBVIOUS
  <2>1. k + 1 \in 1..Len(es) /\ k \in 0..N /\ k + 1 \in 0..N
      BY <1>1
  <2>2. Len(es[k + 1]) >= 1 /\ o(k + 1) = o(k) + Len(es[k + 1]) /\ o(k + 1) <= o(N)
      BY <1>2, <1>4, <2>1
  <2>3. o(k) \in Nat /\ o(k + 1) \in Nat /\ o(N) \in Nat
      BY <1>1, <1>2, <2>1
  <2>4. Len(es[k + 1]) \in Nat
    <3>1. es[k + 1] \in Bytes
        BY <2>1
    <3> QED
        BY <3>1 DEF Bytes
  <2> HIDE DEF o
  <2> QED
      BY <2>2, <2>3, <2>4
<1> HIDE DEF o, last
<1>6. ASSUME NEW d \in Nat, \A m \in 0..(d - 1) : m \in T PROVE d \in T
  <2> SUFFICES ASSUME d <= N
               PROVE  f[p + o(N - d)] = [val |-> SubSeq(v, (N - d) + 1, N), it |-> last]
      OBVIOUS
  <2>1. CASE d = 0
    <3>1. N - d = N /\ SubSeq(v, (N - d) + 1, N) = <<>>
        BY <1>1, <2>1
    <3>2. last \in 0..Len(data)
        BY <1>3
    <3>3. f[last] = [val |-> <<>>, it |-> last]
        BY <3>2, ReadsSolved
    <3> QED
        BY <1>3, <3>1, <3>3
  <2>2. CASE d # 0
    <3> DEFINE k == N - d
               i == p + o(k)
               j == p + o(k + 1)
    <3>1. /\ k \in 0..(N - 1) /\ k \in 0..N /\ k + 1 \in 0..N /\ d - 1 \in 0..(d - 1)
          /\ N - (d - 1) = k + 1 /\ d - 1 <= N
        BY <1>1, <2>2
    <3>2. o(k) \in Nat /\ o(k + 1) \in Nat /\ o(N) \in Nat /\ o(k) < o(N)
        BY <1>1, <1>2, <1>5, <3>1
    <3>3. i \in 0..Len(data) /\ i # last /\ j # Thrown
        BY <1>1, <1>3, <3>2 DEF Thrown
    <3>4. DeserializeBasic(kind, data, i) = [val |-> v[k + 1], it |-> j]
        BY <3>1 DEF o
    <3>5. f[j] = [val |-> SubSeq(v, (k + 1) + 1, N), it |-> last]
        BY <1>6, <3>1
    <3> HIDE DEF i, j, k
    <3>6. last \in 0..Len(data)
        BY <1>3
    <3>7. f[i] = [val |-> <<v[k + 1]>> \o f[j].val, it |-> f[j].it]
      <4> DEFINE r == DeserializeBasic(kind, data, i)
      <4>1. r.it = j /\ r.val = v[k + 1]
          BY <3>4
      <4>2. i # last /\ r.it # Thrown
          BY <3>3, <4>1
      <4>3. f[i] = [val |-> <<r.val>> \o f[r.it].val, it |-> f[r.it].it]
          BY <3>3, <3>6, <4>2, ReadsSolved
      <4> HIDE DEF r, f
      <4> QED
          BY <4>1, <4>3, Zenon
    <3>8. SubSeq(v, k + 1, N) = <<v[k + 1]>> \o SubSeq(v, (k + 1) + 1, N)
      <4>1. k \in Nat /\ k + 1 <= N
          BY <1>1, <3>1
      <4> QED
          BY <1>1, <4>1
    <3> HIDE DEF f
    <3>9. f[i] = [val |-> SubSeq(v, k + 1, N), it |-> last]
      <4>0. ASSUME NEW x, f[j] = [val |-> x, it |-> last] PROVE f[j].val = x /\ f[j].it = last
          BY <4>0
      <4>1. f[j].val = SubSeq(v, (k + 1) + 1, N) /\ f[j].it = last
          BY <3>5, <4>0, Zenon
      <4> QED
          BY <3>7, <3>8, <4>1, Zenon
    <3> QED
        BY <3>9 DEF i, k
  <2> QED
      BY <2>1, <2>2
<1> HIDE DEF T
<1>7. N \in T
    BY <1>1, <1>6, Induction
<1>8. N - N = 0 /\ N <= N /\ p + o(0) = p /\ SubSeq(v, 0 + 1, N) = v
    BY <1>1, <1>2
<1>9. f[p] = [val |-> v, it |-> last]
  <2>1. f[p + o(N - N)] = [val |-> SubSeq(v, (N - N) + 1, N), it |-> last]
      BY <1>1, <1>7, <1>8 DEF T
  <2> QED
      BY <1>8, <2>1
<1> QED
    BY <1>3, <1>9 DEF last

(* The elements of a packed list. *)
ListBytes(kind, v) == [i \in 1..Len(v) |-> PackedElement(Elem[kind], v[i])]

(* A packed list, zeros included, is read back. *)
LEMMA PackedDecodes ==
  ASSUME NEW kind \in Packed, NEW v \in Seq(BasicValues(Elem[kind])),
         Len(FlattenSeq(ListBytes(kind, v))) < Modulus
  PROVE  Decodes(kind, LengthDelimited,
                 PrependLengthDelimitedSize(FlattenSeq(ListBytes(kind, v))), v)
<1> DEFINE e == Elem[kind]
           es == ListBytes(kind, v)
           body == FlattenSeq(es)
           b == PrependLengthDelimitedSize(body)
           s == SerializeVarint(Len(body))
           S == BasicValues(e)
<1>1. e \in Elements
    BY DEF Packed, Elem, Elements
<1>2. Len(v) \in Nat /\ \A i \in 1..Len(v) : v[i] \in S
    OBVIOUS
<1> HIDE DEF e, S
<1>3. \A i \in 1..Len(v) :
        /\ PackedElement(e, v[i]) \in Bytes /\ Len(PackedElement(e, v[i])) >= 1
        /\ \A data \in Bytes : \A it \in 0..Len(data) : Placed(data, it, PackedElement(e, v[i])) =>
             DeserializeBasic(e, data, it) = [val |-> v[i], it |-> it + Len(PackedElement(e, v[i]))]
    BY <1>1, <1>2, ElementRead DEF S
<1>4. es \in Seq(Bytes) /\ Len(es) = Len(v) /\ \A i \in 1..Len(v) : es[i] = PackedElement(e, v[i])
    BY <1>2, <1>3 DEF ListBytes, e
<1> HIDE DEF es
<1>5. body \in Bytes
    BY <1>4, FlattenIs
<1>6. Len(body) < Modulus
    BY DEF es
<1> HIDE DEF body
<1>7. /\ b \in Bytes /\ Len(b) = Len(s) + Len(body) /\ Len(s) \in Nat /\ Len(body) \in Nat
    BY <1>5, <1>6, LengthPrefix
<1>8. ValueBytes(LengthDelimited, b)
    BY <1>5, <1>6 DEF ValueBytes
<1>9. \A data, it : ReadFlat(kind, data, it) = DeserializeList(e, data, it)
    BY DEF ReadFlat, e
<1> HIDE DEF b, s
<1>10. ASSUME NEW data \in Bytes, NEW it \in 0..Len(data), Placed(data, it, b)
       PROVE  DeserializeList(e, data, it) = [val |-> v, it |-> it + Len(b)]
  <2> DEFINE p == it + Len(s)
             last == p + Len(body)
  <2>1. DeserializeVarint(data, it) = [val |-> Len(body), it |-> p] /\ Placed(data, p, body)
      BY <1>5, <1>6, <1>10, LengthDelimitedRead DEF b, s
  <2>2. it \in Nat /\ Len(data) \in Nat
      BY DEF Bytes
  <2>3. p \in Nat
      BY <1>7, <2>2
  <2> HIDE DEF p
  <2>4. ASSUME NEW k \in 0..(Len(v) - 1)
        PROVE  DeserializeBasic(e, data, p + Offset(es, k)) =
                 [val |-> v[k + 1], it |-> p + Offset(es, k + 1)]
    <3>1. k \in 0..(Len(es) - 1) /\ k + 1 \in 1..Len(v)
        BY <1>2, <1>4
    <3>2. Placed(data, p + Offset(es, k), es[k + 1])
        BY <1>4, <2>1, <2>3, <3>1, FieldsPlaced DEF body
    <3>3. Offset(es, k + 1) = Offset(es, k) + Len(es[k + 1]) /\ Offset(es, k) \in Nat
        BY <1>4, <3>1, OffsetStep
    <3>4. es[k + 1] = PackedElement(e, v[k + 1]) /\ Len(es[k + 1]) \in Nat
      <4>1. es[k + 1] \in Bytes
          BY <1>3, <1>4, <3>1
      <4> QED
          BY <1>4, <3>1, <4>1 DEF Bytes
    <3>5. p + Offset(es, k) \in 0..Len(data)
      <4>1. p + Offset(es, k) + Len(es[k + 1]) <= Len(data)
          BY <3>2 DEF Placed
      <4> QED
          BY <2>2, <2>3, <3>3, <3>4, <4>1
    <3>6. DeserializeBasic(e, data, p + Offset(es, k)) =
            [val |-> v[k + 1], it |-> (p + Offset(es, k)) + Len(es[k + 1])]
        BY <1>3, <3>1, <3>2, <3>4, <3>5
    <3>7. (p + Offset(es, k)) + Len(es[k + 1]) = p + Offset(es, k + 1)
        BY <2>3, <3>3, <3>4
    <3> QED
        BY <3>6, <3>7
  <2>5. \A k \in 1..Len(es) : Len(es[k]) >= 1
      BY <1>3, <1>4
  <2>6. Placed(data, p, FlattenSeq(es))
      BY <2>1 DEF body
  <2>7. v \in Seq(S)
      BY DEF S, e
  <2>8. last \in 0..Len(data) /\ Reads(e, data, last)[p] = [val |-> v, it |-> last]
      BY <1>1, <1>4, <2>3, <2>4, <2>5, <2>6, <2>7, ListRead DEF body
  <2>9. Advance(data, p, Len(body)) = last /\ last # Thrown /\ p # Thrown
      BY <1>7, <2>2, <2>3, <2>8 DEF Advance, Thrown
  <2>10. last = it + Len(b)
      BY <1>7, <2>2 DEF p
  <2> HIDE DEF last
  <2>11. DeserializeList(e, data, it) = Reads(e, data, last)[p]
      BY <2>1, <2>9, ListIs
  <2> QED
      BY <2>8, <2>10, <2>11
<1>11. ASSUME NEW data \in Bytes, NEW it \in 0..Len(data), Cut(data, it, b)
       PROVE  DeserializeList(e, data, it).it = Thrown
  <2>1. \/ DeserializeVarint(data, it).it = Thrown
        \/ /\ DeserializeVarint(data, it) = [val |-> Len(body), it |-> it + Len(s)]
           /\ Advance(data, it + Len(s), Len(body)) = Thrown
      BY <1>5, <1>6, <1>11, LengthDelimitedRead DEF b, s
  <2>2. CASE DeserializeVarint(data, it).it = Thrown
    <3>1. DeserializeVarint(data, it) = [val |-> DeserializeVarint(data, it).val, it |-> Thrown]
        BY <2>2, DeserializeVarintIs
    <3> QED
        BY <3>1, ListIs
  <2>3. CASE /\ DeserializeVarint(data, it) = [val |-> Len(body), it |-> it + Len(s)]
             /\ Advance(data, it + Len(s), Len(body)) = Thrown
      BY <2>3, ListIs
  <2> QED
      BY <2>1, <2>2, <2>3
<1>12. Decodes(kind, LengthDelimited, b, v)
    BY <1>7, <1>8, <1>9, <1>10, <1>11 DEF Decodes
<1> QED
    BY <1>12 DEF b, body, es

-----------------------------------------------------------------------------
(***************************************************************************)
(* Headers, and messages as sequences of fields.                           *)
(***************************************************************************)

(* Field numbers that a uint32 header can hold. *)
FieldNumbers == {f \in Nat \ {0} : f * 8 + 7 < Modulus}

(* A header is read back, and is valid. *)
LEMMA HeaderRead ==
  ASSUME NEW f \in FieldNumbers, NEW type \in WireTypes
  PROVE  LET b == EncodeHeader(f, type)
         IN /\ b \in Bytes /\ Len(b) \in Nat /\ Len(b) >= 1
            /\ \A data \in Bytes : \A it \in 0..Len(data) :
                 /\ Placed(data, it, b) =>
                      DecodeHeader(data, it) = [field |-> f, type |-> type, it |-> it + Len(b)]
                 /\ Cut(data, it, b) => DecodeHeader(data, it).it = Thrown
<1> DEFINE n == f * 8 + type
           b == EncodeHeader(f, type)
<1>1. type \in 0..7 /\ f \in Nat /\ Modulus \in Nat /\ Modulus > 0 /\ n < Modulus /\ n \in Nat
    BY WidthAssumption DEF WireTypes, Varint, Fixed64, LengthDelimited, Fixed32, FieldNumbers, Modulus
<1>2. Unsigned(n) = n
    BY <1>1, ModSmall DEF Unsigned
<1>3. n \div 8 = f /\ n % 8 = type
    BY <1>1, <1>2, HeaderInverse
<1>4. b = SerializeVarint(n)
    BY <1>2 DEF EncodeHeader
<1> HIDE DEF n, b
<1>5. b \in Bytes /\ Len(b) \in Nat /\ Len(b) >= 1
    BY <1>1, <1>4, VarintType DEF Bytes
<1>6. ASSUME NEW data \in Bytes, NEW it \in 0..Len(data), Placed(data, it, b)
      PROVE  DecodeHeader(data, it) = [field |-> f, type |-> type, it |-> it + Len(b)]
  <2>1. data \in Seq(Nat) /\ it \in Nat
      BY DEF Bytes
  <2>2. DeserializeVarint(data, it) = [val |-> n, it |-> it + Len(b)]
      BY <1>1, <1>2, <1>4, <1>6, <2>1, VarintRead
  <2> QED
      BY <1>3, <2>2 DEF DecodeHeader
<1>7. ASSUME NEW data \in Bytes, NEW it \in 0..Len(data), Cut(data, it, b)
      PROVE  DecodeHeader(data, it).it = Thrown
  <2>1. data \in Seq(Nat)
      BY DEF Bytes
  <2>2. DeserializeVarint(data, it).it = Thrown
      BY <1>1, <1>4, <1>7, <2>1, VarintCut
  <2> QED
      BY <2>2 DEF DecodeHeader
<1> QED
    BY <1>5, <1>6, <1>7 DEF b

-----------------------------------------------------------------------------
(* The object o with the value v for the property f. *)
With(schema, o, f, v) == [g \in DOMAIN schema |-> IF g = f THEN v ELSE o[g]]

(* The bytes of one field: a header of f and a value by which the property turns  *)
(* from old into new.                                                             *)
FlatField(kind, f, bytes, old, new) ==
  \E type \in WireTypes, b \in Bytes : \E v :
    bytes = EncodeHeader(f, type) \o b /\ Decodes(kind, type, b, v) /\ new = Merge(kind, old, v)

(* One field of a message, for one of its properties. *)
FlatStep(schema, bytes, old, new) ==
  \E f \in DOMAIN schema : \E v :
    FlatField(schema[f], f, bytes, old[f], v) /\ new = With(schema, old, f, v)

(* A message is a sequence fs of fields; objs[k] is the object that has read k of them. *)
FlatRun(schema, fs, objs) ==
  /\ fs \in Seq(Bytes)
  /\ objs[0] = NewObject(schema)
  /\ \A k \in 1..Len(fs) : FlatStep(schema, fs[k], objs[k - 1], objs[k])

(* After the objects objs[0] to objs[n] the property f takes the values of P. *)
Extended(schema, objs, n, f, P) ==
  [k \in Nat |-> IF k <= n THEN objs[k] ELSE With(schema, objs[n], f, P[k - n])]

(* What the proofs use of Extended. *)
IsExtension(schema, objs, n, f, P, T) ==
  /\ \A k \in 0..n : T[k] = objs[k]
  /\ \A j \in Nat : T[n + j] = With(schema, objs[n], f, P[j])
  /\ \A j \in Nat \ {0} :
       /\ T[n + j - 1][f] = P[j - 1]
       /\ T[n + j] = With(schema, T[n + j - 1], f, P[j])

(* Extended has these properties. *)
LEMMA ExtendedIs ==
  ASSUME NEW schema, NEW objs, NEW n \in Nat, NEW f \in DOMAIN schema, NEW P,
         P[0] = objs[n][f], objs[n] = [g \in DOMAIN schema |-> objs[n][g]]
  PROVE  IsExtension(schema, objs, n, f, P, Extended(schema, objs, n, f, P))
<1> DEFINE T == Extended(schema, objs, n, f, P)
<1>1. \A k \in 0..n : T[k] = objs[k]
    BY DEF Extended
<1>2. With(schema, objs[n], f, P[0]) = objs[n]
    BY DEF With
<1>3. ASSUME NEW j \in Nat PROVE T[n + j] = With(schema, objs[n], f, P[j])
  <2>1. CASE j = 0
      BY <1>1, <1>2, <2>1
  <2>2. CASE j # 0
    <3>1. n + j \in Nat /\ ~(n + j <= n) /\ (n + j) - n = j
        BY <2>2
    <3> QED
        BY <3>1 DEF Extended
  <2> QED
      BY <2>1, <2>2
<1> HIDE DEF T
<1>4. ASSUME NEW j \in Nat \ {0}
      PROVE  /\ T[n + j - 1][f] = P[j - 1]
             /\ T[n + j] = With(schema, T[n + j - 1], f, P[j])
  <2>1. j - 1 \in Nat /\ n + (j - 1) = n + j - 1
      OBVIOUS
  <2>2. T[n + j - 1] = With(schema, objs[n], f, P[j - 1])
      BY <1>3, <2>1
  <2>3. With(schema, With(schema, objs[n], f, P[j - 1]), f, P[j]) = With(schema, objs[n], f, P[j])
      BY DEF With
  <2>4. With(schema, objs[n], f, P[j - 1])[f] = P[j - 1]
      BY DEF With
  <2> QED
      BY <1>3, <2>2, <2>3, <2>4
<1> QED
    BY <1>1, <1>3, <1>4 DEF T, IsExtension

(* Two messages in one. *)
LEMMA ConcatFields ==
  ASSUME NEW fs \in Seq(Bytes), NEW e \in Seq(Bytes)
  PROVE  /\ fs \o e \in Seq(Bytes) /\ Len(fs \o e) = Len(fs) + Len(e)
         /\ Len(fs) \in Nat /\ Len(e) \in Nat
         /\ \A k \in 1..Len(fs) : (fs \o e)[k] = fs[k]
         /\ \A j \in 1..Len(e) : (fs \o e)[Len(fs) + j] = e[j]
    OBVIOUS

(* Every object that a run of fields passes through has the properties of its type. *)
LEMMA FlatRunObjects ==
  ASSUME NEW schema, NEW fs, NEW objs, FlatRun(schema, fs, objs), NEW k \in 0..Len(fs)
  PROVE  objs[k] = [g \in DOMAIN schema |-> objs[k][g]]
<1>0. Len(fs) \in Nat
    BY DEF FlatRun
<1>1. CASE k = 0
    BY <1>1 DEF FlatRun, NewObject
<1>2. CASE k # 0
  <2>1. k \in 1..Len(fs)
      BY <1>0, <1>2
  <2>2. PICK f \in DOMAIN schema : \E v : objs[k] = With(schema, objs[k - 1], f, v)
      BY <2>1 DEF FlatRun, FlatStep
  <2> QED
      BY <2>2 DEF With
<1> QED
    BY <1>1, <1>2

(* Fields by which the property f takes the values of P are a further part of a message. *)
LEMMA FlatExtends ==
  ASSUME NEW schema, NEW fs, NEW objs, FlatRun(schema, fs, objs),
         NEW f \in DOMAIN schema, NEW e \in Seq(Bytes), NEW P,
         P[0] = objs[Len(fs)][f],
         \A j \in 1..Len(e) : FlatField(schema[f], f, e[j], P[j - 1], P[j])
  PROVE  LET T == Extended(schema, objs, Len(fs), f, P)
         IN /\ FlatRun(schema, fs \o e, T)
            /\ T[Len(fs \o e)] = With(schema, objs[Len(fs)], f, P[Len(e)])
<1> DEFINE n == Len(fs)
           m == Len(e)
           fe == fs \o e
           T == Extended(schema, objs, n, f, P)
<1>1. fs \in Seq(Bytes) /\ objs[0] = NewObject(schema)
    BY DEF FlatRun
<1>2. /\ fe \in Seq(Bytes) /\ n \in Nat /\ m \in Nat /\ Len(fe) = n + m
      /\ \A i \in 1..n : fe[i] = fs[i]
      /\ \A i \in 1..m : fe[n + i] = e[i]
    BY <1>1, ConcatFields
<1>3. objs[n] = [g \in DOMAIN schema |-> objs[n][g]]
    BY <1>2, FlatRunObjects
<1>3a. P[0] = objs[n][f]
    OBVIOUS
<1>3b. \A k \in 1..n : FlatStep(schema, fs[k], objs[k - 1], objs[k])
    BY DEF FlatRun
<1>3c. \A j \in 1..m : FlatField(schema[f], f, e[j], P[j - 1], P[j])
    OBVIOUS
<1> HIDE DEF n, m, fe
<1>4a. IsExtension(schema, objs, n, f, P, T)
    BY <1>2, <1>3, <1>3a, ExtendedIs
<1> HIDE DEF T
<1>4. /\ \A k \in 0..n : T[k] = objs[k]
      /\ \A j \in Nat : T[n + j] = With(schema, objs[n], f, P[j])
      /\ \A j \in Nat \ {0} :
           /\ T[n + j - 1][f] = P[j - 1]
           /\ T[n + j] = With(schema, T[n + j - 1], f, P[j])
    BY <1>4a DEF IsExtension
<1>5. ASSUME NEW k \in 1..Len(fe) PROVE FlatStep(schema, fe[k], T[k - 1], T[k])
  <2>1. CASE k <= n
    <3>1. k \in 1..n /\ k \in 0..n /\ k - 1 \in 0..n
        BY <1>2, <2>1
    <3>2. fe[k] = fs[k] /\ T[k] = objs[k] /\ T[k - 1] = objs[k - 1]
        BY <1>2, <1>4, <3>1
    <3> QED
        BY <1>3b, <3>1, <3>2
  <2>2. CASE k > n
    <3> DEFINE j == k - n
    <3>1. j \in 1..m /\ j \in Nat \ {0} /\ n + j = k /\ n + j - 1 = k - 1
        BY <1>2, <2>2
    <3> HIDE DEF j
    <3>2. fe[k] = e[j]
        BY <1>2, <3>1
    <3>2a. T[n + j - 1][f] = P[j - 1] /\ T[n + j] = With(schema, T[n + j - 1], f, P[j])
        BY <1>4, <3>1
    <3>2b. T[k - 1][f] = P[j - 1] /\ T[k] = With(schema, T[k - 1], f, P[j])
        BY <3>1, <3>2a
    <3>3. FlatField(schema[f], f, fe[k], T[k - 1][f], P[j])
        BY <1>3c, <3>1, <3>2, <3>2b
    <3> QED
        BY <3>2b, <3>3 DEF FlatStep
  <2> QED
      BY <1>2, <2>1, <2>2
<1>6. T[0] = NewObject(schema)
  <2>1. 0 \in 0..n
      BY <1>2
  <2> QED
      BY <1>1, <1>4, <2>1
<1>7. FlatRun(schema, fe, T)
    BY <1>2, <1>5, <1>6 DEF FlatRun
<1>8. T[Len(fe)] = With(schema, objs[n], f, P[m])
    BY <1>2, <1>4
<1> QED
    BY <1>7, <1>8 DEF T, fe, n, m

-----------------------------------------------------------------------------
(***************************************************************************)
(* The fields of a property that is not nested.                            *)
(***************************************************************************)

(***************************************************************************)
(* The fields e take a property of the kind and field number f from its    *)
(* default to the value v, by way of initial parts of v only.              *)
(***************************************************************************)
FlatEncoded(kind, f, e, v) ==
  /\ e \in Seq(Bytes)
  /\ \E P : /\ P[0] = Default(kind) /\ P[Len(e)] = v
            /\ \A j \in 1..Len(e) : FlatField(kind, f, e[j], P[j - 1], P[j])
            /\ \A j \in 0..Len(e) : InitialPart(kind, P[j], v)

(* A body that is sent with its length is shorter than the field. *)
LEMMA BodyShorter ==
  ASSUME NEW f \in FieldNumbers, NEW body \in Bytes,
         Len(EncodeHeader(f, LengthDelimited) \o PrependLengthDelimitedSize(body)) < Modulus
  PROVE  Len(body) < Modulus
<1> DEFINE h == EncodeHeader(f, LengthDelimited)
           s == SerializeVarint(Unsigned(Len(body)))
<1>1. LengthDelimited \in WireTypes
    BY DEF WireTypes
<1>2. h \in Seq(Nat) /\ Len(h) \in Nat
    BY <1>1, HeaderRead DEF Bytes
<1>3. Modulus \in Nat /\ Modulus > 0 /\ Len(body) \in Nat /\ body \in Seq(Nat)
    BY WidthAssumption DEF Modulus, Bytes
<1>4. Unsigned(Len(body)) \in Nat
    BY <1>3 DEF Unsigned
<1>5. s \in Seq(Nat) /\ Len(s) \in Nat
    BY <1>4, VarintType
<1>6. PrependLengthDelimitedSize(body) = s \o body
    BY DEF PrependLengthDelimitedSize
<1> HIDE DEF h, s
<1>7. Len(s \o body) = Len(s) + Len(body) /\ s \o body \in Seq(Nat)
    BY <1>3, <1>5
<1>8. Len(h \o (s \o body)) = Len(h) + (Len(s) + Len(body))
    BY <1>2, <1>7
<1>9. Len(h \o (s \o body)) < Modulus
    BY <1>6 DEF h
<1> QED
    BY <1>2, <1>3, <1>5, <1>8, <1>9

(* A property at its default takes no field. *)
LEMMA NoField ==
  ASSUME NEW kind \in Kinds \ Nested, NEW f
  PROVE  FlatEncoded(kind, f, <<>>, FlatDefault(kind))
<1> DEFINE P == [j \in {0} |-> FlatDefault(kind)]
<1>1. Default(kind) = FlatDefault(kind)
    BY DEF Default, Nested
<1>2. P[0] = FlatDefault(kind)
    OBVIOUS
<1>3. <<>> \in Seq(Bytes) /\ Len(<<>>) = 0 /\ 1..0 = {} /\ 0..0 = {0}
    OBVIOUS
<1> HIDE DEF P
<1>4. \A j \in 0..0 : InitialPart(kind, P[j], FlatDefault(kind))
    BY <1>2, <1>3 DEF InitialPart
<1> QED
    BY <1>1, <1>2, <1>3, <1>4 DEF FlatEncoded

(* A number, a byte array or a numeric list takes one field. *)
LEMMA OneField ==
  ASSUME NEW kind \in (Basic \union Packed), NEW f, NEW type \in WireTypes, NEW b, NEW v,
         f \in FieldNumbers, Decodes(kind, type, b, v), NEW S, kind = "enums" => v \in Seq(S)
  PROVE  FlatEncoded(kind, f, <<EncodeHeader(f, type) \o b>>, v)
<1> DEFINE P == [j \in 0..1 |-> IF j = 0 THEN FlatDefault(kind) ELSE v]
           x == EncodeHeader(f, type) \o b
           e == <<x>>
<1>1. kind \notin {"object", "objects", "map", "strings"}
    BY DEF Basic, Packed, Elem
<1>2. Default(kind) = FlatDefault(kind)
    BY <1>1 DEF Default
<1>3. P[0] = FlatDefault(kind) /\ P[1] = v
    OBVIOUS
<1>4. Merge(kind, FlatDefault(kind), v) = v
  <2>1. CASE kind = "enums"
    <3>1. FlatDefault(kind) = <<>>
        BY <2>1 DEF FlatDefault
    <3> QED
        BY <2>1, <3>1 DEF Merge
  <2>2. CASE kind # "enums"
      BY <1>1, <2>2 DEF Merge
  <2> QED
      BY <2>1, <2>2
<1>5. b \in Bytes
    BY DEF Decodes
<1>5a. EncodeHeader(f, type) \in Bytes
    BY HeaderRead
<1>6. x \in Bytes
    BY <1>5, <1>5a DEF Bytes
<1> HIDE DEF P, x
<1>7. e \in Seq(Bytes) /\ Len(e) = 1 /\ e[1] = x
    BY <1>6
<1>8. FlatField(kind, f, x, P[0], P[1])
    BY <1>3, <1>4, <1>5 DEF FlatField, x
<1>9. InitialPart(kind, P[0], v) /\ InitialPart(kind, P[1], v)
    BY <1>2, <1>3 DEF InitialPart
<1> HIDE DEF e
<1>10. \A j \in 1..Len(e) : FlatField(kind, f, e[j], P[j - 1], P[j])
  <2> SUFFICES ASSUME NEW j \in 1..Len(e) PROVE FlatField(kind, f, e[j], P[j - 1], P[j])
      OBVIOUS
  <2>1. j = 1 /\ j - 1 = 0
      BY <1>7
  <2> QED
      BY <1>7, <1>8, <2>1
<1>11. \A j \in 0..Len(e) : InitialPart(kind, P[j], v)
  <2> SUFFICES ASSUME NEW j \in 0..Len(e) PROVE InitialPart(kind, P[j], v)
      OBVIOUS
  <2>1. j = 0 \/ j = 1
      BY <1>7
  <2> QED
      BY <1>9, <2>1
<1>12. P[0] = Default(kind) /\ P[Len(e)] = v
    BY <1>2, <1>3, <1>7
<1>13. FlatEncoded(kind, f, e, v)
    BY <1>7, <1>10, <1>11, <1>12 DEF FlatEncoded
<1> QED
    BY <1>13 DEF e, x

(* The first j elements of a list of strings are there after j fields. *)
LEMMA ListPrefixes ==
  ASSUME NEW S, NEW v \in Seq(S)
  PROVE  /\ SubSeq(v, 1, 0) = <<>>
         /\ SubSeq(v, 1, Len(v)) = v
         /\ \A j \in 1..Len(v) : Append(SubSeq(v, 1, j - 1), v[j]) = SubSeq(v, 1, j)
         /\ \A j \in 0..Len(v) : IsPrefix(SubSeq(v, 1, j), v)
<1>1. /\ SubSeq(v, 1, 0) = <<>>
      /\ SubSeq(v, 1, Len(v)) = v
    OBVIOUS
<1>2. ASSUME NEW j \in 1..Len(v) PROVE Append(SubSeq(v, 1, j - 1), v[j]) = SubSeq(v, 1, j)
  <2> DEFINE a == SubSeq(v, 1, j - 1)
             c == SubSeq(v, 1, j)
  <2>1. /\ a \in Seq(S) /\ Len(a) = j - 1 /\ \A i \in 1..(j - 1) : a[i] = v[i]
        /\ c \in Seq(S) /\ Len(c) = j /\ \A i \in 1..j : c[i] = v[i]
        /\ j \in Nat /\ v[j] \in S
      OBVIOUS
  <2> HIDE DEF a, c
  <2>2. Append(a, v[j]) \in Seq(S) /\ Len(Append(a, v[j])) = j
      BY <2>1
  <2>3. \A i \in 1..j : Append(a, v[j])[i] = c[i]
      BY <2>1
  <2>4. Append(a, v[j]) = c
      BY <2>1, <2>2, <2>3, SeqEqual
  <2> QED
      BY <2>4 DEF a, c
<1>3. ASSUME NEW j \in 0..Len(v) PROVE IsPrefix(SubSeq(v, 1, j), v)
  <2> DEFINE a == SubSeq(v, 1, j)
  <2>1. a \in Seq(S) /\ Len(a) = j /\ j <= Len(v) /\ j \in Nat
      OBVIOUS
  <2> HIDE DEF a
  <2>2. IsPrefix(a, v)
      BY <2>1 DEF IsPrefix, a
  <2> QED
      BY <2>2 DEF a
<1> QED
    BY <1>1, <1>2, <1>3

(* A list of strings takes a field for each string. *)
LEMMA StringsWritten ==
  ASSUME NEW v \in Seq(Bytes), NEW f \in FieldNumbers,
         LET e == SerializeFlat("strings", v, f) IN \A i \in DOMAIN e : Len(e[i]) < Modulus
  PROVE  FlatEncoded("strings", f, SerializeFlat("strings", v, f), v)
<1> DEFINE x(i) == EncodeHeader(f, LengthDelimited) \o PrependLengthDelimitedSize(v[i])
           e == SerializeFlat("strings", v, f)
           P == [j \in 0..Len(v) |-> SubSeq(v, 1, j)]
<1>0. LengthDelimited \in WireTypes
    BY DEF WireTypes
<1>0a. EncodeHeader(f, LengthDelimited) \in Bytes
    BY <1>0, HeaderRead
<1>1. e = [i \in 1..Len(v) |-> x(i)]
    BY DEF SerializeFlat, Basic, Packed, Elem
<1>1a. \A i \in DOMAIN e : Len(e[i]) < Modulus
    OBVIOUS
<1>2. Len(v) \in Nat /\ \A i \in 1..Len(v) : v[i] \in Bytes
    OBVIOUS
<1> HIDE DEF e
<1>3. ASSUME NEW i \in 1..Len(v)
      PROVE  /\ e[i] = x(i) /\ e[i] \in Bytes
             /\ Decodes("strings", LengthDelimited, PrependLengthDelimitedSize(v[i]), v[i])
             /\ PrependLengthDelimitedSize(v[i]) \in Bytes
  <2>1. e[i] = x(i) /\ i \in DOMAIN e
      BY <1>1
  <2>2. Len(x(i)) < Modulus
      BY <1>1a, <2>1
  <2> DEFINE w == v[i]
  <2>3. w \in Bytes
      BY <1>2
  <2>4. Len(EncodeHeader(f, LengthDelimited) \o PrependLengthDelimitedSize(w)) < Modulus
      BY <2>2
  <2> HIDE DEF w
  <2>5. Len(w) < Modulus
      BY <2>3, <2>4, BodyShorter
  <2>6. Decodes("strings", LengthDelimited, PrependLengthDelimitedSize(w), w)
      BY <2>3, <2>5, BytesDecode
  <2>7. PrependLengthDelimitedSize(w) \in Bytes
      BY <2>6 DEF Decodes
  <2>8. EncodeHeader(f, LengthDelimited) \o PrependLengthDelimitedSize(w) \in Bytes
      BY <1>0a, <2>7 DEF Bytes
  <2> QED
      BY <2>1, <2>6, <2>7, <2>8 DEF w
<1>4. e \in Seq(Bytes) /\ Len(e) = Len(v)
  <2>1. e \in [1..Len(v) -> Bytes]
      BY <1>1, <1>3
  <2> QED
      BY <1>2, <2>1
<1>5. /\ SubSeq(v, 1, 0) = <<>>
      /\ SubSeq(v, 1, Len(v)) = v
      /\ \A j \in 1..Len(v) : Append(SubSeq(v, 1, j - 1), v[j]) = SubSeq(v, 1, j)
      /\ \A j \in 0..Len(v) : IsPrefix(SubSeq(v, 1, j), v)
    BY ListPrefixes
<1>6. \A j \in 0..Len(v) : P[j] = SubSeq(v, 1, j)
    OBVIOUS
<1>7. Default("strings") = <<>>
    BY DEF Default, FlatDefault
<1> HIDE DEF P
<1>8. P[0] = Default("strings") /\ P[Len(e)] = v
    BY <1>2, <1>4, <1>5, <1>6, <1>7
<1>9. ASSUME NEW j \in 1..Len(e) PROVE FlatField("strings", f, e[j], P[j - 1], P[j])
  <2>1. j \in 1..Len(v) /\ j \in 0..Len(v) /\ j - 1 \in 0..Len(v)
      BY <1>2, <1>4
  <2>2. P[j] = Append(P[j - 1], v[j])
      BY <1>5, <1>6, <2>1
  <2>3. Merge("strings", P[j - 1], v[j]) = Append(P[j - 1], v[j])
      BY DEF Merge
  <2>4. e[j] = EncodeHeader(f, LengthDelimited) \o PrependLengthDelimitedSize(v[j])
      BY <1>3, <2>1
  <2>5. PrependLengthDelimitedSize(v[j]) \in Bytes
        /\ Decodes("strings", LengthDelimited, PrependLengthDelimitedSize(v[j]), v[j])
      BY <1>3, <2>1
  <2> QED
      BY <1>0, <2>2, <2>3, <2>4, <2>5 DEF FlatField
<1>10. ASSUME NEW j \in 0..Len(e) PROVE InitialPart("strings", P[j], v)
    BY <1>4, <1>5, <1>6 DEF InitialPart
<1>11. FlatEncoded("strings", f, e, v)
    BY <1>4, <1>8, <1>9, <1>10 DEF FlatEncoded
<1> QED
    BY <1>11 DEF e

(* The fields that serializeProperty writes for a value that is not nested give it back. *)
LEMMA FlatWritten ==
  ASSUME NEW kind \in Kinds \ Nested, NEW v \in FlatValues(kind), NEW f \in FieldNumbers,
         LET e == SerializeFlat(kind, v, f) IN \A i \in DOMAIN e : Len(e[i]) < Modulus
  PROVE  FlatEncoded(kind, f, SerializeFlat(kind, v, f), v)
<1> DEFINE e == SerializeFlat(kind, v, f)
<1>1. kind \in Basic \/ kind \in Packed \/ kind = "strings"
    BY DEF Kinds
<1>2. LengthDelimited \in WireTypes /\ WireType(kind) \in WireTypes
    BY DEF WireTypes, WireType, Varint, Fixed32, Fixed64, LengthDelimited
<1>3. CASE kind \in Basic
  <2> DEFINE b == SerializeBasic(kind, v)
  <2>0. kind \notin Packed /\ kind # "strings"
      BY <1>3 DEF Basic, Packed, Elem
  <2>1. v \in BasicValues(kind)
      BY <1>3, <2>0 DEF FlatValues
  <2>2. e = IF b = <<>> THEN <<>> ELSE <<EncodeHeader(f, WireType(kind)) \o b>>
      BY <1>3, <2>0 DEF SerializeFlat
  <2>3. kind = "bytes" => Len(v) < Modulus
    <3> SUFFICES ASSUME kind = "bytes" PROVE Len(v) < Modulus
        OBVIOUS
    <3>1. v \in Bytes
        BY <2>1 DEF BasicValues, Bytes
    <3>2. b = PrependLengthDelimitedSize(v) /\ WireType(kind) = LengthDelimited
        BY DEF SerializeBasic, WireType
    <3>3. b = SerializeVarint(Unsigned(Len(v))) \o v
        BY <3>2 DEF PrependLengthDelimitedSize
    <3>4. Unsigned(Len(v)) \in Nat
        BY <3>1, WidthAssumption DEF Bytes, Unsigned, Modulus
    <3>5. LET s == SerializeVarint(Unsigned(Len(v))) IN s \in Seq(Nat) /\ Len(s) >= 1
        BY <3>4, VarintType
    <3>6. b # <<>>
        BY <3>1, <3>3, <3>5 DEF Bytes
    <3>7. e = <<EncodeHeader(f, WireType(kind)) \o b>>
        BY <2>2, <3>6
    <3>8. 1 \in DOMAIN e /\ e[1] = EncodeHeader(f, LengthDelimited) \o PrependLengthDelimitedSize(v)
        BY <3>2, <3>7
    <3>9. Len(EncodeHeader(f, LengthDelimited) \o PrependLengthDelimitedSize(v)) < Modulus
        BY <3>8
    <3> QED
        BY <3>1, <3>9, BodyShorter
  <2>4. (b = <<>> => v = FlatDefault(kind)) /\ (b # <<>> => Decodes(kind, WireType(kind), b, v))
      BY <1>3, <2>1, <2>3, BasicDecodes
  <2> HIDE DEF b
  <2>5. CASE b = <<>>
      BY <2>2, <2>4, <2>5, NoField
  <2>6. CASE b # <<>>
    <3>1. kind # "enums"
        BY <1>3 DEF Basic
    <3>2. FlatEncoded(kind, f, <<EncodeHeader(f, WireType(kind)) \o b>>, v)
        BY <1>2, <1>3, <2>4, <2>6, <3>1, OneField
    <3> QED
        BY <2>2, <2>6, <3>2
  <2> QED
      BY <2>5, <2>6
<1>4. CASE kind \in Packed
  <2>0. kind \notin Basic /\ kind # "strings"
      BY <1>4 DEF Basic, Packed, Elem
  <2>1. v \in Seq(BasicValues(Elem[kind]))
      BY <1>4, <2>0 DEF FlatValues
  <2> DEFINE body == FlattenSeq(ListBytes(kind, v))
             x == EncodeHeader(f, LengthDelimited) \o PrependLengthDelimitedSize(body)
  <2>2. e = IF v = <<>> THEN <<>> ELSE <<x>>
      BY <1>4, <2>0 DEF SerializeFlat, ListBytes
  <2>3. CASE v = <<>>
    <3>1. FlatDefault(kind) = <<>>
        BY <1>4 DEF FlatDefault, Packed, Elem
    <3> QED
        BY <2>2, <2>3, <3>1, NoField
  <2>4. CASE v # <<>>
    <3>1. e = <<x>>
        BY <2>2, <2>4
    <3>2. body \in Bytes
      <4>1. \A i \in 1..Len(v) : v[i] \in BasicValues(Elem[kind])
          BY <2>1
      <4>2. Elem[kind] \in Elements
          BY <1>4 DEF Packed, Elem, Elements
      <4>3. \A i \in 1..Len(v) : PackedElement(Elem[kind], v[i]) \in Bytes
          BY <4>1, <4>2, ElementRead
      <4>4. ListBytes(kind, v) \in Seq(Bytes)
        <5>1. ListBytes(kind, v) \in [1..Len(v) -> Bytes] /\ Len(v) \in Nat
            BY <2>1, <4>3 DEF ListBytes
        <5> QED
            BY <5>1
      <4> QED
          BY <4>4, FlattenIs
    <3>3. 1 \in DOMAIN e /\ e[1] = x
        BY <3>1
    <3>4. Len(x) < Modulus
        BY <3>3
    <3> HIDE DEF body
    <3>5. Len(body) < Modulus
        BY <3>2, <3>4, BodyShorter
    <3>6. Decodes(kind, LengthDelimited, PrependLengthDelimitedSize(body), v)
        BY <1>4, <2>1, <3>5, PackedDecodes DEF body
    <3>7. FlatEncoded(kind, f, <<EncodeHeader(f, LengthDelimited) \o PrependLengthDelimitedSize(body)>>, v)
        BY <1>2, <1>4, <2>1, <3>6, OneField
    <3> QED
        BY <3>1, <3>7
  <2> QED
      BY <2>3, <2>4
<1>5. CASE kind = "strings"
  <2>1. v \in Seq(Bytes)
      BY <1>5 DEF FlatValues, Basic, Packed, Elem, Bytes
  <2>2. LET s == SerializeFlat("strings", v, f) IN \A i \in DOMAIN s : Len(s[i]) < Modulus
      BY <1>5
  <2>3. FlatEncoded("strings", f, SerializeFlat("strings", v, f), v)
      BY <2>1, <2>2, StringsWritten
  <2> QED
      BY <1>5, <2>3
<1> QED
    BY <1>1, <1>3, <1>4, <1>5

-----------------------------------------------------------------------------
(***************************************************************************)
(* Messages without nested properties.                                     *)
(***************************************************************************)

(* Concatenation is associative. *)
LEMMA BytesAssociative ==
  ASSUME NEW a \in Bytes, NEW b \in Bytes, NEW c \in Bytes
  PROVE  (a \o b) \o c = a \o (b \o c)
    BY ConcatAssociative DEF Bytes

(* Flattening two sequences of fields. *)
LEMMA FlattenConcat ==
  ASSUME NEW fs \in Seq(Bytes), NEW e \in Seq(Bytes)
  PROVE  FlattenSeq(fs \o e) = FlattenSeq(fs) \o FlattenSeq(e)
<1> DEFINE p(k) == SubSeq(e, 1, k)
           T == {k \in Nat : k <= Len(e) => FlattenSeq(fs \o p(k)) = FlattenSeq(fs) \o FlattenSeq(p(k))}
<1>0. FlattenSeq(fs) \in Bytes /\ Len(e) \in Nat
    BY FlattenIs
<1>1. ASSUME NEW n \in Nat, \A m \in 0..(n - 1) : m \in T PROVE n \in T
  <2> SUFFICES ASSUME n <= Len(e)
               PROVE  FlattenSeq(fs \o p(n)) = FlattenSeq(fs) \o FlattenSeq(p(n))
      OBVIOUS
  <2>1. CASE n = 0
    <3>1. p(n) = <<>>
        BY <2>1
    <3>2. fs \o <<>> = fs
        OBVIOUS
    <3>3. FlattenSeq(<<>>) = <<>>
      <4>1. <<>> \in Seq(Bytes)
          OBVIOUS
      <4> QED
          BY <4>1, FlattenIs
    <3>4. FlattenSeq(fs) \o <<>> = FlattenSeq(fs)
        BY <1>0 DEF Bytes
    <3> QED
        BY <3>1, <3>2, <3>3, <3>4
  <2>2. CASE n # 0
    <3> DEFINE k == n - 1
               x == e[n]
    <3>1. k \in 0..(n - 1) /\ k \in 0..(Len(e) - 1) /\ k + 1 = n /\ k <= Len(e)
        BY <1>0, <2>2
    <3>2. FlattenSeq(fs \o p(k)) = FlattenSeq(fs) \o FlattenSeq(p(k))
        BY <1>1, <3>1
    <3>3. /\ p(k) \in Seq(Bytes) /\ FlattenSeq(p(k)) \in Bytes /\ x \in Bytes
          /\ FlattenSeq(p(n)) = FlattenSeq(p(k)) \o x
      <4>1. /\ SubSeq(e, 1, k) \in Seq(Bytes) /\ FlattenSeq(SubSeq(e, 1, k)) \in Bytes
            /\ e[k + 1] \in Bytes
            /\ FlattenSeq(SubSeq(e, 1, k + 1)) = FlattenSeq(SubSeq(e, 1, k)) \o e[k + 1]
          BY <3>1, PrefixFields
      <4> QED
          BY <3>1, <4>1
    <3>4. p(n) = Append(p(k), x)
      <4>1. n \in 1..Len(e)
          BY <1>0, <2>2
      <4> QED
          BY <4>1, ListPrefixes
    <3> HIDE DEF p, k, x
    <3>5. fs \o p(n) = Append(fs \o p(k), x)
        BY <3>3, <3>4
    <3>6. fs \o p(k) \in Seq(Bytes)
        BY <3>3
    <3>7. FlattenSeq(fs \o p(n)) = FlattenSeq(fs \o p(k)) \o x
        BY <3>3, <3>5, <3>6, FlattenAppend
    <3>8. (FlattenSeq(fs) \o FlattenSeq(p(k))) \o x = FlattenSeq(fs) \o (FlattenSeq(p(k)) \o x)
        BY <1>0, <3>3, BytesAssociative
    <3> QED
        BY <3>2, <3>3, <3>7, <3>8
  <2> QED
      BY <2>1, <2>2
<1> HIDE DEF T
<1>2. \A n \in Nat : n \in T
    BY <1>1, Induction
<1>3. Len(e) \in T
    BY <1>0, <1>2
<1>4. p(Len(e)) = e
    OBVIOUS
<1> HIDE DEF p
<1>5. FlattenSeq(fs \o p(Len(e))) = FlattenSeq(fs) \o FlattenSeq(p(Len(e)))
    BY <1>0, <1>3 DEF T
<1> QED
    BY <1>4, <1>5

(* No field is longer than its message. *)
LEMMA FieldShorter ==
  ASSUME NEW fs \in Seq(Bytes), NEW i \in 1..Len(fs)
  PROVE  fs[i] \in Bytes /\ Len(fs[i]) <= Len(FlattenSeq(fs))
<1> DEFINE k == i - 1
<1>1. k \in 0..(Len(fs) - 1) /\ k + 1 = i /\ i \in 0..Len(fs) /\ Len(fs) \in 0..Len(fs)
      /\ i <= Len(fs) /\ k \in 0..Len(fs)
    OBVIOUS
<1> HIDE DEF k
<1>2. /\ Offset(fs, k + 1) = Offset(fs, k) + Len(fs[k + 1])
      /\ Offset(fs, k) \in Nat /\ Offset(fs, Len(fs)) = Len(FlattenSeq(fs))
      /\ Offset(fs, i) \in Nat /\ Offset(fs, Len(fs)) \in Nat
    BY <1>1, OffsetStep
<1>3. Offset(fs, i) <= Offset(fs, Len(fs))
    BY <1>1, OffsetMonotone
<1>4. fs[i] \in Bytes
    OBVIOUS
<1>5. Len(fs[i]) \in Nat
    BY <1>4 DEF Bytes
<1>6. Offset(fs, i) = Offset(fs, k) + Len(fs[i])
    BY <1>1, <1>2
<1> QED
    BY <1>2, <1>3, <1>4, <1>5, <1>6

-----------------------------------------------------------------------------
(* The bytes body are a message of flat properties that is read as v. *)
FlatMessage(schema, body, v) ==
  \E fs, objs : FlatRun(schema, fs, objs) /\ FlattenSeq(fs) = body /\ objs[Len(fs)] = v

(* No bytes are the message of an object with default values. *)
LEMMA EmptyMessage ==
  ASSUME NEW schema
  PROVE  FlatMessage(schema, <<>>, NewObject(schema))
<1> DEFINE objs == [k \in {0} |-> NewObject(schema)]
<1>1. <<>> \in Seq(Bytes) /\ Len(<<>>) = 0 /\ 1..0 = {}
    OBVIOUS
<1>2. FlattenSeq(<<>>) = <<>>
    BY <1>1, FlattenIs
<1>3. objs[0] = NewObject(schema)
    OBVIOUS
<1> HIDE DEF objs
<1>4. FlatRun(schema, <<>>, objs)
    BY <1>1, <1>3 DEF FlatRun
<1> QED
    BY <1>1, <1>2, <1>3, <1>4 DEF FlatMessage

(* One more property. *)
LEMMA MessageExtends ==
  ASSUME NEW schema, NEW body, NEW o, FlatMessage(schema, body, o),
         NEW f \in DOMAIN schema, o[f] = Default(schema[f]),
         NEW e, NEW v, FlatEncoded(schema[f], f, e, v)
  PROVE  FlatMessage(schema, body \o FlattenSeq(e), With(schema, o, f, v))
<1>1. PICK fs, objs : FlatRun(schema, fs, objs) /\ FlattenSeq(fs) = body /\ objs[Len(fs)] = o
    BY DEF FlatMessage
<1>2. e \in Seq(Bytes) /\ fs \in Seq(Bytes)
    BY <1>1 DEF FlatEncoded, FlatRun
<1>3. PICK P : /\ P[0] = Default(schema[f]) /\ P[Len(e)] = v
               /\ \A j \in 1..Len(e) : FlatField(schema[f], f, e[j], P[j - 1], P[j])
    BY DEF FlatEncoded
<1> DEFINE T == Extended(schema, objs, Len(fs), f, P)
<1>4. P[0] = objs[Len(fs)][f]
    BY <1>1, <1>3
<1>5. /\ FlatRun(schema, fs \o e, T)
      /\ T[Len(fs \o e)] = With(schema, objs[Len(fs)], f, P[Len(e)])
    BY <1>1, <1>2, <1>3, <1>4, FlatExtends
<1>6. FlattenSeq(fs \o e) = body \o FlattenSeq(e)
    BY <1>1, <1>2, FlattenConcat
<1> HIDE DEF T
<1> QED
    BY <1>1, <1>3, <1>5, <1>6 DEF FlatMessage

(* A length and the bytes behind it are bytes, and more of them. *)
LEMMA PrependBytes ==
  ASSUME NEW body \in Bytes
  PROVE  /\ PrependLengthDelimitedSize(body) \in Bytes
         /\ Len(body) <= Len(PrependLengthDelimitedSize(body))
         /\ Len(PrependLengthDelimitedSize(body)) \in Nat
<1> DEFINE s == SerializeVarint(Unsigned(Len(body)))
<1>1. Unsigned(Len(body)) \in Nat
    BY WidthAssumption DEF Unsigned, Modulus, Bytes
<1>2. s \in Seq(Nat) /\ Len(s) \in Nat /\ body \in Seq(Nat) /\ Len(body) \in Nat
    BY <1>1, VarintType DEF Bytes
<1> HIDE DEF s
<1>3. s \o body \in Seq(Nat) /\ Len(s \o body) = Len(s) + Len(body)
    BY <1>2
<1>4. PrependLengthDelimitedSize(body) = s \o body
    BY DEF PrependLengthDelimitedSize, s
<1> QED
    BY <1>2, <1>3, <1>4 DEF Bytes

(* So are a header and a value. *)
LEMMA HeaderThen ==
  ASSUME NEW f \in FieldNumbers, NEW type \in WireTypes, NEW b \in Bytes
  PROVE  EncodeHeader(f, type) \o b \in Bytes
<1>1. EncodeHeader(f, type) \in Bytes
    BY HeaderRead
<1> QED
    BY <1>1 DEF Bytes

(* serializeProperty writes bytes. *)
LEMMA FlatBytes ==
  ASSUME NEW kind \in Kinds \ Nested, NEW v \in FlatValues(kind), NEW f \in FieldNumbers
  PROVE  SerializeFlat(kind, v, f) \in Seq(Bytes)
<1> DEFINE e == SerializeFlat(kind, v, f)
<1>1. kind \in Basic \/ kind \in Packed \/ kind = "strings"
    BY DEF Kinds
<1>2. LengthDelimited \in WireTypes /\ WireType(kind) \in WireTypes
    BY DEF WireTypes, WireType, Varint, Fixed32, Fixed64, LengthDelimited
<1>3. CASE kind \in Basic
  <2> DEFINE b == SerializeBasic(kind, v)
  <2>0. kind \notin Packed /\ kind # "strings"
      BY <1>3 DEF Basic, Packed, Elem
  <2>1. v \in BasicValues(kind)
      BY <1>3, <2>0 DEF FlatValues
  <2>2. e = IF b = <<>> THEN <<>> ELSE <<EncodeHeader(f, WireType(kind)) \o b>>
      BY <1>3, <2>0 DEF SerializeFlat
  <2>3. b \in Bytes
    <3>1. CASE kind = "bytes"
      <4>1. v \in Bytes /\ b = PrependLengthDelimitedSize(v)
          BY <2>1, <3>1 DEF BasicValues, Bytes, SerializeBasic
      <4> QED
          BY <4>1, PrependBytes
    <3>2. CASE kind # "bytes"
      <4>1. b # <<>> => Decodes(kind, WireType(kind), b, v)
          BY <1>3, <2>1, <3>2, BasicDecodes
      <4>2. <<>> \in Bytes
          BY DEF Bytes
      <4> QED
          BY <4>1, <4>2 DEF Decodes
    <3> QED
        BY <3>1, <3>2
  <2> HIDE DEF b
  <2>4. EncodeHeader(f, WireType(kind)) \o b \in Bytes
      BY <1>2, <2>3, HeaderThen
  <2> QED
      BY <2>2, <2>4
<1>4. CASE kind \in Packed
  <2>0. kind \notin Basic /\ kind # "strings"
      BY <1>4 DEF Basic, Packed, Elem
  <2>1. v \in Seq(BasicValues(Elem[kind]))
      BY <1>4, <2>0 DEF FlatValues
  <2> DEFINE body == FlattenSeq(ListBytes(kind, v))
             x == EncodeHeader(f, LengthDelimited) \o PrependLengthDelimitedSize(body)
  <2>2. e = IF v = <<>> THEN <<>> ELSE <<x>>
      BY <1>4, <2>0 DEF SerializeFlat, ListBytes
  <2>3. Elem[kind] \in Elements
      BY <1>4 DEF Packed, Elem, Elements
  <2>4. \A i \in 1..Len(v) : PackedElement(Elem[kind], v[i]) \in Bytes
    <3>1. \A i \in 1..Len(v) : v[i] \in BasicValues(Elem[kind])
        BY <2>1
    <3> QED
        BY <2>3, <3>1, ElementRead
  <2>5. ListBytes(kind, v) \in Seq(Bytes)
    <3>1. ListBytes(kind, v) \in [1..Len(v) -> Bytes] /\ Len(v) \in Nat
        BY <2>1, <2>4 DEF ListBytes
    <3> QED
        BY <3>1
  <2>6. body \in Bytes
      BY <2>5, FlattenIs
  <2> HIDE DEF body
  <2>7. x \in Bytes
      BY <1>2, <2>6, PrependBytes, HeaderThen
  <2> HIDE DEF x
  <2> QED
      BY <2>2, <2>7
<1>5. CASE kind = "strings"
  <2>1. v \in Seq(Bytes)
      BY <1>5 DEF FlatValues, Basic, Packed, Elem, Bytes
  <2>2. e = [i \in 1..Len(v) |-> EncodeHeader(f, LengthDelimited) \o PrependLengthDelimitedSize(v[i])]
      BY <1>5 DEF SerializeFlat, Basic, Packed, Elem
  <2>3. \A i \in 1..Len(v) : EncodeHeader(f, LengthDelimited) \o PrependLengthDelimitedSize(v[i]) \in Bytes
    <3>1. \A i \in 1..Len(v) : v[i] \in Bytes
        BY <2>1
    <3> QED
        BY <1>2, <3>1, PrependBytes, HeaderThen
  <2>4. e \in [1..Len(v) -> Bytes] /\ Len(v) \in Nat
      BY <2>1, <2>2, <2>3
  <2> HIDE DEF e
  <2>5. e \in Seq(Bytes)
      BY <2>4
  <2> QED
      BY <2>5 DEF e
<1> QED
    BY <1>1, <1>3, <1>4, <1>5

-----------------------------------------------------------------------------
(* A sequence of all members of a finite set that repeats none. *)
LEMMA SetToSeqsIs ==
  ASSUME NEW S, IsFiniteSet(S), NEW order \in SetToSeqs(S)
  PROVE  /\ order \in Seq(S) /\ Len(order) = Cardinality(S) /\ Cardinality(S) \in Nat
         /\ \A x \in S : \E i \in 1..Len(order) : order[i] = x
         /\ \A i, j \in 1..Len(order) : i # j => order[i] # order[j]
<1> DEFINE n == Cardinality(S)
           D == 1..n
<1>1. n \in Nat
    BY FS_CardinalityType
<1>2. order \in [D -> S] /\ \A i, j \in D : i # j => order[i] # order[j]
    BY DEF SetToSeqs
<1> HIDE DEF n
<1>3. order \in Injection(D, S)
    BY <1>2 DEF Injection, IsInjective
<1>4. Cardinality(D) = n
    BY <1>1, FS_Interval
<1>5. order \in Surjection(D, S)
    BY <1>3, <1>4, FS_Injection DEF n
<1>6. order \in Seq(S) /\ Len(order) = n
    BY <1>1, <1>2
<1>7. \A x \in S : \E i \in D : order[i] = x
    BY <1>5 DEF Surjection
<1> QED
    BY <1>1, <1>2, <1>6, <1>7 DEF n

(* serializeMessage, in whatever order the hash table has the properties, writes a     *)
(* message that is read as the object.                                                 *)
LEMMA MessageWritten ==
  ASSUME NEW schema, IsSchema(schema, Kinds \ Nested), NEW obj,
         obj = [f \in DOMAIN schema |-> obj[f]],
         \A f \in DOMAIN schema : obj[f] \in FlatValues(schema[f]),
         NEW order \in SetToSeqs(DOMAIN schema)
  PROVE  LET body == SerializeMessage(schema, obj, order)
         IN body \in Bytes /\ (Len(body) < Modulus => FlatMessage(schema, body, obj))
<1> DEFINE e(i) == SerializeFlat(schema[order[i]], obj[order[i]], order[i])
           L == [i \in 1..Len(order) |-> FlattenSeq(e(i))]
           body == SerializeMessage(schema, obj, order)
           n == Len(order)
<1>1. body = FlattenSeq(L)
    BY DEF SerializeMessage
<1>2. /\ order \in Seq(DOMAIN schema) /\ n \in Nat
      /\ \A x \in DOMAIN schema : \E i \in 1..n : order[i] = x
      /\ \A i, j \in 1..n : i # j => order[i] # order[j]
    BY SetToSeqsIs DEF IsSchema
<1>3. \A i \in 1..n : order[i] \in DOMAIN schema
    BY <1>2
<1>4. \A f \in DOMAIN schema : f \in FieldNumbers /\ schema[f] \in Kinds \ Nested
    BY DEF IsSchema, FieldNumbers
<1>5. \A i \in 1..n : e(i) \in Seq(Bytes)
    BY <1>3, <1>4, FlatBytes
<1>6. \A i \in 1..n : FlattenSeq(e(i)) \in Bytes
    BY <1>5, FlattenIs
<1>7. L \in Seq(Bytes) /\ Len(L) = n /\ \A i \in 1..n : L[i] = FlattenSeq(e(i))
  <2>1. L \in [1..n -> Bytes]
      BY <1>6
  <2> QED
      BY <1>2, <2>1
<1> HIDE DEF L, n
<1>8. body \in Bytes
    BY <1>1, <1>7, FlattenIs
<1> HIDE DEF body
<1>9. ASSUME Len(body) < Modulus PROVE FlatMessage(schema, body, obj)
  <2>1. ASSUME NEW i \in 1..n
        PROVE  FlatEncoded(schema[order[i]], order[i], e(i), obj[order[i]])
    <3>1. Len(FlattenSeq(e(i))) <= Len(body)
        BY <1>1, <1>7, FieldShorter
    <3>2. \A k \in 1..Len(e(i)) : e(i)[k] \in Bytes /\ Len(e(i)[k]) <= Len(FlattenSeq(e(i)))
        BY <1>5, FieldShorter
    <3>3. Len(FlattenSeq(e(i))) \in Nat /\ Len(body) \in Nat /\ Modulus \in Nat
        BY <1>6, <1>8, WidthAssumption DEF Bytes, Modulus
    <3>4. \A k \in 1..Len(e(i)) : Len(e(i)[k]) \in Nat
        BY <3>2 DEF Bytes
    <3>5. DOMAIN e(i) = 1..Len(e(i))
        BY <1>5
    <3>6. \A k \in DOMAIN e(i) : Len(e(i)[k]) < Modulus
      <4> SUFFICES ASSUME NEW k \in DOMAIN e(i) PROVE Len(e(i)[k]) < Modulus
          OBVIOUS
      <4>1. k \in 1..Len(e(i))
          BY <3>5
      <4>2. Len(e(i)[k]) \in Nat /\ Len(e(i)[k]) <= Len(FlattenSeq(e(i)))
          BY <3>2, <3>4, <4>1
      <4> HIDE DEF e
      <4> QED
          BY <1>9, <3>1, <3>3, <4>2
    <3> DEFINE f == order[i]
               v == obj[f]
               kind == schema[f]
    <3>7. /\ f \in FieldNumbers /\ kind \in Kinds \ Nested /\ v \in FlatValues(kind)
          /\ e(i) = SerializeFlat(kind, v, f)
        BY <1>3, <1>4
    <3>8. \A k \in DOMAIN SerializeFlat(kind, v, f) : Len(SerializeFlat(kind, v, f)[k]) < Modulus
        BY <3>6, <3>7
    <3> HIDE DEF f, v, kind
    <3>9. FlatEncoded(kind, f, SerializeFlat(kind, v, f), v)
        BY <3>7, <3>8, FlatWritten
    <3> QED
        BY <3>9 DEF f, v, kind
  <2> DEFINE done(k) == {order[j] : j \in 1..k}
             o(k) == [g \in DOMAIN schema |-> IF g \in done(k) THEN obj[g] ELSE Default(schema[g])]
             b(k) == FlattenSeq(SubSeq(L, 1, k))
             T == {k \in Nat : k <= n => FlatMessage(schema, b(k), o(k))}
  <2>2. ASSUME NEW k \in Nat, \A m \in 0..(k - 1) : m \in T PROVE k \in T
    <3> SUFFICES ASSUME k <= n PROVE FlatMessage(schema, b(k), o(k))
        OBVIOUS
    <3>1. CASE k = 0
      <4>1. done(k) = {}
          BY <3>1
      <4>2. o(k) = NewObject(schema)
          BY <4>1 DEF NewObject
      <4>3. SubSeq(L, 1, k) = <<>>
          BY <1>7, <3>1
      <4>4. b(k) = <<>>
        <5>1. <<>> \in Seq(Bytes)
            OBVIOUS
        <5> QED
            BY <4>3, <5>1, FlattenIs
      <4> HIDE DEF o, b
      <4> QED
          BY <4>2, <4>4, EmptyMessage
    <3>2. CASE k # 0
      <4> DEFINE p == k - 1
                 f == order[k]
      <4>1. p \in 0..(k - 1) /\ p \in Nat /\ p <= n /\ p \in 0..(Len(L) - 1) /\ k \in 1..n /\ p + 1 = k
          BY <1>2, <1>7, <3>2
      <4>2. FlatMessage(schema, b(p), o(p))
          BY <2>2, <4>1
      <4>3. f \in DOMAIN schema
          BY <1>3, <4>1
      <4>4. f \notin done(p)
        <5>1. \A j \in 1..p : j \in 1..n /\ j # k
            BY <1>2, <4>1
        <5> QED
            BY <1>2, <4>1, <5>1
      <4>5. o(p)[f] = Default(schema[f])
          BY <4>3, <4>4
      <4>6. o(k) = With(schema, o(p), f, obj[f])
        <5>1. done(k) = done(p) \union {f}
          <6>1. 1..k = (1..p) \union {k}
              BY <4>1
          <6> QED
              BY <6>1
        <5> HIDE DEF done, f, p
        <5> QED
            BY <5>1 DEF With
      <4>7. b(k) = b(p) \o FlattenSeq(e(k))
        <5>1. FlattenSeq(SubSeq(L, 1, p + 1)) = FlattenSeq(SubSeq(L, 1, p)) \o L[p + 1]
            BY <1>7, <4>1, PrefixFields
        <5> QED
            BY <1>7, <4>1, <5>1
      <4>8. FlatEncoded(schema[f], f, e(k), obj[f])
          BY <2>1, <4>1
      <4> DEFINE oo == o(p)
                 bb == b(p)
                 ee == e(k)
                 vv == obj[f]
      <4>9. /\ FlatMessage(schema, bb, oo) /\ oo[f] = Default(schema[f])
            /\ FlatEncoded(schema[f], f, ee, vv)
          BY <4>2, <4>5, <4>8
      <4> HIDE DEF oo, bb, ee, vv, f
      <4>10. FlatMessage(schema, bb \o FlattenSeq(ee), With(schema, oo, f, vv))
          BY <4>3, <4>9, MessageExtends
      <4>11. b(k) = bb \o FlattenSeq(ee)
          BY <4>7 DEF bb, ee
      <4>12. o(k) = With(schema, oo, f, vv)
          BY <4>6 DEF oo, vv
      <4> HIDE DEF o, b
      <4> QED
          BY <4>10, <4>11, <4>12
    <3> QED
        BY <3>1, <3>2
  <2> HIDE DEF T
  <2>3. \A k \in Nat : k \in T
      BY <2>2, Induction
  <2>4. FlatMessage(schema, b(n), o(n))
      BY <1>2, <2>3 DEF T
  <2>5. b(n) = body
    <3>1. SubSeq(L, 1, n) = L
        BY <1>7
    <3> QED
        BY <1>1, <3>1
  <2>6. o(n) = obj
    <3>1. \A g \in DOMAIN schema : g \in done(n)
        BY <1>2
    <3> HIDE DEF done
    <3> QED
        BY <3>1
  <2> HIDE DEF o, b
  <2> QED
      BY <2>4, <2>5, <2>6
<1> QED
    BY <1>8, <1>9 DEF body

-----------------------------------------------------------------------------
(***************************************************************************)
(* Embedded objects, lists of them and maps.                               *)
(***************************************************************************)

(* A sign extended to the width of 64 bits is lost in the cast to 32. *)
LEMMA SignExtended ==
  ASSUME NEW v \in Int, -Half <= v, v < 0
  PROVE  /\ v + Modulus * Modulus \in Nat
         /\ Unsigned(v + Modulus * Modulus) = Unsigned(v)
<1> DEFINE m == Modulus
           n == v + m * m
           q == n \div m
           r == n % m
<1>1. m \in Nat /\ m > 1 /\ m = 2 * Half /\ Half \in Nat
    BY WidthAssumption DEF Modulus
<1> HIDE DEF m
<1>2. m * m >= m
    BY <1>1
<1>3. n \in Nat
    BY <1>1, <1>2
<1> HIDE DEF n
<1>4. q \in Nat /\ r \in 0..(m - 1) /\ n = m * q + r
    BY <1>1, <1>3, DivMod
<1> HIDE DEF q, r
<1>5. m * (q - (m - 1)) = (v + m) - r
    BY <1>1, <1>3, <1>4 DEF n
<1>6. ASSUME NEW t \in Int, t >= 1 PROVE m * t >= m
    BY <1>1, <1>6
<1>7. ~(q - (m - 1) >= 1)
    BY <1>1, <1>4, <1>5, <1>6
<1>8. ~((m - 1) - q >= 1)
  <2> SUFFICES ASSUME (m - 1) - q >= 1 PROVE FALSE
      OBVIOUS
  <2>1. m * ((m - 1) - q) >= m
      BY <1>1, <1>4, <1>6
  <2>2. m * ((m - 1) - q) = r - (v + m)
      BY <1>1, <1>3, <1>4 DEF n
  <2> QED
      BY <1>1, <1>4, <2>1, <2>2
<1>9. q = m - 1
    BY <1>1, <1>4, <1>7, <1>8
<1>10. r = v + m
    BY <1>1, <1>4, <1>5, <1>9
<1>11. v % m = v + m
    BY <1>1, ModNegative
<1> QED
    BY <1>3, <1>10, <1>11 DEF Unsigned, m, n, r

-----------------------------------------------------------------------------
(* The type of the message that is embedded in a property, and what the caller  *)
(* makes of it.                                                                  *)
Embedded(kind) == IF kind = "map" THEN Pair ELSE Inner
Result(kind, v) == IF kind = "map" THEN <<v[1], v[2]>> ELSE v

(* The same as FlatField, for a property that embeds a message. *)
NestField(kind, f, bytes, old, new) ==
  \E body \in Bytes : \E v :
    /\ Len(body) < Modulus
    /\ bytes = EncodeHeader(f, LengthDelimited) \o PrependLengthDelimitedSize(body)
    /\ FlatMessage(Embedded(kind), body, v)
    /\ new = Merge(kind, old, Result(kind, v))

(* A field of any property. *)
Field(kind, f, bytes, old, new) ==
  IF kind \in Nested THEN NestField(kind, f, bytes, old, new)
  ELSE FlatField(kind, f, bytes, old, new)

(* The same as FlatEncoded, for every kind. *)
Encoded(kind, f, e, v) ==
  /\ e \in Seq(Bytes)
  /\ \E P : /\ P[0] = Default(kind) /\ P[Len(e)] = v
            /\ \A j \in 1..Len(e) : Field(kind, f, e[j], P[j - 1], P[j])
            /\ \A j \in 0..Len(e) : InitialPart(kind, P[j], v)

(* Encoded extends FlatEncoded. *)
LEMMA FlatIsEncoded ==
  ASSUME NEW kind, kind \notin Nested, NEW f, NEW e, NEW v, FlatEncoded(kind, f, e, v)
  PROVE  Encoded(kind, f, e, v)
<1>1. PICK P : /\ P[0] = Default(kind) /\ P[Len(e)] = v
               /\ \A j \in 1..Len(e) : FlatField(kind, f, e[j], P[j - 1], P[j])
               /\ \A j \in 0..Len(e) : InitialPart(kind, P[j], v)
    BY DEF FlatEncoded
<1>2. \A j \in 1..Len(e) : Field(kind, f, e[j], P[j - 1], P[j])
    BY <1>1 DEF Field
<1>3. e \in Seq(Bytes)
    BY DEF FlatEncoded
<1> QED
    BY <1>1, <1>2, <1>3 DEF Encoded

(* Embedded objects have flat properties, finitely many. *)
LEMMA InnerSchema == IsSchema(Inner, Kinds \ Nested) /\ IsFiniteSet(DOMAIN Inner)
    BY SchemaAssumption DEF IsSchema

(* An embedded object is a field of its own. *)
LEMMA ObjectField ==
  ASSUME NEW f \in FieldNumbers, NEW v, IsObject(v), NEW order \in SetToSeqs(DOMAIN Inner),
         Len(SerializeObject(f, v, order)) < Modulus,
         NEW kind \in {"object", "objects"}, NEW old
  PROVE  LET x == SerializeObject(f, v, order)
         IN x \in Bytes /\ Field(kind, f, x, old, Merge(kind, old, v))
<1> DEFINE body == SerializeMessage(Inner, v, order)
           x == SerializeObject(f, v, order)
<1>1. v = [g \in DOMAIN Inner |-> v[g]] /\ \A g \in DOMAIN Inner : v[g] \in FlatValues(Inner[g])
    BY DEF IsObject
<1>2. body \in Bytes /\ (Len(body) < Modulus => FlatMessage(Inner, body, v))
    BY <1>1, InnerSchema, MessageWritten
<1>3. x = EncodeHeader(f, LengthDelimited) \o PrependLengthDelimitedSize(body)
    BY DEF SerializeObject
<1>4. Len(x) < Modulus
    OBVIOUS
<1>5. LengthDelimited \in WireTypes
    BY DEF WireTypes
<1> HIDE DEF body, x
<1>6. Len(body) < Modulus
    BY <1>2, <1>3, <1>4, BodyShorter
<1>7. x \in Bytes
    BY <1>2, <1>3, <1>5, PrependBytes, HeaderThen
<1>8. Embedded(kind) = Inner /\ Result(kind, v) = v /\ kind \in Nested
    BY DEF Embedded, Result, Nested
<1>9. NestField(kind, f, x, old, Merge(kind, old, v))
    BY <1>2, <1>3, <1>6, <1>8 DEF NestField
<1> QED
    BY <1>7, <1>8, <1>9 DEF Field, x

(* An embedded object is read back from its one field. *)
LEMMA ObjectWritten ==
  ASSUME NEW f \in FieldNumbers, NEW v, IsObject(v), NEW order \in SetToSeqs(DOMAIN Inner),
         Len(SerializeObject(f, v, order)) < Modulus
  PROVE  Encoded("object", f, <<SerializeObject(f, v, order)>>, v)
<1> DEFINE x == SerializeObject(f, v, order)
           e == <<x>>
           d == Default("object")
           P == [j \in 0..1 |-> IF j = 0 THEN d ELSE v]
<1>1. Merge("object", d, v) = v
    BY DEF Merge
<1>2. x \in Bytes /\ Field("object", f, x, d, Merge("object", d, v))
    BY ObjectField
<1> HIDE DEF x, d
<1>3. e \in Seq(Bytes) /\ Len(e) = 1 /\ e[1] = x
    BY <1>2
<1>4. P[0] = d /\ P[1] = v
    OBVIOUS
<1> HIDE DEF e, P
<1>5. InitialPart("object", P[0], v) /\ InitialPart("object", P[1], v)
    BY <1>4 DEF InitialPart, d
<1>6. ASSUME NEW j \in 1..Len(e) PROVE Field("object", f, e[j], P[j - 1], P[j])
  <2>1. j = 1 /\ j - 1 = 0
      BY <1>3
  <2> QED
      BY <1>1, <1>2, <1>3, <1>4, <2>1
<1>7. ASSUME NEW j \in 0..Len(e) PROVE InitialPart("object", P[j], v)
  <2>1. j = 0 \/ j = 1
      BY <1>3
  <2> QED
      BY <1>5, <2>1
<1>8. P[0] = Default("object") /\ P[Len(e)] = v
    BY <1>3, <1>4 DEF d
<1>9. Encoded("object", f, e, v)
    BY <1>3, <1>6, <1>7, <1>8 DEF Encoded
<1> QED
    BY <1>9 DEF e, x

(* A list of objects takes a field for each object. *)
LEMMA ObjectsWritten ==
  ASSUME NEW f \in FieldNumbers, NEW S, NEW v \in Seq(S), \A i \in DOMAIN v : IsObject(v[i]),
         NEW order \in SetToSeqs(DOMAIN Inner),
         LET e == SerializeList(f, v, order) IN \A i \in DOMAIN e : Len(e[i]) < Modulus
  PROVE  Encoded("objects", f, SerializeList(f, v, order), v)
<1> DEFINE e == SerializeList(f, v, order)
           P == [j \in 0..Len(v) |-> SubSeq(v, 1, j)]
<1>1. e = [i \in 1..Len(v) |-> SerializeObject(f, v[i], order)]
    BY DEF SerializeList
<1>1a. \A i \in DOMAIN e : Len(e[i]) < Modulus
    OBVIOUS
<1>2. Len(v) \in Nat /\ DOMAIN v = 1..Len(v)
    OBVIOUS
<1> HIDE DEF e
<1>3. ASSUME NEW i \in 1..Len(v), NEW old
      PROVE  e[i] \in Bytes /\ Field("objects", f, e[i], old, Merge("objects", old, v[i]))
  <2> DEFINE w == v[i]
  <2>1. e[i] = SerializeObject(f, w, order) /\ i \in DOMAIN e /\ IsObject(w)
      BY <1>1, <1>2
  <2>2. Len(SerializeObject(f, w, order)) < Modulus
      BY <1>1a, <2>1
  <2> HIDE DEF w
  <2>3. LET x == SerializeObject(f, w, order)
        IN x \in Bytes /\ Field("objects", f, x, old, Merge("objects", old, w))
      BY <2>1, <2>2, ObjectField
  <2> QED
      BY <2>1, <2>3 DEF w
<1>4. e \in Seq(Bytes) /\ Len(e) = Len(v)
  <2>1. e \in [1..Len(v) -> Bytes]
      BY <1>1, <1>3
  <2> QED
      BY <1>2, <2>1
<1>5. /\ SubSeq(v, 1, 0) = <<>>
      /\ SubSeq(v, 1, Len(v)) = v
      /\ \A j \in 1..Len(v) : Append(SubSeq(v, 1, j - 1), v[j]) = SubSeq(v, 1, j)
      /\ \A j \in 0..Len(v) : IsPrefix(SubSeq(v, 1, j), v)
    BY ListPrefixes
<1>6. \A j \in 0..Len(v) : P[j] = SubSeq(v, 1, j)
    OBVIOUS
<1>7. Default("objects") = <<>>
    BY DEF Default, FlatDefault
<1> HIDE DEF P
<1>8. P[0] = Default("objects") /\ P[Len(e)] = v
    BY <1>2, <1>4, <1>5, <1>6, <1>7
<1>9. ASSUME NEW j \in 1..Len(e) PROVE Field("objects", f, e[j], P[j - 1], P[j])
  <2>1. j \in 1..Len(v) /\ j \in 0..Len(v) /\ j - 1 \in 0..Len(v)
      BY <1>2, <1>4
  <2>2. P[j] = Append(P[j - 1], v[j])
      BY <1>5, <1>6, <2>1
  <2>3. Merge("objects", P[j - 1], v[j]) = Append(P[j - 1], v[j])
      BY DEF Merge
  <2>4. Field("objects", f, e[j], P[j - 1], Merge("objects", P[j - 1], v[j]))
      BY <1>3, <2>1
  <2> QED
      BY <2>2, <2>3, <2>4
<1>10. ASSUME NEW j \in 0..Len(e) PROVE InitialPart("objects", P[j], v)
    BY <1>4, <1>5, <1>6 DEF InitialPart
<1>11. Encoded("objects", f, e, v)
    BY <1>4, <1>8, <1>9, <1>10 DEF Encoded
<1> QED
    BY <1>11 DEF e

(* A key and its value are a message of two properties. *)
LEMMA PairMessage ==
  ASSUME NEW key \in BasicValues(Pair[1]), NEW value \in BasicValues(Pair[2])
  PROVE  LET body == FlattenSeq(SerializeFlat(Pair[1], key, 1) \o SerializeFlat(Pair[2], value, 2))
         IN /\ body \in Bytes
            /\ Len(body) < Modulus =>
                 \E v : FlatMessage(Pair, body, v) /\ v[1] = key /\ v[2] = value
<1> DEFINE e1 == SerializeFlat(Pair[1], key, 1)
           e2 == SerializeFlat(Pair[2], value, 2)
           body == FlattenSeq(e1 \o e2)
<1>1. DOMAIN Pair = {1, 2} /\ 1 \in FieldNumbers /\ 2 \in FieldNumbers
      /\ Pair[1] \in Basic /\ Pair[2] \in Basic
    BY SchemaAssumption DEF IsSchema, FieldNumbers
<1>2. Basic \subseteq Kinds \ Nested
    BY DEF Basic, Kinds, Nested
<1>3. \A kind \in Basic : FlatValues(kind) = BasicValues(kind)
  <2> SUFFICES ASSUME NEW kind \in Basic PROVE FlatValues(kind) = BasicValues(kind)
      OBVIOUS
  <2>1. kind \notin Packed /\ kind # "strings"
      BY DEF Basic, Packed, Elem
  <2> QED
      BY <2>1 DEF FlatValues
<1>4. e1 \in Seq(Bytes) /\ e2 \in Seq(Bytes)
    BY <1>1, <1>2, <1>3, FlatBytes
<1>5. body = FlattenSeq(e1) \o FlattenSeq(e2)
    BY <1>4, FlattenConcat
<1>6. FlattenSeq(e1) \in Bytes /\ FlattenSeq(e2) \in Bytes
    BY <1>4, FlattenIs
<1> HIDE DEF e1, e2, body
<1>7. /\ body \in Bytes /\ Len(body) = Len(FlattenSeq(e1)) + Len(FlattenSeq(e2))
      /\ Len(FlattenSeq(e1)) \in Nat /\ Len(FlattenSeq(e2)) \in Nat
    BY <1>5, <1>6 DEF Bytes
<1>8. ASSUME Len(body) < Modulus
      PROVE  \E v : FlatMessage(Pair, body, v) /\ v[1] = key /\ v[2] = value
  <2>0. Modulus \in Nat
      BY WidthAssumption DEF Modulus
  <2>1. Len(FlattenSeq(e1)) < Modulus /\ Len(FlattenSeq(e2)) < Modulus
      BY <1>7, <1>8, <2>0
  <2>2. ASSUME NEW e \in Seq(Bytes), Len(FlattenSeq(e)) < Modulus, NEW i \in DOMAIN e
        PROVE  Len(e[i]) < Modulus
    <3>1. i \in 1..Len(e)
        OBVIOUS
    <3>2. e[i] \in Bytes /\ Len(e[i]) <= Len(FlattenSeq(e))
        BY <3>1, FieldShorter
    <3>3. FlattenSeq(e) \in Bytes
        BY FlattenIs
    <3>4. Len(e[i]) \in Nat /\ Len(FlattenSeq(e)) \in Nat
        BY <3>2, <3>3 DEF Bytes
    <3> QED
        BY <2>0, <2>2, <3>2, <3>4
  <2>3. (\A i \in DOMAIN e1 : Len(e1[i]) < Modulus) /\ (\A i \in DOMAIN e2 : Len(e2[i]) < Modulus)
      BY <1>4, <2>1, <2>2
  <2>4. FlatEncoded(Pair[1], 1, e1, key)
      BY <1>1, <1>2, <1>3, <2>3, FlatWritten DEF e1
  <2>5. FlatEncoded(Pair[2], 2, e2, value)
      BY <1>1, <1>2, <1>3, <2>3, FlatWritten DEF e2
  <2> DEFINE o0 == NewObject(Pair)
             o1 == With(Pair, o0, 1, key)
             o2 == With(Pair, o1, 2, value)
  <2>6. o0[1] = Default(Pair[1]) /\ o1[2] = Default(Pair[2]) /\ o2[1] = key /\ o2[2] = value
      BY <1>1 DEF With, NewObject
  <2>7. FlatMessage(Pair, <<>>, o0)
      BY EmptyMessage
  <2>7a. 1 \in DOMAIN Pair /\ 2 \in DOMAIN Pair
      BY <1>1
  <2> HIDE DEF o0
  <2>8. FlatMessage(Pair, <<>> \o FlattenSeq(e1), o1)
      BY <2>4, <2>6, <2>7, <2>7a, MessageExtends
  <2>9. <<>> \o FlattenSeq(e1) = FlattenSeq(e1)
      BY <1>6 DEF Bytes
  <2> HIDE DEF o1
  <2>10. FlatMessage(Pair, FlattenSeq(e1) \o FlattenSeq(e2), o2)
      BY <2>5, <2>6, <2>7a, <2>8, <2>9, MessageExtends
  <2> HIDE DEF o2
  <2> QED
      BY <1>5, <2>6, <2>10
<1> QED
    BY <1>7, <1>8 DEF body, e1, e2

(* A pair of a map is a field of its own. *)
LEMMA PairField ==
  ASSUME NEW f \in FieldNumbers, NEW key \in BasicValues(Pair[1]), NEW value \in BasicValues(Pair[2]),
         Len(SerializeMapPair(f, key, value)) < Modulus, NEW old
  PROVE  LET x == SerializeMapPair(f, key, value)
         IN x \in Bytes /\ Field("map", f, x, old, Merge("map", old, <<key, value>>))
<1> DEFINE body == FlattenSeq(SerializeFlat(Pair[1], key, 1) \o SerializeFlat(Pair[2], value, 2))
           x == SerializeMapPair(f, key, value)
<1>1. /\ body \in Bytes
      /\ Len(body) < Modulus => \E v : FlatMessage(Pair, body, v) /\ v[1] = key /\ v[2] = value
    BY PairMessage
<1>2. x = EncodeHeader(f, LengthDelimited) \o PrependLengthDelimitedSize(body)
    BY DEF SerializeMapPair
<1>3. Len(x) < Modulus
    OBVIOUS
<1>4. LengthDelimited \in WireTypes
    BY DEF WireTypes
<1> HIDE DEF body, x
<1>5. Len(body) < Modulus
    BY <1>1, <1>2, <1>3, BodyShorter
<1>6. x \in Bytes
    BY <1>1, <1>2, <1>4, PrependBytes, HeaderThen
<1>7. PICK v : FlatMessage(Pair, body, v) /\ v[1] = key /\ v[2] = value
    BY <1>1, <1>5
<1>8. Embedded("map") = Pair /\ Result("map", v) = <<key, value>> /\ "map" \in Nested
    BY <1>7 DEF Embedded, Result, Nested
<1>9. NestField("map", f, x, old, Merge("map", old, <<key, value>>))
    BY <1>1, <1>2, <1>5, <1>7, <1>8 DEF NestField
<1> QED
    BY <1>6, <1>8, <1>9 DEF Field, x

(* Each pair of a map adds its key. *)
LEMMA MapWritten ==
  ASSUME NEW f \in FieldNumbers, NEW v, IsMap(v), NEW keys \in KeyOrders(v),
         LET e == SerializeMap(f, v, keys) IN \A i \in DOMAIN e : Len(e[i]) < Modulus
  PROVE  Encoded("map", f, SerializeMap(f, v, keys), v)
<1> DEFINE e == SerializeMap(f, v, keys)
           n == Len(keys)
           K(j) == {keys[i] : i \in 1..j}
           P == [j \in 0..n |-> [k \in K(j) |-> v[k]]]
<1>1. e = [i \in 1..n |-> SerializeMapPair(f, keys[i], v[keys[i]])]
    BY DEF SerializeMap
<1>1a. \A i \in DOMAIN e : Len(e[i]) < Modulus
    OBVIOUS
<1>2. /\ keys \in Seq(DOMAIN v) /\ n \in Nat
      /\ \A k \in DOMAIN v : \E i \in 1..n : keys[i] = k
  <2>1. keys \in SetToSeqs(DOMAIN v) /\ IsFiniteSet(DOMAIN v)
      BY DEF KeyOrders, IsMap
  <2> QED
      BY <2>1, SetToSeqsIs
<1>3. /\ \A i \in 1..n : keys[i] \in DOMAIN v
      /\ v = [k \in DOMAIN v |-> v[k]]
      /\ \A k \in DOMAIN v : k \in BasicValues(Pair[1]) /\ v[k] \in BasicValues(Pair[2])
    BY <1>2 DEF IsMap
<1> HIDE DEF e, n
<1>4. ASSUME NEW i \in 1..n, NEW old
      PROVE  e[i] \in Bytes /\ Field("map", f, e[i], old, Merge("map", old, <<keys[i], v[keys[i]]>>))
  <2> DEFINE key == keys[i]
             value == v[key]
  <2>1. e[i] = SerializeMapPair(f, key, value) /\ i \in DOMAIN e
      BY <1>1
  <2>2. key \in BasicValues(Pair[1]) /\ value \in BasicValues(Pair[2])
      BY <1>3
  <2>3. Len(SerializeMapPair(f, key, value)) < Modulus
      BY <1>1a, <2>1
  <2> HIDE DEF key, value
  <2>4. LET x == SerializeMapPair(f, key, value)
        IN x \in Bytes /\ Field("map", f, x, old, Merge("map", old, <<key, value>>))
      BY <2>2, <2>3, PairField
  <2> QED
      BY <2>1, <2>4 DEF key, value
<1>5. e \in Seq(Bytes) /\ Len(e) = n
  <2>1. e \in [1..n -> Bytes]
      BY <1>1, <1>4
  <2> QED
      BY <1>2, <2>1
<1>6. \A j \in 0..n : P[j] = [k \in K(j) |-> v[k]]
    OBVIOUS
<1>7. P[0] = Default("map")
  <2>1. Default("map") = <<>>
      BY DEF Default, FlatDefault
  <2>2. K(0) = {}
      OBVIOUS
  <2>3. [k \in K(0) |-> v[k]] = <<>>
    <3> HIDE DEF K
    <3> QED
        BY <2>2
  <2>4. 0 \in 0..n
      BY <1>2
  <2> HIDE DEF P, K
  <2>5. P[0] = [k \in K(0) |-> v[k]]
      BY <1>6, <2>4
  <2> QED
      BY <2>1, <2>3, <2>5
<1>8. P[n] = v
  <2>1. K(n) = DOMAIN v
      BY <1>2, <1>3
  <2>2. n \in 0..n
      BY <1>2
  <2> HIDE DEF K, P
  <2> QED
      BY <1>3, <1>6, <2>1, <2>2
<1> HIDE DEF P
<1>9. ASSUME NEW j \in 1..n PROVE P[j] = Merge("map", P[j - 1], <<keys[j], v[keys[j]]>>)
  <2> DEFINE q == j - 1
             A == P[j]
             B == P[q]
             key == keys[j]
  <2>1. j \in 0..n /\ q \in 0..n /\ 1..j = (1..q) \union {j}
      BY <1>2
  <2>2. A = [k \in K(j) |-> v[k]] /\ B = [k \in K(q) |-> v[k]]
      BY <1>6, <2>1
  <2>3. K(j) = K(q) \union {key}
      BY <2>1
  <2> HIDE DEF A, B, K, key
  <2>4. DOMAIN A = K(j) /\ DOMAIN B = K(q) /\ \A k \in K(q) : B[k] = v[k]
      BY <2>2
  <2>5. Merge("map", B, <<key, v[key]>>) =
          [k \in DOMAIN B \union {key} |-> IF k = key THEN v[key] ELSE B[k]]
      BY DEF Merge
  <2>6. A = [k \in DOMAIN B \union {key} |-> IF k = key THEN v[key] ELSE B[k]]
      BY <2>2, <2>3, <2>4
  <2> QED
      BY <2>5, <2>6 DEF A, B, key
<1>10. ASSUME NEW j \in 0..n PROVE InitialPart("map", P[j], v)
  <2>1. K(j) \subseteq DOMAIN v
    <3>1. \A i \in 1..j : i \in 1..n
        BY <1>2
    <3> QED
        BY <1>3, <3>1
  <2> HIDE DEF K
  <2>2. DOMAIN P[j] = K(j) /\ \A k \in K(j) : P[j][k] = v[k]
      BY <1>6
  <2> QED
      BY <2>1, <2>2 DEF InitialPart
<1>11. ASSUME NEW j \in 1..Len(e) PROVE Field("map", f, e[j], P[j - 1], P[j])
    BY <1>4, <1>5, <1>9
<1>12. Encoded("map", f, e, v)
    BY <1>5, <1>7, <1>8, <1>10, <1>11 DEF Encoded
<1> QED
    BY <1>12 DEF e

(* Whatever serializeProperty may send for a property - no field for a null string, *)
(* objects in any order of their properties, a map in the order of its keys, a      *)
(* negative int32 in 64 bits - takes the property, field by field and through       *)
(* initial parts of the value only, from its default to the value.                  *)
THEOREM PropertyWritten ==
  ASSUME NEW kind \in Kinds, NEW v \in Values[kind], NEW f \in FieldNumbers,
         NEW e \in Encodings(kind, v, f), \A i \in DOMAIN e : Len(e[i]) < Modulus
  PROVE  Encoded(kind, f, e, v)
<1>1. CASE kind = "object"
  <2>1. IsObject(v)
      BY <1>1, ValuesAssumption
  <2>2. PICK o \in SetToSeqs(DOMAIN Inner) : e = <<SerializeObject(f, v, o)>>
      BY <1>1 DEF Encodings
  <2>3. Len(SerializeObject(f, v, o)) < Modulus
    <3>1. 1 \in DOMAIN e /\ e[1] = SerializeObject(f, v, o)
        BY <2>2
    <3> QED
        BY <3>1
  <2> QED
      BY <1>1, <2>1, <2>2, <2>3, ObjectWritten
<1>2. CASE kind = "objects"
  <2>1. v \in Seq(Range(v)) /\ \A i \in DOMAIN v : IsObject(v[i])
      BY <1>2, ValuesAssumption
  <2>2. PICK o \in SetToSeqs(DOMAIN Inner) : e = SerializeList(f, v, o)
      BY <1>2 DEF Encodings
  <2> QED
      BY <1>2, <2>1, <2>2, ObjectsWritten
<1>3. CASE kind = "map"
  <2>1. IsMap(v)
      BY <1>3, ValuesAssumption
  <2>2. PICK keys \in KeyOrders(v) : e = SerializeMap(f, v, keys)
      BY <1>3 DEF Encodings
  <2> QED
      BY <1>3, <2>1, <2>2, MapWritten
<1>4. CASE kind \notin Nested
  <2>1. v \in FlatValues(kind) /\ kind \in Kinds \ Nested
      BY <1>4, ValuesAssumption
  <2>2. CASE e = SerializeFlat(kind, v, f)
    <3>1. FlatEncoded(kind, f, e, v)
        BY <2>1, <2>2, FlatWritten
    <3> QED
        BY <1>4, <3>1, FlatIsEncoded
  <2>3. CASE kind = "bytes" /\ v = <<>> /\ e = <<>>
    <3>1. FlatDefault(kind) = v
        BY <2>3 DEF FlatDefault
    <3>2. FlatEncoded(kind, f, e, v)
        BY <2>1, <2>3, <3>1, NoField
    <3> QED
        BY <1>4, <3>2, FlatIsEncoded
  <2>4. CASE /\ kind = "int" /\ v < 0
             /\ e = <<EncodeHeader(f, Varint) \o SerializeVarint(v + Modulus * Modulus)>>
    <3> DEFINE n == v + Modulus * Modulus
    <3>0. kind \in Basic /\ kind \notin Packed /\ kind \in Numeric /\ kind # "enums" /\ kind # "sint"
        BY <2>4 DEF Basic, Packed, Elem, Numeric
    <3>1. v \in BasicValues(kind)
        BY <2>1, <2>4, <3>0 DEF FlatValues
    <3>2. v \in Int /\ -Half <= v
        BY <2>4, <3>1, WidthAssumption DEF BasicValues
    <3>3. n \in Nat /\ Unsigned(n) = Unsigned(v)
        BY <2>4, <3>2, SignExtended
    <3> HIDE DEF n
    <3>4. Unsigned(n) = Sent(kind, v)
        BY <3>0, <3>3 DEF Sent
    <3>5. Decodes(kind, Varint, SerializeVarint(n), v)
        BY <3>0, <3>1, <3>3, <3>4, NumericDecodes
    <3>6. Varint \in WireTypes
        BY DEF WireTypes
    <3>7. FlatEncoded(kind, f, <<EncodeHeader(f, Varint) \o SerializeVarint(n)>>, v)
        BY <3>0, <3>5, <3>6, OneField
    <3>8. FlatEncoded(kind, f, e, v)
        BY <2>4, <3>7 DEF n
    <3> QED
        BY <1>4, <3>8, FlatIsEncoded
  <2>5. \/ e = SerializeFlat(kind, v, f)
        \/ kind = "bytes" /\ v = <<>> /\ e = <<>>
        \/ /\ kind = "int" /\ v < 0
           /\ e = <<EncodeHeader(f, Varint) \o SerializeVarint(v + Modulus * Modulus)>>
      BY <1>4 DEF Encodings, Nested
  <2> QED
      BY <2>2, <2>3, <2>4, <2>5
<1> QED
    BY <1>1, <1>2, <1>3, <1>4 DEF Nested

-----------------------------------------------------------------------------
(***************************************************************************)
(* Messages of every kind of property, as serializeMessage writes them.    *)
(***************************************************************************)

(* The same as FlatRun, for a message with embedded messages. *)
FieldStep(schema, bytes, old, new) ==
  \E f \in DOMAIN schema : \E v :
    Field(schema[f], f, bytes, old[f], v) /\ new = With(schema, old, f, v)

(* fs takes an object with default values through the objects of objs. *)
Run(schema, fs, objs) ==
  /\ fs \in Seq(Bytes)
  /\ objs[0] = NewObject(schema)
  /\ \A k \in 1..Len(fs) : FieldStep(schema, fs[k], objs[k - 1], objs[k])

(* What was written of the object s: the properties not in todo, each of which the *)
(* reader has in parts until its last field.                                       *)
Message(w, s, todo1, fs, objs) ==
  /\ Run(w, fs, objs)
  /\ \A f \in DOMAIN w : objs[Len(fs)][f] = IF f \in todo1 THEN Default(w[f]) ELSE s[f]
  /\ \A k \in 0..Len(fs) : \A f \in DOMAIN w : InitialPart(w[f], objs[k][f], s[f])

(* Each of these objects has the properties of its type. *)
LEMMA RunObjects ==
  ASSUME NEW schema, NEW fs, NEW objs, Run(schema, fs, objs), NEW k \in 0..Len(fs)
  PROVE  objs[k] = [g \in DOMAIN schema |-> objs[k][g]]
<1>0. Len(fs) \in Nat
    BY DEF Run
<1>1. CASE k = 0
    BY <1>1 DEF Run, NewObject
<1>2. CASE k # 0
  <2>1. k \in 1..Len(fs)
      BY <1>0, <1>2
  <2>2. PICK f \in DOMAIN schema : \E v : objs[k] = With(schema, objs[k - 1], f, v)
      BY <2>1 DEF Run, FieldStep
  <2> QED
      BY <2>2 DEF With
<1> QED
    BY <1>1, <1>2

(* Before anything is written every property is at its default. *)
LEMMA EmptyWritten ==
  ASSUME NEW w, NEW s
  PROVE  \E objs : Message(w, s, DOMAIN w, <<>>, objs)
<1> DEFINE objs == [k \in {0} |-> NewObject(w)]
<1>1. <<>> \in Seq(Bytes) /\ Len(<<>>) = 0 /\ 1..0 = {} /\ 0..0 = {0}
    OBVIOUS
<1>2. objs[0] = NewObject(w)
    OBVIOUS
<1>3. \A f \in DOMAIN w : objs[0][f] = Default(w[f])
    BY <1>2 DEF NewObject
<1> HIDE DEF objs
<1>4. \A f \in DOMAIN w : InitialPart(w[f], objs[0][f], s[f])
    BY <1>3 DEF InitialPart
<1>5. Run(w, <<>>, objs)
    BY <1>1, <1>2 DEF Run
<1>6. Message(w, s, DOMAIN w, <<>>, objs)
    BY <1>1, <1>3, <1>4, <1>5 DEF Message
<1> QED
    BY <1>6

(* Writing one more property. *)
LEMMA PropertyExtends ==
  ASSUME NEW w, NEW s, NEW todo1, NEW fs, NEW objs, Message(w, s, todo1, fs, objs),
         NEW f \in DOMAIN w, f \in todo1, NEW e, Encoded(w[f], f, e, s[f])
  PROVE  \E T : Message(w, s, todo1 \ {f}, fs \o e, T)
<1>0. PICK P : /\ P[0] = Default(w[f]) /\ P[Len(e)] = s[f]
               /\ \A j \in 1..Len(e) : Field(w[f], f, e[j], P[j - 1], P[j])
               /\ \A j \in 0..Len(e) : InitialPart(w[f], P[j], s[f])
    BY DEF Encoded
<1> DEFINE n == Len(fs)
           m == Len(e)
           fe == fs \o e
           T == Extended(w, objs, n, f, P)
<1>1. fs \in Seq(Bytes) /\ objs[0] = NewObject(w) /\ e \in Seq(Bytes)
    BY DEF Run, Message, Encoded
<1>2. /\ fe \in Seq(Bytes) /\ n \in Nat /\ m \in Nat /\ Len(fe) = n + m
      /\ \A i \in 1..n : fe[i] = fs[i]
      /\ \A i \in 1..m : fe[n + i] = e[i]
    BY <1>1, ConcatFields
<1>3. objs[n] = [g \in DOMAIN w |-> objs[n][g]]
    BY <1>2, RunObjects DEF Message
<1>4. \A g \in DOMAIN w : objs[n][g] = IF g \in todo1 THEN Default(w[g]) ELSE s[g]
    BY DEF Message
<1>5. P[0] = objs[n][f]
    BY <1>0, <1>4
<1>6. \A k \in 1..n : FieldStep(w, fs[k], objs[k - 1], objs[k])
    BY DEF Message, Run
<1>7. \A k \in 0..n : \A g \in DOMAIN w : InitialPart(w[g], objs[k][g], s[g])
    BY DEF Message
<1>8. /\ \A j \in 1..m : Field(w[f], f, e[j], P[j - 1], P[j])
      /\ \A j \in 0..m : InitialPart(w[f], P[j], s[f])
      /\ P[m] = s[f]
    BY <1>0
<1> HIDE DEF n, m, fe
<1>9. IsExtension(w, objs, n, f, P, T)
    BY <1>2, <1>3, <1>5, ExtendedIs
<1> HIDE DEF T
<1>10. /\ \A k \in 0..n : T[k] = objs[k]
       /\ \A j \in Nat : T[n + j] = With(w, objs[n], f, P[j])
       /\ \A j \in Nat \ {0} :
            /\ T[n + j - 1][f] = P[j - 1]
            /\ T[n + j] = With(w, T[n + j - 1], f, P[j])
    BY <1>9 DEF IsExtension
<1>11. ASSUME NEW k \in 1..Len(fe) PROVE FieldStep(w, fe[k], T[k - 1], T[k])
  <2>1. CASE k <= n
    <3>1. k \in 1..n /\ k \in 0..n /\ k - 1 \in 0..n
        BY <1>2, <2>1
    <3>2. fe[k] = fs[k] /\ T[k] = objs[k] /\ T[k - 1] = objs[k - 1]
        BY <1>2, <1>10, <3>1
    <3> QED
        BY <1>6, <3>1, <3>2
  <2>2. CASE k > n
    <3> DEFINE j == k - n
    <3>1. j \in 1..m /\ j \in Nat \ {0} /\ n + j = k /\ n + j - 1 = k - 1
        BY <1>2, <2>2
    <3> HIDE DEF j
    <3>2. fe[k] = e[j]
        BY <1>2, <3>1
    <3>3. T[n + j - 1][f] = P[j - 1] /\ T[n + j] = With(w, T[n + j - 1], f, P[j])
        BY <1>10, <3>1
    <3>4. T[k - 1][f] = P[j - 1] /\ T[k] = With(w, T[k - 1], f, P[j])
        BY <3>1, <3>3
    <3>5. Field(w[f], f, fe[k], T[k - 1][f], P[j])
        BY <1>8, <3>1, <3>2, <3>4
    <3> QED
        BY <3>4, <3>5 DEF FieldStep
  <2> QED
      BY <1>2, <2>1, <2>2
<1>12. T[0] = NewObject(w)
  <2>1. 0 \in 0..n
      BY <1>2
  <2> QED
      BY <1>1, <1>10, <2>1
<1>13. Run(w, fe, T)
    BY <1>2, <1>11, <1>12 DEF Run
<1>14. ASSUME NEW g \in DOMAIN w
       PROVE  T[Len(fe)][g] = IF g \in todo1 \ {f} THEN Default(w[g]) ELSE s[g]
  <2>1. T[Len(fe)] = With(w, objs[n], f, P[m])
      BY <1>2, <1>10
  <2>2. T[Len(fe)][g] = IF g = f THEN P[m] ELSE objs[n][g]
      BY <2>1 DEF With
  <2> QED
      BY <1>4, <1>8, <2>2
<1>15. ASSUME NEW k \in 0..Len(fe), NEW g \in DOMAIN w
       PROVE  InitialPart(w[g], T[k][g], s[g])
  <2>1. CASE k <= n
    <3>1. k \in 0..n
        BY <1>2, <2>1
    <3> QED
        BY <1>7, <1>10, <3>1
  <2>2. CASE k > n
    <3> DEFINE j == k - n
    <3>1. j \in 0..m /\ j \in Nat /\ n + j = k /\ n \in 0..n
        BY <1>2, <2>2
    <3> HIDE DEF j
    <3>2. T[k] = With(w, objs[n], f, P[j])
        BY <1>10, <3>1
    <3>3. T[k][g] = IF g = f THEN P[j] ELSE objs[n][g]
        BY <3>2 DEF With
    <3> QED
        BY <1>7, <1>8, <3>1, <3>3
  <2> QED
      BY <1>2, <2>1, <2>2
<1>16. Message(w, s, todo1 \ {f}, fe, T)
    BY <1>13, <1>14, <1>15 DEF Message
<1> QED
    BY <1>16 DEF fe

(* Every field has a header of a byte at least. *)
LEMMA FieldNotEmpty ==
  ASSUME NEW kind, NEW f \in FieldNumbers, NEW bytes, NEW old, NEW new,
         Field(kind, f, bytes, old, new) \/ FlatField(kind, f, bytes, old, new)
  PROVE  bytes \in Bytes /\ Len(bytes) \in Nat /\ Len(bytes) >= 1
<1>1. \E type \in WireTypes, b \in Bytes : bytes = EncodeHeader(f, type) \o b
  <2>1. CASE FlatField(kind, f, bytes, old, new)
      BY <2>1 DEF FlatField
  <2>2. CASE NestField(kind, f, bytes, old, new)
    <3>1. PICK body \in Bytes :
            bytes = EncodeHeader(f, LengthDelimited) \o PrependLengthDelimitedSize(body)
        BY <2>2 DEF NestField
    <3>2. LengthDelimited \in WireTypes /\ PrependLengthDelimitedSize(body) \in Bytes
        BY PrependBytes DEF WireTypes
    <3> QED
        BY <3>1, <3>2
  <2> QED
      BY <2>1, <2>2 DEF Field
<1>2. PICK type \in WireTypes, b \in Bytes : bytes = EncodeHeader(f, type) \o b
    BY <1>1
<1> DEFINE h == EncodeHeader(f, type)
<1>3. h \in Bytes /\ Len(h) \in Nat /\ Len(h) >= 1
    BY HeaderRead
<1> HIDE DEF h
<1>4. h \o b \in Bytes /\ Len(h \o b) = Len(h) + Len(b) /\ Len(b) \in Nat
    BY <1>3 DEF Bytes
<1> QED
    BY <1>2, <1>3, <1>4 DEF h

(* Offsets of fields that are not empty. *)
LEMMA OffsetStrict ==
  ASSUME NEW fs \in Seq(Bytes), \A k \in 1..Len(fs) : Len(fs[k]) >= 1,
         NEW i \in 0..Len(fs), NEW j \in 0..Len(fs), i < j
  PROVE  Offset(fs, i) < Offset(fs, j)
<1>1. i \in 0..(Len(fs) - 1) /\ i + 1 \in 0..Len(fs) /\ i + 1 <= j /\ i + 1 \in 1..Len(fs)
    OBVIOUS
<1>2. Offset(fs, i + 1) = Offset(fs, i) + Len(fs[i + 1])
    BY <1>1, OffsetStep
<1>3. Offset(fs, i + 1) <= Offset(fs, j)
    BY <1>1, OffsetMonotone
<1>4. Offset(fs, i) \in Nat /\ Offset(fs, j) \in Nat /\ Offset(fs, i + 1) \in Nat
    BY <1>1, OffsetStep
<1>5. Len(fs[i + 1]) >= 1 /\ Len(fs[i + 1]) \in Nat
  <2>1. fs[i + 1] \in Bytes
      BY <1>1
  <2> QED
      BY <1>1, <2>1 DEF Bytes
<1> QED
    BY <1>2, <1>3, <1>4, <1>5

-----------------------------------------------------------------------------
(***************************************************************************)
(* One round of the decoder's loop.                                        *)
(***************************************************************************)

(* The header of a field that stands at it, or that is cut. *)
LEMMA HeaderAt ==
  ASSUME NEW f \in FieldNumbers, NEW type \in WireTypes, NEW b \in Bytes,
         NEW data \in Bytes, NEW it \in 0..Len(data)
  PROVE  LET p == it + Len(EncodeHeader(f, type))
             x == EncodeHeader(f, type) \o b
             h == [field |-> f, type |-> type, it |-> p]
         IN /\ p \in Nat /\ p > it /\ p + Len(b) = it + Len(x) /\ Len(b) \in Nat
            /\ Placed(data, it, x) =>
                 /\ DecodeHeader(data, it) = h
                 /\ p \in 0..Len(data) /\ Placed(data, p, b)
            /\ Cut(data, it, x) =>
                 \/ DecodeHeader(data, it).it = Thrown
                 \/ /\ DecodeHeader(data, it) = h
                    /\ p \in 0..Len(data) /\ Cut(data, p, b)
<1> DEFINE e == EncodeHeader(f, type)
           p == it + Len(e)
           x == e \o b
           h == [field |-> f, type |-> type, it |-> p]
<1>1. /\ e \in Bytes /\ Len(e) \in Nat /\ Len(e) >= 1
      /\ Placed(data, it, e) => DecodeHeader(data, it) = h
      /\ Cut(data, it, e) => DecodeHeader(data, it).it = Thrown
    BY HeaderRead
<1> HIDE DEF e, h
<1>2. data \in Seq(Nat) /\ it \in Nat /\ b \in Seq(Nat) /\ e \in Seq(Nat) /\ Len(b) \in Nat /\ Len(data) \in Nat
    BY <1>1 DEF Bytes
<1>3. p \in Nat /\ p > it /\ Len(x) = Len(e) + Len(b)
    BY <1>1, <1>2
<1>4. p + Len(b) = it + Len(x)
    BY <1>1, <1>2, <1>3
<1>5. ASSUME Placed(data, it, x)
      PROVE  DecodeHeader(data, it) = h /\ p \in 0..Len(data) /\ Placed(data, p, b)
  <2>1. Placed(data, it, e) /\ Placed(data, p, b)
      BY <1>2, <1>5, PlacedConcat
  <2>2. p + Len(b) <= Len(data)
      BY <2>1 DEF Placed
  <2>3. p \in 0..Len(data)
      BY <1>2, <1>3, <2>2
  <2> QED
      BY <1>1, <2>1, <2>3
<1>6. ASSUME Cut(data, it, x)
      PROVE  \/ DecodeHeader(data, it).it = Thrown
             \/ DecodeHeader(data, it) = h /\ p \in 0..Len(data) /\ Cut(data, p, b)
  <2>1. \/ Cut(data, it, e)
        \/ Placed(data, it, e) /\ Cut(data, p, b) /\ p \in 0..Len(data)
      BY <1>2, <1>6, CutConcat
  <2> QED
      BY <1>1, <2>1
<1> QED
    BY <1>2, <1>3, <1>4, <1>5, <1>6 DEF e, h

(* A header that cannot be read ends the loop. *)
LEMMA RoundRejected ==
  ASSUME DeserializeProperty, DecodeHeader(Top.data, Top.it).it = Thrown
  PROVE  status' = "out_of_range" /\ stack' = stack
<1> DEFINE h == DecodeHeader(Top.data, Top.it)
           kind == Known(h)
<1>1. \/ RejectHeader(h)
      \/ SkipUnknown(h)
      \/ DeserializeFlat(h, kind)
      \/ DeserializeObject(h, kind)
      \/ DeserializeMapPair(h, kind)
    BY DEF DeserializeProperty
<1>2. h.it = Thrown
    OBVIOUS
<1> HIDE DEF h
<1>3. BadHeader(h)
    BY <1>2 DEF BadHeader
<1>4. kind = "none"
    BY <1>3 DEF Known
<1> HIDE DEF kind
<1>5. ~SkipUnknown(h)
    BY <1>3 DEF SkipUnknown
<1>6. ~DeserializeFlat(h, kind)
    BY <1>4 DEF DeserializeFlat
<1>7. ~DeserializeObject(h, kind) /\ ~DeserializeMapPair(h, kind)
    BY <1>4 DEF DeserializeObject, DeserializeMapPair
<1>8. RejectHeader(h)
    BY <1>1, <1>5, <1>6, <1>7
<1> QED
    BY <1>2, <1>8 DEF RejectHeader, Throw

(* A header that can be read is that of a property or of an unknown field. *)
LEMMA RoundDispatch ==
  ASSUME DeserializeProperty, NEW h, DecodeHeader(Top.data, Top.it) = h,
         NEW f \in FieldNumbers, NEW type \in WireTypes, NEW p \in Nat,
         h = [field |-> f, type |-> type, it |-> p],
         Top.pair => f \in {1, 2}
  PROVE  /\ f \in DOMAIN Top.schema =>
              /\ Target(h) = f
              /\ \/ DeserializeFlat(h, Top.schema[f])
                 \/ DeserializeObject(h, Top.schema[f])
                 \/ DeserializeMapPair(h, Top.schema[f])
         /\ f \notin DOMAIN Top.schema /\ ~Top.pair => SkipUnknown(h)
<1> DEFINE kind == Known(h)
<1>1. \/ RejectHeader(h)
      \/ SkipUnknown(h)
      \/ DeserializeFlat(h, kind)
      \/ DeserializeObject(h, kind)
      \/ DeserializeMapPair(h, kind)
    BY DEF DeserializeProperty
<1>2. h.it = p /\ h.field = f /\ h.type = type
    OBVIOUS
<1>3. ~BadHeader(h)
  <2>1. p # Thrown
      BY DEF Thrown
  <2>2. f > 0
      BY DEF FieldNumbers
  <2> QED
      BY <1>2, <2>1, <2>2 DEF BadHeader, ValidHeader
<1>4. Target(h) = f
    BY <1>2 DEF Target
<1>5. ~RejectHeader(h)
    BY <1>3 DEF RejectHeader
<1>6. CASE f \in DOMAIN Top.schema
  <2>1. kind = Top.schema[f]
      BY <1>3, <1>4, <1>6 DEF Known
  <2>2. ~SkipUnknown(h)
      BY <1>2, <1>6 DEF SkipUnknown
  <2> HIDE DEF kind
  <2> QED
      BY <1>1, <1>4, <1>5, <1>6, <2>1, <2>2
<1>7. CASE f \notin DOMAIN Top.schema
  <2>1. kind = "none"
      BY <1>4, <1>7 DEF Known
  <2> HIDE DEF kind
  <2>2. ~DeserializeFlat(h, kind)
      BY <2>1 DEF DeserializeFlat
  <2>3. ~DeserializeObject(h, kind) /\ ~DeserializeMapPair(h, kind)
      BY <2>1 DEF DeserializeObject, DeserializeMapPair
  <2> QED
      BY <1>1, <1>5, <1>7, <2>2, <2>3
<1> QED
    BY <1>6, <1>7

-----------------------------------------------------------------------------
(* One round on the field of a flat property. *)
LEMMA RoundFlat ==
  ASSUME DeserializeProperty, NEW f \in FieldNumbers, NEW type \in WireTypes, NEW b \in Bytes, NEW v,
         Top.data \in Bytes, Top.it \in 0..Len(Top.data), Top.pair => f \in {1, 2},
         f \in DOMAIN Top.schema, Top.schema[f] \in Kinds \ Nested, Decodes(Top.schema[f], type, b, v)
  PROVE  LET x == EncodeHeader(f, type) \o b
         IN /\ Placed(Top.data, Top.it, x) =>
                 Continue([Write(Top, f, v) EXCEPT !.it = Top.it + Len(x)])
            /\ Cut(Top.data, Top.it, x) => Throw("out_of_range")
<1> DEFINE data == Top.data
           it == Top.it
           p == it + Len(EncodeHeader(f, type))
           x == EncodeHeader(f, type) \o b
           h == [field |-> f, type |-> type, it |-> p]
           kind == Top.schema[f]
           r == ReadFlat(kind, data, p)
<1>1. /\ p \in Nat /\ p + Len(b) = it + Len(x) /\ Len(b) \in Nat
      /\ Placed(data, it, x) =>
           DecodeHeader(data, it) = h /\ p \in 0..Len(data) /\ Placed(data, p, b)
      /\ Cut(data, it, x) =>
           \/ DecodeHeader(data, it).it = Thrown
           \/ DecodeHeader(data, it) = h /\ p \in 0..Len(data) /\ Cut(data, p, b)
    BY HeaderAt
<1>2. /\ p \in 0..Len(data) /\ Placed(data, p, b) => r = [val |-> v, it |-> p + Len(b)]
      /\ p \in 0..Len(data) /\ Cut(data, p, b) => r.it = Thrown
    BY DEF Decodes
<1>3. kind \notin {"object", "objects", "map"}
    BY DEF Nested
<1>4. ASSUME DecodeHeader(data, it) = h
      PROVE  IF r.it = Thrown THEN Throw("out_of_range")
             ELSE Continue([Write(Top, f, r.val) EXCEPT !.it = r.it])
  <2>1. h.it = p
      OBVIOUS
  <2>2. h = [field |-> f, type |-> type, it |-> p]
      OBVIOUS
  <2> HIDE DEF h, p
  <2>3. /\ Target(h) = f
        /\ DeserializeFlat(h, kind) \/ DeserializeObject(h, kind) \/ DeserializeMapPair(h, kind)
      BY <1>1, <1>4, <2>2, RoundDispatch
  <2>4. ~DeserializeObject(h, kind) /\ ~DeserializeMapPair(h, kind)
      BY <1>3 DEF DeserializeObject, DeserializeMapPair
  <2>5. DeserializeFlat(h, kind)
      BY <2>3, <2>4
  <2>6. IF r.it = Thrown THEN Throw("out_of_range")
        ELSE Continue([Write(Top, Target(h), r.val) EXCEPT !.it = r.it])
      BY <2>1, <2>5 DEF DeserializeFlat, ReadFlat
  <2> HIDE DEF r
  <2> QED
      BY <2>3, <2>6
<1> HIDE DEF h, r, p
<1>5. ASSUME Placed(data, it, x)
      PROVE  Continue([Write(Top, f, v) EXCEPT !.it = it + Len(x)])
  <2> HIDE DEF data, it, x
  <2>1. r = [val |-> v, it |-> p + Len(b)] /\ DecodeHeader(data, it) = h
      BY <1>1, <1>2, <1>5
  <2>2. r.it = it + Len(x) /\ r.val = v /\ r.it # Thrown
    <3>1. r.it = p + Len(b) /\ r.val = v
        BY <2>1
    <3>2. p + Len(b) # Thrown
        BY <1>1 DEF Thrown
    <3> QED
        BY <1>1, <3>1, <3>2
  <2>3. Continue([Write(Top, f, r.val) EXCEPT !.it = r.it])
      BY <1>4, <2>1, <2>2 DEF data, it
  <2> QED
      BY <2>2, <2>3
<1>6. ASSUME Cut(data, it, x) PROVE Throw("out_of_range")
  <2>1. CASE DecodeHeader(data, it).it = Thrown
      BY <2>1, RoundRejected DEF Throw
  <2>2. CASE DecodeHeader(data, it) = h /\ p \in 0..Len(data) /\ Cut(data, p, b)
      BY <1>2, <1>4, <2>2
  <2> QED
      BY <1>1, <1>6, <2>1, <2>2
<1> QED
    BY <1>5, <1>6 DEF data, it, x

(* One round on a field that the reader does not know. *)
LEMMA RoundUnknown ==
  ASSUME DeserializeProperty, NEW f \in FieldNumbers, NEW type \in WireTypes, NEW b \in Bytes,
         ValueBytes(type, b),
         Top.data \in Bytes, Top.it \in 0..Len(Top.data), ~Top.pair,
         f \notin DOMAIN Top.schema
  PROVE  LET x == EncodeHeader(f, type) \o b
         IN /\ Placed(Top.data, Top.it, x) => Continue([Top EXCEPT !.it = Top.it + Len(x)])
            /\ Cut(Top.data, Top.it, x) => Throw("out_of_range")
<1> DEFINE data == Top.data
           it == Top.it
           p == it + Len(EncodeHeader(f, type))
           x == EncodeHeader(f, type) \o b
           h == [field |-> f, type |-> type, it |-> p]
           r == SkipSerializedFieldBytes(type, data, p)
<1>1. /\ p \in Nat /\ p + Len(b) = it + Len(x) /\ Len(b) \in Nat
      /\ Placed(data, it, x) =>
           DecodeHeader(data, it) = h /\ p \in 0..Len(data) /\ Placed(data, p, b)
      /\ Cut(data, it, x) =>
           \/ DecodeHeader(data, it).it = Thrown
           \/ DecodeHeader(data, it) = h /\ p \in 0..Len(data) /\ Cut(data, p, b)
    BY HeaderAt
<1>2. /\ p \in 0..Len(data) /\ Placed(data, p, b) => r = p + Len(b)
      /\ p \in 0..Len(data) /\ Cut(data, p, b) => r = Thrown
    BY SkipValue
<1>4. ASSUME DecodeHeader(data, it) = h
      PROVE  IF r = Thrown THEN Throw("out_of_range") ELSE Continue([Top EXCEPT !.it = r])
  <2>1. h.it = p /\ h.type = type
      OBVIOUS
  <2>2. h = [field |-> f, type |-> type, it |-> p]
      OBVIOUS
  <2> HIDE DEF h, p
  <2>3. SkipUnknown(h)
      BY <1>1, <1>4, <2>2, RoundDispatch
  <2> QED
      BY <2>1, <2>3 DEF SkipUnknown
<1> HIDE DEF h, r, p
<1>5. ASSUME Placed(data, it, x) PROVE Continue([Top EXCEPT !.it = it + Len(x)])
  <2> HIDE DEF data, it, x
  <2>1. r = p + Len(b) /\ DecodeHeader(data, it) = h
      BY <1>1, <1>2, <1>5
  <2>2. r = it + Len(x) /\ r # Thrown
      BY <1>1, <2>1 DEF Thrown
  <2>3. Continue([Top EXCEPT !.it = r])
      BY <1>4, <2>1, <2>2 DEF data, it
  <2> QED
      BY <2>2, <2>3
<1>6. ASSUME Cut(data, it, x) PROVE Throw("out_of_range")
  <2>1. CASE DecodeHeader(data, it).it = Thrown
      BY <2>1, RoundRejected DEF Throw
  <2>2. CASE DecodeHeader(data, it) = h /\ p \in 0..Len(data) /\ Cut(data, p, b)
      BY <1>2, <1>4, <2>2
  <2> QED
      BY <1>1, <1>6, <2>1, <2>2
<1> QED
    BY <1>5, <1>6 DEF data, it, x

(* One round on the field of an embedded object or of a pair of a map: a frame for the *)
(* body is put on the stack.                                                           *)
LEMMA RoundNested ==
  ASSUME DeserializeProperty, NEW f \in FieldNumbers, NEW body \in Bytes, Len(body) < Modulus,
         Top.data \in Bytes, Top.it \in 0..Len(Top.data), ~Top.pair,
         f \in DOMAIN Top.schema, NEW kind \in Nested, Top.schema[f] = kind
  PROVE  LET x == EncodeHeader(f, LengthDelimited) \o PrependLengthDelimitedSize(body)
         IN /\ Placed(Top.data, Top.it, x) =>
                 \E d \in Bytes, base \in Nat :
                   /\ Placed(d, base, body)
                   /\ Enter(Top.it + Len(x),
                            Frame(kind = "map", Embedded(kind), d, base, base + Len(body), f))
            /\ Cut(Top.data, Top.it, x) => Throw("out_of_range")
<1> DEFINE data == Top.data
           it == Top.it
           e == EncodeHeader(f, LengthDelimited)
           p == it + Len(e)
           b == PrependLengthDelimitedSize(body)
           s == SerializeVarint(Len(body))
           x == e \o b
           h == [field |-> f, type |-> LengthDelimited, it |-> p]
           c == DeserializeVarint(data, p)
           r == DeserializeLengthDelimited(data, p)
           last == IF c.it = Thrown THEN Thrown ELSE Advance(data, c.it, c.val)
<1>0. LengthDelimited \in WireTypes /\ b \in Bytes
    BY PrependBytes DEF WireTypes
<1>1. /\ p \in Nat /\ p + Len(b) = it + Len(x) /\ Len(b) \in Nat
      /\ Placed(data, it, x) =>
           DecodeHeader(data, it) = h /\ p \in 0..Len(data) /\ Placed(data, p, b)
      /\ Cut(data, it, x) =>
           \/ DecodeHeader(data, it).it = Thrown
           \/ DecodeHeader(data, it) = h /\ p \in 0..Len(data) /\ Cut(data, p, b)
    BY <1>0, HeaderAt
<1>2. ASSUME p \in 0..Len(data)
      PROVE  /\ Placed(data, p, b) =>
                  /\ c = [val |-> Len(body), it |-> p + Len(s)]
                  /\ Placed(data, p + Len(s), body)
                  /\ r = [val |-> body, it |-> p + Len(b)]
             /\ Cut(data, p, b) =>
                  /\ r.it = Thrown
                  /\ \/ c.it = Thrown
                     \/ /\ c = [val |-> Len(body), it |-> p + Len(s)]
                        /\ Advance(data, p + Len(s), Len(body)) = Thrown
    BY <1>2, LengthDelimitedRead
<1>3. Len(b) = Len(s) + Len(body) /\ Len(s) \in Nat /\ Len(body) \in Nat
    BY LengthPrefix
<1>4. ASSUME DecodeHeader(data, it) = h
      PROVE  DeserializeObject(h, kind) \/ DeserializeMapPair(h, kind)
  <2>1. h = [field |-> f, type |-> LengthDelimited, it |-> p]
      OBVIOUS
  <2> HIDE DEF h, p
  <2>2. DeserializeFlat(h, kind) \/ DeserializeObject(h, kind) \/ DeserializeMapPair(h, kind)
      BY <1>0, <1>1, <1>4, <2>1, RoundDispatch
  <2>3. ~DeserializeFlat(h, kind)
      BY DEF DeserializeFlat
  <2> QED
      BY <2>2, <2>3
<1>5. ASSUME DecodeHeader(data, it) = h PROVE Target(h) = f
  <2>1. h = [field |-> f, type |-> LengthDelimited, it |-> p]
      OBVIOUS
  <2> HIDE DEF h, p
  <2> QED
      BY <1>0, <1>1, <1>5, <2>1, RoundDispatch
<1>6. h.it = p
    OBVIOUS
<1>7. Len(data) \in Nat
    BY DEF Bytes
<1> HIDE DEF data, it, e, p, b, s, x, h, c, r
<1>8. CASE kind = "map"
  <2>1. ASSUME DecodeHeader(data, it) = h
        PROVE  IF last = Thrown THEN Throw("out_of_range")
               ELSE Enter(last, Frame(TRUE, Pair, data, c.it, last, f))
    <3>1. ~DeserializeObject(h, kind)
        BY <1>8 DEF DeserializeObject
    <3>2. DeserializeMapPair(h, kind)
        BY <1>4, <2>1, <3>1
    <3>3. IF last = Thrown THEN Throw("out_of_range")
          ELSE Enter(last, Frame(TRUE, Pair, data, c.it, last, Target(h)))
        BY <1>6, <3>2 DEF DeserializeMapPair, c, data
    <3> QED
        BY <1>5, <2>1, <3>3
  <2>2. ASSUME Placed(data, it, x)
        PROVE  \E d \in Bytes, base \in Nat :
                 /\ Placed(d, base, body)
                 /\ Enter(it + Len(x), Frame(kind = "map", Embedded(kind), d, base, base + Len(body), f))
    <3> DEFINE base == p + Len(s)
    <3>1. /\ DecodeHeader(data, it) = h /\ Placed(data, base, body)
          /\ c = [val |-> Len(body), it |-> base]
        BY <1>1, <1>2, <2>2
    <3>2. base \in Nat /\ base + Len(body) = it + Len(x)
        BY <1>1, <1>3
    <3>3. base + Len(body) <= Len(data)
        BY <3>1 DEF Placed
    <3>4. c.it = base /\ c.val = Len(body) /\ base # Thrown
        BY <3>1, <3>2 DEF Thrown
    <3> HIDE DEF base
    <3>5. last = base + Len(body)
        BY <1>3, <1>7, <3>2, <3>3, <3>4 DEF Advance
    <3>6. last # Thrown
        BY <1>3, <3>2, <3>5 DEF Thrown
    <3> HIDE DEF last
    <3>7. Enter(last, Frame(TRUE, Pair, data, c.it, last, f))
        BY <2>1, <3>1, <3>6
    <3>8. Embedded(kind) = Pair
        BY <1>8 DEF Embedded
    <3>9. Enter(it + Len(x), Frame(TRUE, Embedded(kind), data, base, base + Len(body), f))
        BY <3>2, <3>4, <3>5, <3>7, <3>8
    <3>10. (kind = "map") = TRUE
        BY <1>8
    <3>11. Enter(it + Len(x), Frame(kind = "map", Embedded(kind), data, base, base + Len(body), f))
        BY <3>9, <3>10
    <3>12. data \in Bytes
        BY DEF data
    <3> QED
        BY <3>1, <3>2, <3>11, <3>12
  <2>3. ASSUME Cut(data, it, x) PROVE Throw("out_of_range")
    <3>1. CASE DecodeHeader(data, it).it = Thrown
        BY <3>1, RoundRejected DEF Throw, data, it
    <3>2. CASE DecodeHeader(data, it) = h /\ p \in 0..Len(data) /\ Cut(data, p, b)
      <4>1. \/ c.it = Thrown
            \/ /\ c = [val |-> Len(body), it |-> p + Len(s)]
               /\ Advance(data, p + Len(s), Len(body)) = Thrown
          BY <1>2, <3>2
      <4>2. last = Thrown
          BY <4>1
      <4> HIDE DEF last
      <4> QED
          BY <2>1, <3>2, <4>2
    <3> QED
        BY <1>1, <2>3, <3>1, <3>2
  <2> QED
      BY <2>2, <2>3 DEF data, it, x, e, b
<1>9. CASE kind # "map"
  <2>0. kind \in {"object", "objects"}
      BY <1>9 DEF Nested
  <2>1. ASSUME DecodeHeader(data, it) = h
        PROVE  IF r.it = Thrown THEN Throw("out_of_range")
               ELSE Enter(r.it, Frame(FALSE, Inner, r.val, 0, Len(r.val), f))
    <3>1. ~DeserializeMapPair(h, kind)
        BY <1>9 DEF DeserializeMapPair
    <3>2. DeserializeObject(h, kind)
        BY <1>4, <2>1, <3>1
    <3>3. IF r.it = Thrown THEN Throw("out_of_range")
          ELSE Enter(r.it, Frame(FALSE, Inner, r.val, 0, Len(r.val), Target(h)))
        BY <1>6, <3>2 DEF DeserializeObject, r, data
    <3> QED
        BY <1>5, <2>1, <3>3
  <2>2. ASSUME Placed(data, it, x)
        PROVE  \E d \in Bytes, base \in Nat :
                 /\ Placed(d, base, body)
                 /\ Enter(it + Len(x), Frame(kind = "map", Embedded(kind), d, base, base + Len(body), f))
    <3>1. DecodeHeader(data, it) = h /\ r = [val |-> body, it |-> p + Len(b)]
        BY <1>1, <1>2, <2>2
    <3>2. r.it = it + Len(x) /\ r.val = body /\ r.it # Thrown
      <4>1. r.it = p + Len(b) /\ r.val = body
          BY <3>1
      <4>2. p + Len(b) # Thrown
          BY <1>1 DEF Thrown
      <4> QED
          BY <1>1, <4>1, <4>2
    <3>3. Enter(r.it, Frame(FALSE, Inner, r.val, 0, Len(r.val), f))
        BY <2>1, <3>1, <3>2
    <3>4. Embedded(kind) = Inner /\ 0 + Len(body) = Len(body)
        BY <1>3, <1>9 DEF Embedded
    <3>5. Enter(it + Len(x), Frame(FALSE, Embedded(kind), body, 0, 0 + Len(body), f))
        BY <3>2, <3>3, <3>4
    <3>6. (kind = "map") = FALSE
        BY <1>9
    <3>7. Enter(it + Len(x), Frame(kind = "map", Embedded(kind), body, 0, 0 + Len(body), f))
        BY <3>5, <3>6
    <3>8. Placed(body, 0, body)
        BY <1>3 DEF Placed
    <3> QED
        BY <3>7, <3>8
  <2>3. ASSUME Cut(data, it, x) PROVE Throw("out_of_range")
    <3>1. CASE DecodeHeader(data, it).it = Thrown
        BY <3>1, RoundRejected DEF Throw, data, it
    <3>2. CASE DecodeHeader(data, it) = h /\ p \in 0..Len(data) /\ Cut(data, p, b)
      <4>1. r.it = Thrown
          BY <1>2, <3>2
      <4> QED
          BY <2>1, <3>2, <4>1
    <3> QED
        BY <1>1, <2>3, <3>1, <3>2
  <2> QED
      BY <2>2, <2>3 DEF data, it, x, e, b
<1> QED
    BY <1>8, <1>9

-----------------------------------------------------------------------------
(***************************************************************************)
(* The frames of the decoder.                                              *)
(***************************************************************************)

(* Frames as records, and what the decoder does with them. *)
Rec(pair, schema, data, it, last, obj, field) ==
  [pair |-> pair, schema |-> schema, data |-> data, it |-> it, last |-> last,
   obj |-> obj, field |-> field]

(* The fields of a frame. *)
LEMMA RecFields ==
  ASSUME NEW pair, NEW schema, NEW data, NEW it, NEW last, NEW obj, NEW field
  PROVE  LET r == Rec(pair, schema, data, it, last, obj, field)
         IN /\ r.pair = pair /\ r.schema = schema /\ r.data = data /\ r.it = it
            /\ r.last = last /\ r.obj = obj /\ r.field = field
    BY DEF Rec

(* Moving a frame's iterator. *)
LEMMA RecMoved ==
  ASSUME NEW pair, NEW schema, NEW data, NEW it, NEW last, NEW obj, NEW field, NEW t
  PROVE  [Rec(pair, schema, data, it, last, obj, field) EXCEPT !.it = t] =
           Rec(pair, schema, data, t, last, obj, field)
    BY DEF Rec

(* Replacing a frame's object. *)
LEMMA RecFilled ==
  ASSUME NEW pair, NEW schema, NEW data, NEW it, NEW last, NEW obj, NEW field, NEW new
  PROVE  [Rec(pair, schema, data, it, last, obj, field) EXCEPT !.obj = new] =
           Rec(pair, schema, data, it, last, new, field)
    BY DEF Rec

(* Write changes one property of a frame's object. *)
LEMMA RecWritten ==
  ASSUME NEW pair, NEW schema, NEW data, NEW it, NEW last, NEW obj, NEW field,
         obj = [g \in DOMAIN schema |-> obj[g]], NEW f \in DOMAIN schema, NEW v
  PROVE  Write(Rec(pair, schema, data, it, last, obj, field), f, v) =
           Rec(pair, schema, data, it, last, With(schema, obj, f, Merge(schema[f], obj[f], v)), field)
<1> DEFINE r == Rec(pair, schema, data, it, last, obj, field)
           m == Merge(schema[f], obj[f], v)
<1>1. r.schema = schema /\ r.obj = obj
    BY RecFields
<1>2. Write(r, f, v) = [r EXCEPT !.obj = [r.obj EXCEPT ![f] = m]]
  <2>1. Merge(r.schema[f], r.obj[f], v) = m
      BY <1>1
  <2> HIDE DEF r, m
  <2> QED
      BY <2>1 DEF Write
<1> HIDE DEF m
<1>3. [obj EXCEPT ![f] = m] = With(schema, obj, f, m)
    BY DEF With
<1>4. [r EXCEPT !.obj = With(schema, obj, f, m)] = Rec(pair, schema, data, it, last, With(schema, obj, f, m), field)
    BY RecFilled
<1> QED
    BY <1>1, <1>2, <1>3, <1>4 DEF m

(* Stacks of one and of two frames. *)
LEMMA StackTop ==
  ASSUME NEW m, NEW c
  PROVE  /\ Len(<<m>>) = 1 /\ Len(<<m, c>>) = 2
         /\ <<m>>[1] = m /\ <<m, c>>[1] = m /\ <<m, c>>[2] = c
    OBVIOUS

(* Continue in the frame of the message. *)
LEMMA OneReplaced ==
  ASSUME NEW m, NEW x
  PROVE  [<<m>> EXCEPT ![1] = x] = <<x>>
    OBVIOUS

(* Continue in the frame of a called function. *)
LEMMA StackReplaced ==
  ASSUME NEW m, NEW c, NEW x
  PROVE  [<<m, c>> EXCEPT ![2] = x] = <<m, x>>
    OBVIOUS

(* Return. *)
LEMMA StackPopped ==
  ASSUME NEW m, NEW c, NEW x
  PROVE  Append(SubSeq(<<m, c>>, 1, 0), x) = <<x>>
<1>1. SubSeq(<<m, c>>, 1, 0) = <<>>
    OBVIOUS
<1>2. Append(<<>>, x) = <<x>>
    OBVIOUS
<1> QED
    BY <1>1, <1>2

(* Enter. *)
LEMMA StackPushed ==
  ASSUME NEW m, NEW c, NEW t
  PROVE  Append([<<m>> EXCEPT ![1].it = t], c) = <<[m EXCEPT !.it = t], c>>
<1>4. [<<m>> EXCEPT ![1].it = t] = <<[m EXCEPT !.it = t]>>
  <2>1. [<<m>> EXCEPT ![1].it = t] = [<<m>> EXCEPT ![1] = [<<m>>[1] EXCEPT !.it = t]]
      OBVIOUS
  <2>2. [<<m>>[1] EXCEPT !.it = t] = [m EXCEPT !.it = t]
      OBVIOUS
  <2> DEFINE y == [m EXCEPT !.it = t]
  <2> HIDE DEF y
  <2>3. [<<m>> EXCEPT ![1] = y] = <<y>>
      OBVIOUS
  <2> QED
      BY <2>1, <2>2, <2>3 DEF y
<1>5. Append(<<[m EXCEPT !.it = t]>>, c) = <<[m EXCEPT !.it = t], c>>
  <2> DEFINE y == [m EXCEPT !.it = t]
  <2> HIDE DEF y
  <2> DEFINE S == {y, c}
             one == <<y>>
             two == <<y, c>>
             a == Append(one, c)
  <2>1. y \in S /\ c \in S
      OBVIOUS
  <2> HIDE DEF S
  <2>2. one \in Seq(S) /\ two \in Seq(S) /\ Len(one) = 1 /\ Len(two) = 2
        /\ one[1] = y /\ two[1] = y /\ two[2] = c
      BY <2>1
  <2> HIDE DEF one, two
  <2>3. a \in Seq(S) /\ Len(a) = 2 /\ a[1] = y /\ a[2] = c
    <3>0. one \in Seq(S) /\ c \in S
        BY <2>1, <2>2
    <3>1. /\ a \in Seq(S) /\ Len(a) = Len(one) + 1
          /\ \A i \in 1..Len(one) : a[i] = one[i]
          /\ a[Len(one) + 1] = c
        BY ONLY <3>0, AppendProperties
    <3> HIDE DEF a
    <3>2. Len(one) + 1 = 2 /\ 1 \in 1..Len(one)
        BY <2>2
    <3> QED
        BY <2>2, <3>1, <3>2
  <2> HIDE DEF a
  <2>4. \A i \in 1..Len(a) : a[i] = two[i]
    <3> SUFFICES ASSUME NEW i \in 1..Len(a) PROVE a[i] = two[i]
        OBVIOUS
    <3>1. i = 1 \/ i = 2
        BY <2>3
    <3> QED
        BY <2>2, <2>3, <3>1
  <2>5. a = two
      BY <2>2, <2>3, <2>4, SeqEqual
  <2> QED
      BY <2>5 DEF y, a, one, two
<1> QED
    BY <1>4, <1>5

(* The bytes that arrived hold a field whole, or are cut in it. *)
LEMMA Truncated ==
  ASSUME NEW fs \in Seq(Bytes), NEW n \in 0..Len(FlattenSeq(fs)), NEW k \in 0..(Len(fs) - 1),
         Offset(fs, k) <= n
  PROVE  LET data == SubSeq(FlattenSeq(fs), 1, n)
         IN /\ data \in Bytes /\ Len(data) = n /\ Offset(fs, k) \in 0..Len(data)
            /\ Offset(fs, k + 1) = Offset(fs, k) + Len(fs[k + 1])
            /\ Offset(fs, k) + Len(fs[k + 1]) <= n => Placed(data, Offset(fs, k), fs[k + 1])
            /\ n < Offset(fs, k) + Len(fs[k + 1]) => Cut(data, Offset(fs, k), fs[k + 1])
<1> DEFINE all == FlattenSeq(fs)
           data == SubSeq(all, 1, n)
           it == Offset(fs, k)
           x == fs[k + 1]
<1>1. all \in Bytes /\ Len(all) \in Nat
    BY FlattenIs DEF Bytes
<1>2. Offset(fs, k + 1) = it + Len(x) /\ it \in Nat
    BY OffsetStep
<1>3. Placed(all, 0, all)
    BY <1>1 DEF Placed
<1>4. Placed(all, 0 + it, x)
    BY <1>1, <1>3, FieldsPlaced
<1>5. x \in Bytes /\ Len(x) \in Nat
  <2>1. x \in Bytes
      OBVIOUS
  <2> QED
      BY <2>1 DEF Bytes
<1>6. it + Len(x) <= Len(all) /\ \A j \in 1..Len(x) : all[it + j] = x[j]
    BY <1>2, <1>4 DEF Placed
<1>6a. it <= n /\ n \in 0..Len(all)
    OBVIOUS
<1> HIDE DEF it, x, all
<1>7. data \in Bytes /\ Len(data) = n /\ \A j \in 1..n : data[j] = all[j]
    BY <1>1, <1>6a DEF Bytes
<1> HIDE DEF data
<1>8. it \in 0..Len(data)
    BY <1>2, <1>6a, <1>7
<1>9. ASSUME it + Len(x) <= n PROVE Placed(data, it, x)
  <2>1. \A j \in 1..Len(x) : it + j \in 1..n
      BY <1>2, <1>5, <1>6a, <1>9
  <2>2. \A j \in 1..Len(x) : data[it + j] = x[j]
      BY <1>6, <1>7, <2>1
  <2> QED
      BY <1>7, <1>9, <2>2 DEF Placed
<1>10. ASSUME n < it + Len(x) PROVE Cut(data, it, x)
  <2>1. \A j \in 1..(n - it) : it + j \in 1..n /\ j \in 1..Len(x)
      BY <1>1, <1>2, <1>5, <1>6a, <1>10
  <2>2. \A j \in 1..(n - it) : data[it + j] = x[j]
      BY <1>6, <1>7, <2>1
  <2> QED
      BY <1>7, <1>10, <2>2 DEF Cut
<1> QED
    BY <1>2, <1>7, <1>8, <1>9, <1>10 DEF it, x, data, all

(* The type of what is embedded has flat kinds; a pair has the fields 1 and 2. *)
LEMMA EmbeddedSchema ==
  ASSUME NEW kind
  PROVE  /\ IsSchema(Embedded(kind), Kinds \ Nested)
         /\ \A f \in DOMAIN Embedded(kind) :
              f \in FieldNumbers /\ Embedded(kind)[f] \in Kinds \ Nested
         /\ kind = "map" => DOMAIN Embedded(kind) = {1, 2}
<1>1. IsSchema(Inner, Kinds \ Nested)
    BY SchemaAssumption
<1>2. IsSchema(Pair, Kinds \ Nested) /\ DOMAIN Pair = {1, 2}
  <2>1. Basic \subseteq Kinds \ Nested
      BY DEF Basic, Kinds, Nested
  <2> QED
      BY <2>1, SchemaAssumption DEF IsSchema
<1>3. IsSchema(Embedded(kind), Kinds \ Nested)
    BY <1>1, <1>2 DEF Embedded
<1> QED
    BY <1>2, <1>3 DEF Embedded, IsSchema, FieldNumbers

-----------------------------------------------------------------------------
(***************************************************************************)
(* The inductive invariant.                                                *)
(***************************************************************************)

(***************************************************************************)
(* The decoder between two fields, and inside the field behind the first k *)
(* ones, n bytes having arrived.                                           *)
(***************************************************************************)
Seen(r, o) == [f \in DOMAIN r |-> o[f]]

(* The frame of the message, at it, whose object has read what o has. *)
Main(r, fs, n, o, it) ==
  Rec(FALSE, r, SubSeq(FlattenSeq(fs), 1, n), it, n, Seen(r, o), 0)

(* The fields of that frame. *)
LEMMA MainFields ==
  ASSUME NEW r, NEW fs, NEW n, NEW o, NEW it
  PROVE  LET m == Main(r, fs, n, o, it)
         IN /\ ~m.pair /\ m.schema = r /\ m.data = SubSeq(FlattenSeq(fs), 1, n)
            /\ m.it = it /\ m.last = n /\ m.obj = Seen(r, o)
<1> DEFINE data == SubSeq(FlattenSeq(fs), 1, n)
           obj == Seen(r, o)
           m == Main(r, fs, n, o, it)
<1>1. m = Rec(FALSE, r, data, it, n, obj, 0)
    BY DEF Main
<1> DEFINE no == FALSE
<1> HIDE DEF data, obj, m, no
<1>2. m = Rec(no, r, data, it, n, obj, 0)
    BY <1>1 DEF no
<1>3. /\ m.pair = no /\ m.schema = r /\ m.data = data
      /\ m.it = it /\ m.last = n /\ m.obj = obj
    BY <1>2, RecFields
<1>4. ~m.pair
    BY <1>3 DEF no
<1> QED
    BY <1>3, <1>4 DEF m, data, obj

(* Moving its iterator. *)
LEMMA MainMoved ==
  ASSUME NEW r, NEW fs, NEW n, NEW o, NEW it, NEW t
  PROVE  [Main(r, fs, n, o, it) EXCEPT !.it = t] = Main(r, fs, n, o, t)
<1> DEFINE data == SubSeq(FlattenSeq(fs), 1, n)
           obj == Seen(r, o)
<1>1. Main(r, fs, n, o, it) = Rec(FALSE, r, data, it, n, obj, 0)
      /\ Main(r, fs, n, o, t) = Rec(FALSE, r, data, t, n, obj, 0)
    BY DEF Main
<1> HIDE DEF data, obj
<1>2. [Rec(FALSE, r, data, it, n, obj, 0) EXCEPT !.it = t] = Rec(FALSE, r, data, t, n, obj, 0)
  <2> DEFINE no == FALSE
  <2> HIDE DEF no
  <2>1. [Rec(no, r, data, it, n, obj, 0) EXCEPT !.it = t] = Rec(no, r, data, t, n, obj, 0)
      BY RecMoved
  <2> QED
      BY <2>1 DEF no
<1> QED
    BY <1>1, <1>2

(* The frame of a called function that has read i of the fields cs at base. *)
Callee(kind, f, d, base, cs, os, i) ==
  Rec(kind = "map", Embedded(kind), d, base + Offset(cs, i), base + Len(FlattenSeq(cs)), os[i], f)

(* The decoder has read k of the fields fs, n bytes of which arrived. *)
Between(r, fs, objs, st, n, k) ==
  /\ k \in 0..Len(fs) /\ n \in 0..Len(FlattenSeq(fs)) /\ Offset(fs, k) <= n
  /\ st = <<Main(r, fs, n, objs[k], Offset(fs, k))>>

(* The callee reads the fields cs of the body, by which its object passes through os. *)
Calls(w, r, objs, k, f, d, base, cs, os) ==
  /\ f \in DOMAIN r /\ r[f] \in Nested /\ d \in Bytes /\ base \in Nat
  /\ FlatRun(Embedded(r[f]), cs, os) /\ Placed(d, base, FlattenSeq(cs))
  /\ objs[k + 1] = With(w, objs[k], f, Merge(r[f], objs[k][f], Result(r[f], os[Len(cs)])))

(* The frames while the callee has read i of the fields of the body. *)
CallStack(r, fs, objs, n, k, f, d, base, cs, os, i) ==
  <<Main(r, fs, n, objs[k], Offset(fs, k + 1)), Callee(r[f], f, d, base, cs, os, i)>>

(* The decoder reads the body of the field behind the first k. *)
Inside(w, r, fs, objs, st, n, k) ==
  /\ k \in 0..(Len(fs) - 1) /\ n \in 0..Len(FlattenSeq(fs)) /\ Offset(fs, k + 1) <= n
  /\ \E f, d, base, cs, os : \E i \in 0..Len(cs) :
       /\ Calls(w, r, objs, k, f, d, base, cs, os)
       /\ st = CallStack(r, fs, objs, n, k, f, d, base, cs, os, i)

(* The reader's type is part of the writer's, and each property has a value of its *)
(* kind.                                                                           *)
Typed(w, r, s, todo1) ==
  /\ w \in Schemas /\ todo1 \subseteq DOMAIN w
  /\ DOMAIN r \subseteq DOMAIN w /\ r = [f \in DOMAIN r |-> w[f]]
  /\ \A f \in DOMAIN w : s[f] \in Values[w[f]]

(* Where the decoder stands, by the status: a cut field is one that has begun and not *)
(* ended.                                                                             *)
ReadsOn(w, r, fs, objs, st, stat) ==
  \E n, k :
    \/ stat = "reading" /\ Between(r, fs, objs, st, n, k)
    \/ stat = "done" /\ Between(r, fs, objs, st, n, k) /\ Offset(fs, k) = n
    \/ /\ stat = "out_of_range" /\ Between(r, fs, objs, st, n, k) /\ k < Len(fs)
       /\ Offset(fs, k) < n /\ n < Offset(fs, k + 1)
    \/ stat = "reading" /\ Inside(w, r, fs, objs, st, n, k)

(* The inductive invariant. While the sender writes, the fields so far take an object   *)
(* with default values, one property after the other and through initial parts only, to *)
(* the sender's object without the properties in todo. While the receiver reads, its    *)
(* object is, on the properties it has, one of the objects on that way.                 *)
IInv ==
  /\ Typed(writer, reader, sent, todo)
  /\ \E objs :
       /\ Message(writer, sent, todo, fields, objs)
       /\ \/ status = "writing" /\ stack = <<>>
          \/ todo = {} /\ ReadsOn(writer, reader, fields, objs, stack, status)

-----------------------------------------------------------------------------
(* The writer's type has proper field numbers and kinds. *)
LEMMA WriterFields ==
  ASSUME NEW w \in Schemas, NEW f \in DOMAIN w
  PROVE  f \in FieldNumbers /\ w[f] \in Kinds
    BY SchemaAssumption DEF IsSchema, FieldNumbers

(* A property of the reader is one of the writer, of the same kind. *)
LEMMA TypedReader ==
  ASSUME NEW w, NEW r, NEW s, NEW t, Typed(w, r, s, t), NEW f \in DOMAIN r
  PROVE  f \in DOMAIN w /\ r[f] = w[f]
    BY DEF Typed

(* What the reader sees of a property that was written. *)
LEMMA SeenKnown ==
  ASSUME NEW w, NEW r, DOMAIN r \subseteq DOMAIN w, NEW o, NEW f \in DOMAIN r, NEW v
  PROVE  Seen(r, With(w, o, f, v)) = With(r, Seen(r, o), f, v)
    BY DEF Seen, With

(* A property that the reader lacks changes nothing. *)
LEMMA SeenUnknown ==
  ASSUME NEW w, NEW r, DOMAIN r \subseteq DOMAIN w, NEW o, NEW f, f \notin DOMAIN r, NEW v
  PROVE  Seen(r, With(w, o, f, v)) = Seen(r, o)
    BY DEF Seen, With

(* No field is empty. *)
LEMMA RunNotEmpty ==
  ASSUME NEW w \in Schemas, NEW fs, NEW objs, Run(w, fs, objs)
  PROVE  fs \in Seq(Bytes) /\ \A k \in 1..Len(fs) : Len(fs[k]) >= 1
<1>1. ASSUME NEW k \in 1..Len(fs) PROVE Len(fs[k]) >= 1
  <2>1. PICK f \in DOMAIN w : \E v : Field(w[f], f, fs[k], objs[k - 1][f], v)
      BY DEF Run, FieldStep
  <2>2. f \in FieldNumbers
      BY WriterFields
  <2> QED
      BY <2>1, <2>2, FieldNotEmpty
<1> QED
    BY <1>1 DEF Run

(* No field of a body is empty. *)
LEMMA FlatRunNotEmpty ==
  ASSUME NEW kind, NEW fs, NEW objs, FlatRun(Embedded(kind), fs, objs)
  PROVE  fs \in Seq(Bytes) /\ \A k \in 1..Len(fs) : Len(fs[k]) >= 1
<1> DEFINE w == Embedded(kind)
<1>1. ASSUME NEW k \in 1..Len(fs) PROVE Len(fs[k]) >= 1
  <2>1. PICK f \in DOMAIN w : \E v : FlatField(w[f], f, fs[k], objs[k - 1][f], v)
      BY DEF FlatRun, FlatStep
  <2>2. f \in FieldNumbers
      BY EmbeddedSchema
  <2> QED
      BY <2>1, <2>2, FieldNotEmpty
<1> QED
    BY <1>1 DEF FlatRun

-----------------------------------------------------------------------------
(* One round of the callee: it reads the next field of the body. *)
LEMMA CalleeRound ==
  ASSUME NEW m, NEW kind, NEW f, NEW d \in Bytes, NEW base \in Nat, NEW cs, NEW os, NEW i \in 0..Len(cs),
         FlatRun(Embedded(kind), cs, os), Placed(d, base, FlattenSeq(cs)),
         stack = <<m, Callee(kind, f, d, base, cs, os, i)>>, DeserializeProperty
  PROVE  /\ i \in 0..(Len(cs) - 1) /\ status' = status
         /\ stack' = <<m, Callee(kind, f, d, base, cs, os, i + 1)>>
<1> DEFINE schema == Embedded(kind)
           fr == Callee(kind, f, d, base, cs, os, i)
           it == base + Offset(cs, i)
           end == base + Len(FlattenSeq(cs))
<1>1. cs \in Seq(Bytes) /\ Len(cs) \in Nat
    BY DEF FlatRun
<1>2. Top = fr /\ Len(stack) = 2
    BY StackTop DEF Top
<1>3. /\ fr.pair = (kind = "map") /\ fr.schema = schema /\ fr.data = d /\ fr.it = it
      /\ fr.last = end /\ fr.obj = os[i] /\ fr.field = f
    BY RecFields DEF Callee
<1>4. fr.it # fr.last
    BY <1>2 DEF DeserializeProperty
<1>5. i \in 0..(Len(cs) - 1)
  <2>1. i # Len(cs)
    <3>1. Offset(cs, Len(cs)) = Len(FlattenSeq(cs))
        BY <1>1, OffsetStep
    <3> QED
        BY <1>3, <1>4, <3>1
  <2> QED
      BY <1>1, <2>1
<1>6. i + 1 \in 1..Len(cs) /\ (i + 1) - 1 = i
    BY <1>1, <1>5
<1>6a. cs[i + 1] \in Bytes
    BY <1>1, <1>6
<1>7. FlatStep(schema, cs[i + 1], os[(i + 1) - 1], os[i + 1])
    BY <1>6 DEF FlatRun
<1>8. PICK g \in DOMAIN schema : \E v :
        FlatField(schema[g], g, cs[i + 1], os[i][g], v) /\ os[i + 1] = With(schema, os[i], g, v)
    BY <1>6, <1>7 DEF FlatStep
<1>9. PICK type \in WireTypes, b \in Bytes : \E v :
        /\ cs[i + 1] = EncodeHeader(g, type) \o b /\ Decodes(schema[g], type, b, v)
        /\ os[i + 1] = With(schema, os[i], g, Merge(schema[g], os[i][g], v))
    BY <1>8 DEF FlatField
<1>10. PICK v : /\ Decodes(schema[g], type, b, v)
                /\ os[i + 1] = With(schema, os[i], g, Merge(schema[g], os[i][g], v))
    BY <1>9
<1> DEFINE x == EncodeHeader(g, type) \o b
<1>11. cs[i + 1] = x
    BY <1>9
<1>12. Placed(d, it, x)
    BY <1>1, <1>5, <1>11, FieldsPlaced
<1>13. g \in FieldNumbers /\ schema[g] \in Kinds \ Nested /\ (kind = "map" => g \in {1, 2})
    BY EmbeddedSchema
<1>14. it \in 0..Len(d)
  <2>1. Offset(cs, i) \in Nat
      BY <1>1, OffsetStep
  <2>2. x \in Bytes
      BY <1>6a, <1>11
  <2>3. it + Len(x) <= Len(d)
      BY <1>12 DEF Placed
  <2>4. Len(x) \in Nat /\ Len(d) \in Nat
      BY <2>2 DEF Bytes
  <2> HIDE DEF x
  <2> QED
      BY <2>1, <2>3, <2>4
<1>15. Offset(cs, i + 1) = Offset(cs, i) + Len(x) /\ Offset(cs, i) \in Nat /\ Len(x) \in Nat
  <2>1. x \in Bytes
      BY <1>6a, <1>11
  <2>2. Len(x) \in Nat
      BY <2>1 DEF Bytes
  <2> QED
      BY <1>1, <1>5, <1>11, <2>2, OffsetStep
<1> HIDE DEF fr, it, end, x, schema
<1>16. /\ Top.data \in Bytes /\ Top.it \in 0..Len(Top.data) /\ (Top.pair => g \in {1, 2})
       /\ g \in DOMAIN Top.schema /\ Top.schema[g] \in Kinds \ Nested
       /\ Decodes(Top.schema[g], type, b, v)
       /\ Placed(Top.data, Top.it, x)
    BY <1>2, <1>3, <1>10, <1>12, <1>13, <1>14
<1>17. Continue([Write(Top, g, v) EXCEPT !.it = Top.it + Len(x)])
    BY <1>13, <1>16, RoundFlat DEF x
<1>18. os[i] = [y \in DOMAIN schema |-> os[i][y]]
    BY FlatRunObjects DEF schema
<1>19. fr = Rec(kind = "map", schema, d, it, end, os[i], f)
    BY DEF fr, Callee, schema, it, end
<1>20. Write(fr, g, v) = Rec(kind = "map", schema, d, it, end, os[i + 1], f)
    BY <1>10, <1>18, <1>19, RecWritten
<1>21. it + Len(x) = base + Offset(cs, i + 1)
    BY <1>15 DEF it
<1>22. [Write(fr, g, v) EXCEPT !.it = it + Len(x)] =
          Rec(kind = "map", schema, d, base + Offset(cs, i + 1), end, os[i + 1], f)
    BY <1>20, <1>21, RecMoved
<1>23. Rec(kind = "map", schema, d, base + Offset(cs, i + 1), end, os[i + 1], f) =
         Callee(kind, f, d, base, cs, os, i + 1)
    BY DEF Callee, schema, end
<1>24. Continue(Callee(kind, f, d, base, cs, os, i + 1))
    BY <1>2, <1>3, <1>17, <1>22, <1>23
<1>25. stack' = [stack EXCEPT ![2] = Callee(kind, f, d, base, cs, os, i + 1)] /\ status' = status
    BY <1>2, <1>24 DEF Continue
<1>26. stack' = <<m, Callee(kind, f, d, base, cs, os, i + 1)>>
  <2> DEFINE new == Callee(kind, f, d, base, cs, os, i + 1)
  <2>1. stack = <<m, fr>>
      BY DEF fr
  <2> HIDE DEF new
  <2>2. [<<m, fr>> EXCEPT ![2] = new] = <<m, new>>
      BY StackReplaced
  <2> QED
      BY <1>25, <2>1, <2>2 DEF new
<1> QED
    BY <1>5, <1>25, <1>26

(* What a round of the loop over the message can come to: the next field is read or *)
(* skipped, the input ends inside of it, or its body is entered.                    *)
FieldRead(objs, n, k) ==
  /\ status' = status /\ Offset(fields, k + 1) <= n
  /\ stack' = <<Main(reader, fields, n, objs[k + 1], Offset(fields, k + 1))>>

(* The input ends inside of it: out_of_range, and nothing is written. *)
FieldCut(objs, n, k) ==
  status' = "out_of_range" /\ n < Offset(fields, k + 1) /\ stack' = stack

(* Its body is entered, which is shorter by a header and a length. *)
FieldEntered(objs, n, k) ==
  /\ status' = status /\ Offset(fields, k + 1) <= n
  /\ \E f, d, base, cs, os :
       /\ Calls(writer, reader, objs, k, f, d, base, cs, os)
       /\ stack' = CallStack(reader, fields, objs, n, k, f, d, base, cs, os, 0)
       /\ Len(FlattenSeq(cs)) + 2 <= Len(fields[k + 1])

(* The facts that every case starts from. *)
AtField(objs, n, k) ==
  /\ fields \in Seq(Bytes) /\ k \in 0..(Len(fields) - 1) /\ n \in Nat
  /\ Offset(fields, k) \in Nat /\ Offset(fields, k) < n
  /\ Offset(fields, k + 1) = Offset(fields, k) + Len(fields[k + 1]) /\ Len(fields[k + 1]) \in Nat
  /\ stack = <<Main(reader, fields, n, objs[k], Offset(fields, k))>>
  /\ Len(stack) = 1 /\ Top = Main(reader, fields, n, objs[k], Offset(fields, k))
  /\ ~Top.pair /\ Top.schema = reader /\ Top.data \in Bytes
  /\ Top.it = Offset(fields, k) /\ Top.it \in 0..Len(Top.data)
  /\ Offset(fields, k + 1) <= n => Placed(Top.data, Top.it, fields[k + 1])
  /\ ~(Offset(fields, k + 1) <= n) => Cut(Top.data, Top.it, fields[k + 1])

(* Between two fields a round finds the next one whole, or cut. *)
LEMMA MainAtField ==
  ASSUME NEW objs, NEW n, NEW k, Typed(writer, reader, sent, todo), Run(writer, fields, objs),
         Between(reader, fields, objs, stack, n, k), DeserializeProperty
  PROVE  AtField(objs, n, k)
<1> DEFINE it == Offset(fields, k)
           fr == Main(reader, fields, n, objs[k], it)
           data == SubSeq(FlattenSeq(fields), 1, n)
<1>1. fields \in Seq(Bytes) /\ Len(fields) \in Nat
    BY DEF Run
<1>2. k \in 0..Len(fields) /\ n \in 0..Len(FlattenSeq(fields)) /\ it <= n /\ stack = <<fr>>
    BY DEF Between
<1>3. Top = fr /\ Len(stack) = 1
    BY <1>2, StackTop DEF Top
<1>4. ~fr.pair /\ fr.schema = reader /\ fr.data = data /\ fr.it = it /\ fr.last = n
  <2> DEFINE o == objs[k]
             m == Main(reader, fields, n, o, it)
  <2>1. fr = m
      OBVIOUS
  <2> HIDE DEF o, it
  <2>2. ~m.pair /\ m.schema = reader /\ m.data = data /\ m.it = it /\ m.last = n
      BY MainFields
  <2> HIDE DEF m, fr
  <2> QED
      BY <2>1, <2>2
<1>5. it # n
    BY <1>3, <1>4 DEF DeserializeProperty
<1>6. it \in Nat /\ n \in Nat /\ Len(FlattenSeq(fields)) \in Nat
  <2>1. FlattenSeq(fields) \in Bytes
      BY <1>1, FlattenIs
  <2>2. Len(FlattenSeq(fields)) \in Nat
      BY <2>1 DEF Bytes
  <2>3. it \in Nat
      BY <1>1, <1>2, OffsetStep
  <2> QED
      BY <1>2, <2>2, <2>3
<1>7. it < n
    BY <1>2, <1>5, <1>6
<1>8. k \in 0..(Len(fields) - 1)
  <2>1. k # Len(fields)
    <3>1. Offset(fields, Len(fields)) = Len(FlattenSeq(fields))
        BY <1>1, OffsetStep
    <3> QED
        BY <1>2, <1>6, <1>7, <3>1
  <2> QED
      BY <1>1, <1>2, <2>1
<1>9. /\ data \in Bytes /\ Len(data) = n /\ it \in 0..Len(data)
      /\ Offset(fields, k + 1) = it + Len(fields[k + 1])
      /\ it + Len(fields[k + 1]) <= n => Placed(data, it, fields[k + 1])
      /\ n < it + Len(fields[k + 1]) => Cut(data, it, fields[k + 1])
    BY <1>1, <1>2, <1>8, Truncated
<1>10. Len(fields[k + 1]) \in Nat
  <2>1. fields[k + 1] \in Bytes
      BY <1>1, <1>8
  <2> QED
      BY <2>1 DEF Bytes
<1> HIDE DEF fr, data, it
<1>11. /\ Offset(fields, k + 1) <= n => Placed(data, it, fields[k + 1])
       /\ ~(Offset(fields, k + 1) <= n) => Cut(data, it, fields[k + 1])
    BY <1>6, <1>9, <1>10
<1> QED
    BY <1>1, <1>2, <1>3, <1>4, <1>6, <1>7, <1>8, <1>9, <1>10, <1>11 DEF AtField, fr, it

(* A field that the reader does not have. *)
LEMMA MainUnknown ==
  ASSUME NEW objs, NEW n, NEW k, Typed(writer, reader, sent, todo), AtField(objs, n, k),
         DeserializeProperty,
         NEW f \in FieldNumbers, f \notin DOMAIN reader, NEW type \in WireTypes, NEW b \in Bytes,
         ValueBytes(type, b), fields[k + 1] = EncodeHeader(f, type) \o b,
         NEW v, objs[k + 1] = With(writer, objs[k], f, v)
  PROVE  FieldRead(objs, n, k) \/ FieldCut(objs, n, k)
<1> DEFINE x == EncodeHeader(f, type) \o b
<1>1. /\ Top.data \in Bytes /\ Top.it \in 0..Len(Top.data) /\ ~Top.pair
      /\ f \notin DOMAIN Top.schema
    BY DEF AtField
<1>2. /\ Placed(Top.data, Top.it, x) => Continue([Top EXCEPT !.it = Top.it + Len(x)])
      /\ Cut(Top.data, Top.it, x) => Throw("out_of_range")
    BY <1>1, RoundUnknown
<1>3. fields[k + 1] = x
    OBVIOUS
<1> HIDE DEF x
<1>4. CASE Offset(fields, k + 1) <= n
  <2>1. Continue([Top EXCEPT !.it = Offset(fields, k + 1)])
      BY <1>2, <1>3, <1>4 DEF AtField
  <2>2. [Top EXCEPT !.it = Offset(fields, k + 1)] =
          Main(reader, fields, n, objs[k], Offset(fields, k + 1))
    <3>1. Top = Main(reader, fields, n, objs[k], Offset(fields, k))
        BY DEF AtField
    <3> DEFINE m == Main(reader, fields, n, objs[k], Offset(fields, k))
               t == Offset(fields, k + 1)
    <3> HIDE DEF t
    <3>2. [m EXCEPT !.it = t] = Main(reader, fields, n, objs[k], t)
        BY MainMoved
    <3> HIDE DEF m
    <3> QED
        BY <3>1, <3>2 DEF m, t
  <2>3. Seen(reader, objs[k + 1]) = Seen(reader, objs[k])
    <3> DEFINE o == objs[k]
    <3>1. DOMAIN reader \subseteq DOMAIN writer
        BY DEF Typed
    <3> HIDE DEF o
    <3>2. Seen(reader, With(writer, o, f, v)) = Seen(reader, o)
        BY <3>1, SeenUnknown
    <3> QED
        BY <3>2 DEF o
  <2>4. Main(reader, fields, n, objs[k], Offset(fields, k + 1)) =
          Main(reader, fields, n, objs[k + 1], Offset(fields, k + 1))
      BY <2>3 DEF Main
  <2> DEFINE new == Main(reader, fields, n, objs[k + 1], Offset(fields, k + 1))
             old == Main(reader, fields, n, objs[k], Offset(fields, k))
  <2>5. Continue(new)
      BY <2>1, <2>2, <2>4
  <2>6. stack = <<old>> /\ Len(stack) = 1
      BY DEF AtField
  <2> HIDE DEF new, old
  <2>7. stack' = [<<old>> EXCEPT ![1] = new] /\ status' = status
      BY <2>5, <2>6 DEF Continue
  <2>8. stack' = <<new>>
      BY <2>7, OneReplaced
  <2> QED
      BY <1>4, <2>7, <2>8 DEF FieldRead, new
<1>5. CASE ~(Offset(fields, k + 1) <= n)
  <2>1. Throw("out_of_range")
      BY <1>2, <1>3, <1>5 DEF AtField
  <2>2. n < Offset(fields, k + 1)
      BY <1>5 DEF AtField
  <2> QED
      BY <2>1, <2>2 DEF FieldCut, Throw
<1> QED
    BY <1>4, <1>5

(* A field of a property that is not nested. *)
LEMMA MainFlat ==
  ASSUME NEW objs, NEW n, NEW k, Typed(writer, reader, sent, todo), AtField(objs, n, k),
         DeserializeProperty,
         NEW f \in FieldNumbers, f \in DOMAIN reader, reader[f] \in Kinds \ Nested,
         NEW type \in WireTypes, NEW b \in Bytes, NEW v,
         Decodes(reader[f], type, b, v), fields[k + 1] = EncodeHeader(f, type) \o b,
         objs[k + 1] = With(writer, objs[k], f, Merge(reader[f], objs[k][f], v))
  PROVE  FieldRead(objs, n, k) \/ FieldCut(objs, n, k)
<1> DEFINE x == EncodeHeader(f, type) \o b
<1>1. /\ Top.data \in Bytes /\ Top.it \in 0..Len(Top.data) /\ (Top.pair => f \in {1, 2})
      /\ f \in DOMAIN Top.schema /\ Top.schema[f] \in Kinds \ Nested
      /\ Decodes(Top.schema[f], type, b, v)
    BY DEF AtField
<1>2. /\ Placed(Top.data, Top.it, x) => Continue([Write(Top, f, v) EXCEPT !.it = Top.it + Len(x)])
      /\ Cut(Top.data, Top.it, x) => Throw("out_of_range")
    BY <1>1, RoundFlat
<1>3. fields[k + 1] = x
    OBVIOUS
<1> HIDE DEF x
<1>4. CASE Offset(fields, k + 1) <= n
  <2> DEFINE it == Offset(fields, k)
             t == Offset(fields, k + 1)
             o == Seen(reader, objs[k])
             data == SubSeq(FlattenSeq(fields), 1, n)
             u == Merge(reader[f], objs[k][f], v)
             o1 == Seen(reader, objs[k + 1])
             new == Main(reader, fields, n, objs[k + 1], t)
  <2>1. Continue([Write(Top, f, v) EXCEPT !.it = t])
      BY <1>2, <1>3, <1>4 DEF AtField
  <2>2. /\ o1 = With(reader, o, f, u)
        /\ o = [g \in DOMAIN reader |-> o[g]] /\ o[f] = objs[k][f]
    <3> DEFINE full == objs[k]
    <3>1. DOMAIN reader \subseteq DOMAIN writer
        BY DEF Typed
    <3>2. objs[k + 1] = With(writer, full, f, u)
        OBVIOUS
    <3> HIDE DEF full, u
    <3>3. Seen(reader, With(writer, full, f, u)) = With(reader, Seen(reader, full), f, u)
        BY <3>1, SeenKnown
    <3>4. /\ Seen(reader, full) = [g \in DOMAIN reader |-> Seen(reader, full)[g]]
          /\ Seen(reader, full)[f] = full[f]
        BY DEF Seen
    <3> QED
        BY <3>2, <3>3, <3>4 DEF full
  <2>3. Top = Rec(FALSE, reader, data, it, n, o, 0)
      BY DEF AtField, Main
  <2>4. Merge(reader[f], o[f], v) = u
      BY <2>2
  <2> HIDE DEF o, o1, u, data, it
  <2>5. Write(Top, f, v) = Rec(FALSE, reader, data, it, n, o1, 0)
    <3> DEFINE fr == Rec(FALSE, reader, data, it, n, o, 0)
    <3> DEFINE no == FALSE
    <3> HIDE DEF no
    <3>0. Write(Rec(no, reader, data, it, n, o, 0), f, v) =
            Rec(no, reader, data, it, n, With(reader, o, f, Merge(reader[f], o[f], v)), 0)
        BY <2>2, RecWritten
    <3>1. Write(fr, f, v) =
            Rec(FALSE, reader, data, it, n, With(reader, o, f, Merge(reader[f], o[f], v)), 0)
        BY <3>0 DEF no
    <3>2. With(reader, o, f, Merge(reader[f], o[f], v)) = o1
        BY <2>2, <2>4
    <3> HIDE DEF fr
    <3> QED
        BY <2>3, <3>1, <3>2 DEF fr
  <2>6. [Write(Top, f, v) EXCEPT !.it = t] = Rec(FALSE, reader, data, t, n, o1, 0)
    <3> DEFINE fr == Rec(FALSE, reader, data, it, n, o1, 0)
    <3> HIDE DEF t
    <3> DEFINE no == FALSE
    <3> HIDE DEF no
    <3>0. [Rec(no, reader, data, it, n, o1, 0) EXCEPT !.it = t] = Rec(no, reader, data, t, n, o1, 0)
        BY RecMoved
    <3>1. [fr EXCEPT !.it = t] = Rec(FALSE, reader, data, t, n, o1, 0)
        BY <3>0 DEF no
    <3>2. Write(Top, f, v) = fr
        BY <2>5
    <3> HIDE DEF fr
    <3> QED
        BY <3>1, <3>2
  <2>7. Rec(FALSE, reader, data, t, n, o1, 0) = new
      BY DEF Main, data, o1
  <2>8. Continue(new)
      BY <2>1, <2>6, <2>7
  <2> DEFINE old == Main(reader, fields, n, objs[k], it)
  <2>9. stack = <<old>> /\ Len(stack) = 1
      BY DEF AtField, it
  <2> HIDE DEF new, old
  <2>10. stack' = [<<old>> EXCEPT ![1] = new] /\ status' = status
      BY <2>8, <2>9 DEF Continue
  <2>11. stack' = <<new>>
      BY <2>10, OneReplaced
  <2> QED
      BY <1>4, <2>10, <2>11 DEF FieldRead, new
<1>5. CASE ~(Offset(fields, k + 1) <= n)
  <2>1. Throw("out_of_range")
      BY <1>2, <1>3, <1>5 DEF AtField
  <2>2. n < Offset(fields, k + 1)
      BY <1>5 DEF AtField
  <2> QED
      BY <2>1, <2>2 DEF FieldCut, Throw
<1> QED
    BY <1>4, <1>5

(* A field of an embedded object or of a pair of a map. *)
LEMMA MainNested ==
  ASSUME NEW objs, NEW n, NEW k, AtField(objs, n, k), DeserializeProperty,
         NEW f \in FieldNumbers, f \in DOMAIN reader, NEW kind \in Nested, reader[f] = kind,
         NEW body \in Bytes, Len(body) < Modulus, NEW v, FlatMessage(Embedded(kind), body, v),
         fields[k + 1] = EncodeHeader(f, LengthDelimited) \o PrependLengthDelimitedSize(body),
         objs[k + 1] = With(writer, objs[k], f, Merge(kind, objs[k][f], Result(kind, v)))
  PROVE  FieldEntered(objs, n, k) \/ FieldCut(objs, n, k)
<1> DEFINE e == EncodeHeader(f, LengthDelimited)
           p == PrependLengthDelimitedSize(body)
           x == e \o p
<1>1. /\ Top.data \in Bytes /\ Top.it \in 0..Len(Top.data) /\ ~Top.pair
      /\ f \in DOMAIN Top.schema /\ Top.schema[f] = kind
    BY DEF AtField
<1>2. /\ Placed(Top.data, Top.it, x) =>
           \E d \in Bytes, base \in Nat :
             /\ Placed(d, base, body)
             /\ Enter(Top.it + Len(x), Frame(kind = "map", Embedded(kind), d, base, base + Len(body), f))
      /\ Cut(Top.data, Top.it, x) => Throw("out_of_range")
    BY <1>1, RoundNested
<1>3. fields[k + 1] = x
    OBVIOUS
<1>3a. Len(body) + 2 <= Len(x)
  <2>1. LengthDelimited \in WireTypes
      BY DEF WireTypes
  <2>2. e \in Bytes /\ Len(e) \in Nat /\ Len(e) >= 1
      BY <2>1, HeaderRead
  <2>3. /\ p \in Bytes /\ Len(SerializeVarint(Len(body))) >= 1 /\ Len(SerializeVarint(Len(body))) \in Nat
        /\ Len(p) = Len(SerializeVarint(Len(body))) + Len(body) /\ Len(body) \in Nat
      BY LengthPrefix
  <2> HIDE DEF e, p
  <2>4. Len(x) = Len(e) + Len(p)
    <3>1. e \in Seq(Nat) /\ p \in Seq(Nat)
        BY <2>2, <2>3 DEF Bytes
    <3> QED
        BY <3>1, ConcatBytes
  <2> QED
      BY <2>2, <2>3, <2>4
<1> HIDE DEF x, e, p
<1>4. CASE Offset(fields, k + 1) <= n
  <2>1. Placed(Top.data, Top.it, x) /\ Top.it + Len(x) = Offset(fields, k + 1)
      BY <1>3, <1>4 DEF AtField
  <2>2. PICK d \in Bytes, base \in Nat :
          /\ Placed(d, base, body)
          /\ Enter(Top.it + Len(x), Frame(kind = "map", Embedded(kind), d, base, base + Len(body), f))
      BY <1>2, <2>1
  <2>3. PICK cs, os : /\ FlatRun(Embedded(kind), cs, os) /\ FlattenSeq(cs) = body
                      /\ os[Len(cs)] = v
      BY DEF FlatMessage
  <2> DEFINE main == Main(reader, fields, n, objs[k], Offset(fields, k))
             main1 == Main(reader, fields, n, objs[k], Offset(fields, k + 1))
             callee == Callee(kind, f, d, base, cs, os, 0)
             fr == Frame(kind = "map", Embedded(kind), d, base, base + Len(body), f)
  <2>4. fr = callee
    <3>1. cs \in Seq(Bytes) /\ os[0] = NewObject(Embedded(kind))
        BY <2>3 DEF FlatRun
    <3>2. base + Offset(cs, 0) = base
        BY <3>1, OffsetStep
    <3> QED
        BY <2>3, <3>1, <3>2 DEF Callee, Frame, Rec
  <2>5. [main EXCEPT !.it = Offset(fields, k + 1)] = main1
    <3> DEFINE t == Offset(fields, k + 1)
               o == objs[k]
    <3> HIDE DEF t, o
    <3>1. [Main(reader, fields, n, o, Offset(fields, k)) EXCEPT !.it = t] = Main(reader, fields, n, o, t)
        BY MainMoved
    <3> QED
        BY <3>1 DEF t, o
  <2>6. stack = <<main>> /\ Len(stack) = 1
      BY DEF AtField
  <2> HIDE DEF main, main1, callee, fr
  <2>7. Enter(Offset(fields, k + 1), callee)
      BY <2>1, <2>2, <2>4 DEF fr
  <2>8. status' = status /\ stack' = Append([<<main>> EXCEPT ![1].it = Offset(fields, k + 1)], callee)
      BY <2>6, <2>7 DEF Enter
  <2>9. Append([<<main>> EXCEPT ![1].it = Offset(fields, k + 1)], callee) =
          <<[main EXCEPT !.it = Offset(fields, k + 1)], callee>>
    <3> DEFINE t == Offset(fields, k + 1)
    <3> HIDE DEF t
    <3>1. Append([<<main>> EXCEPT ![1].it = t], callee) = <<[main EXCEPT !.it = t], callee>>
        BY StackPushed
    <3> QED
        BY <3>1 DEF t
  <2>10. stack' = <<main1, callee>>
      BY <2>5, <2>8, <2>9
  <2>11. stack' = CallStack(reader, fields, objs, n, k, f, d, base, cs, os, 0)
      BY <2>10 DEF CallStack, main1, callee
  <2>12. Calls(writer, reader, objs, k, f, d, base, cs, os)
      BY <2>2, <2>3 DEF Calls
  <2>13. Len(FlattenSeq(cs)) + 2 <= Len(fields[k + 1])
      BY <1>3, <1>3a, <2>3
  <2> QED
      BY <1>4, <2>8, <2>11, <2>12, <2>13 DEF FieldEntered
<1>5. CASE ~(Offset(fields, k + 1) <= n)
  <2>1. Throw("out_of_range")
      BY <1>2, <1>3, <1>5 DEF AtField
  <2>2. n < Offset(fields, k + 1)
      BY <1>5 DEF AtField
  <2> QED
      BY <2>1, <2>2 DEF FieldCut, Throw
<1> QED
    BY <1>4, <1>5

(* One round of the loop over the message. *)
LEMMA MainRound ==
  ASSUME NEW objs, NEW n, NEW k, Typed(writer, reader, sent, todo), Run(writer, fields, objs),
         Between(reader, fields, objs, stack, n, k), DeserializeProperty
  PROVE  /\ AtField(objs, n, k)
         /\ FieldRead(objs, n, k) \/ FieldCut(objs, n, k) \/ FieldEntered(objs, n, k)
<1>1. AtField(objs, n, k)
    BY MainAtField
<1>2. fields \in Seq(Bytes) /\ k + 1 \in 1..Len(fields) /\ (k + 1) - 1 = k
    BY <1>1 DEF AtField
<1>3. FieldStep(writer, fields[k + 1], objs[(k + 1) - 1], objs[k + 1])
    BY <1>2 DEF Run
<1>4. PICK f \in DOMAIN writer : \E v :
        /\ Field(writer[f], f, fields[k + 1], objs[k][f], v)
        /\ objs[k + 1] = With(writer, objs[k], f, v)
    BY <1>2, <1>3 DEF FieldStep
<1>5. f \in FieldNumbers /\ writer[f] \in Kinds
    BY WriterFields DEF Typed
<1>6. CASE writer[f] \notin Nested
  <2>1. PICK type \in WireTypes, b \in Bytes : \E v :
          /\ fields[k + 1] = EncodeHeader(f, type) \o b /\ Decodes(writer[f], type, b, v)
          /\ objs[k + 1] = With(writer, objs[k], f, Merge(writer[f], objs[k][f], v))
      BY <1>4, <1>6 DEF Field, FlatField
  <2>2. PICK v : /\ Decodes(writer[f], type, b, v)
                 /\ objs[k + 1] = With(writer, objs[k], f, Merge(writer[f], objs[k][f], v))
      BY <2>1
  <2>3. CASE f \in DOMAIN reader
    <3>1. reader[f] = writer[f]
        BY <2>3, TypedReader
    <3>2. /\ reader[f] \in Kinds \ Nested /\ Decodes(reader[f], type, b, v)
          /\ objs[k + 1] = With(writer, objs[k], f, Merge(reader[f], objs[k][f], v))
        BY <1>5, <1>6, <2>2, <3>1
    <3>3. FieldRead(objs, n, k) \/ FieldCut(objs, n, k)
        BY <1>1, <1>5, <2>1, <2>3, <3>2, MainFlat
    <3> QED
        BY <1>1, <3>3
  <2>4. CASE f \notin DOMAIN reader
    <3>1. ValueBytes(type, b)
        BY <2>2 DEF Decodes
    <3> DEFINE u == Merge(writer[f], objs[k][f], v)
    <3>2. objs[k + 1] = With(writer, objs[k], f, u)
        BY <2>2
    <3> HIDE DEF u
    <3>3. FieldRead(objs, n, k) \/ FieldCut(objs, n, k)
        BY <1>1, <1>5, <2>1, <2>4, <3>1, <3>2, MainUnknown
    <3> QED
        BY <1>1, <3>3
  <2> QED
      BY <2>3, <2>4
<1>7. CASE writer[f] \in Nested
  <2> DEFINE kind == writer[f]
  <2>1. PICK body \in Bytes : \E v :
          /\ Len(body) < Modulus
          /\ fields[k + 1] = EncodeHeader(f, LengthDelimited) \o PrependLengthDelimitedSize(body)
          /\ FlatMessage(Embedded(kind), body, v)
          /\ objs[k + 1] = With(writer, objs[k], f, Merge(kind, objs[k][f], Result(kind, v)))
      BY <1>4, <1>7 DEF Field, NestField
  <2>2. PICK v : /\ FlatMessage(Embedded(kind), body, v)
                 /\ objs[k + 1] = With(writer, objs[k], f, Merge(kind, objs[k][f], Result(kind, v)))
      BY <2>1
  <2>3. CASE f \in DOMAIN reader
    <3>1. reader[f] = kind /\ kind \in Nested
        BY <1>7, <2>3, TypedReader
    <3> HIDE DEF kind
    <3>2. FieldEntered(objs, n, k) \/ FieldCut(objs, n, k)
        BY <1>1, <1>5, <2>1, <2>2, <2>3, <3>1, MainNested
    <3> QED
        BY <1>1, <3>2
  <2>4. CASE f \notin DOMAIN reader
    <3> DEFINE b == PrependLengthDelimitedSize(body)
               u == Merge(kind, objs[k][f], Result(kind, v))
    <3>1. LengthDelimited \in WireTypes /\ b \in Bytes
        BY PrependBytes DEF WireTypes
    <3>2. ValueBytes(LengthDelimited, b)
        BY <2>1 DEF ValueBytes
    <3>3. objs[k + 1] = With(writer, objs[k], f, u) /\ fields[k + 1] = EncodeHeader(f, LengthDelimited) \o b
        BY <2>1, <2>2
    <3> HIDE DEF b, u
    <3>4. FieldRead(objs, n, k) \/ FieldCut(objs, n, k)
        BY <1>1, <1>5, <2>4, <3>1, <3>2, <3>3, MainUnknown
    <3> QED
        BY <1>1, <3>4
  <2> QED
      BY <2>3, <2>4
<1> QED
    BY <1>6, <1>7

-----------------------------------------------------------------------------
(***************************************************************************)
(* The invariant holds at first, and every step keeps it.                  *)
(***************************************************************************)

(* Before the first property is written. *)
LEMMA Initially == Init => IInv
<1> SUFFICES ASSUME Init PROVE IInv
    OBVIOUS
<1>1. writer \in Schemas /\ todo = DOMAIN writer /\ fields = <<>> /\ stack = <<>> /\ status = "writing"
    BY DEF Init
<1>2. DOMAIN reader \subseteq DOMAIN writer /\ reader = [f \in DOMAIN reader |-> writer[f]]
  <2>1. PICK S \in SUBSET DOMAIN writer : reader = Restrict(writer, S)
      BY DEF Init
  <2> QED
      BY <2>1 DEF Restrict
<1>3. \A f \in DOMAIN writer : sent[f] \in Values[writer[f]]
  <2> DEFINE tagged == UNION {{<<kind, v>> : v \in Values[kind]} : kind \in Range(writer)}
  <2>1. PICK c \in [DOMAIN writer -> tagged] :
          /\ \A f \in DOMAIN writer : c[f][1] = writer[f]
          /\ sent = [f \in DOMAIN writer |-> c[f][2]]
      BY DEF Init, ObjectsOf
  <2> SUFFICES ASSUME NEW f \in DOMAIN writer PROVE sent[f] \in Values[writer[f]]
      OBVIOUS
  <2>2. c[f] \in tagged
      BY <2>1
  <2>3. PICK kind \in Range(writer) : \E v \in Values[kind] : c[f] = <<kind, v>>
      BY <2>2
  <2>4. c[f][1] = kind /\ c[f][2] \in Values[kind]
      BY <2>3
  <2> QED
      BY <2>1, <2>4
<1>4. Typed(writer, reader, sent, todo)
    BY <1>1, <1>2, <1>3 DEF Typed
<1>5. PICK objs : Message(writer, sent, DOMAIN writer, <<>>, objs)
    BY EmptyWritten
<1>6. Message(writer, sent, todo, fields, objs)
    BY <1>1, <1>5
<1> QED
    BY <1>1, <1>4, <1>6 DEF IInv

(* serializeMessage writes one more property. *)
LEMMA WritingStep ==
  ASSUME IInv, NEW f \in todo, SerializeProperty(f)
  PROVE  IInv'
<1>1. /\ status = "writing" /\ todo' = todo \ {f} /\ writer' = writer /\ reader' = reader
      /\ sent' = sent /\ stack' = stack /\ status' = status
    BY DEF SerializeProperty
<1>2. PICK e \in Encodings(writer[f], sent[f], f) : fields' = fields \o e
    BY DEF SerializeProperty
<1>3. Typed(writer, reader, sent, todo) /\ stack = <<>>
  <2> QED
      BY <1>1 DEF IInv, ReadsOn
<1>4. PICK objs : Message(writer, sent, todo, fields, objs)
    BY DEF IInv
<1>5. writer \in Schemas /\ f \in DOMAIN writer /\ sent[f] \in Values[writer[f]]
    BY <1>3 DEF Typed
<1>6. f \in FieldNumbers /\ writer[f] \in Kinds
    BY <1>5, WriterFields
<1>7. \A i \in DOMAIN e : Len(e[i]) < Modulus
    BY <1>2, <1>5, SizeAssumption
<1>8. Encoded(writer[f], f, e, sent[f])
    BY <1>2, <1>5, <1>6, <1>7, PropertyWritten
<1>9. PICK T : Message(writer, sent, todo \ {f}, fields \o e, T)
    BY <1>4, <1>5, <1>8, PropertyExtends
<1>10. Message(writer', sent', todo', fields', T)
    BY <1>1, <1>2, <1>9
<1>11. Typed(writer', reader', sent', todo')
    BY <1>1, <1>3 DEF Typed
<1> QED
    BY <1>1, <1>3, <1>10, <1>11 DEF IInv

(* deserialize starts on the first n bytes. *)
LEMMA ReceiveStep ==
  ASSUME IInv, NEW n \in 0..Len(FlattenSeq(fields)), Receive(n)
  PROVE  IInv'
<1>1. /\ status = "writing" /\ todo = {} /\ status' = "reading"
      /\ writer' = writer /\ reader' = reader /\ sent' = sent /\ todo' = todo /\ fields' = fields
      /\ stack' = <<Frame(FALSE, reader, SubSeq(FlattenSeq(fields), 1, n), 0, n, 0)>>
    BY DEF Receive
<1>2. Typed(writer, reader, sent, todo)
    BY DEF IInv
<1>3. PICK objs : Message(writer, sent, todo, fields, objs)
    BY DEF IInv
<1>4. fields \in Seq(Bytes) /\ Len(fields) \in Nat /\ objs[0] = NewObject(writer)
    BY <1>3 DEF Message, Run
<1>5. Offset(fields, 0) = 0
    BY <1>4, OffsetStep
<1>6. Seen(reader, objs[0]) = NewObject(reader)
  <2>1. DOMAIN reader \subseteq DOMAIN writer /\ \A f \in DOMAIN reader : reader[f] = writer[f]
      BY <1>2, TypedReader DEF Typed
  <2> QED
      BY <1>4, <2>1 DEF Seen, NewObject
<1>7. Frame(FALSE, reader, SubSeq(FlattenSeq(fields), 1, n), 0, n, 0) = Main(reader, fields, n, objs[0], 0)
    BY <1>6 DEF Frame, Main, Rec
<1>8. Len(FlattenSeq(fields)) \in Nat
  <2>1. FlattenSeq(fields) \in Bytes
      BY <1>4, FlattenIs
  <2> QED
      BY <2>1 DEF Bytes
<1>9. Between(reader, fields, objs, stack', n, 0)
  <2>1. stack' = <<Main(reader, fields, n, objs[0], Offset(fields, 0))>>
      BY <1>1, <1>5, <1>7
  <2>2. 0 \in 0..Len(fields) /\ Offset(fields, 0) <= n
      BY <1>4, <1>5, <1>8
  <2> QED
      BY <2>1, <2>2 DEF Between
<1>10. ReadsOn(writer, reader, fields, objs, stack', "reading")
    BY <1>9 DEF ReadsOn
<1> QED
    BY <1>1, <1>2, <1>3, <1>10 DEF IInv

(* While deserialize is under way, it stands between two fields or inside one. *)
LEMMA Reading ==
  ASSUME IInv, status = "reading"
  PROVE  /\ Typed(writer, reader, sent, todo) /\ todo = {}
         /\ \E objs, n, k :
              /\ Message(writer, sent, todo, fields, objs) /\ Run(writer, fields, objs)
              /\ \/ Between(reader, fields, objs, stack, n, k)
                 \/ Inside(writer, reader, fields, objs, stack, n, k)
<1>1. PICK objs : /\ Message(writer, sent, todo, fields, objs)
                  /\ todo = {} /\ ReadsOn(writer, reader, fields, objs, stack, status)
    BY DEF IInv
<1>2. PICK n, k : \/ Between(reader, fields, objs, stack, n, k)
                  \/ Inside(writer, reader, fields, objs, stack, n, k)
    BY <1>1 DEF ReadsOn
<1>3. Run(writer, fields, objs)
    BY <1>1 DEF Message
<1> QED
    BY <1>1, <1>2, <1>3 DEF IInv

(* What every step of the decoder leaves to be shown. *)
LEMMA StillReads ==
  ASSUME IInv, todo = {}, NEW objs, Message(writer, sent, todo, fields, objs),
         UNCHANGED <<writer, reader, sent, todo, fields>>,
         ReadsOn(writer, reader, fields, objs, stack', status')
  PROVE  IInv'
    BY DEF IInv

(* A round of the loop over the message or of that of a called function. *)
LEMMA RoundStep ==
  ASSUME IInv, DeserializeProperty
  PROVE  IInv'
<1>1. status = "reading" /\ UNCHANGED <<writer, reader, sent, todo, fields>>
    BY DEF DeserializeProperty
<1>2. Typed(writer, reader, sent, todo) /\ todo = {}
    BY <1>1, Reading
<1>3. PICK objs, n, k :
        /\ Message(writer, sent, todo, fields, objs) /\ Run(writer, fields, objs)
        /\ \/ Between(reader, fields, objs, stack, n, k)
           \/ Inside(writer, reader, fields, objs, stack, n, k)
    BY <1>1, Reading
<1>4. CASE Between(reader, fields, objs, stack, n, k)
  <2>1. /\ AtField(objs, n, k)
        /\ FieldRead(objs, n, k) \/ FieldCut(objs, n, k) \/ FieldEntered(objs, n, k)
      BY <1>2, <1>3, <1>4, MainRound
  <2>2. k \in 0..Len(fields) /\ n \in 0..Len(FlattenSeq(fields)) /\ Offset(fields, k) <= n
      BY <1>4 DEF Between
  <2>3. k \in 0..(Len(fields) - 1) /\ k + 1 \in 0..Len(fields) /\ Offset(fields, k) < n
    <3>1. fields \in Seq(Bytes) /\ k \in 0..(Len(fields) - 1) /\ Offset(fields, k) < n
        BY <2>1 DEF AtField
    <3> QED
        BY <3>1
  <2>4. CASE FieldRead(objs, n, k)
    <3>1. Between(reader, fields, objs, stack', n, k + 1)
        BY <2>2, <2>3, <2>4 DEF FieldRead, Between
    <3>2. ReadsOn(writer, reader, fields, objs, stack', status')
        BY <1>1, <2>4, <3>1 DEF FieldRead, ReadsOn
    <3> QED
        BY <1>1, <1>2, <1>3, <3>2, StillReads
  <2>5. CASE FieldCut(objs, n, k)
    <3>1. Between(reader, fields, objs, stack', n, k) /\ status' = "out_of_range" /\ n < Offset(fields, k + 1)
        BY <1>4, <2>5 DEF FieldCut
    <3>2. k < Len(fields)
        BY <1>3, <2>3 DEF Run
    <3>3. ReadsOn(writer, reader, fields, objs, stack', status')
        BY <2>3, <3>1, <3>2 DEF ReadsOn
    <3> QED
        BY <1>1, <1>2, <1>3, <3>3, StillReads
  <2>6. CASE FieldEntered(objs, n, k)
    <3>1. PICK f, d, base, cs, os :
            /\ Calls(writer, reader, objs, k, f, d, base, cs, os)
            /\ stack' = CallStack(reader, fields, objs, n, k, f, d, base, cs, os, 0)
        BY <2>6 DEF FieldEntered
    <3>2. 0 \in 0..Len(cs)
      <4>1. cs \in Seq(Bytes)
          BY <3>1 DEF Calls, FlatRun
      <4> QED
          BY <4>1
    <3>3. status' = "reading" /\ Offset(fields, k + 1) <= n
        BY <1>1, <2>6 DEF FieldEntered
    <3>4. Inside(writer, reader, fields, objs, stack', n, k)
        BY <2>2, <2>3, <3>1, <3>2, <3>3 DEF Inside
    <3>5. ReadsOn(writer, reader, fields, objs, stack', status')
        BY <3>3, <3>4 DEF ReadsOn
    <3> QED
        BY <1>1, <1>2, <1>3, <3>5, StillReads
  <2> QED
      BY <2>1, <2>4, <2>5, <2>6
<1>5. CASE Inside(writer, reader, fields, objs, stack, n, k)
  <2>1. PICK f, d, base, cs, os : \E i \in 0..Len(cs) :
          /\ Calls(writer, reader, objs, k, f, d, base, cs, os)
          /\ stack = CallStack(reader, fields, objs, n, k, f, d, base, cs, os, i)
      BY <1>5 DEF Inside
  <2>2. PICK i \in 0..Len(cs) :
          /\ Calls(writer, reader, objs, k, f, d, base, cs, os)
          /\ stack = CallStack(reader, fields, objs, n, k, f, d, base, cs, os, i)
      BY <2>1
  <2> DEFINE m == Main(reader, fields, n, objs[k], Offset(fields, k + 1))
             kind == reader[f]
  <2>3. stack = <<m, Callee(kind, f, d, base, cs, os, i)>>
      BY <2>2 DEF CallStack
  <2>4. /\ d \in Bytes /\ base \in Nat /\ FlatRun(Embedded(kind), cs, os)
        /\ Placed(d, base, FlattenSeq(cs))
      BY <2>2 DEF Calls
  <2> HIDE DEF m, kind
  <2>5. /\ i \in 0..(Len(cs) - 1) /\ status' = status
        /\ stack' = <<m, Callee(kind, f, d, base, cs, os, i + 1)>>
      BY <2>3, <2>4, CalleeRound
  <2>6. stack' = CallStack(reader, fields, objs, n, k, f, d, base, cs, os, i + 1)
      BY <2>5 DEF CallStack, m, kind
  <2>7. i + 1 \in 0..Len(cs)
    <3>1. Len(cs) \in Nat
        BY <2>4 DEF FlatRun
    <3> QED
        BY <2>5, <3>1
  <2>8. Inside(writer, reader, fields, objs, stack', n, k)
      BY <1>5, <2>2, <2>6, <2>7 DEF Inside
  <2>9. ReadsOn(writer, reader, fields, objs, stack', status')
      BY <1>1, <2>5, <2>8 DEF ReadsOn
  <2> QED
      BY <1>1, <1>2, <1>3, <2>9, StillReads
<1> QED
    BY <1>3, <1>4, <1>5

(* The end of the loop over the message. *)
LEMMA FinishStep ==
  ASSUME IInv, Finish
  PROVE  IInv'
<1>1. /\ status = "reading" /\ UNCHANGED <<writer, reader, sent, todo, fields>>
      /\ stack' = stack /\ status' = "done" /\ Len(stack) = 1 /\ Top.it = Top.last
    BY DEF Finish
<1>2. Typed(writer, reader, sent, todo) /\ todo = {}
    BY <1>1, Reading
<1>3. PICK objs, n, k :
        /\ Message(writer, sent, todo, fields, objs) /\ Run(writer, fields, objs)
        /\ \/ Between(reader, fields, objs, stack, n, k)
           \/ Inside(writer, reader, fields, objs, stack, n, k)
    BY <1>1, Reading
<1>4. ASSUME Inside(writer, reader, fields, objs, stack, n, k) PROVE FALSE
  <2>1. PICK m, c : stack = <<m, c>>
      BY <1>4 DEF Inside, CallStack
  <2> QED
      BY <1>1, <2>1, StackTop
<1>5. Between(reader, fields, objs, stack, n, k)
    BY <1>3, <1>4
<1>6. Offset(fields, k) = n
  <2> DEFINE o == objs[k]
             it == Offset(fields, k)
             m == Main(reader, fields, n, o, it)
  <2>1. Top = m
    <3>1. stack = <<m>>
        BY <1>5 DEF Between
    <3> HIDE DEF m
    <3> QED
        BY <3>1, StackTop DEF Top
  <2> HIDE DEF o, it
  <2>2. m.it = it /\ m.last = n
      BY MainFields
  <2> HIDE DEF m
  <2> QED
      BY <1>1, <2>1, <2>2 DEF it
<1>7. ReadsOn(writer, reader, fields, objs, stack', status')
    BY <1>1, <1>5, <1>6 DEF ReadsOn
<1> QED
    BY <1>1, <1>2, <1>3, <1>7, StillReads

(* The caller of a function that has read its body to the end writes the result. *)
LEMMA CallerWrites ==
  ASSUME NEW w, NEW r, NEW fs, NEW n, NEW old, NEW it, NEW f \in DOMAIN r, NEW x, NEW new,
         DOMAIN r \subseteq DOMAIN w, new = With(w, old, f, Merge(r[f], old[f], x))
  PROVE  Write(Main(r, fs, n, old, it), f, x) = Main(r, fs, n, new, it)
<1> DEFINE data == SubSeq(FlattenSeq(fs), 1, n)
           o == Seen(r, old)
           u == Merge(r[f], old[f], x)
           no == FALSE
<1>1. Main(r, fs, n, old, it) = Rec(FALSE, r, data, it, n, o, 0)
      /\ Main(r, fs, n, new, it) = Rec(FALSE, r, data, it, n, Seen(r, new), 0)
    BY DEF Main
<1>2. o = [g \in DOMAIN r |-> o[g]] /\ o[f] = old[f]
    BY DEF Seen
<1>3. Seen(r, new) = With(r, o, f, u)
  <2>1. new = With(w, old, f, u)
      OBVIOUS
  <2> HIDE DEF u
  <2>2. Seen(r, With(w, old, f, u)) = With(r, Seen(r, old), f, u)
      BY SeenKnown
  <2> QED
      BY <2>1, <2>2
<1>4. Merge(r[f], o[f], x) = u
    BY <1>2
<1> HIDE DEF data, o, u, no
<1>5. Write(Rec(no, r, data, it, n, o, 0), f, x) =
        Rec(no, r, data, it, n, With(r, o, f, Merge(r[f], o[f], x)), 0)
    BY <1>2, RecWritten
<1>6. Write(Rec(FALSE, r, data, it, n, o, 0), f, x) =
        Rec(FALSE, r, data, it, n, With(r, o, f, Merge(r[f], o[f], x)), 0)
    BY <1>5 DEF no
<1>7. With(r, o, f, Merge(r[f], o[f], x)) = Seen(r, new)
    BY <1>3, <1>4
<1> QED
    BY <1>1, <1>6, <1>7

(* A called function returns at the end of its body, and the caller's object is that of *)
(* k + 1 fields.                                                                        *)
LEMMA Returned ==
  ASSUME NEW objs, NEW n, NEW k, Typed(writer, reader, sent, todo), fields \in Seq(Bytes),
         Inside(writer, reader, fields, objs, stack, n, k), Return
  PROVE  Between(reader, fields, objs, stack', n, k + 1)
<1>1. PICK f, d, base, cs, os : \E i \in 0..Len(cs) :
        /\ Calls(writer, reader, objs, k, f, d, base, cs, os)
        /\ stack = CallStack(reader, fields, objs, n, k, f, d, base, cs, os, i)
    BY DEF Inside
<1>2. PICK i \in 0..Len(cs) :
        /\ Calls(writer, reader, objs, k, f, d, base, cs, os)
        /\ stack = CallStack(reader, fields, objs, n, k, f, d, base, cs, os, i)
    BY <1>1
<1> DEFINE m == Main(reader, fields, n, objs[k], Offset(fields, k + 1))
           kind == reader[f]
           c == Callee(kind, f, d, base, cs, os, i)
           x == IF c.pair THEN <<c.obj[1], c.obj[2]>> ELSE c.obj
<1>3. stack = <<m, c>>
    BY <1>2 DEF CallStack
<1>4. f \in DOMAIN reader /\ base \in Nat /\ FlatRun(Embedded(kind), cs, os)
      /\ objs[k + 1] = With(writer, objs[k], f, Merge(kind, objs[k][f], Result(kind, os[Len(cs)])))
    BY <1>2 DEF Calls
<1>5. /\ c.pair = (kind = "map") /\ c.it = base + Offset(cs, i)
      /\ c.last = base + Len(FlattenSeq(cs)) /\ c.obj = os[i] /\ c.field = f
    BY RecFields DEF Callee
<1> HIDE DEF c, m
<1>6. Top = c /\ Len(stack) = 2 /\ stack[1] = m
    BY <1>3, StackTop DEF Top
<1>7. i = Len(cs)
  <2>1. cs \in Seq(Bytes) /\ \A j \in 1..Len(cs) : Len(cs[j]) >= 1
      BY <1>4, FlatRunNotEmpty
  <2>2. Len(cs) \in Nat /\ Len(cs) \in 0..Len(cs)
      BY <2>1
  <2>3. /\ Offset(cs, Len(cs)) = Len(FlattenSeq(cs))
        /\ Offset(cs, i) \in Nat /\ Offset(cs, Len(cs)) \in Nat
      BY <2>1, <2>2, OffsetStep
  <2>4. base + Offset(cs, i) = base + Offset(cs, Len(cs))
      BY <1>5, <1>6, <2>3 DEF Return
  <2>5. ~(Offset(cs, i) < Offset(cs, Len(cs)))
      BY <1>4, <2>3, <2>4
  <2>6. ~(i < Len(cs))
      BY <2>1, <2>2, <2>5, OffsetStrict
  <2> QED
      BY <2>2, <2>6
<1>8. x = Result(kind, os[Len(cs)])
    BY <1>5, <1>7 DEF Result
<1> HIDE DEF x
<1>9. stack' = Append(SubSeq(stack, 1, 0), Write(m, f, x))
  <2>1. stack' = Append(SubSeq(stack, 1, Len(stack) - 2), Write(stack[Len(stack) - 1], Top.field, x))
      BY <1>6 DEF Return, x
  <2>2. Len(stack) - 2 = 0 /\ Len(stack) - 1 = 1
      BY <1>6
  <2> QED
      BY <1>5, <1>6, <2>1, <2>2
<1>10. Write(m, f, x) = Main(reader, fields, n, objs[k + 1], Offset(fields, k + 1))
  <2> DEFINE old == objs[k]
             new == objs[k + 1]
             it == Offset(fields, k + 1)
  <2>1. DOMAIN reader \subseteq DOMAIN writer
      BY DEF Typed
  <2>2. new = With(writer, old, f, Merge(reader[f], old[f], x))
      BY <1>4, <1>8
  <2>3. m = Main(reader, fields, n, old, it)
      BY DEF m
  <2> HIDE DEF old, new, it
  <2>4. Write(Main(reader, fields, n, old, it), f, x) = Main(reader, fields, n, new, it)
      BY <1>4, <2>1, <2>2, CallerWrites
  <2> QED
      BY <2>3, <2>4 DEF new, it
<1>11. stack' = <<Main(reader, fields, n, objs[k + 1], Offset(fields, k + 1))>>
  <2> DEFINE y == Write(m, f, x)
  <2> HIDE DEF y
  <2>1. Append(SubSeq(<<m, c>>, 1, 0), y) = <<y>>
      BY StackPopped
  <2>2. stack' = <<y>>
      BY <1>3, <1>9, <2>1 DEF y
  <2> QED
      BY <1>10, <2>2 DEF y
<1>12. k + 1 \in 0..Len(fields) /\ n \in 0..Len(FlattenSeq(fields)) /\ Offset(fields, k + 1) <= n
  <2>1. k \in 0..(Len(fields) - 1) /\ n \in 0..Len(FlattenSeq(fields)) /\ Offset(fields, k + 1) <= n
      BY DEF Inside
  <2> QED
      BY <2>1
<1> QED
    BY <1>11, <1>12 DEF Between

(* The loop of a called function ends only inside a field. *)
LEMMA OnlyCallsReturn ==
  ASSUME NEW objs, NEW n, NEW k, Len(stack) > 1
  PROVE  ~Between(reader, fields, objs, stack, n, k)
<1> SUFFICES ASSUME Between(reader, fields, objs, stack, n, k) PROVE FALSE
    OBVIOUS
<1>1. PICK m : stack = <<m>>
    BY DEF Between
<1>2. Len(stack) = 1
    BY <1>1, StackTop
<1> QED
    BY <1>2

(* The end of the loop of a called function. *)
LEMMA ReturnStep ==
  ASSUME IInv, Return
  PROVE  IInv'
<1>1. status = "reading" /\ UNCHANGED <<writer, reader, sent, todo, fields, status>> /\ Len(stack) > 1
    BY DEF Return
<1>2. Typed(writer, reader, sent, todo) /\ todo = {}
    BY <1>1, Reading
<1>3. PICK objs, n, k :
        /\ Message(writer, sent, todo, fields, objs) /\ Run(writer, fields, objs)
        /\ \/ Between(reader, fields, objs, stack, n, k)
           \/ Inside(writer, reader, fields, objs, stack, n, k)
    BY <1>1, Reading
<1>4. Inside(writer, reader, fields, objs, stack, n, k)
    BY <1>1, <1>3, OnlyCallsReturn
<1>5. Between(reader, fields, objs, stack', n, k + 1)
    BY <1>2, <1>3, <1>4, Returned DEF Run
<1>6. ReadsOn(writer, reader, fields, objs, stack', status')
    BY <1>1, <1>5 DEF ReadsOn
<1> QED
    BY <1>1, <1>2, <1>3, <1>6, StillReads

(* Steps that change nothing. *)
LEMMA Stuttering ==
  ASSUME IInv, UNCHANGED vars
  PROVE  IInv'
    BY DEF IInv, vars

(* Every step keeps the inductive invariant. *)
LEMMA Inductive == IInv /\ [Next]_vars => IInv'
<1> SUFFICES ASSUME IInv, [Next]_vars PROVE IInv'
    OBVIOUS
<1>1. ASSUME NEW f \in todo, SerializeProperty(f) PROVE IInv'
    BY <1>1, WritingStep
<1>2. ASSUME NEW n \in 0..Len(FlattenSeq(fields)), Receive(n) PROVE IInv'
    BY <1>2, ReceiveStep
<1>3. CASE DeserializeProperty
    BY <1>3, RoundStep
<1>4. CASE Return
    BY <1>4, ReturnStep
<1>5. CASE Finish
    BY <1>5, FinishStep
<1>6. CASE Ended \/ UNCHANGED vars
    BY <1>6, Stuttering DEF Ended
<1> QED
    BY <1>1, <1>2, <1>3, <1>4, <1>5, <1>6 DEF Next

(* IInv holds throughout, for every message type of the model, every object and every *)
(* cut.                                                                               *)
THEOREM Invariance == Spec => []IInv
    BY Initially, Inductive, PTL DEF Spec

-----------------------------------------------------------------------------
(***************************************************************************)
(* What follows from the invariant.                                        *)
(***************************************************************************)

(* The frame of the message, n bytes of which arrived. *)
LEMMA BetweenFrame ==
  ASSUME NEW objs, NEW n, NEW k, fields \in Seq(Bytes), Between(reader, fields, objs, stack, n, k)
  PROVE  /\ Len(stack) = 1 /\ DOMAIN stack = {1} /\ stack # <<>>
         /\ k \in 0..Len(fields) /\ n \in Nat /\ n <= Len(FlattenSeq(fields))
         /\ Len(FlattenSeq(fields)) \in Nat
         /\ stack[1].schema = reader /\ stack[1].obj = Seen(reader, objs[k])
         /\ Len(stack[1].data) = n /\ stack[1].last = n
         /\ stack[1].it = Offset(fields, k) /\ Offset(fields, k) \in 0..n
<1> DEFINE o == objs[k]
           it == Offset(fields, k)
           m == Main(reader, fields, n, o, it)
           data == SubSeq(FlattenSeq(fields), 1, n)
<1>1. stack = <<m>> /\ k \in 0..Len(fields) /\ n \in 0..Len(FlattenSeq(fields)) /\ it <= n
    BY DEF Between
<1>2. FlattenSeq(fields) \in Seq(Nat) /\ Len(FlattenSeq(fields)) \in Nat
  <2>1. FlattenSeq(fields) \in Bytes
      BY FlattenIs
  <2> QED
      BY <2>1 DEF Bytes
<1>3. it \in Nat
    BY <1>1, OffsetStep
<1>4. Len(data) = n
    BY <1>1, <1>2
<1> HIDE DEF o, it
<1>5. m.schema = reader /\ m.data = data /\ m.it = it /\ m.last = n /\ m.obj = Seen(reader, o)
    BY MainFields
<1> HIDE DEF m, data
<1>6. Len(stack) = 1 /\ stack[1] = m /\ DOMAIN stack = {1} /\ stack # <<>>
    BY <1>1
<1>7. n \in Nat /\ n <= Len(FlattenSeq(fields)) /\ it \in 0..n
    BY <1>1, <1>2, <1>3
<1> QED
    BY <1>1, <1>2, <1>4, <1>5, <1>6, <1>7 DEF o, it

(* The frames while a function is called. *)
LEMMA InsideFrames ==
  ASSUME NEW objs, NEW n, NEW k, fields \in Seq(Bytes),
         Inside(writer, reader, fields, objs, stack, n, k)
  PROVE  /\ Len(stack) = 2 /\ DOMAIN stack = {1, 2} /\ stack # <<>>
         /\ k \in 0..(Len(fields) - 1) /\ n \in Nat
         /\ stack[1].schema = reader /\ stack[1].obj = Seen(reader, objs[k])
         /\ Len(stack[1].data) = n /\ stack[1].last = n
         /\ stack[1].it = Offset(fields, k + 1) /\ Offset(fields, k + 1) \in 0..n
         /\ DOMAIN stack[2].obj = DOMAIN stack[2].schema
         /\ Len(stack[2].data) \in Nat
         /\ stack[2].it \in 0..stack[2].last /\ stack[2].last \in 0..Len(stack[2].data)
<1>1. PICK f, d, base, cs, os : \E i \in 0..Len(cs) :
        /\ Calls(writer, reader, objs, k, f, d, base, cs, os)
        /\ stack = CallStack(reader, fields, objs, n, k, f, d, base, cs, os, i)
    BY DEF Inside
<1>2. PICK i \in 0..Len(cs) :
        /\ Calls(writer, reader, objs, k, f, d, base, cs, os)
        /\ stack = CallStack(reader, fields, objs, n, k, f, d, base, cs, os, i)
    BY <1>1
<1> DEFINE o == objs[k]
           it == Offset(fields, k + 1)
           m == Main(reader, fields, n, o, it)
           data == SubSeq(FlattenSeq(fields), 1, n)
           kind == reader[f]
           c == Callee(kind, f, d, base, cs, os, i)
           jt == base + Offset(cs, i)
           end == base + Len(FlattenSeq(cs))
<1>3. stack = <<m, c>>
    BY <1>2 DEF CallStack
<1>4. k \in 0..(Len(fields) - 1) /\ n \in 0..Len(FlattenSeq(fields)) /\ it <= n
    BY DEF Inside
<1>5. FlattenSeq(fields) \in Seq(Nat) /\ Len(FlattenSeq(fields)) \in Nat
  <2>1. FlattenSeq(fields) \in Bytes
      BY FlattenIs
  <2> QED
      BY <2>1 DEF Bytes
<1>6. it \in Nat
  <2>1. k + 1 \in 0..Len(fields)
      BY <1>4
  <2> QED
      BY <2>1, OffsetStep
<1>7. Len(data) = n
    BY <1>4, <1>5
<1>8. c.schema = Embedded(kind) /\ c.data = d /\ c.it = jt /\ c.last = end /\ c.obj = os[i]
    BY RecFields DEF Callee
<1>9. FlatRun(Embedded(kind), cs, os) /\ d \in Bytes /\ base \in Nat /\ Placed(d, base, FlattenSeq(cs))
    BY <1>2 DEF Calls
<1>10. DOMAIN os[i] = DOMAIN Embedded(kind)
  <2>1. os[i] = [g \in DOMAIN Embedded(kind) |-> os[i][g]]
      BY <1>9, FlatRunObjects
  <2> QED
      BY <2>1
<1>11. jt \in 0..end /\ end \in 0..Len(d) /\ Len(d) \in Nat
  <2>1. cs \in Seq(Bytes)
      BY <1>9 DEF FlatRun
  <2>2. Offset(cs, i) \in Nat /\ Offset(cs, Len(cs)) = Len(FlattenSeq(cs))
      BY <2>1, OffsetStep
  <2>3. Len(cs) \in Nat /\ Len(cs) \in 0..Len(cs)
      BY <2>1
  <2>4. Offset(cs, Len(cs)) \in Nat
      BY <2>1, <2>3, OffsetStep
  <2>5. Offset(cs, i) <= Offset(cs, Len(cs))
    <3>1. CASE i = Len(cs)
        BY <2>2, <2>4, <3>1
    <3>2. CASE i < Len(cs)
      <4>1. \A j \in 1..Len(cs) : Len(cs[j]) >= 1
          BY <1>9, FlatRunNotEmpty
      <4>2. Offset(cs, i) < Offset(cs, Len(cs))
          BY <2>1, <2>3, <3>2, <4>1, OffsetStrict
      <4> QED
          BY <2>2, <2>4, <4>2
    <3> QED
        BY <2>3, <3>1, <3>2
  <2>6. Len(d) \in Nat /\ base + Len(FlattenSeq(cs)) <= Len(d)
      BY <1>9 DEF Placed, Bytes
  <2> QED
      BY <1>9, <2>2, <2>4, <2>5, <2>6
<1> HIDE DEF o, it
<1>12. m.schema = reader /\ m.data = data /\ m.it = it /\ m.last = n /\ m.obj = Seen(reader, o)
    BY MainFields
<1> HIDE DEF m, data, c, jt, end
<1>13. Len(stack) = 2 /\ stack[1] = m /\ stack[2] = c /\ DOMAIN stack = {1, 2} /\ stack # <<>>
    BY <1>3
<1>14. n \in Nat /\ it \in 0..n
    BY <1>4, <1>5, <1>6
<1> QED
    BY <1>4, <1>7, <1>8, <1>10, <1>11, <1>12, <1>13, <1>14 DEF o, it

(* In whatever state the decoder is, the message's object is what the first fields make. *)
LEMMA Filled ==
  ASSUME IInv, status # "writing"
  PROVE  /\ Typed(writer, reader, sent, todo) /\ todo = {} /\ stack # <<>>
         /\ \E objs, n, k :
              /\ Message(writer, sent, {}, fields, objs) /\ Run(writer, fields, objs)
              /\ fields \in Seq(Bytes) /\ k \in 0..Len(fields)
              /\ stack[1].obj = Seen(reader, objs[k]) /\ Len(stack[1].data) = n
              /\ n \in Nat /\ n <= Len(FlattenSeq(fields)) /\ Len(FlattenSeq(fields)) \in Nat
              /\ \/ status = "reading"
                 \/ status = "done" /\ Offset(fields, k) = n
                 \/ /\ status = "out_of_range" /\ k < Len(fields)
                    /\ Offset(fields, k) < n /\ n < Offset(fields, k + 1)
<1>1. PICK objs : /\ Message(writer, sent, todo, fields, objs)
                  /\ todo = {} /\ ReadsOn(writer, reader, fields, objs, stack, status)
    BY DEF IInv
<1>2. Typed(writer, reader, sent, todo) /\ Message(writer, sent, {}, fields, objs)
    BY <1>1 DEF IInv
<1>3. Run(writer, fields, objs) /\ fields \in Seq(Bytes)
    BY <1>1 DEF Message, Run
<1>4. PICK n, k :
        \/ /\ Between(reader, fields, objs, stack, n, k)
           /\ \/ status = "reading"
              \/ status = "done" /\ Offset(fields, k) = n
              \/ /\ status = "out_of_range" /\ k < Len(fields)
                 /\ Offset(fields, k) < n /\ n < Offset(fields, k + 1)
        \/ status = "reading" /\ Inside(writer, reader, fields, objs, stack, n, k)
    BY <1>1 DEF ReadsOn
<1>5. CASE Between(reader, fields, objs, stack, n, k)
  <2>1. /\ stack # <<>> /\ k \in 0..Len(fields) /\ n \in Nat /\ n <= Len(FlattenSeq(fields))
        /\ Len(FlattenSeq(fields)) \in Nat
        /\ stack[1].obj = Seen(reader, objs[k]) /\ Len(stack[1].data) = n
      BY <1>3, <1>5, BetweenFrame
  <2>2. \/ status = "reading"
        \/ status = "done" /\ Offset(fields, k) = n
        \/ /\ status = "out_of_range" /\ k < Len(fields)
           /\ Offset(fields, k) < n /\ n < Offset(fields, k + 1)
      BY <1>4
  <2> QED
      BY <1>1, <1>2, <1>3, <2>1, <2>2
<1>6. CASE status = "reading" /\ Inside(writer, reader, fields, objs, stack, n, k)
  <2>1. /\ stack # <<>> /\ k \in 0..(Len(fields) - 1) /\ n \in Nat
        /\ stack[1].obj = Seen(reader, objs[k]) /\ Len(stack[1].data) = n
      BY <1>3, <1>6, InsideFrames
  <2>2. k \in 0..Len(fields)
      BY <1>3, <2>1
  <2>3. n \in 0..Len(FlattenSeq(fields))
      BY <1>6 DEF Inside
  <2>4. Len(FlattenSeq(fields)) \in Nat
    <3>1. FlattenSeq(fields) \in Bytes
        BY <1>3, FlattenIs
    <3> QED
        BY <3>1 DEF Bytes
  <2>5. n <= Len(FlattenSeq(fields))
      BY <2>3, <2>4
  <2> QED
      BY <1>1, <1>2, <1>3, <1>6, <2>1, <2>2, <2>4, <2>5
<1> QED
    BY <1>4, <1>5, <1>6

(* IInv implies TypeOK: every frame stands inside the bytes that it reads. *)
LEMMA Types == ASSUME IInv PROVE TypeOK
<1>1. CASE status = "writing"
  <2>1. stack = <<>>
      BY <1>1 DEF IInv, ReadsOn
  <2> QED
      BY <1>1, <2>1 DEF TypeOK
<1>2. CASE status # "writing"
  <2>1. stack # <<>> /\ status \in {"reading", "done", "out_of_range"}
      BY <1>2, Filled
  <2>2. PICK objs : /\ Message(writer, sent, todo, fields, objs)
                    /\ ReadsOn(writer, reader, fields, objs, stack, status)
      BY <1>2 DEF IInv
  <2>3. fields \in Seq(Bytes)
      BY <2>2 DEF Message, Run
  <2>4. PICK n, k : \/ Between(reader, fields, objs, stack, n, k)
                    \/ Inside(writer, reader, fields, objs, stack, n, k)
      BY <2>2 DEF ReadsOn
  <2>5. \A i \in DOMAIN stack :
          /\ DOMAIN stack[i].obj = DOMAIN stack[i].schema
          /\ stack[i].it \in 0..Len(stack[i].data)
          /\ stack[i].last \in 0..Len(stack[i].data)
    <3>1. CASE Between(reader, fields, objs, stack, n, k)
      <4>1. /\ DOMAIN stack = {1} /\ n \in Nat
            /\ stack[1].schema = reader /\ stack[1].obj = Seen(reader, objs[k])
            /\ Len(stack[1].data) = n /\ stack[1].last = n
            /\ stack[1].it = Offset(fields, k) /\ Offset(fields, k) \in 0..n
          BY <2>3, <3>1, BetweenFrame
      <4>2. DOMAIN Seen(reader, objs[k]) = DOMAIN reader
          BY DEF Seen
      <4> QED
          BY <4>1, <4>2
    <3>2. CASE Inside(writer, reader, fields, objs, stack, n, k)
      <4>1. /\ DOMAIN stack = {1, 2} /\ n \in Nat
            /\ stack[1].schema = reader /\ stack[1].obj = Seen(reader, objs[k])
            /\ Len(stack[1].data) = n /\ stack[1].last = n
            /\ stack[1].it = Offset(fields, k + 1) /\ Offset(fields, k + 1) \in 0..n
            /\ DOMAIN stack[2].obj = DOMAIN stack[2].schema
            /\ Len(stack[2].data) \in Nat
            /\ stack[2].it \in 0..stack[2].last /\ stack[2].last \in 0..Len(stack[2].data)
          BY <2>3, <3>2, InsideFrames
      <4>2. DOMAIN Seen(reader, objs[k]) = DOMAIN reader
          BY DEF Seen
      <4>3. stack[2].it \in 0..Len(stack[2].data)
          BY <4>1
      <4> QED
          BY <4>1, <4>2, <4>3
    <3> QED
        BY <2>4, <3>1, <3>2
  <2> QED
      BY <1>2, <2>1, <2>5 DEF TypeOK
<1> QED
    BY <1>1, <1>2

(* No two fields end at the same byte. *)
LEMMA OffsetOrder ==
  ASSUME NEW objs, writer \in Schemas, Run(writer, fields, objs),
         NEW i \in 0..Len(fields), NEW j \in 0..Len(fields)
  PROVE  /\ Offset(fields, i) \in Nat /\ Offset(fields, j) \in Nat
         /\ i < j => Offset(fields, i) < Offset(fields, j)
         /\ i <= j => Offset(fields, i) <= Offset(fields, j)
<1>1. fields \in Seq(Bytes) /\ \A k \in 1..Len(fields) : Len(fields[k]) >= 1
    BY RunNotEmpty
<1>2. Offset(fields, i) \in Nat /\ Offset(fields, j) \in Nat
    BY <1>1, OffsetStep
<1>3. i < j => Offset(fields, i) < Offset(fields, j)
    BY <1>1, OffsetStrict
<1>4. i <= j => Offset(fields, i) <= Offset(fields, j)
  <2>1. i <= j => i < j \/ i = j
      BY <1>1
  <2> QED
      BY <1>2, <1>3, <2>1
<1> QED
    BY <1>2, <1>3, <1>4

(* IInv implies RoundTrip: all bytes read are all fields read, no two of which end at *)
(* one byte.                                                                          *)
LEMMA WholeMessage == ASSUME IInv PROVE RoundTrip
<1> SUFFICES ASSUME status \notin {"writing", "reading"}, Received = Len(FlattenSeq(fields))
             PROVE  status = "done" /\ \A f \in DOMAIN reader : stack[1].obj[f] = sent[f]
    BY DEF RoundTrip
<1>1. Typed(writer, reader, sent, todo)
    BY Filled
<1>2. PICK objs, n, k :
        /\ Message(writer, sent, {}, fields, objs) /\ Run(writer, fields, objs)
        /\ fields \in Seq(Bytes) /\ k \in 0..Len(fields)
        /\ stack[1].obj = Seen(reader, objs[k]) /\ Len(stack[1].data) = n
        /\ n \in Nat /\ n <= Len(FlattenSeq(fields)) /\ Len(FlattenSeq(fields)) \in Nat
        /\ \/ status = "reading"
           \/ status = "done" /\ Offset(fields, k) = n
           \/ /\ status = "out_of_range" /\ k < Len(fields)
              /\ Offset(fields, k) < n /\ n < Offset(fields, k + 1)
    BY Filled
<1> DEFINE last == Len(fields)
<1>3. n = Offset(fields, last) /\ last \in 0..Len(fields) /\ last \in Nat
  <2>1. Offset(fields, Len(fields)) = Len(FlattenSeq(fields))
      BY <1>2, OffsetStep
  <2>2. n = Len(FlattenSeq(fields))
      BY <1>2 DEF Received
  <2>3. last \in Nat /\ last \in 0..Len(fields)
      BY <1>2
  <2> QED
      BY <2>1, <2>2, <2>3
<1>4. writer \in Schemas
    BY <1>1 DEF Typed
<1>5. status # "out_of_range"
  <2> SUFFICES ASSUME status = "out_of_range" PROVE FALSE
      OBVIOUS
  <2>1. k < last /\ n < Offset(fields, k + 1)
      BY <1>2
  <2>2. k + 1 \in 0..Len(fields) /\ k + 1 <= last
      BY <1>2, <2>1
  <2>3. /\ Offset(fields, k + 1) \in Nat /\ Offset(fields, last) \in Nat
        /\ Offset(fields, k + 1) <= Offset(fields, last)
      BY <1>2, <1>3, <1>4, <2>2, OffsetOrder
  <2> QED
      BY <1>3, <2>1, <2>3
<1>6. status = "done" /\ Offset(fields, k) = n
    BY <1>2, <1>5
<1>7. k = last
  <2>1. Offset(fields, k) \in Nat /\ (k < last => Offset(fields, k) < Offset(fields, last))
      BY <1>2, <1>3, <1>4, OffsetOrder
  <2>2. ~(k < last)
      BY <1>3, <1>6, <2>1
  <2> QED
      BY <1>2, <1>3, <2>2
<1>8. ASSUME NEW f \in DOMAIN reader PROVE stack[1].obj[f] = sent[f]
  <2>1. f \in DOMAIN writer
      BY <1>1, TypedReader
  <2>2. objs[last][f] = sent[f]
      BY <1>2, <2>1 DEF Message
  <2>3. Seen(reader, objs[k])[f] = objs[k][f]
      BY DEF Seen
  <2> QED
      BY <1>2, <1>7, <2>2, <2>3
<1> QED
    BY <1>6, <1>8

(* IInv implies ThrowsIffCut: a number of bytes strictly between two offsets is no *)
(* boundary.                                                                       *)
LEMMA CutMessage == ASSUME IInv PROVE ThrowsIffCut
<1>1. CASE status = "writing"
    BY <1>1 DEF ThrowsIffCut
<1>2. CASE status # "writing"
  <2>1. Typed(writer, reader, sent, todo)
      BY <1>2, Filled
  <2>2. PICK objs, n, k :
          /\ Message(writer, sent, {}, fields, objs) /\ Run(writer, fields, objs)
          /\ fields \in Seq(Bytes) /\ k \in 0..Len(fields)
          /\ stack[1].obj = Seen(reader, objs[k]) /\ Len(stack[1].data) = n
          /\ n \in Nat /\ n <= Len(FlattenSeq(fields)) /\ Len(FlattenSeq(fields)) \in Nat
          /\ \/ status = "reading"
             \/ status = "done" /\ Offset(fields, k) = n
             \/ /\ status = "out_of_range" /\ k < Len(fields)
                /\ Offset(fields, k) < n /\ n < Offset(fields, k + 1)
      BY <1>2, Filled
  <2>3. Received = n /\ Boundaries = {Offset(fields, i) : i \in 0..Len(fields)}
      BY <2>2 DEF Received, Boundaries, Offset
  <2>4. status = "done" => Received \in Boundaries
      BY <2>2, <2>3
  <2>5. ASSUME status = "out_of_range", NEW i \in 0..Len(fields) PROVE n # Offset(fields, i)
    <3>1. writer \in Schemas
        BY <2>1 DEF Typed
    <3>2. k < Len(fields) /\ Offset(fields, k) < n /\ n < Offset(fields, k + 1)
        BY <2>2, <2>5
    <3>3. k + 1 \in 0..Len(fields) /\ (i <= k \/ k + 1 <= i)
        BY <2>2, <3>2
    <3>4. CASE i <= k
      <4>1. Offset(fields, i) \in Nat /\ Offset(fields, k) \in Nat /\ Offset(fields, i) <= Offset(fields, k)
          BY <2>2, <3>1, <3>4, OffsetOrder
      <4> QED
          BY <2>2, <3>2, <4>1
    <3>5. CASE k + 1 <= i
      <4>1. /\ Offset(fields, i) \in Nat /\ Offset(fields, k + 1) \in Nat
            /\ Offset(fields, k + 1) <= Offset(fields, i)
          BY <2>2, <3>1, <3>3, <3>5, OffsetOrder
      <4> QED
          BY <2>2, <3>2, <4>1
    <3> QED
        BY <3>3, <3>4, <3>5
  <2>6. status = "out_of_range" => Received \notin Boundaries
      BY <2>3, <2>5
  <2>7. status # "invalid_argument"
      BY <2>2
  <2> QED
      BY <2>4, <2>6, <2>7 DEF ThrowsIffCut
<1> QED
    BY <1>1, <1>2

(* IInv implies PartsAreWhole: the object is one of those between two fields. *)
LEMMA NoPartOfAField == ASSUME IInv PROVE PartsAreWhole
<1> SUFFICES ASSUME stack # <<>>, NEW f \in DOMAIN reader
             PROVE  InitialPart(reader[f], stack[1].obj[f], sent[f])
    BY DEF PartsAreWhole
<1>1. status # "writing"
    BY DEF IInv, ReadsOn
<1>2. Typed(writer, reader, sent, todo)
    BY <1>1, Filled
<1>3. PICK objs, n, k :
        /\ Message(writer, sent, {}, fields, objs) /\ k \in 0..Len(fields)
        /\ stack[1].obj = Seen(reader, objs[k])
    BY <1>1, Filled
<1>4. f \in DOMAIN writer /\ reader[f] = writer[f]
    BY <1>2, TypedReader
<1>5. InitialPart(writer[f], objs[k][f], sent[f])
    BY <1>3, <1>4 DEF Message
<1>6. stack[1].obj[f] = objs[k][f]
    BY <1>3 DEF Seen
<1> QED
    BY <1>4, <1>5, <1>6

(* deserializeMessage, deserializeObject and deserializeMapPair keep their iterators *)
(* inside the bytes they read, whatever arrived of a message.                        *)
THEOREM SerializerTypes == Spec => []TypeOK
    BY Invariance, Types, PTL

(* deserialize gives back what serialize was given: for every message type, order of *)
(* properties and reader that knows a part of them, a message that arrives whole is  *)
(* read without error and each property that both sides know has the sender's value. *)
THEOREM MessageArrives == Spec => []RoundTrip
    BY Invariance, WholeMessage, PTL

(* deserialize throws out_of_range exactly when its input ends inside a field, known, *)
(* unknown or nested, and never takes a part of a well-formed message for an invalid  *)
(* header.                                                                            *)
THEOREM CutIsDetected == Spec => []ThrowsIffCut
    BY Invariance, CutMessage, PTL

(* The object that deserialize fills, and leaves behind when it throws, holds no part *)
(* of a field: deserializeProperty writes a property only when its field was read     *)
(* whole.                                                                             *)
THEOREM FieldsAreWhole == Spec => []PartsAreWhole
    BY Invariance, NoPartOfAField, PTL

-----------------------------------------------------------------------------
(***************************************************************************)
(* Every step of the decoder makes progress.                               *)
(***************************************************************************)

(* Remaining, as a function of the frames. *)
Left(st) ==
  LET bytes[i \in 0..Len(st)] ==
        IF i = 0 THEN 0 ELSE bytes[i - 1] + st[i].last - st[i].it
  IN 2 * bytes[Len(st)] + Len(st)

(* With one frame. *)
LEMMA LeftOne ==
  ASSUME NEW st, Len(st) = 1, NEW a \in Int, NEW b \in Int, st[1].last = a, st[1].it = b
  PROVE  Left(st) = 2 * (a - b) + 1
<1> DEFINE Solves(h) == h = [i \in 0..Len(st) |-> IF i = 0 THEN 0 ELSE h[i - 1] + st[i].last - st[i].it]
           g == [i \in 0..1 |-> IF i = 0 THEN 0 ELSE a - b]
           h == CHOOSE x : Solves(x)
<1>1. 0..Len(st) = 0..1 /\ \A i \in 0..1 : i = 0 \/ i = 1
    OBVIOUS
<1>2. Solves(g)
  <2>1. g[0] = 0 /\ g[1] = a - b
      OBVIOUS
  <2>2. \A i \in 0..1 : g[i] = IF i = 0 THEN 0 ELSE g[i - 1] + st[i].last - st[i].it
      BY <1>1, <2>1
  <2> QED
      BY <1>1, <2>2
<1>3. Solves(h)
    BY <1>2
<1>4. h[0] = 0 /\ h[1] = 0 + a - b
  <2> HIDE DEF h, g
  <2>1. \A i \in 0..1 : h[i] = IF i = 0 THEN 0 ELSE h[i - 1] + st[i].last - st[i].it
      BY <1>1, <1>3
  <2> QED
      BY <2>1
<1>5. Left(st) = 2 * h[Len(st)] + Len(st)
    BY DEF Left
<1> HIDE DEF h
<1> QED
    BY <1>4, <1>5

(* The same with two frames. *)
LeftOfTwo(a, b, c, d) == 2 * ((a - b) + (c - d)) + 2

(* With two frames. *)
LEMMA LeftTwo ==
  ASSUME NEW st, Len(st) = 2, st[1].last \in Int, st[1].it \in Int,
         st[2].last \in Int, st[2].it \in Int
  PROVE  Left(st) = LeftOfTwo(st[1].last, st[1].it, st[2].last, st[2].it)
<1> DEFINE a == st[1].last
           b == st[1].it
           c == st[2].last
           d == st[2].it
<1>0. a \in Int /\ b \in Int /\ c \in Int /\ d \in Int
    OBVIOUS
<1> DEFINE Solves(h) == h = [i \in 0..Len(st) |-> IF i = 0 THEN 0 ELSE h[i - 1] + st[i].last - st[i].it]
           g == [i \in 0..2 |-> IF i = 0 THEN 0 ELSE IF i = 1 THEN a - b ELSE (a - b) + (c - d)]
           h == CHOOSE x : Solves(x)
<1>1. 0..Len(st) = 0..2 /\ \A i \in 0..2 : i = 0 \/ i = 1 \/ i = 2
    OBVIOUS
<1>2. Solves(g)
  <2>1. g[0] = 0 /\ g[1] = a - b /\ g[2] = (a - b) + (c - d)
      OBVIOUS
  <2>2. \A i \in 0..2 : g[i] = IF i = 0 THEN 0 ELSE g[i - 1] + st[i].last - st[i].it
      BY <1>0, <1>1, <2>1
  <2> QED
      BY <1>1, <2>2
<1>3. Solves(h)
    BY <1>2
<1>4. h[0] = 0 /\ h[1] = 0 + a - b /\ h[2] = h[1] + c - d
  <2> HIDE DEF h, g
  <2>1. \A i \in 0..2 : h[i] = IF i = 0 THEN 0 ELSE h[i - 1] + st[i].last - st[i].it
      BY <1>1, <1>3
  <2> QED
      BY <1>0, <2>1
<1>5. Left(st) = 2 * h[Len(st)] + Len(st)
    BY DEF Left
<1> HIDE DEF h
<1> QED
    BY <1>0, <1>4, <1>5 DEF LeftOfTwo

(* Between two fields. *)
LEMMA LeftBetween ==
  ASSUME NEW r, NEW fs \in Seq(Bytes), NEW objs, NEW st, NEW n, NEW k, Between(r, fs, objs, st, n, k)
  PROVE  n \in Nat /\ Offset(fs, k) \in Nat /\ Left(st) = 2 * (n - Offset(fs, k)) + 1
<1> DEFINE o == objs[k]
           it == Offset(fs, k)
           m == Main(r, fs, n, o, it)
<1>1. st = <<m>> /\ k \in 0..Len(fs) /\ n \in 0..Len(FlattenSeq(fs))
    BY DEF Between
<1>2. Len(FlattenSeq(fs)) \in Nat
  <2>1. FlattenSeq(fs) \in Bytes
      BY FlattenIs
  <2> QED
      BY <2>1 DEF Bytes
<1>3. n \in Nat /\ n \in Int
    BY <1>1, <1>2
<1>4. it \in Nat
    BY <1>1, OffsetStep
<1>5. it \in Int
    BY <1>4
<1> HIDE DEF o, it
<1>6. m.it = it /\ m.last = n
    BY MainFields
<1> HIDE DEF m
<1>7. Len(st) = 1 /\ st[1].last = n /\ st[1].it = it
    BY <1>1, <1>6
<1>8. Left(st) = 2 * (n - it) + 1
    BY <1>3, <1>5, <1>7, LeftOne
<1> QED
    BY <1>3, <1>4, <1>8 DEF it

(* Inside a field. *)
LEMMA LeftInside ==
  ASSUME NEW r, NEW fs \in Seq(Bytes), NEW objs, NEW st, NEW n \in Nat, NEW k, NEW f, NEW d,
         NEW base \in Nat, NEW cs \in Seq(Bytes), NEW os, NEW i \in 0..Len(cs),
         k + 1 \in 0..Len(fs), st = CallStack(r, fs, objs, n, k, f, d, base, cs, os, i)
  PROVE  /\ Offset(fs, k + 1) \in Nat /\ Offset(cs, i) \in Nat /\ Len(FlattenSeq(cs)) \in Nat
         /\ Left(st) = LeftOfTwo(n, Offset(fs, k + 1), Len(FlattenSeq(cs)), Offset(cs, i))
<1> DEFINE o == objs[k]
           it == Offset(fs, k + 1)
           m == Main(r, fs, n, o, it)
           kind == r[f]
           c == Callee(kind, f, d, base, cs, os, i)
           len == Len(FlattenSeq(cs))
           at == Offset(cs, i)
<1>1. st = <<m, c>>
    BY DEF CallStack
<1>2. it \in Nat /\ at \in Nat
    BY OffsetStep
<1>3. len \in Nat
  <2>1. FlattenSeq(cs) \in Bytes
      BY FlattenIs
  <2> QED
      BY <2>1 DEF Bytes
<1>4. c.it = base + at /\ c.last = base + len
    BY RecFields DEF Callee
<1> HIDE DEF o, it, at, len
<1>5. m.it = it /\ m.last = n
    BY MainFields
<1> HIDE DEF m, c
<1>6. Len(st) = 2 /\ st[1].last = n /\ st[1].it = it /\ st[2].last = base + len /\ st[2].it = base + at
    BY <1>1, <1>4, <1>5
<1>7. n \in Int /\ it \in Int /\ base + len \in Int /\ base + at \in Int
    BY <1>2, <1>3
<1>8. Left(st) = LeftOfTwo(n, it, base + len, base + at)
  <2>1. Left(st) = LeftOfTwo(st[1].last, st[1].it, st[2].last, st[2].it)
      BY <1>6, <1>7, LeftTwo
  <2> QED
      BY <1>6, <2>1
<1>9. LeftOfTwo(n, it, base + len, base + at) = LeftOfTwo(n, it, len, at)
    BY <1>2, <1>3 DEF LeftOfTwo
<1> QED
    BY <1>2, <1>3, <1>8, <1>9 DEF it, at, len

(* Every step of the decoder makes Remaining smaller. *)
LEMMA StepProgresses ==
  ASSUME IInv, [Next]_vars
  PROVE  [status = "reading" /\ status' = "reading" => Remaining' < Remaining]_vars
<1> SUFFICES ASSUME Next, status = "reading", status' = "reading" PROVE Left(stack') < Left(stack)
    BY DEF Remaining, Left
<1>1. DeserializeProperty \/ Return
    BY DEF Next, SerializeProperty, Receive, Finish, Ended
<1>2. Typed(writer, reader, sent, todo) /\ todo = {}
    BY Reading
<1>3. PICK objs, n, k :
        /\ Message(writer, sent, todo, fields, objs) /\ Run(writer, fields, objs)
        /\ \/ Between(reader, fields, objs, stack, n, k)
           \/ Inside(writer, reader, fields, objs, stack, n, k)
    BY Reading
<1>4. fields \in Seq(Bytes) /\ \A j \in 1..Len(fields) : Len(fields[j]) >= 1
    BY <1>2, <1>3, RunNotEmpty DEF Typed
<1>5. CASE Between(reader, fields, objs, stack, n, k)
  <2>1. Len(stack) = 1
      BY <1>4, <1>5, BetweenFrame
  <2>2. DeserializeProperty
      BY <1>1, <2>1 DEF Return
  <2>3. /\ AtField(objs, n, k)
        /\ FieldRead(objs, n, k) \/ FieldCut(objs, n, k) \/ FieldEntered(objs, n, k)
      BY <1>2, <1>3, <1>5, <2>2, MainRound
  <2>4. n \in Nat /\ Offset(fields, k) \in Nat /\ Left(stack) = 2 * (n - Offset(fields, k)) + 1
      BY <1>4, <1>5, LeftBetween
  <2>5. /\ k \in 0..(Len(fields) - 1) /\ Offset(fields, k + 1) = Offset(fields, k) + Len(fields[k + 1])
        /\ Len(fields[k + 1]) \in Nat
      BY <2>3 DEF AtField
  <2>6. k + 1 \in 1..Len(fields) /\ k + 1 \in 0..Len(fields) /\ Len(fields[k + 1]) >= 1
      BY <1>4, <2>5
  <2>7. CASE FieldRead(objs, n, k)
    <3>1. Between(reader, fields, objs, stack', n, k + 1)
        BY <1>5, <2>6, <2>7 DEF FieldRead, Between
    <3>2. Left(stack') = 2 * (n - Offset(fields, k + 1)) + 1
        BY <1>4, <3>1, LeftBetween
    <3> QED
        BY <2>4, <2>5, <2>6, <3>2
  <2>8. CASE FieldEntered(objs, n, k)
    <3>1. PICK f, d, base, cs, os :
            /\ Calls(writer, reader, objs, k, f, d, base, cs, os)
            /\ stack' = CallStack(reader, fields, objs, n, k, f, d, base, cs, os, 0)
            /\ Len(FlattenSeq(cs)) + 2 <= Len(fields[k + 1])
        BY <2>8 DEF FieldEntered
    <3>2. base \in Nat /\ cs \in Seq(Bytes) /\ 0 \in 0..Len(cs)
        BY <3>1 DEF Calls, FlatRun
    <3>3. /\ Len(FlattenSeq(cs)) \in Nat
          /\ Left(stack') = LeftOfTwo(n, Offset(fields, k + 1), Len(FlattenSeq(cs)), Offset(cs, 0))
        BY <1>4, <2>4, <2>6, <3>1, <3>2, LeftInside
    <3>4. Offset(cs, 0) = 0
        BY <3>2, OffsetStep
    <3> QED
        BY <2>4, <2>5, <3>1, <3>3, <3>4 DEF LeftOfTwo
  <2>9. ~FieldCut(objs, n, k)
      BY DEF FieldCut
  <2> QED
      BY <2>3, <2>7, <2>8, <2>9
<1>6. CASE Inside(writer, reader, fields, objs, stack, n, k)
  <2>1. PICK f, d, base, cs, os : \E i \in 0..Len(cs) :
          /\ Calls(writer, reader, objs, k, f, d, base, cs, os)
          /\ stack = CallStack(reader, fields, objs, n, k, f, d, base, cs, os, i)
      BY <1>6 DEF Inside
  <2>2. PICK i \in 0..Len(cs) :
          /\ Calls(writer, reader, objs, k, f, d, base, cs, os)
          /\ stack = CallStack(reader, fields, objs, n, k, f, d, base, cs, os, i)
      BY <2>1
  <2> DEFINE m == Main(reader, fields, n, objs[k], Offset(fields, k + 1))
             kind == reader[f]
             len == Len(FlattenSeq(cs))
  <2>3. /\ d \in Bytes /\ base \in Nat /\ FlatRun(Embedded(kind), cs, os)
        /\ Placed(d, base, FlattenSeq(cs)) /\ cs \in Seq(Bytes)
      BY <2>2 DEF Calls, FlatRun
  <2>4. n \in Nat /\ k \in 0..(Len(fields) - 1)
      BY <1>4, <1>6, InsideFrames
  <2>5. k + 1 \in 0..Len(fields)
      BY <1>4, <2>4
  <2>6. /\ Offset(fields, k + 1) \in Nat /\ Offset(cs, i) \in Nat /\ len \in Nat
        /\ Left(stack) = LeftOfTwo(n, Offset(fields, k + 1), len, Offset(cs, i))
    <3>1. stack = CallStack(reader, fields, objs, n, k, f, d, base, cs, os, i)
        BY <2>2
    <3>2. base \in Nat /\ cs \in Seq(Bytes)
        BY <2>3
    <3>3. i \in 0..Len(cs)
        BY <2>2
    <3>4. Left(stack) = LeftOfTwo(n, Offset(fields, k + 1), len, Offset(cs, i))
        BY ONLY <1>4, <2>4, <2>5, <3>1, <3>2, <3>3, LeftInside
    <3>5. Offset(fields, k + 1) \in Nat /\ Offset(cs, i) \in Nat
        BY <1>4, <2>5, <3>2, <3>3, OffsetStep
    <3>6. FlattenSeq(cs) \in Bytes
        BY <3>2, FlattenIs
    <3>7. len \in Nat
        BY <3>6 DEF Bytes
    <3> QED
        BY <3>4, <3>5, <3>7
  <2>7. CASE DeserializeProperty
    <3>1. stack = <<m, Callee(kind, f, d, base, cs, os, i)>>
        BY <2>2 DEF CallStack
    <3>2. i \in 0..(Len(cs) - 1) /\ stack' = <<m, Callee(kind, f, d, base, cs, os, i + 1)>>
      <4> HIDE DEF m, kind
      <4> QED
          BY <2>3, <2>7, <3>1, CalleeRound
    <3>3. stack' = CallStack(reader, fields, objs, n, k, f, d, base, cs, os, i + 1)
        BY <3>2 DEF CallStack
    <3>4. i + 1 \in 0..Len(cs) /\ i < i + 1
        BY <2>3, <3>2
    <3>5. Left(stack') = LeftOfTwo(n, Offset(fields, k + 1), len, Offset(cs, i + 1))
      <4>1. base \in Nat /\ cs \in Seq(Bytes)
          BY <2>3
      <4> QED
          BY ONLY <1>4, <2>4, <2>5, <3>3, <3>4, <4>1, LeftInside
    <3>6. Offset(cs, i + 1) \in Nat
        BY <2>3, <3>4, OffsetStep
    <3>7. Offset(cs, i) < Offset(cs, i + 1)
      <4>1. \A j \in 1..Len(cs) : Len(cs[j]) >= 1
          BY <2>3, FlatRunNotEmpty
      <4> QED
          BY <2>3, <3>4, <4>1, OffsetStrict
    <3> HIDE DEF len
    <3> QED
        BY <2>4, <2>6, <3>5, <3>6, <3>7 DEF LeftOfTwo
  <2>8. CASE Return
    <3>1. Between(reader, fields, objs, stack', n, k + 1)
        BY <1>2, <1>4, <1>6, <2>8, Returned
    <3>2. Left(stack') = 2 * (n - Offset(fields, k + 1)) + 1
        BY <1>4, <3>1, LeftBetween
    <3>3. Offset(cs, i) <= len
      <4>1. Len(cs) \in Nat /\ Len(cs) \in 0..Len(cs)
          BY <2>3
      <4>2. Offset(cs, Len(cs)) = len
          BY <2>3, OffsetStep
      <4>3. CASE i = Len(cs)
          BY <2>6, <4>2, <4>3
      <4>4. CASE i < Len(cs)
        <5>1. \A j \in 1..Len(cs) : Len(cs[j]) >= 1
            BY <2>3, FlatRunNotEmpty
        <5>2. Offset(cs, i) < Offset(cs, Len(cs))
            BY <2>3, <4>1, <4>4, <5>1, OffsetStrict
        <5> QED
            BY <2>6, <4>2, <5>2
      <4> QED
          BY <4>1, <4>3, <4>4
    <3> HIDE DEF len
    <3> QED
        BY <2>4, <2>6, <3>2, <3>3 DEF LeftOfTwo
  <2> QED
      BY <1>1, <2>7, <2>8
<1> QED
    BY <1>3, <1>5, <1>6

(* Each round of the loops of deserializeMessage and deserializeMapPair and each return *)
(* from them uses up input or ends a call: they end whatever part of a message arrived. *)
THEOREM DecoderProgresses == Spec => Progresses
<1>1. IInv /\ [Next]_vars => [status = "reading" /\ status' = "reading" => Remaining' < Remaining]_vars
    BY StepProgresses
<1> QED
    BY <1>1, Invariance, PTL DEF Spec, Progresses
=============================================================================
