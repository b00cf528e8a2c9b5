-------------------------- MODULE Http2StreamProofs --------------------------
(***************************************************************************)
(* Proofs about Http2Stream, for any number and length of messages: what   *)
(* the handler gets are bytes of the reply, whatever chunks come and       *)
(* whatever sizes are read from them; and as long as no chunk ends inside  *)
(* a header, nor one with the end of a message right behind the header of  *)
(* the next, the handler gets each message once, whole, in order and as    *)
(* soon as it is there.                                                    *)
(***************************************************************************)
EXTENDS Http2Stream, SequenceTheorems, WellFoundedInduction, TLAPS

Handed == [at : Nat, len : Nat]

\* The slot works on an entry of a reply that is not deleted, and what it has
\* handed over had come.
SlotInv ==
    /\ TypeOK
    /\ looping => entry
    /\ reply = "deleted" => ~looping
    /\ HandlerGetsReceived

\* The position behind the first h messages.
Cut(h) == IF h = 0 THEN 0 ELSE End(h)

\* Position q is not inside a header, and not right behind a header that comes
\* later than position p.
Uncut(q) == \A i \in 1 .. Len(frames) : ~(frames[i].at < q /\ q < frames[i].at + H)
NotBehind(p, q) == \A i \in 1 .. Len(frames) : p < frames[i].at => q # frames[i].at + H

\* The container begins with the first message that was not handled, and
\* expectedSize is the size of that message as soon as a byte of it is there.
\* Within the loop more than a header of a later message is there, or nothing of
\* it.  When the slot has returned the first message is not complete.
Position ==
    reply = "running" =>
        /\ from = Cut(Len(handled))
        /\ Uncut(received)
        /\ entry \/ from = received
        /\ entry /\ ~looping => from < received
        /\ from < received => expectedSize = frames[Len(handled) + 1].len + H
        /\ entry => expectedSize >= H
        /\ looping => NotBehind(from, received)
        /\ ~looping /\ Len(handled) < Len(frames) => received < End(Len(handled) + 1)

\* The handler has got the first messages.
InOrder ==
    \A i \in 1 .. Len(handled) :
        /\ i <= Len(frames)
        /\ handled[i] = [at |-> frames[i].at + H, len |-> frames[i].len]

\* What regular chunks keep.
Ordered ==
    /\ SlotInv
    /\ Len(handled) <= Len(frames)
    /\ InOrder
    /\ Position

\* The inductive invariant.
IInv == SlotInv /\ (regular => Ordered)

-----------------------------------------------------------------------------
(* Where messages are. *)

\* A set of natural numbers has a least element.
LEMMA Least ==
    ASSUME NEW T, T \subseteq Nat, T # {}
    PROVE  \E x \in T : \A y \in T : x <= y
<1> DEFINE R == OpToRel(<, Nat)
<1>1. IsWellFoundedOn(R, Nat)
  BY NatLessThanWellFounded
<1>2. \A x, y \in Nat : y < x => <<y, x>> \in R
  BY DEF OpToRel
<1> HIDE DEF R
<1>3. PICK x \in T : \A y \in T : ~ (<<y, x>> \in R)
  BY <1>1, WFMin
<1>4. \A y \in T : ~(y < x)
  BY <1>2, <1>3
<1>5. \A y \in T : x <= y
  BY <1>4
<1> QED
  BY <1>5

\* The constants.
LEMMA Constants ==
    /\ H \in Nat /\ H > 0 /\ MaxFrames \in Nat /\ MaxPayload \in Nat
    /\ \A n \in Payloads : n \in Nat
    /\ MaxHandled \in Nat /\ MaxHandled >= MaxFrames /\ Garbage \subseteq Int
BY HeaderAssumption, PayloadsAssumption, HandledAssumption, GarbageAssumption DEF H

\* Messages that follow each other do not overlap, by induction on the later one.
LEMMA Layout ==
    ASSUME NEW f \in Streams
    PROVE  /\ Len(f) \in Nat \ {0} /\ Len(f) <= MaxFrames
           /\ \A i \in 1 .. Len(f) : f[i].at \in Nat /\ f[i].len \in Payloads /\ f[i].len \in Nat
           /\ f[1].at = 0
           /\ \A i \in 1 .. Len(f) - 1 : f[i + 1].at = f[i].at + H + f[i].len
           /\ \A i, j \in 1 .. Len(f) : i < j => f[i].at + H + f[i].len <= f[j].at
<1> DEFINE B == MaxFrames * (H + MaxPayload)
           Message == [at : 0 .. B, len : Payloads]
<1>1. B \in Int
  BY Constants
<1>2. /\ \E n \in 1 .. MaxFrames : f \in [1 .. n -> Message]
      /\ f[1].at = 0
      /\ \A i \in 1 .. Len(f) - 1 : f[i + 1].at = f[i].at + H + f[i].len
  BY DEF Streams
<1> HIDE DEF B
<1>3. \A m \in Message : m.at \in Nat /\ m.len \in Payloads /\ m.len \in Nat
  BY <1>1, Constants
<1> HIDE DEF Message
<1>4. PICK n \in 1 .. MaxFrames : f \in [1 .. n -> Message]
  BY <1>2
<1>5. n \in Nat \ {0} /\ f \in Seq(Message) /\ Len(f) = n /\ n <= MaxFrames
  BY <1>4, Constants
<1>6. \A i \in 1 .. Len(f) : f[i].at \in Nat /\ f[i].len \in Payloads /\ f[i].len \in Nat
  BY <1>3, <1>4, <1>5
<1> DEFINE Late == {j \in 1 .. Len(f) :
                      \E i \in 1 .. Len(f) : i < j /\ ~(f[i].at + H + f[i].len <= f[j].at)}
<1>7. Late = {}
  <2> SUFFICES ASSUME Late # {} PROVE FALSE
    OBVIOUS
  <2>1. Late \subseteq Nat
    BY <1>5
  <2>2. \A j \in Late : j \in 1 .. Len(f)
                        /\ \E i \in 1 .. Len(f) : i < j /\ ~(f[i].at + H + f[i].len <= f[j].at)
    OBVIOUS
  <2>3. \A i, j \in 1 .. Len(f) : j \notin Late /\ i < j => f[i].at + H + f[i].len <= f[j].at
    OBVIOUS
  <2> HIDE DEF Late
  <2>4. PICK j \in Late : \A k \in Late : j <= k
    BY <2>1, Least
  <2>5. PICK i \in 1 .. Len(f) : i < j /\ ~(f[i].at + H + f[i].len <= f[j].at)
    BY <2>2, <2>4
  <2>6. /\ j - 1 \in 1 .. Len(f) /\ j - 1 \in 1 .. Len(f) - 1 /\ (j - 1) + 1 = j
        /\ i <= j - 1 /\ j - 1 \notin Late
    BY <1>5, <2>1, <2>2, <2>4, <2>5
  <2>7. f[j].at = f[j - 1].at + H + f[j - 1].len
    BY <1>2, <2>6
  <2>8. i < j - 1 => f[i].at + H + f[i].len <= f[j - 1].at
    BY <2>3, <2>6
  <2>9. f[i].at \in Nat /\ f[i].len \in Nat /\ f[j - 1].at \in Nat /\ f[j - 1].len \in Nat
    BY <1>6, <2>6
  <2>10. CASE i = j - 1
    BY <2>5, <2>7, <2>9, <2>10, Constants
  <2>11. CASE i < j - 1
    <3>1. f[j - 1].at <= f[j].at /\ f[j].at \in Nat
      <4>1. \A a, b, c \in Nat : a <= a + b + c /\ a + b + c \in Nat
        OBVIOUS
      <4>2. H \in Nat
        BY Constants
      <4>3. f[j - 1].at <= f[j - 1].at + H + f[j - 1].len
            /\ f[j - 1].at + H + f[j - 1].len \in Nat
        BY <2>9, <4>1, <4>2
      <4> QED
        BY <2>7, <4>3
    <3>2. f[i].at + H + f[i].len <= f[j - 1].at /\ f[i].at + H + f[i].len \in Nat
      BY <2>8, <2>9, <2>11, Constants
    <3>3. f[i].at + H + f[i].len <= f[j].at
      BY <2>9, <3>1, <3>2
    <3> QED
      BY <2>5, <3>3
  <2> QED
    BY <2>6, <2>10, <2>11
<1>8. \A i, j \in 1 .. Len(f) : i < j => f[i].at + H + f[i].len <= f[j].at
  BY <1>7
<1> QED
  BY <1>2, <1>5, <1>6, <1>8

\* The messages of the reply, in terms of their ends.
LEMMA Ends ==
    ASSUME frames \in Streams
    PROVE  /\ Len(frames) \in Nat \ {0} /\ Len(frames) <= MaxFrames /\ H \in Nat /\ H > 0
           /\ \A i \in 1 .. Len(frames) :
                /\ frames[i].at \in Nat /\ frames[i].len \in Nat /\ frames[i].len \in Payloads
                /\ End(i) = frames[i].at + H + frames[i].len /\ End(i) \in Nat
                /\ End(i) <= Total
           /\ \A i, j \in 1 .. Len(frames) : i < j => End(i) <= frames[j].at
           /\ Total \in Nat
           /\ \A h \in 0 .. Len(frames) : Cut(h) \in Nat
           /\ \A h \in 0 .. Len(frames) - 1 : h + 1 \in 1 .. Len(frames) /\ frames[h + 1].at = Cut(h)
           /\ Cut(Len(frames)) = Total
<1>1. /\ Len(frames) \in Nat \ {0} /\ Len(frames) <= MaxFrames
      /\ \A i \in 1 .. Len(frames) :
           frames[i].at \in Nat /\ frames[i].len \in Payloads /\ frames[i].len \in Nat
      /\ frames[1].at = 0
      /\ \A i \in 1 .. Len(frames) - 1 : frames[i + 1].at = frames[i].at + H + frames[i].len
      /\ \A i, j \in 1 .. Len(frames) : i < j => frames[i].at + H + frames[i].len <= frames[j].at
  BY Layout
<1>2. H \in Nat /\ H > 0
  BY Constants
<1>3. \A i \in 1 .. Len(frames) : End(i) = frames[i].at + H + frames[i].len /\ End(i) \in Nat
  BY <1>1, <1>2 DEF End
<1>4. \A i, j \in 1 .. Len(frames) : i < j => End(i) <= frames[j].at
  BY <1>1, <1>3
<1>5. Len(frames) \in 1 .. Len(frames) /\ Total = End(Len(frames)) /\ Total \in Nat
  BY <1>1, <1>3 DEF Total
<1>6. ASSUME NEW i \in 1 .. Len(frames) PROVE End(i) <= Total
  <2>1. CASE i = Len(frames)
    BY <1>3, <1>5, <2>1
  <2>2. CASE i < Len(frames)
    <3>1. End(i) <= frames[Len(frames)].at
      BY <1>4, <1>5, <2>2
    <3>2. frames[Len(frames)].at <= Total
      BY <1>1, <1>2, <1>3, <1>5
    <3> QED
      BY <1>1, <1>3, <1>5, <3>1, <3>2
  <2> QED
    BY <1>1, <2>1, <2>2
<1>7. ASSUME NEW h \in 0 .. Len(frames) PROVE Cut(h) \in Nat
  <2>1. CASE h = 0
    BY <2>1 DEF Cut
  <2>2. CASE h # 0
    <3>1. h \in 1 .. Len(frames) /\ Cut(h) = End(h)
      BY <1>1, <2>2 DEF Cut
    <3> QED
      BY <1>3, <3>1
  <2> QED
    BY <2>1, <2>2
<1>8. ASSUME NEW h \in 0 .. Len(frames) - 1
      PROVE  h + 1 \in 1 .. Len(frames) /\ frames[h + 1].at = Cut(h)
  <2>1. h + 1 \in 1 .. Len(frames)
    BY <1>1
  <2>2. CASE h = 0
    BY <1>1, <2>1, <2>2 DEF Cut
  <2>3. CASE h # 0
    <3>1. h \in 1 .. Len(frames) - 1 /\ h \in 1 .. Len(frames) /\ Cut(h) = End(h)
      BY <1>1, <2>3 DEF Cut
    <3> QED
      BY <1>1, <1>3, <2>1, <3>1
  <2> QED
    BY <2>2, <2>3
<1>9. Cut(Len(frames)) = Total
  BY <1>1, <1>5 DEF Cut
<1> QED
  BY <1>1, <1>2, <1>3, <1>4, <1>5, <1>6, <1>7, <1>8, <1>9

\* When no header is cut, bytes behind the first h messages are a whole header.
LEMMA HeaderIsThere ==
    ASSUME frames \in Streams, NEW h \in 0 .. Len(frames),
           NEW q \in Nat, q <= Total, Uncut(q), Cut(h) < q
    PROVE  h \in 0 .. Len(frames) - 1 /\ q - Cut(h) >= H
<1>1. /\ Len(frames) \in Nat \ {0} /\ H \in Nat /\ Total \in Nat /\ Cut(h) \in Nat
      /\ \A g \in 0 .. Len(frames) - 1 : g + 1 \in 1 .. Len(frames) /\ frames[g + 1].at = Cut(g)
      /\ Cut(Len(frames)) = Total
  BY Ends
<1>2. h \in 0 .. Len(frames) - 1
  <2>1. h # Len(frames)
    BY <1>1
  <2> QED
    BY <1>1, <2>1
<1>3. ~(q < Cut(h) + H)
  BY <1>1, <1>2 DEF Uncut
<1> QED
  BY <1>1, <1>2, <1>3

\* The size read behind the first h messages is that of the next one.
LEMMA SizeIsRight ==
    ASSUME frames \in Streams, NEW h \in 0 .. Len(frames) - 1, NEW q \in Nat, q - Cut(h) >= H
    PROVE  ExpectedDataSize(Cut(h), q) = {frames[h + 1].len + H}
<1>1. /\ Len(frames) \in Nat \ {0} /\ H \in Nat /\ H > 0
      /\ \A i \in 1 .. Len(frames) :
           /\ frames[i].at \in Nat /\ frames[i].len \in Nat
           /\ End(i) = frames[i].at + H + frames[i].len /\ End(i) \in Nat
      /\ \A i, j \in 1 .. Len(frames) : i < j => End(i) <= frames[j].at
      /\ h + 1 \in 1 .. Len(frames) /\ frames[h + 1].at = Cut(h)
  BY Ends
<1>2. ASSUME NEW j \in 1 .. Len(frames), frames[j].at = Cut(h) PROVE j = h + 1
  <2>0. /\ End(j) = Cut(h) + H + frames[j].len /\ frames[j].len \in Nat
        /\ End(h + 1) = Cut(h) + H + frames[h + 1].len /\ frames[h + 1].len \in Nat
        /\ Cut(h) \in Nat
    BY <1>1, <1>2
  <2>1. ~(j < h + 1)
    <3>1. j < h + 1 => End(j) <= Cut(h)
      BY <1>1
    <3> QED
      BY <1>1, <2>0, <3>1
  <2>2. ~(h + 1 < j)
    <3>1. h + 1 < j => End(h + 1) <= Cut(h)
      BY <1>1, <1>2
    <3> QED
      BY <1>1, <2>0, <3>1
  <2> QED
    BY <1>1, <2>1, <2>2
<1>3. {j \in 1 .. Len(frames) : frames[j].at = Cut(h)} = {h + 1}
  BY <1>1, <1>2
<1>4. ExpectedDataSize(Cut(h), q)
        = {frames[i].len + H : i \in {j \in 1 .. Len(frames) : frames[j].at = Cut(h)}}
  BY <1>1 DEF ExpectedDataSize
<1> QED
  BY <1>3, <1>4
-----------------------------------------------------------------------------
(* What is handed over has come, whatever chunks and sizes the slot meets. *)

\* getExpectedDataSize returns an int.
LEMMA SizeIsInt ==
    ASSUME frames \in Streams, NEW p, NEW q, NEW n \in ExpectedDataSize(p, q)
    PROVE  n \in Int
<1>1. H \in Nat /\ Garbage \subseteq Int
  BY Constants
<1>2. \A i \in 1 .. Len(frames) : frames[i].len \in Nat
  BY Ends
<1>3. CASE n \in Garbage
  BY <1>1, <1>3
<1>4. CASE n \in {frames[i].len + H : i \in {j \in 1 .. Len(frames) : frames[j].at = p}}
  BY <1>1, <1>2, <1>4
<1> QED
  BY <1>3, <1>4 DEF ExpectedDataSize

\* Positions and lengths of what the handler got are numbers.
LEMMA HandedInts ==
    ASSUME handled \in Seq(Handed)
    PROVE  \A i \in 1 .. Len(handled) : handled[i].at \in Nat /\ handled[i].len \in Nat
<1>1. \A m \in Handed : m.at \in Nat /\ m.len \in Nat
  BY DEF Handed
<1>2. \A i \in 1 .. Len(handled) : handled[i] \in Handed
  BY ElementOfSeq
<1> QED
  BY <1>1, <1>2

\* What the handler gets is recorded, as long as it had come.
LEMMA HandleStep ==
    ASSUME handled \in Seq(Handed), HandlerGetsReceived, received \in Nat,
           NEW at \in Nat, NEW n \in Nat, Handle(at, n),
           received' \in Nat, received <= received', n > 0 => at + n <= received'
    PROVE  handled' \in Seq(Handed) /\ HandlerGetsReceived'
<1> DEFINE m == [at |-> at, len |-> n]
<1>1. m \in Handed
  BY DEF Handed
<1>2. \A i \in 1 .. Len(handled) :
        /\ handled[i].at \in Nat /\ handled[i].len \in Nat
        /\ handled[i].len > 0 => handled[i].at + handled[i].len <= received
  BY HandedInts DEF HandlerGetsReceived
<1>3. \A i \in 1 .. Len(handled) :
        handled[i].len > 0 => handled[i].at + handled[i].len <= received'
  BY <1>2
<1>4. CASE handled' = handled
  BY <1>3, <1>4 DEF HandlerGetsReceived
<1>5. CASE handled' = Append(handled, m)
  <2>1. /\ handled' \in Seq(Handed) /\ Len(handled') = Len(handled) + 1
        /\ handled'[Len(handled) + 1] = m
        /\ \A i \in 1 .. Len(handled) : handled'[i] = handled[i]
    BY <1>1, <1>5, AppendProperties
  <2>2. Len(handled) \in Nat /\ m.at = at /\ m.len = n
    BY LenProperties
  <2>3. ASSUME NEW i \in 1 .. Len(handled') 
        PROVE  handled'[i].len > 0 => handled'[i].at + handled'[i].len <= received'
    <3>1. CASE i = Len(handled) + 1
      BY <2>1, <2>2, <3>1
    <3>2. CASE i # Len(handled) + 1
      <4>1. i \in 1 .. Len(handled)
        BY <2>1, <2>2, <3>2
      <4> QED
        BY <1>3, <2>1, <4>1
    <3> QED
      BY <3>1, <3>2
  <2> QED
    BY <2>1, <2>3 DEF HandlerGetsReceived
<1> QED
  BY <1>4, <1>5 DEF Handle

\* Other steps of a subscription keep what was recorded.
LEMMA NotHandled ==
    ASSUME handled \in Seq(Handed), HandlerGetsReceived, received \in Nat,
           handled' = handled, received' \in Nat, received <= received'
    PROVE  HandlerGetsReceived'
<1>1. \A i \in 1 .. Len(handled) :
        /\ handled[i].at \in Nat /\ handled[i].len \in Nat
        /\ handled[i].len > 0 => handled[i].at + handled[i].len <= received
  BY HandedInts DEF HandlerGetsReceived
<1> QED
  BY <1>1 DEF HandlerGetsReceived

\* No step leads out of SlotInv.
LEMMA SlotStep == SlotInv /\ [Next]_vars => SlotInv'
<1> SUFFICES ASSUME SlotInv, [Next]_vars PROVE SlotInv'
  OBVIOUS
<1>1. /\ frames \in Streams /\ Total \in Nat /\ H \in Nat
      /\ received \in Nat /\ received <= Total /\ from \in Nat /\ from <= received
      /\ entry \in BOOLEAN /\ looping \in BOOLEAN /\ expectedSize \in Int
      /\ handled \in Seq(Handed) /\ HandlerGetsReceived
      /\ looping => entry
      /\ reply = "deleted" => ~looping
      /\ reply \in {"running", "finished", "deleted"}
  BY Ends DEF SlotInv, TypeOK, Handed
<1>0. regular' \in BOOLEAN
  <2>1. regular \in BOOLEAN
    BY DEF SlotInv, TypeOK
  <2>2. ASSUME NEW p, NEW q, regular' = (regular /\ Regular(p, q)) PROVE regular' \in BOOLEAN
    BY <2>2
  <2>3. ReadyRead => regular' \in BOOLEAN
    BY <2>2 DEF ReadyRead
  <2>4. regular' = regular \/ regular' = TRUE \/ ReadyRead
    BY DEF Next, Loop, Return, Abort, FinishReply, Subscribe, vars
  <2> QED
    BY <2>1, <2>3, <2>4
<1>2. frames' = frames => Total' = Total
  BY DEF Total, End
<1>3. CASE ReadyRead
  <2>1. PICK q \in received + 1 .. Total :
          /\ received' = q
          /\ \/ entry /\ UNCHANGED <<entry, expectedSize, from, reply, handled>> /\ looping' = TRUE
             \/ /\ expectedSize' \in ExpectedDataSize(received, q) /\ from' = received
                /\ entry' = TRUE /\ looping' = TRUE /\ UNCHANGED <<reply, handled>>
             \/ /\ from' = q /\ Handle(q, 0) /\ reply' \in {"running", "deleted"}
                /\ UNCHANGED <<entry, expectedSize, looping>>
    BY <1>3 DEF ReadyRead
  <2>2. frames' = frames /\ reply = "running" /\ ~looping
    BY <1>3 DEF ReadyRead
  <2>3. q \in Nat /\ received' \in Nat /\ received <= received' /\ received' \in 0 .. Total
    BY <1>1, <2>1
  <2>4. CASE entry /\ UNCHANGED <<entry, expectedSize, from, reply, handled>> /\ looping' = TRUE
    <3>1. HandlerGetsReceived'
      BY <1>1, <2>3, <2>4, NotHandled
    <3>2. from' \in 0 .. received'
      BY <1>1, <2>3, <2>4
    <3> QED
      BY <1>0, <1>1, <1>2, <2>2, <2>3, <2>4, <3>1, <3>2 DEF SlotInv, TypeOK, Handed
  <2>5. CASE /\ expectedSize' \in ExpectedDataSize(received, q) /\ from' = received
             /\ entry' = TRUE /\ looping' = TRUE /\ UNCHANGED <<reply, handled>>
    <3>1. HandlerGetsReceived'
      BY <1>1, <2>3, <2>5, NotHandled
    <3>2. from' \in 0 .. received' /\ expectedSize' \in Int
      BY <1>1, <2>3, <2>5, SizeIsInt
    <3> QED
      BY <1>0, <1>1, <1>2, <2>2, <2>3, <2>5, <3>1, <3>2 DEF SlotInv, TypeOK, Handed
  <2>6. CASE /\ from' = q /\ Handle(q, 0) /\ reply' \in {"running", "deleted"}
             /\ UNCHANGED <<entry, expectedSize, looping>>
    <3>1. handled' \in Seq(Handed) /\ HandlerGetsReceived'
      BY <1>1, <2>3, <2>6, HandleStep
    <3>2. from' \in 0 .. received'
      BY <1>1, <2>1, <2>3, <2>6
    <3> QED
      BY <1>0, <1>1, <1>2, <2>2, <2>3, <2>6, <3>1, <3>2 DEF SlotInv, TypeOK, Handed
  <2> QED
    BY <2>1, <2>4, <2>5, <2>6
<1>4. CASE Loop
  <2>1. /\ looping /\ reply = "running" /\ received - from >= expectedSize
        /\ Handle(from + H, Mid)
        /\ from' = from + Removed
        /\ expectedSize' = expectedSize \/ expectedSize' \in ExpectedDataSize(from', received)
        /\ reply' \in {"running", "finished"}
        /\ UNCHANGED <<frames, received, entry, looping>>
    BY <1>4 DEF Loop, Size
  <2>2. from' \in 0 .. received'
    BY <1>1, <2>1 DEF Removed
  <2>3. expectedSize' \in Int
    BY <1>1, <2>1, SizeIsInt
  <2>4. Mid \in Nat /\ (Mid > 0 => from + H + Mid <= received)
    BY <1>1, <2>1 DEF Mid, Size
  <2>5. received' \in Nat /\ received <= received' /\ received' \in 0 .. Total /\ from + H \in Nat
    BY <1>1, <2>1
  <2>6. handled' \in Seq(Handed) /\ HandlerGetsReceived'
    BY <1>1, <2>1, <2>4, <2>5, HandleStep
  <2> QED
    BY <1>0, <1>1, <1>2, <2>1, <2>2, <2>3, <2>5, <2>6 DEF SlotInv, TypeOK, Handed
<1>5. CASE Return
  <2>1. /\ looping' = FALSE
        /\ \/ entry' = FALSE /\ from' = received
           \/ UNCHANGED <<entry, from>>
        /\ reply' = IF reply = "finished" THEN "deleted" ELSE reply
        /\ UNCHANGED <<frames, received, expectedSize, handled>>
    BY <1>5 DEF Return
  <2>2. received' \in 0 .. Total /\ from' \in 0 .. received' /\ entry' \in BOOLEAN
    <3>1. CASE entry' = FALSE /\ from' = received
      <4>1. received' \in 0 .. Total /\ from' \in 0 .. received'
        BY <1>1, <2>1, <3>1
      <4> QED
        BY <3>1, <4>1
    <3>2. CASE entry' = entry /\ from' = from
      BY <1>1, <2>1, <3>2
    <3> QED
      BY <2>1, <3>1, <3>2
  <2>3. reply' \in {"running", "finished", "deleted"}
    BY <1>1, <2>1
  <2>4. HandlerGetsReceived'
    BY <1>1, <2>1, NotHandled
  <2> QED
    BY <1>0, <1>1, <1>2, <2>1, <2>2, <2>3, <2>4 DEF SlotInv, TypeOK, Handed
<1>6. CASE Abort \/ FinishReply
  <2>1. /\ ~looping /\ reply' = "deleted"
        /\ \/ entry' = FALSE /\ from' = received
           \/ UNCHANGED <<entry, from>>
        /\ UNCHANGED <<frames, received, expectedSize, looping, handled>>
    BY <1>6 DEF Abort, FinishReply
  <2>2. received' \in 0 .. Total /\ from' \in 0 .. received' /\ entry' \in BOOLEAN
    <3>1. CASE entry' = FALSE /\ from' = received
      <4>1. received' \in 0 .. Total /\ from' \in 0 .. received'
        BY <1>1, <2>1, <3>1
      <4> QED
        BY <3>1, <4>1
    <3>2. CASE entry' = entry /\ from' = from
      BY <1>1, <2>1, <3>2
    <3> QED
      BY <2>1, <3>1, <3>2
  <2>3. HandlerGetsReceived'
    BY <1>1, <2>1, NotHandled
  <2> QED
    BY <1>0, <1>1, <1>2, <2>1, <2>2, <2>3 DEF SlotInv, TypeOK, Handed
<1>7. CASE Subscribe
  <2>1. /\ frames' \in Streams /\ reply = "deleted" /\ reply' = "running"
        /\ received' = 0 /\ from' = 0 /\ handled' = <<>> /\ entry' = FALSE
        /\ UNCHANGED <<expectedSize, looping>>
    BY <1>7 DEF Subscribe
  <2>2. Total' \in Nat
    <3>1. /\ Len(frames') \in Nat \ {0}
          /\ \A i \in 1 .. Len(frames') : frames'[i].at \in Nat /\ frames'[i].len \in Nat
      BY <2>1, Layout
    <3>2. Len(frames') \in 1 .. Len(frames')
      BY <3>1
    <3> QED
      BY <1>1, <3>1, <3>2 DEF Total, End
  <2>3. handled' \in Seq(Handed)
    BY <2>1, EmptySeq
  <2>4. received' \in 0 .. Total' /\ from' \in 0 .. received'
    BY <2>1, <2>2
  <2>5. HandlerGetsReceived'
    BY <2>1 DEF HandlerGetsReceived
  <2> QED
    BY <1>0, <1>1, <2>1, <2>3, <2>4, <2>5 DEF SlotInv, TypeOK, Handed
<1>8. CASE UNCHANGED vars
  <2>1. UNCHANGED <<frames, received, entry, expectedSize, from, looping, reply, handled>>
    BY <1>8 DEF vars
  <2> QED
    BY <1>0, <1>2, <2>1 DEF SlotInv, TypeOK, HandlerGetsReceived
<1> QED
  BY <1>3, <1>4, <1>5, <1>6, <1>7, <1>8 DEF Next

\* A subscription begins in SlotInv.
LEMMA SlotInit == Init => SlotInv
<1> SUFFICES ASSUME Init PROVE SlotInv
  OBVIOUS
<1>1. frames \in Streams /\ received = 0 /\ from = 0 /\ ~entry /\ ~looping
      /\ entry \in BOOLEAN /\ looping \in BOOLEAN
      /\ expectedSize = 0 /\ reply = "running" /\ handled = <<>> /\ regular \in BOOLEAN
  BY DEF Init
<1>2. Total \in Nat
  BY <1>1, Ends
<1>3. handled \in Seq(Handed)
  BY <1>1, EmptySeq
<1>4. received \in 0 .. Total /\ from \in 0 .. received
  BY <1>1, <1>2
<1>5. HandlerGetsReceived
  BY <1>1 DEF HandlerGetsReceived
<1> QED
  BY <1>1, <1>3, <1>4, <1>5 DEF SlotInv, TypeOK, Handed

\* The bytes the handler gets are bytes the reply has delivered: for chunks that
\* end anywhere, and whatever int is read where no header is, below zero or above
\* all that there is.
THEOREM SlotIsSafe == Spec => []HandlerGetsReceived
<1>1. SlotInv => HandlerGetsReceived
  BY DEF SlotInv
<1> QED
  BY <1>1, SlotInit, SlotStep, PTL DEF Spec
-----------------------------------------------------------------------------
(* The messages are cut where they begin, when headers come as Position says. *)

\* What the invariant says of a reply that runs, in the terms of the proofs.
LEMMA Running ==
    ASSUME Ordered, reply = "running"
    PROVE  /\ frames \in Streams /\ H \in Nat /\ H > 0 /\ Total \in Nat
           /\ Len(frames) \in Nat /\ Len(handled) \in 0 .. Len(frames)
           /\ received \in Nat /\ received <= Total /\ from \in Nat /\ from <= received
           /\ entry \in BOOLEAN /\ expectedSize \in Int
           /\ looping => entry
           /\ from = Cut(Len(handled))
           /\ Uncut(received)
           /\ entry \/ from = received
           /\ entry /\ ~looping => from < received
           /\ from < received => expectedSize = frames[Len(handled) + 1].len + H
           /\ entry => expectedSize >= H
           /\ looping => NotBehind(from, received)
           /\ ~looping /\ Len(handled) < Len(frames) => received < End(Len(handled) + 1)
<1>1. frames \in Streams /\ handled \in Seq(Handed) /\ Len(handled) <= Len(frames)
  BY DEF Ordered, SlotInv, TypeOK, Handed
<1>2. H \in Nat /\ H > 0 /\ Total \in Nat /\ Len(frames) \in Nat
  BY <1>1, Ends
<1>3. Len(handled) \in 0 .. Len(frames)
  BY <1>1, <1>2, LenProperties
<1>4. /\ received \in Nat /\ received <= Total /\ from \in Nat /\ from <= received
      /\ entry \in BOOLEAN /\ expectedSize \in Int /\ (looping => entry)
  BY <1>2 DEF Ordered, SlotInv, TypeOK
<1> QED
  BY <1>1, <1>2, <1>3, <1>4 DEF Ordered, Position

\* The message behind the first h ones.
LEMMA NextMessage ==
    ASSUME frames \in Streams, NEW h \in 0 .. Len(frames) - 1
    PROVE  /\ h + 1 \in 1 .. Len(frames)
           /\ frames[h + 1].at = Cut(h) /\ Cut(h) \in Nat
           /\ frames[h + 1].len \in Nat
           /\ Cut(h + 1) = Cut(h) + H + frames[h + 1].len
           /\ End(h + 1) = Cut(h + 1)
           /\ h + 1 \in 0 .. Len(frames)
<1>1. /\ Len(frames) \in Nat \ {0} /\ H \in Nat
      /\ h + 1 \in 1 .. Len(frames)
      /\ frames[h + 1].at = Cut(h)
  BY Ends
<1>2. /\ frames[h + 1].at \in Nat /\ frames[h + 1].len \in Nat
      /\ End(h + 1) = frames[h + 1].at + H + frames[h + 1].len
  BY <1>1, Ends
<1>3. Cut(h + 1) = End(h + 1) /\ h + 1 \in 0 .. Len(frames)
  BY <1>1 DEF Cut
<1> QED
  BY <1>1, <1>2, <1>3

\* Position after a step of the same subscription.
LEMMA SamePosition ==
    ASSUME frames' = frames,
           reply' = "running" =>
             /\ from' = Cut(Len(handled'))
             /\ Uncut(received')
             /\ entry' \/ from' = received'
             /\ entry' /\ ~looping' => from' < received'
             /\ from' < received' => expectedSize' = frames[Len(handled') + 1].len + H
             /\ entry' => expectedSize' >= H
             /\ looping' => NotBehind(from', received')
             /\ ~looping' /\ Len(handled') < Len(frames) => received' < End(Len(handled') + 1)
    PROVE  Position'
<1>1. Cut(Len(handled))' = Cut(Len(handled'))
  BY DEF Cut, End
<1>2. Uncut(received)' <=> Uncut(received')
  BY DEF Uncut
<1>3. NotBehind(from, received)' <=> NotBehind(from', received')
  BY DEF NotBehind
<1>4. End(Len(handled) + 1)' = End(Len(handled') + 1)
  BY DEF End
<1> QED
  BY <1>1, <1>2, <1>3, <1>4 DEF Position

\* A subscription that has received nothing.
LEMMA FreshPosition ==
    ASSUME Init PROVE Len(handled) <= Len(frames) /\ InOrder /\ Position
<1>1. frames \in Streams /\ received = 0 /\ from = 0 /\ ~entry /\ ~looping /\ handled = <<>>
  BY DEF Init
<1>2. Len(frames) \in Nat \ {0} /\ End(1) = frames[1].at + H + frames[1].len
      /\ frames[1].at \in Nat /\ frames[1].len \in Nat /\ H \in Nat /\ H > 0
      /\ \A i \in 1 .. Len(frames) : frames[i].at \in Nat
  BY <1>1, Ends
<1>3. 0 < End(1)
  BY <1>2
<1>4. Len(handled) = 0
  BY <1>1
<1>5. Uncut(received)
  BY <1>1, <1>2 DEF Uncut
<1>6. Cut(Len(handled)) = 0
  BY <1>4 DEF Cut
<1>7. Position
  BY <1>1, <1>3, <1>4, <1>5, <1>6 DEF Position
<1> QED
  BY <1>2, <1>4, <1>7 DEF InOrder

\* A regular chunk leaves the container where it begins and its size right; it is not
\* dropped, since the size of a message counts its header in.
LEMMA ReadyReadStep ==
    ASSUME Ordered, ReadyRead, regular'
    PROVE  handled' = handled /\ Position'
<1> DEFINE h == Len(handled)
<1>1. reply = "running" /\ ~looping /\ frames' = frames
  BY DEF ReadyRead
<1>2. PICK q \in received + 1 .. Total :
        /\ Regular(received, q) /\ received' = q
        /\ \/ /\ entry /\ expectedSize' = expectedSize /\ from' = from /\ looping' = TRUE
              /\ entry' = entry /\ handled' = handled
           \/ /\ ~entry /\ expectedSize' \in ExpectedDataSize(received, q) /\ from' = received
              /\ looping' = TRUE /\ entry' = TRUE /\ handled' = handled
           \/ ~entry /\ 0 \in ExpectedDataSize(received, q)
  BY DEF ReadyRead
<1>3. /\ frames \in Streams /\ H \in Nat /\ H > 0 /\ Total \in Nat
      /\ Len(frames) \in Nat /\ h \in 0 .. Len(frames)
      /\ received \in Nat /\ from = Cut(h)
      /\ entry \/ from = received
      /\ entry => from < received
      /\ from < received => expectedSize = frames[h + 1].len + H
      /\ h < Len(frames) => received < End(h + 1)
      /\ from \in Nat /\ from <= received
  BY <1>1, Running
<1> HIDE DEF h
<1>4. q \in Nat /\ q <= Total /\ received < q /\ Cut(h) < q
  BY <1>2, <1>3
<1>5. Uncut(q)
  BY <1>2 DEF Regular, SplitsHeader, Uncut
<1>6. \A i \in 1 .. Len(frames) : received < frames[i].at => q # frames[i].at + H
  BY <1>2 DEF Regular, EndsBehindHeader
<1>7. h \in 0 .. Len(frames) - 1 /\ q - Cut(h) >= H
  BY <1>3, <1>4, <1>5, HeaderIsThere
<1>8. ExpectedDataSize(Cut(h), q) = {frames[h + 1].len + H}
  BY <1>3, <1>4, <1>7, SizeIsRight
<1>9. /\ frames[h + 1].len \in Nat /\ h + 1 \in 1 .. Len(frames) /\ Cut(h) \in Nat
      /\ frames[h + 1].at = Cut(h)
  BY <1>3, <1>7, NextMessage
<1>10. ~(~entry /\ 0 \in ExpectedDataSize(received, q))
  BY <1>3, <1>8, <1>9
<1>11. /\ from' = Cut(h) /\ expectedSize' = frames[h + 1].len + H /\ expectedSize' >= H
       /\ looping' = TRUE /\ entry' = TRUE /\ handled' = handled
  <2>1. CASE /\ entry /\ expectedSize' = expectedSize /\ from' = from /\ looping' = TRUE
             /\ entry' = entry /\ handled' = handled
    <3>1. entry = TRUE
      BY <2>1 DEF Ordered, SlotInv, TypeOK
    <3>2. expectedSize' = frames[h + 1].len + H
      BY <1>3, <2>1
    <3> QED
      BY <1>3, <1>9, <2>1, <3>1, <3>2
  <2>2. CASE /\ ~entry /\ expectedSize' \in ExpectedDataSize(received, q) /\ from' = received
             /\ looping' = TRUE /\ entry' = TRUE /\ handled' = handled
    <3>1. received = Cut(h)
      BY <1>3, <2>2
    <3>2. expectedSize' = frames[h + 1].len + H
      BY <1>8, <2>2, <3>1
    <3> QED
      BY <1>3, <1>9, <2>2, <3>1, <3>2
  <2> QED
    BY <1>2, <1>10, <2>1, <2>2
<1>12. NotBehind(from', received')
  <2> SUFFICES ASSUME NEW i \in 1 .. Len(frames), from' < frames[i].at
               PROVE  received' # frames[i].at + H
    BY DEF NotBehind
  <2>1. /\ frames[i].at \in Nat /\ End(h + 1) \in Nat
        /\ (h + 1 < i => End(h + 1) <= frames[i].at)
        /\ (i < h + 1 => End(i) <= Cut(h)) /\ End(i) \in Nat /\ frames[i].at <= End(i)
    <3>1. /\ frames[i].at \in Nat /\ frames[i].len \in Nat
          /\ End(i) = frames[i].at + H + frames[i].len
          /\ End(h + 1) \in Nat
          /\ (h + 1 < i => End(h + 1) <= frames[i].at)
          /\ (i < h + 1 => End(i) <= frames[h + 1].at)
      BY <1>3, <1>9, Ends
    <3> QED
      BY <1>3, <1>9, <3>1
  <2>2. h + 1 < i
    BY <1>3, <1>9, <1>11, <2>1
  <2>3. received < frames[i].at
    BY <1>3, <1>7, <2>1, <2>2
  <2> QED
    BY <1>2, <1>6, <2>3
<1>13. Position'
  BY <1>1, <1>2, <1>5, <1>11, <1>12, SamePosition DEF h
<1> QED
  BY <1>11, <1>13

\* A turn of the loop hands over the next message and goes on behind it.
LEMMA LoopStep ==
    ASSUME Ordered, Loop
    PROVE  Len(handled') <= Len(frames) /\ InOrder' /\ Position'
<1> DEFINE h == Len(handled)
           m == [at |-> from + H, len |-> Mid]
<1>1. /\ reply = "running" /\ looping /\ received - from >= expectedSize
      /\ Handle(from + H, Mid)
      /\ from' = from + Removed
      /\ \/ received - from' > H /\ expectedSize' \in ExpectedDataSize(from', received)
         \/ received - from' <= H /\ expectedSize' = expectedSize
      /\ frames' = frames /\ received' = received /\ entry' = entry /\ looping' = looping
  BY DEF Loop, Size
<1>2. handled \in Seq(Handed) /\ InOrder
  BY DEF Ordered, SlotInv, TypeOK, Handed
<1>3. /\ frames \in Streams /\ H \in Nat /\ H > 0 /\ Total \in Nat
      /\ Len(frames) \in Nat /\ h \in 0 .. Len(frames)
      /\ received \in Nat /\ received <= Total /\ from \in Nat /\ from = Cut(h)
      /\ expectedSize \in Int /\ entry
      /\ Uncut(received) /\ NotBehind(from, received)
      /\ from < received => expectedSize = frames[h + 1].len + H
      /\ expectedSize >= H
  BY <1>1, Running
<1> HIDE DEF h
<1>4. Cut(h) < received
  BY <1>1, <1>3
<1>5. h \in 0 .. Len(frames) - 1
  BY <1>3, <1>4, HeaderIsThere
<1>6. /\ h + 1 \in 1 .. Len(frames) /\ h + 1 \in 0 .. Len(frames)
      /\ frames[h + 1].at = Cut(h) /\ Cut(h) \in Nat
      /\ frames[h + 1].len \in Nat
      /\ Cut(h + 1) = Cut(h) + H + frames[h + 1].len
  BY <1>3, <1>5, NextMessage
<1>7. Len(handled) < MaxHandled
  <2>1. MaxFrames \in Nat /\ MaxHandled \in Nat /\ MaxHandled >= MaxFrames
    BY Constants
  <2>2. Len(frames) <= MaxFrames
    BY <1>3, Ends
  <2>3. Len(handled) \in Nat /\ Len(handled) < Len(frames)
    BY <1>3, <1>5 DEF h
  <2> QED
    BY <1>3, <2>1, <2>2, <2>3
<1>8. expectedSize = frames[h + 1].len + H /\ Mid = frames[h + 1].len /\ Removed = expectedSize
  <2>1. expectedSize = frames[h + 1].len + H
    BY <1>3, <1>4
  <2> QED
    BY <1>3, <1>6, <2>1 DEF Mid, Removed
<1>9. Len(handled') = h + 1 /\ handled'[h + 1] = m
      /\ \A i \in 1 .. h : handled'[i] = handled[i]
  <2>1. m \in Handed
    BY <1>3, <1>6, <1>8 DEF Handed
  <2>2. handled' = Append(handled, m)
    BY <1>1, <1>7 DEF Handle
  <2> QED
    BY <1>2, <2>1, <2>2, AppendProperties DEF h
<1>10. from' = Cut(h + 1) /\ from' \in Nat /\ from' <= received /\ from < from'
  <2>1. from' = Cut(h) + (frames[h + 1].len + H)
    BY <1>1, <1>3, <1>8
  <2>2. \A a, b, c \in Nat : a + (b + c) = a + c + b
    OBVIOUS
  <2>3. from' = Cut(h + 1)
    BY <1>3, <1>6, <2>1, <2>2
  <2>4. from' \in Nat /\ from' <= received /\ from < from'
    <3>1. \A a, r, g \in Nat, e \in Int :
            g > 0 /\ e >= g /\ r - a >= e => a + e \in Nat /\ a + e <= r /\ a < a + e
      OBVIOUS
    <3>2. from' = from + expectedSize
      BY <1>1, <1>8
    <3> QED
      BY <1>1, <1>3, <3>1, <3>2
  <2> QED
    BY <2>3, <2>4
<1>11. m = [at |-> frames[h + 1].at + H, len |-> frames[h + 1].len]
  BY <1>3, <1>6, <1>8
<1>12. InOrder'
  <2> SUFFICES ASSUME NEW i \in 1 .. Len(handled')
               PROVE  /\ i <= Len(frames)
                      /\ handled'[i] = [at |-> frames[i].at + H, len |-> frames[i].len]
    BY <1>1 DEF InOrder
  <2>1. CASE i = h + 1
    <3>1. i <= Len(frames)
      BY <1>3, <1>6, <2>1
    <3> QED
      BY <1>9, <1>11, <2>1, <3>1
  <2>2. CASE i # h + 1
    <3>1. i \in 1 .. h
      BY <1>3, <1>9, <2>2
    <3> QED
      BY <1>2, <1>9, <3>1 DEF InOrder, h
  <2> QED
    BY <2>1, <2>2
<1> HIDE DEF m
<1>13. from' < received =>
         /\ expectedSize' = frames[(h + 1) + 1].len + H
         /\ expectedSize' >= H
  <2> SUFFICES ASSUME from' < received
               PROVE  expectedSize' = frames[(h + 1) + 1].len + H /\ expectedSize' >= H
    OBVIOUS
  <2>1. h + 1 \in 0 .. Len(frames) - 1 /\ received - Cut(h + 1) >= H
    BY <1>3, <1>6, <1>10, HeaderIsThere
  <2>2. /\ (h + 1) + 1 \in 1 .. Len(frames) /\ frames[(h + 1) + 1].at = Cut(h + 1)
        /\ frames[(h + 1) + 1].len \in Nat
    BY <1>3, <2>1, NextMessage
  <2>3. received # Cut(h + 1) + H
    BY <1>3, <1>10, <2>2 DEF NotBehind
  <2>4. received - Cut(h + 1) > H
    BY <1>3, <1>10, <2>1, <2>3
  <2>5. expectedSize' \in ExpectedDataSize(Cut(h + 1), received)
    BY <1>1, <1>3, <1>10, <2>4
  <2>6. ExpectedDataSize(Cut(h + 1), received) = {frames[(h + 1) + 1].len + H}
    BY <1>3, <2>1, SizeIsRight
  <2> QED
    BY <1>3, <2>2, <2>5, <2>6
<1>14. expectedSize' >= H
  <2>1. CASE from' < received
    BY <1>13, <2>1
  <2>2. CASE ~(from' < received)
    <3>1. received - from' <= H
      BY <1>3, <1>10, <2>2
    <3> QED
      BY <1>1, <1>3, <1>10, <3>1
  <2> QED
    BY <2>1, <2>2
<1>15. NotBehind(from', received')
  <2>1. \A i \in 1 .. Len(frames) : frames[i].at \in Nat
    BY <1>3, Ends
  <2>2. \A i \in 1 .. Len(frames) : from' < frames[i].at => from < frames[i].at
    BY <1>3, <1>10, <2>1
  <2> QED
    BY <1>1, <1>3, <2>2 DEF NotBehind
<1>16. Position'
  BY <1>1, <1>3, <1>9, <1>10, <1>13, <1>14, <1>15, SamePosition
<1>17. Len(handled') <= Len(frames)
  BY <1>3, <1>6, <1>9
<1> QED
  BY <1>12, <1>16, <1>17

\* When the loop ends, the message at the front is not complete.
LEMMA ReturnStep ==
    ASSUME Ordered, Return
    PROVE  Position'
<1> DEFINE h == Len(handled)
<1>1. /\ looping /\ looping' = FALSE
      /\ reply' = IF reply = "finished" THEN "deleted" ELSE reply
      /\ frames' = frames /\ received' = received /\ expectedSize' = expectedSize
      /\ handled' = handled
  BY DEF Return
<1>2. CASE reply # "running"
  <2>1. reply' # "running"
    BY <1>1, <1>2
  <2> QED
    BY <2>1 DEF Position
<1>3. CASE reply = "running"
  <2>1. /\ received - from < expectedSize
        /\ \/ received - from < H /\ entry' = FALSE /\ from' = received
           \/ received - from >= H /\ entry' = entry /\ from' = from
    BY <1>3 DEF Return, Size
  <2>2. /\ frames \in Streams /\ H \in Nat /\ H > 0 /\ Total \in Nat
        /\ Len(frames) \in Nat /\ h \in 0 .. Len(frames)
        /\ received \in Nat /\ received <= Total /\ from \in Nat /\ from <= received
        /\ from = Cut(h)
        /\ expectedSize \in Int /\ entry
        /\ Uncut(received)
        /\ from < received => expectedSize = frames[h + 1].len + H
        /\ entry => expectedSize >= H
    BY <1>1, <1>3, Running
  <2> HIDE DEF h
  <2>3. from < received => h \in 0 .. Len(frames) - 1 /\ received - from >= H
    BY <2>2, HeaderIsThere
  <2>4. received - from < H => received = from
    BY <2>2, <2>3
  <2>5. from' = Cut(h)
    BY <2>1, <2>2, <2>4
  <2>6. h < Len(frames) => received < End(h + 1)
    <3> SUFFICES ASSUME h < Len(frames) PROVE received < End(h + 1)
      OBVIOUS
    <3>1. h \in 0 .. Len(frames) - 1
      BY <2>2
    <3>2. /\ frames[h + 1].len \in Nat /\ Cut(h) \in Nat
          /\ End(h + 1) = Cut(h) + H + frames[h + 1].len
      BY <2>2, <3>1, NextMessage
    <3>3. CASE received = from
      BY <2>2, <3>2, <3>3
    <3>4. CASE from < received
      <4>1. expectedSize = frames[h + 1].len + H
        BY <2>2, <3>4
      <4> QED
        BY <2>1, <2>2, <3>2, <4>1
    <3> QED
      BY <2>2, <3>3, <3>4
  <2>7. entry' => from' < received'
    <3>1. CASE entry' = FALSE
      BY <3>1
    <3>2. CASE received - from >= H /\ from' = from
      BY <1>1, <2>2, <3>2
    <3> QED
      BY <2>1, <3>1, <3>2
  <2>8. entry' \/ from' = received'
    <3>1. CASE from' = received
      BY <1>1, <3>1
    <3>2. CASE entry' = entry
      BY <2>2, <3>2
    <3> QED
      BY <2>1, <3>1, <3>2
  <2>9. from' < received' => expectedSize' = frames[h + 1].len + H
    <3>1. CASE from' = received
      BY <1>1, <2>2, <3>1
    <3>2. CASE from' = from
      BY <1>1, <2>2, <3>2
    <3> QED
      BY <2>1, <3>1, <3>2
  <2>10. expectedSize' >= H /\ Uncut(received')
    BY <1>1, <2>2
  <2> QED
    BY <1>1, <2>5, <2>6, <2>7, <2>8, <2>9, <2>10, SamePosition DEF h
<1> QED
  BY <1>2, <1>3

\* A new reply starts again.
LEMMA SubscribeStep ==
    ASSUME SlotInv, Subscribe
    PROVE  Len(handled') <= Len(frames') /\ InOrder' /\ Position'
<1>1. frames' \in Streams /\ received' = 0 /\ from' = 0 /\ entry' = FALSE /\ handled' = <<>>
  BY DEF Subscribe
<1>2. looping' = FALSE
  BY DEF Subscribe, SlotInv, TypeOK
<1>3. Len(frames') \in Nat \ {0} /\ frames'[1].at = 0 /\ frames'[1].len \in Nat
      /\ H \in Nat /\ H > 0
  <2>1. /\ Len(frames') \in Nat \ {0} /\ frames'[1].at = 0
        /\ \A i \in 1 .. Len(frames') : frames'[i].len \in Nat
    BY <1>1, Layout
  <2>2. 1 \in 1 .. Len(frames')
    BY <2>1
  <2> QED
    BY <2>1, <2>2, Constants
<1>4. Len(handled') = 0
  BY <1>1
<1>5. Uncut(received)'
  <2>1. \A i \in 1 .. Len(frames') : frames'[i].at \in Nat
    BY <1>1, Layout
  <2> QED
    BY <1>1, <2>1 DEF Uncut
<1>6. Cut(Len(handled))' = 0
  BY <1>4 DEF Cut
<1>7. End(Len(handled) + 1)' > 0
  BY <1>3, <1>4 DEF End
<1>8. Position'
  BY <1>1, <1>2, <1>3, <1>4, <1>5, <1>6, <1>7 DEF Position
<1> QED
  BY <1>3, <1>4, <1>8 DEF InOrder

\* IInv is an invariant: a regular chunk finds the slot in order and leaves it so,
\* and after another one a new subscription starts in order again.
THEOREM Invariance == Spec => []IInv
<1>1. Init => IInv
  BY FreshPosition, SlotInit DEF IInv, Ordered
<1>2. IInv /\ [Next]_vars => IInv'
  <2> SUFFICES ASSUME IInv, [Next]_vars PROVE IInv'
    OBVIOUS
  <2>1. SlotInv /\ SlotInv'
    BY SlotStep DEF IInv
  <2> SUFFICES ASSUME regular' PROVE Ordered'
    BY <2>1 DEF IInv
  <2>2. Subscribe \/ Ordered
    <3>1. CASE Next
      BY <3>1 DEF IInv, Next, ReadyRead, Loop, Return, Abort, FinishReply
    <3>2. CASE UNCHANGED vars
      BY <3>2 DEF IInv, vars
    <3> QED
      BY <3>1, <3>2
  <2>3. ASSUME Ordered, frames' = frames, handled' = handled
        PROVE  Len(handled') <= Len(frames') /\ InOrder'
    BY <2>3 DEF Ordered, InOrder
  <2>4. CASE Ordered /\ ReadyRead
    <3>1. frames' = frames /\ handled' = handled
      BY <2>4, ReadyReadStep DEF ReadyRead
    <3> QED
      BY <2>1, <2>3, <2>4, <3>1, ReadyReadStep DEF Ordered
  <2>5. CASE Ordered /\ Loop
    <3>1. frames' = frames
      BY <2>5 DEF Loop
    <3> QED
      BY <2>1, <2>5, <3>1, LoopStep DEF Ordered
  <2>6. CASE Ordered /\ Return
    <3>1. frames' = frames /\ handled' = handled
      BY <2>6 DEF Return
    <3> QED
      BY <2>1, <2>3, <2>6, <3>1, ReturnStep DEF Ordered
  <2>7. CASE Ordered /\ (Abort \/ FinishReply)
    <3>1. frames' = frames /\ handled' = handled /\ reply' = "deleted"
      BY <2>7 DEF Abort, FinishReply
    <3>2. Position'
      BY <3>1 DEF Position
    <3> QED
      BY <2>1, <2>3, <2>7, <3>1, <3>2 DEF Ordered
  <2>8. CASE Subscribe
    BY <2>1, <2>8, SubscribeStep DEF Ordered
  <2>9. CASE Ordered /\ UNCHANGED vars
    <3>1. UNCHANGED <<frames, received, entry, expectedSize, from, looping, reply, handled>>
      BY <2>9 DEF vars
    <3>2. Position'
      BY <2>9, <3>1, SamePosition DEF Ordered, Position
    <3> QED
      BY <2>1, <2>3, <2>9, <3>1, <3>2 DEF Ordered
  <2> QED
    BY <2>2, <2>4, <2>5, <2>6, <2>7, <2>8, <2>9 DEF Next
<1> QED
  BY <1>1, <1>2, PTL DEF Spec

\* The handler gets received bytes only, and as long as all chunks were regular the
\* messages of the server from the first one on, each once, whole and in order, for any number and
\* length of messages, empty ones included.
THEOREM MessagesInOrder == Spec => []HandlerGetsMessages
<1>1. IInv => HandlerGetsMessages
  BY DEF IInv, SlotInv, Ordered, InOrder, HandlerGetsMessages
<1> QED
  BY <1>1, Invariance, PTL

\* When readyRead has returned and all chunks were regular, no message that is
\* complete waits for more bytes: all of them have been handed over.
THEOREM NothingHeldBack == Spec => []NoMessageHeldBack
<1>1. ASSUME IInv PROVE NoMessageHeldBack
  <2> SUFFICES ASSUME regular, reply = "running", ~looping,
                      NEW i \in 1 .. Len(frames), End(i) <= received, ~(i <= Len(handled))
               PROVE  FALSE
    BY DEF NoMessageHeldBack
  <2> DEFINE h == Len(handled)
  <2>1. /\ frames \in Streams /\ Len(frames) \in Nat /\ h \in 0 .. Len(frames)
        /\ received \in Nat
        /\ h < Len(frames) => received < End(h + 1)
    BY <1>1, Running DEF IInv
  <2>2. h < i
    BY <2>1
  <2> HIDE DEF h
  <2>3. h + 1 \in 1 .. Len(frames) /\ received < End(h + 1)
    BY <2>1, <2>2
  <2>4. H \in Nat /\ frames[i].at \in Nat /\ frames[i].len \in Nat
        /\ End(i) = frames[i].at + H + frames[i].len /\ End(h + 1) \in Nat /\ End(i) \in Nat
        /\ (h + 1 < i => End(h + 1) <= frames[i].at)
    BY <2>1, <2>3, Ends
  <2>5. CASE i = h + 1
    BY <2>3, <2>4, <2>5, <2>1
  <2>6. CASE h + 1 < i
    <3>1. frames[i].at <= End(i)
      BY <2>4
    <3> QED
      BY <2>1, <2>3, <2>4, <2>6, <3>1
  <2> QED
    BY <2>1, <2>2, <2>5, <2>6
<1> QED
  BY <1>1, Invariance, PTL
=============================================================================
