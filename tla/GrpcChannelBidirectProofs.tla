---------------------- MODULE GrpcChannelBidirectProofs ----------------------
(***************************************************************************)
(* Proofs about GrpcChannelBidirect, for any number of messages and        *)
(* writes: the writes reach gRPC one at a time in the order of the calls;  *)
(* and as long as the user has not called writeDone(), the object is       *)
(* deleted when nothing refers to it any more, and a write that waits for  *)
(* its answer has a handler ahead of it that gives one.                    *)
(***************************************************************************)
EXTENDS GrpcChannelBidirect, SequenceTheorems, FiniteSetTheorems, TLAPS

Event == [tag : Tags, ok : BOOLEAN]
Entry == [replay : Replays, done : BOOLEAN]
Statuses == {"NotConnected", "InProcess", "OK", "Failed"}

TypeOK ==
    /\ ops \in SUBSET Tags
    /\ posted \in Seq(Event)
    /\ m_refCount \in Int
    /\ alive \in BOOLEAN /\ shared \in BOOLEAN /\ connected \in BOOLEAN
    /\ m_sendQueue \in Seq(Entry)
    /\ m_inProcess \in BOOLEAN
    /\ m_currentWriteReplay \in {0} \cup Replays
    /\ asked \in 0 .. MaxWrites
    /\ closing \in BOOLEAN
    /\ status \in [Replays -> Statuses]
    /\ wire \in Seq(Replays)

\* The writes started and then the writes queued are in the order of the calls.
\* Nothing is queued when no write is in progress: appendToSend may start the
\* next one then.
Ordered ==
    /\ \A i, j \in 1 .. Len(wire) : i < j => wire[i] < wire[j]
    /\ \A i, j \in 1 .. Len(m_sendQueue) :
         i < j => m_sendQueue[i].replay < m_sendQueue[j].replay
    /\ \A i \in 1 .. Len(wire), j \in 1 .. Len(m_sendQueue) : wire[i] < m_sendQueue[j].replay
    /\ \A i \in 1 .. Len(wire) : wire[i] <= asked
    /\ \A j \in 1 .. Len(m_sendQueue) : m_sendQueue[j].replay <= asked
    /\ m_inProcess \/ m_sendQueue = <<>>

\* At most one operation of the tags T is under way, in gRPC or in the event
\* loop; none is.
Alone(T) ==
    /\ \A a, b \in T \cap ops : a = b
    /\ \A i \in 1 .. Len(posted) : posted[i].tag \in T =>
         /\ T \cap ops = {}
         /\ \A j \in 1 .. Len(posted) : posted[j].tag \in T => j = i
Idle(T) ==
    /\ T \cap ops = {}
    /\ \A i \in 1 .. Len(posted) : posted[i].tag \notin T

\* The operations that newData answers.
Reader == {"start", "read"}

\* The object is counted right, and gone only when nobody needs it.
Counted ==
    /\ m_refCount = Holders
    /\ alive <=> m_refCount # 0

\* A Read is started by the handler of the one before it; a Write by that of the
\* one before it, by the first newData, or by write() when none is in progress.
\* Without this an operation could be started that ops already has, and the
\* count would run ahead.
OneAtATime ==
    /\ Alone(Reader) /\ Alone({"write"})
    /\ ~m_inProcess => Idle({"write"})
    /\ m_readerState = "FIRST_CALL" =>
         Idle({"write"}) /\ m_inProcess /\ m_currentWriteReplay = 0

\* A write that is started belongs to a replay, since no WritesDone is queued.
Current ==
    /\ \A i \in 1 .. Len(m_sendQueue) : ~m_sendQueue[i].done
    /\ ~Idle({"write"}) => m_currentWriteReplay # 0

\* finishRead is ahead for every replay that is not answered, and knows it.
Answerable ==
    \A r \in Replays : status[r] = "InProcess" => r \in Waiting /\ ~Idle({"finish"})

\* What holds until the user calls writeDone().
Open ==
    /\ Counted
    /\ connected <=> shared
    /\ OneAtATime
    /\ Current
    /\ Answerable
    /\ connected => ~Idle({"finish"})

\* The inductive invariant.
IInv == TypeOK /\ Ordered /\ (~closing => Open)

-----------------------------------------------------------------------------
(* Operations and events. *)

\* Operations are finitely many.
LEMMA OperationsFinite ==
    ASSUME NEW S \in SUBSET Tags
    PROVE  IsFiniteSet(S) /\ Cardinality(S) \in Nat /\ (Cardinality(S) = 0 <=> S = {})
<1>1. IsFiniteSet({"start", "read"}) /\ IsFiniteSet({"finish", "write"})
  <2>1. IsFiniteSet({"start"} \cup {"read"}) /\ IsFiniteSet({"finish"} \cup {"write"})
    BY FS_Singleton, FS_AddElement
  <2>2. {"start", "read"} = {"start"} \cup {"read"}
        /\ {"finish", "write"} = {"finish"} \cup {"write"}
    OBVIOUS
  <2> QED
    BY <2>1, <2>2
<1>2. Tags = {"start", "read"} \cup {"finish", "write"}
  BY DEF Tags
<1>3. IsFiniteSet(Tags)
  BY <1>1, <1>2, FS_Union
<1>4. IsFiniteSet(S)
  BY <1>3, FS_Subset
<1> QED
  BY <1>4, FS_CardinalityType, FS_EmptySet

\* What the event loop takes from the posted events.
LEMMA DispatchTakes ==
    ASSUME posted \in Seq(Event), NEW t, NEW ok, Dispatch(t, ok)
    PROVE  /\ alive
           /\ posted[1].tag = t
           /\ posted' \in Seq(Event)
           /\ Len(posted) \in Nat \ {0}
           /\ Len(posted') = Len(posted) - 1
           /\ \A i \in 1 .. Len(posted') : posted'[i] = posted[i + 1]
<1>1. posted # <<>> /\ Head(posted) = [tag |-> t, ok |-> ok] /\ posted' = Tail(posted) /\ alive
  BY DEF Dispatch
<1>2. Head(posted).tag = t
  BY <1>1
<1>3. /\ Tail(posted) \in Seq(Event)
      /\ Len(Tail(posted)) = Len(posted) - 1
      /\ \A i \in 1 .. Len(Tail(posted)) : Tail(posted)[i] = posted[i + 1]
  BY <1>1, HeadTailProperties
<1>4. Len(posted) \in Nat \ {0}
  BY <1>1, EmptySeq
<1>5. Head(posted) = posted[1]
  BY <1>1, <1>4
<1> QED
  BY <1>1, <1>2, <1>3, <1>4, <1>5

\* A handler of an operation of T leaves none, but for the one it starts.
LEMMA DispatchAlone ==
    ASSUME posted \in Seq(Event), NEW t, NEW ok, Dispatch(t, ok),
           NEW T, Alone(T), NEW new, ops' = ops \cup new,
           \/ T \cap new = {}
           \/ t \in T /\ \A a, b \in T \cap new : a = b
    PROVE  /\ Alone(T)'
           /\ t \in T => T \cap ops = {}
           /\ t \in T /\ T \cap new = {} => Idle(T)'
<1>1. /\ posted[1].tag = t
      /\ Len(posted) \in Nat \ {0}
      /\ Len(posted') = Len(posted) - 1
      /\ \A i \in 1 .. Len(posted') : posted'[i] = posted[i + 1]
  BY DispatchTakes
<1>2. \A i \in 1 .. Len(posted') : i + 1 \in 1 .. Len(posted) /\ i + 1 # 1 /\ i \in Int
  BY <1>1
<1>3. 1 \in 1 .. Len(posted)
  BY <1>1
<1>4. CASE t \in T
  <2>1. T \cap ops = {} /\ \A j \in 1 .. Len(posted) : posted[j].tag \in T => j = 1
    BY <1>1, <1>3, <1>4 DEF Alone
  <2>2. \A i \in 1 .. Len(posted') : posted'[i].tag \notin T
    BY <1>1, <1>2, <2>1
  <2>3. T \cap ops' = T \cap new
    BY <2>1
  <2> QED
    BY <2>1, <2>2, <2>3 DEF Alone, Idle
<1>5. CASE t \notin T
  <2>1. T \cap ops' = T \cap ops
    BY <1>5
  <2>2. ASSUME NEW i \in 1 .. Len(posted'), posted'[i].tag \in T
        PROVE  T \cap ops' = {} /\ \A j \in 1 .. Len(posted') : posted'[j].tag \in T => j = i
    <3>1. posted[i + 1].tag \in T /\ i + 1 \in 1 .. Len(posted)
      BY <1>1, <1>2, <2>2
    <3>2. T \cap ops = {} /\ \A j \in 1 .. Len(posted) : posted[j].tag \in T => j = i + 1
      BY <3>1 DEF Alone
    <3>3. \A j \in 1 .. Len(posted') : posted'[j].tag \in T => j + 1 = i + 1
      BY <1>1, <1>2, <3>2
    <3> QED
      BY <1>2, <2>1, <3>2, <3>3
  <2>3. \A a, b \in T \cap ops' : a = b
    BY <2>1 DEF Alone
  <2> QED
    BY <1>5, <2>2, <2>3 DEF Alone
<1> QED
  BY <1>4, <1>5

\* A handler that starts no operation of T leaves none where there was none; and
\* it leaves one where there was one, if that is not its own.
LEMMA DispatchIdle ==
    ASSUME posted \in Seq(Event), NEW t, NEW ok, Dispatch(t, ok),
           NEW T, NEW new, ops' = ops \cup new
    PROVE  /\ Idle(T) /\ T \cap new = {} => Idle(T)'
           /\ ~Idle(T) /\ t \notin T => ~Idle(T)'
<1>1. /\ posted[1].tag = t
      /\ Len(posted) \in Nat \ {0}
      /\ Len(posted') = Len(posted) - 1
      /\ \A i \in 1 .. Len(posted') : posted'[i] = posted[i + 1]
  BY DispatchTakes
<1>2. \A i \in 1 .. Len(posted') : i + 1 \in 1 .. Len(posted)
  BY <1>1
<1>3. ASSUME Idle(T), T \cap new = {} PROVE Idle(T)'
  BY <1>1, <1>2, <1>3 DEF Idle
<1>4. ASSUME ~Idle(T), t \notin T PROVE ~Idle(T)'
  <2>1. CASE T \cap ops # {}
    BY <2>1 DEF Idle
  <2>2. ASSUME NEW i \in 1 .. Len(posted), posted[i].tag \in T PROVE ~Idle(T)'
    <3>1. i # 1
      BY <1>1, <1>4, <2>2
    <3>2. i - 1 \in 1 .. Len(posted') /\ (i - 1) + 1 = i
      BY <1>1, <3>1
    <3>3. posted'[i - 1] = posted[i]
      BY <1>1, <3>2
    <3> QED
      BY <2>2, <3>2, <3>3 DEF Idle
  <2> QED
    BY <1>4, <2>1, <2>2 DEF Idle
<1> QED
  BY <1>3, <1>4

\* The worker moves an operation from gRPC to the event loop.
LEMMA PostMoves ==
    ASSUME posted \in Seq(Event), ops \in SUBSET Tags, NEW t, NEW ok \in BOOLEAN, Post(t, ok)
    PROVE  /\ t \in ops /\ ops' = ops \ {t}
           /\ posted' \in Seq(Event)
           /\ Len(posted) \in Nat /\ Len(posted') = Len(posted) + 1
           /\ \A i \in 1 .. Len(posted) : posted'[i] = posted[i]
           /\ posted'[Len(posted) + 1].tag = t
<1> DEFINE e == [tag |-> t, ok |-> ok]
<1>1. t \in ops /\ ops' = ops \ {t} /\ posted' = Append(posted, e)
  BY DEF Post
<1>2. e \in Event /\ e.tag = t
  BY <1>1 DEF Event
<1> HIDE DEF e
<1>3. Len(posted) \in Nat
  BY LenProperties
<1> QED
  BY <1>1, <1>2, <1>3, AppendProperties

LEMMA PostAlone ==
    ASSUME posted \in Seq(Event), ops \in SUBSET Tags, NEW t, NEW ok \in BOOLEAN, Post(t, ok),
           NEW T
    PROVE  /\ Alone(T) => Alone(T)'
           /\ Idle(T)' <=> Idle(T)
<1>1. /\ t \in ops /\ ops' = ops \ {t}
      /\ Len(posted) \in Nat /\ Len(posted') = Len(posted) + 1
      /\ \A i \in 1 .. Len(posted) : posted'[i] = posted[i]
      /\ posted'[Len(posted) + 1].tag = t
  BY PostMoves
<1>2. /\ \A i \in 1 .. Len(posted') : i \in 1 .. Len(posted) \/ i = Len(posted) + 1
      /\ \A i \in 1 .. Len(posted) : i \in 1 .. Len(posted')
      /\ Len(posted) + 1 \in 1 .. Len(posted')
  BY <1>1
<1>3. ASSUME Alone(T) PROVE Alone(T)'
  <2>1. CASE t \in T
    <3>1. T \cap ops' = {} /\ \A i \in 1 .. Len(posted) : posted[i].tag \notin T
      BY <1>1, <1>3, <2>1 DEF Alone
    <3>2. \A i \in 1 .. Len(posted') : posted'[i].tag \in T => i = Len(posted) + 1
      BY <1>1, <1>2, <3>1
    <3> QED
      BY <3>1, <3>2 DEF Alone
  <2>2. CASE t \notin T
    <3>1. T \cap ops' = T \cap ops
      BY <1>1, <2>2
    <3>2. \A i \in 1 .. Len(posted') : posted'[i].tag \in T =>
            i \in 1 .. Len(posted) /\ posted[i].tag \in T
      BY <1>1, <1>2, <2>2
    <3> QED
      BY <1>3, <3>1, <3>2 DEF Alone
  <2> QED
    BY <2>1, <2>2
<1>4. CASE t \in T
  <2>1. ~Idle(T)
    BY <1>1, <1>4 DEF Idle
  <2>2. ~Idle(T)'
    BY <1>1, <1>2, <1>4 DEF Idle
  <2> QED
    BY <1>3, <2>1, <2>2
<1>5. CASE t \notin T
  <2>1. T \cap ops' = T \cap ops
    BY <1>1, <1>5
  <2>2. ASSUME Idle(T) PROVE Idle(T)'
    BY <1>1, <1>2, <1>5, <2>1, <2>2 DEF Idle
  <2>3. ASSUME Idle(T)' PROVE Idle(T)
    <3>1. T \cap ops = {}
      BY <2>1, <2>3 DEF Idle
    <3>2. ASSUME NEW i \in 1 .. Len(posted) PROVE posted[i].tag \notin T
      BY <1>1, <1>2, <2>3 DEF Idle
    <3> QED
      BY <3>1, <3>2 DEF Idle
  <2> QED
    BY <1>3, <2>2, <2>3
<1> QED
  BY <1>3, <1>4, <1>5

\* An operation that is started outside a handler, of a kind of which none is
\* under way.
LEMMA StartAlone ==
    ASSUME NEW t, ops' = ops \cup {t}, posted' = posted, NEW T, Alone(T),
           t \in T => Idle(T)
    PROVE  /\ Alone(T)'
           /\ t \in T => ~Idle(T)'
           /\ t \notin T => (Idle(T)' <=> Idle(T))
<1>1. CASE t \in T
  <2>1. T \cap ops' = {t} /\ \A i \in 1 .. Len(posted) : posted[i].tag \notin T
    BY <1>1 DEF Idle
  <2> QED
    BY <1>1, <2>1 DEF Alone, Idle
<1>2. CASE t \notin T
  <2>1. T \cap ops' = T \cap ops
    BY <1>2
  <2> QED
    BY <1>2, <2>1 DEF Alone, Idle
<1> QED
  BY <1>1, <1>2

-----------------------------------------------------------------------------
(* Counting. *)

\* The sum that m_refCount stands for.
LEMMA HoldersSum ==
    ASSUME ops \in SUBSET Tags, posted \in Seq(Event)
    PROVE  /\ Cardinality(ops) \in Nat /\ Len(posted) \in Nat
           /\ shared => Holders = Cardinality(ops) + Len(posted) + 1
           /\ ~shared => Holders = Cardinality(ops) + Len(posted)
           /\ Holders \in Nat
           /\ Holders = 0 <=> ops = {} /\ posted = <<>> /\ ~shared
<1>1. Cardinality(ops) \in Nat /\ (Cardinality(ops) = 0 <=> ops = {})
  BY OperationsFinite
<1>2. Len(posted) \in Nat /\ (Len(posted) = 0 <=> posted = <<>>)
  BY LenProperties, EmptySeq
<1>3. CASE shared
  <2>1. Holders = Cardinality(ops) + Len(posted) + 1
    BY <1>3 DEF Holders
  <2> QED
    BY <1>1, <1>2, <1>3, <2>1
<1>4. CASE ~shared
  <2>1. Holders = Cardinality(ops) + Len(posted) + 0
    BY <1>4 DEF Holders
  <2> QED
    BY <1>1, <1>2, <1>4, <2>1
<1> QED
  BY <1>3, <1>4

\* A handler that starts operations that are not under way, and lets go of the
\* connections or not, leaves the count right.
LEMMA HandlerCounts ==
    ASSUME ops \in SUBSET Tags, posted \in Seq(Event), m_refCount \in Int, shared \in BOOLEAN,
           NEW t, NEW ok, Dispatch(t, ok),
           NEW new \in SUBSET Tags, NEW released \in BOOLEAN, Refs(new, released)
    PROVE  /\ ops' \in SUBSET Tags /\ posted' \in Seq(Event) /\ m_refCount' \in Int
           /\ alive' \in BOOLEAN /\ shared' \in BOOLEAN
           /\ ops' = ops \cup new
           /\ shared' <=> (shared /\ ~released)
           /\ Counted /\ new \cap ops = {} => Counted'
<1>1. /\ ops' = ops \cup new /\ shared' = (shared /\ ~released)
      /\ m_refCount' = m_refCount + Cardinality(new) - (IF shared /\ released THEN 1 ELSE 0) - 1
      /\ alive' = (alive /\ m_refCount' # 0)
  BY DEF Refs
<1>2. ops' \in SUBSET Tags /\ shared' \in BOOLEAN /\ alive' \in BOOLEAN
  BY <1>1
<1>3. shared' <=> (shared /\ ~released)
  BY <1>1
<1>4. alive /\ posted' \in Seq(Event) /\ Len(posted) \in Nat \ {0} /\ Len(posted') = Len(posted) - 1
  BY DispatchTakes
<1>5. Cardinality(new) \in Nat /\ Cardinality(ops) \in Nat
  BY OperationsFinite
<1>6. m_refCount' \in Int
  <2>1. CASE shared /\ released
    BY <1>1, <1>5, <2>1
  <2>2. CASE ~(shared /\ released)
    BY <1>1, <1>5, <2>2
  <2> QED
    BY <2>1, <2>2
<1>7. ASSUME Counted, new \cap ops = {} PROVE Counted'
  <2>1. Cardinality(ops') = Cardinality(ops) + Cardinality(new)
    <3>1. /\ IsFiniteSet(ops) /\ IsFiniteSet(new) /\ Cardinality({}) = 0
          /\ ops \cap new = {}
      BY <1>7, OperationsFinite, FS_EmptySet
    <3>2. Cardinality(ops \cup new) = Cardinality(ops) + Cardinality(new) - Cardinality(ops \cap new)
      BY <3>1, FS_Union
    <3>3. Cardinality(ops \cap new) = 0
      BY <3>1
    <3>4. Cardinality(ops \cup new) = Cardinality(ops')
      BY <1>1, Zenon
    <3> QED
      BY <1>5, <3>2, <3>3, <3>4
  <2>2. m_refCount = Holders
    BY <1>7 DEF Counted
  <2>3. /\ shared => Holders = Cardinality(ops) + Len(posted) + 1
        /\ ~shared => Holders = Cardinality(ops) + Len(posted)
    BY HoldersSum
  <2>4. /\ shared' => Holders' = Cardinality(ops') + Len(posted') + 1
        /\ ~shared' => Holders' = Cardinality(ops') + Len(posted') + 0
    BY DEF Holders
  <2>5. m_refCount' = Holders'
    <3>1. CASE shared /\ released
      <4>1. m_refCount' = m_refCount + Cardinality(new) - 1 - 1 /\ ~shared'
        BY <1>1, <1>3, <3>1
      <4> QED
        BY <1>4, <1>5, <2>1, <2>2, <2>3, <2>4, <3>1, <4>1
    <3>2. CASE shared /\ ~released
      <4>1. m_refCount' = m_refCount + Cardinality(new) - 0 - 1 /\ shared'
        BY <1>1, <1>3, <3>2
      <4> QED
        BY <1>4, <1>5, <2>1, <2>2, <2>3, <2>4, <3>2, <4>1
    <3>3. CASE ~shared
      <4>1. m_refCount' = m_refCount + Cardinality(new) - 0 - 1 /\ ~shared'
        BY <1>1, <1>3, <3>3
      <4> QED
        BY <1>4, <1>5, <2>1, <2>2, <2>3, <2>4, <3>3, <4>1
    <3> QED
      BY <3>1, <3>2, <3>3
  <2>6. alive' <=> m_refCount' # 0
    BY <1>1, <1>4
  <2> QED
    BY <2>5, <2>6 DEF Counted
<1> QED
  BY <1>1, <1>2, <1>3, <1>4, <1>6, <1>7
-----------------------------------------------------------------------------
(* The queue. *)

\* Writes have natural numbers, and the queue holds entries.
LEMMA QueueElements ==
    ASSUME TypeOK
    PROVE  /\ Len(wire) \in Nat /\ Len(m_sendQueue) \in Nat
           /\ \A i \in 1 .. Len(wire) : wire[i] \in Nat /\ wire[i] \in Replays
           /\ \A i \in 1 .. Len(m_sendQueue) :
                /\ m_sendQueue[i] \in Entry
                /\ m_sendQueue[i].replay \in Nat /\ m_sendQueue[i].replay \in Replays
           /\ asked \in Nat /\ MaxWrites \in Nat
<1>1. MaxWrites \in Nat /\ asked \in Nat /\ Replays \subseteq Nat
  BY MaxWritesAssumption DEF TypeOK, Replays
<1>2. Len(wire) \in Nat /\ \A i \in 1 .. Len(wire) : wire[i] \in Replays
  BY LenProperties, ElementOfSeq DEF TypeOK
<1>3. Len(m_sendQueue) \in Nat /\ \A i \in 1 .. Len(m_sendQueue) : m_sendQueue[i] \in Entry
  BY LenProperties, ElementOfSeq DEF TypeOK
<1>4. \A e \in Entry : e.replay \in Replays
  BY DEF Entry
<1> QED
  BY <1>1, <1>2, <1>3, <1>4

\* dequeueWrite with nothing to do.
LEMMA DequeueNothing ==
    ASSUME TypeOK, DequeueWrite(m_sendQueue), m_sendQueue = <<>>
    PROVE  /\ ~m_inProcess' /\ m_inProcess' \in BOOLEAN
           /\ m_sendQueue' = m_sendQueue /\ wire' = wire
           /\ m_currentWriteReplay' = m_currentWriteReplay
           /\ DequeueOps(m_sendQueue) = {}
BY DEF DequeueWrite, DequeueOps

\* dequeueWrite starts the first entry of the queue.
LEMMA DequeueFirst ==
    ASSUME TypeOK, DequeueWrite(m_sendQueue), m_sendQueue # <<>>
    PROVE  /\ m_inProcess' /\ m_inProcess' \in BOOLEAN
           /\ Len(m_sendQueue) \in Nat \ {0} /\ 1 \in 1 .. Len(m_sendQueue)
           /\ m_sendQueue' \in Seq(Entry)
           /\ Len(m_sendQueue') = Len(m_sendQueue) - 1
           /\ \A i \in 1 .. Len(m_sendQueue') : m_sendQueue'[i] = m_sendQueue[i + 1]
           /\ wire' = Append(wire, m_sendQueue[1].replay)
           /\ m_sendQueue[1].done => m_currentWriteReplay' = m_currentWriteReplay
           /\ ~m_sendQueue[1].done => m_currentWriteReplay' = m_sendQueue[1].replay
           /\ DequeueOps(m_sendQueue) = {"write"}
<1>1. m_sendQueue \in Seq(Entry)
  BY DEF TypeOK
<1>2. Len(m_sendQueue) \in Nat \ {0}
  BY <1>1, EmptySeq
<1>3. Head(m_sendQueue) = m_sendQueue[1]
  BY <1>1, <1>2
<1>4. /\ Tail(m_sendQueue) \in Seq(Entry)
      /\ Len(Tail(m_sendQueue)) = Len(m_sendQueue) - 1
      /\ \A i \in 1 .. Len(Tail(m_sendQueue)) : Tail(m_sendQueue)[i] = m_sendQueue[i + 1]
  BY <1>1, HeadTailProperties
<1>5. /\ m_inProcess' = TRUE
      /\ m_sendQueue' = Tail(m_sendQueue)
      /\ wire' = Append(wire, m_sendQueue[1].replay)
      /\ m_currentWriteReplay' =
           IF m_sendQueue[1].done THEN m_currentWriteReplay ELSE m_sendQueue[1].replay
  BY <1>3 DEF DequeueWrite
<1>6. DequeueOps(m_sendQueue) = {"write"}
  BY DEF DequeueOps
<1> QED
  BY <1>2, <1>4, <1>5, <1>6

LEMMA DequeueOrdered ==
    ASSUME TypeOK, Ordered, DequeueWrite(m_sendQueue), asked' = asked
    PROVE  /\ Ordered' /\ m_inProcess' \in BOOLEAN
           /\ m_sendQueue' \in Seq(Entry) /\ wire' \in Seq(Replays)
           /\ m_currentWriteReplay' \in {0} \cup Replays
<1>1. CASE m_sendQueue = <<>>
  <2>1. /\ m_inProcess' \in BOOLEAN
        /\ m_sendQueue' = m_sendQueue /\ wire' = wire
        /\ m_currentWriteReplay' = m_currentWriteReplay
    BY <1>1, DequeueNothing
  <2> QED
    BY <1>1, <2>1 DEF Ordered, TypeOK
<1>2. CASE m_sendQueue # <<>>
  <2>1. /\ m_inProcess' /\ m_inProcess' \in BOOLEAN
        /\ Len(m_sendQueue) \in Nat \ {0} /\ 1 \in 1 .. Len(m_sendQueue)
        /\ m_sendQueue' \in Seq(Entry)
        /\ Len(m_sendQueue') = Len(m_sendQueue) - 1
        /\ \A i \in 1 .. Len(m_sendQueue') : m_sendQueue'[i] = m_sendQueue[i + 1]
        /\ wire' = Append(wire, m_sendQueue[1].replay)
        /\ m_sendQueue[1].done => m_currentWriteReplay' = m_currentWriteReplay
        /\ ~m_sendQueue[1].done => m_currentWriteReplay' = m_sendQueue[1].replay
    BY <1>2, DequeueFirst
  <2>2. /\ Len(wire) \in Nat /\ asked \in Nat
        /\ \A i \in 1 .. Len(wire) : wire[i] \in Nat
        /\ \A i \in 1 .. Len(m_sendQueue) :
             m_sendQueue[i].replay \in Nat /\ m_sendQueue[i].replay \in Replays
    BY QueueElements
  <2>3. /\ wire' \in Seq(Replays)
        /\ Len(wire') = Len(wire) + 1
        /\ \A i \in 1 .. Len(wire) : wire'[i] = wire[i]
        /\ wire'[Len(wire) + 1] = m_sendQueue[1].replay
    BY <2>1, <2>2, AppendProperties DEF TypeOK
  <2>4. \A i \in 1 .. Len(wire') : i \in 1 .. Len(wire) \/ i = Len(wire) + 1
    BY <2>2, <2>3
  <2>5. \A j \in 1 .. Len(m_sendQueue') : j + 1 \in 1 .. Len(m_sendQueue) /\ 1 < j + 1 /\ j \in Int
    BY <2>1
  <2>6. \A i \in 1 .. Len(wire') : wire'[i] <= asked
    BY <2>1, <2>3, <2>4 DEF Ordered
  <2>7. \A j \in 1 .. Len(m_sendQueue') : m_sendQueue'[j].replay <= asked
    BY <2>1, <2>5 DEF Ordered
  <2>8. ASSUME NEW i \in 1 .. Len(wire'), NEW j \in 1 .. Len(wire'), i < j
        PROVE  wire'[i] < wire'[j]
    <3>1. i \in 1 .. Len(wire)
      BY <2>2, <2>4, <2>8, <2>3
    <3>2. CASE j \in 1 .. Len(wire)
      BY <2>3, <2>8, <3>1, <3>2 DEF Ordered
    <3>3. CASE j = Len(wire) + 1
      BY <2>1, <2>3, <3>1, <3>3 DEF Ordered
    <3> QED
      BY <2>4, <3>2, <3>3
  <2>9. ASSUME NEW i \in 1 .. Len(m_sendQueue'), NEW j \in 1 .. Len(m_sendQueue'), i < j
        PROVE  m_sendQueue'[i].replay < m_sendQueue'[j].replay
    <3>1. i + 1 \in 1 .. Len(m_sendQueue) /\ j + 1 \in 1 .. Len(m_sendQueue) /\ i + 1 < j + 1
      BY <2>5, <2>9
    <3>2. m_sendQueue[i + 1].replay < m_sendQueue[j + 1].replay
      BY <3>1 DEF Ordered
    <3> QED
      BY <2>1, <3>2
  <2>10. ASSUME NEW i \in 1 .. Len(wire'), NEW j \in 1 .. Len(m_sendQueue')
         PROVE  wire'[i] < m_sendQueue'[j].replay
    <3>1. j + 1 \in 1 .. Len(m_sendQueue) /\ 1 < j + 1 /\ m_sendQueue'[j] = m_sendQueue[j + 1]
      BY <2>1, <2>5
    <3>2. CASE i \in 1 .. Len(wire)
      BY <2>3, <3>1, <3>2 DEF Ordered
    <3>3. CASE i = Len(wire) + 1
      <4>1. m_sendQueue[1].replay < m_sendQueue[j + 1].replay
        BY <2>1, <3>1 DEF Ordered
      <4> QED
        BY <2>3, <3>1, <3>3, <4>1
    <3> QED
      BY <2>4, <3>2, <3>3
  <2>11. m_currentWriteReplay' \in {0} \cup Replays
    BY <2>1, <2>2 DEF TypeOK
  <2>12. Ordered'
    BY <2>1, <2>6, <2>7, <2>8, <2>9, <2>10 DEF Ordered
  <2> QED
    BY <2>1, <2>3, <2>11, <2>12
<1> QED
  BY <1>1, <1>2

\* A call that queues its entry behind the others.
LEMMA QueuedOrdered ==
    ASSUME TypeOK, Ordered, asked < MaxWrites, asked' = asked + 1, NEW d \in BOOLEAN,
           m_sendQueue' = Append(m_sendQueue, [replay |-> asked + 1, done |-> d]),
           m_inProcess, UNCHANGED <<wire, m_inProcess>>
    PROVE  /\ Ordered' /\ m_sendQueue' \in Seq(Entry)
           /\ asked + 1 \in Replays
           /\ Len(m_sendQueue') = Len(m_sendQueue) + 1 /\ Len(m_sendQueue) \in Nat
           /\ \A i \in 1 .. Len(m_sendQueue) : m_sendQueue'[i] = m_sendQueue[i]
           /\ m_sendQueue'[Len(m_sendQueue) + 1].replay = asked + 1
           /\ m_sendQueue'[Len(m_sendQueue) + 1].done = d
<1> DEFINE e == [replay |-> asked + 1, done |-> d]
<1>1. /\ Len(wire) \in Nat /\ Len(m_sendQueue) \in Nat /\ asked \in Nat /\ MaxWrites \in Nat
      /\ \A i \in 1 .. Len(wire) : wire[i] \in Nat
      /\ \A i \in 1 .. Len(m_sendQueue) : m_sendQueue[i].replay \in Nat
  BY QueueElements
<1>2. asked + 1 \in Replays
  BY <1>1 DEF Replays
<1>3. e \in Entry /\ e.replay = asked + 1 /\ e.done = d
  BY <1>2 DEF Entry
<1>4. m_sendQueue' = Append(m_sendQueue, e)
  OBVIOUS
<1> HIDE DEF e
<1>5. /\ m_sendQueue' \in Seq(Entry)
      /\ Len(m_sendQueue') = Len(m_sendQueue) + 1
      /\ \A i \in 1 .. Len(m_sendQueue) : m_sendQueue'[i] = m_sendQueue[i]
      /\ m_sendQueue'[Len(m_sendQueue) + 1] = e
  BY <1>3, <1>4, AppendProperties DEF TypeOK
<1>6. \A i \in 1 .. Len(m_sendQueue') : i \in 1 .. Len(m_sendQueue) \/ i = Len(m_sendQueue) + 1
  BY <1>1, <1>5
<1>7. \A i \in 1 .. Len(wire) : wire[i] < asked + 1
  BY <1>1 DEF Ordered
<1>8. \A i \in 1 .. Len(m_sendQueue) : m_sendQueue[i].replay < asked + 1
  BY <1>1 DEF Ordered
<1>9. ASSUME NEW i \in 1 .. Len(m_sendQueue'), NEW j \in 1 .. Len(m_sendQueue'), i < j
      PROVE  m_sendQueue'[i].replay < m_sendQueue'[j].replay
  <2>1. i \in 1 .. Len(m_sendQueue)
    BY <1>1, <1>5, <1>6, <1>9
  <2>2. CASE j \in 1 .. Len(m_sendQueue)
    BY <1>5, <1>9, <2>1, <2>2 DEF Ordered
  <2>3. CASE j = Len(m_sendQueue) + 1
    BY <1>3, <1>5, <1>8, <2>1, <2>3
  <2> QED
    BY <1>6, <2>2, <2>3
<1>10. ASSUME NEW i \in 1 .. Len(wire), NEW j \in 1 .. Len(m_sendQueue')
       PROVE  wire[i] < m_sendQueue'[j].replay
  <2>1. CASE j \in 1 .. Len(m_sendQueue)
    BY <1>5, <2>1 DEF Ordered
  <2>2. CASE j = Len(m_sendQueue) + 1
    BY <1>3, <1>5, <1>7, <2>2
  <2> QED
    BY <1>6, <2>1, <2>2
<1>11. \A j \in 1 .. Len(m_sendQueue') : m_sendQueue'[j].replay <= asked + 1
  BY <1>1, <1>3, <1>5, <1>6, <1>8
<1>12. \A i \in 1 .. Len(wire) : wire[i] <= asked + 1
  BY <1>1, <1>7
<1>13. Ordered'
  BY <1>9, <1>10, <1>11, <1>12 DEF Ordered
<1> QED
  BY <1>1, <1>2, <1>3, <1>5, <1>13

\* A call that starts its operation at once, because nothing is in progress.
LEMMA StartedOrdered ==
    ASSUME TypeOK, Ordered, asked < MaxWrites, asked' = asked + 1,
           wire' = Append(wire, asked + 1), ~m_inProcess, UNCHANGED m_sendQueue
    PROVE  Ordered' /\ wire' \in Seq(Replays) /\ asked + 1 \in Replays /\ m_sendQueue = <<>>
<1>1. /\ Len(wire) \in Nat /\ asked \in Nat /\ MaxWrites \in Nat
      /\ \A i \in 1 .. Len(wire) : wire[i] \in Nat
  BY QueueElements
<1>2. asked + 1 \in Replays
  BY <1>1 DEF Replays
<1>3. m_sendQueue = <<>> /\ m_sendQueue' = <<>> /\ Len(m_sendQueue') = 0
  BY DEF Ordered
<1>4. /\ wire' \in Seq(Replays)
      /\ Len(wire') = Len(wire) + 1
      /\ \A i \in 1 .. Len(wire) : wire'[i] = wire[i]
      /\ wire'[Len(wire) + 1] = asked + 1
  BY <1>2, AppendProperties DEF TypeOK
<1>5. \A i \in 1 .. Len(wire') : i \in 1 .. Len(wire) \/ i = Len(wire) + 1
  BY <1>1, <1>4
<1>6. \A i \in 1 .. Len(wire) : wire[i] < asked + 1
  BY <1>1 DEF Ordered
<1>7. ASSUME NEW i \in 1 .. Len(wire'), NEW j \in 1 .. Len(wire'), i < j
      PROVE  wire'[i] < wire'[j]
  <2>1. i \in 1 .. Len(wire)
    BY <1>1, <1>4, <1>5, <1>7
  <2>2. CASE j \in 1 .. Len(wire)
    BY <1>4, <1>7, <2>1, <2>2 DEF Ordered
  <2>3. CASE j = Len(wire) + 1
    BY <1>4, <1>6, <2>1, <2>3
  <2> QED
    BY <1>5, <2>2, <2>3
<1>8. \A i \in 1 .. Len(wire') : wire'[i] <= asked + 1
  BY <1>1, <1>4, <1>5, <1>6
<1>9. Ordered'
  BY <1>3, <1>7, <1>8 DEF Ordered
<1> QED
  BY <1>2, <1>3, <1>4, <1>9
-----------------------------------------------------------------------------
(* The handlers, in the client thread. *)

\* The replays that wait, now and after a step.
LEMMA WaitingReplays ==
    /\ TypeOK => \A r \in Replays :
         r \in Waiting <=> \/ \E i \in 1 .. Len(m_sendQueue) : m_sendQueue[i].replay = r
                           \/ m_inProcess /\ r = m_currentWriteReplay
    /\ TypeOK' => \A r \in Replays :
         r \in Waiting' <=> \/ \E i \in 1 .. Len(m_sendQueue') : m_sendQueue'[i].replay = r
                            \/ m_inProcess' /\ r = m_currentWriteReplay'
<1>1. 0 \notin Replays
  BY DEF Replays
<1>2. ASSUME TypeOK, NEW r \in Replays
      PROVE  r \in Waiting <=> \/ \E i \in 1 .. Len(m_sendQueue) : m_sendQueue[i].replay = r
                               \/ m_inProcess /\ r = m_currentWriteReplay
  <2>1. DOMAIN m_sendQueue = 1 .. Len(m_sendQueue)
    BY <1>2, LenProperties DEF TypeOK
  <2> QED
    BY <1>1, <2>1 DEF Waiting
<1>3. ASSUME TypeOK', NEW r \in Replays
      PROVE  r \in Waiting' <=> \/ \E i \in 1 .. Len(m_sendQueue') : m_sendQueue'[i].replay = r
                                \/ m_inProcess' /\ r = m_currentWriteReplay'
  <2>1. m_sendQueue' \in Seq(Entry)
    BY <1>3 DEF TypeOK
  <2>2. DOMAIN m_sendQueue' = 1 .. Len(m_sendQueue')
    BY <2>1, LenProperties
  <2> QED
    BY <1>1, <2>2 DEF Waiting
<1> QED
  BY <1>2, <1>3

\* What every handler does to the count, the connections and the operations.
LEMMA HandlerOpen ==
    ASSUME TypeOK, NEW t \in Tags, NEW ok, Dispatch(t, ok),
           NEW new \in SUBSET {"read", "write"}, NEW released \in BOOLEAN, Refs(new, released),
           Open, connected' <=> (connected /\ ~released),
           "read" \in new => t \in Reader,
           "write" \in new => t = "write" \/ Idle({"write"})
    PROVE  /\ Counted'
           /\ connected' <=> shared'
           /\ Alone(Reader)' /\ Alone({"write"})'
           /\ (Idle({"write"}) \/ t = "write") /\ "write" \notin new => Idle({"write"})'
           /\ ~Idle({"finish"}) /\ t # "finish" => ~Idle({"finish"})'
<1>1. /\ ops \in SUBSET Tags /\ posted \in Seq(Event) /\ m_refCount \in Int /\ shared \in BOOLEAN
      /\ new \in SUBSET Tags
  BY DEF TypeOK, Tags
<1>2. Counted /\ (connected <=> shared) /\ Alone(Reader) /\ Alone({"write"})
  BY DEF Open, OneAtATime
<1>3. ops' = ops \cup new /\ (shared' <=> (shared /\ ~released))
      /\ (new \cap ops = {} => Counted')
  BY <1>1, <1>2, HandlerCounts
<1>4. Alone(Reader)' /\ (t \in Reader => Reader \cap ops = {})
  <2>1. \/ Reader \cap new = {}
        \/ t \in Reader /\ \A a, b \in Reader \cap new : a = b
    BY DEF Reader
  <2> QED
    BY <1>1, <1>2, <1>3, <2>1, DispatchAlone
<1>5. Alone({"write"})' /\ ("write" \in new => "write" \notin ops)
  <2>1. CASE t = "write" \/ "write" \notin new
    <3>1. \/ {"write"} \cap new = {}
          \/ t \in {"write"} /\ \A a, b \in {"write"} \cap new : a = b
      BY <2>1
    <3>2. Alone({"write"})' /\ (t \in {"write"} => {"write"} \cap ops = {})
      BY <1>1, <1>2, <1>3, <3>1, DispatchAlone
    <3> QED
      BY <2>1, <3>2
  <2>2. CASE t # "write" /\ "write" \in new
    <3>1. Idle({"write"})
      BY <2>2
    <3>2. "write" \notin ops /\ \A i \in 1 .. Len(posted) : posted[i].tag \notin {"write"}
      BY <3>1 DEF Idle
    <3>3. \A i \in 1 .. Len(posted') : i + 1 \in 1 .. Len(posted) /\ posted'[i] = posted[i + 1]
      <4>1. /\ Len(posted) \in Nat \ {0} /\ Len(posted') = Len(posted) - 1
            /\ \A i \in 1 .. Len(posted') : posted'[i] = posted[i + 1]
        BY <1>1, DispatchTakes
      <4> QED
        BY <4>1
    <3>4. \A i \in 1 .. Len(posted') : posted'[i].tag \notin {"write"}
      BY <3>2, <3>3
    <3> QED
      BY <3>2, <3>4 DEF Alone
  <2> QED
    BY <2>1, <2>2
<1>6. Counted'
  <2>1. new \cap ops = {}
    BY <1>4, <1>5 DEF Reader
  <2> QED
    BY <1>3, <2>1
<1>7. ASSUME Idle({"write"}) \/ t = "write", "write" \notin new PROVE Idle({"write"})'
  <2>1. {"write"} \cap new = {}
    BY <1>7
  <2>2. CASE Idle({"write"})
    BY <1>1, <1>3, <2>1, <2>2, DispatchIdle
  <2>3. CASE t = "write"
    <3>1. t \in {"write"}
      BY <2>3
    <3> QED
      BY <1>1, <1>2, <1>3, <2>1, <3>1, DispatchAlone
  <2> QED
    BY <1>7, <2>2, <2>3
<1>8. ASSUME ~Idle({"finish"}), t # "finish" PROVE ~Idle({"finish"})'
  <2>1. t \notin {"finish"}
    BY <1>8
  <2> QED
    BY <1>1, <1>3, <1>8, <2>1, DispatchIdle
<1>9. connected' <=> shared'
  BY <1>2, <1>3
<1> QED
  BY <1>4, <1>5, <1>6, <1>7, <1>8, <1>9

\* The types that a handler changes.
LEMMA HandlerTypes ==
    ASSUME TypeOK, NEW t, NEW ok, Dispatch(t, ok),
           NEW new \in SUBSET {"read", "write"}, NEW released \in BOOLEAN, Refs(new, released)
    PROVE  /\ ops' \in SUBSET Tags /\ posted' \in Seq(Event) /\ m_refCount' \in Int
           /\ alive' \in BOOLEAN /\ shared' \in BOOLEAN
<1>1. /\ ops \in SUBSET Tags /\ posted \in Seq(Event) /\ m_refCount \in Int /\ shared \in BOOLEAN
      /\ new \in SUBSET Tags
  BY DEF TypeOK, Tags
<1> QED
  BY <1>1, HandlerCounts

\* newData, when it leaves the writes alone.
LEMMA NewDataStep ==
    ASSUME IInv, NEW t \in Reader, NEW ok, Dispatch(t, ok),
           NEW new, new = {} \/ new = {"read"}, NEW released \in BOOLEAN, Refs(new, released),
           connected' = (connected /\ ~released), m_readerState' # "FIRST_CALL",
           UNCHANGED writeVars
    PROVE  IInv'
<1>1. new \in SUBSET {"read", "write"} /\ "write" \notin new /\ t \in Tags /\ t # "finish"
  BY DEF Reader, Tags
<1>2. /\ m_sendQueue' = m_sendQueue /\ m_inProcess' = m_inProcess
      /\ m_currentWriteReplay' = m_currentWriteReplay /\ asked' = asked
      /\ closing' = closing /\ status' = status /\ wire' = wire
  BY DEF writeVars
<1>3. TypeOK'
  <2>1. /\ ops' \in SUBSET Tags /\ posted' \in Seq(Event) /\ m_refCount' \in Int
        /\ alive' \in BOOLEAN /\ shared' \in BOOLEAN
    BY <1>1, HandlerTypes DEF IInv
  <2>2. connected' \in BOOLEAN
    OBVIOUS
  <2> QED
    BY <1>2, <2>1, <2>2 DEF IInv, TypeOK
<1>4. Ordered'
  BY <1>2 DEF IInv, Ordered
<1>5. ASSUME ~closing' PROVE Open'
  <2>1. Open
    BY <1>2, <1>5 DEF IInv
  <2>2. /\ Counted' /\ (connected' <=> shared') /\ Alone(Reader)' /\ Alone({"write"})'
        /\ Idle({"write"}) => Idle({"write"})'
        /\ ~Idle({"finish"}) => ~Idle({"finish"})'
    BY <1>1, <2>1, HandlerOpen DEF IInv
  <2>3. OneAtATime'
    BY <1>2, <2>1, <2>2 DEF Open, OneAtATime
  <2>4. Current'
    BY <1>2, <2>1, <2>2 DEF Open, Current
  <2>5. Waiting' = Waiting
    BY <1>2 DEF Waiting
  <2>6. Answerable'
    BY <1>2, <2>1, <2>2, <2>5 DEF Open, Answerable
  <2>7. connected' => ~Idle({"finish"})'
    BY <2>1, <2>2 DEF Open
  <2> QED
    BY <2>2, <2>3, <2>4, <2>6, <2>7 DEF Open
<1> QED
  BY <1>3, <1>4, <1>5 DEF IInv

\* What dequeueWrite does to the entries and the replays that wait.
LEMMA DequeueWaiting ==
    ASSUME TypeOK, TypeOK', DequeueWrite(m_sendQueue),
           \A i \in 1 .. Len(m_sendQueue) : ~m_sendQueue[i].done
    PROVE  /\ \A i \in 1 .. Len(m_sendQueue') : ~m_sendQueue'[i].done
           /\ m_sendQueue # <<>> => m_inProcess' /\ m_currentWriteReplay' # 0
           /\ \A r \in Replays :
                (\E i \in 1 .. Len(m_sendQueue) : m_sendQueue[i].replay = r) => r \in Waiting'
<1>1. CASE m_sendQueue = <<>>
  <2>1. m_sendQueue' = m_sendQueue /\ Len(m_sendQueue) = 0
    BY <1>1, DequeueNothing
  <2> QED
    BY <1>1, <2>1
<1>2. CASE m_sendQueue # <<>>
  <2>1. /\ m_inProcess'
        /\ Len(m_sendQueue) \in Nat \ {0} /\ 1 \in 1 .. Len(m_sendQueue)
        /\ Len(m_sendQueue') = Len(m_sendQueue) - 1
        /\ \A i \in 1 .. Len(m_sendQueue') : m_sendQueue'[i] = m_sendQueue[i + 1]
        /\ ~m_sendQueue[1].done => m_currentWriteReplay' = m_sendQueue[1].replay
    BY <1>2, DequeueFirst
  <2>2. m_currentWriteReplay' = m_sendQueue[1].replay /\ m_sendQueue[1].replay \in Replays
    BY <2>1, QueueElements
  <2>3. m_currentWriteReplay' # 0
    BY <2>2 DEF Replays
  <2>4. \A i \in 1 .. Len(m_sendQueue') : i + 1 \in 1 .. Len(m_sendQueue)
    BY <2>1
  <2>5. \A i \in 1 .. Len(m_sendQueue') : ~m_sendQueue'[i].done
    BY <2>1, <2>4
  <2>6. ASSUME NEW i \in 1 .. Len(m_sendQueue), m_sendQueue[i].replay \in Replays
        PROVE  m_sendQueue[i].replay \in Waiting'
    <3>1. CASE i = 1
      BY <2>1, <2>2, <3>1, WaitingReplays
    <3>2. CASE i # 1
      <4>1. i - 1 \in 1 .. Len(m_sendQueue') /\ (i - 1) + 1 = i
        BY <2>1, <3>2
      <4>2. m_sendQueue'[i - 1] = m_sendQueue[i]
        BY <2>1, <4>1
      <4> QED
        BY <2>6, <4>1, <4>2, WaitingReplays
    <3> QED
      BY <3>1, <3>2
  <2> QED
    BY <2>1, <2>3, <2>5, <2>6
<1> QED
  BY <1>1, <1>2
\* The first newData lets the queue go.
LEMMA NewDataFirstStep ==
    ASSUME IInv, NewDataFirst
    PROVE  IInv'
<1>1. PICK t \in Reader : Dispatch(t, TRUE)
  BY DEF NewDataFirst, DispatchNewData, Reader
<1> DEFINE new == {"read"} \cup DequeueOps(m_sendQueue)
<1>2. /\ Refs(new, FALSE) /\ DequeueWrite(m_sendQueue)
      /\ m_readerState = "FIRST_CALL" /\ m_readerState' = "PROCESSING"
      /\ connected' = connected /\ asked' = asked /\ closing' = closing /\ status' = status
  BY DEF NewDataFirst
<1>3. new \in SUBSET {"read", "write"} /\ ("write" \in new <=> m_sendQueue # <<>>)
      /\ t \in Tags /\ t # "finish"
  BY DEF DequeueOps, Reader, Tags
<1> HIDE DEF new
<1>4. /\ Ordered' /\ m_inProcess' \in BOOLEAN
      /\ m_sendQueue' \in Seq(Entry) /\ wire' \in Seq(Replays)
      /\ m_currentWriteReplay' \in {0} \cup Replays
  BY <1>2, DequeueOrdered DEF IInv
<1>5. TypeOK'
  <2>1. /\ ops' \in SUBSET Tags /\ posted' \in Seq(Event) /\ m_refCount' \in Int
        /\ alive' \in BOOLEAN /\ shared' \in BOOLEAN
    BY <1>1, <1>2, <1>3, HandlerTypes DEF IInv
  <2> QED
    BY <1>2, <1>4, <2>1 DEF IInv, TypeOK
<1>6. ASSUME ~closing' PROVE Open'
  <2>1. Open
    BY <1>2, <1>6 DEF IInv
  <2>2. Idle({"write"}) /\ m_inProcess /\ m_currentWriteReplay = 0
    BY <1>2, <2>1 DEF Open, OneAtATime
  <2>3. /\ Counted' /\ (connected' <=> shared') /\ Alone(Reader)' /\ Alone({"write"})'
        /\ "write" \notin new => Idle({"write"})'
        /\ ~Idle({"finish"}) => ~Idle({"finish"})'
    BY <1>1, <1>2, <1>3, <2>1, <2>2, HandlerOpen DEF IInv
  <2>4. /\ \A i \in 1 .. Len(m_sendQueue') : ~m_sendQueue'[i].done
        /\ m_sendQueue # <<>> => m_inProcess' /\ m_currentWriteReplay' # 0
        /\ \A r \in Replays :
             (\E i \in 1 .. Len(m_sendQueue) : m_sendQueue[i].replay = r) => r \in Waiting'
    BY <1>2, <1>5, <2>1, DequeueWaiting DEF IInv, Open, Current
  <2>5. OneAtATime'
    BY <1>2, <1>3, <2>3, <2>4 DEF OneAtATime
  <2>6. Current'
    BY <1>3, <2>3, <2>4 DEF Current
  <2>7. Answerable'
    <3> SUFFICES ASSUME NEW r \in Replays, status'[r] = "InProcess"
                 PROVE  r \in Waiting' /\ ~Idle({"finish"})'
      BY DEF Answerable
    <3>1. r \in Waiting /\ ~Idle({"finish"})
      BY <1>2, <2>1 DEF Open, Answerable
    <3>2. r # 0
      BY DEF Replays
    <3>3. \E i \in 1 .. Len(m_sendQueue) : m_sendQueue[i].replay = r
      BY <2>2, <3>1, <3>2, WaitingReplays DEF IInv
    <3> QED
      BY <2>3, <2>4, <3>1, <3>3
  <2>8. connected' => ~Idle({"finish"})'
    BY <1>2, <2>1, <2>3 DEF Open
  <2> QED
    BY <2>3, <2>5, <2>6, <2>7, <2>8 DEF Open
<1> QED
  BY <1>4, <1>5, <1>6 DEF IInv

\* finishRead answers every replay that waits, and lets go of the object.
LEMMA FinishReadStep ==
    ASSUME IInv, FinishRead
    PROVE  IInv'
<1>1. /\ Dispatch("finish", TRUE) /\ Refs({}, connected)
      /\ status' = [r \in Replays |-> IF r \in Waiting THEN "Failed" ELSE status[r]]
      /\ m_sendQueue' = <<>> /\ connected' = FALSE
      /\ m_readerState' = m_readerState /\ m_inProcess' = m_inProcess
      /\ m_currentWriteReplay' = m_currentWriteReplay /\ asked' = asked
      /\ closing' = closing /\ wire' = wire
  BY DEF FinishRead
<1>2. connected \in BOOLEAN /\ {} \in SUBSET {"read", "write"} /\ "finish" \in Tags
  BY DEF IInv, TypeOK, Tags
<1>3. /\ ops' \in SUBSET Tags /\ posted' \in Seq(Event) /\ m_refCount' \in Int
      /\ alive' \in BOOLEAN /\ shared' \in BOOLEAN
  BY <1>1, <1>2, HandlerTypes DEF IInv
<1>4. TypeOK'
  <2>1. status' \in [Replays -> Statuses]
    BY <1>1 DEF IInv, TypeOK, Statuses
  <2>2. m_sendQueue' \in Seq(Entry)
    BY <1>1, EmptySeq
  <2> QED
    BY <1>1, <1>3, <2>1, <2>2 DEF IInv, TypeOK
<1>5. Ordered'
  <2>1. Len(m_sendQueue') = 0
    BY <1>1
  <2> QED
    BY <1>1, <2>1 DEF IInv, Ordered
<1>6. ASSUME ~closing' PROVE Open'
  <2>1. Open
    BY <1>1, <1>6 DEF IInv
  <2>2. connected' <=> (connected /\ ~connected)
    BY <1>1
  <2>3. /\ Counted' /\ (connected' <=> shared') /\ Alone(Reader)' /\ Alone({"write"})'
        /\ Idle({"write"}) => Idle({"write"})'
    BY <1>1, <1>2, <2>1, <2>2, HandlerOpen DEF IInv
  <2>4. OneAtATime'
    BY <1>1, <2>1, <2>3 DEF Open, OneAtATime
  <2>5. Current'
    <3>1. Len(m_sendQueue') = 0
      BY <1>1
    <3> QED
      BY <1>1, <2>1, <2>3, <3>1 DEF Open, Current
  <2>6. \A r \in Replays : status'[r] # "InProcess"
    BY <1>1, <2>1 DEF Open, Answerable
  <2>7. Answerable'
    BY <2>6 DEF Answerable
  <2> QED
    BY <1>1, <2>3, <2>4, <2>5, <2>7 DEF Open
<1> QED
  BY <1>4, <1>5, <1>6 DEF IInv

\* finishWrite answers the write in progress and starts the next one.
LEMMA FinishWriteStep ==
    ASSUME IInv, NEW ok \in BOOLEAN, FinishWrite(ok)
    PROVE  IInv'
<1> DEFINE c == m_currentWriteReplay
           a == IF ok THEN "OK" ELSE "Failed"
<1>1. /\ Dispatch("write", ok) /\ c # 0
      /\ status' = [status EXCEPT ![c] = a]
      /\ m_readerState' = m_readerState /\ connected' = connected
      /\ asked' = asked /\ closing' = closing
  BY DEF FinishWrite, readVars
<1>2. c \in Replays /\ a \in Statuses /\ a # "InProcess" /\ "write" \in Tags
  BY <1>1 DEF IInv, TypeOK, Statuses, Tags
<1>3. status' \in [Replays -> Statuses] /\ status'[c] = a
      /\ \A r \in Replays : r # c => status'[r] = status[r]
  BY <1>1, <1>2 DEF IInv, TypeOK
<1>4. PICK new \in SUBSET {"write"} :
        /\ Refs(new, FALSE)
        /\ \/ DequeueWrite(m_sendQueue) /\ new = DequeueOps(m_sendQueue)
           \/ UNCHANGED <<m_inProcess, m_sendQueue, wire, m_currentWriteReplay>> /\ new = {}
  <2>1. CASE DequeueWrite(m_sendQueue) /\ Refs(DequeueOps(m_sendQueue), FALSE)
    <3>1. DequeueOps(m_sendQueue) \in SUBSET {"write"}
      BY DEF DequeueOps
    <3> QED
      BY <2>1, <3>1
  <2>2. CASE /\ Refs({}, FALSE)
             /\ UNCHANGED <<m_inProcess, m_sendQueue, wire, m_currentWriteReplay>>
    BY <2>2
  <2> QED
    BY <2>1, <2>2 DEF FinishWrite
<1>5. new \in SUBSET {"read", "write"} /\ "read" \notin new
  BY <1>4
<1>6. /\ Ordered' /\ m_inProcess' \in BOOLEAN
      /\ m_sendQueue' \in Seq(Entry) /\ wire' \in Seq(Replays)
      /\ m_currentWriteReplay' \in {0} \cup Replays
  <2>1. CASE DequeueWrite(m_sendQueue)
    BY <1>1, <2>1, DequeueOrdered DEF IInv
  <2>2. CASE UNCHANGED <<m_inProcess, m_sendQueue, wire, m_currentWriteReplay>>
    BY <1>1, <2>2 DEF IInv, TypeOK, Ordered
  <2> QED
    BY <1>4, <2>1, <2>2
<1>7. TypeOK'
  <2>1. /\ ops' \in SUBSET Tags /\ posted' \in Seq(Event) /\ m_refCount' \in Int
        /\ alive' \in BOOLEAN /\ shared' \in BOOLEAN
    BY <1>1, <1>4, <1>5, HandlerTypes DEF IInv
  <2> QED
    BY <1>1, <1>3, <1>6, <2>1 DEF IInv, TypeOK
<1>8. ASSUME ~closing' PROVE Open'
  <2>1. Open
    BY <1>1, <1>8 DEF IInv
  <2>2. /\ Counted' /\ (connected' <=> shared') /\ Alone(Reader)' /\ Alone({"write"})'
        /\ "write" \notin new => Idle({"write"})'
        /\ ~Idle({"finish"}) => ~Idle({"finish"})'
    <3>1. connected' <=> (connected /\ ~FALSE)
      BY <1>1
    <3> QED
      BY <1>1, <1>2, <1>4, <1>5, <2>1, <3>1, HandlerOpen DEF IInv
  <2>3. ~Idle({"write"})
    <3>1. Len(posted) \in Nat \ {0} /\ posted[1].tag = "write"
      BY <1>1, DispatchTakes DEF IInv, TypeOK
    <3>2. 1 \in 1 .. Len(posted)
      BY <3>1
    <3> QED
      BY <3>1, <3>2 DEF Idle
  <2>4. m_inProcess /\ m_readerState # "FIRST_CALL"
    BY <2>1, <2>3 DEF Open, OneAtATime
  <2>5. /\ \A i \in 1 .. Len(m_sendQueue') : ~m_sendQueue'[i].done
        /\ "write" \in new => m_inProcess' /\ m_currentWriteReplay' # 0
        /\ \A r \in Replays :
             (\E i \in 1 .. Len(m_sendQueue) : m_sendQueue[i].replay = r) => r \in Waiting'
    <3>1. CASE DequeueWrite(m_sendQueue) /\ new = DequeueOps(m_sendQueue)
      <4>1. "write" \in new => m_sendQueue # <<>>
        BY <3>1 DEF DequeueOps
      <4> QED
        BY <1>7, <2>1, <3>1, <4>1, DequeueWaiting DEF IInv, Open, Current
    <3>2. CASE UNCHANGED <<m_inProcess, m_sendQueue, wire, m_currentWriteReplay>> /\ new = {}
      <4>1. \A i \in 1 .. Len(m_sendQueue') : ~m_sendQueue'[i].done
        BY <2>1, <3>2 DEF Open, Current
      <4>2. \A r \in Replays :
              (\E i \in 1 .. Len(m_sendQueue) : m_sendQueue[i].replay = r) => r \in Waiting'
        BY <1>7, <3>2, WaitingReplays
      <4> QED
        BY <3>2, <4>1, <4>2
    <3> QED
      BY <1>4, <3>1, <3>2
  <2>6. OneAtATime'
    BY <1>1, <2>2, <2>4, <2>5 DEF OneAtATime
  <2>7. Current'
    BY <2>2, <2>5 DEF Current
  <2>8. Answerable'
    <3> SUFFICES ASSUME NEW r \in Replays, status'[r] = "InProcess"
                 PROVE  r \in Waiting' /\ ~Idle({"finish"})'
      BY DEF Answerable
    <3>1. r # c /\ status[r] = "InProcess"
      BY <1>2, <1>3
    <3>2. r \in Waiting /\ ~Idle({"finish"})
      BY <2>1, <3>1 DEF Open, Answerable
    <3>3. \E i \in 1 .. Len(m_sendQueue) : m_sendQueue[i].replay = r
      BY <3>1, <3>2, WaitingReplays DEF IInv
    <3> QED
      BY <2>2, <2>5, <3>2, <3>3
  <2>9. connected' => ~Idle({"finish"})'
    BY <1>1, <2>1, <2>2 DEF Open
  <2> QED
    BY <2>2, <2>6, <2>7, <2>8, <2>9 DEF Open
<1> QED
  BY <1>6, <1>7, <1>8 DEF IInv

LEMMA EventLoopKeeps == IInv /\ EventLoop => IInv'
<1> SUFFICES ASSUME IInv, EventLoop PROVE IInv'
  OBVIOUS
<1>1. ASSUME NEW ok, DispatchNewData(ok) PROVE \E t \in Reader : Dispatch(t, ok)
  BY <1>1 DEF DispatchNewData, Reader
<1>2. CASE NewDataEnd
  <2>1. PICK t \in Reader : Dispatch(t, FALSE)
    BY <1>1, <1>2 DEF NewDataEnd
  <2>2. /\ Refs({}, FALSE) /\ UNCHANGED writeVars /\ m_readerState' # "FIRST_CALL"
        /\ connected' = connected /\ connected \in BOOLEAN
    BY <1>2 DEF NewDataEnd, IInv, TypeOK
  <2>3. connected' = (connected /\ ~FALSE)
    BY <2>2
  <2> QED
    BY <2>1, <2>2, <2>3, NewDataStep
<1>3. CASE NewDataBad
  <2>1. PICK t \in Reader : Dispatch(t, TRUE)
    BY <1>1, <1>3 DEF NewDataBad
  <2>2. /\ Refs({}, FALSE) /\ UNCHANGED writeVars /\ m_readerState' # "FIRST_CALL"
        /\ connected' = connected /\ connected \in BOOLEAN
    BY <1>3 DEF NewDataBad, IInv, TypeOK
  <2>3. connected' = (connected /\ ~FALSE)
    BY <2>2
  <2> QED
    BY <2>1, <2>2, <2>3, NewDataStep
<1>4. CASE NewData
  <2>1. PICK t \in Reader : Dispatch(t, TRUE)
    BY <1>1, <1>4 DEF NewData
  <2>2. PICK aborts \in BOOLEAN :
          connected' = (connected /\ ~aborts) /\ Refs({"read"}, aborts)
    BY <1>4 DEF NewData
  <2>3. UNCHANGED writeVars /\ m_readerState' # "FIRST_CALL"
    BY <1>4 DEF NewData
  <2> QED
    BY <2>1, <2>2, <2>3, NewDataStep
<1>5. CASE NewDataFirst
  BY <1>5, NewDataFirstStep
<1>6. CASE FinishRead
  BY <1>6, FinishReadStep
<1>7. ASSUME NEW ok \in BOOLEAN, FinishWrite(ok) PROVE IInv'
  BY <1>7, FinishWriteStep
<1> QED
  BY <1>2, <1>3, <1>4, <1>5, <1>6, <1>7 DEF EventLoop
-----------------------------------------------------------------------------
(* The server, the worker and the user. *)

\* A step that touches neither the count nor the writes.
LEMMA ElsewhereKeeps ==
    ASSUME IInv, UNCHANGED <<ops, posted, m_refCount, alive, shared, readVars, writeVars>>
    PROVE  IInv'
<1>1. /\ m_sendQueue' = m_sendQueue /\ m_inProcess' = m_inProcess
      /\ m_currentWriteReplay' = m_currentWriteReplay /\ asked' = asked
      /\ closing' = closing /\ status' = status /\ wire' = wire
      /\ m_readerState' = m_readerState /\ connected' = connected
  BY DEF readVars, writeVars
<1>2. TypeOK'
  BY <1>1 DEF IInv, TypeOK
<1>3. Ordered'
  BY <1>1 DEF IInv, Ordered
<1>4. ASSUME ~closing' PROVE Open'
  <2>1. Open
    BY <1>1, <1>4 DEF IInv
  <2>2. Waiting' = Waiting /\ Holders' = Holders
    BY <1>1 DEF Waiting, Holders
  <2>3. /\ Idle({"write"})' <=> Idle({"write"})
        /\ Idle({"finish"})' <=> Idle({"finish"})
        /\ Alone(Reader)' <=> Alone(Reader)
        /\ Alone({"write"})' <=> Alone({"write"})
    BY DEF Idle, Alone
  <2>4. Counted'
    BY <2>1, <2>2 DEF Open, Counted
  <2>5. OneAtATime'
    BY <1>1, <2>1, <2>3 DEF Open, OneAtATime
  <2>6. Current'
    BY <1>1, <2>1, <2>3 DEF Open, Current
  <2>7. Answerable'
    BY <1>1, <2>1, <2>2, <2>3 DEF Open, Answerable
  <2> QED
    BY <1>1, <2>1, <2>3, <2>4, <2>5, <2>6, <2>7 DEF Open
<1> QED
  BY <1>2, <1>3, <1>4 DEF IInv

LEMMA WorkerKeeps == IInv /\ (Worker \/ WorkerWrite) => IInv'
<1> SUFFICES ASSUME IInv, Worker \/ WorkerWrite PROVE IInv'
  OBVIOUS
<1>1. PICK t \in Tags, ok \in BOOLEAN : Post(t, ok)
  <2>1. CASE CompleteSend("start") \/ CompleteSend("write")
    BY <2>1 DEF CompleteSend, Tags
  <2>2. CASE CompleteRead
    BY <2>2 DEF CompleteRead, Tags
  <2>3. CASE CompleteFinish
    BY <2>3 DEF CompleteFinish, Tags
  <2> QED
    BY <2>1, <2>2, <2>3 DEF Worker, WorkerWrite
<1>2. /\ m_sendQueue' = m_sendQueue /\ m_inProcess' = m_inProcess
      /\ m_currentWriteReplay' = m_currentWriteReplay /\ asked' = asked
      /\ closing' = closing /\ status' = status /\ wire' = wire
      /\ m_readerState' = m_readerState /\ connected' = connected
  BY DEF Worker, WorkerWrite, readVars, writeVars
<1>3. m_refCount' = m_refCount /\ alive' = alive /\ shared' = shared
  BY <1>1 DEF Post
<1>4. ops \in SUBSET Tags /\ posted \in Seq(Event)
  BY DEF IInv, TypeOK
<1>5. /\ t \in ops /\ ops' = ops \ {t}
      /\ posted' \in Seq(Event)
      /\ Len(posted) \in Nat /\ Len(posted') = Len(posted) + 1
  BY <1>1, <1>4, PostMoves
<1>6. TypeOK'
  <2>1. ops' \in SUBSET Tags
    BY <1>4, <1>5
  <2> QED
    BY <1>2, <1>3, <1>5, <2>1 DEF IInv, TypeOK
<1>7. Ordered'
  BY <1>2 DEF IInv, Ordered
<1>8. ASSUME ~closing' PROVE Open'
  <2>1. Open
    BY <1>2, <1>8 DEF IInv
  <2>2. Waiting' = Waiting
    BY <1>2 DEF Waiting
  <2>3. /\ Idle({"write"})' <=> Idle({"write"})
        /\ Idle({"finish"})' <=> Idle({"finish"})
        /\ Alone(Reader) => Alone(Reader)'
        /\ Alone({"write"}) => Alone({"write"})'
    BY <1>1, <1>4, PostAlone
  <2>4. Counted'
    <3>1. Cardinality(ops) \in Nat /\ Cardinality(ops') = Cardinality(ops) - 1
      BY <1>4, <1>5, OperationsFinite, FS_RemoveElement
    <3>2. Holders' = Holders
      BY <1>3, <1>5, <3>1 DEF Holders
    <3> QED
      BY <1>3, <2>1, <3>2 DEF Open, Counted
  <2>5. OneAtATime'
    BY <1>2, <2>1, <2>3 DEF Open, OneAtATime
  <2>6. Current'
    BY <1>2, <2>1, <2>3 DEF Open, Current
  <2>7. Answerable'
    BY <1>2, <2>1, <2>2, <2>3 DEF Open, Answerable
  <2> QED
    BY <1>2, <1>3, <2>1, <2>3, <2>4, <2>5, <2>6, <2>7 DEF Open
<1> QED
  BY <1>6, <1>7, <1>8 DEF IInv

LEMMA AbortKeeps == IInv /\ Abort => IInv'
<1> SUFFICES ASSUME IInv, Abort PROVE IInv'
  OBVIOUS
<1>1. /\ m_sendQueue' = m_sendQueue /\ m_inProcess' = m_inProcess
      /\ m_currentWriteReplay' = m_currentWriteReplay /\ asked' = asked
      /\ closing' = closing /\ status' = status /\ wire' = wire
      /\ m_readerState' = m_readerState /\ ops' = ops /\ posted' = posted
      /\ connected /\ connected' = FALSE /\ shared' = FALSE
      /\ m_refCount' = m_refCount - 1
      /\ alive' = (alive /\ m_refCount' # 0)
  BY DEF Abort, SharedPtrReleased, writeVars
<1>2. TypeOK'
  <2>1. m_refCount' \in Int /\ alive' \in BOOLEAN
    BY <1>1 DEF IInv, TypeOK
  <2> QED
    BY <1>1, <2>1 DEF IInv, TypeOK
<1>3. Ordered'
  BY <1>1 DEF IInv, Ordered
<1>4. ASSUME ~closing' PROVE Open'
  <2>1. Open
    BY <1>1, <1>4 DEF IInv
  <2>2. Waiting' = Waiting
    BY <1>1 DEF Waiting
  <2>3. /\ Idle({"write"})' <=> Idle({"write"})
        /\ Idle({"finish"})' <=> Idle({"finish"})
        /\ Alone(Reader)' <=> Alone(Reader)
        /\ Alone({"write"})' <=> Alone({"write"})
    BY <1>1 DEF Idle, Alone
  <2>4. Counted'
    <3>1. shared /\ m_refCount = Holders /\ (alive <=> m_refCount # 0)
      BY <1>1, <2>1 DEF Open, Counted
    <3>2. /\ Cardinality(ops) \in Nat /\ Len(posted) \in Nat
          /\ Holders = Cardinality(ops) + Len(posted) + 1
      BY <3>1, HoldersSum DEF IInv, TypeOK
    <3>3. Holders' = Cardinality(ops) + Len(posted) + 0
      BY <1>1 DEF Holders
    <3>4. m_refCount' = Holders' /\ alive
      BY <1>1, <3>1, <3>2, <3>3
    <3>5. alive' <=> m_refCount' # 0
      BY <1>1, <3>4
    <3> QED
      BY <3>4, <3>5 DEF Counted
  <2>5. OneAtATime'
    BY <1>1, <2>1, <2>3 DEF Open, OneAtATime
  <2>6. Current'
    BY <1>1, <2>1, <2>3 DEF Open, Current
  <2>7. Answerable'
    BY <1>1, <2>1, <2>2, <2>3 DEF Open, Answerable
  <2> QED
    BY <1>1, <2>4, <2>5, <2>6, <2>7 DEF Open
<1> QED
  BY <1>2, <1>3, <1>4 DEF IInv

\* A replay is handed out for a call that changes nothing else.
LEMMA AskedKeeps ==
    ASSUME IInv, asked < MaxWrites, asked' = asked + 1,
           UNCHANGED <<ops, posted, m_refCount, alive, shared, m_readerState, connected,
                       m_sendQueue, m_inProcess, m_currentWriteReplay, wire, closing>>,
           status' = status \/ status' = [status EXCEPT ![asked + 1] = "Failed"]
    PROVE  IInv'
<1>1. asked \in Nat /\ MaxWrites \in Nat /\ Len(wire) \in Nat /\ Len(m_sendQueue) \in Nat
      /\ (\A i \in 1 .. Len(wire) : wire[i] \in Nat)
      /\ \A i \in 1 .. Len(m_sendQueue) : m_sendQueue[i].replay \in Nat
  BY QueueElements DEF IInv
<1>2. status' \in [Replays -> Statuses]
      /\ \A r \in Replays : status'[r] = "InProcess" => status[r] = "InProcess"
  BY DEF IInv, TypeOK, Statuses
<1>3. TypeOK'
  <2>1. asked' \in 0 .. MaxWrites
    BY <1>1
  <2> QED
    BY <1>2, <2>1 DEF IInv, TypeOK
<1>4. Ordered'
  <2>1. \A i \in 1 .. Len(wire) : wire[i] <= asked + 1
    BY <1>1 DEF IInv, Ordered
  <2>2. \A i \in 1 .. Len(m_sendQueue) : m_sendQueue[i].replay <= asked + 1
    BY <1>1 DEF IInv, Ordered
  <2> QED
    BY <2>1, <2>2 DEF IInv, Ordered
<1>5. ASSUME ~closing' PROVE Open'
  <2>1. Open
    BY <1>5 DEF IInv
  <2>2. Waiting' = Waiting /\ Holders' = Holders
    BY DEF Waiting, Holders
  <2>3. /\ Idle({"write"})' <=> Idle({"write"})
        /\ Idle({"finish"})' <=> Idle({"finish"})
        /\ Alone(Reader)' <=> Alone(Reader)
        /\ Alone({"write"})' <=> Alone({"write"})
    BY DEF Idle, Alone
  <2>4. Counted'
    BY <2>1, <2>2 DEF Open, Counted
  <2>5. OneAtATime'
    BY <2>1, <2>3 DEF Open, OneAtATime
  <2>6. Current'
    BY <2>1, <2>3 DEF Open, Current
  <2>7. Answerable'
    BY <1>2, <2>1, <2>2, <2>3 DEF Open, Answerable
  <2> QED
    BY <2>1, <2>3, <2>4, <2>5, <2>6, <2>7 DEF Open
<1> QED
  BY <1>3, <1>4, <1>5 DEF IInv
\* write() behind a write in progress.
LEMMA WriteQueuedKeeps ==
    ASSUME IInv, asked < MaxWrites, asked' = asked + 1, connected, m_inProcess,
           status' = [status EXCEPT ![asked + 1] = "InProcess"],
           m_sendQueue' = Append(m_sendQueue, [replay |-> asked + 1, done |-> FALSE]),
           UNCHANGED <<ops, posted, m_refCount, alive, shared, m_readerState, connected,
                       m_inProcess, m_currentWriteReplay, wire, closing>>
    PROVE  IInv'
<1>1. /\ Ordered' /\ m_sendQueue' \in Seq(Entry)
      /\ asked + 1 \in Replays
      /\ Len(m_sendQueue') = Len(m_sendQueue) + 1 /\ Len(m_sendQueue) \in Nat
      /\ \A i \in 1 .. Len(m_sendQueue) : m_sendQueue'[i] = m_sendQueue[i]
      /\ m_sendQueue'[Len(m_sendQueue) + 1].replay = asked + 1
      /\ m_sendQueue'[Len(m_sendQueue) + 1].done = FALSE
  BY QueuedOrdered DEF IInv
<1>2. /\ \A i \in 1 .. Len(m_sendQueue') : i \in 1 .. Len(m_sendQueue) \/ i = Len(m_sendQueue) + 1
      /\ \A i \in 1 .. Len(m_sendQueue) : i \in 1 .. Len(m_sendQueue')
      /\ Len(m_sendQueue) + 1 \in 1 .. Len(m_sendQueue')
  BY <1>1
<1>3. TypeOK'
  <2>1. asked' \in 0 .. MaxWrites
    BY <1>1 DEF Replays
  <2>2. status' \in [Replays -> Statuses]
    BY <1>1 DEF IInv, TypeOK, Statuses
  <2> QED
    BY <1>1, <2>1, <2>2 DEF IInv, TypeOK
<1>4. ASSUME ~closing' PROVE Open'
  <2>1. Open
    BY <1>4 DEF IInv
  <2>2. Holders' = Holders
    BY DEF Holders
  <2>3. /\ Idle({"write"})' <=> Idle({"write"})
        /\ Idle({"finish"})' <=> Idle({"finish"})
        /\ Alone(Reader)' <=> Alone(Reader)
        /\ Alone({"write"})' <=> Alone({"write"})
    BY DEF Idle, Alone
  <2>4. Counted'
    BY <2>1, <2>2 DEF Open, Counted
  <2>5. OneAtATime'
    BY <2>1, <2>3 DEF Open, OneAtATime
  <2>6. Current'
    BY <1>1, <1>2, <2>1, <2>3 DEF Open, Current
  <2>7. Answerable'
    <3> SUFFICES ASSUME NEW r \in Replays, status'[r] = "InProcess"
                 PROVE  r \in Waiting' /\ ~Idle({"finish"})'
      BY DEF Answerable
    <3>1. ~Idle({"finish"})'
      BY <2>1, <2>3 DEF Open
    <3>2. CASE r = asked + 1
      BY <1>1, <1>2, <1>3, <3>1, <3>2, WaitingReplays
    <3>3. CASE r # asked + 1
      <4>1. status[r] = "InProcess"
        BY <3>3 DEF IInv, TypeOK
      <4>2. r \in Waiting
        BY <2>1, <4>1 DEF Open, Answerable
      <4>3. \/ \E i \in 1 .. Len(m_sendQueue) : m_sendQueue[i].replay = r
            \/ m_inProcess /\ r = m_currentWriteReplay
        BY <4>2, WaitingReplays DEF IInv
      <4>4. \/ \E i \in 1 .. Len(m_sendQueue') : m_sendQueue'[i].replay = r
            \/ m_inProcess' /\ r = m_currentWriteReplay'
        BY <1>1, <1>2, <4>3
      <4> QED
        BY <1>3, <3>1, <4>4, WaitingReplays
    <3> QED
      BY <3>2, <3>3
  <2> QED
    BY <2>1, <2>3, <2>4, <2>5, <2>6, <2>7 DEF Open
<1> QED
  BY <1>1, <1>3, <1>4 DEF IInv

\* write() with nothing in progress.
LEMMA WriteStartedKeeps ==
    ASSUME IInv, asked < MaxWrites, asked' = asked + 1, connected, ~m_inProcess,
           status' = [status EXCEPT ![asked + 1] = "InProcess"],
           m_inProcess' = TRUE, m_currentWriteReplay' = asked + 1,
           wire' = Append(wire, asked + 1),
           ops' = ops \cup {"write"}, m_refCount' = m_refCount + 1,
           UNCHANGED <<posted, alive, shared, m_readerState, connected, m_sendQueue, closing>>
    PROVE  IInv'
<1>1. Ordered' /\ wire' \in Seq(Replays) /\ asked + 1 \in Replays /\ m_sendQueue = <<>>
  BY StartedOrdered DEF IInv
<1>2. ops \in SUBSET Tags /\ posted \in Seq(Event) /\ m_refCount \in Int
  BY DEF IInv, TypeOK
<1>3. TypeOK'
  <2>1. asked' \in 0 .. MaxWrites
    BY <1>1 DEF Replays
  <2>2. status' \in [Replays -> Statuses]
    BY <1>1 DEF IInv, TypeOK, Statuses
  <2>3. ops' \in SUBSET Tags /\ m_refCount' \in Int
    BY <1>2 DEF Tags
  <2> QED
    BY <1>1, <2>1, <2>2, <2>3 DEF IInv, TypeOK
<1>4. ASSUME ~closing' PROVE Open'
  <2>1. Open
    BY <1>4 DEF IInv
  <2>2. Idle({"write"}) /\ m_readerState # "FIRST_CALL" /\ Alone(Reader) /\ Alone({"write"})
    BY <2>1 DEF Open, OneAtATime
  <2>3. Alone({"write"})'
    BY <2>2, StartAlone
  <2>4. Alone(Reader)'
    <3>1. "write" \notin Reader
      BY DEF Reader
    <3> QED
      BY <2>2, <3>1, StartAlone
  <2>5. ~Idle({"finish"})'
    <3>1. ~Idle({"finish"})
      BY <2>1 DEF Open
    <3> QED
      BY <3>1 DEF Idle
  <2>6. Counted'
    <3>1. "write" \notin ops
      BY <2>2 DEF Idle
    <3>2. Cardinality(ops) \in Nat /\ Cardinality(ops') = Cardinality(ops) + 1
      BY <1>2, <3>1, OperationsFinite, FS_AddElement
    <3>3. shared /\ m_refCount = Holders /\ (alive <=> m_refCount # 0)
      BY <2>1 DEF Open, Counted
    <3>4. /\ Len(posted) \in Nat
          /\ Holders = Cardinality(ops) + Len(posted) + 1
      BY <1>2, <3>3, HoldersSum
    <3>5. Holders' = Cardinality(ops') + Len(posted) + 1
      BY <3>3 DEF Holders
    <3>6. m_refCount' = Holders' /\ m_refCount' # 0 /\ m_refCount # 0
      BY <3>2, <3>3, <3>4, <3>5
    <3> QED
      BY <3>3, <3>6 DEF Counted
  <2>7. OneAtATime'
    BY <2>2, <2>3, <2>4 DEF OneAtATime
  <2>8. Current'
    <3>1. asked + 1 # 0 /\ Len(m_sendQueue') = 0
      BY <1>1 DEF Replays
    <3> QED
      BY <3>1 DEF Current
  <2>9. Answerable'
    <3> SUFFICES ASSUME NEW r \in Replays, status'[r] = "InProcess"
                 PROVE  r \in Waiting'
      BY <2>5 DEF Answerable
    <3>1. CASE r = asked + 1
      BY <1>3, <3>1, WaitingReplays
    <3>2. CASE r # asked + 1
      <4>1. status[r] = "InProcess"
        BY <3>2 DEF IInv, TypeOK
      <4>2. r \in Waiting
        BY <2>1, <4>1 DEF Open, Answerable
      <4>3. Len(m_sendQueue) = 0
        BY <1>1
      <4> QED
        BY <4>2, <4>3, WaitingReplays DEF IInv
    <3> QED
      BY <3>1, <3>2
  <2> QED
    BY <2>1, <2>5, <2>6, <2>7, <2>8, <2>9 DEF Open
<1> QED
  BY <1>1, <1>3, <1>4 DEF IInv

LEMMA WriteKeeps == IInv /\ (Write \/ WriteBad) => IInv'
<1> SUFFICES ASSUME IInv, Write \/ WriteBad PROVE IInv'
  OBVIOUS
<1>1. /\ asked < MaxWrites /\ asked' = asked + 1
      /\ UNCHANGED <<posted, alive, shared, m_readerState, connected, closing>>
  BY DEF Write, WriteBad, baseVars, readVars
<1>2. CASE WriteBad
  BY <1>1, <1>2, AskedKeeps DEF WriteBad, baseVars
<1>3. CASE Write
  <2>1. CASE UNCHANGED <<ops, m_refCount, m_sendQueue, m_inProcess,
                         m_currentWriteReplay, status, wire>>
    BY <1>1, <2>1, AskedKeeps
  <2>2. CASE /\ connected /\ m_inProcess
             /\ status' = [status EXCEPT ![asked + 1] = "InProcess"]
             /\ m_sendQueue' = Append(m_sendQueue, [replay |-> asked + 1, done |-> FALSE])
             /\ UNCHANGED <<ops, m_refCount, m_inProcess, m_currentWriteReplay, wire>>
    BY <1>1, <2>2, WriteQueuedKeeps
  <2>3. CASE /\ connected /\ ~m_inProcess
             /\ status' = [status EXCEPT ![asked + 1] = "InProcess"]
             /\ m_inProcess' = TRUE
             /\ m_currentWriteReplay' = asked + 1
             /\ wire' = Append(wire, asked + 1)
             /\ ops' = ops \cup {"write"}
             /\ m_refCount' = m_refCount + 1
             /\ UNCHANGED m_sendQueue
    BY <1>1, <2>3, WriteStartedKeeps
  <2> QED
    BY <1>3, <2>1, <2>2, <2>3 DEF Write
<1> QED
  BY <1>2, <1>3

\* writeDone() keeps the order; what the rest relies on ends with it.
LEMMA WriteDoneKeeps == IInv /\ WriteDone => IInv'
<1> SUFFICES ASSUME IInv, WriteDone PROVE IInv'
  OBVIOUS
<1>1. /\ asked < MaxWrites /\ asked' = asked + 1 /\ closing' = TRUE
      /\ UNCHANGED <<posted, shared, connected, m_inProcess>>
  BY DEF WriteDone, readVars
<1>2. asked + 1 \in Replays /\ asked' \in 0 .. MaxWrites
  BY <1>1, MaxWritesAssumption DEF IInv, TypeOK, Replays
<1>3. status' \in [Replays -> Statuses]
  <2>1. status' = status \/ status' = [status EXCEPT ![asked + 1] = "InProcess"]
    BY DEF WriteDone
  <2> QED
    BY <1>2, <2>1 DEF IInv, TypeOK, Statuses
<1>4. ops' \in SUBSET Tags /\ m_refCount' \in Int /\ alive' \in BOOLEAN
  <2>1. ops \in SUBSET Tags /\ m_refCount \in Int /\ alive \in BOOLEAN
    BY DEF IInv, TypeOK
  <2>2. ops' = ops \/ ops' = ops \cup {"write"}
    BY DEF WriteDone
  <2>3. m_refCount' = m_refCount \/ m_refCount' = m_refCount - 1 \/ m_refCount' = m_refCount + 1 - 1
    BY DEF WriteDone
  <2>4. alive' = alive \/ alive' = (alive /\ m_refCount' # 0)
    BY DEF WriteDone
  <2>5. ops' \in SUBSET Tags
    BY <2>1, <2>2 DEF Tags
  <2>6. m_refCount' \in Int
    BY <2>1, <2>3
  <2>7. alive' \in BOOLEAN
    BY <2>1, <2>4
  <2> QED
    BY <2>5, <2>6, <2>7
<1>5. /\ Ordered' /\ m_sendQueue' \in Seq(Entry) /\ wire' \in Seq(Replays)
      /\ m_currentWriteReplay' \in {0} \cup Replays
  <2>1. CASE UNCHANGED <<m_sendQueue, m_currentWriteReplay, wire>>
    <3>1. asked \in Nat /\ (\A i \in 1 .. Len(wire) : wire[i] \in Nat)
          /\ \A i \in 1 .. Len(m_sendQueue) : m_sendQueue[i].replay \in Nat
      BY QueueElements DEF IInv
    <3>2. /\ \A i \in 1 .. Len(wire) : wire[i] <= asked + 1
          /\ \A i \in 1 .. Len(m_sendQueue) : m_sendQueue[i].replay <= asked + 1
      BY <3>1 DEF IInv, Ordered
    <3>3. Ordered'
      BY <1>1, <2>1, <3>2 DEF IInv, Ordered
    <3> QED
      BY <2>1, <3>3 DEF IInv, TypeOK
  <2>2. CASE /\ m_inProcess /\ UNCHANGED <<m_currentWriteReplay, wire>>
             /\ m_sendQueue' = Append(m_sendQueue, [replay |-> asked + 1, done |-> TRUE])
    <3>1. Ordered' /\ m_sendQueue' \in Seq(Entry)
      BY <1>1, <2>2, QueuedOrdered DEF IInv
    <3> QED
      BY <2>2, <3>1 DEF IInv, TypeOK
  <2>3. CASE /\ ~m_inProcess /\ UNCHANGED m_sendQueue
             /\ m_currentWriteReplay' = asked + 1 /\ wire' = Append(wire, asked + 1)
    <3>1. Ordered' /\ wire' \in Seq(Replays)
      BY <1>1, <2>3, StartedOrdered DEF IInv
    <3> QED
      BY <1>2, <2>3, <3>1 DEF IInv, TypeOK
  <2> QED
    BY <2>1, <2>2, <2>3 DEF WriteDone
<1>6. TypeOK'
  BY <1>1, <1>2, <1>3, <1>4, <1>5 DEF IInv, TypeOK
<1> QED
  BY <1>1, <1>5, <1>6 DEF IInv

-----------------------------------------------------------------------------
(* The theorems. *)

\* The invariant behind the others: however the server, the worker, the event
\* loop and the user's calls follow each other, writes queue in order, and until
\* writeDone() the count is exact and every unanswered write will be answered.
THEOREM Invariance == SafeSpec => []IInv
<1>1. Init => IInv
  <2> SUFFICES ASSUME Init PROVE IInv
    OBVIOUS
  <2>1. /\ ops = {"start", "finish"} /\ posted = <<>> /\ m_refCount = 3 /\ alive /\ shared
        /\ connected /\ m_sendQueue = <<>> /\ m_inProcess /\ m_currentWriteReplay = 0
        /\ asked = 0 /\ wire = <<>> /\ ~closing
    BY DEF Init, BaseInit
  <2>2. Len(posted) = 0 /\ Len(m_sendQueue) = 0 /\ Len(wire) = 0
    BY <2>1
  <2>3. TypeOK
    <3>1. posted \in Seq(Event) /\ m_sendQueue \in Seq(Entry) /\ wire \in Seq(Replays)
      BY <2>1, EmptySeq
    <3>2. status \in [Replays -> Statuses] /\ 0 \in 0 .. MaxWrites
      BY MaxWritesAssumption DEF Init, Statuses
    <3>3. alive \in BOOLEAN /\ shared \in BOOLEAN /\ connected \in BOOLEAN
          /\ m_inProcess \in BOOLEAN /\ closing \in BOOLEAN
      BY DEF Init, BaseInit
    <3>4. ops \in SUBSET Tags /\ m_refCount \in Int
      BY <2>1 DEF Tags
    <3> QED
      BY <2>1, <3>1, <3>2, <3>3, <3>4 DEF TypeOK
  <2>4. Ordered
    BY <2>1, <2>2 DEF Ordered
  <2>5. Counted
    <3>1. Cardinality({"start", "finish"}) = 2
      <4>1. IsFiniteSet({"start"}) /\ Cardinality({"start"}) = 1
        BY FS_Singleton
      <4>2. Cardinality({"start"} \cup {"finish"}) = 2
        BY <4>1, FS_AddElement
      <4>3. {"start"} \cup {"finish"} = {"start", "finish"}
        OBVIOUS
      <4> QED
        BY <4>2, <4>3, Zenon
    <3>2. Holders = 3
      BY <2>1, <2>2, <3>1 DEF Holders
    <3> QED
      BY <2>1, <3>2 DEF Counted
  <2>6. Idle({"write"}) /\ ~Idle({"finish"}) /\ Alone(Reader) /\ Alone({"write"})
    BY <2>1, <2>2 DEF Idle, Alone, Reader
  <2>7. OneAtATime /\ Current
    BY <2>1, <2>2, <2>6 DEF OneAtATime, Current
  <2>8. Answerable
    BY DEF Init, Answerable
  <2> QED
    BY <2>1, <2>3, <2>4, <2>5, <2>6, <2>7, <2>8 DEF IInv, Open
<1>2. IInv /\ [Next]_vars => IInv'
  <2> SUFFICES ASSUME IInv, [Next]_vars PROVE IInv'
    OBVIOUS
  <2>1. CASE Server
    BY <2>1, ElsewhereKeeps DEF Server, ServerSend, ServerClose
  <2>2. CASE Worker \/ WorkerWrite
    BY <2>2, WorkerKeeps
  <2>3. CASE EventLoop
    BY <2>3, EventLoopKeeps
  <2>4. CASE Write \/ WriteBad
    BY <2>4, WriteKeeps
  <2>5. CASE WriteDone
    BY <2>5, WriteDoneKeeps
  <2>6. CASE Abort
    BY <2>6, AbortKeeps
  <2>7. CASE UNCHANGED vars
    BY <2>7, ElsewhereKeeps DEF vars, baseVars
  <2> QED
    BY <2>1, <2>2, <2>3, <2>4, <2>5, <2>6, <2>7 DEF Next, Done
<1> QED
  BY <1>1, <1>2, PTL DEF SafeSpec

\* As long as the user has not called writeDone(), a deleted object has no
\* operation in gRPC, no posted event and no slot that could touch it.
THEOREM SafeDeletion == SafeSpec => []FreedUnused
<1>1. ASSUME IInv PROVE FreedUnused
  BY <1>1 DEF IInv, Open, Counted, FreedUnused, NoUseAfterFree
<1> QED
  BY <1>1, Invariance, PTL

\* Until then neither of the two undefined behaviours is reached: finishWrite
\* has a replay to answer, and no handler lets go of a deleted object.
THEOREM DefinedUntilClosed == SafeSpec => [](~closing => ~Undefined)
<1>1. ASSUME IInv, ~closing PROVE ~Undefined
  <2>1. posted \in Seq(Event) /\ ops \in SUBSET Tags
    BY <1>1 DEF IInv, TypeOK
  <2>2. m_refCount = Holders /\ Holders \in Nat
    BY <1>1, <2>1, HoldersSum DEF IInv, Open, Counted
  <2>3. ASSUME posted # <<>>, Head(posted).tag = "write" PROVE m_currentWriteReplay # 0
    <3>1. Len(posted) \in Nat \ {0}
      BY <2>1, <2>3, EmptySeq
    <3>2. 1 \in 1 .. Len(posted) /\ Head(posted) = posted[1]
      BY <2>1, <2>3, <3>1
    <3>3. ~Idle({"write"})
      BY <2>3, <3>2 DEF Idle
    <3> QED
      BY <1>1, <3>3 DEF IInv, Open, Current
  <2>4. ~(m_refCount < 0)
    BY <2>2
  <2> QED
    BY <2>3, <2>4 DEF Undefined
<1> QED
  BY <1>1, Invariance, PTL

\* A write that is not answered yet is in the queue or in progress, of an object
\* that exists, and finishRead is still to come: nobody waits for a replay that
\* the channel has forgotten.
THEOREM NoReplayForgotten ==
    SafeSpec => [](~closing =>
        \A r \in Replays : status[r] = "InProcess" => alive /\ r \in Waiting /\ ~Idle({"finish"}))
<1>1. ASSUME IInv, ~closing, NEW r \in Replays, status[r] = "InProcess"
      PROVE  alive /\ r \in Waiting /\ ~Idle({"finish"})
  <2>1. r \in Waiting /\ ~Idle({"finish"})
    BY <1>1 DEF IInv, Open, Answerable
  <2>2. alive
    <3>1. m_refCount = Holders /\ (alive <=> m_refCount # 0)
      BY <1>1 DEF IInv, Open, Counted
    <3>2. Holders = 0 => ops = {} /\ posted = <<>>
      BY <1>1, HoldersSum DEF IInv, TypeOK
    <3>3. ops = {} /\ posted = <<>> => Idle({"finish"})
      BY DEF Idle
    <3> QED
      BY <2>1, <3>1, <3>2, <3>3
  <2> QED
    BY <2>1, <2>2
<1>2. IInv => (~closing =>
        \A r \in Replays : status[r] = "InProcess" => alive /\ r \in Waiting /\ ~Idle({"finish"}))
  BY <1>1
<1> QED
  BY <1>2, Invariance, PTL

\* Writes, and a writeDone() behind them, reach gRPC one at a time in the order
\* of the calls.
THEOREM InOrder == SafeSpec => []WritesInOrder
<1>1. ASSUME IInv PROVE WritesInOrder
  <2> DEFINE q == [i \in 1 .. Len(m_sendQueue) |-> m_sendQueue[i].replay]
             all == wire \o q
  <2>1. /\ wire \in Seq(Replays)
        /\ Len(wire) \in Nat /\ Len(m_sendQueue) \in Nat
        /\ \A i \in 1 .. Len(m_sendQueue) : m_sendQueue[i].replay \in Replays
    BY <1>1, QueueElements DEF IInv, TypeOK
  <2>2. /\ q \in Seq(Replays) /\ Len(q) = Len(m_sendQueue)
        /\ \A i \in 1 .. Len(m_sendQueue) : q[i] = m_sendQueue[i].replay
    BY <2>1
  <2> HIDE DEF q
  <2>3. /\ Len(all) = Len(wire) + Len(q)
        /\ \A i \in 1 .. Len(wire) + Len(q) :
             all[i] = IF i <= Len(wire) THEN wire[i] ELSE q[i - Len(wire)]
    BY <2>1, <2>2, ConcatProperties
  <2> HIDE DEF all
  <2>4. ASSUME NEW i \in 1 .. Len(all), NEW j \in 1 .. Len(all), i < j
        PROVE  all[i] < all[j]
    <3>1. ASSUME NEW k \in 1 .. Len(all)
          PROVE  \/ k \in 1 .. Len(wire) /\ all[k] = wire[k]
                 \/ /\ k > Len(wire) /\ k - Len(wire) \in 1 .. Len(m_sendQueue)
                    /\ all[k] = m_sendQueue[k - Len(wire)].replay
      <4>1. k \in 1 .. Len(wire) + Len(q) /\ k \in 1 .. Len(wire) + Len(m_sendQueue)
        BY <2>2, <2>3, <3>1
      <4>2. CASE k <= Len(wire)
        BY <2>1, <2>3, <4>1, <4>2
      <4>3. CASE k > Len(wire)
        <5>1. k - Len(wire) \in 1 .. Len(m_sendQueue)
          BY <2>1, <4>1, <4>3
        <5>2. all[k] = q[k - Len(wire)]
          BY <2>1, <2>3, <4>1, <4>3
        <5> QED
          BY <2>2, <4>3, <5>1, <5>2
      <4> QED
        BY <2>1, <4>1, <4>2, <4>3
    <3>2. CASE i \in 1 .. Len(wire) /\ j \in 1 .. Len(wire)
      <4>1. all[i] = wire[i] /\ all[j] = wire[j]
        BY <2>1, <3>1, <3>2
      <4> QED
        BY <1>1, <2>4, <3>2, <4>1 DEF IInv, Ordered
    <3>3. CASE i \in 1 .. Len(wire) /\ j > Len(wire)
      <4>1. /\ all[i] = wire[i] /\ j - Len(wire) \in 1 .. Len(m_sendQueue)
            /\ all[j] = m_sendQueue[j - Len(wire)].replay
        BY <2>1, <3>1, <3>3
      <4> QED
        BY <1>1, <3>3, <4>1 DEF IInv, Ordered
    <3>4. CASE i > Len(wire) /\ j > Len(wire)
      <4>1. /\ i - Len(wire) \in 1 .. Len(m_sendQueue)
            /\ j - Len(wire) \in 1 .. Len(m_sendQueue)
            /\ all[i] = m_sendQueue[i - Len(wire)].replay
            /\ all[j] = m_sendQueue[j - Len(wire)].replay
        BY <2>1, <3>1, <3>4
      <4>2. i - Len(wire) < j - Len(wire)
        BY <2>1, <2>3, <2>4, <3>4
      <4> QED
        BY <1>1, <4>1, <4>2 DEF IInv, Ordered
    <3> QED
      BY <2>1, <2>4, <3>1, <3>2, <3>3, <3>4
  <2> QED
    BY <2>4 DEF WritesInOrder, all, q
<1> QED
  BY <1>1, Invariance, PTL
=============================================================================
