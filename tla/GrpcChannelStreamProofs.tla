----------------------- MODULE GrpcChannelStreamProofs -----------------------
(***************************************************************************)
(* Proofs about GrpcChannelStream, for any number of messages: the         *)
(* reference count of a QGrpcChannelStream is exact, the object is deleted *)
(* when nothing refers to it any more, no handler of the user runs after   *)
(* the stream has ended for him, and a stream that ends well has delivered *)
(* every message.                                                          *)
(***************************************************************************)
EXTENDS GrpcChannelStream, SequenceTheorems, FiniteSetTheorems, TLAPS

\* The operations that newData answers.
Reader == {"start", "read"}

\* The object is counted right, and gone only when nobody needs it.
Counted ==
    /\ alive => m_refCount = Holders
    /\ ~alive => ops = {} /\ posted = <<>> /\ ~shared

\* newData starts the next Read itself, so at most one Create or Read is
\* outstanding, be it in gRPC or in the event loop.  Without this the Read
\* that newData starts might be one that ops already has, and the count would
\* run ahead of it.
OneReader ==
    /\ ~(Reader \subseteq ops)
    /\ \A i \in 1 .. Len(posted) : posted[i].tag \in Reader =>
         /\ ops \cap Reader = {}
         /\ \A j \in 1 .. Len(posted) : posted[j].tag \in Reader => j = i

\* The connections hold the shared_ptr, and exist until the user knows the end.
Connections ==
    /\ connected <=> shared
    /\ connected => told = "open"

\* The inductive invariant.
IInv == TypeOK /\ Counted /\ OneReader /\ Connections

-----------------------------------------------------------------------------
(* Operations and events are finitely many. *)

\* Holders is the sum of natural numbers.
LEMMA HoldersType ==
    ASSUME NEW S \in SUBSET Tags
    PROVE  IsFiniteSet(S) /\ Cardinality(S) \in Nat /\ (Cardinality(S) = 0 <=> S = {})
<1>1. IsFiniteSet(Tags)
  <2>1. IsFiniteSet({"start"})
    BY FS_Singleton
  <2>2. IsFiniteSet({"start"} \cup {"read"})
    BY <2>1, FS_AddElement
  <2>3. IsFiniteSet(({"start"} \cup {"read"}) \cup {"finish"})
    BY <2>2, FS_AddElement
  <2>4. IsFiniteSet((({"start"} \cup {"read"}) \cup {"finish"}) \cup {"write"})
    BY <2>3, FS_AddElement
  <2>5. Tags = (({"start"} \cup {"read"}) \cup {"finish"}) \cup {"write"}
    BY DEF Tags
  <2> QED
    BY <2>4, <2>5
<1>2. IsFiniteSet(S)
  BY <1>1, FS_Subset
<1> QED
  BY <1>2, FS_CardinalityType, FS_EmptySet

\* What the event loop takes from the posted events.
LEMMA DispatchTakes ==
    ASSUME IInv, NEW t, NEW ok, Dispatch(t, ok)
    PROVE  /\ alive
           /\ t \in Tags /\ posted[1].tag = t
           /\ posted' \in Seq([tag : Tags, ok : BOOLEAN])
           /\ Len(posted) \in Nat \ {0}
           /\ Len(posted') = Len(posted) - 1
           /\ \A i \in 1 .. Len(posted') : posted'[i] = posted[i + 1]
<1> DEFINE Event == [tag : Tags, ok : BOOLEAN]
<1>1. posted \in Seq(Event) /\ posted # <<>>
  BY DEF IInv, TypeOK, BaseTypeOK, Dispatch
<1>2. Head(posted) = [tag |-> t, ok |-> ok] /\ posted' = Tail(posted) /\ alive
  BY DEF Dispatch
<1>3. Head(posted) \in Event => t \in Tags /\ Head(posted).tag = t
  BY <1>2
<1> HIDE DEF Event
<1>4. /\ Head(posted) \in Event
      /\ Tail(posted) \in Seq(Event)
      /\ Len(Tail(posted)) = Len(posted) - 1
      /\ \A i \in 1 .. Len(Tail(posted)) : Tail(posted)[i] = posted[i + 1]
  BY <1>1, HeadTailProperties
<1>5. Len(posted) \in Nat \ {0}
  BY <1>1, EmptySeq
<1>6. Head(posted) = posted[1]
  BY <1>1, <1>5
<1> QED
  BY <1>2, <1>3, <1>4, <1>5, <1>6 DEF Event

LEMMA DispatchedEvent ==
    ASSUME IInv, NEW t, NEW ok, Dispatch(t, ok)
    PROVE  posted[1] = [tag |-> t, ok |-> ok]
<1>1. posted # <<>> /\ Head(posted) = [tag |-> t, ok |-> ok]
  BY DEF Dispatch
<1>2. Head(posted) = posted[1]
  BY <1>1 DEF IInv, TypeOK, BaseTypeOK
<1> QED
  BY <1>1, <1>2

\* A handler that starts the operations new, which are not outstanding, and lets
\* go of the connections or not, leaves the count right.
LEMMA HandlerCounts ==
    ASSUME IInv, NEW t, NEW ok, Dispatch(t, ok),
           NEW new, new = {} \/ (new = {"read"} /\ "read" \notin ops),
           NEW released \in BOOLEAN, Refs(new, released)
    PROVE  /\ Counted'
           /\ ops' \in SUBSET Tags /\ m_refCount' \in Nat
           /\ alive' \in BOOLEAN /\ shared' \in BOOLEAN
           /\ shared' <=> (shared /\ ~released)
<1>1. /\ ops \in SUBSET Tags /\ m_refCount \in Nat /\ alive /\ shared \in BOOLEAN
      /\ m_refCount = Holders
  BY DispatchTakes DEF IInv, TypeOK, BaseTypeOK, Counted
<1>2. ops' = ops \cup new /\ ops' \in SUBSET Tags
  BY <1>1 DEF Refs, Tags
<1>3. Cardinality(new) \in Nat /\ Cardinality(ops') = Cardinality(ops) + Cardinality(new)
  <2>1. CASE new = {}
    BY <1>1, <1>2, <2>1, FS_EmptySet, HoldersType
  <2>2. CASE new = {"read"} /\ "read" \notin ops
    BY <1>1, <1>2, <2>2, HoldersType, FS_AddElement, FS_Singleton
  <2> QED
    BY <2>1, <2>2
<1>4. shared' = (shared /\ ~released) /\ shared' \in BOOLEAN
  BY <1>1 DEF Refs
<1>5. m_refCount' = Holders' /\ Holders' \in Nat
  <2> DEFINE was == IF shared THEN 1 ELSE 0
             is == IF shared' THEN 1 ELSE 0
             drop == IF shared /\ released THEN 1 ELSE 0
  <2>1. m_refCount' = m_refCount + Cardinality(new) - drop - 1
    BY DEF Refs
  <2>2. Cardinality(ops) \in Nat /\ Cardinality(ops') \in Nat
    BY <1>1, <1>2, HoldersType
  <2>3. Len(posted) \in Nat \ {0} /\ Len(posted') = Len(posted) - 1
    BY DispatchTakes
  <2>4. is = was - drop
    <3>1. CASE shared /\ released
      <4>1. ~shared'
        BY <1>4, <3>1
      <4> QED
        BY <3>1, <4>1
    <3>2. CASE shared /\ ~released
      <4>1. shared'
        BY <1>4, <3>2
      <4> QED
        BY <3>2, <4>1
    <3>3. CASE ~shared
      <4>1. ~shared'
        BY <1>4, <3>3
      <4> QED
        BY <3>3, <4>1
    <3> QED
      BY <3>1, <3>2, <3>3
  <2>5. was \in Nat /\ drop \in Nat /\ is \in Nat
    OBVIOUS
  <2>6. /\ Holders = Cardinality(ops) + Len(posted) + was
        /\ Holders' = Cardinality(ops') + Len(posted') + is
    BY DEF Holders
  <2>7. m_refCount = Holders
    BY <1>1
  <2> HIDE DEF was, is, drop
  <2>8. Holders' = Holders + Cardinality(new) - 1 - drop
    BY <1>3, <2>2, <2>3, <2>4, <2>5, <2>6
  <2>9. Holders' \in Nat
    BY <2>2, <2>3, <2>5, <2>6
  <2>10. Holders \in Nat
    BY <2>2, <2>3, <2>5, <2>6
  <2> QED
    BY <1>3, <2>1, <2>5, <2>7, <2>8, <2>9, <2>10
<1>6. alive' <=> Holders' # 0
  BY <1>1, <1>5 DEF Refs
<1>7. Holders' = 0 => ops' = {} /\ posted' = <<>> /\ ~shared'
  <2>1. Cardinality(ops') \in Nat /\ (Cardinality(ops') = 0 <=> ops' = {})
    BY <1>2, HoldersType
  <2>2. Len(posted') \in Nat /\ (Len(posted') = 0 => posted' = <<>>)
    BY DispatchTakes, LenProperties, EmptySeq
  <2> QED
    BY <1>4, <2>1, <2>2 DEF Holders
<1>8. alive' \in BOOLEAN
  BY DEF Refs
<1> QED
  BY <1>2, <1>4, <1>5, <1>6, <1>7, <1>8 DEF Counted

\* The event of a reader is the only one, and gRPC has none under way.
LEMMA LastReader ==
    ASSUME IInv, NEW t, t \in Reader, NEW ok, Dispatch(t, ok)
    PROVE  /\ ops \cap Reader = {}
           /\ \A i \in 1 .. Len(posted') : posted'[i].tag \notin Reader
<1>1. 1 \in 1 .. Len(posted) /\ posted[1].tag \in Reader
  BY DispatchTakes
<1>2. /\ ops \cap Reader = {}
      /\ \A j \in 1 .. Len(posted) : posted[j].tag \in Reader => j = 1
  BY <1>1 DEF IInv, OneReader
<1>3. \A i \in 1 .. Len(posted') :
        /\ i + 1 \in 1 .. Len(posted) /\ i + 1 # 1
        /\ posted'[i] = posted[i + 1]
  BY DispatchTakes
<1> QED
  BY <1>2, <1>3

\* Taking an event leaves at most one reader; taking the event of a reader
\* leaves none, so that the handler may start one.
LEMMA HandlerReads ==
    ASSUME IInv, NEW t, NEW ok, Dispatch(t, ok),
           NEW new, new = {} \/ (new = {"read"} /\ t \in Reader),
           ops' = ops \cup new
    PROVE  /\ OneReader'
           /\ t \in Reader => "read" \notin ops
<1>1. CASE t \in Reader
  BY <1>1, LastReader DEF OneReader, Reader
<1>2. CASE t \notin Reader
  <2>1. ops' = ops /\ ~(Reader \subseteq ops)
    BY <1>2 DEF IInv, OneReader
  <2>2. ASSUME NEW i \in 1 .. Len(posted'), posted'[i].tag \in Reader
        PROVE  /\ ops' \cap Reader = {}
               /\ \A j \in 1 .. Len(posted') : posted'[j].tag \in Reader => j = i
    <3>1. \A j \in 1 .. Len(posted') :
            /\ j + 1 \in 1 .. Len(posted)
            /\ posted'[j] = posted[j + 1]
      BY DispatchTakes
    <3>2. posted[i + 1].tag \in Reader /\ i + 1 \in 1 .. Len(posted)
      BY <2>2, <3>1
    <3>3. /\ ops \cap Reader = {}
          /\ \A j \in 1 .. Len(posted) : posted[j].tag \in Reader => j = i + 1
      BY <3>2 DEF IInv, OneReader
    <3>4. \A j \in 1 .. Len(posted') : posted'[j].tag \in Reader => j + 1 = i + 1
      BY <3>1, <3>3
    <3> QED
      BY <2>1, <3>3, <3>4
  <2> QED
    BY <1>2, <2>1, <2>2 DEF OneReader
<1> QED
  BY <1>1, <1>2

\* The worker moves an operation from gRPC to the event loop.
LEMMA PostCounts ==
    ASSUME IInv, NEW t, NEW ok \in BOOLEAN, Post(t, ok)
    PROVE  /\ Counted' /\ OneReader'
           /\ ops' \in SUBSET Tags
           /\ posted' \in Seq([tag : Tags, ok : BOOLEAN])
<1> DEFINE e == [tag |-> t, ok |-> ok]
<1>1. /\ ops \in SUBSET Tags /\ t \in ops
      /\ posted \in Seq([tag : Tags, ok : BOOLEAN])
      /\ ops' = ops \ {t}
      /\ posted' = Append(posted, e)
      /\ UNCHANGED <<m_refCount, alive, shared>>
  BY DEF IInv, TypeOK, BaseTypeOK, Post
<1>2. e \in [tag : Tags, ok : BOOLEAN] /\ e.tag = t
  BY <1>1
<1> HIDE DEF e
<1>3. /\ posted' \in Seq([tag : Tags, ok : BOOLEAN])
      /\ Len(posted) \in Nat /\ Len(posted') = Len(posted) + 1
      /\ \A i \in 1 .. Len(posted) : posted'[i] = posted[i]
      /\ posted'[Len(posted) + 1] = e
  BY <1>1, <1>2, AppendProperties, LenProperties
<1>4. alive
  BY <1>1 DEF IInv, Counted
<1>5. Counted'
  <2>1. Cardinality(ops) \in Nat /\ Cardinality(ops') = Cardinality(ops) - 1
    BY <1>1, HoldersType, FS_RemoveElement
  <2>2. m_refCount = Holders
    BY <1>4 DEF IInv, Counted
  <2>3. Holders' = Holders
    BY <1>1, <1>3, <2>1 DEF Holders
  <2> QED
    BY <1>1, <1>4, <2>2, <2>3 DEF Counted
<1>6. OneReader'
  <2>1. ~(Reader \subseteq ops')
    BY <1>1 DEF IInv, OneReader
  <2>2. CASE t \in Reader
    <3>1. ops' \cap Reader = {}
      BY <1>1, <2>2 DEF IInv, OneReader, Reader
    <3>2. \A i \in 1 .. Len(posted) : posted[i].tag \notin Reader
      BY <1>1, <2>2 DEF IInv, OneReader
    <3>3. \A i \in 1 .. Len(posted') : posted'[i].tag \in Reader => i = Len(posted) + 1
      BY <1>3, <3>2
    <3> QED
      BY <2>1, <3>1, <3>3 DEF OneReader
  <2>3. CASE t \notin Reader
    <3>1. ops' \cap Reader = ops \cap Reader
      BY <1>1, <2>3
    <3>2. \A i \in 1 .. Len(posted') : posted'[i].tag \in Reader =>
             i \in 1 .. Len(posted) /\ posted[i].tag \in Reader
      BY <1>2, <1>3, <2>3
    <3> QED
      BY <2>1, <3>1, <3>2 DEF IInv, OneReader
  <2> QED
    BY <2>2, <2>3
<1> QED
  BY <1>1, <1>3, <1>5, <1>6

-----------------------------------------------------------------------------
(* One lemma per actor. *)

\* The server and the worker.
LEMMA ServerKeeps == IInv /\ Server => IInv'
<1> SUFFICES ASSUME IInv, Server PROVE IInv'
  OBVIOUS
<1>1. /\ UNCHANGED <<ops, posted, m_grpc_status, m_refCount, alive, shared, streamVars>>
      /\ sent' \in 0 .. MaxMessages /\ got' \in 0 .. sent' /\ trailer' \in {"none"} \cup Codes
  BY MaxMessagesAssumption DEF Server, ServerSend, ServerClose, IInv, TypeOK, BaseTypeOK
<1>2. TypeOK'
  BY <1>1 DEF IInv, TypeOK, BaseTypeOK, streamVars
<1>3. Counted' /\ OneReader' /\ Connections'
  BY <1>1 DEF IInv, Counted, OneReader, Connections, Holders, streamVars
<1> QED
  BY <1>2, <1>3 DEF IInv

LEMMA WorkerKeeps == IInv /\ Worker => IInv'
<1> SUFFICES ASSUME IInv, Worker PROVE IInv'
  OBVIOUS
<1>1. PICK t \in Tags, ok \in BOOLEAN : Post(t, ok)
  <2>1. CASE CompleteSend("start")
    BY <2>1 DEF CompleteSend, Tags
  <2>2. CASE CompleteRead
    BY <2>2 DEF CompleteRead, Tags
  <2>3. CASE CompleteFinish
    BY <2>3 DEF CompleteFinish, Tags
  <2> QED
    BY <2>1, <2>2, <2>3 DEF Worker
<1>2. got' \in 0 .. sent' /\ m_grpc_status' \in Codes /\ UNCHANGED streamVars
  BY <1>1, MaxMessagesAssumption
  DEF Worker, CompleteSend, CompleteRead, CompleteFinish, Post, Codes, IInv, TypeOK, BaseTypeOK
<1>3. Counted' /\ OneReader' /\ ops' \in SUBSET Tags
        /\ posted' \in Seq([tag : Tags, ok : BOOLEAN])
  BY <1>1, PostCounts
<1>4. UNCHANGED <<sent, trailer, m_refCount, alive, shared>>
  BY <1>1 DEF Post
<1>5. TypeOK'
  BY <1>2, <1>3, <1>4 DEF IInv, TypeOK, BaseTypeOK, streamVars
<1>6. Connections'
  BY <1>2, <1>4 DEF IInv, Connections, streamVars
<1> QED
  BY <1>3, <1>5, <1>6 DEF IInv

\* The user, or the end of the client.
LEMMA AbortKeeps == IInv /\ Abort => IInv'
<1> SUFFICES ASSUME IInv, Abort PROVE IInv'
  OBVIOUS
<1>1. /\ shared /\ alive /\ ~shared' /\ ~connected'
      /\ m_refCount' = m_refCount - 1 /\ m_refCount = Holders
      /\ UNCHANGED <<sent, got, ops, posted, m_grpc_status, m_readerState, m_status, delivered>>
      /\ alive' = (m_refCount' # 0)
  BY DEF Abort, SharedPtrReleased, IInv, Connections, Counted
<1>2. /\ ops \in SUBSET Tags /\ ops' \in SUBSET Tags
      /\ posted \in Seq([tag : Tags, ok : BOOLEAN])
      /\ posted' \in Seq([tag : Tags, ok : BOOLEAN])
  BY <1>1 DEF IInv, TypeOK, BaseTypeOK
<1>3. /\ Cardinality(ops) \in Nat /\ (Cardinality(ops) = 0 <=> ops = {})
      /\ Len(posted) \in Nat /\ (Len(posted) = 0 => posted = <<>>)
  BY <1>2, HoldersType, LenProperties, EmptySeq
<1>4. /\ Holders = Cardinality(ops) + Len(posted) + 1
      /\ Holders' = Cardinality(ops) + Len(posted) + 0
  BY <1>1 DEF Holders
<1>5. m_refCount' = Holders' /\ m_refCount' \in Nat
  <2>1. m_refCount' = m_refCount - 1 /\ m_refCount = Holders
    BY <1>1
  <2> QED
    BY <1>3, <1>4, <2>1
<1>6. m_refCount' = 0 => ops' = {} /\ posted' = <<>>
  <2>1. m_refCount' = 0 => Cardinality(ops) = 0 /\ Len(posted) = 0
    BY <1>3, <1>4, <1>5
  <2> QED
    BY <1>1, <1>3, <2>1
<1>7. Counted'
  BY <1>1, <1>5, <1>6 DEF Counted
<1>8. OneReader' /\ Connections'
  BY <1>1 DEF IInv, OneReader, Connections
<1>9. TypeOK'
  <2>1. trailer' \in {"none"} \cup Codes
    BY DEF Abort, TryCancel, Codes, IInv, TypeOK, BaseTypeOK
  <2>2. connected' \in BOOLEAN /\ shared' \in BOOLEAN /\ alive' \in BOOLEAN /\ told' = "aborted"
    BY <1>1 DEF Abort, SharedPtrReleased
  <2> QED
    BY <1>1, <1>2, <1>5, <2>1, <2>2 DEF IInv, TypeOK, BaseTypeOK
<1> QED
  BY <1>7, <1>8, <1>9 DEF IInv

\* The handlers: each takes an event, and what it does to the count, to the
\* readers and to the connections follows from the lemmas above.
LEMMA EventLoopKeeps == IInv /\ EventLoop => IInv'
<1> SUFFICES ASSUME IInv, EventLoop PROVE IInv'
  OBVIOUS
<1>0. ASSUME NEW ok, DispatchNewData(ok)
      PROVE  \E t \in Reader : Dispatch(t, ok)
  BY <1>0 DEF DispatchNewData, Reader
<1>1. ASSUME NEW t, NEW ok, Dispatch(t, ok),
             NEW new, new = {} \/ (new = {"read"} /\ t \in Reader),
             NEW released \in BOOLEAN, Refs(new, released)
      PROVE  /\ Counted' /\ OneReader'
             /\ ops' \in SUBSET Tags /\ m_refCount' \in Nat
             /\ posted' \in Seq([tag : Tags, ok : BOOLEAN])
             /\ alive' \in BOOLEAN /\ shared' \in BOOLEAN
             /\ shared' <=> (shared /\ ~released)
  <2>1. ops' = ops \cup new
    BY <1>1 DEF Refs
  <2>2. OneReader' /\ (t \in Reader => "read" \notin ops)
    BY <1>1, <2>1, HandlerReads
  <2>3. posted' \in Seq([tag : Tags, ok : BOOLEAN])
    BY <1>1, DispatchTakes
  <2> QED
    BY <1>1, <2>2, <2>3, HandlerCounts
<1>2. TryCancel \in {"none"} \cup Codes
  BY DEF TryCancel, Codes, IInv, TypeOK, BaseTypeOK
<1>3. CASE NewDataEnd
  <2>1. PICK t \in Reader : Dispatch(t, FALSE)
    BY <1>0, <1>3 DEF NewDataEnd
  <2>2. Refs({}, FALSE)
    BY <1>3 DEF NewDataEnd
  <2>3. /\ Counted' /\ OneReader'
        /\ ops' \in SUBSET Tags /\ m_refCount' \in Nat
        /\ posted' \in Seq([tag : Tags, ok : BOOLEAN])
        /\ alive' \in BOOLEAN /\ shared' \in BOOLEAN
        /\ shared' <=> (shared /\ ~FALSE)
    BY <1>1, <2>1, <2>2
  <2> QED
    BY <1>3, <2>3 DEF NewDataEnd, IInv, TypeOK, BaseTypeOK, Connections
<1>4. CASE NewDataFirst
  <2>1. PICK t \in Reader : Dispatch(t, TRUE)
    BY <1>0, <1>4 DEF NewDataFirst
  <2>2. Refs({"read"}, FALSE)
    BY <1>4 DEF NewDataFirst
  <2>3. /\ Counted' /\ OneReader'
        /\ ops' \in SUBSET Tags /\ m_refCount' \in Nat
        /\ posted' \in Seq([tag : Tags, ok : BOOLEAN])
        /\ alive' \in BOOLEAN /\ shared' \in BOOLEAN
        /\ shared' <=> (shared /\ ~FALSE)
    BY <1>1, <2>1, <2>2
  <2> QED
    BY <1>4, <2>3 DEF NewDataFirst, IInv, TypeOK, BaseTypeOK, Connections
<1>5. CASE NewDataBad
  <2>1. PICK t \in Reader : Dispatch(t, TRUE)
    BY <1>0, <1>5 DEF NewDataBad
  <2>2. Refs({}, FALSE)
    BY <1>5 DEF NewDataBad
  <2>3. /\ Counted' /\ OneReader'
        /\ ops' \in SUBSET Tags /\ m_refCount' \in Nat
        /\ posted' \in Seq([tag : Tags, ok : BOOLEAN])
        /\ alive' \in BOOLEAN /\ shared' \in BOOLEAN
        /\ shared' <=> (shared /\ ~FALSE)
    BY <1>1, <2>1, <2>2
  <2>4. m_grpc_status' \in Codes /\ m_status' \in Codes
    BY <1>5 DEF NewDataBad, Codes
  <2> QED
    BY <1>2, <1>5, <2>3, <2>4 DEF NewDataBad, IInv, TypeOK, BaseTypeOK, Connections
<1>6. CASE NewData
  <2>1. PICK t \in Reader : Dispatch(t, TRUE)
    BY <1>0, <1>6 DEF NewData
  <2>2. PICK aborts \in BOOLEAN :
           /\ aborts => connected
           /\ connected' = (connected /\ ~aborts)
           /\ told' = IF aborts THEN "aborted" ELSE told
           /\ trailer' = IF aborts THEN TryCancel ELSE trailer
           /\ Refs({"read"}, aborts)
    BY <1>6 DEF NewData
  <2>3. /\ Counted' /\ OneReader'
        /\ ops' \in SUBSET Tags /\ m_refCount' \in Nat
        /\ posted' \in Seq([tag : Tags, ok : BOOLEAN])
        /\ alive' \in BOOLEAN /\ shared' \in BOOLEAN
        /\ shared' <=> (shared /\ ~aborts)
    BY <1>1, <2>1, <2>2
  <2>4. Connections'
    BY <2>2, <2>3 DEF IInv, Connections
  <2>5. /\ m_grpc_status' \in Codes /\ delivered' \in Nat
        /\ trailer' \in {"none"} \cup Codes /\ connected' \in BOOLEAN
        /\ told' \in {"open", "aborted", "OK", "ERR"}
    BY <1>2, <1>6, <2>2 DEF NewData, Codes, IInv, TypeOK, BaseTypeOK
  <2> QED
    BY <1>6, <2>3, <2>4, <2>5 DEF NewData, IInv, TypeOK, BaseTypeOK
<1>7. CASE FinishRead
  <2>1. Dispatch("finish", TRUE) /\ Refs({}, connected) /\ connected \in BOOLEAN
    BY <1>7 DEF FinishRead, IInv, TypeOK
  <2>2. /\ Counted' /\ OneReader'
        /\ ops' \in SUBSET Tags /\ m_refCount' \in Nat
        /\ posted' \in Seq([tag : Tags, ok : BOOLEAN])
        /\ alive' \in BOOLEAN /\ shared' \in BOOLEAN
        /\ shared' <=> (shared /\ ~connected)
    BY <1>1, <2>1
  <2>3. Connections'
    BY <1>7, <2>2 DEF FinishRead, IInv, Connections
  <2>4. m_status' \in Codes /\ told' \in {"open", "aborted", "OK", "ERR"}
    BY <1>7 DEF FinishRead, Codes, IInv, TypeOK, BaseTypeOK
  <2> QED
    BY <1>7, <2>2, <2>3, <2>4 DEF FinishRead, IInv, TypeOK, BaseTypeOK
<1> QED
  BY <1>3, <1>4, <1>5, <1>6, <1>7 DEF EventLoop

-----------------------------------------------------------------------------

\* The invariant holds of a stream that has just been started.
LEMMA InitIInv == Init => IInv
<1> SUFFICES ASSUME Init PROVE IInv
  OBVIOUS
<1>1. TypeOK
  BY MaxMessagesAssumption DEF Init, BaseInit, TypeOK, BaseTypeOK, Tags, Codes
<1>2. Holders = 3
  <2>1. ops = {"start"} \cup {"finish"} /\ "finish" \notin {"start"}
    BY DEF Init, BaseInit
  <2>2. IsFiniteSet({"start"}) /\ Cardinality({"start"}) = 1
    BY FS_Singleton
  <2>3. Cardinality({"start"} \cup {"finish"}) = Cardinality({"start"}) + 1
    BY <2>1, <2>2, FS_AddElement
  <2>4. Cardinality(ops) = 2
    BY <2>1, <2>2, <2>3
  <2>5. posted = <<>> /\ shared = TRUE
    BY DEF Init, BaseInit
  <2> QED
    BY <2>4, <2>5 DEF Holders
<1>3. Counted /\ OneReader /\ Connections
  BY <1>2 DEF Counted, OneReader, Connections, Reader, Init, BaseInit
<1> QED
  BY <1>1, <1>3 DEF IInv

\* IInv is inductive: every step of the server, the worker, the event loop and
\* the user keeps it.
THEOREM Invariance == SafeSpec => []IInv
<1>1. ASSUME IInv, [Next]_vars PROVE IInv'
  <2>1. CASE UNCHANGED vars
    BY <1>1, <2>1
    DEF vars, baseVars, streamVars, IInv, TypeOK, BaseTypeOK, Counted, Holders, OneReader, Connections
  <2>2. CASE Done
    BY <1>1, <2>2
    DEF Done, vars, baseVars, streamVars, IInv, TypeOK, BaseTypeOK, Counted, Holders, OneReader, Connections
  <2> QED
    BY <1>1, <2>1, <2>2, ServerKeeps, WorkerKeeps, EventLoopKeeps, AbortKeeps DEF Next
<1> QED
  BY <1>1, InitIInv, PTL DEF SafeSpec

\* The state of a stream keeps its types; the reference count is never negative.
THEOREM TypeCorrectness == SafeSpec => []TypeOK
<1>1. IInv => TypeOK
  BY DEF IInv
<1> QED
  BY <1>1, Invariance, PTL

\* The rule of qgrpcchannel_p.h:90-94 holds of every stream: m_refCount is one
\* for the shared_ptr and one for each operation or posted event.
THEOREM RefCounting == SafeSpec => []RefCountExact
<1>1. IInv => RefCountExact
  BY DEF IInv, Counted, RefCountExact
<1> QED
  BY <1>1, Invariance, PTL

\* Nothing refers to a QGrpcChannelStream that has been deleted.
THEOREM SafeDeletion == SafeSpec => []NoUseAfterFree
<1>1. IInv => NoUseAfterFree
  <2> SUFFICES ASSUME IInv, ~alive PROVE Holders = 0
    BY DEF NoUseAfterFree
  <2>1. ops = {} /\ posted = <<>> /\ ~shared
    BY DEF IInv, Counted
  <2> QED
    BY <2>1, FS_EmptySet DEF Holders
<1> QED
  BY <1>1, Invariance, PTL

\* After an abort, an error or the end of the stream no message reaches the
\* user, whatever Reads and events are still under way.
THEOREM Silence == SafeSpec => SilentAfterEnd
<1>1. ASSUME IInv, [Next]_vars PROVE [told # "open" => delivered' = delivered]_vars
  <2> SUFFICES ASSUME Next, told # "open" PROVE delivered' = delivered
    BY <1>1
  <2>1. ~connected
    BY <1>1 DEF IInv, Connections
  <2>2. CASE EventLoop
    BY <2>1, <2>2 DEF EventLoop, NewDataEnd, NewDataFirst, NewDataBad, NewData, FinishRead
  <2>3. CASE Server \/ Worker \/ Abort \/ Done
    BY <2>3 DEF Server, Worker, Abort, Done, vars, streamVars
  <2> QED
    BY <2>2, <2>3 DEF Next
<1> QED
  BY <1>1, Invariance, PTL DEF SafeSpec, SilentAfterEnd
-----------------------------------------------------------------------------
(* Completeness.  That no message is missing when a stream ends with OK is a *)
(* matter of order: Finish completes once every message was read, and its    *)
(* event is behind those of the Reads.                                       *)

Pending(e) == \E i \in 1 .. Len(posted) : posted[i] = e
PendingTag(t) == \E i \in 1 .. Len(posted) : posted[i].tag = t

Message == [tag |-> "read", ok |-> TRUE]

\* m_readerState tells the answer of Create from the answers of Reads.
Phases ==
    /\ "start" \in ops \/ PendingTag("start") => m_readerState = "FIRST_CALL"
    /\ "read" \in ops \/ PendingTag("read") => m_readerState = "PROCESSING"

\* Finish completes once, when the call has ended and, unless it failed, every
\* message was read; no message is posted behind it then.
FinishLast ==
    /\ trailer = "none" => "finish" \in ops
    /\ PendingTag("finish") \/ told \in Codes => "finish" \notin ops
    /\ trailer = "OK" /\ "finish" \notin ops => got = sent
    /\ trailer = "OK" => \A i, j \in 1 .. Len(posted) :
          posted[i].tag = "finish" /\ posted[j] = Message => j < i

\* While the stream is connected, and every message could be dumped, the user has
\* got what was read but for a message that is posted.
Delivery ==
    connected /\ m_status = "OK" =>
        got = delivered + (IF Pending(Message) THEN 1 ELSE 0)

\* The inductive invariant of the completeness theorem, on top of IInv.
CInv == Phases /\ FinishLast /\ Delivery /\ OkCloseIsComplete
\* The event that is taken was there.
LEMMA TakenWasPending ==
    ASSUME IInv, NEW t, NEW ok, Dispatch(t, ok)
    PROVE  1 \in 1 .. Len(posted) /\ posted[1].tag = t /\ PendingTag(t)
<1>1. Len(posted) \in Nat \ {0} /\ posted[1].tag = t
  BY DispatchTakes
<1>2. 1 \in 1 .. Len(posted)
  BY <1>1
<1> QED
  BY <1>1, <1>2 DEF PendingTag

\* What taking an event does to the events that are left: they move up by one.
LEMMA EventsMoveUp ==
    ASSUME IInv, NEW t, NEW ok, Dispatch(t, ok)
    PROVE  /\ \A e : Pending(e)' => Pending(e)
           /\ \A u : PendingTag(u)' => PendingTag(u)
           /\ \A e : e # [tag |-> t, ok |-> ok] /\ Pending(e) => Pending(e)'
<1>1. /\ Len(posted) \in Nat \ {0} /\ Len(posted') = Len(posted) - 1
      /\ \A i \in 1 .. Len(posted') : posted'[i] = posted[i + 1]
  BY DispatchTakes
<1>2. posted[1] = [tag |-> t, ok |-> ok]
  BY DispatchedEvent
<1>3. \A i \in 1 .. Len(posted') : i + 1 \in 1 .. Len(posted)
  BY <1>1
<1>4. \A i \in 1 .. Len(posted) : i # 1 =>
         i - 1 \in 1 .. Len(posted') /\ posted'[i - 1] = posted[i]
  BY <1>1
<1>5. ASSUME NEW e, Pending(e)' PROVE Pending(e)
  <2>1. PICK i \in 1 .. Len(posted') : posted'[i] = e
    BY <1>5 DEF Pending
  <2> QED
    BY <1>1, <1>3, <2>1 DEF Pending
<1>6. ASSUME NEW u, PendingTag(u)' PROVE PendingTag(u)
  <2>1. PICK i \in 1 .. Len(posted') : posted'[i].tag = u
    BY <1>6 DEF PendingTag
  <2> QED
    BY <1>1, <1>3, <2>1 DEF PendingTag
<1>7. ASSUME NEW e, e # [tag |-> t, ok |-> ok], Pending(e) PROVE Pending(e)'
  <2>1. PICK i \in 1 .. Len(posted) : posted[i] = e
    BY <1>7 DEF Pending
  <2>2. i # 1
    BY <1>2, <1>7, <2>1
  <2> QED
    BY <1>4, <2>1, <2>2 DEF Pending
<1> QED
  BY <1>5, <1>6, <1>7

\* A handler starts no Finish, and a call that it cancels has not ended with OK:
\* Finish stays the last.
LEMMA HandlerFinishLast ==
    ASSUME IInv, CInv, NEW t, NEW ok, Dispatch(t, ok),
           NEW new, new = {} \/ new = {"read"}, ops' = ops \cup new,
           trailer' = trailer \/ trailer' = TryCancel, UNCHANGED <<sent, got>>,
           told' \in Codes => t = "finish" \/ told \in Codes
    PROVE  FinishLast'
<1>1. /\ trailer' = "none" => trailer = "none"
      /\ trailer' = "OK" => trailer = "OK"
  BY DEF TryCancel
<1>2. "finish" \in ops' <=> "finish" \in ops
  OBVIOUS
<1>3. PendingTag("finish")' => PendingTag("finish")
  BY EventsMoveUp
<1>4. ASSUME trailer' = "OK",
             NEW i \in 1 .. Len(posted'), NEW j \in 1 .. Len(posted'),
             posted'[i].tag = "finish", posted'[j] = Message
      PROVE  j < i
  <2>1. /\ Len(posted) \in Nat /\ Len(posted') = Len(posted) - 1
        /\ posted'[i] = posted[i + 1] /\ posted'[j] = posted[j + 1]
    BY DispatchTakes
  <2>2. i + 1 \in 1 .. Len(posted) /\ j + 1 \in 1 .. Len(posted)
    BY <2>1
  <2>3. j + 1 < i + 1
    BY <1>1, <1>4, <2>1, <2>2 DEF CInv, FinishLast
  <2> QED
    BY <2>1, <2>3
<1>5. told' \in Codes => "finish" \notin ops
  <2>1. t = "finish" => PendingTag("finish")
    BY TakenWasPending
  <2> QED
    BY <2>1 DEF CInv, FinishLast
<1> QED
  BY <1>1, <1>2, <1>3, <1>4, <1>5 DEF CInv, FinishLast

\* newData leaves no reader but the one that it starts.
LEMMA NewDataPhases ==
    ASSUME IInv, NEW t, t \in Reader, NEW ok, Dispatch(t, ok),
           NEW new, new = {} \/ (new = {"read"} /\ m_readerState' = "PROCESSING"),
           ops' = ops \cup new
    PROVE  /\ Phases'
           /\ ~Pending(Message)'
<1>1. /\ ops \cap Reader = {}
      /\ \A i \in 1 .. Len(posted') : posted'[i].tag \notin Reader
  BY LastReader
<1>2. ~PendingTag("start")' /\ ~PendingTag("read")'
  BY <1>1 DEF PendingTag, Reader
<1>3. ~Pending(Message)'
  <2>1. Message.tag = "read"
    BY DEF Message
  <2> QED
    BY <1>2, <2>1 DEF Pending, PendingTag
<1>4. "start" \notin ops' /\ ("read" \in ops' => m_readerState' = "PROCESSING")
  BY <1>1 DEF Reader
<1> QED
  BY <1>2, <1>3, <1>4 DEF Phases

-----------------------------------------------------------------------------

LEMMA ServerCompletes == IInv /\ CInv /\ Server => CInv'
<1> SUFFICES ASSUME IInv, CInv, Server PROVE CInv'
  OBVIOUS
<1>1. /\ UNCHANGED <<got, ops, posted, m_readerState, m_status, connected, delivered, told>>
      /\ trailer = "none" /\ told' = told
      /\ trailer' = "none" \/ sent' = sent
  BY DEF Server, ServerSend, ServerClose, streamVars
<1>2. "finish" \in ops
  BY <1>1 DEF CInv, FinishLast
<1>3. ~PendingTag("finish") /\ told \notin Codes
  BY <1>2 DEF CInv, FinishLast
<1>4. Phases' /\ Delivery'
  BY <1>1 DEF CInv, Phases, Delivery, Pending, PendingTag
<1>5. FinishLast'
  BY <1>1, <1>2, <1>3 DEF FinishLast, PendingTag
<1>6. OkCloseIsComplete'
  BY <1>1, <1>3 DEF OkCloseIsComplete, Codes
<1> QED
  BY <1>4, <1>5, <1>6 DEF CInv

\* The worker: a Read takes a message to the event loop, and Finish follows the
\* last one.
LEMMA WorkerCompletes == IInv /\ CInv /\ Worker => CInv'
<1> SUFFICES ASSUME IInv, CInv, Worker PROVE CInv'
  OBVIOUS
<1>1. PICK t \in Tags, ok \in BOOLEAN :
        /\ Post(t, ok)
        /\ t = "finish" => trailer # "none" /\ (trailer = "OK" => got = sent)
        /\ t = "read" /\ ok => got < sent /\ got' = got + 1
        /\ ~(t = "read" /\ ok) => got' = got
  <2>1. CASE CompleteSend("start")
    BY <2>1 DEF CompleteSend, Tags
  <2>2. CASE CompleteRead
    BY <2>2 DEF CompleteRead, Tags
  <2>3. CASE CompleteFinish
    BY <2>3 DEF CompleteFinish, Tags
  <2> QED
    BY <2>1, <2>2, <2>3 DEF Worker
<1> DEFINE n == Len(posted) + 1
           e0 == [tag |-> t, ok |-> ok]
<1>2. /\ t \in ops /\ ops' = ops \ {t} /\ UNCHANGED <<sent, trailer, streamVars>>
      /\ m_readerState' = m_readerState /\ m_status' = m_status
      /\ connected' = connected /\ delivered' = delivered /\ told' = told
  BY <1>1 DEF Post, Worker, streamVars
<1>3. /\ n \in 1 .. Len(posted') /\ posted'[n] = e0
      /\ \A i \in 1 .. Len(posted) : i \in 1 .. Len(posted') /\ posted'[i] = posted[i] /\ i < n
      /\ \A i \in 1 .. Len(posted') : i # n => i \in 1 .. Len(posted)
  <2>1. posted \in Seq([tag : Tags, ok : BOOLEAN]) /\ Len(posted) \in Nat
    BY LenProperties DEF IInv, TypeOK, BaseTypeOK
  <2>2. posted' = Append(posted, e0)
    BY <1>1 DEF Post
  <2> HIDE DEF e0
  <2> QED
    BY <2>1, <2>2
<1>4. e0.tag = t /\ (e0 = Message <=> t = "read" /\ ok)
  BY DEF Message
<1> HIDE DEF n, e0
<1>5. \A u : PendingTag(u)' <=> (PendingTag(u) \/ u = t)
  BY <1>3, <1>4 DEF PendingTag
<1>6. Pending(Message)' <=> (Pending(Message) \/ (t = "read" /\ ok))
  <2>1. Pending(Message)' <=> (Pending(Message) \/ Message = e0)
    BY <1>3 DEF Pending
  <2> QED
    BY <1>4, <2>1
<1>7. Phases'
  <2>1. /\ PendingTag("start")' <=> (PendingTag("start") \/ t = "start")
        /\ PendingTag("read")' <=> (PendingTag("read") \/ t = "read")
    BY <1>5
  <2> QED
    BY <1>2, <2>1 DEF CInv, Phases
<1>8. Delivery'
  <2>1. t = "read" => ~Pending(Message)
    <3>1. t = "read" => ~PendingTag("read")
      BY <1>2 DEF PendingTag, IInv, OneReader, Reader
    <3>2. Pending(Message) => PendingTag("read")
      BY DEF Pending, PendingTag, Message
    <3> QED
      BY <3>1, <3>2
  <2>2. CASE t = "read" /\ ok
    <3>1. Pending(Message)' /\ ~Pending(Message) /\ got' = got + 1
      BY <1>1, <1>6, <2>1, <2>2
    <3> QED
      BY <1>2, <3>1 DEF CInv, Delivery, IInv, TypeOK, BaseTypeOK
  <2>3. CASE ~(t = "read" /\ ok)
    <3>1. (Pending(Message)' <=> Pending(Message)) /\ got' = got
      BY <1>1, <1>6, <2>3
    <3> QED
      BY <1>2, <3>1 DEF CInv, Delivery
  <2> QED
    BY <2>2, <2>3
<1>9. FinishLast'
  <2>1. PendingTag("finish")' <=> (PendingTag("finish") \/ t = "finish")
    BY <1>5
  <2>2. t = "read" /\ ok /\ trailer = "OK" => "finish" \in ops
    <3>1. t = "read" /\ ok => got # sent
      BY <1>1 DEF IInv, TypeOK, BaseTypeOK
    <3> QED
      BY <3>1 DEF CInv, FinishLast
  <2>3. ASSUME trailer' = "OK",
               NEW i \in 1 .. Len(posted'), NEW j \in 1 .. Len(posted'),
               posted'[i].tag = "finish", posted'[j] = Message
        PROVE  j < i
    <3>1. CASE j = n
      <4>1. t = "read" /\ ok
        BY <1>3, <1>4, <2>3, <3>1
      <4>2. i # n
        BY <1>3, <1>4, <2>3, <4>1
      <4>3. PendingTag("finish")
        BY <1>3, <2>3, <4>2 DEF PendingTag
      <4> QED
        BY <1>2, <2>2, <2>3, <4>1, <4>3 DEF CInv, FinishLast
    <3>2. CASE j # n /\ i = n
      BY <1>3, <3>2
    <3>3. CASE j # n /\ i # n
      <4>1. /\ i \in 1 .. Len(posted) /\ j \in 1 .. Len(posted)
            /\ posted[i].tag = "finish" /\ posted[j] = Message
        BY <1>3, <2>3, <3>3
      <4> QED
        BY <1>2, <2>3, <4>1 DEF CInv, FinishLast
    <3> QED
      BY <3>1, <3>2, <3>3
  <2>4. trailer' = "none" => "finish" \in ops'
    BY <1>1, <1>2 DEF CInv, FinishLast
  <2>5. PendingTag("finish")' \/ told' \in Codes => "finish" \notin ops'
    BY <1>2, <2>1 DEF CInv, FinishLast
  <2>6. trailer' = "OK" /\ "finish" \notin ops' => got' = sent'
    BY <1>1, <1>2, <2>2 DEF CInv, FinishLast
  <2> QED
    BY <2>3, <2>4, <2>5, <2>6 DEF FinishLast
<1>10. OkCloseIsComplete'
  BY <1>2 DEF CInv, OkCloseIsComplete
<1> QED
  BY <1>7, <1>8, <1>9, <1>10 DEF CInv

\* An abort ends the delivery.
LEMMA AbortCompletes == IInv /\ CInv /\ Abort => CInv'
<1> SUFFICES ASSUME IInv, CInv, Abort PROVE CInv'
  OBVIOUS
<1>1. /\ UNCHANGED <<sent, got, ops, posted, m_readerState>>
      /\ ~connected' /\ told' = "aborted" /\ trailer' = TryCancel
  BY DEF Abort, SharedPtrReleased
<1>2. /\ trailer' = "none" => trailer = "none"
      /\ trailer' = "OK" => trailer = "OK"
  BY <1>1 DEF TryCancel
<1>3. Phases' /\ Delivery' /\ OkCloseIsComplete'
  BY <1>1 DEF CInv, Phases, PendingTag, Delivery, OkCloseIsComplete
<1>4. FinishLast'
  BY <1>1, <1>2 DEF CInv, FinishLast, PendingTag, Codes
<1> QED
  BY <1>3, <1>4 DEF CInv

\* newData and finishRead: the next message goes to the user, and when Finish is
\* next there is none left.
LEMMA EventLoopCompletes == IInv /\ CInv /\ EventLoop => CInv'
<1> SUFFICES ASSUME IInv, CInv, EventLoop PROVE CInv'
  OBVIOUS
<1>1. ASSUME NEW ok, DispatchNewData(ok)
      PROVE  \E t \in Reader : Dispatch(t, ok)
  BY <1>1 DEF DispatchNewData, Reader
<1>2. told \in Codes => ~connected
  BY DEF IInv, Connections, Codes
<1>3. CASE NewDataEnd
  <2>1. PICK t \in Reader : Dispatch(t, FALSE)
    BY <1>1, <1>3 DEF NewDataEnd
  <2>2. ops' = ops \cup {} /\ UNCHANGED <<sent, got, trailer, m_status, connected, delivered, told>>
    BY <1>3 DEF NewDataEnd, Refs
  <2>3. Phases' /\ ~Pending(Message)'
    BY <2>1, <2>2, NewDataPhases
  <2>4. FinishLast'
    BY <2>1, <2>2, HandlerFinishLast
  <2>5. Message # [tag |-> t, ok |-> FALSE]
    BY DEF Message
  <2>6. ~Pending(Message)
    BY <2>1, <2>3, <2>5, EventsMoveUp
  <2>7. Delivery' /\ OkCloseIsComplete'
    BY <2>2, <2>3, <2>6 DEF CInv, Delivery, OkCloseIsComplete
  <2> QED
    BY <2>3, <2>4, <2>7 DEF CInv
<1>4. CASE NewDataFirst
  <2>1. PICK t \in Reader : Dispatch(t, TRUE)
    BY <1>1, <1>4 DEF NewDataFirst
  <2>2. /\ ops' = ops \cup {"read"} /\ m_readerState = "FIRST_CALL" /\ m_readerState' = "PROCESSING"
        /\ UNCHANGED <<sent, got, trailer, m_status, connected, delivered, told>>
    BY <1>4 DEF NewDataFirst, Refs
  <2>3. Phases' /\ ~Pending(Message)'
    BY <2>1, <2>2, NewDataPhases
  <2>4. FinishLast'
    BY <2>1, <2>2, HandlerFinishLast
  <2>5. Message # [tag |-> t, ok |-> TRUE]
    <3>1. t = "read" => PendingTag("read")
      BY <2>1, TakenWasPending
    <3>2. t # "read"
      BY <2>2, <3>1 DEF CInv, Phases
    <3> QED
      BY <3>2 DEF Message
  <2>6. ~Pending(Message)
    BY <2>1, <2>3, <2>5, EventsMoveUp
  <2>7. Delivery' /\ OkCloseIsComplete'
    BY <2>2, <2>3, <2>6 DEF CInv, Delivery, OkCloseIsComplete
  <2> QED
    BY <2>3, <2>4, <2>7 DEF CInv
<1>5. CASE NewDataBad
  <2>1. PICK t \in Reader : Dispatch(t, TRUE)
    BY <1>1, <1>5 DEF NewDataBad
  <2>2. /\ ops' = ops \cup {} /\ trailer' = TryCancel /\ m_status' = "ERR"
        /\ UNCHANGED <<sent, got, connected, delivered, told>>
    BY <1>5 DEF NewDataBad, Refs
  <2>3. Phases'
    BY <2>1, <2>2, NewDataPhases
  <2>4. FinishLast'
    BY <2>1, <2>2, HandlerFinishLast
  <2>5. Delivery' /\ OkCloseIsComplete'
    BY <2>2 DEF CInv, Delivery, OkCloseIsComplete, TryCancel
  <2> QED
    BY <2>3, <2>4, <2>5 DEF CInv
<1>6. CASE NewData
  <2>1. PICK t \in Reader : Dispatch(t, TRUE)
    BY <1>1, <1>6 DEF NewData
  <2>2. PICK aborts \in BOOLEAN :
           /\ connected' = (connected /\ ~aborts)
           /\ told' = IF aborts THEN "aborted" ELSE told
           /\ trailer' = IF aborts THEN TryCancel ELSE trailer
           /\ aborts => connected
    BY <1>6 DEF NewData
  <2>3. /\ ops' = ops \cup {"read"} /\ m_readerState = "PROCESSING" /\ m_readerState' = "PROCESSING"
        /\ delivered' = IF connected THEN delivered + 1 ELSE delivered
        /\ UNCHANGED <<sent, got, m_status>>
    BY <1>6 DEF NewData, Refs
  <2>4. Phases' /\ ~Pending(Message)'
    BY <2>1, <2>3, NewDataPhases
  <2>5. FinishLast'
    <3>1. told' \in Codes => told \in Codes
      BY <2>2 DEF Codes
    <3> QED
      BY <2>1, <2>2, <2>3, <3>1, HandlerFinishLast
  <2>6. Pending(Message)
    <3>1. t = "start" => PendingTag("start")
      BY <2>1, TakenWasPending
    <3>2. t = "read"
      BY <2>3, <3>1 DEF CInv, Phases, Reader
    <3>3. posted[1] = Message
      BY <2>1, <3>2, DispatchedEvent DEF Message
    <3> QED
      BY <2>1, <3>3, TakenWasPending DEF Pending
  <2>7. Delivery'
    BY <2>2, <2>3, <2>4, <2>6 DEF CInv, Delivery, IInv, TypeOK
  <2>8. OkCloseIsComplete'
    BY <1>2, <2>2, <2>3 DEF CInv, OkCloseIsComplete, Codes
  <2> QED
    BY <2>4, <2>5, <2>7, <2>8 DEF CInv
<1>7. CASE FinishRead
  <2>1. Dispatch("finish", TRUE)
    BY <1>7 DEF FinishRead
  <2>2. /\ ops' = ops \cup {} /\ ~connected'
        /\ told' = IF connected THEN m_status' ELSE told
        /\ m_status' = IF m_status = "OK" \/ m_grpc_status # "OK" THEN m_grpc_status ELSE m_status
        /\ UNCHANGED <<sent, got, trailer, m_readerState, delivered>>
    BY <1>7 DEF FinishRead, Refs
  <2>3. Phases'
    BY <2>1, <2>2, EventsMoveUp DEF CInv, Phases
  <2>4. FinishLast'
    BY <2>1, <2>2, HandlerFinishLast
  <2>5. Delivery'
    BY <2>2 DEF Delivery
  <2>6. OkCloseIsComplete'
    <3>1. PendingTag("finish") /\ 1 \in 1 .. Len(posted) /\ posted[1].tag = "finish"
      BY <2>1, TakenWasPending
    <3>2. trailer = "OK" => got = sent
      BY <3>1 DEF CInv, FinishLast
    <3>3. trailer = "OK" => ~Pending(Message)
      BY <3>1 DEF CInv, FinishLast, Pending
    <3>4. m_status' = "OK" => m_status = "OK"
      BY <2>2 DEF IInv, TypeOK, Codes
    <3>5. CASE connected
      BY <2>2, <3>2, <3>3, <3>4, <3>5 DEF CInv, Delivery, OkCloseIsComplete, IInv, TypeOK
    <3>6. CASE ~connected
      BY <2>2, <3>6 DEF CInv, OkCloseIsComplete
    <3> QED
      BY <3>5, <3>6
  <2> QED
    BY <2>3, <2>4, <2>5, <2>6 DEF CInv
<1> QED
  BY <1>3, <1>4, <1>5, <1>6, <1>7 DEF EventLoop

\* A stream that the server has closed with OK, and that ends with OK for the
\* user, has delivered all its messages: no interleaving of Reads, Finish and
\* their events loses the last ones.
THEOREM Completeness == SafeSpec => []OkCloseIsComplete
<1>1. Init => CInv
  BY DEF Init, BaseInit, CInv, Phases, FinishLast, Delivery, OkCloseIsComplete, Pending, PendingTag, Codes
<1>2. ASSUME IInv, CInv, [Next]_vars PROVE CInv'
  <2>1. ASSUME UNCHANGED vars PROVE CInv'
    BY <1>2, <2>1 DEF vars, baseVars, streamVars, CInv, Phases, FinishLast, Delivery,
                      OkCloseIsComplete, Pending, PendingTag
  <2> QED
    BY <1>2, <2>1, ServerCompletes, WorkerCompletes, EventLoopCompletes, AbortCompletes DEF Next, Done
<1>3. CInv => OkCloseIsComplete
  BY DEF CInv
<1> QED
  BY <1>1, <1>2, <1>3, Invariance, PTL DEF SafeSpec
=============================================================================
