-------------------------- MODULE GrpcClientProofs --------------------------
(***************************************************************************)
(* Proofs about GrpcClient, for any number of stream objects, keys and     *)
(* timers: the client keeps one stream for a method and argument; and when *)
(* callers let go of a stream that has finished, a finished stream is not  *)
(* served any more and a server stream has one subscription.               *)
(***************************************************************************)
EXTENDS GrpcClient, SequenceTheorems, TLAPS

\* A stream is in activeStreams exactly once as long as the client's slots are
\* connected to it, and it has not finished then.
Wiring ==
    /\ wired = {activeStreams[i] : i \in 1 .. Len(activeStreams)}
    /\ \A i, j \in 1 .. Len(activeStreams) : activeStreams[i] = activeStreams[j] => i = j
    /\ closed \cap wired = {}

\* stream() looks for an equal stream first.
KeysDistinct == \A s, u \in wired : key[s] = key[u] => s = u

\* Callers that let go of finished streams hold wired ones only, so that a timer
\* that is late finds no object to subscribe.  A wired server stream has its
\* subscription or the timer that will renew it.
Served ==
    ~KeepsFinished =>
        /\ held \subseteq wired
        /\ \A s \in Streams : s \notin wired => subs[s] = 0
        /\ \A s \in wired : ~Bidirect(s) => subs[s] + timers[s] <= 1

\* The inductive invariant.
IInv == TypeOK /\ Wiring /\ KeysDistinct /\ Served

-----------------------------------------------------------------------------
(* Sequences. *)

\* What RemoveAt leaves: the elements before and behind the one removed.
LEMMA RemoveAtProperties ==
    ASSUME NEW S, NEW q \in Seq(S), NEW k \in 1 .. Len(q)
    PROVE  /\ RemoveAt(q, k) \in Seq(S)
           /\ Len(RemoveAt(q, k)) = Len(q) - 1
           /\ \A i \in 1 .. Len(q) - 1 :
                RemoveAt(q, k)[i] = IF i < k THEN q[i] ELSE q[i + 1]
<1> DEFINE a == SubSeq(q, 1, k - 1)
           b == SubSeq(q, k + 1, Len(q))
<1>1. Len(q) \in Nat /\ k \in Int /\ 1 <= k /\ k <= Len(q)
  BY LenProperties
<1>2. \A i \in 1 .. Len(q) : q[i] \in S
  BY ElementOfSeq
<1>3. /\ a \in Seq(S) /\ Len(a) = k - 1
      /\ \A i \in 1 .. k - 1 : a[i] = q[i]
  <2>1. \A i \in 1 .. k - 1 : q[i] \in S
    BY <1>1, <1>2
  <2>2. /\ a \in Seq(S)
        /\ Len(a) = IF 1 <= k - 1 THEN (k - 1) - 1 + 1 ELSE 0
        /\ \A i \in 1 .. (k - 1) - 1 + 1 : a[i] = q[1 + i - 1]
    BY <1>1, <2>1, SubSeqProperties
  <2> HIDE DEF a
  <2> QED
    BY <1>1, <2>2
<1>4. /\ b \in Seq(S) /\ Len(b) = Len(q) - k
      /\ \A i \in 1 .. Len(q) - k : b[i] = q[k + i]
  <2>1. \A i \in k + 1 .. Len(q) : q[i] \in S
    BY <1>1, <1>2
  <2>2. /\ b \in Seq(S)
        /\ Len(b) = IF k + 1 <= Len(q) THEN Len(q) - (k + 1) + 1 ELSE 0
        /\ \A i \in 1 .. Len(q) - (k + 1) + 1 : b[i] = q[(k + 1) + i - 1]
    BY <1>1, <2>1, SubSeqProperties
  <2> HIDE DEF b
  <2>3. \A i \in 1 .. Len(q) - k : (k + 1) + i - 1 = k + i
    BY <1>1
  <2> QED
    BY <1>1, <2>2, <2>3
<1>5. RemoveAt(q, k) = a \o b
  BY DEF RemoveAt
<1> HIDE DEF a, b
<1>6. /\ a \o b \in Seq(S)
      /\ Len(a \o b) = Len(a) + Len(b)
      /\ \A i \in 1 .. Len(a) + Len(b) :
           (a \o b)[i] = IF i <= Len(a) THEN a[i] ELSE b[i - Len(a)]
  BY <1>3, <1>4, ConcatProperties
<1>7. ASSUME NEW i \in 1 .. Len(q) - 1
      PROVE  (a \o b)[i] = IF i < k THEN q[i] ELSE q[i + 1]
  <2>1. (a \o b)[i] = IF i <= k - 1 THEN a[i] ELSE b[i - (k - 1)]
    BY <1>1, <1>3, <1>4, <1>6
  <2>2. CASE i < k
    BY <1>1, <1>3, <2>1, <2>2
  <2>3. CASE ~(i < k)
    <3>1. i - (k - 1) \in 1 .. Len(q) - k /\ k + (i - (k - 1)) = i + 1
      BY <1>1, <2>3
    <3>2. b[i - (k - 1)] = q[k + (i - (k - 1))]
      BY <1>4, <3>1
    <3> QED
      BY <1>1, <2>1, <2>3, <3>1, <3>2
  <2> QED
    BY <2>2, <2>3
<1> QED
  BY <1>1, <1>3, <1>4, <1>5, <1>6, <1>7

\* The first stream of a wired stream's key is that stream.
LEMMA FirstOfKey ==
    ASSUME IInv, NEW s \in wired
    PROVE  /\ SelectInSeq(activeStreams, LAMBDA a : key[a] = key[s]) \in 1 .. Len(activeStreams)
           /\ activeStreams[SelectInSeq(activeStreams, LAMBDA a : key[a] = key[s])] = s
<1>1. PICK k \in 1 .. Len(activeStreams) : activeStreams[k] = s
  BY DEF IInv, Wiring
<1> DEFINE I == {i \in 1 .. Len(activeStreams) : key[activeStreams[i]] = key[s]}
<1>2. I = {k}
  <2>1. k \in I
    BY <1>1
  <2>2. ASSUME NEW i \in I PROVE i = k
    <3>1. activeStreams[i] \in wired /\ activeStreams[k] \in wired
      BY <1>1, <2>2 DEF IInv, Wiring
    <3>2. activeStreams[i] = activeStreams[k]
      BY <1>1, <2>2, <3>1 DEF IInv, KeysDistinct
    <3> QED
      BY <1>1, <2>2, <3>2 DEF IInv, Wiring
  <2> HIDE DEF I
  <2> QED
    BY <2>1, <2>2
<1>3. SelectInSeq(activeStreams, LAMBDA a : key[a] = key[s]) = IF I # {} THEN Min(I) ELSE 0
  BY DEF SelectInSeq
<1>4. Min({k}) = k
  <2>1. k <= k
    BY LenProperties DEF IInv, TypeOK
  <2> QED
    BY <2>1 DEF Min
<1> HIDE DEF I
<1> QED
  BY <1>1, <1>2, <1>3, <1>4

-----------------------------------------------------------------------------
(* The finished signal. *)

\* Finished takes the stream, and no other, out of the client.
LEMMA FinishedUnwires ==
    ASSUME IInv, NEW s \in Streams, Finished(s), key' = key
    PROVE  /\ activeStreams' \in Seq(Streams)
           /\ wired' = wired \ {s} /\ closed' = closed \cup {s}
           /\ held' = IF KeepsFinished THEN held ELSE held \ {s}
           /\ Wiring' /\ KeysDistinct'
<1>1. /\ wired' = wired \ {s} /\ closed' = closed \cup {s}
      /\ held' = IF KeepsFinished THEN held ELSE held \ {s}
  BY DEF Finished
<1>2. KeysDistinct'
  BY <1>1 DEF IInv, KeysDistinct
<1>3. closed' \cap wired' = {}
  BY <1>1 DEF IInv, Wiring
<1>4. CASE s \notin wired
  <2>1. activeStreams' = activeStreams /\ wired' = wired
    BY <1>1, <1>4 DEF Finished
  <2>2. activeStreams' \in Seq(Streams)
    BY <2>1 DEF IInv, TypeOK
  <2>3. Wiring'
    BY <1>3, <2>1 DEF IInv, Wiring
  <2> QED
    BY <1>1, <1>2, <2>2, <2>3
<1>5. CASE s \in wired
  <2> DEFINE k == SelectInSeq(activeStreams, LAMBDA a : key[a] = key[s])
  <2>1. k \in 1 .. Len(activeStreams) /\ activeStreams[k] = s
    BY <1>5, FirstOfKey
  <2>2. activeStreams' = RemoveAt(activeStreams, k)
    BY <1>5 DEF Finished
  <2> HIDE DEF k
  <2>3. activeStreams \in Seq(Streams) /\ Len(activeStreams) \in Nat
    BY LenProperties DEF IInv, TypeOK
  <2>4. /\ activeStreams' \in Seq(Streams) /\ Len(activeStreams') = Len(activeStreams) - 1
        /\ \A i \in 1 .. Len(activeStreams) - 1 :
             activeStreams'[i] = IF i < k THEN activeStreams[i] ELSE activeStreams[i + 1]
    BY <2>1, <2>2, <2>3, RemoveAtProperties
  <2> DEFINE Old(i) == IF i < k THEN i ELSE i + 1
  <2>5. ASSUME NEW i \in 1 .. Len(activeStreams')
        PROVE  /\ Old(i) \in 1 .. Len(activeStreams) /\ Old(i) # k
               /\ activeStreams'[i] = activeStreams[Old(i)]
    BY <2>1, <2>3, <2>4
  <2>6. ASSUME NEW j \in 1 .. Len(activeStreams), j # k
        PROVE  \E i \in 1 .. Len(activeStreams') : Old(i) = j
    <3>1. CASE j < k
      <4>1. j \in 1 .. Len(activeStreams') /\ Old(j) = j
        BY <2>1, <2>3, <2>4, <3>1
      <4> QED
        BY <4>1
    <3>2. CASE j > k
      <4>1. j - 1 \in 1 .. Len(activeStreams') /\ Old(j - 1) = j
        BY <2>1, <2>3, <2>4, <3>2
      <4> QED
        BY <4>1
    <3> QED
      BY <2>1, <2>3, <2>6, <3>1, <3>2
  <2>7. ASSUME NEW i \in 1 .. Len(activeStreams'), NEW j \in 1 .. Len(activeStreams'),
               Old(i) = Old(j)
        PROVE  i = j
    BY <2>1, <2>3, <2>4, <2>7
  <2> HIDE DEF Old
  <2>8. \A i, j \in 1 .. Len(activeStreams') : activeStreams'[i] = activeStreams'[j] => i = j
    BY <2>5, <2>7 DEF IInv, Wiring
  <2>9. wired' = {activeStreams'[i] : i \in 1 .. Len(activeStreams')}
    <3>1. ASSUME NEW i \in 1 .. Len(activeStreams') PROVE activeStreams'[i] \in wired \ {s}
      BY <2>1, <2>5 DEF IInv, Wiring
    <3>2. ASSUME NEW u \in wired \ {s}
          PROVE  \E i \in 1 .. Len(activeStreams') : activeStreams'[i] = u
      <4>1. PICK j \in 1 .. Len(activeStreams) : activeStreams[j] = u
        BY DEF IInv, Wiring
      <4> QED
        BY <2>1, <2>5, <2>6, <4>1
    <3> QED
      BY <1>1, <3>1, <3>2
  <2> QED
    BY <1>1, <1>2, <1>3, <2>4, <2>8, <2>9 DEF Wiring
<1> QED
  BY <1>4, <1>5

-----------------------------------------------------------------------------
(* The steps. *)

\* A step that leaves the client's wiring alone leaves these invariants alone.
LEMMA WiringUnchanged ==
    ASSUME IInv, UNCHANGED <<activeStreams, key, wired, closed>>
    PROVE  /\ activeStreams' \in Seq(Streams) /\ key' \in [Streams -> Keys]
           /\ wired' \subseteq Streams /\ closed' \subseteq Streams
           /\ Wiring' /\ KeysDistinct'
<1>1. Wiring' /\ KeysDistinct'
  BY DEF IInv, Wiring, KeysDistinct
<1> QED
  BY <1>1 DEF IInv, TypeOK

LEMMA NewStreamKeeps ==
    ASSUME IInv, NEW k \in Keys, NewStream(k)
    PROVE  IInv'
<1>1. PICK s \in Streams :
        /\ Free(s)
        /\ key' = [key EXCEPT ![s] = k]
        /\ held' = held \cup {s}
        /\ wired' = wired \cup {s}
        /\ closed' = closed \ {s}
        /\ subs' = [subs EXCEPT ![s] = 1]
        /\ activeStreams' = Append(activeStreams, s)
  BY DEF NewStream
<1>2. attached' = attached /\ timers' = timers /\ attached
  BY DEF NewStream
<1>3. s \notin held /\ s \notin wired /\ subs[s] = 0 /\ timers[s] = 0
  BY <1>1 DEF Free, Exists
<1>4. activeStreams \in Seq(Streams) /\ Len(activeStreams) \in Nat
  BY LenProperties DEF IInv, TypeOK
<1>5. /\ activeStreams' \in Seq(Streams)
      /\ Len(activeStreams') = Len(activeStreams) + 1
      /\ \A i \in 1 .. Len(activeStreams) : activeStreams'[i] = activeStreams[i]
      /\ activeStreams'[Len(activeStreams) + 1] = s
  BY <1>1, <1>4, AppendProperties
<1>6. \A i \in 1 .. Len(activeStreams') :
        i \in 1 .. Len(activeStreams) \/ i = Len(activeStreams) + 1
  BY <1>4, <1>5
<1>7. Len(activeStreams) + 1 \in 1 .. Len(activeStreams')
      /\ \A i \in 1 .. Len(activeStreams) : i \in 1 .. Len(activeStreams')
  BY <1>4, <1>5
<1>8. TypeOK'
  <2>1. key' \in [Streams -> Keys] /\ subs' \in [Streams -> Nat]
    BY <1>1 DEF IInv, TypeOK
  <2> QED
    BY <1>1, <1>2, <1>5, <2>1 DEF IInv, TypeOK
<1>9. Wiring'
  <2>1. wired' = {activeStreams'[i] : i \in 1 .. Len(activeStreams')}
    BY <1>1, <1>5, <1>6, <1>7 DEF IInv, Wiring
  <2>2. ASSUME NEW i \in 1 .. Len(activeStreams'), NEW j \in 1 .. Len(activeStreams'),
               activeStreams'[i] = activeStreams'[j]
        PROVE  i = j
    <3>1. \A l \in 1 .. Len(activeStreams) : activeStreams[l] # s
      BY <1>3 DEF IInv, Wiring
    <3> QED
      BY <1>5, <1>6, <2>2, <3>1 DEF IInv, Wiring
  <2>3. closed' \cap wired' = {}
    BY <1>1 DEF IInv, Wiring
  <2> QED
    BY <2>1, <2>2, <2>3 DEF Wiring
<1>10. /\ key'[s] = k
       /\ \A u \in Streams : u # s => key'[u] = key[u]
  BY <1>1 DEF IInv, TypeOK
<1>11. KeysDistinct'
  <2>1. \A u \in wired : key[u] # k
    <3>1. \A i \in DOMAIN activeStreams : key[activeStreams[i]] # k
      BY DEF NewStream, Active, Range
    <3>2. DOMAIN activeStreams = 1 .. Len(activeStreams)
      BY <1>4, LenProperties
    <3> QED
      BY <3>1, <3>2 DEF IInv, Wiring
  <2>2. wired \subseteq Streams
    BY DEF IInv, TypeOK
  <2> QED
    BY <1>1, <1>10, <2>1, <2>2 DEF IInv, KeysDistinct
<1>12. Served'
  <2> SUFFICES ASSUME ~KeepsFinished
               PROVE  /\ held' \subseteq wired'
                      /\ \A u \in Streams : u \notin wired' => subs'[u] = 0
                      /\ \A u \in wired' : ~Bidirect(u)' => subs'[u] + timers'[u] <= 1
    BY DEF Served
  <2>1. held' \subseteq wired'
    BY <1>1 DEF IInv, Served
  <2>2. subs'[s] = 1 /\ \A u \in Streams : u # s => subs'[u] = subs[u]
    BY <1>1 DEF IInv, TypeOK
  <2>3. ASSUME NEW u \in Streams, u \notin wired' PROVE subs'[u] = 0
    BY <1>1, <2>2, <2>3 DEF IInv, Served
  <2>4. ASSUME NEW u \in wired', ~Bidirect(u)' PROVE subs'[u] + timers'[u] <= 1
    <3>1. CASE u = s
      BY <1>2, <1>3, <2>2, <3>1
    <3>2. CASE u # s
      <4>1. u \in wired /\ u \in Streams /\ key'[u] = key[u]
        BY <1>1, <1>10, <3>2 DEF IInv, TypeOK
      <4>2. ~Bidirect(u)
        BY <2>4, <4>1 DEF Bidirect
      <4>3. subs[u] + timers[u] <= 1
        BY <4>1, <4>2 DEF IInv, Served
      <4> QED
        BY <1>2, <2>2, <3>2, <4>1, <4>3
    <3> QED
      BY <3>1, <3>2
  <2> QED
    BY <2>1, <2>3, <2>4
<1> QED
  BY <1>8, <1>9, <1>11, <1>12 DEF IInv

\* A stream that ends with its subscription: abort(), and the loop of
\* attachChannel.
LEMMA EndedKeeps ==
    ASSUME IInv, NEW s \in Streams, Finished(s), subs' = [subs EXCEPT ![s] = 0],
           attached' \in BOOLEAN, UNCHANGED <<key, timers>>
    PROVE  IInv'
<1>1. /\ activeStreams' \in Seq(Streams)
      /\ wired' = wired \ {s} /\ closed' = closed \cup {s}
      /\ held' = IF KeepsFinished THEN held ELSE held \ {s}
      /\ Wiring' /\ KeysDistinct'
  BY FinishedUnwires
<1>2. subs'[s] = 0 /\ (\A u \in Streams : u # s => subs'[u] = subs[u])
  BY DEF IInv, TypeOK
<1>3. TypeOK'
  <2>1. subs' \in [Streams -> Nat]
    BY DEF IInv, TypeOK
  <2>2. held' \subseteq Streams
    BY <1>1 DEF IInv, TypeOK
  <2> QED
    BY <1>1, <2>1, <2>2 DEF IInv, TypeOK
<1>4. Served'
  <2> SUFFICES ASSUME ~KeepsFinished
               PROVE  /\ held' \subseteq wired'
                      /\ \A u \in Streams : u \notin wired' => subs'[u] = 0
                      /\ \A u \in wired' : ~Bidirect(u)' => subs'[u] + timers'[u] <= 1
    BY DEF Served
  <2>1. held' \subseteq wired'
    BY <1>1 DEF IInv, Served
  <2>2. ASSUME NEW u \in Streams, u \notin wired' PROVE subs'[u] = 0
    BY <1>1, <1>2, <2>2 DEF IInv, Served
  <2>3. ASSUME NEW u \in wired', ~Bidirect(u)' PROVE subs'[u] + timers'[u] <= 1
    <3>1. u \in wired /\ u \in Streams /\ u # s /\ ~Bidirect(u)
      BY <1>1, <2>3 DEF IInv, TypeOK, Bidirect
    <3>2. subs[u] + timers[u] <= 1
      BY <3>1 DEF IInv, Served
    <3> QED
      BY <1>2, <3>1, <3>2
  <2> QED
    BY <2>1, <2>2, <2>3
<1> QED
  BY <1>1, <1>3, <1>4 DEF IInv

\* The server's close ends a stream that the channel signals, and otherwise
\* costs it the subscription alone.
LEMMA ChannelCloseKeeps ==
    ASSUME IInv, NEW s \in Streams, ChannelClose(s)
    PROVE  IInv'
<1>1. /\ subs[s] > 0 /\ subs' = [subs EXCEPT ![s] = subs[s] - 1]
      /\ attached' = attached /\ key' = key /\ timers' = timers
  BY DEF ChannelClose
<1>2. /\ subs'[s] = subs[s] - 1 /\ (\A u \in Streams : u # s => subs'[u] = subs[u])
      /\ subs' \in [Streams -> Nat]
      /\ subs \in [Streams -> Nat] /\ timers \in [Streams -> Nat]
  BY <1>1, MaxTimersAssumption DEF IInv, TypeOK
<1>3. CASE Signals(s)
  <2>1. Finished(s)
    BY <1>3 DEF ChannelClose
  <2>2. /\ activeStreams' \in Seq(Streams)
        /\ wired' = wired \ {s} /\ closed' = closed \cup {s}
        /\ held' = IF KeepsFinished THEN held ELSE held \ {s}
        /\ Wiring' /\ KeysDistinct'
    BY <1>1, <2>1, FinishedUnwires
  <2>3. TypeOK'
    <3>1. held' \subseteq Streams
      BY <2>2 DEF IInv, TypeOK
    <3> QED
      BY <1>1, <1>2, <2>2, <3>1 DEF IInv, TypeOK
  <2>4. Served'
    <3> SUFFICES ASSUME ~KeepsFinished
                 PROVE  /\ held' \subseteq wired'
                        /\ \A u \in Streams : u \notin wired' => subs'[u] = 0
                        /\ \A u \in wired' : ~Bidirect(u)' => subs'[u] + timers'[u] <= 1
      BY DEF Served
    <3>1. s \in wired /\ subs[s] + timers[s] <= 1
      BY <1>1, <1>3 DEF IInv, Served, Signals
    <3>2. subs'[s] = 0
      BY <1>1, <1>2, <3>1
    <3>3. held' \subseteq wired'
      BY <2>2 DEF IInv, Served
    <3>4. ASSUME NEW u \in Streams, u \notin wired' PROVE subs'[u] = 0
      BY <1>2, <2>2, <3>2, <3>4 DEF IInv, Served
    <3>5. ASSUME NEW u \in wired', ~Bidirect(u)' PROVE subs'[u] + timers'[u] <= 1
      <4>1. u \in wired /\ u \in Streams /\ u # s /\ ~Bidirect(u)
        BY <1>1, <2>2, <3>5 DEF IInv, TypeOK, Bidirect
      <4>2. subs[u] + timers[u] <= 1
        BY <4>1 DEF IInv, Served
      <4> QED
        BY <1>1, <1>2, <4>1, <4>2
    <3> QED
      BY <3>3, <3>4, <3>5
  <2> QED
    BY <2>2, <2>3, <2>4 DEF IInv
<1>4. CASE ~Signals(s)
  <2>1. UNCHANGED <<activeStreams, wired, closed, held>>
    BY <1>4 DEF ChannelClose
  <2>2. /\ activeStreams' \in Seq(Streams) /\ key' \in [Streams -> Keys]
        /\ wired' \subseteq Streams /\ closed' \subseteq Streams
        /\ Wiring' /\ KeysDistinct'
    BY <1>1, <2>1, WiringUnchanged
  <2>3. TypeOK'
    BY <1>1, <1>2, <2>1, <2>2 DEF IInv, TypeOK
  <2>4. Served'
    <3> SUFFICES ASSUME ~KeepsFinished
                 PROVE  /\ held' \subseteq wired'
                        /\ \A u \in Streams : u \notin wired' => subs'[u] = 0
                        /\ \A u \in wired' : ~Bidirect(u)' => subs'[u] + timers'[u] <= 1
      BY DEF Served
    <3>1. held' \subseteq wired'
      BY <2>1 DEF IInv, Served
    <3>2. ASSUME NEW u \in Streams, u \notin wired' PROVE subs'[u] = 0
      BY <1>1, <1>2, <2>1, <3>2 DEF IInv, Served
    <3>3. ASSUME NEW u \in wired', ~Bidirect(u)' PROVE subs'[u] + timers'[u] <= 1
      <4>1. u \in wired /\ u \in Streams /\ ~Bidirect(u)
        BY <1>1, <2>1, <3>3 DEF IInv, TypeOK, Bidirect
      <4>2. subs[u] + timers[u] <= 1
        BY <4>1 DEF IInv, Served
      <4> QED
        BY <1>1, <1>2, <4>1, <4>2
    <3> QED
      BY <3>1, <3>2, <3>3
  <2> QED
    BY <2>2, <2>3, <2>4 DEF IInv
<1> QED
  BY <1>3, <1>4

\* Errors and timers move subscriptions about, and a retry makes one only for a
\* stream whose timer it was.
LEMMA ErrorAndRetryKeep ==
    ASSUME IInv, NEW s \in Streams, ChannelError(s) \/ WriteBad(s) \/ Retry(s)
    PROVE  IInv'
<1>1. UNCHANGED <<attached, activeStreams, key, held, wired, closed>>
  BY DEF ChannelError, WriteBad, Retry
<1>2. /\ activeStreams' \in Seq(Streams) /\ key' \in [Streams -> Keys]
      /\ wired' \subseteq Streams /\ closed' \subseteq Streams
      /\ Wiring' /\ KeysDistinct'
  BY <1>1, WiringUnchanged
<1>3. /\ subs \in [Streams -> Nat] /\ timers \in [Streams -> 0 .. MaxTimers]
      /\ MaxTimers \in Nat
  BY MaxTimersAssumption DEF IInv, TypeOK
<1>4. /\ subs' \in [Streams -> Nat] /\ timers' \in [Streams -> 0 .. MaxTimers]
      /\ \A u \in Streams : u # s => subs'[u] = subs[u] /\ timers'[u] = timers[u]
  <2>1. CASE ChannelError(s)
    BY <1>3, <2>1 DEF ChannelError, StartTimer
  <2>2. CASE WriteBad(s)
    <3>1. subs' = subs /\ timers[s] + 1 \in 0 .. MaxTimers
      BY <1>3, <2>2 DEF WriteBad
    <3> QED
      BY <1>3, <2>2, <3>1 DEF WriteBad, StartTimer
  <2>3. CASE Retry(s)
    BY <1>3, <2>3 DEF Retry
  <2> QED
    BY <2>1, <2>2, <2>3
<1>5. TypeOK'
  BY <1>1, <1>2, <1>4 DEF IInv, TypeOK
<1>6. Served'
  <2> SUFFICES ASSUME ~KeepsFinished
               PROVE  /\ held' \subseteq wired'
                      /\ \A u \in Streams : u \notin wired' => subs'[u] = 0
                      /\ \A u \in wired' : ~Bidirect(u)' => subs'[u] + timers'[u] <= 1
    BY DEF Served
  <2>1. held' \subseteq wired'
    BY <1>1 DEF IInv, Served
  <2>2. s \notin wired => subs'[s] = 0
    <3> SUFFICES ASSUME s \notin wired PROVE subs'[s] = 0
      OBVIOUS
    <3>1. subs[s] = 0 /\ s \notin held /\ ~Exists(s)
      BY DEF IInv, Served, Exists
    <3> QED
      BY <1>3, <3>1 DEF ChannelError, WriteBad, Retry
  <2>3. s \in wired /\ ~Bidirect(s) => subs'[s] + timers'[s] <= 1
    <3> SUFFICES ASSUME s \in wired, ~Bidirect(s) PROVE subs'[s] + timers'[s] <= 1
      OBVIOUS
    <3>1. subs[s] + timers[s] <= 1 /\ Exists(s)
      BY DEF IInv, Served, Exists
    <3>2. CASE ChannelError(s)
      <4>1. subs'[s] = subs[s] - 1 /\ timers'[s] = timers[s] + 1
        BY <1>3, <3>2 DEF ChannelError, StartTimer
      <4> QED
        BY <1>3, <3>1, <4>1
    <3>3. CASE Retry(s)
      <4>1. subs'[s] = subs[s] + 1 /\ timers'[s] = timers[s] - 1
        BY <1>3, <3>1, <3>3 DEF Retry
      <4> QED
        BY <1>3, <3>1, <4>1
    <3> QED
      BY <3>2, <3>3 DEF WriteBad
  <2>4. ASSUME NEW u \in Streams, u \notin wired' PROVE subs'[u] = 0
    BY <1>1, <1>4, <2>2, <2>4 DEF IInv, Served
  <2>5. ASSUME NEW u \in wired', ~Bidirect(u)' PROVE subs'[u] + timers'[u] <= 1
    <3>1. u \in wired /\ u \in Streams /\ ~Bidirect(u)
      BY <1>1, <1>2, <2>5 DEF Bidirect
    <3>2. subs[u] + timers[u] <= 1
      BY <3>1 DEF IInv, Served
    <3>3. CASE u # s
      BY <1>4, <3>1, <3>2, <3>3
    <3> QED
      BY <2>3, <3>1, <3>3
  <2> QED
    BY <2>1, <2>4, <2>5
<1> QED
  BY <1>2, <1>5, <1>6 DEF IInv

\* Callers share and release what they hold.
LEMMA CallersKeep ==
    ASSUME IInv,
           \/ \E k \in Keys : JoinStream(k)
           \/ \E s \in Streams : Release(s)
           \/ UNCHANGED vars
    PROVE  IInv'
<1>1. UNCHANGED <<attached, activeStreams, key, wired, subs, timers, closed>>
  BY DEF JoinStream, Release, vars
<1>2. held' \subseteq held \cup wired
  <2>1. CASE \E k \in Keys : JoinStream(k)
    <3>1. PICK i \in DOMAIN activeStreams : held' = held \cup {activeStreams[i]}
      BY <2>1 DEF JoinStream
    <3>2. DOMAIN activeStreams = 1 .. Len(activeStreams)
      BY LenProperties DEF IInv, TypeOK
    <3> QED
      BY <3>1, <3>2 DEF IInv, Wiring
  <2>2. CASE \E s \in Streams : Release(s)
    BY <2>2 DEF Release
  <2>3. CASE UNCHANGED vars
    BY <2>3 DEF vars
  <2> QED
    BY <2>1, <2>2, <2>3
<1>3. Wiring' /\ KeysDistinct'
  BY <1>1, WiringUnchanged
<1>4. TypeOK'
  BY <1>1, <1>2 DEF IInv, TypeOK
<1>5. Served'
  <2> SUFFICES ASSUME ~KeepsFinished
               PROVE  /\ held' \subseteq wired'
                      /\ \A u \in Streams : u \notin wired' => subs'[u] = 0
                      /\ \A u \in wired' : ~Bidirect(u)' => subs'[u] + timers'[u] <= 1
    BY DEF Served
  <2> QED
    BY <1>1, <1>2 DEF IInv, Served, Bidirect
<1> QED
  BY <1>3, <1>4, <1>5 DEF IInv

-----------------------------------------------------------------------------
(* The theorems. *)

\* Whatever callers, channels, servers and timers do, the streams that the
\* client works for are the ones in activeStreams, and their keys differ.
THEOREM Invariance == SafeSpec => []IInv
<1>1. Init => IInv
  <2> SUFFICES ASSUME Init PROVE IInv
    OBVIOUS
  <2>1. activeStreams = <<>> /\ activeStreams \in Seq(Streams) /\ Len(activeStreams) = 0
    BY DEF Init
  <2>2. TypeOK
    <3>1. (CHOOSE k \in Keys : TRUE) \in Keys
      BY KeysAssumption
    <3>2. key \in [Streams -> Keys]
      BY <3>1 DEF Init
    <3>3. 0 \in 0 .. MaxTimers
      BY MaxTimersAssumption
    <3>4. subs \in [Streams -> Nat] /\ timers \in [Streams -> 0 .. MaxTimers]
      BY <3>3 DEF Init
    <3>5. attached = FALSE /\ held = {} /\ wired = {} /\ closed = {}
      BY DEF Init
    <3> QED
      BY <2>1, <3>2, <3>4, <3>5 DEF TypeOK
  <2>3. Wiring
    BY <2>1 DEF Init, Wiring
  <2>4. KeysDistinct /\ Served
    BY DEF Init, KeysDistinct, Served
  <2> QED
    BY <2>2, <2>3, <2>4 DEF IInv
<1>2. IInv /\ [Next]_vars => IInv'
  <2> SUFFICES ASSUME IInv, [Next]_vars PROVE IInv'
    OBVIOUS
  <2>1. ASSUME NEW k \in Keys, NewStream(k) PROVE IInv'
    BY <2>1, NewStreamKeeps
  <2>2. ASSUME NEW s \in Streams, Abort(s) PROVE IInv'
    <3>1. Finished(s) /\ subs' = [subs EXCEPT ![s] = 0] /\ UNCHANGED <<attached, key, timers>>
      BY <2>2 DEF Abort
    <3>2. attached' \in BOOLEAN
      BY <3>1 DEF IInv, TypeOK
    <3> QED
      BY <3>1, <3>2, EndedKeeps
  <2>3. ASSUME NEW s \in Streams, ChannelError(s) \/ WriteBad(s) \/ Retry(s) PROVE IInv'
    BY <2>3, ErrorAndRetryKeep
  <2>4. ASSUME NEW s \in Streams, ChannelClose(s) PROVE IInv'
    BY <2>4, ChannelCloseKeeps
  <2>5. CASE \/ \E k \in Keys : JoinStream(k)
             \/ \E s \in Streams : Release(s)
             \/ UNCHANGED vars
    BY <2>5, CallersKeep
  <2>6. CASE AttachChannel
    <3>1. attached' = TRUE /\ UNCHANGED <<key, timers>>
      BY <2>6 DEF AttachChannel
    <3>2. ASSUME NEW s \in Streams, Finished(s), subs' = [subs EXCEPT ![s] = 0]
          PROVE  IInv'
      BY <3>1, <3>2, EndedKeeps
    <3>3. CASE UNCHANGED <<activeStreams, wired, closed, held, subs>>
      <4>1. Wiring' /\ KeysDistinct'
        BY <3>1, <3>3, WiringUnchanged
      <4>2. TypeOK'
        BY <3>1, <3>3 DEF IInv, TypeOK
      <4>3. Served'
        BY <3>1, <3>3 DEF IInv, Served, Bidirect
      <4> QED
        BY <4>1, <4>2, <4>3 DEF IInv
    <3> QED
      BY <2>6, <3>2, <3>3 DEF AttachChannel
  <2> QED
    BY <2>1, <2>2, <2>3, <2>4, <2>5, <2>6 DEF Next
<1> QED
  BY <1>1, <1>2, PTL DEF SafeSpec

\* "If stream already exists return it for handling": two streams that the
\* client works for never have the same method and argument.
THEOREM OneStreamPerKey == SafeSpec => [](\A s, u \in Active : key[s] = key[u] => s = u)
<1>1. IInv => \A s, u \in Active : key[s] = key[u] => s = u
  <2> SUFFICES ASSUME IInv PROVE Active \subseteq wired
    BY DEF IInv, KeysDistinct
  <2>1. DOMAIN activeStreams = 1 .. Len(activeStreams)
    BY LenProperties DEF IInv, TypeOK
  <2> QED
    BY <2>1 DEF IInv, Wiring, Active, Range
<1> QED
  BY <1>1, Invariance, PTL

\* The channel serves one stream for a method and argument, and a server stream
\* with one subscription, for callers that let go of finished streams.
THEOREM ServedOnce ==
    ASSUME ~KeepsFinished
    PROVE  SafeSpec => []OneSubscription
<1>1. ASSUME IInv PROVE OneSubscription
  <2> SUFFICES ASSUME NEW s \in Streams, NEW u \in Streams,
                      Subscriptions(s) > 0, Subscriptions(u) > 0, key[s] = key[u]
               PROVE  s = u /\ (Bidirect(s) \/ Subscriptions(s) = 1)
    BY DEF OneSubscription
  <2>1. subs \in [Streams -> Nat] /\ timers \in [Streams -> Nat]
    BY <1>1, MaxTimersAssumption DEF IInv, TypeOK
  <2>2. ASSUME NEW t \in Streams, Subscriptions(t) > 0
        PROVE  t \in wired /\ Subscriptions(t) = subs[t] + timers[t]
    <3>1. CASE t \notin wired
      <4>1. subs[t] = 0 /\ ~Exists(t)
        BY <1>1, <3>1 DEF IInv, Served, Exists
      <4> QED
        BY <2>2, <4>1 DEF Subscriptions
    <3>2. CASE t \in wired
      BY <3>2 DEF Subscriptions, Exists
    <3> QED
      BY <3>1, <3>2
  <2>3. s \in wired /\ u \in wired /\ Subscriptions(s) = subs[s] + timers[s]
    BY <2>2
  <2>4. s = u
    BY <1>1, <2>3 DEF IInv, KeysDistinct
  <2>5. ASSUME ~Bidirect(s) PROVE Subscriptions(s) = 1
    <3>1. subs[s] + timers[s] <= 1
      BY <1>1, <2>3, <2>5 DEF IInv, Served
    <3> QED
      BY <2>1, <2>3, <3>1
  <2> QED
    BY <2>4, <2>5
<1> QED
  BY <1>1, Invariance, PTL

\* After finished a stream has no subscription, and no timer that is still
\* pending brings one back, for callers that let go of finished streams.
THEOREM FinishedStaysFinished ==
    ASSUME ~KeepsFinished
    PROVE  SafeSpec => []FinishedIsFinal
<1>1. ASSUME IInv PROVE FinishedIsFinal
  BY <1>1 DEF IInv, TypeOK, Wiring, Served, FinishedIsFinal
<1> QED
  BY <1>1, Invariance, PTL
=============================================================================
