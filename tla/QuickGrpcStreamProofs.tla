------------------------ MODULE QuickGrpcStreamProofs ------------------------
(***************************************************************************)
(* Proofs about QuickGrpcStream, for any number of elements, clients,      *)
(* methods and arguments: elements that share streams show what they were  *)
(* told to show, the clients keep no stream that nobody shows, and an      *)
(* enabled element with complete settings is streaming.                    *)
(***************************************************************************)
EXTENDS QuickGrpcStream, TLAPS

\* The QPointer to a client is null once the client is gone; without this, an
\* element could ask a destroyed client for a stream.
ClientsExist == \A e \in Elements : m_client[e] \in clients \cup {Null}

\* Likewise for an argument, which an element could otherwise not tell from one
\* that is there.
ArgumentsExist == \A e \in Elements : m_argument[e] \in arguments \cup {Null}

\* The inductive invariant: the three properties of the runs need each other.
IInv ==
    /\ TypeOK /\ ClientsExist /\ ArgumentsExist
    /\ ShowsItsSettings /\ NoOrphanStream /\ EnabledIsStreaming

-----------------------------------------------------------------------------
(* The effects that the operations are made of. *)

\* The finished signal of a stream that an element shows, or that is active,
\* whatever settings have changed in an element that loses it.
LEMMA FinishedKeeps ==
    ASSUME IInv, NEW s \in Streams, Finished(s),
           m_client' \in [Elements -> Clients \cup {Null}],
           m_method' \in [Elements -> Methods \cup {Null}],
           m_argument' \in [Elements -> Arguments \cup {Null}],
           clients' = clients, ClientsExist', arguments' = arguments, ArgumentsExist',
           \A e \in Elements : m_stream[e] # s =>
             /\ m_client'[e] = m_client[e] /\ m_method'[e] = m_method[e]
             /\ m_argument'[e] = m_argument[e]
    PROVE  IInv'
<1>1. \A e \in Elements :
        /\ m_stream'[e] = IF m_stream[e] = s THEN Null ELSE m_stream[e]
        /\ m_enabled'[e] = IF m_stream[e] = s THEN FALSE ELSE m_enabled[e]
        /\ m_returnValue'[e] = IF m_stream[e] = s THEN FALSE ELSE m_returnValue[e]
  BY DEF Finished, ClearedIn, Showing
<1>2. activeStreams' = activeStreams \ {s}
  BY DEF Finished
<1>3. TypeOK'
  BY DEF Finished, ClearedIn, Showing, IInv, TypeOK
<1>4. ShowsItsSettings'
  <2>1. ASSUME NEW e \in Elements, m_stream'[e] # Null
        PROVE  /\ m_stream[e] # Null /\ m_stream[e] # s /\ m_stream'[e] = m_stream[e]
               /\ m_enabled'[e] = m_enabled[e] /\ m_client'[e] = m_client[e]
               /\ m_method'[e] = m_method[e] /\ m_argument'[e] = m_argument[e]
               /\ (m_stream[e] \in activeStreams => m_stream[e] \in activeStreams')
    BY <1>1, <1>2, <2>1
  <2> QED
    BY <2>1 DEF IInv, ShowsItsSettings
<1>5. NoOrphanStream'
  <2> SUFFICES ASSUME NEW a \in activeStreams' PROVE \E e \in Elements : m_stream'[e] = a
    BY DEF NoOrphanStream, Showing
  <2>1. a \in activeStreams /\ a # s
    BY <1>2
  <2>2. PICK e \in Elements : m_stream[e] = a
    BY <2>1 DEF IInv, NoOrphanStream, Showing
  <2> QED
    BY <1>1, <2>1, <2>2
<1>6. EnabledIsStreaming'
  BY <1>1 DEF IInv, EnabledIsStreaming
<1> QED
  BY <1>3, <1>4, <1>5, <1>6 DEF IInv

\* updateStream of an element, after one of its settings has changed.
LEMMA UpdateKeeps ==
    ASSUME IInv, NEW e \in Elements,
           NEW c \in clients \cup {Null}, NEW m \in Methods \cup {Null},
           NEW a \in arguments \cup {Null}, NEW enabled \in BOOLEAN,
           UpdateStream(e, c, m, a, enabled),
           m_client' = [m_client EXCEPT ![e] = c],
           m_method' = [m_method EXCEPT ![e] = m],
           m_argument' = [m_argument EXCEPT ![e] = a],
           clients' = clients, arguments' = arguments
    PROVE  IInv'
<1> DEFINE s == [client |-> c, method |-> m, argument |-> Content[a]]
<1>1. /\ m_client' \in [Elements -> Clients \cup {Null}]
      /\ m_method' \in [Elements -> Methods \cup {Null}]
      /\ m_argument' \in [Elements -> Arguments \cup {Null}]
      /\ m_client'[e] = c /\ m_method'[e] = m /\ m_argument'[e] = a
      /\ \A f \in Elements \ {e} : /\ m_client'[f] = m_client[f] /\ m_method'[f] = m_method[f]
                                   /\ m_argument'[f] = m_argument[f]
  BY DEF IInv, TypeOK
<1>2. ClientsExist' /\ ArgumentsExist'
  BY <1>1 DEF IInv, ClientsExist, ArgumentsExist
<1>3. CASE m_stream[e] # Null
  <2>1. m_stream[e] \in Streams /\ Finished(m_stream[e])
    BY <1>3 DEF UpdateStream, IInv, TypeOK
  <2> QED
    BY <1>1, <1>2, <2>1, FinishedKeeps
<1>4. CASE m_stream[e] = Null /\ (Null \in {c, m, a} \/ ~enabled)
  <2>1. m_enabled' = [m_enabled EXCEPT ![e] = enabled] /\ UNCHANGED <<activeStreams, m_stream, m_returnValue>>
    BY <1>4 DEF UpdateStream
  <2>2. TypeOK'
    BY <1>1, <2>1 DEF IInv, TypeOK
  <2>3. ShowsItsSettings'
    BY <1>1, <1>4, <2>1 DEF IInv, TypeOK, ShowsItsSettings
  <2>4. NoOrphanStream'
    BY <2>1 DEF IInv, NoOrphanStream, Showing
  <2>5. EnabledIsStreaming'
    BY <1>1, <1>4, <2>1 DEF IInv, TypeOK, EnabledIsStreaming
  <2> QED
    BY <1>2, <2>2, <2>3, <2>4, <2>5 DEF IInv
<1>5. CASE m_stream[e] = Null /\ Null \notin {c, m, a} /\ enabled /\ m \notin Streamable
  <2>1. m_enabled' = [m_enabled EXCEPT ![e] = FALSE] /\ UNCHANGED <<activeStreams, m_stream, m_returnValue>>
    BY <1>5 DEF UpdateStream, StreamFails
  <2>2. TypeOK'
    BY <1>1, <2>1 DEF IInv, TypeOK
  <2>3. ShowsItsSettings'
    BY <1>1, <1>5, <2>1 DEF IInv, TypeOK, ShowsItsSettings
  <2>4. NoOrphanStream'
    BY <2>1 DEF IInv, NoOrphanStream, Showing
  <2>5. EnabledIsStreaming'
    BY <1>1, <1>5, <2>1 DEF IInv, TypeOK, EnabledIsStreaming
  <2> QED
    BY <1>2, <2>2, <2>3, <2>4, <2>5 DEF IInv
<1>6. CASE m_stream[e] = Null /\ Null \notin {c, m, a} /\ enabled /\ m \in Streamable
  <2>1. StreamStarts(e, s)
    BY <1>6 DEF UpdateStream
  <2>2. s \in Streams /\ s # Null /\ s.client = c /\ s.method = m /\ s.argument = Content[a]
        /\ c # Null /\ m # Null /\ a # Null
    BY <1>6, NullStreamAssumption DEF Streams, IInv, TypeOK
  <2> HIDE DEF s
  <2>3. /\ m_enabled' = [m_enabled EXCEPT ![e] = TRUE]
        /\ activeStreams' = activeStreams \cup {s}
        /\ m_stream' = [m_stream EXCEPT ![e] = s]
        /\ m_returnValue' = [m_returnValue EXCEPT ![e] = TRUE]
    BY <2>1 DEF StreamStarts
  <2>4. TypeOK'
    BY <1>1, <2>2, <2>3 DEF IInv, TypeOK
  <2>5. ShowsItsSettings'
    BY <1>1, <2>2, <2>3 DEF IInv, TypeOK, ShowsItsSettings
  <2>6. NoOrphanStream'
    <3> SUFFICES ASSUME NEW u \in activeStreams' PROVE \E f \in Elements : m_stream'[f] = u
      BY DEF NoOrphanStream, Showing
    <3>1. CASE u = s
      BY <2>3, <3>1 DEF IInv, TypeOK
    <3>2. CASE u # s
      <4>1. u \in activeStreams /\ u # Null
        BY <2>3, <3>2, NullStreamAssumption DEF IInv, TypeOK
      <4>2. PICK f \in Elements : m_stream[f] = u
        BY <4>1 DEF IInv, NoOrphanStream, Showing
      <4>3. f # e
        BY <1>6, <4>1, <4>2
      <4> QED
        BY <2>3, <4>2, <4>3 DEF IInv, TypeOK
    <3> QED
      BY <3>1, <3>2
  <2>7. EnabledIsStreaming'
    BY <1>1, <2>2, <2>3 DEF IInv, TypeOK, EnabledIsStreaming
  <2> QED
    BY <1>2, <2>4, <2>5, <2>6, <2>7 DEF IInv
<1> QED
  BY <1>3, <1>4, <1>5, <1>6

-----------------------------------------------------------------------------
(* The operations. *)

\* The setters of an element call updateStream with one changed setting.
LEMMA SettersKeep ==
    ASSUME IInv, NEW e \in Elements,
           \/ \E c \in clients \cup {Null} : SetClient(e, c)
           \/ \E m \in Methods \cup {Null} : SetMethod(e, m)
           \/ \E a \in arguments \cup {Null} : SetArgument(e, a)
           \/ SetEnabled(e)
    PROVE  IInv'
<1>1. /\ m_client[e] \in clients \cup {Null} /\ m_method[e] \in Methods \cup {Null}
      /\ m_argument[e] \in arguments \cup {Null} /\ m_enabled[e] \in BOOLEAN
  BY DEF IInv, TypeOK, ClientsExist, ArgumentsExist
<1>2. /\ m_client = [m_client EXCEPT ![e] = m_client[e]]
      /\ m_method = [m_method EXCEPT ![e] = m_method[e]]
      /\ m_argument = [m_argument EXCEPT ![e] = m_argument[e]]
  BY DEF IInv, TypeOK
<1>3. ASSUME NEW c \in clients \cup {Null}, SetClient(e, c) PROVE IInv'
  <2>1. /\ UpdateStream(e, c, m_method[e], m_argument[e], m_enabled[e])
        /\ clients' = clients /\ arguments' = arguments
        /\ m_client' = [m_client EXCEPT ![e] = c]
        /\ m_method' = [m_method EXCEPT ![e] = m_method[e]]
        /\ m_argument' = [m_argument EXCEPT ![e] = m_argument[e]]
    BY <1>2, <1>3 DEF SetClient
  <2> QED
    BY <1>1, <1>3, <2>1, UpdateKeeps
<1>4. ASSUME NEW m \in Methods \cup {Null}, SetMethod(e, m) PROVE IInv'
  <2>1. /\ UpdateStream(e, m_client[e], m, m_argument[e], m_enabled[e])
        /\ clients' = clients /\ arguments' = arguments
        /\ m_client' = [m_client EXCEPT ![e] = m_client[e]]
        /\ m_method' = [m_method EXCEPT ![e] = m]
        /\ m_argument' = [m_argument EXCEPT ![e] = m_argument[e]]
    BY <1>2, <1>4 DEF SetMethod
  <2> QED
    BY <1>1, <1>4, <2>1, UpdateKeeps
<1>5. ASSUME NEW a \in arguments \cup {Null}, SetArgument(e, a) PROVE IInv'
  BY <1>1, <1>2, <1>5, UpdateKeeps DEF SetArgument
<1>6. CASE SetEnabled(e)
  <2>1. (~m_enabled[e]) \in BOOLEAN
    OBVIOUS
  <2> QED
    BY <1>1, <1>2, <1>6, <2>1, UpdateKeeps DEF SetEnabled, settings
<1> QED
  BY <1>3, <1>4, <1>5, <1>6

LEMMA DestroyKeeps ==
    ASSUME IInv, NEW e \in Elements, Destroy(e)
    PROVE  IInv'
<1>1. /\ m_client' = [m_client EXCEPT ![e] = Null]
      /\ m_method' = [m_method EXCEPT ![e] = Null]
      /\ m_argument' = [m_argument EXCEPT ![e] = Null]
      /\ clients' = clients /\ arguments' = arguments
  BY DEF Destroy
<1>2. UpdateStream(e, Null, Null, Null, FALSE)
  BY DEF Destroy, UpdateStream
<1> QED
  BY <1>1, <1>2, UpdateKeeps

LEMMA StreamFinishedKeeps ==
    ASSUME IInv, NEW s \in activeStreams, StreamFinished(s)
    PROVE  IInv'
<1>1. s \in Streams /\ Finished(s) /\ UNCHANGED <<clients, arguments, m_client, m_method, m_argument>>
  BY DEF StreamFinished, settings, IInv, TypeOK
<1>2. ClientsExist' /\ ArgumentsExist'
  BY <1>1 DEF IInv, ClientsExist, ArgumentsExist
<1>3. /\ m_client' \in [Elements -> Clients \cup {Null}]
      /\ m_method' \in [Elements -> Methods \cup {Null}]
      /\ m_argument' \in [Elements -> Arguments \cup {Null}]
  BY <1>1 DEF IInv, TypeOK
<1> QED
  BY <1>1, <1>2, <1>3, FinishedKeeps

LEMMA ClientDestroyedKeeps ==
    ASSUME IInv, NEW c \in clients, ClientDestroyed(c)
    PROVE  IInv'
<1>1. /\ clients' = clients \ {c}
      /\ activeStreams' = {s \in activeStreams : s.client # c}
      /\ UNCHANGED <<arguments, m_method, m_argument, m_enabled, m_stream, m_returnValue>>
  BY DEF ClientDestroyed
<1>2. \A e \in Elements : m_client'[e] = IF m_client[e] = c THEN Null ELSE m_client[e]
  BY DEF ClientDestroyed, ClearedIn
<1>3. TypeOK'
  BY <1>1 DEF ClientDestroyed, ClearedIn, IInv, TypeOK
<1>4. ClientsExist' /\ ArgumentsExist'
  BY <1>1, <1>2 DEF IInv, ClientsExist, ArgumentsExist
<1>5. ShowsItsSettings'
  <2> SUFFICES ASSUME NEW e \in Elements, m_stream[e] # Null
               PROVE  \/ m_stream[e].client = m_client'[e] /\ m_stream[e] \in activeStreams'
                      \/ m_client'[e] = Null /\ m_stream[e].client \notin clients'
    BY <1>1 DEF IInv, ShowsItsSettings
  <2>1. \/ m_stream[e].client = m_client[e] /\ m_stream[e] \in activeStreams
        \/ m_client[e] = Null /\ m_stream[e].client \notin clients
    BY DEF IInv, ShowsItsSettings
  <2> QED
    BY <1>1, <1>2, <2>1
<1>6. NoOrphanStream'
  BY <1>1 DEF IInv, NoOrphanStream, Showing
<1>7. EnabledIsStreaming'
  BY <1>1, <1>2, NullAssumption DEF IInv, TypeOK, EnabledIsStreaming
<1> QED
  BY <1>3, <1>4, <1>5, <1>6, <1>7 DEF IInv

LEMMA ArgumentDestroyedKeeps ==
    ASSUME IInv, NEW a \in arguments, ArgumentDestroyed(a)
    PROVE  IInv'
<1>1. /\ arguments' = arguments \ {a}
      /\ UNCHANGED <<clients, activeStreams, m_client, m_method, m_enabled, m_stream,
                     m_returnValue>>
  BY DEF ArgumentDestroyed
<1>2. \A e \in Elements : m_argument'[e] = IF m_argument[e] = a THEN Null ELSE m_argument[e]
  BY DEF ArgumentDestroyed, ClearedIn
<1>3. TypeOK'
  BY <1>1 DEF ArgumentDestroyed, ClearedIn, IInv, TypeOK
<1>4. ClientsExist' /\ ArgumentsExist'
  BY <1>1, <1>2 DEF IInv, ClientsExist, ArgumentsExist
<1>5. a \in Arguments /\ a # Null
  BY NullAssumption DEF IInv, TypeOK
<1>6. ShowsItsSettings'
  <2> SUFFICES ASSUME NEW e \in Elements, m_stream[e] # Null
               PROVE  \/ m_argument'[e] # Null /\ m_stream[e].argument = Content[m_argument'[e]]
                      \/ /\ m_argument'[e] = Null
                         /\ \E b \in Arguments \ arguments' : m_stream[e].argument = Content[b]
    BY <1>1 DEF IInv, ShowsItsSettings
  <2>1. \/ m_argument[e] # Null /\ m_stream[e].argument = Content[m_argument[e]]
        \/ /\ m_argument[e] = Null
           /\ \E b \in Arguments \ arguments : m_stream[e].argument = Content[b]
    BY DEF IInv, ShowsItsSettings
  <2>2. a \in Arguments \ arguments'
    BY <1>1, <1>5
  <2>3. CASE m_argument[e] = a
    BY <1>2, <1>5, <2>1, <2>2, <2>3
  <2>4. CASE m_argument[e] # a
    BY <1>1, <1>2, <2>1, <2>4
  <2> QED
    BY <2>3, <2>4
<1>7. NoOrphanStream'
  BY <1>1 DEF IInv, NoOrphanStream, Showing
<1>8. EnabledIsStreaming'
  BY <1>1, <1>2, NullAssumption DEF IInv, TypeOK, EnabledIsStreaming
<1> QED
  BY <1>3, <1>4, <1>6, <1>7, <1>8 DEF IInv

-----------------------------------------------------------------------------

\* IInv is inductive.
THEOREM Invariance == Spec => []IInv
<1>1. Init => IInv
  BY DEF Init, IInv, TypeOK, ClientsExist, ArgumentsExist, ShowsItsSettings, NoOrphanStream,
         EnabledIsStreaming
<1>2. ASSUME IInv, [Next]_vars PROVE IInv'
  <2>1. CASE UNCHANGED vars
    BY <1>2, <2>1 DEF vars, IInv, TypeOK, ClientsExist, ArgumentsExist, ShowsItsSettings,
                      NoOrphanStream, Showing, EnabledIsStreaming
  <2> QED
    BY <1>2, <2>1, SettersKeep, DestroyKeeps, StreamFinishedKeeps, ClientDestroyedKeeps,
       ArgumentDestroyedKeeps DEF Next
<1> QED
  BY <1>1, <1>2, PTL DEF Spec

\* A stream that an element shows is the one of its present settings, active and
\* enabled, whoever of the elements that share it or the server acted last; where a
\* setting is null, it is the stream of an argument or a client that was destroyed.
THEOREM ElementsShowTheirSettings == Spec => []ShowsItsSettings
<1>1. IInv => ShowsItsSettings
  BY DEF IInv
<1> QED
  BY <1>1, Invariance, PTL

\* Every stream that the clients keep is shown by an element.
THEOREM NoStreamIsOrphaned == Spec => []NoOrphanStream
<1>1. IInv => NoOrphanStream
  BY DEF IInv
<1> QED
  BY <1>1, Invariance, PTL

\* An enabled element with complete settings is streaming, and return values go
\* with streams.
THEOREM EnabledElementsStream == Spec => []EnabledIsStreaming
<1>1. IInv => EnabledIsStreaming
  BY DEF IInv
<1> QED
  BY <1>1, Invariance, PTL
=============================================================================
