--------------------------- MODULE QuickGrpcStream ---------------------------
(***************************************************************************)
(* The QML element GrpcStream (class QQuickGrpcStream): its settings      *)
(* client, method, argument and enabled, the QGrpcStream it shows and the  *)
(* returnValue that the stream's messages are written to.                  *)
(*                                                                         *)
(* Elements that ask a client for the same method and argument share one   *)
(* QGrpcStream (module GrpcClient), hence a stream is identified here by   *)
(* these three: the argument by its content, since a stream gets a copy of *)
(* the argument object.  Its finished signal reaches every element that shows it,  *)
(* in the middle of the updateStream that aborts it: the slot resets       *)
(* m_stream and calls setEnabled(false), which calls updateStream again.   *)
(* All of it is one event of the GUI thread and one action.                *)
(***************************************************************************)
EXTENDS Naturals

CONSTANTS
    Elements,       \* GrpcStream elements
    Clients,        \* QAbstractGrpcClient objects
    Methods,        \* names of methods
    Streamable,     \* the methods that the clients can stream with these arguments
    Arguments,      \* argument objects
    Content,        \* what each of them holds
    Null            \* nullptr, or the empty method name

ASSUME NullAssumption == Null \notin Clients \cup Methods \cup Arguments
ASSUME StreamableAssumption == Streamable \subseteq Methods

VARIABLES
    clients,        \* clients that exist
    arguments,      \* argument objects that exist
    activeStreams,  \* streams the clients have handed out and not finished
    m_client, m_method, m_argument, m_enabled, \* settings of each element
    m_stream,       \* the stream an element holds, or Null
    m_returnValue   \* whether an element has a return value

settings == <<m_client, m_method, m_argument>>
vars == <<clients, arguments, activeStreams, m_client, m_method, m_argument,
          m_enabled, m_stream, m_returnValue>>

Streams == [client : Clients, method : Methods, argument : {Content[a] : a \in Arguments}]

ASSUME NullStreamAssumption == Null \notin Streams

TypeOK ==
    /\ clients \subseteq Clients
    /\ arguments \subseteq Arguments
    /\ activeStreams \subseteq Streams
    /\ m_client \in [Elements -> Clients \cup {Null}]
    /\ m_method \in [Elements -> Methods \cup {Null}]
    /\ m_argument \in [Elements -> Arguments \cup {Null}]
    /\ m_enabled \in [Elements -> BOOLEAN]
    /\ m_stream \in [Elements -> Streams \cup {Null}]
    /\ m_returnValue \in [Elements -> BOOLEAN]

Init ==
    /\ clients = Clients
    /\ arguments = Arguments
    /\ activeStreams = {}
    /\ m_client = [e \in Elements |-> Null]
    /\ m_method = [e \in Elements |-> Null]
    /\ m_argument = [e \in Elements |-> Null]
    /\ m_enabled = [e \in Elements |-> FALSE]
    /\ m_stream = [e \in Elements |-> Null]
    /\ m_returnValue = [e \in Elements |-> FALSE]

-----------------------------------------------------------------------------

Showing(s) == {e \in Elements : m_stream[e] = s}

ClearedIn(f, S, value) == [e \in Elements |-> IF e \in S THEN value ELSE f[e]]

\* A finished slot that leaves the element enabled, with its return value.
FinishedOnlyResets(s) ==
    /\ activeStreams' = activeStreams \ {s}
    /\ m_stream' = ClearedIn(m_stream, Showing(s), Null)
    /\ UNCHANGED <<m_enabled, m_returnValue>>

\* The finished signal of s: the client forgets the stream, and in every element
\* that shows it the slot resets m_stream and disables the element, whose
\* updateStream then drops the return value and returns.
Finished(s) ==
    /\ activeStreams' = activeStreams \ {s}
    /\ m_stream' = ClearedIn(m_stream, Showing(s), Null)
    /\ m_enabled' = ClearedIn(m_enabled, Showing(s), FALSE)
    /\ m_returnValue' = ClearedIn(m_returnValue, Showing(s), FALSE)

\* stream() returns false after an error (no such method, a wrong argument), and
\* the element is disabled; its updateStream drops the return value that stream()
\* may have created by then.
StreamFails(e) ==
    /\ m_enabled' = [m_enabled EXCEPT ![e] = FALSE]
    /\ UNCHANGED <<activeStreams, m_stream, m_returnValue>>

\* stream() makes a return value, and gets a new stream or the one that other
\* elements show.
StreamStarts(e, s) ==
    /\ m_enabled' = [m_enabled EXCEPT ![e] = TRUE]
    /\ activeStreams' = activeStreams \cup {s}
    /\ m_stream' = [m_stream EXCEPT ![e] = s]
    /\ m_returnValue' = [m_returnValue EXCEPT ![e] = TRUE]

\* updateStream without the abort of the old stream.
UpdateNoAbort(e, c, m, a, enabled) ==
    IF Null \in {c, m, a} \/ ~enabled
    THEN /\ m_enabled' = [m_enabled EXCEPT ![e] = enabled]
         /\ UNCHANGED <<activeStreams, m_stream, m_returnValue>>
    ELSE IF m \in Streamable
         THEN StreamStarts(e, [client |-> c, method |-> m, argument |-> Content[a]])
         ELSE StreamFails(e)

\* updateStream of e, whose settings are c, m, a and enabled by now.  When it
\* aborts a stream, the finished slot has disabled e before the settings are
\* looked at.
UpdateStream(e, c, m, a, enabled) ==
    \/ /\ m_stream[e] # Null
       /\ Finished(m_stream[e])
    \/ /\ m_stream[e] = Null
       /\ Null \in {c, m, a} \/ ~enabled
       /\ m_enabled' = [m_enabled EXCEPT ![e] = enabled]
       /\ UNCHANGED <<activeStreams, m_stream, m_returnValue>>
    \/ /\ m_stream[e] = Null
       /\ Null \notin {c, m, a} /\ enabled
       /\ IF m \in Streamable
          THEN StreamStarts(e, [client |-> c, method |-> m, argument |-> Content[a]])
          ELSE StreamFails(e)

SetClient(e, c) ==
    /\ m_client[e] # c
    /\ m_client' = [m_client EXCEPT ![e] = c]
    /\ UpdateStream(e, c, m_method[e], m_argument[e], m_enabled[e])
    /\ UNCHANGED <<clients, arguments, m_method, m_argument>>

SetMethod(e, m) ==
    /\ m_method[e] # m
    /\ m_method' = [m_method EXCEPT ![e] = m]
    /\ UpdateStream(e, m_client[e], m, m_argument[e], m_enabled[e])
    /\ UNCHANGED <<clients, arguments, m_client, m_argument>>

SetArgument(e, a) ==
    /\ m_argument[e] # a
    /\ m_argument' = [m_argument EXCEPT ![e] = a]
    /\ UpdateStream(e, m_client[e], m_method[e], a, m_enabled[e])
    /\ UNCHANGED <<clients, arguments, m_client, m_method>>

SetEnabled(e) ==
    /\ UpdateStream(e, m_client[e], m_method[e], m_argument[e], ~m_enabled[e])
    /\ UNCHANGED <<clients, arguments, settings>>

\* A destructor that does not abort.
DestroySilent(e) ==
    /\ m_client' = [m_client EXCEPT ![e] = Null]
    /\ m_method' = [m_method EXCEPT ![e] = Null]
    /\ m_argument' = [m_argument EXCEPT ![e] = Null]
    /\ m_enabled' = [m_enabled EXCEPT ![e] = FALSE]
    /\ m_stream' = [m_stream EXCEPT ![e] = Null]
    /\ m_returnValue' = [m_returnValue EXCEPT ![e] = FALSE]
    /\ UNCHANGED <<clients, arguments, activeStreams>>

\* The element is destroyed, its stream aborted, and a new one takes its place.
Destroy(e) ==
    /\ m_client' = [m_client EXCEPT ![e] = Null]
    /\ m_method' = [m_method EXCEPT ![e] = Null]
    /\ m_argument' = [m_argument EXCEPT ![e] = Null]
    /\ \/ /\ m_stream[e] # Null
          /\ Finished(m_stream[e])
       \/ /\ m_stream[e] = Null
          /\ m_enabled' = [m_enabled EXCEPT ![e] = FALSE]
          /\ UNCHANGED <<activeStreams, m_stream, m_returnValue>>
    /\ UNCHANGED <<clients, arguments>>

\* The channel ends a stream, and emits its finished signal.
StreamFinished(s) ==
    /\ Finished(s)
    /\ UNCHANGED <<clients, arguments, settings>>

\* A client is destroyed: the QPointers to it become null, its streams are
\* cancelled in the channel, and no signal says so.
ClientDestroyed(c) ==
    /\ clients' = clients \ {c}
    /\ m_client' = ClearedIn(m_client, {e \in Elements : m_client[e] = c}, Null)
    /\ activeStreams' = {s \in activeStreams : s.client # c}
    /\ UNCHANGED <<arguments, m_method, m_argument, m_enabled, m_stream, m_returnValue>>

\* An argument object is destroyed: the QPointers to it become null.  The streams
\* go on with their copies of it.
ArgumentDestroyed(a) ==
    /\ arguments' = arguments \ {a}
    /\ m_argument' = ClearedIn(m_argument, {e \in Elements : m_argument[e] = a}, Null)
    /\ UNCHANGED <<clients, activeStreams, m_client, m_method, m_enabled, m_stream,
                   m_returnValue>>

Next ==
    \/ \E e \in Elements :
         \/ \E c \in clients \cup {Null} : SetClient(e, c)
         \/ \E m \in Methods \cup {Null} : SetMethod(e, m)
         \/ \E a \in arguments \cup {Null} : SetArgument(e, a)
         \/ SetEnabled(e) \/ Destroy(e)
    \/ \E s \in activeStreams : StreamFinished(s)
    \/ \E c \in clients : ClientDestroyed(c)
    \/ \E a \in arguments : ArgumentDestroyed(a)

Spec == Init /\ [][Next]_vars

-----------------------------------------------------------------------------
(* Properties *)

\* What an element shows is what it was last told to show: an element with a
\* stream is enabled, and the stream is that of its method, its argument and its
\* client and has not finished, whichever of the elements that share it, or the
\* server, ended it.  A setting that is null meanwhile is an object that was
\* destroyed: the stream of a destroyed argument goes on, that of a destroyed
\* client is cancelled.
ShowsItsSettings ==
    \A e \in Elements : m_stream[e] # Null =>
        /\ m_enabled[e]
        /\ m_stream[e].method = m_method[e]
        /\ \/ m_argument[e] # Null /\ m_stream[e].argument = Content[m_argument[e]]
           \/ /\ m_argument[e] = Null
              /\ \E a \in Arguments \ arguments : m_stream[e].argument = Content[a]
        /\ \/ m_stream[e].client = m_client[e] /\ m_stream[e] \in activeStreams
           \/ m_client[e] = Null /\ m_stream[e].client \notin clients

\* The clients keep no stream that no element shows: every way to leave a stream
\* cancels it in the channel.
NoOrphanStream == \A s \in activeStreams : Showing(s) # {}

\* An enabled element whose settings are complete has a stream, and an element has
\* a return value as long as it has a stream to write it.
EnabledIsStreaming ==
    \A e \in Elements :
        /\ m_enabled[e] /\ Null \notin {m_client[e], m_method[e], m_argument[e]}
             => m_stream[e] # Null
        /\ m_returnValue[e] <=> m_stream[e] # Null

\* "Changing any of this properties cause stream cancelation and
\* re-initialization": an element that is streaming and gets another client,
\* method or argument, with which the method can be streamed, shows the stream
\* of the new settings.
ChangeReinitializes ==
    [][\A e \in Elements :
         LET new == <<m_client'[e], m_method'[e], m_argument'[e]>>
         IN  /\ m_stream[e] # Null
             /\ new # <<m_client[e], m_method[e], m_argument[e]>>
             /\ Null \notin {new[1], new[2], new[3]} /\ new[2] \in Streamable
             => m_stream'[e] = [client |-> new[1], method |-> new[2],
                                argument |-> Content[new[3]]]]_vars
=============================================================================
