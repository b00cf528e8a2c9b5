----------------------------- MODULE GrpcClient -----------------------------
(***************************************************************************)
(* The streams of a QAbstractGrpcClient (grpc/qabstractgrpcclient.cpp).    *)
(* stream() shares one QGrpcStream among the callers that ask for the same *)
(* method and argument; an error of the stream starts a timer of one       *)
(* second, after which the client subscribes again; finished takes the     *)
(* stream out of activeStreams.  A QGrpcStream lives as long as a          *)
(* shared_ptr to it: the caller's, or those in activeStreams and in the    *)
(* client's two slots.                                                     *)
(*                                                                         *)
(* The channel is what this class sees of it: subscriptions that end with  *)
(* an error, or are closed by the server.  Everything happens in the       *)
(* client's thread (calls from other threads are handed over and waited    *)
(* for), so every action is one event of its loop.                         *)
(***************************************************************************)
EXTENDS Integers, FiniteSets, Sequences, SequencesExt

CONSTANTS
    Streams,        \* QGrpcStream objects (addresses, reused once free)
    Keys,           \* what operator== compares: method and argument
    BidirectKeys,   \* those of streamBidirect(), a QGrpcStreamBidirect each
    SignalsClose,   \* the channel emits finished when the server closes a stream:
                    \* the HTTP/2 channel does, the native one does not
    KeepsFinished,  \* callers keep their shared_ptr to a stream that has emitted
                    \* finished; QQuickGrpcStream, for one, lets it go
    MaxTimers       \* bound: retry timers, and subscriptions, of one stream

ASSUME KeysAssumption == Keys # {} /\ BidirectKeys \subseteq Keys
ASSUME FlagsAssumption == {SignalsClose, KeepsFinished} \subseteq BOOLEAN
ASSUME MaxTimersAssumption == MaxTimers \in Nat \ {0}

VARIABLES
    attached,       \* a channel is attached
    activeStreams,  \* activeStreams and activeStreamsBidirect
    key,            \* stream -> key
    held,           \* streams to which a caller has a shared_ptr
    wired,          \* streams whose error and finished slots are connected
    subs,           \* stream -> live subscriptions in the channel
    timers,         \* stream -> pending retry timers
    closed          \* streams that have emitted finished

vars == <<attached, activeStreams, key, held, wired, subs, timers, closed>>

TypeOK ==
    /\ attached \in BOOLEAN
    /\ activeStreams \in Seq(Streams)
    /\ key \in [Streams -> Keys]
    /\ held \subseteq Streams
    /\ wired \subseteq Streams
    /\ subs \in [Streams -> Nat]
    /\ timers \in [Streams -> 0 .. MaxTimers]
    /\ closed \subseteq Streams

Init ==
    /\ attached = FALSE
    /\ activeStreams = <<>>
    /\ key = [s \in Streams |-> CHOOSE k \in Keys : TRUE]
    /\ held = {} /\ wired = {} /\ closed = {}
    /\ subs = [s \in Streams |-> 0]
    /\ timers = [s \in Streams |-> 0]

Active == Range(activeStreams)

\* Only the native channel has bidirectional streams.
Bidirect(s) == key[s] \in BidirectKeys
Signals(s) == SignalsClose /\ ~Bidirect(s)
ServerStreams == {s \in Active : ~Bidirect(s)}

\* Some shared_ptr keeps the object; weak_ptr::lock succeeds.
Exists(s) == s \in held \cup wired

\* The address of a deleted object that nothing refers to any more.
Free(s) == ~Exists(s) /\ subs[s] = 0 /\ timers[s] = 0

-----------------------------------------------------------------------------
(* Calls of the user. *)

\* A stream() that never looks for an equal stream.
NewStreamAlways(k) ==
    /\ attached
    /\ \E s \in Streams :
         /\ Free(s)
         /\ key' = [key EXCEPT ![s] = k]
         /\ held' = held \cup {s}
         /\ wired' = wired \cup {s}
         /\ closed' = closed \ {s}
         /\ subs' = [subs EXCEPT ![s] = 1]
         /\ activeStreams' = Append(activeStreams, s)
    /\ UNCHANGED <<attached, timers>>

\* stream() for a key no active stream has: a new object, both slots, the
\* subscription, and a place in activeStreams.
NewStream(k) ==
    /\ attached
    /\ \A s \in Active : key[s] # k
    /\ \E s \in Streams :
         /\ Free(s)
         /\ key' = [key EXCEPT ![s] = k]
         /\ held' = held \cup {s}
         /\ wired' = wired \cup {s}
         /\ closed' = closed \ {s}
         /\ subs' = [subs EXCEPT ![s] = 1]
         /\ activeStreams' = Append(activeStreams, s)
    /\ UNCHANGED <<attached, timers>>

\* stream() for a key that is active: the first such stream is shared.
JoinStream(k) ==
    /\ attached
    /\ \E i \in DOMAIN activeStreams :
         /\ key[activeStreams[i]] = k
         /\ \A j \in 1 .. i - 1 : key[activeStreams[j]] # k
         /\ held' = held \cup {activeStreams[i]}
    /\ UNCHANGED <<attached, activeStreams, key, wired, subs, timers, closed>>

\* What the finished signal of s sets off in the client, if its slot is still
\* connected: the first stream equal to s leaves activeStreams, the slots are
\* disconnected and their shared_ptrs released.
Finished(s) ==
    /\ activeStreams' =
         IF s \in wired
         THEN RemoveAt(activeStreams,
                       SelectInSeq(activeStreams, LAMBDA a : key[a] = key[s]))
         ELSE activeStreams
    /\ wired' = wired \ {s}
    /\ closed' = closed \cup {s}
    /\ held' = IF KeepsFinished THEN held ELSE held \ {s}

\* An abort that the channel does not hear of.
AbortUnheard(s) ==
    /\ s \in held
    /\ Finished(s)
    /\ UNCHANGED <<attached, key, timers, subs>>

\* abort() by a caller; the slots in the channel end the subscription.
Abort(s) ==
    /\ s \in held
    /\ Finished(s)
    /\ subs' = [subs EXCEPT ![s] = 0]
    /\ UNCHANGED <<attached, key, timers>>

Release(s) ==
    /\ s \in held
    /\ held' = held \ {s}
    /\ UNCHANGED <<attached, activeStreams, key, wired, subs, timers, closed>>

\* attachChannel: the active streams are aborted.  The loop runs over the
\* vector that the finished slot erases from, which is defined for at most one
\* stream; bidirectional streams are left alone.
AttachChannel ==
    /\ attached' = TRUE
    /\ \/ /\ ServerStreams = {}
          /\ UNCHANGED <<activeStreams, wired, closed, held, subs>>
       \/ \E s \in Streams :
            /\ ServerStreams = {s}
            /\ Finished(s)
            /\ subs' = [subs EXCEPT ![s] = 0]
    /\ UNCHANGED <<key, timers>>

-----------------------------------------------------------------------------
(* Signals of the stream, and the timer. *)

\* The client's error slot starts the timer.
StartTimer(s) == timers' = IF s \in wired THEN [timers EXCEPT ![s] = @ + 1] ELSE timers

\* An error slot that gives up.
ErrorGivesUp(s) ==
    /\ subs[s] > 0
    /\ subs' = [subs EXCEPT ![s] = @ - 1]
    /\ UNCHANGED <<attached, activeStreams, key, held, wired, timers, closed>>

\* The channel lost the subscription and emits error through the stream.
ChannelError(s) ==
    /\ subs[s] > 0 /\ timers[s] < MaxTimers
    /\ subs' = [subs EXCEPT ![s] = @ - 1]
    /\ StartTimer(s)
    /\ UNCHANGED <<attached, activeStreams, key, held, wired, closed>>

\* The server closed the subscription with status OK.
ChannelClose(s) ==
    /\ subs[s] > 0
    /\ subs' = [subs EXCEPT ![s] = @ - 1]
    /\ IF Signals(s) THEN Finished(s) ELSE UNCHANGED <<activeStreams, wired, closed, held>>
    /\ UNCHANGED <<attached, key, timers>>

\* write() of a message that does not serialize emits error through the stream
\* too, while its subscription goes on.
WriteBad(s) ==
    /\ Bidirect(s) /\ s \in held
    /\ timers[s] + subs[s] < MaxTimers
    /\ StartTimer(s)
    /\ UNCHANGED <<attached, activeStreams, key, held, wired, subs, closed>>

\* The timer: weak_ptr::lock, and channel->stream if the object still exists.
Retry(s) ==
    /\ timers[s] > 0
    /\ timers' = [timers EXCEPT ![s] = @ - 1]
    /\ subs' = IF Exists(s) THEN [subs EXCEPT ![s] = @ + 1] ELSE subs
    /\ UNCHANGED <<attached, activeStreams, key, held, wired, closed>>

-----------------------------------------------------------------------------

Next ==
    \/ \E k \in Keys : NewStream(k) \/ JoinStream(k)
    \/ \E s \in Streams :
         \/ Abort(s) \/ Release(s)
         \/ ChannelError(s) \/ ChannelClose(s) \/ Retry(s) \/ WriteBad(s)
    \/ AttachChannel

\* A timer of the client's event loop fires.
Fairness == \A s \in Streams : WF_vars(Retry(s))

SafeSpec == Init /\ [][Next]_vars

Spec == SafeSpec /\ Fairness

-----------------------------------------------------------------------------
(* Properties *)

\* Subscriptions of a stream, present or due.
Subscriptions(s) == subs[s] + IF Exists(s) THEN timers[s] ELSE 0

\* "If stream already exists return it for handling": however errors, timers,
\* aborts and calls of stream() follow each other, the channel serves at most one
\* stream for a method and argument, and a server stream with one subscription.
\* (A bidirectional one gets another when a message does not serialize.)
OneSubscription ==
    \A s, u \in Streams :
        Subscriptions(s) > 0 /\ Subscriptions(u) > 0 /\ key[s] = key[u]
        => s = u /\ (Bidirect(s) \/ Subscriptions(s) = 1)

\* A stream that an error interrupted is subscribed again, unless it ends: the
\* client hands out no dead stream, provided that the channel says when the
\* server has closed one.
ErrorIsRetried ==
    \A s \in Streams :
        s \in Active /\ Signals(s) /\ subs[s] = 0 ~> subs[s] > 0 \/ s \notin Active

\* The finished signal is the end of communication for a stream: afterwards it
\* has no subscription.
FinishedIsFinal == \A s \in closed : subs[s] = 0
=============================================================================
