----------------------------- MODULE Http2Stream -----------------------------
(***************************************************************************)
(* A server stream of QGrpcHttp2Channel (grpc/qgrpchttp2channel.cpp).  Its *)
(* QNetworkReply delivers the bytes of the stream in chunks of any size;   *)
(* the slot of readyRead cuts them into messages, each behind a header of  *)
(* five bytes with its length, and hands them to QGrpcStream::handler.     *)
(* Bytes are positions in the stream of the reply: the container of        *)
(* activeStreamReplies always holds the bytes from one position to the     *)
(* last one received.                                                      *)
(***************************************************************************)
EXTENDS Integers, Sequences

CONSTANTS
    GrpcMessageSizeHeaderSize,
    Payloads,           \* lengths of messages
    MaxPayload,         \* bound: the longest of them
    MaxFrames,          \* bound: messages of one subscription
    MaxHandled,         \* bound: calls of the handler that are recorded
    Garbage             \* sizes that are read from bytes that are not a header

H == GrpcMessageSizeHeaderSize

ASSUME HeaderAssumption == GrpcMessageSizeHeaderSize \in Nat \ {0}
ASSUME PayloadsAssumption ==
    MaxPayload \in Nat /\ Payloads \subseteq 0 .. MaxPayload /\ MaxFrames \in Nat
ASSUME HandledAssumption == MaxHandled \in Nat /\ MaxHandled >= MaxFrames
ASSUME GarbageAssumption == Garbage \subseteq Int

VARIABLES
    frames,         \* the messages the server sends: their positions and lengths
    received,       \* bytes of the reply read so far
    entry,          \* activeStreamReplies has an entry for the reply
    expectedSize,   \* its expectedSize
    from,           \* the first byte of its container
    looping,        \* the readyRead slot is in its while loop
    reply,          \* "running", "finished" (aborted included) or "deleted"
    handled,        \* what the handler got: position and length
    regular         \* history: the chunks of this reply were all Regular

vars == <<frames, received, entry, expectedSize, from, looping, reply, handled, regular>>

\* What a server may send: messages that follow each other, each behind its header.
Streams ==
    {f \in UNION {[1 .. n -> [at : 0 .. MaxFrames * (H + MaxPayload), len : Payloads]] :
                    n \in 1 .. MaxFrames} :
        /\ f[1].at = 0
        /\ \A i \in 1 .. Len(f) - 1 : f[i + 1].at = f[i].at + H + f[i].len}

\* The position behind message i, and how many bytes there are in all.
End(i) == frames[i].at + H + frames[i].len
Total == End(Len(frames))
Size == received - from

TypeOK ==
    /\ frames \in Streams
    /\ received \in 0 .. Total
    /\ entry \in BOOLEAN /\ looping \in BOOLEAN
    /\ expectedSize \in Int
    /\ from \in 0 .. received
    /\ reply \in {"running", "finished", "deleted"}
    /\ handled \in Seq([at : Nat, len : Nat])
    /\ regular \in BOOLEAN

\* stream() has posted the request and connected its slots.
Init ==
    /\ frames \in Streams
    /\ received = 0 /\ from = 0
    /\ entry = FALSE /\ looping = FALSE
    /\ expectedSize = 0
    /\ reply = "running"
    /\ handled = <<>>
    /\ regular = TRUE

-----------------------------------------------------------------------------
(* The slot of readyRead. *)

\* getExpectedDataSize of the bytes from position p to position q: the message
\* size from the header if that is what they begin with.  Other bytes are taken
\* for an int of any value, and so is the memory behind a container of less than
\* a header.
ExpectedDataSize(p, q) ==
    IF q - p >= H /\ \E i \in 1 .. Len(frames) : frames[i].at = p
    THEN {frames[i].len + H : i \in {j \in 1 .. Len(frames) : frames[j].at = p}}
    ELSE Garbage

\* The two kinds of chunk, with the bytes from p to q, that the slot does not
\* handle: one that ends inside a header, and one that ends right behind a header
\* that it does not begin with.
SplitsHeader(q) == \E i \in 1 .. Len(frames) : frames[i].at < q /\ q < frames[i].at + H
EndsBehindHeader(p, q) == \E i \in 1 .. Len(frames) : p < frames[i].at /\ q = frames[i].at + H

Regular(p, q) == ~SplitsHeader(q) /\ ~EndsBehindHeader(p, q)

\* The handler is called with len bytes from position at.
Handle(at, len) ==
    handled' = IF Len(handled) < MaxHandled
               THEN Append(handled, [at |-> at, len |-> len]) ELSE handled

\* readyRead: a first chunk makes the entry, then the chunk is appended.  A first
\* chunk of size zero is dropped, and the handler called with no bytes.
ReadyRead ==
    /\ reply = "running" /\ ~looping
    /\ \E q \in received + 1 .. Total :
         /\ received' = q
         /\ regular' = (regular /\ Regular(received, q))
         /\ \/ /\ entry
               /\ UNCHANGED <<entry, expectedSize, from, reply, handled>>
               /\ looping' = TRUE
            \/ /\ ~entry
               /\ expectedSize' \in ExpectedDataSize(received, q) \ {0}
               /\ from' = received
               /\ entry' = TRUE /\ looping' = TRUE
               /\ UNCHANGED <<reply, handled>>
            \/ /\ ~entry
               /\ 0 \in ExpectedDataSize(received, q)
               /\ from' = q
               /\ Handle(q, 0)
               /\ reply' \in {"running", "deleted"}
               /\ UNCHANGED <<entry, expectedSize, looping>>
    /\ UNCHANGED frames

\* container.mid(H, expectedSize - H): QByteArray takes a negative length for all
\* that there is.
Mid ==
    IF expectedSize >= H THEN expectedSize - H ELSE IF Size >= H THEN Size - H ELSE 0

\* container.remove(0, expectedSize): nothing when the size is not positive.
Removed == IF expectedSize > 0 THEN expectedSize ELSE 0

\* A loop that keeps the size of the message before.
LoopStaleSize ==
    /\ looping /\ reply = "running"
    /\ Size >= expectedSize
    /\ Handle(from + H, Mid)
    /\ from' = from + Removed
    /\ UNCHANGED <<frames, received, entry, expectedSize, looping, reply, regular>>

\* An if instead of the while.
LoopOnce ==
    /\ looping /\ reply = "running"
    /\ Size >= expectedSize
    /\ Handle(from + H, Mid)
    /\ from' = from + Removed
    /\ \/ received - from' > H /\ expectedSize' \in ExpectedDataSize(from', received)
       \/ received - from' <= H /\ UNCHANGED expectedSize
    /\ looping' = FALSE
    /\ UNCHANGED <<frames, received, entry, reply, regular>>

\* One turn of the while loop: a message is complete.  Its handler may abort
\* the stream, which finishes the reply.  With a size that is not positive the
\* turn leaves the container as it is.
Loop ==
    /\ looping /\ reply = "running"
    /\ Size >= expectedSize
    /\ Handle(from + H, Mid)
    /\ from' = from + Removed
    /\ \/ /\ received - from' > H
          /\ expectedSize' \in ExpectedDataSize(from', received)
       \/ /\ received - from' <= H
          /\ UNCHANGED expectedSize
    /\ reply' \in {"running", "finished"}
    /\ UNCHANGED <<frames, received, entry, looping, regular>>

\* The loop ends; a container with less than a header in it is thrown away.
Return ==
    /\ looping
    /\ Size < expectedSize \/ reply = "finished"
    /\ looping' = FALSE
    /\ \/ /\ Size < H \/ reply = "finished"
          /\ entry' = FALSE
          /\ from' = received
       \/ /\ Size >= H /\ reply = "running"
          /\ UNCHANGED <<entry, from>>
    /\ reply' = IF reply = "finished" THEN "deleted" ELSE reply
    /\ UNCHANGED <<frames, received, expectedSize, handled, regular>>

-----------------------------------------------------------------------------
(* The other slots. *)

\* The user aborts between two chunks: the connections are cut and the reply is
\* deleted; its entry stays in activeStreamReplies.
Abort ==
    /\ reply = "running" /\ ~looping
    /\ reply' = "deleted"
    /\ UNCHANGED <<frames, received, entry, expectedSize, from, looping, handled, regular>>

\* The network reply has finished, with an error or not: the entry is erased.
\* Whether the stream reports finished or an error is decided by the status.
FinishReply ==
    /\ reply = "running" /\ ~looping
    /\ reply' = "deleted"
    /\ entry' = FALSE
    /\ from' = received
    /\ UNCHANGED <<frames, received, expectedSize, looping, handled, regular>>

\* A new reply takes the place of the old one: the remote host had closed the
\* connection, the client's timer retries after an error, or the user asks
\* again.  It has no entry in activeStreamReplies, as long as it does not get the
\* address of an aborted one.
Subscribe ==
    /\ reply = "deleted"
    /\ frames' \in Streams
    /\ reply' = "running"
    /\ received' = 0 /\ from' = 0
    /\ handled' = <<>> /\ regular' = TRUE
    /\ entry' = FALSE
    /\ UNCHANGED <<expectedSize, looping>>

Next == ReadyRead \/ Loop \/ Return \/ Abort \/ FinishReply \/ Subscribe

Spec == Init /\ [][Next]_vars

-----------------------------------------------------------------------------
(* Properties *)

\* What the handler was given are bytes of the reply, whatever chunks come and
\* whatever sizes are read from bytes that are no header: a size that is too large
\* waits for more, one that is negative hands over what there is.
HandlerGetsReceived ==
    \A i \in 1 .. Len(handled) :
        handled[i].len > 0 => handled[i].at + handled[i].len <= received

\* "handler callback that will be called when message recevied": the handler gets
\* bytes that were received and, as long as all chunks were regular, the first
\* messages of the server, each once, whole and in order.
HandlerGetsMessages ==
    /\ HandlerGetsReceived
    /\ regular =>
         \A i \in 1 .. Len(handled) :
             /\ i <= Len(frames)
             /\ handled[i] = [at |-> frames[i].at + H, len |-> frames[i].len]

\* When the slot of readyRead has returned, and all chunks were regular, every
\* message whose bytes are all there has been handled: none waits for a chunk that
\* may never come.
NoMessageHeldBack ==
    regular /\ reply = "running" /\ ~looping =>
        \A i \in 1 .. Len(frames) : End(i) <= received => i <= Len(handled)
=============================================================================
