------------------------- MODULE GrpcChannelBidirect -------------------------
(***************************************************************************)
(* A bidirectional stream of the native channel: QGrpcChannelStreamBidirect*)
(* and the slots that QGrpcChannelPrivate::stream connects to the user's   *)
(* QGrpcStreamBidirect.  gRPC takes one Write at a time, so writes queue   *)
(* in m_sendQueue behind the one in progress; every write answers through  *)
(* a QGrpcWriteReplay.  User slots run inside these handlers only add      *)
(* calls of abort() and write() next to them, which are actions here.      *)
(***************************************************************************)
EXTENDS GrpcAsyncCall

CONSTANT MaxWrites      \* bound: calls of write(), and of writeDone()

ASSUME MaxWritesAssumption == MaxWrites \in Nat

VARIABLES
    m_readerState,
    m_status,
    connected,              \* the seven connections made by stream() exist
    m_sendQueue,            \* writes that wait: their replay, and whether WritesDone
    m_inProcess,
    m_currentWriteReplay,   \* 0 is the null pointer
    asked,                  \* replays handed out so far
    closing,                \* the user has called writeDone()
    status,                 \* replay -> QGrpcWriteReplay::WriteStatus
    wire                    \* replays whose Write or WritesDone was started, in order

readVars == <<m_readerState, m_status, connected>>
writeVars == <<m_sendQueue, m_inProcess, m_currentWriteReplay, asked, closing, status, wire>>
vars == <<baseVars, readVars, writeVars>>

Replays == 1 .. MaxWrites

\* stream() has made the connections; startReader holds writes back until the
\* first newData.
Init ==
    /\ BaseInit
    /\ m_readerState = "FIRST_CALL"
    /\ m_status = "OK"
    /\ connected = TRUE
    /\ m_sendQueue = <<>>
    /\ m_inProcess = TRUE
    /\ m_currentWriteReplay = 0
    /\ asked = 0
    /\ closing = FALSE
    /\ status = [r \in Replays |-> "NotConnected"]
    /\ wire = <<>>

-----------------------------------------------------------------------------
(* dequeueWrite, with q the queue at that moment. *)

DequeueOps(q) == IF q = <<>> THEN {} ELSE {"write"}

\* Dequeue from the wrong end.
DequeueLast(q) ==
    /\ m_inProcess' = (q # <<>>)
    /\ m_sendQueue' = IF q = <<>> THEN q ELSE SubSeq(q, 1, Len(q) - 1)
    /\ wire' = IF q = <<>> THEN wire ELSE Append(wire, q[Len(q)].replay)
    /\ m_currentWriteReplay' = IF q = <<>> \/ q[Len(q)].done THEN m_currentWriteReplay
                               ELSE q[Len(q)].replay

DequeueWrite(q) ==
    /\ m_inProcess' = (q # <<>>)
    /\ m_sendQueue' = IF q = <<>> THEN q ELSE Tail(q)
    /\ wire' = IF q = <<>> THEN wire ELSE Append(wire, Head(q).replay)
    /\ m_currentWriteReplay' = IF q = <<>> \/ Head(q).done THEN m_currentWriteReplay
                               ELSE Head(q).replay

-----------------------------------------------------------------------------
(* The user's calls, in the client thread. *)

\* write(): a new replay, which stays NotConnected without the connection.
\* With it the slot of writeReady calls appendToSend, which starts the Write
\* or queues it behind the one in progress.
Write ==
    LET r == asked + 1 IN
    /\ asked < MaxWrites /\ ~closing
    /\ asked' = r
    /\ \/ /\ ~connected
          /\ UNCHANGED <<ops, m_refCount, m_sendQueue, m_inProcess,
                         m_currentWriteReplay, status, wire>>
       \/ /\ connected /\ m_inProcess
          /\ status' = [status EXCEPT ![r] = "InProcess"]
          /\ m_sendQueue' = Append(m_sendQueue, [replay |-> r, done |-> FALSE])
          /\ UNCHANGED <<ops, m_refCount, m_inProcess, m_currentWriteReplay, wire>>
       \/ /\ connected /\ ~m_inProcess
          /\ status' = [status EXCEPT ![r] = "InProcess"]
          /\ m_inProcess' = TRUE
          /\ m_currentWriteReplay' = r
          /\ wire' = Append(wire, r)
          /\ ops' = ops \cup {"write"}
          /\ m_refCount' = m_refCount + 1
          /\ UNCHANGED m_sendQueue
    /\ UNCHANGED <<sent, got, trailer, posted, m_grpc_status, alive, shared, readVars, closing>>

\* write() of a message that does not serialize: its replay fails at once.
WriteBad ==
    LET r == asked + 1 IN
    /\ asked < MaxWrites /\ ~closing
    /\ asked' = r
    /\ status' = [status EXCEPT ![r] = "Failed"]
    /\ UNCHANGED <<baseVars, readVars, closing, m_sendQueue, m_inProcess, m_currentWriteReplay, wire>>

\* writeDone(), called once, after the last write.  The function drops a
\* reference before it returns, whatever it did.
WriteDone ==
    LET r == asked + 1 IN
    /\ asked < MaxWrites /\ ~closing
    /\ asked' = r
    /\ closing' = TRUE
    /\ \/ /\ ~connected
          /\ UNCHANGED <<ops, m_refCount, alive, m_sendQueue, m_currentWriteReplay, status, wire>>
       \/ /\ connected
          /\ status' = [status EXCEPT ![r] = "InProcess"]
          /\ IF m_inProcess
             THEN /\ m_sendQueue' = Append(m_sendQueue, [replay |-> r, done |-> TRUE])
                  /\ m_refCount' = m_refCount - 1
                  /\ UNCHANGED <<ops, m_currentWriteReplay, wire>>
             ELSE /\ m_currentWriteReplay' = r
                  /\ wire' = Append(wire, r)
                  /\ ops' = ops \cup {"write"}
                  /\ m_refCount' = m_refCount + 1 - 1
                  /\ UNCHANGED m_sendQueue
          /\ alive' = (alive /\ m_refCount' # 0)
    /\ UNCHANGED <<sent, got, trailer, posted, m_grpc_status, shared, readVars, m_inProcess>>

\* The slots of QGrpcStreamBidirect::finished and of the client's destroyed.
Abort ==
    /\ connected
    /\ connected' = FALSE
    /\ trailer' = TryCancel
    /\ SharedPtrReleased
    /\ UNCHANGED <<sent, got, m_grpc_status, m_readerState, m_status, writeVars>>

-----------------------------------------------------------------------------
(* The handlers, in the client thread. *)

NewDataEnd ==
    /\ DispatchNewData(FALSE)
    /\ m_readerState' = "ENDED"
    /\ Refs({}, FALSE)
    /\ UNCHANGED <<sent, got, trailer, m_grpc_status, m_status, connected, writeVars>>

\* The first newData lets the writes go that waited for the call to start.
NewDataFirst ==
    /\ DispatchNewData(TRUE)
    /\ m_readerState = "FIRST_CALL"
    /\ m_readerState' = "PROCESSING"
    /\ DequeueWrite(m_sendQueue)
    /\ Refs({"read"} \cup DequeueOps(m_sendQueue), FALSE)
    /\ UNCHANGED <<sent, got, trailer, m_grpc_status, m_status, connected, asked, closing, status>>

NewDataBad ==
    /\ DispatchNewData(TRUE)
    /\ m_readerState = "PROCESSING"
    /\ m_readerState' = "ENDED"
    /\ m_grpc_status' = "ERR"
    /\ m_status' = "ERR"
    /\ trailer' = TryCancel
    /\ Refs({}, FALSE)
    /\ UNCHANGED <<sent, got, connected, writeVars>>

\* The message goes to the handlers of the stream, which may abort it.
NewData ==
    /\ DispatchNewData(TRUE)
    /\ m_readerState = "PROCESSING"
    /\ m_grpc_status' = "OK"
    /\ \E aborts \in BOOLEAN :
         /\ aborts => connected
         /\ connected' = (connected /\ ~aborts)
         /\ trailer' = IF aborts THEN TryCancel ELSE trailer
         /\ Refs({"read"}, aborts)
    /\ UNCHANGED <<sent, got, m_readerState, m_status, writeVars>>

\* The replays of the write in progress and of the queued ones.
Waiting ==
    {m_sendQueue[i].replay : i \in DOMAIN m_sendQueue}
      \cup (IF m_inProcess THEN {m_currentWriteReplay} \ {0} ELSE {})

\* A finishRead that forgets the writes still in the queue.
FinishReadForgets ==
    /\ Dispatch("finish", TRUE)
    /\ m_status' = IF m_status = "OK" \/ m_grpc_status # "OK" THEN m_grpc_status ELSE m_status
    /\ m_sendQueue' = <<>>
    /\ connected' = FALSE
    /\ Refs({}, connected)
    /\ UNCHANGED <<sent, got, trailer, m_grpc_status, m_readerState,
                   m_inProcess, m_currentWriteReplay, asked, closing, wire, status>>

\* A finishRead that keeps the connections, and so the object, for ever.
FinishReadKeeps ==
    /\ Dispatch("finish", TRUE)
    /\ m_status' = IF m_status = "OK" \/ m_grpc_status # "OK" THEN m_grpc_status ELSE m_status
    /\ status' = [r \in Replays |-> IF r \in Waiting THEN "Failed" ELSE status[r]]
    /\ m_sendQueue' = <<>>
    /\ Refs({}, FALSE)
    /\ UNCHANGED <<sent, got, trailer, m_grpc_status, m_readerState, connected,
                   m_inProcess, m_currentWriteReplay, asked, closing, wire>>

\* finishRead fails every write that waits, then reports the end of the call.
FinishRead ==
    /\ Dispatch("finish", TRUE)
    /\ m_status' = IF m_status = "OK" \/ m_grpc_status # "OK" THEN m_grpc_status ELSE m_status
    /\ status' = [r \in Replays |-> IF r \in Waiting THEN "Failed" ELSE status[r]]
    /\ m_sendQueue' = <<>>
    /\ connected' = FALSE
    /\ Refs({}, connected)
    /\ UNCHANGED <<sent, got, trailer, m_grpc_status, m_readerState,
                   m_inProcess, m_currentWriteReplay, asked, closing, wire>>

\* A finishWrite that starts the next write without a reference for it.
FinishWriteNoRef(ok) ==
    /\ Dispatch("write", ok)
    /\ status' = [status EXCEPT ![m_currentWriteReplay] = IF ok THEN "OK" ELSE "Failed"]
    /\ DequeueWrite(m_sendQueue)
    /\ ops' = ops \cup DequeueOps(m_sendQueue)
    /\ m_refCount' = m_refCount - 1
    /\ alive' = (alive /\ m_refCount' # 0)
    /\ UNCHANGED <<sent, got, trailer, m_grpc_status, shared, readVars, asked, closing>>

\* finishWrite answers the write in progress and, unless it has just deleted
\* the object, starts the next one.
FinishWrite(ok) ==
    /\ Dispatch("write", ok)
    /\ m_currentWriteReplay # 0
    /\ status' = [status EXCEPT ![m_currentWriteReplay] = IF ok THEN "OK" ELSE "Failed"]
    /\ \/ /\ m_refCount > 1
          /\ DequeueWrite(m_sendQueue)
          /\ Refs(DequeueOps(m_sendQueue), FALSE)
       \/ /\ m_refCount = 1
          /\ Refs({}, FALSE)
          /\ UNCHANGED <<m_inProcess, m_sendQueue, wire, m_currentWriteReplay>>
    /\ UNCHANGED <<sent, got, trailer, m_grpc_status, readVars, asked, closing>>

-----------------------------------------------------------------------------

Server == (ServerSend \/ ServerClose) /\ UNCHANGED <<readVars, writeVars>>

Worker ==
    /\ CompleteSend("start") \/ CompleteRead \/ CompleteFinish
    /\ UNCHANGED <<readVars, writeVars>>

\* A Write may wait for as long as the server does not read and the call lasts.
WorkerWrite == CompleteSend("write") /\ UNCHANGED <<readVars, writeVars>>

EventLoop ==
    \/ NewDataEnd \/ NewDataFirst \/ NewDataBad \/ NewData
    \/ FinishRead \/ (\E ok \in BOOLEAN : FinishWrite(ok))

\* After a writeDone() the program can go wrong: finishWrite does not test for a
\* null replay, and a handler may let go of an object that is deleted already.
Undefined ==
    \/ posted # <<>> /\ Head(posted).tag = "write" /\ m_currentWriteReplay = 0
    \/ m_refCount < 0

Done == (~alive \/ Undefined) /\ UNCHANGED vars

Next ==
    \/ Server \/ Worker \/ WorkerWrite \/ EventLoop
    \/ Write \/ WriteBad \/ WriteDone \/ Abort \/ Done

SafeSpec == Init /\ [][Next]_vars

Spec ==
    /\ SafeSpec
    /\ WF_vars(Worker)
    /\ WF_vars(trailer # "none" /\ WorkerWrite)
    /\ WF_vars(EventLoop)

-----------------------------------------------------------------------------
(* Properties.  The reference that writeDone() gives back without having taken *)
(* it makes what follows it undefined, so that three of them claim nothing     *)
(* about a stream the user has closed.                                         *)

\* When the object is deleted nothing that is under way refers to it, in
\* whichever order abort, finishRead, finishWrite and newData end.
FreedUnused == ~closing => NoUseAfterFree

\* Writes, and the writeDone() behind them, reach gRPC one at a time in the order
\* of the calls, and the queue holds only later ones.
WritesInOrder ==
    LET all == wire \o [i \in 1 .. Len(m_sendQueue) |-> m_sendQueue[i].replay]
    IN  \A i, j \in 1 .. Len(all) : i < j => all[i] < all[j]

\* Whoever waits for a replay, as writeBlocked() does in its event loop, gets an
\* answer once the call has ended.
WritesAnswered ==
    \A r \in Replays :
        trailer # "none" /\ status[r] = "InProcess" ~> closing \/ status[r] # "InProcess"

\* A call that has ended frees its object, with writes in the queue or not.
EndedIsFreed == trailer # "none" ~> closing \/ ~alive
=============================================================================
