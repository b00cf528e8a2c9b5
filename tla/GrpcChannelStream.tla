-------------------------- MODULE GrpcChannelStream --------------------------
(***************************************************************************)
(* A server stream of the native channel, from QGrpcChannelPrivate::stream *)
(* to the deletion of its QGrpcChannelStream: the reader's handlers run in *)
(* the client thread, one per event the worker posts; the five connections *)
(* made by stream() tie it to the user's QGrpcStream and to the client,    *)
(* and are cut all together.                                               *)
(***************************************************************************)
EXTENDS GrpcAsyncCall

VARIABLES
    m_readerState,  \* "FIRST_CALL", "PROCESSING" or "ENDED"
    m_status,       \* the QGrpcStatus reported to the stream
    connected,      \* the connections made by stream() exist
    delivered,      \* messages handed to QGrpcStream::handler
    told            \* what the user's side knows: "open", "aborted", "OK", "ERR"

streamVars == <<m_readerState, m_status, connected, delivered, told>>
vars == <<baseVars, streamVars>>

TypeOK ==
    /\ BaseTypeOK
    /\ m_readerState \in {"FIRST_CALL", "PROCESSING", "ENDED"}
    /\ m_status \in Codes
    /\ connected \in BOOLEAN
    /\ delivered \in Nat
    /\ told \in {"open", "aborted", "OK", "ERR"}

\* stream() has made the connections and called startReader.
Init ==
    /\ BaseInit
    /\ m_readerState = "FIRST_CALL"
    /\ m_status = "OK"
    /\ connected = TRUE
    /\ delivered = 0
    /\ told = "open"

-----------------------------------------------------------------------------
(* The client thread. *)

\* The slots of QGrpcStream::finished (the user aborts) and of the client's
\* destroyed signal: cut every connection, cancel the call.  Cutting them
\* destroys the slots and with them the last shared_ptr.
Abort ==
    /\ connected
    /\ connected' = FALSE
    /\ told' = "aborted"
    /\ trailer' = TryCancel
    /\ SharedPtrReleased
    /\ UNCHANGED <<sent, got, m_grpc_status, m_readerState, m_status, delivered>>

\* newData(false)
NewDataEnd ==
    /\ DispatchNewData(FALSE)
    /\ m_readerState' = "ENDED"
    /\ Refs({}, FALSE)
    /\ UNCHANGED <<sent, got, trailer, m_grpc_status, m_status, connected, delivered, told>>

\* newData(true), FIRST_CALL
NewDataFirst ==
    /\ DispatchNewData(TRUE)
    /\ m_readerState = "FIRST_CALL"
    /\ m_readerState' = "PROCESSING"
    /\ Refs({"read"}, FALSE)
    /\ UNCHANGED <<sent, got, trailer, m_grpc_status, m_status, connected, delivered, told>>

\* newData(true), PROCESSING, and the message cannot be dumped
NewDataBad ==
    /\ DispatchNewData(TRUE)
    /\ m_readerState = "PROCESSING"
    /\ m_readerState' = "ENDED"
    /\ m_grpc_status' = "ERR"
    /\ m_status' = "ERR"
    /\ trailer' = TryCancel
    /\ Refs({}, FALSE)
    /\ UNCHANGED <<sent, got, connected, delivered, told>>

\* A newData that forgets the reference of the Read it starts.
NewDataNoRef ==
    /\ DispatchNewData(TRUE)
    /\ m_readerState = "PROCESSING"
    /\ m_grpc_status' = "OK"
    /\ delivered' = IF connected THEN delivered + 1 ELSE delivered
    /\ ops' = ops \cup {"read"}
    /\ m_refCount' = m_refCount - 1
    /\ alive' = (alive /\ m_refCount' # 0)
    /\ UNCHANGED <<sent, got, trailer, shared, m_readerState, m_status, connected, told>>

\* A newData whose message reaches the handler although the stream is closed.
NewDataStillRead ==
    /\ DispatchNewData(TRUE)
    /\ m_readerState = "PROCESSING"
    /\ m_grpc_status' = "OK"
    /\ delivered' = delivered + 1
    /\ Refs({"read"}, FALSE)
    /\ UNCHANGED <<sent, got, trailer, m_readerState, m_status, connected, told>>

\* A newData that ignores a message once gRPC has completed Finish.
NewDataTooLate ==
    /\ DispatchNewData(TRUE)
    /\ m_readerState = "PROCESSING"
    /\ m_grpc_status' = "OK"
    /\ delivered' = IF connected /\ "finish" \in ops THEN delivered + 1 ELSE delivered
    /\ Refs({"read"}, FALSE)
    /\ UNCHANGED <<sent, got, trailer, m_readerState, m_status, connected, told>>

\* newData(true), PROCESSING: the message goes to the handlers of the stream,
\* which may call abort() before they return; then the next Read is started.
NewData ==
    /\ DispatchNewData(TRUE)
    /\ m_readerState = "PROCESSING"
    /\ m_grpc_status' = "OK"
    /\ delivered' = IF connected THEN delivered + 1 ELSE delivered
    /\ \E aborts \in BOOLEAN :
         /\ aborts => connected
         /\ connected' = (connected /\ ~aborts)
         /\ told' = IF aborts THEN "aborted" ELSE told
         /\ trailer' = IF aborts THEN TryCancel ELSE trailer
         /\ Refs({"read"}, aborts)
    /\ UNCHANGED <<sent, got, m_readerState, m_status>>

\* A finishRead that keeps the connections, and so the object, for ever.
FinishReadKeeps ==
    /\ Dispatch("finish", TRUE)
    /\ m_status' = IF m_status = "OK" \/ m_grpc_status # "OK" THEN m_grpc_status ELSE m_status
    /\ told' = IF connected THEN m_status' ELSE told
    /\ Refs({}, FALSE)
    /\ UNCHANGED <<sent, got, trailer, m_grpc_status, m_readerState, delivered, connected>>

\* finishRead: the slot of finished cuts the connections and reports an error.
FinishRead ==
    /\ Dispatch("finish", TRUE)
    /\ m_status' = IF m_status = "OK" \/ m_grpc_status # "OK" THEN m_grpc_status ELSE m_status
    /\ told' = IF connected THEN m_status' ELSE told
    /\ connected' = FALSE
    /\ Refs({}, connected)
    /\ UNCHANGED <<sent, got, trailer, m_grpc_status, m_readerState, delivered>>

-----------------------------------------------------------------------------

Server == (ServerSend \/ ServerClose) /\ UNCHANGED streamVars

Worker == (CompleteSend("start") \/ CompleteRead \/ CompleteFinish) /\ UNCHANGED streamVars

EventLoop == NewDataEnd \/ NewDataFirst \/ NewDataBad \/ NewData \/ FinishRead

\* Nothing is left to do once the object is gone.
Done == ~alive /\ UNCHANGED vars

Next == Server \/ Worker \/ EventLoop \/ Abort \/ Done

\* gRPC completes what can complete, the worker posts it and the event loop of
\* the client thread runs it; neither the server nor the user has to act.
Fairness == WF_vars(Worker) /\ WF_vars(EventLoop)

SafeSpec == Init /\ [][Next]_vars

Spec == SafeSpec /\ Fairness

-----------------------------------------------------------------------------
(* Properties *)

\* A stream that the server closed with OK, and that ends as OK for the client,
\* has handed every message of the server to its handlers before.
OkCloseIsComplete == told = "OK" /\ trailer = "OK" => delivered = sent

\* Once the user has aborted or was told how the stream ended, no handler runs
\* for it any more, although Reads may still complete.
SilentAfterEnd == [][told # "open" => delivered' = delivered]_vars

\* A call that has ended, by the server, by an error or by an abort, frees its
\* object: no reference is left behind.
EndedIsFreed == trailer # "none" ~> ~alive

\* What QGrpcAsyncOperationBase::error promises: a stream whose call failed is
\* never reported as ended without an error.
ErrorsAreReported == told = "OK" => trailer = "OK"
=============================================================================
