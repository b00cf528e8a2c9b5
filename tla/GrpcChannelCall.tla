--------------------------- MODULE GrpcChannelCall ---------------------------
(***************************************************************************)
(* A unary call of the native channel: QGrpcChannelCall under the two      *)
(* QGrpcChannelPrivate::call functions.  The asynchronous one keeps the    *)
(* object through a shared_ptr in three connections to the QGrpcCallReply; *)
(* the blocking one keeps it on its stack while an event loop runs, and    *)
(* destroys it when it returns.                                            *)
(***************************************************************************)
EXTENDS GrpcAsyncCall

VARIABLES
    blocking,           \* which of the two call() functions made the object
    m_readerState,
    m_status,
    responseParsed,     \* messages in responseParsed
    connected,          \* the connections made by call() exist
    told                \* "pending", "aborted", or the status the caller got

callVars == <<blocking, m_readerState, m_status, responseParsed, connected, told>>
vars == <<baseVars, callVars>>

TypeOK ==
    /\ BaseTypeOK
    /\ blocking \in BOOLEAN
    /\ m_readerState \in {"FIRST_CALL", "PROCESSING", "ENDED"}
    /\ m_status \in Codes
    /\ responseParsed \in 0 .. 1
    /\ connected \in BOOLEAN
    /\ told \in {"pending", "aborted"} \cup Codes

Init ==
    /\ BaseInit
    /\ blocking \in BOOLEAN
    /\ m_readerState = "FIRST_CALL"
    /\ m_status = "OK"
    /\ responseParsed = 0
    /\ connected = TRUE
    /\ told = "pending"

-----------------------------------------------------------------------------

\* QGrpcCallReply::abort emits an Aborted error, whose slot cuts the
\* connections; the call itself goes on.
Abort ==
    /\ ~blocking /\ connected
    /\ connected' = FALSE
    /\ told' = "aborted"
    /\ SharedPtrReleased
    /\ UNCHANGED <<blocking, sent, got, trailer, m_grpc_status, m_readerState, m_status, responseParsed>>

NewDataEnd ==
    /\ DispatchNewData(FALSE)
    /\ Refs({}, FALSE)
    /\ UNCHANGED <<sent, got, trailer, m_grpc_status, callVars>>

NewDataFirst ==
    /\ DispatchNewData(TRUE)
    /\ m_readerState = "FIRST_CALL"
    /\ m_readerState' = "PROCESSING"
    /\ Refs({"read"}, FALSE)
    /\ UNCHANGED <<blocking, sent, got, trailer, m_grpc_status, m_status, responseParsed, connected, told>>

\* A newData that starts over instead of keeping the answer.
NewDataDrops ==
    /\ DispatchNewData(TRUE)
    /\ m_readerState = "PROCESSING"
    /\ m_readerState' = "ENDED"
    /\ Refs({}, FALSE)
    /\ UNCHANGED <<blocking, sent, got, trailer, m_grpc_status, m_status, responseParsed, connected, told>>

\* The answer, dumped into responseParsed or not.
NewData ==
    /\ DispatchNewData(TRUE)
    /\ m_readerState = "PROCESSING"
    /\ m_readerState' = "ENDED"
    /\ \E c \in Codes :
         /\ m_grpc_status' = c
         /\ m_status' = c
         /\ responseParsed' = IF c = "OK" THEN 1 ELSE 0
    /\ Refs({}, FALSE)
    /\ UNCHANGED <<blocking, sent, got, trailer, connected, told>>

\* A finishRead whose slot leaves the connections of a failed call.
FinishReadKeepsError ==
    /\ Dispatch("finish", TRUE)
    /\ m_status' = IF m_status = "OK" \/ m_grpc_status # "OK" THEN m_grpc_status ELSE m_status
    /\ told' = IF connected THEN m_status' ELSE told
    /\ connected' = (connected /\ m_status' # "OK")
    /\ Refs({}, connected /\ ~connected')
    /\ UNCHANGED <<blocking, sent, got, trailer, m_grpc_status, m_readerState, responseParsed>>

\* finishRead: the slot of finished answers the reply and cuts the connections,
\* or it stops the event loop of the blocking call.
FinishRead ==
    /\ Dispatch("finish", TRUE)
    /\ m_status' = IF m_status = "OK" \/ m_grpc_status # "OK" THEN m_grpc_status ELSE m_status
    /\ told' = IF connected THEN m_status' ELSE told
    /\ connected' = FALSE
    /\ Refs({}, connected /\ ~blocking)
    /\ UNCHANGED <<blocking, sent, got, trailer, m_grpc_status, m_readerState, responseParsed>>

\* The blocking call() returns what the object holds and destroys it.
Return ==
    /\ blocking /\ alive /\ told # "pending"
    /\ alive' = FALSE
    /\ shared' = FALSE
    /\ UNCHANGED <<sent, got, trailer, ops, posted, m_grpc_status, m_refCount, callVars>>

-----------------------------------------------------------------------------

Server == (ServerSend \/ ServerClose) /\ UNCHANGED callVars

Worker == (CompleteSend("start") \/ CompleteRead \/ CompleteFinish) /\ UNCHANGED callVars

EventLoop == NewDataEnd \/ NewDataFirst \/ NewData \/ FinishRead

Done == ~alive /\ UNCHANGED vars

Next == Server \/ Worker \/ EventLoop \/ Abort \/ Return \/ Done

Fairness == WF_vars(Worker) /\ WF_vars(EventLoop) /\ WF_vars(Return)

Spec == Init /\ [][Next]_vars /\ Fairness

-----------------------------------------------------------------------------
(* Properties *)

\* A call that the server completed with OK and that ends as OK for the caller
\* brings the server's message: newData has run before finishRead.
OkReplyHasData == told = "OK" /\ trailer = "OK" => responseParsed = sent

\* A call that has ended comes to an end for the caller too, aborted or not: its
\* reply is answered, so that the event loop of the blocking call stops,
\* and its object is freed.
EndedIsSettled == trailer # "none" ~> ~alive /\ told # "pending"

\* What QGrpcCallReply::abort promises, "try to abort call in channel": an
\* aborted call ends without waiting for the server.
AbortEndsCall == told = "aborted" ~> trailer # "none"
=============================================================================
