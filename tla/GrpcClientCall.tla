--------------------------- MODULE GrpcClientCall ---------------------------
(***************************************************************************)
(* One unary call of a client over the HTTP/2 channel, from the caller's   *)
(* method to its answer: QAbstractGrpcClient::call, QGrpcCallReply,        *)
(* QGrpcHttp2Channel::call, and the ways in which the generated client and *)
(* its users wait for the reply:                                           *)
(*   blocking  call(method, arg, ret)                                      *)
(*   hold      the reply is kept, and its signals are connected            *)
(*   callback  the generated method with a std::function                   *)
(*   qml       the generated method with JavaScript callbacks              *)
(* A call may come from another thread than that of the client.  Slots run *)
(* in the order in which they were connected, those of another thread as   *)
(* events of it; each action is one event of a thread, with every slot     *)
(* that its signals run.  The network and Qt's event loop are external.    *)
(***************************************************************************)
EXTENDS Integers, Sequences, FiniteSets

VARIABLES
  how,  \* kind and thread of the caller, and the fault that keeps the call from starting
  s     \* the state of the call, a record

vars == <<how, s>>

Kinds == {"blocking", "hold", "callback", "qml"}
Faults == {"none", "pointer", "serializer", "channel"}
Outcomes == {"ok", "garbage", "server", "network", "canceled"}

(* pc        "start", "refused", "waiting" (blocking), "called", "returned"    *)
(* net       the QNetworkReply; later: deleteLater was called                  *)
(* deadline  the timer of 6000 ms runs                                         *)
(* wires     the connections: `quit' and `finish' of the QNetworkReply, the    *)
(*           others of the QGrpcCallReply                                      *)
(* held, captured  shared pointers to the reply of the caller, and of a slot   *)
(*           of the caller; the client's slots have one each                   *)
(* queue     signals on their way to the caller's thread                       *)
(* told      the signals that the caller got, with the data it read            *)
(* signalled the errors that the client has emitted                            *)
(* aborted   "early": before the end of the call, "late": after it             *)
Idle ==
  [pc |-> "start", net |-> "none", outcome |-> "none", later |-> FALSE, deadline |-> FALSE,
   wires |-> {}, held |-> FALSE, captured |-> FALSE, data |-> "none", queue |-> <<>>,
   told |-> <<>>, signalled |-> 0, aborted |-> "no", status |-> "none"]

Init ==
  /\ how \in {h \in [kind : Kinds, thread : {"client", "other"}, fault : Faults] :
                /\ h.fault = "pointer" => h.kind = "blocking"
                /\ h.thread = "other" => h.kind # "qml"}
  /\ s = Idle

-----------------------------------------------------------------------------
(* The reply. *)

ClientWires == {"clientError", "clientFinished"}

Alive(c) == c.held \/ c.captured \/ c.wires \cap ClientWires # {}

(* The caller's slot: it reads the data, and the client emits an error if it *)
(* cannot deserialize them.  The callback of a method lets its reply go.     *)
Tell(c, signal) ==
  [c EXCEPT !.told = Append(@, [signal |-> signal, data |-> IF signal = "finished" THEN c.data ELSE "none"]),
            !.signalled = IF signal = "finished" /\ c.data = "garbage" THEN @ + 1 ELSE @,
            !.captured = @ /\ ~(how.kind = "callback" /\ signal = "finished")]

(* A reply that the client's slot has destroyed has no more slots. *)
CallerSlot(c, signal) ==
  IF ~Alive(c) \/ (IF signal = "error" THEN "callerError" ELSE "callerFinished") \notin c.wires THEN c
  ELSE IF how.thread = "client" THEN Tell(c, signal)
  ELSE [c EXCEPT !.queue = Append(@, signal)]

(* Faulty variant: each slot of the client disconnects only itself. *)
ClientSlotOwn(c, signal) ==
  IF signal = "error" /\ "clientError" \in c.wires
  THEN [c EXCEPT !.wires = @ \ {"clientError"}, !.signalled = @ + 1]
  ELSE IF signal = "finished" THEN [c EXCEPT !.wires = @ \ {"clientFinished"}] ELSE c

ClientSlot(c, signal) ==
  IF signal = "error" /\ "clientError" \in c.wires
  THEN [c EXCEPT !.wires = @ \ ClientWires, !.signalled = @ + 1]
  ELSE IF signal = "finished" THEN [c EXCEPT !.wires = @ \ ClientWires] ELSE c

(* Faulty variant: the connection to the network's reply stays. *)
AbortSlotDeaf(c) ==
  IF "abort" \in c.wires THEN [c EXCEPT !.wires = @ \ {"abort"}, !.later = TRUE] ELSE c

(* The channel's slot for an abort: the network's reply is deleted, not aborted. *)
AbortSlot(c) ==
  IF "abort" \in c.wires THEN [c EXCEPT !.wires = @ \ {"finish", "abort"}, !.later = TRUE] ELSE c

-----------------------------------------------------------------------------
(* The channel. *)

(* Faulty variant: no timer for the deadline. *)
postNoDeadline(c) == [c EXCEPT !.net = "running"]

post(c) == [c EXCEPT !.net = "running", !.deadline = TRUE]

(* StatusCodeMap and the header grpc-status: what is not OK has no data. *)
processReply(outcome) ==
  IF outcome \in {"ok", "garbage"}
  THEN [status |-> "Ok", data |-> IF outcome = "ok" THEN "message" ELSE "garbage"]
  ELSE [status |-> "error", data |-> "empty"]

(* The event loop of the blocking call() is left, and the client returns what *)
(* it has deserialized; it emits an error for every status but OK.            *)
Return(c) ==
  LET r == processReply(c.outcome)
      good == r.status = "Ok" /\ r.data = "message"
  IN [c EXCEPT !.pc = "returned", !.wires = {}, !.later = TRUE, !.data = r.data,
               !.status = IF good THEN "Ok" ELSE "error",
               !.signalled = IF good THEN @ ELSE @ + 1]

FinishSlot(c) ==
  LET r == processReply(c.outcome)
      signal == IF r.status = "Ok" THEN "finished" ELSE "error"
      ended == [c EXCEPT !.wires = @ \ {"finish", "abort"}, !.data = r.data]
  IN [CallerSlot(ClientSlot(ended, signal), signal) EXCEPT !.later = TRUE]

(* QNetworkReply::finished *)
Finished(c, outcome) ==
  LET ended == [c EXCEPT !.net = "finished", !.outcome = outcome]
  IN CASE "quit" \in c.wires -> Return(ended)
       [] "finish" \in c.wires -> FinishSlot(ended)
       [] OTHER -> ended

abortNetworkReply(c) ==
  IF c.net = "running" THEN Finished(c, "canceled") ELSE [c EXCEPT !.later = TRUE]

-----------------------------------------------------------------------------
(* The caller. *)

(* trySerialize without a serializer, no channel, or nowhere to put the answer *)
Refuse ==
  /\ s.pc = "start" /\ how.fault # "none"
  /\ s' = [s EXCEPT !.pc = "refused", !.signalled = @ + 1]
  /\ UNCHANGED how

CallBlocking ==
  /\ s.pc = "start" /\ how.fault = "none" /\ how.kind = "blocking"
  /\ s' = [post(s) EXCEPT !.pc = "waiting", !.wires = {"quit"}]
  /\ UNCHANGED how

Subscribed(c) ==
  [c EXCEPT !.wires = @ \union (IF how.kind = "callback" THEN {"callerFinished"}
                                ELSE {"callerFinished", "callerError"}),
            !.held = how.kind = "hold",
            !.captured = how.kind # "hold"]

CallAsync ==
  /\ s.pc = "start" /\ how.fault = "none" /\ how.kind # "blocking"
  /\ LET called == [post(s) EXCEPT !.pc = "called", !.held = TRUE,
                                   !.wires = ClientWires \union {"finish", "abort"}]
     IN s' = IF how.thread = "client" THEN Subscribed(called) ELSE called
  /\ UNCHANGED how

(* In another thread the call goes on while the caller connects its slots. *)
Subscribe ==
  /\ s.pc = "called" /\ s.held /\ "callerFinished" \notin s.wires
  /\ s' = Subscribed(s)
  /\ UNCHANGED how

(* QGrpcCallReply::abort, in the thread of the reply *)
Abort ==
  /\ s.pc = "called" /\ how.kind = "hold" /\ s.held /\ s.aborted = "no"
  /\ LET aborted == [s EXCEPT !.data = "empty",
                              !.aborted = IF "finish" \in s.wires THEN "early" ELSE "late"]
     IN s' = CallerSlot(AbortSlot(ClientSlot(aborted, "error")), "error")
  /\ UNCHANGED how

(* A caller keeps its reply until it was told of the end. *)
Release ==
  /\ how.kind = "hold" /\ s.held /\ s.told # <<>>
  /\ s' = [s EXCEPT !.held = FALSE]
  /\ UNCHANGED how

-----------------------------------------------------------------------------
(* Events. *)

NetworkFinished ==
  /\ s.net = "running"
  /\ \E outcome \in Outcomes \ {"canceled"} : s' = Finished(s, outcome)
  /\ UNCHANGED how

SslErrors ==
  /\ s.net = "running"
  /\ s' = abortNetworkReply(s)
  /\ UNCHANGED how

Deadline ==
  /\ s.deadline
  /\ s' = abortNetworkReply([s EXCEPT !.deadline = FALSE])
  /\ UNCHANGED how

(* The QNetworkReply is deleted, and with it the timer, whose context it is. *)
DeleteLater ==
  /\ s.later /\ s.net # "deleted"
  /\ s' = [s EXCEPT !.net = "deleted", !.deadline = FALSE]
  /\ UNCHANGED how

Deliver ==
  /\ s.queue # <<>>
  /\ s' = Tell([s EXCEPT !.queue = Tail(@)], Head(s.queue))
  /\ UNCHANGED how

Over == s.net \in {"none", "deleted"} /\ s.pc # "start" /\ UNCHANGED vars

Next ==
  \/ Refuse \/ CallBlocking \/ CallAsync \/ Subscribe \/ Abort \/ Release
  \/ NetworkFinished \/ SslErrors \/ Deadline \/ DeleteLater \/ Deliver \/ Over

(* A timer that runs fires, and threads process their events and go on with *)
(* what they have begun.  Nothing is assumed of the network or the server.  *)
Spec ==
  /\ Init /\ [][Next]_vars
  /\ WF_vars(Deadline) /\ WF_vars(DeleteLater) /\ WF_vars(Deliver) /\ WF_vars(Subscribe)

-----------------------------------------------------------------------------
(* Properties. *)

Answered ==
  \/ s.pc \in {"returned", "refused"} \/ s.told # <<>>
  \/ how.kind = "callback" /\ s.signalled > 0

(* A caller that waits in call(), or has connected its slots before the call  *)
(* ended, gets an answer, even if the server never sends one: the timer of    *)
(* post() sees to that.  The generated method with a std::function has no     *)
(* slot for errors, and leaves them to the error signal of the client.        *)
CallIsAnswered ==
  (s.pc = "waiting" \/ {"finish", "callerFinished"} \subseteq s.wires) ~> Answered

(* Whichever of reply, network error, TLS error, deadline and abort comes      *)
(* first, the caller is told of one only, and what it reads at the signal of   *)
(* success is what the server sent; unless it aborts a call that has ended,    *)
(* which signals an error and takes the data away.                             *)
AnswerIsRight ==
  s.aborted # "late" =>
    /\ Len(s.told) <= 1
    /\ \A i \in DOMAIN s.told : s.told[i].signal = "finished" =>
         /\ s.aborted = "no" /\ processReply(s.outcome).status = "Ok"
         /\ s.told[i].data = IF s.outcome = "ok" THEN "message" ELSE "garbage"
    /\ s.pc = "returned" => (s.status = "Ok" <=> s.outcome = "ok")

(* A call that fails, in whatever way, makes the client emit one error, and  *)
(* one that succeeds makes it emit none, a late abort included.              *)
FailureIsSignalledOnce ==
  /\ s.signalled <= 1
  /\ Answered /\ s.aborted # "late" =>
       (s.signalled = 0 <=> how.fault = "none" /\ s.outcome = "ok" /\ s.aborted = "no")

(* When a call has ended and the caller's slots have let go of the reply, it *)
(* and the QNetworkReply go away: no connection keeps them alive.  The slot   *)
(* of a qml method, and that of a callback method whose call has failed,      *)
(* hold the reply for ever (`captured').                                      *)
CallIsFreed ==
  (s.pc # "start" /\ {"quit", "finish"} \cap s.wires = {} /\ ~s.held /\ ~s.captured)
    ~> (s.net \in {"none", "deleted"} /\ ~Alive(s))
=============================================================================
