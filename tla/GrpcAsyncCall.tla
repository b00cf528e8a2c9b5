---------------------------- MODULE GrpcAsyncCall ----------------------------
(***************************************************************************)
(* What the three call objects of the native gRPC channel have in common   *)
(* (grpc/qgrpcchannel_p.h, grpc/qgrpcchannel.cpp): the reference count of  *)
(* QGrpcChannelBaseCall, the completion queue that the worker thread of    *)
(* QGrpcChannelPrivate drains, and the events it posts to the thread of    *)
(* the client.                                                             *)
(*                                                                         *)
(* The gRPC library is external and modelled by what the code relies on:   *)
(*  - an operation started with a tag completes once, in its own time;     *)
(*  - a Read completes with ok when a message is there, without ok when    *)
(*    the call has ended;                                                  *)
(*  - Finish completes with OK when the server closed the call with OK and *)
(*    every message was read, and with an error as soon as there is one;   *)
(*  - results (response, m_grpc_status) are stored into the call object by *)
(*    CompletionQueue::Next, hence on the worker thread.                   *)
(***************************************************************************)
EXTENDS Integers, Sequences, FiniteSets

CONSTANT MaxMessages    \* bound: messages the server sends in one call

ASSUME MaxMessagesAssumption == MaxMessages \in Nat

VARIABLES
    sent,           \* messages the server has sent so far
    got,            \* messages completed Reads have taken so far
    trailer,        \* how the call ended: "none" yet, "OK" or "ERR"
    ops,            \* tags of operations that have not completed
    posted,         \* events posted to the client thread, in order
    m_grpc_status,  \* the field Finish stores the final status into
    m_refCount,     \* the reference count of the call object
    alive,          \* the object has not been deleted
    shared          \* some shared_ptr to it (connections' slots) exists

baseVars == <<sent, got, trailer, ops, posted, m_grpc_status, m_refCount, alive, shared>>

\* The operations of a call and the handler that each one's tag names: Create
\* and Read are both answered by newData.
Tags == {"start", "read", "finish", "write"}

Codes == {"OK", "ERR"}

BaseTypeOK ==
    /\ sent \in 0 .. MaxMessages
    /\ got \in 0 .. sent
    /\ trailer \in {"none"} \cup Codes
    /\ ops \in SUBSET Tags
    /\ posted \in Seq([tag : Tags, ok : BOOLEAN])
    /\ m_grpc_status \in Codes
    /\ m_refCount \in Nat
    /\ alive \in BOOLEAN
    /\ shared \in BOOLEAN

\* The object is new: m_refCount(1) for the shared_ptr; startReader adds one
\* reference for Create and one for Finish, and starts both.
BaseInit ==
    /\ sent = 0 /\ got = 0
    /\ trailer = "none"
    /\ ops = {"start", "finish"}
    /\ posted = <<>>
    /\ m_grpc_status = "OK"
    /\ m_refCount = 3
    /\ alive = TRUE
    /\ shared = TRUE

-----------------------------------------------------------------------------
(* The server and the connection (external). *)

ServerSend ==
    /\ trailer = "none"
    /\ sent < MaxMessages
    /\ sent' = sent + 1
    /\ UNCHANGED <<got, trailer, ops, posted, m_grpc_status, m_refCount, alive, shared>>

\* The server returns a status, or the connection breaks.
ServerClose ==
    /\ trailer = "none"
    /\ trailer' \in Codes
    /\ UNCHANGED <<sent, got, ops, posted, m_grpc_status, m_refCount, alive, shared>>

\* m_context.TryCancel(): a call that has ended, with every message read, is not
\* affected; in any other the unread messages are dropped.
TryCancel == IF trailer = "none" \/ got < sent THEN "ERR" ELSE trailer

-----------------------------------------------------------------------------
(* The worker thread: CompletionQueue::Next returns a tag, and callMethod     *)
(* posts the call of its handler to the client thread.                       *)

Post(t, ok) ==
    /\ t \in ops
    /\ ops' = ops \ {t}
    /\ posted' = Append(posted, [tag |-> t, ok |-> ok])
    /\ UNCHANGED <<sent, trailer, m_refCount, alive, shared>>

\* Create and Write complete without ok only when the call has failed.
CompleteSend(t) ==
    /\ \E ok \in BOOLEAN : (ok \/ trailer = "ERR") /\ Post(t, ok)
    /\ UNCHANGED <<got, m_grpc_status>>

CompleteRead ==
    \/ /\ got < sent
       /\ Post("read", TRUE)
       /\ got' = got + 1
       /\ UNCHANGED m_grpc_status
    \/ /\ trailer = "ERR" \/ (trailer = "OK" /\ got = sent)
       /\ Post("read", FALSE)
       /\ UNCHANGED <<got, m_grpc_status>>

CompleteFinish ==
    /\ trailer = "ERR" \/ (trailer = "OK" /\ got = sent)
    /\ Post("finish", TRUE)
    /\ m_grpc_status' = trailer
    /\ UNCHANGED got

-----------------------------------------------------------------------------
(* Reference counting. *)

\* The client thread runs the next posted event, which calls a handler.  Qt
\* drops the events of an object that has been deleted.
Dispatch(t, ok) ==
    /\ alive /\ posted # <<>>
    /\ Head(posted) = [tag |-> t, ok |-> ok]
    /\ posted' = Tail(posted)

\* newData answers Create and Read alike; m_readerState tells them apart.
DispatchNewData(ok) == Dispatch("start", ok) \/ Dispatch("read", ok)

\* The handler starts the operations new, the connections let go of the object
\* or not (released), and its last statement drops its own reference.
Refs(new, released) ==
    /\ ops' = ops \cup new
    /\ shared' = (shared /\ ~released)
    /\ m_refCount' = m_refCount + Cardinality(new)
                       - (IF shared /\ released THEN 1 ELSE 0) - 1
    /\ alive' = (alive /\ m_refCount' # 0)

\* sharedPtrReleased: the last shared_ptr is gone.
SharedPtrReleased ==
    /\ shared' = FALSE
    /\ m_refCount' = m_refCount - 1
    /\ alive' = (alive /\ m_refCount' # 0)
    /\ UNCHANGED <<ops, posted>>

\* "+1 for all shared_ptr instances, +1 for each m_reader call": the count is
\* the number of parties that will still touch the object, a completed
\* operation counting until its handler has returned.
Holders == Cardinality(ops) + Len(posted) + (IF shared THEN 1 ELSE 0)
\* The rule of qgrpcchannel_p.h:90-94: as long as the object exists, m_refCount
\* is one for the shared_ptr plus one for each operation whose handler has not
\* returned, so that it never reaches zero early nor stays above it.
RefCountExact == alive => m_refCount = Holders

\* When the object is deleted no operation, no event and no slot refers to it:
\* neither the worker nor the event loop can touch it afterwards.
NoUseAfterFree == ~alive => Holders = 0
=============================================================================
