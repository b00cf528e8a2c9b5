-------------------------- MODULE HandlersRegistry --------------------------
(***************************************************************************)
(* The process-wide registry of serialization handlers                     *)
(* (protobuf/qabstractprotobufserializer.cpp).  Every (de)serialization    *)
(* looks handlers up in it, from any thread, while other threads may still *)
(* register types.  The table is an unordered_map guarded by a home-made   *)
(* readers/writer lock: the mutex m_writeLock and the counting semaphore   *)
(* m_readLock of MaximumSimultaniousThreads permits.  A reader takes one   *)
(* permit while it holds the mutex and reads after it has released the     *)
(* mutex; a writer keeps the mutex and takes every permit.                 *)
(*                                                                         *)
(* One action per statement that another thread can observe.  The write of *)
(* the unordered_map is two steps, since a lookup that overlaps it is a    *)
(* data race: such a lookup may answer anything.                           *)
(***************************************************************************)
EXTENDS Integers, FiniteSets

CONSTANTS
    Threads,        \* threads of the process that use the registry
    Types,          \* metatype identifiers
    Handlers,       \* handlers that may be registered
    NoHandler,      \* HandlersRegistry::empty
    NoThread,       \* the mutex has no owner
    MaximumSimultaniousThreads

ASSUME PermitsAssumption == MaximumSimultaniousThreads \in Nat \ {0}
ASSUME ThreadsAssumption == IsFiniteSet(Threads)
ASSUME NoThreadAssumption == NoThread \notin Threads

VARIABLES
    m_writeLock,    \* owner of the mutex
    m_readLock,     \* permits available in the semaphore
    m_registry,     \* Types -> handler
    pc,             \* Threads -> the statement the thread is about to execute
    userType,       \* Threads -> the argument userType of its call
    handler         \* Threads -> the argument handlers, or the local result

vars == <<m_writeLock, m_readLock, m_registry, pc, userType, handler>>

Values == Handlers \cup {NoHandler}

RegisterPCs == {"regLock", "regAcquire", "regWrite", "regStore", "regRelease", "regUnlock"}
FindPCs == {"findLock", "findAcquire", "findUnlock", "findRead", "findRelease"}

TypeOK ==
    /\ m_writeLock \in Threads \cup {NoThread}
    /\ m_readLock \in 0 .. MaximumSimultaniousThreads
    /\ m_registry \in [Types -> Values]
    /\ pc \in [Threads -> {"idle"} \cup RegisterPCs \cup FindPCs]
    /\ userType \in [Threads -> Types]
    /\ handler \in [Threads -> Values]

Init ==
    /\ m_writeLock = NoThread
    /\ m_readLock = MaximumSimultaniousThreads
    /\ m_registry = [k \in Types |-> NoHandler]
    /\ pc = [t \in Threads |-> "idle"]
    /\ userType \in [Threads -> Types]
    /\ handler = [t \in Threads |-> NoHandler]

-----------------------------------------------------------------------------
(* registerHandler *)

Goto(t, from, to) ==
    /\ pc[t] = from
    /\ pc' = [pc EXCEPT ![t] = to]

CallRegister(t) ==
    /\ Goto(t, "idle", "regLock")
    /\ \E k \in Types, h \in Handlers :
         /\ userType' = [userType EXCEPT ![t] = k]
         /\ handler' = [handler EXCEPT ![t] = h]
    /\ UNCHANGED <<m_writeLock, m_readLock, m_registry>>

\* QMutexLocker locker(&m_writeLock)
RegLock(t) ==
    /\ m_writeLock = NoThread
    /\ Goto(t, "regLock", "regAcquire")
    /\ m_writeLock' = t
    /\ UNCHANGED <<m_readLock, m_registry, userType, handler>>

\* A writer that takes one permit instead of all of them.
RegAcquireOne(t) ==
    /\ m_readLock >= 1
    /\ Goto(t, "regAcquire", "regWrite")
    /\ m_readLock' = m_readLock - 1
    /\ UNCHANGED <<m_writeLock, m_registry, userType, handler>>

\* m_readLock.acquire(MaximumSimultaniousThreads): blocks until no permit is out
RegAcquire(t) ==
    /\ m_readLock >= MaximumSimultaniousThreads
    /\ Goto(t, "regAcquire", "regWrite")
    /\ m_readLock' = m_readLock - MaximumSimultaniousThreads
    /\ UNCHANGED <<m_writeLock, m_registry, userType, handler>>

\* m_registry[userType] = handlers: from here on the container is in flux
RegWrite(t) ==
    /\ Goto(t, "regWrite", "regStore")
    /\ UNCHANGED <<m_writeLock, m_readLock, m_registry, userType, handler>>

\* ... until the assignment is complete
RegStore(t) ==
    /\ Goto(t, "regStore", "regRelease")
    /\ m_registry' = [m_registry EXCEPT ![userType[t]] = handler[t]]
    /\ UNCHANGED <<m_writeLock, m_readLock, userType, handler>>

\* ~QSemaphoreReleaser runs first: it was declared after the locker
RegRelease(t) ==
    /\ Goto(t, "regRelease", "regUnlock")
    /\ m_readLock' = m_readLock + MaximumSimultaniousThreads
    /\ UNCHANGED <<m_writeLock, m_registry, userType, handler>>

\* ~QMutexLocker
RegUnlock(t) ==
    /\ Goto(t, "regUnlock", "idle")
    /\ m_writeLock' = NoThread
    /\ UNCHANGED <<m_readLock, m_registry, userType, handler>>

-----------------------------------------------------------------------------
(* findHandler *)

\* auto handler = empty
CallFind(t) ==
    /\ Goto(t, "idle", "findLock")
    /\ \E k \in Types : userType' = [userType EXCEPT ![t] = k]
    /\ handler' = [handler EXCEPT ![t] = NoHandler]
    /\ UNCHANGED <<m_writeLock, m_readLock, m_registry>>

\* Readers that do not queue behind the mutex: they may outrun a writer forever.
FindLockBarging(t) ==
    /\ Goto(t, "findLock", "findAcquire")
    /\ UNCHANGED <<m_writeLock, m_readLock, m_registry, userType, handler>>

FindLock(t) ==
    /\ m_writeLock = NoThread
    /\ Goto(t, "findLock", "findAcquire")
    /\ m_writeLock' = t
    /\ UNCHANGED <<m_readLock, m_registry, userType, handler>>

\* m_readLock.acquire(): the reader after the last permit waits here, with the mutex
FindAcquire(t) ==
    /\ m_readLock >= 1
    /\ Goto(t, "findAcquire", "findUnlock")
    /\ m_readLock' = m_readLock - 1
    /\ UNCHANGED <<m_writeLock, m_registry, userType, handler>>

\* locker.unlock(), before the lookup
FindUnlock(t) ==
    /\ Goto(t, "findUnlock", "findRead")
    /\ m_writeLock' = NoThread
    /\ UNCHANGED <<m_readLock, m_registry, userType, handler>>

MapInFlux == \E u \in Threads : pc[u] = "regStore"

\* m_registry.find(userType), and the copy of what it finds
FindRead(t) ==
    /\ Goto(t, "findRead", "findRelease")
    /\ \E v \in IF MapInFlux THEN Values ELSE {m_registry[userType[t]]} :
         handler' = [handler EXCEPT ![t] = v]
    /\ UNCHANGED <<m_writeLock, m_readLock, m_registry, userType>>

\* A lookup that forgets to give its permit back.
FindReleaseLeak(t) ==
    /\ Goto(t, "findRelease", "idle")
    /\ UNCHANGED <<m_writeLock, m_readLock, m_registry, userType, handler>>

\* ~QSemaphoreReleaser; the locker no longer holds the mutex
FindRelease(t) ==
    /\ Goto(t, "findRelease", "idle")
    /\ m_readLock' = m_readLock + 1
    /\ UNCHANGED <<m_writeLock, m_registry, userType, handler>>

-----------------------------------------------------------------------------

\* The steps of a call in progress.
Step(t) ==
    \/ RegLock(t) \/ RegAcquire(t) \/ RegWrite(t) \/ RegStore(t)
    \/ RegRelease(t) \/ RegUnlock(t)
    \/ FindLock(t) \/ FindAcquire(t) \/ FindUnlock(t) \/ FindRead(t) \/ FindRelease(t)

Next == \E t \in Threads : CallRegister(t) \/ CallFind(t) \/ Step(t)

\* The scheduler runs a thread that is not blocked; QMutex promises no order.
Fairness == \A t \in Threads : WF_vars(Step(t))

SafeSpec == Init /\ [][Next]_vars

Spec == SafeSpec /\ Fairness

-----------------------------------------------------------------------------
(* Properties *)

\* Threads that hold one permit, and the writer that holds all of them.
Readers == {t \in Threads : pc[t] \in {"findUnlock", "findRead", "findRelease"}}
Writers == {t \in Threads : pc[t] \in {"regWrite", "regStore", "regRelease"}}

\* registerHandler changes the unordered_map only while no other thread reads
\* or writes it: no findHandler has its permit between acquire(64) and release.
WriterExcludesReaders ==
    \A w \in Writers : Readers = {} /\ Writers = {w}

\* The permits that are neither available nor with a call in progress are none:
\* every path of registerHandler and findHandler returns what it acquired, so
\* the registry still admits MaximumSimultaniousThreads readers afterwards.
PermitsAccounted ==
    m_readLock + Cardinality(Readers)
               + MaximumSimultaniousThreads * Cardinality(Writers)
        = MaximumSimultaniousThreads

\* A call of registerHandler that got the mutex completes although lookups keep
\* arriving, and so does a lookup that waits for a permit with the mutex held.
MutexHolderServed ==
    \A t \in Threads :
        /\ pc[t] = "regAcquire" ~> pc[t] = "idle"
        /\ pc[t] = "findAcquire" ~> pc[t] = "idle"

\* How far the abstract call got: registerHandler takes effect with the store,
\* findHandler with the lookup.
StageOf(p) ==
    IF p = "idle" THEN "idle"
    ELSE IF p = "findRelease" THEN "found"
    ELSE IF p \in FindPCs THEN "find"
    ELSE IF p \in {"regRelease", "regUnlock"} THEN "registered"
    ELSE "register"

Abstract == INSTANCE HandlerTable WITH
    table <- m_registry,
    stage <- [t \in Threads |-> StageOf(pc[t])],
    type <- userType,
    answer <- handler

\* registerHandler and findHandler are linearizable: what a lookup answers is
\* what the table held at one instant between its call and its return.
Linearizable == Abstract!Spec
=============================================================================
