----------------------- MODULE HandlersRegistryProofs -----------------------
(***************************************************************************)
(* Proofs about HandlersRegistry, for every finite set of threads, every   *)
(* set of types and handlers and every number of permits.                  *)
(***************************************************************************)
EXTENDS HandlersRegistry, FiniteSetTheorems, TLAPS

\* The statements a thread executes with the mutex held.
Holding == {"regAcquire", "regWrite", "regStore", "regRelease", "regUnlock",
            "findAcquire", "findUnlock"}

\* The mutex has an owner exactly while that thread is at one of them.
MutexOwned == \A t \in Threads : m_writeLock = t <=> pc[t] \in Holding

\* The inductive invariant: exclusion is not inductive by itself, since only
\* the account of the permits says that a writer which got all of them left
\* none to a reader.
IInv == TypeOK /\ MutexOwned /\ PermitsAccounted

-----------------------------------------------------------------------------
(* How the sets of permit holders follow the program counters. *)

\* Readers and Writers are finite, so that their cardinalities are naturals.
LEMMA HoldersFinite ==
    /\ IsFiniteSet(Readers) /\ Cardinality(Readers) \in Nat
    /\ IsFiniteSet(Writers) /\ Cardinality(Writers) \in Nat
<1>1. Readers \subseteq Threads /\ Writers \subseteq Threads
  BY DEF Readers, Writers
<1>2. IsFiniteSet(Readers) /\ IsFiniteSet(Writers)
  BY <1>1, ThreadsAssumption, FS_Subset
<1> QED
  BY <1>2, FS_CardinalityType

\* A move of one thread that neither gains nor loses permits.
LEMMA SameHolders ==
    ASSUME TypeOK,
           NEW t \in Threads, NEW from, NEW to, Goto(t, from, to),
           from \in {"findUnlock", "findRead", "findRelease"}
             <=> to \in {"findUnlock", "findRead", "findRelease"},
           from \in {"regWrite", "regStore", "regRelease"}
             <=> to \in {"regWrite", "regStore", "regRelease"}
    PROVE  Readers' = Readers /\ Writers' = Writers
<1>1. \A u \in Threads : pc'[u] = IF u = t THEN to ELSE pc[u]
  BY DEF Goto, TypeOK
<1>2. pc[t] = from
  BY DEF Goto
<1> QED
  BY <1>1, <1>2 DEF Readers, Writers

\* A thread that becomes, or ceases to be, a reader.
LEMMA ReaderMoves ==
    ASSUME TypeOK, NEW t \in Threads
    PROVE  /\ Goto(t, "findAcquire", "findUnlock")
                => /\ Cardinality(Readers') = Cardinality(Readers) + 1
                   /\ Writers' = Writers
           /\ Goto(t, "findRelease", "idle")
                => /\ Cardinality(Readers') = Cardinality(Readers) - 1
                   /\ Writers' = Writers
<1>1. ASSUME Goto(t, "findAcquire", "findUnlock")
      PROVE  /\ Cardinality(Readers') = Cardinality(Readers) + 1
             /\ Writers' = Writers
  <2>1. \A u \in Threads : pc'[u] = IF u = t THEN "findUnlock" ELSE pc[u]
    BY <1>1 DEF Goto, TypeOK
  <2>2. pc[t] = "findAcquire"
    BY <1>1 DEF Goto
  <2>3. Readers' = Readers \cup {t} /\ t \notin Readers /\ Writers' = Writers
    BY <2>1, <2>2 DEF Readers, Writers
  <2> QED
    BY <2>3, HoldersFinite, FS_AddElement
<1>2. ASSUME Goto(t, "findRelease", "idle")
      PROVE  /\ Cardinality(Readers') = Cardinality(Readers) - 1
             /\ Writers' = Writers
  <2>1. \A u \in Threads : pc'[u] = IF u = t THEN "idle" ELSE pc[u]
    BY <1>2 DEF Goto, TypeOK
  <2>2. pc[t] = "findRelease"
    BY <1>2 DEF Goto
  <2>3. Readers' = Readers \ {t} /\ t \in Readers /\ Writers' = Writers
    BY <2>1, <2>2 DEF Readers, Writers
  <2> QED
    BY <2>3, HoldersFinite, FS_RemoveElement
<1> QED
  BY <1>1, <1>2

\* A thread that becomes, or ceases to be, the writer.
LEMMA WriterMoves ==
    ASSUME TypeOK, NEW t \in Threads
    PROVE  /\ Goto(t, "regAcquire", "regWrite")
                => /\ Cardinality(Writers') = Cardinality(Writers) + 1
                   /\ Readers' = Readers
           /\ Goto(t, "regRelease", "regUnlock")
                => /\ Cardinality(Writers') = Cardinality(Writers) - 1
                   /\ Readers' = Readers
<1>1. ASSUME Goto(t, "regAcquire", "regWrite")
      PROVE  /\ Cardinality(Writers') = Cardinality(Writers) + 1
             /\ Readers' = Readers
  <2>1. \A u \in Threads : pc'[u] = IF u = t THEN "regWrite" ELSE pc[u]
    BY <1>1 DEF Goto, TypeOK
  <2>2. pc[t] = "regAcquire"
    BY <1>1 DEF Goto
  <2>3. Writers' = Writers \cup {t} /\ t \notin Writers /\ Readers' = Readers
    BY <2>1, <2>2 DEF Readers, Writers
  <2> QED
    BY <2>3, HoldersFinite, FS_AddElement
<1>2. ASSUME Goto(t, "regRelease", "regUnlock")
      PROVE  /\ Cardinality(Writers') = Cardinality(Writers) - 1
             /\ Readers' = Readers
  <2>1. \A u \in Threads : pc'[u] = IF u = t THEN "regUnlock" ELSE pc[u]
    BY <1>2 DEF Goto, TypeOK
  <2>2. pc[t] = "regRelease"
    BY <1>2 DEF Goto
  <2>3. Writers' = Writers \ {t} /\ t \in Writers /\ Readers' = Readers
    BY <2>1, <2>2 DEF Readers, Writers
  <2> QED
    BY <2>3, HoldersFinite, FS_RemoveElement
<1> QED
  BY <1>1, <1>2

-----------------------------------------------------------------------------
(* The inductive invariant. *)

\* The initial state satisfies the inductive invariant.
LEMMA InitIInv == Init => IInv
<1> SUFFICES ASSUME Init PROVE IInv
  OBVIOUS
<1> USE PermitsAssumption, NoThreadAssumption
<1>1. TypeOK
  BY DEF Init, TypeOK, Values
<1>2. MutexOwned
  BY DEF Init, MutexOwned, Holding
<1>3. Readers = {} /\ Writers = {}
  BY DEF Init, Readers, Writers
<1>4. PermitsAccounted
  BY <1>3, FS_EmptySet DEF Init, PermitsAccounted
<1> QED
  BY <1>1, <1>2, <1>4 DEF IInv

\* The mutex discipline: only a thread without the mutex takes it, and only
\* when it is free; only its owner gives it back.
LEMMA MutexStep ==
    ASSUME IInv, NEW t \in Threads, CallRegister(t) \/ CallFind(t) \/ Step(t)
    PROVE  MutexOwned'
<1> USE NoThreadAssumption DEF IInv, TypeOK, MutexOwned, Holding, Goto
<1>1. CASE CallRegister(t)
  BY <1>1 DEF CallRegister
<1>2. CASE CallFind(t)
  BY <1>2 DEF CallFind
<1>3. CASE RegLock(t)
  BY <1>3 DEF RegLock
<1>4. CASE RegAcquire(t)
  BY <1>4 DEF RegAcquire
<1>5. CASE RegWrite(t)
  BY <1>5 DEF RegWrite
<1>6. CASE RegStore(t)
  BY <1>6 DEF RegStore
<1>7. CASE RegRelease(t)
  BY <1>7 DEF RegRelease
<1>8. CASE RegUnlock(t)
  BY <1>8 DEF RegUnlock
<1>9. CASE FindLock(t)
  BY <1>9 DEF FindLock
<1>10. CASE FindAcquire(t)
  BY <1>10 DEF FindAcquire
<1>11. CASE FindUnlock(t)
  BY <1>11 DEF FindUnlock
<1>12. CASE FindRead(t)
  BY <1>12 DEF FindRead
<1>13. CASE FindRelease(t)
  BY <1>13 DEF FindRelease
<1> QED
  BY <1>1, <1>2, <1>3, <1>4, <1>5, <1>6, <1>7, <1>8, <1>9, <1>10, <1>11, <1>12, <1>13 DEF Step

\* What a step does to the account of the permits.
LEMMA PermitsStep ==
    ASSUME IInv, NEW t \in Threads, CallRegister(t) \/ CallFind(t) \/ Step(t)
    PROVE  m_readLock' \in 0 .. MaximumSimultaniousThreads /\ PermitsAccounted'
<1> USE PermitsAssumption
<1>a. TypeOK /\ PermitsAccounted
  BY DEF IInv
<1>b. /\ Cardinality(Readers) \in Nat /\ Cardinality(Writers) \in Nat
      /\ m_readLock \in 0 .. MaximumSimultaniousThreads
  BY <1>a, HoldersFinite DEF TypeOK
<1>c. /\ IsFiniteSet(Readers') /\ Cardinality(Readers') \in Nat
      /\ IsFiniteSet(Writers') /\ Cardinality(Writers') \in Nat
  <2>1. Readers' \subseteq Threads /\ Writers' \subseteq Threads
    BY DEF Readers, Writers
  <2>2. IsFiniteSet(Readers') /\ IsFiniteSet(Writers')
    BY <2>1, ThreadsAssumption, FS_Subset
  <2> QED
    BY <2>2, FS_CardinalityType
<1>1. CASE m_readLock' = m_readLock /\ Readers' = Readers /\ Writers' = Writers
  BY <1>1, <1>a, <1>b DEF PermitsAccounted
<1>2. CASE CallRegister(t)
  <2>1. Goto(t, "idle", "regLock") /\ m_readLock' = m_readLock
    BY <1>2 DEF CallRegister
  <2> QED
    BY <1>1, <1>a, <2>1, SameHolders
<1>3. CASE CallFind(t)
  <2>1. Goto(t, "idle", "findLock") /\ m_readLock' = m_readLock
    BY <1>3 DEF CallFind
  <2> QED
    BY <1>1, <1>a, <2>1, SameHolders
<1>4. CASE RegLock(t)
  <2>1. Goto(t, "regLock", "regAcquire") /\ m_readLock' = m_readLock
    BY <1>4 DEF RegLock
  <2> QED
    BY <1>1, <1>a, <2>1, SameHolders
<1>5. CASE RegWrite(t)
  <2>1. Goto(t, "regWrite", "regStore") /\ m_readLock' = m_readLock
    BY <1>5 DEF RegWrite
  <2> QED
    BY <1>1, <1>a, <2>1, SameHolders
<1>6. CASE RegStore(t)
  <2>1. Goto(t, "regStore", "regRelease") /\ m_readLock' = m_readLock
    BY <1>6 DEF RegStore
  <2> QED
    BY <1>1, <1>a, <2>1, SameHolders
<1>7. CASE RegUnlock(t)
  <2>1. Goto(t, "regUnlock", "idle") /\ m_readLock' = m_readLock
    BY <1>7 DEF RegUnlock
  <2> QED
    BY <1>1, <1>a, <2>1, SameHolders
<1>8. CASE FindLock(t)
  <2>1. Goto(t, "findLock", "findAcquire") /\ m_readLock' = m_readLock
    BY <1>8 DEF FindLock
  <2> QED
    BY <1>1, <1>a, <2>1, SameHolders
<1>9. CASE FindUnlock(t)
  <2>1. Goto(t, "findUnlock", "findRead") /\ m_readLock' = m_readLock
    BY <1>9 DEF FindUnlock
  <2> QED
    BY <1>1, <1>a, <2>1, SameHolders
<1>10. CASE FindRead(t)
  <2>1. Goto(t, "findRead", "findRelease") /\ m_readLock' = m_readLock
    BY <1>10 DEF FindRead
  <2> QED
    BY <1>1, <1>a, <2>1, SameHolders
<1>11. CASE RegAcquire(t)
  <2>1. /\ Goto(t, "regAcquire", "regWrite")
        /\ m_readLock >= MaximumSimultaniousThreads
        /\ m_readLock' = m_readLock - MaximumSimultaniousThreads
    BY <1>11 DEF RegAcquire
  <2>2. Cardinality(Writers') = Cardinality(Writers) + 1 /\ Readers' = Readers
    BY <1>a, <2>1, WriterMoves
  <2>3. m_readLock' \in 0 .. MaximumSimultaniousThreads
    BY <1>b, <2>1
  <2> QED
    BY <1>a, <1>b, <2>1, <2>2, <2>3, SMT DEF PermitsAccounted
<1>12. CASE RegRelease(t)
  <2>1. /\ Goto(t, "regRelease", "regUnlock")
        /\ m_readLock' = m_readLock + MaximumSimultaniousThreads
    BY <1>12 DEF RegRelease
  <2>2. Cardinality(Writers') = Cardinality(Writers) - 1 /\ Readers' = Readers
    BY <1>a, <2>1, WriterMoves
  <2>3. PermitsAccounted'
    BY <1>a, <1>b, <2>1, <2>2 DEF PermitsAccounted
  <2>4. MaximumSimultaniousThreads * Cardinality(Writers') \in Nat
    BY <1>c
  <2> QED
    BY <1>b, <1>c, <2>1, <2>3, <2>4 DEF PermitsAccounted
<1>13. CASE FindAcquire(t)
  <2>1. /\ Goto(t, "findAcquire", "findUnlock")
        /\ m_readLock >= 1
        /\ m_readLock' = m_readLock - 1
    BY <1>13 DEF FindAcquire
  <2>2. Cardinality(Readers') = Cardinality(Readers) + 1 /\ Writers' = Writers
    BY <1>a, <2>1, ReaderMoves
  <2> QED
    BY <1>a, <1>b, <2>1, <2>2 DEF PermitsAccounted
<1>14. CASE FindRelease(t)
  <2>1. Goto(t, "findRelease", "idle") /\ m_readLock' = m_readLock + 1
    BY <1>14 DEF FindRelease
  <2>2. Cardinality(Readers') = Cardinality(Readers) - 1 /\ Writers' = Writers
    BY <1>a, <2>1, ReaderMoves
  <2>3. PermitsAccounted'
    BY <1>a, <1>b, <2>1, <2>2 DEF PermitsAccounted
  <2>4. MaximumSimultaniousThreads * Cardinality(Writers') \in Nat
    BY <1>c
  <2> QED
    BY <1>b, <1>c, <2>1, <2>3, <2>4 DEF PermitsAccounted
<1> QED
  BY <1>2, <1>3, <1>4, <1>5, <1>6, <1>7, <1>8, <1>9, <1>10, <1>11, <1>12, <1>13, <1>14 DEF Step

\* Types, apart from the permits.
LEMMA TypesStep ==
    ASSUME IInv, NEW t \in Threads, CallRegister(t) \/ CallFind(t) \/ Step(t)
    PROVE  TypeOK'
<1>p. m_readLock' \in 0 .. MaximumSimultaniousThreads
  BY PermitsStep
<1> USE <1>p DEF IInv, TypeOK, Goto, RegisterPCs, FindPCs, Values
<1>1. CASE CallRegister(t)
  BY <1>1 DEF CallRegister
<1>2. CASE CallFind(t)
  BY <1>2 DEF CallFind
<1>3. CASE RegLock(t)
  BY <1>3 DEF RegLock
<1>4. CASE RegAcquire(t)
  BY <1>4 DEF RegAcquire
<1>5. CASE RegWrite(t)
  BY <1>5 DEF RegWrite
<1>6. CASE RegStore(t)
  BY <1>6 DEF RegStore
<1>7. CASE RegRelease(t)
  BY <1>7 DEF RegRelease
<1>8. CASE RegUnlock(t)
  BY <1>8 DEF RegUnlock
<1>9. CASE FindLock(t)
  BY <1>9 DEF FindLock
<1>10. CASE FindAcquire(t)
  BY <1>10 DEF FindAcquire
<1>11. CASE FindUnlock(t)
  BY <1>11 DEF FindUnlock
<1>12. CASE FindRead(t)
  BY <1>12 DEF FindRead
<1>13. CASE FindRelease(t)
  BY <1>13 DEF FindRelease
<1> QED
  BY <1>1, <1>2, <1>3, <1>4, <1>5, <1>6, <1>7, <1>8, <1>9, <1>10, <1>11, <1>12, <1>13 DEF Step

\* Every step, stuttering included, preserves the inductive invariant.
LEMMA NextIInv == IInv /\ [Next]_vars => IInv'
<1> SUFFICES ASSUME IInv, [Next]_vars PROVE IInv'
  OBVIOUS
<1>1. CASE Next
  <2>1. PICK t \in Threads : CallRegister(t) \/ CallFind(t) \/ Step(t)
    BY <1>1 DEF Next
  <2> QED
    BY <2>1, MutexStep, PermitsStep, TypesStep DEF IInv
<1>2. CASE UNCHANGED vars
  BY <1>2 DEF vars, IInv, TypeOK, MutexOwned, PermitsAccounted, Readers, Writers
<1> QED
  BY <1>1, <1>2

\* The inductive invariant rules out a reader beside a writer, and two writers.
LEMMA IInvExcludes == IInv => WriterExcludesReaders
<1> SUFFICES ASSUME IInv, NEW w \in Writers
             PROVE  Readers = {} /\ Writers = {w}
  BY DEF WriterExcludesReaders
<1>1. w \in Threads /\ Writers = {w}
  BY DEF IInv, MutexOwned, Writers, Holding
<1>2. Cardinality(Writers) = 1
  BY <1>1, FS_Singleton
<1>3. Cardinality(Readers) = 0
  BY <1>2, HoldersFinite, PermitsAssumption DEF IInv, TypeOK, PermitsAccounted
<1>4. Readers = {}
  BY <1>3, HoldersFinite, FS_EmptySet
<1> QED
  BY <1>1, <1>4

-----------------------------------------------------------------------------
(* Theorems. *)

\* Type correctness: in particular the permits of m_readLock stay between zero
\* and MaximumSimultaniousThreads, for any number of threads.
THEOREM TypeCorrectness == SafeSpec => []TypeOK
<1>1. IInv => TypeOK
  BY DEF IInv
<1> QED
  BY <1>1, InitIInv, NextIInv, PTL DEF SafeSpec

\* registerHandler never changes the map beside a findHandler that reads it,
\* nor beside another registerHandler, for any number of threads and permits.
THEOREM Exclusion == SafeSpec => []WriterExcludesReaders
  BY InitIInv, NextIInv, IInvExcludes, PTL DEF SafeSpec

\* No path of registerHandler or findHandler loses or invents a permit.
THEOREM NoPermitLost == SafeSpec => []PermitsAccounted
<1>1. IInv => PermitsAccounted
  BY DEF IInv
<1> QED
  BY <1>1, InitIInv, NextIInv, PTL DEF SafeSpec
-----------------------------------------------------------------------------
(* The registry implements HandlerTable. *)

\* A thread about to read the map finds it settled.
LEMMA ReadsSettledMap ==
    ASSUME IInv, NEW t \in Threads, pc[t] = "findRead"
    PROVE  ~MapInFlux
<1>1. WriterExcludesReaders /\ t \in Readers
  BY IInvExcludes DEF Readers
<1> QED
  BY <1>1 DEF WriterExcludesReaders, MapInFlux, Writers

\* Where the abstract call is, for every statement of the two functions.
LEMMA Stages ==
    /\ StageOf("idle") = "idle"
    /\ \A p \in {"regLock", "regAcquire", "regWrite", "regStore"} : StageOf(p) = "register"
    /\ \A p \in {"regRelease", "regUnlock"} : StageOf(p) = "registered"
    /\ \A p \in {"findLock", "findAcquire", "findUnlock", "findRead"} : StageOf(p) = "find"
    /\ StageOf("findRelease") = "found"
  BY DEF StageOf, FindPCs

\* The initial state of the registry is an initial state of the table.
LEMMA InitImplements == Init => Abstract!Init
  BY Stages DEF Init, Abstract!Init

\* Every step of the registry is a step of the table or leaves it unchanged.
LEMMA StepImplements ==
    ASSUME IInv, NEW t \in Threads, CallRegister(t) \/ CallFind(t) \/ Step(t)
    PROVE  Abstract!Next \/ UNCHANGED Abstract!vars
<1> USE Stages DEF IInv, TypeOK, Goto
<1>1. CASE CallRegister(t)
  <2>1. Abstract!CallRegister(t)
    BY <1>1 DEF CallRegister, Abstract!CallRegister
  <2> QED
    BY <2>1 DEF Abstract!Next
<1>2. CASE CallFind(t)
  <2>1. Abstract!CallFind(t)
    BY <1>2 DEF CallFind, Abstract!CallFind
  <2> QED
    BY <2>1 DEF Abstract!Next
<1>3. CASE RegLock(t)
  BY <1>3 DEF RegLock, Abstract!vars
<1>4. CASE RegAcquire(t)
  BY <1>4 DEF RegAcquire, Abstract!vars
<1>5. CASE RegWrite(t)
  BY <1>5 DEF RegWrite, Abstract!vars
<1>6. CASE RegStore(t)
  <2>1. Abstract!ApplyRegister(t)
    BY <1>6 DEF RegStore, Abstract!ApplyRegister
  <2> QED
    BY <2>1 DEF Abstract!Next
<1>7. CASE RegRelease(t)
  BY <1>7 DEF RegRelease, Abstract!vars
<1>8. CASE RegUnlock(t)
  <2>1. Abstract!Return(t)
    BY <1>8 DEF RegUnlock, Abstract!Return
  <2> QED
    BY <2>1 DEF Abstract!Next
<1>9. CASE FindLock(t)
  BY <1>9 DEF FindLock, Abstract!vars
<1>10. CASE FindAcquire(t)
  BY <1>10 DEF FindAcquire, Abstract!vars
<1>11. CASE FindUnlock(t)
  BY <1>11 DEF FindUnlock, Abstract!vars
<1>12. CASE FindRead(t)
  <2>1. Abstract!ApplyFind(t)
    BY <1>12, ReadsSettledMap DEF FindRead, Abstract!ApplyFind
  <2> QED
    BY <2>1 DEF Abstract!Next
<1>13. CASE FindRelease(t)
  <2>1. Abstract!Return(t)
    BY <1>13 DEF FindRelease, Abstract!Return
  <2> QED
    BY <2>1 DEF Abstract!Next
<1> QED
  BY <1>1, <1>2, <1>3, <1>4, <1>5, <1>6, <1>7, <1>8, <1>9, <1>10, <1>11, <1>12, <1>13 DEF Step

\* registerHandler and findHandler are linearizable, for any number of threads,
\* types, handlers and permits: HandlersRegistry implements HandlerTable.
THEOREM Refinement == SafeSpec => Linearizable
<1>1. IInv /\ [Next]_vars => [Abstract!Next]_Abstract!vars
  <2> SUFFICES ASSUME IInv, [Next]_vars
               PROVE  Abstract!Next \/ UNCHANGED Abstract!vars
    OBVIOUS
  <2>1. CASE Next
    <3>1. PICK t \in Threads : CallRegister(t) \/ CallFind(t) \/ Step(t)
      BY <2>1 DEF Next
    <3> QED
      BY <3>1, StepImplements
  <2>2. CASE UNCHANGED vars
    BY <2>2 DEF vars, Abstract!vars
  <2> QED
    BY <2>1, <2>2
<1> QED
  BY <1>1, InitImplements, InitIInv, NextIInv, PTL DEF SafeSpec, Linearizable, Abstract!Spec
=============================================================================
