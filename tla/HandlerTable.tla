---------------------------- MODULE HandlerTable ----------------------------
(***************************************************************************)
(* What the serialization handler registry of QtProtobuf promises its      *)
(* callers: a table from metatype identifiers to handlers on which         *)
(* registerHandler and findHandler take effect atomically, at one instant  *)
(* between the call and its return, whatever the threads that call them.   *)
(***************************************************************************)
CONSTANTS
    Threads,    \* the threads that use the registry
    Types,      \* metatype identifiers (the int keys of the table)
    Handlers,   \* SerializationHandler values that may be registered
    NoHandler   \* HandlersRegistry::empty, the answer for an unknown type

VARIABLES
    table,      \* Types -> the handler registered last, NoHandler at first
    stage,      \* Threads -> the call the thread is in, and how far it got
    type,       \* Threads -> the type its call is about
    answer      \* Threads -> the handler it registers, or the one it found

vars == <<table, stage, type, answer>>

Init ==
    /\ table = [k \in Types |-> NoHandler]
    /\ stage = [t \in Threads |-> "idle"]
    /\ type \in [Threads -> Types]
    /\ answer = [t \in Threads |-> NoHandler]

\* A thread enters a call; its arguments are fixed until it returns.
CallRegister(t) ==
    /\ stage[t] = "idle"
    /\ stage' = [stage EXCEPT ![t] = "register"]
    /\ \E k \in Types : type' = [type EXCEPT ![t] = k]
    /\ \E h \in Handlers : answer' = [answer EXCEPT ![t] = h]
    /\ UNCHANGED table

CallFind(t) ==
    /\ stage[t] = "idle"
    /\ stage' = [stage EXCEPT ![t] = "find"]
    /\ \E k \in Types : type' = [type EXCEPT ![t] = k]
    /\ answer' = [answer EXCEPT ![t] = NoHandler]
    /\ UNCHANGED table

\* The instant at which a call takes effect.
ApplyRegister(t) ==
    /\ stage[t] = "register"
    /\ stage' = [stage EXCEPT ![t] = "registered"]
    /\ table' = [table EXCEPT ![type[t]] = answer[t]]
    /\ UNCHANGED <<type, answer>>

ApplyFind(t) ==
    /\ stage[t] = "find"
    /\ stage' = [stage EXCEPT ![t] = "found"]
    /\ answer' = [answer EXCEPT ![t] = table[type[t]]]
    /\ UNCHANGED <<table, type>>

Return(t) ==
    /\ stage[t] \in {"registered", "found"}
    /\ stage' = [stage EXCEPT ![t] = "idle"]
    /\ UNCHANGED <<table, type, answer>>

Next == 
    \E t \in Threads :
        \/ CallRegister(t) \/ CallFind(t)
        \/ ApplyRegister(t) \/ ApplyFind(t) \/ Return(t)

Spec == Init /\ [][Next]_vars
=============================================================================
