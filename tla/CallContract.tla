----------------------------- MODULE CallContract -----------------------------
(***************************************************************************)
(* What the governance of calls promises of an operation, whatever happens *)
(* to the process, its leases and its database: the operation is performed *)
(* for one call at most; what its handler returned is concluded once, for  *)
(* good, or stays unknown; and a caller is told nothing, or the conclusion *)
(* about a request that was its own.                                       *)
(***************************************************************************)
CONSTANTS
    Calls,
    ArgOf,      \* what a call asks for
    MayMean     \* the operations a call may turn out to be

VARIABLES
    performed,  \* <<c, o>>: the handler of o was started for c
    returned,   \* call -> what the handler started for it returned
    concluded,  \* <<o, x>>: x is known to be the outcome of o
    told        \* call -> the outcome its caller was told

kvars == <<performed, returned, concluded, told>>

Outcomes == {"succeeded", "failed"}

KInit ==
    /\ performed = {} /\ concluded = {}
    /\ returned = [c \in Calls |-> "none"]
    /\ told = [c \in Calls |-> "none"]

Perform(c, o) ==
    /\ \A e \in performed : e[1] # c /\ e[2] # o
    /\ performed' = performed \union {<<c, o>>}
    /\ UNCHANGED <<returned, concluded, told>>

Return(c, x) ==
    /\ returned[c] = "none" /\ \E e \in performed : e[1] = c
    /\ returned' = [returned EXCEPT ![c] = x]
    /\ UNCHANGED <<performed, concluded, told>>

\* The caller it was performed for may hear of it in the same step, or never.
Conclude(c, o) ==
    /\ <<c, o>> \in performed /\ returned[c] # "none"
    /\ \A e \in concluded : e[1] # o
    /\ concluded' = concluded \union {<<o, returned[c]>>}
    /\ \/ told[c] = "none" /\ told' = [told EXCEPT ![c] = returned[c]]
       \/ UNCHANGED told
    /\ UNCHANGED <<performed, returned>>

Tell(c, o, x) ==
    /\ told[c] = "none" /\ o \in MayMean[c]
    /\ \E d \in Calls : <<d, o>> \in performed /\ ArgOf[d] = ArgOf[c]
    /\ told' = [told EXCEPT ![c] = x]
    /\ UNCHANGED <<performed, returned, concluded>>

KNext ==
    \/ \E e \in performed : Conclude(e[1], e[2])
    \/ \E e \in concluded, c \in Calls : Tell(c, e[1], e[2])
    \/ \E c \in Calls, x \in Outcomes : Return(c, x)
    \/ performed' # performed /\ \E c \in Calls : \E o \in MayMean[c] : Perform(c, o)

KSpec == KInit /\ [][KNext]_kvars
=============================================================================
