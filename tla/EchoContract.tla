----------------------------- MODULE EchoContract -----------------------------
(***************************************************************************)
(* What the Echo/Run engine promises of an Echo, whatever happens inside:  *)
(* it is accepted once, tried at most MaxRunAttempts times, never again    *)
(* after a try has had an effect that is not safe to replay, and closed    *)
(* once, for good. Cancellation at shutdown and recovery at startup may    *)
(* close several Echoes in one step.                                       *)
(***************************************************************************)
EXTENDS Naturals

CONSTANTS Echoes, MaxRunAttempts

VARIABLES
    outcome,    \* "none", "running" or how the Echo ended
    tries,      \* the attempts that have been queued
    effected    \* Echoes with an effect that must not be repeated

cvars == <<outcome, tries, effected>>

Outcomes == {"succeeded", "failed", "cancelled"}

CInit ==
    /\ outcome = [e \in Echoes |-> "none"]
    /\ tries = [e \in Echoes |-> {}]
    /\ effected = {}

Accept(e) ==
    /\ outcome[e] = "none"
    /\ outcome' = [outcome EXCEPT ![e] = "running"]
    /\ tries' = [tries EXCEPT ![e] = {1}]
    /\ UNCHANGED effected

TakeEffect(e) ==
    /\ outcome[e] = "running"
    /\ effected' = effected \union {e}
    /\ UNCHANGED <<outcome, tries>>

TryAgain(e) ==
    /\ outcome[e] = "running"
    /\ e \notin effected
    /\ \E n \in tries[e] :
        /\ n < MaxRunAttempts
        /\ n + 1 \notin tries[e]
        /\ tries' = [tries EXCEPT ![e] = @ \union {n + 1}]
    /\ UNCHANGED <<outcome, effected>>

Close ==
    /\ outcome' \in [Echoes -> {"none", "running"} \union Outcomes]
    /\ \A e \in Echoes : \/ outcome'[e] = outcome[e]
                         \/ outcome[e] = "running" /\ outcome'[e] \in Outcomes
    /\ UNCHANGED <<tries, effected>>

CNext == Close \/ \E e \in Echoes : Accept(e) \/ TakeEffect(e) \/ TryAgain(e)

CSpec == CInit /\ [][CNext]_cvars
=============================================================================
