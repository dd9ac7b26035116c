----------------------------- MODULE TaskContract -----------------------------
(***************************************************************************)
(* What the task queue promises to those who submit, watch, cancel and     *)
(* execute tasks, whatever becomes of leases, slots, the store and the     *)
(* process: a task waits, runs, and ends once, for good; each attempt is   *)
(* handed to one handler at most; only a repeatable task is tried again;   *)
(* a success has been earned by a handler of the last attempt, and what    *)
(* was running ends as cancelled only when somebody has asked for it.      *)
(***************************************************************************)
EXTENDS Naturals

CONSTANTS
    Tasks,
    Executions,     \* names of the runs of handlers
    Repeatable,     \* tasks that may be tried again
    MaxAttempts

VARIABLES
    state,      \* "none", "waiting", "running" or how the task ended
    tries,      \* the attempt a task has come to
    started,    \* <<e, t, n>>: execution e is the handler of attempt n of t
    asked       \* running tasks somebody wants cancelled, until a restart

qvars == <<state, tries, started, asked>>

Outcomes == {"succeeded", "failed", "cancelled"}

QInit ==
    /\ state = [t \in Tasks |-> "none"] /\ tries = [t \in Tasks |-> 0]
    /\ started = {} /\ asked = {}

Moves(t, from, to) == state[t] = from /\ state' = [state EXCEPT ![t] = to]

Submit(t) ==
    /\ Moves(t, "none", "waiting")
    /\ tries' = [tries EXCEPT ![t] = 1]
    /\ UNCHANGED <<started, asked>>

Take(t) ==
    /\ Moves(t, "waiting", "running")
    /\ UNCHANGED <<tries, started, asked>>

\* A handler may come late, when its task has gone on or ended without it, but
\* not early, and not beside another one of the same attempt.
Begin(e, t, n) ==
    /\ n <= tries[t] /\ (state[t] = "waiting" => n < tries[t])
    /\ \A s \in started : s[1] # e /\ ~(s[2] = t /\ s[3] = n)
    /\ started' = started \union {<<e, t, n>>}
    /\ UNCHANGED <<state, tries, asked>>

TryAgain(t) ==
    /\ t \in Repeatable /\ tries[t] < MaxAttempts
    /\ Moves(t, "running", "waiting")
    /\ tries' = [tries EXCEPT ![t] = @ + 1]
    /\ UNCHANGED <<started, asked>>

End(t, x) ==
    /\ x = "succeeded" => \E s \in started : s[2] = t /\ s[3] = tries[t]
    /\ x = "cancelled" => t \in asked
    /\ Moves(t, "running", x)
    /\ UNCHANGED <<tries, started, asked>>

Withdraw(t) ==
    /\ Moves(t, "waiting", "cancelled")
    /\ UNCHANGED <<tries, started, asked>>

Ask(t) ==
    /\ state[t] # "none"
    /\ asked' = asked \union {t}
    /\ UNCHANGED <<state, tries, started>>

Forget ==
    /\ asked' = {}
    /\ UNCHANGED <<state, tries, started>>

QNext ==
    \/ \E t \in Tasks :
          \/ Submit(t) \/ Take(t) \/ TryAgain(t) \/ Withdraw(t) \/ Ask(t)
          \/ \E x \in Outcomes : End(t, x)
          \/ \E e \in Executions, n \in 1..tries[t] : Begin(e, t, n)
    \/ Forget

QSpec == QInit /\ [][QNext]_qvars
=============================================================================
