---------------------------- MODULE TaskScheduler ----------------------------
(***************************************************************************)
(* The durable background tasks: the rows of `tasks`, the single poll loop *)
(* that claims due tasks and recovers dead ones, one goroutine per claim   *)
(* with its lease renewal, cancellation, two levels of slots, shutdown,    *)
(* crash and restart.                                                      *)
(*                                                                         *)
(* Every store operation is one SQL statement, hence one step.  A claim    *)
(* draws a fresh lease token, and a token also names the goroutine (its    *)
(* `execution`) that runs under it.                                        *)
(*                                                                         *)
(* Abstracted: clocks (a deadline or a lease passes and a backoff ends at  *)
(* any moment; whether a backoff ends before the deadline is a choice; a   *)
(* context ends the moment its deadline passes), the order of a batch,     *)
(* parameters and their schemas, error texts.                              *)
(***************************************************************************)
EXTENDS Naturals, FiniteSets

CONSTANTS
    Tasks,          \* task ids
    NoTask,
    Apps, AppOf,    \* the App of each task
    AllowRetry,     \* tasks whose type allows automatic retry
    Removed,        \* tasks whose type a restart no longer registers
    MaxAttempts,    \* Task.MaxAttempts
    MaxConcurrent,  \* Config.MaxConcurrent
    AppCapacity,    \* Config.AppCapacity
    BatchSize,      \* Config.BatchSize
    MaxClaims,      \* bound: how many lease tokens are drawn
    MaxStops,       \* bound: how often the process stops or crashes
    StoreFaults     \* TRUE: a statement may fail, or its answer be lost

Tokens == 1..MaxClaims
NoToken == 0

ASSUME TaskAssumption ==
    /\ NoTask \notin Tasks
    /\ AppOf \in [Tasks -> Apps]
    /\ AllowRetry \subseteq Tasks /\ Removed \subseteq Tasks
    /\ MaxAttempts \in Nat \ {0}
    /\ MaxConcurrent \in Nat \ {0} /\ AppCapacity \in Nat \ {0}
    /\ BatchSize \in Nat \ {0}
    /\ MaxClaims \in Nat /\ MaxStops \in Nat
    /\ StoreFaults \in BOOLEAN

VARIABLES
    (* rows and time *)
    status,     \* tasks.status, "none" before the row exists
    attempt,    \* tasks.attempt
    token,      \* tasks.lease_token
    expired,    \* tasks.lease_expires_at has passed
    due,        \* pending tasks whose available_at has passed
    overdue,    \* tasks whose deadline has passed
    (* the process *)
    mode,       \* "up", "stopping", "forced" (drain timed out) or "down"
    stops,      \* how often the process has gone down
    loop,       \* "idle", "polling", "claimed" or "recovering"
    batch,      \* tasks left of the batch poll is working on
    dead,       \* tokens left of the batch recoverDeadTasks is working on
    late,       \* tasks whose deadline had passed when the batch was read
    claimed,    \* the token poll has claimed and not yet dispatched
    executions, \* Scheduler.executions: task to execution
    used,       \* entries of Scheduler.workers in use
    appUsed,    \* the same per App
    (* one goroutine per token *)
    pc, taskOf, attemptOf,
    flagged,    \* execution.cancelled
    ctx,        \* execCtx: "none", "live", "cancelled" or "expired"
    leaseFailed,\* renewLease has reported a failure
    verdict,    \* the transition the goroutine is about to write
    began,      \* history: the tokens under which a handler was started
    (* Scheduler.Cancel, one call per task *)
    cancelPc, cancelExec

rowVars == <<status, attempt, token, expired, due>>
loopVars == <<loop, batch, dead, late, claimed>>
slotVars == <<used, appUsed>>
processVars == <<mode, stops>>
goVars == <<pc, flagged, ctx, leaseFailed, verdict, began>>
claimVars == <<taskOf, attemptOf>>
cancelVars == <<cancelPc, cancelExec>>
vars == <<rowVars, overdue, processVars, loopVars, executions, slotVars,
          goVars, claimVars, cancelVars>>

Pending == {"queued", "retry_scheduled"}
Terminal == {"succeeded", "failed", "cancelled"}
Verdicts == {"none", "succeeded", "cancelled", "retry", "failed"}
\* A goroutine is spawned, sets its cancel function, checks, runs the handler,
\* writes the outcome and cleans up.
InFlight == {"spawned", "armed", "running", "settle", "done"}
PCs == InFlight \union {"unused", "issued", "gone"}
CancelPCs == {"no", "lookup", "flag", "signal", "true", "false"}

Init ==
    /\ status = [t \in Tasks |-> "none"]
    /\ attempt = [t \in Tasks |-> 0]
    /\ token = [t \in Tasks |-> NoToken]
    /\ expired = [t \in Tasks |-> FALSE]
    /\ due = {} /\ overdue = {}
    /\ mode = "up" /\ stops = 0
    /\ loop = "idle" /\ batch = {} /\ dead = {} /\ late = {}
    /\ claimed = NoToken
    /\ executions = [t \in Tasks |-> NoToken]
    /\ used = 0 /\ appUsed = [a \in Apps |-> 0]
    /\ pc = [k \in Tokens |-> "unused"]
    /\ taskOf = [k \in Tokens |-> NoTask]
    /\ attemptOf = [k \in Tokens |-> 0]
    /\ flagged = [k \in Tokens |-> FALSE]
    /\ ctx = [k \in Tokens |-> "none"]
    /\ leaseFailed = [k \in Tokens |-> FALSE]
    /\ verdict = [k \in Tokens |-> "none"]
    /\ began = {}
    /\ cancelPc = [t \in Tasks |-> "no"]
    /\ cancelExec = [t \in Tasks |-> NoToken]

-----------------------------------------------------------------------------
(* Rows.  Each of these is the SET clause of one statement of task_store.go *)

Registered(t) == stops = 0 \/ t \notin Removed

\* Mutant of Holds: any live lease.
HoldsSomeone(k) ==
    status[taskOf[k]] = "running" /\ ~expired[taskOf[k]]

\* The guard of the goroutine's own statements: its token, and a lease that has
\* not run out.
Holds(k) ==
    LET t == taskOf[k] IN
    status[t] = "running" /\ token[t] = k /\ ~expired[t]

\* The guard of the recovery statements: the same token, on a lease that has.
Lapsed(k) ==
    LET t == taskOf[k] IN
    status[t] = "running" /\ token[t] = k /\ expired[t]

Finish(t, s) ==
    /\ status' = [status EXCEPT ![t] = s]
    /\ token' = [token EXCEPT ![t] = NoToken]
    /\ expired' = [expired EXCEPT ![t] = FALSE]
    /\ due' = due \ {t}
    /\ UNCHANGED attempt

\* Mutant of Reschedule: attempt=attempt+1 is forgotten.
RescheduleSame(t) ==
    /\ status' = [status EXCEPT ![t] = "retry_scheduled"]
    /\ token' = [token EXCEPT ![t] = NoToken]
    /\ expired' = [expired EXCEPT ![t] = FALSE]
    /\ due' = IF t \in overdue THEN due \union {t} ELSE due
    /\ UNCHANGED attempt

\* RetryTask and RetryDeadTask; the new available_at precedes the deadline, so
\* it has passed as well when the deadline has.
Reschedule(t) ==
    /\ status' = [status EXCEPT ![t] = "retry_scheduled"]
    /\ attempt' = [attempt EXCEPT ![t] = @ + 1]
    /\ token' = [token EXCEPT ![t] = NoToken]
    /\ expired' = [expired EXCEPT ![t] = FALSE]
    /\ due' = IF t \in overdue THEN due \union {t} ELSE due

\* ClaimTask's UPDATE under token k.
Lease(t, k) ==
    /\ status' = [status EXCEPT ![t] = "running"]
    /\ token' = [token EXCEPT ![t] = k]
    /\ expired' = [expired EXCEPT ![t] = FALSE]
    /\ due' = due \ {t}
    /\ taskOf' = [taskOf EXCEPT ![k] = t]
    /\ attemptOf' = [attemptOf EXCEPT ![k] = attempt[t]]
    /\ UNCHANGED attempt

Claimable(t) == status[t] \in Pending /\ token[t] = NoToken /\ t \in due
Fresh(k) == pc[k] = "unused" /\ \A j \in Tokens : j < k => pc[j] # "unused"

\* Mutant of RetryAllowed: the type is not asked.
RetryAllowedAnyType(k) ==
    Registered(taskOf[k]) /\ attemptOf[k] < MaxAttempts

RetryAllowed(k) ==
    LET t == taskOf[k] IN
    Registered(t) /\ t \in AllowRetry /\ attemptOf[k] < MaxAttempts

-----------------------------------------------------------------------------
(* Callers and time *)

\* Scheduler.Create; the row is due at once or later.
Create(t) ==
    /\ mode # "down" /\ status[t] = "none" /\ Registered(t)
    /\ status' = [status EXCEPT ![t] = "queued"]
    /\ attempt' = [attempt EXCEPT ![t] = 1]
    /\ due' \in {due, due \union {t}}
    /\ UNCHANGED <<token, expired, overdue, processVars, loopVars, executions,
                   slotVars, goVars, claimVars, cancelVars>>

BecomeDue(t) ==
    /\ status[t] \in Pending /\ t \notin due
    /\ due' = due \union {t}
    /\ UNCHANGED <<status, attempt, token, expired, overdue, processVars,
                   loopVars, executions, slotVars, goVars, claimVars,
                   cancelVars>>

\* available_at precedes deadline_at (schema.sql).
DeadlinePasses(t) ==
    /\ status[t] \notin {"none"} \union Terminal /\ t \notin overdue
    /\ status[t] \in Pending => t \in due
    /\ overdue' = overdue \union {t}
    /\ ctx' = [k \in Tokens |->
                 IF taskOf[k] = t /\ ctx[k] = "live" THEN "expired" ELSE ctx[k]]
    /\ UNCHANGED <<rowVars, processVars, loopVars, executions, slotVars, pc,
                   flagged, leaseFailed, verdict, began, claimVars, cancelVars>>

LeaseExpires(t) ==
    /\ status[t] = "running" /\ ~expired[t]
    /\ expired' = [expired EXCEPT ![t] = TRUE]
    /\ UNCHANGED <<status, attempt, token, due, overdue, processVars, loopVars,
                   executions, slotVars, goVars, claimVars, cancelVars>>

-----------------------------------------------------------------------------
(* pollLoop: poll and dispatch *)

LoopEnds(b) == IF b = {} THEN "idle" ELSE "polling"

\* ListDueTasks, with the clock that this whole poll goes by.
ListDue ==
    /\ mode = "up" /\ loop = "idle"
    /\ due # {}
    /\ loop' = "polling"
    /\ batch' \in {b \in SUBSET due :
                     Cardinality(b) = IF Cardinality(due) < BatchSize
                                      THEN Cardinality(due) ELSE BatchSize}
    /\ late' = overdue
    /\ UNCHANGED <<rowVars, overdue, processVars, dead, claimed, executions,
                   slotVars, goVars, claimVars, cancelVars>>

\* Mutant of SlotFree: only the pool of the deployment counts.
SlotFreeAnywhere(t) == used < MaxConcurrent
SlotFree(t) == used < MaxConcurrent /\ appUsed[AppOf[t]] < AppCapacity

TakeSlots(t) ==
    /\ used' = used + 1
    /\ appUsed' = [appUsed EXCEPT ![AppOf[t]] = @ + 1]
ReleaseSlots(t) ==
    /\ used' = used - 1
    /\ appUsed' = [appUsed EXCEPT ![AppOf[t]] = @ - 1]

\* No slot, the row has moved on, runCtx has ended, or the statement fails:
\* the candidate is passed over, with the slots as they were.
PassOver(t) ==
    /\ loop = "polling" /\ t \in batch
    /\ \/ ~SlotFree(t) \/ ~Claimable(t) \/ mode # "up" \/ StoreFaults
    /\ batch' = batch \ {t} /\ loop' = LoopEnds(batch')
    /\ UNCHANGED <<rowVars, overdue, processVars, dead, late, claimed,
                   executions, slotVars, goVars, claimVars, cancelVars>>

Claim(t, k) ==
    /\ loop = "polling" /\ t \in batch /\ mode = "up"
    /\ SlotFree(t) /\ Claimable(t) /\ Fresh(k)
    /\ TakeSlots(t)
    /\ Lease(t, k)
    /\ batch' = batch \ {t} /\ loop' = "claimed" /\ claimed' = k
    /\ pc' = [pc EXCEPT ![k] = "issued"]
    /\ UNCHANGED <<overdue, processVars, dead, late, executions, flagged, ctx,
                   leaseFailed, verdict, began, cancelVars>>

\* The UPDATE commits but poll is told of an error: the slots go back and
\* nobody runs under the lease.
ClaimLost(t, k) ==
    /\ loop = "polling" /\ t \in batch
    /\ StoreFaults \/ mode # "up"
    /\ SlotFree(t) /\ Claimable(t) /\ Fresh(k)
    /\ Lease(t, k)
    /\ batch' = batch \ {t} /\ loop' = LoopEnds(batch')
    /\ pc' = [pc EXCEPT ![k] = "gone"]
    /\ UNCHANGED <<overdue, processVars, dead, late, claimed, executions,
                   slotVars, flagged, ctx, leaseFailed, verdict, began,
                   cancelVars>>

\* dispatch, on a task whose deadline had passed when the batch was read.
DispatchLate(k) ==
    /\ loop = "claimed" /\ claimed = k /\ taskOf[k] \in late
    /\ \/ Holds(k) /\ Finish(taskOf[k], "failed")
       \/ (~Holds(k) \/ StoreFaults) /\ UNCHANGED rowVars
    /\ ReleaseSlots(taskOf[k])
    /\ pc' = [pc EXCEPT ![k] = "gone"]
    /\ claimed' = NoToken /\ loop' = LoopEnds(batch)
    /\ UNCHANGED <<overdue, processVars, batch, dead, late, executions,
                   flagged, ctx, leaseFailed, verdict, began, claimVars,
                   cancelVars>>

\* dispatch: register the execution and start its goroutine.
Dispatch(k) ==
    /\ loop = "claimed" /\ claimed = k /\ taskOf[k] \notin late
    /\ executions' = [executions EXCEPT ![taskOf[k]] = k]
    /\ pc' = [pc EXCEPT ![k] = "spawned"]
    /\ claimed' = NoToken /\ loop' = LoopEnds(batch)
    /\ UNCHANGED <<rowVars, overdue, processVars, batch, dead, late, slotVars,
                   flagged, ctx, leaseFailed, verdict, began, claimVars,
                   cancelVars>>

-----------------------------------------------------------------------------
(* pollLoop: recoverDeadTasks *)

DeadTokens == {k \in Tokens : pc[k] # "unused" /\ Lapsed(k)}

ListDead ==
    /\ mode = "up" /\ loop = "idle"
    /\ DeadTokens # {}
    /\ loop' = "recovering"
    /\ dead' \in {d \in SUBSET DeadTokens :
                    Cardinality(d) = IF Cardinality(DeadTokens) < BatchSize
                                     THEN Cardinality(DeadTokens)
                                     ELSE BatchSize}
    /\ late' = overdue
    /\ UNCHANGED <<rowVars, overdue, processVars, batch, claimed, executions,
                   slotVars, goVars, claimVars, cancelVars>>

\* Mutant of RecoverOne: what may not be retried is left alone.
RecoverRetryable(k) ==
    LET t == taskOf[k] IN
    /\ loop = "recovering" /\ k \in dead
    /\ \/ /\ Lapsed(k) /\ t \notin late /\ RetryAllowed(k)
          /\ Reschedule(t)
       \/ /\ ~Lapsed(k) \/ t \in late \/ ~RetryAllowed(k)
          /\ UNCHANGED rowVars
    /\ dead' = dead \ {k}
    /\ loop' = IF dead' = {} THEN "idle" ELSE "recovering"
    /\ UNCHANGED <<overdue, processVars, batch, late, claimed, executions,
                   slotVars, goVars, claimVars, cancelVars>>

\* One row of the batch: failed past its deadline, retried when its type allows
\* and the backoff ends before the deadline, failed otherwise.  The statements
\* run on a detached context, so they go through during shutdown.
RecoverOne(k) ==
    LET t == taskOf[k] IN
    /\ loop = "recovering" /\ k \in dead
    /\ \/ Lapsed(k) /\ Finish(t, "failed")
       \/ /\ Lapsed(k) /\ t \notin late /\ RetryAllowed(k)
          /\ Reschedule(t)
       \/ (~Lapsed(k) \/ StoreFaults) /\ UNCHANGED rowVars
    /\ dead' = dead \ {k}
    /\ loop' = IF dead' = {} THEN "idle" ELSE "recovering"
    /\ UNCHANGED <<overdue, processVars, batch, late, claimed, executions,
                   slotVars, goVars, claimVars, cancelVars>>

-----------------------------------------------------------------------------
(* execute: one goroutine per dispatched token *)

\* The context is made and its cancel function published.
Arm(k) ==
    /\ pc[k] = "spawned"
    /\ pc' = [pc EXCEPT ![k] = "armed"]
    /\ ctx' = [ctx EXCEPT ![k] = IF taskOf[k] \in overdue
                                 THEN "expired" ELSE "live"]
    /\ UNCHANGED <<rowVars, overdue, processVars, loopVars, executions,
                   slotVars, flagged, leaseFailed, verdict, began, claimVars,
                   cancelVars>>

Conclude(k, v) ==
    /\ pc' = [pc EXCEPT ![k] = "settle"]
    /\ verdict' = [verdict EXCEPT ![k] = v]

\* Mutant of Check: the flag is not looked at again.
CheckTypeOnly(k) ==
    /\ pc[k] = "armed"
    /\ \/ ~Registered(taskOf[k]) /\ Conclude(k, "failed") /\ UNCHANGED began
       \/ /\ Registered(taskOf[k])
          /\ pc' = [pc EXCEPT ![k] = "running"]
          /\ began' = began \union {k} /\ UNCHANGED verdict
    /\ UNCHANGED <<rowVars, overdue, processVars, loopVars, executions,
                   slotVars, flagged, ctx, leaseFailed, claimVars, cancelVars>>

\* The checks before the handler: registered type, not cancelled meanwhile.
Check(k) ==
    /\ pc[k] = "armed"
    /\ \/ ~Registered(taskOf[k]) /\ Conclude(k, "failed") /\ UNCHANGED began
       \/ /\ Registered(taskOf[k]) /\ flagged[k]
          /\ Conclude(k, "cancelled") /\ UNCHANGED began
       \/ /\ Registered(taskOf[k]) /\ ~flagged[k]
          /\ pc' = [pc EXCEPT ![k] = "running"]
          /\ began' = began \union {k} /\ UNCHANGED verdict
    /\ UNCHANGED <<rowVars, overdue, processVars, loopVars, executions,
                   slotVars, flagged, ctx, leaseFailed, claimVars, cancelVars>>

CancelCtx(k) == [ctx EXCEPT ![k] = IF @ = "live" THEN "cancelled" ELSE @]

\* The renewal goroutine lives until execute returns.
Renewing(k) == pc[k] \in {"running", "settle"} /\ k \in began

\* renewLease compares the row with the time of its tick, which may lie before
\* the moment the lease ran out, so that a lease past its end may be renewed.
Renew(k) ==
    LET t == taskOf[k] IN
    /\ Renewing(k) /\ ctx[k] = "live"
    /\ Lapsed(k)
    /\ expired' = [expired EXCEPT ![t] = FALSE]
    /\ UNCHANGED <<status, attempt, token, due, overdue, processVars, loopVars,
                   executions, slotVars, goVars, claimVars, cancelVars>>

\* A lease that is lost, or a store that fails or takes too long.
RenewFails(k) ==
    /\ Renewing(k) /\ ctx[k] = "live"
    /\ ~Holds(k) \/ StoreFaults
    /\ leaseFailed' = [leaseFailed EXCEPT ![k] = TRUE]
    /\ ctx' = CancelCtx(k)
    /\ UNCHANGED <<rowVars, overdue, processVars, loopVars, executions,
                   slotVars, pc, flagged, verdict, began, claimVars,
                   cancelVars>>

RetryOrFail(k) == IF RetryAllowed(k) THEN "retry" ELSE "failed"

\* finishExecution up to its write: the state of the context decides before
\* what the handler returns does.  Its fourth case (cancelled, yet neither by
\* Cancel nor by renewLease) has no cause: nothing else ends the context.
HandlerReturns(k) ==
    /\ pc[k] = "running"
    /\ \/ ctx[k] = "expired" /\ Conclude(k, "failed")
       \/ ctx[k] = "cancelled" /\ flagged[k] /\ Conclude(k, "cancelled")
       \/ /\ ctx[k] = "cancelled" /\ ~flagged[k] /\ leaseFailed[k]
          /\ Conclude(k, RetryOrFail(k))
       \/ /\ ctx[k] = "live"
          /\ \E v \in {"succeeded", "failed", RetryOrFail(k)} : Conclude(k, v)
    /\ UNCHANGED <<rowVars, overdue, processVars, loopVars, executions,
                   slotVars, flagged, ctx, leaseFailed, began, claimVars,
                   cancelVars>>

\* The transition*: under the lease, on a detached context; a retry whose
\* backoff would end past the deadline becomes a failure.
Write(k) ==
    LET t == taskOf[k]
        v == verdict[k]
    IN
    /\ pc[k] = "settle"
    /\ \/ Holds(k) /\ v # "retry" /\ Finish(t, v)
       \/ Holds(k) /\ v = "retry" /\ Finish(t, "failed")
       \/ Holds(k) /\ v = "retry" /\ t \notin overdue /\ Reschedule(t)
       \/ (~Holds(k) \/ StoreFaults) /\ UNCHANGED rowVars
    /\ pc' = [pc EXCEPT ![k] = "done"]
    /\ verdict' = [verdict EXCEPT ![k] = "none"]
    /\ UNCHANGED <<overdue, processVars, loopVars, executions, slotVars,
                   flagged, ctx, leaseFailed, began, claimVars, cancelVars>>

\* The deferred calls of execute: the entry of the task is deleted, whichever
\* execution it holds.
Cleanup(k) ==
    /\ pc[k] = "done"
    /\ executions' = [executions EXCEPT ![taskOf[k]] = NoToken]
    /\ ctx' = CancelCtx(k)
    /\ ReleaseSlots(taskOf[k])
    /\ pc' = [pc EXCEPT ![k] = "gone"]
    /\ UNCHANGED <<rowVars, overdue, processVars, loopVars, flagged,
                   leaseFailed, verdict, began, claimVars, cancelVars>>

-----------------------------------------------------------------------------
(* Scheduler.Cancel *)

CancelGoes(t, from, to) ==
    /\ cancelPc[t] = from
    /\ cancelPc' = [cancelPc EXCEPT ![t] = to]

\* CancelQueuedTask hits a task that is not running ...
CancelQueuedTask(t) ==
    /\ mode # "down" /\ status[t] \in Pending
    /\ CancelGoes(t, "no", "true")
    /\ Finish(t, "cancelled")
    /\ UNCHANGED <<overdue, processVars, loopVars, executions, slotVars,
                   goVars, claimVars, cancelExec>>

\* ... or misses.
CancelMisses(t) ==
    /\ mode # "down" /\ status[t] \notin Pending \union {"none"}
    /\ CancelGoes(t, "no", "lookup")
    /\ UNCHANGED <<rowVars, overdue, processVars, loopVars, executions,
                   slotVars, goVars, claimVars, cancelExec>>

CancelLookup(t) ==
    /\ CancelGoes(t, "lookup",
                  IF executions[t] = NoToken THEN "false" ELSE "flag")
    /\ cancelExec' = [cancelExec EXCEPT ![t] = executions[t]]
    /\ UNCHANGED <<rowVars, overdue, processVars, loopVars, executions,
                   slotVars, goVars, claimVars>>

\* exec.cancelled.Store(true)
CancelFlag(t) ==
    /\ CancelGoes(t, "flag", "signal")
    /\ flagged' = [flagged EXCEPT ![cancelExec[t]] = TRUE]
    /\ UNCHANGED <<rowVars, overdue, processVars, loopVars, executions,
                   slotVars, pc, ctx, leaseFailed, verdict, began, claimVars,
                   cancelExec>>

\* exec.cancel is read, and called when it is there already.
CancelSignal(t) ==
    /\ CancelGoes(t, "signal", "true")
    /\ ctx' = CancelCtx(cancelExec[t])
    /\ UNCHANGED <<rowVars, overdue, processVars, loopVars, executions,
                   slotVars, pc, flagged, leaseFailed, verdict, began,
                   claimVars, cancelExec>>

-----------------------------------------------------------------------------
(* Shutdown, crash and start *)

AllGone == loop = "idle" /\ \A k \in Tokens : pc[k] \in {"unused", "gone"}

BeginShutdown ==
    /\ mode = "up" /\ stops < MaxStops
    /\ mode' = "stopping"
    /\ UNCHANGED <<rowVars, overdue, stops, loopVars, executions, slotVars,
                   goVars, claimVars, cancelVars>>

\* The drain times out.  stopWorkers ends workerCtx, from which the executions
\* have been detached (WithoutCancel), so that nothing reaches them.
ForceShutdown ==
    /\ mode = "stopping" /\ ~AllGone
    /\ mode' = "forced"
    /\ UNCHANGED <<rowVars, overdue, stops, loopVars, executions, slotVars,
                   goVars, claimVars, cancelVars>>

\* Memory is lost; the rows and the passing of time remain.
ProcessEnds ==
    /\ mode' = "down" /\ stops' = stops + 1
    /\ loop' = "idle" /\ batch' = {} /\ dead' = {} /\ late' = {}
    /\ claimed' = NoToken
    /\ executions' = [t \in Tasks |-> NoToken]
    /\ used' = 0 /\ appUsed' = [a \in Apps |-> 0]
    /\ pc' = [k \in Tokens |-> IF pc[k] = "unused" THEN "unused" ELSE "gone"]
    /\ flagged' = [k \in Tokens |-> FALSE]
    /\ ctx' = [k \in Tokens |-> "none"]
    /\ leaseFailed' = [k \in Tokens |-> FALSE]
    /\ verdict' = [k \in Tokens |-> "none"]
    /\ cancelPc' = [t \in Tasks |-> "no"]
    /\ cancelExec' = [t \in Tasks |-> NoToken]
    /\ UNCHANGED <<rowVars, overdue, claimVars, began>>

FinishShutdown == mode = "stopping" /\ AllGone /\ ProcessEnds

ExitForced == mode = "forced" /\ ProcessEnds

Crash == mode \in {"up", "stopping"} /\ stops < MaxStops /\ ProcessEnds

Start ==
    /\ mode = "down"
    /\ mode' = "up"
    /\ UNCHANGED <<rowVars, overdue, stops, loopVars, executions, slotVars,
                   goVars, claimVars, cancelVars>>

-----------------------------------------------------------------------------
Task(t) ==
    \/ Create(t) \/ BecomeDue(t) \/ DeadlinePasses(t) \/ LeaseExpires(t)
    \/ PassOver(t)
    \/ CancelQueuedTask(t) \/ CancelMisses(t) \/ CancelLookup(t)
    \/ CancelFlag(t) \/ CancelSignal(t)

Loop(k) == DispatchLate(k) \/ Dispatch(k) \/ RecoverOne(k)

Execution(k) ==
    Arm(k) \/ Check(k) \/ HandlerReturns(k) \/ Write(k) \/ Cleanup(k)

Renewal(k) == Renew(k) \/ RenewFails(k)

Process ==
    \/ BeginShutdown \/ ForceShutdown \/ FinishShutdown \/ ExitForced
    \/ Crash \/ Start

Next ==
    \/ \E t \in Tasks : Task(t)
    \/ \E t \in Tasks, k \in Tokens : Claim(t, k) \/ ClaimLost(t, k)
    \/ \E k \in Tokens : Loop(k) \/ Execution(k) \/ Renewal(k)
    \/ ListDue \/ ListDead
    \/ Process

Spec == Init /\ [][Next]_vars

\* A lease nobody renews runs out.
Unheld(t) == \A k \in Tokens : taskOf[k] = t => pc[k] \in {"done", "gone"}

(***************************************************************************)
(* The goroutines are scheduled, handlers return, backoffs end and leases  *)
(* that nobody renews run out; a process that is down is started again.    *)
(* pollLoop selects at random between the two tickers, so that neither is  *)
(* passed over for ever: strong fairness.  ForceShutdown needs no          *)
(* fairness: the executions drain.                                         *)
(***************************************************************************)
Fairness ==
    /\ \A t \in Tasks :
         /\ WF_vars(BecomeDue(t))
         /\ WF_vars(Unheld(t) /\ LeaseExpires(t))
         /\ WF_vars(PassOver(t) \/ \E k \in Tokens : Claim(t, k))
    /\ \A k \in Tokens : WF_vars(Loop(k)) /\ WF_vars(Execution(k))
    /\ SF_vars(ListDue) /\ SF_vars(ListDead)
    /\ WF_vars(FinishShutdown) /\ WF_vars(ExitForced) /\ WF_vars(Start)

FairSpec == Spec /\ Fairness

-----------------------------------------------------------------------------
(* Properties *)

TypeOK ==
    /\ status \in [Tasks -> {"none", "running"} \union Pending \union Terminal]
    /\ attempt \in [Tasks -> 0..MaxAttempts]
    /\ token \in [Tasks -> {NoToken} \union Tokens]
    /\ expired \in [Tasks -> BOOLEAN]
    /\ due \subseteq Tasks /\ overdue \subseteq Tasks
    /\ mode \in {"up", "stopping", "forced", "down"}
    /\ stops \in 0..MaxStops
    /\ loop \in {"idle", "polling", "claimed", "recovering"}
    /\ batch \subseteq Tasks /\ late \subseteq Tasks /\ dead \subseteq Tokens
    /\ claimed \in {NoToken} \union Tokens
    /\ executions \in [Tasks -> {NoToken} \union Tokens]
    /\ used \in 0..MaxConcurrent
    /\ appUsed \in [Apps -> 0..AppCapacity]
    /\ pc \in [Tokens -> PCs]
    /\ taskOf \in [Tokens -> {NoTask} \union Tasks]
    /\ attemptOf \in [Tokens -> 0..MaxAttempts]
    /\ flagged \in [Tokens -> BOOLEAN]
    /\ ctx \in [Tokens -> {"none", "live", "cancelled", "expired"}]
    /\ leaseFailed \in [Tokens -> BOOLEAN]
    /\ verdict \in [Tokens -> Verdicts]
    /\ began \subseteq Tokens
    /\ cancelPc \in [Tasks -> CancelPCs]
    /\ cancelExec \in [Tasks -> {NoToken} \union Tokens]

Holders == {k \in Tokens : pc[k] \in InFlight \union {"issued"}}
HoldersOf(a) == {k \in Holders : AppOf[taskOf[k]] = a}

\* Every slot is held by a claim that is dispatched or about to be, in total and
\* per App, so none leaks and none is given back twice on the paths of poll,
\* dispatch and execute; and one App never has more tasks in hand than its
\* capacity, which is what keeps it from filling the deployment.
SlotsAreAccounted ==
    /\ used = Cardinality(Holders) /\ used <= MaxConcurrent
    /\ \A a \in Apps :
         /\ appUsed[a] = Cardinality(HoldersOf(a))
         /\ appUsed[a] <= AppCapacity

\* No attempt of a task is handed to two handlers, across lapsed leases,
\* recoveries, lost answers, crashes and restarts: the attempt a handler is
\* given identifies the run of it.
AttemptsRunOnce ==
    \A j, k \in began :
      j # k /\ taskOf[j] = taskOf[k] => attemptOf[j] # attemptOf[k]

\* The handler of a type that does not allow automatic retry is started at most
\* once per task, whatever becomes of the lease, the process or the store:
\* neither finishExecution nor recoverDeadTasks may put such a task back.
UnsafeRunsOnce ==
    \A j, k \in began :
      taskOf[j] = taskOf[k] /\ taskOf[j] \notin AllowRetry => j = k

\* Success is recorded for the attempt that earned it: a goroutine whose lease
\* ran out cannot complete the task over a later attempt that is running or
\* waiting (the token and lease guards of CompleteTask).
SuccessIsOfTheLastAttempt ==
    \A t \in Tasks :
      status[t] = "succeeded" =>
        \E k \in began : taskOf[k] = t /\ attemptOf[k] = attempt[t]

\* The comment in Cancel: a cancellation is never lost between the flag and the
\* cancel function.  Once Cancel has returned true for an execution, that
\* execution does not run its handler on a live context.
CancelIsSeen ==
    \A t \in Tasks :
      LET k == cancelExec[t] IN
      cancelPc[t] = "true" /\ k # NoToken /\ pc[k] = "running" =>
        ctx[k] # "live"

\* A task that has ended stays as it ended, whatever late goroutines, recovery
\* and cancellations still write, and takes no further attempt.
TerminalIsFinal ==
    [][\A t \in Tasks :
         status[t] \in Terminal =>
           status'[t] = status[t] /\ attempt'[t] = attempt[t]]_vars

\* Every task that is created ends, over lapsed leases, busy slots, a claim
\* whose answer is lost, orderly and forced shutdowns and crashes.
TaskSettles ==
    \A t \in Tasks : status[t] = "queued" ~> status[t] \in Terminal

\* The doc of Cancel: the cancellation of a running task is propagated to its
\* executor.  So the execution that holds the lease can be found by Cancel.
RunningIsReachable ==
    \A k \in Tokens :
      pc[k] = "running" /\ Holds(k) => executions[taskOf[k]] = k

=============================================================================
