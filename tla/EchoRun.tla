------------------------------- MODULE EchoRun -------------------------------
(***************************************************************************)
(* The durable Echo/Run engine of one App: the SQLite rows of `echoes` and *)
(* `runs`, the worker pool of the Echo scheduler, the orchestrator that    *)
(* drives one claimed Run through its executor stream, user cancellation,  *)
(* automatic retry, child Runs, shutdown, crash and startup recovery.      *)
(*                                                                         *)
(* Every store operation is one SQLite transaction on a single connection, *)
(* so it is one atomic step; everything the process does between two store *)
(* operations interleaves.                                                 *)
(*                                                                         *)
(* Abstracted: clocks (a deadline may pass and a lease renewal may fail at *)
(* any moment while they are in force; a retry's available_at may pass at  *)
(* once), payload bytes, error codes (only "may be retried" matters),      *)
(* events that carry no verdict, and the trace contexts kept in            *)
(* Scheduler.pending. An expired lease has one effect on the rows, that a  *)
(* child Run is refused, and a refusal is always possible here.            *)
(***************************************************************************)
EXTENDS Naturals, FiniteSets

CONSTANTS
    Echoes,          \* Echo requests, named by their idempotency key
    Runs,            \* run_id values; bounds how many Runs are ever inserted
    Workers,         \* the scheduler's worker goroutines
    Calls,           \* call_id values one executor session may use
    CallKinds,       \* which kinds of Capability the executor asks for
    NoRun, NoEcho, NoWorker,
    MaxRunAttempts,  \* OrchestratorConfig.MaxRunAttempts
    QueueCapacity,   \* OrchestratorConfig.QueueCapacity
    MaxChildren,     \* childrun.MaxChildren
    MaxStops,        \* bound: how often the process stops or crashes
    StoreFaults      \* TRUE: a terminal write may fail and leave no trace

ASSUME ConstantsAssumption ==
    /\ MaxRunAttempts \in Nat \ {0}
    /\ QueueCapacity \in Nat
    /\ MaxChildren \in Nat \ {0}
    /\ MaxStops \in Nat
    /\ StoreFaults \in BOOLEAN
    /\ CallKinds \subseteq {"safe", "unsafe", "child"}
    /\ NoRun \notin Runs
    /\ NoEcho \notin Echoes
    /\ NoWorker \notin Workers

VARIABLES
    (* rows that survive the process *)
    echoStatus,   \* echoes.status, "none" before the row exists
    runStatus,    \* runs.status, "none" before the row exists
    runEcho,      \* runs.echo_id
    runParent,    \* runs.parent_run_id, NoRun for NULL
    originCall,   \* the set holding runs.origin_call_id ({} for a root)
    runAttempt,   \* runs.attempt
    lease,        \* runs.lease_token: the worker session that claimed the Run
    audited,      \* Runs with a capability_audit row of a call not replay-safe
    announced,    \* Runs with a persisted run.completed event
    (* memory of the process *)
    mode,         \* "up", "stopping" (Shutdown has begun) or "down"
    stops,        \* how often the process has gone down
    pc,           \* where each worker is
    listed,       \* the batch a worker read with Runnable
    job,          \* the Run in Scheduler.active under this worker
    stopReq,      \* the scheduler's CancelFunc for this job has been called
    ctx,          \* runContext: "live", "cancelled" or "expired"
    leaseFailed,  \* the renewLease goroutine has sent on leaseFailure
    retrySafe,    \* automaticRetrySafe
    final,        \* the terminal frame received, if any
    seen,         \* seenCallIDs
    verdict,      \* the terminal write the worker is about to make
    canceling,    \* per Echo: where a Scheduler.Cancel call is
    finished,     \* Echoes whose event stream the hub has closed
    missed        \* Echoes that had ended when the read before Finish failed

rows == <<echoStatus, runStatus, runEcho, runParent, originCall, runAttempt,
          lease, audited, announced>>
sched == <<pc, listed, job, stopReq, ctx, leaseFailed, retrySafe, final, seen,
           verdict>>
vars == <<rows, mode, stops, sched, canceling, finished, missed>>

EchoTerminal == {"succeeded", "failed", "cancelled"}
RunTerminal == {"succeeded", "failed", "cancelled", "timed_out"}
RunActive == {"queued", "running"}
(* Program points inside executeClaimedRun, before its terminal write.     *)
Executing == {"prepare", "context", "open", "stream"}
Registered == Executing \union {"claim", "settle", "release"}
PCs == Registered \union {"idle", "listed"}
Verdicts == {"none", "retry"} \union RunTerminal

RunsOf(e) == {r \in Runs : runEcho[r] = e}
RootRuns(e) == {r \in RunsOf(e) : runParent[r] = NoRun}
QueuedOf(e) == {r \in RunsOf(e) : runStatus[r] = "queued"}
RunningOf(e) == {r \in RunsOf(e) : runStatus[r] = "running"}
ActiveRuns == {r \in Runs : runStatus[r] \in RunActive}
ActiveChildren(p) == {r \in ActiveRuns : runParent[r] = p}
Fresh == {r \in Runs : runStatus[r] = "none"}
ActiveOn(e) == {w \in Workers : pc[w] \in Registered /\ runEcho[job[w]] = e}

(* The status an Echo takes from the Run that ends it (validateCompletion).  *)
EchoOutcome(s) == IF s \in {"succeeded", "cancelled"} THEN s ELSE "failed"

Init ==
    /\ echoStatus = [e \in Echoes |-> "none"]
    /\ runStatus = [r \in Runs |-> "none"]
    /\ runEcho = [r \in Runs |-> NoEcho]
    /\ runParent = [r \in Runs |-> NoRun]
    /\ originCall = [r \in Runs |-> {}]
    /\ runAttempt = [r \in Runs |-> 0]
    /\ lease = [r \in Runs |-> NoWorker]
    /\ audited = {}
    /\ announced = {}
    /\ mode = "up"
    /\ stops = 0
    /\ pc = [w \in Workers |-> "idle"]
    /\ listed = [w \in Workers |-> {}]
    /\ job = [w \in Workers |-> NoRun]
    /\ stopReq = [w \in Workers |-> FALSE]
    /\ ctx = [w \in Workers |-> "live"]
    /\ leaseFailed = [w \in Workers |-> FALSE]
    /\ retrySafe = [w \in Workers |-> TRUE]
    /\ final = [w \in Workers |-> "none"]
    /\ seen = [w \in Workers |-> {}]
    /\ verdict = [w \in Workers |-> "none"]
    /\ canceling = [e \in Echoes |-> "no"]
    /\ finished = {}
    /\ missed = {}

-----------------------------------------------------------------------------
(* Rows: insertion *)

(* Mutant of InsertRun: the attempt column is left at its default.         *)
InsertRunFirstAttempt(r, e, parent, call, attempt) ==
    /\ runEcho' = [runEcho EXCEPT ![r] = e]
    /\ runParent' = [runParent EXCEPT ![r] = parent]
    /\ originCall' = [originCall EXCEPT ![r] = call]
    /\ runAttempt' = [runAttempt EXCEPT ![r] = 1]

(* insertRun: a new queued row. parent is NoRun and call {} for a root.    *)
InsertRun(r, e, parent, call, attempt) ==
    /\ runEcho' = [runEcho EXCEPT ![r] = e]
    /\ runParent' = [runParent EXCEPT ![r] = parent]
    /\ originCall' = [originCall EXCEPT ![r] = call]
    /\ runAttempt' = [runAttempt EXCEPT ![r] = attempt]

(* UNIQUE(app_id, parent_run_id, origin_call_id); NULL parents never clash. *)
OriginFree(parent, call) ==
    \/ parent = NoRun
    \/ \A q \in Runs : ~(runParent[q] = parent /\ originCall[q] = call)

(* CreateIdempotent -> CreateEchoRunIdempotentLimited: a key seen before   *)
(* replays and a full queue refuses, both without a write.                 *)
CreateEcho(e) ==
    /\ mode = "up"
    /\ echoStatus[e] = "none"
    /\ QueueCapacity > 0 => Cardinality(ActiveRuns) < QueueCapacity
    /\ \E r \in Fresh :
        /\ runStatus' = [runStatus EXCEPT ![r] = "queued"]
        /\ InsertRun(r, e, NoRun, {}, 1)
    /\ echoStatus' = [echoStatus EXCEPT ![e] = "running"]
    /\ UNCHANGED <<lease, audited, announced, mode, stops, sched,
                   canceling, finished, missed>>

-----------------------------------------------------------------------------
(* Scheduler.Cancel *)

(* The UPDATE of the Echo row hits a running Echo, or is not needed as the *)
(* Echo has a running Run; else the transaction is rolled back.            *)
CancelAccepted(e) == RunningOf(e) # {} \/ echoStatus[e] = "running"

(* CancelQueuedRun. Its error results (nothing active; an orphan queued    *)
(* Run of a terminal Echo) change nothing and end the call, so they are    *)
(* not steps.                                                              *)
CancelQueuedRun(e) ==
    /\ mode = "up"
    /\ canceling[e] = "no"
    /\ LET queued == QueuedOf(e)
           running == RunningOf(e)
       IN \/ /\ queued = {}
             /\ running # {}
             /\ canceling' = [canceling EXCEPT ![e] = "nothing queued"]
             /\ UNCHANGED rows
          \/ /\ queued # {}
             /\ CancelAccepted(e)
             /\ runStatus' = [r \in Runs |-> IF r \in queued THEN "cancelled"
                                             ELSE runStatus[r]]
             /\ echoStatus' = IF running # {} THEN echoStatus
                              ELSE [echoStatus EXCEPT ![e] = "cancelled"]
             /\ canceling' = [canceling EXCEPT ![e] = "dequeued"]
             /\ UNCHANGED <<runEcho, runParent, originCall, runAttempt, lease,
                            audited, announced>>
    /\ UNCHANGED <<mode, stops, sched, finished, missed>>

(* The CancelFuncs of a set of jobs: the job context and the runContext    *)
(* derived from it, unless that one has already ended.                     *)
CancelJobs(ws) ==
    /\ stopReq' = [w \in Workers |-> stopReq[w] \/ w \in ws]
    /\ ctx' = [w \in Workers |-> IF w \in ws /\ ctx[w] = "live"
                                 THEN "cancelled" ELSE ctx[w]]

(* finishEchoIfTerminal: close the Echo's stream if its row is terminal.   *)
(* When GetEcho fails it returns without Finish, and nobody calls it again *)
(* for the same Run.                                                       *)
FinishEnded(e, ended) ==
    \/ /\ finished' = IF echoStatus[e] \in ended THEN finished \union {e}
                       ELSE finished
       /\ UNCHANGED missed
    \/ /\ StoreFaults /\ echoStatus[e] \in ended
       /\ missed' = missed \union {e}
       /\ UNCHANGED finished

(* Mutant of FinishIfTerminal: a cancelled Echo is forgotten.              *)
FinishUnlessCancelled(e) == FinishEnded(e, {"succeeded", "failed"})

FinishIfTerminal(e) == FinishEnded(e, EchoTerminal)

(* The rest of Scheduler.Cancel: abort the claimed jobs of this Echo.      *)
CancelActive(e) ==
    /\ mode = "up"
    /\ canceling[e] # "no"
    /\ LET ws == ActiveOn(e)
       IN /\ CancelJobs(ws)
          /\ IF ws = {} /\ canceling[e] = "dequeued" THEN FinishIfTerminal(e)
             ELSE UNCHANGED <<finished, missed>>
    /\ canceling' = [canceling EXCEPT ![e] = "no"]
    /\ UNCHANGED <<rows, mode, stops, pc, listed, job, leaseFailed, retrySafe,
                   final, seen, verdict>>

-----------------------------------------------------------------------------
(* Scheduler.runNext: read a batch, register one Run, claim it *)

(* Runnable -> ListRunnableRuns -> loadRunWork: a queued Run whose Echo is *)
(* terminal is failed (failQueuedRun), the others are the batch.           *)
ListRunnable(w) ==
    /\ mode = "up"
    /\ pc[w] = "idle"
    /\ LET queued == {r \in Runs : runStatus[r] = "queued"}
           orphans == {r \in queued : echoStatus[runEcho[r]] # "running"}
       IN /\ queued # {}
          /\ runStatus' = [r \in Runs |-> IF r \in orphans THEN "failed"
                                          ELSE runStatus[r]]
          /\ listed' = [listed EXCEPT ![w] = queued \ orphans]
          /\ pc' = [pc EXCEPT ![w] = IF queued = orphans THEN "idle"
                                     ELSE "listed"]
    /\ UNCHANGED <<echoStatus, runEcho, runParent, originCall, runAttempt,
                   lease, audited, announced, mode, stops, job,
                   stopReq, ctx, leaseFailed, retrySafe, final, seen, verdict,
                   canceling, finished, missed>>

Unregistered(rs) == rs \ {job[v] : v \in Workers}

(* Under activeMu: take a listed Run no worker has registered.             *)
PickRun(w) ==
    /\ pc[w] = "listed"
    /\ LET free == Unregistered(listed[w])
       IN IF mode = "up" /\ free # {}
          THEN /\ \E r \in free : job' = [job EXCEPT ![w] = r]
               /\ pc' = [pc EXCEPT ![w] = "claim"]
          ELSE /\ pc' = [pc EXCEPT ![w] = "idle"]
               /\ UNCHANGED job
    /\ listed' = [listed EXCEPT ![w] = {}]
    /\ UNCHANGED <<rows, mode, stops, stopReq, ctx, leaseFailed, retrySafe,
                   final, seen, verdict, canceling, finished, missed>>

(* RunQueued -> ClaimRun. It reads the run row only, never the Echo row; a *)
(* Run no longer queued, or a cancelled job context, loses the claim.      *)
ClaimRun(w) ==
    /\ pc[w] = "claim"
    /\ IF runStatus[job[w]] = "queued" /\ ~stopReq[w]
       THEN /\ runStatus' = [runStatus EXCEPT ![job[w]] = "running"]
            /\ lease' = [lease EXCEPT ![job[w]] = w]
            /\ pc' = [pc EXCEPT ![w] = "prepare"]
       ELSE /\ pc' = [pc EXCEPT ![w] = "release"]
            /\ UNCHANGED <<runStatus, lease>>
    /\ UNCHANGED <<echoStatus, runEcho, runParent, originCall, runAttempt,
                   audited, announced, mode, stops, listed, job, stopReq, ctx,
                   leaseFailed, retrySafe, final, seen, verdict, canceling,
                   finished, missed>>

-----------------------------------------------------------------------------
(* executeClaimedRun *)

RootJob(w) == runParent[job[w]] = NoRun
Settle(w, v) ==
    /\ verdict' = [verdict EXCEPT ![w] = v]
    /\ pc' = [pc EXCEPT ![w] = "settle"]

(* Mutant of FailVerdict: automaticRetrySafe is ignored.                   *)
FailVerdictUnsafe(w, retryable, safe) ==
    IF retryable /\ runAttempt[job[w]] < MaxRunAttempts THEN "retry" ELSE "failed"

(* failPublic: retry a retryable failure of an attempt that is not the     *)
(* last, while automaticRetrySafe holds (canRetry); fail otherwise.        *)
FailVerdict(w, retryable, safe) ==
    IF retryable /\ safe /\ runAttempt[job[w]] < MaxRunAttempts
    THEN "retry" ELSE "failed"

(* How a handler that checks runContext.Err() ends a Run whose context has *)
(* ended: cancelled before timed_out before any failure.                   *)
EndVerdict(w) == IF ctx[w] = "cancelled" THEN "cancelled" ELSE "timed_out"

(* AppendEchoEvent accepts an event of a running Run of a running Echo; a  *)
(* child Run emits none.                                                   *)
EventAccepted(w) ==
    RootJob(w) => /\ runStatus[job[w]] = "running"
                  /\ echoStatus[runEcho[job[w]]] = "running"

(* The row is still this session's: the guard of every write of a claimed  *)
(* Run, `status='running' AND lease_token=?`.                              *)
Holds(w) == runStatus[job[w]] = "running" /\ lease[job[w]] = w

WorkerOnly == UNCHANGED <<rows, mode, stops, listed, job, stopReq, ctx,
                          leaseFailed, retrySafe, final, seen, canceling,
                          finished, missed>>

(* App configuration revision, echo.started, policy snapshot, context      *)
(* assembly. All of its failures are either fatal or retryable, and none   *)
(* of them looks at runContext.Err().                                      *)
Prepare(w) ==
    /\ pc[w] = "prepare"
    /\ \/ /\ ctx[w] = "live" /\ EventAccepted(w)
          /\ pc' = [pc EXCEPT ![w] = "context"]
          /\ UNCHANGED verdict
       \/ \E retryable \in BOOLEAN : Settle(w, FailVerdict(w, retryable, TRUE))
    /\ WorkerOnly

(* SetRunContext, then run.context. A cancelled context wins over the      *)
(* error; otherwise the first is internal_error and the second retryable.  *)
FixContext(w) ==
    /\ pc[w] = "context"
    /\ \/ /\ ctx[w] = "live" /\ Holds(w) /\ EventAccepted(w)
          /\ pc' = [pc EXCEPT ![w] = "open"]
          /\ UNCHANGED verdict
       \/ /\ ctx[w] = "cancelled"
          /\ Settle(w, "cancelled")
       \/ /\ ctx[w] # "cancelled"
          /\ \E retryable \in BOOLEAN :
                Settle(w, FailVerdict(w, retryable, TRUE))
    /\ WorkerOnly

(* executor.Run, the StartRun frame (both fail without a look at the       *)
(* context), then run.started (which does look).                           *)
OpenStream(w) ==
    /\ pc[w] = "open"
    /\ \/ /\ ctx[w] = "live" /\ EventAccepted(w)
          /\ pc' = [pc EXCEPT ![w] = "stream"]
          /\ UNCHANGED verdict
       \/ \E retryable \in BOOLEAN : Settle(w, FailVerdict(w, retryable, TRUE))
       \/ /\ ctx[w] # "live"
          /\ Settle(w, EndVerdict(w))
    /\ WorkerOnly

(* childrun.CreateChild -> CreateChildRun for the job of w. The parent must*)
(* be a running root held by this session, its Echo running, and it must   *)
(* have fewer than MaxChildren active children.                            *)
CreateChildRun(w, c) ==
    LET p == job[w]
    IN /\ RootJob(w)
       /\ Holds(w)
       /\ echoStatus[runEcho[p]] = "running"
       /\ Cardinality(ActiveChildren(p)) < MaxChildren
       /\ OriginFree(p, {c})
       /\ \E r \in Fresh :
            /\ runStatus' = [runStatus EXCEPT ![r] = "queued"]
            /\ InsertRun(r, runEcho[p], p, {c}, 1)

(* Mutant of ReplaySafe: every Capability is taken to be replay-safe.      *)
ReplaySafeAlways(kind) == TRUE

(* automaticRetrySafe survives a call of a replay-safe Capability only.    *)
ReplaySafe(kind) == kind = "safe"

(* A CapabilityCall frame with a call_id not seen before: the sequence is  *)
(* persisted, automaticRetrySafe is dropped unless the Capability is       *)
(* replay-safe, and only then is it invoked. The call may be refused by    *)
(* governance (no row at all), and is audited once it was dispatched.      *)
CapabilityCall(w) ==
    /\ pc[w] = "stream"
    /\ ctx[w] = "live"
    /\ final[w] = "none"
    /\ Holds(w)
    /\ \E c \in Calls \ seen[w], kind \in CallKinds :
        /\ seen' = [seen EXCEPT ![w] = @ \union {c}]
        /\ retrySafe' = [retrySafe EXCEPT ![w] = @ /\ ReplaySafe(kind)]
        /\ \/ UNCHANGED rows
           \/ /\ kind # "safe"
              /\ audited' = audited \union {job[w]}
              /\ \/ UNCHANGED <<runStatus, runEcho, runParent, originCall,
                                runAttempt>>
                 \/ kind = "child" /\ CreateChildRun(w, c)
              /\ UNCHANGED <<echoStatus, lease, announced>>
    /\ UNCHANGED <<mode, stops, pc, listed, job, stopReq, ctx, leaseFailed,
                   final, verdict, canceling, finished, missed>>

(* Mutant of TerminalFrame: run.completed is persisted with the frame, not *)
(* at the end of the stream.                                               *)
TerminalFrameAnnounced(w) ==
    /\ pc[w] = "stream"
    /\ ctx[w] = "live"
    /\ final[w] = "none"
    /\ Holds(w)
    /\ final' = [final EXCEPT ![w] = "result"]
    /\ announced' = announced \union {job[w]}
    /\ UNCHANGED <<echoStatus, runStatus, runEcho, runParent, originCall,
                   runAttempt, lease, audited, mode, stops, pc, listed, job,
                   stopReq, ctx, leaseFailed, retrySafe, seen, verdict,
                   canceling, finished, missed>>

(* FinalResult or RunFailure: remembered until the stream ends.            *)
TerminalFrame(w) ==
    /\ pc[w] = "stream"
    /\ ctx[w] = "live"
    /\ final[w] = "none"
    /\ Holds(w)
    /\ \E f \in {"result", "retryable", "fatal"} :
            final' = [final EXCEPT ![w] = f]
    /\ UNCHANGED <<rows, mode, stops, pc, listed, job, stopReq, ctx,
                   leaseFailed, retrySafe, seen, verdict, canceling, finished, missed>>

(* Mutant of StreamSucceeded: what fails after run.completed is persisted,  *)
(* say its publication, is taken for a failure to persist it.              *)
StreamSucceededUnheard(w) ==
    /\ pc[w] = "stream"
    /\ ctx[w] = "live"
    /\ final[w] = "result"
    /\ EventAccepted(w)
    /\ announced' = IF RootJob(w) THEN announced \union {job[w]} ELSE announced
    /\ \/ Settle(w, "succeeded")
       \/ Settle(w, FailVerdict(w, TRUE, retrySafe[w]))
    /\ UNCHANGED <<echoStatus, runStatus, runEcho, runParent, originCall,
                   runAttempt, lease, audited, mode, stops, listed, job,
                   stopReq, ctx, leaseFailed, retrySafe, final, seen,
                   canceling, finished, missed>>

(* EOF after FinalResult: run.completed is persisted first, the terminal   *)
(* write follows as a transaction of its own.                              *)
StreamSucceeded(w) ==
    /\ pc[w] = "stream"
    /\ ctx[w] = "live"
    /\ final[w] = "result"
    /\ EventAccepted(w)
    /\ announced' = IF RootJob(w) THEN announced \union {job[w]} ELSE announced
    /\ Settle(w, "succeeded")
    /\ UNCHANGED <<echoStatus, runStatus, runEcho, runParent, originCall,
                   runAttempt, lease, audited, mode, stops, listed, job,
                   stopReq, ctx, leaseFailed, retrySafe, final, seen,
                   canceling, finished, missed>>

(* EOF after RunFailure.                                                   *)
StreamFailed(w) ==
    /\ pc[w] = "stream"
    /\ ctx[w] = "live"
    /\ final[w] \in {"retryable", "fatal"}
    /\ Settle(w, FailVerdict(w, final[w] = "retryable", retrySafe[w]))
    /\ WorkerOnly

(* The stream breaks or an event cannot be persisted (retryable), or a     *)
(* frame breaks the protocol or a budget (never retried). A cancelled      *)
(* context hides the former.                                               *)
StreamBroken(w) ==
    /\ pc[w] = "stream"
    /\ \E retryable \in BOOLEAN :
        /\ retryable => ctx[w] # "cancelled"
        /\ Settle(w, FailVerdict(w, retryable, retrySafe[w]))
    /\ WorkerOnly

(* The context has ended. Noticed by Recv, a failed renewal is told apart  *)
(* from a cancellation; noticed by any other check, it is not.             *)
StreamEnded(w) ==
    /\ pc[w] = "stream"
    /\ ctx[w] # "live"
    /\ \/ Settle(w, EndVerdict(w))
       \/ /\ ctx[w] = "cancelled" /\ leaseFailed[w]
          /\ Settle(w, FailVerdict(w, TRUE, retrySafe[w]))
    /\ WorkerOnly

(* context.WithDeadline(run.Deadline) fires.                               *)
DeadlinePasses(w) ==
    /\ pc[w] \in Executing
    /\ ctx[w] = "live"
    /\ ctx' = [ctx EXCEPT ![w] = "expired"]
    /\ UNCHANGED <<rows, mode, stops, pc, listed, job, stopReq, leaseFailed,
                   retrySafe, final, seen, verdict, canceling, finished, missed>>

(* renewLease: RenewRunLease fails, because the store does, the lease has  *)
(* run out, or the renewal was in flight when the context was cancelled.   *)
RenewFails(w) ==
    /\ pc[w] \in Executing
    /\ ctx[w] # "expired"
    /\ ~leaseFailed[w]
    /\ leaseFailed' = [leaseFailed EXCEPT ![w] = TRUE]
    /\ ctx' = [ctx EXCEPT ![w] = "cancelled"]
    /\ UNCHANGED <<rows, mode, stops, pc, listed, job, stopReq, retrySafe,
                   final, seen, verdict, canceling, finished, missed>>

-----------------------------------------------------------------------------
(* Terminal writes of a claimed Run *)

MayComplete(w) ==
    Holds(w) /\ (RootJob(w) => echoStatus[runEcho[job[w]]] = "running")

(* CompleteRun: the Run row, and with a root Run the Echo row, in one      *)
(* transaction guarded by the lease token and by the Echo still running.   *)
CompleteRun(w) ==
    LET r == job[w]
        e == runEcho[r]
    IN /\ pc[w] = "settle"
       /\ verdict[w] # "retry"
       /\ \/ /\ MayComplete(w)
             /\ runStatus' = [runStatus EXCEPT ![r] = verdict[w]]
             /\ lease' = [lease EXCEPT ![r] = NoWorker]
             /\ echoStatus' = IF RootJob(w)
                              THEN [echoStatus EXCEPT
                                        ![e] = EchoOutcome(verdict[w])]
                              ELSE echoStatus
          \/ /\ ~MayComplete(w) \/ StoreFaults
             /\ UNCHANGED <<runStatus, lease, echoStatus>>
       /\ pc' = [pc EXCEPT ![w] = "release"]
       /\ UNCHANGED <<runEcho, runParent, originCall, runAttempt, audited,
                      announced, mode, stops, listed, job, stopReq, ctx,
                      leaseFailed, retrySafe, final, seen, verdict, canceling,
                      finished, missed>>

(* retryRun -> RetryRun: this attempt fails and the next one is queued in  *)
(* the same transaction. When it is refused (the next attempt of a child   *)
(* would repeat its parent_run_id and origin_call_id) or the store fails,  *)
(* failPublic goes on to complete the Run as failed.                       *)
RetryRun(w) ==
    LET r == job[w]
        accepted == Holds(w) /\ OriginFree(runParent[r], originCall[r])
    IN /\ pc[w] = "settle"
       /\ verdict[w] = "retry"
       /\ \/ /\ accepted
             /\ \E q \in Fresh :
                  /\ runStatus' = [runStatus EXCEPT ![r] = "failed",
                                                    ![q] = "queued"]
                  /\ InsertRun(q, runEcho[r], runParent[r], originCall[r],
                               runAttempt[r] + 1)
             /\ lease' = [lease EXCEPT ![r] = NoWorker]
             /\ pc' = [pc EXCEPT ![w] = "release"]
             /\ UNCHANGED verdict
          \/ /\ ~accepted \/ StoreFaults
             /\ verdict' = [verdict EXCEPT ![w] = "failed"]
             /\ UNCHANGED <<runStatus, runEcho, runParent, originCall,
                            runAttempt, lease, pc>>
       /\ UNCHANGED <<echoStatus, audited, announced, mode, stops, listed, job,
                      stopReq, ctx, leaseFailed, retrySafe, final, seen,
                      canceling, finished, missed>>

(* The end of runNext: leave Scheduler.active, close the stream of an Echo *)
(* that is terminal now, forget the job.                                   *)
ReleaseJob(w) ==
    /\ pc[w] = "release"
    /\ FinishIfTerminal(runEcho[job[w]])
    /\ pc' = [pc EXCEPT ![w] = "idle"]
    /\ job' = [job EXCEPT ![w] = NoRun]
    /\ stopReq' = [stopReq EXCEPT ![w] = FALSE]
    /\ ctx' = [ctx EXCEPT ![w] = "live"]
    /\ leaseFailed' = [leaseFailed EXCEPT ![w] = FALSE]
    /\ retrySafe' = [retrySafe EXCEPT ![w] = TRUE]
    /\ final' = [final EXCEPT ![w] = "none"]
    /\ seen' = [seen EXCEPT ![w] = {}]
    /\ verdict' = [verdict EXCEPT ![w] = "none"]
    /\ UNCHANGED <<rows, mode, stops, listed, canceling>>

-----------------------------------------------------------------------------
(* Shutdown, crash, restart *)

(* Scheduler.Shutdown: no new claims, every active job is cancelled.       *)
BeginShutdown ==
    /\ mode = "up"
    /\ stops < MaxStops
    /\ mode' = "stopping"
    /\ CancelJobs({w \in Workers : pc[w] \in Registered})
    /\ UNCHANGED <<rows, stops, pc, listed, job, leaseFailed, retrySafe, final,
                   seen, verdict, canceling, finished, missed>>

(* The memory of the process is lost; so are its open streams.             *)
ProcessEnds ==
    /\ mode' = "down"
    /\ stops' = stops + 1
    /\ pc' = [w \in Workers |-> "idle"]
    /\ listed' = [w \in Workers |-> {}]
    /\ job' = [w \in Workers |-> NoRun]
    /\ stopReq' = [w \in Workers |-> FALSE]
    /\ ctx' = [w \in Workers |-> "live"]
    /\ leaseFailed' = [w \in Workers |-> FALSE]
    /\ retrySafe' = [w \in Workers |-> TRUE]
    /\ final' = [w \in Workers |-> "none"]
    /\ seen' = [w \in Workers |-> {}]
    /\ verdict' = [w \in Workers |-> "none"]
    /\ canceling' = [e \in Echoes |-> "no"]
    /\ missed' = {}
    /\ UNCHANGED finished

(* Mutant of CancelQueuedRuns: the Echo rows are forgotten.                *)
CancelQueuedRunsOnly ==
    /\ runStatus' = [r \in Runs |-> IF runStatus[r] = "queued" THEN "cancelled"
                                    ELSE runStatus[r]]
    /\ UNCHANGED echoStatus

(* CancelQueuedRuns: an Echo with a queued and no running Run is           *)
(* cancelled; every queued Run is.                                         *)
CancelQueuedRuns ==
    /\ echoStatus' = [e \in Echoes |->
            IF echoStatus[e] = "running" /\ QueuedOf(e) # {}
               /\ RunningOf(e) = {}
            THEN "cancelled" ELSE echoStatus[e]]
    /\ runStatus' = [r \in Runs |-> IF runStatus[r] = "queued" THEN "cancelled"
                                    ELSE runStatus[r]]

(* The rest of Shutdown once every worker has returned. The per-Echo       *)
(* Cancel calls that follow find no queued Run and change no row.          *)
FinishShutdown ==
    /\ mode = "stopping"
    /\ \A w \in Workers : pc[w] = "idle"
    /\ CancelQueuedRuns
    /\ ProcessEnds
    /\ UNCHANGED <<runEcho, runParent, originCall, runAttempt, lease, audited,
                   announced>>

(* A crash, or Shutdown running out of time, at any moment.                *)
Crash ==
    /\ mode # "down"
    /\ stops < MaxStops
    /\ ProcessEnds
    /\ UNCHANGED rows

(* finalizeEchoFromRun over the rows st: the primary Run group is the one  *)
(* of the root Runs; with none of them active the Echo takes the outcome   *)
(* of the last attempt, and must be running to take it.                    *)
LastAttempts(e) ==
    {r \in RootRuns(e) : \A q \in RootRuns(e) : runAttempt[q] <= runAttempt[r]}
PrimaryActive(e, st) == \E r \in RootRuns(e) : st[r] \in RunActive
FinalStatus(e, st) ==
    IF \E r \in LastAttempts(e) : st[r] = "succeeded" THEN "succeeded"
    ELSE IF \E r \in LastAttempts(e) : st[r] = "cancelled" THEN "cancelled"
    ELSE "failed"

(* Mutant of Abandoned: only root Runs are looked for.                     *)
AbandonedRoots == {r \in Runs : runStatus[r] = "running" /\ runParent[r] = NoRun}

(* FailAbandonedRuns: what is running when the process starts is failed,   *)
(* and each Echo concerned is finalized, all in one transaction.           *)
Abandoned == {r \in Runs : runStatus[r] = "running"}
Reconciled ==
    [r \in Runs |-> IF r \in Abandoned THEN "failed" ELSE runStatus[r]]
(* Mutant of EchoesToFinalize: reads the rows as they were before the      *)
(* update, when the abandoned attempt still looks active.                  *)
EchoesToFinalizeStale ==
    {e \in Echoes : /\ \E r \in Abandoned : runEcho[r] = e
                    /\ ~PrimaryActive(e, runStatus)}

EchoesToFinalize ==
    {e \in Echoes : /\ \E r \in Abandoned : runEcho[r] = e
                    /\ ~PrimaryActive(e, Reconciled)}
RecoveryCommits == \A e \in EchoesToFinalize : echoStatus[e] = "running"

(* Scheduler.Recover -> Recoverable; ListQueuedRuns then fails the queued  *)
(* Runs of terminal Echoes as ListRunnable does, which the first           *)
(* ListRunnable after the start repeats here. If an Echo cannot be         *)
(* finalized the transaction rolls back and the start is refused.          *)
Recover ==
    /\ mode = "down"
    /\ RecoveryCommits
    /\ runStatus' = Reconciled
    /\ lease' = [r \in Runs |-> IF r \in Abandoned THEN NoWorker ELSE lease[r]]
    /\ echoStatus' = [e \in Echoes |-> IF e \in EchoesToFinalize
                                       THEN FinalStatus(e, Reconciled)
                                       ELSE echoStatus[e]]
    /\ mode' = "up"
    /\ finished' = {e \in Echoes : echoStatus'[e] \in EchoTerminal}
    /\ UNCHANGED <<runEcho, runParent, originCall, runAttempt, audited,
                   announced, stops, sched, canceling, missed>>

-----------------------------------------------------------------------------
WorkerStep(w) ==
    \/ ListRunnable(w) \/ PickRun(w) \/ ClaimRun(w)
    \/ Prepare(w) \/ FixContext(w) \/ OpenStream(w)
    \/ CapabilityCall(w) \/ TerminalFrame(w)
    \/ StreamSucceeded(w) \/ StreamFailed(w) \/ StreamBroken(w)
    \/ StreamEnded(w)
    \/ CompleteRun(w) \/ RetryRun(w) \/ ReleaseJob(w)

ClientStep(e) == CreateEcho(e) \/ CancelQueuedRun(e) \/ CancelActive(e)

ProcessStep == BeginShutdown \/ FinishShutdown \/ Crash \/ Recover

Next ==
    \/ \E w \in Workers : WorkerStep(w) \/ DeadlinePasses(w) \/ RenewFails(w)
    \/ \E e \in Echoes : ClientStep(e)
    \/ ProcessStep

Spec == Init /\ [][Next]_vars

(* Goroutines are scheduled, every runContext carries a deadline, an HTTP  *)
(* handler that has written its cancellation goes on, and a process that   *)
(* is shutting down or has stopped is waited for and started again. The    *)
(* executor owes nothing: CapabilityCall, TerminalFrame and the way a live *)
(* stream ends are left to it. Clients, crashes and failing renewals are   *)
(* not fair either.                                                        *)
Fairness ==
    /\ \A w \in Workers :
        /\ WF_vars(ListRunnable(w)) /\ WF_vars(PickRun(w))
        /\ WF_vars(ClaimRun(w)) /\ WF_vars(Prepare(w))
        /\ WF_vars(FixContext(w)) /\ WF_vars(OpenStream(w))
        /\ WF_vars(StreamEnded(w)) /\ WF_vars(DeadlinePasses(w))
        /\ WF_vars(CompleteRun(w)) /\ WF_vars(RetryRun(w))
        /\ WF_vars(ReleaseJob(w))
    /\ \A e \in Echoes : WF_vars(CancelActive(e))
    /\ WF_vars(FinishShutdown)
    /\ WF_vars(Recover)

FairSpec == Spec /\ Fairness

-----------------------------------------------------------------------------
(* Properties *)

(* Every variable stays in its domain.                                     *)
RowTypes ==
    /\ echoStatus \in [Echoes -> {"none", "running"} \union EchoTerminal]
    /\ runStatus \in [Runs -> {"none"} \union RunActive \union RunTerminal]
    /\ runEcho \in [Runs -> Echoes \union {NoEcho}]
    /\ runParent \in [Runs -> Runs \union {NoRun}]
    /\ originCall \in [Runs -> SUBSET Calls]
    /\ runAttempt \in [Runs -> 0..MaxRunAttempts]
    /\ lease \in [Runs -> Workers \union {NoWorker}]
    /\ audited \subseteq Runs
    /\ announced \subseteq Runs

SchedTypes ==
    /\ pc \in [Workers -> PCs]
    /\ listed \in [Workers -> SUBSET Runs]
    /\ job \in [Workers -> Runs \union {NoRun}]
    /\ stopReq \in [Workers -> BOOLEAN]
    /\ ctx \in [Workers -> {"live", "cancelled", "expired"}]
    /\ leaseFailed \in [Workers -> BOOLEAN]
    /\ retrySafe \in [Workers -> BOOLEAN]
    /\ final \in [Workers -> {"none", "result", "retryable", "fatal"}]
    /\ seen \in [Workers -> SUBSET Calls]
    /\ verdict \in [Workers -> Verdicts]

ServiceTypes ==
    /\ mode \in {"up", "stopping", "down"}
    /\ stops \in 0..MaxStops
    /\ canceling \in [Echoes -> {"no", "nothing queued", "dequeued"}]
    /\ finished \subseteq Echoes
    /\ missed \subseteq Echoes

TypeOK == RowTypes /\ SchedTypes /\ ServiceTypes

(* No stuck and no split Echo: an Echo is running exactly while the last   *)
(* attempt of its root Run is queued or running, and a terminal Echo shows *)
(* the outcome of that attempt and has no attempt left to run. Broken if   *)
(* any of the transactions that end or queue a Run (completion, retry, the *)
(* two cancellations, orphan failure, recovery) forgets the other table.   *)
FollowsRoot(e) ==
    /\ echoStatus[e] = "none" => RunsOf(e) = {}
    /\ echoStatus[e] = "running" =>
          \E r \in LastAttempts(e) : runStatus[r] \in RunActive
    /\ echoStatus[e] \in EchoTerminal =>
          /\ ~PrimaryActive(e, runStatus)
          /\ \E r \in LastAttempts(e) : echoStatus[e] = EchoOutcome(runStatus[r])

EchoFollowsRoot == \A e \in Echoes : FollowsRoot(e)

(* The attempts of a root Run are serial: numbered 1, 2, ... without a     *)
(* repetition, at most MaxRunAttempts, each one queued only by the failure *)
(* of the one before, whatever cancellation and recovery do in between.    *)
AttemptsAreSerial ==
    \A e \in Echoes : \A q, r \in RootRuns(e) :
        /\ runAttempt[r] \in 1..MaxRunAttempts
        /\ runAttempt[r] > 1 =>
              \E p \in RootRuns(e) : runAttempt[p] + 1 = runAttempt[r]
        /\ runAttempt[q] = runAttempt[r] => q = r
        /\ runAttempt[q] < runAttempt[r] => runStatus[q] = "failed"

(* README: an attempt that has asked for a Capability that is not          *)
(* replay-safe is never retried. An audited call, or a child Run, belongs  *)
(* to the last attempt of its Echo for good.                               *)
NoRetryAfterEffect ==
    \A r \in Runs :
        (r \in audited \/ \E c \in Runs : runParent[c] = r) =>
            \A q \in Runs : runEcho[q] = runEcho[r] /\ runParent[q] = NoRun
                            /\ runParent[r] = NoRun
                            => runAttempt[q] <= runAttempt[r]

(* A session that executes a Run still holds its row and, for a root, its  *)
(* Echo is still running: no cancellation, recovery or second claim takes  *)
(* either away, so the terminal write it is heading for is accepted.       *)
ExecutorHoldsItsRun ==
    \A w \in Workers :
        pc[w] \in Executing \union {"settle"} =>
            /\ Holds(w)
            /\ RootJob(w) => echoStatus[runEcho[job[w]]] = "running"
            /\ \A v \in Workers \ {w} : job[v] # job[w]

(* A running row has a worker that will end it: while the process is up, a *)
(* row loses its worker only to a terminal write the store has refused.    *)
Left(r) == /\ mode # "down" /\ runStatus[r] = "running"
           /\ \A w \in Workers : pc[w] \in Executing \union {"settle"} =>
                                  job[w] # r
RunningRunIsDriven ==
    [][\A r \in Runs : ~Left(r) /\ Left(r)' =>
           StoreFaults /\ \E w \in Workers : pc[w] = "settle" /\ job[w] = r]_vars

(* run.completed, once in the event log, is the truth as long as the       *)
(* process lives: the Run is about to succeed or has succeeded.            *)
AnnouncedRunSucceeds ==
    (stops = 0 /\ ~StoreFaults) =>
        \A r \in announced : /\ runStatus[r] \in {"running", "succeeded"}
                             /\ runStatus[r] = "succeeded" =>
                                    echoStatus[runEcho[r]] = "succeeded"

(* run.completed is the last word on an Echo, because Access ends a reply  *)
(* with it (chat.go:243): once one is in the log, no attempt of the Echo   *)
(* waits or executes any more, so that no event and no second reply comes  *)
(* behind it, whichever write fails and however the process stops.         *)
CompletedIsLast ==
    \A r \in announced :
        /\ \A q \in RootRuns(runEcho[r]) :
              runStatus[q] # "queued" /\ (q \in announced => q = r)
        /\ \A w \in Workers :
              pc[w] \in Executing /\ RootJob(w) => runEcho[job[w]] # runEcho[r]

(* What the queue capacity bounds although only CreateEcho looks at it:    *)
(* the root Runs that wait or run, for retries and recovery add none; the  *)
(* active children of each parent have a bound of their own.               *)
ActiveRoots == {r \in ActiveRuns : runParent[r] = NoRun}
QueueHolds ==
    /\ QueueCapacity > 0 => Cardinality(ActiveRoots) <= QueueCapacity
    /\ \A p \in Runs : Cardinality(ActiveChildren(p)) <= MaxChildren

(* The stream of an Echo is closed only after its verdict is in its row.   *)
StreamClosesLast ==
    \A e \in finished : echoStatus[e] \in EchoTerminal

(* Terminal rows are final: no late completion, cancellation or recovery   *)
(* rewrites the outcome of an Echo or of a Run, and no Run changes hands.  *)
TerminalIsFinal ==
    [][/\ \A e \in Echoes : echoStatus[e] \in EchoTerminal =>
                                echoStatus'[e] = echoStatus[e]
       /\ \A r \in Runs : /\ runStatus[r] \in RunTerminal =>
                                runStatus'[r] = runStatus[r]
                          /\ lease[r] # NoWorker =>
                                lease'[r] \in {lease[r], NoWorker}]_vars

(* The stream of a terminal Echo does get closed: once nothing that is     *)
(* registered belongs to the Echo and no Cancel of it is half done, nobody *)
(* is left to close it. The one excuse is a read of the ended Echo that    *)
(* failed (scheduler.go:298): its stream stays open as long as the process *)
(* lives, unless another Run or Cancel of the Echo reads it once more.     *)
StreamCloses ==
    \A e \in Echoes :
        /\ echoStatus[e] \in EchoTerminal /\ mode = "up"
        /\ canceling[e] = "no"
        /\ \A w \in Workers : pc[w] \in Registered => runEcho[job[w]] # e
        => e \in finished \union missed

(* The stream of an Echo ends with the Echo: not before it, and not never  *)
(* unless the store could not say at the time that the Echo had ended.     *)
StreamEndsWithEcho == StreamClosesLast /\ StreamCloses

(* Every accepted Echo ends, over crashes and shutdowns; and every Run     *)
(* does, a child whose root has ended before it included. The one excuse   *)
(* is a start that the left-over rows make impossible (RestartCommits).    *)
StartRefused == mode = "down" /\ ~RecoveryCommits

EchoSettles ==
    \A e \in Echoes : (echoStatus[e] = "running") ~>
                      (echoStatus[e] \in EchoTerminal \/ StartRefused)
RunSettles ==
    \A r \in Runs : (runStatus[r] \in RunActive) ~>
                    (runStatus[r] \in RunTerminal \/ StartRefused)
EverythingSettles == EchoSettles /\ RunSettles

(* scheduler.go:137: Recover settles the Runs left over and starts the     *)
(* workers. The code refuses to start when a child Run outlives its Echo.  *)
RestartCommits == mode = "down" => RecoveryCommits

(* orchestrator.go:420: a cancelled context must not end in a retry.       *)
CancelledNotRetried ==
    [][\A w \in Workers : verdict[w] = "none" /\ verdict'[w] = "retry" =>
                              ~stopReq[w]]_vars
=============================================================================
