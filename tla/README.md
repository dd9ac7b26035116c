# Verification of AI-Luo-Man-ga

TLA+ modules, TLC configurations and TLAPS proofs for the Go service in `src/`, its
package manager and the packages it ships. Paths below are relative to `src/`. The
modules are written from the code; where a document or a comment and the code
disagree, the modules follow the code and the disagreement is listed under
*Findings*. Every definition that models code is tied to its lines in PROJECT.json
(`map`), every hazard to the properties about it (`hazards`).

Run from this directory:

    tlc -workers 2 -config MCEchoRun_one.cfg MCEchoRun
    tlc -workers 2 -config MCComponents_components.cfg MCComponents
    tlc -workers 2 -config MCProgress_progress.cfg MCProgress
    tlapm AccessProofs.tla

## 1. The system

One process serves one App. A user's message becomes an **Echo** (what the user
sees: one answer, one event stream) and a **Run** (one attempt of an executor to
produce that answer). An executor is a guest: a process or a WebAssembly module that
the loader starts from an installed package. It calls **Capabilities**, which other
guests or the kernel provide. Everything durable is in one SQLite database reached
through a single connection, so each store operation is one serial transaction;
everything between two store operations interleaves. Packages lie in an install root
on disk, which the package manager, another process, writes.

| Part | State | Operations | Hard behaviour |
|---|---|---|---|
| Echo/Run engine, child Runs (`internal/kernel/echo`, `childrun`, `storage/sqlite/echo_store.go`) | rows of `echoes`, `runs`, `echo_events`, `capability_audit`; the scheduler's `active` map; per worker a stream, a context, a lease renewal | create, claim, advance, retry, complete, cancel, shut down, recover | workers racing for a Run, Cancel in two steps, retry after an effect, crash between two transactions, stale batches |
| Executor protocol and agent (`executor`, `packages/agent`) | sequence numbers, budgets and text on both sides of one stream | turn, delta, call, result, failure | both sides counting alike; a turn asked for again |
| Event hub and streams (`access/eventhub.go`, `web/chat.go`, `web/server.go`, `qq/qq.go`) | subscriber channels | subscribe, read the log, publish, finish | hand-over from persisted to live events, slow subscribers |
| Intake (`access/hub.go`, `ingress`, `qq`, `kernel/identity`, `session`) | users, bindings, sessions, messages | provision, resolve, ensure the Session, store, create the Echo, operator commands | redelivery and commands between the statements of one intake |
| QQ manager (`access/qq/manager.go`) | settings row, one runner, status | update, replace, stop, report | a stop that times out, late reports |
| Task scheduler (`kernel/task`, `task_store.go`) | `tasks` rows, `executions` map, slots | create, claim, renew, complete, fail, retry, cancel, recover | leases that expire under a running handler, cancel racing completion |
| Governed calls (`kernel/runtime`, `idempotency`, `confirmation`) | `idempotency_records`, `confirmations` | begin, complete, replay, wait, decide, revoke, expire | an owner whose lease ends between effect and record |
| Loader (`kernel/loader`) | entries, leases, package groups and their generations | acquire, load, upgrade, unload, recover, shut down | a runtime replaced or stopped in the middle of a call |
| Process host (`loader/processhost`), runtime host (`runtimehost`) | processes and their watchers; guests and the calls in them | load, stop, close, exit; describe, start, invoke, stop | exits racing Stop and Close; calls the client has given up |
| Package documents and campus apps (`kernel/packstore`, `guestkit`, `packages/*/app`) | documents with revisions | replace a snapshot, put, list by page; book, cancel, import a timetable | reads of many pages, writes of many documents, without a transaction |
| Weather package (`packages/weather/src`) | cache, token buckets, retries | invoke, fetch, merge, expire | several clocks in one answer; calls sharing a quota |
| Service (`app/*`, `main.go`, `controlplane/config`) | settings with a revision, a notice, the running core | save, start the core, end it, show its status | a save while the core starts, fails or ends |
| Package manager (`package-manager`, `contracts/pkg/packageio`) | install root, backups, lock file, journal | install, upgrade, uninstall, sync, resolve | death between renames, a Core reading the same root |

## 2. Modules

`X` is the model of a component, `XProofs` (or the name given) holds its theorems, `MCX`
its instance for TLC. The components that do not share state with one another are
instantiated together: `MCComponents` for safety, `MCProgress` for the ones with
liveness. One behaviour of these picks one component (`focus`) and runs it alone,
so that the states of the run are the sum of the components' states, not the product.

| Module | What it is | Proofs |
|---|---|---|
| `EchoRun`, `EchoRunInv`, `EchoContract` | the engine; its inductive invariant `IInv` and the refinement mapping; what a client is promised about an Echo | `EchoRunProofs`, `EchoContractProofs` |
| `TaskScheduler`, `TaskSchedulerInv`, `TaskContract` | the durable task queue; its inductive invariant and refinement mapping; what its users are promised about a task | `TaskSchedulerProofs` |
| `GovernedCall`, `CallContract` | a Capability call with an effect: confirmation, idempotency record, handler, replay, waiting; what an operation and its callers are promised | `AgentProofs` |
| `EventStream` | one Echo's event log, the hub, and the SSE, chat and QQ streams that follow it | `AccessProofs` |
| `AccessIntake` | from a platform message to an Echo, beside redeliveries and operator commands | `AccessProofs` |
| `QQManager` | settings, runners and status of the QQ adapter | `AccessProofs` |
| `Loader` | entries, leases, upgrades, unloading, recovery, shutdown | `RuntimeProofs` |
| `ProcessHost` | the processes of isolated runtimes and who accounts for their exit | `RuntimeProofs` |
| `RuntimeHost` | the server side of a guest: lifecycle calls, invocations, abandoned calls | `RuntimeProofs` |
| `AgentStream` | one Run between provider, agent and engine: frames, budgets, turns | `AgentProofs` |
| `PackageStore` | documents of one package, snapshots, paged reads | `PackageProofs` |
| `Bookings`, `Timetable` | the writing operations of the campus apps | `CampusProofs` |
| `Weather` | providers, cache, limiter, retries, merging | `CampusProofs` |
| `ServiceControl` | main loop, settings page, core | `AccessProofs` |
| `PackageInstall` | install, upgrade, uninstall over a root with backups | `PackageProofs` |
| `ProjectSync` | the transaction of `ailuo-pm sync` under its journal | `PackageProofs` |
| `DependencyResolve` | the passes of the resolver | `PackageProofs` |

How they meet. `CapabilityCall` of `EchoRun` is one step of which `GovernedCall` is the
detail; the stream of a worker in `EchoRun` is the sequence of frames of `AgentStream`;
the Echo that `AccessIntake` asks for is created by `EchoRun`; the engine of
`EventStream` is what a stream sees of `EchoRun`: one publisher, no event behind a terminal one
(`CompletedIsLast`), a terminal row, a Finish;
a runtime of `Loader` is a number that `ProcessHost` and `RuntimeHost` bring to life; the
recovery of the install root in `PackageInstall` is done by every catalogue read, hence by
every load. They are checked apart because no variable is shared.

### EchoRun and the code

Variables of the first group are columns of the database and survive a crash;
those of the second are memory of the process. A worker's `pc` names the place
between two store operations:

| `pc` | code | actions that leave it |
|---|---|---|
| `idle` | `worker`, top of `runNext` | `ListRunnable` (`Runnable`, `ListRunnableRuns`, `failQueuedRun`) |
| `listed` | `runNext` under `activeMu` | `PickRun` |
| `claim` | `RunQueued` | `ClaimRun` |
| `prepare` | `executeClaimedRun` up to the assembled context | `Prepare` |
| `context` | `SetRunContext` and `run.context` | `FixContext` |
| `open` | `executor.Run`, StartRun frame, `run.started` | `OpenStream` |
| `stream` | the receive loop | `CapabilityCall`, `TerminalFrame`, `StreamSucceeded`, `StreamFailed`, `StreamBroken`, `StreamEnded` |
| `settle` | `completeRun` or `retryRun` | `CompleteRun`, `RetryRun` |
| `release` | end of `runNext` | `ReleaseJob` |

`Scheduler.Cancel` is two actions, `CancelQueuedRun` (the transaction) and
`CancelActive` (the registered jobs), because other steps come between them. Whoever leaves
an Echo last, `ReleaseJob` or `CancelActive`, reads it and closes its stream when it has ended
(`FinishIfTerminal`); with `StoreFaults` the read may fail, then nothing is closed and nothing
repeats it (`scheduler.go:298`), which `missed` remembers.
`BeginShutdown` and `FinishShutdown` are the two halves of `shutdown`; `Crash` may
happen at any moment and also stands for a shutdown that runs out of time;
`Recover` is `FailAbandonedRuns` and the start of the workers.

Data is reduced to what the properties tell apart: an error is retryable or not, a
Capability is `safe`, `unsafe` or `child`, a context is live, cancelled or expired.
Time is a choice: a deadline passes, or a renewal fails, at any moment at which it
can. An executor may send anything; what breaks the protocol is `StreamBroken`.

### TaskScheduler and the code

A claim of a task is identified by a token, which stands for the lease token the
store draws (`ClaimTask`) and for the goroutine that executes the claim. The rows
survive a crash; `executions`, the semaphores, the goroutines and the context
flags do not.

| Code | Actions |
|---|---|
| `Create` | `Create`; the idempotent repetition changes nothing |
| `pollLoop`, `poll` | `ListDue`, `PassOver`, `Claim` (slots, then `ClaimTask`), `ClaimLost`, `LoopEnds` |
| `dispatch` | `Dispatch`, `DispatchLate` |
| `recoverDeadTasks` | `ListDead`, `RecoverOne` |
| `execute`, `finishExecution` | `Arm`, `Check`, `HandlerReturns`, `Write`, `Cleanup` |
| `renewLease` | `Renew`, `RenewFails` |
| `Cancel` | `CancelQueuedTask` / `CancelMisses`, `CancelLookup`, `CancelFlag`, `CancelSignal`: the flag and the lookup of the cancel function are apart |
| `Shutdown`, start | `BeginShutdown`, `FinishShutdown`, `ForceShutdown`, `ExitForced`, `Start`, and `Crash` at any time |

Time is reduced to events: a task becomes due, its deadline passes, a lease runs
out. With `StoreFaults` a statement may fail without effect or commit although the
caller is told that it failed.

### GovernedCall and the code

One model goroutine per call (`pc`), one row per operation. An operation is a key
and a Capability version because the scope of a record contains the version
(`dispatcher.go:254`); a key stands for everything a confirmation is bound to.

| `pc` | code | actions that leave it |
|---|---|---|
| `new` | `route` up to the decision on confirmation | `Admit`, `Refuse` |
| `admitted` | `VerifyConfirmation` | `Verify` |
| `verified` | `childRequest`, then the INSERT of `BeginIdempotent` | `Insert`, `Refuse` |
| `inserted` | the SELECT of `BeginIdempotent` | `ReadBack` |
| `waiting` | `replayOrWait` | `Poll`, `GiveUp` |
| `running` | the handler | `HandlerReturns` |
| `completing` | `CompleteIdempotent` | `Complete` |

INSERT and SELECT of `BeginIdempotent` are two statements under the caller's
context, therefore two steps. `completed_at` is read in `HandlerReturns` and compared
with the lease in `Complete` (`inTime`). `Restart` loses the calls in progress,
leaves the rows as they are (no start-up code looks at them) and may bring the
Capability in another version. The statements of the confirmation service are one
action each; `Decide`, `Revoke` and the sweep compare the expiry with a clock that
was read before, hence they may hit a row that has just expired. In the present
program only the verification and the sweep have callers; the other operations are
modelled as the exported interface they are. Calls that need no idempotency key go
straight to the handler and are not modelled.

### The other components and the code

- **`EventStream`**. `emitEvent` is `PersistEvent` and `PublishEvent`; the hub's slow-subscriber
  rule is in `PublishEvent`, `Finish` in `FinishStreams`; when the scheduler could not read the
  ended Echo, `FinishIsMissed`, and a later Cancel may still finish (`FinishLater`). A stream subscribes, reads the Echo
  (`GetEcho` is two SELECTs: `ReadRow`, `ReadEvents`) and goes on with its channel
  (`ReceiveEvent`, `ChannelCloses`). The three kinds of stream differ in `StopsAfterReplay`
  and in what `ReceiveEvent` takes for the end.
- **`AccessIntake`**. A worker is at one of five places (provision, resolve, session, message,
  echo), each one transaction; `Operate` is the commands that add, disable, bind and
  unbind users. A delivery is a platform, a sender, a key and a text; two
  deliveries may have one key.
- **`QQManager`**. An operation holds `operationMu` and goes through its places (`Replace`,
  `AwaitOld`, `StopTimesOut`, `StartRunner`); a runner is what `Adapter.Run` does with its
  connection, and its reports carry the generation it was started with.
- **`Loader`**. Each lock section is a step: `AskRuntime` reads `accepting`, `SeeEntry` looks at
  the entry, `BeginLoad` and `EndLoad` enclose the host's load, `TakeLease` takes the lease.
  `BeginUpgrade`, `LoadCandidate`, `Switch` and `StopCandidates` are `UpgradePackage`;
  `MemberDrained` and `StopMember` the release of a retired group; `ShutdownBegins` to
  `ShutdownEnds` are `Shutdown`, one component after the other.
- **`ProcessHost`**. The mutex of a runtime is held for a whole Stop or forced close, while its
  process, the goroutine that waits for it and `CloseHost` go on. What a host has struck off,
  and whom it told of an exit, are the state.
- **`RuntimeHost`**. A lifecycle call and the handler that serves it are apart, because the
  client may give the call up (`Abandonable`, in the run every call) while the handler goes
  on, and another handler of the same runtime comes in beside it; an entry counts the calls in
  the guest, and a Stop begins only without them (`MayStop`). `MarkUnhealthy` sets an entry to
  failed whatever another handler is doing with it; `overwritten` remembers that.
- **`AgentStream`**. The provider streams turns, the agent turns them into numbered frames
  (`AgentOutput`), the engine takes them one by one or refuses them (`Take...`,
  `RefuseFrame`, `Refusal`). Both keep the sequence, the calls, the units, the cost and the
  output bytes. Of the content of a frame the model has what the engine checks and the agent does
  not: arguments may be JSON to Python alone (`loose`: NaN and Infinity pass `json.loads`,
  `core.py:240`, and not `json.Valid`), and units and cost may be beyond what the protocol carries.
- **`PackageStore`**. `ReplaceSnapshot`, `PutDocument`, `DeleteDocument` are transactions; a guest
  reads page by page (`ReadPage`), and a page of another revision than the first is
  refused (`ReadRefused`).
- **`Bookings`, `Timetable`**. A call is a series of reads and writes of single documents, any of
  which may be its last. Several calls of one user run beside each other (`BookingCalls`,
  `TimetableCalls`): four workers (`scheduler.go:52`), an instance per call
  (`wasmhost/wasm_host.go:351`) and no lock in the store keep none apart. Time, other calls and
  failures come between any two steps. `Timetable` marks a table as `touched` when its
  user edits it and as `crossed` when a call writes it beside another that does.
- **`Weather`**. `LookUp` is the cache, `Attempt` a request with its token, `NextProvider` the
  change to another provider, `LastProvider` the merged answer. Time is a counter.
- **`ServiceControl`**. `ControlLoop` is the loop of `main.go` and `runtime.go` with the channel of
  one notice, `CoreStep` the start and stop of a core, `SaveSettings` the page.
- **`PackageInstall`, `ProjectSync`**. A rename is one step, the removal of a directory is two
  with a broken directory between them, and a process may die between any two steps.
  In `PackageInstall` a Core recovers the same root meanwhile, without the lock, and the
  read-back of an upgrade may fail; `bare` says that Core has removed the backup of the package
  under upgrade, `lost` which packages have gone because the read-back then failed.
- **`DependencyResolve`**. `NextRequirement` loads one release or takes it from the cache, `EndPass`
  compares the passes; releases are published between any two loads.

## 3. Runs

| Run | Instance | Shows |
|---|---|---|
| `one` | 1 Echo, 3 Runs, 2 workers, 1 call id, 2 attempts, 1 stop, faults of the store | the engine's safety properties, `RunningRunIsDriven`, and that `EchoRun` implements `EchoContract` |
| `live` | 1 Echo, 3 Runs, 1 worker, 2 attempts, 2 stops, under `FairSpec` | `EverythingSettles`: every Echo, Run and stream ends, over crashes, with children; `AnnouncedRunSucceeds` |
| `task_one` | 1 task, 3 attempts, 3 claims, 2 workers, 2 stops, faults, a type that a restart removes | one execution per attempt, a cancellation is seen, and that `TaskScheduler` implements `TaskContract` |
| `task_apps` | 2 tasks of one App with 1 slot, 2 workers, 3 claims | slots are given back, unsafe tasks run once |
| `call` | 3 calls on one key (two of one request under one confirmation, one of another request), 2 versions, 1 restart, faults | that `GovernedCall` implements `CallContract` (one effect, one outcome), answers that agree, approval, and `CallsEnd` |
| `components` | twelve components, see below | 15 safety properties |
| `progress` | event streams, service, loader and task queue, see below | 3 safety and 4 liveness properties |
| `restart_refused`, `cancelled_retry`, `task_reachable`, `chat_stream_ends`, `root_survives` | as small as possible | findings 1 to 5 |

`components`: 2 intake workers with 2 deliveries under one key, of a group and of a
private chat; 3 runners and generations of the QQ manager; 3 documents in pages of one, two
snapshots; each booking app with 2 calls at once, 3 documents, 2 slots, pages of one and a limit of 1; 2
calls at once on a timetable, imports of 2 courses, pages of one; an executor and a provider
process; 5 operations on two packages, one of which needs the other, with read-backs that fail, 1
death of the manager and a Core beside it, all in one behaviour; 4 syncs with 1 mishap; 3 packages
with up to 3 versions that need one another, from 32 registries; 2 turns and 2 Capability calls with
one provider retry and 2 attempts, no cost budget and costs on both sides of the protocol's bound; 2
guest calls and 2 lifecycle handlers of which the client may give up any; 2 weather calls over 2
units of time. Some 3.1 million states.

`progress`: 1 stream of any kind on an Echo with up to 3 events and a channel of one; 3 saves
and 1 kill; 2 callers of one component over 4 loads and 2 upgrades; 1 task with 2 claims and 2
stops.

Why these bounds suffice. *Engine*: two workers are enough for every race over one
Run (the steps of a worker touch its own job only); three Runs hold a retry and a
child, or a retried root with its child; one stop leaves rows behind and a second
start recovers them; two stops let a recovery be interrupted. Liveness is checked with one
worker, safety with two: what a second worker adds to progress is a second taker of
the same queue. Two Echoes share only the queue capacity, the workers and the
recovery transaction; no run has two, the theorems hold for any number. *Tasks*:
three claims let an old execution outlive its lease while the task is recovered,
claimed and recovered again; two workers let old and new execution overlap; two
stops let a recovered task be interrupted again; two tasks matter for slots only.
*Calls*: an owner and a waiter of one request, and a caller with other arguments,
meet at one row; nothing relates different keys but a confirmation, and the second
key is there so that a confirmation may be bound to another one; two versions and
one restart are the least in which the scope of a record changes. *Components*: two
of what competes (workers, runners that overlap and the one after them, calls, handlers),
one more document than a page holds so that a page boundary is crossed twice, a process
that dies once at any place and the operation that finds what it left, a buffer of one so
that it is full at once. One timetable is enough for the checks, because what calls on
different timetables share is the pointer and their number only; the theorem is for any number. *Streams*: streams do not meet, so that one is enough; the proof covers
any number. *Loader*: four loads are a first runtime, two upgrades and a reload.

Deadlock is not checked because every one of these systems may rest: its Echoes, tasks,
calls or operations have ended, the bound is used up, and no client asks for more.

Fairness. *Engine* (`Fairness` in `EchoRun`): weak fairness of the steps the program
takes on its own: goroutines are scheduled, each run context carries a deadline, a
request that has written its cancellation goes on to cancel the jobs, a stopped
process is started again. Nothing is assumed of the executor, of clients, crashes or
renewals. *Tasks*: goroutines are scheduled and handlers return; a lease
that nobody renews runs out; the process is started again. Listing due tasks and
listing dead ones are strongly fair, because `pollLoop` selects between the two
tickers at random, so neither is passed over for ever although each may be
disabled by the other. *Calls*: the goroutine of a call is scheduled, its handler returns,
the ticker of a waiter ticks, a lease of two minutes ends. No context has to end, and
`GiveUp` is not fair: `CallsEnd` holds although no caller loses patience. *Streams*: the engine
publishes, ends and finishes, and the goroutine of a stream is scheduled; clients need
not leave. *Service*: the loop is scheduled, a core comes up or stops when told to. *Loader*: calls
end and the goroutine that stops a retired runtime is scheduled; nothing is assumed of
loads, upgrades or Shutdown.

## 4. Findings

Violations that a run exhibits:

1. **A child Run that outlives its Echo makes every later start fail** (`restart_refused`).
   `CompleteRun` ends the Echo with its root Run whether or not children are running.
   After a crash `FailAbandonedRuns` tries to finalize that Echo, finds it terminal, returns
   `ErrInvalidTransition` and rolls back; the next start does the same.
2. **A cancelled Run can be retried** (`cancelled_retry`), against the comment
   at `internal/kernel/echo/orchestrator.go:420`: several early calls use the run
   context and report a retryable failure without looking at `runContext.Err()`.
3. **A running task can be out of Cancel's reach** (`task_reachable`). The deferred clean-up of
   `execute` deletes the entry of the task whichever execution it holds; a handler that
   outlives its lease deletes that of the execution which has replaced it, and `Cancel`
   finds nothing to cancel.
4. **A chat stream may never end** (`chat_stream_ends`). It subscribes after its Run was queued;
   when the Echo has ended without a terminal reply and the hub has finished before that,
   nobody closes the new channel and the row it has read is not looked at, against
   the comment at `internal/access/web/chat.go:160`. SSE and QQ do look (`StreamsEnd` holds).
5. **A sync can lose the old install root** (`root_survives`). Rollback renames the backup back
   while the journal still says that the root is backed up; a process that dies before the
   journal is gone makes the next recovery delete the root (`projectmgr/sync.go:781`)
   and look for a backup that is no longer there.

Seen while modelling; no run is devoted to them, and the properties are stated so that they
hold with them:

- `internal/kernel/echo/scheduler.go:298`: when the read of the Echo fails, `finishIfTerminal`
  returns without Finish and nobody repeats it: SSE streams that were live by then end only with
  their client or the process. `StreamEndsWithEcho` excuses such an Echo (`missed`) and
  `StreamsEnd` such a stream (`Stranded`); the runs reach both.
- `internal/kernel/runtimehost/grpc_server.go:337`: `markFailed` sets an entry to failed whatever its
  state. A Health that its client has given up and that comes late fails an entry which another
  handler is loading or stopping; the next Stop then gets in beside the first (line 255), and
  the later of the two takes the guest of the next life, or deletes the entry that counts its calls.
  `GuestsOutliveCalls` excuses what follows such a Health (`overwritten`); without the excuse TLC
  finds a call whose guest is closed. A Stop given up and late on its own does no such harm.
- Calls of one user do run beside each other, against `packages/classroom/app/app.go:170-171` and
  `packages/timetable/app/app.go:262-264`, which say that they come in order and that reading a
  quota before the write is therefore no problem. Quotas can be exceeded, by one for every further
  call (`OverbookingIsBounded`), a court can be booked and a booking put on the agenda twice.
- `packages/timetable/app/app.go:332, 353-366`: an activation that crosses the deletion of its
  timetable leaves the pointer on one that is gone. An import that crosses an update, a deletion or
  another import of its timetable may miss courses or keep some that are not its own, and a user
  may edit what was imported, against the comment at 547 that the document exists if and only if its
  courses are complete. `TimetablesAreWhole` names these cases (`crossed`, `touched`).
- `internal/kernel/task/scheduler.go:155`: the end of the drain cancels nothing, because `execute`
  derives its context with `context.WithoutCancel`.
- Child Runs are not counted against the queue capacity (`echo_store.go:205`), so that the number of
  queued and running Runs may exceed the 128 of `README.md:55`; the root Runs keep to it (`RootsFitTheQueue`).
- The version of a Capability is part of a record's scope but not of a confirmation: one
  effect per confirmation holds within one version.
- `internal/kernel/loader`: a caller past the check of `accepting` may load after Shutdown has
  drained and stopped the component; a process whose load is tracked after the host's
  Close took its list is not closed; a failed dial with a failed reap leaves a process nobody
  tracks (`processhost/process_host.go`).
- `packages/library/app/app.go:253`: whether a seat is free is read from the first page of the
  user's reservations, where the comment at 325 speaks of all. The model has it so (`CheckSeat`);
  a user may hold one seat twice within the quota, and no property says otherwise.
- `packages/agent/runtime/agent/runtime.py:225`: the sequence number is taken before the
  frame is validated, so that the RunFailure after a withheld frame is itself refused. An
  attempt that fails after it has shown output is followed by one that shows its own behind
  it, in the same event stream: `ReplyIsShownOnce` speaks of the attempt that succeeded.
- `packages/agent/runtime/agent/core.py:240`: `json.loads` takes NaN and Infinity, `json.dumps` writes
  them again and `runtime.py:467-470` looks at the length alone, so that the engine refuses the call
  (`internal/kernel/executor/protocol.go:191-198`) and the Run fails. The same happens to a usage
  whose cost exceeds the protocol's bound (`protocol.go:166-169`) in a Run without a cost budget: the
  agent checks the cost against a budget only. `FramesAreTaken` names both and the frame withheld.
- `package-manager/pkg/projectmgr/sync.go:280-292`: a pass that settles is followed by one that confirms
  it, so that a graph which settles in the last pass allowed is refused;
  `ResolvedClosureIsConsistent` is about what is accepted and does not tell. A manager that dies while it uninstalls leaves a directory that makes the
  listing of all packages fail (`contracts/pkg/packageio/installed.go:359`); one that dies in
  `writeLock` leaves `ailuo.lock.backup`.
- `package-manager/pkg/projectmgr/sync.go:1111`: when the removal of the journal's own backup
  fails after the journal with `committed` is in place, the sync rolls back a commit that
  the journal on disk already says is made. A second mishap in that rollback and a third in the next
  recovery leave root and lock of different generations: TLC finds `SyncIsAtomic` violated with
  `Mishaps = 3` and 4 syncs, and not with 2. `SyncStaysAtomic` has this as its hypothesis.
- `package-manager/pkg/packmgr/installer.go:196-197` says that a package never vanishes. While one
  is being upgraded, a Core that loads takes its backup for a left-over and removes it
  (`packageio/installed.go:352`); if reading back the new release then fails, it is removed, too,
  and nothing is left. The run has both in one behaviour; `InstalledStaysUsable` excuses the package
  this has happened to (`lost`), and what depends on it.
- `contracts/pkg/packagecontract/manifest.go:144`: a release may name its own package as a
  dependency. It is compared with the release it replaces and may thereafter not find itself in a
  version it accepts; `ClosureHolds` leaves out what a package requires of itself.
- `packages/weather/src`: the client is built with an empty `ClientConfig`, hence without the
  retries that `model.go` promises; a call to the automatic source turns its deadline into
  "no data".
- `internal/access/qq/manager.go:118`: after a stop that times out two runners are connected at
  once. The status stays that of the newer (`RunnerIsCurrent`).

## 5. Proofs

All theorems hold for every value of the constants that satisfies the named assumption of
the module (`ConstantsAssumption`, `TaskAssumption`, `CallAssumption`, `StreamAssumption`,
`QQAssumption` and so on). No module uses a RECURSIVE operator.

**Engine.** `EchoRunProofs` proves `Spec => []IInv`. None of the safety properties is
inductive alone: `EchoFollowsRoot` needs that a worker about to settle holds its row,
that in turn needs that no two workers have one job (`JobsInv`) and that a running row
carries its token (`RowInv`); `NoRetryAfterEffect` needs that `automaticRetrySafe`,
while TRUE, is never more optimistic than the rows (`WorkerInv`), and that a Run that
is queued or not yet streaming has had no effect. `AttemptsInv` orders the attempts of
one root. The proof has one lemma per transaction for the rows (`...Rows`) and one
per action for the workers (`...Sched`), joined by `StepInv`. `EchoContractProofs` adds
`TerminalRowsAreFinal` (an action property), `EngineKeepsContract`, the refinement (each
action maps to `Accept`, `TakeEffect`, `TryAgain`, `Close` or a stutter), and the rest of the run's
safety: `AttemptsStaySerial`, `RunningRunsStayDriven`, `AnnouncedRunsSucceed`, and
`StreamsEndWithEchoes`, for which an invariant says who will still close the stream, unless
the read of the ended Echo has failed (`missed`).
`CompletedStaysLast`: a Run that was announced is the last attempt of its root, and no worker executes
it or is about to queue another (`LastWord`); this holds over faults and restarts, where
`AnnouncedRunSucceeds` makes no claim. `RootsFitTheQueue` is a theorem only, no run has the property: a step
accepts an Echo, puts an attempt in the place of another, adds a child, or ends Runs
(`QueueMove`), and the count of active root Runs follows.

**Tasks.** `TaskInv` relates rows, claims, the poll loop and the slots: a running row,
and no other, carries the token of the claim of its present attempt (`RowInv`); a
claim is of an attempt the row has reached, and of one it has passed when the row
waits (`ClaimInv`), which is why an old execution can write nothing; the slots in
use are the number of claims in hand. The proof splits every step into what it does
to the rows and what it does to the slots, so that each action is looked at once
for either. From it follow `SlotsBalance`, `AttemptsAreRunOnce`, `UnsafeTasksRunOnce`,
`SuccessIsEarned`, `CancelReachesExecution` and the action property `EndedTasksStay`.
`TasksKeepContract` is the refinement of `TaskContract` under the mapping at the end of
`TaskSchedulerInv`: queued and retrying rows wait, a row's attempt is its try, a token whose handler
was started is an execution handed out, and a task is asked to stop while an execution of
it is flagged. Every step is first reduced to one of few things that may happen to what
is watched (`WatchedSteps`), and each of these to a step of the contract (`MovedMaps`). A
shutdown and a crash forget the flags (`Forget`) and nothing else. Beyond `TaskInv` it needs that
what is about to be recorded as cancelled carries a flag (`FlagPart`). The contract implies
`EndedTasksStay` and `SuccessIsEarned`, which are therefore theorems and no properties of a run.

**Governed calls** (`AgentProofs`). `CallInv` says that a row exists exactly when it has an owner, that
the owner is past its INSERT (`RowPart`), and that a call whose handler was started
owns the row of its operation for good (`CallPart`): two such calls of one operation
are therefore the same call, which is `EffectOnce`. `AnswersAgree` is carried along, as
it is only inductive together with the fact that a row which has ended says what its
owner's handler returned; `ConfirmedPart` keeps the approval from the verification to
the handler's start and beyond. Steps that touch no row are handled together
(`Quiet`), the INSERT, the start, the end and the completion one by one. `CallsKeepContract` is
the refinement of `CallContract` under the mapping at the end of `GovernedCall`: the read-back
that finds the call's own row maps to `Perform`, the handler's return to `Return`, a completion
that hits its row to `Conclude`, a replay to `Tell`, and whatever else happens, a restart and a
lapsed lease included, to a stutter. What it needs beyond `CallInv` is that nothing has returned to a
call which still waits (`ReturnPart`). The contract implies `EffectOnce`, which is therefore
a theorem and no property of the run; it says nothing of the version a repeated call asks for, which
`AnswersAgree` does.

**Access** (`AccessProofs`). *Streams*: while a stream follows its Echo, its channel holds
consecutive numbers `b+1, b+2, ...` that end with the last event published, unless the hub has
cut the stream off, and `b` is not beyond what the stream has written (`ChannelOk`); a
terminal event is the last of the log (`LogPart`). So the number a stream takes from its channel
is the next one or an old one, and one that ends by itself has come to the end of the
log: `StreamsAreGapless`. *Intake*: what a worker has read stays true, because rows are only
added and nobody is enabled again: `EchoesAreOfTheirMessages`, `DisabledStayOut`. `IntakeTypesHold` adds that a key has one
message and one Echo however often it is delivered, which takes that whoever joined, joined as a
member of a Session that a delivery can name (`IntakeShape`). *QQ*: a
runner is the manager's own or has been told to stop, and only one that was told to returns:
`RunnerStaysCurrent`.

**Runtimes** (`RuntimeProofs`). `ExitsStayAccounted` of the process host; `GuestsStayOpen` of the
runtime host: while no late Health has overwritten an entry, each entry in a passing state has the one
handler that holds it (`Holding`, `OneHolds`), what is about to be closed serves nobody
(`NoneIsClosed`), and the count is that of the calls under way; once one has, nothing is
claimed but `HostTypesHold`: whichever calls the client gives up, the slots taken are the calls
that hold one, never more than there are, and an entry counts no call twice (`HostBounds`).
`CallsStayServed` of the loader: a lease is on what its component serves, or on a member of a
group that an upgrade retired (`LeasePart`); the counts of both are those of the calls
(`CountsPart`), which takes that no two generations of a component are the same
(`GenerationPart`); a group waits for its members in use and for the callers that have not told
it yet, and is stopped when it waits for none (`DrainPart`); and since no runtime serves in two
places (`DistinctPart`), what is stopped for one reason serves no other call.

**Service** (also in `AccessProofs`). `ChangesAreSeen`: the loop rests only on settings for which there is
no notice and none is missing.

**Campus apps** (`CampusProofs`). `TimetablesStayWhole`: what an import has written and what it has left
to write make up the import (`ImportOk`), a call that is to point at a timetable finds it there
(`PointOk`), and two calls clash only on a timetable that is remembered as `crossed` (`ClashPart`).
`OverbookingStaysBounded`: for every n from the limit on, what counts and the calls that may still find
less than n are together fewer than n and the number of calls (`MarginPart`); the limit alone is not
inductive, because bookings may end after a listing has passed over them. `QuotasHold`: what a
provider was sent and may still be sent fits its quota as of when its bucket was last filled.
`AnswersStayFresh`: what a handler holds is valid as long as it says, and asked again before it
answers; it assumes of the lifetimes that there is one for every capability. `WeatherTypesHold` has
the bounds (`BoundsInv`): the retries of a request, the tokens of a bucket, and the cache, whose
order names each key once, so that an eviction takes a key with it and the capacity holds.

**Agent's stream** (`AgentProofs`). `StreamAgrees` and `RepliesAreShownOnce` come from one invariant,
`AgentInv`: while the engine receives (`UnderWay`), the frames in the channel are numbered on from
what it expects (`Numbered`) and have one of few shapes: first the acceptance and k chunks of the
turn, then a report of usage, then at most one call, reply or failure (`Chunked(k)`, `Ending`).
With k the two counts of output differ by just what is under way, and so do the text of the turn
and what was shown of it; the calls differ by the one that was asked for last (`Counted`). The
agent keeps the budgets, and what it counts is never below what the engine has (`Budgeted`). There
is one lemma per frame for sending it and one for taking it, and the channel moves up alike in all
of them (`...MovesUp`). The number of times a chunk was shown is the cardinality of a set of
positions (`Times`) and not a fold, which would take an induction over data. Once the engine no
longer receives, the agent has ended and sends nothing more. `AgentTypesHold` are the budgets for
every value of the limits: no Run asks a provider more often, takes more turns, writes more or is
attempted more often than it may, on either side of the stream, and one result at most is under
way to the agent.

**Packages** (`PackageProofs`).

- *Sync.* Every point at which a sync can die has its own description of root, backup, lock and
  journal (`WhereSyncing` forward, `WhereClearing` backward), but a death leaves only the journal. So the
  centre of `SyncInv` is what each phase on disk promises to the sync that reads it next
  (`JournalHolds`): which of the two roots the lock, or its copy, describes. The promise fails in just
  one state, a rollback under a journal that says `committed` (section 4). `SyncStaysAtomic` assumes
  that nothing goes wrong there (`UndoUndisturbed`); `AtomicThroughOneMishap` needs no such
  assumption when there is at most one mishap, because that one has led into the state.
- *Installer.* `InstallInv` carries for each point of an operation what its checks have established
  (`InstallPoint`): the root is closed with the new release in the place of the old (`Before`), and with
  the old one while it may have to be put back and has a backup (`bare` otherwise). A removal of a backup may be cut off because the
  package is whole in its directory (`BrokenIsSpare`). `InstalledStays` has no hypothesis; the
  packages it excuses (`lost`) are explained in section 4.
- *Documents.* `PagesAreOneRead`: a reader has all the documents up to its cursor that it had to
  return and, in the system scope, exactly what its revision has up to there. A next page is only
  taken from the same revision, and the system scope holds what the current snapshot does. That a page
  holds the first so many documents behind the cursor, in order, is proved of the sorting by rank
  (`RankIn`) without induction over the page.
- *Resolver.* `ResolvedIsClosure`: what the project and each loaded package requires has been
  recorded or is still in the queue (`Heard`), and the version loaded accepts all that is recorded of
  its package (`PassInv`); when the queue is empty, this is the property. A package is taken up again
  as soon as a constraint is recorded for it (`processed = required` while a pass is under way), and
  the cache answers only for the constraints and the lock it was asked for (`CacheInv`). The
  order in which requirements come into the queue is that of an arbitrary listing of a set; the
  lemmas about it (`ListRest`, `ListJoined`) say what the rest and the joining of such lists hold. Under a
  lock that is a closure, all that is required or loaded is what the lock has (`LockInv`).

**Types.** The type invariant of a component is a theorem, too, free of the hypotheses above and with
the bounds the code promises among the types: `TypesHold`, `TaskTypesHold`, `CallTypesHold` and one
`...TypesHold` for each component of `components`. None of them is a property of a run. Of the event
streams and the service the types are a part of the invariant proved (`StreamInvariant`,
`ControlInv`), of the loader the shape of its records (`LoaderTypeOK` in `LoaderInv`).

Only model-checked. Liveness (`EverythingSettles`, `TaskSettles`, `CallsEnd`, `StreamsEnd`,
`SettingsTakeEffect`, `RetiredAreStopped`) is out of the prover's reach. The state in
which `SyncStaysAtomic` has its hypothesis is explored by TLC only.

## 6. Not modelled

- *Authorization, context assembly*: pure decisions over one request or one history, without
  state; a model would repeat their conditions. Their outcome is a choice where they are called.
- *Blob store*: content-addressed files written by rename; a second writer writes the same.
- *Build and SDK generation, generated protocol code, observability*: no decision, no protocol.
- Of the engine: grants, trace contexts and the clocks behind deadlines and leases. Of the
  dispatcher: calls without an idempotency key. Of access: authentication, direct
  invocation, the OneBot wire format, pokes and reply rules. Of sessions: content references,
  archiving, history. Of the control plane: validation and pages. Of the service: the wiring
  inside `runCore`, which is one step. Of the package manager: packing, hashing, signatures,
  the parsing of versions and manifests. Of the packages: queries over one imported
  snapshot, prompts and the conversion of providers' answers.
- Redirects of the weather client (`wx/http.go:85-92`): one attempt may be redirected on the same origin,
  so that one token can cover up to three requests; `Weather` counts attempts.
- A second import of one `source_revision` with other documents (`sqlite/packstore.go:267-275`): in
  `PackageStore` a revision names its documents.
- A bound on waiting (a task behind tasks of a full App, `scheduler.go:220`) takes a model with
  time; `TaskSettles` shows only that the wait ends.

What could come next: the engine as the source of `EventStream` by way of a contract between the two, as
both know an Echo's events and its end; a bound on waiting, in a model with time; and run.failed
in the events of `EchoRun`, which records run.completed alone.
