------------------------------ MODULE QQManager ------------------------------
(* The manager of the QQ adapter: settings in a row with a generation,      *)
(* operations serialised by operationMu, and one connection loop (a runner) *)
(* at a time, which reports to the status under the generation it was       *)
(* started with.  A runner that is stopped takes its time, and the manager  *)
(* waits for it no longer than stopTimeout.                                 *)
EXTENDS Naturals, FiniteSets

CONSTANTS
    QQRunners,      \* adapters that may ever be started; bounds their number
    NoRunner,
    QQContents,     \* contents of the settings other than the generation
    QQOff,          \* the one of them that is not enabled
    MaxGeneration   \* bound of the generation

ASSUME QQAssumption ==
    /\ NoRunner \notin QQRunners /\ QQOff \in QQContents
    /\ MaxGeneration \in Nat \ {0}

VARIABLES
    qqRow,       \* [generation, content] in qq_access_settings
    qqSettings,  \* the same in memory, generation 0 before Start
    qqStarted,   \* Manager.started
    qqStatus,    \* [running, connected]
    qqCancel,    \* the runner that cancel and done belong to
    qqOperation, \* what holds operationMu: none | replace | await | start | drain
    qqOld,       \* the runner it waits for
    runnerAt,    \* none | dialling | connected | backoff | returned | done
    runnerOf,    \* the generation a runner was started with
    cancelled    \* runners whose context has ended

qqMemory == <<qqSettings, qqStarted, qqCancel>>
runnerVars == <<runnerAt, runnerOf, cancelled>>
qqVars == <<qqRow, qqMemory, qqStatus, qqOperation, qqOld, runnerVars>>

Down == [running |-> FALSE, connected |-> FALSE]
Settings == [generation : 0..MaxGeneration, content : QQContents]

QQInit ==
    /\ qqRow = [generation |-> 0, content |-> QQOff]
    /\ qqSettings = qqRow
    /\ qqStarted = FALSE /\ qqStatus = Down /\ qqCancel = NoRunner
    /\ qqOperation = "none" /\ qqOld = NoRunner
    /\ runnerAt = [r \in QQRunners |-> "none"]
    /\ runnerOf = [r \in QQRunners |-> 0]
    /\ cancelled = {}

-----------------------------------------------------------------------------
(* Operations *)

\* Start: EnsureQQSettings inserts the seed when there is no row yet.
StartManager(seed) ==
    /\ ~qqStarted /\ qqOperation = "none" /\ qqSettings.generation = 0
    /\ qqRow' = IF qqRow.generation = 0 THEN [generation |-> 1, content |-> seed] ELSE qqRow
    /\ qqStarted' = TRUE /\ qqOperation' = "replace"
    /\ UNCHANGED <<qqSettings, qqCancel, qqStatus, qqOld, runnerVars>>

\* CompareAndSwapQQSettings: equal content keeps the generation.
Swapped(content) ==
    IF content = qqRow.content THEN qqRow
    ELSE [generation |-> qqRow.generation + 1, content |-> content]

\* Update, up to the store; another generation is a conflict and no change.
UpdateSettings(expected, content) ==
    /\ qqStarted /\ qqOperation = "none"
    /\ expected = qqRow.generation /\ expected < MaxGeneration
    /\ qqRow' = Swapped(content)
    /\ qqOperation' = "replace"
    /\ UNCHANGED <<qqMemory, qqStatus, qqOld, runnerVars>>

\* Mutant of TakeDown: the runner is forgotten and goes on.
TakeDownUncancelled ==
    /\ qqCancel' = NoRunner /\ qqOld' = qqCancel /\ qqStatus' = Down
    /\ UNCHANGED cancelled

\* replaceLocked up to the wait; stopping is the same without new settings.
TakeDown ==
    /\ qqCancel' = NoRunner /\ qqOld' = qqCancel /\ qqStatus' = Down
    /\ cancelled' = cancelled \union ({qqCancel} \ {NoRunner})

Replace ==
    /\ qqOperation = "replace" /\ TakeDown
    /\ qqSettings' = qqRow
    /\ qqOperation' = "await"
    /\ UNCHANGED <<qqRow, qqStarted, runnerAt, runnerOf>>

Shutdown ==
    /\ qqStarted /\ qqOperation = "none" /\ TakeDown
    /\ qqStarted' = FALSE
    /\ qqOperation' = "drain"
    /\ UNCHANGED <<qqRow, qqSettings, runnerAt, runnerOf>>

OldIsDone == qqOld \in QQRunners => runnerAt[qqOld] = "done"

AwaitOld ==
    /\ qqOperation \in {"await", "drain"} /\ OldIsDone
    /\ qqOperation' = IF qqOperation = "await" THEN "start" ELSE "none"
    /\ UNCHANGED <<qqRow, qqMemory, qqStatus, qqOld, runnerVars>>

\* stopTimeout: the operation fails, and nobody waits for that runner again.
StopTimesOut ==
    /\ qqOperation \in {"await", "drain"} /\ ~OldIsDone
    /\ qqOperation' = "none"
    /\ UNCHANGED <<qqRow, qqMemory, qqStatus, qqOld, runnerVars>>

\* The rest of replaceLocked.
StartRunner(r) ==
    /\ qqOperation = "start" /\ qqSettings.content # QQOff
    /\ runnerAt[r] = "none"
    /\ runnerAt' = [runnerAt EXCEPT ![r] = "dialling"]
    /\ runnerOf' = [runnerOf EXCEPT ![r] = qqSettings.generation]
    /\ qqCancel' = r /\ qqStatus' = [qqStatus EXCEPT !.running = TRUE]
    /\ qqOperation' = "none"
    /\ UNCHANGED <<qqRow, qqSettings, qqStarted, qqOld, cancelled>>

\* Not enabled, or the factory refuses the settings.
StartNone ==
    /\ qqOperation = "start"
    /\ qqOperation' = "none"
    /\ UNCHANGED <<qqRow, qqMemory, qqStatus, qqOld, runnerVars>>

-----------------------------------------------------------------------------
(* A runner: Adapter.Run and serve *)

Reports(r) == qqSettings.generation = runnerOf[r]

Report(r, status) ==
    qqStatus' = IF Reports(r) THEN status ELSE qqStatus

Moves(r, from, to) ==
    /\ runnerAt[r] = from
    /\ runnerAt' = [runnerAt EXCEPT ![r] = to]
    /\ UNCHANGED <<qqRow, qqMemory, qqOperation, qqOld, runnerOf, cancelled>>

\* A dial that has succeeded reports even when it has been cancelled meanwhile.
Connect(r) ==
    Moves(r, "dialling", "connected") /\ Report(r, [qqStatus EXCEPT !.connected = TRUE])

Interrupted(r) == IF r \in cancelled THEN "returned" ELSE "backoff"

DialFails(r) == Moves(r, "dialling", Interrupted(r)) /\ UNCHANGED qqStatus

Disconnect(r) ==
    /\ Moves(r, "connected", Interrupted(r))
    /\ Report(r, [qqStatus EXCEPT !.connected = FALSE])

Reconnect(r) ==
    Moves(r, "backoff", IF r \in cancelled THEN "returned" ELSE "dialling") /\ UNCHANGED qqStatus

RunnerEnds(r) == Moves(r, "returned", "done") /\ Report(r, Down)

RunnerStep(r) ==
    Connect(r) \/ DialFails(r) \/ Disconnect(r) \/ Reconnect(r) \/ RunnerEnds(r)

-----------------------------------------------------------------------------
QQNext ==
    \/ \E content \in QQContents :
          StartManager(content) \/ \E g \in 1..MaxGeneration : UpdateSettings(g, content)
    \/ Replace \/ Shutdown \/ AwaitOld \/ StopTimesOut \/ StartNone
    \/ \E r \in QQRunners : StartRunner(r) \/ RunnerStep(r)

QQSpec == QQInit /\ [][QQNext]_qqVars

-----------------------------------------------------------------------------
(* Properties *)

Alive(r) == runnerAt[r] \notin {"none", "done"}

\* Every variable stays in its domain.
QQTypeOK ==
    /\ qqRow \in Settings /\ qqSettings \in Settings /\ qqStarted \in BOOLEAN
    /\ qqStatus \in [running : BOOLEAN, connected : BOOLEAN]
    /\ {qqCancel, qqOld} \subseteq QQRunners \union {NoRunner}
    /\ qqOperation \in {"none", "replace", "await", "start", "drain"}
    /\ runnerAt \in [QQRunners -> {"none", "dialling", "connected", "backoff", "returned", "done"}]
    /\ runnerOf \in [QQRunners -> 0..MaxGeneration] /\ cancelled \subseteq QQRunners

\* Through replacements, stops that time out and callbacks that come late: a
\* runner that was not told to stop is the manager's own and has its settings;
\* the status says "running" only of such a runner, and "connected" only when
\* a runner of the current settings holds a connection.
RunnerIsCurrent ==
    /\ \A r \in QQRunners : Alive(r) /\ r \notin cancelled =>
           r = qqCancel /\ runnerOf[r] = qqSettings.generation
    /\ qqStatus.running => qqCancel \in QQRunners /\ Alive(qqCancel)
    /\ qqStatus.connected => \E r \in QQRunners :
           runnerAt[r] = "connected" /\ runnerOf[r] = qqSettings.generation
=============================================================================
