----------------------------- MODULE ProcessHost -----------------------------
(***************************************************************************)
(* The process host of internal/kernel/loader/processhost: it starts the   *)
(* process of an isolated runtime, connects to it, watches for its exit,   *)
(* and ends it, gently through the runtime's own Stop or by force when the *)
(* host closes.                                                            *)
(*                                                                         *)
(* A runtime's mutex is held for the whole of Stop and of a forced close,  *)
(* while the process itself, the goroutine that watches it and the other   *)
(* runtimes go on; a process may exit at any moment, and a kill may fail   *)
(* to bring it down in time.  Runtimes the host only connects to have no   *)
(* process and are left out.                                               *)
(***************************************************************************)
EXTENDS FiniteSets

CONSTANTS
    Executors,      \* runtimes of role executor, tracked once connected
    Providers       \* runtimes of role provider, tracked before they are connected

ASSUME ProcessAssumption == Executors \intersect Providers = {}

Hosted == Executors \union Providers

VARIABLES
    process,    \* runtime -> its process: not started, running, or gone
    loadOf,     \* runtime -> how far Load has come
    tracked,    \* runtimes the host knows of
    stopped,    \* runtimes whose end is finished
    silenced,   \* runtimes whose exit is no longer news (exitNotified)
    holder,     \* runtime -> who is ending it under its mutex, and how far
    watching,   \* runtimes whose exit is watched
    noticed,    \* runtimes whose exit was reported to OnRuntimeExit
    crashed,    \* auxiliary: runtimes whose process went before anyone began to end it
    hostClosed, \* the host refuses new loads
    closeList   \* runtimes the running Close still has to end

processVars == <<process, loadOf, tracked, stopped, silenced, holder, watching, noticed,
                 crashed, hostClosed, closeList>>

Free == "free"

ProcessTypeOK ==
    /\ process \in [Hosted -> {"unborn", "running", "gone"}]
    /\ loadOf \in [Hosted -> {"no", "admitted", "connecting", "undo", "done", "failed"}]
    /\ tracked \subseteq Hosted /\ stopped \subseteq Hosted /\ silenced \subseteq Hosted
    /\ holder \in [Hosted -> {Free, "stop", "force", "force close", "finish", "finish close"}]
    /\ watching \subseteq Hosted /\ noticed \subseteq Hosted /\ crashed \subseteq Hosted
    /\ hostClosed \in BOOLEAN /\ closeList \subseteq Hosted

ProcessInit ==
    /\ process = [r \in Hosted |-> "unborn"] /\ loadOf = [r \in Hosted |-> "no"]
    /\ tracked = {} /\ stopped = {} /\ silenced = {}
    /\ holder = [r \in Hosted |-> Free]
    /\ watching = {} /\ noticed = {} /\ crashed = {}
    /\ hostClosed = FALSE /\ closeList = {}

Running(r) == process[r] = "running"
Gone(r) == process' = [process EXCEPT ![r] = "gone"]

-----------------------------------------------------------------------------
(* Load *)

\* Load looks at closed once, before the process is started.
AdmitLoad(r) ==
    /\ loadOf[r] = "no" /\ ~hostClosed
    /\ loadOf' = [loadOf EXCEPT ![r] = "admitted"]
    /\ UNCHANGED <<process, tracked, stopped, silenced, holder, watching, noticed, crashed,
                   hostClosed, closeList>>

\* StartProcess; a provider is tracked from here on.
Launch(r, started) ==
    /\ loadOf[r] = "admitted"
    /\ IF started
       THEN /\ process' = [process EXCEPT ![r] = "running"]
            /\ loadOf' = [loadOf EXCEPT ![r] = "connecting"]
            /\ tracked' = IF r \in Providers THEN tracked \union {r} ELSE tracked
       ELSE /\ loadOf' = [loadOf EXCEPT ![r] = "failed"]
            /\ UNCHANGED <<process, tracked>>
    /\ UNCHANGED <<stopped, silenced, holder, watching, noticed, crashed, hostClosed, closeList>>

\* The connection stands; an executor is tracked now, and either is watched.
Connected(r) ==
    /\ loadOf[r] = "connecting" /\ Running(r)
    /\ loadOf' = [loadOf EXCEPT ![r] = "done"]
    /\ tracked' = IF r \in Executors THEN tracked \union {r} ELSE tracked
    /\ watching' = watching \union {r}
    /\ UNCHANGED <<process, stopped, silenced, holder, noticed, crashed, hostClosed, closeList>>

\* The dial times out, or the process exits first (ProcessWatchContext).
NotConnected(r) ==
    /\ loadOf[r] = "connecting"
    /\ loadOf' = [loadOf EXCEPT ![r] = "undo"]
    /\ UNCHANGED <<process, tracked, stopped, silenced, holder, watching, noticed, crashed,
                   hostClosed, closeList>>

\* An executor's process is reaped where it stands: nobody else knows of it.
UndoExecutor(r, reaped) ==
    /\ loadOf[r] = "undo" /\ r \in Executors
    /\ IF reaped THEN Gone(r) ELSE UNCHANGED process
    /\ loadOf' = [loadOf EXCEPT ![r] = "failed"]
    /\ UNCHANGED <<tracked, stopped, silenced, holder, watching, noticed, crashed, hostClosed, closeList>>

\* releaseAfterLoad of a provider is a forced close.
UndoProvider(r) ==
    /\ loadOf[r] = "undo" /\ r \in Providers /\ holder[r] = Free
    /\ loadOf' = [loadOf EXCEPT ![r] = "failed"]
    /\ IF r \in stopped THEN UNCHANGED <<holder, silenced>>
       ELSE /\ holder' = [holder EXCEPT ![r] = "force"]
            /\ silenced' = silenced \union {r}
    /\ UNCHANGED <<process, tracked, stopped, watching, noticed, crashed, hostClosed, closeList>>

-----------------------------------------------------------------------------
(* The process and the goroutine that waits for it *)

\* The process exits: on its own, or because someone is ending it.
Exits(r) ==
    /\ Running(r) /\ Gone(r)
    /\ crashed' = IF holder[r] = Free /\ r \notin silenced THEN crashed \union {r} ELSE crashed
    /\ UNCHANGED <<loadOf, tracked, stopped, silenced, holder, watching, noticed, hostClosed, closeList>>

IsNews(r) == r \notin stopped /\ r \notin silenced /\ holder[r] = Free

\* watchProcessExit: under the mutex it decides whether the exit is news.
NoticeExit(r) ==
    /\ r \in watching /\ process[r] = "gone" /\ IsNews(r)
    /\ watching' = watching \ {r}
    /\ silenced' = silenced \union {r}
    /\ noticed' = noticed \union {r}
    /\ UNCHANGED <<process, loadOf, tracked, stopped, holder, crashed, hostClosed, closeList>>

IgnoreExit(r) ==
    /\ r \in watching /\ process[r] = "gone" /\ holder[r] = Free
    /\ r \in stopped \union silenced
    /\ watching' = watching \ {r}
    /\ silenced' = silenced \union {r}
    /\ UNCHANGED <<process, loadOf, tracked, stopped, holder, noticed, crashed, hostClosed, closeList>>

-----------------------------------------------------------------------------
(* Stop and hostClose *)

\* runtimeShared.Stop takes the mutex; what is stopped already stays so, a process that is
\* gone is only tidied up after, a live one is told to stop.
BeginStop(r) ==
    /\ loadOf[r] = "done" /\ holder[r] = Free /\ r \notin stopped
    /\ holder' = [holder EXCEPT ![r] = IF Running(r) THEN "stop" ELSE "finish"]
    /\ UNCHANGED <<process, loadOf, tracked, stopped, silenced, watching, noticed, crashed,
                   hostClosed, closeList>>

\* A Stop that takes the runtime's answer for its exit.
SettledByAnswer(r) == TRUE

SettledByExit(r) == ~Running(r)

\* The runtime answered and exits within the grace period; an executor is not asked, its
\* protocol has no such call.
StopSettles(r) ==
    /\ r \in Providers /\ holder[r] = "stop" /\ SettledByExit(r)
    /\ holder' = [holder EXCEPT ![r] = "finish"]
    /\ UNCHANGED <<process, loadOf, tracked, stopped, silenced, watching, noticed, crashed,
                   hostClosed, closeList>>

\* It does not: the exit is ours from here on, and is forced.
StopForces(r) ==
    /\ holder[r] = "stop"
    /\ silenced' = silenced \union {r}
    /\ holder' = [holder EXCEPT ![r] = "force"]
    /\ UNCHANGED <<process, loadOf, tracked, stopped, watching, noticed, crashed, hostClosed, closeList>>

\* Host.Close: no more loads, and the runtimes known at this moment are ended by force.
CloseHost ==
    /\ ~hostClosed /\ hostClosed' = TRUE
    /\ closeList' = tracked
    /\ UNCHANGED <<process, loadOf, tracked, stopped, silenced, holder, watching, noticed, crashed>>

HostClose(r) ==
    /\ r \in closeList /\ holder[r] = Free
    /\ \A q \in Hosted : holder[q] \notin {"force close", "finish close"}
    /\ IF r \in stopped
       THEN /\ closeList' = closeList \ {r}
            /\ UNCHANGED <<holder, silenced>>
       ELSE /\ holder' = [holder EXCEPT ![r] = "force close"]
            /\ silenced' = silenced \union {r}
            /\ UNCHANGED closeList
    /\ UNCHANGED <<process, loadOf, tracked, stopped, watching, noticed, crashed, hostClosed>>

\* forceCleanupLocked: terminate, wait, kill, wait.  The process is gone, or it is not in
\* time or a signal cannot be sent, and the mutex is left with nothing decided.
ForceEnds(r) ==
    /\ holder[r] \in {"force", "force close"}
    /\ Gone(r)
    /\ holder' = [holder EXCEPT ![r] = IF @ = "force" THEN "finish" ELSE "finish close"]
    /\ UNCHANGED <<loadOf, tracked, stopped, silenced, watching, noticed, crashed, hostClosed, closeList>>

ForceFails(r) ==
    /\ holder[r] \in {"force", "force close"}
    /\ holder' = [holder EXCEPT ![r] = Free]
    /\ closeList' = IF holder[r] = "force close" THEN closeList \ {r} ELSE closeList
    /\ UNCHANGED <<process, loadOf, tracked, stopped, silenced, watching, noticed, crashed, hostClosed>>

\* finishLocked: the runtime is struck off; a socket that cannot be removed only shows in
\* the error.
Finish(r) ==
    /\ holder[r] \in {"finish", "finish close"}
    /\ stopped' = stopped \union {r}
    /\ tracked' = tracked \ {r}
    /\ holder' = [holder EXCEPT ![r] = Free]
    /\ closeList' = IF holder[r] = "finish close" THEN closeList \ {r} ELSE closeList
    /\ UNCHANGED <<process, loadOf, silenced, watching, noticed, crashed, hostClosed>>

-----------------------------------------------------------------------------

RuntimeStep(r) ==
    \/ AdmitLoad(r) \/ Connected(r) \/ NotConnected(r) \/ UndoProvider(r)
    \/ \E ok \in BOOLEAN : Launch(r, ok) \/ UndoExecutor(r, ok)
    \/ Exits(r) \/ NoticeExit(r) \/ IgnoreExit(r)
    \/ BeginStop(r) \/ StopSettles(r) \/ StopForces(r)
    \/ HostClose(r) \/ ForceEnds(r) \/ ForceFails(r) \/ Finish(r)

ProcessNext == CloseHost \/ \E r \in Hosted : RuntimeStep(r)

ProcessSpec == ProcessInit /\ [][ProcessNext]_processVars

-----------------------------------------------------------------------------

\* What the host has struck off is gone: a runtime that Stop or Close reports as ended has
\* no process left, so that the unit can be replaced and its limits be released.
StruckOffIsGone == \A r \in stopped : ~Running(r)

\* OnRuntimeExit, which takes the whole kernel down when an executor is lost, is called
\* for crashes only, never for an exit that a Stop or a Close brought about.
OnlyCrashesAreNews == noticed \subseteq crashed

\* The host's account of exits is true, whoever of Stop, Close, the goroutine that waits
\* for the process and the crash itself comes first.
ExitsAreAccounted == StruckOffIsGone /\ OnlyCrashesAreNews
=============================================================================
