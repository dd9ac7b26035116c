---------------------------- MODULE ServiceControl ----------------------------
(* The main loop of the service: it waits for the settings of the local     *)
(* configuration page, starts the core with them, and starts it again when  *)
(* they change.  The page saves at any time and wakes the loop through a    *)
(* channel that holds one notice.  A core writes the App's configuration as *)
(* it starts, may fail at any point and stops some time after it is told.   *)
EXTENDS Naturals

CONSTANTS Contents,    \* contents of the settings
          NoContent,
          MaxSaves,    \* bound: revisions of the settings
          MaxKills     \* bound: how often the process dies

ASSUME ControlAssumption ==
    /\ NoContent \notin Contents
    /\ MaxSaves \in Nat /\ MaxKills \in Nat

VARIABLES
    settings,       \* [revision, content]: in memory, and on disk at every step
    notice,         \* the channel holds a notice
    serviceStatus,  \* [state, revision], what the page shows
    controlLoop,    \* where the main loop is
    settingsInUse,  \* the settings it has read
    coreAt,         \* where the core is
    head,           \* the App's configuration: [generation, content]
    kills

controlVars == <<settings, notice, serviceStatus, controlLoop, settingsInUse, coreAt,
                 head, kills>>

Status(state, revision) == [state |-> state, revision |-> revision]
Unset == [revision |-> 0, content |-> NoContent]

ControlInit ==
    /\ settings = Unset /\ settingsInUse = Unset
    /\ notice = FALSE /\ serviceStatus = Status("setup_required", 0)
    /\ controlLoop = "waiting" /\ coreAt = "none"
    /\ head = [generation |-> 0, content |-> NoContent]
    /\ kills = 0

-----------------------------------------------------------------------------
\* The configuration page: a save against the revision it has read.
SaveSettings(content) ==
    /\ settings.revision < MaxSaves
    /\ settings' = [revision |-> settings.revision + 1, content |-> content]
    /\ serviceStatus' = Status("restarting", settings.revision + 1)
    /\ notice' = TRUE
    /\ UNCHANGED <<controlLoop, settingsInUse, coreAt, head, kills>>

\* WaitReady, with no settings and with some.
WaitReady ==
    /\ controlLoop = "waiting"
    /\ IF settings.revision = 0
       THEN /\ notice /\ notice' = FALSE /\ UNCHANGED <<controlLoop, settingsInUse>>
       ELSE /\ controlLoop' = "resolved" /\ settingsInUse' = settings /\ UNCHANGED notice
    /\ UNCHANGED <<settings, serviceStatus, coreAt, head, kills>>

\* Mutant of StartCore: a notice that is older than the core is thrown away.
StartCoreDraining ==
    /\ controlLoop = "resolved"
    /\ controlLoop' = "running" /\ coreAt' = "opening" /\ notice' = FALSE
    /\ serviceStatus' = Status("starting", settingsInUse.revision)
    /\ UNCHANGED <<settings, settingsInUse, head, kills>>

StartCore ==
    /\ controlLoop = "resolved"
    /\ controlLoop' = "running" /\ coreAt' = "opening"
    /\ serviceStatus' = Status("starting", settingsInUse.revision)
    /\ UNCHANGED <<settings, notice, settingsInUse, head, kills>>

\* The settings cannot be applied: their secret cannot be read.
SettingsUnreadable ==
    /\ controlLoop = "resolved"
    /\ controlLoop' = "failed" /\ serviceStatus' = Status("failed", settingsInUse.revision)
    /\ UNCHANGED <<settings, notice, settingsInUse, coreAt, head, kills>>

\* CompareAndSwap: a generation per change of content, none when it is the same.
Configured(content) ==
    IF head.content = content THEN head
    ELSE [generation |-> head.generation + 1, content |-> content]

\* Ensure, and CompareAndSwap from the generation just read.
ConfigureApp ==
    /\ coreAt = "opening"
    /\ head' = Configured(settingsInUse.content)
    /\ coreAt' = "configured"
    /\ UNCHANGED <<settings, notice, serviceStatus, controlLoop, settingsInUse, kills>>

\* The core serves; it reports the revision of the settings as they are now.
CoreReady ==
    /\ coreAt = "configured"
    /\ coreAt' = "ready" /\ serviceStatus' = Status("ready", settings.revision)
    /\ UNCHANGED <<settings, notice, controlLoop, settingsInUse, head, kills>>

\* runCore returns: it fails, its executor dies, or it was told to stop.
CoreEnds ==
    /\ coreAt \in {"opening", "configured", "ready"}
    /\ coreAt' = "gone"
    /\ UNCHANGED <<settings, notice, serviceStatus, controlLoop, settingsInUse, head, kills>>

TakeNotice ==
    /\ controlLoop = "running" /\ notice
    /\ notice' = FALSE /\ controlLoop' = "stopping"
    /\ serviceStatus' = Status("restarting", settings.revision)
    /\ UNCHANGED <<settings, settingsInUse, coreAt, head, kills>>

CoreStopped ==
    /\ controlLoop = "stopping" /\ coreAt = "gone"
    /\ controlLoop' = "waiting" /\ coreAt' = "none"
    /\ UNCHANGED <<settings, notice, serviceStatus, settingsInUse, head, kills>>

CoreFailed ==
    /\ controlLoop = "running" /\ coreAt = "gone"
    /\ controlLoop' = "failed" /\ coreAt' = "none"
    /\ serviceStatus' = Status("failed", settingsInUse.revision)
    /\ UNCHANGED <<settings, notice, settingsInUse, head, kills>>

WaitForChange ==
    /\ controlLoop = "failed" /\ notice
    /\ notice' = FALSE /\ controlLoop' = "waiting"
    /\ UNCHANGED <<settings, serviceStatus, settingsInUse, coreAt, head, kills>>

\* The process dies and is started again: the settings are on disk.
Killed ==
    /\ kills < MaxKills /\ kills' = kills + 1
    /\ notice' = FALSE /\ controlLoop' = "waiting" /\ coreAt' = "none"
    /\ settingsInUse' = Unset
    /\ serviceStatus' = IF settings.revision = 0 THEN Status("setup_required", 0)
                 ELSE Status("starting", settings.revision)
    /\ UNCHANGED <<settings, head>>

ControlLoop == WaitReady \/ StartCore \/ TakeNotice \/ CoreStopped \/ CoreFailed
               \/ WaitForChange
\* A core that is told to stop does.
CoreStep == ConfigureApp \/ CoreReady \/ (controlLoop = "stopping" /\ CoreEnds)

ControlNext ==
    \/ \E content \in Contents : SaveSettings(content)
    \/ ControlLoop \/ CoreStep \/ SettingsUnreadable \/ CoreEnds \/ Killed

ControlSpec == ControlInit /\ [][ControlNext]_controlVars

\* The loop is scheduled, and a core comes up or stops when it is told to.
ControlFairness == WF_controlVars(ControlLoop) /\ WF_controlVars(CoreStep)

-----------------------------------------------------------------------------
Revisions0 == 0..MaxSaves

\* Every variable stays in its domain.
ControlTypeOK ==
    /\ settings \in [revision : Revisions0, content : Contents \union {NoContent}]
    /\ settingsInUse \in [revision : Revisions0, content : Contents \union {NoContent}]
    /\ notice \in BOOLEAN /\ kills \in 0..MaxKills
    /\ serviceStatus \in [state : {"setup_required", "restarting", "starting", "ready",
                            "failed"}, revision : Revisions0]
    /\ controlLoop \in {"waiting", "resolved", "running", "stopping", "failed"}
    /\ coreAt \in {"none", "opening", "configured", "ready", "gone"}
    /\ head.generation \in Nat /\ head.content \in Contents \union {NoContent}

\* The loop never sleeps on settings it has not seen, and once it has nothing
\* more to do the page tells what is: a core that is ready runs the settings
\* shown, with the App's configuration made from them, and a failure shown is
\* that of the settings now in force.
NoChangeIsLost ==
    /\ controlLoop \in {"running", "failed"} /\ settingsInUse # settings => notice
    /\ controlLoop = "running" /\ coreAt = "ready" /\ ~notice =>
          /\ serviceStatus = Status("ready", settingsInUse.revision)
          /\ head.content = settings.content
    /\ controlLoop = "failed" /\ ~notice => serviceStatus = Status("failed", settings.revision)

\* Settings that were saved are put into force: a core comes up with them or
\* fails with them, unless newer ones are saved.
SettingsTakeEffect ==
    \A n \in 1..MaxSaves :
        (settings.revision = n) ~>
            \/ settings.revision > n
            \/ settingsInUse.revision = n /\ coreAt = "ready"
            \/ settingsInUse.revision = n /\ controlLoop = "failed"
=============================================================================
