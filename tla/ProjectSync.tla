---------------------------- MODULE ProjectSync ----------------------------
(***************************************************************************)
(* The transaction of `ailuo-pm sync` (projectmgr/sync.go): a new install  *)
(* root is built beside the old one, and root and project lock are then    *)
(* replaced together under a journal, which the next sync reads to undo or *)
(* to finish what a dead one left.                                         *)
(*                                                                         *)
(* Every sync makes one generation of the two.  A rename is one step; a    *)
(* directory that is being removed is Broken in between; a file is         *)
(* replaced in three steps: aside as ".backup", the new one in, ".backup"  *)
(* removed.  A mishap is a process that dies or a call that fails.         *)
(***************************************************************************)
EXTENDS Integers

CONSTANTS
    MaxSyncs,   \* bound: syncs started
    Mishaps     \* bound: deaths and failed calls

ASSUME SyncAssumption == MaxSyncs \in Nat /\ Mishaps \in Nat

Nothing == -1       \* no such file or directory
Partial == -2       \* a directory some of whose files are removed
Made == 0 .. MaxSyncs
Phases == {"prepared", "root_backed_up", "root_published", "committed"}

VARIABLES
    root, stage, rootBackup,    \* the directories: a generation, Nothing or Partial
    based,                      \* the package locks in the root name paths of the root
    lock, lockAside,            \* ailuo.lock and ailuo.lock.backup
    journal, journalAside,      \* the journal and its .backup: a phase, or "none"
    saved,                      \* the transaction directory's copy of the lock
    syncAt,                     \* what the running sync does next
    doing,                      \* whether it recovers, syncs or undoes
    phase,                      \* the phase it recovers from, or the last it came to
    syncs, mishaps

directories == <<root, stage, rootBackup, based>>
locks == <<lock, lockAside, saved>>
journals == <<journal, journalAside>>
running == <<syncAt, doing, phase>>
syncVars == <<root, stage, rootBackup, based, lock, lockAside, journal, journalAside, saved,
              syncAt, doing, phase, syncs, mishaps>>

Forward == {"stage", "save", "prepared", "backUp", "root_backed_up", "publish",
            "root_published", "rebase", "lock", "committed", "commit"}
Backward == {"empty", "emptied", "putBack", "unlock", "relock", "unstage", "unbackup",
             "clean", "cleanAside", "cleanSaved"}
Halfway == {"aside", "in", "drop"}

SyncTypeOK ==
    /\ {root, rootBackup} \subseteq Made \union {Nothing, Partial}
    /\ stage \in Made \union {Nothing} /\ based \in BOOLEAN
    /\ lock \in Made \union {Nothing} /\ lockAside \in Made \union {Nothing}
    /\ saved \in Made \union {Nothing}
    /\ journal \in Phases \union {"none"} /\ journalAside \in Phases \union {"none"}
    /\ syncAt \in [point : Forward \union Backward \union {"idle", "start", "end"},
               step : Halfway]
    /\ doing \in {"nothing", "recover", "sync", "undo"}
    /\ phase \in Phases \union {"none"}
    /\ syncs \in 0 .. MaxSyncs /\ mishaps \in 0 .. Mishaps

At(point) == [point |-> point, step |-> "aside"]
Reach(point) == syncAt' = At(point)
Does(point) == syncAt.point = point

\* A project with its lock, and the root it describes; or neither.
SyncInit ==
    /\ root = 0 /\ lock \in {0, Nothing} /\ based = TRUE
    /\ stage = Nothing /\ rootBackup = Nothing /\ lockAside = Nothing /\ saved = Nothing
    /\ journal = "none" /\ journalAside = "none"
    /\ syncAt = At("idle") /\ doing = "nothing" /\ phase = "none" /\ syncs = 0 /\ mishaps = 0

Generation == syncs

-----------------------------------------------------------------------------
(* Recovery, recoverSyncTransaction; undoing, rollback, takes the same steps *)

ReadJournal == IF journal # "none" THEN journal ELSE journalAside

StartSync ==
    /\ Does("idle") /\ syncs < MaxSyncs
    /\ syncs' = syncs + 1 /\ Reach("start") /\ doing' = "recover" /\ phase' = ReadJournal
    /\ UNCHANGED <<directories, locks, journals, mishaps>>

\* readPreviousLock refuses while there is a backup of the lock.
Afterwards == IF lockAside = Nothing THEN Reach("stage") /\ doing' = "sync"
                                     ELSE Reach("end") /\ UNCHANGED doing

BeginRecovery ==
    /\ Does("start")
    /\ CASE phase = "none" -> Afterwards
         [] phase = "committed" -> Reach("unstage") /\ UNCHANGED doing
         [] phase = "prepared" ->
              /\ Reach(IF rootBackup = Nothing THEN "unstage"
                       ELSE IF root = Nothing THEN "putBack" ELSE "empty")
              /\ UNCHANGED doing
         [] OTHER -> Reach("empty") /\ UNCHANGED doing
    /\ UNCHANGED <<directories, locks, journals, phase, syncs, mishaps>>

\* os.RemoveAll(InstallRoot), its first and its last file
EmptyRoot ==
    /\ \/ /\ Does("empty") /\ Reach("emptied")
          /\ root' = IF root = Nothing THEN Nothing ELSE Partial
       \/ /\ Does("emptied") /\ Reach("putBack")
          /\ root' = Nothing
    /\ UNCHANGED <<stage, rootBackup, based, locks, journals, doing, phase, syncs, mishaps>>

\* rollback leaves the stage to the end of the sync.
RootIsBack == IF doing = "undo" THEN "clean" ELSE "unstage"

\* Renaming a backup that is not there fails, and the journal stays.
PutRootBack ==
    /\ Does("putBack")
    /\ IF rootBackup = Nothing
       THEN Reach("end") /\ UNCHANGED <<root, rootBackup, based>>
       ELSE /\ root' = rootBackup /\ rootBackup' = Nothing /\ based' = TRUE
            /\ Reach(IF phase = "root_published" THEN "unlock" ELSE RootIsBack)
    /\ UNCHANGED <<stage, locks, journals, doing, phase, syncs, mishaps>>

\* restoreProjectLock: the lock is removed and, if there was one, written again.
RestoreLockFromCopy ==
    /\ \/ Does("unlock") /\ lock' = Nothing
          /\ Reach(IF saved = Nothing THEN RootIsBack ELSE "relock")
       \/ Does("relock") /\ lock' = saved /\ Reach(RootIsBack)
    /\ UNCHANGED <<directories, lockAside, saved, journals, doing, phase, syncs, mishaps>>

\* The bug that puts the root back and leaves the lock.
RestoreRootOnly ==
    /\ Does("unlock") /\ Reach(RootIsBack)
    /\ UNCHANGED <<directories, locks, journals, doing, phase, syncs, mishaps>>

RestoreLock == RestoreLockFromCopy

RemoveStage ==
    /\ Does("unstage")
    /\ stage' = Nothing
    /\ Reach(IF phase = "committed" THEN "unbackup" ELSE "clean")
    /\ UNCHANGED <<root, rootBackup, based, locks, journals, doing, phase, syncs, mishaps>>

DropRootBackup ==
    /\ Does("unbackup") \/ Does("commit")
    /\ rootBackup' = Nothing /\ Reach("clean")
    /\ UNCHANGED <<root, stage, based, locks, journals, doing, phase, syncs, mishaps>>

\* cleanup: the journal, its .backup, the transaction directory
CleanUp ==
    /\ \/ /\ Does("clean") /\ journal' = "none" /\ Reach("cleanAside")
          /\ UNCHANGED <<journalAside, saved, doing>>
       \/ /\ Does("cleanAside") /\ journalAside' = "none" /\ Reach("cleanSaved")
          /\ UNCHANGED <<journal, saved, doing>>
       \/ /\ Does("cleanSaved") /\ saved' = Nothing
          /\ IF doing = "recover" THEN Afterwards ELSE Reach("end") /\ UNCHANGED doing
          /\ UNCHANGED journals
    /\ UNCHANGED <<directories, lock, lockAside, phase, syncs, mishaps>>

-----------------------------------------------------------------------------
(* The transaction *)

\* A root that is not there is created, without packages.
BuildStage ==
    /\ Does("stage")
    /\ root' = IF root = Nothing THEN Partial ELSE root
    /\ stage' = Generation /\ Reach("save")
    /\ UNCHANGED <<rootBackup, based, locks, journals, doing, phase, syncs, mishaps>>

\* newSyncTransaction copies the lock, if there is one.
SaveLock ==
    /\ Does("save")
    /\ saved' = lock /\ Reach("prepared")
    /\ UNCHANGED <<directories, lock, lockAside, journals, doing, phase, syncs, mishaps>>

After(p) == CASE p = "prepared" -> "backUp"
              [] p = "root_backed_up" -> "publish"
              [] p = "root_published" -> "rebase"
              [] p = "committed" -> "commit"

\* writeJournalFile: created under its name, or replaced in three steps.
WriteJournal ==
    /\ syncAt.point \in Phases
    /\ LET p == syncAt.point
       IN  CASE p = "prepared" ->
                  journal' = p /\ Reach(After(p)) /\ UNCHANGED journalAside
             [] p # "prepared" /\ syncAt.step = "aside" ->
                  /\ journalAside' = journal /\ journal' = "none"
                  /\ syncAt' = [syncAt EXCEPT !.step = "in"]
             [] p # "prepared" /\ syncAt.step = "in" ->
                  journal' = p /\ syncAt' = [syncAt EXCEPT !.step = "drop"] /\ UNCHANGED journalAside
             [] p # "prepared" /\ syncAt.step = "drop" ->
                  journalAside' = "none" /\ Reach(After(p)) /\ UNCHANGED journal
    /\ phase' = IF syncAt.point = "committed" THEN phase ELSE syncAt.point
    /\ UNCHANGED <<directories, locks, doing, syncs, mishaps>>

BackRootUp ==
    /\ Does("backUp")
    /\ rootBackup' = root /\ root' = Nothing /\ Reach("root_backed_up")
    /\ UNCHANGED <<stage, based, locks, journals, doing, phase, syncs, mishaps>>

PublishRoot ==
    /\ Does("publish")
    /\ root' = stage /\ stage' = Nothing /\ based' = FALSE /\ Reach("root_published")
    /\ UNCHANGED <<rootBackup, locks, journals, doing, phase, syncs, mishaps>>

\* rebaseInstalledLocks, and buildLock reads the packages back.
RebaseRoot ==
    /\ Does("rebase")
    /\ based' = TRUE /\ Reach("lock")
    /\ UNCHANGED <<root, stage, rootBackup, locks, journals, doing, phase, syncs, mishaps>>

\* writeLock
WriteLock ==
    /\ Does("lock")
    /\ \/ /\ syncAt.step = "aside" /\ lockAside' = lock /\ lock' = Nothing
          /\ syncAt' = [syncAt EXCEPT !.step = "in"]
       \/ /\ syncAt.step = "in" /\ lock' = Generation /\ UNCHANGED lockAside
          /\ syncAt' = [syncAt EXCEPT !.step = "drop"]
       \/ /\ syncAt.step = "drop" /\ lockAside' = Nothing /\ UNCHANGED lock
          /\ Reach("committed")
    /\ UNCHANGED <<directories, saved, journals, doing, phase, syncs, mishaps>>

\* The deferred removal of the stage, on every return.
EndSync ==
    /\ Does("end")
    /\ syncAt' = At("idle") /\ doing' = "nothing" /\ phase' = "none"
    /\ stage' = IF doing = "recover" THEN stage ELSE Nothing
    /\ UNCHANGED <<root, rootBackup, based, locks, journals, syncs, mishaps>>

-----------------------------------------------------------------------------
(* Mishaps *)

SyncDies ==
    /\ ~Does("idle") /\ mishaps < Mishaps
    /\ syncAt' = At("idle") /\ doing' = "nothing" /\ phase' = "none" /\ mishaps' = mishaps + 1
    /\ UNCHANGED <<directories, locks, journals, syncs>>

\* A second rename that fails is undone by renaming the old file back.
FileBack ==
    /\ IF syncAt.point \in Phases /\ syncAt.step = "in"
       THEN journal' = journalAside /\ journalAside' = "none" ELSE UNCHANGED journals
    /\ IF Does("lock") /\ syncAt.step = "in"
       THEN lock' = lockAside /\ lockAside' = Nothing ELSE UNCHANGED <<lock, lockAside>>

\* A call of the transaction that fails: rollback, as far as the transaction has come.
StepFails ==
    /\ syncAt.point \in Forward \ {"commit"} /\ mishaps < Mishaps
    /\ mishaps' = mishaps + 1
    /\ FileBack
    /\ LET published == syncAt.point \in {"root_published", "rebase", "lock", "committed"}
           backedUp == published \/ syncAt.point \in {"root_backed_up", "publish"}
       IN  CASE syncAt.point \in {"stage", "save"} -> Reach("end") /\ UNCHANGED <<doing, phase>>
             [] syncAt.point \in {"prepared", "backUp"} ->
                  Reach("clean") /\ doing' = "undo" /\ UNCHANGED phase
             [] backedUp ->
                  /\ Reach(IF published THEN "empty" ELSE "putBack") /\ doing' = "undo"
                  /\ phase' = IF published THEN "root_published" ELSE "root_backed_up"
    /\ UNCHANGED <<directories, saved, syncs>>

\* A removal or a rename that fails while a transaction is undone, recovered or cleaned up
\* leaves the rest to the next sync; rollback restores the lock even so, and cleanup removes
\* the journal's .backup even if it cannot remove the journal.
ClearingFails ==
    /\ syncAt.point \in Backward \union {"commit"} /\ mishaps < Mishaps
    /\ mishaps' = mishaps + 1
    /\ lock' = IF doing = "undo" /\ phase = "root_published"
                  /\ syncAt.point \in {"empty", "emptied", "putBack"} THEN saved ELSE lock
    /\ journalAside' = IF Does("clean") THEN "none" ELSE journalAside
    /\ IF Does("unstage") /\ phase # "committed"
       THEN Reach("clean") /\ doing' = "undo" ELSE Reach("end") /\ UNCHANGED doing
    /\ UNCHANGED <<directories, lockAside, saved, journal, phase, syncs>>

-----------------------------------------------------------------------------
SyncNext ==
    \/ StartSync \/ BeginRecovery \/ EmptyRoot \/ PutRootBack \/ RestoreLock \/ RemoveStage
    \/ DropRootBackup \/ CleanUp
    \/ BuildStage \/ SaveLock \/ WriteJournal \/ BackRootUp \/ PublishRoot \/ RebaseRoot
    \/ WriteLock \/ EndSync
    \/ SyncDies \/ StepFails \/ ClearingFails

SyncSpec == SyncInit /\ [][SyncNext]_syncVars

-----------------------------------------------------------------------------
Recovered == Does("idle") /\ journal = "none" /\ journalAside = "none"

(* Root and lock change together: whenever no sync runs and no journal is   *)
(* left, the root is whole, usable and of the generation the lock names,    *)
(* wherever the sync that last touched them died or failed (sync.go:        *)
(* "publishes the install root and the project lock atomically").           *)
SyncIsAtomic ==
    Recovered => root \in Made /\ based /\ (root = lock \/ (root = 0 /\ lock = Nothing))

(* The packages installed before a sync are there until it is committed, in *)
(* the root or in its backup, so that after any crash the state before it    *)
(* is restored (docs: "after a crash the journal restores the old state").   *)
RootSurvives == root \in Made \/ rootBackup \in Made
=============================================================================
