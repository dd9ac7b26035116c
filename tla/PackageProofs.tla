---------------------------- MODULE PackageProofs ----------------------------
(***************************************************************************)
(* Theorems about packages: what a sync of a project replaces together,    *)
(* what an install root keeps through an operation, what a paged read of   *)
(* a package's documents returns, and what the resolver of a project's     *)
(* dependencies comes to.                                                  *)
(***************************************************************************)
EXTENDS ProjectSync, PackageInstall, PackageStore, DependencyResolve, FiniteSetTheorems,
        SequenceTheorems, TLAPS

-----------------------------------------------------------------------------
(* The sync of a project: ProjectSync. *)

\* The root r is the one the lock l describes.
Describes(l, r) == r \in Made /\ (r = l \/ (r = 0 /\ l = Nothing))
\* Root and lock are of one generation: what a finished sync, and a project no sync has touched, leave.
RootIsOfLock == Describes(lock, root) /\ based
\* ... and no old root waits to be put back.
AtRest == RootIsOfLock /\ rootBackup = Nothing

\* What the journal on disk promises to the sync that reads it next: which of the roots the
\* lock, or the copy of it, describes.
JournalHolds ==
    /\ ReadJournal = "none" => AtRest
    /\ ReadJournal = "prepared" =>
         IF rootBackup = Nothing THEN RootIsOfLock ELSE Describes(lock, rootBackup)
    /\ ReadJournal = "root_backed_up" =>
         rootBackup = Nothing \/ Describes(lock, rootBackup)
    /\ ReadJournal = "root_published" =>
         rootBackup = Nothing \/ Describes(saved, rootBackup)
    /\ ReadJournal = "committed" => RootIsOfLock

\* A rollback under a journal that already says "committed": removing the journal's own
\* backup has failed after the new phase was in place.
UndoesCommit == doing = "undo" /\ ReadJournal = "committed"

\* The journal and its backup.
JournalIs(j, a) == journal = j /\ journalAside = a
\* Where a replacement of the journal is: old, aside; none; new beside the old one.
BeingReplaced(old, new) ==
    /\ syncAt.step = "aside" => JournalIs(old, "none")
    /\ syncAt.step = "in" => JournalIs("none", old)
    /\ syncAt.step = "drop" => JournalIs(new, old)

\* What each point of a sync that goes forward has reached.
WhereSyncing ==
    /\ syncAt.point \in {"stage", "save", "prepared"} => AtRest /\ JournalIs("none", "none")
    /\ Does("prepared") => saved = lock
    /\ syncAt.point \in {"save", "prepared", "backUp", "root_backed_up", "publish"} => stage = syncs
    /\ Does("backUp") => AtRest /\ JournalIs("prepared", "none") /\ saved = lock
    /\ syncAt.point \in {"root_backed_up", "publish", "root_published", "rebase", "lock", "committed"} =>
         Describes(saved, rootBackup)
    /\ syncAt.point \in {"root_backed_up", "publish", "root_published", "rebase"} => lock = saved
    /\ Does("root_backed_up") => BeingReplaced("prepared", "root_backed_up")
    /\ Does("publish") => JournalIs("root_backed_up", "none")
    /\ Does("root_published") => BeingReplaced("root_backed_up", "root_published")
    /\ syncAt.point \in {"rebase", "lock"} => JournalIs("root_published", "none")
    /\ syncAt.point \in {"root_published", "rebase", "lock", "committed", "commit"} => root = syncs
    /\ Does("lock") /\ syncAt.step = "drop" => lock = syncs
    /\ Does("committed") => BeingReplaced("root_published", "committed")
    /\ Does("commit") => JournalIs("committed", "none")
    /\ syncAt.point \in {"committed", "commit"} => lock = syncs
    /\ syncAt.point \in {"lock", "committed", "commit"} => based
    /\ syncAt.point \in Forward => doing = "sync"
    /\ syncAt.point \in Forward \ (Phases \union {"lock"}) => syncAt.step = "aside"

\* What each point of a recovery and of a rollback starts from.
WhereClearing ==
    /\ Does("start") => doing = "recover" /\ phase = ReadJournal
    /\ syncAt.point \in Backward => doing \in {"recover", "undo", "sync"}
    /\ syncAt.point \in Backward \ {"clean", "cleanAside", "cleanSaved"} /\ doing = "recover" =>
         phase = ReadJournal
    /\ syncAt.point \in Backward \ {"clean", "cleanAside", "cleanSaved"}  => doing # "sync"
    /\ syncAt.point \in {"empty", "emptied", "putBack"} =>
         \/ doing = "recover" /\ phase \in {"prepared", "root_backed_up", "root_published"}
         \/ doing = "undo" /\ phase = "root_backed_up" /\ ReadJournal \in {"prepared", "root_backed_up"}
               /\ Describes(lock, rootBackup)
         \/ doing = "undo" /\ phase = "root_published"
               /\ ReadJournal \in {"root_backed_up", "root_published", "committed"}
               /\ Describes(saved, rootBackup)
    /\ syncAt.point \in {"empty", "emptied", "putBack"} /\ phase = "prepared" => rootBackup # Nothing
    /\ syncAt.point \in {"unlock", "relock"} =>
         /\ Describes(saved, root) /\ based /\ rootBackup = Nothing /\ phase = "root_published"
         /\ ReadJournal \in {"root_backed_up", "root_published", "committed"}
    /\ Does("relock") => saved # Nothing
    /\ Does("unstage") =>
         RootIsOfLock /\ doing = "recover" /\ (phase # "committed" => rootBackup = Nothing)
    /\ Does("unbackup") => RootIsOfLock /\ phase = "committed"
    /\ syncAt.point \in {"clean", "cleanAside", "cleanSaved"} => AtRest
    /\ Does("cleanAside") => journal = "none"
    /\ Does("cleanSaved") => JournalIs("none", "none")
    /\ syncAt.point \in {"idle", "start", "end"} => JournalHolds
    /\ Does("end") => ~UndoesCommit

\* The inductive invariant: the promise of the journal, and what is known at each point of
\* the way.
SyncInv ==
    /\ SyncTypeOK
    /\ ~UndoesCommit => JournalHolds
    /\ WhereSyncing
    /\ WhereClearing

\* A death, a call that fails, or a removal that fails when the sync clears up.
Mishap == SyncDies \/ StepFails \/ ClearingFails
\* Nothing goes wrong while a commit is being undone.
UndoUndisturbed == [][UndoesCommit => ~Mishap]_syncVars

\* The invariant holds of a project no sync has touched.
LEMMA SyncBegins == SyncInit => SyncInv
  BY SyncAssumption DEF SyncInit, SyncInv, SyncTypeOK, JournalHolds, WhereSyncing,
     WhereClearing, AtRest, RootIsOfLock, Describes, Does, At, Forward, Backward, Halfway,
     Phases, Made, Nothing, Partial

\* Every step of a sync leaves every variable in its domain.
LEMMA SyncTypeSteps ==
  ASSUME SyncTypeOK, [SyncNext]_syncVars
  PROVE  SyncTypeOK'
<1> USE SyncAssumption DEF SyncTypeOK, Made, At, Reach, Does, directories, locks, journals, running
<1> USE DEF Forward, Backward, Halfway, Phases
<1>1. CASE StartSync
  BY <1>1 DEF StartSync, ReadJournal
<1>2. CASE BeginRecovery
  BY <1>2 DEF BeginRecovery, Afterwards
<1>3. CASE EmptyRoot
  BY <1>3 DEF EmptyRoot
<1>4. CASE PutRootBack
  <2>1. root' \in Made \union {Nothing, Partial} /\ rootBackup' \in Made \union {Nothing, Partial}
    BY <1>4 DEF PutRootBack
  <2>2. based' \in BOOLEAN
    BY <1>4 DEF PutRootBack
  <2>3. syncAt' \in [point : Forward \union Backward \union {"idle", "start", "end"}, step : Halfway]
    BY <1>4 DEF PutRootBack, RootIsBack
  <2>4. UNCHANGED <<stage, lock, lockAside, saved, journal, journalAside, doing, phase, syncs, mishaps>>
    BY <1>4 DEF PutRootBack
  <2>5. QED BY <2>1, <2>2, <2>3, <2>4
<1>5. CASE RestoreLock
  BY <1>5 DEF RestoreLock, RestoreLockFromCopy, RootIsBack
<1>6. CASE RemoveStage
  BY <1>6 DEF RemoveStage
<1>7. CASE DropRootBackup
  BY <1>7 DEF DropRootBackup
<1>8. CASE CleanUp
  BY <1>8 DEF CleanUp, Afterwards
<1>9. CASE BuildStage
  BY <1>9 DEF BuildStage, Generation
<1>10. CASE SaveLock
  BY <1>10 DEF SaveLock
<1>11. CASE WriteJournal
  <2>1. journal' \in Phases \union {"none"} /\ journalAside' \in Phases \union {"none"}
    BY <1>11 DEF WriteJournal
  <2>2. phase' \in Phases \union {"none"}
    BY <1>11 DEF WriteJournal
  <2>3. syncAt' \in [point : Forward \union Backward \union {"idle", "start", "end"}, step : Halfway]
    <3>1. CASE syncAt.point = "prepared"
      BY <1>11, <3>1 DEF WriteJournal, After
    <3>2. CASE syncAt.point # "prepared" /\ syncAt.step = "aside"
      BY <1>11, <3>2 DEF WriteJournal
    <3>3. CASE syncAt.point # "prepared" /\ syncAt.step = "in"
      BY <1>11, <3>3 DEF WriteJournal
    <3>4. CASE syncAt.point # "prepared" /\ syncAt.step = "drop"
      BY <1>11, <3>4 DEF WriteJournal, After
    <3>5. QED BY <3>1, <3>2, <3>3, <3>4
  <2>4. UNCHANGED <<root, stage, rootBackup, based, lock, lockAside, saved, doing, syncs, mishaps>>
    BY <1>11 DEF WriteJournal
  <2>5. QED BY <2>1, <2>2, <2>3, <2>4
<1>12. CASE BackRootUp
  BY <1>12 DEF BackRootUp
<1>13. CASE PublishRoot
  <2>1. root' \in Made \union {Nothing, Partial} /\ stage' = Nothing
    BY <1>13 DEF PublishRoot
  <2>b. based' \in BOOLEAN
    BY <1>13 DEF PublishRoot
  <2>2. syncAt' \in [point : Forward \union Backward \union {"idle", "start", "end"}, step : Halfway]
    BY <1>13 DEF PublishRoot
  <2>3. UNCHANGED <<rootBackup, lock, lockAside, saved, journal, journalAside,
                  doing, phase, syncs, mishaps>>
    BY <1>13 DEF PublishRoot
  <2>4. QED BY <2>1, <2>2, <2>3, <2>b
<1>14. CASE RebaseRoot
  BY <1>14 DEF RebaseRoot
<1>15. CASE WriteLock
  BY <1>15 DEF WriteLock, Generation
<1>16. CASE EndSync
  BY <1>16 DEF EndSync
<1>17. CASE SyncDies
  BY <1>17 DEF SyncDies
<1>18. CASE StepFails
  <2>1. journal' \in Phases \union {"none"} /\ journalAside' \in Phases \union {"none"}
    BY <1>18 DEF StepFails, FileBack
  <2>2. lock' \in Made \union {Nothing} /\ lockAside' \in Made \union {Nothing}
    BY <1>18 DEF StepFails, FileBack
  <2>3. /\ syncAt' \in [point : Forward \union Backward \union {"idle", "start", "end"}, step : Halfway]
        /\ doing' \in {"nothing", "recover", "sync", "undo"} /\ phase' \in Phases \union {"none"}
    <3>1. CASE syncAt.point \in {"stage", "save"}
      <4>1. syncAt' = [point |-> "end", step |-> "aside"] /\ UNCHANGED <<doing, phase>>
        BY <1>18, <3>1 DEF StepFails
      <4>2. QED BY <4>1
    <3>2. CASE syncAt.point \in {"prepared", "backUp"}
      <4>1. /\ syncAt' = [point |-> "clean", step |-> "aside"]
            /\ doing' = "undo" /\ UNCHANGED phase
        BY <1>18, <3>2 DEF StepFails
      <4>2. QED BY <4>1
    <3>3. CASE syncAt.point \in {"root_backed_up", "publish"}
      <4>1. /\ syncAt' = [point |-> "putBack", step |-> "aside"]
            /\ doing' = "undo" /\ phase' = "root_backed_up"
        BY <1>18, <3>3 DEF StepFails
      <4>2. QED BY <4>1
    <3>4. CASE syncAt.point \in {"root_published", "rebase", "lock", "committed"}
      <4>1. /\ syncAt' = [point |-> "empty", step |-> "aside"]
            /\ doing' = "undo" /\ phase' = "root_published"
        BY <1>18, <3>4 DEF StepFails
      <4>2. QED BY <4>1
    <3>5. QED BY <1>18, <3>1, <3>2, <3>3, <3>4 DEF StepFails
  <2>4. mishaps' \in 0 .. Mishaps
    BY <1>18 DEF StepFails
  <2>5. UNCHANGED <<root, stage, rootBackup, based, saved, syncs>>
    BY <1>18 DEF StepFails
  <2>6. QED BY <2>1, <2>2, <2>3, <2>4, <2>5
<1>19. CASE ClearingFails
  BY <1>19 DEF ClearingFails
<1>20. CASE UNCHANGED syncVars
  BY <1>20 DEF syncVars
<1>21. QED BY <1>1, <1>2, <1>3, <1>4, <1>5, <1>6, <1>7, <1>8, <1>9, <1>10, <1>11, <1>12,
              <1>13, <1>14, <1>15, <1>16, <1>17, <1>18, <1>19, <1>20 DEF SyncNext

\* Every step keeps the invariant, the mishaps too, unless it is one in the undoing of a
\* commit.
LEMMA SyncSteps ==
  ASSUME SyncInv, SyncNext, UndoesCommit => ~Mishap
  PROVE SyncInv'
<1>0. SyncTypeOK'
  BY SyncTypeSteps DEF SyncInv
<1> USE SyncAssumption DEF SyncInv, SyncTypeOK
<1> USE DEF Forward, Backward, Halfway, Phases, Made, Nothing, Partial, At, Reach,
           Does, directories, locks, journals, running
<1>1. CASE StartSync
  <2>2. WhereSyncing'
    BY <1>1 DEF StartSync, WhereSyncing
  <2>3. WhereClearing'
    BY <1>1 DEF StartSync, WhereClearing, JournalHolds, AtRest, RootIsOfLock, ReadJournal
  <2>4. JournalHolds' \/ UndoesCommit'
    BY <1>1 DEF StartSync, WhereClearing, JournalHolds, AtRest, RootIsOfLock, ReadJournal
  <2>5. QED BY <1>0, <2>2, <2>3, <2>4 DEF SyncInv
<1>2. CASE BeginRecovery
  <2>2. WhereSyncing'
    BY <1>2 DEF BeginRecovery, Afterwards, WhereSyncing, WhereClearing, JournalHolds,
       AtRest, RootIsOfLock, ReadJournal, JournalIs
  <2>3. WhereClearing'
    BY <1>2 DEF BeginRecovery, Afterwards, WhereClearing, JournalHolds, UndoesCommit,
       AtRest, RootIsOfLock, ReadJournal
  <2>4. JournalHolds' \/ UndoesCommit'
    BY <1>2 DEF BeginRecovery, WhereClearing, JournalHolds, AtRest, RootIsOfLock, ReadJournal
  <2>5. QED BY <1>0, <2>2, <2>3, <2>4 DEF SyncInv
<1>3. CASE EmptyRoot
  <2>2. WhereSyncing'
    BY <1>3 DEF EmptyRoot, WhereSyncing
  <2>3. WhereClearing'
    BY <1>3 DEF EmptyRoot, WhereClearing, ReadJournal
  <2>4. JournalHolds' \/ UndoesCommit'
    BY <1>3 DEF EmptyRoot, WhereClearing, JournalHolds, UndoesCommit, Describes, ReadJournal
  <2>5. QED BY <1>0, <2>2, <2>3, <2>4 DEF SyncInv
<1>4. CASE PutRootBack
  <2>2. WhereSyncing'
    BY <1>4 DEF PutRootBack, RootIsBack, WhereSyncing
  <2>3. WhereClearing'
    BY <1>4 DEF PutRootBack, RootIsBack, WhereClearing, JournalHolds, UndoesCommit, AtRest,
       RootIsOfLock, Describes, ReadJournal
  <2>4. JournalHolds' \/ UndoesCommit'
    BY <1>4 DEF PutRootBack, WhereClearing, JournalHolds, UndoesCommit, RootIsOfLock, ReadJournal
  <2>5. QED BY <1>0, <2>2, <2>3, <2>4 DEF SyncInv
<1>5. CASE RestoreLock
  <2>2. WhereSyncing'
    BY <1>5 DEF RestoreLock, RestoreLockFromCopy, RootIsBack, WhereSyncing
  <2>3. WhereClearing'
    BY <1>5 DEF RestoreLock, RestoreLockFromCopy, RootIsBack, WhereClearing, AtRest,
       RootIsOfLock, ReadJournal
  <2>4. JournalHolds' \/ UndoesCommit'
    BY <1>5 DEF RestoreLock, RestoreLockFromCopy, WhereClearing, JournalHolds, UndoesCommit,
       ReadJournal
  <2>5. QED BY <1>0, <2>2, <2>3, <2>4 DEF SyncInv
<1>6. CASE RemoveStage
  <2>2. WhereSyncing'
    BY <1>6 DEF RemoveStage, WhereSyncing
  <2>3. WhereClearing'
    BY <1>6 DEF RemoveStage, WhereClearing, AtRest, RootIsOfLock, ReadJournal
  <2>4. JournalHolds' \/ UndoesCommit'
    BY <1>6 DEF RemoveStage, JournalHolds, UndoesCommit, AtRest, RootIsOfLock, ReadJournal
  <2>5. QED BY <1>0, <2>2, <2>3, <2>4 DEF SyncInv
<1>7. CASE DropRootBackup
  <2>2. WhereSyncing'
    BY <1>7 DEF DropRootBackup, WhereSyncing
  <2>3. WhereClearing'
    BY <1>7 DEF DropRootBackup, WhereSyncing, WhereClearing, AtRest, RootIsOfLock, Describes
  <2>4. JournalHolds' \/ UndoesCommit'
    BY <1>7 DEF DropRootBackup, WhereSyncing, WhereClearing, JournalHolds, AtRest,
       RootIsOfLock, Describes
  <2>5. QED BY <1>0, <2>2, <2>3, <2>4 DEF SyncInv
<1>8. CASE CleanUp
  <2>2. WhereSyncing'
    BY <1>8 DEF CleanUp, Afterwards, WhereSyncing, WhereClearing, AtRest, RootIsOfLock, JournalIs
  <2>3. WhereClearing'
    BY <1>8 DEF CleanUp, Afterwards, WhereClearing, JournalHolds, UndoesCommit, AtRest,
       RootIsOfLock, ReadJournal, JournalIs
  <2>4. JournalHolds' \/ UndoesCommit'
    BY <1>8 DEF CleanUp, WhereClearing, JournalHolds, AtRest, RootIsOfLock
  <2>5. QED BY <1>0, <2>2, <2>3, <2>4 DEF SyncInv
<1>9. CASE BuildStage
  <2>2. WhereSyncing'
    BY <1>9 DEF BuildStage, Generation, WhereSyncing, AtRest, RootIsOfLock, Describes, JournalIs
  <2>3. WhereClearing'
    BY <1>9 DEF BuildStage, WhereClearing
  <2>4. JournalHolds' \/ UndoesCommit'
    BY <1>9 DEF BuildStage, JournalHolds, UndoesCommit, AtRest, RootIsOfLock, Describes, ReadJournal
  <2>5. QED BY <1>0, <2>2, <2>3, <2>4 DEF SyncInv
<1>10. CASE SaveLock
  <2>2. WhereSyncing'
    <3>1. syncAt' = [point |-> "prepared", step |-> "aside"] /\ saved' = lock
      BY <1>10 DEF SaveLock
    <3>2. AtRest /\ JournalIs("none", "none") /\ doing = "sync" /\ stage = syncs
      BY <1>10 DEF SaveLock, WhereSyncing
    <3>3. UNCHANGED <<lock, stage, syncs, root, rootBackup, based, journal, journalAside, doing>>
      BY <1>10 DEF SaveLock
    <3>4. QED BY <3>1, <3>2, <3>3 DEF WhereSyncing, AtRest, RootIsOfLock, JournalIs
  <2>3. WhereClearing'
    <3>1. syncAt' = [point |-> "prepared", step |-> "aside"]
      BY <1>10 DEF SaveLock
    <3>2. QED BY <3>1 DEF WhereClearing
  <2>4. JournalHolds' \/ UndoesCommit'
    BY <1>10 DEF SaveLock, WhereSyncing, JournalHolds, AtRest, RootIsOfLock
  <2>5. QED BY <1>0, <2>2, <2>3, <2>4 DEF SyncInv
<1>11. CASE WriteJournal
  <2>1. CASE syncAt.point = "prepared"
    <3>2. WhereSyncing'
      BY <1>11, <2>1 DEF WriteJournal, After, WhereSyncing, AtRest, RootIsOfLock, JournalIs
    <3>3. WhereClearing'
      BY <1>11, <2>1 DEF WriteJournal, After, WhereClearing
    <3>4. JournalHolds' \/ UndoesCommit'
      BY <1>11, <2>1 DEF WriteJournal, WhereSyncing, JournalHolds, AtRest, RootIsOfLock
    <3>5. QED BY <1>0, <3>2, <3>3, <3>4 DEF SyncInv
  <2>2. CASE syncAt.point = "root_backed_up" /\ syncAt.step = "aside"
    <3>2. WhereSyncing'
      BY <1>11, <2>2 DEF WriteJournal, WhereSyncing, JournalIs, BeingReplaced
    <3>3. WhereClearing'
      BY <1>11, <2>2 DEF WriteJournal, WhereClearing
    <3>4. JournalHolds' \/ UndoesCommit'
      BY <1>11, <2>2 DEF WriteJournal, WhereSyncing, JournalHolds, Describes, ReadJournal,
         JournalIs, BeingReplaced
    <3>5. QED BY <1>0, <3>2, <3>3, <3>4 DEF SyncInv
  <2>3. CASE syncAt.point = "root_backed_up" /\ syncAt.step = "in"
    <3>2. WhereSyncing'
      BY <1>11, <2>3 DEF WriteJournal, WhereSyncing, JournalIs, BeingReplaced
    <3>3. WhereClearing'
      BY <1>11, <2>3 DEF WriteJournal, WhereClearing
    <3>4. JournalHolds' \/ UndoesCommit'
      BY <1>11, <2>3 DEF WriteJournal, WhereSyncing, JournalHolds, ReadJournal
    <3>5. QED BY <1>0, <3>2, <3>3, <3>4 DEF SyncInv
  <2>4. CASE syncAt.point = "root_backed_up" /\ syncAt.step = "drop"
    <3>2. WhereSyncing'
      BY <1>11, <2>4 DEF WriteJournal, After, WhereSyncing, JournalIs, BeingReplaced
    <3>3. WhereClearing'
      BY <1>11, <2>4 DEF WriteJournal, After, WhereClearing
    <3>4. JournalHolds' \/ UndoesCommit'
      BY <1>11, <2>4 DEF WriteJournal, WhereSyncing, JournalHolds, ReadJournal, JournalIs,
         BeingReplaced
    <3>5. QED BY <1>0, <3>2, <3>3, <3>4 DEF SyncInv
  <2>5. CASE syncAt.point = "root_published" /\ syncAt.step = "aside"
    <3>2. WhereSyncing'
      BY <1>11, <2>5 DEF WriteJournal, WhereSyncing, JournalIs, BeingReplaced
    <3>3. WhereClearing'
      BY <1>11, <2>5 DEF WriteJournal, WhereClearing
    <3>4. JournalHolds' \/ UndoesCommit'
      BY <1>11, <2>5 DEF WriteJournal, WhereSyncing, JournalHolds, ReadJournal, JournalIs,
         BeingReplaced
    <3>5. QED BY <1>0, <3>2, <3>3, <3>4 DEF SyncInv
  <2>6. CASE syncAt.point = "root_published" /\ syncAt.step = "in"
    <3>2. WhereSyncing'
      BY <1>11, <2>6 DEF WriteJournal, WhereSyncing, JournalIs, BeingReplaced
    <3>3. WhereClearing'
      BY <1>11, <2>6 DEF WriteJournal, WhereClearing
    <3>4. JournalHolds' \/ UndoesCommit'
      BY <1>11, <2>6 DEF WriteJournal, WhereSyncing, JournalHolds, ReadJournal
    <3>5. QED BY <1>0, <3>2, <3>3, <3>4 DEF SyncInv
  <2>7. CASE syncAt.point = "root_published" /\ syncAt.step = "drop"
    <3>2. WhereSyncing'
      BY <1>11, <2>7 DEF WriteJournal, After, WhereSyncing, JournalIs, BeingReplaced
    <3>3. WhereClearing'
      BY <1>11, <2>7 DEF WriteJournal, After, WhereClearing
    <3>4. JournalHolds' \/ UndoesCommit'
      BY <1>11, <2>7 DEF WriteJournal, WhereSyncing, JournalHolds, ReadJournal, JournalIs,
         BeingReplaced
    <3>5. QED BY <1>0, <3>2, <3>3, <3>4 DEF SyncInv
  <2>8. CASE syncAt.point = "committed" /\ syncAt.step = "aside"
    <3>2. WhereSyncing'
      BY <1>11, <2>8 DEF WriteJournal, WhereSyncing, JournalIs, BeingReplaced
    <3>3. WhereClearing'
      BY <1>11, <2>8 DEF WriteJournal, WhereClearing
    <3>4. JournalHolds' \/ UndoesCommit'
      BY <1>11, <2>8 DEF WriteJournal, WhereSyncing, JournalHolds, ReadJournal, JournalIs,
         BeingReplaced
    <3>5. QED BY <1>0, <3>2, <3>3, <3>4 DEF SyncInv
  <2>9. CASE syncAt.point = "committed" /\ syncAt.step = "in"
    <3>2. WhereSyncing'
      BY <1>11, <2>9 DEF WriteJournal, WhereSyncing, JournalIs, BeingReplaced
    <3>3. WhereClearing'
      BY <1>11, <2>9 DEF WriteJournal, WhereClearing
    <3>4. JournalHolds' \/ UndoesCommit'
      BY <1>11, <2>9 DEF WriteJournal, WhereSyncing, JournalHolds, RootIsOfLock, Describes,
         ReadJournal
    <3>5. QED BY <1>0, <3>2, <3>3, <3>4 DEF SyncInv
  <2>10. CASE syncAt.point = "committed" /\ syncAt.step = "drop"
    <3>2. WhereSyncing'
      BY <1>11, <2>10 DEF WriteJournal, After, WhereSyncing, JournalIs, BeingReplaced
    <3>3. WhereClearing'
      BY <1>11, <2>10 DEF WriteJournal, After, WhereClearing
    <3>4. JournalHolds' \/ UndoesCommit'
      BY <1>11, <2>10 DEF WriteJournal, WhereSyncing, JournalHolds, RootIsOfLock, Describes,
         ReadJournal, JournalIs, BeingReplaced
    <3>5. QED BY <1>0, <3>2, <3>3, <3>4 DEF SyncInv
  <2>q. QED BY <1>11, <2>1, <2>2, <2>3, <2>4, <2>5, <2>6, <2>7, <2>8, <2>9, <2>10 DEF WriteJournal
<1>12. CASE BackRootUp
  <2>2. WhereSyncing'
    BY <1>12 DEF BackRootUp, WhereSyncing, AtRest, RootIsOfLock, JournalIs, BeingReplaced
  <2>3. WhereClearing'
    BY <1>12 DEF BackRootUp, WhereClearing
  <2>4. JournalHolds' \/ UndoesCommit'
    BY <1>12 DEF BackRootUp, WhereSyncing, JournalHolds, AtRest, RootIsOfLock, ReadJournal,
       JournalIs
  <2>5. QED BY <1>0, <2>2, <2>3, <2>4 DEF SyncInv
<1>13. CASE PublishRoot
  <2>2. WhereSyncing'
    BY <1>13 DEF PublishRoot, WhereSyncing, JournalIs, BeingReplaced
  <2>3. WhereClearing'
    BY <1>13 DEF PublishRoot, WhereClearing
  <2>4. JournalHolds' \/ UndoesCommit'
    BY <1>13 DEF PublishRoot, WhereSyncing, JournalHolds, ReadJournal, JournalIs
  <2>5. QED BY <1>0, <2>2, <2>3, <2>4 DEF SyncInv
<1>14. CASE RebaseRoot
  <2>2. WhereSyncing'
    BY <1>14 DEF RebaseRoot, WhereSyncing, JournalIs
  <2>3. WhereClearing'
    BY <1>14 DEF RebaseRoot, WhereClearing
  <2>4. JournalHolds' \/ UndoesCommit'
    BY <1>14 DEF RebaseRoot, JournalHolds, UndoesCommit, AtRest, RootIsOfLock, ReadJournal
  <2>5. QED BY <1>0, <2>2, <2>3, <2>4 DEF SyncInv
<1>15. CASE WriteLock
  <2>2. WhereSyncing'
    BY <1>15 DEF WriteLock, Generation, WhereSyncing, JournalIs, BeingReplaced
  <2>3. WhereClearing'
    BY <1>15 DEF WriteLock, WhereClearing
  <2>4. JournalHolds' \/ UndoesCommit'
    BY <1>15 DEF WriteLock, WhereSyncing, JournalHolds, ReadJournal, JournalIs
  <2>5. QED BY <1>0, <2>2, <2>3, <2>4 DEF SyncInv
<1>16. CASE EndSync
  <2>2. WhereSyncing'
    BY <1>16 DEF EndSync, WhereSyncing
  <2>3. WhereClearing'
    BY <1>16 DEF EndSync, WhereClearing, JournalHolds, AtRest, RootIsOfLock, ReadJournal
  <2>4. JournalHolds' \/ UndoesCommit'
    BY <1>16 DEF EndSync, WhereClearing, JournalHolds, AtRest, RootIsOfLock, ReadJournal
  <2>5. QED BY <1>0, <2>2, <2>3, <2>4 DEF SyncInv
<1>17. CASE SyncDies
  <2>u. ~UndoesCommit
    BY <1>17 DEF Mishap
  <2>2. WhereSyncing'
    BY <1>17, <2>u DEF SyncDies, WhereSyncing
  <2>3. WhereClearing'
    BY <1>17, <2>u DEF SyncDies, WhereClearing, JournalHolds, AtRest, RootIsOfLock, ReadJournal
  <2>4. JournalHolds' \/ UndoesCommit'
    BY <1>17, <2>u DEF SyncDies, JournalHolds, AtRest, RootIsOfLock, ReadJournal
  <2>5. QED BY <1>0, <2>2, <2>3, <2>4 DEF SyncInv
<1>18. CASE StepFails
  <2>u. ~UndoesCommit
    BY <1>18 DEF Mishap
  <2>0. /\ mishaps < Mishaps /\ mishaps' = mishaps + 1
        /\ UNCHANGED <<root, stage, rootBackup, based, saved, syncs>>
        /\ \/ UNCHANGED <<journal, journalAside>>
           \/ /\ syncAt.step = "in" /\ syncAt.point \in Phases
              /\ journal' = journalAside /\ journalAside' = "none"
        /\ \/ UNCHANGED <<lock, lockAside>>
           \/ syncAt.step = "in" /\ syncAt.point = "lock" /\ lock' = lockAside /\ lockAside' = Nothing
    <3>1. FileBack
      BY <1>18 DEF StepFails
    <3>2. \/ UNCHANGED <<journal, journalAside>>
          \/ /\ syncAt.step = "in" /\ syncAt.point \in Phases
             /\ journal' = journalAside /\ journalAside' = "none"
      <4>1. CASE syncAt.point \in Phases /\ syncAt.step = "in"
        BY <3>1, <4>1 DEF FileBack
      <4>2. CASE ~(syncAt.point \in Phases /\ syncAt.step = "in")
        <5>1. UNCHANGED <<journal, journalAside>>
          BY <3>1, <4>2 DEF FileBack
        <5>2. QED BY <5>1
      <4>3. QED BY <4>1, <4>2
    <3>3. \/ UNCHANGED <<lock, lockAside>>
          \/ syncAt.step = "in" /\ syncAt.point = "lock" /\ lock' = lockAside /\ lockAside' = Nothing
      <4>1. CASE syncAt.point = "lock" /\ syncAt.step = "in"
        BY <3>1, <4>1 DEF FileBack
      <4>2. CASE ~(syncAt.point = "lock" /\ syncAt.step = "in")
        <5>1. UNCHANGED <<lock, lockAside>>
          BY <3>1, <4>2 DEF FileBack
        <5>2. QED BY <5>1
      <4>3. QED BY <4>1, <4>2
    <3>4. mishaps < Mishaps /\ mishaps' = mishaps + 1
      BY <1>18 DEF StepFails
    <3>5. UNCHANGED <<root, stage, rootBackup, based, saved, syncs>>
      BY <1>18 DEF StepFails
    <3>6. QED BY <3>2, <3>3, <3>4, <3>5
  <2>1. CASE syncAt.point \in {"stage", "save"}
    <3>0. syncAt' = [point |-> "end", step |-> "aside"] /\ UNCHANGED <<doing, phase>>
      BY <1>18, <2>1 DEF StepFails
    <3>2. WhereSyncing'
      BY <3>0 DEF WhereSyncing
    <3>3. WhereClearing'
      BY <2>0, <2>u, <2>1, <3>0 DEF WhereSyncing, WhereClearing, JournalHolds, UndoesCommit,
         AtRest, RootIsOfLock
    <3>4. JournalHolds' \/ UndoesCommit'
      BY <2>0, <2>u, <2>1, <3>0 DEF WhereSyncing, JournalHolds, AtRest, RootIsOfLock
    <3>5. QED BY <1>0, <3>2, <3>3, <3>4 DEF SyncInv
  <2>2. CASE syncAt.point \in {"prepared", "backUp"}
    <3>0. /\ syncAt' = [point |-> "clean", step |-> "aside"]
          /\ doing' = "undo" /\ UNCHANGED phase
      BY <1>18, <2>2 DEF StepFails
    <3>2. WhereSyncing'
      BY <3>0 DEF WhereSyncing
    <3>3. WhereClearing'
      BY <2>0, <2>u, <2>2, <3>0 DEF WhereSyncing, WhereClearing, AtRest, RootIsOfLock
    <3>4. JournalHolds' \/ UndoesCommit'
      BY <2>0, <2>u, <2>2, <3>0 DEF WhereSyncing, JournalHolds, AtRest, RootIsOfLock
    <3>5. QED BY <1>0, <3>2, <3>3, <3>4 DEF SyncInv
  <2>3. CASE syncAt.point \in {"root_backed_up", "publish"}
    <3>0. /\ syncAt' = [point |-> "putBack", step |-> "aside"]
          /\ doing' = "undo" /\ phase' = "root_backed_up"
      BY <1>18, <2>3 DEF StepFails
    <3>2. WhereSyncing'
      BY <3>0 DEF WhereSyncing
    <3>3. WhereClearing'
      BY <2>0, <2>u, <2>3, <3>0 DEF WhereSyncing, WhereClearing, ReadJournal, JournalIs,
         BeingReplaced
    <3>4. JournalHolds' \/ UndoesCommit'
      BY <2>0, <2>u, <2>3, <3>0 DEF WhereSyncing, JournalHolds, RootIsOfLock, ReadJournal,
         JournalIs, BeingReplaced
    <3>5. QED BY <1>0, <3>2, <3>3, <3>4 DEF SyncInv
  <2>4. CASE syncAt.point \in {"root_published", "rebase", "lock", "committed"}
    <3>0. /\ syncAt' = [point |-> "empty", step |-> "aside"]
          /\ doing' = "undo" /\ phase' = "root_published"
      BY <1>18, <2>4 DEF StepFails
    <3>2. WhereSyncing'
      BY <3>0 DEF WhereSyncing
    <3>3. WhereClearing'
      BY <2>0, <2>u, <2>4, <3>0 DEF WhereSyncing, WhereClearing, ReadJournal, JournalIs,
         BeingReplaced
    <3>4. JournalHolds' \/ UndoesCommit'
      BY <2>0, <2>u, <2>4, <3>0 DEF WhereSyncing, JournalHolds, RootIsOfLock, ReadJournal,
         JournalIs, BeingReplaced
    <3>5. QED BY <1>0, <3>2, <3>3, <3>4 DEF SyncInv
  <2>q. QED BY <1>18, <2>1, <2>2, <2>3, <2>4 DEF StepFails
<1>19. CASE ClearingFails
  <2>u. ~UndoesCommit
    BY <1>19 DEF Mishap
  <2>2. WhereSyncing'
    BY <1>19, <2>u DEF ClearingFails, WhereSyncing
  <2>3. WhereClearing'
    BY <1>19, <2>u DEF ClearingFails, WhereClearing, JournalHolds, UndoesCommit, AtRest,
       RootIsOfLock, ReadJournal
  <2>4. JournalHolds' \/ UndoesCommit'
    BY <1>19, <2>u DEF ClearingFails, WhereClearing, JournalHolds, UndoesCommit, AtRest,
       RootIsOfLock, ReadJournal
  <2>5. QED BY <1>0, <2>2, <2>3, <2>4 DEF SyncInv
<1>20. QED BY <1>1, <1>2, <1>3, <1>4, <1>5, <1>6, <1>7, <1>8, <1>9, <1>10, <1>11, <1>12,
              <1>13, <1>14, <1>15, <1>16, <1>17, <1>18, <1>19 DEF SyncNext

\* The invariant says of a sync that has ended that root and lock are of one generation.
LEMMA SyncSettles == SyncInv => SyncIsAtomic
  BY DEF SyncInv, SyncTypeOK, SyncIsAtomic, Recovered, UndoesCommit, JournalHolds,
     ReadJournal, AtRest, RootIsOfLock, Describes, Does

\* A step that changes nothing keeps the invariant.
LEMMA SyncStutters ==
  ASSUME SyncInv, UNCHANGED syncVars
  PROVE  SyncInv'
  BY DEF SyncInv, SyncTypeOK, syncVars, WhereSyncing, WhereClearing, JournalHolds,
     UndoesCommit, AtRest, RootIsOfLock, ReadJournal, JournalIs, BeingReplaced, Does

\* Every variable of a sync stays in its domain, whatever dies or fails.
THEOREM SyncTypesHold == SyncSpec => []SyncTypeOK
<1>1. SyncInit => SyncTypeOK
  BY SyncBegins DEF SyncInv
<1>2. SyncTypeOK /\ [SyncNext]_syncVars => SyncTypeOK'
  BY SyncTypeSteps
<1>3. QED BY <1>1, <1>2, PTL DEF SyncSpec

\* Root and lock are replaced together or not at all, however many syncs there are and
\* whatever dies or fails in them, unless something goes wrong while a rollback undoes a
\* commit (SyncWithOptions, rollback and recoverSyncTransaction of projectmgr/sync.go).
THEOREM SyncStaysAtomic == SyncSpec /\ UndoUndisturbed => []SyncIsAtomic
<1>1. SyncInv /\ [SyncNext]_syncVars /\ [UndoesCommit => ~Mishap]_syncVars => SyncInv'
  BY SyncSteps, SyncStutters
<1>2. QED
  BY <1>1, SyncBegins, SyncSettles, PTL DEF SyncSpec, UndoUndisturbed
\* A rollback is the answer to a call that failed: it costs a mishap.
LEMMA UndoCostsAMishap == SyncSpec => [](mishaps \in 0 .. Mishaps /\ (doing = "undo" => mishaps >= 1))
<1> DEFINE Paid == mishaps \in 0 .. Mishaps /\ (doing = "undo" => mishaps >= 1)
<1>1. SyncInit => Paid
  BY SyncAssumption DEF SyncInit
<1>2. Paid /\ [SyncNext]_syncVars => Paid'
  <2> SUFFICES ASSUME Paid, [SyncNext]_syncVars PROVE Paid'
    OBVIOUS
  <2>1. CASE SyncDies \/ StepFails \/ ClearingFails
    <3>1. mishaps < Mishaps /\ mishaps' = mishaps + 1
      BY <2>1 DEF SyncDies, StepFails, ClearingFails
    <3>2. QED BY <3>1, SyncAssumption
  <2>2. CASE StartSync \/ BeginRecovery \/ EmptyRoot \/ PutRootBack \/ RestoreLock
              \/ RemoveStage \/ DropRootBackup
    BY <2>2 DEF StartSync, BeginRecovery, Afterwards, EmptyRoot, PutRootBack, RestoreLock,
       RestoreLockFromCopy, RemoveStage, DropRootBackup
  <2>3. CASE CleanUp \/ BuildStage \/ SaveLock \/ WriteJournal \/ BackRootUp \/ PublishRoot
              \/ RebaseRoot \/ WriteLock \/ EndSync
    BY <2>3 DEF CleanUp, Afterwards, BuildStage, SaveLock, WriteJournal, BackRootUp,
       PublishRoot, RebaseRoot, WriteLock, EndSync
  <2>4. CASE UNCHANGED syncVars
    BY <2>4 DEF syncVars
  <2>5. QED BY <2>1, <2>2, <2>3, <2>4 DEF SyncNext
<1>3. QED BY <1>1, <1>2, PTL DEF SyncSpec

\* With one mishap, at whichever step, root and lock are replaced together or not at all:
\* the mishap that starts the undoing of a commit is the only one.
THEOREM AtomicThroughOneMishap == Mishaps <= 1 => (SyncSpec => []SyncIsAtomic)
<1> SUFFICES ASSUME Mishaps <= 1 PROVE SyncSpec => []SyncIsAtomic
  OBVIOUS
<1> DEFINE Paid == mishaps \in 0 .. Mishaps /\ (doing = "undo" => mishaps >= 1)
<1>1. Paid /\ Paid' => [UndoesCommit => ~Mishap]_syncVars
  <2> SUFFICES ASSUME Paid, Mishap PROVE ~UndoesCommit
    OBVIOUS
  <2>1. mishaps < Mishaps
    BY DEF Mishap, SyncDies, StepFails, ClearingFails
  <2>2. QED BY <2>1, SyncAssumption DEF UndoesCommit
<1>2. QED
  BY <1>1, UndoCostsAMishap, SyncStaysAtomic, PTL DEF UndoUndisturbed

-----------------------------------------------------------------------------
(* Installing, upgrading and uninstalling: PackageInstall. *)

\* Release v of p has what it needs.
Fits(p, v) ==
    \A d \in DOMAIN Needs[p][v] \ (lost \union {p}) : Present(d) \in Needs[p][v][d]
\* Whatever else is there is content with x in the place of p.
Suits(p, x) ==
    \A q \in Packages \ {p} :
        p \notin lost /\ Whole(Present(q)) /\ p \in DOMAIN Needs[q][Present(q)]
            => x \in Needs[q][Present(q)][p]

\* The points of an operation that holds the lock file.
Points == {"locked", "recovered", "allowed", "moved", "put",
                        "checked", "removing", "undo", "undoing", "restore", "deleting", "done"}
\* What the package manager does.
Ops == {"install", "upgrade", "uninstall"}
\* The package manager is idle, at a point, or removes a backup it recovered.
PmShape ==
    \/ pm = NoOperation
    \/ pm \in [at : Points, op : Ops, pkg : Packages, version : Releases]
    \/ pm \in [at : {"clearing"}, op : Ops, pkg : Packages, version : Releases, clears : Packages]

\* What recovery leaves to the operation.
NoBackups == \A p \in Packages : backup[p] = Missing

\* The root is closed with x as p.
Before(p, x) == Suits(p, x) /\ (Whole(x) => Fits(p, x))

\* What an operation on release v of p knows at each of its points.
InstallPoint(p, v) ==
    /\ pm.at \in {"recovered", "allowed", "deleting"} => NoBackups
    /\ pm.at = "allowed" => target[p] # Broken \/ pm.op = "uninstall"
    /\ pm.at = "allowed" /\ pm.op = "uninstall" => Suits(p, Missing)
    /\ pm.at = "allowed" /\ pm.op # "uninstall" => Before(p, v)
    /\ pm.at = "moved" =>
         /\ Before(p, v) /\ backup[p] # Broken
         /\ target[p] = Missing \/ backup[p] = Missing
    /\ pm.at \in {"put", "checked", "removing", "undo"} => Whole(target[p])
    /\ pm.at \in {"put", "undo"} /\ bare => ~Whole(backup[p])
    /\ pm.at \in {"put", "undo"} /\ ~bare =>
         /\ backup[p] # Broken /\ (p \in owned \ lost => Whole(backup[p]))
         /\ \A x \in Held : backup[p] = x => Before(p, x)
    /\ pm.at \in {"undoing", "deleting"} => target[p] = Broken
    /\ pm.at = "deleting" => p \notin owned

\* The operation is on release v of p.
OnPackage(p, v) == pm # NoOperation /\ pm.pkg = p /\ pm.version = v
\* The running operation knows what its point says.
WhereInstalling ==
    \A p \in Packages, v \in Releases : OnPackage(p, v) => InstallPoint(p, v)

\* The inductive invariant: the property itself, and what each point of the operation has
\* established.
InstallInv ==
    /\ InstallTypeOK /\ PmShape /\ PackageSurvives /\ ClosureHolds
    /\ WhereInstalling

\* In a closed root each package suits the others, and has what it needs.
LEMMA ClosureNow ==
  ASSUME ClosureHolds, NEW p \in Packages, NEW x, Present(p) = x
  PROVE  Before(p, x)
  BY DEF ClosureHolds, Before, Suits, Fits

\* What is known of p holds while the other packages stay as they are.
LEMMA BeforeStays ==
  ASSUME NEW p \in Packages, NEW x, Before(p, x), lost \subseteq lost',
         \A q \in Packages \ {p} : Present(q)' = Present(q)
  PROVE  Before(p, x)'
<1>1. Suits(p, x)'
  BY DEF Before, Suits
<1>2. Whole(x) => Fits(p, x)'
  BY InstallAssumption DEF Before, Fits, Whole
<1>3. QED BY <1>1, <1>2 DEF Before

\* A root is closed after x has taken the place of p, when that was checked before.
LEMMA ClosureAfter ==
  ASSUME ClosureHolds, NEW p \in Packages, NEW x, Present(p)' = x, lost \subseteq lost',
         Before(p, x), \A q \in Packages \ {p} : Present(q)' = Present(q)
  PROVE  ClosureHolds'
<1> SUFFICES ASSUME NEW q \in Packages, Whole(Present(q)'),
                    NEW d \in DOMAIN Needs[q][Present(q)'] \ (lost' \union {q})
             PROVE  Present(d)' \in Needs[q][Present(q)'][d]
  BY DEF ClosureHolds, Whole
<1>1. d \in Packages
  BY InstallAssumption DEF Whole
<1>2. CASE q = p
  BY <1>1, <1>2 DEF Before, Fits, Whole
<1>3. CASE q # p
  <2>1. Present(q)' = Present(q)
    BY <1>3
  <2>2. CASE d = p
    BY <1>3, <2>1, <2>2 DEF Before, Suits, Whole
  <2>3. CASE d # p
    BY <1>1, <2>1, <2>3 DEF ClosureHolds, Whole
  <2>4. QED BY <2>2, <2>3
<1>4. QED BY <1>2, <1>3

\* A root stays closed while every package stays what it is.
LEMMA ClosureStays ==
  ASSUME ClosureHolds, lost \subseteq lost', \A q \in Packages : Present(q)' = Present(q)
  PROVE  ClosureHolds'
  BY InstallAssumption DEF ClosureHolds, Whole

\* An operation that goes on to its next point is about the same release.
LEMMA ItGoes ==
  ASSUME PmShape, pm.at \notin {"idle", "clearing"}, NEW a \in Points, Go(a)
  PROVE  /\ pm' \in [at : Points, op : Ops, pkg : Packages, version : Releases]
         /\ pm'.at = a /\ pm'.op = pm.op /\ pm'.pkg = pm.pkg /\ pm'.version = pm.version
         /\ pm # NoOperation /\ pm.pkg \in Packages /\ pm.version \in Releases
         /\ PmShape'
<1>1. pm \in [at : Points, op : Ops, pkg : Packages, version : Releases]
  BY DEF PmShape, NoOperation
<1>2. pm' \in [at : Points, op : Ops, pkg : Packages, version : Releases]
      /\ pm'.at = a /\ pm'.op = pm.op /\ pm'.pkg = pm.pkg /\ pm'.version = pm.version
  BY <1>1 DEF Go
<1>3. pm # NoOperation
  BY DEF NoOperation
<1>4. QED BY <1>1, <1>2, <1>3 DEF PmShape

\* At these points an operation relies on nothing.
LEMMA RestsAt ==
  ASSUME pm'.at \in {"idle", "locked", "clearing", "done"}
  PROVE  WhereInstalling'
  BY DEF WhereInstalling, InstallPoint

\* A step that leaves the root alone leaves what is known of it.
LEMMA RootStays ==
  ASSUME InstallInv, UNCHANGED <<target, backup, owned, lost>>
  PROVE  /\ PackageSurvives' /\ ClosureHolds'
         /\ \A p \in Packages : \A x : Before(p, x) => Before(p, x)'
         /\ \A p \in Packages : \A x : Suits(p, x) => Suits(p, x)'
         /\ NoBackups => NoBackups'
<1> USE DEF InstallInv
<1>1. \A q \in Packages : Present(q)' = Present(q)
  BY DEF Present
<1>2. ClosureHolds'
  BY <1>1, ClosureStays
<1>3. PackageSurvives' /\ (NoBackups => NoBackups')
  BY DEF PackageSurvives, NoBackups
<1>4. ASSUME NEW p \in Packages, NEW x, Before(p, x) PROVE Before(p, x)'
  BY <1>1, <1>4, BeforeStays
<1>5. ASSUME NEW p \in Packages, NEW x, Suits(p, x) PROVE Suits(p, x)'
  BY <1>1, <1>5 DEF Suits
<1>6. QED BY <1>2, <1>3, <1>4, <1>5

\* Taking the lock file keeps the invariant.
LEMMA StartKeeps ==
  ASSUME InstallInv, NEW op \in Ops, NEW p \in Packages, NEW v \in Releases,
         StartOperation(op, p, v)
  PROVE  InstallInv'
<1>1. PackageSurvives' /\ ClosureHolds'
  BY RootStays DEF StartOperation
<1>2. pm' = [at |-> "locked", op |-> op, pkg |-> p, version |-> v]
  BY DEF StartOperation, Operation
<1>3. PmShape'
  BY <1>2 DEF PmShape, Points
<1>4. WhereInstalling'
  BY <1>2, RestsAt
<1>5. InstallTypeOK'
  BY <1>2, InstallAssumption DEF StartOperation, InstallInv, InstallTypeOK, Ops
<1>6. QED BY <1>1, <1>3, <1>4, <1>5 DEF InstallInv

\* So do giving it back and dying with it.
LEMMA LockKeeps ==
  ASSUME InstallInv, FinishOperation \/ ManagerDies
  PROVE  InstallInv'
<1>1. PackageSurvives' /\ ClosureHolds'
  BY RootStays DEF FinishOperation, ManagerDies
<1>2. pm' = NoOperation
  BY DEF FinishOperation, ManagerDies
<1>3. PmShape'
  BY <1>2 DEF PmShape
<1>4. WhereInstalling'
  BY <1>2, RestsAt DEF NoOperation
<1>5. InstallTypeOK'
  <2>1. deaths' \in 0 .. MaxDeaths
    BY InstallAssumption DEF FinishOperation, ManagerDies, InstallInv, InstallTypeOK
  <2>2. UNCHANGED <<target, backup, core, owned, bare, lost, operations>> /\ lockFile' \in BOOLEAN
    BY DEF FinishOperation, ManagerDies, InstallInv, InstallTypeOK
  <2>3. QED BY <1>2, <2>1, <2>2 DEF InstallInv, InstallTypeOK
<1>6. QED BY <1>1, <1>3, <1>4, <1>5 DEF InstallInv

\* So do the operator who unlocks, a Core that dies, and a step of something else.
LEMMA AsideKeeps ==
  ASSUME InstallInv, Unlock \/ CoreDies \/ UNCHANGED installVars
  PROVE  InstallInv'
<1>0. UNCHANGED <<target, backup, owned, pm, bare, lost>>
  BY DEF Unlock, CoreDies, installVars
<1>1. /\ PackageSurvives' /\ ClosureHolds'
      /\ \A p \in Packages : \A x : Before(p, x) => Before(p, x)'
      /\ \A p \in Packages : \A x : Suits(p, x) => Suits(p, x)'
      /\ NoBackups => NoBackups'
  BY <1>0, RootStays
<1>3. PmShape'
  BY <1>0 DEF PmShape, InstallInv
<1>4. WhereInstalling'
  <2> SUFFICES ASSUME NEW p \in Packages, NEW v \in Releases, OnPackage(p, v)'
               PROVE  InstallPoint(p, v)'
    BY DEF WhereInstalling
  <2>1. InstallPoint(p, v)
    BY <1>0 DEF InstallInv, WhereInstalling, OnPackage
  <2>2. QED
    BY <1>0, <1>1, <2>1 DEF InstallPoint
<1>5. InstallTypeOK'
  <2>1. deaths' \in 0 .. MaxDeaths
    BY InstallAssumption DEF Unlock, CoreDies, installVars, InstallInv, InstallTypeOK
  <2>2. lockFile' \in BOOLEAN /\ core' \in {"idle"} \union Packages /\ operations' = operations
    BY DEF Unlock, CoreDies, installVars, InstallInv, InstallTypeOK
  <2>3. QED BY <1>0, <2>1, <2>2 DEF InstallInv, InstallTypeOK
<1>6. QED BY <1>1, <1>3, <1>4, <1>5 DEF InstallInv

\* What a step of recovery does to one package.
Recovers(p) ==
    \/ PutBack(p)
    \/ Clears(p) /\ BreakBackup(p) /\ UNCHANGED target

\* Putting a backup back, or removing one, changes nothing of what is present.
LEMMA RecoveryKeeps ==
  ASSUME InstallInv, NEW p \in Packages,
         \/ Recovers(p)
         \/ DropBackup(p) /\ UNCHANGED target,
         UNCHANGED <<owned, lost>>
  PROVE  /\ target' \in [Packages -> Held] /\ backup' \in [Packages -> Held]
         /\ PackageSurvives' /\ ClosureHolds'
         /\ \A q \in Packages : Present(q)' = Present(q)
         /\ NoBackups => NoBackups'
<1> USE DEF InstallInv
<1>0. target \in [Packages -> Held] /\ backup \in [Packages -> Held]
  BY DEF InstallTypeOK
<1>1. target' \in [Packages -> Held] /\ backup' \in [Packages -> Held]
  BY <1>0 DEF Recovers, PutBack, BreakBackup, DropBackup, Held
<1>2. ASSUME NEW q \in Packages
      PROVE  /\ Present(q)' = Present(q)
             /\ Whole(target[q]) \/ Whole(backup[q]) => Whole(target'[q]) \/ Whole(backup'[q])
             /\ backup[q] = Missing => backup'[q] = Missing
  <2>1. CASE Recovers(p)
    BY <1>0, <2>1, InstallAssumption
       DEF Recovers, PutBack, PutsBack, Clears, BreakBackup, Whole, Present,
           Releases, Missing, Broken
  <2>2. CASE DropBackup(p) /\ UNCHANGED target
    BY <1>0, <2>2, InstallAssumption
       DEF DropBackup, Whole, Present, Releases, Missing, Broken
  <2>3. QED BY <2>1, <2>2
<1>3. ClosureHolds'
  BY <1>2, ClosureStays
<1>4. QED
  BY <1>1, <1>2, <1>3 DEF PackageSurvives, NoBackups, InstallTypeOK

\* Recovery at the beginning of an operation keeps the invariant,
LEMMA ManagerRecovers ==
  ASSUME InstallInv, Recover
  PROVE  InstallInv'
<1> USE DEF InstallInv
<1>0. pm.at = "locked" /\ UNCHANGED <<lockFile, core, owned, bare, lost, operations, deaths>>
  BY DEF Recover
<1>1. pm \in [at : Points, op : Ops, pkg : Packages, version : Releases]
  BY <1>0 DEF PmShape, NoOperation
<1>2. ASSUME target' \in [Packages -> Held], backup' \in [Packages -> Held], PmShape'
      PROVE  InstallTypeOK'
  <2>1. \/ pm' = NoOperation
        \/ /\ pm'.at \in Points \union {"clearing"} /\ pm'.op \in Ops
           /\ pm'.pkg \in Packages /\ pm'.version \in Releases
    BY <1>2 DEF PmShape
  <2>2. QED
    BY <1>0, <1>2, <2>1 DEF InstallTypeOK, Points, Ops
<1>3. ASSUME NEW p \in Packages, PutBack(p), UNCHANGED pm PROVE InstallInv'
  <2>1. /\ target' \in [Packages -> Held] /\ backup' \in [Packages -> Held]
        /\ PackageSurvives' /\ ClosureHolds'
    BY <1>0, <1>3, RecoveryKeeps DEF Recovers
  <2>2. PmShape' /\ WhereInstalling'
    BY <1>0, <1>3, RestsAt DEF PmShape
  <2>3. QED BY <1>2, <2>1, <2>2
<1>4. ASSUME NEW p \in Packages, Clears(p), BreakBackup(p), UNCHANGED target,
             pm' = [at |-> "clearing", op |-> pm.op, pkg |-> pm.pkg, version |-> pm.version,
                    clears |-> p]
      PROVE InstallInv'
  <2>1. /\ target' \in [Packages -> Held] /\ backup' \in [Packages -> Held]
        /\ PackageSurvives' /\ ClosureHolds'
    BY <1>0, <1>4, RecoveryKeeps DEF Recovers
  <2>2. PmShape' /\ WhereInstalling'
    BY <1>1, <1>4, RestsAt DEF PmShape
  <2>3. QED BY <1>2, <2>1, <2>2
<1>5. ASSUME Go("done"), UNCHANGED <<target, backup>> PROVE InstallInv'
  <2>1. PackageSurvives' /\ ClosureHolds'
    BY <1>0, <1>5, RootStays
  <2>2. PmShape' /\ pm'.at = "done"
    BY <1>0, <1>5, ItGoes DEF Points
  <2>3. WhereInstalling'
    BY <2>2, RestsAt
  <2>4. target' \in [Packages -> Held] /\ backup' \in [Packages -> Held]
    BY <1>5 DEF InstallTypeOK
  <2>5. QED BY <1>2, <2>1, <2>2, <2>3, <2>4
<1>6. ASSUME NoBackups, Go("recovered"), UNCHANGED <<target, backup>> PROVE InstallInv'
  <2>1. PackageSurvives' /\ ClosureHolds' /\ NoBackups'
    BY <1>0, <1>6, RootStays
  <2>2. PmShape' /\ pm'.at = "recovered"
    BY <1>0, <1>6, ItGoes DEF Points
  <2>3. WhereInstalling'
    BY <2>1, <2>2 DEF WhereInstalling, InstallPoint
  <2>4. target' \in [Packages -> Held] /\ backup' \in [Packages -> Held]
    BY <1>6 DEF InstallTypeOK
  <2>5. QED BY <1>2, <2>1, <2>2, <2>3, <2>4
<1>7. QED
  BY <1>3, <1>4, <1>5, <1>6 DEF Recover, NoBackups

\* and the second half of the removal of a backup does.
LEMMA ManagerClears ==
  ASSUME InstallInv, Cleared
  PROVE  InstallInv'
<1> USE DEF InstallInv
<1>0. /\ pm.at = "clearing" /\ UNCHANGED <<target, lockFile, core, owned, bare, lost, operations, deaths>>
      /\ DropBackup(pm.clears)
      /\ pm' = [at |-> "locked", op |-> pm.op, pkg |-> pm.pkg, version |-> pm.version]
  BY DEF Cleared, Operation
<1>1. pm \in [at : {"clearing"}, op : Ops, pkg : Packages, version : Releases, clears : Packages]
  BY <1>0 DEF PmShape, NoOperation, Points
<1>2. /\ target' \in [Packages -> Held] /\ backup' \in [Packages -> Held]
      /\ PackageSurvives' /\ ClosureHolds'
  BY <1>0, <1>1, RecoveryKeeps
<1>3. PmShape' /\ WhereInstalling'
  BY <1>0, <1>1, RestsAt DEF PmShape, Points
<1>4. InstallTypeOK'
  BY <1>0, <1>1, <1>2 DEF InstallTypeOK, Ops
<1>5. QED BY <1>2, <1>3, <1>4

\* A Core that recovers the root under an operation keeps the invariant: what the operation
\* relies on is not what Core moves, or the package is bare.
LEMMA CoreRecoversKeeps ==
  ASSUME InstallInv, CoreRecovers
  PROVE  InstallInv'
<1> USE DEF InstallInv
<1>1. PICK c \in Packages :
        /\ Recovers(c) /\ core' \in {core, c}
        /\ \/ PutBack(c) /\ bare' = bare
           \/ /\ Clears(c) /\ BreakBackup(c) /\ UNCHANGED target
              /\ bare' = (bare \/ BeingReadBack(c))
  BY DEF CoreRecovers, Recovers
<1>2. UNCHANGED <<lockFile, pm, owned, lost, operations, deaths>>
  BY DEF CoreRecovers
<1>3. /\ target' \in [Packages -> Held] /\ backup' \in [Packages -> Held]
      /\ PackageSurvives' /\ ClosureHolds'
      /\ \A q \in Packages : Present(q)' = Present(q)
      /\ NoBackups => NoBackups'
  BY <1>1, <1>2, RecoveryKeeps
<1>4. PmShape' /\ bare' \in BOOLEAN
  BY <1>1, <1>2 DEF PmShape, InstallTypeOK, BeingReadBack
<1>5. InstallTypeOK'
  BY <1>1, <1>2, <1>3, <1>4 DEF InstallTypeOK
<1>6. ASSUME NEW p \in Packages, NEW v \in Releases, OnPackage(p, v)' PROVE InstallPoint(p, v)'
  <2>1. InstallPoint(p, v) /\ pm.pkg = p
    BY <1>2, <1>6 DEF WhereInstalling, OnPackage
  <2>2. \A x : Before(p, x) => Before(p, x)'
    BY <1>2, <1>3, BeforeStays
  <2>3. Suits(p, Missing) => Suits(p, Missing)'
    BY <1>2, <1>3 DEF Suits
  <2>4. target \in [Packages -> Held] /\ backup \in [Packages -> Held] /\ Missing # Broken
        /\ Missing \notin Releases /\ Broken \notin Releases
    BY InstallAssumption DEF InstallTypeOK, Releases, Missing, Broken
  <2>5. target[p] # Missing => target'[p] = target[p]
    BY <1>1, <2>4 DEF PutBack, PutsBack
  <2>6. CASE c # p
    <3>1. target'[p] = target[p] /\ backup'[p] = backup[p]
      BY <1>1, <2>4, <2>6 DEF PutBack, BreakBackup
    <3>2. pm.at \in {"put", "undo"} => bare' = bare
      BY <1>1, <2>1, <2>6 DEF BeingReadBack, InstallTypeOK
    <3> QED
      BY <1>2, <1>3, <2>1, <2>2, <2>3, <3>1, <3>2 DEF InstallPoint
  <2>7. CASE c = p /\ PutBack(c)
    <3>1. /\ target[p] = Missing /\ Whole(backup[p]) /\ target'[p] = backup[p]
          /\ backup'[p] = Missing
      BY <2>4, <2>7 DEF PutBack, PutsBack
    <3>2. pm.at \notin {"put", "checked", "removing", "undo", "undoing", "deleting"}
      BY <2>1, <2>4, <3>1 DEF InstallPoint, Whole
    <3>3. ~NoBackups
      BY <2>4, <3>1 DEF NoBackups, Whole
    <3> QED
      BY <1>2, <2>1, <2>2, <2>4, <3>1, <3>2, <3>3 DEF InstallPoint
  <2>8. CASE c = p /\ Clears(c) /\ BreakBackup(c) /\ UNCHANGED target
                   /\ bare' = (bare \/ BeingReadBack(c))
    <3>1. Whole(target[p]) /\ Whole(backup[p]) /\ backup'[p] = Broken /\ target'[p] = target[p]
      BY <2>4, <2>8 DEF Clears, BreakBackup, Whole
    <3>2. pm.at \notin {"moved", "undoing", "deleting"} /\ ~NoBackups
      BY <2>1, <2>4, <3>1 DEF InstallPoint, Whole, NoBackups
    <3>3. pm.at \in {"put", "undo"} => bare'
      BY <2>1, <2>8 DEF BeingReadBack
    <3>4. ~Whole(backup'[p])
      BY <2>4, <3>1 DEF Whole
    <3> QED
      BY <1>2, <2>1, <3>1, <3>2, <3>3, <3>4 DEF InstallPoint
  <2> QED
    BY <1>1, <2>6, <2>7, <2>8
<1>7. QED BY <1>3, <1>4, <1>5, <1>6 DEF WhereInstalling

\* The second half of a removal by Core keeps it as well.
LEMMA CoreClearsKeeps ==
  ASSUME InstallInv, CoreClears
  PROVE  InstallInv'
<1> USE DEF InstallInv
<1>2. core \in Packages /\ DropBackup(core) /\ core' = "idle"
      /\ UNCHANGED <<target, lockFile, pm, owned, bare, lost, operations, deaths>>
  BY DEF CoreClears
<1>3. /\ target' \in [Packages -> Held] /\ backup' \in [Packages -> Held]
      /\ PackageSurvives' /\ ClosureHolds'
      /\ \A q \in Packages : Present(q)' = Present(q)
      /\ NoBackups => NoBackups'
  BY <1>2, RecoveryKeeps
<1>4. PmShape'
  BY <1>2 DEF PmShape
<1>5. InstallTypeOK'
  BY <1>2, <1>3 DEF InstallTypeOK
<1>6. ASSUME NEW p \in Packages, NEW v \in Releases, OnPackage(p, v)' PROVE InstallPoint(p, v)'
  <2>1. InstallPoint(p, v)
    BY <1>2, <1>6 DEF WhereInstalling, OnPackage
  <2>2. \A x : Before(p, x) => Before(p, x)'
    BY <1>2, <1>3, BeforeStays
  <2>3. Suits(p, Missing) => Suits(p, Missing)'
    BY <1>2, <1>3 DEF Suits
  <2>4. /\ backup[p] # Broken => backup'[p] = backup[p]
        /\ ~Whole(backup[p]) => ~Whole(backup'[p])
        /\ backup[p] = Missing => backup'[p] = Missing
    BY <1>2, InstallAssumption DEF DropBackup, InstallTypeOK, Whole, Releases, Missing, Broken
  <2>5. QED
    BY <1>2, <1>3, <2>1, <2>2, <2>3, <2>4 DEF InstallPoint
<1>7. QED BY <1>3, <1>4, <1>5, <1>6 DEF WhereInstalling

\* The shape of the operation and the domains of the root make the types.
LEMMA ShapeTypes ==
  ASSUME PmShape', UNCHANGED <<lockFile, core, operations, deaths>>, InstallTypeOK,
         bare' \in BOOLEAN, lost' \subseteq Packages,
         target' \in [Packages -> Held], backup' \in [Packages -> Held], owned' \subseteq Packages
  PROVE  InstallTypeOK'
<1>1. \/ pm' = NoOperation
      \/ /\ pm'.at \in Points \union {"clearing"} /\ pm'.op \in Ops
         /\ pm'.pkg \in Packages /\ pm'.version \in Releases
  BY DEF PmShape
<1>2. QED
  BY <1>1 DEF InstallTypeOK, Points, Ops

\* A step of the package manager on its package p.
LEMMA ManagerSteps ==
  ASSUME InstallInv, pm.at \in Points, NEW a \in Points, Go(a),
         UNCHANGED <<lockFile, core, operations, deaths>>,
         bare' \in BOOLEAN, lost' \subseteq Packages,
         target' \in [Packages -> Held], backup' \in [Packages -> Held], owned' \subseteq Packages,
         PackageSurvives', ClosureHolds',
         \A p \in Packages, v \in Releases :
            OnPackage(p, v) /\ pm'.at = a /\ pm'.op = pm.op => InstallPoint(p, v)'
  PROVE  InstallInv'
<1>1. pm.at \notin {"idle", "clearing"}
  BY DEF Points
<1>2. /\ PmShape' /\ pm'.at = a /\ pm'.op = pm.op /\ pm'.pkg = pm.pkg /\ pm'.version = pm.version
      /\ pm # NoOperation
  BY <1>1, ItGoes DEF InstallInv
<1>3. WhereInstalling'
  BY <1>2 DEF WhereInstalling, OnPackage
<1>4. InstallTypeOK'
  BY <1>2, ShapeTypes DEF InstallInv
<1>5. QED BY <1>2, <1>3, <1>4 DEF InstallInv

\* What the checks of an operation let through is closed afterwards: resolveDependencies
\* and validateDependents look at all that matters.
LEMMA AllowedIsSound ==
  ASSUME InstallInv, NoBackups, Allowed, pm.at = "recovered",
         NEW p \in Packages, NEW v \in Releases, OnPackage(p, v)
  PROVE  /\ pm.op = "uninstall" => Suits(p, Missing)
         /\ pm.op # "uninstall" => Before(p, v) /\ target[p] # Broken
<1> USE DEF InstallInv
<1>0. pm \in [at : Points, op : Ops, pkg : Packages, version : Releases]
  BY DEF PmShape, NoOperation
<1>1. ASSUME NEW q \in Packages
      PROVE  /\ Whole(Present(q)) <=> Whole(target[q])
             /\ Whole(target[q]) => Present(q) = target[q]
             /\ ~Whole(target[q]) => Present(q) = Missing
  BY <1>1, InstallAssumption DEF NoBackups, Present, Whole, Releases, Missing
<1>2. CASE pm.op = "uninstall"
  <2>1. NoDependents(p)
    BY <1>2 DEF Allowed, OnPackage
  <2>2. Suits(p, Missing)
    BY <1>1, <2>1 DEF NoDependents, Suits, Installed
  <2>3. QED BY <1>2, <2>2
<1>3. CASE pm.op \in {"install", "upgrade"}
  <2>1. /\ Resolved(p, v) /\ target[p] # Broken
        /\ target[p] = Missing \/ DependentsAllow(p, v)
    <3>1. CASE pm.op = "install"
      BY <3>1 DEF Allowed, OnPackage
    <3>2. CASE pm.op = "upgrade"
      <4>1. Whole(target[p]) /\ Resolved(p, v) /\ DependentsAllow(p, v)
        BY <3>2 DEF Allowed, OnPackage
      <4>2. QED BY <4>1, InstallAssumption DEF Whole, Releases, Broken
    <3>3. QED BY <1>3, <3>1, <3>2
  <2>2. Fits(p, v)
    <3>1. SUFFICES ASSUME NEW d \in DOMAIN Needs[p][v] PROVE Present(d) \in Needs[p][v][d]
      BY DEF Fits
    <3>2. d \in Packages /\ Needs[p][v][d] \subseteq Releases /\ target[d] \in Needs[p][v][d]
      BY <2>1, InstallAssumption DEF Resolved
    <3>3. QED BY <1>1, <3>2 DEF Whole
  <2>3. Suits(p, v)
    <3>1. CASE DependentsAllow(p, v)
      BY <1>1, <3>1 DEF DependentsAllow, Suits, Installed
    <3>2. CASE target[p] = Missing
      <4>1. Present(p) = Missing /\ Missing \notin Releases
        BY <1>1, <3>2, InstallAssumption DEF Whole, Releases, Missing
      <4>2. ASSUME NEW q \in Packages \ {p}, p \notin lost, Whole(Present(q)),
                   p \in DOMAIN Needs[q][Present(q)]
            PROVE  FALSE
        <5>1. Present(p) \in Needs[q][Present(q)][p]
          BY <4>2 DEF ClosureHolds
        <5>2. Needs[q][Present(q)][p] \subseteq Releases
          BY <4>2, InstallAssumption DEF Whole
        <5>3. QED BY <4>1, <5>1, <5>2
      <4>3. QED BY <4>2 DEF Suits
    <3>3. QED BY <2>1, <3>1, <3>2
  <2>4. QED BY <1>3, <2>1, <2>2, <2>3 DEF Before
<1>4. QED BY <1>0, <1>2, <1>3 DEF Ops

\* The checks keep the invariant, and establish what the later points rely on.
LEMMA CheckKeeps ==
  ASSUME InstallInv, CheckOperation
  PROVE  InstallInv'
<1>0. /\ pm.at = "recovered"
      /\ UNCHANGED <<target, backup, lockFile, core, owned, bare, lost, operations, deaths>>
  BY DEF CheckOperation
<1>1. pm \in [at : Points, op : Ops, pkg : Packages, version : Releases]
  BY <1>0 DEF InstallInv, PmShape, NoOperation
<1>2. OnPackage(pm.pkg, pm.version) /\ pm.pkg \in Packages /\ pm.version \in Releases /\ pm.at \in Points
  BY <1>0, <1>1 DEF OnPackage, NoOperation
<1>3. NoBackups
  BY <1>0, <1>2 DEF InstallInv, WhereInstalling, InstallPoint
<1>4. /\ PackageSurvives' /\ ClosureHolds' /\ NoBackups'
      /\ \A p \in Packages : \A x : Before(p, x) => Before(p, x)'
      /\ \A p \in Packages : \A x : Suits(p, x) => Suits(p, x)'
  BY <1>0, <1>3, RootStays
<1>5. target' \in [Packages -> Held] /\ backup' \in [Packages -> Held] /\ owned' \subseteq Packages
      /\ bare' \in BOOLEAN /\ lost' \subseteq Packages
  BY <1>0 DEF InstallInv, InstallTypeOK
<1>6. CASE Allowed /\ Go("allowed")
  <2>1. ASSUME NEW p \in Packages, NEW v \in Releases, OnPackage(p, v),
               pm'.at = "allowed", pm'.op = pm.op
        PROVE  InstallPoint(p, v)'
    <3>1. /\ pm.op = "uninstall" => Suits(p, Missing)
          /\ pm.op # "uninstall" => Before(p, v) /\ target[p] # Broken
      BY <1>0, <1>3, <1>6, <2>1, AllowedIsSound
    <3>2. QED BY <1>0, <1>4, <2>1, <3>1 DEF InstallPoint
  <2>2. "allowed" \in Points
    BY DEF Points
  <2>3. QED BY <1>0, <1>2, <1>4, <1>5, <1>6, <2>1, <2>2, ManagerSteps
<1>7. CASE Go("done")
  <2>1. ASSUME NEW p \in Packages, NEW v \in Releases, pm'.at = "done" PROVE InstallPoint(p, v)'
    BY <2>1 DEF InstallPoint
  <2>2. "done" \in Points
    BY DEF Points
  <2>3. QED BY <1>0, <1>2, <1>4, <1>5, <1>7, <2>1, <2>2, ManagerSteps
<1>8. QED BY <1>6, <1>7 DEF CheckOperation

\* What every step from a point of the package manager starts from.
LEMMA AtWork ==
  ASSUME InstallInv, pm.at \in Points
  PROVE  /\ OnPackage(pm.pkg, pm.version) /\ InstallPoint(pm.pkg, pm.version)
         /\ pm.pkg \in Packages /\ pm.version \in Releases /\ pm.op \in Ops
         /\ target \in [Packages -> Held] /\ backup \in [Packages -> Held] /\ owned \subseteq Packages
         /\ bare \in BOOLEAN /\ lost \subseteq Packages
<1>1. pm \in [at : Points, op : Ops, pkg : Packages, version : Releases]
  BY DEF InstallInv, PmShape, NoOperation, Points
<1>2. OnPackage(pm.pkg, pm.version)
  BY <1>1 DEF OnPackage, NoOperation, Points
<1>3. QED
  BY <1>1, <1>2 DEF InstallInv, WhereInstalling, InstallTypeOK

\* Moving the old directory aside keeps the invariant: the package is whole in its backup.
LEMMA ReserveKeeps ==
  ASSUME InstallInv, ReserveBackup
  PROVE  InstallInv'
<1>0. /\ pm.at = "allowed" /\ pm.op # "uninstall" /\ Go("moved") /\ pm.at \in Points
      /\ UNCHANGED <<lockFile, core, owned, bare, lost, operations, deaths>>
  BY DEF ReserveBackup, Points
<1>p. PICK p \in Packages, v \in Releases : p = pm.pkg /\ v = pm.version
  BY <1>0, AtWork
<1>1. /\ OnPackage(p, v) /\ InstallPoint(p, v)
      /\ target \in [Packages -> Held] /\ backup \in [Packages -> Held] /\ owned \subseteq Packages
      /\ bare \in BOOLEAN /\ lost \subseteq Packages
  BY <1>0, <1>p, AtWork
<1>2. NoBackups /\ target[p] # Broken /\ Before(p, v)
  BY <1>0, <1>1 DEF InstallPoint
<1>3. \/ target[p] = Missing /\ UNCHANGED <<target, backup>>
      \/ target[p] # Missing /\ MoveAsideRenamed(p)
  BY <1>p DEF ReserveBackup, MoveAside
<1>4. target' \in [Packages -> Held] /\ backup' \in [Packages -> Held]
  BY <1>1, <1>3 DEF MoveAsideRenamed, Held
<1>5. ASSUME NEW q \in Packages
      PROVE  /\ Present(q)' = Present(q)
             /\ Whole(target[q]) \/ Whole(backup[q]) => Whole(target'[q]) \/ Whole(backup'[q])
             /\ backup'[q] # Broken /\ target'[p] = Missing
  BY <1>1, <1>2, <1>3, <1>5, InstallAssumption
     DEF MoveAsideRenamed, NoBackups, Present, Whole, Held, Releases, Missing, Broken
<1>6. ClosureHolds'
  BY <1>0, <1>5, ClosureStays DEF InstallInv
<1>7. PackageSurvives'
  BY <1>0, <1>1, <1>5 DEF InstallInv, PackageSurvives
<1>8. Before(p, v)'
  BY <1>0, <1>1, <1>2, <1>5, BeforeStays
<1>9. ASSUME NEW r \in Packages, NEW u \in Releases, OnPackage(r, u), pm'.at = "moved"
      PROVE  InstallPoint(r, u)'
  <2>1. r = p /\ u = v
    BY <1>1, <1>9 DEF OnPackage
  <2>2. QED BY <1>1, <1>5, <1>8, <1>9, <2>1 DEF InstallPoint
<1>10. "moved" \in Points
  BY DEF Points
<1>11. owned' \subseteq Packages
  BY <1>0, <1>1
<1>12. QED BY <1>0, <1>1, <1>4, <1>6, <1>7, <1>9, <1>10, <1>11, ManagerSteps

\* Moving the staged directory in keeps it.
LEMMA PublishKeeps ==
  ASSUME InstallInv, Publish
  PROVE  InstallInv'
<1>0. /\ pm.at = "moved" /\ pm.at \in Points /\ "put" \in Points /\ "done" \in Points
      /\ UNCHANGED <<backup, lockFile, core, owned, lost, operations, deaths>>
  BY DEF Publish, Points
<1>p. PICK p \in Packages, v \in Releases : p = pm.pkg /\ v = pm.version
  BY <1>0, AtWork
<1>1. /\ OnPackage(p, v) /\ InstallPoint(p, v)
      /\ target \in [Packages -> Held] /\ backup \in [Packages -> Held] /\ owned \subseteq Packages
      /\ bare \in BOOLEAN /\ lost \subseteq Packages
  BY <1>0, <1>p, AtWork
<1>2. Before(p, v) /\ backup[p] # Broken
  BY <1>0, <1>1 DEF InstallPoint
<1>3. \/ /\ target[p] = Missing /\ target' = [target EXCEPT ![p] = v] /\ bare' = FALSE
         /\ Go("put")
      \/ target[p] # Missing /\ UNCHANGED <<target, bare>> /\ Go("done")
  BY <1>p DEF Publish
<1>4. owned' \subseteq Packages /\ backup' \in [Packages -> Held] /\ bare' \in BOOLEAN
      /\ lost' \subseteq Packages
  BY <1>0, <1>1, <1>3
<1>5. CASE target[p] # Missing /\ UNCHANGED <<target, bare>> /\ Go("done")
  <2>1. PackageSurvives' /\ ClosureHolds'
    BY <1>0, <1>5, RootStays
  <2>2. ASSUME NEW r \in Packages, NEW u \in Releases, pm'.at = "done" PROVE InstallPoint(r, u)'
    BY <2>2 DEF InstallPoint
  <2>3. target' \in [Packages -> Held]
    BY <1>1, <1>5
  <2>4. QED BY <1>0, <1>4, <1>5, <2>1, <2>2, <2>3, ManagerSteps
<1>6. CASE /\ target[p] = Missing /\ target' = [target EXCEPT ![p] = v] /\ bare' = FALSE
           /\ Go("put")
  <2>1. /\ target' \in [Packages -> Held] /\ target'[p] = v /\ Whole(v)
        /\ Present(p)' = v /\ Whole(target'[p])
    BY <1>1, <1>6 DEF Held, Present, Whole
  <2>2. ASSUME NEW q \in Packages \ {p} PROVE Present(q)' = Present(q) /\ target'[q] = target[q]
    BY <1>0, <1>1, <1>6, <2>2 DEF Present
  <2>3. ClosureHolds'
    BY <1>0, <1>1, <1>2, <2>1, <2>2, ClosureAfter DEF InstallInv
  <2>4. PackageSurvives'
    BY <1>0, <1>1, <2>1, <2>2 DEF InstallInv, PackageSurvives
  <2>5. Present(p) = backup[p]
    BY <1>1, <1>2, <1>6, InstallAssumption DEF Present, Whole, Releases, Missing, Held
  <2>6. Before(p, backup[p])
    BY <1>1, <2>5, ClosureNow DEF InstallInv
  <2>7. ASSUME NEW x, x = backup[p] PROVE Before(p, x)'
    BY <1>0, <1>1, <2>2, <2>6, <2>7, BeforeStays
  <2>8. p \in owned \ lost => Whole(backup[p])
    BY <1>6, InstallAssumption DEF InstallInv, PackageSurvives, Whole, Releases, Missing
  <2>9. ASSUME NEW r \in Packages, NEW u \in Releases, OnPackage(r, u), pm'.at = "put"
        PROVE  InstallPoint(r, u)'
    <3>1. r = p /\ u = v
      BY <1>1, <2>9 DEF OnPackage
    <3>2. QED BY <1>0, <1>2, <1>6, <2>1, <2>7, <2>8, <2>9, <3>1 DEF InstallPoint
  <2>10. QED BY <1>0, <1>4, <1>6, <2>1, <2>3, <2>4, <2>9, ManagerSteps
<1>7. QED BY <1>3, <1>5, <1>6

\* Reading the new directory back keeps it: only then is the package counted as installed.
LEMMA ReadBackKeeps ==
  ASSUME InstallInv, ReadBack
  PROVE  InstallInv'
<1>0. /\ pm.at = "put" /\ pm.at \in Points /\ "checked" \in Points /\ "undo" \in Points
      /\ UNCHANGED <<target, backup, lockFile, core, bare, lost, operations, deaths>>
  BY DEF ReadBack, Points
<1>p. PICK p \in Packages, v \in Releases : p = pm.pkg /\ v = pm.version
  BY <1>0, AtWork
<1>1. /\ OnPackage(p, v) /\ InstallPoint(p, v)
      /\ target \in [Packages -> Held] /\ backup \in [Packages -> Held] /\ owned \subseteq Packages
      /\ bare \in BOOLEAN /\ lost \subseteq Packages
  BY <1>0, <1>p, AtWork
<1>2. target' \in [Packages -> Held] /\ backup' \in [Packages -> Held]
      /\ bare' \in BOOLEAN /\ lost' \subseteq Packages
  BY <1>0, <1>1
<1>3. \A q \in Packages : Present(q)' = Present(q)
  BY <1>0 DEF Present
<1>4. ClosureHolds'
  BY <1>0, <1>3, ClosureStays DEF InstallInv
<1>5. CASE Go("checked") /\ owned' = owned \union {p}
  <2>1. Whole(target[p])
    BY <1>0, <1>1 DEF InstallPoint
  <2>2. PackageSurvives'
    BY <1>0, <1>5, <2>1 DEF InstallInv, PackageSurvives
  <2>3. ASSUME NEW r \in Packages, NEW u \in Releases, OnPackage(r, u), pm'.at = "checked"
        PROVE  InstallPoint(r, u)'
    <3>1. r = p
      BY <1>1, <2>3 DEF OnPackage
    <3>2. QED BY <1>0, <2>1, <2>3, <3>1 DEF InstallPoint
  <2>4. owned' \subseteq Packages
    BY <1>1, <1>5
  <2>5. QED BY <1>0, <1>2, <1>4, <1>5, <2>2, <2>3, <2>4, ManagerSteps
<1>6. CASE Go("undo") /\ UNCHANGED owned
  <2>2. /\ Whole(target[p]) /\ (bare => ~Whole(backup[p]))
        /\ ~bare => backup[p] # Broken /\ (p \in owned \ lost => Whole(backup[p]))
                    /\ Before(p, backup[p])
    BY <1>0, <1>1 DEF InstallPoint
  <2>3. ASSUME NEW x, x = backup[p], ~bare PROVE Before(p, x)'
    BY <1>0, <1>3, <2>2, <2>3, BeforeStays
  <2>4. PackageSurvives'
    BY <1>0, <1>6 DEF InstallInv, PackageSurvives
  <2>5. ASSUME NEW r \in Packages, NEW u \in Releases, OnPackage(r, u), pm'.at = "undo"
        PROVE  InstallPoint(r, u)'
    <3>1. r = p
      BY <1>1, <2>5 DEF OnPackage
    <3>2. QED BY <1>0, <1>6, <2>2, <2>3, <2>5, <3>1 DEF InstallPoint
  <2>6. owned' \subseteq Packages
    BY <1>1, <1>6
  <2>7. QED BY <1>0, <1>2, <1>4, <1>6, <2>4, <2>5, <2>6, ManagerSteps
<1>7. QED BY <1>p, <1>5, <1>6 DEF ReadBack

\* Removing the backup keeps it: the new directory is whole.
LEMMA RemoveBackupKeeps ==
  ASSUME InstallInv, RemoveBackup
  PROVE  InstallInv'
<1>0. /\ pm.at \in {"checked", "removing"} /\ pm.at \in Points
      /\ "removing" \in Points /\ "done" \in Points
      /\ UNCHANGED <<target, lockFile, core, owned, bare, lost, operations, deaths>>
  BY DEF RemoveBackup, Points
<1>p. PICK p \in Packages, v \in Releases : p = pm.pkg /\ v = pm.version
  BY <1>0, AtWork
<1>1. /\ OnPackage(p, v) /\ InstallPoint(p, v)
      /\ target \in [Packages -> Held] /\ backup \in [Packages -> Held] /\ owned \subseteq Packages
      /\ bare \in BOOLEAN /\ lost \subseteq Packages
  BY <1>0, <1>p, AtWork
<1>2. Whole(target[p])
  BY <1>0, <1>1 DEF InstallPoint
<1>3. owned' \subseteq Packages
  BY <1>0, <1>1
<1>4. CASE BreakBackup(p) /\ Go("removing")
  <2>1. backup' \in [Packages -> Held] /\ target' \in [Packages -> Held]
    BY <1>0, <1>1, <1>4 DEF BreakBackup, Held
  <2>2. ASSUME NEW q \in Packages
        PROVE  /\ Present(q)' = Present(q)
               /\ Whole(target[q]) \/ Whole(backup[q]) => Whole(target'[q]) \/ Whole(backup'[q])
    BY <1>0, <1>1, <1>2, <1>4 DEF BreakBackup, Present, InstallInv
  <2>3. ClosureHolds' /\ PackageSurvives'
    BY <1>0, <1>1, <2>2, ClosureStays DEF InstallInv, PackageSurvives
  <2>4. ASSUME NEW r \in Packages, NEW u \in Releases, OnPackage(r, u), pm'.at = "removing"
        PROVE  InstallPoint(r, u)'
    <3>1. r = p
      BY <1>1, <2>4 DEF OnPackage
    <3>2. QED BY <1>0, <1>2, <2>4, <3>1 DEF InstallPoint
  <2>5. QED BY <1>0, <1>1, <1>3, <1>4, <2>1, <2>3, <2>4, ManagerSteps
<1>5. CASE DropBackup(p) /\ Go("done")
  <2>1. /\ target' \in [Packages -> Held] /\ backup' \in [Packages -> Held]
        /\ PackageSurvives' /\ ClosureHolds'
    BY <1>0, <1>5, RecoveryKeeps
  <2>2. ASSUME NEW r \in Packages, NEW u \in Releases, pm'.at = "done" PROVE InstallPoint(r, u)'
    BY <2>2 DEF InstallPoint
  <2>3. QED BY <1>0, <1>1, <1>3, <1>5, <2>1, <2>2, ManagerSteps
<1>6. QED BY <1>p, <1>4, <1>5 DEF RemoveBackup

\* Undoing keeps it: what is put back is what suited the others before.
LEMMA RestoreKeeps ==
  ASSUME InstallInv, Restore
  PROVE  InstallInv'
<1>0. /\ pm.at \in {"undo", "undoing", "restore"} /\ pm.at \in Points
      /\ "undoing" \in Points /\ "restore" \in Points /\ "done" \in Points
      /\ UNCHANGED <<lockFile, core, owned, bare, operations, deaths>>
  BY DEF Restore, Points
<1>p. PICK p \in Packages, v \in Releases : p = pm.pkg /\ v = pm.version
  BY <1>0, AtWork
<1>1. /\ OnPackage(p, v) /\ InstallPoint(p, v)
      /\ target \in [Packages -> Held] /\ backup \in [Packages -> Held] /\ owned \subseteq Packages
      /\ bare \in BOOLEAN /\ lost \subseteq Packages
  BY <1>0, <1>p, AtWork
<1>3. owned' \subseteq Packages /\ bare' \in BOOLEAN
  BY <1>0, <1>1
<1>4. CASE /\ pm.at = "undo" /\ Go("undoing")
           /\ target' = [target EXCEPT ![p] = Broken] /\ UNCHANGED backup
           /\ lost' = IF bare THEN lost \union {p} ELSE lost
  <2>1. /\ bare => ~Whole(backup[p])
        /\ ~bare => backup[p] # Broken /\ (p \in owned \ lost => Whole(backup[p]))
                    /\ Before(p, backup[p])
        /\ lost \subseteq lost' /\ lost' \subseteq Packages /\ (bare => p \in lost')
        /\ ~bare => lost' = lost
    BY <1>1, <1>4 DEF InstallPoint
  <2>2. target' \in [Packages -> Held] /\ backup' \in [Packages -> Held] /\ target'[p] = Broken
    BY <1>1, <1>4 DEF Held
  <2>3. ASSUME NEW q \in Packages \ {p} PROVE Present(q)' = Present(q) /\ target'[q] = target[q]
    BY <1>1, <1>4, <2>3 DEF Present
  <2>4. Present(p)' = IF Whole(backup[p]) THEN backup[p] ELSE Missing
    BY <1>4, <2>2, InstallAssumption DEF Present, Whole, Releases, Broken
  <2>5. ClosureHolds'
    <3>1. CASE bare
      <4>1. ~Whole(Present(p)')
        BY <2>1, <2>4, <3>1, InstallAssumption DEF Whole, Releases, Missing
      <4>2. ASSUME NEW q \in Packages \ {p}, Whole(Present(q)'),
                   NEW d \in DOMAIN Needs[q][Present(q)'] \ (lost' \union {q})
            PROVE  Present(d)' \in Needs[q][Present(q)'][d]
        <5>1. d \in Packages \ {p}
          BY <2>1, <3>1, <4>2, InstallAssumption DEF Whole
        <5>2. Present(d)' = Present(d) /\ Present(q)' = Present(q) /\ d \notin lost
          BY <2>1, <2>3, <4>2, <5>1
        <5> QED
          BY <4>2, <5>1, <5>2 DEF InstallInv, ClosureHolds
      <4> QED
        BY <4>1, <4>2 DEF ClosureHolds, Whole
    <3>2. CASE ~bare
      <4>1. Present(p)' = backup[p]
        BY <1>1, <2>1, <2>4, <3>2 DEF Whole, Held
      <4> QED
        BY <2>1, <2>3, <3>2, <4>1, ClosureAfter DEF InstallInv
    <3> QED
      BY <3>1, <3>2
  <2>6. PackageSurvives'
    BY <1>0, <1>1, <1>4, <2>1, <2>3 DEF InstallInv, PackageSurvives
  <2>7. ASSUME NEW r \in Packages, NEW u \in Releases, OnPackage(r, u), pm'.at = "undoing"
        PROVE  InstallPoint(r, u)'
    <3>1. r = p
      BY <1>1, <2>7 DEF OnPackage
    <3>2. QED BY <1>0, <2>2, <2>7, <3>1 DEF InstallPoint
  <2>8. QED BY <1>0, <1>3, <1>4, <2>1, <2>2, <2>5, <2>6, <2>7, ManagerSteps
<1>5. CASE /\ pm.at = "undoing" /\ Go("restore")
           /\ target' = [target EXCEPT ![p] = Missing] /\ UNCHANGED <<backup, lost>>
  <2>1. target[p] = Broken
    BY <1>1, <1>5 DEF InstallPoint
  <2>2. target' \in [Packages -> Held] /\ backup' \in [Packages -> Held] /\ target'[p] = Missing
    BY <1>1, <1>5 DEF Held
  <2>3. ASSUME NEW q \in Packages
        PROVE  /\ Present(q)' = Present(q)
               /\ Whole(target[q]) \/ Whole(backup[q]) => Whole(target'[q]) \/ Whole(backup'[q])
    BY <1>1, <1>5, <2>1, <2>2, InstallAssumption
       DEF Present, Whole, Releases, Broken, Missing, InstallInv
  <2>4. ClosureHolds' /\ PackageSurvives'
    BY <1>0, <1>1, <1>5, <2>3, ClosureStays DEF InstallInv, PackageSurvives
  <2>5. ASSUME NEW r \in Packages, NEW u \in Releases, OnPackage(r, u), pm'.at = "restore"
        PROVE  InstallPoint(r, u)'
    <3>1. r = p
      BY <1>1, <2>5 DEF OnPackage
    <3>2. QED BY <1>0, <2>2, <2>5, <3>1 DEF InstallPoint
  <2>6. QED BY <1>0, <1>1, <1>3, <1>5, <2>2, <2>4, <2>5, ManagerSteps
<1>6. CASE Go("done") /\ UNCHANGED lost /\ (PutBack(p) \/ UNCHANGED <<target, backup>>)
  <2>1. /\ target' \in [Packages -> Held] /\ backup' \in [Packages -> Held]
        /\ PackageSurvives' /\ ClosureHolds'
    <3>1. CASE PutBack(p)
      BY <1>0, <1>6, <3>1, RecoveryKeeps DEF Recovers
    <3>2. CASE UNCHANGED <<target, backup>>
      BY <1>0, <1>1, <1>6, <3>2, RootStays
    <3>3. QED BY <1>6, <3>1, <3>2
  <2>2. ASSUME NEW r \in Packages, NEW u \in Releases, pm'.at = "done" PROVE InstallPoint(r, u)'
    BY <2>2 DEF InstallPoint
  <2>3. QED BY <1>0, <1>1, <1>3, <1>6, <2>1, <2>2, ManagerSteps
<1>7. QED BY <1>p, <1>4, <1>5, <1>6 DEF Restore

\* Removing a package that nothing depends on keeps it.
LEMMA UninstallKeeps ==
  ASSUME InstallInv, UninstallPackage
  PROVE  InstallInv'
<1>0. /\ pm.at \in {"allowed", "deleting"} /\ pm.at \in Points
      /\ "deleting" \in Points /\ "done" \in Points
      /\ UNCHANGED <<backup, lockFile, core, bare, lost, operations, deaths>>
  BY DEF UninstallPackage, Points
<1>p. PICK p \in Packages, v \in Releases : p = pm.pkg /\ v = pm.version
  BY <1>0, AtWork
<1>1. /\ OnPackage(p, v) /\ InstallPoint(p, v)
      /\ target \in [Packages -> Held] /\ backup \in [Packages -> Held] /\ owned \subseteq Packages
      /\ bare \in BOOLEAN /\ lost \subseteq Packages
  BY <1>0, <1>p, AtWork
<1>2. NoBackups
  BY <1>0, <1>1 DEF InstallPoint
<1>3. backup' \in [Packages -> Held] /\ NoBackups'
  BY <1>0, <1>1, <1>2, InstallAssumption DEF NoBackups, Missing, Broken
<1>4. CASE /\ pm.at = "allowed" /\ pm.op = "uninstall" /\ Go("deleting")
           /\ target' = [target EXCEPT ![p] = Broken] /\ owned' = owned \ {p}
  <2>1. target' \in [Packages -> Held] /\ target'[p] = Broken /\ owned' \subseteq Packages
    BY <1>1, <1>4 DEF Held
  <2>2. ASSUME NEW q \in Packages \ {p} PROVE Present(q)' = Present(q) /\ target'[q] = target[q]
    BY <1>0, <1>1, <1>4, <2>2 DEF Present
  <2>3. Present(p)' = Missing
    BY <1>3, <2>1, InstallAssumption DEF Present, NoBackups, Whole, Releases, Broken
  <2>4. Before(p, Missing)
    BY <1>1, <1>4, InstallAssumption DEF InstallPoint, Before, Whole, Releases, Missing
  <2>5. ClosureHolds'
    BY <1>0, <2>2, <2>3, <2>4, ClosureAfter DEF InstallInv
  <2>6. PackageSurvives'
    BY <1>0, <1>1, <1>4, <2>2 DEF InstallInv, PackageSurvives
  <2>7. ASSUME NEW r \in Packages, NEW u \in Releases, OnPackage(r, u), pm'.at = "deleting"
        PROVE  InstallPoint(r, u)'
    <3>1. r = p
      BY <1>1, <2>7 DEF OnPackage
    <3>2. QED BY <1>0, <1>3, <1>4, <2>1, <2>7, <3>1 DEF InstallPoint
  <2>8. QED BY <1>0, <1>1, <1>3, <1>4, <2>1, <2>5, <2>6, <2>7, ManagerSteps
<1>5. CASE /\ pm.at = "deleting" /\ Go("done")
           /\ target' = [target EXCEPT ![p] = Missing] /\ UNCHANGED owned
  <2>1. target[p] = Broken /\ p \notin owned
    BY <1>1, <1>5 DEF InstallPoint
  <2>2. target' \in [Packages -> Held] /\ owned' \subseteq Packages
    BY <1>1, <1>5 DEF Held
  <2>3. ASSUME NEW q \in Packages
        PROVE  /\ Present(q)' = Present(q)
               /\ q # p => target'[q] = target[q]
    BY <1>0, <1>1, <1>5, <2>1, InstallAssumption DEF Present, Whole, Releases, Broken, Missing
  <2>4. ClosureHolds' /\ PackageSurvives'
    BY <1>0, <1>1, <1>5, <2>1, <2>3, ClosureStays DEF InstallInv, PackageSurvives
  <2>5. ASSUME NEW r \in Packages, NEW u \in Releases, pm'.at = "done" PROVE InstallPoint(r, u)'
    BY <2>5 DEF InstallPoint
  <2>6. QED BY <1>0, <1>1, <1>3, <1>5, <2>2, <2>4, <2>5, ManagerSteps
<1>6. QED BY <1>p, <1>4, <1>5 DEF UninstallPackage

\* The invariant holds of an empty root.
LEMMA InstallBegins == InstallInit => InstallInv
<1> SUFFICES ASSUME InstallInit PROVE InstallInv
  OBVIOUS
<1>1. InstallTypeOK /\ PmShape
  <2>1. 0 \in 0 .. MaxOperations /\ 0 \in 0 .. MaxDeaths /\ Missing \in Held
    BY InstallAssumption DEF Held
  <2>2. target \in [Packages -> Held] /\ backup \in [Packages -> Held] /\ lockFile \in BOOLEAN
    BY <2>1 DEF InstallInit
  <2>3. owned \subseteq Packages /\ bare \in BOOLEAN /\ lost \subseteq Packages
    BY DEF InstallInit
  <2>4. /\ operations \in 0 .. MaxOperations /\ deaths \in 0 .. MaxDeaths
        /\ core = "idle" /\ pm = NoOperation
    BY <2>1 DEF InstallInit
  <2>5. QED BY <2>2, <2>3, <2>4 DEF InstallTypeOK, PmShape
<1>2. PackageSurvives /\ WhereInstalling
  BY DEF InstallInit, PackageSurvives, WhereInstalling, OnPackage
<1>3. \A p \in Packages : ~Whole(Present(p)) /\ backup[p] # Broken
  <2>1. Missing \notin Releases /\ Missing # Broken
    BY InstallAssumption DEF Releases, Missing, Broken
  <2>2. \A p \in Packages : backup[p] = Missing /\ target[p] = Missing
    BY DEF InstallInit
  <2>3. QED BY <2>1, <2>2 DEF Present, Whole
<1>4. QED BY <1>1, <1>2, <1>3 DEF InstallInv, ClosureHolds

\* A package's directory and its backup hold a whole release, part of one, or nothing.
RootTypes ==
    target \in [Packages -> Held] /\ backup \in [Packages -> Held] /\ owned \subseteq Packages

\* Each way the root changes leaves such contents.
LEMMA RootSteps ==
  ASSUME RootTypes, NEW p \in Packages
  PROVE  /\ \A x \in Held : [target EXCEPT ![p] = x] \in [Packages -> Held]
         /\ BreakBackup(p) => backup' \in [Packages -> Held]
         /\ DropBackup(p) => backup' \in [Packages -> Held]
         /\ PutBack(p) => target' \in [Packages -> Held] /\ backup' \in [Packages -> Held]
         /\ MoveAside(p) => target' \in [Packages -> Held] /\ backup' \in [Packages -> Held]
         /\ Missing \in Held /\ Broken \in Held /\ Releases \subseteq Held
<1>1. Missing \in Held /\ Broken \in Held /\ Releases \subseteq Held
  BY DEF Held
<1>2. /\ BreakBackup(p) => backup' \in [Packages -> Held]
      /\ DropBackup(p) => backup' \in [Packages -> Held]
  BY <1>1 DEF BreakBackup, DropBackup, RootTypes
<1>3. PutBack(p) => target' \in [Packages -> Held] /\ backup' \in [Packages -> Held]
  BY <1>1 DEF PutBack, RootTypes
<1>4. MoveAside(p) => target' \in [Packages -> Held] /\ backup' \in [Packages -> Held]
  BY <1>1 DEF MoveAside, MoveAsideRenamed, RootTypes
<1>5. \A x \in Held : [target EXCEPT ![p] = x] \in [Packages -> Held]
  BY DEF RootTypes
<1>6. QED BY <1>1, <1>2, <1>3, <1>4, <1>5

\* The package manager on the package of its operation keeps the types.
LEMMA ManagerTypes ==
  ASSUME InstallTypeOK, PmShape,
         CheckOperation \/ ReserveBackup \/ Publish \/ ReadBack \/ RemoveBackup \/ Restore
           \/ UninstallPackage
  PROVE  InstallTypeOK' /\ PmShape'
<1>1. pm.at \in Points
  BY DEF CheckOperation, ReserveBackup, Publish, ReadBack, RemoveBackup, Restore,
         UninstallPackage, Points
<1>2. \E a \in Points : Go(a)
  BY DEF CheckOperation, ReserveBackup, Publish, ReadBack, RemoveBackup, Restore,
         UninstallPackage, Points
<1>3. pm.at \notin {"idle", "clearing"}
  BY <1>1 DEF Points
<1>4. PmShape' /\ pm.pkg \in Packages /\ pm.version \in Releases
  BY <1>2, <1>3, ItGoes
<1>5. RootTypes
  BY DEF InstallTypeOK, RootTypes
<1>6. UNCHANGED <<lockFile, core, operations, deaths>>
  BY DEF CheckOperation, ReserveBackup, Publish, ReadBack, RemoveBackup, Restore,
         UninstallPackage
<1>7. target' \in [Packages -> Held]
  <2>1. CASE CheckOperation \/ ReadBack \/ RemoveBackup
    BY <2>1, <1>5 DEF CheckOperation, ReadBack, RemoveBackup, RootTypes
  <2>2. CASE ReserveBackup
    BY <2>2, <1>4, <1>5, RootSteps DEF ReserveBackup, RootTypes
  <2>3. CASE Publish
    BY <2>3, <1>4, <1>5, RootSteps DEF Publish, RootTypes
  <2>4. CASE Restore
    BY <2>4, <1>4, <1>5, RootSteps DEF Restore, RootTypes
  <2>5. CASE UninstallPackage
    BY <2>5, <1>4, <1>5, RootSteps DEF UninstallPackage, RootTypes
  <2>6. QED BY <2>1, <2>2, <2>3, <2>4, <2>5
<1>8. backup' \in [Packages -> Held]
  <2>1. CASE CheckOperation \/ ReadBack \/ Publish \/ UninstallPackage
    BY <2>1, <1>5 DEF CheckOperation, ReadBack, Publish, UninstallPackage, RootTypes
  <2>2. CASE ReserveBackup
    BY <2>2, <1>4, <1>5, RootSteps DEF ReserveBackup, RootTypes
  <2>3. CASE RemoveBackup
    BY <2>3, <1>4, <1>5, RootSteps DEF RemoveBackup, RootTypes
  <2>4. CASE Restore
    BY <2>4, <1>4, <1>5, RootSteps DEF Restore, RootTypes
  <2>5. QED BY <2>1, <2>2, <2>3, <2>4
<1>9. owned' \subseteq Packages
  BY <1>4, <1>5 DEF CheckOperation, ReserveBackup, Publish, ReadBack, RemoveBackup, Restore,
         UninstallPackage, RootTypes
<1>t. bare' \in BOOLEAN /\ lost' \subseteq Packages
  BY <1>4 DEF CheckOperation, ReserveBackup, Publish, ReadBack, RemoveBackup, Restore,
         UninstallPackage, InstallTypeOK
<1>10. InstallTypeOK'
  BY <1>4, <1>6, <1>7, <1>8, <1>9, <1>t, ShapeTypes
<1>11. QED BY <1>4, <1>10

\* Recovery, by the package manager or by Core, keeps the types.
LEMMA RecoveryTypes ==
  ASSUME InstallTypeOK, PmShape, Recover \/ Cleared \/ CoreRecovers \/ CoreClears
  PROVE  InstallTypeOK' /\ PmShape'
<1>1. RootTypes
  BY DEF InstallTypeOK, RootTypes
<1>2. ASSUME CoreRecovers \/ CoreClears PROVE InstallTypeOK' /\ PmShape'
  <2>1. UNCHANGED <<lockFile, pm, owned, lost, operations, deaths>> /\ bare' \in BOOLEAN
    BY <1>2 DEF CoreRecovers, CoreClears, BeingReadBack, InstallTypeOK
  <2>2. target' \in [Packages -> Held] /\ backup' \in [Packages -> Held]
    BY <1>1, <1>2, RootSteps DEF CoreRecovers, CoreClears, RootTypes
  <2>3. core' \in {"idle"} \union Packages
    BY <1>2 DEF CoreRecovers, CoreClears, InstallTypeOK
  <2>4. PmShape'
    BY <2>1 DEF PmShape
  <2>5. QED BY <2>1, <2>2, <2>3, <2>4 DEF InstallTypeOK
<1>3. ASSUME Recover \/ Cleared PROVE InstallTypeOK' /\ PmShape'
  <2>1. UNCHANGED <<lockFile, core, owned, bare, lost, operations, deaths>>
    BY <1>3 DEF Recover, Cleared
  <2>2. CASE Recover
    <3>1. pm \in [at : Points, op : Ops, pkg : Packages, version : Releases]
          /\ pm.at \notin {"idle", "clearing"}
      BY <2>2 DEF Recover, PmShape, NoOperation
    <3>2. target' \in [Packages -> Held] /\ backup' \in [Packages -> Held]
      BY <1>1, <2>2, RootSteps DEF Recover, RootTypes
    <3>3. \/ pm' = pm
          \/ \E a \in Points : Go(a)
          \/ \E p \in Packages : pm' = [at |-> "clearing", op |-> pm.op, pkg |-> pm.pkg,
                                        version |-> pm.version, clears |-> p]
      BY <2>2 DEF Recover, Points
    <3>4. PmShape'
      <4>1. CASE pm' = pm
        BY <4>1 DEF PmShape
      <4>2. CASE \E a \in Points : Go(a)
        BY <3>1, <4>2, ItGoes
      <4>3. CASE \E p \in Packages : pm' = [at |-> "clearing", op |-> pm.op, pkg |-> pm.pkg,
                                            version |-> pm.version, clears |-> p]
        BY <3>1, <4>3 DEF PmShape
      <4>4. QED BY <3>3, <4>1, <4>2, <4>3
    <3>5. owned' \subseteq Packages
      BY <1>1, <2>1 DEF RootTypes
    <3>6. bare' \in BOOLEAN /\ lost' \subseteq Packages
      BY <2>1 DEF InstallTypeOK
    <3>7. QED BY <2>1, <3>2, <3>4, <3>5, <3>6, ShapeTypes
  <2>3. CASE Cleared
    <3>1. pm \in [at : {"clearing"}, op : Ops, pkg : Packages, version : Releases,
                  clears : Packages]
      BY <2>3 DEF Cleared, PmShape, NoOperation, Points
    <3>2. target' \in [Packages -> Held] /\ backup' \in [Packages -> Held]
      BY <1>1, <2>3, <3>1, RootSteps DEF Cleared, RootTypes
    <3>3. PmShape'
      BY <2>3, <3>1 DEF Cleared, Operation, PmShape, Points
    <3>4. owned' \subseteq Packages
      BY <1>1, <2>1 DEF RootTypes
    <3>5. bare' \in BOOLEAN /\ lost' \subseteq Packages
      BY <2>1 DEF InstallTypeOK
    <3>6. QED BY <2>1, <3>2, <3>3, <3>4, <3>5, ShapeTypes
  <2>4. QED BY <1>3, <2>2, <2>3
<1>4. QED BY <1>2, <1>3

\* Operations, deaths and the operator's unlocking keep the types.
LEMMA ProcessTypes ==
  ASSUME InstallTypeOK, PmShape,
         \/ FinishOperation \/ ManagerDies \/ Unlock \/ CoreDies
         \/ \E op \in Ops, p \in Packages, v \in Releases : StartOperation(op, p, v)
  PROVE  InstallTypeOK' /\ PmShape'
<1>1. UNCHANGED <<target, backup, owned, bare, lost>>
  BY DEF FinishOperation, ManagerDies, Unlock, CoreDies, StartOperation
<1>2. lockFile' \in BOOLEAN
  BY DEF FinishOperation, ManagerDies, Unlock, CoreDies, StartOperation, InstallTypeOK
<1>3. core' \in {"idle"} \union Packages
  BY DEF FinishOperation, ManagerDies, Unlock, CoreDies, StartOperation, InstallTypeOK
<1>4. operations' \in 0 .. MaxOperations /\ deaths' \in 0 .. MaxDeaths
  BY InstallAssumption
     DEF FinishOperation, ManagerDies, Unlock, CoreDies, StartOperation, InstallTypeOK
<1>5. \/ pm' = pm \/ pm' = NoOperation
      \/ \E op \in Ops, p \in Packages, v \in Releases : pm' = Operation("locked", op, p, v)
  BY DEF FinishOperation, ManagerDies, Unlock, CoreDies, StartOperation
<1>6. PmShape'
  <2>1. CASE pm' = pm \/ pm' = NoOperation
    BY <2>1 DEF PmShape
  <2>2. CASE \E op \in Ops, p \in Packages, v \in Releases : pm' = Operation("locked", op, p, v)
    BY <2>2 DEF PmShape, Operation, Points
  <2>3. QED BY <1>5, <2>1, <2>2
<1>7. \/ pm' = NoOperation
      \/ /\ pm'.at \in Points \union {"clearing"} /\ pm'.op \in Ops
         /\ pm'.pkg \in Packages /\ pm'.version \in Releases
  BY <1>6 DEF PmShape
<1>8. QED BY <1>1, <1>2, <1>3, <1>4, <1>6, <1>7 DEF InstallTypeOK, Points, Ops

\* Every variable of the installer stays in its domain, whatever the catalogue.
THEOREM InstallTypesHold == InstallSpec => []InstallTypeOK
<1>1. InstallTypeOK /\ PmShape /\ [InstallNext]_installVars => (InstallTypeOK /\ PmShape)'
  <2> SUFFICES ASSUME InstallTypeOK, PmShape, [InstallNext]_installVars
               PROVE  InstallTypeOK' /\ PmShape'
    OBVIOUS
  <2>1. 1 \in Releases /\ "uninstall" \in Ops /\ {"install", "upgrade"} \subseteq Ops
    BY InstallAssumption DEF Releases, Ops
  <2>2. CASE UNCHANGED installVars
    BY <2>2 DEF installVars, InstallTypeOK, PmShape
  <2>3. ASSUME NEW op \in Ops, NEW p \in Packages, NEW v \in Releases, StartOperation(op, p, v)
        PROVE  InstallTypeOK' /\ PmShape'
    BY <2>3, ProcessTypes
  <2>4. QED
    BY <2>1, <2>2, <2>3, ProcessTypes, RecoveryTypes, ManagerTypes DEF InstallNext
<1>2. InstallInit => InstallTypeOK /\ PmShape
  BY InstallBegins DEF InstallInv
<1>3. QED BY <1>1, <1>2, PTL DEF InstallSpec

\* What was installed, and not uninstalled since, stays whole in its directory or in its
\* backup, and whatever is there finds its dependencies in versions it accepts: for every
\* catalogue and any number of operations, deaths, failed read-backs and recoveries by
\* Core, but for the packages that lost their backup to Core before a read-back that
\* failed (packmgr/installer.go).
THEOREM InstalledStays == InstallSpec => []InstalledStaysUsable
<1>1. InstallInv /\ [InstallNext]_installVars => InstallInv'
  <2> SUFFICES ASSUME InstallInv, [InstallNext]_installVars PROVE InstallInv'
    OBVIOUS
  <2>1. ASSUME NEW p \in Packages, NEW v \in Releases, NEW op \in {"install", "upgrade"},
               StartOperation(op, p, v)
        PROVE  InstallInv'
    BY <2>1, StartKeeps DEF Ops
  <2>2. ASSUME NEW p \in Packages, StartOperation("uninstall", p, 1) PROVE InstallInv'
    <3>1. 1 \in Releases /\ "uninstall" \in Ops
      BY InstallAssumption DEF Releases, Ops
    <3>2. QED BY <2>2, <3>1, StartKeeps
  <2>3. QED
    BY <2>1, <2>2, LockKeeps, AsideKeeps, ManagerRecovers, ManagerClears, CoreRecoversKeeps,
       CoreClearsKeeps,
       CheckKeeps, ReserveKeeps, PublishKeeps, ReadBackKeeps, RemoveBackupKeeps, RestoreKeeps,
       UninstallKeeps
       DEF InstallNext
<1>2. InstallInv => InstalledStaysUsable
  BY DEF InstallInv, InstalledStaysUsable
<1>3. QED
  BY <1>1, <1>2, InstallBegins, PTL DEF InstallSpec

-----------------------------------------------------------------------------
(* The documents of a package: PackageStore. *)

\* Where d is among ids, counted from the smallest.
RankIn(ids, d) == Cardinality({e \in ids : e <= d})

\* Ranks are places 1 to the size of the set, in the order of its members ...
LEMMA RankIsPlace ==
  ASSUME NEW ids, ids \subseteq Nat, IsFiniteSet(ids)
  PROVE  /\ Cardinality(ids) \in Nat
         /\ \A d \in ids : RankIn(ids, d) \in 1 .. Cardinality(ids)
         /\ \A d, e \in ids : d < e => RankIn(ids, d) < RankIn(ids, e)
<1> DEFINE Upto(d) == {e \in ids : e <= d}
<1>1. Cardinality(ids) \in Nat
  BY FS_CardinalityType
<1>2. ASSUME NEW d \in ids
      PROVE  IsFiniteSet(Upto(d)) /\ RankIn(ids, d) \in Nat /\ RankIn(ids, d) <= Cardinality(ids)
             /\ RankIn(ids, d) # 0
  <2>1. Upto(d) \in SUBSET ids /\ d \in Upto(d)
    OBVIOUS
  <2>2. IsFiniteSet(Upto(d)) /\ Cardinality(Upto(d)) <= Cardinality(ids)
    BY <2>1, FS_Subset
  <2>3. Cardinality(Upto(d)) \in Nat
    BY <2>2, FS_CardinalityType
  <2>4. Cardinality(Upto(d)) # 0
    BY <2>1, <2>2, FS_EmptySet
  <2>5. QED BY <2>2, <2>3, <2>4 DEF RankIn
<1>3. ASSUME NEW d \in ids, NEW e \in ids, d < e
      PROVE  RankIn(ids, d) < RankIn(ids, e)
  <2>1. d \in Nat /\ e \in Nat
    OBVIOUS
  <2>a. ASSUME NEW x \in Upto(d) PROVE x \in Upto(e)
    <3>1. x \in ids /\ x \in Nat /\ x <= d
      OBVIOUS
    <3>2. x <= e
      BY <1>3, <2>1, <3>1
    <3>3. QED BY <3>1, <3>2
  <2>b. ~(e <= d) /\ e <= e
    BY <1>3, <2>1
  <2>2. Upto(d) \in SUBSET Upto(e) /\ e \in Upto(e) /\ e \notin Upto(d)
    BY <2>a, <2>b
  <2>3. IsFiniteSet(Upto(e))
    BY <1>2
  <2>4. Cardinality(Upto(d)) <= Cardinality(Upto(e))
        /\ (Cardinality(Upto(d)) = Cardinality(Upto(e)) => Upto(e) = Upto(d))
    BY <2>2, <2>3, FS_Subset
  <2>5. Cardinality(Upto(d)) \in Nat /\ Cardinality(Upto(e)) \in Nat
    BY <1>2 DEF RankIn
  <2>6. Cardinality(Upto(d)) # Cardinality(Upto(e))
    BY <2>2, <2>4
  <2>7. QED BY <2>4, <2>5, <2>6 DEF RankIn
<1>4. ASSUME NEW d \in ids PROVE RankIn(ids, d) \in 1 .. Cardinality(ids)
  <2>1. RankIn(ids, d) \in Nat /\ RankIn(ids, d) <= Cardinality(ids) /\ RankIn(ids, d) # 0
    BY <1>2
  <2>2. QED BY <1>1, <2>1
<1>5. QED BY <1>1, <1>3, <1>4

\* ... and each place is taken.
LEMMA EveryRankIsThere ==
  ASSUME NEW ids, ids \subseteq Nat, IsFiniteSet(ids), NEW i \in 1 .. Cardinality(ids)
  PROVE  \E d \in ids : RankIn(ids, d) = i
<1> DEFINE n == Cardinality(ids)
           rank == [d \in ids |-> RankIn(ids, d)]
<1>1. /\ n \in Nat /\ \A d \in ids : RankIn(ids, d) \in 1 .. n
      /\ \A d, e \in ids : d < e => RankIn(ids, d) < RankIn(ids, e)
  BY RankIsPlace
<1>2. IsFiniteSet(1 .. n) /\ Cardinality(1 .. n) = n
  BY <1>1, FS_Interval
<1>3. rank \in [ids -> 1 .. n]
  BY <1>1
<1>4. ASSUME NEW d \in ids, NEW e \in ids, rank[d] = rank[e]
      PROVE  d = e
  <2>1. d \in Nat /\ e \in Nat /\ RankIn(ids, d) \in Nat /\ RankIn(ids, d) = RankIn(ids, e)
    BY <1>1, <1>4
  <2>2. ~(d < e) /\ ~(e < d)
    BY <1>1, <2>1
  <2>3. QED BY <2>1, <2>2
<1>5. rank \in Injection(ids, 1 .. n)
  <2>1. IsInjective(rank)
    BY <1>4 DEF IsInjective
  <2>2. QED BY <1>3, <2>1 DEF Injection
<1>6. rank \in Surjection(ids, 1 .. n)
  BY <1>2, <1>5, FS_Injection
<1>7. QED BY <1>6 DEF Surjection

\* A page holds the first documents of a set in their order; what it leaves out comes
\* behind its last, and only when it is full.
LEMMA PageIs ==
  ASSUME NEW ids, ids \subseteq Nat, IsFiniteSet(ids), NEW page, page = FirstOf(ids)
  PROVE  /\ page \in Seq(ids) /\ Len(page) \in Nat /\ InOrder(page)
         /\ \A d \in ids : \/ \E i \in 1 .. Len(page) : page[i] = d
                           \/ Len(page) = PageSize /\ page[Len(page)] < d
<1> DEFINE n == Cardinality(ids)
           size == IF n < PageSize THEN n ELSE PageSize
<1>1. /\ n \in Nat /\ \A d \in ids : RankIn(ids, d) \in 1 .. n
      /\ \A d, e \in ids : d < e => RankIn(ids, d) < RankIn(ids, e)
  BY RankIsPlace
<1>2. size \in Nat /\ size <= n /\ size <= PageSize
  BY <1>1, PackageStoreAssumption
<1>3. page = [i \in 1 .. size |-> CHOOSE d \in ids : RankIn(ids, d) = i]
  BY DEF FirstOf, RankIn
<1> HIDE DEF size
<1>4. ASSUME NEW i \in 1 .. size PROVE page[i] \in ids /\ RankIn(ids, page[i]) = i
  <2>1. i \in 1 .. n
    BY <1>1, <1>2
  <2>2. \E d \in ids : RankIn(ids, d) = i
    BY <2>1, EveryRankIsThere
  <2>3. QED BY <1>3, <2>2
<1>5. page \in Seq(ids) /\ Len(page) = size /\ DOMAIN page = 1 .. size
  BY <1>2, <1>3, <1>4
<1>6. ASSUME NEW i \in 1 .. size, NEW j \in 1 .. size, i < j PROVE page[i] < page[j]
  <2>1. page[i] \in Nat /\ page[j] \in Nat /\ page[i] \in ids /\ page[j] \in ids
    BY <1>4
  <2>2. RankIn(ids, page[i]) = i /\ RankIn(ids, page[j]) = j
    BY <1>4
  <2>3. page[i] # page[j] /\ ~(page[j] < page[i])
    BY <1>1, <1>2, <1>6, <2>1, <2>2
  <2>4. QED BY <2>1, <2>3
<1>7. ASSUME NEW d \in ids
      PROVE  \/ \E i \in 1 .. size : page[i] = d
             \/ size = PageSize /\ page[size] < d
  <2>1. PICK i \in 1 .. n : i = RankIn(ids, d)
    BY <1>1
  <2>2. CASE i \in 1 .. size
    <3>1. RankIn(ids, page[i]) = i /\ page[i] \in ids
      BY <1>4, <2>2
    <3>a. /\ d < page[i] => RankIn(ids, d) < RankIn(ids, page[i])
          /\ page[i] < d => RankIn(ids, page[i]) < RankIn(ids, d)
      BY <1>1, <3>1
    <3>b. d \in Nat /\ page[i] \in Nat
      BY <3>1
    <3>c. i \in Nat /\ ~(i < i)
      BY <2>2
    <3>2. d \in Nat /\ page[i] \in Nat /\ ~(d < page[i]) /\ ~(page[i] < d)
      BY <2>1, <3>1, <3>a, <3>b, <3>c
    <3>3. page[i] = d
      BY <3>2
    <3>4. QED BY <2>2, <3>3
  <2>3. CASE i > size
    <3>1. size = PageSize /\ size \in 1 .. size
      BY <1>1, <1>2, <2>1, <2>3, PackageStoreAssumption DEF size
    <3>2. RankIn(ids, page[size]) = size /\ page[size] \in ids
      BY <1>4, <3>1
    <3>a. d < page[size] => RankIn(ids, d) < RankIn(ids, page[size])
      BY <1>1, <3>2
    <3>3. page[size] # d /\ ~(d < page[size])
      BY <1>2, <2>1, <2>3, <3>2, <3>a
    <3>4. d \in Nat /\ page[size] \in Nat
      BY <3>2
    <3>5. QED BY <3>1, <3>3, <3>4
  <2>4. QED BY <1>2, <2>1, <2>2, <2>3
<1>8. QED BY <1>2, <1>5, <1>6, <1>7 DEF InOrder

-----------------------------------------------------------------------------
\* The system scope holds what the current snapshot does, each document with its revision.
SystemIsSnapshot ==
    systemDocs = [d \in DocIds |->
        IF snapshot # NoRevision /\ d \in SnapshotDocs[snapshot] THEN snapshot ELSE NoRevision]

\* The reader has seen all of docs up to where it is.
HasRead(r, docs) == Seen(r) = {d \in docs : d <= reader[r].after}

\* A read of the user scope has seen what stayed there up to where it is.
UserRead(r) ==
    /\ reader[r].at = "paging" =>
         kept[r] \subseteq userDocs /\ \A d \in kept[r] : d <= reader[r].after => d \in Seen(r)
    /\ reader[r].at = "whole" => kept[r] \subseteq Seen(r)

\* A read of the system scope has seen what its revision holds up to where it is.
SystemRead(r) ==
    /\ reader[r].at = "paging" =>
         IF reader[r].first THEN reader[r].after = 0 /\ reader[r].got = <<>>
         ELSE /\ reader[r].revision \in Revisions
              /\ HasRead(r, SnapshotDocs[reader[r].revision])
    /\ reader[r].at = "whole" => Seen(r) = SnapshotDocs[reader[r].revision]

\* What a reader has got is in order and not past where it is, and is what it should be.
ReaderOk(r) ==
    /\ InOrder(reader[r].got)
    /\ \A i \in DOMAIN reader[r].got : reader[r].got[i] <= reader[r].after
    /\ IF reader[r].scope = "user" THEN UserRead(r) ELSE SystemRead(r)

\* The inductive invariant.
StoreInv ==
    /\ PackageTypeOK /\ IsFiniteSet(userDocs) /\ SystemIsSnapshot
    /\ \A r \in Readers : ReaderOk(r)

\* The invariant holds of an empty store.
LEMMA StoreBegins == PackageInit => StoreInv
<1> SUFFICES ASSUME PackageInit PROVE StoreInv
  OBVIOUS
<1>1. \A r \in Readers : reader[r] = Idle /\ kept[r] = {}
  BY DEF PackageInit
<1>2. <<>> \in Seq(DocIds) /\ DOMAIN <<>> = {}
  OBVIOUS
<1>3. PackageTypeOK
  BY <1>1, <1>2 DEF PackageInit, PackageTypeOK, Idle, Scopes
<1>4. ASSUME NEW r \in Readers PROVE ReaderOk(r)
  BY <1>1, <1>2 DEF ReaderOk, Idle, InOrder, UserRead
<1>5. IsFiniteSet(userDocs) /\ SystemIsSnapshot
  BY FS_EmptySet DEF PackageInit, SystemIsSnapshot
<1>6. QED BY <1>3, <1>4, <1>5 DEF StoreInv

\* A step of a writer leaves the readers as they are.
LEMMA WritersKeep ==
  ASSUME StoreInv, UNCHANGED reader,
         \A r \in Readers : /\ kept'[r] \subseteq kept[r]
                           /\ (kept[r] \subseteq userDocs => kept'[r] \subseteq userDocs')
  PROVE  \A r \in Readers : ReaderOk(r)'
<1> SUFFICES ASSUME NEW r \in Readers PROVE ReaderOk(r)'
  OBVIOUS
<1>1. ReaderOk(r) /\ reader' = reader
  BY DEF StoreInv
<1>2. Seen(r)' = Seen(r)
  BY <1>1 DEF Seen
<1>3. UserRead(r) => UserRead(r)'
  BY <1>1, <1>2 DEF UserRead
<1>4. SystemRead(r) => SystemRead(r)'
  BY <1>1, <1>2 DEF SystemRead, HasRead
<1>5. QED BY <1>1, <1>3, <1>4 DEF ReaderOk, InOrder

\* Importing a snapshot, and its expiry, keep the invariant.
LEMMA SnapshotKeeps ==
  ASSUME StoreInv, \/ \E rev \in Revisions : ReplaceSnapshot(rev)
                   \/ SnapshotExpires
                   \/ UNCHANGED packageVars
  PROVE  StoreInv'
<1>1. UNCHANGED <<userDocs, reader, kept>> /\ trusted' \in BOOLEAN
  BY DEF ReplaceSnapshot, SnapshotExpires, packageVars, StoreInv, PackageTypeOK
<1>2. \A r \in Readers : ReaderOk(r)'
  BY <1>1, WritersKeep
<1>3. /\ snapshot' \in Revisions \union {NoRevision} /\ SystemIsSnapshot'
      /\ systemDocs' \in [DocIds -> Revisions \union {NoRevision}]
  <2>1. ASSUME NEW rev \in Revisions, ReplaceSnapshot(rev)
        PROVE  snapshot' = rev /\ SystemIsSnapshot'
               /\ systemDocs' \in [DocIds -> Revisions \union {NoRevision}]
    BY <2>1, PackageStoreAssumption DEF ReplaceSnapshot, SystemIsSnapshot
  <2>2. CASE UNCHANGED <<snapshot, systemDocs>>
    BY <2>2 DEF StoreInv, PackageTypeOK, SystemIsSnapshot
  <2>3. QED BY <2>1, <2>2 DEF SnapshotExpires, packageVars
<1>4. QED BY <1>1, <1>2, <1>3 DEF StoreInv, PackageTypeOK

\* Writing and deleting a document of the user keep it.
LEMMA DocumentsKeep ==
  ASSUME StoreInv, NEW d \in DocIds, PutDocument(d) \/ DeleteDocument(d)
  PROVE  StoreInv'
<1>1. kept \in [Readers -> SUBSET DocIds] /\ UNCHANGED <<snapshot, systemDocs, trusted, reader>>
  BY DEF StoreInv, PackageTypeOK, PutDocument, DeleteDocument
<1>2. /\ userDocs' \in {userDocs \union {d}, userDocs \ {d}} /\ kept' \in [Readers -> SUBSET DocIds]
      /\ \A r \in Readers : kept'[r] \subseteq kept[r]
                            /\ (kept[r] \subseteq userDocs => kept'[r] \subseteq userDocs')
  <2>1. CASE PutDocument(d)
    BY <1>1, <2>1 DEF PutDocument
  <2>2. CASE DeleteDocument(d)
    BY <1>1, <2>2 DEF DeleteDocument
  <2>3. QED BY <2>1, <2>2
<1>3. \A r \in Readers : ReaderOk(r)'
  BY <1>1, <1>2, WritersKeep
<1>4. IsFiniteSet(userDocs') /\ userDocs' \subseteq DocIds
  <2>1. IsFiniteSet(userDocs \union {d}) /\ IsFiniteSet(userDocs \ {d})
    BY FS_AddElement, FS_RemoveElement DEF StoreInv
  <2>2. QED BY <1>2, <2>1 DEF StoreInv, PackageTypeOK
<1>5. QED BY <1>1, <1>2, <1>3, <1>4 DEF StoreInv, PackageTypeOK, SystemIsSnapshot

\* What a step of reader r has to show.
LEMMA OneReader ==
  ASSUME StoreInv, NEW r \in Readers, UNCHANGED <<snapshot, systemDocs, userDocs, trusted>>,
         NEW next, reader' = [reader EXCEPT ![r] = next],
         next \in [at : {"idle", "paging", "whole", "refused"}, scope : Scopes,
                   after : DocIds \union {0}, revision : Revisions \union {NoRevision},
                   first : BOOLEAN, got : Seq(DocIds)],
         kept' \in [Readers -> SUBSET DocIds], \A q \in Readers \ {r} : kept'[q] = kept[q],
         ReaderOk(r)'
  PROVE  StoreInv'
<1>1. \A q \in Readers \ {r} : reader'[q] = reader[q]
  BY DEF StoreInv, PackageTypeOK
<1>2. \A q \in Readers \ {r} : ReaderOk(q)'
  BY <1>1 DEF StoreInv, ReaderOk, UserRead, SystemRead, HasRead, Seen, InOrder
<1>3. PackageTypeOK'
  BY DEF StoreInv, PackageTypeOK
<1>4. QED BY <1>2, <1>3 DEF StoreInv, SystemIsSnapshot

\* Beginning a read keeps it.
LEMMA ReadStartKeeps ==
  ASSUME StoreInv, NEW r \in Readers, NEW scope \in Scopes, StartRead(r, scope)
  PROVE  StoreInv'
<1> DEFINE next == [Idle EXCEPT !.at = "paging", !.scope = scope]
<1>1. /\ reader' = [reader EXCEPT ![r] = next] /\ kept' = [kept EXCEPT ![r] = userDocs]
      /\ UNCHANGED <<snapshot, systemDocs, userDocs, trusted>>
      /\ reader[r].at = "idle"
  BY DEF StartRead
<1>2. <<>> \in Seq(DocIds) /\ DOMAIN <<>> = {}
  OBVIOUS
<1>3. next \in [at : {"idle", "paging", "whole", "refused"}, scope : Scopes,
                after : DocIds \union {0}, revision : Revisions \union {NoRevision},
                first : BOOLEAN, got : Seq(DocIds)]
  BY <1>2 DEF Idle
<1>4. /\ next.at = "paging" /\ next.after = 0 /\ next.got = <<>> /\ next.first
      /\ next.scope = scope
  BY DEF Idle
<1> HIDE DEF next
<1>5. reader'[r] = next /\ kept'[r] = userDocs /\ kept' \in [Readers -> SUBSET DocIds]
      /\ \A q \in Readers \ {r} : kept'[q] = kept[q]
  BY <1>1 DEF StoreInv, PackageTypeOK
<1>6. ReaderOk(r)'
  <2>1. \A d \in userDocs : ~(d <= 0)
    BY PackageStoreAssumption DEF StoreInv, PackageTypeOK
  <2>2. QED
    BY <1>1, <1>2, <1>4, <1>5, <2>1 DEF ReaderOk, UserRead, SystemRead, InOrder
<1>7. QED BY <1>1, <1>3, <1>5, <1>6, OneReader

\* Refusing one keeps it.
LEMMA ReadRefusedKeeps ==
  ASSUME StoreInv, NEW r \in Readers, ReadRefused(r)
  PROVE  StoreInv'
<1> DEFINE next == [reader[r] EXCEPT !.at = "refused", !.got = <<>>]
<1>1. /\ reader' = [reader EXCEPT ![r] = next]
      /\ UNCHANGED <<snapshot, systemDocs, userDocs, trusted, kept>>
  BY DEF ReadRefused, StoreInv, PackageTypeOK
<1>2. <<>> \in Seq(DocIds) /\ DOMAIN <<>> = {}
  OBVIOUS
<1>3. next \in [at : {"idle", "paging", "whole", "refused"}, scope : Scopes,
                after : DocIds \union {0}, revision : Revisions \union {NoRevision},
                first : BOOLEAN, got : Seq(DocIds)]
  BY <1>2 DEF StoreInv, PackageTypeOK
<1>4. next.at = "refused" /\ next.got = <<>>
  BY DEF StoreInv, PackageTypeOK
<1> HIDE DEF next
<1>5. reader'[r] = next
  BY <1>1 DEF StoreInv, PackageTypeOK
<1>6. ReaderOk(r)'
  BY <1>2, <1>4, <1>5 DEF ReaderOk, UserRead, SystemRead, InOrder
<1>7. kept' \in [Readers -> SUBSET DocIds]
  BY <1>1 DEF StoreInv, PackageTypeOK
<1>8. QED BY <1>1, <1>3, <1>6, <1>7, OneReader

\* The members of a sequence.
ValuesOf(s) == {s[i] : i \in DOMAIN s}
\* The documents behind low up to high.
Between(docs, low, high) == {d \in docs : low < d /\ d <= high}

\* What a page adds to the documents read in order.
LEMMA PageIsRead ==
  ASSUME NEW present, present \subseteq DocIds, IsFiniteSet(present), NEW after \in DocIds \union {0},
         NEW got \in Seq(DocIds), InOrder(got), \A i \in DOMAIN got : got[i] <= after,
         NEW page, page = FirstOf(Beyond(present, after)),
         NEW next, next = (IF page = <<>> THEN after ELSE page[Len(page)])
  PROVE  /\ got \o page \in Seq(DocIds) /\ next \in DocIds \union {0} /\ after <= next
         /\ InOrder(got \o page) /\ \A i \in DOMAIN (got \o page) : (got \o page)[i] <= next
         /\ ValuesOf(got \o page) = ValuesOf(got) \union Between(present, after, next)
         /\ Len(page) < PageSize => \A d \in present : d <= next
         /\ Len(page) \in Nat /\ (present = {} => Len(page) = 0)
<1> DEFINE ids == Beyond(present, after)
<1>1. /\ ids \subseteq Nat /\ IsFiniteSet(ids) /\ ids \subseteq DocIds /\ after \in Nat
      /\ \A d \in ids : d > after /\ d \in present
  <2>1. ids \in SUBSET present /\ \A d \in ids : d > after
    BY DEF Beyond
  <2>2. IsFiniteSet(ids)
    BY <2>1, FS_Subset
  <2>3. DocIds \subseteq Nat
    BY PackageStoreAssumption
  <2>4. after \in Nat
    BY <2>3
  <2>5. ids \subseteq DocIds /\ ids \subseteq Nat
    BY <2>1, <2>3
  <2>6. QED BY <2>1, <2>2, <2>4, <2>5
<1>2. /\ page \in Seq(ids) /\ Len(page) \in Nat /\ InOrder(page)
      /\ \A d \in ids : \/ \E i \in 1 .. Len(page) : page[i] = d
                        \/ Len(page) = PageSize /\ page[Len(page)] < d
  BY <1>1, PageIs
<1>3. \A d \in present : d > after => d \in ids
  BY DEF Beyond
<1> HIDE DEF ids
<1>4. /\ DOMAIN page = 1 .. Len(page)
      /\ \A i \in 1 .. Len(page) : page[i] \in ids /\ page[i] \in Nat /\ page[i] > after
  <2>1. DOMAIN page = 1 .. Len(page) /\ \A i \in 1 .. Len(page) : page[i] \in ids
    BY <1>2
  <2>2. QED BY <1>1, <2>1
<1>5. /\ Len(got) \in Nat /\ DOMAIN got = 1 .. Len(got)
      /\ \A i \in 1 .. Len(got) : got[i] \in Nat /\ got[i] <= after
  <2>1. /\ Len(got) \in Nat /\ DOMAIN got = 1 .. Len(got)
        /\ \A i \in 1 .. Len(got) : got[i] \in DocIds
    OBVIOUS
  <2>2. \A i \in 1 .. Len(got) : got[i] \in Nat
    BY <2>1, PackageStoreAssumption
  <2>3. \A i \in 1 .. Len(got) : got[i] <= after
    BY <2>1
  <2>4. QED BY <2>1, <2>2, <2>3
<1>6. /\ next \in DocIds \union {0} /\ after <= next /\ next \in Nat
      /\ \A i \in 1 .. Len(page) : page[i] <= next
      /\ page # <<>> => Len(page) \in 1 .. Len(page) /\ next = page[Len(page)]
      /\ page = <<>> => Len(page) = 0
  <2>1. CASE page = <<>>
    <3>1. next = after /\ Len(page) = 0
      BY <2>1
    <3>2. after <= after
      BY <1>1
    <3>3. ~(\E i \in 1 .. Len(page) : TRUE)
      BY <3>1
    <3>4. QED BY <1>1, <2>1, <3>1, <3>2, <3>3
  <2>2. CASE page # <<>>
    <3>1. Len(page) \in 1 .. Len(page)
      BY <1>2, <2>2
    <3>2. next = page[Len(page)] /\ next \in ids /\ next \in Nat /\ next > after
      BY <1>4, <2>2, <3>1
    <3>3. ASSUME NEW i \in 1 .. Len(page) PROVE page[i] <= next
      <4>1. CASE i = Len(page)
        BY <3>2, <4>1
      <4>2. CASE i < Len(page)
        <5>1. page[i] < page[Len(page)]
          BY <1>2, <1>4, <3>1, <4>2 DEF InOrder
        <5>2. page[i] \in Nat
          BY <1>4
        <5>3. QED BY <3>2, <5>1, <5>2
      <4>3. QED BY <1>2, <4>1, <4>2
    <3>4. after <= next
      BY <1>1, <3>2
    <3>5. QED BY <1>1, <2>2, <3>1, <3>2, <3>3, <3>4
  <2>3. QED BY <2>1, <2>2
<1> DEFINE all == got \o page
           n == Len(got)
<1>7. /\ all \in Seq(DocIds) /\ DOMAIN all = 1 .. n + Len(page)
      /\ \A i \in 1 .. n : all[i] = got[i]
      /\ \A i \in 1 .. Len(page) : all[n + i] = page[i] /\ n + i \in 1 .. n + Len(page)
      /\ \A i \in 1 .. n + Len(page) :
            i \in 1 .. n \/ (i - n \in 1 .. Len(page) /\ all[i] = page[i - n])
  <2>1. page \in Seq(DocIds)
    <3>1. \A i \in 1 .. Len(page) : page[i] \in DocIds
      BY <1>1, <1>4
    <3>2. page = [i \in 1 .. Len(page) |-> page[i]]
      BY <1>2
    <3>3. QED BY <1>2, <3>1, <3>2
  <2>2. all \in Seq(DocIds) /\ Len(all) = n + Len(page) /\ DOMAIN all = 1 .. n + Len(page)
    BY <2>1
  <2>3. \A i \in 1 .. n + Len(page) : all[i] = IF i <= n THEN got[i] ELSE page[i - n]
    BY <2>1
  <2>4. \A i \in 1 .. n : all[i] = got[i]
    BY <1>2, <1>5, <2>3
  <2>5. ASSUME NEW i \in 1 .. Len(page) PROVE all[n + i] = page[i] /\ n + i \in 1 .. n + Len(page)
    <3>1. n + i \in 1 .. n + Len(page) /\ ~(n + i <= n) /\ (n + i) - n = i
      BY <1>2, <1>5
    <3>2. QED BY <2>3, <3>1
  <2>6. ASSUME NEW i \in 1 .. n + Len(page), ~(i \in 1 .. n)
        PROVE  i - n \in 1 .. Len(page) /\ all[i] = page[i - n]
    <3>1. ~(i <= n) /\ i - n \in 1 .. Len(page)
      BY <1>2, <1>5, <2>6
    <3>2. QED BY <2>3, <3>1
  <2>7. QED BY <2>2, <2>4, <2>5, <2>6
<1> HIDE DEF all
<1>8. ASSUME NEW i \in DOMAIN all PROVE all[i] <= next
  <2>1. CASE i \in 1 .. n
    <3>1. all[i] \in Nat /\ all[i] <= after
      BY <1>5, <1>7, <2>1
    <3>2. QED BY <1>1, <1>6, <3>1
  <2>2. CASE i - n \in 1 .. Len(page) /\ all[i] = page[i - n]
    BY <1>6, <2>2
  <2>3. QED BY <1>7, <2>1, <2>2
<1>9. InOrder(all)
  <2> SUFFICES ASSUME NEW i \in 1 .. n + Len(page), NEW j \in 1 .. n + Len(page), i < j
               PROVE  all[i] < all[j]
    BY <1>7 DEF InOrder
  <2>1. CASE j \in 1 .. n
    <3>1. i \in 1 .. n
      BY <1>2, <1>5, <2>1
    <3>2. all[i] = got[i] /\ all[j] = got[j]
      BY <1>7, <2>1, <3>1
    <3>3. QED BY <1>5, <2>1, <3>1, <3>2 DEF InOrder
  <2>2. CASE i \in 1 .. n /\ j \notin 1 .. n
    <3>1. all[i] \in Nat /\ all[i] <= after
      BY <1>5, <1>7, <2>2
    <3>2. j - n \in 1 .. Len(page) /\ all[j] = page[j - n]
      BY <1>7, <2>2
    <3>3. all[j] \in Nat /\ all[j] > after
      BY <1>4, <3>2
    <3>4. QED BY <1>1, <3>1, <3>3
  <2>3. CASE i \notin 1 .. n /\ j \notin 1 .. n
    <3>1. i - n \in 1 .. Len(page) /\ all[i] = page[i - n]
      BY <1>7, <2>3
    <3>2. j - n \in 1 .. Len(page) /\ all[j] = page[j - n]
      BY <1>7, <2>3
    <3>3. i - n < j - n
      BY <1>2, <1>5
    <3>4. page[i - n] < page[j - n]
      BY <1>2, <1>4, <3>1, <3>2, <3>3 DEF InOrder
    <3>5. QED BY <3>1, <3>2, <3>4
  <2>4. QED BY <2>1, <2>2, <2>3
<1>10. ASSUME NEW d \in present, after < d
       PROVE  \/ \E i \in 1 .. Len(page) : page[i] = d
              \/ page # <<>> /\ Len(page) = PageSize /\ ~(d <= next)
  <2>1. d \in Nat /\ d \in ids
    <3>1. d \in Nat
      BY PackageStoreAssumption
    <3>2. d > after
      BY <1>1, <1>10, <3>1
    <3>3. QED BY <1>3, <3>1, <3>2
  <2>2. CASE Len(page) = PageSize /\ page[Len(page)] < d
    <3>1. page # <<>>
      BY <1>6, <2>2, PackageStoreAssumption
    <3>2. next = page[Len(page)]
      BY <1>6, <3>1
    <3>3. next < d
      BY <2>2, <3>2
    <3>4. QED BY <1>6, <2>1, <2>2, <3>1, <3>3
  <2>3. QED BY <1>2, <2>1, <2>2
<1>11. {all[i] : i \in DOMAIN all}
          = {got[i] : i \in DOMAIN got} \union {d \in present : after < d /\ d <= next}
  <2>1. ASSUME NEW i \in DOMAIN all
        PROVE  all[i] \in {got[k] : k \in DOMAIN got} \union {d \in present : after < d /\ d <= next}
    <3>1. CASE i \in 1 .. n
      BY <1>5, <1>7, <3>1
    <3>2. CASE i - n \in 1 .. Len(page) /\ all[i] = page[i - n]
      <4>1. all[i] \in ids /\ all[i] \in Nat /\ all[i] > after /\ all[i] <= next
        BY <1>4, <1>6, <3>2
      <4>2. all[i] \in present /\ after < all[i]
        BY <1>1, <4>1
      <4>3. QED BY <4>1, <4>2
    <3>3. QED BY <1>7, <3>1, <3>2
  <2>2. ASSUME NEW i \in DOMAIN got PROVE got[i] \in {all[k] : k \in DOMAIN all}
    <3>1. i \in 1 .. n /\ i \in 1 .. n + Len(page)
      BY <1>2, <1>5
    <3>2. QED BY <1>7, <3>1
  <2>3. ASSUME NEW d \in present, after < d, d <= next PROVE d \in {all[k] : k \in DOMAIN all}
    <3>1. PICK i \in 1 .. Len(page) : page[i] = d
      BY <1>10, <2>3
    <3>2. QED BY <1>7, <3>1
  <2>4. QED BY <2>1, <2>2, <2>3
<1>12. ASSUME Len(page) < PageSize, NEW d \in present PROVE d <= next
  <2>1. d \in Nat
    BY PackageStoreAssumption
  <2>2. CASE after < d
    <3>1. PICK i \in 1 .. Len(page) : page[i] = d
      BY <1>2, <1>10, <1>12, <2>2, PackageStoreAssumption
    <3>2. QED BY <1>6, <3>1
  <2>3. QED BY <1>1, <1>6, <2>1, <2>2
<1>13. present = {} => Len(page) = 0
  BY <1>1, <1>2, <1>4, <1>6
<1>14. QED BY <1>2, <1>6, <1>7, <1>8, <1>9, <1>11, <1>12, <1>13 DEF all, ValuesOf, Between

\* What a scope holds when a page of it is read.
LEMMA ScopeHolds ==
  ASSUME StoreInv, NEW scope \in Scopes
  PROVE  /\ PresentIn(scope) \subseteq DocIds /\ IsFiniteSet(PresentIn(scope))
         /\ scope = "user" => PresentIn(scope) = userDocs
         /\ scope = "system" =>
              PresentIn(scope) = IF snapshot \in Revisions THEN SnapshotDocs[snapshot] ELSE {}
<1>1. CASE scope = "user"
  BY <1>1 DEF StoreInv, PackageTypeOK, PresentIn
<1>2. CASE scope = "system"
  <2>1. CASE snapshot \in Revisions
    <3>1. SnapshotDocs[snapshot] \subseteq DocIds /\ IsFiniteSet(SnapshotDocs[snapshot])
          /\ snapshot # NoRevision
      BY <2>1, PackageStoreAssumption
    <3>2. \A d \in DocIds : systemDocs[d] # NoRevision <=> d \in SnapshotDocs[snapshot]
      BY <3>1 DEF StoreInv, SystemIsSnapshot
    <3>3. PresentIn(scope) = SnapshotDocs[snapshot]
      BY <1>2, <3>1, <3>2 DEF PresentIn
    <3>4. QED BY <1>2, <2>1, <3>1, <3>3
  <2>2. CASE snapshot \notin Revisions
    <3>1. \A d \in DocIds : systemDocs[d] = NoRevision
      BY <2>2 DEF StoreInv, PackageTypeOK, SystemIsSnapshot
    <3>2. PresentIn(scope) = {}
      BY <1>2, <3>1 DEF PresentIn
    <3>3. QED BY <1>2, <2>2, <3>2, FS_EmptySet
  <2>3. QED BY <2>1, <2>2
<1>3. QED BY <1>1, <1>2 DEF Scopes

\* Reading a page keeps the invariant: the page of the system scope is of the same revision.
LEMMA ReadKeeps ==
  ASSUME StoreInv, NEW r \in Readers, ReadPage(r)
  PROVE  StoreInv'
<1> DEFINE old == reader[r]
           page == NextPage(old)
           present == PresentIn(old.scope)
           after == IF page = <<>> THEN old.after ELSE page[Len(page)]
           new == [old EXCEPT
                     !.got = old.got \o page,
                     !.first = FALSE,
                     !.revision = IF old.first /\ old.scope = "system" THEN snapshot ELSE old.revision,
                     !.after = after,
                     !.at = IF Len(page) < PageSize THEN Outcome(old) ELSE old.at]
<1>1. /\ reader' = [reader EXCEPT ![r] = new] /\ old.at = "paging" /\ SameRevision(old)
      /\ UNCHANGED <<snapshot, systemDocs, userDocs, trusted, kept>>
  BY DEF ReadPage
<1>2. /\ old \in [at : {"idle", "paging", "whole", "refused"}, scope : Scopes,
                  after : DocIds \union {0}, revision : Revisions \union {NoRevision},
                  first : BOOLEAN, got : Seq(DocIds)]
      /\ ReaderOk(r) /\ kept[r] \subseteq DocIds
      /\ snapshot \in Revisions \union {NoRevision}
  BY DEF StoreInv, PackageTypeOK
<1>3. /\ present \subseteq DocIds /\ IsFiniteSet(present)
      /\ old.scope = "user" => present = userDocs
      /\ old.scope = "system" =>
           present = IF snapshot \in Revisions THEN SnapshotDocs[snapshot] ELSE {}
  BY <1>2, ScopeHolds
<1>4. page = FirstOf(Beyond(present, old.after))
  BY DEF NextPage
<1>5. InOrder(old.got) /\ \A i \in DOMAIN old.got : old.got[i] <= old.after
  BY <1>2 DEF ReaderOk
<1>a. old.after \in DocIds \union {0} /\ old.got \in Seq(DocIds)
  BY <1>2
<1>d. after = (IF page = <<>> THEN old.after ELSE page[Len(page)])
  OBVIOUS
<1> HIDE DEF present, page, after
<1>6. /\ old.got \o page \in Seq(DocIds) /\ after \in DocIds \union {0} /\ old.after <= after
      /\ InOrder(old.got \o page)
      /\ \A i \in DOMAIN (old.got \o page) : (old.got \o page)[i] <= after
      /\ ValuesOf(old.got \o page) = ValuesOf(old.got) \union Between(present, old.after, after)
      /\ Len(page) < PageSize => \A d \in present : d <= after
      /\ Len(page) \in Nat /\ (present = {} => Len(page) = 0)
  <2>1. PICK g \in Seq(DocIds), a \in DocIds \union {0} : g = old.got /\ a = old.after
    BY <1>a
  <2>2. PICK p \in SUBSET DocIds : p = present
    BY <1>3
  <2>3. PICK q : q = page
    OBVIOUS
  <2>4. PICK n : n = after
    OBVIOUS
  <2>5. /\ IsFiniteSet(p) /\ InOrder(g) /\ \A i \in DOMAIN g : g[i] <= a
        /\ q = FirstOf(Beyond(p, a)) /\ n = (IF q = <<>> THEN a ELSE q[Len(q)])
    BY <1>d, <1>3, <1>4, <1>5, <2>1, <2>2, <2>3, <2>4
  <2>6. /\ g \o q \in Seq(DocIds) /\ n \in DocIds \union {0} /\ a <= n
        /\ InOrder(g \o q)
        /\ \A i \in DOMAIN (g \o q) : (g \o q)[i] <= n
        /\ ValuesOf(g \o q) = ValuesOf(g) \union Between(p, a, n)
        /\ Len(q) < PageSize => \A d \in p : d <= n
        /\ Len(q) \in Nat /\ (p = {} => Len(q) = 0)
    BY <2>5, PageIsRead
  <2>7. QED BY <2>1, <2>2, <2>3, <2>4, <2>6
<1>7. Outcome(old) \in {"whole", "refused"}
  BY DEF Outcome
<1>8. /\ new.got = old.got \o page /\ new.first = FALSE /\ new.after = after
      /\ new.scope = old.scope
      /\ new.revision = IF old.first /\ old.scope = "system" THEN snapshot ELSE old.revision
      /\ new.at = IF Len(page) < PageSize THEN Outcome(old) ELSE "paging"
  BY <1>1, <1>2
<1>9. new \in [at : {"idle", "paging", "whole", "refused"}, scope : Scopes,
               after : DocIds \union {0}, revision : Revisions \union {NoRevision},
               first : BOOLEAN, got : Seq(DocIds)]
  BY <1>1, <1>2, <1>6, <1>7
<1> HIDE DEF new
<1>10. reader'[r] = new /\ kept' = kept /\ userDocs' = userDocs
  BY <1>1 DEF StoreInv, PackageTypeOK
<1>11. /\ Seen(r)' = Seen(r) \union {d \in present : old.after < d /\ d <= after}
       /\ old.after \in Nat /\ after \in Nat /\ \A d \in DocIds : d \in Nat /\ 0 < d
  <2>1. \A d \in DocIds : d \in Nat /\ 0 < d
    BY PackageStoreAssumption
  <2>2. old.after \in Nat /\ after \in Nat
    BY <1>2, <1>6, <2>1
  <2>3. Seen(r)' = {new.got[i] : i \in DOMAIN new.got}
    BY <1>10 DEF Seen
  <2>4. QED BY <1>6, <1>8, <2>1, <2>2, <2>3 DEF Seen, ValuesOf, Between
<1>b. InOrder(reader[r].got)' /\ \A i \in DOMAIN reader'[r].got : reader'[r].got[i] <= reader'[r].after
  <2>1. InOrder(new.got) /\ \A i \in DOMAIN new.got : new.got[i] <= new.after
    BY <1>6, <1>8
  <2>2. QED BY <1>10, <2>1 DEF InOrder
<1>c. reader'[r].scope = old.scope /\ old.scope \in Scopes
  BY <1>2, <1>8, <1>10
<1>12. new.at = "whole" \/ new.at = "paging" \/ new.at = "refused"
  BY <1>7, <1>8
<1>13. ASSUME old.scope = "user" PROVE ReaderOk(r)'
  <2>1. kept[r] \subseteq userDocs /\ \A d \in kept[r] : d <= old.after => d \in Seen(r)
    BY <1>1, <1>2, <1>13 DEF ReaderOk, UserRead
  <2>2. ASSUME NEW d \in kept[r], d <= after PROVE d \in Seen(r)'
    <3>1. d \in Nat /\ d \in present
      BY <1>3, <1>11, <1>13, <2>1
    <3>2. d <= old.after \/ old.after < d
      BY <1>11, <3>1
    <3>3. QED BY <1>11, <2>1, <2>2, <3>1, <3>2
  <2>3. new.at = "whole" => kept[r] \subseteq Seen(r)'
    <3>1. ASSUME new.at = "whole", NEW d \in kept[r] PROVE d <= after
      BY <1>3, <1>6, <1>8, <1>13, <2>1, <3>1
    <3>2. QED BY <2>2, <3>1
  <2>4. UserRead(r)'
    BY <1>8, <1>10, <2>1, <2>2, <2>3 DEF UserRead
  <2>5. QED BY <1>b, <1>c, <1>13, <2>4 DEF ReaderOk
<1>14. ASSUME old.scope = "system" PROVE ReaderOk(r)'
  <2>1. CASE snapshot \in Revisions
    <3>1. present = SnapshotDocs[snapshot]
      BY <1>3, <1>14, <2>1
    <3>2. new.revision = snapshot
      <4>1. old.first \/ snapshot = old.revision
        BY <1>1, <1>14 DEF SameRevision
      <4>2. QED BY <1>8, <1>14, <4>1
    <3>3. Seen(r) = {d \in present : d <= old.after}
      <4>1. CASE old.first
        <5>1. old.after = 0 /\ old.got = <<>>
          BY <1>1, <1>2, <1>14, <4>1 DEF ReaderOk, SystemRead
        <5>2. Seen(r) = {} /\ \A d \in present : ~(d <= 0)
          BY <1>3, <1>11, <5>1 DEF Seen
        <5>3. QED BY <5>1, <5>2
      <4>2. CASE ~old.first
        <5>1. HasRead(r, SnapshotDocs[old.revision])
          BY <1>1, <1>2, <1>14, <4>2 DEF ReaderOk, SystemRead
        <5>2. old.revision = snapshot
          BY <3>2, <1>8, <4>2
        <5>3. QED BY <3>1, <5>1, <5>2 DEF HasRead
      <4>3. QED BY <4>1, <4>2
    <3>4. Seen(r)' = {d \in present : d <= after}
      <4>1. \A d \in present : d <= after <=> d <= old.after \/ (old.after < d /\ d <= after)
        BY <1>3, <1>6, <1>11
      <4>2. QED BY <1>11, <3>3, <4>1
    <3>5. new.at = "whole" => Seen(r)' = SnapshotDocs[new.revision]
      BY <1>6, <1>8, <3>1, <3>2, <3>4
    <3>6. SystemRead(r)'
      BY <1>8, <1>10, <2>1, <3>1, <3>2, <3>4, <3>5 DEF SystemRead, HasRead
    <3>7. QED BY <1>b, <1>c, <1>14, <3>6 DEF ReaderOk
  <2>2. CASE snapshot \notin Revisions
    <3>1. Len(page) = 0 /\ 0 < PageSize
      BY <1>3, <1>6, <1>14, <2>2, PackageStoreAssumption
    <3>2. snapshot = NoRevision
      BY <1>2, <2>2
    <3>3. new.at = "refused"
      BY <1>8, <1>14, <3>1, <3>2 DEF Outcome
    <3>4. SystemRead(r)'
      BY <1>10, <3>3 DEF SystemRead
    <3>5. QED BY <1>b, <1>c, <1>14, <3>4 DEF ReaderOk
  <2>3. QED BY <2>1, <2>2
<1>15. ReaderOk(r)'
  BY <1>c, <1>13, <1>14 DEF Scopes
<1>16. kept' \in [Readers -> SUBSET DocIds] /\ \A q \in Readers \ {r} : kept'[q] = kept[q]
  BY <1>10 DEF StoreInv, PackageTypeOK
<1>17. QED BY <1>1, <1>9, <1>15, <1>16, OneReader

\* The invariant holds of every behaviour of the store.
THEOREM StoreStays == PackageSpec => []StoreInv
<1>1. StoreInv /\ [PackageNext]_packageVars => StoreInv'
  <2> SUFFICES ASSUME StoreInv, [PackageNext]_packageVars PROVE StoreInv'
    OBVIOUS
  <2>1. CASE \/ \E rev \in Revisions : ReplaceSnapshot(rev)
             \/ SnapshotExpires
             \/ UNCHANGED packageVars
    BY <2>1, SnapshotKeeps
  <2>2. ASSUME NEW d \in DocIds, PutDocument(d) \/ DeleteDocument(d) PROVE StoreInv'
    BY <2>2, DocumentsKeep
  <2>3. ASSUME NEW r \in Readers, NEW scope \in Scopes, StartRead(r, scope) PROVE StoreInv'
    BY <2>3, ReadStartKeeps
  <2>4. ASSUME NEW r \in Readers, ReadPage(r) PROVE StoreInv'
    BY <2>4, ReadKeeps
  <2>5. ASSUME NEW r \in Readers, ReadRefused(r) PROVE StoreInv'
    BY <2>5, ReadRefusedKeeps
  <2>6. QED BY <2>1, <2>2, <2>3, <2>4, <2>5 DEF PackageNext
<1>2. QED BY StoreBegins, <1>1, PTL DEF PackageSpec

\* Every variable of the store stays in its domain.
THEOREM StoreTypesHold == PackageSpec => []PackageTypeOK
<1>1. StoreInv => PackageTypeOK
  BY DEF StoreInv
<1>2. QED BY StoreStays, <1>1, PTL

\* A paged read that succeeds returns what one statement would have: of the system scope
\* exactly what one revision holds, of the user scope everything that was there all the
\* time, in order and none twice, whatever is imported, written and deleted between its
\* pages and whatever the size of a page (host functions of ailuo.store).
THEOREM PagesAreOneRead == PackageSpec => []PagedReadIsWhole
<1>1. StoreInv => PagedReadIsWhole
  <2> SUFFICES ASSUME StoreInv, NEW r \in Readers, reader[r].at = "whole"
               PROVE  /\ InOrder(reader[r].got)
                      /\ IF reader[r].scope = "user" THEN kept[r] \subseteq Seen(r)
                         ELSE Seen(r) = SnapshotDocs[reader[r].revision]
    BY DEF PagedReadIsWhole
  <2>1. ReaderOk(r)
    BY DEF StoreInv
  <2>2. QED BY <2>1 DEF ReaderOk, UserRead, SystemRead
<1>2. QED BY StoreStays, <1>1, PTL

-----------------------------------------------------------------------------
(* The dependencies of a project: DependencyResolve. *)

\* A set of versions that is not empty has a highest one, and Max is a member of it.
LEMMA MaxIsThere ==
  ASSUME NEW vs, vs \subseteq Versions, vs # {}
  PROVE  Max(vs) \in vs
<1>1. vs \subseteq Nat /\ IsFiniteSet(vs)
  <2>1. IsFiniteSet(Versions) /\ vs \in SUBSET Versions /\ Versions \subseteq Nat
    BY FS_Interval, ResolveAssumption DEF Versions
  <2>2. IsFiniteSet(vs)
    BY <2>1, FS_Subset
  <2>3. QED BY <2>1, <2>2
<1> DEFINE n == Cardinality(vs)
<1>2. /\ n \in Nat /\ \A d \in vs : RankIn(vs, d) \in 1 .. n
      /\ \A d, e \in vs : d < e => RankIn(vs, d) < RankIn(vs, e)
  BY <1>1, RankIsPlace
<1>3. n \in 1 .. n
  <2>1. n # 0
    BY <1>1, FS_EmptySet
  <2>2. QED BY <1>2, <2>1
<1>4. PICK top \in vs : RankIn(vs, top) = n
  BY <1>1, <1>3, EveryRankIsThere
<1>5. ASSUME NEW e \in vs PROVE top >= e
  <2>1. top < e => n < RankIn(vs, e)
    BY <1>2, <1>4
  <2>2. PICK i \in 1 .. n : i = RankIn(vs, e)
    BY <1>2
  <2>3. ~(n < i) /\ top \in Nat /\ e \in Nat
    BY <1>1, <1>2, <2>2
  <2>4. QED BY <2>1, <2>2, <2>3
<1>6. QED BY <1>4, <1>5 DEF Max

\* An entry of the list of requirements.
Asked == [pkg : Wanted, accepts : Constraints]

\* The list of the requirements of something holds each of them, and nothing else.
LEMMA RequirementsAreListed ==
  ASSUME NEW needs, IsRequirement(needs)
  PROVE  /\ Requirements(needs) \in Seq(Asked)
         /\ \A i \in 1 .. Len(Requirements(needs)) :
              \E p \in DOMAIN needs : Requirements(needs)[i] = [pkg |-> p, accepts |-> needs[p]]
         /\ \A p \in DOMAIN needs :
              \E i \in 1 .. Len(Requirements(needs)) :
                 Requirements(needs)[i] = [pkg |-> p, accepts |-> needs[p]]
<1> DEFINE One(p) == [pkg |-> p, accepts |-> needs[p]]
           S == {One(p) : p \in DOMAIN needs}
           n == Cardinality(S)
           s == SetToSeq(S)
<1>1. IsFiniteSet(S)
  <2>1. [p \in DOMAIN needs |-> One(p)] \in Surjection(DOMAIN needs, S)
    BY DEF Surjection
  <2>2. IsFiniteSet(DOMAIN needs)
    BY DEF IsRequirement
  <2>3. QED BY <2>1, <2>2, FS_Surjection
<1>2. n \in Nat /\ ExistsBijection(1 .. n, S)
  BY <1>1, FS_CardinalityType
<1> HIDE DEF S
<1>3. \E f \in [1 .. n -> S] : IsInjective(f)
  BY <1>2 DEF ExistsBijection, Bijection, Injection
<1>4. s \in [1 .. n -> S] /\ IsInjective(s)
  BY <1>3 DEF SetToSeq
<1>5. s \in Surjection(1 .. n, S)
  <2>1. s \in Injection(1 .. n, S)
    BY <1>4 DEF Injection
  <2>2. IsFiniteSet(1 .. n) /\ Cardinality(1 .. n) = n
    BY <1>2, FS_Interval
  <2>3. QED BY <1>1, <2>1, <2>2, FS_Injection
<1>6. s \in Seq(S) /\ Len(s) = n
  BY <1>2, <1>4
<1>7. \A x \in S : \E i \in 1 .. n : s[i] = x
  BY <1>5 DEF Surjection
<1>8. \A i \in 1 .. n : s[i] \in S
  BY <1>4
<1>9. S \subseteq Asked
  BY DEF S, IsRequirement, Constraints, Asked
<1>10. s \in Seq(Asked)
  <2>1. \A i \in 1 .. n : s[i] \in Asked
    BY <1>8, <1>9
  <2>2. s \in [1 .. n -> Asked]
    BY <1>4, <2>1
  <2>3. QED BY <1>2, <2>2
<1>11. \A p \in DOMAIN needs : One(p) \in S
  BY DEF S
<1>12. \A x \in S : \E p \in DOMAIN needs : x = One(p)
  BY DEF S
<1> HIDE DEF s
<1>13. Requirements(needs) = s
  BY DEF Requirements, s, S
<1>14. QED BY <1>6, <1>7, <1>8, <1>10, <1>11, <1>12, <1>13

\* What is required is on the list, or was looked at.
Heard(needs) ==
    \A p \in DOMAIN needs :
        \/ needs[p] \in required[p]
        \/ \E i \in DOMAIN queue : queue[i] = [pkg |-> p, accepts |-> needs[p]]

\* Whatever the pass has loaded accepts all it has looked at, and is heard.
PassInv ==
    /\ Heard(ProjectNeeds)
    /\ \A p \in Wanted :
         IF current[p] = NoVersion THEN required[p] = {}
         ELSE Accepted(current[p], required[p]) /\ Heard(Required[p][current[p]])

\* What was loaded for some constraints does for them, and is the locked version if that was asked.
CacheInv ==
    \A key \in DOMAIN cache :
        /\ cache[key] \in Versions /\ Accepted(cache[key], key[2])
        /\ key[3] # NoVersion => cache[key] = key[3]

\* Under a lock that is a closure, the pass looks only at what the lock satisfies.
LockInv ==
    LockIsClosure =>
        /\ \A i \in DOMAIN queue :
             queue[i].pkg \in DOMAIN locked /\ locked[queue[i].pkg] \in queue[i].accepts
        /\ \A p \in Wanted :
             /\ required[p] # {} => p \in DOMAIN locked /\ Accepted(locked[p], required[p])
             /\ current[p] # NoVersion => p \in DOMAIN locked /\ current[p] = locked[p]

\* The domains of the variables the argument is about.
ResolveTypes ==
    /\ released \in [Wanted -> SUBSET Versions] /\ locked \in Locks /\ queue \in Seq(Asked)
    /\ required \in [Wanted -> SUBSET Constraints] /\ processed \in [Wanted -> SUBSET Constraints]
    /\ current \in [Wanted -> Versions \union {NoVersion}]
    /\ verdict \in {"busy", "resolved", "refused", "unstable"}

\* The inductive invariant; that a package was processed for just the constraints seen so
\* far is what the fingerprint of resolvePass is for.
ResolveInv ==
    /\ ResolveTypes /\ CacheInv
    /\ verdict = "busy" => processed = required
    /\ verdict \in {"busy", "resolved"} => PassInv /\ LockInv
    /\ verdict = "resolved" => queue = <<>> /\ Acyclic

\* What was heard of stays heard when nothing is dropped but what was looked at.
LEMMA HeardStays ==
  ASSUME NEW needs, Heard(needs), DOMAIN needs \subseteq Wanted,
         \A q \in Wanted : required[q] \subseteq required'[q],
         \A i \in DOMAIN queue : \/ queue[i].accepts \in required'[queue[i].pkg]
                                 \/ \E j \in DOMAIN queue' : queue'[j] = queue[i]
  PROVE  Heard(needs)'
<1> SUFFICES ASSUME NEW p \in DOMAIN needs
             PROVE  \/ needs[p] \in required'[p]
                    \/ \E j \in DOMAIN queue' : queue'[j] = [pkg |-> p, accepts |-> needs[p]]
  BY DEF Heard
<1>1. CASE needs[p] \in required[p]
  BY <1>1
<1>2. CASE \E i \in DOMAIN queue : queue[i] = [pkg |-> p, accepts |-> needs[p]]
  <2>1. PICK i \in DOMAIN queue : queue[i] = [pkg |-> p, accepts |-> needs[p]]
    BY <1>2
  <2>2. queue[i].accepts = needs[p] /\ queue[i].pkg = p
    BY <2>1
  <2>3. QED BY <2>1, <2>2
<1>3. QED BY <1>1, <1>2 DEF Heard

\* A pass begins with the requirements of the project on its list, and nothing loaded.
LEMMA PassBegins ==
    locked \in Locks /\ queue = Requirements(ProjectNeeds) /\ required = Unseen /\ current = Nowhere
       => queue \in Seq(Asked) /\ PassInv /\ LockInv
<1> SUFFICES ASSUME locked \in Locks, queue = Requirements(ProjectNeeds),
                    required = Unseen, current = Nowhere
             PROVE  queue \in Seq(Asked) /\ PassInv /\ LockInv
  OBVIOUS
<1>1. IsRequirement(ProjectNeeds)
  BY ResolveAssumption
<1>2. /\ queue \in Seq(Asked)
      /\ \A i \in 1 .. Len(queue) :
           \E p \in DOMAIN ProjectNeeds : queue[i] = [pkg |-> p, accepts |-> ProjectNeeds[p]]
      /\ \A p \in DOMAIN ProjectNeeds :
           \E i \in 1 .. Len(queue) : queue[i] = [pkg |-> p, accepts |-> ProjectNeeds[p]]
  BY <1>1, RequirementsAreListed
<1>3. DOMAIN queue = 1 .. Len(queue)
  BY <1>2
<1>4. PassInv
  BY <1>2, <1>3 DEF PassInv, Heard, Unseen, Nowhere
<1>5. ASSUME LockIsClosure
      PROVE  /\ \A i \in DOMAIN queue :
                  queue[i].pkg \in DOMAIN locked /\ locked[queue[i].pkg] \in queue[i].accepts
             /\ \A p \in Wanted : required[p] = {} /\ current[p] = NoVersion
  <2>1. ASSUME NEW i \in DOMAIN queue
        PROVE  queue[i].pkg \in DOMAIN locked /\ locked[queue[i].pkg] \in queue[i].accepts
    <3>1. PICK p \in DOMAIN ProjectNeeds : queue[i] = [pkg |-> p, accepts |-> ProjectNeeds[p]]
      BY <1>2, <1>3
    <3>2. QED BY <1>5, <3>1 DEF LockIsClosure
  <2>2. QED BY <2>1 DEF Unseen, Nowhere
<1>6. QED BY <1>2, <1>4, <1>5 DEF LockInv

\* What is loaded does for its constraints, and is the locked version if that does.
LEMMA LoadedIsAccepted ==
  ASSUME ResolveTypes, CacheInv, NEW p \in Wanted, NEW cs \in SUBSET Constraints,
         Load(p, cs) # NoVersion
  PROVE  /\ Load(p, cs) \in Versions /\ Accepted(Load(p, cs), cs)
         /\ LockedVersion(p, cs) # NoVersion => Load(p, cs) = LockedVersion(p, cs)
<1> DEFINE pinned == LockedVersion(p, cs)
           key == <<p, cs, pinned>>
<1>1. CASE key \in DOMAIN cache
  <2>1. key[2] = cs /\ key[3] = pinned /\ Load(p, cs) = cache[key]
    BY <1>1 DEF Load
  <2>2. QED BY <1>1, <2>1 DEF CacheInv
<1>2. CASE key \notin DOMAIN cache
  <2>1. Candidates(p, cs) # {} /\ Load(p, cs) = Max(Candidates(p, cs))
    BY <1>2 DEF Load
  <2>2. Candidates(p, cs) \subseteq Versions
    BY DEF Candidates, ResolveTypes
  <2>3. Load(p, cs) \in Candidates(p, cs)
    BY <2>1, <2>2, MaxIsThere
  <2>4. CASE pinned = NoVersion
    BY <2>2, <2>3, <2>4 DEF Candidates
  <2>5. CASE pinned # NoVersion
    <3>1. Load(p, cs) = pinned
      BY <2>3, <2>5 DEF Candidates
    <3>2. Accepted(pinned, cs)
      BY <2>5 DEF LockedVersion
    <3>3. QED BY <2>2, <2>3, <3>1, <3>2
  <2>6. QED BY <2>4, <2>5
<1>3. QED BY <1>1, <1>2

\* The invariant holds when resolving begins.
LEMMA ResolveBegins == ResolveInit => ResolveInv
<1> SUFFICES ASSUME ResolveInit PROVE ResolveInv
  OBVIOUS
<1>1. queue \in Seq(Asked) /\ PassInv /\ LockInv
  BY PassBegins DEF ResolveInit
<1>2. ResolveTypes
  BY <1>1, ResolveAssumption DEF ResolveInit, ResolveTypes, Unseen, Nowhere
<1>3. CacheInv
  BY DEF ResolveInit, CacheInv
<1>4. verdict = "busy" /\ processed = required
  BY DEF ResolveInit
<1>5. QED BY <1>1, <1>2, <1>3, <1>4 DEF ResolveInv

\* A step that leaves the pass as it is keeps the invariant.
LEMMA PassStays ==
  ASSUME ResolveInv, UNCHANGED <<locked, queue, required, processed, current, cache>>,
         released' \in [Wanted -> SUBSET Versions],
         \/ verdict' = verdict
         \/ verdict = "busy" /\ verdict' = "resolved" /\ queue = <<>> /\ Acyclic
         \/ verdict' \in {"refused", "unstable"}
  PROVE  ResolveInv'
<1>1. ResolveTypes' /\ CacheInv'
  BY DEF ResolveInv, ResolveTypes, CacheInv
<1>2. PassInv => PassInv'
  BY DEF PassInv, Heard
<1>3. LockInv => LockInv'
  BY DEF LockInv, LockIsClosure
<1>4. Acyclic => Acyclic'
  <2>1. ASSUME NEW p PROVE Reaches(p)' = Reaches(p)
    <3>1. current' = current
      OBVIOUS
    <3>2. QED BY <3>1, SMT DEF Reaches, Depends
  <2>2. QED BY <2>1 DEF Acyclic
<1>5. QED BY <1>1, <1>2, <1>3, <1>4 DEF ResolveInv

\* rest is the list old without its first entry,
ListRest(old, rest) ==
    /\ \A i \in DOMAIN old : i = 1 \/ \E j \in DOMAIN rest : rest[j] = old[i]
    /\ \A j \in DOMAIN rest : \E i \in DOMAIN old : rest[j] = old[i]
\* and all holds the entries of rest and of more.
ListJoined(rest, more, all) ==
    /\ \A j \in DOMAIN rest : \E k \in DOMAIN all : all[k] = rest[j]
    /\ \A j \in DOMAIN more : \E k \in DOMAIN all : all[k] = more[j]
    /\ \A k \in DOMAIN all : \/ \E j \in DOMAIN rest : all[k] = rest[j]
                             \/ \E j \in DOMAIN more : all[k] = more[j]

\* The list after a requirement was looked at and others were added to it.
LEMMA ListGrows ==
  ASSUME NEW old \in Seq(Asked), old # <<>>, NEW more \in Seq(Asked),
         NEW rest, rest = Tail(old), NEW all, all = rest \o more
  PROVE  /\ Head(old) = old[1] /\ Head(old) \in Asked /\ 1 \in DOMAIN old
         /\ rest \in Seq(Asked) /\ all \in Seq(Asked)
         /\ ListRest(old, rest) /\ ListJoined(rest, more, all)
<1>1. /\ Len(old) \in Nat /\ Len(old) # 0 /\ DOMAIN old = 1 .. Len(old)
      /\ Len(more) \in Nat /\ DOMAIN more = 1 .. Len(more)
  OBVIOUS
<1>2. /\ rest \in Seq(Asked) /\ Len(rest) = Len(old) - 1 /\ Len(rest) \in Nat
      /\ DOMAIN rest = 1 .. Len(rest) /\ \A j \in 1 .. Len(rest) : rest[j] = old[j + 1]
  <2>1. /\ rest \in Seq(Asked) /\ Len(rest) = Len(old) - 1
        /\ \A j \in 1 .. Len(rest) : rest[j] = old[j + 1]
    BY HeadTailProperties
  <2>2. QED BY <1>1, <2>1
<1>3. /\ all \in Seq(Asked) /\ Len(all) = Len(rest) + Len(more) /\ DOMAIN all = 1 .. Len(all)
      /\ \A k \in 1 .. Len(all) :
           all[k] = IF k <= Len(rest) THEN rest[k] ELSE more[k - Len(rest)]
  <2>1. /\ all \in Seq(Asked) /\ Len(all) = Len(rest) + Len(more)
        /\ \A k \in 1 .. Len(rest) + Len(more) :
              all[k] = IF k <= Len(rest) THEN rest[k] ELSE more[k - Len(rest)]
    BY <1>2, ConcatProperties
  <2>2. QED BY <1>1, <1>2, <2>1
<1>4. ASSUME NEW i \in DOMAIN old, i # 1 PROVE \E j \in DOMAIN rest : rest[j] = old[i]
  <2>1. i - 1 \in 1 .. Len(rest) /\ (i - 1) + 1 = i
    BY <1>1, <1>2, <1>4
  <2>2. QED BY <1>2, <2>1
<1>5. ASSUME NEW j \in DOMAIN rest PROVE \E i \in DOMAIN old : rest[j] = old[i]
  <2>1. j + 1 \in 1 .. Len(old)
    BY <1>1, <1>2
  <2>2. QED BY <1>1, <1>2, <2>1
<1>6. ASSUME NEW j \in DOMAIN rest PROVE \E k \in DOMAIN all : all[k] = rest[j]
  <2>1. j \in 1 .. Len(all) /\ j <= Len(rest)
    BY <1>1, <1>2, <1>3
  <2>2. QED BY <1>3, <2>1
<1>7. ASSUME NEW j \in DOMAIN more PROVE \E k \in DOMAIN all : all[k] = more[j]
  <2>1. Len(rest) + j \in 1 .. Len(all) /\ ~(Len(rest) + j <= Len(rest))
        /\ (Len(rest) + j) - Len(rest) = j
    BY <1>1, <1>2, <1>3
  <2>2. QED BY <1>3, <2>1
<1>8. ASSUME NEW k \in DOMAIN all
      PROVE  \/ \E j \in DOMAIN rest : all[k] = rest[j]
             \/ \E j \in DOMAIN more : all[k] = more[j]
  <2>1. CASE k <= Len(rest)
    <3>1. k \in 1 .. Len(rest)
      BY <1>2, <1>3, <2>1
    <3>2. QED BY <1>2, <1>3, <2>1, <3>1
  <2>2. CASE ~(k <= Len(rest))
    <3>1. k - Len(rest) \in 1 .. Len(more)
      BY <1>1, <1>2, <1>3, <2>2
    <3>2. QED BY <1>1, <1>3, <2>2, <3>1
  <2>3. QED BY <2>1, <2>2
<1>9. Head(old) = old[1] /\ Head(old) \in Asked /\ 1 \in DOMAIN old
  <2>1. Head(old) \in Asked
    BY HeadTailProperties
  <2>2. QED BY <1>1, <2>1
<1>10. ListRest(old, rest) /\ ListJoined(rest, more, all)
  BY <1>4, <1>5, <1>6, <1>7, <1>8 DEF ListRest, ListJoined
<1>11. QED BY <1>2, <1>3, <1>9, <1>10

\* Looking at one requirement keeps the invariant.
LEMMA LookKeeps == ResolveInv /\ NextRequirement => ResolveInv'
<1> SUFFICES ASSUME ResolveInv, NextRequirement PROVE ResolveInv'
  OBVIOUS
<1>a. PICK head : head = Head(queue)
  OBVIOUS
<1> DEFINE p == head.pkg
<1>b. PICK cs : cs = required[p] \union {head.accepts}
  OBVIOUS
<1>c. PICK v : v = Load(p, cs)
  OBVIOUS
<1> DEFINE more == Requirements(Required[p][v])
<1>1. /\ verdict = "busy" /\ queue # <<>> /\ required' = [required EXCEPT ![p] = cs]
      /\ UNCHANGED <<released, locked, previous, passes, publishings>>
      /\ \/ /\ Settled(p, cs) /\ queue' = Tail(queue)
            /\ UNCHANGED <<processed, current, changed, cache, verdict>>
         \/ /\ ~Settled(p, cs) /\ v = NoVersion /\ verdict' = "refused"
            /\ UNCHANGED <<queue, processed, current, changed, cache>>
         \/ /\ ~Settled(p, cs) /\ v # NoVersion
            /\ processed' = [processed EXCEPT ![p] = cs] /\ current' = [current EXCEPT ![p] = v]
            /\ Remember(p, cs, v) /\ queue' = Tail(queue) \o more /\ UNCHANGED verdict
  BY <1>a, <1>b, <1>c DEF NextRequirement
<1>2. ResolveTypes /\ CacheInv /\ processed = required /\ PassInv /\ LockInv
  BY <1>1 DEF ResolveInv
<1>d. PICK old \in Seq(Asked) : old = queue
  BY <1>2 DEF ResolveTypes
<1>e. PICK rest : rest = Tail(old)
  OBVIOUS
<1>f. old # <<>> /\ Tail(queue) = rest
  BY <1>d, <1>e, <1>1
<1>3. head \in Asked /\ head = queue[1] /\ 1 \in DOMAIN queue
  <2>1. <<>> \in Seq(Asked)
    OBVIOUS
  <2>2. PICK all : all = rest \o <<>>
    OBVIOUS
  <2>3. Head(old) = old[1] /\ Head(old) \in Asked /\ 1 \in DOMAIN old
    BY <1>e, <1>f, <2>1, <2>2, ListGrows
  <2>4. QED BY <1>a, <1>d, <2>3
<1>4. p \in Wanted /\ head.accepts \in Constraints /\ required[p] \in SUBSET Constraints
      /\ required'[p] = cs /\ head.accepts \in cs
  BY <1>b, <1>1, <1>2, <1>3 DEF ResolveTypes, Asked
<1>5. cs \in SUBSET Constraints
  BY <1>b, <1>4
<1> HIDE DEF p
<1>6. required' \in [Wanted -> SUBSET Constraints] /\ \A q \in Wanted \ {p} : required'[q] = required[q]
  BY <1>1, <1>2, <1>5 DEF ResolveTypes
<1>7. \A q \in Wanted : required[q] \subseteq required'[q]
  BY <1>b, <1>4, <1>6
<1>8. ASSUME Settled(p, cs), queue' = Tail(queue),
             UNCHANGED <<processed, current, changed, cache, verdict>>
      PROVE  ResolveInv'
  <2>1. required' = required /\ required[p] = cs
    <3>1. required[p] = cs
      BY <1>2, <1>8 DEF Settled, SettledForConstraints
    <3>2. QED BY <1>1, <1>2, <3>1 DEF ResolveTypes
  <2>2. /\ Tail(queue) \in Seq(Asked)
        /\ \A i \in DOMAIN queue : i = 1 \/ \E j \in DOMAIN Tail(queue) : Tail(queue)[j] = queue[i]
        /\ \A j \in DOMAIN Tail(queue) : \E i \in DOMAIN queue : Tail(queue)[j] = queue[i]
    <3>1. rest \in Seq(Asked) /\ ListRest(old, rest)
      <4>1. <<>> \in Seq(Asked)
        OBVIOUS
      <4>2. PICK all : all = rest \o <<>>
        OBVIOUS
      <4>3. QED BY <1>e, <1>f, <4>1, <4>2, ListGrows
    <3>2. QED BY <1>d, <1>f, <3>1 DEF ListRest
  <2>3. ResolveTypes' /\ CacheInv'
    BY <1>1, <1>2, <1>8, <2>1, <2>2 DEF ResolveTypes, CacheInv
  <2>4. ASSUME NEW i \in DOMAIN queue
        PROVE  \/ queue[i].accepts \in required'[queue[i].pkg]
               \/ \E j \in DOMAIN queue' : queue'[j] = queue[i]
    BY <1>3, <1>4, <1>8, <2>1, <2>2 DEF p
  <2>5. ASSUME NEW needs, Heard(needs), IsRequirement(needs) PROVE Heard(needs)'
    BY <1>7, <2>4, <2>5, HeardStays DEF IsRequirement
  <2>6. PassInv'
    <3>1. Heard(ProjectNeeds)'
      BY <1>2, <2>5, ResolveAssumption DEF PassInv
    <3>2. ASSUME NEW q \in Wanted, current[q] # NoVersion PROVE Heard(Required[q][current[q]])'
      <4>1. PICK w \in Versions : w = current[q]
        BY <1>2, <3>2 DEF ResolveTypes
      <4>2. Heard(Required[q][w]) /\ IsRequirement(Required[q][w])
        BY <1>2, <3>2, <4>1, ResolveAssumption DEF PassInv
      <4>3. Heard(Required[q][w])' /\ current'[q] = w
        BY <1>8, <2>5, <4>1, <4>2
      <4>4. QED BY <4>3 DEF Heard
    <3>3. QED BY <1>2, <1>8, <2>1, <3>1, <3>2 DEF PassInv
  <2>7. LockInv'
    BY <1>1, <1>2, <1>8, <2>1, <2>2 DEF LockInv, LockIsClosure
  <2>8. QED BY <1>1, <1>2, <1>8, <2>1, <2>3, <2>6, <2>7 DEF ResolveInv
<1>9. ASSUME verdict' = "refused", UNCHANGED <<queue, processed, current, changed, cache>>
      PROVE  ResolveInv'
  <2>1. ResolveTypes' /\ CacheInv'
    BY <1>1, <1>2, <1>6, <1>9 DEF ResolveTypes, CacheInv
  <2>2. QED BY <1>9, <2>1 DEF ResolveInv
<1>10. ASSUME v # NoVersion, processed' = [processed EXCEPT ![p] = cs],
              current' = [current EXCEPT ![p] = v], Remember(p, cs, v),
              queue' = Tail(queue) \o more, UNCHANGED verdict
       PROVE  ResolveInv'
  <2>1. /\ v \in Versions /\ Accepted(v, cs)
        /\ LockedVersion(p, cs) # NoVersion => v = LockedVersion(p, cs)
    BY <1>c, <1>2, <1>4, <1>5, <1>10, LoadedIsAccepted
  <2>2. IsRequirement(Required[p][v])
    BY <1>4, <2>1, ResolveAssumption
  <2>3. /\ more \in Seq(Asked) /\ DOMAIN more = 1 .. Len(more)
        /\ \A i \in 1 .. Len(more) :
              \E d \in DOMAIN Required[p][v] : more[i] = [pkg |-> d, accepts |-> Required[p][v][d]]
        /\ \A d \in DOMAIN Required[p][v] :
              \E i \in 1 .. Len(more) : more[i] = [pkg |-> d, accepts |-> Required[p][v][d]]
    <3>1. more \in Seq(Asked)
      BY <2>2, RequirementsAreListed
    <3>2. DOMAIN more = 1 .. Len(more)
      BY <3>1
    <3>3. QED BY <2>2, <3>1, <3>2, RequirementsAreListed
  <2> HIDE DEF more
  <2>4. /\ queue' \in Seq(Asked)
        /\ \A i \in DOMAIN queue : i = 1 \/ \E j \in DOMAIN queue' : queue'[j] = queue[i]
        /\ \A j \in DOMAIN more : \E k \in DOMAIN queue' : queue'[k] = more[j]
        /\ \A k \in DOMAIN queue' : \/ \E i \in DOMAIN queue : queue'[k] = queue[i]
                                    \/ \E j \in DOMAIN more : queue'[k] = more[j]
    <3>a. PICK all : all = rest \o more
      OBVIOUS
    <3>1. /\ all \in Seq(Asked) /\ all = queue'
          /\ ListRest(old, rest) /\ ListJoined(rest, more, all)
      <4>1. all = queue'
        BY <1>f, <1>10, <3>a
      <4>2. QED BY <1>e, <1>f, <2>3, <3>a, <4>1, ListGrows
    <3>2. \A i \in DOMAIN queue : i = 1 \/ \E j \in DOMAIN queue' : queue'[j] = queue[i]
      BY <1>d, <3>1 DEF ListRest, ListJoined
    <3>3. \A k \in DOMAIN queue' : \/ \E i \in DOMAIN queue : queue'[k] = queue[i]
                                   \/ \E j \in DOMAIN more : queue'[k] = more[j]
      BY <1>d, <3>1 DEF ListRest, ListJoined
    <3>4. \A j \in DOMAIN more : \E k \in DOMAIN queue' : queue'[k] = more[j]
      BY <3>1 DEF ListJoined
    <3>5. QED BY <3>1, <3>2, <3>3, <3>4
  <2>5. current'[p] = v /\ \A q \in Wanted \ {p} : current'[q] = current[q]
    BY <1>2, <1>4, <1>10 DEF ResolveTypes
  <2>6. ResolveTypes'
    <3>1. current' \in [Wanted -> Versions \union {NoVersion}]
      BY <1>2, <1>4, <1>10, <2>1 DEF ResolveTypes
    <3>2. processed' \in [Wanted -> SUBSET Constraints]
      BY <1>2, <1>5, <1>10 DEF ResolveTypes
    <3>3. QED BY <1>1, <1>2, <1>6, <1>10, <2>4, <3>1, <3>2 DEF ResolveTypes
  <2>7. processed' = required'
    BY <1>1, <1>2, <1>10
  <2>8. CacheInv'
    <3> DEFINE key == <<p, cs, LockedVersion(p, cs)>>
    <3>1. cache' = [k \in DOMAIN cache \union {key} |-> IF k = key THEN v ELSE cache[k]]
      BY <1>10 DEF Remember
    <3>2. key[2] = cs /\ key[3] = LockedVersion(p, cs)
      OBVIOUS
    <3> HIDE DEF key
    <3>3. ASSUME NEW k \in DOMAIN cache'
          PROVE  /\ cache'[k] \in Versions /\ Accepted(cache'[k], k[2])
                 /\ k[3] # NoVersion => cache'[k] = k[3]
      <4>1. CASE k = key
        BY <2>1, <3>1, <3>2, <4>1
      <4>2. CASE k # key
        <5>1. k \in DOMAIN cache /\ cache'[k] = cache[k]
          BY <3>1, <3>3, <4>2
        <5>2. QED BY <1>2, <5>1 DEF CacheInv
      <4>3. QED BY <4>1, <4>2
    <3>4. QED BY <3>3 DEF CacheInv, Accepted
  <2>9. ASSUME NEW i \in DOMAIN queue
        PROVE  \/ queue[i].accepts \in required'[queue[i].pkg]
               \/ \E j \in DOMAIN queue' : queue'[j] = queue[i]
    BY <1>3, <1>4, <2>4 DEF p
  <2>10. ASSUME NEW needs, Heard(needs), IsRequirement(needs) PROVE Heard(needs)'
    BY <1>7, <2>9, <2>10, HeardStays DEF IsRequirement
  <2>11. PassInv'
    <3>1. Heard(ProjectNeeds)'
      BY <1>2, <2>10, ResolveAssumption DEF PassInv
    <3>2. ASSUME NEW q \in Wanted \ {p}
          PROVE  IF current'[q] = NoVersion THEN required'[q] = {}
                 ELSE Accepted(current'[q], required'[q]) /\ Heard(Required[q][current[q]])'
      <4>1. required'[q] = required[q] /\ current'[q] = current[q]
        BY <1>6, <2>5
      <4>2. CASE current[q] = NoVersion
        BY <1>2, <4>1, <4>2 DEF PassInv
      <4>3. CASE current[q] # NoVersion
        <5>1. PICK w \in Versions : w = current[q]
          BY <1>2, <4>3 DEF ResolveTypes
        <5>2. Heard(Required[q][w]) /\ IsRequirement(Required[q][w]) /\ Accepted(w, required[q])
          BY <1>2, <4>3, <5>1, ResolveAssumption DEF PassInv
        <5>3. Heard(Required[q][w])' /\ current'[q] = w
          BY <2>10, <4>1, <5>1, <5>2
        <5>4. Heard(Required[q][current[q]])'
          BY <5>3 DEF Heard
        <5>5. QED BY <4>1, <4>3, <5>1, <5>2, <5>4
      <4>4. QED BY <4>2, <4>3
    <3>3. Accepted(current'[p], required'[p]) /\ Heard(Required[p][current[p]])'
      <4>1. \A d \in DOMAIN Required[p][v] : \E k \in DOMAIN queue' :
               queue'[k] = [pkg |-> d, accepts |-> Required[p][v][d]]
        <5>1. ASSUME NEW d \in DOMAIN Required[p][v]
              PROVE  \E k \in DOMAIN queue' : queue'[k] = [pkg |-> d, accepts |-> Required[p][v][d]]
          <6>1. PICK i \in 1 .. Len(more) : more[i] = [pkg |-> d, accepts |-> Required[p][v][d]]
            BY <2>3
          <6>2. i \in DOMAIN more
            BY <2>3
          <6>3. PICK k \in DOMAIN queue' : queue'[k] = more[i]
            BY <2>4, <6>2
          <6>4. QED BY <6>1, <6>3
        <5>2. QED BY <5>1
      <4>2. Heard(Required[p][current[p]])'
        BY <2>5, <4>1 DEF Heard
      <4>3. QED BY <1>4, <2>1, <2>5, <4>2
    <3>4. v # NoVersion
      BY <1>10
    <3>5. ASSUME NEW q \in Wanted
          PROVE  IF current'[q] = NoVersion THEN required'[q] = {}
                 ELSE Accepted(current'[q], required'[q]) /\ Heard(Required[q][current[q]])'
      <4>1. CASE q = p
        BY <2>5, <3>3, <3>4, <4>1
      <4>2. CASE q # p
        BY <3>2, <4>2
      <4>3. QED BY <4>1, <4>2
    <3>6. QED BY <3>1, <3>5 DEF PassInv
  <2>12. LockInv'
    <3> SUFFICES ASSUME LockIsClosure
                 PROVE  /\ \A i \in DOMAIN queue' :
                             /\ queue'[i].pkg \in DOMAIN locked
                             /\ locked[queue'[i].pkg] \in queue'[i].accepts
                        /\ \A q \in Wanted :
                             /\ required'[q] # {} =>
                                  q \in DOMAIN locked /\ Accepted(locked[q], required'[q])
                             /\ current'[q] # NoVersion =>
                                  q \in DOMAIN locked /\ current'[q] = locked[q]
      BY <1>1 DEF LockInv, LockIsClosure, Accepted
    <3>1. /\ \A i \in DOMAIN queue :
               queue[i].pkg \in DOMAIN locked /\ locked[queue[i].pkg] \in queue[i].accepts
          /\ \A q \in Wanted :
               /\ required[q] # {} => q \in DOMAIN locked /\ Accepted(locked[q], required[q])
               /\ current[q] # NoVersion => q \in DOMAIN locked /\ current[q] = locked[q]
      BY <1>2 DEF LockInv
    <3>2. p \in DOMAIN locked /\ locked[p] \in head.accepts
      BY <1>3, <3>1 DEF p
    <3>3. Accepted(locked[p], cs)
      <4>1. required[p] # {} => Accepted(locked[p], required[p])
        BY <1>4, <3>1
      <4>2. QED BY <1>b, <3>2, <4>1 DEF Accepted
    <3>4. locked[p] \in Versions /\ locked[p] # NoVersion
      <4>1. locked[p] \in Versions
        BY <1>2, <3>2, ResolveAssumption DEF ResolveTypes
      <4>2. QED BY <4>1 DEF Versions, NoVersion
    <3>5. v = locked[p]
      BY <2>1, <3>2, <3>3, <3>4 DEF LockedVersion
    <3>6. ASSUME NEW i \in DOMAIN queue'
          PROVE  queue'[i].pkg \in DOMAIN locked /\ locked[queue'[i].pkg] \in queue'[i].accepts
      <4>1. CASE \E k \in DOMAIN queue : queue'[i] = queue[k]
        BY <3>1, <4>1
      <4>2. ASSUME NEW k \in DOMAIN more, queue'[i] = more[k]
            PROVE  queue'[i].pkg \in DOMAIN locked /\ locked[queue'[i].pkg] \in queue'[i].accepts
        <5>1. PICK d \in DOMAIN Required[p][v] :
                 more[k] = [pkg |-> d, accepts |-> Required[p][v][d]]
          BY <2>3
        <5>2. d \in DOMAIN locked /\ locked[d] \in Required[p][v][d]
          BY <3>2, <3>5, <5>1 DEF LockIsClosure
        <5>3. queue'[i].pkg = d /\ queue'[i].accepts = Required[p][v][d]
          BY <4>2, <5>1
        <5>4. QED BY <5>2, <5>3
      <4>3. QED BY <2>4, <4>1, <4>2
    <3>7. ASSUME NEW q \in Wanted
          PROVE  /\ required'[q] # {} => q \in DOMAIN locked /\ Accepted(locked[q], required'[q])
                 /\ current'[q] # NoVersion => q \in DOMAIN locked /\ current'[q] = locked[q]
      <4>1. CASE q = p
        BY <1>4, <2>5, <3>2, <3>3, <3>5, <4>1
      <4>2. CASE q # p
        BY <1>6, <2>5, <3>1, <4>2
      <4>3. QED BY <4>1, <4>2
    <3>8. QED BY <3>6, <3>7
  <2>13. QED BY <1>1, <1>10, <2>6, <2>7, <2>8, <2>11, <2>12 DEF ResolveInv
<1>11. QED BY <1>1, <1>8, <1>9, <1>10

\* Ending a pass keeps it.
LEMMA PassEnds == ResolveInv /\ EndPass => ResolveInv'
<1> SUFFICES ASSUME ResolveInv, EndPass PROVE ResolveInv'
  OBVIOUS
<1>1. /\ verdict = "busy" /\ queue = <<>> /\ UNCHANGED <<released, locked, cache>>
      /\ ResolveTypes /\ CacheInv
  BY DEF EndPass, ResolveInv
<1>2. ASSUME verdict' = IF Acyclic THEN "resolved" ELSE "refused",
             UNCHANGED <<queue, required, processed, current, previous, changed, passes>>
      PROVE  ResolveInv'
  <2>1. released' \in [Wanted -> SUBSET Versions]
    BY <1>1 DEF ResolveTypes
  <2>2. \/ verdict = "busy" /\ verdict' = "resolved" /\ queue = <<>> /\ Acyclic
        \/ verdict' \in {"refused", "unstable"}
    BY <1>1, <1>2
  <2>3. QED BY <1>1, <1>2, <2>1, <2>2, PassStays
<1>3. ASSUME verdict' = "unstable", UNCHANGED <<queue, required, processed, current, changed>>
      PROVE  ResolveInv'
  BY <1>1, <1>3 DEF ResolveInv, ResolveTypes, CacheInv
<1>4. ASSUME queue' = Requirements(ProjectNeeds), required' = Unseen, processed' = Unseen,
             current' = Nowhere, changed' = FALSE, UNCHANGED verdict
      PROVE  ResolveInv'
  <2>1. locked' \in Locks
    BY <1>1 DEF ResolveTypes
  <2>2. (queue \in Seq(Asked) /\ PassInv /\ LockInv)'
    <3>1. /\ (locked \in Locks)' /\ (queue = Requirements(ProjectNeeds))'
          /\ (required = Unseen)' /\ (current = Nowhere)'
      BY <1>4, <2>1 DEF Requirements, Unseen, Nowhere
    <3>2. QED BY <3>1, PassBegins, PTL
  <2>3. ResolveTypes' /\ CacheInv'
    BY <1>1, <1>4, <2>2 DEF ResolveTypes, CacheInv, Unseen, Nowhere
  <2>4. QED BY <1>1, <1>4, <2>2, <2>3 DEF ResolveInv
<1>5. QED BY <1>2, <1>3, <1>4 DEF EndPass

\* The invariant holds of every behaviour of the resolver.
THEOREM ResolveStays == ResolveSpec => []ResolveInv
<1>1. ResolveInv /\ [ResolveNext]_resolveVars => ResolveInv'
  <2> SUFFICES ASSUME ResolveInv, [ResolveNext]_resolveVars PROVE ResolveInv'
    OBVIOUS
  <2>1. CASE PublishRelease
    <3>1. released' \in [Wanted -> SUBSET Versions]
      BY <2>1 DEF PublishRelease, ResolveInv, ResolveTypes
    <3>2. QED BY <2>1, <3>1, PassStays DEF PublishRelease
  <2>2. CASE UNCHANGED resolveVars
    <3>1. released' \in [Wanted -> SUBSET Versions]
      BY <2>2 DEF resolveVars, ResolveInv, ResolveTypes
    <3>2. QED BY <2>2, <3>1, PassStays DEF resolveVars
  <2>3. QED BY <2>1, <2>2, LookKeeps, PassEnds DEF ResolveNext
<1>2. QED BY ResolveBegins, <1>1, PTL DEF ResolveSpec

\* What the types have beyond ResolveTypes: a pass under way is not the last there may be.
PassesLeft ==
    /\ previous \in [Wanted -> Versions \union {NoVersion}] /\ changed \in BOOLEAN
    /\ passes \in 0 .. MaxPasses /\ publishings \in 0 .. MaxPublished
    /\ verdict = "busy" => passes < MaxPasses

\* Every variable of the resolver stays in its domain, and its passes within their bound.
THEOREM ResolveTypesHold == ResolveSpec => []ResolveTypeOK
<1>1. ResolveInit => PassesLeft
  <2>1. 0 \in 0 .. MaxPasses /\ 0 < MaxPasses /\ 0 \in 0 .. MaxPublished
    BY ResolveAssumption
  <2>2. Nowhere \in [Wanted -> Versions \union {NoVersion}]
    BY DEF Nowhere
  <2>3. QED BY <2>1, <2>2 DEF ResolveInit, PassesLeft
<1>2. ResolveInv /\ PassesLeft /\ [ResolveNext]_resolveVars => PassesLeft'
  <2> SUFFICES ASSUME ResolveInv, PassesLeft, [ResolveNext]_resolveVars PROVE PassesLeft'
    OBVIOUS
  <2>1. current \in [Wanted -> Versions \union {NoVersion}]
    BY DEF ResolveInv, ResolveTypes
  <2>2. CASE PublishRelease
    BY <2>2, ResolveAssumption DEF PublishRelease, PassesLeft
  <2>3. CASE NextRequirement
    <3>1. /\ UNCHANGED <<previous, passes, publishings>> /\ changed' \in BOOLEAN
          /\ verdict = "busy"
      BY <2>3 DEF NextRequirement, PassesLeft
    <3>2. QED BY <3>1 DEF PassesLeft
  <2>4. CASE EndPass
    <3>1. publishings' = publishings /\ verdict = "busy" /\ passes < MaxPasses /\ passes \in Nat
      BY <2>4 DEF EndPass, PassesLeft
    <3>2. CASE UNCHANGED <<previous, changed, passes>> /\ verdict' # "busy"
      BY <3>1, <3>2 DEF PassesLeft
    <3>3. ASSUME passes' = passes + 1, previous' = current, changed' \in BOOLEAN,
                 verdict' # "busy" \/ passes' # MaxPasses
          PROVE  PassesLeft'
      <4>1. passes' \in 0 .. MaxPasses /\ (passes' # MaxPasses => passes' < MaxPasses)
        BY <3>1, <3>3, ResolveAssumption
      <4>2. QED BY <2>1, <3>1, <3>3, <4>1 DEF PassesLeft
    <3>4. \/ UNCHANGED <<previous, changed, passes>> /\ verdict' # "busy"
          \/ /\ passes' = passes + 1 /\ previous' = current /\ changed' \in BOOLEAN
             /\ verdict' # "busy" \/ passes' # MaxPasses
      BY <2>4 DEF EndPass, PassesLeft
    <3>5. QED BY <3>2, <3>3, <3>4
  <2>5. CASE UNCHANGED resolveVars
    BY <2>5 DEF resolveVars, PassesLeft
  <2>6. QED BY <2>2, <2>3, <2>4, <2>5 DEF ResolveNext
<1>3. ResolveInv /\ PassesLeft => ResolveTypeOK
  <2> SUFFICES ASSUME ResolveInv, PassesLeft PROVE ResolveTypeOK
    OBVIOUS
  <2>1. \A i \in DOMAIN queue : queue[i] \in Asked
    BY DEF ResolveInv, ResolveTypes
  <2>2. QED BY <2>1 DEF ResolveInv, ResolveTypes, ResolveTypeOK, PassesLeft, CacheInv, Asked
<1>4. QED BY ResolveStays, <1>1, <1>2, <1>3, PTL DEF ResolveSpec

\* What is resolved is a closure: the project, and every package in it, finds what it
\* requires in a version it accepts, there is no cycle, and a lock that still is a closure
\* is reproduced; for every catalogue, whatever is published while the passes are made
\* (resolvePass, resolve and load of projectmgr/sync.go).
THEOREM ResolvedIsClosure == ResolveSpec => []ResolvedClosureIsConsistent
<1>1. ResolveInv => ResolvedClosureIsConsistent
  <2> SUFFICES ASSUME ResolveInv, verdict = "resolved"
               PROVE  /\ Meets(ProjectNeeds) /\ Acyclic
                      /\ \A p \in Wanted : current[p] # NoVersion => Meets(Required[p][current[p]])
                      /\ LockIsClosure =>
                           \A p \in Wanted : current[p] # NoVersion => current[p] = locked[p]
    BY DEF ResolvedClosureIsConsistent
  <2>1. ResolveTypes /\ PassInv /\ LockInv /\ queue = <<>> /\ Acyclic
    BY DEF ResolveInv
  <2>2. ASSUME NEW needs, Heard(needs), DOMAIN needs \subseteq Wanted PROVE Meets(needs)
    <3> SUFFICES ASSUME NEW p \in DOMAIN needs PROVE current[p] \in needs[p]
      BY DEF Meets
    <3>1. needs[p] \in required[p]
      BY <2>1, <2>2 DEF Heard
    <3>2. p \in Wanted /\ Accepted(current[p], required[p])
      BY <2>1, <2>2, <3>1 DEF PassInv
    <3>3. QED BY <3>1, <3>2 DEF Accepted
  <2>3. Meets(ProjectNeeds)
    BY <2>1, <2>2, ResolveAssumption DEF PassInv, IsRequirement
  <2>4. ASSUME NEW p \in Wanted, current[p] # NoVersion PROVE Meets(Required[p][current[p]])
    <3>1. PICK v \in Versions : v = current[p]
      BY <2>1, <2>4 DEF ResolveTypes
    <3>2. Heard(Required[p][v]) /\ DOMAIN Required[p][v] \subseteq Wanted
      BY <2>1, <2>4, <3>1, ResolveAssumption DEF PassInv, IsRequirement
    <3>3. QED BY <2>2, <3>1, <3>2
  <2>5. QED BY <2>1, <2>3, <2>4 DEF LockInv
<1>2. QED BY ResolveStays, <1>1, PTL
=============================================================================
