--------------------------- MODULE PackageInstall ---------------------------
(***************************************************************************)
(* Installing, upgrading and uninstalling packages in an install root      *)
(* (package-manager/pkg/packmgr, contracts/pkg/packageio).                 *)
(*                                                                         *)
(* The root holds a directory per installed package and, while one is      *)
(* being replaced, a backup of the old one.  Renaming a directory is one   *)
(* step; removing one is not, and in between it is broken.  One process of *)
(* the package manager at a time holds the lock file, which stays behind   *)
(* when the process dies and is then removed by hand.  A running Core does *)
(* not take that lock: whenever it loads a runtime it first recovers the   *)
(* root (packagesource/catalog.go), as every operation here does.          *)
(***************************************************************************)
EXTENDS Integers

CONSTANTS
    Packages,       \* package ids
    Newest,         \* versions are 1 .. Newest
    Needs,          \* package -> version -> its dependencies: package -> the versions that do
    MaxOperations,  \* bound: operations begun
    MaxDeaths       \* bound: processes that die

Releases == 1 .. Newest

ASSUME InstallAssumption ==
    /\ Newest \in Nat \ {0} /\ MaxOperations \in Nat /\ MaxDeaths \in Nat
    /\ \A p \in Packages : \A v \in Releases : \A d \in DOMAIN Needs[p][v] :
          d \in Packages /\ Needs[p][v][d] \subseteq Releases

Missing == 0
Broken == -1    \* a directory some of whose files are gone
Held == Releases \union {Missing, Broken}

VARIABLES
    target,     \* package -> what its directory holds
    backup,     \* package -> what the backup of its directory holds
    lockFile,   \* the lock file exists
    pm,         \* the package manager that holds it: its operation, and how far it is
    core,       \* Core: "idle", or the package whose backup it removes
    owned,      \* auxiliary: packages installed and not uninstalled since
    bare,       \* auxiliary: Core removed the backup since the new directory was moved in
    lost,       \* auxiliary: packages whose new directory was removed while they were bare
    operations, deaths

installVars == <<target, backup, lockFile, pm, core, owned, bare, lost, operations, deaths>>

NoOperation == [at |-> "idle", op |-> "none"]
Operation(at, op, p, v) == [at |-> at, op |-> op, pkg |-> p, version |-> v]

InstallTypeOK ==
    /\ target \in [Packages -> Held] /\ backup \in [Packages -> Held]
    /\ lockFile \in BOOLEAN
    /\ \/ pm = NoOperation
       \/ /\ pm.at \in {"locked", "clearing", "recovered", "allowed", "moved", "put",
                        "checked", "removing", "undo", "undoing", "restore", "deleting", "done"}
          /\ pm.op \in {"install", "upgrade", "uninstall"}
          /\ pm.pkg \in Packages /\ pm.version \in Releases
    /\ core \in {"idle"} \union Packages
    /\ owned \subseteq Packages /\ bare \in BOOLEAN /\ lost \subseteq Packages
    /\ operations \in 0 .. MaxOperations /\ deaths \in 0 .. MaxDeaths

InstallInit ==
    /\ target = [p \in Packages |-> Missing] /\ backup = [p \in Packages |-> Missing]
    /\ lockFile = FALSE /\ pm = NoOperation /\ core = "idle"
    /\ owned = {} /\ bare = FALSE /\ lost = {} /\ operations = 0 /\ deaths = 0

Whole(content) == content \in Releases
Go(at) == pm' = [pm EXCEPT !.at = at]

-----------------------------------------------------------------------------
(* The lock file *)

\* AcquireFileLock: O_EXCL; an operation that finds the file fails at once.
StartOperation(op, p, v) ==
    /\ pm = NoOperation /\ ~lockFile /\ operations < MaxOperations
    /\ lockFile' = TRUE /\ pm' = Operation("locked", op, p, v)
    /\ operations' = operations + 1
    /\ UNCHANGED <<target, backup, core, owned, bare, lost, deaths>>

FinishOperation ==
    /\ pm.at = "done"
    /\ lockFile' = FALSE /\ pm' = NoOperation
    /\ UNCHANGED <<target, backup, core, owned, bare, lost, operations, deaths>>

ManagerDies ==
    /\ pm # NoOperation /\ deaths < MaxDeaths
    /\ pm' = NoOperation /\ deaths' = deaths + 1
    /\ UNCHANGED <<target, backup, lockFile, core, owned, bare, lost, operations>>

\* ailuo-pm unlock --force, by an operator who has made sure that no process is left.
Unlock ==
    /\ lockFile /\ pm = NoOperation
    /\ lockFile' = FALSE
    /\ UNCHANGED <<target, backup, pm, core, owned, bare, lost, operations, deaths>>

-----------------------------------------------------------------------------
(* RecoverInstallRoot, by the package manager and by Core *)

\* A whole backup is put back where its package is missing ...
PutsBack(p) == Whole(backup[p]) /\ target[p] = Missing
\* ... removed where it is there, and any other one is an error.
Clears(p) == Whole(backup[p]) /\ Whole(target[p])
Unrecoverable(p) == backup[p] # Missing /\ ~PutsBack(p) /\ ~Clears(p)

PutBack(p) ==
    /\ PutsBack(p)
    /\ target' = [target EXCEPT ![p] = backup[p]]
    /\ backup' = [backup EXCEPT ![p] = Missing]

\* os.RemoveAll, its first and its last file.
BreakBackup(p) == backup' = [backup EXCEPT ![p] = IF @ = Missing THEN Missing ELSE Broken]
DropBackup(p) == backup' = [backup EXCEPT ![p] = IF @ = Broken THEN Missing ELSE @]

Recover ==
    /\ pm.at = "locked"
    /\ \/ /\ \E p \in Packages : PutBack(p)
          /\ UNCHANGED pm
       \/ /\ \E p \in Packages :
               /\ Clears(p) /\ BreakBackup(p)
               /\ pm' = [at |-> "clearing", op |-> pm.op, pkg |-> pm.pkg,
                         version |-> pm.version, clears |-> p]
          /\ UNCHANGED target
       \/ /\ \E p \in Packages : Unrecoverable(p)
          /\ Go("done") /\ UNCHANGED <<target, backup>>
       \/ /\ \A p \in Packages : backup[p] = Missing
          /\ Go("recovered") /\ UNCHANGED <<target, backup>>
    /\ UNCHANGED <<lockFile, core, owned, bare, lost, operations, deaths>>

Cleared ==
    /\ pm.at = "clearing"
    /\ DropBackup(pm.clears) /\ pm' = Operation("locked", pm.op, pm.pkg, pm.version)
    /\ UNCHANGED <<target, lockFile, core, owned, bare, lost, operations, deaths>>

\* A package that is being read back has a whole directory, as far as Core can tell.
BeingReadBack(p) == pm.at \in {"put", "undo"} /\ pm.pkg = p

CoreRecovers ==
    /\ core = "idle"
    /\ \E p \in Packages :
          \/ PutBack(p) /\ UNCHANGED <<core, bare>>
          \/ /\ Clears(p) /\ BreakBackup(p) /\ core' = p
             /\ bare' = (bare \/ BeingReadBack(p)) /\ UNCHANGED target
    /\ UNCHANGED <<lockFile, pm, owned, lost, operations, deaths>>

CoreClears ==
    /\ core \in Packages
    /\ DropBackup(core) /\ core' = "idle"
    /\ UNCHANGED <<target, lockFile, pm, owned, bare, lost, operations, deaths>>

CoreDies ==
    /\ core \in Packages /\ deaths < MaxDeaths
    /\ core' = "idle" /\ deaths' = deaths + 1
    /\ UNCHANGED <<target, backup, lockFile, pm, owned, bare, lost, operations>>

-----------------------------------------------------------------------------
(* The checks of an operation *)

\* ListInstalled: one directory that cannot be read fails it.
Listed == \A p \in Packages : target[p] # Broken

Installed == {p \in Packages : Whole(target[p])}

\* resolveDependencies
Resolved(p, v) ==
    \/ DOMAIN Needs[p][v] = {}
    \/ Listed /\ \A d \in DOMAIN Needs[p][v] : target[d] \in Needs[p][v][d]

\* validateDependents, an upgrade to v: those there are are content with it.
DependentsAllow(p, v) ==
    /\ Listed
    /\ \A q \in Installed \ {p} :
         p \in DOMAIN Needs[q][target[q]] => v \in Needs[q][target[q]][p]

\* validateDependents, an uninstall: there are none.
NoDependents(p) ==
    Listed /\ \A q \in Installed \ {p} : p \notin DOMAIN Needs[q][target[q]]

Allowed ==
    LET p == pm.pkg
        v == pm.version
    IN  CASE pm.op = "install" ->
               /\ Resolved(p, v) /\ target[p] \notin {Broken, v}
               /\ target[p] = Missing \/ DependentsAllow(p, v)
          [] pm.op = "upgrade" ->
               Whole(target[p]) /\ target[p] # v /\ Resolved(p, v) /\ DependentsAllow(p, v)
          [] pm.op = "uninstall" -> target[p] # Missing /\ NoDependents(p)

\* An operation that is refused changes nothing, nor does installing what is installed.
CheckOperation ==
    /\ pm.at = "recovered"
    /\ Go(IF Allowed THEN "allowed" ELSE "done")
    /\ UNCHANGED <<target, backup, lockFile, core, owned, bare, lost, operations, deaths>>

-----------------------------------------------------------------------------
(* publishStage: the old directory is moved aside, the staged one moved in *)

MoveAsideRenamed(p) ==
    /\ target' = [target EXCEPT ![p] = Missing]
    /\ backup' = [backup EXCEPT ![p] = target[p]]

\* The bug that removes the old directory to make room.
MoveAsideRemoved(p) ==
    /\ target' = [target EXCEPT ![p] = Missing]
    /\ UNCHANGED backup

MoveAside(p) == MoveAsideRenamed(p)

ReserveBackup ==
    /\ pm.at = "allowed" /\ pm.op # "uninstall"
    /\ IF target[pm.pkg] = Missing THEN UNCHANGED <<target, backup>> ELSE MoveAside(pm.pkg)
    /\ Go("moved")
    /\ UNCHANGED <<lockFile, core, owned, bare, lost, operations, deaths>>

\* A directory that is there again, Core having put the old one back, is not replaced; the
\* rename that would undo the move fails then, too.
Publish ==
    /\ pm.at = "moved"
    /\ IF target[pm.pkg] = Missing
       THEN target' = [target EXCEPT ![pm.pkg] = pm.version] /\ bare' = FALSE /\ Go("put")
       ELSE Go("done") /\ UNCHANGED <<target, bare>>
    /\ UNCHANGED <<backup, lockFile, core, owned, lost, operations, deaths>>

ReadBack ==
    /\ pm.at = "put"
    /\ \/ Go("checked") /\ owned' = owned \union {pm.pkg}
       \/ Go("undo") /\ UNCHANGED owned
    /\ UNCHANGED <<target, backup, lockFile, core, bare, lost, operations, deaths>>

RemoveBackup ==
    /\ pm.at \in {"checked", "removing"}
    /\ IF pm.at = "checked" /\ backup[pm.pkg] # Missing
       THEN BreakBackup(pm.pkg) /\ Go("removing")
       ELSE DropBackup(pm.pkg) /\ Go("done")
    /\ UNCHANGED <<target, lockFile, core, owned, bare, lost, operations, deaths>>

\* restore: the new directory is removed, the old one renamed back.
Restore ==
    /\ \/ /\ pm.at = "undo" /\ Go("undoing")
          /\ target' = [target EXCEPT ![pm.pkg] = Broken] /\ UNCHANGED backup
          /\ lost' = IF bare THEN lost \union {pm.pkg} ELSE lost
       \/ /\ pm.at = "undoing" /\ Go("restore")
          /\ target' = [target EXCEPT ![pm.pkg] = Missing] /\ UNCHANGED <<backup, lost>>
       \/ /\ pm.at = "restore" /\ Go("done") /\ UNCHANGED lost
          /\ IF PutsBack(pm.pkg) THEN PutBack(pm.pkg) ELSE UNCHANGED <<target, backup>>
    /\ UNCHANGED <<lockFile, core, owned, bare, operations, deaths>>

UninstallPackage ==
    /\ \/ /\ pm.at = "allowed" /\ pm.op = "uninstall" /\ Go("deleting")
          /\ target' = [target EXCEPT ![pm.pkg] = Broken] /\ owned' = owned \ {pm.pkg}
       \/ /\ pm.at = "deleting" /\ Go("done")
          /\ target' = [target EXCEPT ![pm.pkg] = Missing] /\ UNCHANGED owned
    /\ UNCHANGED <<backup, lockFile, core, bare, lost, operations, deaths>>

-----------------------------------------------------------------------------
InstallNext ==
    \/ \E p \in Packages, v \in Releases, op \in {"install", "upgrade"} : StartOperation(op, p, v)
    \/ \E p \in Packages : StartOperation("uninstall", p, 1)
    \/ FinishOperation \/ ManagerDies \/ Unlock
    \/ Recover \/ Cleared \/ CoreRecovers \/ CoreClears \/ CoreDies
    \/ CheckOperation \/ ReserveBackup \/ Publish \/ ReadBack \/ RemoveBackup \/ Restore
    \/ UninstallPackage

InstallSpec == InstallInit /\ [][InstallNext]_installVars

-----------------------------------------------------------------------------
(* A package that was installed, and not uninstalled since, is whole in its *)
(* directory or in a backup at every moment: through an upgrade that fails, *)
(* processes that die anywhere, and a Core that recovers the root under an  *)
(* upgrade (installer.go:196-197: a package never vanishes).  One case is   *)
(* not so: Core takes the new directory for the package's and removes the   *)
(* backup before the read-back, which then fails and has nothing to restore.*)
PackageSurvives == \A p \in owned \ lost : Whole(target[p]) \/ Whole(backup[p])

Present(p) ==
    IF Whole(target[p]) THEN target[p] ELSE IF Whole(backup[p]) THEN backup[p] ELSE Missing

(* Whatever is installed finds its dependencies installed in versions it    *)
(* accepts: no install, upgrade, uninstall or recovery ever breaks that,    *)
(* but for a dependency that was lost as above, and but for a release that  *)
(* names its own package, which is compared with the release it replaces.   *)
ClosureHolds ==
    \A p \in Packages : Whole(Present(p)) =>
        \A d \in DOMAIN Needs[p][Present(p)] \ (lost \union {p}) :
            Present(d) \in Needs[p][Present(p)][d]

(* What is installed stays usable: it is there, and so is what it needs.    *)
InstalledStaysUsable == PackageSurvives /\ ClosureHolds
=============================================================================
