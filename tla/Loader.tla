------------------------------- MODULE Loader -------------------------------
(***************************************************************************)
(* The Runtime loader of internal/kernel/loader: one entry per component,  *)
(* which is loaded by the first caller that needs it, lends its runtime to *)
(* calls by a lease, can be unloaded once it failed, and whose package can *)
(* be upgraded as a whole.  Shutdown refuses new leases, waits for the     *)
(* ones that are out and stops what is loaded.                             *)
(*                                                                         *)
(* A runtime is a number; what its host does with it is ProcessHost's      *)
(* matter.  Every lock section of the code is one step: a caller reads     *)
(* accepting, looks at the entry, and takes its lease in three of them.    *)
(* Components are numbered in the order in which the package declares them *)
(* and all belong to one package.                                          *)
(***************************************************************************)
EXTENDS Integers, Sequences, FiniteSets

CONSTANTS
    LoaderCallers,  \* goroutines that acquire a runtime
    LoaderParts,    \* number of components of the package
    MaxLoads,       \* bound: runtimes made
    MaxUpgrades     \* bound: upgrades tried

ASSUME LoaderAssumption ==
    /\ IsFiniteSet(LoaderCallers) /\ LoaderParts \in Nat \ {0}
    /\ MaxLoads \in Nat /\ MaxUpgrades \in Nat

Parts == 1 .. LoaderParts
Runtimes == 1 .. MaxLoads
NoRuntime == 0

VARIABLES
    entries,    \* component -> state, runtime, generation, leases out
    alive,      \* runtimes that were loaded and not stopped
    loads,      \* number of runtimes made
    retired,    \* the groups that upgrades replaced, oldest first
    lessee,     \* caller -> where it is and the lease it holds
    upgrade,    \* the UpgradePackage call: candidates loaded so far
    closing,    \* Shutdown: its phase and the components it has seen
    upgrades    \* number of upgrades begun

loaderVars == <<entries, alive, loads, retired, lessee, upgrade, closing, upgrades>>

EntryStates == {"registered", "loading", "ready", "unloading", "failed"}
Entry == [state : EntryStates, runtime : Runtimes \union {NoRuntime}, generation : Nat,
          inFlight : Nat, currentInFlight : Nat]
Lessee == [at : {"idle", "ensure", "loading", "ensured", "call", "drained"}, part : Parts,
           runtime : Runtimes \union {NoRuntime}, generation : Nat, group : Nat]
Member == [runtime : Runtimes, generation : Nat, inFlight : Nat]
RetiredGroup == [members : [Parts -> Member], draining : Nat, triggered : BOOLEAN]

LoaderTypeOK ==
    /\ entries \in [Parts -> Entry]
    /\ alive \subseteq Runtimes
    /\ loads \in 0 .. MaxLoads
    /\ retired \in Seq(RetiredGroup)
    /\ lessee \in [LoaderCallers -> Lessee]
    /\ upgrade \in [at : {"no", "loading", "stopping"}, candidates : Seq(Runtimes)]
    /\ closing \in [at : {"no", "upgrades", "drain", "stop", "closed", "gaveup"},
                    seen : SUBSET Parts, part : Parts \union {0}]
    /\ upgrades \in 0 .. MaxUpgrades

Away(p) == [at |-> "idle", part |-> 1, runtime |-> NoRuntime, generation |-> 0, group |-> 0]

\* RegisterInstalled leaves one registered entry per component and the package's group.
LoaderInit ==
    /\ entries = [c \in Parts |-> [state |-> "registered", runtime |-> NoRuntime, generation |-> 0,
                                   inFlight |-> 0, currentInFlight |-> 0]]
    /\ alive = {} /\ loads = 0 /\ retired = <<>> /\ upgrades = 0
    /\ lessee = [p \in LoaderCallers |-> Away(p)]
    /\ upgrade = [at |-> "no", candidates |-> <<>>]
    /\ closing = [at |-> "no", seen |-> {}, part |-> 0]

Accepting == closing.at = "no"

-----------------------------------------------------------------------------
(* Acquire, Invoke, Release *)

\* Acquire's first look at accepting.
AskRuntime(p, c) ==
    /\ lessee[p].at = "idle" /\ Accepting
    /\ lessee' = [lessee EXCEPT ![p] = [@ EXCEPT !.at = "ensure", !.part = c]]
    /\ UNCHANGED <<entries, alive, loads, retired, upgrade, closing, upgrades>>

\* ensureLoaded of an entry that is ready or failed; while it is loading or unloading
\* the caller waits for the transition, or for its own context (GiveUp).
SeeEntry(p) ==
    LET c == lessee[p].part
    IN  /\ lessee[p].at = "ensure" /\ entries[c].state \in {"ready", "failed"}
        /\ lessee' = [lessee EXCEPT ![p] = IF entries[c].state = "ready"
                                           THEN [@ EXCEPT !.at = "ensured"] ELSE Away(p)]
        /\ UNCHANGED <<entries, alive, loads, retired, upgrade, closing, upgrades>>

GiveUp(p) ==
    /\ lessee[p].at = "ensure" /\ entries[lessee[p].part].state \in {"loading", "unloading"}
    /\ lessee' = [lessee EXCEPT ![p] = Away(p)]
    /\ UNCHANGED <<entries, alive, loads, retired, upgrade, closing, upgrades>>

BeginLoad(p) ==
    LET c == lessee[p].part
    IN  /\ lessee[p].at = "ensure" /\ entries[c].state = "registered" /\ loads < MaxLoads
        /\ entries' = [entries EXCEPT ![c].state = "loading"]
        /\ lessee' = [lessee EXCEPT ![p].at = "loading"]
        /\ UNCHANGED <<alive, loads, retired, upgrade, closing, upgrades>>

\* loadRuntime: the host refuses, or the runtime does not come up and is stopped
\* ("nothing"), or even the stop fails and the handle is kept ("stuck").
EndLoad(p, outcome) ==
    LET c == lessee[p].part
    IN  /\ lessee[p].at = "loading" /\ (outcome # "nothing" => loads < MaxLoads)
        /\ IF outcome = "nothing"
           THEN /\ entries' = [entries EXCEPT ![c] =
                                  [@ EXCEPT !.state = "failed", !.runtime = NoRuntime]]
                /\ UNCHANGED <<alive, loads>>
           ELSE /\ entries' = [entries EXCEPT ![c] =
                      [@ EXCEPT !.state = IF outcome = "ready" THEN "ready" ELSE "failed",
                                !.runtime = loads + 1,
                                !.generation = entries[c].generation + 1]]
                /\ loads' = loads + 1 /\ alive' = alive \union {loads + 1}
        /\ lessee' = [lessee EXCEPT ![p] = IF outcome = "ready"
                                           THEN [@ EXCEPT !.at = "ensured"] ELSE Away(p)]
        /\ UNCHANGED <<retired, upgrade, closing, upgrades>>

\* A caller that trusts what it saw before the lock.
LendableLastSeen(c) == Accepting /\ entries[c].runtime # NoRuntime

\* Acquire's second look at accepting, under the lock under which it counts itself.
Lendable(c) == Accepting /\ entries[c].state = "ready" /\ entries[c].runtime # NoRuntime

TakeLease(p) ==
    LET c == lessee[p].part
    IN  /\ lessee[p].at = "ensured"
        /\ IF Lendable(c)
           THEN /\ entries' = [entries EXCEPT ![c] =
                      [@ EXCEPT !.inFlight = entries[c].inFlight + 1,
                                !.currentInFlight = entries[c].currentInFlight + 1]]
                /\ lessee' = [lessee EXCEPT ![p] = [@ EXCEPT !.at = "call",
                                !.runtime = entries[c].runtime, !.generation = entries[c].generation]]
           ELSE /\ lessee' = [lessee EXCEPT ![p] = Away(p)]
                /\ UNCHANGED entries
        /\ UNCHANGED <<alive, loads, retired, upgrade, closing, upgrades>>

\* What a call across the process boundary comes back with, and what the loader reads in it.
Answers == {"reply", "bad reply", "error code", "canceled", "deadline", "exhausted",
            "invalid argument", "precondition", "data loss", "unimplemented", "other status"}

ReadAs(answer) ==
    IF answer \in {"reply", "error code", "canceled", "deadline"} THEN answer
    ELSE IF answer = "exhausted" THEN "busy"
    ELSE IF answer = "other status" THEN "unavailable"
    ELSE "protocol"

\* Lease.Invoke that finds its runtime gone or out of protocol: it fails the entry, but
\* only while the entry still serves the generation of the lease.
CallFails(p, answer) ==
    LET c == lessee[p].part
    IN  /\ lessee[p].at = "call" /\ ReadAs(answer) \in {"unavailable", "protocol"}
        /\ entries[c].state = "ready" /\ entries[c].generation = lessee[p].generation
        /\ entries' = [entries EXCEPT ![c].state = "failed"]
        /\ UNCHANGED <<alive, loads, retired, lessee, upgrade, closing, upgrades>>

\* The group of the generation the lease belongs to, if an upgrade retired it.
GroupOf(c, generation) ==
    IF \E u \in DOMAIN retired : retired[u].members[c].generation = generation
    THEN CHOOSE u \in DOMAIN retired : retired[u].members[c].generation = generation
    ELSE 0

BelongsToCurrentAlways(c, generation) == TRUE

BelongsToCurrent(c, generation) == entries[c].generation = generation

\* Lease.Release: the lease is counted off its entry, and off the generation it was
\* taken from; the last one of a retired generation tells the group afterwards.
Release(p) ==
    LET c == lessee[p].part
        current == BelongsToCurrent(c, lessee[p].generation)
        u == IF current THEN 0 ELSE GroupOf(c, lessee[p].generation)
        last == u # 0 /\ retired[u].members[c].inFlight <= 1
    IN  /\ lessee[p].at = "call"
        /\ entries' = [entries EXCEPT ![c] =
              [@ EXCEPT !.inFlight = entries[c].inFlight - 1,
                        !.currentInFlight = entries[c].currentInFlight - (IF current THEN 1 ELSE 0)]]
        /\ retired' = IF u = 0 THEN retired
                      ELSE [retired EXCEPT ![u].members[c].inFlight = @ - 1]
        /\ lessee' = [lessee EXCEPT ![p] = IF last
                        THEN [Away(p) EXCEPT !.at = "drained", !.group = u] ELSE Away(p)]
        /\ UNCHANGED <<alive, loads, upgrade, closing, upgrades>>

\* retiredGroup.memberDrained; whoever counts the last member off stops the group.
MemberDrained(p) ==
    LET u == lessee[p].group
    IN  /\ lessee[p].at = "drained"
        /\ retired' = [retired EXCEPT ![u] =
              [@ EXCEPT !.draining = retired[u].draining - 1,
                        !.triggered = retired[u].triggered \/ retired[u].draining <= 1]]
        /\ lessee' = [lessee EXCEPT ![p] = Away(p)]
        /\ UNCHANGED <<entries, alive, loads, upgrade, closing, upgrades>>

\* stopIfDrained once triggered: the members are stopped from the last component to the
\* first, each exactly once.  A stop that fails is only logged, here and for candidates:
\* the process is then its host's, see ProcessHost.
StopMember(u) ==
    LET left == {c \in Parts : retired[u].members[c].runtime \in alive}
    IN  /\ retired[u].triggered /\ left # {}
        /\ \E c \in left : /\ \A d \in left : d <= c
                           /\ alive' = alive \ {retired[u].members[c].runtime}
        /\ UNCHANGED <<entries, loads, retired, lessee, upgrade, closing, upgrades>>

-----------------------------------------------------------------------------
(* RecoverFailed, unload *)

\* unload's check; it is also made by Shutdown.
Unloadable(c) ==
    /\ entries[c].inFlight = 0 /\ entries[c].runtime # NoRuntime
    /\ entries[c].state \in {"ready", "failed"}

RecoverFailed(c) ==
    /\ entries[c].state = "failed"
    /\ IF entries[c].runtime = NoRuntime
       THEN entries' = [entries EXCEPT ![c].state = "registered"]
       ELSE /\ Unloadable(c)
            /\ entries' = [entries EXCEPT ![c].state = "unloading"]
    /\ UNCHANGED <<alive, loads, retired, lessee, upgrade, closing, upgrades>>

\* The runtime's Stop answers; when it fails the handle stays for another try.
EndUnload(c, gone) ==
    /\ entries[c].state = "unloading"
    /\ IF gone
       THEN /\ entries' = [entries EXCEPT ![c] =
                  [@ EXCEPT !.state = "registered", !.runtime = NoRuntime]]
            /\ alive' = alive \ {entries[c].runtime}
       ELSE /\ entries' = [entries EXCEPT ![c].state = "failed"]
            /\ UNCHANGED alive
    /\ UNCHANGED <<loads, retired, lessee, upgrade, closing, upgrades>>

-----------------------------------------------------------------------------
(* UpgradePackage *)

\* beginUpgrade and the wait for the package's own upgrade lock.
BeginUpgrade ==
    /\ Accepting /\ upgrade.at = "no" /\ upgrades < MaxUpgrades
    /\ upgrade' = [at |-> "loading", candidates |-> <<>>]
    /\ upgrades' = upgrades + 1
    /\ UNCHANGED <<entries, alive, loads, retired, lessee, closing>>

\* The candidates are loaded in the order of the components; one that does not come up
\* ends the upgrade and the others are stopped.
LoadCandidate(ready) ==
    /\ upgrade.at = "loading" /\ Len(upgrade.candidates) < LoaderParts
    /\ IF ready
       THEN /\ loads < MaxLoads /\ loads' = loads + 1
            /\ alive' = alive \union {loads + 1}
            /\ upgrade' = [upgrade EXCEPT !.candidates = Append(@, loads + 1)]
       ELSE /\ upgrade' = [upgrade EXCEPT !.at = "stopping"]
            /\ UNCHANGED <<loads, alive>>
    /\ UNCHANGED <<entries, retired, lessee, closing, upgrades>>

\* The switch, with every entry locked: all of them serve, and all of them change.
Switch ==
    /\ upgrade.at = "loading" /\ Len(upgrade.candidates) = LoaderParts
    /\ IF \A c \in Parts : entries[c].state = "ready" /\ entries[c].runtime # NoRuntime
       THEN LET busy == Cardinality({c \in Parts : entries[c].currentInFlight > 0})
            IN  /\ retired' = Append(retired,
                     [members |-> [c \in Parts |-> [runtime |-> entries[c].runtime,
                          generation |-> entries[c].generation, inFlight |-> entries[c].currentInFlight]],
                      draining |-> busy, triggered |-> busy = 0])
                /\ entries' = [c \in Parts |-> [entries[c] EXCEPT
                       !.runtime = upgrade.candidates[c], !.generation = @ + 1, !.currentInFlight = 0]]
                /\ upgrade' = [at |-> "no", candidates |-> <<>>]
       ELSE /\ upgrade' = [upgrade EXCEPT !.at = "stopping"]
            /\ UNCHANGED <<entries, retired>>
    /\ UNCHANGED <<alive, loads, lessee, closing, upgrades>>

StopCandidates ==
    /\ upgrade.at = "stopping"
    /\ alive' = alive \ {upgrade.candidates[i] : i \in DOMAIN upgrade.candidates}
    /\ upgrade' = [at |-> "no", candidates |-> <<>>]
    /\ UNCHANGED <<entries, loads, retired, lessee, closing, upgrades>>

-----------------------------------------------------------------------------
(* Shutdown *)

ShutdownBegins ==
    /\ Accepting
    /\ closing' = [closing EXCEPT !.at = "upgrades"]
    /\ UNCHANGED <<entries, alive, loads, retired, lessee, upgrade, upgrades>>

UpgradesAreDone ==
    /\ closing.at = "upgrades" /\ upgrade.at = "no"
    /\ closing' = [closing EXCEPT !.at = "drain"]
    /\ UNCHANGED <<entries, alive, loads, retired, lessee, upgrade, upgrades>>

\* One look at one entry; an entry that is not drained starts the round again.
Drained(c) == entries[c].inFlight = 0 /\ entries[c].state \notin {"loading", "unloading"}

SeeDrained(c) ==
    /\ closing.at = "drain" /\ c \notin closing.seen
    /\ closing' = IF ~Drained(c) THEN [closing EXCEPT !.seen = {}]
                  ELSE IF closing.seen \union {c} = Parts
                       THEN [closing EXCEPT !.at = "stop", !.seen = {}]
                       ELSE [closing EXCEPT !.seen = @ \union {c}]
    /\ UNCHANGED <<entries, alive, loads, retired, lessee, upgrade, upgrades>>

\* The components are stopped in any order: what one serves now is unloaded, if there is
\* anything, ...
ShutdownUnloads(c) ==
    /\ closing.at = "stop" /\ closing.part = 0 /\ c \notin closing.seen
    /\ entries' = IF Unloadable(c) THEN [entries EXCEPT ![c].state = "unloading"] ELSE entries
    /\ closing' = [closing EXCEPT !.part = c]
    /\ UNCHANGED <<alive, loads, retired, lessee, upgrade, upgrades>>

\* ... and then the drained runtimes that upgrades replaced.
ShutdownStopsOld(c) ==
    /\ closing.part = c /\ entries[c].state # "unloading"
    /\ alive' = alive \ {retired[u].members[c].runtime :
                           u \in {v \in DOMAIN retired : retired[v].members[c].inFlight <= 0}}
    /\ closing' = [closing EXCEPT !.part = 0, !.seen = @ \union {c}]
    /\ UNCHANGED <<entries, loads, retired, lessee, upgrade, upgrades>>

\* Every retired runtime has been stopped when the hosts are closed.
ShutdownEnds ==
    /\ closing.at = "stop" /\ closing.seen = Parts
    /\ \A u \in DOMAIN retired, c \in Parts : retired[u].members[c].runtime \notin alive
    /\ closing' = [closing EXCEPT !.at = "closed"]
    /\ UNCHANGED <<entries, alive, loads, retired, lessee, upgrade, upgrades>>

\* Its context ends while it waits; the hosts are not closed then.
ShutdownTimesOut ==
    /\ closing.at \in {"upgrades", "drain"}
    /\ closing' = [closing EXCEPT !.at = "gaveup"]
    /\ UNCHANGED <<entries, alive, loads, retired, lessee, upgrade, upgrades>>

-----------------------------------------------------------------------------

CallerStep(p) ==
    \/ \E c \in Parts : AskRuntime(p, c)
    \/ SeeEntry(p) \/ GiveUp(p) \/ BeginLoad(p)
    \/ \E outcome \in {"ready", "nothing", "stuck"} : EndLoad(p, outcome)
    \/ TakeLease(p) \/ Release(p) \/ MemberDrained(p)
    \/ \E answer \in Answers : CallFails(p, answer)

UpgradeStep ==
    \/ BeginUpgrade \/ Switch \/ StopCandidates
    \/ \E ready \in BOOLEAN : LoadCandidate(ready)

ShutdownStep ==
    \/ ShutdownBegins \/ UpgradesAreDone \/ ShutdownEnds \/ ShutdownTimesOut
    \/ \E c \in Parts : SeeDrained(c) \/ ShutdownUnloads(c) \/ ShutdownStopsOld(c)

LoaderNext ==
    \/ \E p \in LoaderCallers : CallerStep(p)
    \/ \E u \in DOMAIN retired : StopMember(u)
    \/ \E c \in Parts : RecoverFailed(c) \/ \E gone \in BOOLEAN : EndUnload(c, gone)
    \/ UpgradeStep \/ ShutdownStep

LoaderSpec == LoaderInit /\ [][LoaderNext]_loaderVars

\* Calls end, and the goroutine that stops a retired member is scheduled.
LoaderFairness ==
    /\ \A p \in LoaderCallers : WF_loaderVars(Release(p)) /\ WF_loaderVars(MemberDrained(p))
    /\ \A u \in 1 .. MaxUpgrades : WF_loaderVars(u \in DOMAIN retired /\ StopMember(u))

-----------------------------------------------------------------------------

\* A call keeps the runtime it was given: however upgrades, failures, recoveries and
\* the shutdown interleave, no runtime is stopped while a lease on it is out.
CallsKeepTheirRuntime ==
    \A p \in LoaderCallers : lessee[p].at = "call" => lessee[p].runtime \in alive

\* What an upgrade replaced is stopped in the end, once the calls it still served are over.
RetiredAreStopped ==
    \A u \in 1 .. MaxUpgrades, c \in Parts :
        u \in DOMAIN retired ~>
            u \in DOMAIN retired /\ retired[u].members[c].runtime \notin alive
=============================================================================
