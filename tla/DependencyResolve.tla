------------------------- MODULE DependencyResolve -------------------------
(***************************************************************************)
(* How `ailuo-pm sync` resolves the dependencies of a project              *)
(* (projectmgr/sync.go, resolver).  A pass walks the requirements breadth  *)
(* first, loads for every package the newest release that all constraints  *)
(* seen so far accept, or the locked version if they accept it, and adds   *)
(* that release's own requirements; passes are made until one changes      *)
(* nothing.  Releases are published meanwhile; what was loaded once for    *)
(* the same constraints is taken from the cache.                           *)
(*                                                                         *)
(* A constraint is the set of the versions it accepts.                     *)
(***************************************************************************)
EXTENDS Naturals, Sequences, SequencesExt, FiniteSetsExt

CONSTANTS
    Required,       \* package -> version -> its requirements: package -> constraint
    ProjectNeeds,   \* the project's own: package -> constraint
    Published,      \* the catalogues there may be at first: package -> the versions
    Latest,         \* versions are 1 .. Latest
    Locks,          \* the locks there may be: some packages -> version
    MaxPasses,      \* maxResolvePasses
    MaxPublished    \* bound: releases published while a sync runs

Wanted == DOMAIN Required
Versions == 1 .. Latest
NoVersion == 0

\* What something requires: a constraint for each of some packages.
IsRequirement(needs) ==
    /\ DOMAIN needs \subseteq Wanted /\ IsFiniteSet(DOMAIN needs)
    /\ \A d \in DOMAIN needs : needs[d] \subseteq Versions

ASSUME ResolveAssumption ==
    /\ \A p \in Wanted : \A v \in Versions : IsRequirement(Required[p][v])
    /\ IsRequirement(ProjectNeeds)
    /\ Latest \in Nat \ {0} /\ MaxPasses \in Nat \ {0} /\ MaxPublished \in Nat
    /\ Published \subseteq [Wanted -> SUBSET Versions]
    /\ \A l \in Locks : DOMAIN l \subseteq Wanted /\ \A p \in DOMAIN l : l[p] \in Versions

VARIABLES
    released,   \* package -> the versions that can be downloaded
    locked,     \* the versions of the project lock
    queue,      \* the requirements still to be looked at
    required,   \* package -> the constraints on it seen so far
    processed,  \* package -> the constraints it was last loaded for
    current,    \* package -> the version this pass has loaded last, or NoVersion
    previous,   \* ... and the last pass
    changed,    \* the pass has changed something
    cache,      \* what was loaded: <<package, constraints, locked version>> -> version
    passes,     \* passes made
    verdict,    \* "busy", "resolved", "refused", "unstable"
    publishings

resolveVars == <<released, locked, queue, required, processed, current, previous, changed,
                 cache, passes, verdict, publishings>>

Constraints == SUBSET Versions

ResolveTypeOK ==
    /\ released \in [Wanted -> SUBSET Versions] /\ locked \in Locks
    /\ \A i \in DOMAIN queue : queue[i].pkg \in Wanted /\ queue[i].accepts \in Constraints
    /\ required \in [Wanted -> SUBSET Constraints] /\ processed \in [Wanted -> SUBSET Constraints]
    /\ current \in [Wanted -> Versions \union {NoVersion}]
    /\ previous \in [Wanted -> Versions \union {NoVersion}]
    /\ changed \in BOOLEAN /\ passes \in 0 .. MaxPasses /\ publishings \in 0 .. MaxPublished
    /\ \A key \in DOMAIN cache : cache[key] \in Versions
    /\ verdict \in {"busy", "resolved", "refused", "unstable"}

Nowhere == [p \in Wanted |-> NoVersion]
Unseen == [p \in Wanted |-> {}]

Requirements(needs) ==
    SetToSeq({[pkg |-> p, accepts |-> needs[p]] : p \in DOMAIN needs})

ResolveInit ==
    /\ released \in Published /\ locked \in Locks
    /\ queue = Requirements(ProjectNeeds)
    /\ required = Unseen /\ processed = Unseen /\ current = Nowhere /\ previous = Nowhere
    /\ changed = FALSE /\ cache = <<>> /\ passes = 0 /\ verdict = "busy" /\ publishings = 0

\* A maintainer publishes a release.
PublishRelease ==
    /\ publishings < MaxPublished /\ verdict = "busy"
    /\ \E p \in Wanted, v \in Versions :
         /\ v \notin released[p]
         /\ released' = [released EXCEPT ![p] = @ \union {v}]
    /\ publishings' = publishings + 1
    /\ UNCHANGED <<locked, queue, required, processed, current, previous, changed, cache,
                   passes, verdict>>

-----------------------------------------------------------------------------
(* load *)

Accepted(v, constraints) == \A c \in constraints : v \in c

LockedVersion(p, constraints) ==
    IF p \in DOMAIN locked /\ Accepted(locked[p], constraints) THEN locked[p] ELSE NoVersion

\* ResolveRelease: the highest version the constraint accepts, or the locked one alone.
Candidates(p, constraints) ==
    LET pinned == LockedVersion(p, constraints)
    IN  {v \in released[p] : IF pinned = NoVersion THEN Accepted(v, constraints) ELSE v = pinned}

Load(p, constraints) ==
    LET key == <<p, constraints, LockedVersion(p, constraints)>>
    IN  IF key \in DOMAIN cache THEN cache[key]
        ELSE IF Candidates(p, constraints) = {} THEN NoVersion
             ELSE Max(Candidates(p, constraints))

Remember(p, constraints, v) ==
    LET key == <<p, constraints, LockedVersion(p, constraints)>>
    IN  cache' = [k \in DOMAIN cache \union {key} |-> IF k = key THEN v ELSE cache[k]]

\* The fingerprint a package was last processed under: a new constraint loads it again.
SettledForConstraints(p, constraints) == processed[p] = constraints

\* The bug whose fingerprint is the source alone.
SettledForSource(p, constraints) == processed[p] # {}

Settled(p, constraints) == SettledForConstraints(p, constraints)

-----------------------------------------------------------------------------
(* resolvePass and resolve *)

NextRequirement ==
    /\ verdict = "busy" /\ queue # <<>>
    /\ LET p == Head(queue).pkg
           constraints == required[p] \union {Head(queue).accepts}
           v == Load(p, constraints)
       IN  /\ required' = [required EXCEPT ![p] = constraints]
           /\ \/ /\ Settled(p, constraints)
                 /\ queue' = Tail(queue)
                 /\ UNCHANGED <<processed, current, changed, cache, verdict>>
              \/ /\ ~Settled(p, constraints) /\ v = NoVersion
                 /\ verdict' = "refused"
                 /\ UNCHANGED <<queue, processed, current, changed, cache>>
              \/ /\ ~Settled(p, constraints) /\ v # NoVersion
                 /\ processed' = [processed EXCEPT ![p] = constraints]
                 /\ current' = [current EXCEPT ![p] = v]
                 /\ changed' = (changed \/ previous[p] # v)
                 /\ Remember(p, constraints, v)
                 /\ queue' = Tail(queue) \o Requirements(Required[p][v])
                 /\ UNCHANGED verdict
    /\ UNCHANGED <<released, locked, previous, passes, publishings>>

\* dependencyOrder: a cycle among the candidates is refused.
Depends(p) == IF current[p] = NoVersion THEN {} ELSE DOMAIN Required[p][current[p]]

Reaches(from) ==
    LET step[n \in 0 .. Cardinality(Wanted)] ==
            IF n = 0 THEN Depends(from)
            ELSE step[n - 1] \union UNION {Depends(q) : q \in step[n - 1]}
    IN  step[Cardinality(Wanted)]

Acyclic == \A p \in Wanted : p \notin Reaches(p)

EndPass ==
    /\ verdict = "busy" /\ queue = <<>>
    /\ \/ /\ ~changed /\ current = previous
          /\ verdict' = IF Acyclic THEN "resolved" ELSE "refused"
          /\ UNCHANGED <<queue, required, processed, current, previous, changed, passes>>
       \/ /\ changed \/ current # previous
          /\ passes' = passes + 1
          /\ previous' = current
          /\ IF passes' = MaxPasses
             THEN /\ verdict' = "unstable"
                  /\ UNCHANGED <<queue, required, processed, current, changed>>
             ELSE /\ queue' = Requirements(ProjectNeeds)
                  /\ required' = Unseen /\ processed' = Unseen /\ current' = Nowhere
                  /\ changed' = FALSE /\ UNCHANGED verdict
    /\ UNCHANGED <<released, locked, cache, publishings>>

ResolveNext == PublishRelease \/ NextRequirement \/ EndPass

ResolveSpec == ResolveInit /\ [][ResolveNext]_resolveVars

-----------------------------------------------------------------------------
Meets(needs) == \A p \in DOMAIN needs : current[p] \in needs[p]

(* A lock that is a closure of the project as it is now.                   *)
LockIsClosure ==
    /\ DOMAIN ProjectNeeds \subseteq DOMAIN locked
    /\ \A p \in DOMAIN ProjectNeeds : locked[p] \in ProjectNeeds[p]
    /\ \A p \in DOMAIN locked :
         \A d \in DOMAIN Required[p][locked[p]] :
             d \in DOMAIN locked /\ locked[d] \in Required[p][locked[p]][d]

(* What is resolved is a closure: the project and every package in it find  *)
(* what they require in a version they accept, although the versions were   *)
(* chosen one after another, while their constraints were still coming in   *)
(* and new releases were being published; and it has no cycle.  A lock that *)
(* still is a closure is reproduced: a new release changes nothing until an *)
(* update is asked for (docs: "sync reuses the exact versions of ailuo.lock *)
(* that still do").                                                         *)
ResolvedClosureIsConsistent ==
    verdict = "resolved" =>
        /\ Meets(ProjectNeeds) /\ Acyclic
        /\ \A p \in Wanted : current[p] # NoVersion => Meets(Required[p][current[p]])
        /\ LockIsClosure => \A p \in Wanted : current[p] # NoVersion => current[p] = locked[p]
=============================================================================
