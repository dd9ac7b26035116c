---------------------------- MODULE EchoRunProofs ----------------------------
(***************************************************************************)
(* Proofs about EchoRun for every value of its constants.                  *)
(***************************************************************************)
EXTENDS EchoRunInv, TLAPS

(* The initial values are in their domains.                                *)
LEMMA InitType == Init => TypeOK
  BY ConstantsAssumption
     DEF Init, TypeOK, RowTypes, SchedTypes, ServiceTypes, EchoTerminal, RunActive, RunTerminal, PCs, Registered,
         Executing, Verdicts

-----------------------------------------------------------------------------
(* What a step that leaves a group of variables alone preserves. *)

(* A step that writes no row keeps the domains of the rows.                *)
LEMMA SameRowTypes == ASSUME RowTypes, UNCHANGED rows PROVE RowTypes'
  BY DEF RowTypes, rows

(* A step that moves no worker keeps the domains of their memory.          *)
LEMMA SameSchedTypes == ASSUME SchedTypes, UNCHANGED sched PROVE SchedTypes'
  BY DEF SchedTypes, sched

(* The invariants of the rows alone. *)
RowsPart == RowTypes /\ RowsInv /\ AttemptsInv /\ EchoFollowsRoot

(* A step that writes no row keeps every invariant of the rows.            *)
LEMMA SameRows == ASSUME RowsPart, UNCHANGED rows PROVE RowsPart'
  <1>1. RowTypes'
    BY SameRowTypes DEF RowsPart
  <1>2. RowsInv'
    BY DEF RowsPart, RowsInv, RowInv, Effected, HasChild, rows
  <1>3. AttemptsInv'
    BY DEF RowsPart, AttemptsInv, AttemptPair, SameRoot, Effected, HasChild,
           rows
  <1>4. EchoFollowsRoot'
    BY DEF RowsPart, EchoFollowsRoot, FollowsRoot, PrimaryActive, LastAttempts, RootRuns,
           RunsOf, rows
  <1> QED
    BY <1>1, <1>2, <1>3, <1>4 DEF RowsPart

(* A worker that does not move keeps its invariant when the step inserts   *)
(* rows, moves no Run back to "none" and leaves the row of its job alone.  *)
LEMMA IdleWorker ==
  ASSUME NEW v \in Workers, WorkerInv(v),
         pc'[v] = pc[v], listed'[v] = listed[v], job'[v] = job[v],
         retrySafe'[v] = retrySafe[v], verdict'[v] = verdict[v],
         \A r \in Runs : runStatus[r] # "none" => runStatus'[r] # "none",
         listed[v] \subseteq Runs,
         job[v] \in Runs =>
            /\ Holds(v) => Holds(v)'
            /\ Effected(job[v])' => Effected(job[v])
            /\ runAttempt'[job[v]] = runAttempt[job[v]]
  PROVE  WorkerInv(v)'
  <1> QED
    BY DEF WorkerInv, Registered, Executing

-----------------------------------------------------------------------------
(* What the invariants say of the runs of one Echo. *)

(* An attempt of a root that is queued or running is the last one; its     *)
(* Echo is running and every other attempt has failed.                     *)
LEMMA ActiveIsLast ==
  ASSUME RowsPart, NEW e \in Echoes, NEW r \in RootRuns(e),
         runStatus[r] \in RunActive
  PROVE  /\ r \in LastAttempts(e)
         /\ echoStatus[e] = "running"
         /\ \A q \in RootRuns(e) : q # r => runStatus[q] = "failed"
  <1>1. ASSUME NEW q \in RootRuns(e)
        PROVE  /\ runAttempt[q] <= runAttempt[r]
               /\ q # r => runStatus[q] = "failed"
    <2>1. /\ q \in Runs /\ r \in Runs /\ SameRoot(q, r) /\ SameRoot(r, q)
      BY ConstantsAssumption DEF RootRuns, RunsOf, SameRoot
    <2>2. runAttempt[q] \in Nat /\ runAttempt[r] \in Nat
      BY <2>1, ConstantsAssumption DEF RowsPart, RowTypes
    <2>3. AttemptPair(q, r) /\ AttemptPair(r, q)
      BY <2>1 DEF RowsPart, AttemptsInv
    <2> QED
      BY <2>1, <2>2, <2>3 DEF AttemptPair, RunActive
  <1>2. r \in LastAttempts(e)
    BY <1>1 DEF LastAttempts
  <1>3. echoStatus[e] = "running"
    <2>1. r \in RunsOf(e)
      BY DEF RootRuns
    <2>2. PrimaryActive(e, runStatus)
      BY DEF PrimaryActive
    <2>3. echoStatus[e] \in {"none", "running"} \union EchoTerminal
      BY DEF RowsPart, RowTypes
    <2> QED
      BY <2>1, <2>2, <2>3 DEF RowsPart, EchoFollowsRoot, FollowsRoot
  <1> QED
    BY <1>1, <1>2, <1>3

(* An Echo whose root is queued has no child Run: what a child hangs under *)
(* has had an effect, so it is the last attempt, and that one is queued.   *)
LEMMA QueuedRootAlone ==
  ASSUME RowsPart, NEW e \in Echoes, NEW r \in RootRuns(e),
         runStatus[r] = "queued"
  PROVE  RunsOf(e) = RootRuns(e)
  <1>1. r \in Runs /\ runEcho[r] = e /\ runParent[r] = NoRun
    BY DEF RootRuns, RunsOf
  <1>2. SUFFICES ASSUME NEW c \in RunsOf(e), runParent[c] # NoRun PROVE FALSE
    BY DEF RootRuns
  <1>3. c \in Runs /\ runEcho[c] = e
    BY DEF RunsOf
  <1> DEFINE p == runParent[c]
  <1>4. p \in Runs /\ runParent[p] = NoRun /\ runEcho[p] = e
    BY <1>2, <1>3 DEF RowsPart, RowTypes, RowsInv, RowInv
  <1>5. Effected(p) /\ ~Effected(r)
    BY <1>1, <1>3, <1>4 DEF RowsPart, RowsInv, RowInv, Effected, HasChild
  <1>6. runStatus[p] = "failed" /\ runAttempt[p] # runAttempt[r]
    <2>1. p # r /\ p \in RootRuns(e) /\ SameRoot(p, r)
      BY <1>1, <1>4, <1>5, ConstantsAssumption DEF RootRuns, RunsOf, SameRoot
    <2> QED
      BY <1>1, <1>4, <2>1, ActiveIsLast
      DEF RunActive, RowsPart, AttemptsInv, AttemptPair
  <1>7. runAttempt[r] <= runAttempt[p] /\ runAttempt[p] <= runAttempt[r]
    <2>1. r \in LastAttempts(e) /\ p \in RootRuns(e) /\ SameRoot(r, p)
      BY <1>1, <1>4, ActiveIsLast, ConstantsAssumption
         DEF RunActive, RootRuns, RunsOf, SameRoot
    <2> QED
      BY <1>1, <1>4, <1>5, <2>1
      DEF LastAttempts, RowsPart, AttemptsInv, AttemptPair
  <1>8. runAttempt[r] \in Nat /\ runAttempt[p] \in Nat
    BY <1>1, <1>4, ConstantsAssumption DEF RowsPart, RowTypes
  <1> QED
    BY <1>6, <1>7, <1>8

(* A step that rewrites statuses and tokens only.                          *)
LEMMA StatusStep ==
  ASSUME RowsPart, UNCHANGED <<runEcho, runParent, runAttempt, audited>>,
         \A r \in Runs : /\ runStatus[r] = "none" <=> runStatus'[r] = "none"
                         /\ runStatus[r] = "failed" => runStatus'[r] = "failed"
                         /\ runStatus'[r] = "queued" => runStatus[r] = "queued"
                         /\ (runStatus'[r] = "running") = (lease'[r] # NoWorker),
         \A e \in Echoes : echoStatus[e] # "none" => echoStatus'[e] # "none"
  PROVE  RowsInv' /\ AttemptsInv'
  <1>1. \A r \in Runs : Effected(r)' = Effected(r)
    BY DEF Effected, HasChild
  <1>2. RowsInv'
    BY <1>1 DEF RowsPart, RowsInv, RowInv
  <1>3. AttemptsInv'
    BY <1>1 DEF RowsPart, AttemptsInv, AttemptPair, SameRoot
  <1> QED
    BY <1>2, <1>3

(* The attempts of a root, and which is the last, do not depend on         *)
(* statuses.                                                               *)
LEMMA SameRoots ==
  ASSUME UNCHANGED <<runEcho, runParent, runAttempt>>, NEW e \in Echoes
  PROVE  /\ RunsOf(e)' = RunsOf(e) /\ RootRuns(e)' = RootRuns(e)
         /\ LastAttempts(e)' = LastAttempts(e)
  BY DEF RunsOf, RootRuns, LastAttempts

(* An Echo keeps following its root when neither moves, and when its last  *)
(* attempt ends and the Echo takes the outcome.                            *)
LEMMA EchoStays ==
  ASSUME UNCHANGED <<runEcho, runParent, runAttempt>>, NEW e \in Echoes,
         FollowsRoot(e), echoStatus'[e] = echoStatus[e],
         \A r \in RootRuns(e) : runStatus'[r] = runStatus[r]
  PROVE  FollowsRoot(e)'
  BY SameRoots DEF FollowsRoot, PrimaryActive, LastAttempts

(* An Echo whose last attempt ends, and which takes the outcome of that    *)
(* attempt in the same step, follows its root.                             *)
LEMMA EchoEnds ==
  ASSUME RowsPart, UNCHANGED <<runEcho, runParent, runAttempt>>,
         NEW e \in Echoes, NEW r \in RootRuns(e), runStatus[r] \in RunActive,
         runStatus'[r] \in RunTerminal,
         echoStatus'[e] = EchoOutcome(runStatus'[r]),
         \A q \in RootRuns(e) : q # r => runStatus'[q] = runStatus[q]
  PROVE  FollowsRoot(e)'
  <1>1. r \in LastAttempts(e) /\ \A q \in RootRuns(e) : q # r => runStatus[q] = "failed"
    BY ActiveIsLast
  <1> QED
    BY <1>1, SameRoots
    DEF FollowsRoot, PrimaryActive, EchoOutcome, EchoTerminal, RunTerminal, RunActive

-----------------------------------------------------------------------------
(* The rows, transaction by transaction. *)

(* CancelQueuedRun: the queued Runs end, and the Echo with its root.       *)
LEMMA CancelQueuedRunRows ==
  ASSUME RowsPart, NEW e \in Echoes, CancelQueuedRun(e) PROVE RowsPart'
  <1>1. CASE UNCHANGED rows
    BY <1>1, SameRows
  <1>2. CASE ~UNCHANGED rows
    <2> DEFINE queued == QueuedOf(e)
               running == RunningOf(e)
    <2>1. /\ running # {} \/ echoStatus[e] = "running"
          /\ runStatus' = [r \in Runs |-> IF r \in queued THEN "cancelled"
                                          ELSE runStatus[r]]
          /\ echoStatus' = IF running # {} THEN echoStatus
                           ELSE [echoStatus EXCEPT ![e] = "cancelled"]
          /\ UNCHANGED <<runEcho, runParent, originCall, runAttempt, lease,
                         audited, announced>>
      BY <1>2 DEF CancelQueuedRun, CancelAccepted
    <2>2. RowTypes'
      BY <2>1 DEF RowsPart, RowTypes, EchoTerminal, RunTerminal
    <2>3. RowsInv' /\ AttemptsInv'
      <3>1. \A r \in Runs :
              /\ runStatus[r] = "none" <=> runStatus'[r] = "none"
              /\ runStatus[r] = "failed" => runStatus'[r] = "failed"
              /\ runStatus'[r] = "queued" => runStatus[r] = "queued"
              /\ (runStatus'[r] = "running") = (lease'[r] # NoWorker)
        BY <2>1 DEF RowsPart, RowsInv, RowInv, QueuedOf
      <3>2. \A x \in Echoes : echoStatus[x] # "none" => echoStatus'[x] # "none"
        BY <2>1 DEF RowsPart, RowTypes
      <3> QED
        BY <2>1, <3>1, <3>2, StatusStep
    <2>4. ASSUME NEW x \in Echoes PROVE FollowsRoot(x)'
      <3>1. FollowsRoot(x)
        BY DEF RowsPart, EchoFollowsRoot
      <3>2. CASE x # e
        <4>1. echoStatus'[x] = echoStatus[x]
          BY <2>1, <3>2 DEF RowsPart, RowTypes
        <4>2. \A r \in RootRuns(x) : runStatus'[r] = runStatus[r]
          BY <2>1, <3>2 DEF RootRuns, RunsOf, QueuedOf
        <4> QED
          BY <2>1, <3>1, <4>1, <4>2, EchoStays
      <3>3. CASE x = e /\ running # {}
        <4>1. \A r \in RootRuns(e) : runStatus[r] # "queued"
          BY <3>3, ActiveIsLast, QueuedRootAlone DEF RunningOf, RunActive
        <4>2. \A r \in RootRuns(e) : runStatus'[r] = runStatus[r]
          BY <2>1, <4>1 DEF RootRuns, RunsOf, QueuedOf
        <4> QED
          BY <2>1, <3>1, <3>3, <4>2, EchoStays
      <3>4. CASE x = e /\ running = {}
        <4>1. PICK r \in LastAttempts(e) : runStatus[r] \in RunActive
          BY <2>1, <3>1, <3>4 DEF FollowsRoot
        <4>2. r \in RootRuns(e) /\ r \in queued
          BY <3>4, <4>1
             DEF LastAttempts, RootRuns, RunsOf, RunningOf, QueuedOf, RunActive
        <4>3. runStatus'[r] = "cancelled" /\ echoStatus'[e] = "cancelled"
          BY <2>1, <3>4, <4>2 DEF QueuedOf, RunsOf, RowsPart, RowTypes
        <4>4. \A q \in RootRuns(e) : q # r => runStatus'[q] = runStatus[q]
          BY <2>1, <4>1, <4>2, ActiveIsLast DEF RootRuns, RunsOf, QueuedOf
        <4> QED
          BY <2>1, <3>4, <4>1, <4>2, <4>3, <4>4, EchoEnds
             DEF EchoOutcome, RunTerminal
      <3> QED
        BY <3>2, <3>3, <3>4
    <2> QED
      BY <2>2, <2>3, <2>4 DEF RowsPart, EchoFollowsRoot
  <1> QED
    BY <1>1, <1>2

(* A queued Run of an Echo that is not running is a child.                 *)
LEMMA ListRunnableRows ==
  ASSUME RowsPart, NEW w \in Workers, ListRunnable(w) PROVE RowsPart'
  <1> DEFINE orphans == {r \in Runs : /\ runStatus[r] = "queued"
                                      /\ echoStatus[runEcho[r]] # "running"}
  <1>1. /\ runStatus' = [r \in Runs |-> IF r \in orphans THEN "failed"
                                        ELSE runStatus[r]]
        /\ UNCHANGED <<echoStatus, runEcho, runParent, originCall, runAttempt,
                       lease, audited, announced>>
    BY DEF ListRunnable
  <1>2. RowTypes'
    BY <1>1 DEF RowsPart, RowTypes, RunTerminal
  <1>3. RowsInv' /\ AttemptsInv'
    <2>1. \A r \in Runs :
            /\ runStatus[r] = "none" <=> runStatus'[r] = "none"
            /\ runStatus[r] = "failed" => runStatus'[r] = "failed"
            /\ runStatus'[r] = "queued" => runStatus[r] = "queued"
            /\ (runStatus'[r] = "running") = (lease'[r] # NoWorker)
      BY <1>1 DEF RowsPart, RowsInv, RowInv
    <2> QED
      BY <1>1, <2>1, StatusStep
  <1>4. ASSUME NEW e \in Echoes PROVE FollowsRoot(e)'
    <2>1. \A r \in RootRuns(e) : r \notin orphans
      BY ActiveIsLast DEF RootRuns, RunsOf, RunActive
    <2>2. \A r \in RootRuns(e) : runStatus'[r] = runStatus[r]
      BY <1>1, <2>1 DEF RootRuns, RunsOf
    <2> QED
      BY <1>1, <2>2, EchoStays DEF RowsPart, EchoFollowsRoot
  <1> QED
    BY <1>2, <1>3, <1>4 DEF RowsPart, EchoFollowsRoot

(* ClaimRun: a queued row gets a token, its Echo goes on running.          *)
LEMMA ClaimRunRows ==
  ASSUME RowsPart, NEW w \in Workers, job[w] \in Runs, ClaimRun(w)
  PROVE  RowsPart'
  <1>1. CASE UNCHANGED rows
    BY <1>1, SameRows
  <1>2. CASE ~UNCHANGED rows
    <2> DEFINE j == job[w]
    <2>1. /\ runStatus[j] = "queued"
          /\ runStatus' = [runStatus EXCEPT ![j] = "running"]
          /\ lease' = [lease EXCEPT ![j] = w]
          /\ UNCHANGED <<echoStatus, runEcho, runParent, originCall, runAttempt,
                         audited, announced>>
      BY <1>2 DEF ClaimRun, rows
    <2>2. RowTypes'
      BY <2>1 DEF RowsPart, RowTypes, RunActive
    <2>3. RowsInv' /\ AttemptsInv'
      <3>1. \A r \in Runs :
              /\ runStatus[r] = "none" <=> runStatus'[r] = "none"
              /\ runStatus[r] = "failed" => runStatus'[r] = "failed"
              /\ runStatus'[r] = "queued" => runStatus[r] = "queued"
              /\ (runStatus'[r] = "running") = (lease'[r] # NoWorker)
        BY <2>1, ConstantsAssumption DEF RowsPart, RowTypes, RowsInv, RowInv
      <3> QED
        BY <2>1, <3>1, StatusStep
    <2>4. ASSUME NEW e \in Echoes PROVE FollowsRoot(e)'
      <3>1. \A r \in Runs : runStatus'[r] \in RunActive <=> runStatus[r] \in RunActive
        BY <2>1 DEF RowsPart, RowTypes, RunActive
      <3>2. \A r \in Runs : runStatus[r] \notin RunActive => runStatus'[r] = runStatus[r]
        BY <2>1 DEF RowsPart, RowTypes, RunActive
      <3>3. FollowsRoot(e)
        BY DEF RowsPart, EchoFollowsRoot
      <3> QED
        BY <2>1, <3>1, <3>2, <3>3, SameRoots
           DEF FollowsRoot, PrimaryActive, LastAttempts, RootRuns, RunsOf
    <2> QED
      BY <2>2, <2>3, <2>4 DEF RowsPart, EchoFollowsRoot
  <1> QED
    BY <1>1, <1>2

(* A row is inserted: what an effect of an older Run, and a pair of older  *)
(* attempts, are does not change.                                          *)
LEMMA CreateEchoRows ==
  ASSUME RowsPart, NEW e \in Echoes, CreateEcho(e) PROVE RowsPart'
  <1>1. PICK n \in Fresh :
          /\ runStatus' = [runStatus EXCEPT ![n] = "queued"]
          /\ InsertRun(n, e, NoRun, {}, 1)
    BY DEF CreateEcho
  <1>2. /\ echoStatus[e] = "none"
        /\ echoStatus' = [echoStatus EXCEPT ![e] = "running"]
        /\ UNCHANGED <<lease, audited, announced>>
    BY DEF CreateEcho
  <1>3. /\ n \in Runs /\ runStatus[n] = "none" /\ runEcho[n] = NoEcho
        /\ runParent[n] = NoRun /\ runAttempt[n] = 0 /\ ~Effected(n)
    BY DEF Fresh, RowsPart, RowsInv, RowInv
  <1>4. \A r \in Runs : runEcho[r] # e
    BY <1>2 DEF RowsPart, EchoFollowsRoot, FollowsRoot, RunsOf
  <1>5. RowTypes'
    BY <1>1, <1>2, <1>3, ConstantsAssumption
       DEF InsertRun, RowsPart, RowTypes, RunActive
  <1>6. \A r \in Runs : Effected(r)' = Effected(r)
    BY <1>1, <1>2, <1>3, ConstantsAssumption
       DEF InsertRun, Effected, HasChild, RowsPart, RowTypes
  <1>7. RowsInv'
    <2> SUFFICES ASSUME NEW r \in Runs PROVE RowInv(r)'
      BY DEF RowsInv
    <2>1. RowInv(r)
      BY DEF RowsPart, RowsInv
    <2>2. CASE r = n
      BY <1>1, <1>2, <1>3, <1>6, <2>1, <2>2 DEF InsertRun, RowInv, RowsPart, RowTypes
    <2>3. CASE r # n
      <3>1. runParent[r] # n /\ (runParent[r] # NoRun => runParent[r] \in Runs)
        BY <1>3 DEF Effected, HasChild, RowsPart, RowTypes
      <3> QED
        BY <1>1, <1>2, <1>3, <1>6, <2>1, <2>3, <3>1
           DEF InsertRun, RowInv, RowsPart, RowTypes
    <2> QED
      BY <2>2, <2>3
  <1>8. AttemptsInv'
    <2> SUFFICES ASSUME NEW q \in Runs, NEW r \in Runs, SameRoot(q, r)'
                 PROVE  AttemptPair(q, r)'
      BY DEF AttemptsInv
    <2>1. CASE q = n \/ r = n
      <3>1. \A p \in Runs : runEcho'[p] = IF p = n THEN e ELSE runEcho[p]
        BY <1>1, <1>3 DEF InsertRun, RowsPart, RowTypes
      <3>2. q = n /\ r = n
        BY <1>4, <2>1, <3>1 DEF SameRoot
      <3>3. runAttempt'[n] = 1
        BY <1>1, <1>3 DEF InsertRun, RowsPart, RowTypes
      <3> QED
        BY <3>2, <3>3 DEF AttemptPair
    <2>2. CASE q # n /\ r # n
      BY <1>1, <1>3, <1>6, <2>2 DEF InsertRun, SameRoot, AttemptPair, AttemptsInv, RowsPart, RowTypes
    <2> QED
      BY <2>1, <2>2
  <1>9. ASSUME NEW x \in Echoes PROVE FollowsRoot(x)'
    <2>1. FollowsRoot(x)
      BY DEF RowsPart, EchoFollowsRoot
    <2>2. CASE x # e
      <3>1. /\ echoStatus'[x] = echoStatus[x]
            /\ RunsOf(x)' = RunsOf(x)
            /\ \A r \in RunsOf(x) : /\ runStatus'[r] = runStatus[r]
                                    /\ runParent'[r] = runParent[r]
                                    /\ runAttempt'[r] = runAttempt[r]
        BY <1>1, <1>2, <1>3, <2>2, ConstantsAssumption DEF InsertRun, RunsOf, RowsPart, RowTypes
      <3> QED
        BY <2>1, <3>1 DEF FollowsRoot, PrimaryActive, LastAttempts, RootRuns
    <2>3. CASE x = e
      <3>1. RunsOf(e)' = {n}
        BY <1>1, <1>3, <1>4 DEF InsertRun, RunsOf, RowsPart, RowTypes
      <3>2. LastAttempts(e)' = {n}
        BY <1>1, <1>3, <3>1 DEF InsertRun, LastAttempts, RootRuns, RowsPart, RowTypes
      <3>3. echoStatus'[e] = "running" /\ runStatus'[n] = "queued"
        BY <1>1, <1>2, <1>3 DEF RowsPart, RowTypes
      <3> QED
        BY <2>3, <3>2, <3>3 DEF FollowsRoot, RunActive, EchoTerminal
    <2> QED
      BY <2>2, <2>3
  <1> QED
    BY <1>5, <1>7, <1>8, <1>9 DEF RowsPart, EchoFollowsRoot

(* run.completed is persisted: none of the row invariants looks at it.     *)
LEMMA AnnouncedRows ==
  ASSUME RowsPart, announced' \subseteq Runs,
         UNCHANGED <<echoStatus, runStatus, runEcho, runParent, originCall,
                     runAttempt, lease, audited>>
  PROVE  RowsPart'
  <1>1. RowTypes'
    BY DEF RowsPart, RowTypes
  <1>2. RowsInv'
    BY DEF RowsPart, RowsInv, RowInv, Effected, HasChild
  <1>3. AttemptsInv'
    BY DEF RowsPart, AttemptsInv, AttemptPair, SameRoot, Effected, HasChild
  <1>4. EchoFollowsRoot'
    BY DEF RowsPart, EchoFollowsRoot, FollowsRoot, PrimaryActive, LastAttempts,
           RootRuns, RunsOf
  <1> QED
    BY <1>1, <1>2, <1>3, <1>4 DEF RowsPart

(* CompleteRun: the row ends, and with a root the Echo takes its outcome.  *)
LEMMA CompleteRunRows ==
  ASSUME RowsPart, NEW w \in Workers, job[w] \in Runs,
         verdict[w] \in Verdicts, verdict[w] # "none", CompleteRun(w)
  PROVE  RowsPart'
  <1>1. CASE UNCHANGED rows
    BY <1>1, SameRows
  <1>2. CASE ~UNCHANGED rows
    <2> DEFINE r == job[w]
               e == runEcho[r]
    <2>1. /\ Holds(w)
          /\ runStatus' = [runStatus EXCEPT ![r] = verdict[w]]
          /\ lease' = [lease EXCEPT ![r] = NoWorker]
          /\ echoStatus' = IF RootJob(w)
                           THEN [echoStatus EXCEPT ![e] = EchoOutcome(verdict[w])]
                           ELSE echoStatus
          /\ UNCHANGED <<runEcho, runParent, originCall, runAttempt, audited,
                         announced>>
      BY <1>2 DEF CompleteRun, MayComplete, rows
    <2>2. /\ verdict[w] \in RunTerminal /\ runStatus[r] = "running"
          /\ e \in Echoes
      BY <2>1 DEF CompleteRun, Verdicts, Holds, RowsPart, RowsInv, RowInv
    <2>3. RowTypes'
      BY <2>1, <2>2
         DEF RowsPart, RowTypes, EchoOutcome, EchoTerminal
    <2>4. RowsInv' /\ AttemptsInv'
      <3>1. \A q \in Runs :
              /\ runStatus[q] = "none" <=> runStatus'[q] = "none"
              /\ runStatus[q] = "failed" => runStatus'[q] = "failed"
              /\ runStatus'[q] = "queued" => runStatus[q] = "queued"
              /\ (runStatus'[q] = "running") = (lease'[q] # NoWorker)
        BY <2>1, <2>2 DEF RowsPart, RowTypes, RowsInv, RowInv, RunTerminal
      <3>2. \A x \in Echoes : echoStatus[x] # "none" => echoStatus'[x] # "none"
        BY <2>1, <2>2 DEF RowsPart, RowTypes, EchoOutcome
      <3> QED
        BY <2>1, <3>1, <3>2, StatusStep
    <2>5. ASSUME NEW x \in Echoes PROVE FollowsRoot(x)'
      <3>1. FollowsRoot(x)
        BY DEF RowsPart, EchoFollowsRoot
      <3>2. CASE RootJob(w) /\ x = e
        <4>1. r \in RootRuns(e)
          BY <2>2, <3>2 DEF RootJob, RootRuns, RunsOf
        <4>2. /\ runStatus[r] \in RunActive /\ runStatus'[r] \in RunTerminal
              /\ echoStatus'[e] = EchoOutcome(runStatus'[r])
          BY <2>1, <2>2, <3>2 DEF RowsPart, RowTypes, RunActive
        <4>3. \A q \in RootRuns(e) : q # r => runStatus'[q] = runStatus[q]
          BY <2>1 DEF RowsPart, RowTypes, RootRuns, RunsOf
        <4> QED
          BY <2>1, <2>2, <3>2, <4>1, <4>2, <4>3, EchoEnds
      <3>3. CASE ~RootJob(w) \/ x # e
        <4>1. echoStatus'[x] = echoStatus[x]
          BY <2>1, <2>2, <3>3 DEF RowsPart, RowTypes
        <4>2. \A q \in RootRuns(x) : runStatus'[q] = runStatus[q]
          BY <2>1, <3>3 DEF RootRuns, RunsOf, RootJob, RowsPart, RowTypes
        <4> QED
          BY <2>1, <3>1, <4>1, <4>2, EchoStays
      <3> QED
        BY <3>2, <3>3
    <2> QED
      BY <2>3, <2>4, <2>5 DEF RowsPart, EchoFollowsRoot
  <1> QED
    BY <1>1, <1>2

(* The next attempt of w's job: the job fails, n takes its place.          *)
LEMMA RetryRunRows ==
  ASSUME RowsPart, NEW w \in Workers, job[w] \in Runs,
         ~Effected(job[w]), runAttempt[job[w]] < MaxRunAttempts, RetryRun(w)
  PROVE  RowsPart'
  <1>1. CASE UNCHANGED rows
    BY <1>1, SameRows
  <1>2. CASE ~UNCHANGED rows
    <2>0. PICK j \in Runs, e \in Echoes : j = job[w] /\ e = runEcho[j]
      BY <1>2 DEF RetryRun, Holds, rows, RowsPart, RowsInv, RowInv
    <2>1. PICK n \in Fresh :
            /\ runStatus' = [runStatus EXCEPT ![j] = "failed", ![n] = "queued"]
            /\ InsertRun(n, e, runParent[j], originCall[j], runAttempt[j] + 1)
      BY <1>2, <2>0 DEF RetryRun, rows
    <2>2. /\ Holds(w)
          /\ OriginFree(runParent[j], originCall[j])
          /\ lease' = [lease EXCEPT ![j] = NoWorker]
          /\ UNCHANGED <<echoStatus, audited, announced>>
      BY <1>2, <2>0 DEF RetryRun, rows
    <2>3. /\ runStatus[j] = "running" /\ runParent[j] = NoRun /\ e \in Echoes
          /\ runAttempt[j] \in Nat \ {0} /\ runAttempt[j] + 1 \in 0..MaxRunAttempts
      BY <2>0, <2>2, ConstantsAssumption
         DEF Holds, OriginFree, RowsPart, RowTypes, RowsInv, RowInv
    <2>4. /\ n \in Runs /\ n # j /\ runStatus[n] = "none" /\ runEcho[n] = NoEcho
          /\ runParent[n] = NoRun /\ runAttempt[n] = 0 /\ ~Effected(n)
          /\ lease[n] = NoWorker
      BY <2>3 DEF Fresh, RowsPart, RowsInv, RowInv
    <2>5. j \in RootRuns(e) /\ runStatus[j] \in RunActive
      BY <2>0, <2>3 DEF RootRuns, RunsOf, RunActive
    <2>6. /\ j \in LastAttempts(e) /\ echoStatus[e] = "running"
          /\ \A q \in RootRuns(e) : q # j => runStatus[q] = "failed"
      BY <2>3, <2>5, ActiveIsLast
    <2>7. \A r \in Runs :
            /\ runEcho'[r] = IF r = n THEN e ELSE runEcho[r]
            /\ runParent'[r] = runParent[r]
            /\ runAttempt'[r] = IF r = n THEN runAttempt[j] + 1 ELSE runAttempt[r]
            /\ runStatus'[r] = IF r = n THEN "queued"
                               ELSE IF r = j THEN "failed" ELSE runStatus[r]
            /\ lease'[r] = IF r = j THEN NoWorker ELSE lease[r]
      BY <2>1, <2>2, <2>3, <2>4 DEF InsertRun, RowsPart, RowTypes
    <2>8. RowTypes'
      BY <2>1, <2>2, <2>3, <2>4
         DEF InsertRun, RowsPart, RowTypes, RunActive, RunTerminal
    <2>9. \A r \in Runs : Effected(r)' = Effected(r)
      BY <2>2, <2>7 DEF Effected, HasChild
    <2>10. RowsInv'
      <3> SUFFICES ASSUME NEW r \in Runs PROVE RowInv(r)'
        BY DEF RowsInv
      <3>1. RowInv(r) /\ (runParent[r] # NoRun => runParent[r] \in Runs)
        BY DEF RowsPart, RowsInv, RowTypes
      <3>2. \A p \in Runs : runParent[p] # n
        BY <2>4 DEF Effected, HasChild
      <3>3. CASE r = n
        BY <2>2, <2>3, <2>4, <2>6, <2>7, <2>9, <3>3 DEF RowInv
      <3>4. CASE r # n
        BY <2>2, <2>3, <2>7, <2>9, <3>1, <3>2, <3>4 DEF RowInv
      <3> QED
        BY <3>3, <3>4
    <2>11. \A q \in RootRuns(e) : runAttempt[q] \in Nat /\ runAttempt[q] <= runAttempt[j]
      BY <2>6, ConstantsAssumption
         DEF LastAttempts, RootRuns, RunsOf, RowsPart, RowTypes
    <2>12. AttemptsInv'
      <3> SUFFICES ASSUME NEW q \in Runs, NEW r \in Runs, SameRoot(q, r)'
                   PROVE  AttemptPair(q, r)'
        BY DEF AttemptsInv
      <3>1. CASE q # n /\ r # n
        <4>1. SameRoot(q, r) /\ AttemptPair(q, r)
          BY <2>7, <3>1 DEF SameRoot, RowsPart, AttemptsInv
        <4> QED
          BY <2>7, <2>9, <3>1, <4>1 DEF AttemptPair
      <3>2. CASE q # n /\ r = n
        <4>1. q \in RootRuns(e)
          BY <2>7, <3>2 DEF SameRoot, RootRuns, RunsOf
        <4>2. runAttempt'[q] < runAttempt'[r] /\ runStatus'[q] = "failed"
          BY <2>3, <2>6, <2>7, <2>11, <3>2, <4>1
        <4>3. runAttempt'[q] \in Nat /\ runAttempt'[r] \in Nat
          BY <2>3, <2>7, <2>11, <3>2, <4>1
        <4> QED
          BY <4>2, <4>3 DEF AttemptPair
      <3>3. CASE q = n /\ r # n
        <4>1. r \in RootRuns(e)
          BY <2>7, <3>3 DEF SameRoot, RootRuns, RunsOf
        <4>2. /\ runAttempt'[r] < runAttempt'[q]
              /\ runAttempt'[q] \in Nat /\ runAttempt'[r] \in Nat
          BY <2>3, <2>7, <2>11, <3>3, <4>1
        <4>3. ~Effected(r)'
          <5>1. CASE r = j
            BY <2>0, <2>9, <5>1
          <5>2. CASE r # j
            <6>1. SameRoot(j, r)
              BY <2>0, <2>3, <4>1, ConstantsAssumption
                 DEF SameRoot, RootRuns, RunsOf
            <6>2. AttemptPair(j, r)
              BY <6>1 DEF RowsPart, AttemptsInv
            <6>3. ~Effected(r)
              BY <2>3, <2>11, <4>1, <5>2, <6>2 DEF AttemptPair
            <6> QED
              BY <2>9, <6>3
          <5> QED
            BY <5>1, <5>2
        <4> QED
          BY <4>2, <4>3 DEF AttemptPair
      <3>4. CASE q = n /\ r = n
        BY <2>3, <2>7, <3>4 DEF AttemptPair
      <3> QED
        BY <3>1, <3>2, <3>3, <3>4
    <2>13. ASSUME NEW x \in Echoes PROVE FollowsRoot(x)'
      <3>1. FollowsRoot(x)
        BY DEF RowsPart, EchoFollowsRoot
      <3>2. CASE x # e
        <4>1. /\ echoStatus'[x] = echoStatus[x]
              /\ RunsOf(x)' = RunsOf(x)
              /\ \A r \in RunsOf(x) : /\ runStatus'[r] = runStatus[r]
                                      /\ runParent'[r] = runParent[r]
                                      /\ runAttempt'[r] = runAttempt[r]
          BY <2>0, <2>2, <2>4, <2>7, <3>2, ConstantsAssumption DEF RunsOf
        <4> QED
          BY <3>1, <4>1 DEF FollowsRoot, PrimaryActive, LastAttempts, RootRuns
      <3>3. CASE x = e
        <4>1. n \in RootRuns(e)'
          BY <2>4, <2>7 DEF RootRuns, RunsOf
        <4>2. \A q \in RootRuns(e)' : q # n => q \in RootRuns(e)
          BY <2>7 DEF RootRuns, RunsOf
        <4>3. n \in LastAttempts(e)'
          BY <2>3, <2>4, <2>7, <2>11, <4>1, <4>2 DEF LastAttempts, RootRuns, RunsOf
        <4> QED
          BY <2>2, <2>4, <2>6, <2>7, <3>3, <4>3
             DEF FollowsRoot, RunActive, EchoTerminal
      <3> QED
        BY <3>2, <3>3
    <2> QED
      BY <2>8, <2>10, <2>12, <2>13 DEF RowsPart, EchoFollowsRoot
  <1> QED
    BY <1>1, <1>2

(* A dispatched call marks the running job of w; a child Run is queued     *)
(* under it. Both are effects of the last attempt of its root.             *)
LEMMA CapabilityCallRows ==
  ASSUME RowsPart, NEW w \in Workers, job[w] \in Runs, CapabilityCall(w)
  PROVE  RowsPart'
  <1>1. CASE UNCHANGED rows
    BY <1>1, SameRows
  <1>2. CASE ~UNCHANGED rows
    <2>1. PICK j \in Runs, e \in Echoes : j = job[w] /\ e = runEcho[j]
      BY <1>2 DEF CapabilityCall, Holds, RowsPart, RowsInv, RowInv
    <2>2. /\ Holds(w)
          /\ audited' = audited \union {j}
          /\ UNCHANGED <<echoStatus, lease, announced>>
      BY <1>2, <2>1 DEF CapabilityCall, rows
    <2>3. runStatus[j] = "running"
      BY <2>1, <2>2 DEF Holds
    <2>4. ASSUME NEW q \in Runs, SameRoot(q, j)
          PROVE  runAttempt[q] <= runAttempt[j]
      <3>1. q \in RootRuns(e) /\ j \in RootRuns(e)
        BY <2>1, <2>4 DEF SameRoot, RootRuns, RunsOf
      <3>2. j \in LastAttempts(e)
        BY <2>3, <3>1, ActiveIsLast DEF RunActive
      <3> QED
        BY <3>1, <3>2 DEF LastAttempts
    <2>5. CASE UNCHANGED <<runStatus, runEcho, runParent, originCall, runAttempt>>
      <3>1. \A r \in Runs : Effected(r)' => Effected(r) \/ r = j
        BY <2>2, <2>5 DEF Effected, HasChild
      <3>2. RowTypes'
        BY <2>2, <2>5 DEF RowsPart, RowTypes
      <3>3. RowsInv'
        BY <2>2, <2>3, <2>5, <3>1 DEF RowsPart, RowsInv, RowInv
      <3>4. AttemptsInv'
        <4> SUFFICES ASSUME NEW q \in Runs, NEW r \in Runs, SameRoot(q, r)'
                     PROVE  AttemptPair(q, r)'
          BY DEF AttemptsInv
        <4>1. SameRoot(q, r) /\ AttemptPair(q, r)
          BY <2>5 DEF SameRoot, RowsPart, AttemptsInv
        <4> QED
          BY <2>4, <2>5, <3>1, <4>1 DEF AttemptPair
      <3>5. EchoFollowsRoot'
        BY <2>2, <2>5
           DEF RowsPart, EchoFollowsRoot, FollowsRoot, PrimaryActive,
               LastAttempts, RootRuns, RunsOf
      <3> QED
        BY <3>2, <3>3, <3>4, <3>5 DEF RowsPart
    <2>6. ASSUME NEW c \in Calls, CreateChildRun(w, c) PROVE RowsPart'
      <3>1. PICK n \in Fresh :
              /\ runStatus' = [runStatus EXCEPT ![n] = "queued"]
              /\ InsertRun(n, e, j, {c}, 1)
        BY <2>1, <2>6 DEF CreateChildRun
      <3>2. runParent[j] = NoRun /\ echoStatus[e] = "running"
        BY <2>1, <2>6 DEF CreateChildRun, RootJob
      <3>3. /\ n \in Runs /\ n # j /\ runStatus[n] = "none" /\ runEcho[n] = NoEcho
            /\ runParent[n] = NoRun /\ runAttempt[n] = 0 /\ ~Effected(n)
            /\ lease[n] = NoWorker
        BY <2>3 DEF Fresh, RowsPart, RowsInv, RowInv
      <3>4. \A r \in Runs :
              /\ runEcho'[r] = IF r = n THEN e ELSE runEcho[r]
              /\ runParent'[r] = IF r = n THEN j ELSE runParent[r]
              /\ runAttempt'[r] = IF r = n THEN 1 ELSE runAttempt[r]
              /\ runStatus'[r] = IF r = n THEN "queued" ELSE runStatus[r]
        BY <3>1, <3>3 DEF InsertRun, RowsPart, RowTypes
      <3>5. RowTypes'
        BY <2>2, <2>6, <3>1, <3>3, ConstantsAssumption
           DEF InsertRun, RowsPart, RowTypes, RunActive
      <3>6. \A r \in Runs : Effected(r)' => Effected(r) \/ r = j
        BY <2>2, <3>4 DEF Effected, HasChild
      <3>7. RowsInv'
        <4> SUFFICES ASSUME NEW r \in Runs PROVE RowInv(r)'
          BY DEF RowsInv
        <4>1. RowInv(r) /\ (runParent[r] # NoRun => runParent[r] \in Runs)
          BY DEF RowsPart, RowsInv, RowTypes
        <4>2. \A p \in Runs : runParent[p] # n
          BY <3>3 DEF Effected, HasChild
        <4>3. CASE r = n
          <5>1. ~Effected(n)'
            BY <3>3, <3>6
          <5> QED
            BY <2>1, <2>2, <3>2, <3>3, <3>4, <4>3, <5>1, ConstantsAssumption
               DEF RowInv
        <4>4. CASE r # n
          BY <2>2, <2>3, <3>3, <3>4, <3>6, <4>1, <4>2, <4>4 DEF RowInv
        <4> QED
          BY <4>3, <4>4
      <3>8. AttemptsInv'
        <4> SUFFICES ASSUME NEW q \in Runs, NEW r \in Runs, SameRoot(q, r)'
                     PROVE  AttemptPair(q, r)'
          BY DEF AttemptsInv
        <4>1. q # n /\ r # n
          BY <3>4, ConstantsAssumption DEF SameRoot
        <4>2. SameRoot(q, r) /\ AttemptPair(q, r)
          BY <3>4, <4>1 DEF SameRoot, RowsPart, AttemptsInv
        <4> QED
          BY <2>4, <3>4, <3>6, <4>1, <4>2 DEF AttemptPair
      <3>9. ASSUME NEW x \in Echoes PROVE FollowsRoot(x)'
        <4>1. RootRuns(x)' = RootRuns(x) /\ n \notin RootRuns(x)
          BY <3>3, <3>4, ConstantsAssumption DEF RootRuns, RunsOf
        <4>2. \A r \in RootRuns(x) : /\ runStatus'[r] = runStatus[r]
                                     /\ runAttempt'[r] = runAttempt[r]
          BY <3>4, <4>1 DEF RootRuns, RunsOf
        <4>3. LastAttempts(x)' = LastAttempts(x)
          BY <4>1, <4>2 DEF LastAttempts
        <4>4. RunsOf(x) = {} => RunsOf(x)' = {}
          BY <2>1, <3>4 DEF RunsOf
        <4>5. FollowsRoot(x)
          BY DEF RowsPart, EchoFollowsRoot
        <4> QED
          BY <2>2, <4>1, <4>2, <4>3, <4>4, <4>5
             DEF FollowsRoot, PrimaryActive, LastAttempts
      <3> QED
        BY <3>5, <3>7, <3>8, <3>9 DEF RowsPart, EchoFollowsRoot
    <2> QED
      BY <1>2, <2>5, <2>6 DEF CapabilityCall
  <1> QED
    BY <1>1, <1>2

(* Shutdown cancels every queued Run and the Echo of every queued root.    *)
LEMMA CancelQueuedRunsRows ==
  ASSUME RowsPart, CancelQueuedRuns,
         UNCHANGED <<runEcho, runParent, originCall, runAttempt, lease, audited,
                     announced>>
  PROVE  RowsPart'
  <1>1. RowTypes'
    BY DEF CancelQueuedRuns, RowsPart, RowTypes, EchoTerminal, RunTerminal
  <1>2. RowsInv' /\ AttemptsInv'
    <2>1. \A r \in Runs :
            /\ runStatus[r] = "none" <=> runStatus'[r] = "none"
            /\ runStatus[r] = "failed" => runStatus'[r] = "failed"
            /\ runStatus'[r] = "queued" => runStatus[r] = "queued"
            /\ (runStatus'[r] = "running") = (lease'[r] # NoWorker)
      BY DEF CancelQueuedRuns, RowsPart, RowsInv, RowInv
    <2>2. \A e \in Echoes : echoStatus[e] # "none" => echoStatus'[e] # "none"
      BY DEF CancelQueuedRuns
    <2> QED
      BY <2>1, <2>2, StatusStep
  <1>3. ASSUME NEW e \in Echoes PROVE FollowsRoot(e)'
    <2>1. FollowsRoot(e)
      BY DEF RowsPart, EchoFollowsRoot
    <2>2. CASE \E r \in RootRuns(e) : runStatus[r] = "queued"
      <3>1. PICK r \in RootRuns(e) : runStatus[r] = "queued"
        BY <2>2
      <3>2. /\ echoStatus[e] = "running"
            /\ \A q \in RootRuns(e) : q # r => runStatus[q] = "failed"
        BY <3>1, ActiveIsLast DEF RunActive
      <3>3. QueuedOf(e) # {} /\ RunningOf(e) = {}
        BY <3>1, <3>2, QueuedRootAlone DEF QueuedOf, RunningOf, RootRuns
      <3>4. echoStatus'[e] = "cancelled" /\ runStatus'[r] = "cancelled"
        BY <3>1, <3>2, <3>3 DEF CancelQueuedRuns, RootRuns, RunsOf
      <3>5. \A q \in RootRuns(e) : q # r => runStatus'[q] = runStatus[q]
        BY <3>2 DEF CancelQueuedRuns, RootRuns, RunsOf
      <3> QED
        BY <3>1, <3>4, <3>5, EchoEnds DEF EchoOutcome, RunActive, RunTerminal
    <2>3. CASE \A r \in RootRuns(e) : runStatus[r] # "queued"
      <3>1. \A r \in RootRuns(e) : runStatus'[r] = runStatus[r]
        BY <2>3 DEF CancelQueuedRuns, RootRuns, RunsOf
      <3>2. echoStatus[e] = "running" => RunningOf(e) # {}
        BY <2>1, <2>3 DEF FollowsRoot, LastAttempts, RootRuns, RunsOf,
                          RunningOf, RunActive
      <3>3. echoStatus'[e] = echoStatus[e]
        BY <3>2 DEF CancelQueuedRuns
      <3> QED
        BY <2>1, <3>1, <3>3, EchoStays
    <2> QED
      BY <2>2, <2>3
  <1> QED
    BY <1>1, <1>2, <1>3 DEF RowsPart, EchoFollowsRoot

(* Recovery fails what was running. An Echo it finalizes had its root      *)
(* running, and takes "failed" from it.                                    *)
LEMMA RecoverRows == ASSUME RowsPart, Recover PROVE RowsPart'
  <1>1. /\ RecoveryCommits
        /\ runStatus' = Reconciled
        /\ lease' = [r \in Runs |-> IF r \in Abandoned THEN NoWorker ELSE lease[r]]
        /\ echoStatus' = [e \in Echoes |-> IF e \in EchoesToFinalize
                                           THEN FinalStatus(e, Reconciled)
                                           ELSE echoStatus[e]]
        /\ UNCHANGED <<runEcho, runParent, originCall, runAttempt, audited,
                       announced>>
    BY DEF Recover
  <1>2. \A r \in Runs : Reconciled[r] = IF runStatus[r] = "running" THEN "failed"
                                        ELSE runStatus[r]
    BY DEF Reconciled, Abandoned
  <1>3. RowTypes'
    BY <1>1 DEF RowsPart, RowTypes, Reconciled, FinalStatus, EchoTerminal,
                RunTerminal
  <1>4. RowsInv' /\ AttemptsInv'
    <2>1. \A r \in Runs :
            /\ runStatus[r] = "none" <=> runStatus'[r] = "none"
            /\ runStatus[r] = "failed" => runStatus'[r] = "failed"
            /\ runStatus'[r] = "queued" => runStatus[r] = "queued"
            /\ (runStatus'[r] = "running") = (lease'[r] # NoWorker)
      BY <1>1, <1>2 DEF RowsPart, RowsInv, RowInv, Abandoned
    <2>2. \A e \in Echoes : echoStatus[e] # "none" => echoStatus'[e] # "none"
      BY <1>1 DEF FinalStatus
    <2> QED
      BY <1>1, <2>1, <2>2, StatusStep
  <1>5. ASSUME NEW e \in Echoes PROVE FollowsRoot(e)'
    <2>1. FollowsRoot(e)
      BY DEF RowsPart, EchoFollowsRoot
    <2>2. CASE \E r \in RootRuns(e) : runStatus[r] = "running"
      <3>1. PICK r \in RootRuns(e) : runStatus[r] = "running"
        BY <2>2
      <3>2. /\ r \in LastAttempts(e)
            /\ \A q \in RootRuns(e) : q # r => runStatus[q] = "failed"
        BY <3>1, ActiveIsLast DEF RunActive
      <3>3. \A q \in RootRuns(e) : Reconciled[q] = "failed"
        BY <1>2, <3>1, <3>2 DEF RootRuns, RunsOf
      <3>4. e \in EchoesToFinalize
        BY <3>1, <3>3
           DEF EchoesToFinalize, Abandoned, PrimaryActive, RootRuns, RunsOf,
               RunActive
      <3>5. FinalStatus(e, Reconciled) = "failed"
        BY <3>3 DEF FinalStatus, LastAttempts
      <3>6. echoStatus'[e] = "failed" /\ runStatus'[r] = "failed"
        BY <1>1, <3>1, <3>3, <3>4, <3>5
      <3>7. \A q \in RootRuns(e) : q # r => runStatus'[q] = runStatus[q]
        BY <1>1, <3>2, <3>3
      <3> QED
        BY <1>1, <3>1, <3>6, <3>7, EchoEnds DEF EchoOutcome, RunActive, RunTerminal
    <2>3. CASE \A r \in RootRuns(e) : runStatus[r] # "running"
      <3>1. \A r \in RootRuns(e) : Reconciled[r] = runStatus[r]
        BY <1>2, <2>3 DEF RootRuns, RunsOf
      <3>2. e \notin EchoesToFinalize
        <4>1. SUFFICES ASSUME e \in EchoesToFinalize PROVE FALSE
          OBVIOUS
        <4>2. echoStatus[e] = "running" /\ ~PrimaryActive(e, Reconciled)
          BY <1>1, <4>1 DEF RecoveryCommits, EchoesToFinalize
        <4> QED
          BY <2>1, <3>1, <4>2 DEF FollowsRoot, PrimaryActive, LastAttempts
      <3>3. echoStatus'[e] = echoStatus[e]
        BY <1>1, <3>2
      <3> QED
        BY <1>1, <2>1, <3>1, <3>3, EchoStays
    <2> QED
      BY <2>2, <2>3
  <1> QED
    BY <1>3, <1>4, <1>5 DEF RowsPart, EchoFollowsRoot

-----------------------------------------------------------------------------
(* The workers, action by action. *)

SchedPart == SchedTypes /\ ServiceTypes /\ WorkersInv /\ JobsInv /\ ModeInv

(* With the rows unchanged, a worker that does not move keeps its          *)
(* invariant.                                                              *)
LEMMA QuietWorker ==
  ASSUME NEW v \in Workers, WorkerInv(v), SchedTypes, UNCHANGED rows,
         pc'[v] = pc[v], listed'[v] = listed[v], job'[v] = job[v],
         retrySafe'[v] = retrySafe[v], verdict'[v] = verdict[v]
  PROVE  WorkerInv(v)'
  <1>1. /\ \A r \in Runs : runStatus[r] # "none" => runStatus'[r] # "none"
        /\ listed[v] \subseteq Runs
        /\ Holds(v) => Holds(v)'
        /\ Effected(job[v])' => Effected(job[v])
        /\ runAttempt'[job[v]] = runAttempt[job[v]]
    BY DEF SchedTypes, rows, Holds, Effected, HasChild
  <1> QED
    BY <1>1, IdleWorker

(* A worker that goes to its terminal write with a permitted verdict.      *)
LEMMA SettleWorker ==
  ASSUME NEW w \in Workers, SchedPart, UNCHANGED rows,
         pc[w] \in Executing,
         NEW d \in Verdicts, d # "none", Settle(w, d),
         d = "retry" => ~Effected(job[w]) /\ runAttempt[job[w]] < MaxRunAttempts,
         UNCHANGED <<listed, job, retrySafe>>
  PROVE  WorkersInv'
  <1>1. ASSUME NEW v \in Workers, v # w PROVE WorkerInv(v)'
    <2>1. pc'[v] = pc[v] /\ verdict'[v] = verdict[v]
      BY <1>1 DEF Settle, SchedPart, SchedTypes
    <2> QED
      BY <2>1, QuietWorker DEF SchedPart, WorkersInv
  <1>2. WorkerInv(w)'
    <2>1. pc'[w] = "settle" /\ verdict'[w] = d
      BY DEF Settle, SchedPart, SchedTypes
    <2>2. WorkerInv(w)
      BY DEF SchedPart, WorkersInv
    <2>3. /\ Holds(w)' = Holds(w)
          /\ Effected(job[w])' = Effected(job[w])
      BY DEF rows, Holds, Effected, HasChild
    <2> QED
      BY <2>1, <2>2, <2>3 DEF WorkerInv, Registered, Executing, rows
  <1> QED
    BY <1>1, <1>2 DEF WorkersInv

(* canRetry: a retry is chosen below MaxRunAttempts and with               *)
(* automaticRetrySafe only.                                                *)
LEMMA FailVerdictSound ==
  ASSUME NEW w \in Workers, NEW retryable \in BOOLEAN, NEW safe \in BOOLEAN
  PROVE  /\ FailVerdict(w, retryable, safe) \in {"retry", "failed"}
         /\ FailVerdict(w, retryable, safe) = "retry" =>
               safe /\ runAttempt[job[w]] < MaxRunAttempts
  BY DEF FailVerdict

(* Before the stream: the next program point, or a verdict that is         *)
(* allowed.                                                                *)
LEMMA PrepareSched ==
  ASSUME SchedPart, NEW w \in Workers,
         Prepare(w) \/ FixContext(w) \/ OpenStream(w)
  PROVE  SchedPart'
  <1>1. /\ pc[w] \in {"prepare", "context", "open"}
        /\ UNCHANGED <<rows, mode, stops, listed, job, stopReq, ctx, leaseFailed,
                       retrySafe, final, seen, canceling, finished, missed>>
    BY DEF Prepare, FixContext, OpenStream, WorkerOnly
  <1>2. WorkerInv(w) /\ ~Effected(job[w])
    BY <1>1 DEF SchedPart, WorkersInv, WorkerInv
  <1>3. CASE \E d \in Verdicts :
               /\ d # "none" /\ Settle(w, d)
               /\ d = "retry" => runAttempt[job[w]] < MaxRunAttempts
    <2>1. PICK d \in Verdicts :
               /\ d # "none" /\ Settle(w, d)
               /\ d = "retry" => runAttempt[job[w]] < MaxRunAttempts
      BY <1>3
    <2>2. WorkersInv'
      BY <1>1, <1>2, <2>1, SettleWorker DEF Executing
    <2>3. SchedTypes'
      BY <1>1, <2>1
         DEF SchedPart, SchedTypes, Settle, PCs, Registered
    <2> QED
      BY <1>1, <2>1, <2>2, <2>3
         DEF SchedPart, ServiceTypes, JobsInv, ModeInv, Settle, SchedTypes
  <1>4. CASE /\ pc' \in {[pc EXCEPT ![w] = p] : p \in {"context", "open", "stream"}}
             /\ UNCHANGED verdict
    <2>1. PICK p \in {"context", "open", "stream"} : pc' = [pc EXCEPT ![w] = p]
      BY <1>4
    <2>2. SchedTypes'
      BY <1>1, <1>4, <2>1 DEF SchedPart, SchedTypes, PCs, Registered, Executing
    <2>3. ASSUME NEW v \in Workers PROVE WorkerInv(v)'
      <3>1. CASE v # w
        <4>1. pc'[v] = pc[v]
          BY <2>1, <3>1 DEF SchedPart, SchedTypes
        <4> QED
          BY <1>1, <1>4, <4>1, QuietWorker DEF SchedPart, WorkersInv
      <3>2. CASE v = w
        <4>1. /\ Holds(w)' = Holds(w)
              /\ Effected(job[w])' = Effected(job[w])
          BY <1>1 DEF rows, Holds, Effected, HasChild
        <4>2. pc'[w] = p
          BY <2>1 DEF SchedPart, SchedTypes
        <4> QED
          BY <1>1, <1>2, <2>1, <3>2, <4>1, <4>2
             DEF WorkerInv, Registered, Executing, rows
      <3> QED
        BY <3>1, <3>2
    <2> QED
      BY <1>1, <2>1, <2>2, <2>3
         DEF SchedPart, ServiceTypes, JobsInv, ModeInv, WorkersInv, SchedTypes
  <1>5. ASSUME NEW retryable \in BOOLEAN,
               Settle(w, FailVerdict(w, retryable, TRUE))
        PROVE  \E d \in Verdicts :
                 /\ d # "none" /\ Settle(w, d)
                 /\ d = "retry" => runAttempt[job[w]] < MaxRunAttempts
    BY <1>5, FailVerdictSound DEF Verdicts, RunTerminal
  <1>6. ASSUME Settle(w, EndVerdict(w)) \/ Settle(w, "cancelled")
        PROVE  \E d \in Verdicts :
                 /\ d # "none" /\ Settle(w, d)
                 /\ d = "retry" => runAttempt[job[w]] < MaxRunAttempts
    BY <1>6 DEF EndVerdict, Verdicts, RunTerminal
  <1> QED
    BY <1>3, <1>4, <1>5, <1>6 DEF Prepare, FixContext, OpenStream

(* The stream ends: the verdict is allowed by what the worker knows of its *)
(* effects.                                                                *)
LEMMA StreamEndsSched ==
  ASSUME SchedPart, NEW w \in Workers,
         StreamFailed(w) \/ StreamBroken(w) \/ StreamEnded(w)
  PROVE  SchedPart'
  <1>1. /\ pc[w] = "stream"
        /\ UNCHANGED <<rows, mode, stops, listed, job, stopReq, ctx, leaseFailed,
                       retrySafe, final, seen, canceling, finished, missed>>
    BY DEF StreamFailed, StreamBroken, StreamEnded, WorkerOnly
  <1>2. retrySafe[w] \in BOOLEAN /\ (retrySafe[w] => ~Effected(job[w]))
    BY <1>1 DEF SchedPart, WorkersInv, WorkerInv, SchedTypes
  <1>3. \/ \E retryable \in BOOLEAN :
              Settle(w, FailVerdict(w, retryable, retrySafe[w]))
        \/ Settle(w, EndVerdict(w))
    BY DEF StreamFailed, StreamBroken, StreamEnded
  <1>4. PICK d \in Verdicts :
          /\ d # "none" /\ Settle(w, d)
          /\ d = "retry" => ~Effected(job[w]) /\ runAttempt[job[w]] < MaxRunAttempts
    BY <1>2, <1>3, FailVerdictSound DEF EndVerdict, Verdicts, RunTerminal
  <1>5. WorkersInv'
    BY <1>1, <1>4, SettleWorker DEF Executing
  <1>6. SchedTypes'
    BY <1>1, <1>4 DEF SchedPart, SchedTypes, Settle, PCs, Registered
  <1> QED
    BY <1>1, <1>4, <1>5, <1>6
       DEF SchedPart, ServiceTypes, JobsInv, ModeInv, Settle, SchedTypes

(* EOF after FinalResult: run.completed is written, the verdict is         *)
(* success.                                                                *)
LEMMA StreamSucceededSched ==
  ASSUME SchedPart, NEW w \in Workers, StreamSucceeded(w)
  PROVE  SchedPart' /\ announced' \subseteq announced \union {job[w]}
  <1> USE DEF StreamSucceeded
  <1>1. announced' \subseteq announced \union {job[w]}
    OBVIOUS
  <1>2. ASSUME NEW v \in Workers PROVE WorkerInv(v)'
    <2>1. /\ \A r \in Runs : Effected(r)' = Effected(r)
          /\ Holds(v) = Holds(v)' /\ listed[v] \subseteq Runs
      BY DEF Effected, HasChild, Holds, SchedPart, SchedTypes
    <2>2. WorkerInv(v)
      BY DEF SchedPart, WorkersInv
    <2>3. CASE v # w
      <3>1. pc'[v] = pc[v] /\ verdict'[v] = verdict[v]
        BY <2>3 DEF Settle, SchedPart, SchedTypes
      <3> QED
        BY <2>1, <2>2, <3>1, IdleWorker
    <2>4. CASE v = w
      <3>1. pc'[w] = "settle" /\ verdict'[w] = "succeeded"
        BY DEF Settle, SchedPart, SchedTypes
      <3> QED
        BY <2>1, <2>2, <2>4, <3>1 DEF WorkerInv, Registered, Executing
    <2> QED
      BY <2>3, <2>4
  <1>3. SchedTypes'
    BY DEF SchedPart, SchedTypes, Settle, PCs, Registered, Verdicts, RunTerminal
  <1> QED
    BY <1>1, <1>2, <1>3
       DEF SchedPart, ServiceTypes, JobsInv, ModeInv, WorkersInv, Settle, SchedTypes

(* A deadline, a failed renewal or a shutdown marks contexts and moves no  *)
(* worker.                                                                 *)
LEMMA SignalSched ==
  ASSUME SchedPart,
         \/ \E w \in Workers : TerminalFrame(w) \/ DeadlinePasses(w) \/ RenewFails(w)
         \/ \E e \in Echoes : CancelActive(e)
         \/ BeginShutdown
  PROVE  SchedPart' /\ UNCHANGED rows
  <1>1. UNCHANGED <<rows, stops, pc, listed, job, retrySafe, verdict, seen>>
    BY DEF TerminalFrame, DeadlinePasses, RenewFails, CancelActive,
           BeginShutdown
  <1>2. WorkersInv' /\ JobsInv'
    BY <1>1, QuietWorker DEF SchedPart, WorkersInv, JobsInv
  <1>3. SchedTypes'
    <2>1. /\ stopReq' \in [Workers -> BOOLEAN]
          /\ leaseFailed' \in [Workers -> BOOLEAN]
      BY DEF TerminalFrame, DeadlinePasses, RenewFails, CancelActive,
             BeginShutdown, CancelJobs, SchedPart, SchedTypes
    <2>2. ctx' \in [Workers -> {"live", "cancelled", "expired"}]
      BY DEF TerminalFrame, DeadlinePasses, RenewFails, CancelActive,
             BeginShutdown, CancelJobs, SchedPart, SchedTypes
    <2>3. final' \in [Workers -> {"none", "result", "retryable", "fatal"}]
      BY DEF TerminalFrame, DeadlinePasses, RenewFails, CancelActive,
             BeginShutdown, SchedPart, SchedTypes
    <2> QED
      BY <1>1, <2>1, <2>2, <2>3 DEF SchedPart, SchedTypes
  <1>4. ServiceTypes' /\ ModeInv'
    BY <1>1 DEF TerminalFrame, DeadlinePasses, RenewFails, CancelActive,
                BeginShutdown, FinishIfTerminal, FinishEnded, SchedPart, ServiceTypes, ModeInv
  <1> QED
    BY <1>1, <1>2, <1>3, <1>4 DEF SchedPart

(* Row transactions of other actors: no worker moves, no row of a job that *)
(* runs is touched.                                                        *)
LEMMA ClientSched ==
  ASSUME RowsPart, SchedPart, NEW e \in Echoes,
         CreateEcho(e) \/ CancelQueuedRun(e)
  PROVE  SchedPart'
  <1>1. UNCHANGED <<mode, stops, sched, lease, audited, finished, missed>>
    BY DEF CreateEcho, CancelQueuedRun, rows
  <1>2. \A r \in Runs :
          /\ runStatus[r] # "none" => /\ runStatus'[r] # "none"
                                      /\ runAttempt'[r] = runAttempt[r]
          /\ runStatus[r] = "running" => runStatus'[r] = "running"
          /\ Effected(r)' => Effected(r)
    <2>1. CASE CreateEcho(e)
      <3>1. PICK n \in Fresh :
              /\ runStatus' = [runStatus EXCEPT ![n] = "queued"]
              /\ InsertRun(n, e, NoRun, {}, 1)
        BY <2>1 DEF CreateEcho
      <3>2. \A r \in Runs : r # n => /\ runStatus'[r] = runStatus[r]
                                      /\ runAttempt'[r] = runAttempt[r]
                                      /\ runParent'[r] = runParent[r]
        BY <3>1 DEF InsertRun, RowsPart, RowTypes
      <3>3. runStatus[n] = "none" /\ runParent'[n] = NoRun /\ runStatus'[n] = "queued"
        BY <3>1 DEF Fresh, InsertRun, RowsPart, RowTypes
      <3> QED
        BY <1>1, <3>2, <3>3, ConstantsAssumption DEF Effected, HasChild
    <2>2. CASE CancelQueuedRun(e)
      BY <1>1, <2>2 DEF CancelQueuedRun, QueuedOf, Effected, HasChild, rows
    <2> QED
      BY <2>1, <2>2
  <1>3. ASSUME NEW v \in Workers PROVE WorkerInv(v)'
    <2>1. WorkerInv(v) /\ listed[v] \subseteq Runs
      BY DEF SchedPart, WorkersInv, SchedTypes
    <2>2. job[v] \in Runs => runStatus[job[v]] # "none"
      BY <2>1, ConstantsAssumption DEF WorkerInv
    <2>3. Holds(v) /\ job[v] \in Runs => Holds(v)'
      BY <1>1, <1>2 DEF Holds, sched
    <2> QED
      BY <1>1, <1>2, <2>1, <2>2, <2>3, IdleWorker DEF sched
  <1>4. canceling' \in [Echoes -> {"no", "nothing queued", "dequeued"}]
    BY DEF CreateEcho, CancelQueuedRun, SchedPart, ServiceTypes
  <1> QED
    BY <1>1, <1>3, <1>4, SameSchedTypes
       DEF SchedPart, ServiceTypes, JobsInv, ModeInv, WorkersInv, sched

(* A worker step that moves only w, and touches at most the row of w's job *)
(* and fresh rows, leaves the other workers' invariants alone.             *)
LEMMA OtherWorkers ==
  ASSUME SchedPart, NEW w \in Workers, NEW v \in Workers, v # w,
         pc'[v] = pc[v], listed'[v] = listed[v], job'[v] = job[v],
         retrySafe'[v] = retrySafe[v], verdict'[v] = verdict[v],
         \A r \in Runs :
            /\ runStatus[r] # "none" => runStatus'[r] # "none"
            /\ (runStatus[r] # "none" /\ r # job[w]) =>
                  /\ runStatus[r] = "running" => /\ runStatus'[r] = "running"
                                                 /\ lease'[r] = lease[r]
                  /\ runAttempt'[r] = runAttempt[r]
                  /\ Effected(r)' => Effected(r)
  PROVE  WorkerInv(v)'
  <1>1. WorkerInv(v) /\ listed[v] \subseteq Runs
    BY DEF SchedPart, WorkersInv, SchedTypes
  <1>2. job[v] \in Runs => runStatus[job[v]] # "none" /\ job[v] # job[w]
    BY <1>1, ConstantsAssumption DEF WorkerInv, SchedPart, JobsInv
  <1>3. job[v] \in Runs => (Holds(v) => Holds(v)')
    BY <1>2 DEF Holds
  <1> QED
    BY <1>1, <1>2, <1>3, IdleWorker

(* Runnable: the batch holds inserted rows only, and no running row        *)
(* changes.                                                                *)
LEMMA ListRunnableSched ==
  ASSUME RowsPart, SchedPart, NEW w \in Workers, ListRunnable(w)
  PROVE  SchedPart'
  <1> DEFINE queued == {r \in Runs : runStatus[r] = "queued"}
             orphans == {r \in queued : echoStatus[runEcho[r]] # "running"}
  <1>1. /\ pc[w] = "idle" /\ mode = "up"
        /\ runStatus' = [r \in Runs |-> IF r \in orphans THEN "failed"
                                        ELSE runStatus[r]]
        /\ listed' = [listed EXCEPT ![w] = queued \ orphans]
        /\ pc' = [pc EXCEPT ![w] = IF queued = orphans THEN "idle" ELSE "listed"]
        /\ UNCHANGED <<echoStatus, runEcho, runParent, originCall, runAttempt,
                       lease, audited, announced, mode, stops, job,
                       stopReq, ctx, leaseFailed, retrySafe, final, seen,
                       verdict, canceling, finished, missed>>
    BY DEF ListRunnable
  <1>2. SchedTypes'
    BY <1>1 DEF SchedPart, SchedTypes, PCs
  <1>3. \A r \in Runs :
          /\ runStatus[r] # "none" => runStatus'[r] # "none"
          /\ runStatus[r] = "running" => runStatus'[r] = "running"
          /\ Effected(r)' => Effected(r)
    BY <1>1 DEF Effected, HasChild
  <1>4. ASSUME NEW v \in Workers PROVE WorkerInv(v)'
    <2>1. CASE v # w
      <3>1. pc'[v] = pc[v] /\ listed'[v] = listed[v]
        BY <1>1, <2>1 DEF SchedPart, SchedTypes
      <3> QED
        BY <1>1, <1>3, <2>1, <3>1, OtherWorkers
    <2>2. CASE v = w
      <3>1. pc'[w] \in {"idle", "listed"} /\ listed'[w] = queued \ orphans
        BY <1>1 DEF SchedPart, SchedTypes
      <3>2. \A r \in queued \ orphans : runStatus'[r] # "none"
        BY <1>1
      <3>3. WorkerInv(w)
        BY DEF SchedPart, WorkersInv
      <3> QED
        BY <1>1, <2>2, <3>1, <3>2, <3>3 DEF WorkerInv, Registered, Executing
    <2> QED
      BY <2>1, <2>2
  <1> QED
    BY <1>1, <1>2, <1>4
       DEF SchedPart, ServiceTypes, JobsInv, ModeInv, WorkersInv

(* runNext under activeMu: the Run picked is registered by nobody else.    *)
LEMMA PickRunSched ==
  ASSUME SchedPart, NEW w \in Workers, PickRun(w) PROVE SchedPart'
  <1>1. /\ pc[w] = "listed"
        /\ listed' = [listed EXCEPT ![w] = {}]
        /\ UNCHANGED <<rows, mode, stops, stopReq, ctx, leaseFailed, retrySafe,
                       final, seen, verdict, canceling, finished, missed>>
    BY DEF PickRun
  <1>2. WorkerInv(w) /\ job[w] = NoRun /\ listed[w] \subseteq Runs
    BY <1>1 DEF SchedPart, WorkersInv, WorkerInv, SchedTypes, Registered,
                Executing
  <1>3. ASSUME NEW v \in Workers, v # w, pc'[v] = pc[v], job'[v] = job[v]
        PROVE  WorkerInv(v)'
    <2>1. listed'[v] = listed[v]
      BY <1>1, <1>3 DEF SchedPart, SchedTypes
    <2> QED
      BY <1>1, <1>3, <2>1, QuietWorker DEF SchedPart, WorkersInv
  <1>4. CASE \E r \in listed[w] : /\ \A v \in Workers : job[v] # r
                                  /\ mode = "up"
                                  /\ job' = [job EXCEPT ![w] = r]
                                  /\ pc' = [pc EXCEPT ![w] = "claim"]
    <2>1. PICK r \in Runs : /\ r \in listed[w] /\ \A v \in Workers : job[v] # r
                            /\ mode = "up"
                            /\ job' = [job EXCEPT ![w] = r]
                            /\ pc' = [pc EXCEPT ![w] = "claim"]
      BY <1>2, <1>4
    <2>2. SchedTypes'
      BY <1>1, <2>1 DEF SchedPart, SchedTypes, PCs, Registered
    <2>3. \A v \in Workers : /\ v # w => pc'[v] = pc[v] /\ job'[v] = job[v]
                             /\ v = w => pc'[v] = "claim" /\ job'[v] = r
      BY <2>1 DEF SchedPart, SchedTypes
    <2>4. WorkerInv(w)'
      BY <1>1, <1>2, <2>1, <2>3
         DEF WorkerInv, Registered, Executing, rows, SchedPart, SchedTypes
    <2>5. WorkersInv'
      BY <1>3, <2>3, <2>4 DEF WorkersInv
    <2>6. JobsInv'
      BY <2>1, <2>3 DEF SchedPart, JobsInv
    <2> QED
      BY <1>1, <2>1, <2>2, <2>3, <2>5, <2>6
         DEF SchedPart, ServiceTypes, ModeInv
  <1>5. CASE pc' = [pc EXCEPT ![w] = "idle"] /\ UNCHANGED job
    <2>1. SchedTypes'
      BY <1>1, <1>5 DEF SchedPart, SchedTypes, PCs
    <2>2. \A v \in Workers : /\ v # w => pc'[v] = pc[v]
                             /\ v = w => pc'[v] = "idle" /\ listed'[v] = {}
      BY <1>1, <1>5 DEF SchedPart, SchedTypes
    <2>3. WorkerInv(w)'
      BY <1>1, <1>2, <1>5, <2>2 DEF WorkerInv, Registered, Executing
    <2>4. WorkersInv'
      BY <1>3, <1>5, <2>2, <2>3 DEF WorkersInv
    <2> QED
      BY <1>1, <1>5, <2>1, <2>2, <2>4
         DEF SchedPart, ServiceTypes, ModeInv, JobsInv
  <1> QED
    BY <1>4, <1>5 DEF PickRun, Unregistered

(* A queued Run has had no effect, so the worker that claims it starts     *)
(* from retrySafe = TRUE with none to account for.                         *)
LEMMA ClaimRunSched ==
  ASSUME RowsPart, SchedPart, NEW w \in Workers, ClaimRun(w) PROVE SchedPart'
  <1>1. /\ pc[w] = "claim"
        /\ UNCHANGED <<echoStatus, runEcho, runParent, originCall, runAttempt,
                       audited, announced, mode, stops, listed, job, stopReq,
                       ctx, leaseFailed, retrySafe, final, seen, verdict,
                       canceling, finished, missed>>
    BY DEF ClaimRun
  <1>2. /\ WorkerInv(w) /\ job[w] \in Runs
        /\ runStatus[job[w]] # "none"
    BY <1>1 DEF SchedPart, WorkersInv, WorkerInv, Registered
  <1>3. \A r \in Runs : Effected(r)' = Effected(r)
    BY <1>1 DEF Effected, HasChild
  <1>4. \/ /\ runStatus[job[w]] = "queued"
           /\ runStatus' = [runStatus EXCEPT ![job[w]] = "running"]
           /\ lease' = [lease EXCEPT ![job[w]] = w]
           /\ pc' = [pc EXCEPT ![w] = "prepare"]
        \/ /\ pc' = [pc EXCEPT ![w] = "release"]
           /\ UNCHANGED <<runStatus, lease>>
    BY DEF ClaimRun
  <1>5. SchedTypes'
    BY <1>1, <1>4 DEF SchedPart, SchedTypes, PCs, Registered, Executing
  <1>6. \A r \in Runs :
          /\ runStatus[r] # "none" => runStatus'[r] # "none"
          /\ r # job[w] => runStatus'[r] = runStatus[r] /\ lease'[r] = lease[r]
    BY <1>2, <1>4 DEF RowsPart, RowTypes
  <1>7. ASSUME NEW v \in Workers PROVE WorkerInv(v)'
    <2>1. CASE v # w
      <3>1. pc'[v] = pc[v]
        BY <1>4, <2>1 DEF SchedPart, SchedTypes
      <3> QED
        BY <1>1, <1>3, <1>6, <2>1, <3>1, OtherWorkers
    <2>2. CASE v = w
      <3>1. listed[w] \subseteq Runs
        BY DEF SchedPart, SchedTypes
      <3>2. CASE pc' = [pc EXCEPT ![w] = "release"] /\ UNCHANGED <<runStatus, lease>>
        <4>1. pc'[w] = "release"
          BY <3>2 DEF SchedPart, SchedTypes
        <4> QED
          BY <1>1, <1>2, <2>2, <3>2, <4>1 DEF WorkerInv, Registered, Executing
      <3>3. CASE /\ runStatus[job[w]] = "queued"
                 /\ runStatus' = [runStatus EXCEPT ![job[w]] = "running"]
                 /\ lease' = [lease EXCEPT ![job[w]] = w]
                 /\ pc' = [pc EXCEPT ![w] = "prepare"]
        <4>1. pc'[w] = "prepare" /\ Holds(w)'
          BY <1>1, <1>2, <3>3 DEF SchedPart, SchedTypes, RowsPart, RowTypes, Holds
        <4>2. ~Effected(job[w])'
          BY <1>1, <1>2, <1>3, <3>3 DEF RowsPart, RowsInv, RowInv
        <4> QED
          BY <1>1, <1>2, <1>6, <2>2, <3>1, <4>1, <4>2
             DEF WorkerInv, Registered, Executing
      <3> QED
        BY <1>4, <3>2, <3>3
    <2> QED
      BY <2>1, <2>2
  <1> QED
    BY <1>1, <1>4, <1>5, <1>7
       DEF SchedPart, ServiceTypes, ModeInv, JobsInv, WorkersInv, SchedTypes

(* A call that may have an effect drops retrySafe in the same step.        *)
LEMMA CapabilityCallSched ==
  ASSUME RowsPart, SchedPart, NEW w \in Workers, CapabilityCall(w)
  PROVE  SchedPart'
  <1>1. /\ pc[w] = "stream" /\ Holds(w)
        /\ UNCHANGED <<echoStatus, lease, announced, mode, stops, pc, listed, job,
                       stopReq, ctx, leaseFailed, final, verdict, canceling,
                       finished, missed>>
    BY DEF CapabilityCall, rows
  <1>2. WorkerInv(w) /\ job[w] \in Runs
    BY <1>1 DEF SchedPart, WorkersInv, WorkerInv, Registered, Executing
  <1>3. PICK c \in Calls, kind \in CallKinds :
          /\ seen' = [seen EXCEPT ![w] = @ \union {c}]
          /\ retrySafe' = [retrySafe EXCEPT ![w] = @ /\ kind = "safe"]
          /\ \/ UNCHANGED rows
             \/ /\ kind # "safe"
                /\ audited' = audited \union {job[w]}
                /\ \/ UNCHANGED <<runStatus, runEcho, runParent, runAttempt>>
                   \/ CreateChildRun(w, c)
    BY DEF CapabilityCall, ReplaySafe
  <1>4. SchedTypes'
    <2>1. seen' \in [Workers -> SUBSET Calls]
      BY <1>3 DEF SchedPart, SchedTypes
    <2>2. retrySafe' \in [Workers -> BOOLEAN]
      BY <1>3 DEF SchedPart, SchedTypes
    <2> QED
      BY <1>1, <2>1, <2>2 DEF SchedPart, SchedTypes
  <1>5. \A r \in Runs :
          /\ runStatus[r] # "none" => /\ runStatus'[r] = runStatus[r]
                                      /\ runAttempt'[r] = runAttempt[r]
          /\ r # job[w] => (Effected(r)' => Effected(r))
          /\ kind = "safe" => (Effected(r)' => Effected(r))
    <2>1. CASE UNCHANGED rows
      BY <2>1 DEF Effected, HasChild, rows
    <2>2. CASE /\ kind # "safe" /\ audited' = audited \union {job[w]}
               /\ UNCHANGED <<runStatus, runEcho, runParent, runAttempt>>
      BY <2>2 DEF Effected, HasChild
    <2>3. CASE /\ kind # "safe" /\ audited' = audited \union {job[w]}
               /\ CreateChildRun(w, c)
      <3>1. PICK n \in Fresh :
              /\ runStatus' = [runStatus EXCEPT ![n] = "queued"]
              /\ InsertRun(n, runEcho[job[w]], job[w], {c}, 1)
        BY <2>3 DEF CreateChildRun
      <3>2. \A r \in Runs :
              /\ r # n => /\ runStatus'[r] = runStatus[r]
                          /\ runAttempt'[r] = runAttempt[r]
                          /\ runParent'[r] = runParent[r]
              /\ r = n => runStatus[r] = "none" /\ runParent'[r] = job[w]
        BY <3>1 DEF Fresh, InsertRun, RowsPart, RowTypes
      <3> QED
        BY <2>3, <3>2 DEF Effected, HasChild
    <2> QED
      BY <1>3, <2>1, <2>2, <2>3
  <1>6. ASSUME NEW v \in Workers PROVE WorkerInv(v)'
    <2>1. CASE v # w
      <3>1. retrySafe'[v] = retrySafe[v]
        BY <1>3, <2>1 DEF SchedPart, SchedTypes
      <3> QED
        BY <1>1, <1>5, <2>1, <3>1, OtherWorkers
    <2>2. CASE v = w
      <3>1. retrySafe'[w] => retrySafe[w] /\ kind = "safe"
        BY <1>3 DEF SchedPart, SchedTypes
      <3>2. retrySafe'[w] => ~Effected(job[w])'
        BY <1>1, <1>2, <1>5, <3>1 DEF WorkerInv
      <3>3. Holds(w)'
        BY <1>1, <1>2, <1>5 DEF Holds
      <3>4. \A r \in listed[w] : runStatus'[r] # "none"
        BY <1>2, <1>5 DEF WorkerInv, SchedPart, SchedTypes
      <3> QED
        BY <1>1, <1>2, <1>5, <2>2, <3>2, <3>3, <3>4
           DEF WorkerInv, Registered, Executing
    <2> QED
      BY <2>1, <2>2
  <1> QED
    BY <1>1, <1>4, <1>6 DEF SchedPart, ServiceTypes, ModeInv, JobsInv, WorkersInv

(* The terminal write of w touches no row another worker holds.            *)
LEMMA CompleteRunSched ==
  ASSUME RowsPart, SchedPart, NEW w \in Workers, CompleteRun(w)
  PROVE  SchedPart'
  <1>1. /\ pc[w] = "settle"
        /\ pc' = [pc EXCEPT ![w] = "release"]
        /\ UNCHANGED <<runEcho, runParent, runAttempt, audited, mode, stops,
                       listed, job, stopReq, ctx, leaseFailed, retrySafe, final,
                       seen, verdict, canceling, finished, missed>>
    BY DEF CompleteRun
  <1>2. WorkerInv(w) /\ job[w] \in Runs /\ verdict[w] # "none"
    BY <1>1 DEF SchedPart, WorkersInv, WorkerInv, Registered
  <1>3. \A r \in Runs :
          /\ r # job[w] => runStatus'[r] = runStatus[r] /\ lease'[r] = lease[r]
          /\ runStatus[r] # "none" => runStatus'[r] # "none"
          /\ Effected(r)' = Effected(r)
    BY <1>1, <1>2 DEF CompleteRun, RowsPart, RowTypes, Effected, HasChild
  <1>4. SchedTypes'
    BY <1>1 DEF SchedPart, SchedTypes, PCs, Registered
  <1>5. ASSUME NEW v \in Workers PROVE WorkerInv(v)'
    <2>1. CASE v # w
      <3>1. pc'[v] = pc[v]
        BY <1>1, <2>1 DEF SchedPart, SchedTypes
      <3> QED
        BY <1>1, <1>3, <2>1, <3>1, OtherWorkers
    <2>2. CASE v = w
      <3>1. pc'[w] = "release" /\ listed[w] \subseteq Runs
        BY <1>1 DEF SchedPart, SchedTypes
      <3> QED
        BY <1>1, <1>2, <1>3, <2>2, <3>1 DEF WorkerInv, Registered, Executing
    <2> QED
      BY <2>1, <2>2
  <1> QED
    BY <1>1, <1>4, <1>5
       DEF SchedPart, ServiceTypes, ModeInv, JobsInv, WorkersInv, SchedTypes

(* The retry of w touches its own row and a fresh one.                     *)
LEMMA RetryRunSched ==
  ASSUME RowsPart, SchedPart, NEW w \in Workers, RetryRun(w) PROVE SchedPart'
  <1>1. /\ pc[w] = "settle" /\ verdict[w] = "retry"
        /\ UNCHANGED <<echoStatus, audited, mode, stops, listed, job, stopReq,
                       ctx, leaseFailed, retrySafe, final, seen, canceling,
                       finished, missed>>
    BY DEF RetryRun
  <1>2. /\ WorkerInv(w) /\ job[w] \in Runs
        /\ ~Effected(job[w]) /\ runStatus[job[w]] = "running"
    BY <1>1 DEF SchedPart, WorkersInv, WorkerInv, Registered, Holds
  <1>3. \/ /\ \E n \in Fresh :
                /\ runStatus' = [runStatus EXCEPT ![job[w]] = "failed",
                                                  ![n] = "queued"]
                /\ InsertRun(n, runEcho[job[w]], runParent[job[w]],
                             originCall[job[w]], runAttempt[job[w]] + 1)
           /\ OriginFree(runParent[job[w]], originCall[job[w]])
           /\ lease' = [lease EXCEPT ![job[w]] = NoWorker]
           /\ pc' = [pc EXCEPT ![w] = "release"]
           /\ UNCHANGED verdict
        \/ /\ verdict' = [verdict EXCEPT ![w] = "failed"]
           /\ UNCHANGED <<runStatus, runEcho, runParent, originCall, runAttempt,
                          lease, pc>>
    BY DEF RetryRun
  <1>4. SchedTypes'
    BY <1>1, <1>3 DEF SchedPart, SchedTypes, PCs, Registered, Verdicts, RunTerminal
  <1>5. \A r \in Runs :
          /\ runStatus[r] # "none" => /\ runStatus'[r] # "none"
                                      /\ runAttempt'[r] = runAttempt[r]
          /\ runStatus[r] # "none" /\ r # job[w] => /\ runStatus'[r] = runStatus[r]
                                                   /\ lease'[r] = lease[r]
          /\ Effected(r)' => Effected(r)
    <2>1. CASE UNCHANGED <<runStatus, runEcho, runParent, originCall, runAttempt, lease>>
      BY <1>1, <2>1 DEF Effected, HasChild
    <2>2. CASE /\ \E n \in Fresh :
                    /\ runStatus' = [runStatus EXCEPT ![job[w]] = "failed",
                                                      ![n] = "queued"]
                    /\ InsertRun(n, runEcho[job[w]], runParent[job[w]],
                                 originCall[job[w]], runAttempt[job[w]] + 1)
               /\ OriginFree(runParent[job[w]], originCall[job[w]])
               /\ lease' = [lease EXCEPT ![job[w]] = NoWorker]
      <3>1. PICK n \in Runs :
              /\ runStatus[n] = "none"
              /\ runStatus' = [runStatus EXCEPT ![job[w]] = "failed",
                                                ![n] = "queued"]
              /\ InsertRun(n, runEcho[job[w]], runParent[job[w]],
                           originCall[job[w]], runAttempt[job[w]] + 1)
        BY <2>2 DEF Fresh
      <3>2. runParent[job[w]] = NoRun
        BY <1>2, <2>2 DEF OriginFree
      <3>3. \A r \in Runs : r # n =>
              /\ runStatus'[r] = IF r = job[w] THEN "failed" ELSE runStatus[r]
              /\ runAttempt'[r] = runAttempt[r]
              /\ runParent'[r] = runParent[r]
        BY <1>2, <3>1 DEF InsertRun, RowsPart, RowTypes
      <3>4. runParent'[n] = NoRun
        BY <3>1, <3>2 DEF InsertRun, RowsPart, RowTypes
      <3>5. \A r \in Runs : Effected(r)' => Effected(r)
        BY <1>1, <3>3, <3>4, ConstantsAssumption DEF Effected, HasChild
      <3>6. \A r \in Runs : r # job[w] => lease'[r] = lease[r]
        BY <2>2 DEF RowsPart, RowTypes
      <3>7. runStatus[n] = "none"
        BY <3>1
      <3>8. \A r \in Runs : runStatus[r] # "none" =>
              /\ runStatus'[r] = IF r = job[w] THEN "failed" ELSE runStatus[r]
              /\ runAttempt'[r] = runAttempt[r]
        BY <3>3, <3>7
      <3> QED
        BY <3>5, <3>6, <3>8
    <2> QED
      BY <1>3, <2>1, <2>2
  <1>6. ASSUME NEW v \in Workers PROVE WorkerInv(v)'
    <2>1. CASE v # w
      <3>1. pc'[v] = pc[v] /\ verdict'[v] = verdict[v]
        BY <1>3, <2>1 DEF SchedPart, SchedTypes
      <3> QED
        BY <1>1, <1>5, <2>1, <3>1, OtherWorkers
    <2>2. CASE v = w
      <3>1. listed[w] \subseteq Runs
        BY DEF SchedPart, SchedTypes
      <3>2. CASE pc' = [pc EXCEPT ![w] = "release"] /\ UNCHANGED verdict
        <4>1. pc'[w] = "release"
          BY <3>2 DEF SchedPart, SchedTypes
        <4> QED
          BY <1>1, <1>2, <1>5, <2>2, <3>1, <3>2, <4>1
             DEF WorkerInv, Registered, Executing
      <3>3. CASE /\ verdict' = [verdict EXCEPT ![w] = "failed"]
                 /\ UNCHANGED <<runStatus, runEcho, runParent, originCall,
                                runAttempt, lease, pc>>
        <4>1. verdict'[w] = "failed" /\ Holds(w)'
          BY <1>1, <1>2, <3>3 DEF SchedPart, SchedTypes, Holds, WorkerInv
        <4> QED
          BY <1>1, <1>2, <1>5, <2>2, <3>1, <3>3, <4>1
             DEF WorkerInv, Registered, Executing
      <3> QED
        BY <1>3, <3>2, <3>3
    <2> QED
      BY <2>1, <2>2
  <1>7. ServiceTypes' /\ JobsInv'
    BY <1>1 DEF SchedPart, ServiceTypes, JobsInv
  <1>8. ModeInv'
    BY <1>1 DEF SchedPart, ModeInv
  <1> QED
    BY <1>4, <1>6, <1>7, <1>8 DEF SchedPart, WorkersInv

(* The end of runNext leaves the worker without a job and with a blank     *)
(* memory.                                                                 *)
LEMMA ReleaseJobSched ==
  ASSUME RowsPart, SchedPart, NEW w \in Workers, ReleaseJob(w)
  PROVE  SchedPart'
  <1>1. /\ pc[w] = "release"
        /\ pc' = [pc EXCEPT ![w] = "idle"]
        /\ job' = [job EXCEPT ![w] = NoRun]
        /\ retrySafe' = [retrySafe EXCEPT ![w] = TRUE]
        /\ verdict' = [verdict EXCEPT ![w] = "none"]
        /\ UNCHANGED <<rows, mode, stops, listed, canceling>>
    BY DEF ReleaseJob
  <1>2. WorkerInv(w) /\ job[w] \in Runs /\ runEcho[job[w]] \in Echoes
    BY <1>1 DEF SchedPart, WorkersInv, WorkerInv, Registered, RowsPart,
                RowsInv, RowInv
  <1>3. SchedTypes'
    <2>1. /\ pc' \in [Workers -> PCs] /\ job' \in [Workers -> Runs \union {NoRun}]
          /\ verdict' \in [Workers -> Verdicts]
          /\ retrySafe' \in [Workers -> BOOLEAN]
      BY <1>1 DEF SchedPart, SchedTypes, PCs, Verdicts
    <2> QED
      BY <1>1, <2>1 DEF ReleaseJob, SchedPart, SchedTypes
  <1>4. \A v \in Workers :
          /\ v # w => /\ pc'[v] = pc[v] /\ job'[v] = job[v]
                      /\ retrySafe'[v] = retrySafe[v] /\ verdict'[v] = verdict[v]
          /\ v = w => pc'[v] = "idle" /\ job'[v] = NoRun /\ retrySafe'[v]
    BY <1>1 DEF SchedPart, SchedTypes
  <1>5. ASSUME NEW v \in Workers PROVE WorkerInv(v)'
    <2>1. CASE v # w
      BY <1>1, <1>4, <2>1, QuietWorker DEF SchedPart, WorkersInv
    <2>2. CASE v = w
      BY <1>1, <1>2, <1>4, <2>2 DEF WorkerInv, Registered, Executing, rows
    <2> QED
      BY <2>1, <2>2
  <1>6. JobsInv'
    BY <1>4 DEF SchedPart, JobsInv
  <1>7. ServiceTypes' /\ ModeInv'
    BY <1>1, <1>2, <1>4
       DEF ReleaseJob, FinishIfTerminal, FinishEnded, SchedPart, ServiceTypes, ModeInv
  <1> QED
    BY <1>3, <1>5, <1>6, <1>7 DEF SchedPart, WorkersInv

(* The memory is blank after the process has ended, and at startup.        *)
LEMMA ProcessSched ==
  ASSUME RowsPart, SchedPart, FinishShutdown \/ Crash \/ Recover
  PROVE  SchedPart'
  <1>1. CASE FinishShutdown \/ Crash
    <2>1. ProcessEnds /\ stops \in 0..MaxStops /\ stops < MaxStops
      BY <1>1 DEF FinishShutdown, Crash, SchedPart, ModeInv, ServiceTypes
    <2>2. SchedTypes'
      BY <2>1 DEF ProcessEnds, SchedTypes, PCs, Verdicts
    <2>3. ServiceTypes'
      <3>1. stops + 1 \in 0..MaxStops
        BY <2>1, ConstantsAssumption
      <3> QED
        BY <2>1, <3>1 DEF ProcessEnds, ServiceTypes, SchedPart
    <2>4. WorkersInv'
      BY <2>1 DEF ProcessEnds, WorkersInv, WorkerInv, Registered, Executing
    <2>5. JobsInv' /\ ModeInv'
      BY <2>1 DEF ProcessEnds, JobsInv, ModeInv
    <2> QED
      BY <2>2, <2>3, <2>4, <2>5 DEF SchedPart
  <1>2. CASE Recover
    <2>1. /\ UNCHANGED <<sched, stops, canceling, runAttempt, missed>>
          /\ mode = "down" /\ mode' = "up" /\ finished' \subseteq Echoes
          /\ \A v \in Workers : pc[v] = "idle"
          /\ runStatus' = Reconciled
      BY <1>2 DEF Recover, SchedPart, ModeInv
    <2>2. \A r \in Runs : runStatus[r] # "none" => runStatus'[r] # "none"
      BY <2>1 DEF Reconciled
    <2>3. ASSUME NEW v \in Workers PROVE WorkerInv(v)'
      <3>1. WorkerInv(v) /\ listed[v] \subseteq Runs
        BY DEF SchedPart, WorkersInv, SchedTypes
      <3> QED
        BY <2>1, <2>2, <3>1 DEF WorkerInv, Registered, Executing, sched
    <2> QED
      BY <2>1, <2>3, SameSchedTypes
         DEF SchedPart, ServiceTypes, JobsInv, ModeInv, WorkersInv, sched
  <1> QED
    BY <1>1, <1>2

-----------------------------------------------------------------------------
(* The inductive invariant *)

(* The inductive invariant is the part about rows and the part about       *)
(* workers.                                                                *)
LEMMA Parts == IInv <=> RowsPart /\ SchedPart
  BY DEF IInv, RowsPart, SchedPart, TypeOK

(* The inductive invariant holds initially.                                *)
LEMMA InitInv == Init => IInv
  <1> SUFFICES ASSUME Init PROVE IInv
    OBVIOUS
  <1>1. TypeOK
    BY InitType
  <1>2. RowsInv /\ AttemptsInv
    BY ConstantsAssumption
       DEF Init, RowsInv, RowInv, AttemptsInv, SameRoot, Effected, HasChild
  <1>3. EchoFollowsRoot
    BY ConstantsAssumption
       DEF Init, EchoFollowsRoot, FollowsRoot, RunsOf, EchoTerminal
  <1>4. WorkersInv /\ JobsInv /\ ModeInv
    BY DEF Init, WorkersInv, WorkerInv, JobsInv, ModeInv, Registered, Executing
  <1> QED
    BY <1>1, <1>2, <1>3, <1>4 DEF IInv

(* Every step of the engine preserves the inductive invariant.             *)
LEMMA StepInv == IInv /\ [Next]_vars => IInv'
  <1> SUFFICES ASSUME RowsPart, SchedPart, [Next]_vars
               PROVE  RowsPart' /\ SchedPart'
    BY DEF IInv, RowsPart, SchedPart, TypeOK
  <1>1. ASSUME NEW e \in Echoes, CreateEcho(e) PROVE RowsPart' /\ SchedPart'
    BY <1>1, CreateEchoRows, ClientSched
  <1>2. ASSUME NEW e \in Echoes, CancelQueuedRun(e)
        PROVE  RowsPart' /\ SchedPart'
    BY <1>2, CancelQueuedRunRows, ClientSched
  <1>3. ASSUME NEW e \in Echoes, CancelActive(e) PROVE RowsPart' /\ SchedPart'
    BY <1>3, SignalSched, SameRows
  <1>4. ASSUME NEW w \in Workers, ListRunnable(w) PROVE RowsPart' /\ SchedPart'
    BY <1>4, ListRunnableRows, ListRunnableSched
  <1>5. ASSUME NEW w \in Workers, PickRun(w) PROVE RowsPart' /\ SchedPart'
    BY <1>5, PickRunSched, SameRows DEF PickRun
  <1>6. ASSUME NEW w \in Workers,
               \/ ClaimRun(w) \/ CapabilityCall(w) \/ StreamSucceeded(w)
               \/ CompleteRun(w) \/ RetryRun(w)
        PROVE  RowsPart' /\ SchedPart'
    <2>1. pc[w] \in Registered
      BY <1>6 DEF ClaimRun, CapabilityCall, StreamSucceeded, CompleteRun,
                  RetryRun, Registered, Executing
    <2>2. job[w] \in Runs /\ WorkerInv(w) /\ verdict[w] \in Verdicts
      BY <2>1 DEF SchedPart, WorkersInv, WorkerInv, SchedTypes
    <2>3. CASE ClaimRun(w)
      BY <2>2, <2>3, ClaimRunRows, ClaimRunSched
    <2>4. CASE CapabilityCall(w)
      BY <2>2, <2>4, CapabilityCallRows, CapabilityCallSched
    <2>5. CASE StreamSucceeded(w)
      <3>1. announced' \subseteq Runs
        BY <2>2, <2>5, StreamSucceededSched DEF RowsPart, RowTypes
      <3> QED
        BY <2>5, <3>1, StreamSucceededSched, AnnouncedRows DEF StreamSucceeded
    <2>6. CASE CompleteRun(w)
      BY <2>2, <2>6, CompleteRunRows, CompleteRunSched
         DEF CompleteRun, WorkerInv
    <2>7. CASE RetryRun(w)
      BY <2>2, <2>7, RetryRunRows, RetryRunSched DEF RetryRun, WorkerInv
    <2> QED
      BY <1>6, <2>3, <2>4, <2>5, <2>6, <2>7
  <1>7. ASSUME NEW w \in Workers, Prepare(w) \/ FixContext(w) \/ OpenStream(w)
        PROVE  RowsPart' /\ SchedPart'
    BY <1>7, PrepareSched, SameRows
       DEF Prepare, FixContext, OpenStream, WorkerOnly
  <1>8. ASSUME NEW w \in Workers,
               StreamFailed(w) \/ StreamBroken(w) \/ StreamEnded(w)
        PROVE  RowsPart' /\ SchedPart'
    BY <1>8, StreamEndsSched, SameRows
       DEF StreamFailed, StreamBroken, StreamEnded, WorkerOnly
  <1>9. ASSUME NEW w \in Workers,
               TerminalFrame(w) \/ DeadlinePasses(w) \/ RenewFails(w)
        PROVE  RowsPart' /\ SchedPart'
    BY <1>9, SignalSched, SameRows
  <1>10. ASSUME NEW w \in Workers, ReleaseJob(w) PROVE RowsPart' /\ SchedPart'
    BY <1>10, ReleaseJobSched, SameRows DEF ReleaseJob
  <1>11. CASE BeginShutdown
    BY <1>11, SignalSched, SameRows
  <1>12. CASE FinishShutdown
    BY <1>12, CancelQueuedRunsRows, ProcessSched DEF FinishShutdown
  <1>13. CASE Crash
    BY <1>13, SameRows, ProcessSched DEF Crash
  <1>14. CASE Recover
    BY <1>14, RecoverRows, ProcessSched
  <1>15. CASE UNCHANGED vars
    <2>1. /\ UNCHANGED <<rows, sched, pc, listed, job, retrySafe, verdict>>
          /\ UNCHANGED <<mode, stops, canceling, finished, missed>>
      BY <1>15 DEF vars, sched
    <2>2. WorkersInv'
      BY <2>1, QuietWorker DEF SchedPart, WorkersInv
    <2> QED
      BY <2>1, <2>2, SameRows, SameSchedTypes
         DEF SchedPart, ServiceTypes, JobsInv, ModeInv
  <1> QED
    BY <1>1, <1>2, <1>3, <1>4, <1>5, <1>6, <1>7, <1>8, <1>9, <1>10, <1>11,
       <1>12, <1>13, <1>14, <1>15
    DEF Next, WorkerStep, ClientStep, ProcessStep

(* The rows and the workers agree in every reachable state of the engine,  *)
(* for any number of Echoes, Runs, workers and crashes, failing writes     *)
(* included.                                                               *)
THEOREM InvariantHolds == Spec => []IInv
  BY InitInv, StepInv, PTL DEF Spec

(* Every variable stays in its domain.                                     *)
THEOREM TypesHold == Spec => []TypeOK
  <1>1. IInv => TypeOK
    BY DEF IInv
  <1> QED
    BY <1>1, InvariantHolds, PTL

(* The Echo row tells the truth about its Runs: every transaction that     *)
(* ends or queues a Run (completion, retry, cancellation, recovery) leaves *)
(* both tables in agreement.                                               *)
THEOREM EchoesFollowTheirRoots == Spec => []EchoFollowsRoot
  <1>1. IInv => EchoFollowsRoot
    BY DEF IInv
  <1> QED
    BY <1>1, InvariantHolds, PTL

(* executeClaimedRun drops automaticRetrySafe before it invokes: an        *)
(* attempt that had an effect is the last one of its Echo.                 *)
THEOREM EffectsAreNotRetried == Spec => []NoRetryAfterEffect
  <1>1. IInv => NoRetryAfterEffect
    <2> SUFFICES ASSUME IInv, NEW r \in Runs, Effected(r), NEW q \in Runs,
                        runEcho[q] = runEcho[r], runParent[q] = NoRun,
                        runParent[r] = NoRun
                 PROVE  runAttempt[q] <= runAttempt[r]
      BY DEF NoRetryAfterEffect, Effected, HasChild
    <2>1. runStatus[r] # "none" /\ runEcho[r] # NoEcho
      BY ConstantsAssumption DEF IInv, RowsInv, RowInv
    <2> QED
      BY <2>1 DEF IInv, AttemptsInv, AttemptPair, SameRoot
  <1> QED
    BY <1>1, InvariantHolds, PTL

(* Scheduler.active and the lease token keep a Run with one worker from    *)
(* its claim to its terminal write.                                        *)
THEOREM ExecutorsHoldTheirRuns == Spec => []ExecutorHoldsItsRun
  <1>1. IInv => ExecutorHoldsItsRun
    <2> SUFFICES ASSUME IInv, NEW w \in Workers,
                        pc[w] \in Executing \union {"settle"}
                 PROVE  /\ Holds(w)
                        /\ RootJob(w) => echoStatus[runEcho[job[w]]] = "running"
                        /\ \A v \in Workers \ {w} : job[v] # job[w]
      BY DEF ExecutorHoldsItsRun
    <2>1. Holds(w) /\ job[w] \in Runs
      BY DEF IInv, WorkersInv, WorkerInv, Registered, Executing
    <2>2. runStatus[job[w]] = "running" /\ runEcho[job[w]] \in Echoes
      BY <2>1 DEF Holds, IInv, RowsInv, RowInv
    <2>3. RootJob(w) => echoStatus[runEcho[job[w]]] = "running"
      BY <2>1, <2>2, ActiveIsLast, Parts
         DEF RootJob, RootRuns, RunsOf, RunActive
    <2>4. \A v \in Workers \ {w} : job[v] # job[w]
      BY <2>1, ConstantsAssumption DEF IInv, JobsInv
    <2> QED
      BY <2>1, <2>3, <2>4
  <1> QED
    BY <1>1, InvariantHolds, PTL
=============================================================================
