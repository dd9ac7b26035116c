-------------------------- MODULE EchoContractProofs --------------------------
(***************************************************************************)
(* Steps of EchoRun seen from outside: terminal rows are final, and every  *)
(* step is a step of EchoContract or changes nothing it can see; attempts  *)
(* are serial, streams end with their Echoes, a running row is driven and  *)
(* what was announced comes true.                                          *)
(***************************************************************************)
EXTENDS EchoRunProofs, FiniteSetTheorems

(* What a step may do to the statuses and tokens.                          *)
EchoMove(e) ==
    \/ echoStatus'[e] = echoStatus[e]
    \/ echoStatus[e] = "none" /\ echoStatus'[e] = "running"
    \/ echoStatus[e] = "running" /\ echoStatus'[e] \in EchoTerminal
RunMove(r) ==
    /\ runStatus[r] \in RunTerminal => runStatus'[r] = runStatus[r]
    /\ lease[r] # NoWorker => lease'[r] \in {lease[r], NoWorker}
Moves == /\ \A e \in Echoes : EchoMove(e)
         /\ \A r \in Runs : RunMove(r)

(* A step that fills a fresh row moves no other row.                       *)
LEMMA InsertMoves ==
  ASSUME RowsPart, NEW n \in Fresh,
         runStatus' = [runStatus EXCEPT ![n] = "queued"],
         UNCHANGED lease
  PROVE  \A r \in Runs : RunMove(r)
  BY DEF Fresh, RunMove, RowsPart, RowTypes, RunTerminal

(* Every step moves Echoes and Runs forward only: terminal ones not at     *)
(* all, tokens to nobody but NoWorker.                                     *)
LEMMA StepMoves == ASSUME IInv, [Next]_vars PROVE Moves
  <1>0. RowsPart /\ SchedPart
    BY Parts
  <1>1. ASSUME NEW e \in Echoes, CreateEcho(e) PROVE Moves
    <2>1. \A x \in Echoes : EchoMove(x)
      BY <1>0, <1>1 DEF CreateEcho, EchoMove, RowsPart, RowTypes
    <2>2. \A r \in Runs : RunMove(r)
      BY <1>0, <1>1, InsertMoves DEF CreateEcho
    <2> QED
      BY <2>1, <2>2 DEF Moves
  <1>2. ASSUME NEW e \in Echoes, CancelQueuedRun(e) PROVE Moves
    <2>1. \A x \in Echoes : EchoMove(x)
      BY <1>0, <1>2
         DEF CancelQueuedRun, CancelAccepted, EchoMove, RowsPart, RowTypes, EchoTerminal, rows
    <2>2. \A r \in Runs : RunMove(r)
      BY <1>2 DEF CancelQueuedRun, QueuedOf, RunMove, RunTerminal, rows
    <2> QED
      BY <2>1, <2>2 DEF Moves
  <1>3. CASE UNCHANGED <<echoStatus, runStatus, lease>>
    BY <1>3 DEF Moves, EchoMove, RunMove
  <1>4. ASSUME NEW w \in Workers, ListRunnable(w) PROVE Moves
    BY <1>4 DEF ListRunnable, Moves, EchoMove, RunMove, RunTerminal
  <1>5. ASSUME NEW w \in Workers, ClaimRun(w) PROVE Moves
    <2>1. job[w] \in Runs
      BY <1>0, <1>5 DEF ClaimRun, SchedPart, WorkersInv, WorkerInv, Registered
    <2>2. ASSUME NEW r \in Runs PROVE RunMove(r)
      BY <1>0, <1>5, <2>1
         DEF ClaimRun, RunMove, RunTerminal, RowsPart, RowTypes, RowsInv, RowInv
    <2> QED
      BY <1>5, <2>2 DEF ClaimRun, Moves, EchoMove
  <1>6. ASSUME NEW w \in Workers, CapabilityCall(w) PROVE Moves
    <2>1. UNCHANGED <<echoStatus, lease>>
      BY <1>6 DEF CapabilityCall, rows
    <2>2. \/ UNCHANGED runStatus
          \/ \E n \in Fresh : runStatus' = [runStatus EXCEPT ![n] = "queued"]
      BY <1>6 DEF CapabilityCall, CreateChildRun, rows
    <2>3. \A r \in Runs : RunMove(r)
      BY <1>0, <2>1, <2>2, InsertMoves DEF RunMove
    <2> QED
      BY <2>1, <2>3 DEF Moves, EchoMove
  <1>7. ASSUME NEW w \in Workers, CompleteRun(w) PROVE Moves
    <2>1. /\ job[w] \in Runs /\ verdict[w] \in Verdicts
      BY <1>0, <1>7 DEF CompleteRun, SchedPart, WorkersInv, WorkerInv,
                        Registered, SchedTypes
    <2>2. CASE UNCHANGED <<runStatus, lease, echoStatus>>
      BY <2>2 DEF Moves, EchoMove, RunMove
    <2>3. CASE ~UNCHANGED <<runStatus, lease, echoStatus>>
      <3>1. /\ Holds(w)
            /\ RootJob(w) => echoStatus[runEcho[job[w]]] = "running"
            /\ runStatus' = [runStatus EXCEPT ![job[w]] = verdict[w]]
            /\ lease' = [lease EXCEPT ![job[w]] = NoWorker]
            /\ echoStatus' = IF RootJob(w)
                             THEN [echoStatus EXCEPT ![runEcho[job[w]]] =
                                                EchoOutcome(verdict[w])]
                             ELSE echoStatus
        BY <1>7, <2>3 DEF CompleteRun, MayComplete
      <3>2. \A r \in Runs : RunMove(r)
        BY <1>0, <2>1, <3>1
           DEF RunMove, Holds, RunTerminal, RowsPart, RowTypes
      <3>3. \A e \in Echoes : EchoMove(e)
        BY <1>0, <2>1, <3>1
           DEF EchoMove, EchoOutcome, EchoTerminal, RowsPart, RowTypes
      <3> QED
        BY <3>2, <3>3 DEF Moves
    <2> QED
      BY <2>2, <2>3
  <1>8. ASSUME NEW w \in Workers, RetryRun(w) PROVE Moves
    <2>1. job[w] \in Runs /\ Holds(w)
      BY <1>0, <1>8 DEF RetryRun, SchedPart, WorkersInv, WorkerInv,
                        Registered, SchedTypes
    <2>2. CASE UNCHANGED <<runStatus, lease, echoStatus>>
      BY <2>2 DEF Moves, EchoMove, RunMove
    <2>3. CASE ~UNCHANGED <<runStatus, lease, echoStatus>>
      <3>1. PICK n \in Fresh : runStatus' = [runStatus EXCEPT ![job[w]] = "failed",
                                                            ![n] = "queued"]
        BY <1>8, <2>3 DEF RetryRun
      <3>2. lease' = [lease EXCEPT ![job[w]] = NoWorker] /\ UNCHANGED echoStatus
        BY <1>8, <2>3 DEF RetryRun
      <3>3. \A r \in Runs : RunMove(r)
        BY <1>0, <2>1, <3>1, <3>2
           DEF RunMove, Holds, Fresh, RunTerminal, RowsPart, RowTypes
      <3> QED
        BY <3>2, <3>3 DEF Moves, EchoMove
    <2> QED
      BY <2>2, <2>3
  <1>9. CASE FinishShutdown
    BY <1>9 DEF FinishShutdown, CancelQueuedRuns, Moves, EchoMove, RunMove,
                EchoTerminal, RunTerminal
  <1>10. CASE Recover
    <2>1. \A e \in Echoes : EchoMove(e)
      BY <1>10 DEF Recover, RecoveryCommits, FinalStatus, EchoMove, EchoTerminal
    <2>2. \A r \in Runs : RunMove(r)
      BY <1>10 DEF Recover, Reconciled, Abandoned, RunMove, RunTerminal
    <2> QED
      BY <2>1, <2>2 DEF Moves
  <1> QED
    BY <1>1, <1>2, <1>3, <1>4, <1>5, <1>6, <1>7, <1>8, <1>9, <1>10
    DEF Next, WorkerStep, ClientStep, ProcessStep, vars, rows, CancelActive,
        PickRun, Prepare, FixContext, OpenStream, WorkerOnly, TerminalFrame,
        StreamSucceeded, StreamFailed, StreamBroken, StreamEnded,
        DeadlinePasses, RenewFails, ReleaseJob, BeginShutdown, Crash

(* No step rewrites the outcome of an Echo or of a Run, and no Run changes *)
(* hands: completion, cancellation, retry and recovery each check the row. *)
THEOREM TerminalRowsAreFinal == Spec => TerminalIsFinal
  <1> DEFINE Final == /\ \A e \in Echoes : echoStatus[e] \in EchoTerminal =>
                             echoStatus'[e] = echoStatus[e]
                      /\ \A r \in Runs : RunMove(r)
  <1>1. IInv /\ [Next]_vars => [Final]_vars
    BY StepMoves DEF Moves, EchoMove, EchoTerminal
  <1>2. IInv /\ [Next]_vars =>
          [/\ \A e \in Echoes : echoStatus[e] \in EchoTerminal =>
                                    echoStatus'[e] = echoStatus[e]
           /\ \A r \in Runs : /\ runStatus[r] \in RunTerminal =>
                                    runStatus'[r] = runStatus[r]
                              /\ lease[r] # NoWorker =>
                                    lease'[r] \in {lease[r], NoWorker}]_vars
    BY <1>1 DEF RunMove
  <1> QED
    BY <1>2, InvariantHolds, PTL DEF Spec, TerminalIsFinal

-----------------------------------------------------------------------------
(* The refinement *)

Tries(e) == {runAttempt[r] : r \in RootRuns(e)}
tries == [e \in Echoes |-> Tries(e)]
Marked(e) == \E r \in RootRuns(e) : Effected(r)
marked == {e \in Echoes : Marked(e)}

(* No Echo has been accepted, tried or affected at the start.              *)
LEMMA ContractInit == Init => Contract!CInit
  <1> SUFFICES ASSUME Init PROVE Contract!CInit
    OBVIOUS
  <1>1. \A e \in Echoes : RootRuns(e) = {}
    BY ConstantsAssumption DEF Init, RootRuns, RunsOf
  <1> QED
    BY <1>1 DEF Init, Contract!CInit

(* A step that inserts no row and records no effect closes Echoes at most. *)
LEMMA CloseMaps ==
  ASSUME RowsPart, RowTypes', UNCHANGED <<runEcho, runParent, runAttempt, audited>>,
         \A e \in Echoes : \/ echoStatus'[e] = echoStatus[e]
                           \/ /\ echoStatus[e] = "running"
                              /\ echoStatus'[e] \in EchoTerminal
  PROVE  Contract!Close
  <1>1. tries' = tries
    BY DEF tries, Tries, RootRuns, RunsOf
  <1>2. marked' = marked
    BY DEF marked, Marked, RootRuns, RunsOf, Effected, HasChild
  <1>3. echoStatus' \in [Echoes -> {"none", "running"} \union EchoTerminal]
    BY DEF RowTypes
  <1> QED
    BY <1>1, <1>2, <1>3
       DEF Contract!Close, Contract!Outcomes, EchoTerminal, tries, Tries, marked,
           Marked

(* CreateEcho is Accept.                                                   *)
LEMMA CreateEchoMaps ==
  ASSUME RowsPart, NEW e \in Echoes, CreateEcho(e) PROVE Contract!Accept(e)
  <1>1. PICK n \in Fresh :
          /\ runStatus' = [runStatus EXCEPT ![n] = "queued"]
          /\ InsertRun(n, e, NoRun, {}, 1)
    BY DEF CreateEcho
  <1>2. /\ n \in Runs /\ runEcho[n] = NoEcho /\ ~Effected(n)
        /\ \A r \in Runs : runEcho[r] # e
    BY DEF CreateEcho, Fresh, RowsPart, RowsInv, RowInv, EchoFollowsRoot,
           FollowsRoot, RunsOf
  <1>3. /\ \A r \in Runs : r # n => /\ runEcho'[r] = runEcho[r]
                                    /\ runParent'[r] = runParent[r]
                                    /\ runAttempt'[r] = runAttempt[r]
        /\ runEcho'[n] = e /\ runParent'[n] = NoRun /\ runAttempt'[n] = 1
    BY <1>1, <1>2 DEF InsertRun, RowsPart, RowTypes
  <1>4. \A r \in Runs : Effected(r)' = Effected(r)
    BY <1>1, <1>2, <1>3, ConstantsAssumption
       DEF CreateEcho, Effected, HasChild, RowsPart, RowsInv, RowInv, Fresh
  <1>5. RootRuns(e)' = {n} /\ RootRuns(e) = {}
    BY <1>2, <1>3 DEF RootRuns, RunsOf
  <1>6. ASSUME NEW x \in Echoes, x # e
        PROVE  /\ RootRuns(x)' = RootRuns(x)
               /\ \A r \in RootRuns(x) : runAttempt'[r] = runAttempt[r]
    BY <1>2, <1>3, <1>6, ConstantsAssumption DEF RootRuns, RunsOf
  <1>7. tries' = [tries EXCEPT ![e] = {1}]
    <2>1. Tries(e)' = {1}
      BY <1>3, <1>5 DEF Tries
    <2>2. \A x \in Echoes : x # e => Tries(x)' = Tries(x)
      BY <1>6 DEF Tries
    <2> QED
      BY <2>1, <2>2 DEF tries
  <1>8. marked' = marked
    <2>1. ~Marked(e) /\ ~Marked(e)'
      BY <1>2, <1>4, <1>5 DEF Marked
    <2>2. \A x \in Echoes : x # e => Marked(x)' = Marked(x)
      BY <1>4, <1>6 DEF Marked, RootRuns, RunsOf
    <2> QED
      BY <2>1, <2>2 DEF marked
  <1> QED
    BY <1>7, <1>8
       DEF CreateEcho, Contract!Accept, tries, Tries, marked, Marked

(* RetryRun of a root Run is TryAgain; of a child it is a stutter.         *)
LEMMA RetryRunMaps ==
  ASSUME RowsPart, NEW w \in Workers, job[w] \in Runs,
         ~Effected(job[w]), runAttempt[job[w]] < MaxRunAttempts, RetryRun(w)
  PROVE  Contract!CNext \/ UNCHANGED Contract!cvars
  <1>1. CASE UNCHANGED rows
    <2>1. RowTypes'
      BY <1>1, SameRowTypes DEF RowsPart
    <2> QED
      BY <1>1, <2>1, CloseMaps DEF rows, Contract!CNext
  <1>2. CASE ~UNCHANGED rows
    <2>1. PICK j \in Runs, e \in Echoes : j = job[w] /\ e = runEcho[j]
      BY <1>2 DEF RetryRun, Holds, rows, RowsPart, RowsInv, RowInv
    <2>2. PICK n \in Fresh :
            InsertRun(n, e, runParent[j], originCall[j], runAttempt[j] + 1)
      BY <1>2, <2>1 DEF RetryRun, rows
    <2>3. /\ runStatus[j] = "running" /\ runParent[j] = NoRun
          /\ UNCHANGED <<echoStatus, audited>>
      BY <1>2, <2>1, ConstantsAssumption DEF RetryRun, Holds, OriginFree, rows
    <2>4. /\ j \in RootRuns(e) /\ j \in LastAttempts(e)
          /\ echoStatus[e] = "running"
      BY <2>1, <2>3, ActiveIsLast DEF RootRuns, RunsOf, RunActive
    <2>5. /\ n \in Runs /\ runEcho[n] = NoEcho /\ ~Effected(n)
          /\ runParent[n] = NoRun
      BY DEF Fresh, RowsPart, RowsInv, RowInv
    <2>6. /\ \A r \in Runs : r # n => /\ runEcho'[r] = runEcho[r]
                                      /\ runAttempt'[r] = runAttempt[r]
          /\ \A r \in Runs : runParent'[r] = runParent[r]
          /\ runEcho'[n] = e /\ runAttempt'[n] = runAttempt[j] + 1
      BY <2>2, <2>3, <2>5 DEF InsertRun, RowsPart, RowTypes
    <2>7. \A r \in Runs : Effected(r)' = Effected(r)
      BY <2>3, <2>6 DEF Effected, HasChild
    <2>8. RootRuns(e)' = RootRuns(e) \union {n}
      BY <2>4, <2>5, <2>6 DEF RootRuns, RunsOf
    <2>9. ASSUME NEW x \in Echoes, x # e
          PROVE  /\ RootRuns(x)' = RootRuns(x)
                 /\ \A r \in RootRuns(x) : runAttempt'[r] = runAttempt[r]
      BY <2>5, <2>6, <2>9, ConstantsAssumption DEF RootRuns, RunsOf
    <2>10. n \notin RootRuns(e)
      BY <2>5, ConstantsAssumption DEF RootRuns, RunsOf
    <2>11. runAttempt[j] \in Nat /\ runAttempt[j] \in Tries(e)
      BY <2>4, ConstantsAssumption DEF Tries, RowsPart, RowTypes
    <2>12. runAttempt[j] + 1 \notin Tries(e)
      <3>1. \A q \in RootRuns(e) : /\ runAttempt[q] <= runAttempt[j]
                                   /\ runAttempt[q] \in Nat
        BY <2>4, ConstantsAssumption
           DEF LastAttempts, RootRuns, RunsOf, RowsPart, RowTypes
      <3> QED
        BY <2>11, <3>1 DEF Tries
    <2>13. ~Marked(e)
      <3> SUFFICES ASSUME NEW r \in RootRuns(e), Effected(r) PROVE FALSE
        BY DEF Marked
      <3>1. /\ r \in Runs /\ r # j /\ runAttempt[r] \in Nat
            /\ SameRoot(j, r) /\ runAttempt[r] <= runAttempt[j]
        BY <2>1, <2>3, <2>4, ConstantsAssumption
           DEF SameRoot, LastAttempts, RootRuns, RunsOf, RowsPart, RowTypes
      <3>2. AttemptPair(j, r)
        BY <3>1 DEF RowsPart, AttemptsInv
      <3> QED
        BY <2>11, <3>1, <3>2 DEF AttemptPair
    <2>14. tries' = [tries EXCEPT ![e] = @ \union {runAttempt[j] + 1}]
      <3>1. Tries(e)' = Tries(e) \union {runAttempt[j] + 1}
        BY <2>6, <2>8, <2>10 DEF Tries, RootRuns, RunsOf
      <3>2. \A x \in Echoes : x # e => Tries(x)' = Tries(x)
        BY <2>9 DEF Tries
      <3> QED
        BY <3>1, <3>2 DEF tries
    <2>15. marked' = marked
      <3>1. \A x \in Echoes : Marked(x)' = Marked(x)
        BY <2>5, <2>7, <2>8, <2>9 DEF Marked, RootRuns, RunsOf
      <3> QED
        BY <3>1 DEF marked
    <2>16. Contract!TryAgain(e)
      BY <2>1, <2>3, <2>4, <2>11, <2>12, <2>13, <2>14, <2>15
         DEF Contract!TryAgain, tries, Tries, marked, Marked
    <2> QED
      BY <2>16 DEF Contract!CNext
  <1> QED
    BY <1>1, <1>2

(* An effect of a root Run is the contract's TakeEffect; what a child Run  *)
(* does is not seen.                                                       *)
LEMMA CapabilityCallMaps ==
  ASSUME RowsPart, NEW w \in Workers, job[w] \in Runs, CapabilityCall(w)
  PROVE  Contract!CNext \/ UNCHANGED Contract!cvars
  <1>1. CASE UNCHANGED rows
    <2>1. RowTypes'
      BY <1>1, SameRowTypes DEF RowsPart
    <2> QED
      BY <1>1, <2>1, CloseMaps DEF rows, Contract!CNext
  <1>2. CASE ~UNCHANGED rows
    <2>1. PICK j \in Runs, e \in Echoes : j = job[w] /\ e = runEcho[j]
      BY <1>2 DEF CapabilityCall, Holds, RowsPart, RowsInv, RowInv
    <2>2. /\ Holds(w) /\ audited' = audited \union {j} /\ UNCHANGED echoStatus
      BY <1>2, <2>1 DEF CapabilityCall, rows
    <2>3. \/ UNCHANGED <<runEcho, runParent, runAttempt>>
          \/ /\ RootJob(w)
             /\ \E n \in Fresh, c \in Calls : InsertRun(n, e, j, {c}, 1)
      BY <1>2, <2>1 DEF CapabilityCall, CreateChildRun, rows
    <2>4. \A x \in Echoes :
            /\ RootRuns(x)' = RootRuns(x)
            /\ \A r \in RootRuns(x) : runAttempt'[r] = runAttempt[r]
      <3>1. CASE UNCHANGED <<runEcho, runParent, runAttempt>>
        BY <3>1 DEF RootRuns, RunsOf
      <3>2. CASE \E n \in Fresh, c \in Calls : InsertRun(n, e, j, {c}, 1)
        <4>1. PICK n \in Fresh, c \in Calls : InsertRun(n, e, j, {c}, 1)
          BY <3>2
        <4>2. n \in Runs /\ runEcho[n] = NoEcho
          BY DEF Fresh, RowsPart, RowsInv, RowInv
        <4>3. /\ \A r \in Runs : r # n => /\ runEcho'[r] = runEcho[r]
                                          /\ runParent'[r] = runParent[r]
                                          /\ runAttempt'[r] = runAttempt[r]
              /\ runParent'[n] = j
          BY <4>1, <4>2 DEF InsertRun, RowsPart, RowTypes
        <4> QED
          BY <4>2, <4>3, ConstantsAssumption DEF RootRuns, RunsOf
      <3> QED
        BY <2>3, <3>1, <3>2
    <2>5. ASSUME NEW r \in Runs, r # j PROVE Effected(r)' = Effected(r)
      <3>1. CASE UNCHANGED runParent
        BY <2>2, <2>5, <3>1 DEF Effected, HasChild
      <3>2. CASE \E n \in Fresh, c \in Calls : InsertRun(n, e, j, {c}, 1)
        <4>1. PICK n \in Fresh, c \in Calls : InsertRun(n, e, j, {c}, 1)
          BY <3>2
        <4>2. n \in Runs /\ runParent[n] = NoRun
          BY DEF Fresh, RowsPart, RowsInv, RowInv
        <4>3. \A q \in Runs : runParent'[q] = IF q = n THEN j ELSE runParent[q]
          BY <4>1, <4>2 DEF InsertRun, RowsPart, RowTypes
        <4> QED
          BY <2>2, <2>5, <4>2, <4>3, ConstantsAssumption DEF Effected, HasChild
      <3> QED
        BY <2>3, <3>1, <3>2
    <2>6. tries' = tries
      BY <2>4 DEF tries, Tries
    <2>7. CASE runParent[j] # NoRun
      <3>1. \A x \in Echoes : Marked(x)' = Marked(x)
        BY <2>4, <2>5, <2>7 DEF Marked, RootRuns, RunsOf
      <3>2. marked' = marked
        BY <3>1 DEF marked
      <3> QED
        BY <2>2, <2>6, <3>2
           DEF Contract!cvars, tries, Tries, marked, Marked
    <2>8. CASE runParent[j] = NoRun
      <3>1. j \in RootRuns(e) /\ echoStatus[e] = "running"
        BY <2>1, <2>2, <2>8, ActiveIsLast
           DEF Holds, RootRuns, RunsOf, RunActive
      <3>2. Effected(j)'
        BY <2>2 DEF Effected
      <3>3. Marked(e)'
        BY <2>4, <3>1, <3>2 DEF Marked
      <3>4. ASSUME NEW x \in Echoes, x # e PROVE Marked(x)' = Marked(x)
        <4>1. \A r \in RootRuns(x) : r \in Runs /\ r # j
          BY <2>1, <3>4 DEF RootRuns, RunsOf
        <4> QED
          BY <2>4, <2>5, <4>1 DEF Marked
      <3>5. marked' = marked \union {e}
        BY <3>3, <3>4 DEF marked
      <3>6. Contract!TakeEffect(e)
        BY <2>2, <2>6, <3>1, <3>5
           DEF Contract!TakeEffect, tries, Tries, marked, Marked
      <3> QED
        BY <3>6 DEF Contract!CNext
    <2> QED
      BY <2>7, <2>8
  <1> QED
    BY <1>1, <1>2

(* Neither a new row nor an effect.                                        *)
NoInsert == /\ UNCHANGED <<runEcho, runParent, runAttempt, audited>>
            /\ \A e \in Echoes : echoStatus[e] = "none" => echoStatus'[e] = "none"

(* Every step of the engine is a step of the contract, or a stutter.       *)
LEMMA StepMaps ==
  ASSUME IInv, [Next]_vars PROVE Contract!CNext \/ UNCHANGED Contract!cvars
  <1>1. RowsPart /\ SchedPart
    BY Parts
  <1>2. RowTypes'
    BY StepInv DEF IInv, TypeOK
  <1>3. ASSUME NEW e \in Echoes, CreateEcho(e) PROVE Contract!CNext
    BY <1>1, <1>3, CreateEchoMaps DEF Contract!CNext
  <1>4. ASSUME NEW w \in Workers, CapabilityCall(w)
        PROVE  Contract!CNext \/ UNCHANGED Contract!cvars
    <2>1. job[w] \in Runs
      BY <1>1, <1>4 DEF CapabilityCall, SchedPart, WorkersInv, WorkerInv,
                        Registered, Executing
    <2> QED
      BY <1>1, <1>4, <2>1, CapabilityCallMaps
  <1>5. ASSUME NEW w \in Workers, RetryRun(w)
        PROVE  Contract!CNext \/ UNCHANGED Contract!cvars
    <2>1. /\ job[w] \in Runs /\ ~Effected(job[w])
          /\ runAttempt[job[w]] < MaxRunAttempts
      BY <1>1, <1>5 DEF RetryRun, SchedPart, WorkersInv, WorkerInv,
                        Registered, Executing
    <2> QED
      BY <1>1, <1>5, <2>1, RetryRunMaps
  <1>6. CASE NoInsert
    <2>1. \A e \in Echoes : EchoMove(e)
      BY StepMoves DEF Moves
    <2> QED
      BY <1>1, <1>2, <1>6, <2>1, CloseMaps
         DEF EchoMove, NoInsert, Contract!CNext
  <1>7. ASSUME NEW e \in Echoes, CancelQueuedRun(e) PROVE NoInsert
    BY <1>1, <1>7 DEF CancelQueuedRun, CancelAccepted, NoInsert, rows, RowsPart,
                      RowTypes, EchoFollowsRoot, FollowsRoot, QueuedOf
  <1>8. ASSUME NEW w \in Workers, CompleteRun(w) PROVE NoInsert
    <2>1. UNCHANGED <<runEcho, runParent, runAttempt, audited>>
      BY <1>8 DEF CompleteRun
    <2>2. \/ UNCHANGED echoStatus
          \/ /\ echoStatus[runEcho[job[w]]] = "running"
             /\ echoStatus' = [echoStatus EXCEPT ![runEcho[job[w]]] =
                                                EchoOutcome(verdict[w])]
      BY <1>8 DEF CompleteRun, MayComplete
    <2>3. ASSUME NEW e \in Echoes, echoStatus[e] = "none"
          PROVE  echoStatus'[e] = "none"
      BY <1>1, <2>2, <2>3 DEF RowsPart, RowTypes
    <2> QED
      BY <2>1, <2>3 DEF NoInsert
  <1>9. ASSUME FinishShutdown \/ Recover PROVE NoInsert
    BY <1>9 DEF FinishShutdown, CancelQueuedRuns, Recover, RecoveryCommits,
                NoInsert
  <1>10. ASSUME UNCHANGED <<echoStatus, runEcho, runParent, runAttempt, audited>>
         PROVE  NoInsert
    BY <1>10 DEF NoInsert
  <1> QED
    BY <1>3, <1>4, <1>5, <1>6, <1>7, <1>8, <1>9, <1>10
    DEF Next, WorkerStep, ClientStep, ProcessStep, vars, rows, CancelActive,
        ListRunnable, ClaimRun, PickRun, Prepare, FixContext, OpenStream,
        WorkerOnly, TerminalFrame, StreamSucceeded, StreamFailed, StreamBroken,
        StreamEnded, DeadlinePasses, RenewFails, ReleaseJob, BeginShutdown, Crash

(* The engine keeps its contract: every Echo is accepted once, its attempts*)
(* are numbered without repetition up to MaxRunAttempts, none is queued    *)
(* after an effect, and it is closed once.                                 *)
THEOREM EngineKeepsContract == Spec => ImplementsContract
  <1>1. Init => Contract!CInit
    BY ContractInit
  <1>2. IInv /\ [Next]_vars => [Contract!CNext]_(Contract!cvars)
    BY StepMaps
  <1> QED
    BY <1>1, <1>2, InvariantHolds, PTL
    DEF Spec, ImplementsContract, Contract!CSpec

-----------------------------------------------------------------------------
(* Attempts *)

(* What no step changes of a row once it is inserted.                      *)
RowStays(r) ==
    runStatus[r] # "none" =>
        /\ runStatus'[r] # "none"
        /\ runEcho'[r] = runEcho[r] /\ runParent'[r] = runParent[r]
        /\ runAttempt'[r] = runAttempt[r]

(* A row inserted in a fresh place leaves the others alone.                *)
LEMMA InsertStays ==
  ASSUME RowsPart, NEW n \in Fresh, NEW e, NEW p, NEW c, NEW a,
         InsertRun(n, e, p, c, a),
         \A r \in Runs : runStatus[r] # "none" => runStatus'[r] # "none"
  PROVE  \A r \in Runs : RowStays(r)
  BY DEF RowStays, InsertRun, Fresh, RowsPart, RowTypes

(* Rows are inserted whole and keep their Echo, parent and attempt number. *)
LEMMA RowsStay == ASSUME IInv, [Next]_vars PROVE \A r \in Runs : RowStays(r)
  <1>0. RowsPart /\ SchedPart /\ RowTypes'
    BY Parts, StepInv DEF IInv, TypeOK
  <1>1. \A r \in Runs : runStatus[r] # "none" => runStatus'[r] # "none"
    <2>1. ASSUME NEW w \in Workers, CompleteRun(w), NEW r \in Runs,
                 runStatus[r] # "none"
          PROVE  runStatus'[r] # "none"
      <3>1. job[w] \in Runs /\ verdict[w] # "none"
        BY <1>0, <2>1 DEF CompleteRun, SchedPart, WorkersInv, WorkerInv, Registered
      <3> QED
        BY <1>0, <2>1, <3>1 DEF CompleteRun, RowsPart, RowTypes
    <2>2. ASSUME NEW w \in Workers, RetryRun(w), NEW r \in Runs,
                 runStatus[r] # "none"
          PROVE  runStatus'[r] # "none"
      BY <1>0, <2>2 DEF RetryRun, RowsPart, RowTypes
    <2>3. ASSUME NEW w \in Workers, CapabilityCall(w), NEW r \in Runs,
                 runStatus[r] # "none"
          PROVE  runStatus'[r] # "none"
      BY <1>0, <2>3 DEF CapabilityCall, CreateChildRun, RowsPart, RowTypes, rows
    <2>4. ASSUME NEW w \in Workers, ClaimRun(w), NEW r \in Runs,
                 runStatus[r] # "none"
          PROVE  runStatus'[r] # "none"
      BY <1>0, <2>4 DEF ClaimRun, RowsPart, RowTypes
    <2>5. ASSUME NEW w \in Workers, ListRunnable(w), NEW r \in Runs,
                 runStatus[r] # "none"
          PROVE  runStatus'[r] # "none"
      BY <2>5 DEF ListRunnable
    <2>6. ASSUME NEW e \in Echoes, CreateEcho(e) \/ CancelQueuedRun(e),
                 NEW r \in Runs, runStatus[r] # "none"
          PROVE  runStatus'[r] # "none"
      BY <1>0, <2>6 DEF CreateEcho, CancelQueuedRun, RowsPart, RowTypes, rows
    <2>7. ASSUME FinishShutdown \/ Recover, NEW r \in Runs, runStatus[r] # "none"
          PROVE  runStatus'[r] # "none"
      BY <2>7 DEF FinishShutdown, CancelQueuedRuns, Recover, Reconciled
    <2> QED
      BY <2>1, <2>2, <2>3, <2>4, <2>5, <2>6, <2>7
      DEF Next, WorkerStep, ClientStep, ProcessStep, vars, rows, CancelActive,
          PickRun, Prepare, FixContext, OpenStream, WorkerOnly, TerminalFrame,
          StreamSucceeded, StreamFailed, StreamBroken, StreamEnded,
          DeadlinePasses, RenewFails, ReleaseJob, BeginShutdown, Crash
  <1>2. ASSUME NEW e \in Echoes, CreateEcho(e)
        PROVE  \A r \in Runs : RowStays(r)
    BY <1>0, <1>1, <1>2, InsertStays DEF CreateEcho
  <1>3. ASSUME NEW w \in Workers, CapabilityCall(w)
        PROVE  \A r \in Runs : RowStays(r)
    <2>1. CASE UNCHANGED <<runEcho, runParent, runAttempt>>
      BY <1>1, <2>1 DEF RowStays
    <2>2. CASE \E c \in Calls : CreateChildRun(w, c)
      BY <1>0, <1>1, <2>2, InsertStays DEF CreateChildRun
    <2> QED
      BY <1>3, <2>1, <2>2 DEF CapabilityCall, rows
  <1>4. ASSUME NEW w \in Workers, RetryRun(w)
        PROVE  \A r \in Runs : RowStays(r)
    <2>1. CASE UNCHANGED <<runEcho, runParent, runAttempt>>
      BY <1>1, <2>1 DEF RowStays
    <2>2. CASE ~UNCHANGED <<runEcho, runParent, runAttempt>>
      BY <1>0, <1>1, <1>4, <2>2, InsertStays DEF RetryRun
    <2> QED
      BY <2>1, <2>2
  <1>5. CASE UNCHANGED <<runEcho, runParent, runAttempt>>
    BY <1>1, <1>5 DEF RowStays
  <1> QED
    BY <1>2, <1>3, <1>4, <1>5
    DEF Next, WorkerStep, ClientStep, ProcessStep, vars, rows, CancelActive,
        CancelQueuedRun, ListRunnable, ClaimRun, CompleteRun, FinishShutdown,
        Recover, PickRun, Prepare, FixContext, OpenStream, WorkerOnly,
        TerminalFrame, StreamSucceeded, StreamFailed, StreamBroken, StreamEnded,
        DeadlinePasses, RenewFails, ReleaseJob, BeginShutdown, Crash

-----------------------------------------------------------------------------
(* The attempt before r is there.                                          *)
HasBefore(r) == \E p \in Runs : /\ runEcho[p] = runEcho[r] /\ runParent[p] = NoRun
                                /\ runAttempt[p] + 1 = runAttempt[r]
Chained == \A r \in Runs :
    runStatus[r] # "none" /\ runParent[r] = NoRun /\ runAttempt[r] > 1 => HasBefore(r)

(* A new row is a first attempt, a child, or follows a row that is there.  *)
LEMMA InsertChains ==
  ASSUME RowsPart, Chained, \A r \in Runs : RowStays(r),
         NEW n \in Fresh, NEW e, NEW p, NEW c, NEW a, InsertRun(n, e, p, c, a),
         \A r \in Runs : runStatus'[r] # "none" => runStatus[r] # "none" \/ r = n,
         \/ a = 1 \/ p # NoRun
         \/ \E q \in Runs : /\ runStatus[q] # "none" /\ runEcho[q] = e
                            /\ runParent[q] = NoRun /\ runAttempt[q] + 1 = a
  PROVE  Chained'
  <1> SUFFICES ASSUME NEW r \in Runs, runStatus'[r] # "none",
                      runParent'[r] = NoRun, runAttempt'[r] > 1
               PROVE  HasBefore(r)'
    BY DEF Chained
  <1>1. CASE r = n
    <2>1. runEcho'[n] = e /\ runParent'[n] = p /\ runAttempt'[n] = a
      BY DEF InsertRun, RowsPart, RowTypes, Fresh
    <2>2. PICK q \in Runs : /\ runStatus[q] # "none" /\ runEcho[q] = e
                            /\ runParent[q] = NoRun /\ runAttempt[q] + 1 = a
      BY <1>1, <2>1
    <2> QED
      BY <1>1, <2>1, <2>2 DEF RowStays, HasBefore
  <1>2. CASE r # n
    <2>1. runStatus[r] # "none" /\ RowStays(r)
      BY <1>2
    <2>2. PICK q \in Runs : /\ runEcho[q] = runEcho[r] /\ runParent[q] = NoRun
                            /\ runAttempt[q] + 1 = runAttempt[r]
      BY <2>1 DEF Chained, HasBefore, RowStays
    <2>3. runStatus[q] # "none"
      BY <2>1, <2>2, ConstantsAssumption DEF RowsPart, RowsInv, RowInv
    <2> QED
      BY <2>1, <2>2, <2>3 DEF RowStays, HasBefore
  <1> QED
    BY <1>1, <1>2

(* A step that inserts nothing breaks no chain.                            *)
LEMMA SameChains ==
  ASSUME RowsPart, Chained, \A r \in Runs : RowStays(r),
         \A r \in Runs : runStatus'[r] # "none" => runStatus[r] # "none"
  PROVE  Chained'
  <1> SUFFICES ASSUME NEW r \in Runs, runStatus'[r] # "none",
                      runParent'[r] = NoRun, runAttempt'[r] > 1
               PROVE  HasBefore(r)'
    BY DEF Chained
  <1>1. runStatus[r] # "none" /\ RowStays(r)
    OBVIOUS
  <1>2. PICK q \in Runs : /\ runEcho[q] = runEcho[r] /\ runParent[q] = NoRun
                          /\ runAttempt[q] + 1 = runAttempt[r]
    BY <1>1 DEF Chained, HasBefore, RowStays
  <1>3. runStatus[q] # "none"
    BY <1>1, <1>2, ConstantsAssumption DEF RowsPart, RowsInv, RowInv
  <1> QED
    BY <1>1, <1>2, <1>3 DEF RowStays, HasBefore

(* Every step keeps the chain of attempts.                                 *)
LEMMA StepChains == ASSUME IInv, Chained, [Next]_vars PROVE Chained'
  <1>0. RowsPart /\ SchedPart /\ \A r \in Runs : RowStays(r)
    BY Parts, RowsStay
  <1>1. ASSUME NEW e \in Echoes, CreateEcho(e) PROVE Chained'
    BY <1>0, <1>1, InsertChains DEF CreateEcho, RowsPart, RowTypes, Fresh
  <1>2. ASSUME NEW w \in Workers, CapabilityCall(w) PROVE Chained'
    <2>1. CASE UNCHANGED runStatus
      BY <1>0, <2>1, SameChains
    <2>2. CASE \E c \in Calls : CreateChildRun(w, c)
      <3>1. job[w] # NoRun
        BY <1>0, <1>2, ConstantsAssumption
           DEF CapabilityCall, SchedPart, WorkersInv, WorkerInv, Registered, Executing
      <3> QED
        BY <1>0, <2>2, <3>1, InsertChains DEF CreateChildRun, RowsPart, RowTypes, Fresh
    <2> QED
      BY <1>2, <2>1, <2>2 DEF CapabilityCall, rows
  <1>3. ASSUME NEW w \in Workers, RetryRun(w) PROVE Chained'
    <2>1. CASE UNCHANGED runStatus
      BY <1>0, <2>1, SameChains
    <2>2. CASE ~UNCHANGED runStatus
      <3>1. job[w] \in Runs /\ runStatus[job[w]] = "running"
        BY <1>0, <1>3 DEF RetryRun, Holds, SchedPart, WorkersInv, WorkerInv, Registered
      <3>2. PICK n \in Fresh :
              /\ runStatus' = [runStatus EXCEPT ![job[w]] = "failed", ![n] = "queued"]
              /\ InsertRun(n, runEcho[job[w]], runParent[job[w]],
                           originCall[job[w]], runAttempt[job[w]] + 1)
        BY <1>3, <2>2 DEF RetryRun
      <3>3. \A r \in Runs : runStatus'[r] # "none" => runStatus[r] # "none" \/ r = n
        BY <1>0, <3>1, <3>2 DEF RowsPart, RowTypes, Fresh
      <3> QED
        BY <1>0, <3>1, <3>2, <3>3, InsertChains
    <2> QED
      BY <2>1, <2>2
  <1>4. ASSUME \A r \in Runs : runStatus'[r] # "none" => runStatus[r] # "none"
        PROVE  Chained'
    BY <1>0, <1>4, SameChains
  <1>5. ASSUME NEW w \in Workers, CompleteRun(w), NEW r \in Runs,
               runStatus'[r] # "none"
        PROVE  runStatus[r] # "none"
    BY <1>0, <1>5 DEF CompleteRun, MayComplete, Holds, RowsPart, RowTypes
  <1>6. ASSUME NEW w \in Workers, ClaimRun(w), NEW r \in Runs,
               runStatus'[r] # "none"
        PROVE  runStatus[r] # "none"
    BY <1>0, <1>6 DEF ClaimRun, RowsPart, RowTypes
  <1>7. ASSUME NEW w \in Workers, ListRunnable(w), NEW r \in Runs,
               runStatus'[r] # "none"
        PROVE  runStatus[r] # "none"
    BY <1>7 DEF ListRunnable
  <1>8. ASSUME NEW e \in Echoes, CancelQueuedRun(e), NEW r \in Runs,
               runStatus'[r] # "none"
        PROVE  runStatus[r] # "none"
    BY <1>8 DEF CancelQueuedRun, QueuedOf, RunsOf, rows
  <1>9. ASSUME FinishShutdown \/ Recover, NEW r \in Runs, runStatus'[r] # "none"
        PROVE  runStatus[r] # "none"
    BY <1>9 DEF FinishShutdown, CancelQueuedRuns, Recover, Reconciled, Abandoned
  <1> QED
    BY <1>1, <1>2, <1>3, <1>4, <1>5, <1>6, <1>7, <1>8, <1>9
    DEF Next, WorkerStep, ClientStep, ProcessStep, vars, rows, CancelActive,
        PickRun, Prepare, FixContext, OpenStream, WorkerOnly, TerminalFrame,
        StreamSucceeded, StreamFailed, StreamBroken, StreamEnded,
        DeadlinePasses, RenewFails, ReleaseJob, BeginShutdown, Crash

(* The attempts of a root Run are numbered 1, 2, ... without a gap or a    *)
(* repetition, each one after the failure of the one before: retry is the  *)
(* only insertion that follows another row (orchestrator.go, RetryRun).    *)
THEOREM AttemptsStaySerial == Spec => []AttemptsAreSerial
  <1>1. Init => Chained
    BY DEF Init, Chained
  <1>2. IInv /\ Chained /\ [Next]_vars => Chained'
    BY StepChains
  <1>3. IInv /\ Chained => AttemptsAreSerial
    <2> SUFFICES ASSUME IInv, Chained, NEW e \in Echoes,
                        NEW q \in RootRuns(e), NEW r \in RootRuns(e)
                 PROVE  /\ runAttempt[r] \in 1..MaxRunAttempts
                        /\ runAttempt[r] > 1 =>
                              \E p \in RootRuns(e) : runAttempt[p] + 1 = runAttempt[r]
                        /\ AttemptPair(q, r)
      BY DEF AttemptsAreSerial, AttemptPair
    <2>1. q \in Runs /\ r \in Runs /\ SameRoot(q, r)
      BY ConstantsAssumption DEF RootRuns, RunsOf, SameRoot
    <2>2. runStatus[r] # "none" /\ runEcho[r] = e /\ runParent[r] = NoRun
      BY <2>1, ConstantsAssumption DEF RootRuns, RunsOf, IInv, RowsInv, RowInv
    <2>3. runAttempt[r] \in 1..MaxRunAttempts
      BY <2>1, <2>2, ConstantsAssumption
         DEF IInv, TypeOK, RowTypes, RowsInv, RowInv
    <2>4. ASSUME runAttempt[r] > 1
          PROVE  \E p \in RootRuns(e) : runAttempt[p] + 1 = runAttempt[r]
      BY <2>1, <2>2, <2>4 DEF Chained, HasBefore, RootRuns, RunsOf
    <2> QED
      BY <2>1, <2>3, <2>4 DEF IInv, AttemptsInv
  <1> QED
    BY <1>1, <1>2, <1>3, InvariantHolds, PTL DEF Spec

-----------------------------------------------------------------------------
(* Streams *)

(* Nobody with a job on e.                                                 *)
NobodyOn(e) == \A w \in Workers : pc[w] \in Registered => runEcho[job[w]] # e

(* The stream of e was closed, or the read before it failed.               *)
Handled(e) == e \in finished \union missed

(* It is closed only if the row of e is terminal; and if the row is, then  *)
(* e is handled unless somebody is about to do so.                         *)
StreamOk(e) ==
    /\ e \in finished => echoStatus[e] \in EchoTerminal
    /\ (echoStatus[e] \in EchoTerminal /\ mode # "down"
        /\ canceling[e] # "dequeued" /\ NobodyOn(e)) => Handled(e)

(* A step that ends no Echo, leaves no job and ends no cancellation.       *)
LEMMA QuietStream ==
  ASSUME NEW e \in Echoes, StreamOk(e), EchoMove(e),
         mode' # "down" => mode # "down",
         echoStatus'[e] \in EchoTerminal =>
            echoStatus[e] \in EchoTerminal \/ canceling'[e] = "dequeued"
            \/ ~NobodyOn(e)' \/ mode' = "down",
         Handled(e) => Handled(e)',
         e \in finished' => e \in finished \/ echoStatus'[e] \in EchoTerminal,
         canceling[e] = "dequeued" =>
            \/ canceling'[e] = "dequeued" \/ mode' = "down" \/ ~NobodyOn(e)'
            \/ echoStatus'[e] \in EchoTerminal => Handled(e)',
         ~NobodyOn(e) =>
            \/ ~NobodyOn(e)' \/ mode' = "down"
            \/ echoStatus'[e] \in EchoTerminal => Handled(e)'
  PROVE  StreamOk(e)'
  BY DEF StreamOk, EchoMove, EchoTerminal

(* A worker at work keeps its Echo.                                        *)
LEMMA StillOn ==
  ASSUME IInv, [Next]_vars, NEW e \in Echoes,
         \A w \in Workers : pc[w] \in Registered =>
            pc'[w] \in Registered /\ job'[w] = job[w]
  PROVE  ~NobodyOn(e) => ~NobodyOn(e)'
  <1> SUFFICES ASSUME NEW w \in Workers, pc[w] \in Registered, runEcho[job[w]] = e
               PROVE  pc'[w] \in Registered /\ runEcho'[job'[w]] = e
    BY DEF NobodyOn
  <1>1. job[w] \in Runs /\ runStatus[job[w]] # "none"
    BY DEF IInv, WorkersInv, WorkerInv
  <1> QED
    BY <1>1, RowsStay DEF RowStays

(* Every step closes streams with their Echoes.                            *)
LEMMA StepStreams ==
  ASSUME IInv, \A e \in Echoes : StreamOk(e), [Next]_vars, NEW e \in Echoes
  PROVE  StreamOk(e)'
  <1>0. RowsPart /\ SchedPart /\ EchoMove(e)
    BY Parts, StepMoves DEF Moves
  <1>1. ASSUME \/ UNCHANGED <<pc, job>>
               \/ \E w \in Workers : /\ pc' = [pc EXCEPT ![w] = pc'[w]]
                                     /\ job' = [job EXCEPT ![w] = job'[w]]
                                     /\ pc[w] \in Registered =>
                                           pc'[w] \in Registered /\ job'[w] = job[w]
        PROVE  ~NobodyOn(e) => ~NobodyOn(e)'
    BY <1>0, <1>1, StillOn DEF SchedPart, SchedTypes
  <1>2. ASSUME NEW x \in Echoes, CreateEcho(x) PROVE StreamOk(e)'
    <2>1. ~NobodyOn(e) => ~NobodyOn(e)'
      BY <1>1, <1>2 DEF CreateEcho, sched
    <2>2. echoStatus'[e] \in EchoTerminal => echoStatus[e] \in EchoTerminal
      BY <1>0, <1>2 DEF CreateEcho, EchoTerminal, RowsPart, RowTypes
    <2> QED
      BY <1>0, <1>2, <2>1, <2>2, QuietStream DEF CreateEcho, Handled
  <1>3. ASSUME NEW x \in Echoes, CancelQueuedRun(x) PROVE StreamOk(e)'
    <2>1. ~NobodyOn(e) => ~NobodyOn(e)'
      BY <1>1, <1>3 DEF CancelQueuedRun, sched
    <2>2. echoStatus'[e] \in EchoTerminal =>
            echoStatus[e] \in EchoTerminal \/ canceling'[e] = "dequeued"
      BY <1>0, <1>3 DEF CancelQueuedRun, EchoTerminal, RowsPart, RowTypes, rows,
                        SchedPart, ServiceTypes
    <2>3. canceling[e] = "dequeued" => canceling'[e] = "dequeued"
      BY <1>0, <1>3 DEF CancelQueuedRun, SchedPart, ServiceTypes
    <2> QED
      BY <1>0, <1>3, <2>1, <2>2, <2>3, QuietStream DEF CancelQueuedRun, Handled
  <1>4. ASSUME NEW x \in Echoes, CancelActive(x) PROVE StreamOk(e)'
    <2>1. ~NobodyOn(e) => ~NobodyOn(e)'
      BY <1>1, <1>4 DEF CancelActive
    <2>2. UNCHANGED <<echoStatus, mode>>
      BY <1>4 DEF CancelActive, rows
    <2>3. Handled(e) => Handled(e)'
      BY <1>4 DEF CancelActive, FinishIfTerminal, FinishEnded, Handled
    <2>4. e \in finished' => e \in finished \/ echoStatus'[e] \in EchoTerminal
      BY <1>4, <2>2 DEF CancelActive, FinishIfTerminal, FinishEnded, Handled
    <2>5. canceling[e] = "dequeued" =>
            \/ canceling'[e] = "dequeued" \/ ~NobodyOn(e)'
            \/ echoStatus'[e] \in EchoTerminal => Handled(e)'
      <3>1. CASE x # e
        BY <1>0, <1>4, <3>1 DEF CancelActive, SchedPart, ServiceTypes
      <3>2. CASE x = e
        BY <1>4, <2>1, <2>2, <3>2
           DEF CancelActive, FinishIfTerminal, FinishEnded, Handled, ActiveOn, NobodyOn
      <3> QED
        BY <3>1, <3>2
    <2> QED
      BY <1>0, <2>1, <2>2, <2>3, <2>4, <2>5, QuietStream
  <1>5. ASSUME NEW w \in Workers, CompleteRun(w) PROVE StreamOk(e)'
    <2>1. ~NobodyOn(e) => ~NobodyOn(e)'
      BY <1>0, <1>1, <1>5
         DEF CompleteRun, SchedPart, SchedTypes, Registered
    <2>2. echoStatus'[e] \in EchoTerminal => echoStatus[e] \in EchoTerminal \/ ~NobodyOn(e)
      BY <1>0, <1>5 DEF CompleteRun, NobodyOn, Registered, RowsPart, RowTypes
    <2> QED
      BY <1>0, <1>5, <2>1, <2>2, QuietStream DEF CompleteRun, Handled
  <1>6. ASSUME NEW w \in Workers, ReleaseJob(w) PROVE StreamOk(e)'
    <2>1. UNCHANGED <<echoStatus, mode, canceling, runEcho>>
      BY <1>6 DEF ReleaseJob, rows
    <2>2. /\ Handled(e) => Handled(e)'
          /\ e \in finished' => e \in finished \/ echoStatus'[e] \in EchoTerminal
      BY <1>6, <2>1 DEF ReleaseJob, FinishIfTerminal, FinishEnded, Handled
    <2>3. ~NobodyOn(e) => ~NobodyOn(e)' \/ (echoStatus'[e] \in EchoTerminal => Handled(e)')
      <3>1. CASE runEcho[job[w]] = e
        BY <1>6, <2>1, <3>1 DEF ReleaseJob, FinishIfTerminal, FinishEnded, Handled
      <3>2. CASE runEcho[job[w]] # e
        BY <1>0, <1>6, <2>1, <3>2 DEF ReleaseJob, NobodyOn, SchedPart, SchedTypes
      <3> QED
        BY <3>1, <3>2
    <2> QED
      BY <1>0, <2>1, <2>2, <2>3, QuietStream
  <1>7. ASSUME mode' = "down", UNCHANGED finished PROVE StreamOk(e)'
    BY <1>0, <1>7 DEF StreamOk, EchoMove, EchoTerminal
  <1>8. CASE Recover
    BY <1>8 DEF Recover, StreamOk, Handled
  <1>9. ASSUME UNCHANGED <<echoStatus, canceling, finished, missed>>,
               mode' # "down" => mode # "down",
               ~NobodyOn(e) => ~NobodyOn(e)'
        PROVE  StreamOk(e)'
    BY <1>0, <1>9, QuietStream DEF Handled
  <1>10. ASSUME NEW w \in Workers,
                \/ ListRunnable(w) \/ PickRun(w) \/ ClaimRun(w)
                \/ Prepare(w) \/ FixContext(w) \/ OpenStream(w)
                \/ CapabilityCall(w) \/ TerminalFrame(w)
                \/ StreamSucceeded(w) \/ StreamFailed(w) \/ StreamBroken(w)
                \/ StreamEnded(w) \/ RetryRun(w)
                \/ DeadlinePasses(w) \/ RenewFails(w)
         PROVE  StreamOk(e)'
    <2>1. UNCHANGED <<echoStatus, canceling, finished, missed, mode>>
      BY <1>10 DEF ListRunnable, PickRun, ClaimRun, Prepare, FixContext, OpenStream,
           CapabilityCall, TerminalFrame, StreamSucceeded, StreamFailed,
           StreamBroken, StreamEnded, RetryRun, DeadlinePasses, RenewFails,
           WorkerOnly, rows
    <2>2. /\ pc' = [pc EXCEPT ![w] = pc'[w]]
          /\ job' = [job EXCEPT ![w] = job'[w]]
      BY <1>0, <1>10 DEF ListRunnable, PickRun, ClaimRun, Prepare, FixContext, OpenStream,
           CapabilityCall, TerminalFrame, StreamSucceeded, StreamFailed,
           StreamBroken, StreamEnded, RetryRun, DeadlinePasses, RenewFails,
           WorkerOnly, Settle, SchedPart, SchedTypes
    <2>3. pc[w] \in Registered => pc'[w] \in Registered /\ job'[w] = job[w]
      BY <1>0, <1>10 DEF ListRunnable, PickRun, ClaimRun, Prepare, FixContext, OpenStream,
           CapabilityCall, TerminalFrame, StreamSucceeded, StreamFailed,
           StreamBroken, StreamEnded, RetryRun, DeadlinePasses, RenewFails,
           WorkerOnly, Settle, SchedPart, SchedTypes, Registered, Executing
    <2> QED
      BY <1>1, <1>9, <2>1, <2>2, <2>3
  <1>11. ASSUME BeginShutdown \/ UNCHANGED vars PROVE StreamOk(e)'
    BY <1>1, <1>9, <1>11 DEF BeginShutdown, vars, rows, sched
  <1> QED
    BY <1>2, <1>3, <1>4, <1>5, <1>6, <1>7, <1>8, <1>10, <1>11
    DEF Next, WorkerStep, ClientStep, ProcessStep, FinishShutdown, Crash, ProcessEnds

(* finishEchoIfTerminal runs at every point after which nobody would look  *)
(* at the Echo again: a stream ends with its Echo, not before, and not     *)
(* never unless the store refused the read of the Echo that had ended.     *)
THEOREM StreamsEndWithEchoes == Spec => []StreamEndsWithEcho
  <1> DEFINE Streams == \A e \in Echoes : StreamOk(e)
  <1>1. Init => Streams
    BY DEF Init, StreamOk, EchoTerminal
  <1>2. IInv /\ Streams /\ [Next]_vars => Streams'
    BY StepStreams
  <1>3. IInv /\ Streams => StreamEndsWithEcho
    BY DEF IInv, TypeOK, ServiceTypes, StreamOk, Handled, NobodyOn, StreamEndsWithEcho,
           StreamClosesLast, StreamCloses
  <1> HIDE DEF Streams
  <1> QED
    BY <1>1, <1>2, <1>3, InvariantHolds, PTL DEF Spec

-----------------------------------------------------------------------------
(* Who ends a running row *)

Drives(w, r) == pc[w] \in Executing \union {"settle"} /\ job[w] = r

(* The terminal write of a driving worker is refused by a fault alone.     *)
LEMMA DrivenMayComplete ==
  ASSUME IInv, NEW w \in Workers, pc[w] \in Executing \union {"settle"}
  PROVE  job[w] \in Runs /\ MayComplete(w)
  <1>1. Holds(w) /\ job[w] \in Runs
    BY DEF IInv, WorkersInv, WorkerInv, Registered, Executing
  <1>2. runStatus[job[w]] = "running" /\ runEcho[job[w]] \in Echoes
    BY <1>1 DEF Holds, IInv, RowsInv, RowInv
  <1>3. RootJob(w) => echoStatus[runEcho[job[w]]] = "running"
    BY <1>1, <1>2, ActiveIsLast, Parts DEF RootJob, RootRuns, RunsOf, RunActive
  <1> QED
    BY <1>1, <1>3 DEF MayComplete

(* A row becomes running in the hands of a worker.                         *)
LEMMA RunningByClaim ==
  ASSUME IInv, [Next]_vars, NEW r \in Runs, runStatus[r] # "running",
         runStatus'[r] = "running"
  PROVE  \E w \in Workers : Drives(w, r)'
  <1>0. RowsPart /\ SchedPart
    BY Parts
  <1>1. ASSUME NEW w \in Workers, ClaimRun(w) PROVE Drives(w, r)'
    BY <1>0, <1>1 DEF ClaimRun, Drives, Executing, SchedPart, SchedTypes,
                      RowsPart, RowTypes
  <1>2. ASSUME NEW w \in Workers, CompleteRun(w) PROVE FALSE
    BY <1>0, <1>2 DEF CompleteRun, MayComplete, Holds, RowsPart, RowTypes
  <1>3. ASSUME NEW w \in Workers, RetryRun(w) PROVE FALSE
    BY <1>0, <1>3 DEF RetryRun, RowsPart, RowTypes
  <1>4. ASSUME NEW w \in Workers, CapabilityCall(w) PROVE FALSE
    BY <1>0, <1>4 DEF CapabilityCall, CreateChildRun, RowsPart, RowTypes, rows
  <1>5. ASSUME NEW w \in Workers, ListRunnable(w) PROVE FALSE
    BY <1>5 DEF ListRunnable
  <1>6. ASSUME NEW e \in Echoes, CreateEcho(e) \/ CancelQueuedRun(e) PROVE FALSE
    BY <1>0, <1>6 DEF CreateEcho, CancelQueuedRun, RowsPart, RowTypes, rows
  <1>7. ASSUME FinishShutdown \/ Recover PROVE FALSE
    BY <1>7 DEF FinishShutdown, CancelQueuedRuns, Recover, Reconciled
  <1> QED
    BY <1>1, <1>2, <1>3, <1>4, <1>5, <1>6, <1>7
    DEF Next, WorkerStep, ClientStep, ProcessStep, vars, rows, CancelActive,
        PickRun, Prepare, FixContext, OpenStream, WorkerOnly, TerminalFrame,
        StreamSucceeded, StreamFailed, StreamBroken, StreamEnded,
        DeadlinePasses, RenewFails, ReleaseJob, BeginShutdown, Crash

(* A worker lets go of a running row by its terminal write only.           *)
LEMMA DriverStays ==
  ASSUME IInv, [Next]_vars, NEW w \in Workers, NEW r \in Runs, Drives(w, r)
  PROVE  \/ Drives(w, r)' \/ mode' = "down"
         \/ CompleteRun(w) \/ RetryRun(w)
  <1>0. SchedPart
    BY Parts
  <1>1. CASE UNCHANGED <<pc, job>>
    BY <1>1 DEF Drives
  <1>2. ASSUME NEW v \in Workers,
               \/ ListRunnable(v) \/ PickRun(v) \/ ClaimRun(v)
               \/ Prepare(v) \/ FixContext(v) \/ OpenStream(v)
               \/ StreamSucceeded(v) \/ StreamFailed(v) \/ StreamBroken(v)
               \/ StreamEnded(v) \/ ReleaseJob(v)
        PROVE  Drives(w, r)'
    <2>1. CASE v # w
      BY <1>0, <1>2, <2>1
         DEF Drives, ListRunnable, PickRun, ClaimRun, Prepare, FixContext,
             OpenStream, StreamSucceeded, StreamFailed, StreamBroken,
             StreamEnded, ReleaseJob, WorkerOnly, Settle, SchedPart, SchedTypes
    <2>2. CASE v = w
      BY <1>0, <1>2, <2>2
         DEF Drives, Executing, ListRunnable, PickRun, ClaimRun, Prepare,
             FixContext, OpenStream, StreamSucceeded, StreamFailed,
             StreamBroken, StreamEnded, ReleaseJob, WorkerOnly, Settle,
             SchedPart, SchedTypes
    <2> QED
      BY <2>1, <2>2
  <1>3. ASSUME NEW v \in Workers, v # w, CompleteRun(v) \/ RetryRun(v)
        PROVE  Drives(w, r)'
    BY <1>0, <1>3 DEF Drives, CompleteRun, RetryRun, SchedPart, SchedTypes
  <1> QED
    BY <1>1, <1>2, <1>3
    DEF Next, WorkerStep, ClientStep, ProcessStep, vars, rows, sched, CreateEcho,
        CancelQueuedRun, CancelActive, WorkerOnly, TerminalFrame, CapabilityCall,
        DeadlinePasses, RenewFails, BeginShutdown, FinishShutdown, Crash,
        ProcessEnds, Recover

(* A terminal write ends the row, or a fault keeps it running.             *)
LEMMA DriverEnds ==
  ASSUME IInv, NEW w \in Workers, CompleteRun(w) \/ RetryRun(w)
  PROVE  \/ runStatus'[job[w]] # "running"
         \/ StoreFaults
         \/ pc'[w] = "settle" /\ job'[w] = job[w]
  <1>0. RowsPart /\ SchedPart /\ job[w] \in Runs /\ MayComplete(w)
    BY Parts, DrivenMayComplete DEF CompleteRun, RetryRun
  <1>1. CASE CompleteRun(w)
    <2>1. verdict[w] \in RunTerminal
      BY <1>0, <1>1 DEF CompleteRun, SchedPart, SchedTypes, Verdicts, WorkersInv, WorkerInv
    <2> QED
      BY <1>0, <1>1, <2>1 DEF CompleteRun, RowsPart, RowTypes, RunTerminal
  <1>2. CASE RetryRun(w)
    BY <1>0, <1>2 DEF RetryRun, MayComplete, RowsPart, RowTypes, Fresh, Holds,
                      SchedPart, SchedTypes
  <1> QED
    BY <1>1, <1>2

(* While the process is up, the only way a running row is left without a   *)
(* worker is a terminal write the store has refused: a claim takes the row *)
(* with its worker, and what ends the worker ends the row.                 *)
THEOREM RunningRunsStayDriven == Spec => RunningRunIsDriven
  <1> DEFINE Keeps == \A r \in Runs : ~Left(r) /\ Left(r)' =>
                 StoreFaults /\ \E w \in Workers : pc[w] = "settle" /\ job[w] = r
  <1>1. ASSUME IInv, [Next]_vars PROVE Keeps
    <2> SUFFICES ASSUME NEW r \in Runs, ~Left(r), Left(r)'
                 PROVE  StoreFaults /\ \E w \in Workers : pc[w] = "settle" /\ job[w] = r
      OBVIOUS
    <2>1. /\ mode' # "down" /\ runStatus'[r] = "running"
          /\ \A w \in Workers : ~Drives(w, r)'
      BY DEF Left, Drives
    <2>2. runStatus[r] = "running"
      BY <1>1, <2>1, RunningByClaim
    <2>3. mode # "down"
      <3>1. SUFFICES ASSUME mode = "down" PROVE FALSE
        OBVIOUS
      <3>2. \A w \in Workers : pc[w] = "idle"
        BY <1>1, <3>1 DEF IInv, ModeInv
      <3>3. ~Recover
        BY <2>1, <2>2 DEF Recover, Reconciled, Abandoned
      <3>4. mode' = mode
        BY <1>1, <3>1, <3>2, <3>3
        DEF Next, WorkerStep, ClientStep, ProcessStep, vars, CreateEcho,
            CancelQueuedRun, CancelActive, ListRunnable, PickRun, ClaimRun,
            Prepare, FixContext, OpenStream, WorkerOnly, TerminalFrame,
            CapabilityCall, StreamSucceeded, StreamFailed, StreamBroken,
            StreamEnded, CompleteRun, RetryRun, ReleaseJob, DeadlinePasses,
            RenewFails, BeginShutdown, FinishShutdown, Crash
      <3> QED
        BY <2>1, <3>1, <3>4
    <2>4. PICK w \in Workers : Drives(w, r)
      BY <2>2, <2>3 DEF Left, Drives
    <2>5. CompleteRun(w) \/ RetryRun(w)
      BY <1>1, <2>1, <2>4, DriverStays
    <2>6. pc[w] = "settle" /\ job[w] = r
      BY <2>4, <2>5 DEF CompleteRun, RetryRun, Drives
    <2>7. StoreFaults
      BY <1>1, <2>1, <2>5, <2>6, DriverEnds DEF Drives
    <2> QED
      BY <2>6, <2>7
  <1>2. IInv /\ [Next]_vars => [Keeps]_vars
    BY <1>1
  <1> QED
    BY <1>2, InvariantHolds, PTL DEF Spec, RunningRunIsDriven

-----------------------------------------------------------------------------
(* Announced Runs *)

(* w is about to write that r has succeeded.                               *)
Succeeding(w, r) == pc[w] = "settle" /\ verdict[w] = "succeeded" /\ job[w] = r
AnnouncedOk(r) ==
    /\ runStatus[r] # "none" /\ runParent[r] = NoRun
    /\ \/ runStatus[r] = "running" /\ \E w \in Workers : Succeeding(w, r)
       \/ runStatus[r] = "succeeded" /\ echoStatus[runEcho[r]] = "succeeded"

(* In the first life of a process whose store works.                       *)
AnnouncedInv ==
    /\ mode = "down" => stops > 0
    /\ stops = 0 /\ ~StoreFaults => \A r \in announced : AnnouncedOk(r)

(* A success once written stays.                                           *)
LEMMA SuccessStays ==
  ASSUME IInv, [Next]_vars, NEW r \in Runs, AnnouncedOk(r), runStatus[r] = "succeeded"
  PROVE  AnnouncedOk(r)'
  <1>1. /\ runStatus'[r] = "succeeded" /\ RowStays(r)
        /\ runEcho[r] \in Echoes /\ EchoMove(runEcho[r])
    BY StepMoves, RowsStay DEF Moves, RunMove, RunTerminal, IInv, RowsInv, RowInv
  <1> QED
    BY <1>1 DEF RowStays, AnnouncedOk, EchoMove, EchoTerminal

(* The write of a worker that is about to succeed succeeds.                *)
LEMMA SuccessIsWritten ==
  ASSUME IInv, NEW w \in Workers, NEW r \in Runs, Succeeding(w, r), runParent[r] = NoRun,
         ~StoreFaults, CompleteRun(w)
  PROVE  AnnouncedOk(r)'
  <1>1. MayComplete(w) /\ RowsPart /\ runEcho[r] \in Echoes
    BY Parts, DrivenMayComplete
       DEF Succeeding, MayComplete, Holds, IInv, RowsInv, RowInv
  <1> QED
    BY <1>1 DEF CompleteRun, Succeeding, RootJob, EchoOutcome, AnnouncedOk, RowsPart, RowTypes

(* Nobody but its worker touches a row that is about to succeed.           *)
LEMMA SuccessIsAwaited ==
  ASSUME IInv, [Next]_vars, NEW w \in Workers, NEW r \in Runs, Succeeding(w, r),
         mode' # "down", ~CompleteRun(w)
  PROVE  Succeeding(w, r)'
  <1>0. SchedPart
    BY Parts
  <1>1. CASE UNCHANGED <<pc, job, verdict>>
    BY <1>1 DEF Succeeding
  <1>2. ASSUME NEW v \in Workers,
               \/ ListRunnable(v) \/ PickRun(v) \/ ClaimRun(v)
               \/ Prepare(v) \/ FixContext(v) \/ OpenStream(v)
               \/ StreamSucceeded(v) \/ StreamFailed(v) \/ StreamBroken(v)
               \/ StreamEnded(v) \/ ReleaseJob(v) \/ RetryRun(v)
        PROVE  Succeeding(w, r)'
    <2>1. v # w
      BY <1>2 DEF Succeeding, ListRunnable, PickRun, ClaimRun, Prepare, FixContext,
             OpenStream, StreamSucceeded, StreamFailed, StreamBroken,
             StreamEnded, ReleaseJob, RetryRun
    <2> QED
      BY <1>0, <1>2, <2>1
         DEF Succeeding, ListRunnable, PickRun, ClaimRun, Prepare, FixContext,
             OpenStream, StreamSucceeded, StreamFailed, StreamBroken,
             StreamEnded, ReleaseJob, RetryRun, WorkerOnly, Settle, SchedPart, SchedTypes
  <1>3. ASSUME NEW v \in Workers, v # w, CompleteRun(v) PROVE Succeeding(w, r)'
    BY <1>0, <1>3 DEF Succeeding, CompleteRun, SchedPart, SchedTypes
  <1> QED
    BY <1>1, <1>2, <1>3
    DEF Next, WorkerStep, ClientStep, ProcessStep, vars, rows, sched, CreateEcho,
        CancelQueuedRun, CancelActive, WorkerOnly, TerminalFrame, CapabilityCall,
        DeadlinePasses, RenewFails, BeginShutdown, FinishShutdown, Crash,
        ProcessEnds, Recover

(* Every step keeps what was announced true.                               *)
LEMMA StepAnnounced == ASSUME IInv, AnnouncedInv, [Next]_vars PROVE AnnouncedInv'
  <1>0. RowsPart /\ SchedPart /\ IInv' /\ stops \in Nat
    <2>1. stops \in 0..MaxStops
      BY DEF IInv, TypeOK, ServiceTypes
    <2>2. stops \in Nat
      BY <2>1, ConstantsAssumption
    <2> QED
      BY <2>2, Parts, StepInv
  <1>1. \/ mode' = "down" /\ stops' = stops + 1
        \/ stops' = stops /\ (mode' = "down" => mode = "down")
    <2>1. CASE UNCHANGED <<mode, stops>>
      BY <2>1
    <2>2. CASE BeginShutdown \/ Recover
      BY <2>2 DEF BeginShutdown, Recover
    <2>3. CASE ProcessEnds
      BY <2>3 DEF ProcessEnds
    <2> QED
      BY <2>1, <2>2, <2>3
      DEF Next, WorkerStep, ClientStep, ProcessStep, vars, CreateEcho,
          CancelQueuedRun, CancelActive, ListRunnable, PickRun, ClaimRun,
          Prepare, FixContext, OpenStream, WorkerOnly, TerminalFrame,
          CapabilityCall, StreamSucceeded, StreamFailed, StreamBroken,
          StreamEnded, CompleteRun, RetryRun, ReleaseJob, DeadlinePasses,
          RenewFails, FinishShutdown, Crash
  <1>2. mode' = "down" => stops' > 0
    BY <1>0, <1>1 DEF AnnouncedInv
  <1>3. ASSUME stops' = 0, ~StoreFaults, NEW r \in announced' PROVE AnnouncedOk(r)'
    <2>1. stops = 0 /\ mode' # "down" /\ r \in Runs
      BY <1>0, <1>1, <1>2, <1>3 DEF IInv, TypeOK, RowTypes
    <2>2. CASE r \in announced
      <3>1. AnnouncedOk(r)
        BY <1>3, <2>1, <2>2 DEF AnnouncedInv
      <3>2. CASE runStatus[r] = "succeeded"
        BY <2>1, <3>1, <3>2, SuccessStays
      <3>3. CASE runStatus[r] # "succeeded"
        <4>1. PICK w \in Workers : Succeeding(w, r)
          BY <3>1, <3>3 DEF AnnouncedOk
        <4>2. CASE CompleteRun(w)
          BY <1>3, <2>1, <3>1, <4>1, <4>2, SuccessIsWritten DEF AnnouncedOk
        <4>3. CASE ~CompleteRun(w)
          <5>1. Succeeding(w, r)' /\ RowStays(r)
            BY <2>1, <4>1, <4>3, SuccessIsAwaited, RowsStay
          <5>2. runStatus'[r] = "running"
            BY <1>0, <5>1 DEF IInv, WorkersInv, WorkerInv, Holds, Succeeding
          <5> QED
            BY <3>1, <5>1, <5>2 DEF AnnouncedOk, RowStays
        <4> QED
          BY <4>2, <4>3
      <3> QED
        BY <3>2, <3>3
    <2>3. CASE r \notin announced
      <3>1. PICK w \in Workers : StreamSucceeded(w)
        BY <1>3, <2>3
        DEF Next, WorkerStep, ClientStep, ProcessStep, vars, rows, CreateEcho,
            CancelQueuedRun, CancelActive, ListRunnable, PickRun, ClaimRun,
            Prepare, FixContext, OpenStream, WorkerOnly, TerminalFrame,
            CapabilityCall, StreamFailed, StreamBroken,
            StreamEnded, CompleteRun, RetryRun, ReleaseJob, DeadlinePasses,
            RenewFails, BeginShutdown, FinishShutdown, Crash, Recover
      <3>2. r = job[w] /\ RootJob(w)
        BY <2>3, <3>1 DEF StreamSucceeded
      <3>3. runStatus[r] = "running"
        BY <3>1, <3>2 DEF StreamSucceeded, IInv, WorkersInv, WorkerInv, Holds, Executing
      <3>4. UNCHANGED <<runStatus, runParent>> /\ Succeeding(w, r)'
        BY <1>0, <3>1, <3>2
           DEF StreamSucceeded, Settle, Succeeding, SchedPart, SchedTypes
      <3> QED
        BY <3>2, <3>3, <3>4 DEF AnnouncedOk, RootJob
    <2> QED
      BY <2>2, <2>3
  <1> QED
    BY <1>2, <1>3 DEF AnnouncedInv

(* run.completed is persisted one step before the success it announces:    *)
(* neither a cancellation, a second worker nor a late failure comes in     *)
(* between while the process lives and the store takes its writes.         *)
THEOREM AnnouncedRunsSucceed == Spec => []AnnouncedRunSucceeds
  <1>1. Init => AnnouncedInv
    BY DEF Init, AnnouncedInv
  <1>2. IInv /\ AnnouncedInv /\ [Next]_vars => AnnouncedInv'
    BY StepAnnounced
  <1>3. AnnouncedInv => AnnouncedRunSucceeds
    BY DEF AnnouncedInv, AnnouncedOk, AnnouncedRunSucceeds
  <1> QED
    BY <1>1, <1>2, <1>3, InvariantHolds, PTL DEF Spec

-----------------------------------------------------------------------------
(* The last word *)

(* w executes nothing, and is not about to queue a retry.                  *)
OffStream(w) ==
    \/ pc[w] \in {"claim", "release"}
    \/ pc[w] = "settle" /\ verdict[w] # "retry"

(* r has been announced: it is its root's last attempt, and its worker is  *)
(* past the stream.                                                        *)
LastWord(r) ==
    /\ runStatus[r] \notin {"none", "queued"} /\ runParent[r] = NoRun
    /\ \A w \in Workers : job[w] = r => OffStream(w)
    /\ \A q \in Runs : SameRoot(q, r) => runAttempt[q] <= runAttempt[r]
LastWords == \A r \in announced : LastWord(r)

(* Only a fresh row is queued.                                             *)
LEMMA QueuedIsNew ==
  ASSUME IInv, [Next]_vars, NEW r \in Runs, runStatus[r] \notin {"none", "queued"}
  PROVE  runStatus'[r] \notin {"none", "queued"}
  <1>0. RowsPart /\ SchedPart /\ RowStays(r)
    BY Parts, RowsStay
  <1>1. ASSUME NEW w \in Workers, CompleteRun(w) PROVE runStatus'[r] # "queued"
    BY <1>0, <1>1 DEF CompleteRun, RowsPart, RowTypes, SchedPart, SchedTypes, Verdicts, RunTerminal
  <1>2. ASSUME NEW w \in Workers, RetryRun(w) PROVE runStatus'[r] # "queued"
    BY <1>0, <1>2 DEF RetryRun, RowsPart, RowTypes, Fresh
  <1>3. ASSUME NEW w \in Workers, CapabilityCall(w) PROVE runStatus'[r] # "queued"
    BY <1>0, <1>3 DEF CapabilityCall, CreateChildRun, RowsPart, RowTypes, Fresh, rows
  <1>4. ASSUME NEW w \in Workers, ClaimRun(w) \/ ListRunnable(w)
        PROVE  runStatus'[r] # "queued"
    BY <1>0, <1>4 DEF ClaimRun, ListRunnable, RowsPart, RowTypes
  <1>5. ASSUME NEW e \in Echoes, CreateEcho(e) \/ CancelQueuedRun(e)
        PROVE  runStatus'[r] # "queued"
    BY <1>0, <1>5 DEF CreateEcho, CancelQueuedRun, RowsPart, RowTypes, Fresh, rows
  <1>6. ASSUME FinishShutdown \/ Recover PROVE runStatus'[r] # "queued"
    BY <1>6 DEF FinishShutdown, CancelQueuedRuns, Recover, Reconciled
  <1>7. runStatus'[r] # "queued"
    BY <1>1, <1>2, <1>3, <1>4, <1>5, <1>6
    DEF Next, WorkerStep, ClientStep, ProcessStep, vars, rows, CancelActive,
        PickRun, Prepare, FixContext, OpenStream, WorkerOnly, TerminalFrame,
        StreamSucceeded, StreamFailed, StreamBroken, StreamEnded,
        DeadlinePasses, RenewFails, ReleaseJob, BeginShutdown, Crash
  <1> QED
    BY <1>0, <1>7 DEF RowStays

(* A worker that comes to a Run which was announced does not get at it.    *)
LEMMA WorkersKeepOff ==
  ASSUME IInv, [Next]_vars, NEW r \in Runs, LastWord(r), NEW w \in Workers, job'[w] = r
  PROVE  OffStream(w)'
  <1>0. SchedPart /\ r # NoRun
    BY Parts, ConstantsAssumption
  <1>1. CASE UNCHANGED <<pc, job, verdict>>
    BY <1>1 DEF LastWord, OffStream
  <1>2. ASSUME NEW v \in Workers,
               \/ ListRunnable(v) \/ PickRun(v) \/ ClaimRun(v)
               \/ Prepare(v) \/ FixContext(v) \/ OpenStream(v)
               \/ StreamSucceeded(v) \/ StreamFailed(v) \/ StreamBroken(v)
               \/ StreamEnded(v) \/ CompleteRun(v) \/ RetryRun(v) \/ ReleaseJob(v)
        PROVE  OffStream(w)'
    <2>1. CASE v # w
      <3>1. pc'[w] = pc[w] /\ job'[w] = job[w] /\ verdict'[w] = verdict[w]
        BY <1>0, <1>2, <2>1
           DEF ListRunnable, PickRun, ClaimRun, Prepare, FixContext,
               OpenStream, StreamSucceeded, StreamFailed, StreamBroken,
               StreamEnded, CompleteRun, RetryRun, ReleaseJob, WorkerOnly, Settle,
               SchedPart, SchedTypes
      <3> QED
        BY <3>1 DEF LastWord, OffStream
    <2>2. CASE v = w /\ job[w] = r
      <3>1. OffStream(w)
        BY <2>2 DEF LastWord
      <3>2. ClaimRun(w) \/ CompleteRun(w) \/ ReleaseJob(w)
        BY <1>2, <2>2, <3>1
           DEF ListRunnable, PickRun, Prepare, FixContext,
               OpenStream, StreamSucceeded, StreamFailed, StreamBroken,
               StreamEnded, RetryRun, OffStream
      <3>3. ~ReleaseJob(w)
        BY <1>0 DEF ReleaseJob, SchedPart, SchedTypes
      <3>4. runStatus[r] # "queued"
        BY DEF LastWord
      <3> QED
        BY <1>0, <2>2, <3>1, <3>2, <3>3, <3>4
           DEF ClaimRun, CompleteRun, SchedPart, SchedTypes, OffStream
    <2>3. CASE v = w /\ job[w] # r
      <3>1. PickRun(w)
        BY <1>2, <2>3, <1>0
           DEF ListRunnable, ClaimRun, Prepare, FixContext,
               OpenStream, StreamSucceeded, StreamFailed, StreamBroken,
               StreamEnded, CompleteRun, RetryRun, ReleaseJob, WorkerOnly,
               SchedPart, SchedTypes
      <3> QED
        BY <1>0, <2>3, <3>1 DEF PickRun, SchedPart, SchedTypes, OffStream
    <2> QED
      BY <2>1, <2>2, <2>3
  <1>3. CASE ProcessEnds
    BY <1>0, <1>3 DEF ProcessEnds
  <1> QED
    BY <1>1, <1>2, <1>3
    DEF Next, WorkerStep, ClientStep, ProcessStep, vars, rows, sched, CreateEcho,
        CancelQueuedRun, CancelActive, TerminalFrame, CapabilityCall,
        DeadlinePasses, RenewFails, BeginShutdown, FinishShutdown, Crash, Recover

(* A row that is inserted is no attempt behind one that was announced.     *)
LEMMA NoneComesAfter ==
  ASSUME IInv, [Next]_vars, NEW r \in Runs, LastWord(r), NEW q \in Runs,
         runStatus[q] = "none"
  PROVE  ~SameRoot(q, r)'
  <1>0. /\ RowsPart /\ SchedPart /\ RowStays(r) /\ r # q
        /\ runEcho[r] \in Echoes /\ echoStatus[runEcho[r]] # "none"
        /\ runEcho[q] = NoEcho /\ runEcho[r] # NoEcho
    BY Parts, RowsStay, ConstantsAssumption DEF LastWord, IInv, RowsInv, RowInv
  <1>1. runEcho'[r] = runEcho[r] /\ runParent'[r] = NoRun
    BY <1>0 DEF RowStays, LastWord
  <1>2. ASSUME NEW e \in Echoes, CreateEcho(e) PROVE ~SameRoot(q, r)'
    <2>1. e # runEcho[r] /\ runEcho'[q] \in {NoEcho, e}
      BY <1>0, <1>2 DEF CreateEcho, InsertRun, RowsPart, RowTypes, Fresh
    <2> QED
      BY <1>0, <1>1, <2>1 DEF SameRoot
  <1>3. ASSUME NEW w \in Workers, CapabilityCall(w) PROVE ~SameRoot(q, r)'
    <2>1. CASE UNCHANGED runEcho
      BY <1>0, <1>1, <2>1 DEF SameRoot
    <2>2. CASE \E c \in Calls : CreateChildRun(w, c)
      <3>1. job[w] # NoRun
        BY <1>0, <1>3, ConstantsAssumption
           DEF CapabilityCall, SchedPart, WorkersInv, WorkerInv, Registered, Executing
      <3>2. runEcho'[q] = NoEcho \/ runParent'[q] = job[w]
        BY <1>0, <2>2 DEF CreateChildRun, InsertRun, RowsPart, RowTypes, Fresh
      <3> QED
        BY <1>0, <1>1, <3>1, <3>2 DEF SameRoot
    <2> QED
      BY <1>3, <2>1, <2>2 DEF CapabilityCall, rows
  <1>4. ASSUME NEW w \in Workers, RetryRun(w) PROVE ~SameRoot(q, r)'
    <2>1. CASE UNCHANGED runEcho
      BY <1>0, <1>1, <2>1 DEF SameRoot
    <2>2. CASE ~UNCHANGED runEcho
      <3> DEFINE p == job[w]
      <3>1. /\ p \in Runs /\ p # r /\ runStatus[p] = "running"
        BY <1>0, <1>4 DEF RetryRun, LastWord, OffStream, Holds, SchedPart, WorkersInv, WorkerInv, Registered
      <3>2. PICK n \in Fresh :
              InsertRun(n, runEcho[p], runParent[p], originCall[p], runAttempt[p] + 1)
        BY <1>4, <2>2 DEF RetryRun
      <3>3. \/ runEcho'[q] = NoEcho
            \/ runEcho'[q] = runEcho[p] /\ runParent'[q] = runParent[p]
        BY <1>0, <3>2 DEF InsertRun, RowsPart, RowTypes, Fresh
      <3>4. ~SameRoot(p, r)
        <4> SUFFICES ASSUME SameRoot(p, r) PROVE FALSE
          OBVIOUS
        <4>1. /\ runAttempt[p] <= runAttempt[r] /\ runAttempt[p] # runAttempt[r]
              /\ ~(runAttempt[p] < runAttempt[r])
          BY <3>1 DEF LastWord, IInv, AttemptsInv, AttemptPair
        <4>2. runAttempt[p] \in Nat /\ runAttempt[r] \in Nat
          BY <1>0, <3>1, ConstantsAssumption DEF RowsPart, RowTypes
        <4> QED
          BY <4>1, <4>2
      <3> QED
        BY <1>0, <1>1, <3>3, <3>4 DEF SameRoot, LastWord
    <2> QED
      BY <2>1, <2>2
  <1>5. CASE UNCHANGED runEcho
    BY <1>0, <1>1, <1>5 DEF SameRoot
  <1> QED
    BY <1>2, <1>3, <1>4, <1>5
    DEF Next, WorkerStep, ClientStep, ProcessStep, vars, rows, CancelActive,
        CancelQueuedRun, ListRunnable, ClaimRun, CompleteRun, FinishShutdown,
        Recover, PickRun, Prepare, FixContext, OpenStream, WorkerOnly,
        TerminalFrame, StreamSucceeded, StreamFailed, StreamBroken, StreamEnded,
        DeadlinePasses, RenewFails, ReleaseJob, BeginShutdown, Crash

(* What is announced now is announced by the worker that holds the row.    *)
LEMMA NewWord ==
  ASSUME IInv, NEW w \in Workers, StreamSucceeded(w), RootJob(w), NEW r, r = job[w]
  PROVE  LastWord(r)'
  <1>0. RowsPart /\ SchedPart /\ r \in Runs /\ r # NoRun
    BY Parts, ConstantsAssumption
       DEF StreamSucceeded, SchedPart, WorkersInv, WorkerInv, Registered, Executing
  <1>1. /\ UNCHANGED <<runStatus, runParent, runEcho, runAttempt, job>>
        /\ runStatus[r] = "running" /\ runParent[r] = NoRun
    BY <1>0 DEF StreamSucceeded, SchedPart, WorkersInv, WorkerInv, Holds, Executing, RootJob
  <1>2. ASSUME NEW v \in Workers, job'[v] = r
        PROVE  OffStream(v)'
    <2>1. v = w
      BY <1>0, <1>1, <1>2 DEF SchedPart, JobsInv
    <2> QED
      BY <1>0, <2>1 DEF StreamSucceeded, Settle, SchedPart, SchedTypes, OffStream
  <1>3. ASSUME NEW q \in Runs, SameRoot(q, r) PROVE runAttempt[q] <= runAttempt[r]
    <2>1. SameRoot(r, q)
      BY <1>3 DEF SameRoot
    <2>2. ~(runAttempt[r] < runAttempt[q])
      BY <1>0, <1>1, <2>1 DEF IInv, AttemptsInv, AttemptPair
    <2>3. runAttempt[q] \in Nat /\ runAttempt[r] \in Nat
      BY <1>0, ConstantsAssumption DEF RowsPart, RowTypes
    <2> QED
      BY <2>2, <2>3
  <1> QED
    BY <1>1, <1>2, <1>3 DEF LastWord, SameRoot

(* Every step leaves the last word to who had it.                          *)
LEMMA StepLastWords == ASSUME IInv, LastWords, [Next]_vars PROVE LastWords'
  <1>0. RowsPart /\ SchedPart /\ announced' \subseteq Runs
    BY Parts, StepInv DEF IInv, TypeOK, RowTypes
  <1> SUFFICES ASSUME NEW r \in announced' PROVE LastWord(r)'
    BY DEF LastWords
  <1>1. CASE r \in announced
    <2>1. r \in Runs /\ LastWord(r) /\ RowStays(r)
      BY <1>0, <1>1, RowsStay DEF LastWords
    <2>2. runStatus'[r] \notin {"none", "queued"} /\ runParent'[r] = NoRun
      BY <2>1, QueuedIsNew DEF LastWord, RowStays
    <2>3. ASSUME NEW q \in Runs, SameRoot(q, r)'
          PROVE  runAttempt'[q] <= runAttempt'[r]
      <3>1. runStatus[q] # "none"
        BY <2>1, <2>3, NoneComesAfter
      <3>2. RowStays(q) /\ SameRoot(q, r)
        BY <2>1, <2>3, <3>1, RowsStay DEF SameRoot, RowStays, LastWord
      <3> QED
        BY <2>1, <3>1, <3>2 DEF RowStays, LastWord
    <2> QED
      BY <2>1, <2>2, <2>3, WorkersKeepOff DEF LastWord
  <1>2. CASE r \notin announced
    <2>1. PICK w \in Workers : StreamSucceeded(w)
      BY <1>2
      DEF Next, WorkerStep, ClientStep, ProcessStep, vars, rows, CreateEcho,
          CancelQueuedRun, CancelActive, ListRunnable, PickRun, ClaimRun,
          Prepare, FixContext, OpenStream, WorkerOnly, TerminalFrame,
          CapabilityCall, StreamFailed, StreamBroken,
          StreamEnded, CompleteRun, RetryRun, ReleaseJob, DeadlinePasses,
          RenewFails, BeginShutdown, FinishShutdown, Crash, Recover
    <2>2. r = job[w] /\ RootJob(w)
      BY <1>2, <2>1 DEF StreamSucceeded
    <2> QED
      BY <2>1, <2>2, NewWord
  <1> QED
    BY <1>1, <1>2

(* After run.completed no attempt of the Echo waits or executes, over any  *)
(* faults, shutdowns, crashes and recoveries, so that the event is the     *)
(* last of its Echo and the only one of its kind (orchestrator.go:534).    *)
THEOREM CompletedStaysLast == Spec => []CompletedIsLast
  <1>1. Init => LastWords
    BY DEF Init, LastWords
  <1>2. IInv /\ LastWords /\ [Next]_vars => LastWords'
    BY StepLastWords
  <1>3. ASSUME IInv, LastWords PROVE CompletedIsLast
    <2>0. RowsPart /\ SchedPart
      BY <1>3, Parts
    <2>1. ASSUME NEW r \in announced
          PROVE  r \in Runs /\ LastWord(r) /\ runEcho[r] # NoEcho
      BY <1>3, <2>0, ConstantsAssumption DEF LastWords, LastWord, RowsPart, RowTypes, RowsInv, RowInv
    <2>2. ASSUME NEW r \in announced, NEW q \in Runs, runEcho[q] = runEcho[r],
                 runParent[q] = NoRun, q # r
          PROVE  runStatus[q] = "failed" /\ q \notin announced
      <3>1. SameRoot(q, r) /\ SameRoot(r, q)
        BY <2>1, <2>2 DEF SameRoot, LastWord
      <3>2. /\ runAttempt[q] <= runAttempt[r] /\ runAttempt[q] # runAttempt[r]
            /\ runAttempt[q] < runAttempt[r] => runStatus[q] = "failed"
            /\ q \in announced => runAttempt[r] <= runAttempt[q]
        BY <1>3, <2>1, <2>2, <3>1 DEF LastWords, LastWord, IInv, AttemptsInv, AttemptPair
      <3>3. runAttempt[q] \in Nat /\ runAttempt[r] \in Nat
        BY <2>0, <2>1, ConstantsAssumption DEF RowsPart, RowTypes
      <3> QED
        BY <3>2, <3>3
    <2>3. ASSUME NEW r \in announced, NEW w \in Workers, pc[w] \in Executing, RootJob(w),
                 runEcho[job[w]] = runEcho[r]
          PROVE  FALSE
      <3>1. job[w] \in Runs /\ runStatus[job[w]] = "running"
        BY <2>0, <2>3 DEF SchedPart, WorkersInv, WorkerInv, Registered, Executing, Holds
      <3>2. job[w] = r
        BY <2>2, <2>3, <3>1 DEF RootJob
      <3> QED
        BY <2>1, <2>3, <3>2 DEF LastWord, OffStream, Executing
    <2> QED
      BY <2>1, <2>2, <2>3 DEF CompletedIsLast, RootRuns, RunsOf, LastWord
  <1> QED
    BY <1>1, <1>2, <1>3, InvariantHolds, PTL DEF Spec

-----------------------------------------------------------------------------
(* The queue *)

(* What a step may do to the Runs that wait or run: end some; accept an    *)
(* Echo; put a new attempt in the place of another; or add a child.        *)
Accepts(n) ==
    /\ ActiveRuns' \subseteq ActiveRuns \union {n} /\ runParent'[n] = NoRun
    /\ QueueCapacity > 0 => Cardinality(ActiveRuns) < QueueCapacity
Replaces(q, n) ==
    /\ ActiveRuns' \subseteq (ActiveRuns \ {q}) \union {n}
    /\ q \in ActiveRoots /\ runParent'[n] = NoRun
Adds(p, n) ==
    /\ ActiveRuns' \subseteq ActiveRuns \union {n} /\ runParent'[n] = p /\ p # NoRun
    /\ Cardinality(ActiveChildren(p)) < MaxChildren
QueueMove ==
    \/ ActiveRuns' \subseteq ActiveRuns
    \/ \E n \in Fresh : Accepts(n) \/ \E q \in Runs : Replaces(q, n) \/ Adds(q, n)

(* A row that is filled gets the parent it is given.                       *)
LEMMA InsertParent ==
  ASSUME RowsPart, NEW n \in Fresh, NEW e, NEW p, NEW c, NEW a, InsertRun(n, e, p, c, a)
  PROVE  runParent'[n] = p
  BY DEF InsertRun, Fresh, RowsPart, RowTypes

LEMMA QueueMoves == ASSUME IInv, [Next]_vars PROVE QueueMove
  <1>0. RowsPart /\ SchedPart
    BY Parts
  <1>1. ASSUME NEW e \in Echoes, CreateEcho(e) PROVE QueueMove
    <2>1. PICK n \in Fresh : /\ runStatus' = [runStatus EXCEPT ![n] = "queued"]
                             /\ InsertRun(n, e, NoRun, {}, 1)
      BY <1>1 DEF CreateEcho
    <2>2. ActiveRuns' \subseteq ActiveRuns \union {n}
      BY <1>0, <2>1 DEF ActiveRuns, RowsPart, RowTypes
    <2>3. Accepts(n)
      BY <1>0, <1>1, <2>1, <2>2, InsertParent DEF Accepts, CreateEcho
    <2> QED
      BY <2>3 DEF QueueMove
  <1>2. ASSUME NEW w \in Workers, CapabilityCall(w) PROVE QueueMove
    <2>1. CASE UNCHANGED runStatus
      BY <2>1 DEF QueueMove, ActiveRuns
    <2>2. CASE \E c \in Calls : CreateChildRun(w, c)
      <3>1. job[w] \in Runs
        BY <1>0, <1>2 DEF CapabilityCall, SchedPart, WorkersInv, WorkerInv, Registered, Executing
      <3>2. PICK c \in Calls, n \in Fresh :
              /\ runStatus' = [runStatus EXCEPT ![n] = "queued"]
              /\ InsertRun(n, runEcho[job[w]], job[w], {c}, 1)
              /\ Cardinality(ActiveChildren(job[w])) < MaxChildren
        BY <2>2 DEF CreateChildRun
      <3>3. ActiveRuns' \subseteq ActiveRuns \union {n}
        BY <1>0, <3>2 DEF ActiveRuns, RowsPart, RowTypes
      <3>4. Adds(job[w], n)
        BY <1>0, <3>1, <3>2, <3>3, InsertParent, ConstantsAssumption DEF Adds
      <3> QED
        BY <3>1, <3>4 DEF QueueMove
    <2> QED
      BY <1>2, <2>1, <2>2 DEF CapabilityCall, rows
  <1>3. ASSUME NEW w \in Workers, RetryRun(w) PROVE QueueMove
    <2>1. CASE UNCHANGED runStatus
      BY <2>1 DEF QueueMove, ActiveRuns
    <2>2. CASE ~UNCHANGED runStatus
      <3>1. /\ job[w] \in Runs /\ runStatus[job[w]] = "running"
            /\ OriginFree(runParent[job[w]], originCall[job[w]])
        BY <1>0, <1>3, <2>2 DEF RetryRun, Holds, SchedPart, WorkersInv, WorkerInv, Registered
      <3>2. job[w] \in ActiveRoots
        BY <3>1 DEF OriginFree, ActiveRoots, ActiveRuns, RunActive
      <3>3. PICK n \in Fresh :
              /\ runStatus' = [runStatus EXCEPT ![job[w]] = "failed", ![n] = "queued"]
              /\ InsertRun(n, runEcho[job[w]], runParent[job[w]],
                           originCall[job[w]], runAttempt[job[w]] + 1)
        BY <1>3, <2>2 DEF RetryRun
      <3>4. runParent'[n] = NoRun
        BY <1>0, <3>2, <3>3, InsertParent DEF ActiveRoots
      <3>5. ActiveRuns' \subseteq (ActiveRuns \ {job[w]}) \union {n}
        BY <1>0, <3>1, <3>3 DEF ActiveRuns, RunActive, RowsPart, RowTypes
      <3> QED
        BY <3>1, <3>2, <3>4, <3>5 DEF QueueMove, Replaces
    <2> QED
      BY <2>1, <2>2
  <1>4. ASSUME NEW w \in Workers, ClaimRun(w) \/ ListRunnable(w) PROVE QueueMove
    <2>1. ActiveRuns' \subseteq ActiveRuns
      BY <1>0, <1>4 DEF ClaimRun, ListRunnable, ActiveRuns, RunActive, RowsPart, RowTypes
    <2> QED
      BY <2>1 DEF QueueMove
  <1>5. ASSUME NEW w \in Workers, CompleteRun(w) PROVE QueueMove
    <2>1. ActiveRuns' \subseteq ActiveRuns
      BY <1>0, <1>5 DEF CompleteRun, Verdicts, RunTerminal, ActiveRuns, RunActive,
             SchedPart, SchedTypes, RowsPart, RowTypes, MayComplete, Holds
    <2> QED
      BY <2>1 DEF QueueMove
  <1>6. ASSUME NEW e \in Echoes, CancelQueuedRun(e) PROVE QueueMove
    <2>1. ActiveRuns' \subseteq ActiveRuns
      BY <1>6 DEF CancelQueuedRun, ActiveRuns, RunActive, rows
    <2> QED
      BY <2>1 DEF QueueMove
  <1>7. ASSUME FinishShutdown \/ Recover PROVE QueueMove
    <2>1. ActiveRuns' \subseteq ActiveRuns
      BY <1>7 DEF FinishShutdown, CancelQueuedRuns, Recover, Reconciled, ActiveRuns, RunActive
    <2> QED
      BY <2>1 DEF QueueMove
  <1>8. CASE UNCHANGED runStatus
    BY <1>8 DEF QueueMove, ActiveRuns
  <1> QED
    BY <1>1, <1>2, <1>3, <1>4, <1>5, <1>6, <1>7, <1>8
    DEF Next, WorkerStep, ClientStep, ProcessStep, vars, rows, CancelActive,
        PickRun, Prepare, FixContext, OpenStream, WorkerOnly, TerminalFrame,
        StreamSucceeded, StreamFailed, StreamBroken, StreamEnded,
        DeadlinePasses, RenewFails, ReleaseJob, BeginShutdown, Crash

(* One that is added to what is finite, and one that takes another's place. *)
LEMMA OneIn ==
  ASSUME NEW S, IsFiniteSet(S), NEW T, NEW x, T \subseteq S \union {x}
  PROVE  IsFiniteSet(T) /\ Cardinality(T) <= Cardinality(S) + 1
  <1>1. /\ IsFiniteSet(S \union {x}) /\ Cardinality(S) \in Nat
        /\ Cardinality(S \union {x}) <= Cardinality(S) + 1
    <2>1. Cardinality(S) \in Nat /\ IsFiniteSet(S \union {x})
      BY FS_CardinalityType, FS_AddElement
    <2>2. \/ Cardinality(S \union {x}) = Cardinality(S)
          \/ Cardinality(S \union {x}) = Cardinality(S) + 1
      BY FS_AddElement
    <2> QED
      BY <2>1, <2>2
  <1>2. /\ IsFiniteSet(T) /\ Cardinality(T) <= Cardinality(S \union {x})
        /\ Cardinality(T) \in Nat /\ Cardinality(S \union {x}) \in Nat
    BY <1>1, FS_Subset, FS_CardinalityType
  <1> QED
    BY <1>1, <1>2

LEMMA OneForOne ==
  ASSUME NEW S, IsFiniteSet(S), NEW T, NEW x, NEW y \in S, T \subseteq (S \ {y}) \union {x}
  PROVE  Cardinality(T) <= Cardinality(S)
  <1>1. /\ IsFiniteSet(S \ {y}) /\ Cardinality(S \ {y}) = Cardinality(S) - 1
        /\ Cardinality(S) \in Nat
    BY FS_RemoveElement, FS_CardinalityType
  <1>2. IsFiniteSet(T) /\ Cardinality(T) \in Nat
    BY <1>1, OneIn, FS_CardinalityType
  <1>3. Cardinality(T) <= Cardinality(S \ {y}) + 1
    BY <1>1, OneIn
  <1> QED
    BY <1>1, <1>2, <1>3

QueueInv == IsFiniteSet(ActiveRuns) /\ QueueHolds

LEMMA StepQueue == ASSUME IInv, QueueInv, [Next]_vars PROVE QueueInv'
  <1>0. /\ RowsPart /\ \A r \in Runs : RowStays(r)
        /\ QueueCapacity \in Nat /\ MaxChildren \in Nat
        /\ \A r \in ActiveRuns : r \in Runs /\ runStatus[r] # "none" /\ r \notin Fresh
    BY Parts, RowsStay, ConstantsAssumption DEF ActiveRuns, RunActive, Fresh
  <1>1. /\ IsFiniteSet(ActiveRoots) /\ Cardinality(ActiveRoots) \in Nat
        /\ Cardinality(ActiveRoots) <= Cardinality(ActiveRuns)
        /\ Cardinality(ActiveRuns) \in Nat
    <2>1. ActiveRoots \subseteq ActiveRuns
      BY DEF ActiveRoots
    <2> QED
      BY <2>1, FS_Subset, FS_CardinalityType DEF QueueInv
  <1>2. ASSUME NEW p \in Runs
        PROVE  IsFiniteSet(ActiveChildren(p)) /\ Cardinality(ActiveChildren(p)) \in Nat
    <2>1. ActiveChildren(p) \subseteq ActiveRuns
      BY DEF ActiveChildren
    <2> QED
      BY <2>1, FS_Subset, FS_CardinalityType DEF QueueInv
  <1>3. IsFiniteSet(ActiveRuns')
    <2>1. \/ ActiveRuns' \subseteq ActiveRuns
          \/ \E n \in Fresh : ActiveRuns' \subseteq ActiveRuns \union {n}
      BY QueueMoves DEF QueueMove, Accepts, Replaces, Adds
    <2> QED
      BY <2>1, OneIn, FS_Subset DEF QueueInv
  <1>4. ASSUME QueueCapacity > 0 PROVE Cardinality(ActiveRoots') <= QueueCapacity
    <2>1. Cardinality(ActiveRoots) <= QueueCapacity
      BY <1>4 DEF QueueInv, QueueHolds
    <2>2. ASSUME ActiveRoots' \subseteq ActiveRoots
          PROVE  Cardinality(ActiveRoots') <= QueueCapacity
      <3>1. /\ Cardinality(ActiveRoots') <= Cardinality(ActiveRoots)
            /\ Cardinality(ActiveRoots') \in Nat
        BY <1>1, <2>2, FS_Subset, FS_CardinalityType
      <3> QED
        BY <1>0, <1>1, <2>1, <3>1
    <2>3. CASE ActiveRuns' \subseteq ActiveRuns
      <3>1. ActiveRoots' \subseteq ActiveRoots
        BY <1>0, <2>3 DEF ActiveRoots, RowStays
      <3> QED
        BY <2>2, <3>1
    <2>4. ASSUME NEW n \in Fresh, Accepts(n)
          PROVE  Cardinality(ActiveRoots') <= QueueCapacity
      <3>1. ActiveRoots' \subseteq ActiveRoots \union {n}
        BY <1>0, <2>4 DEF ActiveRoots, RowStays, Accepts
      <3>2. /\ Cardinality(ActiveRoots') <= Cardinality(ActiveRoots) + 1
            /\ Cardinality(ActiveRoots') \in Nat
        BY <1>1, <3>1, OneIn, FS_CardinalityType
      <3>3. Cardinality(ActiveRuns) < QueueCapacity
        BY <1>4, <2>4 DEF Accepts
      <3> QED
        BY <1>0, <1>1, <3>2, <3>3
    <2>5. ASSUME NEW n \in Fresh, NEW q \in Runs, Replaces(q, n)
          PROVE  Cardinality(ActiveRoots') <= QueueCapacity
      <3>1. ActiveRoots' \subseteq (ActiveRoots \ {q}) \union {n} /\ q \in ActiveRoots
        BY <1>0, <2>5 DEF ActiveRoots, RowStays, Replaces
      <3>2. /\ Cardinality(ActiveRoots') <= Cardinality(ActiveRoots)
            /\ Cardinality(ActiveRoots') \in Nat
        BY <1>1, <3>1, OneForOne, OneIn, FS_CardinalityType
      <3> QED
        BY <1>0, <1>1, <2>1, <3>2
    <2>6. ASSUME NEW n \in Fresh, NEW p \in Runs, Adds(p, n)
          PROVE  Cardinality(ActiveRoots') <= QueueCapacity
      <3>1. ActiveRoots' \subseteq ActiveRoots
        BY <1>0, <2>6 DEF ActiveRoots, RowStays, Adds
      <3> QED
        BY <2>2, <3>1
    <2> QED
      BY <2>3, <2>4, <2>5, <2>6, QueueMoves DEF QueueMove
  <1>5. ASSUME NEW p \in Runs PROVE Cardinality(ActiveChildren(p)') <= MaxChildren
    <2>1. Cardinality(ActiveChildren(p)) <= MaxChildren
      BY DEF QueueInv, QueueHolds
    <2>2. ASSUME NEW n \in Fresh, Adds(p, n)
          PROVE  Cardinality(ActiveChildren(p)') <= MaxChildren
      <3>1. ActiveChildren(p)' \subseteq ActiveChildren(p) \union {n}
        BY <1>0, <2>2 DEF ActiveChildren, RowStays, Adds
      <3>2. /\ Cardinality(ActiveChildren(p)') <= Cardinality(ActiveChildren(p)) + 1
            /\ Cardinality(ActiveChildren(p)') \in Nat
        BY <1>2, <3>1, OneIn, FS_CardinalityType
      <3>3. Cardinality(ActiveChildren(p)) < MaxChildren
        BY <2>2 DEF Adds
      <3> QED
        BY <1>0, <1>2, <3>2, <3>3
    <2>3. CASE ActiveChildren(p)' \subseteq ActiveChildren(p)
      <3>1. /\ Cardinality(ActiveChildren(p)') <= Cardinality(ActiveChildren(p))
            /\ Cardinality(ActiveChildren(p)') \in Nat
        BY <1>2, <2>3, FS_Subset, FS_CardinalityType
      <3> QED
        BY <1>0, <1>2, <2>1, <3>1
    <2>4. ASSUME ~\E n \in Fresh : Adds(p, n)
          PROVE  ActiveChildren(p)' \subseteq ActiveChildren(p)
      <3>1. p # NoRun
        BY ConstantsAssumption
      <3>2. ASSUME NEW r \in ActiveRuns', runParent'[r] = p PROVE r \in ActiveRuns
        <4>1. CASE ActiveRuns' \subseteq ActiveRuns
          BY <3>2, <4>1
        <4>2. ASSUME NEW n \in Fresh, Accepts(n) \/ \E q \in Runs : Replaces(q, n)
              PROVE  r \in ActiveRuns
          BY <3>1, <3>2, <4>2 DEF Accepts, Replaces
        <4>3. ASSUME NEW n \in Fresh, NEW q \in Runs, Adds(q, n) PROVE r \in ActiveRuns
          BY <2>4, <3>2, <4>3 DEF Adds
        <4> QED
          BY <4>1, <4>2, <4>3, QueueMoves DEF QueueMove
      <3> QED
        BY <1>0, <3>2 DEF ActiveChildren, RowStays
    <2> QED
      BY <2>2, <2>3, <2>4
  <1> QED
    BY <1>3, <1>4, <1>5 DEF QueueInv, QueueHolds

(* However Echoes are retried, cancelled, recovered and have children, the *)
(* root Runs that wait or run fit the queue capacity that CreateEcho alone *)
(* looks at, and no parent has more active children than it may            *)
(* (echo_store.go:47, 205).                                                *)
THEOREM RootsFitTheQueue == Spec => []QueueHolds
  <1>1. Init => QueueInv
    <2> SUFFICES ASSUME Init PROVE QueueInv
      OBVIOUS
    <2>1. ActiveRuns = {} /\ ActiveRoots = {} /\ \A p \in Runs : ActiveChildren(p) = {}
      BY DEF Init, ActiveRuns, RunActive, ActiveRoots, ActiveChildren
    <2> QED
      BY <2>1, FS_EmptySet, ConstantsAssumption DEF QueueInv, QueueHolds
  <1>2. IInv /\ QueueInv /\ [Next]_vars => QueueInv'
    BY StepQueue
  <1>3. QueueInv => QueueHolds
    BY DEF QueueInv
  <1> QED
    BY <1>1, <1>2, <1>3, InvariantHolds, PTL DEF Spec
=============================================================================
