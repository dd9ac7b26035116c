------------------------- MODULE TaskSchedulerProofs -------------------------
(***************************************************************************)
(* Proofs about TaskScheduler for every value of its constants.            *)
(***************************************************************************)
EXTENDS TaskSchedulerInv, FiniteSetTheorems, TLAPS

-----------------------------------------------------------------------------
(* The five things a step may do to the rows and to the claims of them. *)

\* No claim is made, and no status, attempt, token moves.
Quiet ==
    /\ UNCHANGED <<status, attempt, token, claimVars>>
    /\ due' \subseteq PendingTasks
    /\ Issued' = Issued
    /\ began \subseteq began' /\ began' \subseteq began \union Issued

\* A row changes under the claims made so far.
SameClaims == UNCHANGED <<claimVars, began>> /\ Issued' = Issued

Inserted(t) ==
    /\ status[t] = "none" /\ SameClaims
    /\ status' = [status EXCEPT ![t] = "queued"]
    /\ attempt' = [attempt EXCEPT ![t] = 1]
    /\ token' = token
    /\ due' \in {due, due \union {t}}

Leased(t, k) ==
    /\ Claimable(t) /\ Lease(t, k)
    /\ k \in Tokens \ Issued /\ Issued' = Issued \union {k} /\ began' = began

Finished(t, s) ==
    /\ status[t] \in Pending \union {"running"} /\ s \in Terminal
    /\ Finish(t, s) /\ SameClaims
    /\ status[t] \in Pending => s = "cancelled"
    /\ s = "succeeded" =>
         \E k \in began : taskOf[k] = t /\ attemptOf[k] = attempt[t]

Rescheduled(t) ==
    /\ status[t] = "running" /\ t \in AllowRetry /\ attempt[t] < MaxAttempts
    /\ Reschedule(t) /\ SameClaims

RowStep ==
    \/ Quiet
    \/ \E t \in Tasks : Inserted(t) \/ Rescheduled(t)
    \/ \E t \in Tasks, k \in Tokens : Leased(t, k)
    \/ \E t \in Tasks, s \in Terminal : Finished(t, s)

(* A goroutine whose token is on the row of its task runs the attempt the  *)
(* row is at.                                                              *)
LEMMA ClaimOnRow ==
  ASSUME TaskInv, NEW k \in Tokens, pc[k] # "unused", Holds(k) \/ Lapsed(k)
  PROVE  /\ taskOf[k] \in Tasks /\ status[taskOf[k]] = "running"
         /\ attempt[taskOf[k]] = attemptOf[k] /\ attempt[taskOf[k]] \in Nat
         /\ token[taskOf[k]] = k
  <1>1. taskOf[k] \in Tasks
    BY DEF TaskInv, RowPart, ClaimInv
  <1>2. token[taskOf[k]] = k /\ k # NoToken /\ status[taskOf[k]] = "running"
    BY DEF Holds, Lapsed, Tokens, NoToken
  <1>3. attempt[taskOf[k]] \in Nat
    BY <1>1, TaskAssumption DEF TaskInv, TypeOK
  <1> QED
    BY <1>1, <1>2, <1>3 DEF TaskInv, RowPart, RowInv

(* Every step of the scheduler does one of the five.                       *)
LEMMA RowSteps == ASSUME TaskInv, [Next]_vars PROVE RowStep
  <1> USE DEF Quiet, SameClaims, Issued, PendingTasks, rowVars, claimVars
  <1>0. due \subseteq PendingTasks
    BY DEF TaskInv, RowPart
  <1>1. CASE UNCHANGED vars
    BY <1>0, <1>1 DEF vars, goVars, RowStep
  <1>2. ASSUME NEW t \in Tasks, Task(t) PROVE RowStep
    <2>1. CASE Create(t)
      BY <2>1 DEF Create, goVars, RowStep, Inserted
    <2>2. CASE BecomeDue(t)
      BY <1>0, <2>2 DEF BecomeDue, goVars, RowStep
    <2>3. CASE DeadlinePasses(t) \/ LeaseExpires(t) \/ PassOver(t)
      BY <1>0, <2>3 DEF DeadlinePasses, LeaseExpires, PassOver, goVars, RowStep
    <2>4. CASE CancelQueuedTask(t)
      BY <2>4 DEF CancelQueuedTask, goVars, RowStep, Finished, Terminal
    <2>5. CASE CancelMisses(t) \/ CancelLookup(t) \/ CancelFlag(t) \/ CancelSignal(t)
      BY <1>0, <2>5
         DEF CancelMisses, CancelLookup, CancelFlag, CancelSignal, CancelGoes,
             goVars, RowStep
    <2> QED
      BY <1>2, <2>1, <2>2, <2>3, <2>4, <2>5 DEF Task
  <1>3. ASSUME NEW t \in Tasks, NEW k \in Tokens, Claim(t, k) \/ ClaimLost(t, k)
        PROVE  RowStep
    <2>1. k \in Tokens \ Issued /\ Claimable(t) /\ Lease(t, k) /\ began' = began
      BY <1>3 DEF Claim, ClaimLost, Fresh
    <2>2. Issued' = Issued \union {k}
      BY <1>3 DEF Claim, ClaimLost, TaskInv, TypeOK
    <2> QED
      BY <2>1, <2>2 DEF RowStep, Leased
  <1>4. ASSUME NEW k \in Tokens, Loop(k) PROVE RowStep
    <2>1. pc[k] # "unused"
      BY <1>4 DEF Loop, DispatchLate, Dispatch, RecoverOne, TaskInv,
         ExecutionInv, LoopInv
    <2>2. Issued' = Issued /\ began' = began
      BY <1>4, <2>1 DEF Loop, DispatchLate, Dispatch, RecoverOne, goVars,
         TaskInv, TypeOK
    <2>3. CASE DispatchLate(k)
      BY <1>0, <2>1, <2>2, <2>3, ClaimOnRow
         DEF DispatchLate, RowStep, Finished, Pending, Terminal
    <2>4. CASE Dispatch(k)
      BY <1>0, <2>2, <2>4 DEF Dispatch, RowStep
    <2>5. CASE RecoverOne(k)
      BY <1>0, <2>1, <2>2, <2>5, ClaimOnRow
         DEF RecoverOne, RowStep, Finished, Rescheduled, RetryAllowed, Pending, Terminal
    <2> QED
      BY <1>4, <2>3, <2>4, <2>5 DEF Loop
  <1>5. ASSUME NEW k \in Tokens, Execution(k) PROVE RowStep
    <2>1. pc[k] # "unused"
      BY <1>5 DEF Execution, Arm, Check, HandlerReturns, Write, Cleanup
    <2>2. /\ Issued' = Issued
          /\ began \subseteq began' /\ began' \subseteq began \union Issued
      BY <1>5, <2>1 DEF Execution, Arm, Check, HandlerReturns, Write, Cleanup,
         Conclude, TaskInv, TypeOK
    <2>3. CASE Arm(k) \/ Check(k) \/ HandlerReturns(k) \/ Cleanup(k)
      BY <1>0, <2>2, <2>3 DEF Arm, Check, HandlerReturns, Cleanup, RowStep
    <2>4. CASE Write(k)
      <3>1. /\ verdict[k] \in {"succeeded", "cancelled", "failed", "retry"}
            /\ verdict[k] = "succeeded" => k \in began
            /\ verdict[k] = "retry" => 
                  taskOf[k] \in AllowRetry /\ attemptOf[k] < MaxAttempts
        BY <2>4 DEF Write, TaskInv, TypeOK, ExecutionInv, Verdicts
      <3>2. began' = began
        BY <2>4 DEF Write
      <3>3. CASE Holds(k) /\ verdict[k] # "retry" /\ Finish(taskOf[k], verdict[k])
        BY <2>1, <2>2, <2>4, <3>1, <3>2, <3>3, ClaimOnRow
           DEF Write, RowStep, Finished, Pending, Terminal
      <3>4. CASE Holds(k) /\ Finish(taskOf[k], "failed")
        BY <2>1, <2>2, <2>4, <3>2, <3>4, ClaimOnRow
           DEF Write, RowStep, Finished, Pending, Terminal
      <3>5. CASE Holds(k) /\ verdict[k] = "retry" /\ Reschedule(taskOf[k])
        BY <2>1, <2>2, <2>4, <3>1, <3>2, <3>5, ClaimOnRow
           DEF Write, RowStep, Rescheduled
      <3>6. CASE UNCHANGED rowVars
        BY <1>0, <2>2, <2>4, <3>6 DEF Write, RowStep
      <3> QED
        BY <2>4, <3>3, <3>4, <3>5, <3>6 DEF Write
    <2> QED
      BY <1>5, <2>3, <2>4 DEF Execution
  <1>6. ASSUME NEW k \in Tokens, Renewal(k) PROVE RowStep
    BY <1>0, <1>6 DEF Renewal, Renew, RenewFails, goVars, RowStep
  <1>7. CASE ListDue \/ ListDead
    BY <1>0, <1>7 DEF ListDue, ListDead, goVars, RowStep
  <1>8. CASE Process
    <2>1. CASE ProcessEnds
      BY <1>0, <2>1 DEF ProcessEnds, RowStep, TaskInv, TypeOK
    <2>2. CASE BeginShutdown \/ ForceShutdown \/ Start
      BY <1>0, <2>2 DEF BeginShutdown, ForceShutdown, Start, goVars, RowStep
    <2> QED
      BY <1>8, <2>1, <2>2 DEF Process, FinishShutdown, ExitForced, Crash
  <1> QED
    BY <1>1, <1>2, <1>3, <1>4, <1>5, <1>6, <1>7, <1>8 DEF Next

-----------------------------------------------------------------------------
(* What each of the five preserves. *)

RowTypes ==
    /\ status \in [Tasks -> {"none", "running"} \union Pending \union Terminal]
    /\ attempt \in [Tasks -> 0..MaxAttempts]
    /\ token \in [Tasks -> {NoToken} \union Tokens]
    /\ due \subseteq Tasks
    /\ taskOf \in [Tokens -> {NoTask} \union Tasks]
    /\ attemptOf \in [Tokens -> 0..MaxAttempts]
    /\ began \subseteq Tokens

(* Time passes and goroutines move: nothing of the rows is touched.        *)
LEMMA QuietRows ==
  ASSUME RowTypes, RowPart, Quiet PROVE RowTypes' /\ RowPart'
  <1> USE DEF Quiet, claimVars
  <1>1. RowTypes'
    BY DEF RowTypes, PendingTasks, Issued
  <1>2. \A t \in Tasks : RowInv(t)'
    BY DEF RowPart, RowInv
  <1>3. (due \subseteq PendingTasks)'
    BY DEF PendingTasks
  <1>4. \A k \in Tokens : ClaimInv(k)'
    BY DEF RowPart, ClaimInv, Issued
  <1>5. SerialInv'
    BY DEF RowPart, SerialInv
  <1> QED
    BY <1>1, <1>2, <1>3, <1>4, <1>5 DEF RowPart

(* A new row has had no claim.                                             *)
LEMMA InsertedRows ==
  ASSUME RowTypes, RowPart, NEW t \in Tasks, Inserted(t)
  PROVE  RowTypes' /\ RowPart'
  <1> USE DEF Inserted, SameClaims, claimVars
  <1>1. RowTypes'
    BY TaskAssumption DEF RowTypes, Pending
  <1>2. attempt[t] = 0
    BY DEF RowPart, RowInv
  <1>3. \A k \in Issued : taskOf[k] # t
    BY <1>2 DEF RowPart, ClaimInv, Issued
  <1>4. \A u \in Tasks : RowInv(u)'
    BY TaskAssumption DEF RowTypes, RowPart, RowInv, Pending, NoToken
  <1>5. (due \subseteq PendingTasks)'
    BY DEF RowTypes, RowPart, PendingTasks, Pending
  <1>6. \A k \in Tokens : ClaimInv(k)'
    BY <1>3 DEF RowTypes, RowPart, ClaimInv, Issued
  <1>7. SerialInv'
    BY DEF RowPart, SerialInv
  <1> QED
    BY <1>1, <1>4, <1>5, <1>6, <1>7 DEF RowPart

(* A claim is of an attempt that no earlier claim was of: all of those are *)
(* of attempts the waiting row has passed.                                 *)
LEMMA LeasedRows ==
  ASSUME RowTypes, RowPart, NEW t \in Tasks, NEW k \in Tokens, Leased(t, k)
  PROVE  RowTypes' /\ RowPart'
  <1> USE DEF Leased, Lease
  <1>1. RowTypes'
    BY DEF RowTypes
  <1>2. status[t] \in Pending /\ k # NoToken
    BY DEF Claimable, Tokens, NoToken
  <1>3. attempt[t] \in 1..MaxAttempts
    BY <1>2, TaskAssumption DEF RowTypes, RowPart, RowInv, Pending
  <1>4. \A j \in Issued : j # k /\ (taskOf[j] = t => attemptOf[j] # attempt[t])
    BY <1>2, <1>3 DEF RowTypes, RowPart, ClaimInv, Issued
  <1>5. \A u \in Tasks : RowInv(u)'
    BY <1>2, <1>3, <1>4 DEF RowTypes, RowPart, RowInv, Pending, NoToken
  <1>6. (due \subseteq PendingTasks)'
    BY DEF RowTypes, RowPart, PendingTasks
  <1>7. ASSUME NEW j \in Tokens PROVE ClaimInv(j)'
    <2>1. CASE j = k
      BY <1>2, <1>3, <2>1, TaskAssumption DEF RowTypes, ClaimInv, Issued, Pending
    <2>2. CASE j # k
      BY <2>2, <1>3 DEF RowTypes, RowPart, ClaimInv, Issued, Pending
    <2> QED
      BY <2>1, <2>2
  <1>8. SerialInv'
    BY <1>4 DEF RowTypes, RowPart, SerialInv, Issued
  <1> QED
    BY <1>1, <1>5, <1>6, <1>7, <1>8 DEF RowPart

(* An outcome clears the token and leaves the attempt.                     *)
LEMMA FinishedRows ==
  ASSUME RowTypes, RowPart, NEW t \in Tasks, NEW s \in Terminal, Finished(t, s)
  PROVE  RowTypes' /\ RowPart'
  <1> USE DEF Finished, Finish, SameClaims, claimVars
  <1>1. RowTypes'
    BY DEF RowTypes
  <1>2. \A u \in Tasks : RowInv(u)'
    BY DEF RowTypes, RowPart, RowInv, Pending, Terminal, NoToken
  <1>3. (due \subseteq PendingTasks)'
    BY DEF RowTypes, RowPart, PendingTasks
  <1>4. \A k \in Tokens : ClaimInv(k)'
    BY DEF RowTypes, RowPart, ClaimInv, Issued, Terminal, Pending
  <1>5. SerialInv'
    BY DEF RowPart, SerialInv
  <1> QED
    BY <1>1, <1>2, <1>3, <1>4, <1>5 DEF RowPart

(* A retry moves the row past every attempt that was claimed.              *)
LEMMA RescheduledRows ==
  ASSUME RowTypes, RowPart, NEW t \in Tasks, Rescheduled(t)
  PROVE  RowTypes' /\ RowPart'
  <1> USE DEF Rescheduled, Reschedule, SameClaims, claimVars
  <1>1. attempt[t] \in 0..MaxAttempts /\ attempt[t] + 1 \in 0..MaxAttempts
    BY TaskAssumption DEF RowTypes
  <1>2. RowTypes'
    BY <1>1 DEF RowTypes, Pending
  <1>3. \A u \in Tasks : RowInv(u)'
    BY <1>1 DEF RowTypes, RowPart, RowInv, NoToken
  <1>4. (due \subseteq PendingTasks)'
    BY DEF RowTypes, RowPart, PendingTasks, Pending
  <1>5. \A k \in Tokens : ClaimInv(k)'
    BY <1>1 DEF RowTypes, RowPart, ClaimInv, Issued, Pending
  <1>6. SerialInv'
    BY DEF RowPart, SerialInv
  <1> QED
    BY <1>2, <1>3, <1>4, <1>5, <1>6 DEF RowPart

(* Every step keeps the invariant of the rows.                             *)
LEMMA StepRows ==
  ASSUME TaskInv, [Next]_vars PROVE RowTypes' /\ RowPart'
  <1>1. RowTypes /\ RowPart
    BY DEF TaskInv, TypeOK, RowTypes
  <1>2. RowStep
    BY RowSteps
  <1> QED
    BY <1>1, <1>2, QuietRows, InsertedRows, LeasedRows, FinishedRows,
       RescheduledRows DEF RowStep

(* A task that has succeeded keeps the attempt it succeeded in.            *)
LEMMA StepSuccess ==
  ASSUME TaskInv, [Next]_vars PROVE SuccessIsOfTheLastAttempt'
  <1>1. RowStep
    BY RowSteps
  <1>2. RowTypes /\ SuccessIsOfTheLastAttempt
    BY DEF TaskInv, TypeOK, RowTypes
  <1> USE DEF SuccessIsOfTheLastAttempt, claimVars
  <1>3. CASE Quiet
    BY <1>2, <1>3 DEF Quiet
  <1>4. ASSUME NEW t \in Tasks, Inserted(t) PROVE SuccessIsOfTheLastAttempt'
    BY <1>2, <1>4 DEF Inserted, SameClaims, RowTypes
  <1>5. ASSUME NEW t \in Tasks, Rescheduled(t) PROVE SuccessIsOfTheLastAttempt'
    BY <1>2, <1>5 DEF Rescheduled, Reschedule, SameClaims, RowTypes
  <1>6. ASSUME NEW t \in Tasks, NEW k \in Tokens, Leased(t, k)
        PROVE  SuccessIsOfTheLastAttempt'
    <2>1. k \notin began
      BY <1>6 DEF Leased, Issued, TaskInv, RowPart, ClaimInv
    <2> QED
      BY <1>2, <1>6, <2>1 DEF Leased, Lease, RowTypes
  <1>7. ASSUME NEW t \in Tasks, NEW s \in Terminal, Finished(t, s)
        PROVE  SuccessIsOfTheLastAttempt'
    BY <1>2, <1>7 DEF Finished, Finish, SameClaims, RowTypes
  <1> QED
    BY <1>1, <1>3, <1>4, <1>5, <1>6, <1>7 DEF RowStep

-----------------------------------------------------------------------------
(* Slots: what a step may do to the claims that hold one. *)

KeepsTasks(ks) == \A k \in ks : taskOf'[k] = taskOf[k]

Kept == Holders' = Holders /\ KeepsTasks(Holders) /\ UNCHANGED slotVars
Taken(t, k) ==
    /\ k \in Tokens \ Holders /\ Holders' = Holders \union {k}
    /\ KeepsTasks(Holders) /\ taskOf'[k] = t
    /\ SlotFree(t) /\ TakeSlots(t)
Released(k) ==
    /\ k \in Holders /\ Holders' = Holders \ {k} /\ KeepsTasks(Holders)
    /\ ReleaseSlots(taskOf[k])
Emptied == Holders' = {} /\ used' = 0 /\ appUsed' = [a \in Apps |-> 0]

SlotStep ==
    \/ Kept \/ Emptied
    \/ \E k \in Tokens : Released(k) \/ \E t \in Tasks : Taken(t, k)

(* Every step of the scheduler does one of the four.                       *)
LEMMA SlotSteps == ASSUME TaskInv, [Next]_vars PROVE SlotStep
  <1> USE DEF SlotStep, KeepsTasks, Holders, InFlight, slotVars, claimVars
  <1>1. CASE UNCHANGED vars
    BY <1>1 DEF vars, Kept, goVars
  <1>2. ASSUME NEW t \in Tasks, Task(t) PROVE SlotStep
    BY <1>2
       DEF Task, Create, BecomeDue, DeadlinePasses, LeaseExpires, PassOver,
           CancelQueuedTask, CancelMisses, CancelLookup, CancelFlag,
           CancelSignal, goVars, Kept
  <1>3. ASSUME NEW t \in Tasks, NEW k \in Tokens, Claim(t, k) PROVE SlotStep
    <2>1. Taken(t, k)
      BY <1>3 DEF Claim, Fresh, Lease, Taken, TaskInv, TypeOK
    <2> QED
      BY <2>1
  <1>4. ASSUME NEW t \in Tasks, NEW k \in Tokens, ClaimLost(t, k)
        PROVE  SlotStep
    <2>1. Kept
      BY <1>4 DEF ClaimLost, Fresh, Lease, Kept, TaskInv, TypeOK
    <2> QED
      BY <2>1
  <1>5. ASSUME NEW k \in Tokens, Loop(k) PROVE SlotStep
    <2>1. CASE DispatchLate(k)
      <3>1. pc[k] = "issued"
        BY <2>1 DEF DispatchLate, TaskInv, ExecutionInv
      <3>2. Released(k)
        BY <2>1, <3>1 DEF DispatchLate, Released, TaskInv, TypeOK
      <3> QED
        BY <3>2
    <2>2. CASE Dispatch(k)
      <3>1. pc[k] = "issued"
        BY <2>2 DEF Dispatch, TaskInv, ExecutionInv
      <3>2. Kept
        BY <2>2, <3>1 DEF Dispatch, Kept, TaskInv, TypeOK
      <3> QED
        BY <3>2
    <2>3. CASE RecoverOne(k)
      BY <2>3 DEF RecoverOne, goVars, Kept
    <2> QED
      BY <1>5, <2>1, <2>2, <2>3 DEF Loop
  <1>6. ASSUME NEW k \in Tokens, Execution(k) PROVE SlotStep
    <2>1. CASE Arm(k) \/ Check(k) \/ HandlerReturns(k) \/ Write(k)
      <3>1. Kept
        BY <2>1 DEF Arm, Check, HandlerReturns, Write, Conclude, Kept, TaskInv,
           TypeOK
      <3> QED
        BY <3>1
    <2>2. CASE Cleanup(k)
      <3>1. Released(k)
        BY <2>2 DEF Cleanup, Released, TaskInv, TypeOK
      <3> QED
        BY <3>1
    <2> QED
      BY <1>6, <2>1, <2>2 DEF Execution
  <1>7. ASSUME NEW k \in Tokens, Renewal(k) PROVE SlotStep
    BY <1>7 DEF Renewal, Renew, RenewFails, goVars, Kept
  <1>8. CASE ListDue \/ ListDead
    BY <1>8 DEF ListDue, ListDead, goVars, Kept
  <1>9. CASE Process
    <2>1. CASE ProcessEnds
      BY <2>1 DEF ProcessEnds, Emptied
    <2>2. CASE BeginShutdown \/ ForceShutdown \/ Start
      BY <2>2 DEF BeginShutdown, ForceShutdown, Start, goVars, Kept
    <2> QED
      BY <1>9, <2>1, <2>2 DEF Process, FinishShutdown, ExitForced, Crash
  <1> QED
    BY <1>1, <1>2, <1>3, <1>4, <1>5, <1>6, <1>7, <1>8, <1>9 DEF Next

(* The claims are finitely many, so that those that hold a slot, and those *)
(* of one App, can be counted.                                             *)
LEMMA HoldersFinite ==
  ASSUME NEW S, S \subseteq Tokens
  PROVE  IsFiniteSet(S) /\ Cardinality(S) \in Nat
  <1>1. IsFiniteSet(Tokens)
    BY TaskAssumption, FS_Interval DEF Tokens
  <1> QED
    BY <1>1, FS_Subset, FS_CardinalityType

(* The slots in use are counted by the claims that hold them.              *)
LEMMA StepSlots == ASSUME TaskInv, [Next]_vars PROVE SlotsAreAccounted'
  <1>1. SlotStep
    BY SlotSteps
  <1>2. /\ SlotsAreAccounted /\ used \in Nat /\ appUsed \in [Apps -> Nat]
        /\ MaxConcurrent \in Nat /\ AppCapacity \in Nat
    BY TaskAssumption DEF TaskInv, TypeOK
  <1>3. /\ IsFiniteSet(Holders)
        /\ \A a \in Apps : IsFiniteSet(HoldersOf(a))
    BY HoldersFinite DEF Holders, HoldersOf
  <1>4. CASE Kept
    <2>1. \A a \in Apps : HoldersOf(a)' = HoldersOf(a)
      BY <1>4 DEF Kept, KeepsTasks, HoldersOf
    <2> QED
      BY <1>2, <1>4, <2>1 DEF Kept, SlotsAreAccounted, slotVars
  <1>5. CASE Emptied
    <2>1. \A a \in Apps : HoldersOf(a)' = {}
      BY <1>5 DEF Emptied, HoldersOf
    <2> QED
      BY <1>2, <1>5, <2>1, FS_EmptySet DEF Emptied, SlotsAreAccounted
  <1>6. ASSUME NEW t \in Tasks, NEW k \in Tokens, Taken(t, k)
        PROVE  SlotsAreAccounted'
    <2> DEFINE b == AppOf[t]
    <2>1. b \in Apps
      BY TaskAssumption
    <2>2. /\ HoldersOf(b)' = HoldersOf(b) \union {k} /\ k \notin HoldersOf(b)
          /\ \A a \in Apps : a # b => HoldersOf(a)' = HoldersOf(a)
      BY <1>6 DEF Taken, KeepsTasks, HoldersOf
    <2>3. /\ Cardinality(Holders') = used + 1
          /\ Cardinality(HoldersOf(b)') = appUsed[b] + 1
      <3>1. Cardinality(Holders \union {k}) = Cardinality(Holders) + 1
        BY <1>3, <1>6, FS_AddElement DEF Taken
      <3>2. Cardinality(HoldersOf(b) \union {k}) = Cardinality(HoldersOf(b)) + 1
        BY <1>3, <2>1, <2>2, FS_AddElement
      <3> QED
        BY <1>2, <1>6, <2>1, <2>2, <3>1, <3>2 DEF Taken, SlotsAreAccounted
    <2>4. /\ used' = used + 1 /\ used' <= MaxConcurrent
          /\ \A a \in Apps :
               appUsed'[a] = IF a = b THEN appUsed[b] + 1 ELSE appUsed[a]
          /\ appUsed'[b] <= AppCapacity
      BY <1>2, <1>6, <2>1 DEF Taken, SlotFree, TakeSlots
    <2> QED
      BY <1>2, <2>2, <2>3, <2>4 DEF SlotsAreAccounted
  <1>7. ASSUME NEW k \in Tokens, Released(k) PROVE SlotsAreAccounted'
    <2>1. PICK b \in Apps : b = AppOf[taskOf[k]]
      BY <1>7, TaskAssumption DEF Released, Holders, InFlight, TaskInv, RowPart,
         ClaimInv
    <2>2. /\ HoldersOf(b)' = HoldersOf(b) \ {k} /\ k \in HoldersOf(b)
          /\ \A a \in Apps : a # b => HoldersOf(a)' = HoldersOf(a)
      BY <1>7, <2>1 DEF Released, KeepsTasks, HoldersOf
    <2>3. /\ Cardinality(Holders') = used - 1
          /\ Cardinality(HoldersOf(b)') = appUsed[b] - 1
      <3>1. Cardinality(Holders \ {k}) = Cardinality(Holders) - 1
        BY <1>3, <1>7, FS_RemoveElement DEF Released
      <3>2. Cardinality(HoldersOf(b) \ {k}) = Cardinality(HoldersOf(b)) - 1
        BY <1>3, <2>1, <2>2, FS_RemoveElement
      <3> QED
        BY <1>2, <1>7, <2>1, <2>2, <3>1, <3>2 DEF Released, SlotsAreAccounted
    <2>4. /\ used' = used - 1
          /\ \A a \in Apps :
               appUsed'[a] = IF a = b THEN appUsed[b] - 1 ELSE appUsed[a]
      BY <1>2, <1>7, <2>1 DEF Released, ReleaseSlots
    <2>5. used' <= MaxConcurrent /\ \A a \in Apps : appUsed'[a] <= AppCapacity
      BY <1>2, <2>1, <2>4 DEF SlotsAreAccounted
    <2>6. \A a \in Apps : appUsed'[a] = Cardinality(HoldersOf(a)')
      BY <1>2, <2>2, <2>3, <2>4 DEF SlotsAreAccounted
    <2>7. used' = Cardinality(Holders')
      BY <2>3, <2>4
    <2> QED
      BY <2>5, <2>6, <2>7 DEF SlotsAreAccounted
  <1> QED
    BY <1>1, <1>4, <1>5, <1>6, <1>7 DEF SlotStep

-----------------------------------------------------------------------------
(* Executions, the loop and Cancel. *)

goroutineVars == <<pc, verdict, ctx, taskOf, attemptOf, began, claimed>>

(* A step that moves one goroutine keeps the invariant of the others.      *)
LEMMA OtherExecutions ==
  ASSUME NEW j \in Tokens, ExecutionInv(j),
         pc'[j] = pc[j], verdict'[j] = verdict[j], taskOf'[j] = taskOf[j],
         attemptOf'[j] = attemptOf[j], j \in began <=> j \in began',
         ctx'[j] = ctx[j] \/ (ctx[j] # "none" /\ ctx'[j] # "none"),
         claimed = j <=> claimed' = j
  PROVE  ExecutionInv(j)'
  BY DEF ExecutionInv

(* Every step keeps the invariant of the executions.                       *)
LEMMA StepExecutions ==
  ASSUME TaskInv, [Next]_vars, NEW j \in Tokens PROVE ExecutionInv(j)'
  <1>0. /\ TypeOK /\ RowPart /\ LoopInv /\ ExecutionInv(j)
        /\ j # NoToken /\ j \in Nat
    BY DEF TaskInv, Tokens, NoToken
  <1>1. CASE UNCHANGED goroutineVars
    BY <1>0, <1>1, OtherExecutions DEF goroutineVars
  <1>2. ASSUME NEW t \in Tasks, Task(t) PROVE ExecutionInv(j)'
    <2>1. CASE DeadlinePasses(t)
      BY <1>0, <2>1, OtherExecutions DEF DeadlinePasses, claimVars, loopVars
    <2>2. CASE CancelSignal(t)
      BY <1>0, <2>2, OtherExecutions
         DEF CancelSignal, CancelCtx, claimVars, loopVars, TypeOK
    <2> QED
      BY <1>1, <1>2, <2>1, <2>2
         DEF Task, Create, BecomeDue, LeaseExpires, PassOver, CancelQueuedTask,
             CancelMisses, CancelLookup, CancelFlag, goVars, claimVars,
             loopVars, goroutineVars
  <1>3. ASSUME NEW t \in Tasks, NEW k \in Tokens, Claim(t, k)
        PROVE  ExecutionInv(j)'
    <2>1. k # NoToken /\ pc[k] = "unused" /\ claimed = NoToken
      BY <1>0, <1>3 DEF Claim, Fresh, LoopInv, Tokens, NoToken
    <2>2. CASE j = k
      BY <1>0, <1>3, <2>1, <2>2 DEF Claim, Lease, ExecutionInv, TypeOK
    <2>3. CASE j # k
      BY <1>0, <1>3, <2>1, <2>3, OtherExecutions DEF Claim, Lease, TypeOK
    <2> QED
      BY <2>2, <2>3
  <1>4. ASSUME NEW t \in Tasks, NEW k \in Tokens, ClaimLost(t, k)
        PROVE  ExecutionInv(j)'
    <2>1. k # NoToken /\ pc[k] = "unused" /\ claimed = NoToken
      BY <1>0, <1>4 DEF ClaimLost, Fresh, LoopInv, Tokens, NoToken
    <2>2. CASE j = k
      BY <1>0, <1>4, <2>1, <2>2 DEF ClaimLost, Lease, ExecutionInv, TypeOK
    <2>3. CASE j # k
      BY <1>0, <1>4, <2>1, <2>3, OtherExecutions DEF ClaimLost, Lease, TypeOK
    <2> QED
      BY <2>2, <2>3
  <1>5. ASSUME NEW k \in Tokens, Loop(k) PROVE ExecutionInv(j)'
    <2>1. CASE DispatchLate(k) \/ Dispatch(k)
      <3>1. CASE j = k
        BY <1>0, <2>1, <3>1
           DEF DispatchLate, Dispatch, claimVars, goVars, ExecutionInv, TypeOK
      <3>2. CASE j # k
        BY <1>0, <2>1, <3>2, OtherExecutions
           DEF DispatchLate, Dispatch, claimVars, goVars, TypeOK
      <3> QED
        BY <3>1, <3>2
    <2>2. CASE RecoverOne(k)
      BY <1>1, <2>2 DEF RecoverOne, goVars, claimVars, goroutineVars
    <2> QED
      BY <1>5, <2>1, <2>2 DEF Loop
  <1>6. ASSUME NEW k \in Tokens, Execution(k), j # k PROVE ExecutionInv(j)'
    BY <1>0, <1>6, OtherExecutions
       DEF Execution, Arm, Check, HandlerReturns, Write, Cleanup, Conclude,
           CancelCtx, claimVars, loopVars, TypeOK
  <1>7. ASSUME Execution(j) PROVE ExecutionInv(j)'
    <2>1. CASE Arm(j)
      BY <1>0, <2>1 DEF Arm, ExecutionInv, claimVars, loopVars, TypeOK
    <2>2. CASE Check(j)
      BY <1>0, <2>2
         DEF Check, Conclude, ExecutionInv, claimVars, loopVars, TypeOK
    <2>3. CASE HandlerReturns(j)
      <3>1. PICK v \in {"succeeded", "failed", "cancelled", "retry"} :
               /\ Conclude(j, v)
               /\ v = "retry" => RetryAllowed(j)
        BY <2>3 DEF HandlerReturns, RetryOrFail
      <3> QED
        BY <1>0, <2>3, <3>1
           DEF HandlerReturns, Conclude, RetryAllowed, ExecutionInv, claimVars,
               loopVars, TypeOK
    <2>4. CASE Write(j)
      BY <1>0, <2>4 DEF Write, ExecutionInv, claimVars, loopVars, TypeOK
    <2>5. CASE Cleanup(j)
      BY <1>0, <2>5 DEF Cleanup, ExecutionInv, claimVars, loopVars, TypeOK
    <2> QED
      BY <1>7, <2>1, <2>2, <2>3, <2>4, <2>5 DEF Execution
  <1>8. ASSUME NEW k \in Tokens, Renewal(k) PROVE ExecutionInv(j)'
    BY <1>0, <1>1, <1>8, OtherExecutions
       DEF Renewal, Renew, RenewFails, CancelCtx, goVars, claimVars, loopVars,
           goroutineVars, TypeOK
  <1>9. CASE ListDue \/ ListDead
    BY <1>1, <1>9 DEF ListDue, ListDead, goVars, claimVars, goroutineVars
  <1>10. CASE Process
    <2>1. CASE ProcessEnds
      <3>1. /\ pc'[j] \in {"unused", "gone"} /\ verdict'[j] = "none"
            /\ ctx'[j] = "none" /\ claimed' # j /\ began' = began
            /\ pc'[j] = "unused" => j \notin began
        BY <1>0, <2>1 DEF ProcessEnds, RowPart, ClaimInv
      <3> QED
        BY <3>1 DEF ExecutionInv
    <2>2. CASE BeginShutdown \/ ForceShutdown \/ Start
      BY <1>1, <2>2 DEF BeginShutdown, ForceShutdown, Start, goVars, claimVars,
         loopVars, goroutineVars
    <2> QED
      BY <1>10, <2>1, <2>2 DEF Process, FinishShutdown, ExitForced, Crash
  <1>11. CASE UNCHANGED vars
    BY <1>1, <1>11 DEF vars, goVars, claimVars, loopVars, goroutineVars
  <1> QED
    BY <1>2, <1>3, <1>4, <1>5, <1>6, <1>7, <1>8, <1>9, <1>10, <1>11 DEF Next

(* Every step keeps the invariant of the poll loop.                        *)
LEMMA StepLoop == ASSUME TaskInv, [Next]_vars PROVE LoopInv'
  <1>0. /\ TypeOK /\ LoopInv /\ \A k \in Tokens : ExecutionInv(k) /\ k # NoToken
        /\ NoToken \notin Tokens
    BY DEF TaskInv, Tokens, NoToken
  <1>1. Issued \subseteq Issued'
    BY RowSteps DEF RowStep, Quiet, Inserted, Rescheduled, Leased, Finished,
       SameClaims
  <1> USE DEF LoopInv, loopVars, processVars
  <1>2. CASE UNCHANGED <<loopVars, processVars, pc>>
    BY <1>0, <1>1, <1>2
  <1>3. ASSUME NEW t \in Tasks, Task(t) PROVE LoopInv'
    <2>1. CASE PassOver(t)
      BY <1>0, <1>1, <2>1 DEF PassOver, LoopEnds, goVars
    <2> QED
      BY <1>2, <1>3, <2>1
         DEF Task, Create, BecomeDue, DeadlinePasses, LeaseExpires,
             CancelQueuedTask, CancelMisses, CancelLookup, CancelFlag,
             CancelSignal, goVars
  <1>4. ASSUME NEW t \in Tasks, NEW k \in Tokens, Claim(t, k) \/ ClaimLost(t, k)
        PROVE  LoopInv'
    BY <1>0, <1>1, <1>4 DEF Claim, ClaimLost, LoopEnds
  <1>5. ASSUME NEW k \in Tokens, Loop(k) PROVE LoopInv'
    BY <1>0, <1>1, <1>5
       DEF Loop, DispatchLate, Dispatch, RecoverOne, LoopEnds, goVars
  <1>6. ASSUME NEW k \in Tokens, Execution(k) PROVE LoopInv'
    <2>1. mode # "down" /\ UNCHANGED <<loopVars, processVars>>
      BY <1>0, <1>6 DEF Execution, Arm, Check, HandlerReturns, Write, Cleanup
    <2> QED
      BY <1>0, <1>1, <2>1
  <1>7. ASSUME NEW k \in Tokens, Renewal(k) PROVE LoopInv'
    BY <1>2, <1>7 DEF Renewal, Renew, RenewFails, goVars
  <1>8. CASE ListDue \/ ListDead
    <2>1. DeadTokens \subseteq Issued
      BY DEF DeadTokens, Issued
    <2> QED
      BY <1>0, <1>1, <1>8, <2>1 DEF ListDue, ListDead, goVars
  <1>9. CASE Process
    <2>1. CASE ProcessEnds
      BY <1>0, <2>1 DEF ProcessEnds
    <2>2. CASE BeginShutdown \/ ForceShutdown \/ Start
      BY <1>0, <1>1, <2>2 DEF BeginShutdown, ForceShutdown, Start, goVars
    <2> QED
      BY <1>9, <2>1, <2>2 DEF Process, FinishShutdown, ExitForced, Crash
  <1>10. CASE UNCHANGED vars
    BY <1>2, <1>10 DEF vars, goVars
  <1> QED
    BY <1>3, <1>4, <1>5, <1>6, <1>7, <1>8, <1>9, <1>10 DEF Next

dispatchVars == <<executions, pc, flagged, ctx, cancelVars>>

\* What Cancel needs of one task, and of the execution it has found for it.
Seen(t) ==
    LET k == cancelExec[t] IN
    cancelPc[t] = "true" /\ k # NoToken /\ pc[k] = "running" => ctx[k] # "live"
CancelPart(t) == CancelInv(t) /\ Seen(t)

(* A goroutine moves on: it was dispatched and stays so, its context does  *)
(* not come back to life, and it starts its handler only when unflagged.   *)
LEMMA DispatchedMoves ==
  ASSUME NEW t \in Tasks, CancelPart(t),
         executions'[t] \in {executions[t], NoToken},
         UNCHANGED <<flagged, cancelPc, cancelExec>>,
         \A k \in Tokens :
            /\ pc[k] \notin {"unused", "issued"} =>
                 pc'[k] \notin {"unused", "issued"}
            /\ flagged[k] /\ pc'[k] = "running" =>
                 pc[k] = "running" /\ (ctx[k] # "live" => ctx'[k] # "live"),
         executions[t] \in Tokens \union {NoToken},
         cancelExec[t] \in Tokens \union {NoToken}
  PROVE  CancelPart(t)'
  BY DEF CancelPart, CancelInv, Seen

(* Every step keeps what Cancel relies on.                                 *)
LEMMA StepCancel ==
  ASSUME TaskInv, [Next]_vars, NEW u \in Tasks PROVE CancelPart(u)'
  <1>0. /\ TypeOK /\ CancelPart(u)
        /\ \A k \in Tokens : ExecutionInv(k) /\ k # NoToken
        /\ NoToken \notin Tokens
    BY DEF TaskInv, CancelPart, Seen, CancelIsSeen, Tokens, NoToken
  <1>1. CASE UNCHANGED dispatchVars
    BY <1>0, <1>1 DEF dispatchVars, cancelVars, CancelPart, CancelInv, Seen
  <1>2. ASSUME NEW t \in Tasks, Task(t) PROVE CancelPart(u)'
    <2>1. CASE DeadlinePasses(t)
      BY <1>0, <2>1, DispatchedMoves DEF DeadlinePasses, cancelVars, TypeOK
    <2>2. CASE CancelQueuedTask(t) \/ CancelMisses(t) \/ CancelLookup(t)
      BY <1>0, <2>2
         DEF CancelQueuedTask, CancelMisses, CancelLookup, CancelGoes, goVars,
             CancelPart, CancelInv, Seen, TypeOK
    <2>3. CASE CancelFlag(t)
      BY <1>0, <2>3
         DEF CancelFlag, CancelGoes, CancelPart, CancelInv, Seen, TypeOK
    <2>4. CASE CancelSignal(t)
      BY <1>0, <2>4
         DEF CancelSignal, CancelCtx, CancelGoes, CancelPart, CancelInv, Seen,
             TypeOK
    <2> QED
      BY <1>1, <1>2, <2>1, <2>2, <2>3, <2>4
         DEF Task, Create, BecomeDue, LeaseExpires, PassOver, goVars,
             dispatchVars
  <1>3. ASSUME NEW t \in Tasks, NEW k \in Tokens, Claim(t, k) \/ ClaimLost(t, k)
        PROVE  CancelPart(u)'
    BY <1>0, <1>3, DispatchedMoves DEF Claim, ClaimLost, Fresh, cancelVars, TypeOK
  <1>4. ASSUME NEW k \in Tokens, Loop(k) PROVE CancelPart(u)'
    <2>1. CASE DispatchLate(k)
      BY <1>0, <2>1, DispatchedMoves DEF DispatchLate, cancelVars, TypeOK
    <2>2. CASE Dispatch(k)
      BY <1>0, <2>2
         DEF Dispatch, cancelVars, CancelPart, CancelInv, Seen, ExecutionInv,
             TypeOK
    <2>3. CASE RecoverOne(k)
      BY <1>1, <2>3 DEF RecoverOne, goVars, dispatchVars
    <2> QED
      BY <1>4, <2>1, <2>2, <2>3 DEF Loop
  <1>5. ASSUME NEW k \in Tokens, Execution(k) PROVE CancelPart(u)'
    <2>1. CASE Arm(k) \/ HandlerReturns(k) \/ Write(k)
      BY <1>0, <2>1, DispatchedMoves
         DEF Arm, HandlerReturns, Write, Conclude, cancelVars, TypeOK
    <2>2. CASE Check(k)
      BY <1>0, <2>2, DispatchedMoves DEF Check, Conclude, cancelVars, TypeOK
    <2>3. CASE Cleanup(k)
      BY <1>0, <2>3, DispatchedMoves DEF Cleanup, CancelCtx, cancelVars, TypeOK
    <2> QED
      BY <1>5, <2>1, <2>2, <2>3 DEF Execution
  <1>6. ASSUME NEW k \in Tokens, Renewal(k) PROVE CancelPart(u)'
    <2>1. CASE Renew(k)
      BY <1>1, <2>1 DEF Renew, goVars, dispatchVars
    <2>2. CASE RenewFails(k)
      BY <1>0, <2>2, DispatchedMoves DEF RenewFails, CancelCtx, cancelVars, TypeOK
    <2> QED
      BY <1>6, <2>1, <2>2 DEF Renewal
  <1>7. CASE ListDue \/ ListDead
    BY <1>1, <1>7 DEF ListDue, ListDead, goVars, dispatchVars
  <1>8. CASE Process
    <2>1. CASE ProcessEnds
      BY <1>0, <2>1 DEF ProcessEnds, CancelPart, CancelInv, Seen
    <2>2. CASE BeginShutdown \/ ForceShutdown \/ Start
      BY <1>1, <2>2 DEF BeginShutdown, ForceShutdown, Start, goVars, dispatchVars
    <2> QED
      BY <1>8, <2>1, <2>2 DEF Process, FinishShutdown, ExitForced, Crash
  <1>9. CASE UNCHANGED vars
    BY <1>1, <1>9 DEF vars, goVars, dispatchVars
  <1> QED
    BY <1>2, <1>3, <1>4, <1>5, <1>6, <1>7, <1>8, <1>9 DEF Next

-----------------------------------------------------------------------------
(* Types, and the invariant as a whole. *)

ProcessTypes ==
    /\ expired \in [Tasks -> BOOLEAN]
    /\ overdue \subseteq Tasks
    /\ mode \in {"up", "stopping", "forced", "down"}
    /\ stops \in 0..MaxStops
    /\ loop \in {"idle", "polling", "claimed", "recovering"}
    /\ batch \subseteq Tasks /\ late \subseteq Tasks /\ dead \subseteq Tokens
    /\ claimed \in {NoToken} \union Tokens
    /\ executions \in [Tasks -> {NoToken} \union Tokens]
    /\ pc \in [Tokens -> PCs]
    /\ flagged \in [Tokens -> BOOLEAN]
    /\ ctx \in [Tokens -> {"none", "live", "cancelled", "expired"}]
    /\ leaseFailed \in [Tokens -> BOOLEAN]
    /\ verdict \in [Tokens -> Verdicts]
    /\ cancelPc \in [Tasks -> CancelPCs]
    /\ cancelExec \in [Tasks -> {NoToken} \union Tokens]

(* Every step keeps the domains.                                           *)
LEMMA StepProcessTypes ==
  ASSUME TaskInv, [Next]_vars PROVE ProcessTypes'
  <1>0. /\ ProcessTypes /\ LoopInv /\ due \subseteq Tasks
        /\ \A k \in Tokens : pc[k] # "unused" => taskOf[k] \in Tasks
    BY DEF TaskInv, TypeOK, ProcessTypes, RowPart, ClaimInv
  <1> USE <1>0 DEF ProcessTypes, rowVars, processVars, loopVars, cancelVars,
                   goVars
  <1>1. CASE UNCHANGED vars
    BY <1>1 DEF vars
  <1>2. ASSUME NEW t \in Tasks, Task(t) PROVE ProcessTypes'
    <2>1. CASE Create(t) \/ BecomeDue(t) \/ DeadlinePasses(t) \/ LeaseExpires(t)
      BY <2>1 DEF Create, BecomeDue, DeadlinePasses, LeaseExpires
    <2>2. CASE PassOver(t)
      BY <2>2 DEF PassOver, LoopEnds
    <2>3. CASE CancelQueuedTask(t) \/ CancelMisses(t) \/ CancelLookup(t)
      <3>1. cancelPc' \in [Tasks -> CancelPCs]
        BY <2>3 DEF CancelQueuedTask, CancelMisses, CancelLookup, CancelGoes,
           CancelPCs
      <3>2. cancelExec' \in [Tasks -> {NoToken} \union Tokens]
        BY <2>3 DEF CancelQueuedTask, CancelMisses, CancelLookup
      <3>3. expired' \in [Tasks -> BOOLEAN]
        BY <2>3 DEF CancelQueuedTask, CancelMisses, CancelLookup, Finish
      <3> QED
        BY <2>3, <3>1, <3>2, <3>3
           DEF CancelQueuedTask, CancelMisses, CancelLookup
    <2>4. CASE CancelFlag(t)
      BY <2>4 DEF CancelFlag, CancelGoes, CancelPCs
    <2>5. CASE CancelSignal(t)
      BY <2>5 DEF CancelSignal, CancelCtx, CancelGoes, CancelPCs
    <2> QED
      BY <1>2, <2>1, <2>2, <2>3, <2>4, <2>5 DEF Task
  <1>3. ASSUME NEW t \in Tasks, NEW k \in Tokens, Claim(t, k) \/ ClaimLost(t, k)
        PROVE  ProcessTypes'
    BY <1>3 DEF Claim, ClaimLost, Lease, LoopEnds, PCs
  <1>4. ASSUME NEW k \in Tokens, Loop(k) PROVE ProcessTypes'
    <2>1. CASE DispatchLate(k)
      BY <2>1 DEF DispatchLate, Finish, LoopEnds, PCs
    <2>2. CASE Dispatch(k)
      BY <2>2 DEF Dispatch, LoopEnds, PCs, InFlight
    <2>3. CASE RecoverOne(k)
      BY <2>3 DEF RecoverOne, Finish, Reschedule
    <2> QED
      BY <1>4, <2>1, <2>2, <2>3 DEF Loop
  <1>5. ASSUME NEW k \in Tokens, Execution(k) PROVE ProcessTypes'
    <2> USE DEF PCs, InFlight
    <2>1. CASE Arm(k)
      BY <2>1 DEF Arm
    <2>2. CASE Check(k) \/ HandlerReturns(k)
      BY <2>2 DEF Check, HandlerReturns, RetryOrFail, Conclude, Verdicts
    <2>3. CASE Write(k)
      BY <2>3 DEF Write, Finish, Reschedule, Verdicts
    <2>4. CASE Cleanup(k)
      BY <2>4 DEF Cleanup, CancelCtx
    <2> QED
      BY <1>5, <2>1, <2>2, <2>3, <2>4 DEF Execution
  <1>6. ASSUME NEW k \in Tokens, Renewal(k) PROVE ProcessTypes'
    BY <1>6 DEF Renewal, Renew, RenewFails, CancelCtx
  <1>7. CASE ListDue \/ ListDead
    BY <1>7 DEF ListDue, ListDead, DeadTokens
  <1>8. CASE Process
    <2>1. CASE ProcessEnds
      <3>1. stops < MaxStops
        BY <1>8, <2>1 DEF Process, BeginShutdown, ForceShutdown, FinishShutdown,
           ExitForced, Crash, Start, LoopInv, ProcessEnds
      <3> QED
        BY <2>1, <3>1, TaskAssumption DEF ProcessEnds, PCs, InFlight, Verdicts,
           CancelPCs
    <2>2. CASE BeginShutdown \/ ForceShutdown \/ Start
      BY <2>2 DEF BeginShutdown, ForceShutdown, Start
    <2> QED
      BY <1>8, <2>1, <2>2 DEF Process, FinishShutdown, ExitForced, Crash
  <1> QED
    BY <1>1, <1>2, <1>3, <1>4, <1>5, <1>6, <1>7, <1>8 DEF Next

(* The slots in use stay functions of the Apps into the naturals.          *)
LEMMA StepSlotTypes ==
  ASSUME TaskInv, [Next]_vars
  PROVE  used' \in 0..MaxConcurrent /\ appUsed' \in [Apps -> 0..AppCapacity]
  <1>1. SlotsAreAccounted' /\ MaxConcurrent \in Nat /\ AppCapacity \in Nat
    BY StepSlots, TaskAssumption
  <1>2. DOMAIN appUsed' = Apps /\ appUsed' = [a \in Apps |-> appUsed'[a]]
    BY SlotSteps DEF SlotStep, Kept, Emptied, Taken, Released, TakeSlots,
       ReleaseSlots, slotVars, TaskInv, TypeOK
  <1>3. Cardinality(Holders') \in Nat
        /\ \A a \in Apps : Cardinality(HoldersOf(a)') \in Nat
    BY HoldersFinite DEF Holders, HoldersOf
  <1> QED
    BY <1>1, <1>2, <1>3 DEF SlotsAreAccounted

(* The invariant holds at the start.                                       *)
LEMMA InitInv == Init => TaskInv
  <1> SUFFICES ASSUME Init PROVE TaskInv
    OBVIOUS
  <1> USE DEF Init
  <1>1. TypeOK
    BY TaskAssumption DEF TypeOK, PCs, InFlight, Verdicts, CancelPCs, Pending
  <1>2. RowPart
    BY DEF RowPart, RowInv, ClaimInv, SerialInv, Issued, PendingTasks, Pending
  <1>3. \A k \in Tokens : ExecutionInv(k)
    BY DEF ExecutionInv, Tokens, NoToken
  <1>4. LoopInv
    BY DEF LoopInv
  <1>5. (\A t \in Tasks : CancelInv(t)) /\ CancelIsSeen
    BY DEF CancelInv, CancelIsSeen
  <1>6. SlotsAreAccounted
    <2>1. Holders = {} /\ \A a \in Apps : HoldersOf(a) = {}
      BY DEF Holders, HoldersOf, InFlight
    <2>2. Cardinality({}) = 0
      BY FS_EmptySet
    <2>3. /\ used = 0 /\ used <= MaxConcurrent
          /\ \A a \in Apps : appUsed[a] = 0 /\ appUsed[a] <= AppCapacity
      BY TaskAssumption
    <2> QED
      BY <2>1, <2>2, <2>3 DEF SlotsAreAccounted
  <1>7. SuccessIsOfTheLastAttempt
    BY DEF SuccessIsOfTheLastAttempt
  <1> QED
    BY <1>1, <1>2, <1>3, <1>4, <1>5, <1>6, <1>7 DEF TaskInv

(* The invariant is kept by every step.                                    *)
LEMMA StepInv == TaskInv /\ [Next]_vars => TaskInv'
  <1> SUFFICES ASSUME TaskInv, [Next]_vars PROVE TaskInv'
    OBVIOUS
  <1>1. TypeOK'
    BY StepRows, StepProcessTypes, StepSlotTypes
       DEF TypeOK, RowTypes, ProcessTypes
  <1>2. RowPart' /\ (\A k \in Tokens : ExecutionInv(k)') /\ LoopInv'
    BY StepRows, StepExecutions, StepLoop
  <1>3. (\A t \in Tasks : CancelInv(t)') /\ CancelIsSeen'
    BY StepCancel DEF CancelPart, Seen, CancelIsSeen
  <1>4. SlotsAreAccounted' /\ SuccessIsOfTheLastAttempt'
    BY StepSlots, StepSuccess
  <1> QED
    BY <1>1, <1>2, <1>3, <1>4 DEF TaskInv

-----------------------------------------------------------------------------
(* The contract of a task. *)

\* A goroutine that was claimed starts its handler, or is flagged.
Started(k) ==
    /\ k \in Issued /\ k \notin began /\ began' = began \union {k}
    /\ UNCHANGED <<status, attempt, claimVars, flagged>>
FlaggedNow(k) ==
    /\ k \in Issued /\ flagged' = [flagged EXCEPT ![k] = TRUE]
    /\ UNCHANGED <<status, attempt, claimVars, began>>
Forgotten ==
    /\ flagged' = [k \in Tokens |-> FALSE]
    /\ UNCHANGED <<status, attempt, claimVars, began>>
\* A row moves; one that was running ends as cancelled under a flag.
Moved ==
    /\ UNCHANGED flagged
    /\ \/ \E t \in Tasks : Inserted(t) \/ Rescheduled(t)
       \/ \E t \in Tasks, k \in Tokens : Leased(t, k)
       \/ \E t \in Tasks, s \in Terminal :
            /\ Finished(t, s)
            /\ status[t] = "running" /\ s = "cancelled" => t \in Flagged
Unseen == UNCHANGED <<status, attempt, claimVars, began, flagged>>

WatchedStep ==
    \/ Unseen \/ Moved \/ Forgotten
    \/ \E k \in Tokens : Started(k) \/ FlaggedNow(k)

(* A step that is quiet to the rows and touches no flag and no handler is  *)
(* not seen; one that moves a row is one of the moves.                     *)
LEMMA RowsWatched ==
  ASSUME RowTypes, RowStep, UNCHANGED <<began, flagged>>,
         \A t \in Tasks : status[t] = "running" => status'[t] # "cancelled"
  PROVE  WatchedStep
  <1>1. CASE Quiet
    BY <1>1 DEF Quiet, WatchedStep, Unseen
  <1>2. ASSUME NEW t \in Tasks, NEW s \in Terminal, Finished(t, s)
        PROVE  WatchedStep
    <2>1. status'[t] = s
      BY <1>2 DEF Finished, Finish, RowTypes
    <2> QED
      BY <1>2, <2>1 DEF WatchedStep, Moved
  <1> QED
    BY <1>1, <1>2 DEF RowStep, WatchedStep, Moved

(* Every step of the scheduler does one of these.                          *)
LEMMA WatchedSteps == ASSUME TaskInv, FlagPart, [Next]_vars PROVE WatchedStep
  <1>0. /\ RowStep /\ TypeOK /\ RowTypes
    BY RowSteps DEF TaskInv, TypeOK, RowTypes
  <1> USE DEF rowVars
  <1>1. CASE UNCHANGED vars
    BY <1>1 DEF vars, goVars, WatchedStep, Unseen
  <1>2. ASSUME NEW t \in Tasks, Task(t) PROVE WatchedStep
    <2>1. CASE CancelFlag(t)
      <3>1. cancelExec[t] \in Issued
        BY <2>1 DEF CancelFlag, CancelGoes, TaskInv, CancelInv, TypeOK, Issued, NoToken
      <3> QED
        BY <2>1, <3>1 DEF CancelFlag, WatchedStep, FlaggedNow, Issued
    <2>2. CASE CancelQueuedTask(t)
      <3>1. Finished(t, "cancelled") /\ status[t] # "running" /\ UNCHANGED flagged
        BY <2>2 DEF CancelQueuedTask, goVars, Finished, SameClaims, Issued, Pending, Terminal
      <3> QED
        BY <3>1 DEF WatchedStep, Moved, Terminal
    <2>3. CASE Create(t)
      <3>1. Inserted(t) /\ UNCHANGED flagged
        BY <2>3 DEF Create, goVars, Inserted, SameClaims, Issued
      <3> QED
        BY <3>1 DEF WatchedStep, Moved
    <2> QED
      BY <1>2, <2>1, <2>2, <2>3
      DEF Task, BecomeDue, DeadlinePasses, LeaseExpires, PassOver, CancelMisses,
          CancelLookup, CancelSignal, goVars, WatchedStep, Unseen
  <1>3. ASSUME NEW t \in Tasks, NEW k \in Tokens, Claim(t, k) \/ ClaimLost(t, k)
        PROVE  WatchedStep
    <2>1. UNCHANGED <<began, flagged>>
      BY <1>3 DEF Claim, ClaimLost
    <2>2. \A u \in Tasks : status[u] = "running" => status'[u] # "cancelled"
      BY <1>0, <1>3 DEF Claim, ClaimLost, Lease, RowTypes
    <2> QED
      BY <1>0, <2>1, <2>2, RowsWatched
  <1>4. ASSUME NEW k \in Tokens, Loop(k) PROVE WatchedStep
    <2>1. UNCHANGED <<began, flagged>>
      BY <1>4 DEF Loop, DispatchLate, Dispatch, RecoverOne, goVars
    <2>2. \A u \in Tasks : status[u] = "running" => status'[u] # "cancelled"
      BY <1>0, <1>4
      DEF Loop, DispatchLate, Dispatch, RecoverOne, Finish, Reschedule, RowTypes
    <2> QED
      BY <1>0, <2>1, <2>2, RowsWatched
  <1>5. ASSUME NEW k \in Tokens, Execution(k) PROVE WatchedStep
    <2>1. CASE Check(k)
      <3>1. /\ UNCHANGED <<status, attempt, claimVars, flagged>>
            /\ began' = began \/ began' = began \union {k}
        BY <2>1 DEF Check
      <3>2. k \in Issued
        BY <2>1 DEF Check, Issued
      <3>3. k \in began => began' = began
        BY <3>1
      <3> QED
        BY <3>1, <3>2, <3>3 DEF WatchedStep, Started, Unseen
    <2>2. CASE Write(k)
      <3>1. UNCHANGED <<began, flagged>> /\ pc[k] # "unused"
        BY <2>2 DEF Write
      <3>2. CASE /\ Holds(k) /\ verdict[k] # "retry" /\ Finish(taskOf[k], verdict[k])
        <4>1. /\ verdict[k] \in Terminal /\ verdict[k] # "none"
              /\ verdict[k] = "succeeded" => k \in began
              /\ verdict[k] = "cancelled" => flagged[k]
          BY <2>2, <3>2 DEF Write, TaskInv, TypeOK, ExecutionInv, Verdicts, Terminal, FlagPart
        <4>2. Finished(taskOf[k], verdict[k])
          <5>1. SameClaims
            BY <1>0, <2>2, <3>1 DEF Write, SameClaims, Issued, TypeOK
          <5> QED
            BY <3>1, <3>2, <4>1, <5>1, ClaimOnRow DEF Finished, Pending
        <4>3. verdict[k] = "cancelled" => taskOf[k] \in Flagged
          BY <4>1 DEF Flagged
        <4>4. taskOf[k] \in Tasks
          BY <3>1, <3>2, ClaimOnRow
        <4> QED
          BY <3>1, <4>1, <4>2, <4>3, <4>4 DEF WatchedStep, Moved
      <3>3. CASE ~(Holds(k) /\ verdict[k] # "retry" /\ Finish(taskOf[k], verdict[k]))
        <4>1. \A u \in Tasks : status[u] = "running" => status'[u] # "cancelled"
          BY <1>0, <2>2, <3>3 DEF Write, Finish, Reschedule, RowTypes
        <4> QED
          BY <1>0, <3>1, <4>1, RowsWatched
      <3> QED
        BY <3>2, <3>3
    <2> QED
      BY <1>5, <2>1, <2>2
      DEF Execution, Arm, HandlerReturns, Cleanup, Conclude, WatchedStep, Unseen
  <1>6. ASSUME NEW k \in Tokens, Renewal(k) PROVE WatchedStep
    BY <1>6 DEF Renewal, Renew, RenewFails, goVars, WatchedStep, Unseen
  <1>7. CASE ListDue \/ ListDead
    BY <1>7 DEF ListDue, ListDead, goVars, WatchedStep, Unseen
  <1>8. CASE Process
    BY <1>8
    DEF Process, FinishShutdown, ExitForced, Crash, ProcessEnds, BeginShutdown,
        ForceShutdown, Start, goVars, WatchedStep, Unseen, Forgotten
  <1> QED
    BY <1>1, <1>2, <1>3, <1>4, <1>5, <1>6, <1>7, <1>8 DEF Next

(* Flags are put on executions that were dispatched, and only a flagged    *)
(* one concludes that it was cancelled.                                    *)
LEMMA StepFlags == ASSUME TaskInv, FlagPart, [Next]_vars PROVE FlagPart'
  <1> SUFFICES ASSUME NEW j \in Tokens
               PROVE  /\ flagged'[j] => pc'[j] # "unused"
                      /\ verdict'[j] = "cancelled" => flagged'[j]
    BY DEF FlagPart
  <1>0. /\ TypeOK /\ (flagged[j] => pc[j] # "unused")
        /\ verdict[j] = "cancelled" => flagged[j]
    BY DEF TaskInv, FlagPart
  <1>1. CASE UNCHANGED <<pc, flagged, verdict>>
    BY <1>0, <1>1
  <1>2. ASSUME NEW t \in Tasks, CancelFlag(t)
        PROVE  /\ flagged'[j] => pc'[j] # "unused"
               /\ verdict'[j] = "cancelled" => flagged'[j]
    <2>1. pc[cancelExec[t]] # "unused" /\ cancelExec[t] \in Tokens
      BY <1>2 DEF CancelFlag, CancelGoes, TaskInv, CancelInv, TypeOK, NoToken
    <2> QED
      BY <1>0, <1>2, <2>1 DEF CancelFlag, TypeOK
  <1>3. ASSUME NEW t \in Tasks, NEW k \in Tokens, Claim(t, k) \/ ClaimLost(t, k)
        PROVE  /\ flagged'[j] => pc'[j] # "unused"
               /\ verdict'[j] = "cancelled" => flagged'[j]
    BY <1>0, <1>3 DEF Claim, ClaimLost, TypeOK
  <1>4. ASSUME NEW k \in Tokens, Loop(k) \/ Execution(k) \/ Renewal(k)
        PROVE  /\ flagged'[j] => pc'[j] # "unused"
               /\ verdict'[j] = "cancelled" => flagged'[j]
    <2>1. CASE Loop(k)
      BY <1>0, <2>1 DEF Loop, DispatchLate, Dispatch, RecoverOne, goVars, TypeOK
    <2>2. CASE Renewal(k)
      BY <1>0, <2>2 DEF Renewal, Renew, RenewFails, goVars
    <2>3. CASE Arm(k) \/ Write(k) \/ Cleanup(k)
      BY <1>0, <2>3 DEF Arm, Write, Cleanup, TypeOK
    <2>4. CASE Check(k) \/ HandlerReturns(k)
      BY <1>0, <2>4 DEF Check, HandlerReturns, Conclude, RetryOrFail, TypeOK
    <2> QED
      BY <1>4, <2>1, <2>2, <2>3, <2>4 DEF Execution
  <1>5. CASE ProcessEnds
    BY <1>5 DEF ProcessEnds
  <1>6. ASSUME NEW t \in Tasks, Task(t), ~CancelFlag(t)
        PROVE  UNCHANGED <<pc, flagged, verdict>>
    BY <1>6
    DEF Task, Create, BecomeDue, DeadlinePasses, LeaseExpires, PassOver, CancelQueuedTask,
        CancelMisses, CancelLookup, CancelSignal, goVars
  <1>7. CASE UNCHANGED vars \/ ListDue \/ ListDead \/ BeginShutdown \/ ForceShutdown \/ Start
    BY <1>1, <1>7 DEF vars, ListDue, ListDead, BeginShutdown, ForceShutdown, Start, goVars
  <1> QED
    BY <1>1, <1>2, <1>3, <1>4, <1>5, <1>6, <1>7
    DEF Next, Process, FinishShutdown, ExitForced, Crash

(* What the handlers were given, and who was flagged, when no claim of     *)
(* theirs moves.                                                           *)
LEMMA HandedStays ==
  ASSUME began' = began,
         \A k \in began : taskOf'[k] = taskOf[k] /\ attemptOf'[k] = attemptOf[k]
  PROVE  Handed' = Handed
  BY DEF Handed

LEMMA FlaggedStays ==
  ASSUME flagged' = flagged, \A k \in Tokens : flagged[k] => taskOf'[k] = taskOf[k]
  PROVE  Flagged' = Flagged
  BY DEF Flagged

States == [t \in Tasks |-> StateOf(status[t])]

LEMMA StateMoves ==
  ASSUME RowTypes, NEW t \in Tasks, NEW s, status' = [status EXCEPT ![t] = s]
  PROVE  States' = [States EXCEPT ![t] = StateOf(s)] /\ States[t] = StateOf(status[t])
  BY DEF RowTypes, States

(* A row that moves does what the contract says.                           *)
LEMMA MovedMaps == ASSUME TaskInv, FlagPart, Moved PROVE Contract!QNext
  <1>0. RowTypes /\ RowPart /\ began \subseteq Issued
    BY DEF TaskInv, TypeOK, RowTypes, RowPart, ClaimInv, Issued
  <1>1. StateOf("queued") = "waiting" /\ StateOf("retry_scheduled") = "waiting"
        /\ \A s \in {"none", "running"} \union Terminal : StateOf(s) = s
    BY DEF StateOf, Pending, Terminal
  <1>2. ASSUME SameClaims PROVE Handed' = Handed /\ Flagged' = Flagged
    BY <1>2, HandedStays, FlaggedStays DEF SameClaims, claimVars, Moved
  <1>3. ASSUME NEW t \in Tasks, Inserted(t) PROVE Contract!QNext
    <2>1. States' = [States EXCEPT ![t] = "waiting"] /\ States[t] = "none"
      <3>1. status' = [status EXCEPT ![t] = "queued"] /\ status[t] = "none"
        BY <1>3 DEF Inserted
      <3>2. States' = [States EXCEPT ![t] = StateOf("queued")] /\ States[t] = StateOf(status[t])
        BY <1>0, <3>1, StateMoves
      <3> QED
        BY <1>1, <3>1, <3>2
    <2>2. Contract!Submit(t)
      BY <1>2, <1>3, <2>1 DEF Inserted, Contract!Submit, Contract!Moves, States
    <2> QED
      BY <2>2 DEF Contract!QNext
  <1>4. ASSUME NEW t \in Tasks, Rescheduled(t) PROVE Contract!QNext
    <2>1. States' = [States EXCEPT ![t] = "waiting"] /\ States[t] = "running"
      <3>1. status' = [status EXCEPT ![t] = "retry_scheduled"] /\ status[t] = "running"
        BY <1>4 DEF Rescheduled, Reschedule
      <3>2. States' = [States EXCEPT ![t] = StateOf("retry_scheduled")] /\ States[t] = StateOf(status[t])
        BY <1>0, <3>1, StateMoves
      <3> QED
        BY <1>1, <3>1, <3>2
    <2>2. Contract!TryAgain(t)
      BY <1>2, <1>4, <2>1
      DEF Rescheduled, Reschedule, Contract!TryAgain, Contract!Moves, States
    <2> QED
      BY <2>2 DEF Contract!QNext
  <1>5. ASSUME NEW t \in Tasks, NEW k \in Tokens, Leased(t, k) PROVE Contract!QNext
    <2>1. Handed' = Handed
      BY <1>0, <1>5, HandedStays DEF Leased, Lease, RowTypes
    <2>2. Flagged' = Flagged
      BY <1>0, <1>5, FlaggedStays DEF Leased, Lease, RowTypes, Moved, FlagPart, Issued
    <2>3. States' = [States EXCEPT ![t] = "running"]
      <3>1. status' = [status EXCEPT ![t] = "running"]
        BY <1>5 DEF Leased, Lease
      <3>2. States' = [States EXCEPT ![t] = StateOf("running")] /\ States[t] = StateOf(status[t])
        BY <1>0, <3>1, StateMoves
      <3> QED
        BY <1>1, <3>1, <3>2
    <2>4. States[t] = "waiting"
      BY <1>5 DEF Leased, Claimable, States, StateOf
    <2>5. Contract!Take(t)
      BY <1>5, <2>1, <2>2, <2>3, <2>4
      DEF Leased, Lease, Contract!Take, Contract!Moves, States
    <2> QED
      BY <2>5 DEF Contract!QNext
  <1>6. ASSUME NEW t \in Tasks, NEW s \in Terminal, Finished(t, s),
               status[t] = "running" /\ s = "cancelled" => t \in Flagged
        PROVE  Contract!QNext
    <2>1. /\ Handed' = Handed /\ Flagged' = Flagged /\ attempt' = attempt
          /\ status' = [status EXCEPT ![t] = s]
      BY <1>2, <1>6 DEF Finished, Finish
    <2>2. States' = [States EXCEPT ![t] = s]
      <3>1. States' = [States EXCEPT ![t] = StateOf(s)]
        BY <1>0, <2>1, StateMoves
      <3> QED
        BY <1>1, <3>1
    <2>3. CASE status[t] = "running"
      <3>1. s = "succeeded" => \E h \in Handed : h[2] = t /\ h[3] = attempt[t]
        <4> SUFFICES ASSUME s = "succeeded"
                     PROVE  \E h \in Handed : h[2] = t /\ h[3] = attempt[t]
          OBVIOUS
        <4>1. PICK k \in began : taskOf[k] = t /\ attemptOf[k] = attempt[t]
          BY <1>6 DEF Finished
        <4>2. <<k, t, attempt[t]>> \in Handed
          BY <4>1 DEF Handed
        <4> QED
          BY <4>2
      <3>2. States[t] = "running"
        BY <1>1, <2>3 DEF States
      <3>3. Contract!End(t, s)
        BY <1>6, <2>1, <2>2, <2>3, <3>1, <3>2 DEF Contract!End, Contract!Moves, States
      <3> QED
        BY <3>3 DEF Contract!QNext, Contract!Outcomes, Terminal
    <2>4. CASE status[t] \in Pending
      <3>1. States[t] = "waiting" /\ s = "cancelled"
        BY <1>6, <2>4 DEF Finished, States, StateOf
      <3>2. Contract!Withdraw(t)
        BY <1>6, <2>1, <2>2, <3>1 DEF Contract!Withdraw, Contract!Moves, States
      <3> QED
        BY <3>2 DEF Contract!QNext
    <2> QED
      BY <1>6, <2>3, <2>4 DEF Finished
  <1> QED
    BY <1>3, <1>4, <1>5, <1>6 DEF Moved

(* Every step of the scheduler is a step of the contract, or not seen.     *)
LEMMA TaskMaps ==
  ASSUME TaskInv, FlagPart, [Next]_vars
  PROVE  Contract!QNext \/ UNCHANGED Contract!qvars
  <1>0. WatchedStep /\ RowTypes /\ RowPart
    BY WatchedSteps DEF TaskInv, TypeOK, RowTypes
  <1>1. CASE Moved
    BY <1>1, MovedMaps
  <1>2. ASSUME UNCHANGED <<status, attempt>>
        PROVE  States' = States /\ attempt' = attempt
    BY <1>2 DEF States
  <1>3. CASE Unseen
    BY <1>2, <1>3, HandedStays, FlaggedStays
    DEF Unseen, claimVars, Contract!qvars, States
  <1>4. ASSUME NEW k \in Tokens, Started(k) PROVE Contract!QNext
    <2> DEFINE t == taskOf[k]
               n == attemptOf[k]
    <2>1. /\ t \in Tasks /\ n \in 1..attempt[t]
          /\ status[t] \in Pending => n < attempt[t]
      BY <1>0, <1>4 DEF Started, Issued, RowPart, ClaimInv
    <2>2. Handed' = Handed \union {<<k, t, n>>}
      BY <1>4 DEF Started, Handed, claimVars
    <2>3. Flagged' = Flagged
      BY <1>4, FlaggedStays DEF Started, claimVars
    <2>4. \A s \in Handed : s[1] # k /\ ~(s[2] = t /\ s[3] = n)
      <3> SUFFICES ASSUME NEW j \in began
                   PROVE  j # k /\ ~(taskOf[j] = t /\ attemptOf[j] = n)
        BY DEF Handed
      <3>1. j \in Issued /\ k \in Issued /\ j # k
        BY <1>0, <1>4 DEF Started, Issued, RowTypes, RowPart, ClaimInv
      <3> QED
        BY <1>0, <3>1 DEF RowPart, SerialInv
    <2>5. States[t] = "waiting" => n < attempt[t]
      BY <1>0, <2>1 DEF States, StateOf, RowTypes, Terminal
    <2> HIDE DEF t, n
    <2>6. n <= attempt[t] /\ n \in 1..attempt[t]
      BY <2>1
    <2>7. Contract!Begin(k, t, n)
      BY <1>2, <1>4, <2>2, <2>3, <2>4, <2>5, <2>6 DEF Started, Contract!Begin, States
    <2> QED
      BY <2>1, <2>6, <2>7 DEF Contract!QNext
  <1>5. ASSUME NEW k \in Tokens, FlaggedNow(k) PROVE Contract!QNext
    <2>1. taskOf[k] \in Tasks /\ attempt[taskOf[k]] # 0
      BY <1>0, <1>5 DEF FlaggedNow, Issued, RowPart, ClaimInv, RowTypes
    <2>2. States[taskOf[k]] # "none"
      BY <1>0, <2>1 DEF RowPart, RowInv, States, StateOf
    <2>3. Flagged' = Flagged \union {taskOf[k]}
      BY <1>5 DEF FlaggedNow, Flagged, claimVars, TaskInv, TypeOK
    <2>4. Handed' = Handed
      BY <1>5, HandedStays DEF FlaggedNow, claimVars
    <2>5. Contract!Ask(taskOf[k])
      BY <1>2, <1>5, <2>2, <2>3, <2>4 DEF FlaggedNow, Contract!Ask, States
    <2> QED
      BY <2>1, <2>5 DEF Contract!QNext
  <1>6. CASE Forgotten
    <2>1. Flagged' = {}
      BY <1>6 DEF Forgotten, Flagged
    <2>2. Handed' = Handed
      BY <1>6, HandedStays DEF Forgotten, claimVars
    <2> QED
      BY <1>2, <1>6, <2>1, <2>2 DEF Forgotten, Contract!Forget, Contract!QNext, States
  <1> QED
    BY <1>0, <1>1, <1>3, <1>4, <1>5, <1>6 DEF WatchedStep

-----------------------------------------------------------------------------
(* Theorems *)

(* The invariant of the task scheduler holds in every behaviour.           *)
THEOREM TaskInvariantHolds == Spec => []TaskInv
  BY InitInv, StepInv, PTL DEF Spec

(* Rows, goroutines and counters keep their domains: in particular no row  *)
(* passes its attempt limit, as the CHECK of schema.sql demands.           *)
THEOREM TaskTypesHold == Spec => []TypeOK
  <1>1. TaskInv => TypeOK
    BY DEF TaskInv
  <1> QED
    BY <1>1, TaskInvariantHolds, PTL

(* Slots are held by the claims in hand and by nothing else, and neither   *)
(* the deployment nor an App exceeds its capacity.                         *)
THEOREM SlotsBalance == Spec => []SlotsAreAccounted
  <1>1. TaskInv => SlotsAreAccounted
    BY DEF TaskInv
  <1> QED
    BY <1>1, TaskInvariantHolds, PTL

(* No attempt is handed to two handlers, for any number of tasks, claims,  *)
(* stops and failures.                                                     *)
THEOREM AttemptsAreRunOnce == Spec => []AttemptsRunOnce
  <1>1. TaskInv => AttemptsRunOnce
    BY DEF TaskInv, TypeOK, AttemptsRunOnce, RowPart, SerialInv, ClaimInv, Issued
  <1> QED
    BY <1>1, TaskInvariantHolds, PTL

(* The handler of a task that may not be repeated is started once at most. *)
THEOREM UnsafeTasksRunOnce == Spec => []UnsafeRunsOnce
  <1>1. TaskInv => UnsafeRunsOnce
    <2> SUFFICES ASSUME TaskInv, NEW j \in began, NEW k \in began,
                        taskOf[j] = taskOf[k], taskOf[j] \notin AllowRetry
                 PROVE  j = k
      BY DEF UnsafeRunsOnce
    <2> DEFINE t == taskOf[j]
    <2>1. j \in Issued /\ k \in Issued
      BY DEF TaskInv, TypeOK, RowPart, ClaimInv, Issued
    <2>2. t \in Tasks /\ attempt[t] \in Nat /\ attempt[t] <= 1
      BY <2>1, TaskAssumption
      DEF TaskInv, TypeOK, RowPart, ClaimInv, RowInv, Issued
    <2>3. attemptOf[j] \in 1..attempt[t] /\ attemptOf[k] \in 1..attempt[t]
      BY <2>1 DEF TaskInv, RowPart, ClaimInv, Issued
    <2>4. attemptOf[j] = attemptOf[k]
      BY <2>2, <2>3
    <2> QED
      BY <2>1, <2>4 DEF TaskInv, RowPart, SerialInv
  <1> QED
    BY <1>1, TaskInvariantHolds, PTL

(* A success is of the attempt the row is at.                              *)
THEOREM SuccessIsEarned == Spec => []SuccessIsOfTheLastAttempt
  <1>1. TaskInv => SuccessIsOfTheLastAttempt
    BY DEF TaskInv
  <1> QED
    BY <1>1, TaskInvariantHolds, PTL

(* No cancellation is lost between the flag and the cancel function.       *)
THEOREM CancelReachesExecution == Spec => []CancelIsSeen
  <1>1. TaskInv => CancelIsSeen
    BY DEF TaskInv
  <1> QED
    BY <1>1, TaskInvariantHolds, PTL

(* A task that has ended never changes again.                              *)
THEOREM EndedTasksStay == Spec => TerminalIsFinal
  <1> DEFINE Final ==
        \A t \in Tasks : status[t] \in Terminal =>
          status'[t] = status[t] /\ attempt'[t] = attempt[t]
  <1>1. ASSUME TaskInv, [Next]_vars PROVE Final
    <2>1. RowStep
      BY <1>1, RowSteps
    <2>2. RowTypes
      BY <1>1 DEF TaskInv, TypeOK, RowTypes
    <2> QED
      BY <2>1, <2>2
         DEF RowStep, Quiet, Inserted, Rescheduled, Reschedule, Leased, Lease,
             Claimable, Finished, Finish, RowTypes, Terminal, Pending
  <1> QED
    BY <1>1, TaskInvariantHolds, PTL DEF Spec, TerminalIsFinal

(* The scheduler keeps its contract: every step is a step of TaskContract  *)
(* under the mapping of TaskSchedulerInv, or changes nothing of it.        *)
THEOREM TasksKeepContract == Spec => KeepsTaskContract
  <1>1. Init => Contract!QInit /\ FlagPart
    <2> SUFFICES ASSUME Init PROVE Contract!QInit /\ FlagPart
      OBVIOUS
    <2>1. StateOf("none") = "none"
      BY DEF StateOf, Pending
    <2> QED
      BY <2>1 DEF Init, Contract!QInit, FlagPart, Handed, Flagged
  <1>2. TaskInv /\ FlagPart /\ [Next]_vars => FlagPart'
    BY StepFlags
  <1>3. TaskInv /\ FlagPart /\ [Next]_vars => [Contract!QNext]_(Contract!qvars)
    BY TaskMaps
  <1> QED
    BY <1>1, <1>2, <1>3, TaskInvariantHolds, PTL
    DEF Spec, KeepsTaskContract, Contract!QSpec
=============================================================================
