-------------------------- MODULE TaskSchedulerInv --------------------------
(***************************************************************************)
(* The inductive invariant behind the properties of TaskScheduler, apart   *)
(* from the proofs so that TLC can evaluate it.                            *)
(***************************************************************************)
EXTENDS TaskScheduler

Issued == {k \in Tokens : pc[k] # "unused"}
PendingTasks == {t \in Tasks : status[t] \in Pending}

(* A row that has not been inserted has no attempt; a running row, and no  *)
(* other, carries the token of the claim that was made of its current      *)
(* attempt; a type without automatic retry never leaves the first attempt. *)
RowInv(t) ==
    /\ status[t] = "none" <=> attempt[t] = 0
    /\ status[t] = "running" <=> token[t] # NoToken
    /\ token[t] # NoToken =>
         token[t] \in Issued /\ taskOf[token[t]] = t
           /\ attemptOf[token[t]] = attempt[t]
    /\ t \notin AllowRetry => attempt[t] <= 1

(* A claim is of a task that exists, and of an attempt the row has         *)
(* reached; of one it has passed when the row waits to be claimed.         *)
ClaimInv(k) ==
    /\ pc[k] = "unused" => taskOf[k] = NoTask /\ attemptOf[k] = 0 /\ k \notin began
    /\ pc[k] # "unused" =>
         /\ taskOf[k] \in Tasks
         /\ attemptOf[k] \in 1..attempt[taskOf[k]]
         /\ status[taskOf[k]] \in Pending => attemptOf[k] < attempt[taskOf[k]]

SerialInv ==
    \A j, k \in Issued :
      taskOf[j] = taskOf[k] /\ attemptOf[j] = attemptOf[k] => j = k

(* The rows and the claims made of them.                                   *)
RowPart ==
    /\ \A t \in Tasks : RowInv(t)
    /\ due \subseteq PendingTasks
    /\ \A k \in Tokens : ClaimInv(k)
    /\ SerialInv

(* What a goroutine is about to write it may write; a handler runs on a    *)
(* context; the loop has one claim in hand, or none.                       *)
ExecutionInv(k) ==
    /\ verdict[k] # "none" => pc[k] = "settle"
    /\ verdict[k] = "retry" =>
         taskOf[k] \in AllowRetry /\ attemptOf[k] < MaxAttempts
    /\ verdict[k] = "succeeded" => k \in began
    /\ pc[k] \in {"unused", "issued", "spawned"} =>
         ctx[k] = "none" /\ k \notin began
    /\ pc[k] \in {"armed", "running"} => ctx[k] # "none"
    /\ pc[k] = "running" => k \in began
    /\ pc[k] = "settle" => verdict[k] # "none"
    /\ pc[k] = "issued" <=> claimed = k

LoopInv ==
    /\ loop = "claimed" <=> claimed # NoToken
    /\ dead \subseteq Issued
    /\ mode = "down" =>
         loop = "idle" /\ \A k \in Tokens : pc[k] \in {"unused", "gone"}
    /\ mode \in {"stopping", "forced"} => stops < MaxStops

(* Cancel holds no execution before it has looked one up; one that it has  *)
(* found was dispatched, and is flagged before it is signalled.            *)
CancelInv(t) ==
    LET k == cancelExec[t] IN
    /\ executions[t] # NoToken => pc[executions[t]] \notin {"unused", "issued"}
    /\ k # NoToken => pc[k] \notin {"unused", "issued"}
    /\ cancelPc[t] \in {"no", "lookup", "false"} => k = NoToken
    /\ cancelPc[t] \in {"flag", "signal"} => k # NoToken
    /\ cancelPc[t] \in {"signal", "true"} /\ k # NoToken => flagged[k]

TaskInv ==
    /\ TypeOK
    /\ RowPart
    /\ \A k \in Tokens : ExecutionInv(k)
    /\ LoopInv
    /\ \A t \in Tasks : CancelInv(t)
    /\ SlotsAreAccounted
    /\ SuccessIsOfTheLastAttempt
    /\ CancelIsSeen

(* What the contract needs beyond this: a flag is on an execution that was *)
(* claimed, and what is about to be recorded as cancelled carries it.      *)
FlagPart ==
    \A k \in Tokens :
      /\ flagged[k] => pc[k] # "unused"
      /\ verdict[k] = "cancelled" => flagged[k]

(* The rows as their watchers see them, the handlers that were started,    *)
(* and the tasks whose execution Cancel has flagged.                       *)
StateOf(s) == IF s \in Pending THEN "waiting" ELSE s
Handed == {<<k, taskOf[k], attemptOf[k]>> : k \in began}
Flagged == {taskOf[k] : k \in {j \in Tokens : flagged[j]}}

Contract == INSTANCE TaskContract WITH
    Executions <- Tokens,
    Repeatable <- AllowRetry,
    state <- [t \in Tasks |-> StateOf(status[t])],
    tries <- attempt,
    started <- Handed,
    asked <- Flagged

(* The task queue keeps its contract: a task is tried again, ends and is   *)
(* handed to handlers only as TaskContract allows, over lapsed leases,     *)
(* recoveries, lost answers, cancellations, shutdowns and crashes.         *)
KeepsTaskContract == Contract!QSpec
=============================================================================
