------------------------------ MODULE EchoRunInv ------------------------------
(***************************************************************************)
(* The inductive invariant behind the properties of EchoRun, and the       *)
(* mapping under which EchoRun implements EchoContract. Kept apart from    *)
(* the proofs so that TLC can evaluate it.                                 *)
(***************************************************************************)
EXTENDS EchoRun

(* A Run with an effect that must not be repeated.                         *)
HasChild(r) == \E c \in Runs : runParent[c] = r
Effected(r) == r \in audited \/ HasChild(r)
SameRoot(q, r) == /\ runEcho[q] = runEcho[r] /\ runEcho[r] # NoEcho
                  /\ runParent[q] = NoRun /\ runParent[r] = NoRun

(* A row that has not been inserted is blank; one that has belongs to an   *)
(* accepted Echo; a token is on the running rows and on no other; a child  *)
(* hangs under a root of the same Echo; a queued Run has had no effect.    *)
RowInv(r) ==
    /\ runStatus[r] = "none" =>
          /\ runEcho[r] = NoEcho /\ runParent[r] = NoRun
          /\ runAttempt[r] = 0 /\ ~Effected(r)
    /\ runStatus[r] # "none" =>
          /\ runEcho[r] \in Echoes /\ runAttempt[r] >= 1
          /\ echoStatus[runEcho[r]] # "none"
    /\ (runStatus[r] = "running") = (lease[r] # NoWorker)
    /\ runParent[r] # NoRun =>
          /\ runParent[runParent[r]] = NoRun
          /\ runEcho[runParent[r]] = runEcho[r]
    /\ runStatus[r] = "queued" => ~Effected(r)

RowsInv == \A r \in Runs : RowInv(r)

(* Two attempts of one root: numbered apart, the earlier one failed, and   *)
(* what has had an effect is the last.                                     *)
AttemptPair(q, r) ==
    /\ runAttempt[q] = runAttempt[r] => q = r
    /\ runAttempt[q] < runAttempt[r] => runStatus[q] = "failed"
    /\ Effected(r) => runAttempt[q] <= runAttempt[r]

AttemptsInv ==
    \A q, r \in Runs : SameRoot(q, r) => AttemptPair(q, r)

(* A worker has a job exactly at the registered program points, and from   *)
(* the claim to the terminal write it holds the row. What it knows of its  *)
(* own effects is never less than the rows show.                           *)
WorkerInv(w) ==
    /\ \A r \in listed[w] : runStatus[r] # "none"
    /\ pc[w] \in Registered => job[w] \in Runs /\ runStatus[job[w]] # "none"
    /\ pc[w] \notin Registered => job[w] = NoRun
    /\ pc[w] \in Executing \union {"settle"} => Holds(w)
    /\ pc[w] \in {"prepare", "context", "open"} => ~Effected(job[w])
    /\ (pc[w] = "stream" /\ retrySafe[w]) => ~Effected(job[w])
    /\ pc[w] \notin {"stream", "settle", "release"} => retrySafe[w]
    /\ pc[w] = "settle" => verdict[w] # "none"
    /\ (pc[w] = "settle" /\ verdict[w] = "retry") =>
          ~Effected(job[w]) /\ runAttempt[job[w]] < MaxRunAttempts

WorkersInv == \A w \in Workers : WorkerInv(w)

(* No two workers have the same job.                                       *)
JobsInv == \A v, w \in Workers : job[v] = job[w] /\ job[w] # NoRun => v = w

ModeInv ==
    /\ mode = "down" => \A w \in Workers : pc[w] = "idle"
    /\ mode = "stopping" => stops < MaxStops

IInv == /\ TypeOK /\ RowsInv /\ AttemptsInv /\ EchoFollowsRoot
        /\ WorkersInv /\ JobsInv /\ ModeInv

Contract == INSTANCE EchoContract WITH
    outcome <- echoStatus,
    tries <- [e \in Echoes |-> {runAttempt[r] : r \in RootRuns(e)}],
    effected <- {e \in Echoes : \E r \in RootRuns(e) : Effected(r)}

(* The engine keeps the contract: README's "at most 3 attempts, a retry    *)
(* only while the attempt has asked for nothing that is not replay-safe",  *)
(* and each Echo closed once.                                              *)
ImplementsContract == Contract!CSpec
=============================================================================
