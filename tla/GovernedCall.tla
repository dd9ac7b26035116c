----------------------------- MODULE GovernedCall -----------------------------
(***************************************************************************)
(* A Capability call with an effect, as Dispatcher.route runs it: the      *)
(* confirmation is verified, the idempotency record of the operation is    *)
(* claimed, the handler runs, the record is completed; a call that finds   *)
(* the record taken replays it or waits for it.  The same Manager.Execute  *)
(* stands around every CapabilityCall of an executor, there without a      *)
(* confirmation.                                                           *)
(*                                                                         *)
(* Every SQL statement is one step.  Abstracted: what policy, grants,      *)
(* schema and call chain say of a call (a choice), results (that of the    *)
(* operation, or none), clocks (a lease or an expiry passes at any time,   *)
(* a context ends at any time).  A key stands for all that a confirmation  *)
(* is bound to (App, Echo, Run, Capability, effect target, key).           *)
(***************************************************************************)
EXTENDS Naturals

CONSTANTS
    Calls, NoCall,  \* invocations; a client that retries makes another one
    Keys, KeyOf,    \* idempotency keys
    Args, NoArg, ArgOf,    \* request fingerprints
    Confs, NoConf, ConfOf, \* confirmations; NoConf where none is required
    NoKey,
    Runs, RunOf,    \* the Run of each key
    MaxVersions,    \* bound: versions of the Capability
    MaxStops,       \* bound: how often the process is restarted
    StoreFaults     \* TRUE: a statement may fail, or its answer be lost

Versions == 1..MaxVersions
\* Scope and key of a record: the Capability's version is part of the scope.
Operations == Keys \X Versions

ASSUME CallAssumption ==
    /\ NoCall \notin Calls /\ NoConf \notin Confs /\ NoKey \notin Keys
    /\ KeyOf \in [Calls -> Keys]
    /\ ArgOf \in [Calls -> Args]
    /\ ConfOf \in [Calls -> Confs \union {NoConf}]
    /\ RunOf \in [Keys -> Runs]
    /\ MaxVersions \in Nat \ {0} /\ MaxStops \in Nat
    /\ StoreFaults \in BOOLEAN

VARIABLES
    (* idempotency_records *)
    record,     \* status, "none" before the row exists
    recordArg,  \* request_fingerprint
    owner,      \* lease_token, by the call that drew it
    lapsed,     \* operations whose lease_expires_at has passed
    (* confirmations *)
    conf, confKey,
    outdated,   \* confirmations whose expires_at has passed
    (* the process *)
    version,    \* of the Capability in this process's Registry
    stops,
    (* one goroutine per call *)
    pc,
    resolved,   \* the version route has resolved
    outcome,    \* what the handler returned
    inTime,     \* completedAt lies within the lease
    answer,
    ran         \* history: calls whose handler was started

recordVars == <<record, recordArg, owner>>
confVars == <<conf, confKey>>
callVars == <<resolved, outcome, inTime, answer, ran>>
vars == <<recordVars, lapsed, confVars, outdated, version, stops, pc, callVars>>

Open == {"waiting", "approved"}
Busy == {"admitted", "verified", "inserted", "waiting", "running", "completing"}
Answers == {"none", "refused", "ok", "replayed", "failed", "previous failure",
            "unknown", "conflict", "ended", "error"}

Init ==
    /\ record = [o \in Operations |-> "none"]
    /\ recordArg = [o \in Operations |-> NoArg]
    /\ owner = [o \in Operations |-> NoCall]
    /\ lapsed = {}
    /\ conf = [f \in Confs |-> "none"]
    /\ confKey = [f \in Confs |-> NoKey]
    /\ outdated = {}
    /\ version = 1 /\ stops = 0
    /\ pc = [c \in Calls |-> "new"]
    /\ resolved = [c \in Calls |-> 1]
    /\ outcome = [c \in Calls |-> "none"]
    /\ inTime = [c \in Calls |-> FALSE]
    /\ answer = [c \in Calls |-> "none"]
    /\ ran = {}

Operation(c) == <<KeyOf[c], resolved[c]>>

Goes(c, to) == pc' = [pc EXCEPT ![c] = to]
Ends(c, a) == Goes(c, "done") /\ answer' = [answer EXCEPT ![c] = a]

-----------------------------------------------------------------------------
(* Dispatcher.route up to the idempotency record *)

\* Policy, Run grant, Registry, schema and authorization have been passed.
Admit(c) ==
    /\ pc[c] = "new"
    /\ Goes(c, "admitted")
    /\ resolved' = [resolved EXCEPT ![c] = version]
    /\ UNCHANGED <<recordVars, lapsed, confVars, outdated, version, stops,
                   outcome, inTime, answer, ran>>

\* One of these refuses; after the confirmation, the call graph does.
Refuse(c) ==
    /\ pc[c] \in {"new", "verified"}
    /\ Ends(c, "refused")
    /\ UNCHANGED <<recordVars, lapsed, confVars, outdated, version, stops,
                   resolved, outcome, inTime, ran>>

\* verifyRecord
Covers(f, c) ==
    conf[f] = "approved" /\ confKey[f] = KeyOf[c] /\ f \notin outdated

Verify(c) ==
    /\ pc[c] = "admitted"
    /\ \/ ConfOf[c] = NoConf /\ Goes(c, "verified") /\ UNCHANGED answer
       \/ /\ ConfOf[c] # NoConf /\ Covers(ConfOf[c], c)
          /\ Goes(c, "verified") /\ UNCHANGED answer
       \/ /\ ConfOf[c] # NoConf
          /\ ~Covers(ConfOf[c], c) \/ StoreFaults
          /\ Ends(c, "refused")
    /\ UNCHANGED <<recordVars, lapsed, confVars, outdated, version, stops,
                   resolved, outcome, inTime, ran>>

-----------------------------------------------------------------------------
(* Manager.Execute *)

Vacant(o) == record[o] = "none"

\* INSERT ... ON CONFLICT DO NOTHING, the first half of BeginIdempotent.
InsertRow(c) ==
    LET o == Operation(c) IN
    IF Vacant(o)
    THEN /\ record' = [record EXCEPT ![o] = "executing"]
         /\ recordArg' = [recordArg EXCEPT ![o] = ArgOf[c]]
         /\ owner' = [owner EXCEPT ![o] = c]
         /\ lapsed' = lapsed \ {o}
    ELSE UNCHANGED <<recordVars, lapsed>>

Insert(c) ==
    /\ pc[c] = "verified"
    /\ \/ InsertRow(c) /\ Goes(c, "inserted") /\ UNCHANGED answer
       \/ /\ StoreFaults
          /\ InsertRow(c) \/ UNCHANGED <<recordVars, lapsed>>
          /\ Ends(c, "error")
    /\ UNCHANGED <<confVars, outdated, version, stops, resolved, outcome,
                   inTime, ran>>

\* The row as read back answers the call, or makes it wait.
Replay(c) ==
    LET o == Operation(c) IN
    \/ recordArg[o] # ArgOf[c] /\ Ends(c, "conflict")
    \/ /\ recordArg[o] = ArgOf[c]
       /\ \/ record[o] = "succeeded" /\ Ends(c, "replayed")
          \/ record[o] = "failed" /\ Ends(c, "previous failure")
          \/ record[o] = "executing" /\ o \in lapsed /\ Ends(c, "unknown")
          \/ /\ record[o] = "executing" /\ o \notin lapsed
             /\ Goes(c, "waiting") /\ UNCHANGED answer

\* GetIdempotent, the second half of BeginIdempotent.  It has the caller's
\* context, so it may fail although the row has been inserted.
ReadBack(c) ==
    /\ pc[c] = "inserted"
    /\ \/ /\ owner[Operation(c)] = c
          /\ Goes(c, "running")
          /\ ran' = ran \union {c} /\ UNCHANGED answer
       \/ owner[Operation(c)] # c /\ Replay(c) /\ UNCHANGED ran
       \/ Ends(c, "ended") /\ UNCHANGED ran
    /\ UNCHANGED <<recordVars, lapsed, confVars, outdated, version, stops,
                   resolved, outcome, inTime>>

\* Mutants of Poll: a waiter takes the place of an owner whose lease has
\* lapsed; the lease is not looked at.
PollTakingOver(c) ==
    LET o == Operation(c) IN
    /\ pc[c] = "waiting"
    /\ \/ /\ record[o] = "executing" /\ o \in lapsed
          /\ Goes(c, "running") /\ ran' = ran \union {c} /\ UNCHANGED answer
       \/ ~(record[o] = "executing" /\ o \in lapsed) /\ Replay(c) /\ UNCHANGED ran
    /\ UNCHANGED <<recordVars, lapsed, confVars, outdated, version, stops,
                   resolved, outcome, inTime>>
PollStatus(c) ==
    /\ pc[c] = "waiting" /\ record[Operation(c)] # "executing"
    /\ Replay(c)
    /\ UNCHANGED <<recordVars, lapsed, confVars, outdated, version, stops,
                   resolved, outcome, inTime, ran>>

Poll(c) ==
    /\ pc[c] = "waiting"
    /\ Replay(c)
    /\ UNCHANGED <<recordVars, lapsed, confVars, outdated, version, stops,
                   resolved, outcome, inTime, ran>>

\* The context of a waiting call ends, or the row cannot be read.
GiveUp(c) ==
    /\ pc[c] = "waiting"
    /\ Ends(c, "ended")
    /\ UNCHANGED <<recordVars, lapsed, confVars, outdated, version, stops,
                   resolved, outcome, inTime, ran>>

\* The handler returns (a result that is too large counts as an error), and the
\* clock is read for completed_at.
HandlerReturns(c) ==
    /\ pc[c] = "running"
    /\ outcome' \in {[outcome EXCEPT ![c] = x] : x \in {"succeeded", "failed"}}
    /\ inTime' = [inTime EXCEPT ![c] = Operation(c) \notin lapsed]
    /\ Goes(c, "completing")
    /\ UNCHANGED <<recordVars, lapsed, confVars, outdated, version, stops,
                   resolved, answer, ran>>

Result(c) == IF outcome[c] = "succeeded" THEN "ok" ELSE "failed"

\* Mutant of Complete: the outcome of the UPDATE is not looked at.
CompleteUnchecked(c) ==
    LET o == Operation(c) IN
    /\ pc[c] = "completing"
    /\ record' = IF record[o] = "executing" /\ owner[o] = c /\ inTime[c]
                 THEN [record EXCEPT ![o] = outcome[c]] ELSE record
    /\ Ends(c, Result(c))
    /\ UNCHANGED <<recordArg, owner, lapsed, confVars, outdated, version, stops,
                   resolved, outcome, inTime, ran>>

\* CompleteIdempotent, on a detached context; unless it reports success the
\* caller is told of an error whatever the handler returned.
Complete(c) ==
    LET o == Operation(c)
        hit == record[o] = "executing" /\ owner[o] = c /\ inTime[c]
    IN
    /\ pc[c] = "completing"
    /\ \/ hit /\ record' = [record EXCEPT ![o] = outcome[c]] /\ Ends(c, Result(c))
       \/ ~hit /\ UNCHANGED record /\ Ends(c, "error")
       \/ /\ StoreFaults /\ hit
          /\ record' \in {record, [record EXCEPT ![o] = outcome[c]]}
          /\ Ends(c, "error")
    /\ UNCHANGED <<recordArg, owner, lapsed, confVars, outdated, version, stops,
                   resolved, outcome, inTime, ran>>

LeaseLapses(o) ==
    /\ record[o] # "none" /\ o \notin lapsed
    /\ lapsed' = lapsed \union {o}
    /\ UNCHANGED <<recordVars, confVars, outdated, version, stops, pc, callVars>>

-----------------------------------------------------------------------------
(* confirmation.Service.  The callers of Decide and Revoke read the clock    *)
(* some time before the statement runs, so that its test of expires_at says  *)
(* nothing of the present; a statement that misses changes nothing.          *)

Marks(fs, s) == conf' = [f \in Confs |-> IF f \in fs /\ conf[f] \in Open
                                         THEN s ELSE conf[f]]

Request(f, k) ==
    /\ conf[f] = "none"
    /\ conf' = [conf EXCEPT ![f] = "waiting"]
    /\ confKey' = [confKey EXCEPT ![f] = k]
    /\ UNCHANGED <<recordVars, lapsed, outdated, version, stops, pc, callVars>>

\* Mutant of Decidable: a decision may be changed.
DecidableAgain(f) == conf[f] \in {"waiting", "approved", "rejected"}
Decidable(f) == conf[f] = "waiting"

Decide(f, s) ==
    /\ Decidable(f)
    /\ conf' = [conf EXCEPT ![f] = s]
    /\ UNCHANGED <<recordVars, lapsed, confKey, outdated, version, stops, pc,
                   callVars>>

\* Revoke and Expire
Withdraw(f, s) ==
    /\ Marks({f}, s)
    /\ UNCHANGED <<recordVars, lapsed, confKey, outdated, version, stops, pc,
                   callVars>>

\* The sweep of governance_tasks.go: of one App, and by a clock read before.
ExpireDue ==
    /\ \E fs \in SUBSET outdated : Marks(fs, "expired")
    /\ UNCHANGED <<recordVars, lapsed, confKey, outdated, version, stops, pc,
                   callVars>>

RevokeRun(r) ==
    /\ Marks({f \in Confs : confKey[f] # NoKey /\ RunOf[confKey[f]] = r},
             "revoked")
    /\ UNCHANGED <<recordVars, lapsed, confKey, outdated, version, stops, pc,
                   callVars>>

ConfirmationLapses(f) ==
    /\ conf[f] # "none" /\ f \notin outdated
    /\ outdated' = outdated \union {f}
    /\ UNCHANGED <<recordVars, lapsed, confVars, version, stops, pc, callVars>>

-----------------------------------------------------------------------------
\* Calls in progress are lost, and nothing at start-up looks at the rows.  The
\* Registry is filled once per process, so this is when a Capability may come
\* in another version.
Restart ==
    /\ stops < MaxStops
    /\ stops' = stops + 1
    /\ version' \in {version, version + 1} \intersect Versions
    /\ pc' = [c \in Calls |-> IF pc[c] \in Busy THEN "gone" ELSE pc[c]]
    /\ UNCHANGED <<recordVars, lapsed, confVars, outdated, callVars>>

Call(c) ==
    \/ Admit(c) \/ Refuse(c) \/ Verify(c) \/ Insert(c) \/ ReadBack(c)
    \/ Poll(c) \/ GiveUp(c) \/ HandlerReturns(c) \/ Complete(c)

Confirmation(f) ==
    \/ \E k \in Keys : Request(f, k)
    \/ \E s \in {"approved", "rejected"} : Decide(f, s)
    \/ \E s \in {"revoked", "expired"} : Withdraw(f, s)
    \/ ConfirmationLapses(f)

Next ==
    \/ \E c \in Calls : Call(c)
    \/ \E o \in Operations : LeaseLapses(o)
    \/ \E f \in Confs : Confirmation(f)
    \/ ExpireDue
    \/ \E r \in Runs : RevokeRun(r)
    \/ Restart

Spec == Init /\ [][Next]_vars

(***************************************************************************)
(* The goroutine of a call is scheduled, its handler returns, the ticker   *)
(* of a waiter ticks, and a lease of two minutes ends.  Nothing forces a   *)
(* context to end: GiveUp has no fairness.                                 *)
(***************************************************************************)
Fairness ==
    /\ \A c \in Calls :
         /\ WF_vars(Verify(c) \/ Insert(c) \/ ReadBack(c) \/ HandlerReturns(c)
                    \/ Complete(c))
         /\ WF_vars(Poll(c))
    /\ \A o \in Operations : WF_vars(LeaseLapses(o))

FairSpec == Spec /\ Fairness

-----------------------------------------------------------------------------
(* Properties *)

TypeOK ==
    /\ record \in [Operations -> {"none", "executing", "succeeded", "failed"}]
    /\ recordArg \in [Operations -> Args \union {NoArg}]
    /\ owner \in [Operations -> Calls \union {NoCall}]
    /\ lapsed \subseteq Operations
    /\ conf \in [Confs -> Open \union {"none", "rejected", "expired", "revoked"}]
    /\ confKey \in [Confs -> Keys \union {NoKey}]
    /\ outdated \subseteq Confs
    /\ version \in Versions /\ stops \in 0..MaxStops
    /\ pc \in [Calls -> Busy \union {"new", "done", "gone"}]
    /\ resolved \in [Calls -> Versions]
    /\ outcome \in [Calls -> {"none", "succeeded", "failed"}]
    /\ inTime \in [Calls -> BOOLEAN]
    /\ answer \in [Calls -> Answers]
    /\ ran \subseteq Calls

\* PRD: an unknown outcome is never redone by itself.  However many calls carry
\* one key to one version of a Capability, before or after a crash, a lapsed
\* lease or a lost answer, the handler is started for one of them at most.
EffectOnce ==
    \A c, d \in ran : Operation(c) = Operation(d) => c = d

\* What a caller is told of the outcome is what the record says and what the
\* handler of that very request returned: callers of one operation are never
\* told different outcomes, and never that of a request with other arguments.
AnswersAgree ==
    \A c \in Calls :
      LET o == Operation(c) IN
      /\ answer[c] \in {"ok", "replayed"} => record[o] = "succeeded"
      /\ answer[c] \in {"failed", "previous failure"} => record[o] = "failed"
      /\ answer[c] \in {"ok", "replayed", "failed", "previous failure"} =>
           /\ recordArg[o] = ArgOf[c]
           /\ owner[o] \in ran /\ outcome[owner[o]] = record[o]

\* The row of an operation belongs to the call that inserted it, and once it
\* says how the operation ended it says so for good.
RecordIsFinal ==
    [][\A o \in Operations :
         /\ owner[o] # NoCall => owner'[o] = owner[o]
         /\ record[o] \in {"succeeded", "failed"} => record'[o] = record[o]]_vars

\* A handler that needs a confirmation is started under one that was approved
\* for this key; a rejected one never lets a handler start, neither before nor
\* after the rejection.
EffectIsConfirmed ==
    \A c \in ran :
      ConfOf[c] # NoConf =>
        /\ confKey[ConfOf[c]] = KeyOf[c]
        /\ conf[ConfOf[c]] \in {"approved", "expired", "revoked"}

\* The comment in Decide: the idempotency record keeps an approval from being
\* used twice.  It does as long as the version of the Capability stays the
\* same, which is part of the record's scope and not of the confirmation.
OneEffectPerConfirmation ==
    version = 1 =>
      \A c, d \in ran : ConfOf[c] = ConfOf[d] /\ ConfOf[c] # NoConf => c = d

\* What a user confirmed happens under that confirmation, and once.
EffectsAreConfirmed == EffectIsConfirmed /\ OneEffectPerConfirmation

\* What an operation, and the caller of a call, see of all this.
Meanings == [c \in Calls |-> {KeyOf[c]} \X Versions]
Performed == {<<c, Operation(c)>> : c \in ran}
Concluded ==
    {<<o, record[o]>> : o \in {p \in Operations : record[p] \in {"succeeded", "failed"}}}
Means(a) ==
    CASE a \in {"ok", "replayed"} -> "succeeded"
      [] a \in {"failed", "previous failure"} -> "failed"
      [] OTHER -> "none"
Heard == [c \in Calls |-> Means(answer[c])]

Contract == INSTANCE CallContract WITH
    MayMean <- Meanings,
    performed <- Performed,
    returned <- outcome,
    concluded <- Concluded,
    told <- Heard

\* The governed call keeps its contract: an operation is performed for one call, what the
\* handler returned is what is recorded, once, and what every caller of that request is told.
KeepsCallContract == Contract!KSpec

\* Every call that is let in comes to an end, the waiters of a dead owner too.
CallsEnd == \A c \in Calls : pc[c] \in Busy ~> pc[c] \in {"done", "gone"}
=============================================================================
