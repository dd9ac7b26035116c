----------------------------- MODULE AgentProofs -----------------------------
(***************************************************************************)
(* What is proved of an agent at work: of a Capability call (GovernedCall), *)
(* and of the stream between agent and engine (AgentStream).               *)
(*                                                                         *)
(* A call, for any calls, keys, confirmations, versions, restarts and      *)
(* failures of the store: a row is inserted once and keeps its owner, and  *)
(* a call whose handler was started owns the row of its operation for      *)
(* good.                                                                   *)
(*                                                                         *)
(* A stream, for any budgets, turns, chunks, call ids and attempts: what   *)
(* the engine has counted and what is under way make up what the agent has *)
(* counted, so that the engine's checks can only agree with the agent's.   *)
(***************************************************************************)
EXTENDS GovernedCall, AgentStream, Integers, FiniteSetTheorems, SequenceTheorems, TLAPS

-----------------------------------------------------------------------------
(* A Capability call *)

\* A row exists exactly when it has an owner; the owner is past its INSERT, and
\* a row that has ended says what its owner's handler returned.
RowOk(o) ==
    /\ record[o] = "none" <=> owner[o] = NoCall
    /\ owner[o] # NoCall =>
         /\ Operation(owner[o]) = o
         /\ recordArg[o] = ArgOf[owner[o]]
         /\ pc[owner[o]] \in {"inserted", "running", "completing", "done", "gone"}
    /\ record[o] \in {"succeeded", "failed"} =>
         /\ owner[o] \in ran
         /\ outcome[owner[o]] = record[o]
         /\ pc[owner[o]] \in {"done", "gone"}
RowPart == \A o \in Operations : RowOk(o)

\* A call whose handler was started owns its operation; one that has not got
\* past its INSERT owns nothing.
CallOk(c) ==
    /\ c \in ran => /\ owner[Operation(c)] = c
                    /\ pc[c] \in {"running", "completing", "done", "gone"}
    /\ pc[c] \in {"running", "completing"} => c \in ran
    /\ pc[c] \in {"inserted", "waiting"} => owner[Operation(c)] # NoCall
    /\ pc[c] = "completing" => outcome[c] # "none"
    /\ pc[c] # "done" => answer[c] = "none"
    /\ resolved[c] <= version
CallPart == \A c \in Calls : CallOk(c)

\* From its verification on, a call's confirmation has been approved for it.
Confirmed(c) ==
    ConfOf[c] # NoConf =>
      /\ confKey[ConfOf[c]] = KeyOf[c]
      /\ conf[ConfOf[c]] \in {"approved", "expired", "revoked"}

ConfirmedPart ==
    \A c \in Calls :
      pc[c] \in {"verified", "inserted"} \/ c \in ran => Confirmed(c)

\* AnswersAgree of one call
Agrees(c) ==
    LET o == Operation(c) IN
    /\ answer[c] \in {"ok", "replayed"} => record[o] = "succeeded"
    /\ answer[c] \in {"failed", "previous failure"} => record[o] = "failed"
    /\ answer[c] \in {"ok", "replayed", "failed", "previous failure"} =>
         /\ recordArg[o] = ArgOf[c]
         /\ owner[o] \in ran /\ outcome[owner[o]] = record[o]
AgreePart == \A c \in Calls : Agrees(c)

CallInv == TypeOK /\ RowPart /\ CallPart /\ ConfirmedPart /\ AgreePart

-----------------------------------------------------------------------------
(* Types *)

LEMMA OperationTypes ==
    ASSUME CallAssumption, TypeOK, NEW c \in Calls
    PROVE  Operation(c) \in Operations
  BY DEF CallAssumption, TypeOK, Operation, Operations

\* What an INSERT may do to the rows.
Inserted(c) ==
    LET o == Operation(c) IN
    /\ record[o] = "none"
    /\ record' = [record EXCEPT ![o] = "executing"]
    /\ recordArg' = [recordArg EXCEPT ![o] = ArgOf[c]]
    /\ owner' = [owner EXCEPT ![o] = c]
    /\ lapsed' = lapsed \ {o}

LEMMA InsertCases ==
    ASSUME NEW c \in Calls, Insert(c)
    PROVE  /\ pc[c] = "verified"
           /\ \/ Inserted(c)
              \/ UNCHANGED <<recordVars, lapsed>>
           /\ \/ /\ Inserted(c) \/ record[Operation(c)] # "none"
                 /\ pc' = [pc EXCEPT ![c] = "inserted"] /\ answer' = answer
              \/ /\ pc' = [pc EXCEPT ![c] = "done"]
                 /\ answer' = [answer EXCEPT ![c] = "error"]
           /\ UNCHANGED <<confVars, outdated, version, stops, resolved, outcome,
                          inTime, ran>>
<1>1. InsertRow(c) => Inserted(c) \/ ( /\ record[Operation(c)] # "none"
                                      /\ UNCHANGED <<recordVars, lapsed>>)
  <2>1. CASE Vacant(Operation(c))
    BY <2>1 DEF InsertRow, Vacant, Inserted
  <2>2. CASE ~Vacant(Operation(c))
    BY <2>2 DEF InsertRow, Vacant
  <2> QED
    BY <2>1, <2>2
<1> QED
  BY <1>1 DEF Insert, Goes, Ends

\* What the completing UPDATE may do.
Recorded(c) ==
    LET o == Operation(c) IN
    /\ record[o] = "executing" /\ owner[o] = c
    /\ record' = [record EXCEPT ![o] = outcome[c]]

LEMMA CompleteCases ==
    ASSUME NEW c \in Calls, Complete(c)
    PROVE  /\ pc[c] = "completing"
           /\ pc' = [pc EXCEPT ![c] = "done"]
           /\ \/ Recorded(c) /\ answer' = [answer EXCEPT ![c] = Result(c)]
              \/ Recorded(c) /\ answer' = [answer EXCEPT ![c] = "error"]
              \/ record' = record /\ answer' = [answer EXCEPT ![c] = "error"]
           /\ UNCHANGED <<recordArg, owner, lapsed, confVars, outdated, version,
                          stops, resolved, outcome, inTime, ran>>
  BY DEF Complete, Recorded, Goes, Ends

LEMMA CallTypes ==
    ASSUME CallAssumption, TypeOK, NEW c \in Calls, Call(c)
    PROVE  TypeOK'
<1> DEFINE o == Operation(c)
<1>o. o \in Operations
  BY OperationTypes
<1>ver. version \in Versions /\ ArgOf[c] \in Args
  BY DEF TypeOK, CallAssumption
<1> USE DEF recordVars, confVars, callVars, Goes, Ends, Busy, Answers
<1>1. CASE Admit(c)
  BY <1>1, <1>ver DEF TypeOK, Admit
<1>2. CASE Refuse(c)
  BY <1>2 DEF TypeOK, Refuse
<1>3. CASE Verify(c)
  BY <1>3 DEF TypeOK, Verify
<1>4. CASE Insert(c)
  <2>1. /\ record' \in [Operations -> {"none", "executing", "succeeded", "failed"}]
        /\ recordArg' \in [Operations -> Args \union {NoArg}]
        /\ owner' \in [Operations -> Calls \union {NoCall}]
        /\ lapsed' \subseteq Operations
    <3>1. CASE Inserted(c)
      BY <3>1, <1>o, <1>ver DEF TypeOK, Inserted
    <3>2. CASE UNCHANGED <<recordVars, lapsed>>
      BY <3>2 DEF TypeOK
    <3> QED
      BY <3>1, <3>2, <1>4, InsertCases
  <2>2. /\ pc' \in [Calls -> Busy \union {"new", "done", "gone"}]
        /\ answer' \in [Calls -> Answers]
    BY <1>4, InsertCases DEF TypeOK
  <2>3. UNCHANGED <<conf, confKey, outdated, version, stops, resolved, outcome,
                    inTime, ran>>
    BY <1>4, InsertCases
  <2>4. /\ pc' \in [Calls -> Busy \union {"new", "done", "gone"}]
        /\ answer' \in [Calls -> Answers]
        /\ resolved' \in [Calls -> Versions]
        /\ outcome' \in [Calls -> {"none", "succeeded", "failed"}]
        /\ inTime' \in [Calls -> BOOLEAN]
        /\ ran' \subseteq Calls
    BY <2>2, <2>3 DEF TypeOK
  <2> QED
    BY <2>1, <2>3, <2>4 DEF TypeOK
<1>5. CASE ReadBack(c)
  BY <1>5 DEF TypeOK, ReadBack, Replay
<1>6. CASE Poll(c)
  BY <1>6 DEF TypeOK, Poll, Replay
<1>7. CASE GiveUp(c)
  BY <1>7 DEF TypeOK, GiveUp
<1>8. CASE HandlerReturns(c)
  <2>1. PICK x \in {"succeeded", "failed"} : outcome' = [outcome EXCEPT ![c] = x]
    BY <1>8 DEF HandlerReturns
  <2>2. inTime' \in [Calls -> BOOLEAN]
    BY <1>8 DEF TypeOK, HandlerReturns
  <2>3. outcome' \in [Calls -> {"none", "succeeded", "failed"}]
    BY <2>1 DEF TypeOK
  <2> QED
    BY <2>2, <2>3, <1>8 DEF TypeOK, HandlerReturns
<1>9. CASE Complete(c)
  <2>1. /\ pc' = [pc EXCEPT ![c] = "done"]
        /\ \/ Recorded(c) /\ answer' = [answer EXCEPT ![c] = Result(c)]
           \/ Recorded(c) /\ answer' = [answer EXCEPT ![c] = "error"]
           \/ record' = record /\ answer' = [answer EXCEPT ![c] = "error"]
        /\ UNCHANGED <<recordArg, owner, lapsed, confVars, outdated, version,
                       stops, resolved, outcome, inTime, ran>>
    BY <1>9, CompleteCases
  <2>2. Result(c) \in {"ok", "failed"}
    BY DEF Result
  <2>3. record' \in [Operations -> {"none", "executing", "succeeded", "failed"}]
    <3>1. outcome[c] \in {"none", "succeeded", "failed"}
      BY <2>1 DEF TypeOK
    <3>2. CASE Recorded(c)
      BY <3>1, <3>2, <1>o DEF TypeOK, Recorded
    <3> QED
      BY <3>2, <2>1 DEF TypeOK
  <2>4. answer' \in [Calls -> Answers]
    <3>1. PICK a \in Answers : answer' = [answer EXCEPT ![c] = a]
      BY <2>1, <2>2
    <3> QED
      BY <3>1 DEF TypeOK
  <2> QED
    BY <2>1, <2>3, <2>4 DEF TypeOK
<1> QED
  BY <1>1, <1>2, <1>3, <1>4, <1>5, <1>6, <1>7, <1>8, <1>9 DEF Call

\* A confirmation's status may change only from an open one, and an approved
\* one is at most withdrawn; its key is set once.
ConfStep ==
    /\ \A f \in Confs :
         /\ conf[f] \in {"approved", "expired", "revoked"} =>
              conf'[f] \in {"approved", "expired", "revoked"}
         /\ conf[f] # "none" => confKey'[f] = confKey[f]
    /\ conf' \in [Confs -> Open \union {"none", "rejected", "expired", "revoked"}]
    /\ confKey' \in [Confs -> Keys \union {NoKey}]
    /\ outdated' \subseteq Confs
    /\ UNCHANGED <<recordVars, lapsed, version, stops, pc, callVars>>

LEMMA MarksStep ==
    ASSUME TypeOK, NEW fs, NEW s \in {"revoked", "expired"}, Marks(fs, s),
           UNCHANGED <<recordVars, lapsed, confKey, outdated, version, stops, pc,
                       callVars>>
    PROVE  ConfStep
  BY DEF TypeOK, Marks, ConfStep, Open

LEMMA ConfirmationStep ==
    ASSUME TypeOK, NEW f \in Confs, Confirmation(f)
    PROVE  ConfStep
<1>1. CASE \E k \in Keys : Request(f, k)
  BY <1>1 DEF TypeOK, Request, ConfStep, Open
<1>2. CASE \E s \in {"approved", "rejected"} : Decide(f, s)
  BY <1>2 DEF TypeOK, Decide, Decidable, ConfStep, Open
<1>3. CASE \E s \in {"revoked", "expired"} : Withdraw(f, s)
  BY <1>3, MarksStep DEF Withdraw
<1>4. CASE ConfirmationLapses(f)
  BY <1>4 DEF TypeOK, ConfirmationLapses, ConfStep, confVars
<1> QED
  BY <1>1, <1>2, <1>3, <1>4 DEF Confirmation

LEMMA ConfSteps ==
    ASSUME TypeOK,
           \/ \E f \in Confs : Confirmation(f)
           \/ ExpireDue
           \/ \E r \in Runs : RevokeRun(r)
    PROVE  ConfStep
  BY ConfirmationStep, MarksStep DEF ExpireDue, RevokeRun

LEMMA RestartTypes ==
    ASSUME CallAssumption, TypeOK, Restart
    PROVE  TypeOK'
  BY DEF CallAssumption, TypeOK, Restart, Busy, recordVars, confVars, callVars

LEMMA TypeStep ==
    ASSUME CallAssumption, TypeOK, [Next]_vars
    PROVE  TypeOK'
<1>1. CASE \E c \in Calls : Call(c)
  BY <1>1, CallTypes
<1>2. CASE \E o \in Operations : LeaseLapses(o)
  BY <1>2 DEF TypeOK, LeaseLapses, recordVars, confVars, callVars
<1>3. CASE ConfStep
  BY <1>3 DEF TypeOK, ConfStep, recordVars, callVars
<1>4. CASE Restart
  BY <1>4, RestartTypes
<1>5. CASE UNCHANGED vars
  BY <1>5 DEF TypeOK, vars, recordVars, confVars, callVars
<1> QED
  BY <1>1, <1>2, <1>3, <1>4, <1>5, ConfSteps DEF Next

-----------------------------------------------------------------------------
(* The invariant holds at the start, and steps of anything but a call keep it *)

LEMMA InvAtStart ==
    ASSUME CallAssumption, Init
    PROVE  CallInv
<1>1. TypeOK
  BY DEF CallAssumption, Init, TypeOK, Busy, Answers, Versions, Open
<1>2. RowPart
  BY DEF CallAssumption, Init, RowPart, RowOk
<1>3. CallPart
  <2> SUFFICES ASSUME NEW c \in Calls PROVE CallOk(c)
    BY DEF CallPart
  <2>1. /\ c \notin ran /\ pc[c] = "new" /\ answer[c] = "none"
        /\ resolved[c] = 1 /\ version = 1
    BY DEF Init
  <2> QED
    BY <2>1 DEF CallOk
<1>4. ConfirmedPart
  BY DEF Init, ConfirmedPart
<1>5. AgreePart
  BY DEF Init, AgreePart, Agrees
<1> QED
  BY <1>1, <1>2, <1>3, <1>4, <1>5 DEF CallInv

LEMMA ConfKeeps ==
    ASSUME CallAssumption, CallInv, ConfStep
    PROVE  RowPart' /\ CallPart' /\ ConfirmedPart' /\ AgreePart'
<1> USE DEF CallInv, ConfStep, recordVars, callVars
<1>1. RowPart'
  BY DEF RowPart, RowOk, Operation
<1>2. CallPart'
  BY DEF CallPart, CallOk, Operation
<1>3. ConfirmedPart'
  <2> SUFFICES ASSUME NEW c \in Calls, Confirmed(c) PROVE Confirmed(c)'
    BY DEF ConfirmedPart
  <2> QED
    BY DEF Confirmed, CallAssumption
<1>4. AgreePart'
  BY DEF AgreePart, Agrees, Operation
<1> QED
  BY <1>1, <1>2, <1>3, <1>4

LEMMA LapseKeeps ==
    ASSUME CallInv, NEW o \in Operations, LeaseLapses(o)
    PROVE  RowPart' /\ CallPart' /\ ConfirmedPart' /\ AgreePart'
<1> USE DEF CallInv, LeaseLapses, recordVars, confVars, callVars
<1>1. RowPart'
  BY DEF RowPart, RowOk, Operation
<1>2. CallPart'
  BY DEF CallPart, CallOk, Operation
<1>3. ConfirmedPart'
  BY DEF ConfirmedPart, Confirmed
<1>4. AgreePart'
  BY DEF AgreePart, Agrees, Operation
<1> QED
  BY <1>1, <1>2, <1>3, <1>4

LEMMA RestartKeeps ==
    ASSUME CallAssumption, CallInv, Restart
    PROVE  RowPart' /\ CallPart' /\ ConfirmedPart' /\ AgreePart'
<1> USE DEF CallInv, Restart, recordVars, confVars, callVars
<1>1. \A c \in Calls :
        /\ Operation(c)' = Operation(c)
        /\ \/ pc[c] \in {"new", "done", "gone"} /\ pc'[c] = pc[c]
           \/ pc[c] \in Busy /\ pc'[c] = "gone"
  <2> TAKE c \in Calls
  <2>1. Operation(c)' = Operation(c)
    BY DEF Operation
  <2>2. pc[c] \in Busy \union {"new", "done", "gone"}
    BY DEF TypeOK
  <2>3. pc'[c] = IF pc[c] \in Busy THEN "gone" ELSE pc[c]
    OBVIOUS
  <2> QED
    BY <2>1, <2>2, <2>3
<1>2. RowPart'
  <2> SUFFICES ASSUME NEW o \in Operations, RowOk(o) PROVE RowOk(o)'
    BY DEF RowPart
  <2>1. CASE owner[o] = NoCall
    BY <2>1 DEF RowOk
  <2>2. CASE owner[o] # NoCall
    <3>1. owner[o] \in Calls
      BY <2>2 DEF TypeOK
    <3> QED
      BY <3>1, <2>2, <1>1 DEF RowOk
  <2> QED
    BY <2>1, <2>2
<1>3. CallPart'
  <2> SUFFICES ASSUME NEW c \in Calls, CallOk(c) PROVE CallOk(c)'
    BY DEF CallPart
  <2> QED
    BY <1>1 DEF CallOk, TypeOK, Versions, CallAssumption, Busy
<1>4. ConfirmedPart'
  BY <1>1 DEF ConfirmedPart, Confirmed
<1>5. AgreePart'
  BY <1>1 DEF AgreePart, Agrees
<1> QED
  BY <1>2, <1>3, <1>4, <1>5

-----------------------------------------------------------------------------
(* Steps of a call before its handler, the INSERT aside, are quiet: they    *)
(* touch no row, and a call that ends is told what its row says.            *)

Silent == {"refused", "unknown", "conflict", "ended", "error"}

Told(c) ==
    LET o == Operation(c) IN
    \/ answer'[c] \in Silent
    \/ /\ recordArg[o] = ArgOf[c]
       /\ \/ record[o] = "succeeded" /\ answer'[c] = "replayed"
          \/ record[o] = "failed" /\ answer'[c] = "previous failure"

OthersStay(c) ==
    \A d \in Calls \ {c} :
      pc'[d] = pc[d] /\ answer'[d] = answer[d] /\ resolved'[d] = resolved[d]

Quiet(c) ==
    /\ UNCHANGED <<recordVars, confVars, version, outcome, ran>>
    /\ OthersStay(c)
    /\ \/ /\ pc[c] = "new" /\ pc'[c] = "admitted"
          /\ resolved'[c] = version /\ answer'[c] = answer[c]
       \/ /\ pc[c] = "admitted" /\ pc'[c] = "verified" /\ Confirmed(c)
          /\ resolved'[c] = resolved[c] /\ answer'[c] = answer[c]
       \/ /\ pc[c] \in {"inserted", "waiting"} /\ pc'[c] = "waiting"
          /\ pc[c] = "inserted" => owner[Operation(c)] # c
          /\ resolved'[c] = resolved[c] /\ answer'[c] = answer[c]
       \/ /\ pc[c] \in {"new", "admitted", "verified", "inserted", "waiting"}
          /\ pc'[c] = "done"
          /\ resolved'[c] = resolved[c] /\ Told(c)

LEMMA QuietSteps ==
    ASSUME TypeOK, NEW c \in Calls,
           \/ Admit(c) \/ Refuse(c) \/ Verify(c) \/ Poll(c) \/ GiveUp(c)
           \/ ReadBack(c) /\ pc'[c] # "running"
    PROVE  Quiet(c)
<1> USE DEF Quiet, OthersStay, Told, Silent, Goes, Ends, recordVars, confVars
<1>t. pc \in [Calls -> Busy \union {"new", "done", "gone"}] /\ answer \in [Calls -> Answers]
      /\ resolved \in [Calls -> Versions]
  BY DEF TypeOK
<1>1. CASE Admit(c)
  BY <1>1, <1>t DEF Admit
<1>2. CASE Refuse(c)
  BY <1>2, <1>t DEF Refuse
<1>3. CASE Verify(c)
  <2>1. ConfOf[c] = NoConf \/ Covers(ConfOf[c], c) => Confirmed(c)
    BY DEF Covers, Confirmed
  <2>2. CASE Goes(c, "verified") /\ UNCHANGED answer
    BY <2>1, <2>2, <1>3, <1>t DEF Verify
  <2>3. CASE Ends(c, "refused")
    BY <2>3, <1>3, <1>t DEF Verify
  <2> QED
    BY <2>2, <2>3, <1>3 DEF Verify
<1>r. ASSUME Replay(c) PROVE
        /\ \A d \in Calls \ {c} : pc'[d] = pc[d] /\ answer'[d] = answer[d]
        /\ \/ pc'[c] = "waiting" /\ answer'[c] = answer[c]
           \/ pc'[c] = "done" /\ Told(c)
  BY <1>r, <1>t DEF Replay
<1>4. CASE Poll(c)
  BY <1>4, <1>t, <1>r DEF Poll
<1>5. CASE GiveUp(c)
  BY <1>5, <1>t DEF GiveUp
<1>6. CASE ReadBack(c) /\ pc'[c] # "running"
  <2>1. CASE owner[Operation(c)] # c /\ Replay(c) /\ UNCHANGED ran
    BY <2>1, <1>6, <1>t, <1>r DEF ReadBack
  <2>2. CASE Ends(c, "ended") /\ UNCHANGED ran
    BY <2>2, <1>6, <1>t DEF ReadBack
  <2> QED
    BY <2>1, <2>2, <1>6, <1>t DEF ReadBack
<1> QED
  BY <1>1, <1>2, <1>3, <1>4, <1>5, <1>6

LEMMA QuietKeeps ==
    ASSUME CallAssumption, CallInv, NEW c \in Calls, Quiet(c)
    PROVE  RowPart' /\ CallPart' /\ ConfirmedPart' /\ AgreePart'
<1> USE DEF CallInv, recordVars, confVars
<1>1. c \notin ran /\ pc[c] \notin {"done", "gone"} /\ answer[c] = "none"
      /\ Operation(c) \in Operations /\ CallOk(c)
  BY OperationTypes DEF Quiet, CallPart, CallOk
<1>2. \A d \in Calls \ {c} : Operation(d)' = Operation(d)
  BY DEF Quiet, OthersStay, Operation
<1>3. resolved'[c] = resolved[c] => Operation(c)' = Operation(c)
  BY DEF Operation
<1>4. RowPart'
  <2> SUFFICES ASSUME NEW o \in Operations PROVE RowOk(o)'
    BY DEF RowPart
  <2>o. RowOk(o)
    BY DEF RowPart
  <2>u. record'[o] = record[o] /\ owner'[o] = owner[o] /\ recordArg'[o] = recordArg[o]
        /\ ran' = ran /\ outcome' = outcome
    BY DEF Quiet
  <2>1. CASE owner[o] = NoCall
    BY <2>1, <2>o, <2>u DEF RowOk
  <2>2. CASE owner[o] = c
    <3>1. c # NoCall
      BY DEF CallAssumption
    <3>2. pc[c] = "inserted" /\ Operation(c) = o /\ record[o] \notin {"succeeded", "failed"}
      BY <2>2, <2>o, <3>1, <1>1 DEF RowOk, Quiet
    <3>3. pc'[c] = "done" /\ Operation(c)' = o
      BY <3>2, <2>2, <1>3 DEF Quiet
    <3> QED
      BY <3>1, <3>2, <3>3, <2>2, <2>o, <2>u DEF RowOk
  <2>3. CASE owner[o] \in Calls \ {c}
    <3>1. pc'[owner[o]] = pc[owner[o]]
      BY <2>3 DEF Quiet, OthersStay
    <3>2. resolved'[owner[o]] = resolved[owner[o]]
      BY <2>3 DEF Quiet, OthersStay
    <3> QED
      BY <3>1, <3>2, <2>o, <2>u DEF RowOk, Operation
  <2> QED
    BY <2>1, <2>2, <2>3 DEF TypeOK
<1>5. CallPart'
  <2> SUFFICES ASSUME NEW d \in Calls PROVE CallOk(d)'
    BY DEF CallPart
  <2>d. CallOk(d)
    BY DEF CallPart
  <2>1. CASE d # c
    BY <2>1, <2>d, <1>2 DEF CallOk, Quiet, OthersStay
  <2>2. CASE d = c
    <3>1. version \in Nat
      BY DEF TypeOK, Versions, CallAssumption
    <3> QED
      BY <2>2, <3>1, <1>1, <1>3 DEF CallOk, Quiet
  <2> QED
    BY <2>1, <2>2
<1>6. ConfirmedPart'
  <2> SUFFICES ASSUME NEW d \in Calls, (pc[d] \in {"verified", "inserted"} \/ d \in ran)'
               PROVE  Confirmed(d)'
    BY DEF ConfirmedPart
  <2>1. Confirmed(d)
    <3>1. CASE d # c
      BY <3>1 DEF ConfirmedPart, Quiet, OthersStay
    <3>2. CASE d = c
      BY <3>2, <1>1 DEF Quiet
    <3> QED
      BY <3>1, <3>2
  <2> QED
    BY <2>1 DEF Confirmed, Quiet
<1>7. AgreePart'
  <2> SUFFICES ASSUME NEW d \in Calls PROVE Agrees(d)'
    BY DEF AgreePart
  <2>d. Agrees(d)
    BY DEF AgreePart
  <2>1. CASE d # c
    BY <2>1, <2>d, <1>2 DEF Agrees, Quiet, OthersStay
  <2>2. CASE d = c /\ answer'[c] \in Silent \union {"none"}
    BY <2>2 DEF Agrees, Silent
  <2>3. CASE d = c /\ answer'[c] \notin Silent \union {"none"}
    <3>1. Told(c) /\ resolved'[c] = resolved[c]
      BY <2>3, <1>1 DEF Quiet
    <3>2. RowOk(Operation(c))
      BY <1>1 DEF RowPart
    <3> QED
      BY <3>1, <3>2, <2>3, <1>3 DEF Agrees, Told, RowOk, Quiet
  <2> QED
    BY <2>1, <2>2, <2>3
<1> QED
  BY <1>4, <1>5, <1>6, <1>7

-----------------------------------------------------------------------------
(* The INSERT, the start and the end of the handler, the completing UPDATE *)

LEMMA InsertKeeps ==
    ASSUME CallAssumption, CallInv, NEW c \in Calls, Insert(c)
    PROVE  RowPart' /\ CallPart' /\ ConfirmedPart' /\ AgreePart'
<1> DEFINE oc == Operation(c)
<1> USE DEF CallInv, recordVars, confVars
<1>1. oc \in Operations /\ CallOk(c) /\ RowOk(oc) /\ c # NoCall
  BY OperationTypes DEF CallPart, RowPart, CallAssumption
<1>2. /\ pc[c] = "verified" /\ answer[c] = "none" /\ c \notin ran
      /\ UNCHANGED <<confVars, version, resolved, outcome, ran>>
      /\ \A d \in Calls \ {c} : pc'[d] = pc[d] /\ answer'[d] = answer[d]
      /\ pc'[c] \in {"inserted", "done"} /\ answer'[c] \in {"none", "error"}
      /\ pc'[c] = "inserted" => answer'[c] = "none"
  BY <1>1, InsertCases DEF TypeOK, CallOk
<1>3. \A d \in Calls : Operation(d)' = Operation(d)
  BY <1>2 DEF Operation
<1>4. /\ \A o \in Operations \ {oc} :
           record'[o] = record[o] /\ recordArg'[o] = recordArg[o] /\ owner'[o] = owner[o]
      /\ \/ /\ record[oc] = "none" /\ record'[oc] = "executing"
            /\ recordArg'[oc] = ArgOf[c] /\ owner'[oc] = c
         \/ /\ record'[oc] = record[oc] /\ recordArg'[oc] = recordArg[oc]
            /\ owner'[oc] = owner[oc]
            /\ pc'[c] = "inserted" => record[oc] # "none"
  <2>1. CASE Inserted(c)
    BY <2>1, <1>1 DEF Inserted, TypeOK
  <2>2. CASE UNCHANGED <<recordVars, lapsed>> /\ ~Inserted(c)
    BY <2>2, <1>2, InsertCases DEF TypeOK
  <2> QED
    BY <2>1, <2>2, InsertCases
<1>5. RowPart'
  <2> SUFFICES ASSUME NEW o \in Operations PROVE RowOk(o)'
    BY DEF RowPart
  <2>o. RowOk(o)
    BY DEF RowPart
  <2>1. CASE record'[o] = record[o] /\ recordArg'[o] = recordArg[o] /\ owner'[o] = owner[o]
    <3>1. CASE owner[o] = NoCall
      BY <3>1, <2>1, <2>o DEF RowOk
    <3>2. CASE owner[o] \in Calls
      <4>1. owner[o] # c
        BY <1>1, <1>2, <2>o DEF RowOk
      <4> QED
        BY <4>1, <3>2, <2>1, <2>o, <1>2, <1>3, <1>1 DEF RowOk
    <3> QED
      BY <3>1, <3>2 DEF TypeOK
  <2>2. CASE o = oc /\ record'[oc] = "executing" /\ recordArg'[oc] = ArgOf[c]
             /\ owner'[oc] = c
    BY <2>2, <1>1, <1>2, <1>3 DEF RowOk
  <2> QED
    BY <2>1, <2>2, <1>4
<1>6. CallPart'
  <2> SUFFICES ASSUME NEW d \in Calls PROVE CallOk(d)'
    BY DEF CallPart
  <2>d. CallOk(d) /\ RowOk(Operation(d)) /\ Operation(d) \in Operations /\ d # NoCall
    BY OperationTypes DEF CallPart, RowPart, CallAssumption
  <2>1. CASE d = c
    BY <2>1, <1>1, <1>2, <1>3, <1>4 DEF CallOk, RowOk
  <2>2. CASE d # c /\ Operation(d) # oc
    BY <2>2, <2>d, <1>2, <1>3, <1>4 DEF CallOk
  <2>3. CASE d # c /\ Operation(d) = oc
    BY <2>3, <2>d, <1>1, <1>2, <1>3, <1>4 DEF CallOk, RowOk
  <2> QED
    BY <2>1, <2>2, <2>3
<1>7. ConfirmedPart'
  <2> SUFFICES ASSUME NEW d \in Calls, (pc[d] \in {"verified", "inserted"} \/ d \in ran)'
               PROVE  Confirmed(d)'
    BY DEF ConfirmedPart
  <2>1. Confirmed(d)
    BY <1>2 DEF ConfirmedPart
  <2> QED
    BY <2>1, <1>2 DEF Confirmed
<1>8. AgreePart'
  <2> SUFFICES ASSUME NEW d \in Calls PROVE Agrees(d)'
    BY DEF AgreePart
  <2>d. Agrees(d) /\ Operation(d) \in Operations
    BY OperationTypes DEF AgreePart
  <2>1. CASE d = c
    BY <2>1, <1>2 DEF Agrees
  <2>2. CASE d # c /\ Operation(d) # oc
    BY <2>2, <2>d, <1>2, <1>3, <1>4 DEF Agrees
  <2>3. CASE d # c /\ Operation(d) = oc
    <3>1. CASE record[oc] = "none"
      <4>1. answer'[d] \notin {"ok", "replayed", "failed", "previous failure"}
        BY <3>1, <2>3, <2>d, <1>2 DEF Agrees
      <4> QED
        BY <4>1 DEF Agrees
    <3>2. CASE record[oc] # "none"
      <4>1. /\ record'[Operation(d)] = record[Operation(d)]
            /\ recordArg'[Operation(d)] = recordArg[Operation(d)]
            /\ owner'[Operation(d)] = owner[Operation(d)]
        BY <3>2, <2>3, <1>4
      <4>2. answer'[d] = answer[d] /\ ran' = ran /\ outcome' = outcome
        BY <2>3, <1>2
      <4> QED
        BY <4>1, <4>2, <2>d, <1>3 DEF Agrees
    <3> QED
      BY <3>1, <3>2
  <2> QED
    BY <2>1, <2>2, <2>3
<1> QED
  BY <1>5, <1>6, <1>7, <1>8

LEMMA StartKeeps ==
    ASSUME CallAssumption, CallInv, NEW c \in Calls, ReadBack(c), pc'[c] = "running"
    PROVE  RowPart' /\ CallPart' /\ ConfirmedPart' /\ AgreePart'
<1> USE DEF CallInv, recordVars, confVars
<1>1. CallOk(c) /\ Operation(c) \in Operations /\ c # NoCall
  BY OperationTypes DEF CallPart, CallAssumption
<1>2. /\ pc[c] = "inserted" /\ owner[Operation(c)] = c /\ ran' = ran \union {c}
      /\ UNCHANGED <<recordVars, confVars, version, resolved, outcome, answer>>
      /\ \A d \in Calls \ {c} : pc'[d] = pc[d]
  BY DEF ReadBack, Replay, Goes, Ends, TypeOK
<1>3. \A d \in Calls : Operation(d)' = Operation(d)
  BY <1>2 DEF Operation
<1>4. RowPart'
  <2> SUFFICES ASSUME NEW o \in Operations PROVE RowOk(o)'
    BY DEF RowPart
  <2>o. RowOk(o) /\ owner[o] \in Calls \union {NoCall}
    BY DEF RowPart, TypeOK
  <2>1. CASE owner[o] = c
    BY <2>1, <2>o, <1>1, <1>2, <1>3 DEF RowOk
  <2>2. CASE owner[o] # c
    BY <2>2, <2>o, <1>2, <1>3 DEF RowOk
  <2> QED
    BY <2>1, <2>2
<1>5. CallPart'
  <2> SUFFICES ASSUME NEW d \in Calls PROVE CallOk(d)'
    BY DEF CallPart
  <2>d. CallOk(d)
    BY DEF CallPart
  <2>1. CASE d = c
    BY <2>1, <1>1, <1>2, <1>3 DEF CallOk
  <2>2. CASE d # c
    BY <2>2, <2>d, <1>2, <1>3 DEF CallOk
  <2> QED
    BY <2>1, <2>2
<1>6. ConfirmedPart'
  <2> SUFFICES ASSUME NEW d \in Calls, (pc[d] \in {"verified", "inserted"} \/ d \in ran)'
               PROVE  Confirmed(d)'
    BY DEF ConfirmedPart
  <2>1. Confirmed(d)
    BY <1>2 DEF ConfirmedPart
  <2> QED
    BY <2>1, <1>2 DEF Confirmed
<1>7. AgreePart'
  BY <1>2, <1>3 DEF AgreePart, Agrees
<1> QED
  BY <1>4, <1>5, <1>6, <1>7

LEMMA ReturnKeeps ==
    ASSUME CallAssumption, CallInv, NEW c \in Calls, HandlerReturns(c)
    PROVE  RowPart' /\ CallPart' /\ ConfirmedPart' /\ AgreePart'
<1> USE DEF CallInv, recordVars, confVars
<1>1. CallOk(c) /\ c # NoCall
  BY DEF CallPart, CallAssumption
<1>2. /\ pc[c] = "running" /\ pc'[c] = "completing" /\ outcome'[c] # "none"
      /\ UNCHANGED <<recordVars, confVars, version, resolved, ran, answer>>
      /\ \A d \in Calls \ {c} : pc'[d] = pc[d] /\ outcome'[d] = outcome[d]
  BY DEF HandlerReturns, Goes, TypeOK
<1>3. \A d \in Calls : Operation(d)' = Operation(d)
  BY <1>2 DEF Operation
<1>4. RowPart'
  <2> SUFFICES ASSUME NEW o \in Operations PROVE RowOk(o)'
    BY DEF RowPart
  <2>o. RowOk(o) /\ owner[o] \in Calls \union {NoCall}
    BY DEF RowPart, TypeOK
  <2>1. CASE owner[o] = c
    BY <2>1, <2>o, <1>1, <1>2, <1>3 DEF RowOk
  <2>2. CASE owner[o] = NoCall
    BY <2>2, <2>o, <1>2 DEF RowOk
  <2>3. CASE owner[o] \in Calls \ {c}
    BY <2>3, <2>o, <1>2, <1>3 DEF RowOk
  <2> QED
    BY <2>1, <2>2, <2>3, <2>o
<1>5. CallPart'
  <2> SUFFICES ASSUME NEW d \in Calls PROVE CallOk(d)'
    BY DEF CallPart
  <2>d. CallOk(d)
    BY DEF CallPart
  <2>1. CASE d = c
    BY <2>1, <1>1, <1>2, <1>3 DEF CallOk
  <2>2. CASE d # c
    BY <2>2, <2>d, <1>2, <1>3 DEF CallOk
  <2> QED
    BY <2>1, <2>2
<1>6. ConfirmedPart'
  <2> SUFFICES ASSUME NEW d \in Calls, (pc[d] \in {"verified", "inserted"} \/ d \in ran)'
               PROVE  Confirmed(d)'
    BY DEF ConfirmedPart
  <2>1. Confirmed(d)
    BY <1>2 DEF ConfirmedPart
  <2> QED
    BY <2>1, <1>2 DEF Confirmed
<1>7. AgreePart'
  <2> SUFFICES ASSUME NEW d \in Calls PROVE Agrees(d)'
    BY DEF AgreePart
  <2>d. Agrees(d) /\ RowOk(Operation(d)) /\ owner[Operation(d)] \in Calls \union {NoCall}
        /\ ran \subseteq Calls
    BY OperationTypes DEF AgreePart, RowPart, TypeOK
  <2>1. CASE owner[Operation(d)] = c
    BY <2>1, <2>d, <1>1, <1>2, <1>3 DEF Agrees, RowOk
  <2>2. CASE owner[Operation(d)] # c
    BY <2>2, <2>d, <1>2, <1>3 DEF Agrees
  <2> QED
    BY <2>1, <2>2
<1> QED
  BY <1>4, <1>5, <1>6, <1>7

LEMMA CompleteKeeps ==
    ASSUME CallAssumption, CallInv, NEW c \in Calls, Complete(c)
    PROVE  RowPart' /\ CallPart' /\ ConfirmedPart' /\ AgreePart'
<1> DEFINE oc == Operation(c)
<1> USE DEF CallInv, recordVars, confVars
<1>1. oc \in Operations /\ CallOk(c) /\ RowOk(oc) /\ c # NoCall
  BY OperationTypes DEF CallPart, RowPart, CallAssumption
<1>2. /\ pc[c] = "completing" /\ pc'[c] = "done" /\ c \in ran
      /\ outcome[c] \in {"succeeded", "failed"}
      /\ UNCHANGED <<recordArg, owner, confVars, version, resolved, outcome, ran>>
      /\ \A d \in Calls \ {c} : pc'[d] = pc[d] /\ answer'[d] = answer[d]
  BY <1>1, CompleteCases DEF TypeOK, CallOk
<1>3. \A d \in Calls : Operation(d)' = Operation(d)
  BY <1>2 DEF Operation
<1>4. /\ \A o \in Operations \ {oc} : record'[o] = record[o]
      /\ \/ /\ record[oc] = "executing" /\ owner[oc] = c
            /\ record'[oc] = outcome[c] /\ answer'[c] \in {Result(c), "error"}
         \/ record'[oc] = record[oc] /\ answer'[c] = "error"
  <2>1. CASE Recorded(c) /\ answer' = [answer EXCEPT ![c] = Result(c)]
    BY <2>1, <1>1 DEF Recorded, TypeOK
  <2>2. CASE Recorded(c) /\ answer' = [answer EXCEPT ![c] = "error"]
    BY <2>2, <1>1 DEF Recorded, TypeOK
  <2>3. CASE record' = record /\ answer' = [answer EXCEPT ![c] = "error"]
    BY <2>3 DEF TypeOK
  <2> QED
    BY <2>1, <2>2, <2>3, CompleteCases
<1>5. RowPart'
  <2> SUFFICES ASSUME NEW o \in Operations PROVE RowOk(o)'
    BY DEF RowPart
  <2>o. RowOk(o) /\ owner[o] \in Calls \union {NoCall}
    BY DEF RowPart, TypeOK
  <2>1. CASE record'[o] = record[o]
    <3>1. CASE owner[o] = NoCall
      BY <3>1, <2>1, <2>o, <1>2 DEF RowOk
    <3>2. CASE owner[o] \in Calls
      BY <3>2, <2>1, <2>o, <1>1, <1>2, <1>3 DEF RowOk
    <3> QED
      BY <3>1, <3>2, <2>o
  <2>2. CASE o = oc /\ owner[oc] = c /\ record'[oc] = outcome[c]
    BY <2>2, <2>o, <1>1, <1>2, <1>3 DEF RowOk
  <2> QED
    BY <2>1, <2>2, <1>4
<1>6. CallPart'
  <2> SUFFICES ASSUME NEW d \in Calls PROVE CallOk(d)'
    BY DEF CallPart
  <2>d. CallOk(d)
    BY DEF CallPart
  <2>1. CASE d = c
    BY <2>1, <1>1, <1>2, <1>3 DEF CallOk
  <2>2. CASE d # c
    BY <2>2, <2>d, <1>2, <1>3 DEF CallOk
  <2> QED
    BY <2>1, <2>2
<1>7. ConfirmedPart'
  <2> SUFFICES ASSUME NEW d \in Calls, (pc[d] \in {"verified", "inserted"} \/ d \in ran)'
               PROVE  Confirmed(d)'
    BY DEF ConfirmedPart
  <2>1. Confirmed(d)
    BY <1>2 DEF ConfirmedPart
  <2> QED
    BY <2>1, <1>2 DEF Confirmed
<1>8. AgreePart'
  <2> SUFFICES ASSUME NEW d \in Calls PROVE Agrees(d)'
    BY DEF AgreePart
  <2>d. Agrees(d) /\ Operation(d) \in Operations
    BY OperationTypes DEF AgreePart
  <2>1. CASE d = c
    <3>1. CASE answer'[c] = "error"
      BY <3>1, <2>1 DEF Agrees
    <3>2. CASE answer'[c] = Result(c) /\ owner[oc] = c /\ record'[oc] = outcome[c]
      BY <3>2, <2>1, <1>1, <1>2, <1>3 DEF Agrees, RowOk, Result
    <3> QED
      BY <3>1, <3>2, <1>4
  <2>2. CASE d # c /\ record'[Operation(d)] = record[Operation(d)]
    BY <2>2, <2>d, <1>2, <1>3 DEF Agrees
  <2>3. CASE d # c /\ record'[Operation(d)] # record[Operation(d)]
    <3>1. record[Operation(d)] = "executing"
      BY <2>3, <2>d, <1>4
    <3> QED
      BY <3>1, <2>3, <2>d, <1>2 DEF Agrees
  <2> QED
    BY <2>1, <2>2, <2>3
<1> QED
  BY <1>5, <1>6, <1>7, <1>8

-----------------------------------------------------------------------------
(* The invariant, and the properties it implies *)

LEMMA InvStep ==
    ASSUME CallAssumption, CallInv, [Next]_vars
    PROVE  CallInv'
<1>0. TypeOK'
  BY TypeStep DEF CallInv
<1>1. ASSUME NEW c \in Calls, Call(c)
      PROVE  RowPart' /\ CallPart' /\ ConfirmedPart' /\ AgreePart'
  <2>1. CASE Insert(c)
    BY <2>1, InsertKeeps
  <2>2. CASE ReadBack(c) /\ pc'[c] = "running"
    BY <2>2, StartKeeps
  <2>3. CASE HandlerReturns(c)
    BY <2>3, ReturnKeeps
  <2>4. CASE Complete(c)
    BY <2>4, CompleteKeeps
  <2>5. CASE \/ Admit(c) \/ Refuse(c) \/ Verify(c) \/ Poll(c) \/ GiveUp(c)
             \/ ReadBack(c) /\ pc'[c] # "running"
    BY <2>5, QuietSteps, QuietKeeps DEF CallInv
  <2> QED
    BY <1>1, <2>1, <2>2, <2>3, <2>4, <2>5 DEF Call
<1>2. ASSUME NEW o \in Operations, LeaseLapses(o)
      PROVE  RowPart' /\ CallPart' /\ ConfirmedPart' /\ AgreePart'
  BY <1>2, LapseKeeps
<1>3. CASE ConfStep
  BY <1>0, <1>3, ConfKeeps DEF CallInv
<1>4. CASE Restart
  BY <1>0, <1>4, RestartKeeps DEF CallInv
<1>5. CASE UNCHANGED vars
  <2> USE <1>5 DEF CallInv, vars, recordVars, confVars, callVars
  <2>1. RowPart' /\ CallPart'
    BY DEF RowPart, RowOk, CallPart, CallOk, Operation
  <2>2. ConfirmedPart' /\ AgreePart'
    BY DEF ConfirmedPart, Confirmed, AgreePart, Agrees, Operation
  <2> QED
    BY <1>0, <2>1, <2>2
<1> QED
  BY <1>0, <1>1, <1>2, <1>3, <1>4, <1>5, ConfSteps DEF Next, CallInv

\* The invariant holds in every reachable state.
THEOREM CallInvariantHolds == Spec => []CallInv
  BY CallAssumption, InvAtStart, InvStep, PTL DEF Spec

\* The variables have their types.
THEOREM CallTypesHold == Spec => []TypeOK
<1>1. CallInv => TypeOK
  BY DEF CallInv
<1> QED
  BY <1>1, CallInvariantHolds, PTL

\* However many calls, restarts, lapsed leases and failed statements: one
\* handler per key and version of a Capability (Manager.Execute).
THEOREM EffectOnceHolds == Spec => []EffectOnce
<1>1. CallInv => EffectOnce
  BY DEF CallInv, TypeOK, CallPart, CallOk, EffectOnce
<1> QED
  BY <1>1, CallInvariantHolds, PTL

\* No two callers of an operation are told different outcomes.
THEOREM AnswersAgreeHolds == Spec => []AnswersAgree
<1>1. CallInv => AnswersAgree
  BY DEF CallInv, AgreePart, Agrees, AnswersAgree
<1> QED
  BY <1>1, CallInvariantHolds, PTL

\* No handler that needs a confirmation is started under one that was never
\* approved for its key, or that was rejected.
THEOREM EffectIsConfirmedHolds == Spec => []EffectIsConfirmed
<1>1. CallInv => EffectIsConfirmed
  BY DEF CallInv, TypeOK, ConfirmedPart, Confirmed, EffectIsConfirmed
<1> QED
  BY <1>1, CallInvariantHolds, PTL

\* As long as the Capability stays in its version, a confirmation is good for
\* one handler.
THEOREM OneEffectPerConfirmationHolds == Spec => []OneEffectPerConfirmation
<1>1. CallInv => OneEffectPerConfirmation
  <2> SUFFICES ASSUME CallInv, version = 1, NEW c \in ran, NEW d \in ran,
                      ConfOf[c] = ConfOf[d], ConfOf[c] # NoConf
               PROVE  c = d
    BY DEF OneEffectPerConfirmation
  <2>1. c \in Calls /\ d \in Calls /\ resolved \in [Calls -> Versions]
    BY DEF CallInv, TypeOK
  <2>2. KeyOf[c] = KeyOf[d]
    BY <2>1 DEF CallInv, ConfirmedPart, Confirmed
  <2>3. CallOk(c) /\ CallOk(d)
    BY <2>1 DEF CallInv, CallPart
  <2>4. resolved[c] = 1 /\ resolved[d] = 1
    BY <2>1, <2>3, CallAssumption DEF CallOk, Versions, CallAssumption
  <2> QED
    BY <2>2, <2>3, <2>4 DEF CallOk, Operation
<1> QED
  BY <1>1, CallInvariantHolds, PTL

\* What a user confirmed happens under that confirmation, and once.
THEOREM EffectsAreConfirmedHolds == Spec => []EffectsAreConfirmed
<1>1. EffectIsConfirmed /\ OneEffectPerConfirmation => EffectsAreConfirmed
  BY DEF EffectsAreConfirmed
<1> QED
  BY <1>1, EffectIsConfirmedHolds, OneEffectPerConfirmationHolds, PTL

\* A row keeps its owner, and the outcome it records is final.
THEOREM RecordIsFinalHolds == Spec => RecordIsFinal
<1> DEFINE Kept(o) ==
      /\ owner[o] # NoCall => owner'[o] = owner[o]
      /\ record[o] \in {"succeeded", "failed"} => record'[o] = record[o]
<1>1. ASSUME CallInv, [Next]_vars, NEW o \in Operations
      PROVE  Kept(o)
  <2> USE <1>1 DEF recordVars
  <2>o. RowOk(o) /\ TypeOK
    BY DEF CallInv, RowPart
  <2>1. CASE UNCHANGED recordVars
    BY <2>1
  <2>2. ASSUME NEW c \in Calls, Insert(c) PROVE Kept(o)
    <3>1. CASE Inserted(c)
      BY <3>1, <2>o DEF Inserted, RowOk, TypeOK
    <3> QED
      BY <3>1, <2>1, <2>2, InsertCases
  <2>3. ASSUME NEW c \in Calls, Complete(c) PROVE Kept(o)
    BY <2>3, <2>o, CompleteCases DEF Recorded, TypeOK
  <2>4. ASSUME NEW c \in Calls, Call(c), ~Complete(c), ~Insert(c)
        PROVE  UNCHANGED recordVars
    BY <2>4 DEF Call, Admit, Refuse, Verify, ReadBack, Poll, GiveUp, HandlerReturns
  <2>5. CASE \E c \in Calls : Call(c)
    BY <2>1, <2>2, <2>3, <2>4, <2>5
  <2>6. CASE ConfStep \/ Restart \/ UNCHANGED vars \/ \E p \in Operations : LeaseLapses(p)
    BY <2>1, <2>6 DEF ConfStep, LeaseLapses, Restart, vars
  <2> QED
    BY <2>5, <2>6, <2>o, ConfSteps DEF Next
<1>2. CallInv /\ [Next]_vars => [\A o \in Operations : Kept(o)]_vars
  BY <1>1
<1> QED
  BY <1>2, CallInvariantHolds, PTL DEF Spec, RecordIsFinal

-----------------------------------------------------------------------------
(* The contract of a call *)

\* A handler has returned only to a call that completes, or has ended.
ReturnPart ==
    \A c \in Calls : outcome[c] # "none" => pc[c] \in {"completing", "done", "gone"}

LEMMA ReturnStays ==
    ASSUME TypeOK, ReturnPart, [Next]_vars
    PROVE  ReturnPart'
<1> USE DEF Goes, Ends, TypeOK, ReturnPart
<1>1. ASSUME NEW c \in Calls, Call(c) PROVE ReturnPart'
  <2>1. CASE HandlerReturns(c)
    BY <2>1 DEF HandlerReturns
  <2>2. CASE Complete(c)
    BY <2>2 DEF Complete
  <2>3. CASE Admit(c) \/ Refuse(c) \/ Verify(c) \/ Insert(c) \/ GiveUp(c)
    BY <2>3 DEF Admit, Refuse, Verify, Insert, GiveUp
  <2>4. CASE ReadBack(c) \/ Poll(c)
    BY <2>4 DEF ReadBack, Poll, Replay
  <2> QED
    BY <1>1, <2>1, <2>2, <2>3, <2>4 DEF Call
<1>2. CASE Restart
  BY <1>2 DEF Restart, callVars, Busy
<1>3. CASE UNCHANGED <<outcome, pc>>
  BY <1>3
<1>4. ASSUME ConfStep \/ UNCHANGED vars \/ \E o \in Operations : LeaseLapses(o)
      PROVE  UNCHANGED <<outcome, pc>>
  BY <1>4 DEF ConfStep, LeaseLapses, vars, callVars
<1> QED
  BY <1>1, <1>2, <1>3, <1>4, ConfSteps DEF Next

\* What the rows, the handlers and the answers have to do for the contract to see no step.
LEMMA PerformedStays ==
    ASSUME ran' = ran, \A c \in ran : Operation(c)' = Operation(c)
    PROVE  Performed' = Performed
  BY DEF Performed

LEMMA ConcludedStays ==
    ASSUME \A o \in Operations : \/ record'[o] = record[o]
                                 \/ record[o] = "none" /\ record'[o] = "executing"
    PROVE  Concluded' = Concluded
<1>1. \A o \in Operations :
        /\ record'[o] \in {"succeeded", "failed"} <=> record[o] \in {"succeeded", "failed"}
        /\ record[o] \in {"succeeded", "failed"} => record'[o] = record[o]
  OBVIOUS
<1> QED
  BY <1>1 DEF Concluded

LEMMA HeardBecomes ==
    ASSUME TypeOK, NEW c \in Calls, NEW a, answer' = [answer EXCEPT ![c] = a]
    PROVE  Heard' = [Heard EXCEPT ![c] = Means(a)]
  BY DEF TypeOK, Heard

LEMMA HeardStays ==
    ASSUME TypeOK, NEW c \in Calls, answer[c] = "none",
           \/ answer' = answer
           \/ \E a \in {"refused", "unknown", "conflict", "ended", "error"} :
                answer' = [answer EXCEPT ![c] = a]
    PROVE  Heard' = Heard
<1>1. CASE answer' = answer
  BY <1>1 DEF Heard
<1>2. ASSUME NEW a \in {"refused", "unknown", "conflict", "ended", "error"},
             answer' = [answer EXCEPT ![c] = a]
      PROVE  Heard' = Heard
  <2>1. Means(a) = "none" /\ Means("none") = "none"
    BY DEF Means
  <2>2. Heard[c] = "none"
    BY <2>1 DEF Heard
  <2>3. Heard' = [Heard EXCEPT ![c] = Means(a)]
    BY <1>2, HeardBecomes
  <2> QED
    BY <2>1, <2>2, <2>3 DEF Heard
<1> QED
  BY <1>1, <1>2

\* Replaying a row is telling the caller what is concluded, or nothing.
LEMMA ReplayMaps ==
    ASSUME CallAssumption, CallInv, NEW c \in Calls, Replay(c), pc[c] # "done",
           owner[Operation(c)] # NoCall, UNCHANGED <<recordVars, resolved, outcome, ran>>
    PROVE  Contract!KNext \/ UNCHANGED Contract!kvars
<1> DEFINE o == Operation(c)
<1>1. /\ o \in Operations /\ TypeOK /\ RowOk(o) /\ answer[c] = "none"
      /\ owner[o] \in Calls
  BY OperationTypes DEF CallInv, RowPart, CallPart, CallOk, TypeOK
<1>2. Performed' = Performed /\ Concluded' = Concluded
  BY PerformedStays, ConcludedStays DEF recordVars, Operation
<1>3. ASSUME recordArg[o] = ArgOf[c], NEW x \in {"succeeded", "failed"}, record[o] = x,
             NEW a, Means(a) = x, answer' = [answer EXCEPT ![c] = a]
      PROVE  Contract!KNext
  <2>1. Heard' = [Heard EXCEPT ![c] = x] /\ Heard[c] = "none"
    <3>1. Heard' = [Heard EXCEPT ![c] = Means(a)]
      BY <1>1, <1>3, HeardBecomes
    <3>2. Means("none") = "none"
      BY DEF Means
    <3> QED
      BY <1>1, <1>3, <3>1, <3>2 DEF Heard
  <2>2. <<o, x>> \in Concluded
    BY <1>1, <1>3 DEF Concluded
  <2>3. <<owner[o], o>> \in Performed /\ ArgOf[owner[o]] = ArgOf[c]
    BY <1>1, <1>3 DEF RowOk, Performed
  <2>4. o \in Meanings[c]
    BY <1>1 DEF Operation, TypeOK, Meanings
  <2>5. Contract!Tell(c, o, x)
    BY <1>1, <1>2, <2>1, <2>3, <2>4 DEF Contract!Tell
  <2> HIDE DEF o
  <2>6. <<o, x>>[1] = o /\ <<o, x>>[2] = x
    OBVIOUS
  <2>7. \E e \in Concluded, d \in Calls : Contract!Tell(d, e[1], e[2])
    BY <2>2, <2>5, <2>6
  <2> QED
    BY <2>7 DEF Contract!KNext
<1>4. CASE \/ answer' = answer
           \/ \E a \in {"refused", "unknown", "conflict", "ended", "error"} :
                answer' = [answer EXCEPT ![c] = a]
  BY <1>1, <1>2, <1>4, HeardStays DEF Contract!kvars
<1>5. /\ Means("replayed") = "succeeded" /\ Means("previous failure") = "failed"
  BY DEF Means
<1> QED
  BY <1>3, <1>4, <1>5 DEF Replay, Ends

\* A step that touches no row, no handler and no answer is none of the contract.
LEMMA UnseenMaps ==
    ASSUME UNCHANGED <<record, ran, outcome, answer>>,
           \A c \in ran : Operation(c)' = Operation(c)
    PROVE  UNCHANGED Contract!kvars
<1>1. Performed' = Performed /\ Concluded' = Concluded
  BY PerformedStays, ConcludedStays
<1> QED
  BY <1>1 DEF Contract!kvars, Heard

\* The steps of a call, as the contract sees them.
LEMMA CallMaps ==
    ASSUME CallAssumption, CallInv, ReturnPart, NEW c \in Calls, Call(c)
    PROVE  Contract!KNext \/ UNCHANGED Contract!kvars
<1> DEFINE o == Operation(c)
<1>1. /\ o \in Operations /\ TypeOK /\ RowOk(o) /\ CallOk(c) /\ c # NoCall
      /\ ran \subseteq Calls
  BY OperationTypes DEF CallInv, RowPart, CallPart, TypeOK, CallAssumption
<1>2. o \in Meanings[c]
  BY <1>1 DEF Operation, TypeOK, Meanings
<1>3. CASE Admit(c)
  <2>1. UNCHANGED <<record, ran, outcome, answer>> /\ c \notin ran
    BY <1>1, <1>3 DEF Admit, recordVars, CallOk
  <2>2. \A d \in ran : Operation(d)' = Operation(d)
    BY <1>1, <1>3, <2>1 DEF Admit, Operation, TypeOK
  <2> QED
    BY <2>1, <2>2, UnseenMaps
<1>4. CASE Refuse(c) \/ Verify(c) \/ GiveUp(c) \/ Insert(c)
  <2>1. /\ UNCHANGED <<ran, outcome, resolved>> /\ answer[c] = "none"
        /\ \/ answer' = answer
           \/ \E a \in {"refused", "unknown", "conflict", "ended", "error"} :
                answer' = [answer EXCEPT ![c] = a]
    BY <1>1, <1>4, InsertCases DEF Refuse, Verify, GiveUp, Ends, CallOk
  <2>2. \A p \in Operations : \/ record'[p] = record[p]
                              \/ record[p] = "none" /\ record'[p] = "executing"
    <3>1. record' = record \/ Inserted(c)
      BY <1>4, InsertCases DEF Refuse, Verify, GiveUp, recordVars
    <3> QED
      BY <1>1, <3>1 DEF Inserted, TypeOK
  <2>3. Performed' = Performed /\ Concluded' = Concluded /\ Heard' = Heard
    BY <1>1, <2>1, <2>2, PerformedStays, ConcludedStays, HeardStays DEF Operation
  <2> QED
    BY <2>1, <2>3 DEF Contract!kvars
<1>5. CASE ReadBack(c) /\ ran' = ran \union {c} /\ owner[o] = c
  <2>1. /\ pc[c] = "inserted" /\ UNCHANGED <<recordVars, resolved, outcome>>
        /\ answer' = answer \/ answer' = [answer EXCEPT ![c] = "ended"]
    BY <1>1, <1>5 DEF ReadBack, Ends
  <2>2. c \notin ran
    BY <1>1, <2>1 DEF CallOk
  <2>3. Concluded' = Concluded
    BY <2>1, ConcludedStays DEF recordVars
  <2>4. Performed' = Performed \union {<<c, o>>}
    BY <1>5, <2>1 DEF Performed, Operation
  <2>5. \A e \in Performed : e[1] # c /\ e[2] # o
    <3> SUFFICES ASSUME NEW d \in ran PROVE d # c /\ Operation(d) # o
      BY DEF Performed
    <3>1. owner[Operation(d)] = d
      BY <1>1 DEF CallInv, CallPart, CallOk
    <3> QED
      BY <1>5, <2>2, <3>1
  <2>6. Heard' = Heard
    BY <1>1, <2>1, HeardStays DEF CallOk
  <2>7. Contract!Perform(c, o)
    BY <2>1, <2>3, <2>4, <2>5, <2>6 DEF Contract!Perform
  <2> HIDE DEF o
  <2>8. Performed' # Performed
    <3>1. <<c, o>> \in Performed' /\ <<c, o>>[1] = c
      BY <2>4
    <3> QED
      BY <2>5, <3>1
  <2> QED
    BY <1>2, <2>7, <2>8 DEF Contract!KNext
<1>6. CASE ReadBack(c) /\ Replay(c) /\ ran' = ran
  BY <1>1, <1>6, ReplayMaps DEF ReadBack, CallOk
<1>7. CASE Poll(c)
  BY <1>1, <1>7, ReplayMaps DEF Poll, CallOk
<1>8. CASE ReadBack(c) /\ Ends(c, "ended") /\ ran' = ran
  <2>1. UNCHANGED <<record, ran, outcome, resolved>> /\ answer[c] = "none"
        /\ answer' = [answer EXCEPT ![c] = "ended"]
    BY <1>1, <1>8 DEF ReadBack, Ends, recordVars, CallOk
  <2>2. Performed' = Performed /\ Concluded' = Concluded /\ Heard' = Heard
    BY <1>1, <2>1, PerformedStays, ConcludedStays, HeardStays DEF Operation
  <2> QED
    BY <2>1, <2>2 DEF Contract!kvars
<1>9. CASE HandlerReturns(c)
  <2>1. /\ UNCHANGED <<record, ran, resolved, answer>> /\ c \in ran /\ outcome[c] = "none"
    BY <1>1, <1>9 DEF HandlerReturns, recordVars, CallOk, ReturnPart
  <2>2. PICK x \in {"succeeded", "failed"} : outcome' = [outcome EXCEPT ![c] = x]
    BY <1>9 DEF HandlerReturns
  <2>3. Performed' = Performed /\ Concluded' = Concluded /\ Heard' = Heard
    BY <2>1, PerformedStays, ConcludedStays DEF Operation, Heard
  <2>4. \E e \in Performed : e[1] = c
    <3>1. <<c, o>> \in Performed
      BY <2>1 DEF Performed
    <3> HIDE DEF o
    <3> QED
      BY <3>1
  <2>5. Contract!Return(c, x)
    BY <2>1, <2>2, <2>3, <2>4 DEF Contract!Return
  <2> QED
    BY <2>5 DEF Contract!KNext, Contract!Outcomes
<1>10. CASE Complete(c)
  <2>1. /\ c \in ran /\ outcome[c] \in {"succeeded", "failed"} /\ answer[c] = "none"
        /\ UNCHANGED <<ran, resolved, outcome>>
    BY <1>1, <1>10, CompleteCases DEF CallOk, TypeOK
  <2>2. Performed' = Performed
    BY <2>1, PerformedStays DEF Operation
  <2>3. CASE record' = record /\ answer' = [answer EXCEPT ![c] = "error"]
    <3>1. Concluded' = Concluded /\ Heard' = Heard
      BY <1>1, <2>1, <2>3, ConcludedStays, HeardStays
    <3> QED
      BY <2>1, <2>2, <3>1 DEF Contract!kvars
  <2>4. CASE Recorded(c) /\ answer' \in {[answer EXCEPT ![c] = Result(c)],
                                         [answer EXCEPT ![c] = "error"]}
    <3>1. /\ record[o] = "executing" /\ owner[o] = c
          /\ record' = [record EXCEPT ![o] = outcome[c]]
      BY <2>4 DEF Recorded
    <3>2. Concluded' = Concluded \union {<<o, outcome[c]>>}
      <4>1. /\ \A p \in Operations : p # o => record'[p] = record[p]
            /\ record'[o] = outcome[c]
        BY <1>1, <3>1 DEF TypeOK
      <4> HIDE DEF o
      <4> QED
        BY <1>1, <2>1, <3>1, <4>1 DEF Concluded
    <3>3. \A e \in Concluded : e[1] # o
      BY <3>1 DEF Concluded
    <3>4. <<c, o>> \in Performed
      BY <2>1 DEF Performed
    <3>5. \/ Heard[c] = "none" /\ Heard' = [Heard EXCEPT ![c] = outcome[c]]
          \/ Heard' = Heard
      <4>1. CASE answer' = [answer EXCEPT ![c] = "error"]
        BY <1>1, <2>1, <4>1, HeardStays
      <4>2. CASE answer' = [answer EXCEPT ![c] = Result(c)]
        <5>1. Means(Result(c)) = outcome[c] /\ Means("none") = "none"
          BY <2>1 DEF Means, Result
        <5> QED
          BY <1>1, <2>1, <4>2, <5>1, HeardBecomes DEF Heard
      <4> QED
        BY <2>4, <4>1, <4>2
    <3>6. Contract!Conclude(c, o)
      BY <2>1, <2>2, <3>2, <3>3, <3>4, <3>5 DEF Contract!Conclude
    <3> HIDE DEF o
    <3>7. <<c, o>>[1] = c /\ <<c, o>>[2] = o
      OBVIOUS
    <3>8. \E e \in Performed : Contract!Conclude(e[1], e[2])
      BY <3>4, <3>6, <3>7
    <3> QED
      BY <3>8 DEF Contract!KNext
  <2> QED
    BY <1>10, <2>3, <2>4, CompleteCases
<1>11. ReadBack(c) => \/ ran' = ran \union {c} /\ owner[o] = c
                      \/ Replay(c) /\ ran' = ran
                      \/ Ends(c, "ended") /\ ran' = ran
  BY DEF ReadBack
<1> QED
  BY <1>3, <1>4, <1>5, <1>6, <1>7, <1>8, <1>9, <1>10, <1>11 DEF Call

\* A governed call keeps its contract: whatever dies, lapses or is repeated, an operation is
\* performed for one call, its outcome concluded once, as its handler returned it, and told
\* to callers of the same request only (Manager.Execute, idempotency_store.go).
THEOREM CallsKeepContract == Spec => KeepsCallContract
<1>1. Init => Contract!KInit /\ ReturnPart
  BY DEF Init, Contract!KInit, Performed, Concluded, Heard, Means, ReturnPart
<1>2. CallInv /\ ReturnPart /\ [Next]_vars => ReturnPart'
  BY ReturnStays DEF CallInv
<1>3. CallInv /\ ReturnPart /\ [Next]_vars => [Contract!KNext]_(Contract!kvars)
  <2> SUFFICES ASSUME CallInv, ReturnPart, [Next]_vars
               PROVE  Contract!KNext \/ UNCHANGED Contract!kvars
    OBVIOUS
  <2>1. ASSUME NEW c \in Calls, Call(c)
        PROVE  Contract!KNext \/ UNCHANGED Contract!kvars
    BY <2>1, CallAssumption, CallMaps
  <2>2. CASE ConfStep \/ Restart \/ UNCHANGED vars \/ \E o \in Operations : LeaseLapses(o)
    <3>1. UNCHANGED <<record, ran, outcome, answer, resolved>>
      BY <2>2 DEF ConfStep, LeaseLapses, Restart, vars, recordVars, callVars
    <3>2. \A c \in ran : Operation(c)' = Operation(c)
      BY <3>1 DEF Operation
    <3> QED
      BY <3>1, <3>2, UnseenMaps
  <2> QED
    BY <2>1, <2>2, ConfSteps DEF Next, CallInv
<1> QED
  BY <1>1, <1>2, <1>3, CallInvariantHolds, PTL
  DEF Spec, KeepsCallContract, Contract!KSpec

-----------------------------------------------------------------------------
(* The stream *)

\* The bodies of a frame (frames that close a turn or the stream among them),
\* what a frame carries, frames, and what is recorded of a chunk shown.
Closing == {"capability_call", "final_result", "run_failure"}
Bodies == {"run_accepted", "output_delta", "resource_usage"} \union Closing
Carried == Nat \union BOOLEAN \union (CallIds \X BOOLEAN) \union (Nat \X Nat \X Nat)
Frames == [sequence : Nat, body : Bodies, arg : Carried]
Showings == [attempt : Nat, turn : Nat]

\* What the two sides keep, and the request under way.
AgentRecord ==
    [at : {"turn", "answered", "calling", "waiting", "ended"}, turn : Nat,
     output : Nat, units : Nat, retries : Nat, cost : Nat, calls : Nat,
     seen : SUBSET CallIds, pending : Seq(CallIds), sequence : Nat,
     withheld : BOOLEAN, loose : BOOLEAN]

RequestRecord == [attempt : Nat, received : BOOLEAN, text : Nat]

IntakeRecord ==
    [at : {"receiving", "succeeded", "failed", "stopped"}, attempt : Nat,
     expected : Nat, accepted : BOOLEAN, seen : SUBSET CallIds,
     output : Nat, units : Nat, retries : Nat, cost : Nat, usage : BOOLEAN, final : Nat,
     failure : {"none", "retryable", "final"}, safe : BOOLEAN,
     refused : {"none", "after terminal", "sequence", "unexpected", "arguments",
                "budget", "duplicate", "usage"}]

AgentTypes ==
    /\ request \in RequestRecord /\ agent \in AgentRecord /\ intake \in IntakeRecord
    /\ wire \in Seq(Frames) /\ shown \in Seq(Showings) /\ results \in Seq(CallIds)

\* 1 while the acceptance of the Run is under way.
Unaccepted == IF intake.accepted THEN 0 ELSE 1
\* The places of the frames under way.
Sent == 1 .. Len(wire)

\* The frames under way carry the numbers the engine expects, one after another; a frame
\* the runtime withheld leaves a gap before the failure sent in its place.
Numbered ==
    /\ \A i \in Sent :
         wire[i].sequence = intake.expected + i - 1 + (IF agent.withheld /\ i = Len(wire) THEN 1 ELSE 0)
    /\ agent.sequence = intake.expected + Len(wire) - 1 + (IF agent.withheld THEN 1 ELSE 0)
    /\ agent.withheld => agent.at = "ended"

\* The first k frames under way are the acceptance and the chunks of the turn; a report of
\* usage comes right behind them, and a call or a reply only behind such a report.  What the
\* engine counted and what is under way make up what the agent counted, of the Run's output
\* and of the turn's text.
Chunked(k) ==
    /\ k \in Unaccepted .. Len(wire)
    /\ \A i \in Sent : i <= k =>
         IF i = 1 /\ ~intake.accepted THEN wire[i].body = "run_accepted"
         ELSE wire[i].body = "output_delta" /\ wire[i].arg = agent.turn
    /\ \A i \in Sent : i > k => wire[i].body \in Closing \union {"resource_usage"}
    /\ \A i \in Sent : 
         /\ wire[i].body = "resource_usage" => i = k + 1
         /\ wire[i].body \in {"capability_call", "final_result"} => intake.usage \/ i > k + 1
    /\ agent.at = "turn" => k = Len(wire)
    /\ agent.at \in {"answered", "calling", "waiting"} => intake.usage \/ k < Len(wire)
    /\ agent.output = intake.output + k - Unaccepted
    /\ request.text = Shown + k - Unaccepted

\* A frame carries the call the agent is at, and says truly whether its arguments are JSON to
\* the engine too.
SaysTheCall(arg) ==
    arg \in CallIds \X BOOLEAN /\ arg[1] = Head(agent.pending) /\ (arg[2] \/ agent.loose)

\* A call, a reply or a failure is the last frame under way, and says what the agent is at;
\* once the engine has a terminal frame nothing is under way.
Ending ==
    /\ \A i \in Sent :
         /\ wire[i].body \in Closing => i = Len(wire)
         /\ wire[i].body = "capability_call" => agent.at = "waiting" /\ SaysTheCall(wire[i].arg)
         /\ wire[i].body \in {"final_result", "run_failure"} => agent.at = "ended"
         /\ wire[i].body = "final_result" => wire[i].arg = request.text /\ request.text > 0
         /\ wire[i].body = "run_failure" => wire[i].arg \in BOOLEAN
         /\ wire[i].body = "resource_usage" =>
              wire[i].arg = <<IF agent.units = 0 THEN 1 ELSE agent.units, agent.retries, agent.cost>>
    /\ intake.final > 0 \/ intake.failure # "none" => wire = <<>> /\ agent.at = "ended"
    /\ intake.final > 0 => intake.final = request.text

\* The agent has asked for a call that the engine has not taken.
CallUnderWay == \E i \in Sent : wire[i].body = "capability_call"
\* The agent and the engine have seen the same ids, but for the call under way, and the agent
\* counted every call of a turn before it asked for the first.
Counted ==
    /\ IF CallUnderWay
       THEN /\ Head(agent.pending) \notin intake.seen
            /\ agent.seen = intake.seen \union {Head(agent.pending)}
       ELSE agent.seen = intake.seen
    /\ results # <<>> => agent.at = "waiting" /\ wire = <<>> /\ Len(results) = 1
    /\ agent.at = "calling" /\ agent.pending = <<>> => wire = <<>>
    /\ agent.at = "waiting" => agent.pending # <<>>
    /\ IsFiniteSet(agent.seen)
    /\ Cardinality(agent.seen) <= agent.calls
    /\ agent.at = "calling" => Cardinality(agent.seen) + Len(agent.pending) <= agent.calls
    /\ agent.at = "waiting" => Cardinality(agent.seen) + Len(agent.pending) - 1 <= agent.calls

\* The agent is within the budgets of the Run, and ahead of the engine.
Budgeted ==
    /\ agent.calls <= MaxCapabilityCalls
    /\ agent.units <= MaxExecutionUnits /\ agent.output <= MaxOutputBytes
    /\ request.text <= agent.output /\ (request.text > 0 => request.received)
    /\ intake.units <= IF agent.units = 0 THEN 1 ELSE agent.units
    /\ intake.retries <= agent.retries
    /\ MaxCostMicrousd = 0 \/ agent.cost <= MaxCostMicrousd
    /\ intake.cost <= agent.cost

\* No chunk was shown of an attempt or a turn yet to come.
ShownSoFar ==
    \A i \in DOMAIN shown : 
      /\ shown[i].attempt <= intake.attempt
      /\ shown[i].attempt = intake.attempt => shown[i].turn <= agent.turn

\* All of it, of a Run that is being received.
UnderWay ==
    /\ intake.refused = "none"
    /\ Numbered /\ (\E k \in Nat : Chunked(k)) /\ Ending /\ Counted /\ Budgeted /\ ShownSoFar

\* The inductive invariant: the two sides agree while the engine receives, and afterwards the
\* agent has ended.
AgentInv ==
    /\ AgentTypes /\ FramesAreTaken /\ ReplyIsShownOnce
    /\ Receiving => UnderWay
    /\ ~Receiving => agent.at = "ended"

-----------------------------------------------------------------------------
\* How often something is in a sequence is a number.
LEMMA TimesIsNat ==
  ASSUME NEW S, NEW s \in Seq(S), NEW e
  PROVE  Times(e, s) \in Nat
<1>1. IsFiniteSet(DOMAIN s)
  <2>1. DOMAIN s = 1 .. Len(s) /\ Len(s) \in Nat
    OBVIOUS
  <2>2. QED BY <2>1, FS_Interval
<1>2. IsFiniteSet({i \in DOMAIN s : s[i] = e})
  BY <1>1, FS_Subset
<1>3. QED BY <1>2, FS_CardinalityType DEF Times

\* Appending e makes it once more, appending anything else does not.
LEMMA TimesAppended ==
  ASSUME NEW S, NEW s \in Seq(S), NEW f \in S, NEW e
  PROVE  Times(e, Append(s, f)) = Times(e, s) + (IF f = e THEN 1 ELSE 0)
<1> DEFINE t == Append(s, f)
           At(u) == {i \in DOMAIN u : u[i] = e}
<1>1. DOMAIN s = 1 .. Len(s) /\ Len(s) \in Nat /\ DOMAIN t = 1 .. Len(s) + 1
      /\ t[Len(s) + 1] = f /\ \A i \in 1 .. Len(s) : t[i] = s[i]
  OBVIOUS
<1>2. IsFiniteSet(At(s))
  <2>1. IsFiniteSet(DOMAIN s)
    BY <1>1, FS_Interval
  <2>2. QED BY <2>1, FS_Subset
<1> HIDE DEF t
<1>3. CASE f = e
  <2>1. At(t) = At(s) \union {Len(s) + 1} /\ Len(s) + 1 \notin At(s)
    BY <1>1, <1>3
  <2>2. Cardinality(At(t)) = Cardinality(At(s)) + 1
    BY <1>2, <2>1, FS_AddElement
  <2>3. QED BY <1>3, <2>2 DEF Times, t
<1>4. CASE f # e
  <2>1. At(t) = At(s)
    BY <1>1, <1>4
  <2>2. Cardinality(At(s)) \in Nat
    BY <1>2, FS_CardinalityType
  <2>3. Times(e, t) = Times(e, s) /\ Times(e, s) \in Nat
    BY <2>1, <2>2 DEF Times
  <2>4. QED BY <1>4, <2>3 DEF t
<1>5. QED BY <1>3, <1>4

\* What is nowhere in a sequence is there 0 times.
LEMMA NeverShown ==
  ASSUME NEW s, NEW e, \A i \in DOMAIN s : s[i] # e
  PROVE  Times(e, s) = 0
<1>1. {i \in DOMAIN s : s[i] = e} = {}
  OBVIOUS
<1>2. QED BY <1>1, FS_EmptySet DEF Times

\* A frame sent is the last one under way, behind the same others.
LEMMA Sending ==
  ASSUME wire \in Seq(Frames), NEW f \in Frames, wire' = Append(wire, f)
  PROVE  /\ wire' \in Seq(Frames) /\ Len(wire) \in Nat /\ Len(wire') = Len(wire) + 1 /\ wire' # <<>>
         /\ \A i \in 1 .. Len(wire) : wire'[i] = wire[i]
         /\ wire'[Len(wire) + 1] = f
<1>1. wire' \in Seq(Frames) /\ Len(wire) \in Nat /\ Len(wire') = Len(wire) + 1
      /\ wire'[Len(wire) + 1] = f /\ \A i \in 1 .. Len(wire) : wire'[i] = wire[i]
  OBVIOUS
<1>2. QED BY <1>1

\* A frame taken was the first one, and each of the others moves up by one.
LEMMA Taking ==
  ASSUME wire \in Seq(Frames), wire # <<>>, wire' = Tail(wire)
  PROVE  /\ wire' \in Seq(Frames) /\ Len(wire) \in Nat /\ Len(wire) >= 1 /\ Len(wire') = Len(wire) - 1
         /\ \A i \in 1 .. Len(wire') : wire'[i] = wire[i + 1]
         /\ Head(wire) = wire[1] /\ wire[1] \in Frames
  OBVIOUS

\* A frame is made of the number, the body and the load it is given.
LEMMA FrameIsTyped ==
  ASSUME NEW n \in Nat, NEW b \in Bodies, NEW a \in Carried
  PROVE  /\ Frame(n, b, a) \in Frames /\ Frame(n, b, a).sequence = n
         /\ Frame(n, b, a).body = b /\ Frame(n, b, a).arg = a
  BY DEF Frame, Frames

\* While the agent is at work on a turn it has ended nothing and asked nothing.
LEMMA NothingAsked ==
  ASSUME AgentTypes, UnderWay, agent.at \in {"turn", "answered", "calling"}
  PROVE  /\ ~agent.withheld /\ agent.sequence = intake.expected + Len(wire) - 1
         /\ \A i \in 1 .. Len(wire) :
              /\ wire[i].body \notin Closing /\ wire[i].sequence = intake.expected + i - 1
              /\ wire[i].body = "resource_usage" =>
                   wire[i].arg = <<IF agent.units = 0 THEN 1 ELSE agent.units, agent.retries, agent.cost>>
         /\ intake.final = 0 /\ intake.failure = "none"
         /\ agent.seen = intake.seen /\ results = <<>>
<1>1. ~agent.withheld
  BY DEF UnderWay, Numbered
<1>2. agent.sequence = intake.expected + Len(wire) - 1
      /\ \A i \in 1 .. Len(wire) : wire[i].sequence = intake.expected + i - 1
  <2>1. intake.expected \in Nat
    BY DEF AgentTypes, AgentRecord, RequestRecord, IntakeRecord
  <2>2. agent.sequence = intake.expected + Len(wire) - 1 + 0
        /\ \A i \in 1 .. Len(wire) : wire[i].sequence = intake.expected + i - 1 + 0
    BY <1>1 DEF UnderWay, Numbered, Sent
  <2>3. QED BY <2>1, <2>2
<1>3. \A i \in 1 .. Len(wire) : wire[i].body \notin Closing
  BY DEF UnderWay, Ending, Sent, Closing
<1>4. \A i \in 1 .. Len(wire) : wire[i].body = "resource_usage" =>
        wire[i].arg = <<IF agent.units = 0 THEN 1 ELSE agent.units, agent.retries, agent.cost>>
  BY DEF UnderWay, Ending, Sent
<1>5. intake.final = 0 /\ intake.failure = "none"
  <2>1. intake.final \in Nat
    BY DEF AgentTypes, AgentRecord, RequestRecord, IntakeRecord
  <2>2. ~(intake.final > 0) /\ ~(intake.failure # "none")
    BY DEF UnderWay, Ending
  <2>3. QED BY <2>1, <2>2
<1>6. agent.seen = intake.seen /\ results = <<>>
  BY <1>3 DEF UnderWay, Counted, CallUnderWay, Sent, Closing
<1>7. QED BY <1>1, <1>2, <1>3, <1>4, <1>5, <1>6

\* The agent ends its stream with a failure; withheld: one number was lost.
LEMMA FailureKeeps ==
  ASSUME AgentTypes, Receiving, UnderWay, agent.at \in {"turn", "answered", "calling"},
         NEW r \in BOOLEAN, NEW w \in BOOLEAN, NEW n \in Nat,
         n = agent.sequence + (IF w THEN 2 ELSE 1),
         wire' = Append(wire, Frame(n, "run_failure", r)),
         agent' = [agent EXCEPT !.at = "ended", !.sequence = n, !.withheld = w],
         UNCHANGED <<request, results, intake, shown>>
  PROVE  AgentTypes' /\ UnderWay' /\ Receiving'
<1>1. agent' \in AgentRecord
  BY DEF AgentTypes, AgentRecord, RequestRecord, IntakeRecord
<1>2. /\ agent'.at = "ended" /\ agent'.sequence = n
      /\ agent'.withheld = w /\ agent'.turn = agent.turn /\ agent'.output = agent.output
      /\ agent'.units = agent.units /\ agent'.retries = agent.retries /\ agent'.cost = agent.cost
      /\ agent'.calls = agent.calls /\ agent'.seen = agent.seen /\ agent'.pending = agent.pending
  BY DEF AgentTypes, AgentRecord, RequestRecord, IntakeRecord
<1> DEFINE f == Frame(n, "run_failure", r)
<1>3. f \in Frames /\ f.sequence = n /\ f.body = "run_failure" /\ f.arg = r
  <2>2. "run_failure" \in Bodies /\ r \in Carried
    BY DEF Bodies, Closing, Carried
  <2>3. QED BY <2>2, FrameIsTyped
<1>4. wire' = Append(wire, f)
  OBVIOUS
<1> HIDE DEF f
<1>5. /\ wire' \in Seq(Frames) /\ Len(wire) \in Nat /\ Len(wire') = Len(wire) + 1 /\ wire' # <<>>
      /\ \A i \in 1 .. Len(wire) : wire'[i] = wire[i]
      /\ wire'[Len(wire) + 1] = f
  BY <1>3, <1>4, Sending DEF AgentTypes, AgentRecord, RequestRecord, IntakeRecord
<1>6. AgentTypes'
  BY <1>1, <1>5 DEF AgentTypes, AgentRecord, RequestRecord, IntakeRecord
<1>n. /\ ~agent.withheld /\ agent.sequence = intake.expected + Len(wire) - 1
      /\ \A i \in 1 .. Len(wire) :
           /\ wire[i].body \notin Closing /\ wire[i].sequence = intake.expected + i - 1
           /\ wire[i].body = "resource_usage" =>
                wire[i].arg = <<IF agent.units = 0 THEN 1 ELSE agent.units, agent.retries, agent.cost>>
      /\ intake.final = 0 /\ intake.failure = "none"
      /\ agent.seen = intake.seen /\ results = <<>>
  BY NothingAsked
<1>s. \A i \in 1 .. Len(wire') : i \in 1 .. Len(wire) \/ i = Len(wire')
  BY <1>5
<1>7. Numbered'
  <2>2. intake.expected \in Nat
    BY DEF AgentTypes, AgentRecord, RequestRecord, IntakeRecord
  <2>3. n = intake.expected + Len(wire) + (IF w THEN 1 ELSE 0)
    BY <1>5, <1>n, <2>2
  <2>4. ASSUME NEW i \in 1 .. Len(wire')
        PROVE  wire'[i].sequence = intake.expected + i - 1
                                   + (IF w /\ i = Len(wire') THEN 1 ELSE 0)
    BY <1>3, <1>5, <1>n, <1>s, <2>2, <2>3
  <2>5. agent'.sequence = intake.expected + Len(wire') - 1 + (IF w THEN 1 ELSE 0)
    BY <1>2, <1>5, <2>2, <2>3
  <2>6. QED BY <1>2, <2>4, <2>5 DEF Numbered, Sent
<1>8. \E k \in Nat : Chunked(k)'
  <2>1. PICK k \in Nat : Chunked(k)
    BY DEF UnderWay
  <2>2. k \in Unaccepted .. Len(wire)
    BY <2>1 DEF Chunked
  <2>3. \A i \in 1 .. Len(wire') : i \in 1 .. Len(wire) \/ (i = Len(wire) + 1 /\ i > k)
    BY <1>5, <2>2
  <2>4. Chunked(k)'
    BY <1>2, <1>3, <1>5, <2>1, <2>2, <2>3 DEF Chunked, Sent, Unaccepted, Shown, Closing
  <2>5. QED BY <2>4
<1>9. Ending'
  BY <1>2, <1>3, <1>5, <1>n, <1>s DEF Ending, Sent, Closing
<1>10. Counted'
  <2>1. ~CallUnderWay'
    BY <1>3, <1>5, <1>n, <1>s DEF CallUnderWay, Sent, Closing
  <2>2. QED BY <1>2, <1>n, <2>1 DEF UnderWay, Counted
<1>11. Budgeted' /\ ShownSoFar' /\ Receiving'
  BY <1>2 DEF UnderWay, Budgeted, ShownSoFar, Receiving
<1>12. QED BY <1>6, <1>7, <1>8, <1>9, <1>10, <1>11 DEF UnderWay

\* SendFrame while the agent is at work: the new frame has the number the engine will expect
\* behind those under way.
LEMMA FrameIsSent ==
  ASSUME AgentTypes, UnderWay, agent.at \in {"turn", "answered", "calling"},
         NEW b \in Bodies, NEW a \in Carried, NEW next \in AgentRecord, ~next.withheld,
         SendFrame(b, a, next), UNCHANGED intake
  PROVE  /\ wire' \in Seq(Frames) /\ Len(wire) \in Nat /\ Len(wire') = Len(wire) + 1 /\ wire' # <<>>
         /\ \A i \in 1 .. Len(wire) : wire'[i] = wire[i]
         /\ \A i \in 1 .. Len(wire') : i \in 1 .. Len(wire) \/ i = Len(wire')
         /\ wire'[Len(wire')].body = b /\ wire'[Len(wire')].arg = a
         /\ agent' = [next EXCEPT !.sequence = agent.sequence + 1] /\ agent' \in AgentRecord
         /\ Numbered'
<1> DEFINE f == Frame(agent.sequence + 1, b, a)
<1>1. agent.sequence \in Nat /\ intake.expected \in Nat
  BY DEF AgentTypes, AgentRecord, RequestRecord, IntakeRecord
<1>2. f \in Frames /\ f.sequence = agent.sequence + 1 /\ f.body = b /\ f.arg = a
  <2>1. agent.sequence + 1 \in Nat
    BY <1>1
  <2>2. QED BY <2>1, FrameIsTyped
<1>3. wire' = Append(wire, f)
  BY DEF SendFrame
<1> HIDE DEF f
<1>4. /\ wire' \in Seq(Frames) /\ Len(wire) \in Nat /\ Len(wire') = Len(wire) + 1 /\ wire' # <<>>
      /\ \A i \in 1 .. Len(wire) : wire'[i] = wire[i]
      /\ wire'[Len(wire) + 1] = f
  BY <1>2, <1>3, Sending DEF AgentTypes, AgentRecord, RequestRecord, IntakeRecord
<1>5. \A i \in 1 .. Len(wire') : i \in 1 .. Len(wire) \/ i = Len(wire')
  BY <1>4
<1>6. agent' = [next EXCEPT !.sequence = agent.sequence + 1] /\ agent' \in AgentRecord
  <2>1. agent' = [next EXCEPT !.sequence = agent.sequence + 1]
    BY DEF SendFrame
  <2>2. agent.sequence + 1 \in Nat
    BY <1>1
  <2>3. QED BY <2>1, <2>2 DEF AgentRecord
<1>7. Numbered'
  <2>1. /\ agent.sequence = intake.expected + Len(wire) - 1
        /\ \A i \in 1 .. Len(wire) : wire[i].sequence = intake.expected + i - 1
    BY NothingAsked
  <2>2. ~agent'.withheld /\ agent'.sequence = agent.sequence + 1
    BY <1>6 DEF AgentRecord
  <2>3. agent'.sequence = intake.expected + Len(wire') - 1
    BY <1>1, <1>4, <2>1, <2>2
  <2>4. ASSUME NEW i \in 1 .. Len(wire') PROVE wire'[i].sequence = intake.expected + i - 1
    <3>1. CASE i \in 1 .. Len(wire)
      BY <1>4, <2>1, <3>1
    <3>2. CASE i = Len(wire')
      <4>1. wire'[i].sequence = agent.sequence + 1
        BY <1>2, <1>4, <3>2
      <4>2. QED BY <1>1, <1>4, <2>1, <3>2, <4>1
    <3>3. QED BY <1>5, <3>1, <3>2
  <2>5. intake' = intake /\ Len(wire') \in Nat
    BY <1>4
  <2>6. QED BY <1>1, <2>2, <2>3, <2>4, <2>5 DEF Numbered, Sent
<1>8. QED BY <1>2, <1>4, <1>5, <1>6, <1>7

\* TextChunk within the budget: one chunk more on the agent's side, and one more under way.
LEMMA ChunkKeeps ==
  ASSUME AgentTypes, Receiving, UnderWay, agent.at = "turn",
         AgentOutput(1) <= MaxOutputBytes,
         SendFrame("output_delta", agent.turn, [agent EXCEPT !.output = AgentOutput(1)]),
         request' = [request EXCEPT !.received = TRUE, !.text = @ + 1],
         UNCHANGED <<results, intake, shown>>
  PROVE  AgentTypes' /\ UnderWay' /\ Receiving'
<1> DEFINE next == [agent EXCEPT !.output = AgentOutput(1)]
<1>1. agent \in AgentRecord /\ agent.output \in Nat /\ agent.turn \in Nat
  BY DEF AgentTypes, AgentRecord, RequestRecord, IntakeRecord
<1>2. next \in AgentRecord /\ next.at = agent.at /\ next.withheld = agent.withheld
  BY <1>1 DEF AgentRecord, AgentOutput
<1>n. /\ ~agent.withheld
      /\ \A i \in 1 .. Len(wire) :
           /\ wire[i].body \notin Closing
           /\ wire[i].body = "resource_usage" =>
                wire[i].arg = <<IF agent.units = 0 THEN 1 ELSE agent.units, agent.retries, agent.cost>>
      /\ intake.final = 0 /\ intake.failure = "none"
      /\ agent.seen = intake.seen /\ results = <<>>
  BY NothingAsked
<1>3. "output_delta" \in Bodies /\ agent.turn \in Carried
  BY <1>1 DEF Bodies, Carried
<1>4. /\ wire' \in Seq(Frames) /\ Len(wire) \in Nat /\ Len(wire') = Len(wire) + 1 /\ wire' # <<>>
      /\ \A i \in 1 .. Len(wire) : wire'[i] = wire[i]
      /\ \A i \in 1 .. Len(wire') : i \in 1 .. Len(wire) \/ i = Len(wire')
      /\ wire'[Len(wire')].body = "output_delta" /\ wire'[Len(wire')].arg = agent.turn
      /\ agent' = [next EXCEPT !.sequence = agent.sequence + 1] /\ agent' \in AgentRecord
      /\ Numbered'
  BY <1>2, <1>3, <1>n, FrameIsSent
<1>5. /\ agent'.at = "turn" /\ agent'.turn = agent.turn /\ agent'.output = agent.output + 1
      /\ agent'.units = agent.units /\ agent'.retries = agent.retries /\ agent'.cost = agent.cost
      /\ agent'.calls = agent.calls /\ agent'.seen = agent.seen /\ agent'.pending = agent.pending
  BY <1>1, <1>4 DEF AgentRecord, AgentOutput
<1>6. /\ request' \in [attempt : Nat, received : BOOLEAN, text : Nat] /\ request.text \in Nat
      /\ request'.text = request.text + 1 /\ request'.received
  <2>1. request \in [attempt : Nat, received : BOOLEAN, text : Nat]
    BY DEF AgentTypes, AgentRecord, RequestRecord, IntakeRecord
  <2>2. request.text \in Nat /\ request.text + 1 \in Nat
    BY <2>1
  <2>3. QED BY <2>1, <2>2
<1>7. AgentTypes'
  BY <1>4, <1>6 DEF AgentTypes, AgentRecord, RequestRecord, IntakeRecord
<1>8. \E k \in Nat : Chunked(k)'
  <2>1. PICK k \in Nat : Chunked(k)
    BY DEF UnderWay
  <2>2. k = Len(wire) /\ Unaccepted \in {0, 1} /\ Unaccepted <= k
    BY <1>4, <2>1 DEF Chunked, Unaccepted
  <2>3. Unaccepted' = Unaccepted /\ Shown' = Shown /\ intake.output \in Nat
    BY <1>5 DEF Unaccepted, Shown, AgentTypes, AgentRecord, RequestRecord, IntakeRecord
  <2>4. Shown \in Nat
    BY TimesIsNat DEF Shown, AgentTypes, AgentRecord, RequestRecord, IntakeRecord
  <2>5. agent'.output = intake'.output + (k + 1) - Unaccepted'
    BY <1>1, <1>5, <2>1, <2>2, <2>3 DEF Chunked
  <2>6. request'.text = Shown' + (k + 1) - Unaccepted'
    BY <1>6, <2>1, <2>2, <2>3, <2>4 DEF Chunked
  <2>7. k + 1 \in Nat /\ k + 1 = Len(wire') /\ k + 1 \in Unaccepted' .. Len(wire')
    BY <1>4, <2>2, <2>3
  <2>8. ASSUME NEW i \in 1 .. Len(wire')
        PROVE  IF i = 1 /\ ~intake.accepted THEN wire'[i].body = "run_accepted"
               ELSE wire'[i].body = "output_delta" /\ wire'[i].arg = agent.turn
    <3>1. CASE i \in 1 .. Len(wire)
      BY <1>4, <2>1, <2>2, <3>1 DEF Chunked, Sent
    <3>2. CASE i = Len(wire')
      <4>1. ~(i = 1 /\ ~intake.accepted)
        BY <1>4, <2>2, <3>2 DEF Unaccepted
      <4>2. QED BY <1>4, <3>2, <4>1
    <3>3. QED BY <1>4, <3>1, <3>2
  <2>9. \A i \in 1 .. Len(wire') : wire'[i].body \in {"run_accepted", "output_delta"}
    BY <2>8
  <2>10. Chunked(k + 1)'
    BY <1>5, <2>5, <2>6, <2>7, <2>8, <2>9 DEF Chunked, Sent
  <2>11. QED BY <2>7, <2>10
<1>9. Ending'
  BY <1>4, <1>5, <1>n DEF Ending, Sent, Closing
<1>10. Counted'
  <2>1. ~CallUnderWay'
    BY <1>4, <1>n DEF CallUnderWay, Sent, Closing
  <2>2. QED BY <1>5, <1>n, <2>1 DEF UnderWay, Counted
<1>11. Budgeted' /\ ShownSoFar' /\ Receiving'
  BY <1>1, <1>5, <1>6 DEF UnderWay, Budgeted, ShownSoFar, Receiving, AgentOutput
<1>12. QED BY <1>4, <1>7, <1>8, <1>9, <1>10, <1>11 DEF UnderWay

\* The chunks of the turn that are under way stay the same k frames.
LEMMA FrameAfterChunks ==
  ASSUME AgentTypes, UnderWay, NEW k \in Nat, Chunked(k),
         wire' \in Seq(Frames), Len(wire) \in Nat, Len(wire') = Len(wire) + 1,
         \A i \in 1 .. Len(wire) : wire'[i] = wire[i],
         \A i \in 1 .. Len(wire') : i \in 1 .. Len(wire) \/ i = Len(wire'),
         wire'[Len(wire')].body \in Closing \union {"resource_usage"},
         wire'[Len(wire')].body = "resource_usage" => k = Len(wire),
         wire'[Len(wire')].body \in {"capability_call", "final_result"} =>
             intake.usage \/ k < Len(wire),
         agent'.at # "turn", agent'.turn = agent.turn, agent'.output = agent.output,
         UNCHANGED <<request, intake, shown>>
  PROVE  Chunked(k)'
<1>1. k \in Unaccepted .. Len(wire) /\ Unaccepted \in {0, 1}
  BY DEF Chunked, Unaccepted
<1>2. UNCHANGED <<Unaccepted, Shown>>
  BY DEF Unaccepted, Shown
<1>3. k < Len(wire') /\ k \in Unaccepted' .. Len(wire')
  BY <1>1, <1>2
<1>4. ASSUME NEW i \in 1 .. Len(wire'), i <= k
      PROVE  IF i = 1 /\ ~intake.accepted THEN wire'[i].body = "run_accepted"
             ELSE wire'[i].body = "output_delta" /\ wire'[i].arg = agent.turn
  <2>1. i \in 1 .. Len(wire)
    BY <1>3, <1>4
  <2>2. QED BY <1>4, <2>1 DEF Chunked, Sent
<1>5. ASSUME NEW i \in 1 .. Len(wire'), i > k
      PROVE  /\ wire'[i].body \in Closing \union {"resource_usage"}
             /\ wire'[i].body = "resource_usage" => i = k + 1
             /\ wire'[i].body \in {"capability_call", "final_result"} => intake.usage \/ i > k + 1
  <2>1. CASE i \in 1 .. Len(wire)
    BY <1>5, <2>1 DEF Chunked, Sent
  <2>2. CASE i = Len(wire')
    BY <1>3, <2>2
  <2>3. QED BY <2>1, <2>2
<1>6. \A i \in 1 .. Len(wire') :
        /\ wire'[i].body = "resource_usage" => i = k + 1
        /\ wire'[i].body \in {"capability_call", "final_result"} => intake.usage \/ i > k + 1
  <2>1. SUFFICES ASSUME NEW i \in 1 .. Len(wire'), i <= k
                 PROVE  wire'[i].body \notin {"resource_usage", "capability_call", "final_result"}
    BY <1>5
  <2>2. QED BY <1>4, <2>1
<1>7. agent'.output = intake'.output + k - Unaccepted'
  BY <1>2 DEF Chunked
<1>8. request'.text = Shown' + k - Unaccepted'
  BY <1>2 DEF Chunked
<1>9. QED BY <1>3, <1>4, <1>5, <1>6, <1>7, <1>8 DEF Chunked, Sent

\* TurnCompletes: the report of usage is behind every chunk of the turn.
LEMMA UsageKeeps ==
  ASSUME AgentTypes, Receiving, UnderWay, agent.at = "turn",
         NEW units \in Nat, NEW ids \in Seq(CallIds), NEW total \in Nat,
         total = agent.units + units, total <= MaxExecutionUnits,
         NEW cost \in Nat, NEW costs \in Nat, costs = agent.cost + cost,
         MaxCostMicrousd = 0 \/ costs <= MaxCostMicrousd,
         SendFrame("resource_usage",
                   <<IF total = 0 THEN 1 ELSE total, agent.retries + request.attempt, costs>>,
                   [agent EXCEPT !.at = "answered", !.units = total,
                                 !.retries = @ + request.attempt, !.cost = costs,
                                 !.pending = ids]),
         UNCHANGED <<request, results, intake, shown>>
  PROVE  AgentTypes' /\ UnderWay' /\ Receiving'
<1> DEFINE next == [agent EXCEPT !.at = "answered", !.units = total,
                                 !.retries = @ + request.attempt, !.cost = costs,
                                 !.pending = ids]
           arg == <<IF total = 0 THEN 1 ELSE total, agent.retries + request.attempt, costs>>
<1>1. /\ agent \in AgentRecord /\ agent.retries \in Nat /\ agent.units \in Nat
      /\ agent.cost \in Nat /\ request.attempt \in Nat
  BY DEF AgentTypes, AgentRecord, RequestRecord, IntakeRecord
<1>r. agent.retries + request.attempt \in Nat /\ agent.retries <= agent.retries + request.attempt
      /\ agent.units <= total
  BY <1>1
<1>d. agent.cost <= costs
  BY <1>1
<1>2. next \in AgentRecord /\ next.withheld = agent.withheld
  BY <1>1, <1>r DEF AgentRecord
<1>n. /\ ~agent.withheld
      /\ \A i \in 1 .. Len(wire) :
           /\ wire[i].body \notin Closing
           /\ wire[i].body = "resource_usage" =>
                wire[i].arg = <<IF agent.units = 0 THEN 1 ELSE agent.units, agent.retries, agent.cost>>
      /\ intake.final = 0 /\ intake.failure = "none"
      /\ agent.seen = intake.seen /\ results = <<>>
  BY NothingAsked
<1>3. "resource_usage" \in Bodies /\ arg \in Carried
  BY <1>r DEF Bodies, Carried
<1>4. /\ wire' \in Seq(Frames) /\ Len(wire) \in Nat /\ Len(wire') = Len(wire) + 1 /\ wire' # <<>>
      /\ \A i \in 1 .. Len(wire) : wire'[i] = wire[i]
      /\ \A i \in 1 .. Len(wire') : i \in 1 .. Len(wire) \/ i = Len(wire')
      /\ wire'[Len(wire')].body = "resource_usage" /\ wire'[Len(wire')].arg = arg
      /\ agent' = [next EXCEPT !.sequence = agent.sequence + 1] /\ agent' \in AgentRecord
      /\ Numbered'
  BY <1>2, <1>3, <1>n, FrameIsSent
<1>5. /\ agent'.at = "answered" /\ agent'.turn = agent.turn /\ agent'.output = agent.output
      /\ agent'.units = total /\ agent'.retries = agent.retries + request.attempt
      /\ agent'.cost = costs /\ agent'.calls = agent.calls /\ agent'.seen = agent.seen
  BY <1>1, <1>4 DEF AgentRecord
<1>7. AgentTypes'
  BY <1>4 DEF AgentTypes, AgentRecord, RequestRecord, IntakeRecord
<1>8. PICK k \in Nat : Chunked(k)
  BY DEF UnderWay
<1>9. k = Len(wire)
  BY <1>8 DEF Chunked
<1>10. Chunked(k)'
  BY <1>4, <1>5, <1>8, <1>9, FrameAfterChunks
<1>11. \A i \in 1 .. Len(wire) : wire'[i].body \in {"run_accepted", "output_delta"}
  BY <1>4, <1>8, <1>9 DEF Chunked, Sent
<1>a. wire'[Len(wire')].arg
        = <<IF agent'.units = 0 THEN 1 ELSE agent'.units, agent'.retries, agent'.cost>>
  BY <1>4, <1>5
<1>12. Ending'
  BY <1>4, <1>5, <1>n, <1>11, <1>a DEF Ending, Sent, Closing
<1>13. Counted'
  <2>1. ~CallUnderWay'
    BY <1>4, <1>n DEF CallUnderWay, Sent, Closing
  <2>2. QED BY <1>5, <1>n, <2>1 DEF UnderWay, Counted
<1>14. Budgeted' /\ ShownSoFar' /\ Receiving'
  <2>1. intake.units \in Nat /\ intake.retries \in Nat /\ intake.cost \in Nat
    BY DEF AgentTypes, AgentRecord, RequestRecord, IntakeRecord
  <2>a. /\ intake.cost <= agent.cost /\ intake.retries <= agent.retries
        /\ intake.units <= IF agent.units = 0 THEN 1 ELSE agent.units
    BY DEF UnderWay, Budgeted
  <2>2. intake.cost <= agent'.cost
    BY <1>1, <1>d, <1>5, <2>1, <2>a
  <2>3. intake.retries <= agent'.retries
    BY <1>1, <1>r, <1>5, <2>1, <2>a
  <2>b. total \in Nat
    OBVIOUS
  <2>4. intake.units <= IF agent'.units = 0 THEN 1 ELSE agent'.units
    BY ONLY <1>1, <1>r, <1>5, <2>1, <2>a, <2>b
  <2>5. QED BY <1>1, <1>5, <2>2, <2>3, <2>4 DEF UnderWay, Budgeted, ShownSoFar, Receiving
<1>15. QED BY <1>4, <1>7, <1>8, <1>10, <1>12, <1>13, <1>14 DEF UnderWay

\* FinalReply: the reply says how many chunks the turn had, and the usage is before it.
LEMMA FinalKeeps ==
  ASSUME AgentTypes, Receiving, UnderWay, agent.at = "answered", request.text # 0,
         SendFrame("final_result", request.text, [agent EXCEPT !.at = "ended"]),
         UNCHANGED <<request, results, intake, shown>>
  PROVE  AgentTypes' /\ UnderWay' /\ Receiving'
<1> DEFINE next == [agent EXCEPT !.at = "ended"]
<1>1. agent \in AgentRecord /\ request.text \in Nat
  BY DEF AgentTypes, AgentRecord, RequestRecord, IntakeRecord
<1>2. next \in AgentRecord /\ next.withheld = agent.withheld
  BY <1>1 DEF AgentRecord
<1>n. /\ ~agent.withheld
      /\ \A i \in 1 .. Len(wire) :
           /\ wire[i].body \notin Closing
           /\ wire[i].body = "resource_usage" =>
                wire[i].arg = <<IF agent.units = 0 THEN 1 ELSE agent.units, agent.retries, agent.cost>>
      /\ intake.final = 0 /\ intake.failure = "none"
      /\ agent.seen = intake.seen /\ results = <<>>
  BY NothingAsked
<1>3. "final_result" \in Bodies /\ request.text \in Carried
  BY <1>1 DEF Bodies, Closing, Carried
<1>4. /\ wire' \in Seq(Frames) /\ Len(wire) \in Nat /\ Len(wire') = Len(wire) + 1 /\ wire' # <<>>
      /\ \A i \in 1 .. Len(wire) : wire'[i] = wire[i]
      /\ \A i \in 1 .. Len(wire') : i \in 1 .. Len(wire) \/ i = Len(wire')
      /\ wire'[Len(wire')].body = "final_result" /\ wire'[Len(wire')].arg = request.text
      /\ agent' = [next EXCEPT !.sequence = agent.sequence + 1] /\ agent' \in AgentRecord
      /\ Numbered'
  BY <1>2, <1>3, <1>n, FrameIsSent
<1>5. /\ agent'.at = "ended" /\ agent'.turn = agent.turn /\ agent'.output = agent.output
      /\ agent'.units = agent.units /\ agent'.retries = agent.retries /\ agent'.cost = agent.cost
      /\ agent'.calls = agent.calls /\ agent'.seen = agent.seen
  BY <1>1, <1>4 DEF AgentRecord
<1>7. AgentTypes'
  BY <1>4 DEF AgentTypes, AgentRecord, RequestRecord, IntakeRecord
<1>8. PICK k \in Nat : Chunked(k)
  BY DEF UnderWay
<1>9. intake.usage \/ k < Len(wire)
  BY <1>8 DEF Chunked
<1>10. Chunked(k)'
  BY <1>4, <1>5, <1>8, <1>9, FrameAfterChunks DEF Closing
<1>12. Ending'
  BY <1>1, <1>4, <1>5, <1>n DEF Ending, Sent, Closing
<1>13. Counted'
  <2>1. ~CallUnderWay'
    BY <1>4, <1>n DEF CallUnderWay, Sent, Closing
  <2>2. QED BY <1>5, <1>n, <2>1 DEF UnderWay, Counted
<1>14. Budgeted' /\ ShownSoFar' /\ Receiving'
  BY <1>5 DEF UnderWay, Budgeted, ShownSoFar, Receiving
<1>15. QED BY <1>4, <1>7, <1>8, <1>10, <1>12, <1>13, <1>14 DEF UnderWay

\* RequestCapability: an id the agent has not seen is one the engine has not seen.
LEMMA CallKeeps ==
  ASSUME AgentTypes, Receiving, UnderWay, agent.at = "calling", agent.pending # <<>>,
         NEW id, id = Head(agent.pending), id \notin agent.seen, NEW strict \in BOOLEAN,
         SendFrame("capability_call", <<id, strict>>,
                   [agent EXCEPT !.at = "waiting", !.seen = @ \union {id}, !.loose = ~strict]),
         UNCHANGED <<request, results, intake, shown>>
  PROVE  AgentTypes' /\ UnderWay' /\ Receiving'
<1> DEFINE next == [agent EXCEPT !.at = "waiting", !.seen = @ \union {id}, !.loose = ~strict]
<1>1. agent \in AgentRecord /\ agent.pending \in Seq(CallIds)
  BY DEF AgentTypes, AgentRecord, RequestRecord, IntakeRecord
<1>i. id \in CallIds
  BY <1>1
<1>2. next \in AgentRecord /\ next.withheld = agent.withheld
  BY <1>1, <1>i DEF AgentRecord
<1>n. /\ ~agent.withheld
      /\ \A i \in 1 .. Len(wire) :
           /\ wire[i].body \notin Closing
           /\ wire[i].body = "resource_usage" =>
                wire[i].arg = <<IF agent.units = 0 THEN 1 ELSE agent.units, agent.retries, agent.cost>>
      /\ intake.final = 0 /\ intake.failure = "none"
      /\ agent.seen = intake.seen /\ results = <<>>
  BY NothingAsked
<1>3. "capability_call" \in Bodies /\ <<id, strict>> \in Carried
  BY <1>i DEF Bodies, Closing, Carried
<1>4. /\ wire' \in Seq(Frames) /\ Len(wire) \in Nat /\ Len(wire') = Len(wire) + 1 /\ wire' # <<>>
      /\ \A i \in 1 .. Len(wire) : wire'[i] = wire[i]
      /\ \A i \in 1 .. Len(wire') : i \in 1 .. Len(wire) \/ i = Len(wire')
      /\ wire'[Len(wire')].body = "capability_call" /\ wire'[Len(wire')].arg = <<id, strict>>
      /\ agent' = [next EXCEPT !.sequence = agent.sequence + 1] /\ agent' \in AgentRecord
      /\ Numbered'
  BY <1>2, <1>3, <1>n, FrameIsSent
<1>5. /\ agent'.at = "waiting" /\ agent'.turn = agent.turn /\ agent'.output = agent.output
      /\ agent'.units = agent.units /\ agent'.retries = agent.retries /\ agent'.cost = agent.cost
      /\ agent'.calls = agent.calls /\ agent'.seen = agent.seen \union {id}
      /\ agent'.pending = agent.pending /\ agent'.loose = ~strict
  BY <1>1, <1>4 DEF AgentRecord
<1>7. AgentTypes'
  BY <1>4 DEF AgentTypes, AgentRecord, RequestRecord, IntakeRecord
<1>8. PICK k \in Nat : Chunked(k)
  BY DEF UnderWay
<1>9. intake.usage \/ k < Len(wire)
  BY <1>8 DEF Chunked
<1>10. Chunked(k)'
  BY <1>4, <1>5, <1>8, <1>9, FrameAfterChunks DEF Closing
<1>a. wire'[Len(wire')].arg \in CallIds \X BOOLEAN
      /\ wire'[Len(wire')].arg[1] = Head(agent'.pending)
      /\ (wire'[Len(wire')].arg[2] \/ agent'.loose)
  <2>1. \A a : a = <<id, strict>> => a \in CallIds \X BOOLEAN /\ a[1] = id /\ a[2] = strict
    BY <1>i
  <2>2. wire'[Len(wire')].arg = <<id, strict>>
    BY <1>4
  <2>3. QED BY ONLY <2>1, <2>2, <1>5, id = Head(agent.pending), strict \in BOOLEAN
<1>12. Ending'
  BY <1>4, <1>5, <1>n, <1>a DEF Ending, Sent, Closing, SaysTheCall
<1>13. Counted'
  <2>1. CallUnderWay'
    BY <1>4 DEF CallUnderWay, Sent
  <2>2. IsFiniteSet(agent'.seen) /\ Cardinality(agent'.seen) = Cardinality(agent.seen) + 1
        /\ Cardinality(agent.seen) \in Nat
    <3>1. IsFiniteSet(agent.seen)
      BY DEF UnderWay, Counted
    <3>2. QED BY <1>5, <3>1, FS_AddElement, FS_CardinalityType
  <2>3. Len(agent.pending) \in Nat /\ Len(agent.pending) >= 1 /\ agent.calls \in Nat
    BY <1>1 DEF AgentRecord
  <2>4. Cardinality(agent.seen) + Len(agent.pending) <= agent.calls
    BY DEF UnderWay, Counted
  <2>5. QED BY <1>5, <1>n, <2>1, <2>2, <2>3, <2>4 DEF Counted
<1>14. Budgeted' /\ ShownSoFar' /\ Receiving'
  BY <1>5 DEF UnderWay, Budgeted, ShownSoFar, Receiving
<1>15. QED BY <1>4, <1>7, <1>8, <1>10, <1>12, <1>13, <1>14 DEF UnderWay

\* A step of the agent's own, no call of its under way.
LEMMA OwnStep ==
  ASSUME AgentTypes, UnderWay, UNCHANGED <<wire, intake, shown>>,
         agent' \in AgentRecord, request' \in RequestRecord, request'.text = request.text,
         agent'.turn = agent.turn, agent'.output = agent.output, agent'.units = agent.units,
         agent'.retries = agent.retries /\ agent'.cost = agent.cost, agent'.sequence = agent.sequence,
         agent'.withheld = agent.withheld, agent'.loose = agent.loose, agent.at # "ended",
         agent'.at \in {"answered", "calling", "waiting"} =>
             agent.at \in {"answered", "calling", "waiting"},
         agent'.at = "turn" => agent.at = "turn",
         ~CallUnderWay
  PROVE  Numbered' /\ (\E k \in Nat : Chunked(k)') /\ Ending' /\ ShownSoFar' /\ ~CallUnderWay'
<1>1. UNCHANGED <<Sent, Unaccepted, Shown>>
  BY DEF Sent, Unaccepted, Shown
<1>2. Numbered'
  BY <1>1 DEF UnderWay, Numbered
<1>3. PICK k \in Nat : Chunked(k)
  BY DEF UnderWay
<1>4. Chunked(k)'
  BY <1>1, <1>3 DEF Chunked
<1>5. ~CallUnderWay' /\ \A i \in Sent : wire[i].body # "capability_call"
  BY <1>1 DEF CallUnderWay
<1>6. \A i \in Sent : wire[i].body \notin {"final_result", "run_failure"}
  BY DEF UnderWay, Ending
<1>7. ~(intake.final > 0) /\ ~(intake.failure # "none")
  BY DEF UnderWay, Ending
<1>8. Ending'
  BY <1>1, <1>5, <1>6, <1>7 DEF UnderWay, Ending, Closing
<1>9. ShownSoFar'
  BY DEF UnderWay, ShownSoFar
<1>10. QED BY <1>2, <1>4, <1>5, <1>8, <1>9

\* The provider answers in part, or is asked again before it has shown anything.
LEMMA RequestKeeps ==
  ASSUME AgentTypes, Receiving, UnderWay, agent.at = "turn",
         request' \in RequestRecord, request'.text = request.text,
         request'.received \/ request'.text = 0,
         UNCHANGED <<agent, wire, results, intake, shown>>
  PROVE  AgentTypes' /\ UnderWay' /\ Receiving'
<1>1. AgentTypes' /\ Receiving'
  BY DEF AgentTypes, RequestRecord, Receiving, AgentRecord, IntakeRecord
<1>2. agent' \in AgentRecord
  BY DEF AgentTypes, AgentRecord, RequestRecord, IntakeRecord
<1>3. ~CallUnderWay
  BY DEF UnderWay, Ending, CallUnderWay
<1>4. Numbered' /\ (\E k \in Nat : Chunked(k)') /\ Ending' /\ ShownSoFar' /\ ~CallUnderWay'
  BY <1>2, <1>3, OwnStep
<1>5. Counted'
  BY <1>3, <1>4 DEF UnderWay, Counted
<1>6. Budgeted'
  BY DEF UnderWay, Budgeted, RequestRecord
<1>7. QED BY <1>1, <1>4, <1>5, <1>6 DEF UnderWay

\* CountCalls: the calls of the turn fit in the budget of calls.
LEMMA CountingKeeps ==
  ASSUME AgentTypes, Receiving, UnderWay, agent.at = "answered", agent.pending # <<>>,
         NEW count, count = agent.calls + Len(agent.pending), count <= MaxCapabilityCalls,
         agent' = [agent EXCEPT !.at = "calling", !.calls = count],
         UNCHANGED <<request, wire, results, intake, shown>>
  PROVE  AgentTypes' /\ UnderWay' /\ Receiving'
<1>1. agent \in AgentRecord /\ agent.calls \in Nat /\ agent.pending \in Seq(CallIds)
      /\ request \in RequestRecord
  BY DEF AgentTypes, AgentRecord, RequestRecord, IntakeRecord
<1>c. Len(agent.pending) \in Nat /\ count \in Nat
  BY <1>1
<1>2. /\ agent' \in AgentRecord /\ agent'.at = "calling" /\ agent'.calls = count
      /\ agent'.turn = agent.turn /\ agent'.output = agent.output /\ agent'.units = agent.units
      /\ agent'.retries = agent.retries /\ agent'.cost = agent.cost /\ agent'.sequence = agent.sequence
      /\ agent'.withheld = agent.withheld /\ agent'.loose = agent.loose /\ agent'.seen = agent.seen
      /\ agent'.pending = agent.pending
  BY <1>1, <1>c DEF AgentRecord
<1>3. ~CallUnderWay
  BY DEF UnderWay, Ending, CallUnderWay
<1>4. Numbered' /\ (\E k \in Nat : Chunked(k)') /\ Ending' /\ ShownSoFar' /\ ~CallUnderWay'
  BY <1>1, <1>2, <1>3, OwnStep
<1>5. Counted'
  <2>1. Cardinality(agent.seen) \in Nat
    BY FS_CardinalityType DEF UnderWay, Counted
  <2>2. QED BY <1>1, <1>c, <1>2, <1>3, <1>4, <2>1 DEF UnderWay, Counted
<1>6. Budgeted'
  BY <1>2 DEF UnderWay, Budgeted
<1>7. AgentTypes' /\ Receiving'
  BY <1>2 DEF AgentTypes, AgentRecord, Receiving, RequestRecord, IntakeRecord
<1>8. QED BY <1>4, <1>5, <1>6, <1>7 DEF UnderWay

\* ReceiveResult: the call is answered, so that nothing is under way.
LEMMA ResultKeeps ==
  ASSUME AgentTypes, Receiving, UnderWay, ReceiveResult
  PROVE  AgentTypes' /\ UnderWay' /\ Receiving'
<1>0. /\ agent.at = "waiting" /\ results # <<>> /\ results' = Tail(results)
      /\ agent' = [agent EXCEPT !.at = "calling", !.pending = Tail(@)]
      /\ UNCHANGED <<request, wire, intake, shown>>
  BY DEF ReceiveResult
<1>1. agent \in AgentRecord /\ agent.calls \in Nat /\ agent.pending \in Seq(CallIds)
      /\ request \in RequestRecord
  BY <1>0 DEF AgentTypes, AgentRecord, RequestRecord, IntakeRecord
<1>w. agent.pending # <<>> /\ wire = <<>> /\ Len(results) = 1
  BY <1>0 DEF UnderWay, Counted
<1>e. results' = <<>> /\ results' \in Seq(CallIds)
  <2>1. results \in Seq(CallIds)
    BY DEF AgentTypes, AgentRecord, RequestRecord, IntakeRecord
  <2>2. QED BY <1>0, <1>w, <2>1
<1>c. Len(agent.pending) \in Nat /\ Len(Tail(agent.pending)) = Len(agent.pending) - 1
      /\ Tail(agent.pending) \in Seq(CallIds)
  BY <1>1, <1>w
<1>2. /\ agent' \in AgentRecord /\ agent'.at = "calling" /\ agent'.calls = agent.calls
      /\ agent'.turn = agent.turn /\ agent'.output = agent.output /\ agent'.units = agent.units
      /\ agent'.retries = agent.retries /\ agent'.cost = agent.cost /\ agent'.sequence = agent.sequence
      /\ agent'.withheld = agent.withheld /\ agent'.loose = agent.loose /\ agent'.seen = agent.seen
      /\ agent'.pending = Tail(agent.pending)
  BY <1>0, <1>1, <1>c DEF AgentRecord
<1>3. ~CallUnderWay
  BY <1>w DEF CallUnderWay, Sent
<1>4. Numbered' /\ (\E k \in Nat : Chunked(k)') /\ Ending' /\ ShownSoFar' /\ ~CallUnderWay'
  BY <1>0, <1>1, <1>2, <1>3, OwnStep
<1>5. Counted'
  <2>1. Cardinality(agent.seen) \in Nat
    BY FS_CardinalityType DEF UnderWay, Counted
  <2>2. QED BY <1>0, <1>1, <1>c, <1>w, <1>e, <1>2, <1>3, <1>4, <2>1 DEF UnderWay, Counted
<1>6. Budgeted'
  BY <1>0, <1>2 DEF UnderWay, Budgeted
<1>7. AgentTypes' /\ Receiving'
  BY <1>0, <1>2, <1>e DEF AgentTypes, AgentRecord, Receiving, RequestRecord, IntakeRecord
<1>8. QED BY <1>0, <1>4, <1>5, <1>6, <1>7 DEF UnderWay

\* NextTurn: no chunk of it has been shown.
LEMMA TurnKeeps ==
  ASSUME AgentTypes, Receiving, UnderWay, agent.at = "calling", agent.pending = <<>>,
         agent' = [agent EXCEPT !.at = "turn", !.turn = @ + 1], request' = FirstRequest,
         UNCHANGED <<wire, results, intake, shown>>
  PROVE  AgentTypes' /\ UnderWay' /\ Receiving'
<1>1. agent \in AgentRecord /\ agent.turn \in Nat
  BY DEF AgentTypes, AgentRecord, RequestRecord, IntakeRecord
<1>c. agent.turn + 1 \in Nat
  BY <1>1
<1>2. /\ agent' \in AgentRecord /\ agent'.at = "turn" /\ agent'.turn = agent.turn + 1
      /\ agent'.output = agent.output /\ agent'.units = agent.units
      /\ agent'.retries = agent.retries /\ agent'.cost = agent.cost /\ agent'.sequence = agent.sequence
      /\ agent'.withheld = agent.withheld /\ agent'.loose = agent.loose /\ agent'.seen = agent.seen /\ agent'.calls = agent.calls
      /\ agent'.pending = agent.pending
  BY <1>1, <1>c DEF AgentRecord
<1>3. request'.text = 0 /\ request' \in RequestRecord
  BY DEF FirstRequest, RequestRecord
<1>4. wire = <<>> /\ results = <<>> /\ Len(wire) = 0
  BY DEF UnderWay, Counted
<1>5. Numbered'
  BY <1>2, <1>4 DEF UnderWay, Numbered, Sent
<1>6. Shown' = 0
  <2>1. \A i \in DOMAIN shown : shown[i] # [attempt |-> intake.attempt, turn |-> agent.turn + 1]
    <3>1. SUFFICES ASSUME NEW i \in DOMAIN shown, shown[i].attempt = intake.attempt,
                          shown[i].turn = agent.turn + 1
                   PROVE  FALSE
      OBVIOUS
    <3>2. shown[i].turn <= agent.turn
      BY <3>1 DEF UnderWay, ShownSoFar
    <3>3. QED BY <1>1, <3>1, <3>2
  <2>2. Times([attempt |-> intake.attempt, turn |-> agent.turn + 1], shown) = 0
    BY <2>1, NeverShown
  <2>3. QED BY <1>2, <2>2 DEF Shown
<1>7. Chunked(0)'
  <2>1. PICK k \in Nat : Chunked(k)
    BY DEF UnderWay
  <2>2. k = 0 /\ intake.accepted /\ Unaccepted = 0 /\ Unaccepted' = 0
    BY <1>4, <2>1 DEF Chunked, Unaccepted
  <2>o. intake.output \in Nat
    BY DEF AgentTypes, AgentRecord, RequestRecord, IntakeRecord
  <2>3. agent.output = intake.output
    BY <2>1, <2>2, <2>o DEF Chunked
  <2>4. QED BY <1>2, <1>3, <1>4, <1>6, <2>2, <2>3, <2>o DEF Chunked, Sent
<1>8. Ending'
  <2>1. ~(intake.final > 0) /\ ~(intake.failure # "none")
    BY DEF UnderWay, Ending
  <2>2. QED BY <1>4, <2>1 DEF Ending, Sent
<1>9. Counted'
  <2>1. ~CallUnderWay /\ ~CallUnderWay'
    BY <1>4 DEF CallUnderWay, Sent
  <2>2. QED BY <1>2, <1>4, <2>1 DEF UnderWay, Counted
<1>10. Budgeted'
  BY <1>1, <1>2, <1>3 DEF UnderWay, Budgeted, AgentRecord
<1>11. ShownSoFar'
  <2>1. ASSUME NEW i \in DOMAIN shown PROVE shown[i].turn \in Nat
    <3>1. shown \in Seq(Showings)
      BY DEF AgentTypes, AgentRecord, RequestRecord, IntakeRecord
    <3>2. shown[i] \in Showings
      BY <3>1
    <3>3. QED BY <3>2 DEF Showings
  <2>2. QED BY <1>1, <1>2, <2>1 DEF UnderWay, ShownSoFar
<1>12. AgentTypes' /\ Receiving'
  BY <1>2, <1>3 DEF AgentTypes, AgentRecord, RequestRecord, Receiving, IntakeRecord
<1>13. QED BY <1>5, <1>7, <1>8, <1>9, <1>10, <1>11, <1>12 DEF UnderWay

\* What the engine finds when a frame is there.
LEMMA FirstFrame ==
  ASSUME AgentTypes, UnderWay, wire # <<>>
  PROVE  /\ Len(wire) \in Nat /\ Len(wire) >= 1 /\ Head(wire) = wire[1] /\ wire[1] \in Frames
         /\ 1 \in 1 .. Len(wire)
         /\ intake.final = 0 /\ intake.failure = "none" /\ results = <<>>
         /\ wire[1].sequence = intake.expected \/ (agent.withheld /\ Len(wire) = 1)
         /\ (wire[1].body = "run_accepted") # intake.accepted
<1>1. Len(wire) \in Nat /\ Len(wire) >= 1 /\ Head(wire) = wire[1] /\ wire[1] \in Frames
  <2>1. wire \in Seq(Frames)
    BY DEF AgentTypes, AgentRecord, RequestRecord, IntakeRecord
  <2>2. QED BY <2>1
<1>2. 1 \in 1 .. Len(wire)
  BY <1>1
<1>3. intake.final = 0 /\ intake.failure = "none"
  <2>1. intake.final \in Nat
    BY DEF AgentTypes, AgentRecord, RequestRecord, IntakeRecord
  <2>2. ~(intake.final > 0) /\ ~(intake.failure # "none")
    BY DEF UnderWay, Ending
  <2>3. QED BY <2>1, <2>2
<1>4. results = <<>>
  BY DEF UnderWay, Counted
<1>5. wire[1].sequence = intake.expected \/ (agent.withheld /\ Len(wire) = 1)
  <2>1. intake.expected \in Nat
    BY DEF AgentTypes, AgentRecord, RequestRecord, IntakeRecord
  <2>2. wire[1].sequence = intake.expected + 1 - 1 + (IF agent.withheld /\ 1 = Len(wire) THEN 1 ELSE 0)
    BY <1>2 DEF UnderWay, Numbered, Sent
  <2>3. CASE agent.withheld /\ 1 = Len(wire)
    BY <2>1, <2>2, <2>3
  <2>4. CASE ~(agent.withheld /\ 1 = Len(wire))
    <3>1. wire[1].sequence = intake.expected + 1 - 1 + 0
      BY <2>2, <2>4
    <3>2. QED BY <2>1, <3>1
  <2>5. QED BY <2>3, <2>4
<1>6. (wire[1].body = "run_accepted") # intake.accepted
  <2>1. PICK k \in Nat : Chunked(k)
    BY DEF UnderWay
  <2>2. CASE intake.accepted
    <3>1. wire[1].body \in {"output_delta"} \union (Closing \union {"resource_usage"})
      BY <1>2, <2>1, <2>2 DEF Chunked, Sent
    <3>2. QED BY <2>2, <3>1 DEF Closing
  <2>3. CASE ~intake.accepted
    <3>1. 1 <= k
      BY <2>1, <2>3 DEF Chunked, Unaccepted
    <3>2. wire[1].body = "run_accepted"
      BY <1>2, <2>1, <2>3, <3>1 DEF Chunked, Sent
    <3>3. intake.accepted \in BOOLEAN
      BY DEF AgentTypes, AgentRecord, RequestRecord, IntakeRecord
    <3>4. QED BY <2>3, <3>2, <3>3
  <2>4. QED BY <2>2, <2>3
<1>7. QED BY <1>1, <1>2, <1>3, <1>4, <1>5, <1>6

\* What the first frame says, by its body.
LEMMA FirstFrameSays ==
  ASSUME AgentTypes, UnderWay, wire # <<>>, NEW k \in Nat, Chunked(k)
  PROVE  /\ wire[1].body \in {"run_accepted", "output_delta"} <=> k >= 1
         /\ wire[1].body = "output_delta" =>
              intake.output + 1 <= MaxOutputBytes /\ wire[1].arg = agent.turn
         /\ wire[1].body \notin {"run_accepted", "output_delta"} => k = 0 /\ intake.accepted
         /\ wire[1].body \in Closing => Len(wire) = 1
         /\ wire[1].body = "capability_call" =>
              /\ SaysTheCall(wire[1].arg) /\ wire[1].arg[1] \notin intake.seen
              /\ agent.seen = intake.seen \union {wire[1].arg[1]} /\ agent.at = "waiting"
              /\ Cardinality(intake.seen) < MaxCapabilityCalls
         /\ wire[1].body = "final_result" =>
              /\ intake.usage /\ wire[1].arg = request.text /\ request.text > 0
              /\ request.text <= MaxOutputBytes /\ agent.at = "ended"
         /\ wire[1].body = "run_failure" => wire[1].arg \in BOOLEAN /\ agent.at = "ended"
         /\ wire[1].body = "resource_usage" =>
              /\ wire[1].arg = <<IF agent.units = 0 THEN 1 ELSE agent.units, agent.retries, agent.cost>>
              /\ wire[1].arg[1] \in Nat /\ wire[1].arg[2] \in Nat /\ wire[1].arg[3] = agent.cost
              /\ intake.units <= wire[1].arg[1] /\ wire[1].arg[1] <= MaxExecutionUnits
              /\ intake.retries <= wire[1].arg[2] /\ wire[1].arg[2] = agent.retries
<1>1. 1 \in Sent
  BY FirstFrame DEF Sent
<1>2. wire[1].body \in {"run_accepted", "output_delta"} <=> k >= 1
  BY <1>1 DEF Chunked, Closing
<1>3. k <= Len(wire) /\ Unaccepted \in {0, 1} /\ Unaccepted <= k
  BY FirstFrame DEF Chunked, Unaccepted
<1>4. intake.output \in Nat /\ agent.output \in Nat /\ request.text \in Nat
  BY DEF AgentTypes, AgentRecord, RequestRecord, IntakeRecord
<1>b. MaxOutputBytes \in Nat /\ MaxCapabilityCalls \in Nat /\ MaxExecutionUnits \in Nat \ {0}
  BY AgentAssumption
<1>5. ASSUME wire[1].body = "output_delta"
      PROVE  intake.output + 1 <= MaxOutputBytes /\ wire[1].arg = agent.turn
  <2>1. intake.accepted /\ Unaccepted = 0
    BY <1>5, FirstFrame, <1>1, <1>2 DEF Chunked, Unaccepted
  <2>2. wire[1].arg = agent.turn
    BY <1>1, <1>2, <1>5, <2>1 DEF Chunked
  <2>3. agent.output = intake.output + k - 0 /\ k >= 1
    BY <1>2, <1>5, <2>1 DEF Chunked
  <2>4. agent.output <= MaxOutputBytes
    BY DEF UnderWay, Budgeted
  <2>5. QED BY <1>4, <1>b, <2>2, <2>3, <2>4
<1>6. ASSUME wire[1].body \notin {"run_accepted", "output_delta"} PROVE k = 0 /\ intake.accepted
  BY <1>2, <1>3, <1>6 DEF Unaccepted
<1>7. wire[1].body \in Closing => Len(wire) = 1
  BY <1>1 DEF UnderWay, Ending
<1>8. ASSUME wire[1].body = "capability_call"
      PROVE  /\ SaysTheCall(wire[1].arg) /\ wire[1].arg[1] \notin intake.seen
             /\ agent.seen = intake.seen \union {wire[1].arg[1]} /\ agent.at = "waiting"
             /\ Cardinality(intake.seen) < MaxCapabilityCalls
  <2>1. CallUnderWay /\ agent.at = "waiting" /\ SaysTheCall(wire[1].arg)
    BY <1>1, <1>8 DEF UnderWay, Ending, CallUnderWay
  <2>2. wire[1].arg[1] \notin intake.seen /\ agent.seen = intake.seen \union {wire[1].arg[1]}
    BY <2>1 DEF UnderWay, Counted, SaysTheCall
  <2>3. IsFiniteSet(agent.seen)
    BY DEF UnderWay, Counted
  <2>4. IsFiniteSet(intake.seen)
    BY <2>2, <2>3, FS_Subset
  <2>5. Cardinality(agent.seen) = Cardinality(intake.seen) + 1 /\ Cardinality(intake.seen) \in Nat
    BY <2>2, <2>4, FS_AddElement, FS_CardinalityType
  <2>6. Cardinality(agent.seen) <= agent.calls /\ agent.calls <= MaxCapabilityCalls /\ agent.calls \in Nat
    BY DEF UnderWay, Counted, Budgeted, AgentTypes, AgentRecord, RequestRecord, IntakeRecord
  <2>7. QED BY <1>b, <2>1, <2>2, <2>5, <2>6
<1>9. ASSUME wire[1].body = "final_result"
      PROVE  /\ intake.usage /\ wire[1].arg = request.text /\ request.text > 0
             /\ request.text <= MaxOutputBytes /\ agent.at = "ended"
  <2>1. intake.usage
    BY <1>1, <1>6, <1>9 DEF Chunked
  <2>2. wire[1].arg = request.text /\ request.text > 0 /\ agent.at = "ended"
    BY <1>1, <1>9 DEF UnderWay, Ending
  <2>3. request.text <= agent.output /\ agent.output <= MaxOutputBytes
    BY DEF UnderWay, Budgeted
  <2>4. QED BY <1>4, <1>b, <2>1, <2>2, <2>3
<1>10. wire[1].body = "run_failure" => wire[1].arg \in BOOLEAN /\ agent.at = "ended"
  BY <1>1 DEF UnderWay, Ending
<1>11. ASSUME wire[1].body = "resource_usage"
       PROVE  /\ wire[1].arg = <<IF agent.units = 0 THEN 1 ELSE agent.units, agent.retries, agent.cost>>
              /\ wire[1].arg[1] \in Nat /\ wire[1].arg[2] \in Nat /\ wire[1].arg[3] = agent.cost
              /\ intake.units <= wire[1].arg[1] /\ wire[1].arg[1] <= MaxExecutionUnits
              /\ intake.retries <= wire[1].arg[2] /\ wire[1].arg[2] = agent.retries
  <2>1. wire[1].arg = <<IF agent.units = 0 THEN 1 ELSE agent.units, agent.retries, agent.cost>>
    BY <1>1, <1>11 DEF UnderWay, Ending
  <2>2. agent.units \in Nat /\ agent.retries \in Nat /\ agent.cost \in Nat
    BY DEF AgentTypes, AgentRecord, RequestRecord, IntakeRecord
  <2>3. /\ agent.units <= MaxExecutionUnits /\ intake.retries <= agent.retries
        /\ intake.units <= IF agent.units = 0 THEN 1 ELSE agent.units
    BY DEF UnderWay, Budgeted
  <2>4. QED BY <1>b, <2>1, <2>2, <2>3
<1>12. QED BY <1>2, <1>5, <1>6, <1>7, <1>8, <1>9, <1>10, <1>11

\* What the engine may refuse a frame for: it follows a withheld one, its arguments are JSON to
\* the agent alone, or its cost is above the protocol's bound in a Run without a budget for it.
Excused(refused) ==
    \/ refused = "sequence" /\ agent.withheld
    \/ refused = "arguments" /\ agent.loose
    \/ refused = "usage" /\ MaxCostMicrousd = 0 /\ agent.cost > CostBound

\* The heart of it: the engine refuses no other frame.
LEMMA RefusedIsExcused ==
  ASSUME AgentTypes, UnderWay, agent.retries <= RetriesBound,
         wire # <<>>, Refusal(Head(wire)) # "none"
  PROVE  Excused(Refusal(Head(wire)))
<1>1. PICK k \in Nat : Chunked(k)
  BY DEF UnderWay
<1>2. PICK f : f = wire[1]
  OBVIOUS
<1>3. /\ Head(wire) = f /\ ~(intake.final > 0 \/ intake.failure # "none")
      /\ f.sequence # intake.expected => agent.withheld
      /\ (f.body = "run_accepted") # intake.accepted
  BY <1>2, FirstFrame
<1>4. CASE f.sequence # intake.expected
  <2>0. ~(intake.final > 0 \/ intake.failure # "none")
    BY <1>3
  <2>1. Refusal(f) = "sequence"
    BY ONLY <2>0, <1>4 DEF Refusal
  <2>2. QED BY <1>3, <1>4, <2>1 DEF Excused
<1>5. CASE f.sequence = intake.expected /\ f.body = "capability_call"
  <2>1. /\ SaysTheCall(f.arg) /\ f.arg[1] \notin intake.seen
        /\ Cardinality(intake.seen) < MaxCapabilityCalls
    BY <1>1, <1>2, <1>5, FirstFrameSays
  <2>2. IsFiniteSet(intake.seen)
    <3>1. IsFiniteSet(agent.seen) /\ intake.seen \subseteq agent.seen
      BY DEF UnderWay, Counted
    <3>2. QED BY <3>1, FS_Subset
  <2>3. Cardinality(intake.seen) \in Nat /\ MaxCapabilityCalls \in Nat
    BY <2>2, FS_CardinalityType, AgentAssumption
  <2>4. ~(Cardinality(intake.seen) >= MaxCapabilityCalls)
    BY <2>1, <2>3
  <2>5. Refusal(f) = IF ~f.arg[2] THEN "arguments" ELSE "none"
    BY <1>3, <1>5, <2>1, <2>4 DEF Refusal
  <2>6. QED BY <1>3, <2>1, <2>5 DEF SaysTheCall, Excused
<1>6. CASE f.sequence = intake.expected /\ f.body = "resource_usage"
  <2>1. /\ f.arg[1] \in Nat /\ f.arg[2] \in Nat /\ f.arg[3] = agent.cost
        /\ intake.units <= f.arg[1] /\ f.arg[1] <= MaxExecutionUnits
        /\ intake.retries <= f.arg[2] /\ f.arg[2] = agent.retries
    BY <1>1, <1>2, <1>6, FirstFrameSays
  <2>2. /\ intake.units \in Nat /\ intake.retries \in Nat /\ intake.cost \in Nat
        /\ agent.cost \in Nat
    BY DEF AgentTypes, AgentRecord, RequestRecord, IntakeRecord
  <2>3. /\ MaxExecutionUnits \in Nat /\ RetriesBound \in Nat /\ CostBound \in Nat
        /\ MaxCostMicrousd \in Nat /\ MaxCostMicrousd <= CostBound
    BY AgentAssumption
  <2>4. intake.cost <= agent.cost /\ (MaxCostMicrousd = 0 \/ agent.cost <= MaxCostMicrousd)
    BY DEF UnderWay, Budgeted
  <2>5. ~(\/ f.arg[1] < intake.units \/ f.arg[1] > MaxExecutionUnits
          \/ f.arg[2] < intake.retries \/ f.arg[2] > RetriesBound
          \/ f.arg[3] < intake.cost
          \/ MaxCostMicrousd > 0 /\ f.arg[3] > MaxCostMicrousd)
    BY <2>1, <2>2, <2>3, <2>4
  <2>6. Refusal(f) = IF f.arg[3] > CostBound THEN "usage" ELSE "none"
    BY <1>3, <1>6, <2>5 DEF Refusal
  <2>7. f.arg[3] > CostBound => MaxCostMicrousd = 0
    BY <2>1, <2>2, <2>3, <2>4
  <2>8. QED BY <1>3, <2>1, <2>6, <2>7 DEF Excused
<1>7. CASE f.sequence = intake.expected /\ f.body \notin {"capability_call", "resource_usage"}
  <2>1. intake.output \in Nat /\ request.text \in Nat /\ MaxOutputBytes \in Nat
    BY AgentAssumption DEF AgentTypes, AgentRecord, RequestRecord, IntakeRecord
  <2>2. ~(f.body = "final_result" /\ ~intake.usage)
    BY <1>1, <1>2, FirstFrameSays
  <2>3. ~(f.body = "output_delta" /\ intake.output + 1 > MaxOutputBytes)
    <3>1. f.body = "output_delta" => intake.output + 1 <= MaxOutputBytes
      BY <1>1, <1>2, FirstFrameSays
    <3>2. QED BY <2>1, <3>1
  <2>4. ~(f.body = "final_result" /\ f.arg > MaxOutputBytes)
    <3>1. f.body = "final_result" => f.arg = request.text /\ request.text <= MaxOutputBytes
      BY <1>1, <1>2, FirstFrameSays
    <3>2. QED BY <2>1, <3>1
  <2>5. Refusal(f) = "none"
    BY <1>3, <1>7, <2>2, <2>3, <2>4 DEF Refusal
  <2>6. QED BY <1>3, <2>5
<1>8. QED BY <1>4, <1>5, <1>6, <1>7

\* A frame that is taken was in sequence, and those behind it move up.
LEMMA FramesMoveUp ==
  ASSUME AgentTypes, UnderWay, wire # <<>>, Refusal(Head(wire)) = "none", wire' = Tail(wire),
         intake'.expected = intake.expected + 1, UNCHANGED agent
  PROVE  /\ wire' \in Seq(Frames) /\ Len(wire') = Len(wire) - 1 /\ Len(wire) \in Nat
         /\ \A i \in 1 .. Len(wire') : wire'[i] = wire[i + 1] /\ i + 1 \in 1 .. Len(wire)
         /\ Numbered'
<1>1. /\ wire' \in Seq(Frames) /\ Len(wire) \in Nat /\ Len(wire) >= 1 /\ Len(wire') = Len(wire) - 1
      /\ \A i \in 1 .. Len(wire') : wire'[i] = wire[i + 1]
  BY Taking DEF AgentTypes, AgentRecord, RequestRecord, IntakeRecord
<1>2. \A i \in 1 .. Len(wire') : i + 1 \in 1 .. Len(wire)
  BY <1>1
<1>3. intake.expected \in Nat /\ agent.sequence \in Nat
  BY DEF AgentTypes, AgentRecord, RequestRecord, IntakeRecord
<1>4. Numbered'
  <2>1. ASSUME NEW i \in 1 .. Len(wire')
        PROVE  wire'[i].sequence = intake'.expected + i - 1
                                   + (IF agent.withheld /\ i = Len(wire') THEN 1 ELSE 0)
    <3>1. wire'[i].sequence = intake.expected + (i + 1) - 1
                              + (IF agent.withheld /\ i + 1 = Len(wire) THEN 1 ELSE 0)
      BY <1>1, <1>2 DEF UnderWay, Numbered, Sent
    <3>2. i = Len(wire') <=> i + 1 = Len(wire)
      BY <1>1
    <3>3. QED BY <1>3, <3>1, <3>2
  <2>2. agent.sequence = intake'.expected + Len(wire') - 1 + (IF agent.withheld THEN 1 ELSE 0)
    <3>1. agent.sequence = intake.expected + Len(wire) - 1 + (IF agent.withheld THEN 1 ELSE 0)
      BY DEF UnderWay, Numbered
    <3>2. intake'.expected + Len(wire') - 1 = intake.expected + Len(wire) - 1
      BY <1>1, <1>3
    <3>3. QED BY <3>1, <3>2
  <2>3. agent.withheld => agent.at = "ended"
    BY DEF UnderWay, Numbered
  <2>4. QED BY <2>1, <2>2, <2>3 DEF Numbered, Sent
<1>5. QED BY <1>1, <1>2, <1>4

\* Taking the acceptance or a chunk leaves one of the first k frames less ...
LEMMA ChunksMoveUp ==
  ASSUME AgentTypes, UnderWay, wire # <<>>, wire[1].body \in {"run_accepted", "output_delta"},
         Len(wire) \in Nat, Len(wire') = Len(wire) - 1,
         \A i \in 1 .. Len(wire') : wire'[i] = wire[i + 1] /\ i + 1 \in 1 .. Len(wire),
         intake'.accepted, intake'.usage = intake.usage,
         intake'.output = intake.output + 1 - Unaccepted, Shown' = Shown + 1 - Unaccepted,
         UNCHANGED <<request, agent>>
  PROVE  \E k \in Nat : Chunked(k)'
<1>1. PICK k \in Nat : Chunked(k)
  BY DEF UnderWay
<1>2. k >= 1
  BY <1>1, FirstFrameSays
<1>3. Unaccepted \in {0, 1} /\ Unaccepted' = 0
  BY DEF Unaccepted
<1>t. intake.output \in Nat /\ Shown \in Nat
  BY TimesIsNat DEF AgentTypes, Shown, AgentRecord, RequestRecord, IntakeRecord
<1>4. k - 1 \in Nat /\ k - 1 \in Unaccepted' .. Len(wire')
  BY <1>1, <1>2, <1>3 DEF Chunked
<1>5. ASSUME NEW i \in 1 .. Len(wire'), i <= k - 1
      PROVE  wire'[i].body = "output_delta" /\ wire'[i].arg = agent'.turn
  <2>1. i + 1 \in Sent /\ i + 1 <= k /\ i + 1 # 1
    BY <1>5 DEF Sent
  <2>2. wire[i + 1].body = "output_delta" /\ wire[i + 1].arg = agent.turn
    BY <1>1, <2>1 DEF Chunked
  <2>3. QED BY <2>2
<1>6. ASSUME NEW i \in 1 .. Len(wire'), i > k - 1
      PROVE  wire'[i].body \in Closing \union {"resource_usage"}
  <2>1. i + 1 \in Sent /\ i + 1 > k
    BY <1>6 DEF Sent
  <2>2. QED BY <1>1, <2>1 DEF Chunked
<1>7. ASSUME NEW i \in 1 .. Len(wire')
      PROVE  /\ wire'[i].body = "resource_usage" => i = (k - 1) + 1
             /\ wire'[i].body \in {"capability_call", "final_result"} =>
                  intake'.usage \/ i > (k - 1) + 1
  <2>1. i + 1 \in Sent
    BY DEF Sent
  <2>2. /\ wire'[i].body = "resource_usage" => i + 1 = k + 1
        /\ wire'[i].body \in {"capability_call", "final_result"} => intake.usage \/ i + 1 > k + 1
    BY <1>1, <2>1 DEF Chunked
  <2>3. QED BY <2>2
<1>8. /\ agent'.at = "turn" => k - 1 = Len(wire')
      /\ agent'.at \in {"answered", "calling", "waiting"} => intake'.usage \/ k - 1 < Len(wire')
  BY <1>1 DEF Chunked
<1>9. agent'.output = intake'.output + (k - 1) - Unaccepted'
  BY <1>1, <1>3, <1>t DEF Chunked
<1>10. request'.text = Shown' + (k - 1) - Unaccepted'
  BY <1>1, <1>3, <1>t DEF Chunked
<1>11. Chunked(k - 1)'
  BY <1>4, <1>5, <1>6, <1>7, <1>8, <1>9, <1>10 DEF Chunked, Sent
<1>12. QED BY <1>4, <1>11

\* ... and any other frame was taken with none of them left.
LEMMA RestMovesUp ==
  ASSUME AgentTypes, UnderWay, wire # <<>>, wire[1].body \notin {"run_accepted", "output_delta"},
         Len(wire) \in Nat, Len(wire') = Len(wire) - 1,
         \A i \in 1 .. Len(wire') : wire'[i] = wire[i + 1] /\ i + 1 \in 1 .. Len(wire),
         intake'.accepted = intake.accepted,
         intake'.usage = (intake.usage \/ wire[1].body = "resource_usage"),
         intake'.output = intake.output, intake'.attempt = intake.attempt,
         UNCHANGED <<request, agent, shown>>
  PROVE  \E k \in Nat : Chunked(k)'
<1>1. PICK k \in Nat : Chunked(k)
  BY DEF UnderWay
<1>2. k = 0 /\ intake.accepted /\ 1 \in Sent
  BY <1>1, FirstFrame, FirstFrameSays DEF Sent
<1>3. Unaccepted = 0 /\ Unaccepted' = 0 /\ Shown' = Shown /\ Len(wire') \in Nat
  BY <1>2, FirstFrame DEF Unaccepted, Shown
<1>4. ASSUME NEW i \in 1 .. Len(wire')
      PROVE  wire'[i].body \in Closing
  <2>1. i + 1 \in Sent /\ i + 1 > k /\ i + 1 # k + 1
    BY <1>2 DEF Sent
  <2>2. QED BY <1>1, <2>1 DEF Chunked
<1>5. wire[1].body \in Closing \union {"resource_usage"}
  BY <1>1, <1>2 DEF Chunked
<1>6. wire[1].body \in Closing => Len(wire) = 1
  BY <1>1, FirstFrameSays
<1>7. intake'.usage \/ wire[1].body = "run_failure"
  <2>1. wire[1].body \in {"capability_call", "final_result"} => intake.usage
    BY <1>1, <1>2 DEF Chunked
  <2>2. QED BY <1>5, <2>1 DEF Closing
<1>8. wire[1].body = "run_failure" => agent.at = "ended" /\ Len(wire') = 0
  BY <1>1, <1>6, FirstFrameSays DEF Closing
<1>9. agent'.at # "turn" \/ Len(wire') = 0
  BY <1>1, <1>2 DEF Chunked
<1>10. agent.output = intake.output + 0 - 0 /\ request.text = Shown + 0 - 0
  BY <1>1, <1>2, <1>3 DEF Chunked
<1>11. Chunked(0)'
  BY <1>3, <1>4, <1>7, <1>8, <1>9, <1>10 DEF Chunked, Sent, Closing
<1>12. QED BY <1>11

\* What closes a turn stays the last frame under way.
LEMMA EndMovesUp ==
  ASSUME AgentTypes, UnderWay, wire # <<>>,
         Len(wire) \in Nat, Len(wire') = Len(wire) - 1,
         \A i \in 1 .. Len(wire') : wire'[i] = wire[i + 1] /\ i + 1 \in 1 .. Len(wire),
         intake'.final = intake.final, intake'.failure = intake.failure,
         UNCHANGED <<request, agent>>
  PROVE  Ending'
<1>1. ASSUME NEW i \in 1 .. Len(wire')
      PROVE  /\ wire'[i].body \in Closing => i = Len(wire')
             /\ wire'[i].body = "capability_call" => agent.at = "waiting" /\ SaysTheCall(wire'[i].arg)
             /\ wire'[i].body \in {"final_result", "run_failure"} => agent.at = "ended"
             /\ wire'[i].body = "final_result" => wire'[i].arg = request.text /\ request.text > 0
             /\ wire'[i].body = "run_failure" => wire'[i].arg \in BOOLEAN
             /\ wire'[i].body = "resource_usage" =>
                  wire'[i].arg = <<IF agent.units = 0 THEN 1 ELSE agent.units, agent.retries, agent.cost>>
  <2>1. i + 1 \in Sent /\ wire'[i] = wire[i + 1] /\ (i + 1 = Len(wire) => i = Len(wire'))
    BY DEF Sent
  <2>2. QED BY <2>1 DEF UnderWay, Ending
<1>2. ~(intake.final > 0) /\ ~(intake.failure # "none")
  BY DEF UnderWay, Ending
<1>3. QED BY <1>1, <1>2 DEF Ending, Sent, SaysTheCall

\* Taking a frame that is no call leaves the calls as they are.
LEMMA CallsMoveUp ==
  ASSUME AgentTypes, UnderWay, wire # <<>>, wire[1].body # "capability_call",
         Len(wire) \in Nat, Len(wire') = Len(wire) - 1,
         \A i \in 1 .. Len(wire') : wire'[i] = wire[i + 1] /\ i + 1 \in 1 .. Len(wire),
         intake'.seen = intake.seen, UNCHANGED <<agent, results>>
  PROVE  Counted'
<1>1. CallUnderWay <=> CallUnderWay'
  <2>1. ASSUME CallUnderWay PROVE CallUnderWay'
    <3>1. PICK i \in 1 .. Len(wire) : wire[i].body = "capability_call"
      BY <2>1 DEF CallUnderWay, Sent
    <3>2. i - 1 \in 1 .. Len(wire') /\ (i - 1) + 1 = i
      BY <3>1
    <3>3. wire'[i - 1].body = "capability_call"
      BY <3>1, <3>2
    <3>4. QED BY <3>2, <3>3 DEF CallUnderWay, Sent
  <2>2. ASSUME CallUnderWay' PROVE CallUnderWay
    BY <2>2 DEF CallUnderWay, Sent
  <2>3. QED BY <2>1, <2>2
<1>2. results = <<>> /\ ~(agent.at = "calling" /\ agent.pending = <<>>)
  BY DEF UnderWay, Counted
<1>3. QED BY <1>1, <1>2 DEF UnderWay, Counted

\* The acceptance is the first frame, and the engine waits for it.
LEMMA AcceptanceKeeps ==
  ASSUME AgentTypes, Receiving, UnderWay, TakeRunAccepted
  PROVE  AgentTypes' /\ UnderWay' /\ Receiving'
<1>0. /\ wire # <<>> /\ Head(wire).body = "run_accepted" /\ Refusal(Head(wire)) = "none"
      /\ wire' = Tail(wire) /\ UNCHANGED <<request, agent, results, shown>>
      /\ intake' = [intake EXCEPT !.expected = @ + 1, !.accepted = TRUE]
  BY DEF TakeRunAccepted, TakeFrame, Taken, AgentTypes, AgentRecord, RequestRecord, IntakeRecord
<1>1. intake \in IntakeRecord
  BY DEF AgentTypes, IntakeRecord, AgentRecord, RequestRecord
<1>e. intake.expected + 1 \in Nat
  <2>1. intake.expected \in Nat
    BY <1>1 DEF IntakeRecord
  <2>2. QED BY <2>1
<1>2. /\ intake' \in IntakeRecord /\ intake'.refused = intake.refused
      /\ intake'.expected = intake.expected + 1 /\ intake'.accepted
      /\ intake'.at = intake.at /\ intake'.attempt = intake.attempt /\ intake'.seen = intake.seen
      /\ intake'.output = intake.output /\ intake'.units = intake.units
      /\ intake'.retries = intake.retries /\ intake'.cost = intake.cost /\ intake'.usage = intake.usage
      /\ intake'.final = intake.final /\ intake'.failure = intake.failure
  BY <1>0, <1>1, <1>e DEF IntakeRecord
<1>3. /\ wire' \in Seq(Frames) /\ Len(wire') = Len(wire) - 1 /\ Len(wire) \in Nat
      /\ \A i \in 1 .. Len(wire') : wire'[i] = wire[i + 1] /\ i + 1 \in 1 .. Len(wire)
      /\ Numbered'
  BY <1>0, <1>2, FramesMoveUp
<1>4. Head(wire) = wire[1] /\ 1 \in 1 .. Len(wire) /\ intake.final = 0 /\ intake.failure = "none"
      /\ results = <<>> /\ (wire[1].body = "run_accepted") # intake.accepted
  BY <1>0, FirstFrame
<1>5. Unaccepted = 1
  BY <1>0, <1>4 DEF Unaccepted
<1>6. intake.output \in Nat /\ Shown \in Nat /\ Shown' = Shown
  BY <1>0, <1>2, TimesIsNat DEF AgentTypes, Shown, AgentRecord, RequestRecord, IntakeRecord
<1>7. intake'.output = intake.output + 1 - Unaccepted /\ Shown' = Shown + 1 - Unaccepted
  BY <1>2, <1>5, <1>6
<1>8. \E k \in Nat : Chunked(k)'
  BY <1>0, <1>2, <1>3, <1>4, <1>7, ChunksMoveUp
<1>9. Ending' /\ Counted'
  BY <1>0, <1>2, <1>3, <1>4, EndMovesUp, CallsMoveUp
<1>10. Budgeted' /\ ShownSoFar'
  BY <1>0, <1>2 DEF UnderWay, Budgeted, ShownSoFar
<1>11. AgentTypes' /\ Receiving'
  BY <1>0, <1>2, <1>3 DEF AgentTypes, IntakeRecord, Receiving, AgentRecord, RequestRecord
<1>12. QED BY <1>2, <1>3, <1>8, <1>9, <1>10, <1>11 DEF UnderWay

\* A chunk taken is shown and counted, once.
LEMMA DeltaKeeps ==
  ASSUME AgentTypes, Receiving, UnderWay, TakeOutputDelta
  PROVE  AgentTypes' /\ UnderWay' /\ Receiving'
<1>0. /\ wire # <<>> /\ Head(wire).body = "output_delta" /\ Refusal(Head(wire)) = "none"
      /\ wire' = Tail(wire) /\ UNCHANGED <<request, agent>>
  BY DEF TakeOutputDelta, TakeFrame
<1>1. intake \in IntakeRecord
  BY DEF AgentTypes, IntakeRecord, AgentRecord, RequestRecord
<1>e. intake.expected + 1 \in Nat /\ intake.output + 1 \in Nat
  <2>1. intake.expected \in Nat /\ intake.output \in Nat
    BY <1>1 DEF IntakeRecord
  <2>2. QED BY <2>1
<1>4. Head(wire) = wire[1] /\ 1 \in 1 .. Len(wire) /\ wire[1] \in Frames
      /\ intake.final = 0 /\ intake.failure = "none" /\ results = <<>>
      /\ (wire[1].body = "run_accepted") # intake.accepted
  BY <1>0, FirstFrame
<1>k. PICK k \in Nat : Chunked(k)
  BY DEF UnderWay
<1>a. intake.accepted /\ agent.turn \in Nat /\ wire[1].arg = agent.turn
  <2>1. intake.accepted
    BY <1>0, <1>1, <1>4 DEF IntakeRecord
  <2>2. wire[1].arg = agent.turn
    BY <1>0, <1>4, <1>k, FirstFrameSays
  <2>3. agent.turn \in Nat
    BY DEF AgentTypes, AgentRecord, RequestRecord, IntakeRecord
  <2>4. QED BY <2>1, <2>2, <2>3
<1> DEFINE new == [attempt |-> intake.attempt, turn |-> agent.turn]
<1>s. /\ intake' = [intake EXCEPT !.expected = @ + 1, !.output = @ + 1]
      /\ shown' = Append(shown, new) /\ results' = results
  BY <1>4, <1>a, <1>1 DEF TakeOutputDelta, Taken, IntakeRecord
<1>2. /\ intake' \in IntakeRecord /\ intake'.refused = intake.refused
      /\ intake'.expected = intake.expected + 1
      /\ intake'.accepted = intake.accepted
      /\ intake'.at = intake.at /\ intake'.attempt = intake.attempt /\ intake'.seen = intake.seen
      /\ intake'.output = intake.output + 1 /\ intake'.units = intake.units
      /\ intake'.retries = intake.retries /\ intake'.cost = intake.cost /\ intake'.usage = intake.usage
      /\ intake'.final = intake.final /\ intake'.failure = intake.failure
  BY <1>1, <1>e, <1>s DEF IntakeRecord
<1>3. /\ wire' \in Seq(Frames) /\ Len(wire') = Len(wire) - 1 /\ Len(wire) \in Nat
      /\ \A i \in 1 .. Len(wire') : wire'[i] = wire[i + 1] /\ i + 1 \in 1 .. Len(wire)
      /\ Numbered'
  BY <1>0, <1>2, FramesMoveUp
<1>n. new \in Showings /\ shown \in Seq(Showings)
  BY <1>1, <1>a DEF Showings, IntakeRecord, AgentTypes, AgentRecord, RequestRecord
<1>5. Unaccepted = 0
  BY <1>a DEF Unaccepted
<1>6. Shown' = Shown + 1 /\ Shown \in Nat /\ shown' \in Seq(Showings)
  <2>1. Times(new, Append(shown, new)) = Times(new, shown) + 1
    BY <1>n, TimesAppended
  <2>2. Shown' = Times(new, shown') /\ Shown = Times(new, shown)
    BY <1>0, <1>2 DEF Shown
  <2>3. Shown \in Nat
    BY <1>n, TimesIsNat DEF Shown
  <2>4. shown' \in Seq(Showings)
    BY <1>n, <1>s
  <2>5. QED BY <1>s, <2>1, <2>2, <2>3, <2>4
<1>7. intake'.output = intake.output + 1 - Unaccepted /\ Shown' = Shown + 1 - Unaccepted
  <2>1. intake.output \in Nat
    BY <1>1 DEF IntakeRecord
  <2>2. QED BY <1>2, <1>5, <1>6, <2>1
<1>8. \E j \in Nat : Chunked(j)'
  BY <1>0, <1>2, <1>3, <1>4, <1>7, <1>a, ChunksMoveUp
<1>9. Ending' /\ Counted'
  BY <1>0, <1>2, <1>3, <1>4, <1>s, EndMovesUp, CallsMoveUp
<1>10. Budgeted'
  BY <1>0, <1>2 DEF UnderWay, Budgeted
<1>11. ShownSoFar'
  <2>1. DOMAIN shown' = 1 .. Len(shown) + 1 /\ Len(shown) \in Nat
        /\ shown'[Len(shown) + 1] = new /\ \A i \in 1 .. Len(shown) : shown'[i] = shown[i]
    BY <1>n, <1>s
  <2>2. DOMAIN shown = 1 .. Len(shown)
    BY <1>n
  <2>3. ASSUME NEW i \in DOMAIN shown'
        PROVE  /\ shown'[i].attempt <= intake.attempt
               /\ shown'[i].attempt = intake.attempt => shown'[i].turn <= agent.turn
    <3>1. CASE i \in 1 .. Len(shown)
      BY <2>1, <2>2, <3>1 DEF UnderWay, ShownSoFar
    <3>2. CASE i = Len(shown) + 1
      <4>1. intake.attempt \in Nat /\ shown'[i] = new
        BY <1>1, <2>1, <3>2 DEF IntakeRecord
      <4>2. QED BY <1>a, <4>1
    <3>3. QED BY <2>1, <3>1, <3>2
  <2>4. QED BY <1>0, <1>2, <2>3 DEF ShownSoFar
<1>12. AgentTypes' /\ Receiving'
  BY <1>0, <1>2, <1>3, <1>6, <1>s DEF AgentTypes, IntakeRecord, Receiving, AgentRecord, RequestRecord
<1>13. QED BY <1>2, <1>3, <1>8, <1>9, <1>10, <1>11, <1>12 DEF UnderWay

\* Usage reported never goes down, and stays within the budget.
LEMMA UsageTakenKeeps ==
  ASSUME AgentTypes, Receiving, UnderWay, TakeResourceUsage
  PROVE  AgentTypes' /\ UnderWay' /\ Receiving'
<1>0. /\ wire # <<>> /\ Head(wire).body = "resource_usage" /\ Refusal(Head(wire)) = "none"
      /\ wire' = Tail(wire) /\ UNCHANGED <<request, agent>>
  BY DEF TakeResourceUsage, TakeFrame
<1>1. intake \in IntakeRecord
  BY DEF AgentTypes, IntakeRecord, AgentRecord, RequestRecord
<1>e. intake.expected + 1 \in Nat /\ intake.output + 1 \in Nat
  <2>1. intake.expected \in Nat /\ intake.output \in Nat
    BY <1>1 DEF IntakeRecord
  <2>2. QED BY <2>1
<1>4. Head(wire) = wire[1] /\ 1 \in 1 .. Len(wire) /\ wire[1] \in Frames
      /\ intake.final = 0 /\ intake.failure = "none" /\ results = <<>>
      /\ (wire[1].body = "run_accepted") # intake.accepted
  BY <1>0, FirstFrame
<1>k. PICK k \in Nat : Chunked(k)
  BY DEF UnderWay
<1>a. intake.accepted
  BY <1>0, <1>4, <1>k, FirstFrameSays
<1>b. PICK u \in Nat, r \in Nat, c \in Nat :
        u = wire[1].arg[1] /\ r = wire[1].arg[2] /\ c = wire[1].arg[3]
  <2>1. agent.cost \in Nat
    BY DEF AgentTypes, AgentRecord, RequestRecord, IntakeRecord
  <2>2. QED BY <1>0, <1>4, <1>k, <2>1, FirstFrameSays
<1>c. u = (IF agent.units = 0 THEN 1 ELSE agent.units) /\ r = agent.retries /\ c = agent.cost
  BY <1>0, <1>4, <1>k, <1>b, FirstFrameSays
<1>s. /\ intake' = [intake EXCEPT !.expected = @ + 1, !.units = u, !.retries = r, !.cost = c,
                                  !.usage = TRUE]
      /\ shown' = shown /\ results' = results
  BY <1>1, <1>4, <1>b DEF TakeResourceUsage, Taken, IntakeRecord
<1>2. /\ intake' \in IntakeRecord /\ intake'.refused = intake.refused
      /\ intake'.expected = intake.expected + 1
      /\ intake'.accepted = intake.accepted
      /\ intake'.at = intake.at /\ intake'.attempt = intake.attempt /\ intake'.seen = intake.seen
      /\ intake'.output = intake.output /\ intake'.units = u
      /\ intake'.retries = r /\ intake'.cost = c /\ intake'.usage = TRUE
      /\ intake'.final = intake.final /\ intake'.failure = intake.failure
  BY <1>1, <1>e, <1>s DEF IntakeRecord
<1>3. /\ wire' \in Seq(Frames) /\ Len(wire') = Len(wire) - 1 /\ Len(wire) \in Nat
      /\ \A i \in 1 .. Len(wire') : wire'[i] = wire[i + 1] /\ i + 1 \in 1 .. Len(wire)
      /\ Numbered'
  BY <1>0, <1>2, FramesMoveUp
<1>8. \E j \in Nat : Chunked(j)'
  BY <1>0, <1>2, <1>3, <1>4, <1>s, RestMovesUp
<1>9. Ending' /\ Counted'
  BY <1>0, <1>2, <1>3, <1>4, <1>s, EndMovesUp, CallsMoveUp
<1>10. Budgeted' /\ ShownSoFar'
  <2>1. agent.units \in Nat /\ agent.retries \in Nat /\ agent.cost \in Nat
    BY DEF AgentTypes, AgentRecord, RequestRecord, IntakeRecord
  <2>2. QED BY <1>0, <1>2, <1>c, <1>s, <2>1 DEF UnderWay, Budgeted, ShownSoFar
<1>12. AgentTypes' /\ Receiving'
  BY <1>0, <1>2, <1>3, <1>s DEF AgentTypes, IntakeRecord, Receiving, AgentRecord, RequestRecord
<1>13. QED BY <1>2, <1>3, <1>8, <1>9, <1>10, <1>12 DEF UnderWay

\* A call taken is answered in the same step: its id is seen by both sides.
LEMMA CallTakenKeeps ==
  ASSUME AgentTypes, Receiving, UnderWay, NEW safe \in BOOLEAN, TakeCapabilityCall(safe)
  PROVE  AgentTypes' /\ UnderWay' /\ Receiving'
<1>0. /\ wire # <<>> /\ Head(wire).body = "capability_call" /\ Refusal(Head(wire)) = "none"
      /\ wire' = Tail(wire) /\ UNCHANGED <<request, agent>>
  BY DEF TakeCapabilityCall, TakeFrame
<1>1. intake \in IntakeRecord
  BY DEF AgentTypes, IntakeRecord, AgentRecord, RequestRecord
<1>e. intake.expected + 1 \in Nat /\ intake.output + 1 \in Nat
  <2>1. intake.expected \in Nat /\ intake.output \in Nat
    BY <1>1 DEF IntakeRecord
  <2>2. QED BY <2>1
<1>4. Head(wire) = wire[1] /\ 1 \in 1 .. Len(wire) /\ wire[1] \in Frames
      /\ intake.final = 0 /\ intake.failure = "none" /\ results = <<>>
      /\ (wire[1].body = "run_accepted") # intake.accepted
  BY <1>0, FirstFrame
<1>k. PICK k \in Nat : Chunked(k)
  BY DEF UnderWay
<1>a. intake.accepted /\ Len(wire) = 1
  BY <1>0, <1>4, <1>k, FirstFrameSays DEF Closing
<1>b. /\ wire[1].arg[1] = Head(agent.pending) /\ wire[1].arg[1] \notin intake.seen
      /\ wire[1].arg[1] \in CallIds
      /\ agent.seen = intake.seen \union {wire[1].arg[1]} /\ agent.at = "waiting"
  BY <1>0, <1>4, <1>k, FirstFrameSays DEF SaysTheCall
<1>c. PICK id : id = wire[1].arg[1]
  OBVIOUS
<1>d. id \in CallIds
  BY <1>b, <1>c
<1>s. /\ intake' = [intake EXCEPT !.expected = @ + 1, !.seen = @ \union {id},
                                  !.safe = intake.safe /\ safe]
      /\ shown' = shown /\ results' = Append(results, id)
  BY <1>1, <1>4, <1>c DEF TakeCapabilityCall, Taken, IntakeRecord
<1>2. /\ intake' \in IntakeRecord /\ intake'.refused = intake.refused
      /\ intake'.expected = intake.expected + 1
      /\ intake'.accepted = intake.accepted
      /\ intake'.at = intake.at /\ intake'.attempt = intake.attempt
      /\ intake'.seen = intake.seen \union {id}
      /\ intake'.output = intake.output /\ intake'.units = intake.units
      /\ intake'.retries = intake.retries /\ intake'.cost = intake.cost /\ intake'.usage = intake.usage
      /\ intake'.final = intake.final /\ intake'.failure = intake.failure
  BY <1>1, <1>d, <1>e, <1>s DEF IntakeRecord
<1>3. /\ wire' \in Seq(Frames) /\ Len(wire') = Len(wire) - 1 /\ Len(wire) \in Nat
      /\ \A i \in 1 .. Len(wire') : wire'[i] = wire[i + 1] /\ i + 1 \in 1 .. Len(wire)
      /\ Numbered'
  BY <1>0, <1>2, FramesMoveUp
<1>u. intake'.usage = (intake.usage \/ wire[1].body = "resource_usage")
  BY <1>0, <1>1, <1>2, <1>4 DEF IntakeRecord
<1>8. \E j \in Nat : Chunked(j)'
  BY <1>0, <1>2, <1>3, <1>4, <1>s, <1>u, RestMovesUp
<1>9. Ending'
  BY <1>0, <1>2, <1>3, EndMovesUp
<1>w. wire' = <<>>
  BY <1>3, <1>a
<1>x. results' \in Seq(CallIds) /\ Len(results') = 1
  BY <1>4, <1>d, <1>s
<1>10. Counted'
  <2>1. ~CallUnderWay'
    BY <1>w DEF CallUnderWay, Sent
  <2>2. QED BY <1>0, <1>2, <1>b, <1>c, <1>w, <1>x, <2>1 DEF UnderWay, Counted
<1>11. Budgeted' /\ ShownSoFar'
  BY <1>0, <1>2, <1>s DEF UnderWay, Budgeted, ShownSoFar
<1>12. AgentTypes' /\ Receiving'
  BY <1>0, <1>2, <1>3, <1>s, <1>x DEF AgentTypes, IntakeRecord, Receiving, AgentRecord, RequestRecord
<1>13. QED BY <1>2, <1>3, <1>8, <1>9, <1>10, <1>11, <1>12 DEF UnderWay

\* The reply closes the stream: nothing is behind it.
LEMMA FinalTakenKeeps ==
  ASSUME AgentTypes, Receiving, UnderWay, TakeFinalResult
  PROVE  AgentTypes' /\ UnderWay' /\ Receiving'
<1>0. /\ wire # <<>> /\ Head(wire).body = "final_result" /\ Refusal(Head(wire)) = "none"
      /\ wire' = Tail(wire) /\ UNCHANGED <<request, agent>>
  BY DEF TakeFinalResult, TakeFrame
<1>1. intake \in IntakeRecord
  BY DEF AgentTypes, IntakeRecord, AgentRecord, RequestRecord
<1>e. intake.expected + 1 \in Nat /\ intake.output + 1 \in Nat
  <2>1. intake.expected \in Nat /\ intake.output \in Nat
    BY <1>1 DEF IntakeRecord
  <2>2. QED BY <2>1
<1>4. Head(wire) = wire[1] /\ 1 \in 1 .. Len(wire) /\ wire[1] \in Frames
      /\ intake.final = 0 /\ intake.failure = "none" /\ results = <<>>
      /\ (wire[1].body = "run_accepted") # intake.accepted
  BY <1>0, FirstFrame
<1>k. PICK k \in Nat : Chunked(k)
  BY DEF UnderWay
<1>a. intake.accepted /\ Len(wire) = 1 /\ agent.at = "ended"
  BY <1>0, <1>4, <1>k, FirstFrameSays DEF Closing
<1>b. PICK text \in Nat : text = wire[1].arg /\ text = request.text
  BY <1>0, <1>4, <1>k, FirstFrameSays DEF AgentTypes, AgentRecord, RequestRecord, IntakeRecord
<1>s. /\ intake' = [intake EXCEPT !.expected = @ + 1, !.final = text]
      /\ shown' = shown /\ results' = results
  BY <1>1, <1>4, <1>b DEF TakeFinalResult, Taken, IntakeRecord
<1>2. /\ intake' \in IntakeRecord /\ intake'.refused = intake.refused
      /\ intake'.expected = intake.expected + 1
      /\ intake'.accepted = intake.accepted
      /\ intake'.at = intake.at /\ intake'.attempt = intake.attempt /\ intake'.seen = intake.seen
      /\ intake'.output = intake.output /\ intake'.units = intake.units
      /\ intake'.retries = intake.retries /\ intake'.cost = intake.cost /\ intake'.usage = intake.usage
      /\ intake'.final = text /\ intake'.failure = intake.failure
  BY <1>1, <1>e, <1>s DEF IntakeRecord
<1>3. /\ wire' \in Seq(Frames) /\ Len(wire') = Len(wire) - 1 /\ Len(wire) \in Nat
      /\ \A i \in 1 .. Len(wire') : wire'[i] = wire[i + 1] /\ i + 1 \in 1 .. Len(wire)
      /\ Numbered'
  BY <1>0, <1>2, FramesMoveUp
<1>u. intake'.usage = (intake.usage \/ wire[1].body = "resource_usage")
  BY <1>0, <1>1, <1>2, <1>4 DEF IntakeRecord
<1>8. \E j \in Nat : Chunked(j)'
  BY <1>0, <1>2, <1>3, <1>4, <1>s, <1>u, RestMovesUp
<1>w. wire' = <<>>
  BY <1>3, <1>a
<1>9. Ending'
  <2>1. Sent' = {}
    BY <1>w DEF Sent
  <2>2. QED BY <1>0, <1>2, <1>4, <1>a, <1>b, <1>w, <2>1 DEF Ending
<1>10. Counted'
  BY <1>0, <1>2, <1>3, <1>4, <1>s, CallsMoveUp
<1>11. Budgeted' /\ ShownSoFar'
  BY <1>0, <1>2, <1>s DEF UnderWay, Budgeted, ShownSoFar
<1>12. AgentTypes' /\ Receiving'
  BY <1>0, <1>2, <1>3, <1>s DEF AgentTypes, IntakeRecord, Receiving, AgentRecord, RequestRecord
<1>13. QED BY <1>2, <1>3, <1>8, <1>9, <1>10, <1>11, <1>12 DEF UnderWay

\* So does a failure.
LEMMA FailureTakenKeeps ==
  ASSUME AgentTypes, Receiving, UnderWay, TakeRunFailure
  PROVE  AgentTypes' /\ UnderWay' /\ Receiving'
<1>0. /\ wire # <<>> /\ Head(wire).body = "run_failure" /\ Refusal(Head(wire)) = "none"
      /\ wire' = Tail(wire) /\ UNCHANGED <<request, agent>>
  BY DEF TakeRunFailure, TakeFrame
<1>1. intake \in IntakeRecord
  BY DEF AgentTypes, IntakeRecord, AgentRecord, RequestRecord
<1>e. intake.expected + 1 \in Nat /\ intake.output + 1 \in Nat
  <2>1. intake.expected \in Nat /\ intake.output \in Nat
    BY <1>1 DEF IntakeRecord
  <2>2. QED BY <2>1
<1>4. Head(wire) = wire[1] /\ 1 \in 1 .. Len(wire) /\ wire[1] \in Frames
      /\ intake.final = 0 /\ intake.failure = "none" /\ results = <<>>
      /\ (wire[1].body = "run_accepted") # intake.accepted
  BY <1>0, FirstFrame
<1>k. PICK k \in Nat : Chunked(k)
  BY DEF UnderWay
<1>a. intake.accepted /\ Len(wire) = 1 /\ agent.at = "ended"
  BY <1>0, <1>4, <1>k, FirstFrameSays DEF Closing
<1>b. PICK kind \in {"retryable", "final"} : kind = IF wire[1].arg THEN "retryable" ELSE "final"
  OBVIOUS
<1>s. /\ intake' = [intake EXCEPT !.expected = @ + 1, !.failure = kind]
      /\ shown' = shown /\ results' = results
  BY <1>1, <1>4, <1>b DEF TakeRunFailure, Taken, IntakeRecord
<1>2. /\ intake' \in IntakeRecord /\ intake'.refused = intake.refused
      /\ intake'.expected = intake.expected + 1
      /\ intake'.accepted = intake.accepted
      /\ intake'.at = intake.at /\ intake'.attempt = intake.attempt /\ intake'.seen = intake.seen
      /\ intake'.output = intake.output /\ intake'.units = intake.units
      /\ intake'.retries = intake.retries /\ intake'.cost = intake.cost /\ intake'.usage = intake.usage
      /\ intake'.final = intake.final /\ intake'.failure = kind
  BY <1>1, <1>e, <1>s DEF IntakeRecord
<1>3. /\ wire' \in Seq(Frames) /\ Len(wire') = Len(wire) - 1 /\ Len(wire) \in Nat
      /\ \A i \in 1 .. Len(wire') : wire'[i] = wire[i + 1] /\ i + 1 \in 1 .. Len(wire)
      /\ Numbered'
  BY <1>0, <1>2, FramesMoveUp
<1>u. intake'.usage = (intake.usage \/ wire[1].body = "resource_usage")
  BY <1>0, <1>1, <1>2, <1>4 DEF IntakeRecord
<1>8. \E j \in Nat : Chunked(j)'
  BY <1>0, <1>2, <1>3, <1>4, <1>s, <1>u, RestMovesUp
<1>w. wire' = <<>>
  BY <1>3, <1>a
<1>9. Ending'
  <2>1. Sent' = {}
    BY <1>w DEF Sent
  <2>2. QED BY <1>0, <1>2, <1>4, <1>a, <1>b, <1>w, <2>1 DEF Ending
<1>10. Counted'
  BY <1>0, <1>2, <1>3, <1>4, <1>s, CallsMoveUp
<1>11. Budgeted' /\ ShownSoFar'
  BY <1>0, <1>2, <1>s DEF UnderWay, Budgeted, ShownSoFar
<1>12. AgentTypes' /\ Receiving'
  BY <1>0, <1>2, <1>3, <1>s DEF AgentTypes, IntakeRecord, Receiving, AgentRecord, RequestRecord
<1>13. QED BY <1>2, <1>3, <1>8, <1>9, <1>10, <1>11, <1>12 DEF UnderWay

\* An attempt that begins.
Fresh ==
    /\ intake.attempt \in Nat \ {0} /\ intake = NewIntake(intake.attempt)
    /\ agent = NewAgent /\ request = FirstRequest
    /\ wire = <<Frame(1, "run_accepted", 0)>> /\ results = <<>>
    /\ shown \in Seq(Showings) /\ \A i \in DOMAIN shown : shown[i].attempt < intake.attempt

\* A first attempt, and every later one, begins with both sides at the start.
LEMMA FreshIsUnderWay == Fresh => AgentTypes /\ UnderWay /\ Receiving
<1> SUFFICES ASSUME Fresh PROVE AgentTypes /\ UnderWay /\ Receiving
  OBVIOUS
<1>1. PICK n \in Nat \ {0} : n = intake.attempt
  BY DEF Fresh
<1>2. intake = NewIntake(n)
  BY <1>1 DEF Fresh
<1>3. /\ intake \in IntakeRecord /\ intake.at = "receiving" /\ intake.attempt = n
      /\ intake.expected = 1 /\ intake.accepted = FALSE /\ intake.seen = {}
      /\ intake.output = 0 /\ intake.units = 0 /\ intake.retries = 0 /\ intake.cost = 0
      /\ intake.usage = FALSE
      /\ intake.final = 0 /\ intake.failure = "none" /\ intake.refused = "none"
  BY <1>2 DEF NewIntake, IntakeRecord
<1>4. agent = NewAgent /\ request = FirstRequest /\ results = <<>>
  BY DEF Fresh
<1>5. /\ agent \in AgentRecord /\ agent.at = "turn" /\ agent.turn = 1 /\ agent.output = 0
      /\ agent.units = 0 /\ agent.retries = 0 /\ agent.cost = 0 /\ agent.calls = 0 /\ agent.seen = {}
      /\ agent.pending = <<>> /\ agent.sequence = 1 /\ agent.withheld = FALSE
  BY <1>4 DEF NewAgent, AgentRecord
<1>6. request \in RequestRecord /\ request.text = 0
  BY <1>4 DEF FirstRequest, RequestRecord
<1>7. /\ wire \in Seq(Frames) /\ Len(wire) = 1 /\ wire[1].body = "run_accepted"
      /\ wire[1].sequence = 1 /\ Sent = {1} /\ wire # <<>>
  <2>1. "run_accepted" \in Bodies /\ 0 \in Carried
    BY DEF Bodies, Carried
  <2>2. Frame(1, "run_accepted", 0) \in Frames /\ Frame(1, "run_accepted", 0).sequence = 1
        /\ Frame(1, "run_accepted", 0).body = "run_accepted"
    BY <2>1, FrameIsTyped
  <2>3. PICK f \in Frames : f.sequence = 1 /\ f.body = "run_accepted" /\ wire = <<f>>
    BY <2>2 DEF Fresh
  <2>4. wire \in Seq(Frames) /\ Len(wire) = 1 /\ wire[1] = f
    BY <2>3
  <2>5. Sent = {1}
    BY <2>4 DEF Sent
  <2>6. QED BY <2>3, <2>4, <2>5
<1>8. shown \in Seq(Showings) /\ \A i \in DOMAIN shown : shown[i].attempt < n
  BY <1>1 DEF Fresh
<1>9. AgentTypes /\ Receiving
  BY <1>3, <1>4, <1>5, <1>6, <1>7, <1>8
     DEF AgentTypes, IntakeRecord, AgentRecord, RequestRecord, Receiving
<1>10. Numbered
  BY <1>3, <1>5, <1>7 DEF Numbered
<1>a. ASSUME NEW i \in DOMAIN shown PROVE shown[i].attempt \in Nat /\ shown[i].attempt < n
  <2>1. shown[i] \in Showings
    BY <1>8
  <2>2. QED BY <1>8, <2>1 DEF Showings
<1>11. Chunked(1)
  <2>1. \A i \in DOMAIN shown : shown[i] # [attempt |-> intake.attempt, turn |-> agent.turn]
    BY <1>3, <1>a
  <2>2. Shown = 0
    BY <2>1, NeverShown DEF Shown
  <2>3. QED BY <1>3, <1>5, <1>6, <1>7, <2>2 DEF Chunked, Unaccepted
<1>12. Ending
  BY <1>3, <1>7 DEF Ending, Closing
<1>13. Counted
  <2>1. ~CallUnderWay
    BY <1>7 DEF CallUnderWay
  <2>2. IsFiniteSet({}) /\ Cardinality({}) = 0
    BY FS_EmptySet
  <2>3. QED BY <1>3, <1>4, <1>5, <2>1, <2>2 DEF Counted
<1>14. Budgeted
  BY <1>3, <1>5, <1>6, AgentAssumption DEF Budgeted
<1>15. ShownSoFar
  BY <1>3, <1>a DEF ShownSoFar
<1>16. QED BY <1>3, <1>9, <1>10, <1>11, <1>12, <1>13, <1>14, <1>15 DEF UnderWay

\* The empty sequence is a sequence over any set.
LEMMA EmptyIsSeq ==
  ASSUME NEW S
  PROVE  <<>> \in Seq(S)
  OBVIOUS

\* Once the intake has ended nothing moves any more.
LEMMA StopKeeps ==
  ASSUME AgentTypes, Receiving, UnderWay,
         NEW at \in {"succeeded", "failed", "stopped"},
         NEW refused \in {"none", "after terminal", "sequence", "unexpected", "arguments",
                          "budget", "duplicate", "usage"},
         Stop(at, refused),
         refused = "none" \/ Excused(refused),
         at = "succeeded" => intake.final = Shown
  PROVE  AgentInv'
<1>1. agent \in AgentRecord /\ intake \in IntakeRecord
  BY DEF AgentTypes, AgentRecord, IntakeRecord, RequestRecord
<1>2. /\ intake' = [intake EXCEPT !.at = at, !.refused = refused]
      /\ agent' = [agent EXCEPT !.at = "ended"]
      /\ wire' = <<>> /\ results' = <<>> /\ UNCHANGED <<request, shown>>
  BY DEF Stop
<1>3. /\ intake' \in IntakeRecord /\ intake'.at = at /\ intake'.refused = refused
      /\ intake'.final = intake.final /\ intake'.attempt = intake.attempt
  BY <1>1, <1>2 DEF IntakeRecord
<1>4. /\ agent' \in AgentRecord /\ agent'.at = "ended" /\ agent'.turn = agent.turn
      /\ agent'.withheld = agent.withheld /\ agent'.loose = agent.loose
      /\ agent'.cost = agent.cost
  BY <1>1, <1>2 DEF AgentRecord
<1>5. AgentTypes'
  <2>e. wire' = <<>> /\ results' = <<>>
    BY <1>2
  <2>1. wire' \in Seq(Frames)
    BY ONLY <2>e, EmptyIsSeq
  <2>r. results' \in Seq(CallIds)
    BY ONLY <2>e, EmptyIsSeq
  <2>2. request' = request /\ shown' = shown
    BY <1>2
  <2>3. QED BY <1>3, <1>4, <2>1, <2>r, <2>2 DEF AgentTypes, AgentRecord, IntakeRecord, RequestRecord
<1>6. FramesAreTaken'
  BY <1>3, <1>4 DEF FramesAreTaken, Excused
<1>7. ReplyIsShownOnce'
  BY <1>2, <1>3, <1>4 DEF ReplyIsShownOnce, Shown
<1>8. ~Receiving'
  BY <1>3 DEF Receiving
<1>9. QED BY <1>4, <1>5, <1>6, <1>7, <1>8 DEF AgentInv

\* FailOrRetry: a new attempt is fresh, for nothing of its number was shown; or the Run fails.
LEMMA RetryKeeps ==
  ASSUME AgentTypes, Receiving, UnderWay, NEW retryable \in BOOLEAN, FailOrRetry(retryable)
  PROVE  AgentInv'
<1>1. CASE retryable /\ intake.safe /\ intake.attempt < MaxRunAttempts
  <2>0. /\ intake' = NewIntake(intake.attempt + 1)
        /\ agent' = NewAgent /\ request' = FirstRequest
        /\ wire' = <<Frame(1, "run_accepted", 0)>> /\ results' = <<>> /\ shown' = shown
    BY <1>1 DEF FailOrRetry
  <2>1. intake.attempt \in Nat /\ intake.attempt + 1 \in Nat \ {0}
    <3>1. intake.attempt \in Nat
      BY DEF AgentTypes, AgentRecord, RequestRecord, IntakeRecord
    <3>2. QED BY <3>1
  <2>2. intake'.attempt = intake.attempt + 1 /\ intake' = NewIntake(intake'.attempt)
        /\ intake'.refused = "none" /\ intake'.at = "receiving"
    BY <2>0 DEF NewIntake
  <2>3. ASSUME NEW i \in DOMAIN shown PROVE shown[i].attempt < intake.attempt + 1
    <3>1. shown[i].attempt <= intake.attempt
      BY DEF UnderWay, ShownSoFar
    <3>2. shown[i].attempt \in Nat
      <4>1. shown \in Seq(Showings)
        BY DEF AgentTypes, AgentRecord, RequestRecord, IntakeRecord
      <4>2. shown[i] \in Showings
        BY <4>1
      <4>3. QED BY <4>2 DEF Showings
    <3>3. QED BY <2>1, <3>1, <3>2
  <2>4. Fresh'
    <3>1. shown' \in Seq(Showings)
      BY <2>0 DEF AgentTypes, AgentRecord, RequestRecord, IntakeRecord
    <3>2. \A i \in DOMAIN shown' : shown'[i].attempt < intake'.attempt
      BY <2>0, <2>2, <2>3
    <3>3. intake'.attempt \in Nat \ {0}
      BY <2>1, <2>2
    <3>4. QED BY <2>0, <2>2, <3>1, <3>2, <3>3 DEF Fresh
  <2>5. Fresh' => AgentTypes' /\ UnderWay' /\ Receiving'
    BY FreshIsUnderWay, PTL
  <2>6. FramesAreTaken' /\ ReplyIsShownOnce'
    BY <2>2 DEF FramesAreTaken, ReplyIsShownOnce
  <2>7. QED BY <2>4, <2>5, <2>6 DEF AgentInv
<1>2. CASE ~(retryable /\ intake.safe /\ intake.attempt < MaxRunAttempts)
  <2>1. Stop("failed", "none")
    BY <1>2 DEF FailOrRetry
  <2>2. QED BY <2>1, StopKeeps
<1>3. QED BY <1>1, <1>2

\* EndOfStream: a reply received has as many chunks as were shown of its turn.
LEMMA EndKeeps ==
  ASSUME AgentTypes, Receiving, UnderWay, EndOfStream
  PROVE  AgentInv'
<1>1. wire = <<>> /\ agent.at = "ended"
  BY DEF EndOfStream, StreamEnds
<1>2. CASE intake.final > 0
  <2>1. Stop("succeeded", "none")
    BY <1>2 DEF EndOfStream
  <2>2. PICK k \in Nat : Chunked(k)
    BY DEF UnderWay
  <2>3. k = 0 /\ Unaccepted = 0
    BY <1>1, <2>2 DEF Chunked, Unaccepted
  <2>4. Shown \in Nat
    BY TimesIsNat DEF Shown, AgentTypes, AgentRecord, RequestRecord, IntakeRecord
  <2>5. request.text = Shown
    BY <2>2, <2>3, <2>4 DEF Chunked
  <2>6. intake.final = request.text
    BY <1>2 DEF UnderWay, Ending
  <2>7. QED BY <2>1, <2>5, <2>6, StopKeeps
<1>3. CASE ~(intake.final > 0)
  <2>1. FailOrRetry(intake.failure # "final")
    BY <1>3 DEF EndOfStream
  <2>2. QED BY <2>1, RetryKeeps
<1>4. QED BY <1>2, <1>3

\* RefuseFrame: what is refused is refused for one of the three reasons.
LEMMA RefusalKeeps ==
  ASSUME AgentTypes, Receiving, UnderWay, agent.retries <= RetriesBound, RefuseFrame
  PROVE  AgentInv'
<1>1. wire # <<>> /\ Refusal(Head(wire)) # "none" /\ Stop("failed", Refusal(Head(wire)))
  BY DEF RefuseFrame
<1>2. PICK refused : refused = Refusal(Head(wire))
  OBVIOUS
<1>3. Excused(refused)
  BY <1>1, <1>2, RefusedIsExcused
<1>4. refused \in {"sequence", "arguments", "usage"}
  BY <1>3 DEF Excused
<1>5. QED BY <1>1, <1>2, <1>3, <1>4, StopKeeps

\* The steps of the agent that end its stream, those of a turn, and those of an answered turn.
LEMMA AgentFailsKeeps ==
  ASSUME AgentTypes, Receiving, UnderWay, agent.at \in {"turn", "answered", "calling"},
         \/ \E r \in BOOLEAN : AgentFails(r)
         \/ FrameWithheld
  PROVE  AgentTypes' /\ UnderWay' /\ Receiving'
<1>1. agent.sequence \in Nat /\ agent \in AgentRecord
  BY DEF AgentTypes, AgentRecord, RequestRecord, IntakeRecord
<1>2. ~agent.withheld
  BY NothingAsked
<1>3. ASSUME NEW r \in BOOLEAN, AgentFails(r) PROVE AgentTypes' /\ UnderWay' /\ Receiving'
  <2>1. agent.sequence + 1 \in Nat
    BY <1>1
  <2>2. agent' = [agent EXCEPT !.at = "ended", !.sequence = agent.sequence + 1, !.withheld = FALSE]
    BY <1>1, <1>2, <1>3 DEF AgentFails, SendFrame, AgentRecord
  <2>3. /\ wire' = Append(wire, Frame(agent.sequence + 1, "run_failure", r))
        /\ UNCHANGED <<request, results, intake, shown>>
    BY <1>3 DEF AgentFails, SendFrame
  <2>4. QED BY <2>1, <2>2, <2>3, FailureKeeps
<1>4. ASSUME FrameWithheld PROVE AgentTypes' /\ UnderWay' /\ Receiving'
  <2>1. agent.sequence + 2 \in Nat
    BY <1>1
  <2>2. agent' = [agent EXCEPT !.at = "ended", !.sequence = agent.sequence + 2, !.withheld = TRUE]
    BY <1>1, <1>4 DEF FrameWithheld, AgentRecord
  <2>3. /\ wire' = Append(wire, Frame(agent.sequence + 2, "run_failure", FALSE))
        /\ UNCHANGED <<request, results, intake, shown>>
    BY <1>4 DEF FrameWithheld
  <2>4. QED BY <2>1, <2>2, <2>3, FailureKeeps
<1>5. QED BY <1>3, <1>4

LEMMA TurnStepKeeps ==
  ASSUME AgentTypes, Receiving, UnderWay,
         \/ TextChunk \/ OtherChunk \/ TurnTimesOut
         \/ \E retryable \in BOOLEAN : RequestFails(retryable)
         \/ \E units \in TurnUnits, cost \in TurnCosts,
               ids \in {<<>>} \union [1..1 -> CallIds] \union [1..2 -> CallIds] :
               TurnCompletes(units, cost, ids)
  PROVE  AgentTypes' /\ UnderWay' /\ Receiving'
<1>1. request \in RequestRecord
  BY DEF AgentTypes, RequestRecord, AgentRecord, IntakeRecord
<1>2. CASE TextChunk
  BY <1>2, AgentFailsKeeps, ChunkKeeps DEF TextChunk
<1>3. CASE OtherChunk
  <2>1. request' \in RequestRecord /\ request'.text = request.text /\ request'.received
    BY <1>1, <1>3 DEF OtherChunk, RequestRecord
  <2>2. QED BY <1>3, <2>1, RequestKeeps DEF OtherChunk
<1>4. CASE TurnTimesOut
  BY <1>4, AgentFailsKeeps DEF TurnTimesOut
<1>5. ASSUME NEW retryable \in BOOLEAN, RequestFails(retryable)
      PROVE  AgentTypes' /\ UnderWay' /\ Receiving'
  <2>1. CASE AsksAgain(retryable)
    <3>1. /\ request' = [FirstRequest EXCEPT !.attempt = request.attempt + 1]
          /\ UNCHANGED <<agent, wire, results, intake, shown>> /\ agent.at = "turn"
      BY <1>5, <2>1 DEF RequestFails
    <3>2. request.text = 0
      <4>1. ~(request.text > 0) /\ request.text \in Nat
        BY <1>1, <2>1 DEF AsksAgain, UnderWay, Budgeted, RequestRecord
      <4>2. QED BY <4>1
    <3>3. request.attempt \in Nat /\ request.attempt + 1 \in Nat
      <4>1. request.attempt \in Nat
        BY <1>1 DEF RequestRecord
      <4>2. QED BY <4>1
    <3>4. request' \in RequestRecord /\ request'.text = 0
      BY <3>1, <3>3 DEF FirstRequest, RequestRecord
    <3>5. QED BY <3>1, <3>2, <3>4, RequestKeeps
  <2>2. CASE ~AsksAgain(retryable)
    BY <1>5, <2>2, AgentFailsKeeps DEF RequestFails
  <2>3. QED BY <2>1, <2>2
<1>6. ASSUME NEW units \in TurnUnits, NEW cost \in TurnCosts,
             NEW ids \in {<<>>} \union [1..1 -> CallIds] \union [1..2 -> CallIds],
             TurnCompletes(units, cost, ids)
      PROVE  AgentTypes' /\ UnderWay' /\ Receiving'
  <2>1. ids \in Seq(CallIds)
    <3>1. CASE ids = <<>>
      BY <3>1
    <3>2. CASE ids \in [1..1 -> CallIds]
      BY <3>2, SeqDef
    <3>3. CASE ids \in [1..2 -> CallIds]
      BY <3>3, SeqDef
    <3>4. QED BY <1>6, <3>1, <3>2, <3>3
  <2>2. PICK total, costs : total = agent.units + units /\ costs = agent.cost + cost
    OBVIOUS
  <2>3. units \in Nat /\ total \in Nat /\ cost \in Nat /\ costs \in Nat
    <3>1. agent.units \in Nat /\ agent.cost \in Nat /\ units \in Nat /\ cost \in Nat
      BY AgentAssumption DEF AgentTypes, AgentRecord, RequestRecord, IntakeRecord
    <3>2. QED BY <2>2, <3>1
  <2>4. agent.at = "turn"
    BY <1>6 DEF TurnCompletes
  <2>5. CASE total > MaxExecutionUnits \/ (MaxCostMicrousd > 0 /\ costs > MaxCostMicrousd)
    <3>1. AgentFails(FALSE)
      BY <1>6, <2>2, <2>5 DEF TurnCompletes
    <3>2. QED BY <2>4, <3>1, AgentFailsKeeps
  <2>6. CASE ~(total > MaxExecutionUnits \/ (MaxCostMicrousd > 0 /\ costs > MaxCostMicrousd))
    <3>1. /\ SendFrame("resource_usage",
                       <<IF total = 0 THEN 1 ELSE total, agent.retries + request.attempt, costs>>,
                       [agent EXCEPT !.at = "answered", !.units = total,
                                     !.retries = @ + request.attempt, !.cost = costs,
                                     !.pending = ids])
          /\ UNCHANGED <<request, results, intake, shown>>
      BY <1>6, <2>2, <2>6 DEF TurnCompletes
    <3>2. total <= MaxExecutionUnits /\ (MaxCostMicrousd = 0 \/ costs <= MaxCostMicrousd)
      BY <2>3, <2>6, AgentAssumption
    <3>3. QED BY <2>1, <2>2, <2>3, <2>4, <3>1, <3>2, UsageKeeps
  <2>7. QED BY <2>5, <2>6
<1>7. QED BY <1>2, <1>3, <1>4, <1>5, <1>6

LEMMA AnswerStepKeeps ==
  ASSUME AgentTypes, Receiving, UnderWay,
         \/ FinalReply \/ CountCalls \/ ReceiveResult \/ NextTurn
         \/ \E strict \in BOOLEAN : RequestCapability(strict)
  PROVE  AgentTypes' /\ UnderWay' /\ Receiving'
<1>1. CASE FinalReply
  BY <1>1, AgentFailsKeeps, FinalKeeps DEF FinalReply
<1>2. CASE CountCalls
  <2>1. PICK count : count = agent.calls + Len(agent.pending)
    OBVIOUS
  <2>2. agent.at = "answered" /\ agent.pending # <<>>
    BY <1>2 DEF CountCalls
  <2>3. CASE count > MaxCapabilityCalls
    <3>1. AgentFails(FALSE)
      BY <1>2, <2>1, <2>3 DEF CountCalls
    <3>2. QED BY <2>2, <3>1, AgentFailsKeeps
  <2>4. CASE ~(count > MaxCapabilityCalls)
    <3>1. /\ agent' = [agent EXCEPT !.at = "calling", !.calls = count]
          /\ UNCHANGED <<request, wire, results, intake, shown>>
      BY <1>2, <2>1, <2>4 DEF CountCalls
    <3>2. count <= MaxCapabilityCalls
      <4>1. agent.calls \in Nat /\ agent.pending \in Seq(CallIds)
        BY DEF AgentTypes, AgentRecord, RequestRecord, IntakeRecord
      <4>2. Len(agent.pending) \in Nat
        BY <4>1
      <4>3. count \in Nat
        BY <2>1, <4>1, <4>2
      <4>4. QED BY <2>4, <4>3, AgentAssumption
    <3>3. QED BY <2>1, <2>2, <3>1, <3>2, CountingKeeps
  <2>5. QED BY <2>3, <2>4
<1>3. ASSUME NEW strict \in BOOLEAN, RequestCapability(strict)
      PROVE  AgentTypes' /\ UnderWay' /\ Receiving'
  <2>1. agent.at = "calling" /\ agent.pending # <<>>
    BY <1>3 DEF RequestCapability
  <2>2. PICK id : id = Head(agent.pending)
    OBVIOUS
  <2>3. \/ AgentFails(FALSE) \/ FrameWithheld
        \/ /\ id \notin agent.seen
           /\ SendFrame("capability_call", <<id, strict>>,
                        [agent EXCEPT !.at = "waiting", !.seen = @ \union {id}, !.loose = ~strict])
           /\ UNCHANGED <<request, results, intake, shown>>
    BY <1>3, <2>2 DEF RequestCapability, Repeated
  <2>4. CASE AgentFails(FALSE) \/ FrameWithheld
    BY <2>1, <2>4, AgentFailsKeeps
  <2>5. CASE /\ id \notin agent.seen
             /\ SendFrame("capability_call", <<id, strict>>,
                          [agent EXCEPT !.at = "waiting", !.seen = @ \union {id}, !.loose = ~strict])
             /\ UNCHANGED <<request, results, intake, shown>>
    BY <2>1, <2>2, <2>5, CallKeeps
  <2>6. QED BY <2>3, <2>4, <2>5
<1>4. CASE ReceiveResult
  BY <1>4, ResultKeeps
<1>5. CASE NextTurn
  BY <1>5, AgentFailsKeeps, TurnKeeps DEF NextTurn
<1>6. QED BY <1>1, <1>2, <1>3, <1>4, <1>5

\* Once the engine has stopped receiving nothing happens.
LEMMA NothingAfterTheEnd ==
  ASSUME AgentInv, ~Receiving
  PROVE  ~AgentNext
<1>1. agent.at = "ended"
  BY DEF AgentInv
<1>2. ~(TextChunk \/ OtherChunk \/ TurnTimesOut \/ FinalReply \/ CountCalls
        \/ ReceiveResult \/ NextTurn)
  BY <1>1 DEF TextChunk, OtherChunk, TurnTimesOut, FinalReply, CountCalls, ReceiveResult, NextTurn
<1>3. \A r, u, c, ids : ~RequestFails(r) /\ ~TurnCompletes(u, c, ids) /\ ~RequestCapability(r)
  BY <1>1 DEF RequestFails, TurnCompletes, RequestCapability
<1>4. ~(RefuseFrame \/ TakeRunAccepted \/ TakeOutputDelta \/ TakeResourceUsage
        \/ TakeFinalResult \/ TakeRunFailure \/ EndOfStream \/ StreamBreaks \/ RunIsStopped)
  BY DEF RefuseFrame, TakeRunAccepted, TakeOutputDelta, TakeResourceUsage, TakeFinalResult,
         TakeRunFailure, EndOfStream, StreamEnds, StreamBreaks, RunIsStopped, TakeFrame
<1>5. \A r : ~TakeCapabilityCall(r)
  BY DEF TakeCapabilityCall, TakeFrame
<1>6. QED BY <1>2, <1>3, <1>4, <1>5 DEF AgentNext

\* Every step keeps the invariant.
LEMMA StreamSteps ==
  ASSUME AgentInv, agent.retries <= RetriesBound, [AgentNext]_agentVars
  PROVE  AgentInv'
<1>1. CASE UNCHANGED agentVars
  <2>u. /\ request' = request /\ agent' = agent /\ intake' = intake
        /\ wire' = wire /\ results' = results /\ shown' = shown
    BY <1>1 DEF agentVars
  <2>1. AgentTypes'
    <3>1. AgentTypes
      BY DEF AgentInv
    <3>2. /\ request \in RequestRecord /\ agent \in AgentRecord /\ intake \in IntakeRecord
          /\ wire \in Seq(Frames) /\ shown \in Seq(Showings) /\ results \in Seq(CallIds)
      BY <3>1 DEF AgentTypes, RequestRecord, AgentRecord, IntakeRecord
    <3>3. /\ request' \in RequestRecord /\ agent' \in AgentRecord /\ intake' \in IntakeRecord
          /\ wire' \in Seq(Frames) /\ shown' \in Seq(Showings) /\ results' \in Seq(CallIds)
      BY <2>u, <3>2
    <3>4. QED BY <3>3 DEF AgentTypes, RequestRecord, AgentRecord, IntakeRecord
  <2>2. FramesAreTaken' /\ ReplyIsShownOnce'
    BY <2>u DEF AgentInv, FramesAreTaken, ReplyIsShownOnce, Shown
  <2>3. UnderWay => UnderWay'
    <3>1. UNCHANGED <<Sent, Unaccepted, Shown, CallUnderWay>>
      BY <2>u DEF Sent, Unaccepted, Shown, CallUnderWay
    <3>2. (Numbered => Numbered') /\ (Ending => Ending') /\ (Budgeted => Budgeted')
          /\ (Counted => Counted') /\ (ShownSoFar => ShownSoFar')
      BY <2>u, <3>1 DEF Numbered, Ending, SaysTheCall, Budgeted, Counted, ShownSoFar
    <3>3. \A k \in Nat : Chunked(k) => Chunked(k)'
      BY <2>u, <3>1 DEF Chunked
    <3>4. QED BY <2>u, <3>2, <3>3 DEF UnderWay
  <2>4. QED BY <2>u, <2>1, <2>2, <2>3 DEF AgentInv, Receiving
<1>2. CASE AgentNext /\ ~Receiving
  BY <1>2, NothingAfterTheEnd
<1>3. CASE AgentNext /\ Receiving
  <2>0. AgentTypes /\ Receiving /\ UnderWay
    BY <1>3 DEF AgentInv
  <2>1. CASE \/ TextChunk \/ OtherChunk \/ TurnTimesOut
             \/ \E retryable \in BOOLEAN : RequestFails(retryable)
             \/ \E units \in TurnUnits, cost \in TurnCosts,
                   ids \in {<<>>} \union [1..1 -> CallIds] \union [1..2 -> CallIds] :
                   TurnCompletes(units, cost, ids)
             \/ FinalReply \/ CountCalls \/ ReceiveResult \/ NextTurn
             \/ \E strict \in BOOLEAN : RequestCapability(strict)
             \/ TakeRunAccepted \/ TakeOutputDelta \/ TakeResourceUsage
             \/ \E replaySafe \in BOOLEAN : TakeCapabilityCall(replaySafe)
             \/ TakeFinalResult \/ TakeRunFailure
    <3>1. AgentTypes' /\ UnderWay' /\ Receiving'
      BY <2>0, <2>1, TurnStepKeeps, AnswerStepKeeps, AcceptanceKeeps, DeltaKeeps, UsageTakenKeeps,
         CallTakenKeeps, FinalTakenKeeps, FailureTakenKeeps
    <3>2. FramesAreTaken' /\ ReplyIsShownOnce'
      BY <3>1 DEF UnderWay, FramesAreTaken, Receiving, ReplyIsShownOnce
    <3>3. QED BY <3>1, <3>2 DEF AgentInv
  <2>2. CASE RefuseFrame
    BY <2>0, <2>2, RefusalKeeps
  <2>3. CASE EndOfStream
    BY <2>0, <2>3, EndKeeps
  <2>4. CASE StreamBreaks
    BY <2>0, <2>4, RetryKeeps DEF StreamBreaks
  <2>5. CASE RunIsStopped
    BY <2>0, <2>5, StopKeeps DEF RunIsStopped
  <2>6. QED BY <1>3, <2>1, <2>2, <2>3, <2>4, <2>5 DEF AgentNext
<1>4. QED BY <1>1, <1>2, <1>3

\* The first state has it.
LEMMA StreamBegins == AgentInit => AgentInv
<1> SUFFICES ASSUME AgentInit PROVE AgentInv
  OBVIOUS
<1>1. /\ intake = NewIntake(1) /\ agent = NewAgent /\ request = FirstRequest
      /\ wire = <<Frame(1, "run_accepted", 0)>> /\ results = <<>> /\ shown = <<>>
  BY DEF AgentInit
<1>2. intake.attempt = 1 /\ intake.refused = "none" /\ intake.at = "receiving"
  BY <1>1 DEF NewIntake
<1>3. shown \in Seq(Showings) /\ DOMAIN shown = {}
  BY <1>1
<1>4. Fresh
  BY <1>1, <1>2, <1>3 DEF Fresh
<1>5. AgentTypes /\ UnderWay /\ Receiving
  BY <1>4, FreshIsUnderWay
<1>6. QED BY <1>2, <1>5 DEF AgentInv, FramesAreTaken, ReplyIsShownOnce

-----------------------------------------------------------------------------
\* What a Run can use up, on either side.
RequestBound == request.attempt <= ProviderRetries /\ request.text <= AnswerLength
AgentBound == agent.turn \in 1 .. MaxTurns /\ agent.output <= MaxOutputBytes
\* The turns that may still report retries, and what leaves room for theirs.
TurnsLeft == IF agent.at = "turn" THEN MaxTurns - agent.turn + 1 ELSE MaxTurns - agent.turn
RetryBound ==
    /\ agent.retries <= RetriesBound
    /\ agent.at # "ended" => agent.retries + TurnsLeft * ProviderRetries <= RetriesBound
WireBound == Len(wire) <= WireSize /\ Len(results) <= 1
IntakeBound == intake.attempt \in 1 .. MaxRunAttempts /\ intake.final <= MaxOutputBytes

LEMMA RequestStaysBounded ==
  ASSUME AgentTypes, RequestBound, AgentNext
  PROVE  RequestBound'
<1>0. /\ request.attempt \in Nat /\ request.text \in Nat
      /\ ProviderRetries \in Nat /\ AnswerLength \in Nat /\ request \in RequestRecord
  BY AgentAssumption DEF AgentAssumption, AgentTypes, RequestRecord
<1>1. CASE request' = request
  BY <1>1 DEF RequestBound
<1>2. CASE request' = FirstRequest
  <2>1. FirstRequest.attempt = 0 /\ FirstRequest.text = 0
    BY DEF FirstRequest
  <2>2. QED BY <1>0, <1>2, <2>1 DEF RequestBound
<1>3. CASE TextChunk
  <2>1. CASE request' = [request EXCEPT !.received = TRUE, !.text = @ + 1] /\ request.text < AnswerLength
    <3>1. request'.attempt = request.attempt /\ request'.text = request.text + 1
      BY <1>0, <2>1 DEF RequestRecord
    <3>2. QED BY <1>0, <2>1, <3>1 DEF RequestBound
  <2>2. CASE UNCHANGED request
    BY <1>1, <2>2
  <2>3. QED BY <1>3, <2>1, <2>2 DEF TextChunk, AgentFails, FrameWithheld
<1>4. CASE OtherChunk
  BY <1>0, <1>4 DEF OtherChunk, RequestBound, RequestRecord
<1>5. ASSUME NEW retryable \in BOOLEAN, RequestFails(retryable) PROVE RequestBound'
  <2>1. CASE AsksAgain(retryable)
    <3>1. request' = [FirstRequest EXCEPT !.attempt = request.attempt + 1]
      BY <1>5, <2>1 DEF RequestFails
    <3>2. request'.attempt = request.attempt + 1 /\ request'.text = 0
      BY <3>1 DEF FirstRequest
    <3>3. QED BY <1>0, <2>1, <3>2 DEF AsksAgain, RequestBound
  <2>2. CASE ~AsksAgain(retryable)
    BY <1>1, <1>5, <2>2 DEF RequestFails, AgentFails
  <2>3. QED BY <2>1, <2>2
<1>6. CASE ~TextChunk /\ ~OtherChunk /\ ~(\E retryable \in BOOLEAN : RequestFails(retryable))
  <2>1. UNCHANGED request \/ request' = FirstRequest
    BY <1>6 DEF AgentNext, TurnTimesOut, TurnCompletes, FinalReply, CountCalls, RequestCapability,
         ReceiveResult, NextTurn, RefuseFrame, TakeRunAccepted, TakeOutputDelta,
         TakeResourceUsage, TakeCapabilityCall, TakeFinalResult, TakeRunFailure, EndOfStream,
         StreamBreaks, RunIsStopped, TakeFrame, Stop, FailOrRetry, AgentFails, FrameWithheld
  <2>2. QED BY <1>1, <1>2, <2>1
<1>7. QED BY <1>3, <1>4, <1>5, <1>6

\* A frame sent leaves the turn and the output as its sender puts them.
LEMMA SentKeeps ==
  ASSUME NEW type, NEW arg, NEW next \in AgentRecord, SendFrame(type, arg, next)
  PROVE  agent'.turn = next.turn /\ agent'.output = next.output
  BY DEF SendFrame, AgentRecord

LEMMA AgentStaysBounded ==
  ASSUME AgentTypes, AgentBound, AgentNext
  PROVE  AgentBound'
<1>0. /\ agent \in AgentRecord /\ agent.turn \in Nat /\ agent.output \in Nat
      /\ MaxTurns \in Nat \ {0} /\ MaxOutputBytes \in Nat
  BY AgentAssumption DEF AgentAssumption, AgentTypes, AgentRecord
<1>1. CASE agent'.turn = agent.turn /\ agent'.output = agent.output
  BY <1>1 DEF AgentBound
<1>2. ASSUME NEW r, AgentFails(r) PROVE AgentBound'
  <2>1. [agent EXCEPT !.at = "ended"] \in AgentRecord
        /\ [agent EXCEPT !.at = "ended"].turn = agent.turn
        /\ [agent EXCEPT !.at = "ended"].output = agent.output
    BY <1>0 DEF AgentRecord
  <2>2. QED BY <1>1, <1>2, <2>1, SentKeeps DEF AgentFails
<1>3. CASE FrameWithheld
  BY <1>0, <1>1, <1>3 DEF FrameWithheld, AgentRecord
<1>4. ASSUME NEW at, NEW refused, Stop(at, refused) PROVE AgentBound'
  BY <1>0, <1>1, <1>4 DEF Stop, AgentRecord
<1>5. ASSUME NEW r, FailOrRetry(r) PROVE AgentBound'
  <2>1. CASE agent' = NewAgent
    BY <1>0, <2>1 DEF NewAgent, AgentBound
  <2>2. QED BY <1>4, <1>5, <2>1 DEF FailOrRetry
<1>6. CASE TextChunk
  <2>1. CASE /\ AgentOutput(1) <= MaxOutputBytes
             /\ SendFrame("output_delta", agent.turn, [agent EXCEPT !.output = AgentOutput(1)])
    <3> DEFINE next == [agent EXCEPT !.output = AgentOutput(1)]
    <3>0. AgentOutput(1) \in Nat
      BY <1>0 DEF AgentOutput
    <3>1. next \in AgentRecord /\ next.turn = agent.turn /\ next.output = AgentOutput(1)
      BY <1>0, <3>0 DEF AgentRecord
    <3>2. agent'.turn = next.turn /\ agent'.output = next.output
      BY <2>1, <3>1, SentKeeps
    <3>3. QED BY <2>1, <3>1, <3>2 DEF AgentBound
  <2>2. QED BY <1>2, <1>3, <1>6, <2>1 DEF TextChunk
<1>7. ASSUME NEW units \in TurnUnits, NEW cost \in TurnCosts, NEW ids,
             TurnCompletes(units, cost, ids),
             ids \in {<<>>} \union [1..1 -> CallIds] \union [1..2 -> CallIds]
      PROVE  AgentBound'
  <2>1. CASE \E r : AgentFails(r)
    BY <1>2, <2>1
  <2>2. CASE ~\E r : AgentFails(r)
    <3> DEFINE total == agent.units + units
               costs == agent.cost + cost
               arg == <<IF total = 0 THEN 1 ELSE total, agent.retries + request.attempt, costs>>
               next == [agent EXCEPT !.at = "answered", !.units = total,
                                     !.retries = @ + request.attempt, !.cost = costs,
                                     !.pending = ids]
    <3>1. SendFrame("resource_usage", arg, next)
      BY <1>7, <2>2 DEF TurnCompletes
    <3>2. agent'.turn = next.turn /\ agent'.output = next.output
      BY <1>0, <3>1 DEF SendFrame, AgentRecord
    <3>3. next.turn = agent.turn /\ next.output = agent.output
      BY <1>0 DEF AgentRecord
    <3>4. QED BY <1>1, <3>2, <3>3
  <2>3. QED BY <2>1, <2>2
<1>8. CASE FinalReply
  <2> DEFINE next == [agent EXCEPT !.at = "ended"]
  <2>1. next \in AgentRecord /\ next.turn = agent.turn /\ next.output = agent.output
    BY <1>0 DEF AgentRecord
  <2>2. CASE SendFrame("final_result", request.text, next)
    BY <1>1, <2>1, <2>2, SentKeeps
  <2>3. QED BY <1>3, <1>8, <2>2 DEF FinalReply
<1>9. CASE CountCalls
  <2>1. CASE \E r : AgentFails(r)
    BY <1>2, <2>1
  <2>2. CASE ~\E r : AgentFails(r)
    BY <1>0, <1>1, <1>9, <2>2 DEF CountCalls, AgentRecord
  <2>3. QED BY <2>1, <2>2
<1>10. ASSUME NEW strict \in BOOLEAN, RequestCapability(strict) PROVE AgentBound'
  <2> DEFINE id == Head(agent.pending)
             next == [agent EXCEPT !.at = "waiting", !.seen = @ \union {id}, !.loose = ~strict]
  <2>1. next.turn = agent.turn /\ next.output = agent.output
    BY <1>0 DEF AgentRecord
  <2>2. CASE SendFrame("capability_call", <<id, strict>>, next)
    <3>1. agent'.turn = next.turn /\ agent'.output = next.output
      BY <1>0, <2>2 DEF SendFrame, AgentRecord
    <3>2. QED BY <1>1, <2>1, <3>1
  <2>3. QED BY <1>2, <1>3, <1>10, <2>2 DEF RequestCapability
<1>11. CASE ReceiveResult
  BY <1>0, <1>1, <1>11 DEF ReceiveResult, AgentRecord
<1>12. CASE NextTurn
  <2>1. CASE agent.turn = MaxTurns
    BY <1>2, <1>12, <2>1 DEF NextTurn
  <2>2. CASE agent.turn # MaxTurns
    <3>1. agent'.turn = agent.turn + 1 /\ agent'.output = agent.output
      BY <1>0, <1>12, <2>2 DEF NextTurn, AgentRecord
    <3>2. QED BY <1>0, <2>2, <3>1 DEF AgentBound
  <2>3. QED BY <2>1, <2>2
<1>13. CASE OtherChunk \/ \E replaySafe \in BOOLEAN : TakeCapabilityCall(replaySafe)
  BY <1>1, <1>13 DEF OtherChunk, TakeCapabilityCall, TakeFrame
<1>14. CASE \/ TakeRunAccepted \/ TakeOutputDelta \/ TakeResourceUsage
            \/ TakeFinalResult \/ TakeRunFailure
  BY <1>1, <1>14 DEF TakeRunAccepted, TakeOutputDelta, TakeResourceUsage, TakeFinalResult,
       TakeRunFailure, TakeFrame
<1>15. ASSUME NEW retryable \in BOOLEAN, RequestFails(retryable) PROVE AgentBound'
  <2>1. AgentFails(retryable) \/ UNCHANGED agent
    BY <1>15 DEF RequestFails
  <2>2. QED BY <1>1, <1>2, <2>1
<1>16. CASE TurnTimesOut
  BY <1>2, <1>16 DEF TurnTimesOut
<1>17. CASE RefuseFrame \/ EndOfStream \/ StreamBreaks \/ RunIsStopped
  BY <1>4, <1>5, <1>17 DEF RefuseFrame, EndOfStream, StreamBreaks, RunIsStopped
<1>18. QED
  BY <1>6, <1>7, <1>8, <1>9, <1>10, <1>11, <1>12, <1>13, <1>14, <1>15, <1>16, <1>17 DEF AgentNext

\* A turn asks ProviderRetries times more at most, so that all turns together stay within the
\* protocol's bound of retries.
LEMMA RetriesStayBounded ==
  ASSUME AgentTypes, RequestBound, AgentBound, RetryBound, AgentNext
  PROVE  RetryBound'
<1>0. /\ agent \in AgentRecord /\ agent.turn \in Nat /\ agent.retries \in Nat
      /\ request.attempt \in Nat /\ MaxTurns \in Nat \ {0} /\ ProviderRetries \in Nat
      /\ RetriesBound \in Nat /\ MaxTurns * ProviderRetries <= RetriesBound
  BY AgentAssumption DEF AgentTypes, AgentRecord, RequestRecord
<1>1. CASE agent'.retries = agent.retries /\ agent'.at = "ended"
  BY <1>1 DEF RetryBound
<1>2. CASE /\ agent'.retries = agent.retries /\ agent'.turn = agent.turn
           /\ agent.at # "ended" /\ (agent.at = "turn" <=> agent'.at = "turn")
  <2>1. TurnsLeft' = TurnsLeft
    BY <1>2 DEF TurnsLeft
  <2>2. QED BY <1>2, <2>1 DEF RetryBound
<1>3. CASE agent' = agent
  BY <1>3 DEF RetryBound, TurnsLeft
<1>4. ASSUME NEW r, AgentFails(r) PROVE RetryBound'
  <2>1. agent'.retries = agent.retries /\ agent'.at = "ended"
    BY <1>0, <1>4 DEF AgentFails, SendFrame, AgentRecord
  <2>2. QED BY <1>1, <2>1
<1>5. CASE FrameWithheld
  BY <1>0, <1>1, <1>5 DEF FrameWithheld, AgentRecord
<1>6. ASSUME NEW at, NEW refused, Stop(at, refused) PROVE RetryBound'
  BY <1>0, <1>1, <1>6 DEF Stop, AgentRecord
<1>7. ASSUME NEW r, FailOrRetry(r) PROVE RetryBound'
  <2>1. CASE agent' = NewAgent
    <3>1. agent'.retries = 0 /\ agent'.at = "turn" /\ agent'.turn = 1
      BY <2>1 DEF NewAgent
    <3>2. TurnsLeft' = MaxTurns
      BY <1>0, <3>1 DEF TurnsLeft
    <3>3. MaxTurns * ProviderRetries \in Nat
      BY <1>0
    <3>4. QED BY <1>0, <3>1, <3>2, <3>3 DEF RetryBound
  <2>2. QED BY <1>6, <1>7, <2>1 DEF FailOrRetry
<1>8. CASE TextChunk
  <2>1. CASE SendFrame("output_delta", agent.turn, [agent EXCEPT !.output = AgentOutput(1)])
    <3>1. /\ agent'.retries = agent.retries /\ agent'.turn = agent.turn
          /\ agent'.at = agent.at /\ agent.at # "ended"
      BY <1>0, <1>8, <2>1 DEF TextChunk, SendFrame, AgentRecord
    <3>2. QED BY <1>2, <3>1
  <2>2. QED BY <1>4, <1>5, <1>8, <2>1 DEF TextChunk
<1>9. ASSUME NEW units \in TurnUnits, NEW cost \in TurnCosts, NEW ids, TurnCompletes(units, cost, ids)
      PROVE  RetryBound'
  <2>1. CASE \E r : AgentFails(r)
    BY <1>4, <2>1
  <2>2. CASE ~\E r : AgentFails(r)
    <3>1. agent'.at = "answered" /\ agent'.turn = agent.turn
          /\ agent'.retries = agent.retries + request.attempt /\ agent.at = "turn"
      BY <1>0, <1>9, <2>2 DEF TurnCompletes, SendFrame, AgentRecord
    <3>2. PICK n \in Nat : n = MaxTurns - agent.turn
      BY <1>0 DEF AgentBound
    <3>3. TurnsLeft = n + 1 /\ TurnsLeft' = n
      BY <3>1, <3>2 DEF TurnsLeft
    <3>4. (n + 1) * ProviderRetries = n * ProviderRetries + ProviderRetries
          /\ n * ProviderRetries \in Nat
      BY <1>0
    <3>5. agent.retries + (n * ProviderRetries + ProviderRetries) <= RetriesBound
      BY <3>1, <3>3, <3>4 DEF RetryBound
    <3>6. request.attempt <= ProviderRetries
      BY DEF RequestBound
    <3>7. PICK m \in Nat : m = n * ProviderRetries
      BY <3>4
    <3>8. agent'.retries + m <= RetriesBound /\ agent'.retries <= RetriesBound
      BY <1>0, <3>1, <3>5, <3>6, <3>7
    <3>9. QED BY <3>1, <3>3, <3>7, <3>8 DEF RetryBound
  <2>3. QED BY <2>1, <2>2
<1>10. CASE FinalReply
  <2>1. CASE SendFrame("final_result", request.text, [agent EXCEPT !.at = "ended"])
    <3>1. agent'.retries = agent.retries /\ agent'.at = "ended"
      BY <1>0, <2>1 DEF SendFrame, AgentRecord
    <3>2. QED BY <1>1, <3>1
  <2>2. QED BY <1>5, <1>10, <2>1 DEF FinalReply
<1>11. CASE CountCalls
  <2>1. CASE \E r : AgentFails(r)
    BY <1>4, <2>1
  <2>2. CASE ~\E r : AgentFails(r)
    BY <1>0, <1>2, <1>11, <2>2 DEF CountCalls, AgentRecord
  <2>3. QED BY <2>1, <2>2
<1>12. ASSUME NEW strict \in BOOLEAN, RequestCapability(strict) PROVE RetryBound'
  <2> DEFINE id == Head(agent.pending)
             next == [agent EXCEPT !.at = "waiting", !.seen = @ \union {id}, !.loose = ~strict]
  <2>1. CASE SendFrame("capability_call", <<id, strict>>, next)
    <3>1. /\ agent'.retries = agent.retries /\ agent'.turn = agent.turn
          /\ agent'.at = "waiting" /\ agent.at = "calling"
      BY <1>0, <1>12, <2>1 DEF RequestCapability, SendFrame, AgentRecord
    <3>2. QED BY <1>2, <3>1
  <2>2. QED BY <1>4, <1>5, <1>12, <2>1 DEF RequestCapability
<1>13. CASE ReceiveResult
  BY <1>0, <1>2, <1>13 DEF ReceiveResult, AgentRecord
<1>14. CASE NextTurn
  <2>1. CASE agent.turn = MaxTurns
    BY <1>4, <1>14, <2>1 DEF NextTurn
  <2>2. CASE agent.turn # MaxTurns
    <3>1. agent'.turn = agent.turn + 1 /\ agent'.retries = agent.retries
          /\ agent'.at = "turn" /\ agent.at = "calling"
      BY <1>0, <1>14, <2>2 DEF NextTurn, AgentRecord
    <3>2. TurnsLeft' = TurnsLeft
      BY <1>0, <3>1 DEF TurnsLeft
    <3>3. QED BY <3>1, <3>2 DEF RetryBound
  <2>3. QED BY <2>1, <2>2
<1>15. CASE OtherChunk \/ \E replaySafe \in BOOLEAN : TakeCapabilityCall(replaySafe)
  BY <1>3, <1>15 DEF OtherChunk, TakeCapabilityCall, TakeFrame
<1>16. CASE \/ TakeRunAccepted \/ TakeOutputDelta \/ TakeResourceUsage
            \/ TakeFinalResult \/ TakeRunFailure
  BY <1>3, <1>16 DEF TakeRunAccepted, TakeOutputDelta, TakeResourceUsage, TakeFinalResult,
       TakeRunFailure, TakeFrame
<1>17. ASSUME NEW retryable \in BOOLEAN, RequestFails(retryable) PROVE RetryBound'
  <2>1. AgentFails(retryable) \/ UNCHANGED agent
    BY <1>17 DEF RequestFails
  <2>2. QED BY <1>3, <1>4, <2>1
<1>18. CASE TurnTimesOut
  BY <1>4, <1>18 DEF TurnTimesOut
<1>19. CASE RefuseFrame \/ EndOfStream \/ StreamBreaks \/ RunIsStopped
  BY <1>6, <1>7, <1>19 DEF RefuseFrame, EndOfStream, StreamBreaks, RunIsStopped
<1>20. QED
  BY <1>8, <1>9, <1>10, <1>11, <1>12, <1>13, <1>14, <1>15, <1>16, <1>17, <1>18, <1>19 DEF AgentNext

LEMMA IntakeStaysBounded ==
  ASSUME AgentTypes, AgentTypes', IntakeBound, AgentNext
  PROVE  IntakeBound'
<1>0. /\ intake \in IntakeRecord /\ intake.attempt \in Nat /\ intake.final \in Nat
      /\ MaxRunAttempts \in Nat \ {0} /\ MaxOutputBytes \in Nat
  BY AgentAssumption DEF AgentAssumption, AgentTypes, IntakeRecord
<1>1. CASE intake'.attempt = intake.attempt /\ intake'.final = intake.final
  BY <1>1 DEF IntakeBound
<1>2. ASSUME NEW at, NEW refused, Stop(at, refused) PROVE IntakeBound'
  BY <1>0, <1>1, <1>2 DEF Stop, IntakeRecord
<1>3. ASSUME NEW r, FailOrRetry(r) PROVE IntakeBound'
  <2>1. CASE intake' = NewIntake(intake.attempt + 1) /\ intake.attempt < MaxRunAttempts
    <3>1. intake'.attempt = intake.attempt + 1 /\ intake'.final = 0
      BY <2>1 DEF NewIntake
    <3>2. QED BY <1>0, <2>1, <3>1 DEF IntakeBound
  <2>2. QED BY <1>2, <1>3, <2>1 DEF FailOrRetry
<1>4. CASE RefuseFrame \/ EndOfStream \/ StreamBreaks \/ RunIsStopped
  BY <1>2, <1>3, <1>4 DEF RefuseFrame, EndOfStream, StreamBreaks, RunIsStopped
<1>5. Taken(Head(wire)) \in IntakeRecord
      /\ Taken(Head(wire)).attempt = intake.attempt /\ Taken(Head(wire)).final = intake.final
  <2>1. intake.expected + 1 \in Nat
    <3>1. intake.expected \in Nat
      BY <1>0 DEF IntakeRecord
    <3>2. QED BY <3>1
  <2>2. Taken(Head(wire)) = [intake EXCEPT !.expected = intake.expected + 1]
    BY DEF Taken
  <2>3. QED BY <1>0, <2>1, <2>2 DEF IntakeRecord
<1>6. CASE TakeRunAccepted
  BY <1>0, <1>1, <1>5, <1>6 DEF TakeRunAccepted, IntakeRecord
<1>7. CASE TakeOutputDelta
  BY <1>0, <1>1, <1>5, <1>7 DEF TakeOutputDelta, IntakeRecord
<1>8. CASE TakeResourceUsage
  <2>1. PICK u, n, c : intake' = [Taken(Head(wire)) EXCEPT !.units = u, !.retries = n,
                                                           !.cost = c, !.usage = TRUE]
    BY <1>8 DEF TakeResourceUsage
  <2>2. QED BY <1>0, <1>1, <1>5, <2>1 DEF IntakeRecord
<1>9. CASE TakeRunFailure
  <2>1. PICK f : intake' = [Taken(Head(wire)) EXCEPT !.failure = f]
    BY <1>9 DEF TakeRunFailure
  <2>2. QED BY <1>0, <1>1, <1>5, <2>1 DEF IntakeRecord
<1>10. ASSUME NEW replaySafe \in BOOLEAN, TakeCapabilityCall(replaySafe) PROVE IntakeBound'
  <2>1. PICK S, s : intake' = [Taken(Head(wire)) EXCEPT !.seen = S, !.safe = s]
    BY <1>10 DEF TakeCapabilityCall
  <2>2. QED BY <1>0, <1>1, <1>5, <2>1 DEF IntakeRecord
<1>11. CASE TakeFinalResult
  <2>1. /\ intake' = [Taken(Head(wire)) EXCEPT !.final = Head(wire).arg]
        /\ Head(wire).body = "final_result" /\ Refusal(Head(wire)) = "none"
    BY <1>11 DEF TakeFinalResult, TakeFrame
  <2>2. ~(Head(wire).arg > MaxOutputBytes)
    BY <2>1 DEF Refusal
  <2>3. intake'.attempt = intake.attempt /\ intake'.final = Head(wire).arg
    BY <1>0, <1>5, <2>1 DEF IntakeRecord
  <2>4. intake'.final \in Nat
    BY DEF AgentTypes, IntakeRecord
  <2>5. QED BY <1>0, <2>2, <2>3, <2>4 DEF IntakeBound
<1>12. CASE UNCHANGED intake
  BY <1>1, <1>12
<1>13. QED
  BY <1>4, <1>6, <1>7, <1>8, <1>9, <1>10, <1>11, <1>12
     DEF AgentNext, TextChunk, OtherChunk, TurnTimesOut, RequestFails, TurnCompletes, FinalReply,
         CountCalls, RequestCapability, ReceiveResult, NextTurn, AgentFails, FrameWithheld

LEMMA WireStaysBounded ==
  ASSUME AgentTypes, AgentInv', WireBound, AgentNext
  PROVE  WireBound'
<1>0. wire \in Seq(Frames) /\ results \in Seq(CallIds) /\ WireSize \in Nat \ {0}
  BY AgentAssumption DEF AgentAssumption, AgentTypes
<1>1. Len(wire') <= WireSize
  <2>1. CASE wire' = wire \/ wire' = <<>> \/ (wire # <<>> /\ wire' = Tail(wire))
    BY <1>0, <2>1 DEF WireBound
  <2>2. CASE wire' = <<Frame(1, "run_accepted", 0)>>
    <3>1. Len(wire') = 1
      BY <2>2
    <3>2. QED BY <1>0, <3>1
  <2>3. ASSUME NEW f, CanSend, wire' = Append(wire, f) PROVE Len(wire') <= WireSize
    BY <1>0, <2>3 DEF CanSend
  <2>4. \/ wire' = wire \/ wire' = <<>> \/ (wire # <<>> /\ wire' = Tail(wire))
        \/ wire' = <<Frame(1, "run_accepted", 0)>>
        \/ CanSend /\ \E f : wire' = Append(wire, f)
    BY DEF AgentNext, TextChunk, OtherChunk, TurnTimesOut, RequestFails, TurnCompletes, FinalReply,
         CountCalls, RequestCapability, ReceiveResult, NextTurn, AgentFails, FrameWithheld,
         SendFrame, RefuseFrame, TakeRunAccepted, TakeOutputDelta, TakeResourceUsage,
         TakeCapabilityCall, TakeFinalResult, TakeRunFailure, EndOfStream, StreamBreaks,
         RunIsStopped, TakeFrame, Stop, FailOrRetry
  <2>5. QED BY <2>1, <2>2, <2>3, <2>4
<1>2. Len(results') <= 1
  <2>1. CASE Receiving'
    <3>1. Counted'
      BY <2>1 DEF AgentInv, UnderWay
    <3>2. results' # <<>> => Len(results') = 1
      BY <3>1 DEF Counted
    <3>3. CASE results' = <<>>
      <4>1. Len(results') = 0
        BY <3>3
      <4>2. QED BY <4>1
    <3>4. QED
      <4>1. CASE results' = <<>>
        BY <3>3, <4>1
      <4>2. CASE results' # <<>>
        <5>1. Len(results') = 1
          BY <3>2, <4>2
        <5>2. QED BY <5>1
      <4>3. QED BY <4>1, <4>2
  <2>2. CASE ~Receiving'
    <3>1. \/ UNCHANGED results
          \/ results' = <<>>
          \/ results # <<>> /\ results' = Tail(results)
          \/ \E r \in BOOLEAN : TakeCapabilityCall(r)
      <4>1. CASE RefuseFrame \/ EndOfStream \/ StreamBreaks \/ RunIsStopped
        <5>1. \A at, refused : Stop(at, refused) => results' = <<>>
          BY DEF Stop
        <5>2. \A r : FailOrRetry(r) => results' = <<>>
          BY <5>1 DEF FailOrRetry
        <5>3. EndOfStream => results' = <<>>
          BY <5>1, <5>2 DEF EndOfStream
        <5>4. RefuseFrame \/ StreamBreaks \/ RunIsStopped => results' = <<>>
          BY <5>1, <5>2 DEF RefuseFrame, StreamBreaks, RunIsStopped
        <5>5. QED BY <4>1, <5>3, <5>4
      <4>2. TakeRunAccepted \/ TakeOutputDelta \/ TakeResourceUsage => UNCHANGED results
        BY DEF TakeRunAccepted, TakeOutputDelta, TakeResourceUsage
      <4>a. TakeFinalResult \/ TakeRunFailure => UNCHANGED results
        BY DEF TakeFinalResult, TakeRunFailure
      <4>3. CASE ReceiveResult
        BY <4>3 DEF ReceiveResult
      <4>4. \A r : AgentFails(r) \/ FrameWithheld => UNCHANGED results
        BY DEF AgentFails, FrameWithheld
      <4>5. TextChunk \/ OtherChunk \/ TurnTimesOut => UNCHANGED results
        BY <4>4 DEF TextChunk, OtherChunk, TurnTimesOut
      <4>b. FinalReply \/ CountCalls \/ NextTurn => UNCHANGED results
        BY <4>4 DEF FinalReply, CountCalls, NextTurn
      <4>6. \A r : RequestFails(r) \/ RequestCapability(r) => UNCHANGED results
        BY <4>4 DEF RequestFails, RequestCapability
      <4>c. \A u, c, ids : TurnCompletes(u, c, ids) => UNCHANGED results
        BY <4>4 DEF TurnCompletes
      <4>7. QED BY <4>1, <4>2, <4>3, <4>5, <4>6, <4>a, <4>b, <4>c DEF AgentNext
    <3>2. ASSUME NEW r \in BOOLEAN, TakeCapabilityCall(r) PROVE FALSE
      <4>1. intake.at = "receiving" /\ intake \in IntakeRecord
        BY <3>2 DEF TakeCapabilityCall, TakeFrame, Receiving, AgentTypes
      <4>2. PICK S, s : intake' = [Taken(Head(wire)) EXCEPT !.seen = S, !.safe = s]
        BY <3>2 DEF TakeCapabilityCall
      <4>3. intake'.at = "receiving"
        BY <4>1, <4>2 DEF Taken, IntakeRecord
      <4>4. QED BY <2>2, <4>3 DEF Receiving
    <3>3. QED BY <1>0, <2>2, <3>1, <3>2 DEF Receiving, WireBound
  <2>3. QED BY <2>1, <2>2
<1>3. QED BY <1>1, <1>2 DEF WireBound

\* The invariant, and what a Run can use up, hold together.
Bounds == RequestBound /\ AgentBound /\ RetryBound /\ WireBound /\ IntakeBound

LEMMA AgentKeeps == AgentSpec => [](AgentInv /\ Bounds)
<1>1. AgentInit => Bounds
  <2> SUFFICES ASSUME AgentInit PROVE Bounds
    OBVIOUS
  <2>1. Len(wire) = 1 /\ Len(results) = 0
    BY DEF AgentInit
  <2>2. RequestBound /\ AgentBound /\ WireBound /\ IntakeBound
    BY <2>1, AgentAssumption
    DEF AgentAssumption, AgentInit, RequestBound, AgentBound, WireBound, IntakeBound, FirstRequest,
        NewAgent, NewIntake
  <2>3. RetryBound
    <3>1. /\ MaxTurns \in Nat \ {0} /\ ProviderRetries \in Nat /\ RetriesBound \in Nat
          /\ MaxTurns * ProviderRetries <= RetriesBound
      BY AgentAssumption
    <3>2. agent.retries = 0 /\ agent.at = "turn" /\ agent.turn = 1
      BY DEF AgentInit, NewAgent
    <3>3. TurnsLeft = MaxTurns /\ MaxTurns * ProviderRetries \in Nat
      BY <3>1, <3>2 DEF TurnsLeft
    <3>4. QED BY <3>1, <3>2, <3>3 DEF RetryBound
  <2>4. QED BY <2>2, <2>3 DEF Bounds
<1>2. AgentInv /\ Bounds /\ [AgentNext]_agentVars => AgentInv' /\ Bounds'
  <2> SUFFICES ASSUME AgentInv, Bounds, [AgentNext]_agentVars PROVE AgentInv' /\ Bounds'
    OBVIOUS
  <2>1. AgentTypes /\ AgentInv' /\ AgentTypes'
    BY StreamSteps DEF AgentInv, Bounds, RetryBound
  <2>2. CASE AgentNext
    BY <2>1, <2>2, RequestStaysBounded, AgentStaysBounded, RetriesStayBounded, IntakeStaysBounded,
       WireStaysBounded DEF Bounds
  <2>3. CASE UNCHANGED agentVars
    BY <2>1, <2>3
    DEF agentVars, Bounds, RequestBound, AgentBound, RetryBound, TurnsLeft, WireBound, IntakeBound
  <2>4. QED BY <2>2, <2>3
<1>3. QED
  BY <1>1, <1>2, StreamBegins, PTL DEF AgentSpec

\* The engine refuses no frame of the agent: whatever the model answers, however its requests
\* fail and its turns end, every check of executeClaimedRun (sequence, arguments, budgets,
\* repeated ids, usage that goes down or beyond the protocol, a second terminal frame) passes,
\* but for the failure behind a frame the runtime itself withheld, a call whose arguments are
\* JSON to Python's reader alone, and a cost above the protocol's bound in a Run that has no
\* budget for it (orchestrator.go, protocol.go, runtime.py, core.py).
THEOREM StreamAgrees == AgentSpec => []FramesAreTaken
<1>1. AgentInv => FramesAreTaken
  BY DEF AgentInv
<1>2. QED
  BY <1>1, AgentKeeps, PTL

\* A Run that succeeded has shown its reply chunk by chunk, each once and no other of that turn,
\* whatever was shown in attempts before.
THEOREM RepliesAreShownOnce == AgentSpec => []ReplyIsShownOnce
<1>1. AgentInv => ReplyIsShownOnce
  BY DEF AgentInv
<1>2. QED
  BY <1>1, AgentKeeps, PTL

\* No Run, on either side, asks a provider more often, takes more turns, writes more output or is
\* attempted more often than its budget and the retry limits allow, and one result at most is
\* under way to the agent (orchestrator.go, runtime.py, core.py, openai_compatible.py).
THEOREM AgentTypesHold == AgentSpec => []AgentTypeOK
<1>1. AgentInv /\ Bounds => AgentTypeOK
  <2> SUFFICES ASSUME AgentInv, Bounds PROVE AgentTypeOK
    OBVIOUS
  <2>1. AgentTypes
    BY DEF AgentInv
  <2>2. request \in [attempt : 0..ProviderRetries, received : BOOLEAN, text : 0..AnswerLength]
    <3>1. request \in [attempt : Nat, received : BOOLEAN, text : Nat]
      BY <2>1 DEF AgentTypes, RequestRecord
    <3>2. request.attempt \in 0..ProviderRetries /\ request.text \in 0..AnswerLength
      BY <3>1, AgentAssumption DEF AgentAssumption, Bounds, RequestBound
    <3>3. QED BY <3>1, <3>2
  <2>3. agent.output \in 0..MaxOutputBytes /\ intake.final \in 0..MaxOutputBytes
    <3>1. agent.output \in Nat /\ intake.final \in Nat
      BY <2>1 DEF AgentTypes, AgentRecord, IntakeRecord
    <3>2. QED BY <3>1, AgentAssumption DEF AgentAssumption, Bounds, AgentBound, IntakeBound
  <2>4. /\ agent.at \in {"turn", "answered", "calling", "waiting", "ended"}
        /\ agent.seen \in SUBSET CallIds
        /\ intake.at \in {"receiving", "succeeded", "failed", "stopped"}
    BY <2>1 DEF AgentTypes, AgentRecord, IntakeRecord
  <2>5. agent.turn \in 1..MaxTurns /\ intake.attempt \in 1..MaxRunAttempts
        /\ Len(wire) <= WireSize /\ Len(results) <= 1
    BY DEF Bounds, AgentBound, WireBound, IntakeBound
  <2>6. QED
    BY <2>2, <2>3, <2>4, <2>5 DEF AgentTypeOK
<1>2. QED
  BY <1>1, AgentKeeps, PTL
=============================================================================
