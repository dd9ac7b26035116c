---------------------------- MODULE AccessProofs ----------------------------
(***************************************************************************)
(* The ways in, for any users, deliveries, runners, settings and           *)
(* generations.  Intake: what a worker has read of the tables stays true,  *)
(* because rows are only added and nobody is enabled again, so the Echo it *)
(* makes is of the message it stored.  QQ manager: a runner is either the  *)
(* manager's own or has been told to stop; only the latter returns, so     *)
(* that what it still reports cannot belong to the manager's runner.       *)
(* Service: a save that comes after the loop has read the settings leaves  *)
(* a notice, and the loop takes one only on its way back to reading them.  *)
(***************************************************************************)
EXTENDS QQManager, AccessIntake, EventStream, ServiceControl, Integers, FiniteSetTheorems, SequenceTheorems, TLAPS

\* The runner that the manager would cancel has started and was not cancelled.
OwnPart == qqCancel \in QQRunners => qqCancel \notin cancelled /\ runnerAt[qqCancel] # "none"

\* Between the end of an old runner and the start of a new one there is none.
BetweenPart == qqOperation \in {"await", "start", "drain"} => qqCancel = NoRunner

\* Only runners that were started are cancelled, and only those return.
CancelPart == \A r \in QQRunners :
    /\ runnerAt[r] = "none" => r \notin cancelled
    /\ runnerAt[r] \in {"returned", "done"} => r \in cancelled

QQInv == QQTypeOK /\ OwnPart /\ BetweenPart /\ CancelPart /\ RunnerIsCurrent

LEMMA InitIsInv == QQInit => QQInv
<1> SUFFICES ASSUME QQInit PROVE QQInv
  OBVIOUS
<1>1. 0 \in 0..MaxGeneration /\ QQOff \in QQContents /\ NoRunner \notin QQRunners
  BY QQAssumption DEF QQAssumption
<1> QED
  BY <1>1 DEF QQInit, QQInv, QQTypeOK, OwnPart, BetweenPart, CancelPart, RunnerIsCurrent,
              Settings, Down, Alive

LEMMA TypesStay ==
    ASSUME QQTypeOK, [QQNext]_qqVars
    PROVE  QQTypeOK'
<1> USE DEF QQTypeOK, qqMemory, runnerVars
<1>0. 1 \in 0..MaxGeneration /\ MaxGeneration \in Nat
  BY QQAssumption DEF QQAssumption
<1>1. ASSUME NEW content \in QQContents, StartManager(content)
      PROVE  QQTypeOK'
  <2>1. [generation |-> 1, content |-> content] \in Settings
    BY <1>0 DEF Settings
  <2>2. qqRow' \in Settings
    BY <1>1, <2>1 DEF StartManager
  <2> QED
    BY <1>1, <2>2 DEF StartManager
<1>2. ASSUME NEW g \in 1..MaxGeneration, NEW content \in QQContents, UpdateSettings(g, content)
      PROVE  QQTypeOK'
  <2>1. qqRow.generation + 1 \in 0..MaxGeneration
    BY <1>0, <1>2 DEF UpdateSettings, Settings
  <2>2. Swapped(content) \in Settings
    BY <2>1 DEF Swapped, Settings
  <2> QED
    BY <1>2, <2>2 DEF UpdateSettings
<1>3. CASE Replace
  BY <1>3 DEF Replace, TakeDown, Down
<1>4. CASE Shutdown
  BY <1>4 DEF Shutdown, TakeDown, Down
<1>5. CASE AwaitOld
  BY <1>5 DEF AwaitOld
<1>6. CASE StopTimesOut
  BY <1>6 DEF StopTimesOut
<1>7. CASE StartNone
  BY <1>7 DEF StartNone
<1>8. ASSUME NEW r \in QQRunners, StartRunner(r)
      PROVE  QQTypeOK'
  <2>1. qqSettings.generation \in 0..MaxGeneration
    BY DEF Settings
  <2>2. runnerOf' \in [QQRunners -> 0..MaxGeneration]
    BY <1>8, <2>1 DEF StartRunner
  <2>3. qqStatus' \in [running : BOOLEAN, connected : BOOLEAN]
    BY <1>8 DEF StartRunner
  <2> QED
    BY <1>8, <2>2, <2>3 DEF StartRunner
<1>9. ASSUME NEW r \in QQRunners, Connect(r)
      PROVE  QQTypeOK'
  BY <1>9 DEF Connect, Moves, Report
<1>10. ASSUME NEW r \in QQRunners, DialFails(r)
      PROVE  QQTypeOK'
  BY <1>10 DEF DialFails, Moves, Interrupted
<1>11. ASSUME NEW r \in QQRunners, Disconnect(r)
      PROVE  QQTypeOK'
  BY <1>11 DEF Disconnect, Moves, Report, Interrupted
<1>12. ASSUME NEW r \in QQRunners, Reconnect(r)
      PROVE  QQTypeOK'
  BY <1>12 DEF Reconnect, Moves
<1>13. ASSUME NEW r \in QQRunners, RunnerEnds(r)
      PROVE  QQTypeOK'
  BY <1>13 DEF RunnerEnds, Moves, Report, Down
<1>14. CASE UNCHANGED qqVars
  BY <1>14 DEF qqVars
<1> HIDE DEF QQTypeOK, qqMemory, runnerVars
<1> QED
  BY <1>1, <1>2, <1>3, <1>4, <1>5, <1>6, <1>7, <1>8, <1>9,
     <1>10, <1>11, <1>12, <1>13, <1>14 DEF QQNext, RunnerStep

LEMMA PartsStay ==
    ASSUME QQInv, [QQNext]_qqVars
    PROVE  OwnPart' /\ BetweenPart' /\ CancelPart' /\ RunnerIsCurrent'
<1> DEFINE Parts == OwnPart /\ BetweenPart /\ CancelPart /\ RunnerIsCurrent
<1>0. NoRunner \notin QQRunners
  BY QQAssumption DEF QQAssumption
<1> USE <1>0 DEF QQInv, QQTypeOK, OwnPart, BetweenPart, CancelPart, RunnerIsCurrent, Alive,
            qqMemory, runnerVars
<1>1. ASSUME NEW content \in QQContents, StartManager(content)
      PROVE  Parts'
  BY <1>1 DEF StartManager
<1>2. ASSUME NEW g \in 1..MaxGeneration, NEW content \in QQContents, UpdateSettings(g, content)
      PROVE  Parts'
  BY <1>2 DEF UpdateSettings
<1>3. CASE Replace
  BY <1>3 DEF Replace, TakeDown, Down
<1>4. CASE Shutdown
  BY <1>4 DEF Shutdown, TakeDown, Down
<1>5. CASE AwaitOld
  BY <1>5 DEF AwaitOld
<1>6. CASE StopTimesOut
  BY <1>6 DEF StopTimesOut
<1>7. CASE StartNone
  BY <1>7 DEF StartNone
<1>8. ASSUME NEW r \in QQRunners, StartRunner(r)
      PROVE  Parts'
  BY <1>8 DEF StartRunner
<1>9. ASSUME NEW r \in QQRunners, Connect(r)
      PROVE  Parts'
  BY <1>9 DEF Connect, Moves, Report, Reports
<1>10. ASSUME NEW r \in QQRunners, DialFails(r)
      PROVE  Parts'
  BY <1>10 DEF DialFails, Moves, Interrupted
<1>11. ASSUME NEW r \in QQRunners, Disconnect(r)
      PROVE  Parts'
  BY <1>11 DEF Disconnect, Moves, Report, Interrupted, Reports
<1>12. ASSUME NEW r \in QQRunners, Reconnect(r)
      PROVE  Parts'
  BY <1>12 DEF Reconnect, Moves
<1>13. ASSUME NEW r \in QQRunners, RunnerEnds(r)
      PROVE  Parts'
  BY <1>13 DEF RunnerEnds, Moves, Report, Down, Reports
<1>14. CASE UNCHANGED qqVars
  BY <1>14 DEF qqVars
<1> HIDE DEF QQInv, QQTypeOK, OwnPart, BetweenPart, CancelPart, RunnerIsCurrent, Alive,
            qqMemory, runnerVars
<1> QED
  BY <1>1, <1>2, <1>3, <1>4, <1>5, <1>6, <1>7, <1>8, <1>9,
     <1>10, <1>11, <1>12, <1>13, <1>14 DEF QQNext, RunnerStep

\* The manager's and its runners' variables stay in their domains: a stored
\* generation never passes the last one, no runner is told of that is not there.
THEOREM QQTypesHold == QQSpec => []QQTypeOK
<1>1. QQInv /\ [QQNext]_qqVars => QQInv'
  BY TypesStay, PartsStay DEF QQInv
<1>2. QQInv => QQTypeOK
  BY DEF QQInv
<1> QED
  BY <1>1, <1>2, InitIsInv, PTL DEF QQSpec

\* Through replacements, stops that time out and reports that come late, the
\* status tells of the manager's runner with the settings in force
\* (manager.go:88).
THEOREM RunnerStaysCurrent == QQSpec => []RunnerIsCurrent
<1>1. QQInv /\ [QQNext]_qqVars => QQInv'
  BY TypesStay, PartsStay DEF QQInv
<1>2. QQInv => RunnerIsCurrent
  BY DEF QQInv
<1> QED
  BY <1>1, <1>2, InitIsInv, PTL DEF QQSpec

-----------------------------------------------------------------------------
(* Intake *)

\* Where a worker is, its user is known to be a member, to belong to the
\* Session, to have the message stored.
AtMember == {"session", "message", "echo"}
AtJoined == {"message", "echo"}

IntakeTypes ==
    /\ membership \subseteq Internal
    /\ userRow \in [Internal -> {"none", "active", "disabled"}]
    /\ binding \in [Identities -> Internal \union {NoUser}]
    /\ messageRow \in [Keys -> SUBSET [session : Sessions, sender : Internal,
                                       text : {d.text : d \in Deliveries}]]
    /\ DOMAIN echoRow = Keys
    /\ workerAt \in [IntakeWorkers -> Places]
    /\ delivery \in [IntakeWorkers -> SUBSET Deliveries]
    /\ resolved \in [IntakeWorkers -> Internal \union {NoUser}]
    /\ shutOut \in [IntakeWorkers -> SUBSET Internal]

AtUser == {"ensure user", "ensure member", "user", "member", "session", "message", "echo"}

WorkerOk(w) ==
    /\ workerAt[w] # "idle" => \E d \in Deliveries : delivery[w] = {d}
    /\ workerAt[w] \in AtUser => resolved[w] \in Internal
    /\ \A u \in shutOut[w] : userRow[u] = "disabled"
    /\ workerAt[w] \in {"member"} \union AtMember => resolved[w] \notin shutOut[w]
    /\ workerAt[w] \in AtMember => resolved[w] \in membership
    /\ workerAt[w] \in AtJoined => <<SessionOf(w), resolved[w]>> \in joined
    /\ workerAt[w] = "echo" => MessageOf(w) \in messageRow[DeliveryOf(w).key]

EchoesOk == \A k \in Keys : \A e \in echoRow[k] :
    e \in messageRow[k] /\ e.sender \in membership /\ <<e.session, e.sender>> \in joined

IntakeInv == IntakeTypes /\ EchoesOk /\ \A w \in IntakeWorkers : WorkerOk(w)

LEMMA IntakeInitInv == IntakeInit => IntakeInv
  BY IntakeAssumption
     DEF IntakeInit, IntakeInv, IntakeTypes, EchoesOk, WorkerOk, AtMember, AtJoined, AtUser,
         Internal, Identities, IdentityOf, Places

\* The handler has one delivery, whose user and key are known.
LEMMA DeliveryIs ==
  ASSUME IntakeInv, NEW w \in IntakeWorkers, workerAt[w] # "idle"
  PROVE  /\ delivery[w] = {DeliveryOf(w)} /\ DeliveryOf(w) \in Deliveries
         /\ DeliveryOf(w).key \in Keys /\ DeliveryOf(w).from \in Internal
         /\ IdentityOf(DeliveryOf(w)) \in Identities
  <1>1. PICK d \in Deliveries : delivery[w] = {d}
    BY DEF IntakeInv, WorkerOk
  <1>2. DeliveryOf(w) = d
    BY <1>1 DEF DeliveryOf
  <1> QED
    BY <1>1, <1>2, IntakeAssumption DEF Keys, Internal, Identities

\* What a worker knows stays true when another one, or the operator, acts:
\* rows of members, joined users and messages are only added, and nobody is
\* enabled again.
LEMMA KnowledgeStays ==
  ASSUME NEW w \in IntakeWorkers, WorkerOk(w), IntakeTypes,
         workerAt'[w] = workerAt[w], delivery'[w] = delivery[w],
         resolved'[w] = resolved[w], shutOut'[w] = shutOut[w],
         \A u \in Internal : userRow[u] = "disabled" => userRow'[u] = "disabled",
         membership \subseteq membership', joined \subseteq joined',
         \A k \in Keys : messageRow[k] \subseteq messageRow'[k]
  PROVE  WorkerOk(w)'
  <1>1. DeliveryOf(w)' = DeliveryOf(w) /\ SessionOf(w)' = SessionOf(w)
        /\ MessageOf(w)' = MessageOf(w)
    BY DEF DeliveryOf, SessionOf, MessageOf
  <1>2. workerAt[w] = "echo" => DeliveryOf(w).key \in Keys
    BY DEF WorkerOk, DeliveryOf, Keys
  <1>3. shutOut[w] \subseteq Internal
    BY DEF IntakeTypes
  <1> QED
    BY <1>1, <1>2, <1>3 DEF WorkerOk

\* The others, in a step of one worker.
LEMMA OthersStay ==
  ASSUME IntakeInv, NEW w \in IntakeWorkers,
         \A v \in IntakeWorkers \ {w} :
            /\ workerAt'[v] = workerAt[v] /\ delivery'[v] = delivery[v]
            /\ resolved'[v] = resolved[v] /\ shutOut'[v] = shutOut[v],
         \A u \in Internal : userRow[u] = "disabled" => userRow'[u] = "disabled",
         membership \subseteq membership', joined \subseteq joined',
         \A k \in Keys : messageRow[k] \subseteq messageRow'[k],
         WorkerOk(w)'
  PROVE  \A v \in IntakeWorkers : WorkerOk(v)'
  <1> SUFFICES ASSUME NEW v \in IntakeWorkers PROVE WorkerOk(v)'
    OBVIOUS
  <1>1. CASE v = w
    BY <1>1
  <1>2. CASE v # w
    BY <1>2, KnowledgeStays DEF IntakeInv
  <1> QED
    BY <1>1, <1>2

\* A worker that has left knows nothing.
LEMMA LeaveInv ==
  ASSUME IntakeInv, NEW w \in IntakeWorkers, Leave(w),
         UNCHANGED <<identityRows, messageRow, joined, echoRow>>
  PROVE  IntakeInv'
  <1>1. WorkerOk(w)'
    BY DEF IntakeInv, IntakeTypes, Leave, GoTo, WorkerOk, AtMember, AtJoined, AtUser
  <1>2. \A v \in IntakeWorkers : WorkerOk(v)'
    BY <1>1, OthersStay DEF Leave, GoTo, IntakeInv, IntakeTypes, identityRows
  <1>3. IntakeTypes'
    BY DEF IntakeInv, IntakeTypes, Leave, GoTo, identityRows, Places
  <1>4. EchoesOk'
    BY DEF IntakeInv, EchoesOk, identityRows
  <1> QED
    BY <1>2, <1>3, <1>4 DEF IntakeInv

\* A command of the operator.
LEMMA OperateInv == ASSUME IntakeInv, Operate PROVE IntakeInv'
  <1>1. UNCHANGED <<joined, messageRow, echoRow, workerAt, delivery, resolved, shutOut>>
        /\ membership \subseteq membership' /\ membership' \subseteq Internal
    BY DEF Operate, ProvisionUser, ProvisionMember, DisableUser, UnbindIdentity,
           ProvisionBinding, sessionRows, worker, IntakeInv, IntakeTypes
  <1>2. /\ \A u \in Internal : userRow[u] = "disabled" => userRow'[u] = "disabled"
        /\ userRow' \in [Internal -> {"none", "active", "disabled"}]
    BY DEF Operate, ProvisionUser, ProvisionMember, DisableUser, UnbindIdentity,
           ProvisionBinding, InsertUser, IntakeInv, IntakeTypes
  <1>3. binding' \in [Identities -> Internal \union {NoUser}]
    BY DEF Operate, ProvisionUser, ProvisionMember, DisableUser, UnbindIdentity,
           ProvisionBinding, IntakeInv, IntakeTypes
  <1>4. IntakeTypes' /\ EchoesOk'
    BY <1>1, <1>2, <1>3 DEF IntakeInv, IntakeTypes, EchoesOk
  <1>5. \A w \in IntakeWorkers : WorkerOk(w)'
    BY <1>1, <1>2, KnowledgeStays DEF IntakeInv
  <1> QED
    BY <1>4, <1>5 DEF IntakeInv

\* A step that goes on with a worker and writes no row.
LEMMA ReadInv ==
  ASSUME IntakeInv, NEW w \in IntakeWorkers,
         UNCHANGED <<identityRows, messageRow, joined, echoRow>>,
         \A v \in IntakeWorkers \ {w} :
            /\ workerAt'[v] = workerAt[v] /\ delivery'[v] = delivery[v]
            /\ resolved'[v] = resolved[v] /\ shutOut'[v] = shutOut[v],
         IntakeTypes', WorkerOk(w)'
  PROVE  IntakeInv'
  <1>1. \A v \in IntakeWorkers : WorkerOk(v)'
    BY OthersStay DEF IntakeInv, IntakeTypes, identityRows
  <1>2. EchoesOk'
    BY DEF IntakeInv, EchoesOk, identityRows
  <1> QED
    BY <1>1, <1>2 DEF IntakeInv

\* The reads, each of which leaves the worker or takes it one place further.
LEMMA ReadsInv ==
  ASSUME IntakeInv, NEW w \in IntakeWorkers,
         \/ \E d \in Deliveries : TakeDelivery(w, d)
         \/ ReadBinding(w) \/ ReadUser(w) \/ ReadMemberOfQQ(w) \/ ReadMember(w)
         \/ Fail(w)
  PROVE  IntakeInv'
  <1>1. CASE Leave(w) /\ UNCHANGED <<identityRows, sessionRows>>
    BY <1>1, LeaveInv DEF sessionRows
  <1>2. ASSUME NEW d \in Deliveries, TakeDelivery(w, d) PROVE IntakeInv'
    <2>1. IntakeTypes'
      BY <1>2 DEF TakeDelivery, GoTo, IntakeInv, IntakeTypes, identityRows, sessionRows, Places
    <2>2. WorkerOk(w)'
      BY <1>2 DEF TakeDelivery, GoTo, IntakeInv, IntakeTypes, WorkerOk, AtMember,
                  AtJoined, AtUser, identityRows
    <2> QED
      BY <1>2, <2>1, <2>2, ReadInv
         DEF TakeDelivery, GoTo, IntakeInv, IntakeTypes, sessionRows
  <1>3. CASE ReadBinding(w) /\ ~Leave(w)
    <2>1. IntakeTypes'
      BY <1>3, DeliveryIs DEF ReadBinding, Continue, GoTo, IntakeInv, IntakeTypes,
                  identityRows, sessionRows, Places
    <2>2. WorkerOk(w)'
      BY <1>3, DeliveryIs DEF ReadBinding, Continue, GoTo, IntakeInv, IntakeTypes,
                  WorkerOk, AtMember, AtJoined, AtUser, identityRows
    <2> QED
      BY <1>3, <2>1, <2>2, ReadInv
         DEF ReadBinding, Continue, GoTo, IntakeInv, IntakeTypes, sessionRows
  <1>4. CASE ReadUser(w) /\ ~Leave(w)
    <2>1. IntakeTypes'
      BY <1>4 DEF ReadUser, Continue, GoTo, IntakeInv, IntakeTypes,
                  identityRows, sessionRows, Places
    <2>2. WorkerOk(w)'
      BY <1>4 DEF ReadUser, Refused, Continue, GoTo, IntakeInv, IntakeTypes,
                  WorkerOk, AtMember, AtJoined, AtUser, identityRows
    <2> QED
      BY <1>4, <2>1, <2>2, ReadInv
         DEF ReadUser, Continue, GoTo, IntakeInv, IntakeTypes, sessionRows
  <1>5. CASE ReadMemberOfQQ(w) /\ ~Leave(w)
    <2>1. IntakeTypes'
      BY <1>5 DEF ReadMemberOfQQ, Continue, GoTo, IntakeInv, IntakeTypes,
                  identityRows, sessionRows, Places
    <2>2. WorkerOk(w)'
      BY <1>5 DEF ReadMemberOfQQ, Continue, GoTo, IntakeInv, IntakeTypes,
                  WorkerOk, AtMember, AtJoined, AtUser, identityRows
    <2> QED
      BY <1>5, <2>1, <2>2, ReadInv
         DEF ReadMemberOfQQ, Continue, GoTo, IntakeInv, IntakeTypes, sessionRows
  <1>6. CASE ReadMember(w) /\ ~Leave(w)
    <2>1. IntakeTypes'
      BY <1>6 DEF ReadMember, Continue, GoTo, IntakeInv, IntakeTypes,
                  identityRows, sessionRows, Places
    <2>2. WorkerOk(w)'
      BY <1>6 DEF ReadMember, Continue, GoTo, IntakeInv, IntakeTypes,
                  WorkerOk, AtMember, AtJoined, AtUser, identityRows
    <2> QED
      BY <1>6, <2>1, <2>2, ReadInv
         DEF ReadMember, Continue, GoTo, IntakeInv, IntakeTypes, sessionRows
  <1> QED
    BY <1>1, <1>2, <1>3, <1>4, <1>5, <1>6
       DEF ReadBinding, ReadUser, ReadMemberOfQQ, ReadMember, Fail

\* The writes of the provisioner.
LEMMA ProvisionInv ==
  ASSUME IntakeInv, NEW w \in IntakeWorkers,
         CreateQQUser(w) \/ AddMember(w) \/ Bind(w)
  PROVE  IntakeInv'
  <1>1. CASE Leave(w) /\ UNCHANGED <<identityRows, sessionRows>>
    BY <1>1, LeaveInv DEF sessionRows
  <1>2. CASE ~(Leave(w) /\ UNCHANGED <<identityRows, sessionRows>>)
    <2>1. workerAt[w] # "idle" /\ UNCHANGED sessionRows
      BY DEF CreateQQUser, AddMember, Bind
    <2>2. IntakeTypes'
      <3>1. /\ DeliveryOf(w).from \in Internal /\ IdentityOf(DeliveryOf(w)) \in Identities
            /\ IntakeTypes
        BY <2>1, DeliveryIs DEF IntakeInv
      <3>2. CASE CreateQQUser(w)
        BY <2>1, <3>1, <3>2
           DEF CreateQQUser, InsertUser, Continue, GoTo, IntakeTypes, sessionRows, Places
      <3>3. CASE AddMember(w)
        BY <2>1, <3>1, <3>3 DEF AddMember, Continue, GoTo, IntakeTypes, sessionRows, Places
      <3>4. CASE Bind(w)
        BY <1>2, <2>1, <3>1, <3>4
           DEF Bind, Continue, GoTo, IntakeTypes, identityRows, sessionRows, Places
      <3> QED
        BY <3>2, <3>3, <3>4
    <2>3. /\ \A u \in Internal : userRow[u] = "disabled" => userRow'[u] = "disabled"
          /\ membership \subseteq membership'
      BY <2>1, DeliveryIs
         DEF CreateQQUser, AddMember, Bind, InsertUser, IntakeInv, IntakeTypes
    <2>4. WorkerOk(w)'
      BY <1>2, <2>1, <2>3
         DEF CreateQQUser, AddMember, Bind, Continue, GoTo, IntakeInv, IntakeTypes,
             WorkerOk, AtMember, AtJoined, AtUser, identityRows
    <2>5. \A v \in IntakeWorkers : WorkerOk(v)'
      BY <1>2, <2>1, <2>3, <2>4, OthersStay
         DEF CreateQQUser, AddMember, Bind, Continue, GoTo, IntakeInv, IntakeTypes,
             sessionRows, identityRows
    <2>6. EchoesOk'
      BY <2>1, <2>3 DEF IntakeInv, EchoesOk, sessionRows
    <2> QED
      BY <2>2, <2>5, <2>6 DEF IntakeInv
  <1> QED
    BY <1>1, <1>2

\* The Session of a worker's delivery, and the message it makes of it.
LEMMA MessageIs ==
  ASSUME IntakeInv, NEW w \in IntakeWorkers, workerAt[w] \in AtMember
  PROVE  /\ SessionOf(w) \in Sessions
         /\ MessageOf(w) \in [session : Sessions, sender : Internal,
                               text : {d.text : d \in Deliveries}]
  <1>1. DeliveryOf(w) \in Deliveries /\ resolved[w] \in Internal
    BY DeliveryIs DEF AtMember, IntakeInv, WorkerOk, AtUser
  <1>2. SessionOf(w) \in Sessions
    BY <1>1 DEF SessionOf, Sessions
  <1> QED
    BY <1>1, <1>2 DEF MessageOf

\* The writes of Intake, and the Echo.
LEMMA EnsureSessionInv ==
  ASSUME IntakeInv, NEW w \in IntakeWorkers, EnsureSession(w) PROVE IntakeInv'
  <1>1. CASE Leave(w) /\ UNCHANGED <<identityRows, sessionRows>>
    BY <1>1, LeaveInv DEF sessionRows
  <1>2. CASE ~(Leave(w) /\ UNCHANGED <<identityRows, sessionRows>>)
    <2>1. /\ workerAt[w] = "session" /\ Continue(w, "message")
          /\ joined' = joined \union {<<SessionOf(w), resolved[w]>>}
          /\ UNCHANGED <<identityRows, messageRow, echoRow>>
      BY <1>2 DEF EnsureSession, sessionRows
    <2>2. SessionOf(w)' = SessionOf(w)
      BY <2>1 DEF Continue, SessionOf, DeliveryOf
    <2>3. WorkerOk(w)'
      BY <2>1, <2>2 DEF Continue, GoTo, IntakeInv, IntakeTypes, WorkerOk, AtMember,
                        AtJoined, AtUser, identityRows
    <2>4. \A v \in IntakeWorkers : WorkerOk(v)'
      BY <2>1, <2>3, OthersStay DEF Continue, GoTo, IntakeInv, IntakeTypes, identityRows
    <2>5. IntakeTypes'
      BY <2>1 DEF Continue, GoTo, IntakeInv, IntakeTypes, identityRows, Places
    <2>6. EchoesOk'
      BY <2>1 DEF IntakeInv, EchoesOk, identityRows
    <2> QED
      BY <2>4, <2>5, <2>6 DEF IntakeInv
  <1> QED
    BY <1>1, <1>2

LEMMA CreateMessageInv ==
  ASSUME IntakeInv, NEW w \in IntakeWorkers, CreateMessage(w) PROVE IntakeInv'
  <1>1. CASE Leave(w) /\ UNCHANGED <<identityRows, sessionRows>>
    BY <1>1, LeaveInv DEF sessionRows
  <1>2. CASE ~(Leave(w) /\ UNCHANGED <<identityRows, sessionRows>>)
    <2> DEFINE k == DeliveryOf(w).key
    <2>0. k \in Keys /\ MessageOf(w) \in [session : Sessions, sender : Internal,
                                          text : {d.text : d \in Deliveries}]
      BY DeliveryIs, MessageIs DEF CreateMessage, AtMember
    <2>1. /\ workerAt[w] = "message" /\ Continue(w, "echo")
          /\ UNCHANGED <<identityRows, joined, echoRow>>
      BY <1>2 DEF CreateMessage, sessionRows
    <2>2. \/ /\ messageRow[k] = {}
             /\ messageRow' = [messageRow EXCEPT ![k] = {MessageOf(w)}]
          \/ /\ UNCHANGED messageRow /\ messageRow[k] # {}
             /\ \A old \in messageRow[k] : old = MessageOf(w)
      BY <1>2 DEF CreateMessage, SameMessage, sessionRows
    <2>3. /\ MessageOf(w) \in messageRow'[k]
          /\ \A x \in Keys : messageRow[x] \subseteq messageRow'[x]
          /\ messageRow' \in [Keys -> SUBSET [session : Sessions, sender : Internal,
                                              text : {d.text : d \in Deliveries}]]
      BY <2>0, <2>2 DEF IntakeInv, IntakeTypes
    <2>4. UNCHANGED <<SessionOf(w), MessageOf(w), DeliveryOf(w)>>
      BY <2>1 DEF Continue, SessionOf, MessageOf, DeliveryOf
    <2>5. WorkerOk(w)'
      BY <2>1, <2>3, <2>4 DEF Continue, GoTo, IntakeInv, IntakeTypes, WorkerOk, AtMember,
                        AtJoined, AtUser, identityRows
    <2> HIDE DEF k
    <2>6. \A v \in IntakeWorkers : WorkerOk(v)'
      BY <2>1, <2>3, <2>5, OthersStay DEF Continue, GoTo, IntakeInv, IntakeTypes, identityRows
    <2>7. IntakeTypes'
      BY <2>1, <2>3 DEF Continue, GoTo, IntakeInv, IntakeTypes, identityRows, Places
    <2>8. EchoesOk'
      BY <2>1, <2>3 DEF IntakeInv, EchoesOk, IntakeTypes, identityRows
    <2> QED
      BY <2>6, <2>7, <2>8 DEF IntakeInv
  <1> QED
    BY <1>1, <1>2

LEMMA CreateEchoInv ==
  ASSUME IntakeInv, NEW w \in IntakeWorkers, CreateEchoOf(w) PROVE IntakeInv'
  <1> DEFINE k == DeliveryOf(w).key
  <1>0. k \in Keys /\ workerAt[w] = "echo"
    BY DeliveryIs DEF CreateEchoOf
  <1>1. /\ Leave(w) /\ UNCHANGED <<identityRows, joined, messageRow>>
        /\ \/ UNCHANGED echoRow
           \/ echoRow' = [echoRow EXCEPT ![k] = IF @ = {} THEN {MessageOf(w)} ELSE @]
    BY DEF CreateEchoOf
  <1>2. /\ MessageOf(w) \in messageRow[k] /\ MessageOf(w).sender \in membership
        /\ <<MessageOf(w).session, MessageOf(w).sender>> \in joined
    BY <1>0 DEF IntakeInv, WorkerOk, AtMember, AtJoined, MessageOf
  <1> HIDE DEF k
  <1>3. EchoesOk'
    <2> SUFFICES ASSUME NEW x \in Keys, NEW e \in echoRow'[x]
                 PROVE  /\ e \in messageRow[x] /\ e.sender \in membership
                        /\ <<e.session, e.sender>> \in joined
      BY <1>1 DEF EchoesOk, identityRows
    <2>1. e \in echoRow[x] \/ (x = k /\ e = MessageOf(w))
      BY <1>0, <1>1 DEF IntakeInv, IntakeTypes
    <2> QED
      BY <2>1, <1>2 DEF IntakeInv, EchoesOk
  <1>4. WorkerOk(w)'
    BY <1>1 DEF IntakeInv, IntakeTypes, Leave, GoTo, WorkerOk, AtMember, AtJoined, AtUser
  <1>5. \A v \in IntakeWorkers : WorkerOk(v)'
    BY <1>1, <1>4, OthersStay DEF Leave, GoTo, IntakeInv, IntakeTypes, identityRows
  <1>6. IntakeTypes'
    BY <1>1 DEF IntakeInv, IntakeTypes, Leave, GoTo, identityRows, Places
  <1> QED
    BY <1>3, <1>5, <1>6 DEF IntakeInv

LEMMA IntakeStepInv == IntakeInv /\ [IntakeNext]_intakeVars => IntakeInv'
  <1> SUFFICES ASSUME IntakeInv, [IntakeNext]_intakeVars PROVE IntakeInv'
    OBVIOUS
  <1>1. CASE Operate
    BY <1>1, OperateInv
  <1>2. ASSUME NEW w \in IntakeWorkers, Handle(w) PROVE IntakeInv'
    BY <1>2, ReadsInv, ProvisionInv, EnsureSessionInv, CreateMessageInv, CreateEchoInv
       DEF Handle
  <1>3. ASSUME NEW w \in IntakeWorkers,
               Fail(w) \/ \E d \in Deliveries : TakeDelivery(w, d)
        PROVE  IntakeInv'
    BY <1>3, ReadsInv
  <1>4. CASE UNCHANGED intakeVars
    <2>1. IntakeTypes' /\ EchoesOk'
      BY <1>4 DEF IntakeInv, IntakeTypes, EchoesOk, intakeVars, identityRows, sessionRows, worker
    <2>2. \A w \in IntakeWorkers : WorkerOk(w)'
      BY <1>4, KnowledgeStays DEF IntakeInv, intakeVars, identityRows, sessionRows, worker
    <2> QED
      BY <2>1, <2>2 DEF IntakeInv
  <1> QED
    BY <1>1, <1>2, <1>3, <1>4 DEF IntakeNext

LEMMA IntakeInvHolds == IntakeSpec => []IntakeInv
  BY IntakeInitInv, IntakeStepInv, PTL DEF IntakeSpec

\* However deliveries repeat, cross and fail, and whatever the operator does
\* between two statements of an intake (hub.go:102): the Echo names the sender,
\* Session and text of the stored message with its key.
THEOREM EchoesAreOfTheirMessages == IntakeSpec => []EchoIsOfItsMessage
  <1>1. IntakeInv => EchoIsOfItsMessage
    BY DEF IntakeInv, EchoesOk, EchoIsOfItsMessage
  <1> QED
    BY <1>1, IntakeInvHolds, PTL

\* Nobody is enabled again, and every way to the Session goes through the
\* status of the user that was resolved last (service.go:98).
THEOREM DisabledStayOut == IntakeSpec => []DisabledAreShutOut
  <1>1. IntakeInv => DisabledAreShutOut
    BY DEF IntakeInv, WorkerOk, AtMember, DisabledAreShutOut
  <1> QED
    BY <1>1, IntakeInvHolds, PTL

\* What the types need beyond IntakeInv: rows are single, who is idle holds no
\* delivery, and members are of Sessions that deliveries can name.
Joinable == Sessions \X Internal
IntakeShape ==
    /\ commands \in 0..MaxCommands
    /\ joined \subseteq Joinable
    /\ \A k \in Keys : /\ \A x, y \in messageRow[k] : x = y
                       /\ \A x, y \in echoRow[k] : x = y
    /\ \A w \in IntakeWorkers : workerAt[w] = "idle" => delivery[w] = {}

LEMMA ShapeStays == ASSUME IntakeInv, IntakeShape, [IntakeNext]_intakeVars PROVE IntakeShape'
  <1> USE DEF IntakeShape, identityRows, sessionRows, worker
  <1>0. IntakeTypes /\ MaxCommands \in Nat
    BY IntakeAssumption DEF IntakeInv
  <1>1. CASE UNCHANGED intakeVars
    BY <1>1 DEF intakeVars
  <1>2. CASE Operate
    <2>1. UNCHANGED <<joined, messageRow, echoRow, workerAt, delivery>>
      BY <1>2 DEF Operate, ProvisionUser, ProvisionMember, DisableUser, UnbindIdentity,
             ProvisionBinding
    <2>2. commands' \in 0..MaxCommands
      BY <1>0, <1>2 DEF Operate
    <2> QED
      BY <2>1, <2>2
  <1>3. ASSUME NEW w \in IntakeWorkers, NEW d \in Deliveries, TakeDelivery(w, d), UNCHANGED commands
        PROVE  IntakeShape'
    <2>1. UNCHANGED <<joined, messageRow, echoRow, commands>>
      BY <1>3 DEF TakeDelivery
    <2>2. \A v \in IntakeWorkers : workerAt'[v] = "idle" => delivery'[v] = {}
      <3>1. workerAt' = [workerAt EXCEPT ![w] = IF d.via = "qq" THEN "ensure binding" ELSE "binding"]
            /\ delivery' = [delivery EXCEPT ![w] = {d}]
        BY <1>3 DEF TakeDelivery, GoTo
      <3> QED
        BY <1>0, <3>1 DEF IntakeTypes
    <2> QED
      BY <2>1, <2>2
  <1>4. ASSUME NEW w \in IntakeWorkers, Leave(w), UNCHANGED <<joined, messageRow, commands>>,
               \A k \in Keys : \A x, y \in echoRow'[k] : x = y
        PROVE  IntakeShape'
    BY <1>0, <1>4 DEF Leave, GoTo, IntakeTypes
  <1>5. ASSUME NEW w \in IntakeWorkers, NEW place \in Places \ {"idle"}, GoTo(w, place),
               UNCHANGED <<delivery, echoRow, commands>>,
               joined' \subseteq Joinable,
               \A k \in Keys : \A x, y \in messageRow'[k] : x = y
        PROVE  IntakeShape'
    BY <1>0, <1>5 DEF GoTo, IntakeTypes
  <1>6. ASSUME NEW w \in IntakeWorkers, Handle(w), UNCHANGED commands PROVE IntakeShape'
    <2> USE DEF Continue, Places
    <2>1. CASE \/ ReadBinding(w) \/ ReadUser(w) \/ ReadMemberOfQQ(w) \/ CreateQQUser(w)
               \/ AddMember(w) \/ Bind(w) \/ ReadMember(w)
      <3>1. UNCHANGED <<joined, messageRow, echoRow>>
        BY <2>1 DEF ReadBinding, ReadUser, ReadMemberOfQQ, CreateQQUser, AddMember, Bind, ReadMember
      <3>2. Leave(w) \/ \E place \in Places \ {"idle"} : GoTo(w, place) /\ UNCHANGED delivery
        <4>1. CASE ReadBinding(w)
          BY <4>1 DEF ReadBinding
        <4>2. CASE Bind(w)
          BY <4>2 DEF Bind
        <4>3. CASE ReadUser(w) \/ ReadMemberOfQQ(w) \/ CreateQQUser(w) \/ AddMember(w) \/ ReadMember(w)
          BY <4>3 DEF ReadUser, ReadMemberOfQQ, CreateQQUser, AddMember, ReadMember
        <4> QED
          BY <2>1, <4>1, <4>2, <4>3
      <3>3. CASE Leave(w)
        BY <1>4, <1>6, <3>1, <3>3
      <3>4. ASSUME NEW place \in Places \ {"idle"}, GoTo(w, place), UNCHANGED delivery
            PROVE  IntakeShape'
        BY <1>5, <1>6, <3>1, <3>4
      <3> QED
        BY <3>2, <3>3, <3>4
    <2>2. CASE EnsureSession(w)
      <3>1. SessionOf(w) \in Sessions /\ resolved[w] \in Internal
        <4>1. workerAt[w] # "idle" /\ workerAt[w] \in AtUser
          BY <2>2 DEF EnsureSession, AtUser
        <4>2. resolved[w] \in Internal /\ DeliveryOf(w) \in Deliveries
          BY <4>1, DeliveryIs DEF IntakeInv, WorkerOk
        <4> QED
          BY <4>2 DEF SessionOf, Sessions
      <3>2. CASE Leave(w) /\ UNCHANGED joined
        BY <1>4, <1>6, <2>2, <3>2 DEF EnsureSession
      <3>3. CASE /\ joined' = joined \union {<<SessionOf(w), resolved[w]>>}
                 /\ Continue(w, "message")
        <4>1. joined' \subseteq Joinable
          <5>1. <<SessionOf(w), resolved[w]>> \in Joinable
            BY <3>1 DEF Joinable
          <5> QED
            BY <3>3, <5>1 DEF IntakeShape
        <4>2. UNCHANGED <<messageRow, echoRow>>
          BY <2>2 DEF EnsureSession
        <4> QED
          BY <1>5, <1>6, <3>3, <4>1, <4>2
      <3> QED
        BY <2>2, <3>2, <3>3 DEF EnsureSession
    <2>3. CASE CreateMessage(w)
      <3>1. \A k \in Keys : \A x, y \in messageRow'[k] : x = y
        <4>1. \/ messageRow' = messageRow
              \/ messageRow' = [messageRow EXCEPT ![DeliveryOf(w).key] = {MessageOf(w)}]
          BY <2>3 DEF CreateMessage
        <4>2. DOMAIN messageRow = Keys
          BY <1>0 DEF IntakeTypes
        <4>3. \A k \in Keys : messageRow'[k] \in {messageRow[k], {MessageOf(w)}}
          BY <4>1, <4>2
        <4> QED
          BY <4>3
      <3>2. \/ Leave(w) /\ UNCHANGED <<joined, messageRow, echoRow>>
            \/ Continue(w, "echo") /\ UNCHANGED <<joined, echoRow>>
        BY <2>3 DEF CreateMessage
      <3>3. CASE Leave(w) /\ UNCHANGED <<joined, messageRow, echoRow>>
        BY <1>4, <1>6, <3>3
      <3>4. CASE Continue(w, "echo") /\ UNCHANGED <<joined, echoRow>>
        BY <1>5, <1>6, <3>1, <3>4
      <3> QED
        BY <3>2, <3>3, <3>4
    <2>4. CASE CreateEchoOf(w)
      <3>1. \A k \in Keys : \A x, y \in echoRow'[k] : x = y
        <4>1. \/ echoRow' = echoRow
              \/ echoRow' = [echoRow EXCEPT ![DeliveryOf(w).key] =
                               IF echoRow[DeliveryOf(w).key] = {} THEN {MessageOf(w)}
                               ELSE echoRow[DeliveryOf(w).key]]
          BY <2>4 DEF CreateEchoOf
        <4>2. DOMAIN echoRow = Keys
          BY <1>0 DEF IntakeTypes
        <4>3. \A k \in Keys : echoRow'[k] \in {echoRow[k], {MessageOf(w)}}
          BY <4>1, <4>2
        <4> QED
          BY <4>3
      <3> QED
        BY <1>4, <1>6, <2>4, <3>1 DEF CreateEchoOf
    <2> QED
      BY <1>6, <2>1, <2>2, <2>3, <2>4 DEF Handle
  <1>7. ASSUME NEW w \in IntakeWorkers, Fail(w), UNCHANGED commands PROVE IntakeShape'
    BY <1>4, <1>7 DEF Fail
  <1> QED
    BY <1>1, <1>2, <1>3, <1>6, <1>7 DEF IntakeNext

\* Rows and workers stay in their domains: there is one message and one Echo to
\* a key at most, and a worker holds the one delivery it handles.
THEOREM IntakeTypesHold == IntakeSpec => []IntakeTypeOK
  <1>1. IntakeInit => IntakeShape
    BY IntakeAssumption DEF IntakeInit, IntakeShape
  <1>2. IntakeInv /\ IntakeShape => IntakeTypeOK
    <2> SUFFICES ASSUME IntakeInv, IntakeShape PROVE IntakeTypeOK
      OBVIOUS
    <2>0. Cardinality({}) = 0
      BY FS_EmptySet
    <2>1. ASSUME NEW S, \A x, y \in S : x = y PROVE Cardinality(S) <= 1
      <3>1. CASE S = {}
        BY <2>0, <3>1
      <3>2. CASE S # {}
        <4>1. PICK x \in S : S = {x}
          BY <2>1, <3>2
        <4>2. Cardinality({x}) = 1
          BY FS_Singleton
        <4> QED
          BY <4>1, <4>2
      <3> QED
        BY <3>1, <3>2
    <2>2. ASSUME NEW w \in IntakeWorkers
          PROVE  Cardinality(delivery[w]) = IF workerAt[w] = "idle" THEN 0 ELSE 1
      <3>1. CASE workerAt[w] = "idle"
        BY <2>0, <3>1 DEF IntakeShape
      <3>2. CASE workerAt[w] # "idle"
        <4>1. PICK d \in Deliveries : delivery[w] = {d}
          BY <3>2 DEF IntakeInv, WorkerOk
        <4>2. Cardinality({d}) = 1
          BY FS_Singleton
        <4> QED
          BY <3>2, <4>1, <4>2
      <3> QED
        BY <3>1, <3>2
    <2>3. \A k \in Keys : Cardinality(messageRow[k]) <= 1 /\ Cardinality(echoRow[k]) <= 1
      BY <2>1 DEF IntakeShape
    <2> QED
      BY <2>2, <2>3 DEF IntakeInv, IntakeTypes, IntakeShape, IntakeTypeOK, Joinable
  <1>3. IntakeInv /\ IntakeShape /\ [IntakeNext]_intakeVars => IntakeShape'
    BY ShapeStays
  <1> QED
    BY <1>1, <1>2, <1>3, IntakeInvHolds, PTL DEF IntakeSpec

-----------------------------------------------------------------------------
(* The event streams *)

\* The events that were published, and how far a stream has come.
Published == IF engine = "persisted" THEN Len(eventLog) - 1 ELSE Len(eventLog)
Reach(s) == resumeFrom[s] + Len(sent[s])
Follows(s) == streamAt[s] \in {"subscribed", "reading", "live"}
\* The numbers that follow b, one by one.
RunFrom(q, b) == \A i \in 1..Len(q) : q[i] = b + i

\* Only the last event is a terminal one.
LogPart ==
    /\ engine = "persisted" => Len(eventLog) > 0
    /\ \A i \in 1..Len(eventLog) : eventLog[i] \in TerminalTypes => i = Len(eventLog)

\* The channel holds a run of published events, which reaches to the last of
\* them unless the hub has cut the stream off, and begins where the stream has
\* come to or before.
ChannelOk(s) ==
    \E b \in Nat :
        /\ RunFrom(channel[s], b)
        /\ b + Len(channel[s]) <= Published
        /\ s \notin dropped => b + Len(channel[s]) = Published
        /\ streamAt[s] = "live" => b <= Reach(s)

SubscribedOk(s) ==
    /\ s \in subscribers => s \notin dropped /\ (Follows(s) \/ streamAt[s] = "live unread")
    /\ Follows(s) /\ s \notin dropped => s \in subscribers \/ engine = "finished"

PlaceOk(s) ==
    /\ streamAt[s] = "none" => sent[s] = <<>> /\ channel[s] = <<>> /\ s \notin dropped
    /\ streamAt[s] \in {"subscribed", "reading"} => sent[s] = <<>>
    /\ streamAt[s] = "reading" /\ rowRead[s] => engine \in EchoEnded
    /\ Follows(s) => Reach(s) <= Len(eventLog)
    /\ Follows(s) \/ streamAt[s] = "done" => RunFrom(sent[s], resumeFrom[s])
    /\ streamAt[s] = "done" /\ s \notin dropped =>
          /\ Reach(s) = Len(eventLog)
          /\ HasTerminal(eventLog) \/ engine \in EchoEnded

StreamOk(s) ==
    /\ SubscribedOk(s)
    /\ PlaceOk(s)
    /\ Follows(s) => ChannelOk(s)

StreamInv == StreamTypeOK /\ LogPart /\ \A s \in Streams : StreamOk(s)

LEMMA StreamInitInv == StreamInit => StreamInv
<1> SUFFICES ASSUME StreamInit PROVE StreamInv
  OBVIOUS
<1>1. <<>> \in Seq(EventTypes) /\ <<>> \in Seq(Nat) /\ Len(<<>>) = 0
  OBVIOUS
<1>2. StreamTypeOK
  BY <1>1 DEF StreamInit, StreamTypeOK, Kinds
<1>3. LogPart
  BY <1>1 DEF StreamInit, LogPart
<1>4. ASSUME NEW s \in Streams PROVE StreamOk(s)
  BY <1>1 DEF StreamInit, StreamOk, SubscribedOk, PlaceOk, Follows
<1> QED
  BY <1>2, <1>3, <1>4 DEF StreamInv

LEMMA ReachIsNat == ASSUME StreamTypeOK, NEW s \in Streams
                    PROVE  /\ Len(sent[s]) \in Nat /\ resumeFrom[s] \in Nat /\ Reach(s) \in Nat
                           /\ sent[s] \in Seq(Nat)
                           /\ channel[s] \in Seq(Nat) /\ Len(channel[s]) \in Nat
                           /\ Len(eventLog) \in Nat
<1>1. sent[s] \in Seq(Nat) /\ channel[s] \in Seq(Nat) /\ resumeFrom[s] \in Nat
  BY DEF StreamTypeOK
<1>2. Len(sent[s]) \in Nat /\ Len(channel[s]) \in Nat /\ Len(eventLog) \in Nat
  BY <1>1, LenProperties DEF StreamTypeOK
<1> QED
  BY <1>1, <1>2 DEF Reach

\* A sequence in step ends where the stream has come to.
LEMMA LastIsReach ==
    ASSUME StreamTypeOK, NEW s \in Streams, RunFrom(sent[s], resumeFrom[s])
    PROVE  LastSent(s) = Reach(s)
<1>1. sent[s] \in Seq(Nat) /\ Len(sent[s]) \in Nat /\ resumeFrom[s] \in Nat
  BY ReachIsNat
<1>2. CASE sent[s] = <<>>
  <2>1. Len(sent[s]) = 0
    BY <1>2
  <2> QED
    BY <1>1, <1>2, <2>1 DEF LastSent, Reach
<1>3. CASE sent[s] # <<>>
  <2>1. Len(sent[s]) # 0
    BY <1>1, <1>3, EmptySeq
  <2>2. Len(sent[s]) \in 1..Len(sent[s])
    BY <1>1, <2>1
  <2> QED
    BY <1>3, <2>2 DEF LastSent, Reach, RunFrom
<1> QED
  BY <1>2, <1>3

\* A run that is continued, and one whose first number is taken.
LEMMA RunAppend ==
    ASSUME NEW q \in Seq(Nat), NEW b \in Nat, RunFrom(q, b), NEW n \in Nat, n = b + Len(q) + 1
    PROVE  /\ RunFrom(Append(q, n), b) /\ Len(Append(q, n)) = Len(q) + 1
           /\ Append(q, n) \in Seq(Nat)
<1>1. Len(q) \in Nat
  BY LenProperties
<1>2. /\ Append(q, n) \in Seq(Nat) /\ Len(Append(q, n)) = Len(q) + 1
      /\ \A i \in 1..Len(q) : Append(q, n)[i] = q[i]
      /\ Append(q, n)[Len(q) + 1] = n
  BY AppendProperties
<1>3. ASSUME NEW i \in 1..(Len(q) + 1) PROVE Append(q, n)[i] = b + i
  <2>1. CASE i \in 1..Len(q)
    BY <1>2, <2>1 DEF RunFrom
  <2>2. CASE i = Len(q) + 1
    BY <1>1, <1>2, <2>2
  <2> QED
    BY <1>1, <2>1, <2>2
<1> QED
  BY <1>2, <1>3 DEF RunFrom

LEMMA RunTail ==
    ASSUME NEW q \in Seq(Nat), NEW b \in Nat, RunFrom(q, b), q # <<>>
    PROVE  /\ Head(q) = b + 1 /\ RunFrom(Tail(q), b + 1) /\ Len(Tail(q)) = Len(q) - 1
           /\ Tail(q) \in Seq(Nat) /\ Len(q) > 0
<1>1. Len(q) \in Nat /\ Len(q) # 0
  BY LenProperties, EmptySeq
<1>2. /\ Tail(q) \in Seq(Nat) /\ Len(Tail(q)) = Len(q) - 1
      /\ \A i \in 1..Len(Tail(q)) : Tail(q)[i] = q[i + 1]
  BY <1>1, HeadTailProperties
<1>3. Head(q) = q[1]
  OBVIOUS
<1>4. ASSUME NEW i \in 1..Len(Tail(q)) PROVE Tail(q)[i] = b + 1 + i
  <2>1. i + 1 \in 1..Len(q)
    BY <1>1, <1>2
  <2> QED
    BY <1>2, <2>1 DEF RunFrom
<1> QED
  BY <1>1, <1>2, <1>3, <1>4 DEF RunFrom

-----------------------------------------------------------------------------
\* A step that leaves a stream and the log alone.
LEMMA StreamKept ==
    ASSUME NEW s \in Streams, StreamOk(s), eventLog' = eventLog, engine' = engine,
           channel'[s] = channel[s], streamAt'[s] = streamAt[s], rowRead'[s] = rowRead[s],
           resumeFrom'[s] = resumeFrom[s], sent'[s] = sent[s],
           s \in subscribers' <=> s \in subscribers, s \in dropped' <=> s \in dropped
    PROVE  StreamOk(s)'
<1>1. Published' = Published /\ Reach(s)' = Reach(s) /\ Follows(s)' = Follows(s)
  BY DEF Published, Reach, Follows
<1>2. SubscribedOk(s)'
  BY <1>1 DEF StreamOk, SubscribedOk
<1>3. PlaceOk(s)'
  BY <1>1 DEF StreamOk, PlaceOk, HasTerminal
<1>4. Follows(s) => ChannelOk(s)'
  BY <1>1 DEF StreamOk, ChannelOk, RunFrom
<1> QED
  BY <1>1, <1>2, <1>3, <1>4 DEF StreamOk

\* Steps of the engine.
LEMMA PersistInv ==
    ASSUME StreamInv, NEW type \in EventTypes, PersistEvent(type)
    PROVE  StreamInv'
<1>1. /\ engine = "running" /\ ~HasTerminal(eventLog) /\ eventLog' = Append(eventLog, type)
      /\ engine' = "persisted" /\ subscribers' = subscribers /\ dropped' = dropped
      /\ channel' = channel /\ kindOf' = kindOf /\ resumeFrom' = resumeFrom
      /\ streamAt' = streamAt /\ rowRead' = rowRead /\ sent' = sent
  BY DEF PersistEvent, hubVars, requestVars
<1>2. eventLog \in Seq(EventTypes) /\ StreamTypeOK
  BY DEF StreamInv, StreamTypeOK
<1>3. Len(eventLog) \in Nat
  BY <1>2, LenProperties
<1>4. /\ eventLog' \in Seq(EventTypes) /\ Len(eventLog') = Len(eventLog) + 1
      /\ \A i \in 1..Len(eventLog) : eventLog'[i] = eventLog[i]
  BY <1>1, <1>2, AppendProperties
<1>5. Published' = Published
  BY <1>1, <1>3, <1>4 DEF Published
<1>6. StreamTypeOK'
  BY <1>1, <1>2, <1>4 DEF StreamTypeOK
<1>7. LogPart'
  <2>1. ASSUME NEW i \in 1..Len(eventLog'), eventLog'[i] \in TerminalTypes PROVE i = Len(eventLog')
    <3>1. i \in 1..Len(eventLog) => eventLog[i] \in TerminalTypes
      BY <1>4, <2>1
    <3>2. i \notin 1..Len(eventLog)
      BY <1>1, <3>1 DEF HasTerminal
    <3> QED
      BY <1>3, <1>4, <3>2
  <2> QED
    BY <1>3, <1>4, <2>1 DEF LogPart
<1>8. ASSUME NEW s \in Streams PROVE StreamOk(s)'
  <2>1. SubscribedOk(s) /\ PlaceOk(s) /\ (Follows(s) => ChannelOk(s))
    BY DEF StreamInv, StreamOk
  <2>2. Reach(s)' = Reach(s) /\ Follows(s)' = Follows(s) /\ Reach(s) \in Nat
    BY <1>1, <1>2, ReachIsNat DEF Reach, Follows
  <2>3. SubscribedOk(s)'
    BY <1>1, <2>1, <2>2 DEF SubscribedOk
  <2>4. PlaceOk(s)'
    BY <1>1, <1>3, <1>4, <2>1, <2>2 DEF PlaceOk, RunFrom, EchoEnded
  <2>5. Follows(s) => ChannelOk(s)'
    BY <1>1, <1>5, <2>1, <2>2 DEF ChannelOk, RunFrom
  <2> QED
    BY <2>2, <2>3, <2>4, <2>5 DEF StreamOk
<1> QED
  BY <1>6, <1>7, <1>8 DEF StreamInv

LEMMA PublishInv == ASSUME StreamInv, PublishEvent PROVE StreamInv'
<1> DEFINE slow == {s \in subscribers : Full(s)}
<1>1. /\ engine = "persisted" /\ engine' = "running"
      /\ eventLog' = eventLog /\ kindOf' = kindOf /\ resumeFrom' = resumeFrom
      /\ streamAt' = streamAt /\ rowRead' = rowRead /\ sent' = sent
      /\ subscribers' = subscribers \ slow /\ dropped' = dropped \union slow
      /\ channel' = [s \in Streams |-> IF s \in subscribers \ slow
                                       THEN Append(channel[s], Len(eventLog)) ELSE channel[s]]
      /\ slow \subseteq subscribers
  BY DEF PublishEvent, requestVars
<1> HIDE DEF slow
<1>2. StreamTypeOK /\ Len(eventLog) \in Nat
  BY LenProperties DEF StreamInv, StreamTypeOK
<1>3. Len(eventLog) > 0 /\ Published = Len(eventLog) - 1 /\ Published' = Published + 1
      /\ Published' = Len(eventLog)
  BY <1>1, <1>2 DEF Published, StreamInv, LogPart
<1>4. channel' \in [Streams -> Seq(Nat)]
  <2>1. \A s \in Streams : channel[s] \in Seq(Nat) /\ Append(channel[s], Len(eventLog)) \in Seq(Nat)
    BY <1>2, AppendProperties DEF StreamTypeOK
  <2> QED
    BY <1>1, <2>1
<1>5. StreamTypeOK'
  BY <1>1, <1>2, <1>4 DEF StreamTypeOK
<1>6. LogPart'
  BY <1>1 DEF StreamInv, LogPart
<1>7. ASSUME NEW s \in Streams PROVE StreamOk(s)'
  <2>1. SubscribedOk(s) /\ PlaceOk(s) /\ (Follows(s) => ChannelOk(s))
    BY DEF StreamInv, StreamOk
  <2>2. /\ Reach(s)' = Reach(s) /\ Follows(s)' = Follows(s) /\ Reach(s) \in Nat
        /\ channel[s] \in Seq(Nat) /\ Len(channel[s]) \in Nat
    BY <1>1, <1>2, ReachIsNat DEF Reach, Follows
  <2>3. SubscribedOk(s)'
    BY <1>1, <2>1, <2>2 DEF SubscribedOk
  <2>4. PlaceOk(s)'
    BY <1>1, <2>1, <2>2 DEF PlaceOk, HasTerminal, Follows, SubscribedOk, EchoEnded
  <2>5. ASSUME Follows(s) PROVE ChannelOk(s)'
    <3>1. PICK b \in Nat : /\ RunFrom(channel[s], b)
                           /\ b + Len(channel[s]) <= Published
                           /\ s \notin dropped => b + Len(channel[s]) = Published
                           /\ streamAt[s] = "live" => b <= Reach(s)
      BY <2>1, <2>5 DEF ChannelOk
    <3>2. CASE s \in subscribers \ slow
      <4>1. s \notin dropped /\ channel'[s] = Append(channel[s], Len(eventLog))
        BY <1>1, <2>1, <3>2 DEF SubscribedOk
      <4>2. Len(eventLog) = b + Len(channel[s]) + 1
        BY <1>2, <1>3, <2>2, <3>1, <4>1
      <4>3. RunFrom(channel'[s], b) /\ Len(channel'[s]) = Len(channel[s]) + 1
        BY <1>2, <2>2, <3>1, <4>1, <4>2, RunAppend
      <4>4. b + Len(channel'[s]) = Published'
        BY <1>3, <2>2, <4>2, <4>3
      <4>5. streamAt'[s] = "live" => b <= Reach(s)'
        BY <1>1, <2>2, <3>1
      <4>6. b + Len(channel'[s]) <= Published'
        BY <1>2, <1>3, <4>4
      <4> QED
        BY <4>3, <4>4, <4>5, <4>6 DEF ChannelOk
    <3>3. CASE s \notin subscribers \ slow
      <4>1. s \in dropped' /\ channel'[s] = channel[s]
        BY <1>1, <2>1, <2>5, <3>3 DEF SubscribedOk
      <4> QED
        BY <1>1, <1>2, <1>3, <2>2, <3>1, <4>1 DEF ChannelOk
    <3> QED
      BY <3>2, <3>3
  <2> QED
    BY <2>2, <2>3, <2>4, <2>5 DEF StreamOk
<1> QED
  BY <1>5, <1>6, <1>7 DEF StreamInv

LEMMA EndInv ==
    ASSUME StreamInv, EndEcho \/ FinishStreams \/ FinishIsMissed \/ FinishLater
    PROVE  StreamInv'
<1>1. /\ engine \in {"running", "ended", "missed"} /\ engine' \in EchoEnded
      /\ eventLog' = eventLog /\ channel' = channel /\ dropped' = dropped /\ kindOf' = kindOf
      /\ resumeFrom' = resumeFrom /\ streamAt' = streamAt /\ rowRead' = rowRead /\ sent' = sent
      /\ subscribers' = subscribers \/ (subscribers' = {} /\ engine' = "finished")
  BY DEF EndEcho, FinishStreams, FinishIsMissed, FinishLater, FinishFrom, EchoEnded,
         hubVars, requestVars
<1>2. Published' = Published
  BY <1>1 DEF Published, EchoEnded
<1>3. StreamTypeOK'
  BY <1>1 DEF StreamInv, StreamTypeOK
<1>4. LogPart'
  BY <1>1 DEF StreamInv, LogPart, EchoEnded
<1>5. ASSUME NEW s \in Streams PROVE StreamOk(s)'
  <2>1. SubscribedOk(s) /\ PlaceOk(s) /\ (Follows(s) => ChannelOk(s))
    BY DEF StreamInv, StreamOk
  <2>2. Reach(s)' = Reach(s) /\ Follows(s)' = Follows(s)
    BY <1>1 DEF Reach, Follows
  <2>3. SubscribedOk(s)'
    BY <1>1, <2>1, <2>2 DEF SubscribedOk
  <2>4. PlaceOk(s)'
    BY <1>1, <2>1, <2>2 DEF PlaceOk, HasTerminal
  <2>5. Follows(s) => ChannelOk(s)'
    BY <1>1, <1>2, <2>1, <2>2 DEF ChannelOk
  <2> QED
    BY <2>2, <2>3, <2>4, <2>5 DEF StreamOk
<1> QED
  BY <1>3, <1>4, <1>5 DEF StreamInv

-----------------------------------------------------------------------------
\* Steps of a stream: the others keep what they have.
LEMMA OneStream ==
    ASSUME StreamInv, NEW s \in Streams, eventLog' = eventLog, engine' = engine,
           dropped' = dropped, StreamTypeOK', StreamOk(s)',
           \A t \in Streams \ {s} :
               /\ channel'[t] = channel[t] /\ streamAt'[t] = streamAt[t]
               /\ rowRead'[t] = rowRead[t] /\ resumeFrom'[t] = resumeFrom[t]
               /\ sent'[t] = sent[t] /\ (t \in subscribers' <=> t \in subscribers)
    PROVE  StreamInv'
<1>1. LogPart'
  BY DEF StreamInv, LogPart
<1>2. ASSUME NEW t \in Streams PROVE StreamOk(t)'
  <2>1. StreamOk(t)
    BY DEF StreamInv
  <2>2. CASE t # s
    BY <2>1, <2>2, StreamKept
  <2> QED
    BY <2>2
<1> QED
  BY <1>1, <1>2 DEF StreamInv

LEMMA SubscribeInv ==
    ASSUME StreamInv, NEW s \in Streams, NEW kind \in Kinds, NEW from \in 0..Len(eventLog),
           Subscribe(s, kind, from)
    PROVE  StreamInv'
<1>1. /\ streamAt[s] = "none" /\ eventLog' = eventLog /\ engine' = engine
      /\ dropped' = dropped /\ channel' = channel /\ rowRead' = rowRead /\ sent' = sent
      /\ kindOf' = [kindOf EXCEPT ![s] = kind] /\ subscribers' = subscribers \union {s}
      /\ resumeFrom' = [resumeFrom EXCEPT ![s] = from]
      /\ streamAt' = [streamAt EXCEPT ![s] = "subscribed"]
  BY DEF Subscribe, engineVars
<1>2. StreamTypeOK /\ StreamOk(s) /\ Len(eventLog) \in Nat /\ LogPart
  BY ReachIsNat DEF StreamInv
<1>3. StreamTypeOK'
  <2>1. from \in Nat
    BY <1>2
  <2> QED
    BY <1>1, <1>2, <2>1 DEF StreamTypeOK
<1>4. /\ streamAt'[s] = "subscribed" /\ resumeFrom'[s] = from
      /\ sent'[s] = <<>> /\ channel'[s] = <<>> /\ s \notin dropped'
  BY <1>1, <1>2 DEF StreamTypeOK, StreamOk, PlaceOk
<1>5. Published \in Nat /\ Published' = Published
  <2>1. engine = "persisted" => Len(eventLog) > 0
    BY <1>2 DEF LogPart
  <2> QED
    BY <1>1, <1>2, <2>1 DEF Published
<1>6. Reach(s)' = from /\ Follows(s)'
  BY <1>4 DEF Reach, Follows
<1>7. SubscribedOk(s)' /\ PlaceOk(s)'
  BY <1>1, <1>4, <1>6 DEF SubscribedOk, PlaceOk, RunFrom
<1>8. ChannelOk(s)'
  BY <1>4, <1>5 DEF ChannelOk, RunFrom
<1>9. StreamOk(s)'
  BY <1>7, <1>8 DEF StreamOk
<1> QED
  BY <1>1, <1>2, <1>3, <1>9, OneStream DEF StreamTypeOK

LEMMA ReadRowInv ==
    ASSUME StreamInv, NEW s \in Streams, ReadRow(s) PROVE StreamInv'
<1>1. /\ streamAt[s] = "subscribed" /\ eventLog' = eventLog /\ engine' = engine
      /\ dropped' = dropped /\ channel' = channel /\ subscribers' = subscribers
      /\ kindOf' = kindOf /\ resumeFrom' = resumeFrom /\ sent' = sent
      /\ rowRead' = [rowRead EXCEPT ![s] = engine \in EchoEnded]
      /\ streamAt' = [streamAt EXCEPT ![s] = "reading"]
  BY DEF ReadRow, engineVars, hubVars, requestVars
<1>2. StreamTypeOK /\ SubscribedOk(s) /\ PlaceOk(s) /\ (Follows(s) => ChannelOk(s))
  BY DEF StreamInv, StreamOk
<1>3. StreamTypeOK'
  <2> DEFINE r == engine \in EchoEnded
  <2>1. rowRead' = [rowRead EXCEPT ![s] = r] /\ r \in BOOLEAN
    BY <1>1
  <2> HIDE DEF r
  <2>2. rowRead \in [Streams -> BOOLEAN]
    BY <1>2 DEF StreamTypeOK
  <2>3. rowRead' \in [Streams -> BOOLEAN]
    BY <2>1, <2>2, Zenon
  <2> QED
    BY <1>1, <1>2, <2>3 DEF StreamTypeOK
<1>4. streamAt'[s] = "reading" /\ rowRead'[s] = (engine \in EchoEnded)
  BY <1>1, <1>2 DEF StreamTypeOK
<1>5. Published' = Published /\ Reach(s)' = Reach(s) /\ Follows(s)' /\ Follows(s)
  BY <1>1, <1>4 DEF Published, Reach, Follows
<1>6. SubscribedOk(s)' /\ PlaceOk(s)'
  BY <1>1, <1>2, <1>4, <1>5 DEF SubscribedOk, PlaceOk
<1>7. ChannelOk(s)'
  BY <1>1, <1>2, <1>4, <1>5 DEF ChannelOk
<1>8. StreamOk(s)'
  BY <1>6, <1>7 DEF StreamOk
<1> QED
  BY <1>1, <1>2, <1>3, <1>8, OneStream DEF StreamTypeOK

\* What the replay adds follows what was sent before, which is nothing.
LEMMA ReplayIsRun ==
    ASSUME StreamTypeOK, NEW s \in Streams, sent[s] = <<>>, resumeFrom[s] <= Len(eventLog)
    PROVE  /\ Replay(s) \in Seq(Nat) /\ RunFrom(Replay(s), resumeFrom[s])
           /\ resumeFrom[s] + Len(Replay(s)) = Len(eventLog)
<1> DEFINE n == Len(eventLog) - resumeFrom[s]
           q == [i \in 1..n |-> resumeFrom[s] + i]
<1>1. n \in Nat /\ resumeFrom[s] \in Nat /\ Len(eventLog) \in Nat
  BY ReachIsNat
<1>2. q \in Seq(Nat) /\ Len(q) = n
  <2>1. \A i \in 1..n : resumeFrom[s] + i \in Nat
    BY <1>1
  <2> HIDE DEF n
  <2>2. q \in [1..n -> Nat]
    BY <2>1
  <2>3. q \in Seq(Nat)
    BY <1>1, <2>2, SeqDef
  <2>4. DOMAIN q = 1..n
    OBVIOUS
  <2> HIDE DEF q
  <2> QED
    BY <1>1, <2>3, <2>4, LenProperties
<1>3. \A i \in 1..Len(q) : q[i] = resumeFrom[s] + i
  <2> HIDE DEF n
  <2>1. \A i \in 1..n : q[i] = resumeFrom[s] + i
    OBVIOUS
  <2> QED
    BY <1>2, <2>1
<1>4. Replay(s) = q
  <2>1. Replay(s) = <<>> \o q
    BY DEF Replay
  <2> HIDE DEF q
  <2> QED
    BY <1>2, <2>1, ConcatEmptySeq
<1> HIDE DEF q
<1>5. resumeFrom[s] + n = Len(eventLog)
  BY <1>1
<1> HIDE DEF n
<1> QED
  BY <1>2, <1>3, <1>4, <1>5 DEF RunFrom

LEMMA ReadEventsInv ==
    ASSUME StreamInv, NEW s \in Streams, ReadEvents(s) PROVE StreamInv'
<1>1. /\ streamAt[s] = "reading" /\ eventLog' = eventLog /\ engine' = engine
      /\ dropped' = dropped /\ channel' = channel /\ rowRead' = rowRead
      /\ kindOf' = kindOf /\ resumeFrom' = resumeFrom
      /\ sent' = [sent EXCEPT ![s] = Replay(s)]
      /\ \/ /\ StopsAfterReplay(s) /\ streamAt' = [streamAt EXCEPT ![s] = "done"]
            /\ subscribers' = subscribers \ {s}
         \/ /\ streamAt' = [streamAt EXCEPT ![s] = "live"] /\ subscribers' = subscribers
  BY DEF ReadEvents, engineVars, requestVars
<1>2. StreamTypeOK /\ SubscribedOk(s) /\ PlaceOk(s) /\ ChannelOk(s) /\ LogPart
  BY <1>1 DEF StreamInv, StreamOk, Follows
<1>3. sent[s] = <<>> /\ resumeFrom[s] <= Len(eventLog)
  <2>1. sent[s] = <<>> /\ Reach(s) <= Len(eventLog) /\ Len(sent[s]) = 0
    BY <1>1, <1>2 DEF PlaceOk, Follows
  <2> QED
    BY <1>2, <2>1, ReachIsNat DEF Reach
<1>4. /\ Replay(s) \in Seq(Nat) /\ RunFrom(Replay(s), resumeFrom[s])
      /\ resumeFrom[s] + Len(Replay(s)) = Len(eventLog)
  BY <1>2, <1>3, ReplayIsRun
<1>5. StreamTypeOK'
  BY <1>1, <1>2, <1>4 DEF StreamTypeOK
<1>6. /\ Published' = Published /\ Reach(s)' = Len(eventLog) /\ Published <= Len(eventLog)
      /\ RunFrom(sent'[s], resumeFrom'[s]) /\ Len(eventLog) \in Nat /\ Published \in Nat
      /\ streamAt'[s] \in {"live", "done"}
  <2>1. sent'[s] = Replay(s)
    BY <1>1, <1>2 DEF StreamTypeOK
  <2>2. Len(eventLog) \in Nat
    BY <1>2, ReachIsNat
  <2>3. Published' = Published /\ Published <= Len(eventLog) /\ Published \in Nat
    BY <1>1, <1>2, <2>2 DEF Published, LogPart
  <2>4. streamAt'[s] \in {"live", "done"}
    BY <1>1, <1>2 DEF StreamTypeOK
  <2> QED
    BY <1>1, <1>4, <2>1, <2>2, <2>3, <2>4 DEF Reach
<1>7. ASSUME StopsAfterReplay(s), streamAt' = [streamAt EXCEPT ![s] = "done"],
             subscribers' = subscribers \ {s}
      PROVE  StreamOk(s)'
  <2>1. streamAt'[s] = "done" /\ s \notin subscribers'
    BY <1>2, <1>7 DEF StreamTypeOK
  <2>2. HasTerminal(eventLog) \/ engine \in EchoEnded
    BY <1>1, <1>2, <1>7 DEF StopsAfterReplay, PlaceOk
  <2>3. ~Follows(s)'
    BY <2>1 DEF Follows
  <2>4. SubscribedOk(s)' /\ PlaceOk(s)'
    BY <1>1, <1>6, <2>1, <2>2, <2>3 DEF SubscribedOk, PlaceOk, HasTerminal
  <2> QED
    BY <2>3, <2>4 DEF StreamOk
<1>8. ASSUME streamAt' = [streamAt EXCEPT ![s] = "live"], subscribers' = subscribers
      PROVE  StreamOk(s)'
  <2>1. streamAt'[s] = "live"
    BY <1>2, <1>8 DEF StreamTypeOK
  <2>2. Follows(s)' /\ Follows(s)
    BY <1>1, <2>1 DEF Follows
  <2>3. SubscribedOk(s)'
    BY <1>1, <1>2, <1>8, <2>1, <2>2 DEF SubscribedOk
  <2>4. PlaceOk(s)'
    BY <1>1, <1>6, <2>1, <2>2 DEF PlaceOk
  <2>5. ChannelOk(s)'
    <3>1. PICK b \in Nat : /\ RunFrom(channel[s], b)
                           /\ b + Len(channel[s]) <= Published
                           /\ s \notin dropped => b + Len(channel[s]) = Published
      BY <1>2 DEF ChannelOk
    <3>2. b <= Len(eventLog)
      BY <1>2, <1>6, <3>1, ReachIsNat
    <3> QED
      BY <1>1, <1>6, <3>1, <3>2 DEF ChannelOk
  <2> QED
    BY <2>3, <2>4, <2>5 DEF StreamOk
<1>9. StreamOk(s)'
  BY <1>1, <1>7, <1>8
<1>10. \A t \in Streams \ {s} : /\ streamAt'[t] = streamAt[t] /\ sent'[t] = sent[t]
                               /\ (t \in subscribers' <=> t \in subscribers)
  BY <1>1, <1>2 DEF StreamTypeOK
<1> QED
  BY <1>1, <1>5, <1>9, <1>10, OneStream

\* A stream that is given up owes nothing any more.
LEMMA LeftOk ==
    ASSUME NEW s \in Streams, SubscribedOk(s), PlaceOk(s), streamAt[s] # "none",
           \/ streamAt'[s] = "left" /\ s \notin subscribers'
           \/ streamAt'[s] = "live unread" /\ s \notin dropped'
           \/ streamAt'[s] = "live unread" /\ s \notin subscribers'
    PROVE  StreamOk(s)'
BY DEF StreamOk, SubscribedOk, PlaceOk, Follows

LEMMA StreamLeavesInv ==
    ASSUME StreamInv, NEW s \in Streams, ReadFails(s) \/ LeaveStream(s) PROVE StreamInv'
<1>1. /\ streamAt[s] # "none" /\ eventLog' = eventLog /\ engine' = engine
      /\ dropped' = dropped /\ channel' = channel /\ rowRead' = rowRead
      /\ kindOf' = kindOf /\ resumeFrom' = resumeFrom /\ sent' = sent
      /\ \/ streamAt' = [streamAt EXCEPT ![s] = "left"] /\ subscribers' = subscribers \ {s}
         \/ streamAt' = [streamAt EXCEPT ![s] = "live unread"] /\ subscribers' = subscribers
  BY DEF ReadFails, LeaveStream, Live, engineVars, requestVars
<1>2. StreamTypeOK /\ SubscribedOk(s) /\ PlaceOk(s)
  BY DEF StreamInv, StreamOk
<1>3. StreamTypeOK'
  BY <1>1, <1>2 DEF StreamTypeOK
<1>4. \/ streamAt'[s] = "left" /\ s \notin subscribers'
      \/ streamAt'[s] = "live unread" /\ subscribers' = subscribers
  BY <1>1, <1>2 DEF StreamTypeOK
<1>5. s \in subscribers => s \notin dropped
  BY <1>2 DEF SubscribedOk
<1>6. StreamOk(s)'
  BY <1>1, <1>2, <1>4, <1>5, LeftOk
<1>7. \A t \in Streams \ {s} : /\ streamAt'[t] = streamAt[t]
                               /\ (t \in subscribers' <=> t \in subscribers)
  BY <1>1, <1>2 DEF StreamTypeOK
<1> QED
  BY <1>1, <1>3, <1>6, <1>7, OneStream

LEMMA ClosesInv ==
    ASSUME StreamInv, NEW s \in Streams, ChannelCloses(s) PROVE StreamInv'
<1>1. /\ Live(s) /\ channel[s] = <<>> /\ s \notin subscribers
      /\ eventLog' = eventLog /\ engine' = engine /\ dropped' = dropped
      /\ channel' = channel /\ subscribers' = subscribers /\ rowRead' = rowRead
      /\ kindOf' = kindOf /\ resumeFrom' = resumeFrom /\ sent' = sent
      /\ streamAt' = [streamAt EXCEPT ![s] = Ended(s)]
  BY DEF ChannelCloses, engineVars, hubVars, requestVars
<1>2. StreamTypeOK /\ SubscribedOk(s) /\ PlaceOk(s) /\ (Follows(s) => ChannelOk(s))
  BY DEF StreamInv, StreamOk
<1>3. StreamTypeOK' /\ streamAt'[s] = Ended(s)
  BY <1>1, <1>2 DEF StreamTypeOK, Ended
<1>4. ASSUME streamAt[s] = "live unread" PROVE StreamOk(s)'
  <2>1. streamAt'[s] = "left" /\ s \notin subscribers'
    BY <1>1, <1>3, <1>4 DEF Ended
  <2> QED
    BY <1>2, <1>4, <2>1, LeftOk
<1>5. ASSUME streamAt[s] = "live" PROVE StreamOk(s)'
  <2>1. streamAt'[s] = "done" /\ Follows(s) /\ ~Follows(s)'
    BY <1>3, <1>5 DEF Ended, Follows
  <2>2. Reach(s)' = Reach(s) /\ RunFrom(sent[s], resumeFrom[s]) /\ Reach(s) <= Len(eventLog)
    BY <1>1, <1>2, <2>1 DEF Reach, PlaceOk
  <2>3. ASSUME s \notin dropped PROVE Reach(s) = Len(eventLog) /\ engine = "finished"
    <3>1. engine = "finished"
      BY <1>1, <1>2, <2>1, <2>3 DEF SubscribedOk
    <3>2. Len(channel[s]) = 0 /\ Published = Len(eventLog)
      BY <1>1, <3>1 DEF Published
    <3>3. Len(eventLog) <= Reach(s)
      BY <1>2, <1>5, <2>1, <2>3, <3>2 DEF ChannelOk
    <3> QED
      BY <1>2, <2>2, <3>1, <3>3, ReachIsNat
  <2>4. SubscribedOk(s)' /\ PlaceOk(s)'
    BY <1>1, <2>1, <2>2, <2>3 DEF SubscribedOk, PlaceOk, EchoEnded
  <2> QED
    BY <2>1, <2>4 DEF StreamOk
<1>6. StreamOk(s)'
  BY <1>1, <1>4, <1>5 DEF Live
<1>7. \A t \in Streams \ {s} : streamAt'[t] = streamAt[t]
  BY <1>1, <1>2 DEF StreamTypeOK
<1> QED
  BY <1>1, <1>3, <1>6, <1>7, OneStream

LEMMA ReceiveInv ==
    ASSUME StreamInv, NEW s \in Streams, ReceiveEvent(s) PROVE StreamInv'
<1> DEFINE n == Head(channel[s])
           ends == /\ n > LastSent(s) /\ kindOf[s] \in {"chat", "qq"}
                   /\ eventLog[n] \in TerminalTypes
<1>1. /\ Live(s) /\ channel[s] # <<>>
      /\ eventLog' = eventLog /\ engine' = engine /\ dropped' = dropped
      /\ rowRead' = rowRead /\ kindOf' = kindOf /\ resumeFrom' = resumeFrom
      /\ channel' = [channel EXCEPT ![s] = Tail(@)]
      /\ sent' = IF n > LastSent(s) THEN [sent EXCEPT ![s] = Append(@, n)] ELSE sent
      /\ streamAt' = IF ends THEN [streamAt EXCEPT ![s] = Ended(s)] ELSE streamAt
      /\ subscribers' = IF ends THEN subscribers \ {s} ELSE subscribers
      /\ ends => eventLog[n] \in TerminalTypes /\ n > LastSent(s)
  BY DEF ReceiveEvent, engineVars, requestVars
<1> HIDE DEF ends
<1>2. StreamTypeOK /\ SubscribedOk(s) /\ PlaceOk(s) /\ (Follows(s) => ChannelOk(s)) /\ LogPart
  BY DEF StreamInv, StreamOk
<1>3. /\ channel[s] \in Seq(Nat) /\ sent[s] \in Seq(Nat) /\ Len(sent[s]) \in Nat
      /\ Reach(s) \in Nat /\ Len(eventLog) \in Nat /\ resumeFrom[s] \in Nat
  BY <1>2, ReachIsNat
<1>4. n \in Nat /\ Tail(channel[s]) \in Seq(Nat) /\ Append(sent[s], n) \in Seq(Nat)
  <2>1. n \in Nat /\ Tail(channel[s]) \in Seq(Nat)
    BY <1>1, <1>3, HeadTailProperties
  <2> QED
    BY <1>3, <2>1, AppendProperties
<1>5. StreamTypeOK'
  <2>1. streamAt' \in [Streams -> {"none", "subscribed", "reading", "live",
                                   "live unread", "done", "left"}]
    BY <1>1, <1>2 DEF StreamTypeOK, Ended
  <2>2. sent' \in [Streams -> Seq(Nat)]
    BY <1>1, <1>2, <1>4 DEF StreamTypeOK
  <2>3. channel' \in [Streams -> Seq(Nat)]
    BY <1>1, <1>2, <1>4 DEF StreamTypeOK
  <2>4. subscribers' \subseteq Streams
    BY <1>1, <1>2 DEF StreamTypeOK
  <2> QED
    BY <1>1, <1>2, <2>1, <2>2, <2>3, <2>4 DEF StreamTypeOK
<1>6. /\ channel'[s] = Tail(channel[s])
      /\ sent'[s] = IF n > LastSent(s) THEN Append(sent[s], n) ELSE sent[s]
      /\ streamAt'[s] = IF ends THEN Ended(s) ELSE streamAt[s]
  BY <1>1, <1>2 DEF StreamTypeOK
<1> HIDE DEF n
<1>7. ASSUME streamAt[s] = "live unread" PROVE StreamOk(s)'
  <2>1. \/ streamAt'[s] = "left" /\ s \notin subscribers'
        \/ streamAt'[s] = "live unread" /\ subscribers' = subscribers
    BY <1>1, <1>6, <1>7 DEF Ended
  <2>2. s \in subscribers => s \notin dropped
    BY <1>2 DEF SubscribedOk
  <2> QED
    BY <1>1, <1>2, <1>7, <2>1, <2>2, LeftOk
<1>8. ASSUME streamAt[s] = "live" PROVE StreamOk(s)'
  <2>1. Follows(s) /\ RunFrom(sent[s], resumeFrom[s]) /\ Reach(s) <= Len(eventLog)
    BY <1>2, <1>8 DEF Follows, PlaceOk
  <2>2. LastSent(s) = Reach(s)
    BY <1>2, <2>1, LastIsReach
  <2>3. PICK b \in Nat : /\ RunFrom(channel[s], b)
                         /\ b + Len(channel[s]) <= Published
                         /\ s \notin dropped => b + Len(channel[s]) = Published
                         /\ b <= Reach(s)
    BY <1>2, <1>8, <2>1 DEF ChannelOk
  <2>4. /\ n = b + 1 /\ RunFrom(channel'[s], b + 1) /\ Len(channel'[s]) = Len(channel[s]) - 1
        /\ Len(channel[s]) > 0 /\ Len(channel[s]) \in Nat
    BY <1>1, <1>3, <1>6, <2>3, RunTail, LenProperties DEF n
  <2>5. Published <= Len(eventLog) /\ Published' = Published /\ Published \in Int
    BY <1>1, <1>3 DEF Published
  <2>6. n <= Len(eventLog)
    BY <1>3, <2>3, <2>4, <2>5
  <2>7. /\ RunFrom(sent'[s], resumeFrom'[s]) /\ Reach(s)' \in Nat /\ Reach(s)' <= Len(eventLog)
        /\ b + 1 <= Reach(s)' /\ (n > LastSent(s) => Reach(s)' = n)
    <3>1. CASE n > LastSent(s)
      <4>1. n = Reach(s) + 1 /\ n = resumeFrom[s] + Len(sent[s]) + 1
        BY <1>3, <2>2, <2>3, <2>4, <3>1 DEF Reach
      <4>2. /\ RunFrom(Append(sent[s], n), resumeFrom[s])
            /\ Len(Append(sent[s], n)) = Len(sent[s]) + 1
        BY <1>3, <1>4, <2>1, <4>1, RunAppend
      <4>3. Reach(s)' = resumeFrom[s] + Len(sent[s]) + 1
        BY <1>1, <1>3, <1>6, <3>1, <4>2 DEF Reach
      <4> QED
        BY <1>1, <1>3, <1>4, <1>6, <2>4, <2>6, <3>1, <4>1, <4>2, <4>3
    <3>2. CASE ~(n > LastSent(s))
      <4>1. sent'[s] = sent[s] /\ Reach(s)' = Reach(s)
        BY <1>1, <1>6, <3>2 DEF Reach
      <4> QED
        BY <1>1, <1>3, <2>1, <2>2, <2>4, <3>2, <4>1
    <3> QED
      BY <3>1, <3>2
  <2>8. ASSUME ends PROVE StreamOk(s)'
    <3>1. streamAt'[s] = "done" /\ s \notin subscribers' /\ ~Follows(s)'
      BY <1>1, <1>6, <1>8, <2>8 DEF Ended, Follows
    <3>2. n \in 1..Len(eventLog) /\ eventLog[n] \in TerminalTypes /\ n > LastSent(s)
      BY <1>1, <1>3, <1>4, <2>3, <2>4, <2>6, <2>8
    <3>3. n = Len(eventLog) /\ HasTerminal(eventLog)
      BY <1>2, <3>2 DEF LogPart, HasTerminal
    <3>4. SubscribedOk(s)' /\ PlaceOk(s)'
      BY <1>1, <2>7, <3>1, <3>2, <3>3 DEF SubscribedOk, PlaceOk, HasTerminal
    <3> QED
      BY <3>1, <3>4 DEF StreamOk
  <2>9. ASSUME ~ends PROVE StreamOk(s)'
    <3>1. streamAt'[s] = "live" /\ subscribers' = subscribers /\ Follows(s)'
      BY <1>1, <1>6, <1>8, <2>9 DEF Follows
    <3>2. SubscribedOk(s)' /\ PlaceOk(s)'
      BY <1>1, <1>2, <2>1, <2>7, <3>1 DEF SubscribedOk, PlaceOk
    <3>3. /\ b + 1 + Len(channel'[s]) <= Published'
          /\ s \notin dropped' => b + 1 + Len(channel'[s]) = Published'
      <4>1. b + 1 + Len(channel'[s]) = b + Len(channel[s])
        <5> DEFINE x == Len(channel[s])
                   y == Len(channel'[s])
        <5>1. x \in Nat /\ y = x - 1
          BY <2>4
        <5> HIDE DEF x, y
        <5>2. b + 1 + y = b + x
          BY <5>1
        <5> QED
          BY <5>2 DEF x, y
      <4> QED
        BY <1>1, <2>3, <2>5, <4>1
    <3>4. ChannelOk(s)'
      <4> DEFINE c == b + 1
      <4>1. c \in Nat
        OBVIOUS
      <4>2. RunFrom(channel'[s], c) /\ c <= Reach(s)'
        BY <2>4, <2>7
      <4>3. /\ c + Len(channel'[s]) <= Published'
            /\ s \notin dropped' => c + Len(channel'[s]) = Published'
        BY <3>3
      <4> HIDE DEF c
      <4> QED
        BY <4>1, <4>2, <4>3 DEF ChannelOk
    <3> QED
      BY <3>2, <3>4 DEF StreamOk
  <2> QED
    BY <2>8, <2>9
<1>9. StreamOk(s)'
  BY <1>1, <1>7, <1>8 DEF Live
<1>10. \A t \in Streams \ {s} : /\ streamAt'[t] = streamAt[t] /\ sent'[t] = sent[t]
                               /\ channel'[t] = channel[t]
                               /\ (t \in subscribers' <=> t \in subscribers)
  BY <1>1, <1>2 DEF StreamTypeOK
<1> QED
  BY <1>1, <1>5, <1>9, <1>10, OneStream

-----------------------------------------------------------------------------
\* A stream is always where its log, its channel and its cursor agree.
THEOREM StreamInvariant == StreamSpec => []StreamInv
<1>1. ASSUME StreamInv, StreamNext PROVE StreamInv'
  <2>1. CASE \E type \in EventTypes : PersistEvent(type)
    BY <1>1, <2>1, PersistInv
  <2>2. CASE EngineStep \/ FinishLater
    BY <1>1, <2>2, PublishInv, EndInv DEF EngineStep
  <2>3. ASSUME NEW s \in Streams, NEW kind \in Kinds, NEW from \in 0..Len(eventLog),
               Subscribe(s, kind, from)
        PROVE  StreamInv'
    BY <1>1, <2>3, SubscribeInv
  <2>4. ASSUME NEW s \in Streams, StreamGoroutine(s) \/ ReadFails(s) \/ ClientLeaves(s)
        PROVE  StreamInv'
    BY <1>1, <2>4, ReadRowInv, ReadEventsInv, ReceiveInv, ClosesInv, StreamLeavesInv
       DEF StreamGoroutine, ClientLeaves, ReplyTimesOut
  <2> QED
    BY <1>1, <2>1, <2>2, <2>3, <2>4 DEF StreamNext
<1>2. ASSUME StreamInv, UNCHANGED streamVars PROVE StreamInv'
  <2>1. /\ eventLog' = eventLog /\ engine' = engine /\ subscribers' = subscribers
        /\ channel' = channel /\ dropped' = dropped /\ kindOf' = kindOf
        /\ resumeFrom' = resumeFrom /\ streamAt' = streamAt /\ rowRead' = rowRead /\ sent' = sent
    BY <1>2 DEF streamVars, engineVars, hubVars, requestVars
  <2>2. StreamTypeOK' /\ LogPart'
    BY <1>2, <2>1 DEF StreamInv, StreamTypeOK, LogPart
  <2>3. ASSUME NEW s \in Streams PROVE StreamOk(s)'
    BY <1>2, <2>1, StreamKept DEF StreamInv
  <2> QED
    BY <2>2, <2>3 DEF StreamInv
<1> QED
  BY <1>1, <1>2, StreamInitInv, PTL DEF StreamSpec

\* A stream writes what follows the place where it resumed, number by number,
\* across the hand-over from the persisted events to the channel of the hub;
\* one that ended by itself and was not cut off has written the whole log.
THEOREM StreamsAreGapless == StreamSpec => []GaplessStream
<1>1. ASSUME StreamInv PROVE GaplessStream
  <2> SUFFICES ASSUME NEW s \in Streams
               PROVE  /\ streamAt[s] \notin {"live unread", "left"} =>
                            sent[s] = [i \in 1..Len(sent[s]) |-> resumeFrom[s] + i]
                      /\ streamAt[s] = "done" /\ s \notin dropped => LastSent(s) = Len(eventLog)
    BY DEF GaplessStream
  <2>1. StreamTypeOK /\ PlaceOk(s)
    BY <1>1 DEF StreamInv, StreamOk
  <2>2. sent[s] \in Seq(Nat) /\ streamAt[s] \in {"none", "subscribed", "reading", "live",
                                               "live unread", "done", "left"}
    BY <2>1 DEF StreamTypeOK
  <2>3. streamAt[s] \notin {"live unread", "left"} => RunFrom(sent[s], resumeFrom[s])
    <3>1. Len(<<>>) = 0
      OBVIOUS
    <3>2. streamAt[s] = "none" => RunFrom(sent[s], resumeFrom[s])
      BY <2>1, <3>1 DEF PlaceOk, RunFrom
    <3>3. Follows(s) \/ streamAt[s] = "done" => RunFrom(sent[s], resumeFrom[s])
      BY <2>1 DEF PlaceOk
    <3> QED
      BY <2>2, <3>2, <3>3 DEF Follows
  <2>4. ASSUME RunFrom(sent[s], resumeFrom[s])
        PROVE  sent[s] = [i \in 1..Len(sent[s]) |-> resumeFrom[s] + i]
    <3>1. sent[s] = [i \in 1..Len(sent[s]) |-> sent[s][i]]
      BY <2>2, LenProperties
    <3> QED
      BY <2>4, <3>1 DEF RunFrom
  <2>5. streamAt[s] = "done" /\ s \notin dropped => LastSent(s) = Len(eventLog)
    BY <2>1, <2>3, LastIsReach DEF PlaceOk
  <2> QED
    BY <2>3, <2>4, <2>5
<1> QED
  BY <1>1, StreamInvariant, PTL

-----------------------------------------------------------------------------
(* The service that starts the core and restarts it for new settings *)

\* From the moment the settings were read, newer ones have left a notice.
NoticePart ==
    controlLoop \in {"resolved", "running", "failed"} /\ settingsInUse # settings => notice

\* There is a core only while the loop looks after one, and once it has
\* configured the App it has done so with the settings read.
CorePart ==
    /\ controlLoop \in {"waiting", "resolved", "failed"} => coreAt = "none"
    /\ coreAt \in {"configured", "ready"} => head.content = settingsInUse.content

\* What the page was told last, unless a save has been told since.
StatusPart ==
    /\ controlLoop = "running" /\ coreAt = "ready" /\ ~notice =>
           serviceStatus = Status("ready", settings.revision)
    /\ controlLoop = "failed" /\ ~notice => serviceStatus = Status("failed", settings.revision)

ControlInv == ControlTypeOK /\ NoticePart /\ CorePart /\ StatusPart

\* The bounds of the model are numbers.
LEMMA BoundsAreNumbers == MaxSaves \in Nat /\ MaxKills \in Nat
  BY ControlAssumption DEF ControlAssumption

\* The first state has it.
LEMMA ControlBegins == ControlInit => ControlInv
<1> SUFFICES ASSUME ControlInit PROVE ControlInv
  OBVIOUS
<1>1. 0 \in 0..MaxSaves /\ 0 \in 0..MaxKills
  BY BoundsAreNumbers
<1>2. ControlTypeOK
  <2>1. Unset \in [revision : Revisions0, content : Contents \union {NoContent}]
    BY <1>1 DEF Unset, Revisions0
  <2> QED
    BY <1>1, <2>1 DEF ControlInit, ControlTypeOK, Status, Revisions0
<1> QED
  BY <1>2 DEF ControlInit, ControlInv, NoticePart, CorePart, StatusPart

\* Every step keeps the types, and every step keeps the parts.
LEMMA ControlTypesStay ==
    ASSUME ControlTypeOK, [ControlNext]_controlVars
    PROVE  ControlTypeOK'
<1> USE BoundsAreNumbers DEF ControlTypeOK, Status, Unset, Revisions0
<1>1. ASSUME NEW content \in Contents, SaveSettings(content)
      PROVE  ControlTypeOK'
  BY <1>1 DEF SaveSettings
<1>2. CASE WaitReady
  BY <1>2 DEF WaitReady
<1>3. CASE StartCore
  BY <1>3 DEF StartCore
<1>4. CASE SettingsUnreadable
  BY <1>4 DEF SettingsUnreadable
<1>5. CASE ConfigureApp
  BY <1>5 DEF ConfigureApp, Configured
<1>6. CASE CoreReady
  BY <1>6 DEF CoreReady
<1>7. CASE CoreEnds
  BY <1>7 DEF CoreEnds
<1>8. CASE TakeNotice
  BY <1>8 DEF TakeNotice
<1>9. CASE CoreStopped
  BY <1>9 DEF CoreStopped
<1>10. CASE CoreFailed
  BY <1>10 DEF CoreFailed
<1>11. CASE WaitForChange
  BY <1>11 DEF WaitForChange
<1>12. CASE Killed
  <2>1. kills' \in 0..MaxKills /\ 0 \in 0..MaxSaves
    BY <1>12 DEF Killed
  <2>2. /\ Unset \in [revision : Revisions0, content : Contents \union {NoContent}]
        /\ settings.revision \in Revisions0
    BY <2>1
  <2>3. serviceStatus' \in [state : {"setup_required", "restarting", "starting", "ready",
                                     "failed"}, revision : Revisions0]
    BY <1>12, <2>1, <2>2 DEF Killed
  <2> QED
    BY <1>12, <2>1, <2>2, <2>3 DEF Killed
<1>13. CASE UNCHANGED controlVars
  BY <1>13 DEF controlVars
<1> HIDE DEF ControlTypeOK, Status, Unset, Revisions0
<1> QED
  BY <1>1, <1>2, <1>3, <1>4, <1>5, <1>6, <1>7, <1>8, <1>9,
     <1>10, <1>11, <1>12, <1>13 DEF ControlNext, ControlLoop, CoreStep

LEMMA ControlPartsStay ==
    ASSUME ControlInv, [ControlNext]_controlVars
    PROVE  NoticePart' /\ CorePart' /\ StatusPart'
<1> DEFINE Parts == NoticePart /\ CorePart /\ StatusPart
<1> USE DEF ControlInv, ControlTypeOK, NoticePart, CorePart, StatusPart, Status
<1>1. ASSUME NEW content \in Contents, SaveSettings(content)
      PROVE  Parts'
  BY <1>1 DEF SaveSettings
<1>2. CASE WaitReady
  BY <1>2 DEF WaitReady
<1>3. CASE StartCore
  BY <1>3 DEF StartCore
<1>4. CASE SettingsUnreadable
  BY <1>4 DEF SettingsUnreadable
<1>5. CASE ConfigureApp
  BY <1>5 DEF ConfigureApp, Configured
<1>6. CASE CoreReady
  BY <1>6 DEF CoreReady
<1>7. CASE CoreEnds
  BY <1>7 DEF CoreEnds
<1>8. CASE TakeNotice
  BY <1>8 DEF TakeNotice
<1>9. CASE CoreStopped
  BY <1>9 DEF CoreStopped
<1>10. CASE CoreFailed
  BY <1>10 DEF CoreFailed
<1>11. CASE WaitForChange
  BY <1>11 DEF WaitForChange
<1>12. CASE Killed
  BY <1>12 DEF Killed
<1>13. CASE UNCHANGED controlVars
  BY <1>13 DEF controlVars
<1> HIDE DEF ControlInv, ControlTypeOK, NoticePart, CorePart, StatusPart, Status
<1> QED
  BY <1>1, <1>2, <1>3, <1>4, <1>5, <1>6, <1>7, <1>8, <1>9,
     <1>10, <1>11, <1>12, <1>13 DEF ControlNext, ControlLoop, CoreStep

\* However saves, starts, failures and deaths of the core and of the process
\* interleave, the loop never rests on settings that were replaced, and the
\* page shows what is in force (runtime.go:62).
THEOREM ChangesAreSeen == ControlSpec => []NoChangeIsLost
<1>1. ControlInv /\ [ControlNext]_controlVars => ControlInv'
  BY ControlTypesStay, ControlPartsStay DEF ControlInv
<1>2. ControlInv => NoChangeIsLost
  BY DEF ControlInv, NoticePart, CorePart, StatusPart, NoChangeIsLost
<1> QED
  BY <1>1, <1>2, ControlBegins, PTL DEF ControlSpec
=============================================================================
