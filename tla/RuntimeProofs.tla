---------------------------- MODULE RuntimeProofs ----------------------------
(***************************************************************************)
(* Hosted processes and the host behind them, for any runtimes, calls and  *)
(* handlers.  ProcessHost: who holds a runtime's mutex decides what its    *)
(* exit means: whoever forces the exit has silenced it before, and whoever *)
(* is finishing has seen the process gone.  RuntimeHost: an entry that is  *)
(* being stopped counts no call, the count is that of the calls under way, *)
(* and no abandoned handler writes an entry that is not its own.  Loader:  *)
(* a lease is on what its component serves or on a member that an upgrade  *)
(* retired, both count it, and no runtime serves in two places.            *)
(***************************************************************************)
EXTENDS ProcessHost, RuntimeHost, Loader, FiniteSetTheorems, TLAPS

\* What is known of one runtime; only the last line is about the property.
ProcessOk(r) ==
    /\ loadOf[r] \in {"no", "admitted"} =>
           holder[r] = Free /\ r \notin tracked \union stopped \union closeList
    /\ r \in stopped \/ holder[r] \in {"finish", "finish close"} => ~Running(r)
    /\ holder[r] \in {"force", "force close"} => r \in silenced
    /\ r \in watching => loadOf[r] = "done"
    /\ r \in watching /\ process[r] = "gone" /\ holder[r] = Free
       /\ r \notin silenced \union stopped => r \in crashed
    /\ r \in noticed => r \in crashed

ProcessInv == ProcessTypeOK /\ \A r \in Hosted : ProcessOk(r)

LEMMA InitIsInv == ProcessInit => ProcessInv
  BY DEF ProcessInit, ProcessInv, ProcessTypeOK, ProcessOk, Running, Free

LEMMA TypesStay ==
    ASSUME ProcessTypeOK, NEW r \in Hosted, RuntimeStep(r)
    PROVE  ProcessTypeOK'
<1> USE DEF ProcessTypeOK, Free, Gone
<1>1. CASE AdmitLoad(r)
  BY <1>1 DEF AdmitLoad
<1>2. CASE Connected(r)
  BY <1>2 DEF Connected
<1>3. CASE NotConnected(r)
  BY <1>3 DEF NotConnected
<1>4. CASE UndoProvider(r)
  BY <1>4 DEF UndoProvider
<1>5. ASSUME NEW ok \in BOOLEAN, Launch(r, ok)
      PROVE  ProcessTypeOK'
  <2>1. /\ process' = process \/ process' = [process EXCEPT ![r] = "running"]
        /\ \/ loadOf' = [loadOf EXCEPT ![r] = "connecting"]
           \/ loadOf' = [loadOf EXCEPT ![r] = "failed"]
        /\ tracked' = tracked \/ tracked' = tracked \union {r}
    BY <1>5 DEF Launch
  <2>2. UNCHANGED <<stopped, silenced, holder, watching, noticed, crashed, hostClosed,
                    closeList>>
    BY <1>5 DEF Launch
  <2>3. tracked' \subseteq Hosted
    BY <2>1
  <2>4. process' \in [Hosted -> {"unborn", "running", "gone"}]
    BY <2>1
  <2>5. loadOf' \in [Hosted -> {"no", "admitted", "connecting", "undo", "done", "failed"}]
    BY <2>1
  <2> QED
    BY <2>2, <2>3, <2>4, <2>5
<1>6. ASSUME NEW ok \in BOOLEAN, UndoExecutor(r, ok)
      PROVE  ProcessTypeOK'
  BY <1>6 DEF UndoExecutor
<1>7. CASE Exits(r)
  BY <1>7 DEF Exits
<1>8. CASE NoticeExit(r)
  BY <1>8 DEF NoticeExit
<1>9. CASE IgnoreExit(r)
  BY <1>9 DEF IgnoreExit
<1>10. CASE BeginStop(r)
  BY <1>10 DEF BeginStop
<1>11. CASE StopSettles(r)
  BY <1>11 DEF StopSettles
<1>12. CASE StopForces(r)
  BY <1>12 DEF StopForces
<1>13. CASE HostClose(r)
  <2>1. CASE r \in stopped
    BY <1>13, <2>1 DEF HostClose
  <2>2. CASE r \notin stopped
    <3>1. holder' = [holder EXCEPT ![r] = "force close"] /\ silenced' = silenced \union {r}
      BY <1>13, <2>2 DEF HostClose
    <3>2. UNCHANGED <<process, loadOf, tracked, stopped, watching, noticed, crashed,
                      hostClosed, closeList>>
      BY <1>13, <2>2 DEF HostClose
    <3> QED
      BY <3>1, <3>2
  <2> QED
    BY <2>1, <2>2
<1>14. CASE ForceEnds(r)
  BY <1>14 DEF ForceEnds
<1>15. CASE ForceFails(r)
  BY <1>15 DEF ForceFails
<1>16. CASE Finish(r)
  BY <1>16 DEF Finish
<1> HIDE DEF ProcessTypeOK, Free, Gone
<1> QED
  BY <1>1, <1>2, <1>3, <1>4, <1>5, <1>6, <1>7, <1>8, <1>9,
     <1>10, <1>11, <1>12, <1>13, <1>14, <1>15, <1>16 DEF RuntimeStep

\* A step of one runtime leaves what is known of the others alone.
LEMMA OthersStay ==
    ASSUME ProcessTypeOK, NEW r \in Hosted, RuntimeStep(r), NEW q \in Hosted \ {r},
           ProcessOk(q)
    PROVE  ProcessOk(q)'
<1> USE DEF ProcessTypeOK, ProcessOk, Free, Gone, Running
<1>1. CASE AdmitLoad(r)
  BY <1>1 DEF AdmitLoad
<1>2. CASE Connected(r)
  BY <1>2 DEF Connected
<1>3. CASE NotConnected(r)
  BY <1>3 DEF NotConnected
<1>4. CASE UndoProvider(r)
  BY <1>4 DEF UndoProvider
<1>5. ASSUME NEW ok \in BOOLEAN, Launch(r, ok)
      PROVE  ProcessOk(q)'
  BY <1>5 DEF Launch
<1>6. ASSUME NEW ok \in BOOLEAN, UndoExecutor(r, ok)
      PROVE  ProcessOk(q)'
  BY <1>6 DEF UndoExecutor
<1>7. CASE Exits(r)
  BY <1>7 DEF Exits
<1>8. CASE NoticeExit(r)
  BY <1>8 DEF NoticeExit
<1>9. CASE IgnoreExit(r)
  BY <1>9 DEF IgnoreExit
<1>10. CASE BeginStop(r)
  BY <1>10 DEF BeginStop
<1>11. CASE StopSettles(r)
  BY <1>11 DEF StopSettles
<1>12. CASE StopForces(r)
  BY <1>12 DEF StopForces
<1>13. CASE HostClose(r)
  BY <1>13 DEF HostClose
<1>14. CASE ForceEnds(r)
  BY <1>14 DEF ForceEnds
<1>15. CASE ForceFails(r)
  BY <1>15 DEF ForceFails
<1>16. CASE Finish(r)
  BY <1>16 DEF Finish
<1> HIDE DEF ProcessTypeOK, ProcessOk, Free, Gone, Running
<1> QED
  BY <1>1, <1>2, <1>3, <1>4, <1>5, <1>6, <1>7, <1>8, <1>9,
     <1>10, <1>11, <1>12, <1>13, <1>14, <1>15, <1>16 DEF RuntimeStep

LEMMA OwnStays ==
    ASSUME ProcessTypeOK, NEW r \in Hosted, RuntimeStep(r), ProcessOk(r)
    PROVE  ProcessOk(r)'
<1> USE DEF ProcessTypeOK, ProcessOk, Free, Gone, Running, IsNews, SettledByExit
<1>1. CASE AdmitLoad(r)
  BY <1>1 DEF AdmitLoad
<1>2. CASE Connected(r)
  BY <1>2 DEF Connected
<1>3. CASE NotConnected(r)
  BY <1>3 DEF NotConnected
<1>4. CASE UndoProvider(r)
  BY <1>4 DEF UndoProvider
<1>5. ASSUME NEW ok \in BOOLEAN, Launch(r, ok)
      PROVE  ProcessOk(r)'
  BY <1>5 DEF Launch
<1>6. ASSUME NEW ok \in BOOLEAN, UndoExecutor(r, ok)
      PROVE  ProcessOk(r)'
  BY <1>6 DEF UndoExecutor
<1>7. CASE Exits(r)
  BY <1>7 DEF Exits
<1>8. CASE NoticeExit(r)
  BY <1>8 DEF NoticeExit
<1>9. CASE IgnoreExit(r)
  BY <1>9 DEF IgnoreExit
<1>10. CASE BeginStop(r)
  BY <1>10 DEF BeginStop
<1>11. CASE StopSettles(r)
  BY <1>11 DEF StopSettles
<1>12. CASE StopForces(r)
  BY <1>12 DEF StopForces
<1>13. CASE HostClose(r)
  BY <1>13 DEF HostClose
<1>14. CASE ForceEnds(r)
  BY <1>14 DEF ForceEnds
<1>15. CASE ForceFails(r)
  BY <1>15 DEF ForceFails
<1>16. CASE Finish(r)
  BY <1>16 DEF Finish
<1> HIDE DEF ProcessTypeOK, ProcessOk, Free, Gone, Running, IsNews, SettledByExit
<1> QED
  BY <1>1, <1>2, <1>3, <1>4, <1>5, <1>6, <1>7, <1>8, <1>9,
     <1>10, <1>11, <1>12, <1>13, <1>14, <1>15, <1>16 DEF RuntimeStep

LEMMA StepKeepsInv == ProcessInv /\ [ProcessNext]_processVars => ProcessInv'
<1> SUFFICES ASSUME ProcessInv, [ProcessNext]_processVars
             PROVE  ProcessInv'
  OBVIOUS
<1>1. CASE CloseHost
  BY <1>1 DEF CloseHost, ProcessInv, ProcessTypeOK, ProcessOk, Running
<1>2. ASSUME NEW r \in Hosted, RuntimeStep(r)
      PROVE  ProcessInv'
  <2>1. ProcessTypeOK'
    BY <1>2, TypesStay DEF ProcessInv
  <2>2. ASSUME NEW q \in Hosted
        PROVE  ProcessOk(q)'
    <3>1. CASE q = r
      BY <1>2, <3>1, OwnStays DEF ProcessInv
    <3>2. CASE q # r
      BY <1>2, <3>2, OthersStay DEF ProcessInv
    <3> QED
      BY <3>1, <3>2
  <2> QED
    BY <2>1, <2>2 DEF ProcessInv
<1>3. CASE UNCHANGED processVars
  BY <1>3 DEF processVars, ProcessInv, ProcessTypeOK, ProcessOk, Running
<1> QED
  BY <1>1, <1>2, <1>3 DEF ProcessNext

\* A hosted process is held, tracked, struck off and watched as Load, Stop, Close
\* and the goroutine that waits for it leave it (process_host.go).
THEOREM ProcessTypesHold == ProcessSpec => []ProcessTypeOK
  BY InitIsInv, StepKeepsInv, PTL DEF ProcessSpec, ProcessInv

\* Whoever of Stop, Close, the goroutine that waits for the process and the
\* crash itself comes first: what was struck off has no process left, and only
\* a crash is reported to OnRuntimeExit (process_host.go:477).
THEOREM ExitsStayAccounted == ProcessSpec => []ExitsAreAccounted
<1>1. ProcessInv => ExitsAreAccounted
  <2>1. ProcessTypeOK => stopped \subseteq Hosted /\ noticed \subseteq Hosted
    BY DEF ProcessTypeOK
  <2> QED
    BY <2>1 DEF ProcessInv, ProcessOk, ExitsAreAccounted, StruckOffIsGone, OnlyCrashesAreNews
<1> QED
  BY <1>1, InitIsInv, StepKeepsInv, PTL DEF ProcessSpec

-----------------------------------------------------------------------------
\* The calls the server counts, and the handlers that stop the guest.
Busy == {c \in GuestCalls :
            guestCall[c].at \in {"begun", "loaded", "guest", "failing", "ending"}}
Starting(h) == handler[h].at \in {"load", "loaded", "unloadable"}
Stopping(h) == handler[h].at \in {"take", "close", "stuck", "closed"}

HandlerSteps == {"idle", "arrived", "load", "loaded", "unloadable", "ask", "mark",
                 "take", "close", "stuck", "closed", "done", "error"}
Handlers == [op : {"none", "describe", "start", "health", "stop"},
             at : HandlerSteps, entry : Nat, guest : Nat]

CallSteps == {"idle", "arrived", "slot", "begun", "loaded", "guest", "failing", "ending"}
HostedCalls == [at : CallSteps, guest : Nat, waits : BOOLEAN]

HostTypes ==
    /\ served \in [number : Nat, state : {"absent", "loading", "ready", "failed", "unloading"},
                   inFlight : Nat]
    /\ entriesMade \in Nat /\ served.number <= entriesMade
    /\ handler \in [LifecycleSlots -> Handlers]
    /\ guests \in Nat /\ guest \in Nat
    /\ guestCall \in [GuestCalls -> HostedCalls]
    /\ overwritten \in BOOLEAN

\* What a handler's step says of the entry, while no late Health has overwritten its state.
HandlerOk(h) ==
    /\ Starting(h) => /\ handler[h].op = "start" /\ served.state = "loading"
                      /\ handler[h].entry = served.number
    /\ Stopping(h) => /\ handler[h].op = "stop" /\ served.state = "unloading"
                      /\ handler[h].entry = served.number

\* One handler at most loads or unloads the entry.
Holding(h) == Starting(h) \/ Stopping(h)
OneHolds == \A h, g \in LifecycleSlots : Holding(h) /\ Holding(g) => h = g

CountPart == IsFiniteSet(Busy) /\ served.inFlight = Cardinality(Busy)

\* Calls are under way in an entry that can only be stopped without them.
BusyPart == Busy # {} => served.state \in {"ready", "failed"}

NoneIsClosed == \A c \in GuestCalls : guestCall[c].at = "guest" => guestCall[c].guest \notin shut

Orderly ==
    /\ HostTypes /\ (\A h \in LifecycleSlots : HandlerOk(h))
    /\ OneHolds /\ CountPart /\ BusyPart /\ NoneIsClosed

HostInv == HostTypes /\ (overwritten \/ Orderly)

LEMMA HostInitInv == HostInit => HostInv
<1> SUFFICES ASSUME HostInit PROVE HostInv
  OBVIOUS
<1>1. Busy = {}
  BY DEF HostInit, Busy, IdleCall
<1>2. IsFiniteSet(Busy) /\ Cardinality(Busy) = 0
  BY <1>1, FS_EmptySet
<1>3. HostTypes
  <2>1. overwritten \in BOOLEAN
    BY DEF HostInit
  <2>2. IdleSlot \in Handlers /\ IdleCall \in HostedCalls
    BY DEF Handlers, HandlerSteps, HostedCalls, CallSteps, IdleSlot, IdleCall, NoGuest
  <2>3. /\ handler \in [LifecycleSlots -> Handlers]
        /\ guestCall \in [GuestCalls -> HostedCalls]
    BY <2>2 DEF HostInit
  <2>4. /\ served \in [number : Nat,
                       state : {"absent", "loading", "ready", "failed", "unloading"},
                       inFlight : Nat]
        /\ entriesMade \in Nat /\ served.number <= entriesMade /\ guests \in Nat /\ guest \in Nat
    BY DEF HostInit, NoEntry, NoGuest
  <2> QED
    BY <2>1, <2>3, <2>4 DEF HostTypes
<1>4. Orderly
  BY <1>1, <1>2, <1>3 DEF HostInit, Orderly, HandlerOk, Stopping, Starting, Holding, OneHolds,
     CountPart, BusyPart, NoneIsClosed, IdleSlot, IdleCall, NoEntry
<1> QED
  BY <1>3, <1>4 DEF HostInv

\* Steps that leave the calls alone.
LEMMA CallsKept ==
    ASSUME CountPart, UNCHANGED <<guestCall, served.inFlight>>
    PROVE  CountPart' /\ Busy' = Busy
  BY DEF CountPart, Busy

LEMMA BackendTypes ==
    ASSUME HostTypes, NEW ok \in BOOLEAN, BackendLoad(ok)
    PROVE  guests' \in Nat /\ guest' \in Nat /\ shut' = shut
  BY DEF HostTypes, BackendLoad, backendVars

LEMMA StepTypes ==
    ASSUME HostTypes, NEW h \in LifecycleSlots, NEW at \in HandlerSteps, Step(h, at)
    PROVE  handler' \in [LifecycleSlots -> Handlers]
  BY DEF HostTypes, Step, Handlers

LEMMA LifecycleTypes ==
    ASSUME HostTypes, NEW h \in LifecycleSlots, LifecycleStep(h)
    PROVE  HostTypes'
<1>0. \A at \in {"idle", "arrived", "load", "loaded", "unloadable", "ask", "mark",
                 "take", "close", "stuck", "closed", "done", "error"} : at \in HandlerSteps
  BY DEF HandlerSteps
<1>1. CASE \E op \in {"describe", "start", "health", "stop"} : SendLifecycle(h, op)
  <2>1. handler' \in [LifecycleSlots -> Handlers]
    <3>1. PICK op \in {"describe", "start", "health", "stop"} : SendLifecycle(h, op)
      BY <1>1
    <3>2. [IdleSlot EXCEPT !.op = op, !.at = "arrived"] \in Handlers
      BY DEF Handlers, HandlerSteps, IdleSlot, NoGuest
    <3> QED
      BY <3>1, <3>2 DEF SendLifecycle, HostTypes
  <2> QED
    BY <1>1, <2>1 DEF SendLifecycle, HostTypes, backendVars, invokeVars
<1>2. CASE AnswerLifecycle(h)
  <2>1. handler' \in [LifecycleSlots -> Handlers]
    BY <1>2 DEF AnswerLifecycle, HostTypes, Handlers, HandlerSteps, IdleSlot, NoGuest
  <2> QED
    BY <1>2, <2>1 DEF AnswerLifecycle, HostTypes, backendVars, invokeVars
<1>3. ASSUME NEW ok \in BOOLEAN, DescribeGuest(h, ok) PROVE HostTypes'
  <2>1. handler' \in [LifecycleSlots -> Handlers]
    <3>1. CASE ok
      BY <1>0, <1>3, <3>1, StepTypes DEF DescribeGuest
    <3>2. CASE ~ok
      BY <1>0, <1>3, <3>2, StepTypes DEF DescribeGuest
    <3> QED
      BY <3>1, <3>2
  <2> QED
    BY <1>3, <2>1, BackendTypes DEF DescribeGuest, HostTypes, invokeVars
<1>4. ASSUME NEW ok \in BOOLEAN, LoadGuest(h, ok) PROVE HostTypes'
  <2>1. handler' \in [LifecycleSlots -> Handlers]
    <3>1. CASE ok
      BY <1>0, <1>4, <3>1, StepTypes DEF LoadGuest
    <3>2. CASE ~ok
      BY <1>0, <1>4, <3>2, StepTypes DEF LoadGuest
    <3> QED
      BY <3>1, <3>2
  <2> QED
    BY <1>4, <2>1, BackendTypes DEF LoadGuest, HostTypes, invokeVars
<1>5. ASSUME NEW ok \in BOOLEAN, CloseGuest(h, ok) PROVE HostTypes'
  <2>1. handler' \in [LifecycleSlots -> Handlers]
    <3>1. CASE ok
      BY <1>0, <1>5, <3>1, StepTypes DEF CloseGuest
    <3>2. CASE ~ok
      BY <1>0, <1>5, <3>2, StepTypes DEF CloseGuest
    <3> QED
      BY <3>1, <3>2
  <2> QED
    BY <1>5, <2>1 DEF CloseGuest, HostTypes, invokeVars
<1>6. CASE BeginStart(h)
  <2>1. CASE served.state = "absent"
    BY <1>6, <2>1 DEF BeginStart, HostTypes, Handlers, HandlerSteps, backendVars, invokeVars
  <2>2. CASE served.state # "absent"
    <3>1. handler' \in [LifecycleSlots -> Handlers]
      BY <1>0, <1>6, <2>2, StepTypes DEF BeginStart
    <3> QED
      BY <1>6, <2>2, <3>1 DEF BeginStart, HostTypes, backendVars, invokeVars
  <2> QED
    BY <2>1, <2>2
<1>7. CASE EndStart(h)
  <2>1. handler' \in [LifecycleSlots -> Handlers]
    BY <1>0, <1>7, StepTypes DEF EndStart
  <2> QED
    BY <1>7, <2>1 DEF EndStart, Mark, HostTypes, backendVars, invokeVars
<1>8. CASE BeginHealth(h)
  <2>1. handler' \in [LifecycleSlots -> Handlers]
    BY <1>0, <1>8, StepTypes DEF BeginHealth
  <2> QED
    BY <1>8, <2>1 DEF BeginHealth, HostTypes, backendVars, invokeVars
<1>9. CASE AskGuest(h)
  <2>1. handler' \in [LifecycleSlots -> Handlers]
    BY <1>0, <1>9, StepTypes DEF AskGuest
  <2> QED
    BY <1>9, <2>1 DEF AskGuest, HostTypes, backendVars, invokeVars
<1>10. CASE MarkUnhealthy(h)
  <2>1. handler' \in [LifecycleSlots -> Handlers]
    BY <1>0, <1>10, StepTypes DEF MarkUnhealthy
  <2> QED
    BY <1>10, <2>1 DEF MarkUnhealthy, Failed, HostTypes, backendVars, invokeVars
<1>11. CASE BeginStopGuest(h)
  <2>1. CASE served.state = "absent" \/ ~MayStop
    <3>1. handler' \in [LifecycleSlots -> Handlers]
      BY <1>0, <1>11, <2>1, StepTypes DEF BeginStopGuest
    <3> QED
      BY <1>11, <2>1, <3>1 DEF BeginStopGuest, HostTypes, backendVars, invokeVars
  <2>2. CASE ~(served.state = "absent" \/ ~MayStop)
    BY <1>11, <2>2
       DEF BeginStopGuest, HostTypes, Handlers, HandlerSteps, backendVars, invokeVars
  <2> QED
    BY <2>1, <2>2
<1>12. CASE TakeGuest(h)
  <2>1. handler' \in [LifecycleSlots -> Handlers]
    <3> DEFINE taken(at) == [handler[h] EXCEPT !.at = at, !.guest = guest]
    <3>1. taken("closed") \in Handlers /\ taken("close") \in Handlers
      BY DEF HostTypes, Handlers, HandlerSteps
    <3>2. \/ handler' = [handler EXCEPT ![h] = taken("closed")]
          \/ handler' = [handler EXCEPT ![h] = taken("close")]
      BY <1>12 DEF TakeGuest
    <3> HIDE DEF taken
    <3> QED
      BY <3>1, <3>2 DEF HostTypes
  <2> QED
    BY <1>12, <2>1 DEF TakeGuest, HostTypes, NoGuest, invokeVars
<1>13. CASE EndStop(h)
  <2>1. handler' \in [LifecycleSlots -> Handlers]
    BY <1>0, <1>13, StepTypes DEF EndStop
  <2> QED
    BY <1>13, <2>1 DEF EndStop, Mark, NoEntry, HostTypes, backendVars, invokeVars
<1> QED
  BY <1>1, <1>2, <1>3, <1>4, <1>5, <1>6, <1>7, <1>8, <1>9, <1>10, <1>11, <1>12, <1>13
     DEF LifecycleStep

LEMMA MoveTypes ==
    ASSUME HostTypes, NEW c \in GuestCalls, NEW at \in CallSteps, Move(c, at)
    PROVE  guestCall' \in [GuestCalls -> HostedCalls]
  BY DEF HostTypes, Move, HostedCalls

LEMMA ReplyTypes ==
    ASSUME HostTypes, NEW c \in GuestCalls, NEW fatal \in BOOLEAN, Reply(c, fatal)
    PROVE  guestCall' \in [GuestCalls -> HostedCalls]
<1>1. IdleCall \in HostedCalls
  BY DEF IdleCall, HostedCalls, CallSteps, NoGuest
<1> QED
  BY <1>1 DEF HostTypes, Reply

LEMMA InvokeTypes ==
    ASSUME HostTypes, NEW c \in GuestCalls, InvokeStep(c)
    PROVE  HostTypes'
<1>0. \A at \in {"idle", "arrived", "slot", "begun", "loaded", "guest", "failing", "ending"} :
         at \in CallSteps
  BY DEF CallSteps
<1>1. CASE SendInvoke(c)
  <2>1. [IdleCall EXCEPT !.at = "arrived", !.waits = TRUE] \in HostedCalls
    BY DEF IdleCall, HostedCalls, CallSteps, NoGuest
  <2> QED
    BY <1>1, <2>1 DEF SendInvoke, HostTypes, backendVars, serverVars
<1>2. CASE GiveUpInvoke(c)
  <2>1. [guestCall[c] EXCEPT !.waits = FALSE] \in HostedCalls
    BY DEF HostTypes, HostedCalls
  <2> QED
    BY <1>2, <2>1 DEF GiveUpInvoke, HostTypes, backendVars, serverVars
<1>3. CASE TakeInvokeSlot(c)
  <2>1. guestCall' \in [GuestCalls -> HostedCalls]
    BY <1>0, <1>3, MoveTypes, ReplyTypes DEF TakeInvokeSlot
  <2> QED
    BY <1>3, <2>1 DEF TakeInvokeSlot, HostTypes, backendVars, serverVars
<1>4. CASE BeginInvoke(c)
  <2>1. guestCall' \in [GuestCalls -> HostedCalls]
    BY <1>0, <1>4, MoveTypes, ReplyTypes DEF BeginInvoke
  <2>2. /\ served' \in [number : Nat,
                       state : {"absent", "loading", "ready", "failed", "unloading"},
                       inFlight : Nat]
        /\ served'.number = served.number
    <3>1. CASE served.state = "ready"
      <4>1. served' = [served EXCEPT !.inFlight = @ + 1]
        BY <1>4, <3>1 DEF BeginInvoke
      <4> QED
        BY <4>1 DEF HostTypes
    <3>2. CASE served.state # "ready"
      BY <1>4, <3>2 DEF BeginInvoke, HostTypes
    <3> QED
      BY <3>1, <3>2
  <2> QED
    BY <1>4, <2>1, <2>2 DEF BeginInvoke, HostTypes, backendVars
<1>5. CASE InstantiateGuest(c)
  <2>1. guestCall' \in [GuestCalls -> HostedCalls]
    <3>1. CASE guestCall[c].guest \in shut
      BY <1>0, <1>5, <3>1, MoveTypes DEF InstantiateGuest
    <3>2. CASE guestCall[c].guest \notin shut
      BY <1>0, <1>5, <3>2, MoveTypes DEF InstantiateGuest
    <3> QED
      BY <3>1, <3>2
  <2> QED
    BY <1>5, <2>1 DEF InstantiateGuest, HostTypes, backendVars, serverVars
<1>6. CASE FailByResult(c)
  <2>1. guestCall' \in [GuestCalls -> HostedCalls]
    BY <1>0, <1>6, MoveTypes DEF FailByResult
  <2> QED
    BY <1>6, <2>1 DEF FailByResult, Failed, HostTypes, backendVars
<1>7. ASSUME NEW ok \in BOOLEAN, LoadForInvoke(c, ok) PROVE HostTypes'
  <2> DEFINE with(at, g) == [guestCall[c] EXCEPT !.at = at, !.guest = g]
  <2>1. guest' \in Nat /\ guests' \in Nat
    BY <1>7, BackendTypes DEF LoadForInvoke
  <2>2. with("loaded", guest') \in HostedCalls /\ with("ending", NoGuest) \in HostedCalls
    BY <2>1 DEF HostTypes, HostedCalls, CallSteps, NoGuest
  <2>3. \/ guestCall' = [guestCall EXCEPT ![c] = with("loaded", guest')]
        \/ guestCall' = [guestCall EXCEPT ![c] = with("ending", NoGuest)]
    <3>1. CASE ok
      BY <1>7, <3>1 DEF LoadForInvoke
    <3>2. CASE ~ok
      BY <1>7, <3>2 DEF LoadForInvoke
    <3> QED
      BY <3>1, <3>2
  <2> HIDE DEF with
  <2> QED
    BY <1>7, <2>1, <2>2, <2>3 DEF LoadForInvoke, HostTypes, serverVars
<1>8. ASSUME NEW ok \in BOOLEAN, GuestReturns(c, ok) PROVE HostTypes'
  <2>1. guestCall' \in [GuestCalls -> HostedCalls]
    <3>1. CASE ok
      BY <1>0, <1>8, <3>1, MoveTypes DEF GuestReturns
    <3>2. CASE ~ok
      BY <1>0, <1>8, <3>2, MoveTypes DEF GuestReturns
    <3> QED
      BY <3>1, <3>2
  <2> QED
    BY <1>8, <2>1 DEF GuestReturns, HostTypes, backendVars, serverVars
<1>9. ASSUME NEW ok \in BOOLEAN, EndInvoke(c, ok) PROVE HostTypes'
  <2>1. guestCall' \in [GuestCalls -> HostedCalls]
    BY <1>9, ReplyTypes DEF EndInvoke
  <2>2. /\ served' \in [number : Nat,
                       state : {"absent", "loading", "ready", "failed", "unloading"},
                       inFlight : Nat]
        /\ served'.number = served.number
    BY <1>9 DEF EndInvoke, HostTypes
  <2> QED
    BY <1>9, <2>1, <2>2 DEF EndInvoke, HostTypes, backendVars
<1> QED
  BY <1>1, <1>2, <1>3, <1>4, <1>5, <1>6, <1>7, <1>8, <1>9 DEF InvokeStep

\* The lines of the handlers after a step of one of them.
LEMMA LifecycleHandlers ==
    ASSUME Orderly, NEW h \in LifecycleSlots, LifecycleStep(h), ~overwritten',
           NEW g \in LifecycleSlots
    PROVE  HandlerOk(g)'
<1> USE DEF Orderly, HostTypes, Handlers, HandlerOk, OneHolds, Holding, Starting, Stopping,
        Step
<1>0. HandlerOk(g) /\ HandlerOk(h) /\ (Holding(h) /\ Holding(g) => h = g)
  OBVIOUS
<1>1. CASE \E op \in {"describe", "start", "health", "stop"} : SendLifecycle(h, op)
  BY <1>0, <1>1 DEF SendLifecycle, IdleSlot
<1>2. CASE AnswerLifecycle(h)
  BY <1>0, <1>2 DEF AnswerLifecycle, IdleSlot
<1>3. ASSUME NEW ok \in BOOLEAN, DescribeGuest(h, ok) PROVE HandlerOk(g)'
  BY <1>0, <1>3 DEF DescribeGuest
<1>4. ASSUME NEW ok \in BOOLEAN, LoadGuest(h, ok) PROVE HandlerOk(g)'
  BY <1>0, <1>4 DEF LoadGuest
<1>5. ASSUME NEW ok \in BOOLEAN, CloseGuest(h, ok) PROVE HandlerOk(g)'
  BY <1>0, <1>5 DEF CloseGuest
<1>6. CASE BeginStart(h)
  BY <1>0, <1>6 DEF BeginStart
<1>7. CASE EndStart(h)
  BY <1>0, <1>7 DEF EndStart, Mark
<1>8. CASE BeginHealth(h)
  BY <1>0, <1>8 DEF BeginHealth
<1>9. CASE AskGuest(h)
  BY <1>0, <1>9 DEF AskGuest
<1>10. CASE MarkUnhealthy(h)
  BY <1>0, <1>10 DEF MarkUnhealthy, Failed
<1>11. CASE BeginStopGuest(h)
  BY <1>0, <1>11 DEF BeginStopGuest, MayStop
<1>12. CASE TakeGuest(h)
  BY <1>0, <1>12 DEF TakeGuest
<1>13. CASE EndStop(h)
  BY <1>0, <1>13 DEF EndStop, Mark, NoEntry
<1> HIDE DEF Orderly, HostTypes, Handlers, HandlerOk, OneHolds, Holding, Starting, Stopping,
        Step
<1> QED
  BY <1>1, <1>2, <1>3, <1>4, <1>5, <1>6, <1>7, <1>8, <1>9, <1>10, <1>11, <1>12, <1>13
     DEF LifecycleStep

LEMMA LifecycleRest ==
    ASSUME Orderly, NEW h \in LifecycleSlots, LifecycleStep(h), ~overwritten'
    PROVE  OneHolds' /\ CountPart' /\ BusyPart' /\ NoneIsClosed'
<1> USE DEF Orderly, HostTypes, Handlers, HandlerOk, Step, invokeVars, backendVars
<1>1. UNCHANGED guestCall
  BY DEF LifecycleStep, SendLifecycle, AnswerLifecycle, DescribeGuest, LoadGuest, CloseGuest,
         BeginStart, EndStart, BeginHealth, AskGuest, MarkUnhealthy, BeginStopGuest,
         TakeGuest, EndStop
<1>2. Busy' = Busy
  BY <1>1 DEF Busy
<1>3. Stopping(h) => Busy = {}
  BY DEF Stopping, BusyPart
<1>4. served.inFlight = 0 => Busy = {}
  BY FS_EmptySet DEF CountPart
<1>5. OneHolds'
  <2> USE DEF Holding, Starting, Stopping
  <2>1. ASSUME NEW g \in LifecycleSlots, g # h
        PROVE  Holding(g)' = Holding(g)
    BY <2>1 DEF LifecycleStep, SendLifecycle, AnswerLifecycle, DescribeGuest, LoadGuest, CloseGuest,
         BeginStart, EndStart, BeginHealth, AskGuest, MarkUnhealthy, BeginStopGuest,
         TakeGuest, EndStop
  <2>2. Holding(h)' => Holding(h) \/ BeginStart(h) \/ BeginStopGuest(h)
    <3>1. CASE \E op \in {"describe", "start", "health", "stop"} : SendLifecycle(h, op)
      BY <3>1 DEF SendLifecycle, IdleSlot
    <3>2. CASE AnswerLifecycle(h)
      BY <3>2 DEF AnswerLifecycle, IdleSlot
    <3>3. CASE \E ok \in BOOLEAN : DescribeGuest(h, ok) \/ LoadGuest(h, ok) \/ CloseGuest(h, ok)
      BY <3>3 DEF DescribeGuest, LoadGuest, CloseGuest
    <3>4. CASE EndStart(h) \/ BeginHealth(h) \/ AskGuest(h) \/ MarkUnhealthy(h)
      BY <3>4 DEF EndStart, BeginHealth, AskGuest, MarkUnhealthy
    <3>5. CASE TakeGuest(h) \/ EndStop(h)
      BY <3>5 DEF TakeGuest, EndStop
    <3> QED
      BY <3>1, <3>2, <3>3, <3>4, <3>5 DEF LifecycleStep
  <2>3. (BeginStart(h) \/ BeginStopGuest(h)) /\ Holding(h)'
            => \A g \in LifecycleSlots : ~Holding(g)
    BY DEF BeginStart, BeginStopGuest, MayStop
  <2> QED
    BY <2>1, <2>2, <2>3 DEF OneHolds
<1>6. served'.inFlight = served.inFlight \/ (served'.inFlight = 0 /\ Busy = {})
  BY <1>3, <1>4 DEF LifecycleStep, SendLifecycle, AnswerLifecycle, DescribeGuest, LoadGuest,
         CloseGuest, BeginStart, EndStart, BeginHealth, AskGuest, MarkUnhealthy,
         BeginStopGuest, TakeGuest, EndStop, Mark, Failed, NoEntry, Stopping, BusyPart
<1>7. CountPart'
  BY <1>2, <1>6, FS_EmptySet DEF CountPart
<1>8. BusyPart'
  BY <1>2, <1>3, <1>4 DEF LifecycleStep, SendLifecycle, AnswerLifecycle, DescribeGuest, LoadGuest,
         CloseGuest, BeginStart, EndStart, BeginHealth, AskGuest, MarkUnhealthy,
         BeginStopGuest, TakeGuest, EndStop, Mark, Failed, NoEntry, MayStop, Stopping, BusyPart
<1>9. NoneIsClosed'
  <2>1. shut' = shut \/ Busy = {}
    BY <1>3 DEF LifecycleStep, SendLifecycle, AnswerLifecycle, DescribeGuest, LoadGuest,
         CloseGuest, BeginStart, EndStart, BeginHealth, AskGuest, MarkUnhealthy,
         BeginStopGuest, TakeGuest, EndStop, BackendLoad, Stopping
  <2> QED
    BY <1>1, <2>1 DEF NoneIsClosed, Busy
<1> QED
  BY <1>5, <1>7, <1>8, <1>9

\* What a step of a call does to the count, the entry and its guest.
LEMMA InvokeRest ==
    ASSUME Orderly, NEW c \in GuestCalls, InvokeStep(c)
    PROVE  /\ CountPart' /\ BusyPart' /\ NoneIsClosed'
           /\ UNCHANGED <<handler, served.number>>
           /\ served'.state = served.state \/ (Busy # {} /\ served'.state = "failed")
<1> USE DEF Orderly, HostTypes, HostedCalls, CallSteps, serverVars, Move, Reply, IdleCall
<1>0. /\ UNCHANGED <<handler, served.number, shut>>
      /\ \A b \in GuestCalls \ {c} : guestCall'[b] = guestCall[b]
  BY DEF InvokeStep, SendInvoke, GiveUpInvoke, TakeInvokeSlot, BeginInvoke, InstantiateGuest,
         FailByResult, LoadForInvoke, GuestReturns, EndInvoke, BackendLoad, backendVars, Failed
<1>1. \/ Busy' = Busy /\ served'.inFlight = served.inFlight
      \/ /\ Busy' = Busy \union {c} /\ c \notin Busy
         /\ served' = [served EXCEPT !.inFlight = @ + 1] /\ served.state = "ready"
      \/ /\ Busy' = Busy \ {c} /\ c \in Busy
         /\ served' = IF served.inFlight > 0 THEN [served EXCEPT !.inFlight = @ - 1]
                      ELSE served
  <2>1. CASE SendInvoke(c) \/ GiveUpInvoke(c) \/ TakeInvokeSlot(c) \/ InstantiateGuest(c)
    <3>1. CASE SendInvoke(c)
      BY <1>0, <3>1 DEF SendInvoke, Busy
    <3>2. CASE GiveUpInvoke(c)
      BY <1>0, <3>2 DEF GiveUpInvoke, Busy
    <3>3. CASE TakeInvokeSlot(c)
      BY <1>0, <3>3 DEF TakeInvokeSlot, Busy
    <3>4. CASE InstantiateGuest(c)
      BY <1>0, <3>4 DEF InstantiateGuest, Busy
    <3> QED
      BY <2>1, <3>1, <3>2, <3>3, <3>4
  <2>2. CASE FailByResult(c)
    BY <1>0, <2>2 DEF FailByResult, Failed, Busy
  <2>3. CASE \E ok \in BOOLEAN : LoadForInvoke(c, ok) \/ GuestReturns(c, ok)
    BY <1>0, <2>3 DEF LoadForInvoke, GuestReturns, Busy
  <2>4. CASE BeginInvoke(c)
    BY <1>0, <2>4 DEF BeginInvoke, Busy
  <2>5. CASE \E ok \in BOOLEAN : EndInvoke(c, ok)
    BY <1>0, <2>5 DEF EndInvoke, Busy
  <2> QED
    BY <2>1, <2>2, <2>3, <2>4, <2>5 DEF InvokeStep
<1>2. CountPart'
  <2>1. CASE Busy' = Busy /\ served'.inFlight = served.inFlight
    BY <2>1 DEF CountPart
  <2>2. CASE /\ Busy' = Busy \union {c} /\ c \notin Busy
             /\ served' = [served EXCEPT !.inFlight = @ + 1]
    BY <2>2, FS_AddElement DEF CountPart
  <2>3. CASE /\ Busy' = Busy \ {c} /\ c \in Busy
             /\ served' = IF served.inFlight > 0 THEN [served EXCEPT !.inFlight = @ - 1]
                          ELSE served
    <3>1. IsFiniteSet(Busy') /\ Cardinality(Busy') = Cardinality(Busy) - 1
      BY <2>3, FS_RemoveElement DEF CountPart
    <3>2. served.inFlight # 0
      BY <2>3, FS_EmptySet DEF CountPart
    <3> QED
      BY <2>3, <3>1, <3>2 DEF CountPart
  <2> QED
    BY <1>1, <2>1, <2>2, <2>3
<1>3. served'.state = served.state \/ (Busy # {} /\ Busy' = Busy /\ served'.state = "failed")
  <2>1. CASE FailByResult(c)
    BY <1>0, <2>1 DEF FailByResult, Failed, Busy
  <2>2. CASE ~FailByResult(c)
    BY <2>2 DEF InvokeStep, SendInvoke, GiveUpInvoke, TakeInvokeSlot, BeginInvoke,
         InstantiateGuest, LoadForInvoke, GuestReturns, EndInvoke, BackendLoad
  <2> QED
    BY <2>1, <2>2
<1>4. BusyPart'
  BY <1>1, <1>3 DEF BusyPart
<1>5. NoneIsClosed'
  <2>1. guestCall'[c].at = "guest" => guestCall'[c].guest \notin shut
    <3>1. CASE InstantiateGuest(c)
      BY <3>1 DEF InstantiateGuest
    <3>2. CASE GiveUpInvoke(c)
      BY <3>2 DEF GiveUpInvoke, NoneIsClosed
    <3>3. CASE SendInvoke(c) \/ TakeInvokeSlot(c) \/ BeginInvoke(c) \/ FailByResult(c)
      <4>1. SendInvoke(c) => guestCall'[c].at = "arrived"
        BY DEF SendInvoke
      <4>2. TakeInvokeSlot(c) => guestCall'[c].at \in {"slot", "idle"}
        BY DEF TakeInvokeSlot
      <4>3. BeginInvoke(c) => guestCall'[c].at \in {"begun", "idle"}
        BY DEF BeginInvoke
      <4>4. FailByResult(c) => guestCall'[c].at = "ending"
        BY DEF FailByResult
      <4> QED
        BY <3>3, <4>1, <4>2, <4>3, <4>4
    <3>4. ASSUME NEW ok \in BOOLEAN, LoadForInvoke(c, ok) \/ GuestReturns(c, ok)
          PROVE  guestCall'[c].at # "guest"
      <4>1. \E at \in {"loaded", "ending", "failing"} : guestCall'[c].at = at
        BY <3>4 DEF LoadForInvoke, GuestReturns
      <4> QED
        BY <4>1
    <3>5. ASSUME NEW ok \in BOOLEAN, EndInvoke(c, ok) PROVE guestCall'[c].at # "guest"
      BY <3>5 DEF EndInvoke
    <3> QED
      BY <3>1, <3>2, <3>3, <3>4, <3>5 DEF InvokeStep
  <2> QED
    BY <1>0, <2>1 DEF NoneIsClosed
<1> QED
  BY <1>0, <1>2, <1>3, <1>4, <1>5

LEMMA HostStepInv == HostInv /\ [HostNext]_hostVars => HostInv'
<1> SUFFICES ASSUME HostInv, [HostNext]_hostVars PROVE HostInv'
  OBVIOUS
<1>1. overwritten => overwritten'
  BY DEF HostInv, HostTypes, HostNext, hostVars, GiveUpLifecycle, LifecycleStep, SendLifecycle,
       AnswerLifecycle, DescribeGuest, LoadGuest, CloseGuest, BeginStart, EndStart, BeginHealth,
       AskGuest, MarkUnhealthy, BeginStopGuest, TakeGuest, EndStop, InvokeStep, SendInvoke,
       GiveUpInvoke, TakeInvokeSlot, BeginInvoke, InstantiateGuest, FailByResult, LoadForInvoke,
       GuestReturns, EndInvoke, serverVars
<1>2. HostTypes'
  <2>1. CASE GiveUpLifecycle \/ UNCHANGED hostVars
    BY <2>1 DEF GiveUpLifecycle, HostInv, HostTypes, hostVars, serverVars, backendVars, invokeVars
  <2> QED
    BY <2>1, LifecycleTypes, InvokeTypes DEF HostInv, HostNext
<1>3. ASSUME Orderly, ~overwritten' PROVE Orderly'
  <2>1. CASE GiveUpLifecycle \/ UNCHANGED hostVars
    <3>1. UNCHANGED <<serverVars, backendVars, invokeVars>>
      BY <2>1 DEF GiveUpLifecycle, hostVars, serverVars, backendVars, invokeVars
    <3> QED
      BY <1>2, <1>3, <3>1 DEF Orderly, HandlerOk, Stopping, Starting, Holding, OneHolds, CountPart,
           BusyPart, NoneIsClosed, Busy, serverVars, backendVars, invokeVars
  <2>2. ASSUME NEW h \in LifecycleSlots, LifecycleStep(h) PROVE Orderly'
    BY <1>2, <1>3, <2>2, LifecycleHandlers, LifecycleRest DEF Orderly
  <2>3. ASSUME NEW c \in GuestCalls, InvokeStep(c) PROVE Orderly'
    <3>1. /\ CountPart' /\ BusyPart' /\ NoneIsClosed'
          /\ UNCHANGED <<handler, served.number>>
          /\ served'.state = served.state \/ (Busy # {} /\ served'.state = "failed")
      BY <1>3, <2>3, InvokeRest
    <3>2. \A h \in LifecycleSlots : HandlerOk(h)'
      BY <1>3, <3>1 DEF Orderly, HandlerOk, Stopping, Starting, BusyPart
    <3>3. OneHolds'
      BY <1>3, <3>1 DEF Orderly, OneHolds, Holding, Starting, Stopping
    <3> QED
      BY <1>2, <3>1, <3>2, <3>3 DEF Orderly
  <2> QED
    BY <2>1, <2>2, <2>3 DEF HostNext
<1> QED
  BY <1>1, <1>2, <1>3 DEF HostInv

\* No guest is closed under a call, whichever calls the client gives up, Health and Stop
\* included, as long as no late Health has failed an entry that was being loaded or
\* unloaded: the server counts the calls it serves and one handler at a time loads or
\* stops the entry, at zero (grpc_server.go:255).
THEOREM GuestsStayOpen == HostSpec => []GuestsOutliveCalls
<1>1. HostInv => GuestsOutliveCalls
  BY DEF HostInv, Orderly, NoneIsClosed, GuestsOutliveCalls
<1> QED
  BY <1>1, HostInitInv, HostStepInv, PTL DEF HostSpec
-----------------------------------------------------------------------------
\* The calls that hold a slot of the server.
Holders == {c \in GuestCalls : guestCall[c].at \notin {"idle", "arrived"}}

\* What is known of a lifecycle handler, of a guest's number and of the counts, whatever the
\* client gives up.
HandlerBounds(h) ==
    /\ handler[h].entry <= entriesMade /\ handler[h].guest <= guests
    /\ handler[h].op = "none" => handler[h].at = "idle"
    /\ handler[h].at = "close" => handler[h].guest # NoGuest
HandlersPart ==
    /\ client \in {"unloaded", "described", "started", "ready", "ended"}
    /\ awaited \in LifecycleSlots \union {NoHandler}
    /\ \A h \in LifecycleSlots : HandlerBounds(h)
GuestsPart ==
    /\ guest <= guests /\ guests <= MaxGuests /\ shut \subseteq 1 .. guests
    /\ \A c \in GuestCalls : guestCall[c].guest <= guests
ServingPart ==
    /\ slotsTaken = Cardinality(Holders) /\ slotsTaken <= MaxConcurrent
    /\ served.inFlight <= Cardinality(Busy)
HostBounds == HostTypes /\ HandlersPart /\ GuestsPart /\ ServingPart

LEMMA BackendBounds ==
    ASSUME HostAssumption, HostTypes, GuestsPart, NEW ok \in BOOLEAN, BackendLoad(ok)
    PROVE  guest' <= guests' /\ guests <= guests' /\ guests' <= MaxGuests /\ shut' = shut
  BY DEF HostAssumption, HostTypes, GuestsPart, BackendLoad, backendVars

\* The numbers a step hands out only grow, and none is shut before it is given.
LEMMA GuestsStep ==
    ASSUME HostAssumption, HostBounds, HostTypes', HostNext
    PROVE  GuestsPart' /\ guests <= guests' /\ entriesMade <= entriesMade'
<1> USE DEF HostBounds, HostTypes, invokeVars, backendVars, serverVars, NoGuest
<1>0. /\ guests \in Nat /\ guests' \in Nat /\ guest \in Nat /\ guest' \in Nat
      /\ entriesMade \in Nat /\ entriesMade' \in Nat /\ MaxGuests \in Nat
      /\ \A h \in LifecycleSlots : handler[h].guest \in Nat
      /\ \A c \in GuestCalls : guestCall[c].guest \in Nat
  BY DEF HostAssumption, Handlers, HostedCalls
<1>1. entriesMade <= entriesMade'
  <2>1. entriesMade' = entriesMade \/ entriesMade' = entriesMade + 1
    BY DEF HostNext, GiveUpLifecycle, LifecycleStep, SendLifecycle, AnswerLifecycle, DescribeGuest,
         LoadGuest, CloseGuest, BeginStart, EndStart, BeginHealth, AskGuest, MarkUnhealthy,
         BeginStopGuest, TakeGuest, EndStop, InvokeStep, SendInvoke, GiveUpInvoke,
         TakeInvokeSlot, BeginInvoke, InstantiateGuest, FailByResult, LoadForInvoke,
         GuestReturns, EndInvoke
  <2> QED
    BY <1>0, <2>1
<1>2. guest' <= guests' /\ guests <= guests' /\ guests' <= MaxGuests
  <2>1. ASSUME NEW ok \in BOOLEAN, BackendLoad(ok)
        PROVE  guest' <= guests' /\ guests <= guests' /\ guests' <= MaxGuests
    BY <2>1, BackendBounds
  <2>2. \/ \E ok \in BOOLEAN : BackendLoad(ok)
        \/ guests' = guests /\ guest' \in {guest, NoGuest}
    BY DEF HostNext, GiveUpLifecycle, LifecycleStep, SendLifecycle, AnswerLifecycle, DescribeGuest,
         LoadGuest, CloseGuest, BeginStart, EndStart, BeginHealth, AskGuest, MarkUnhealthy,
         BeginStopGuest, TakeGuest, EndStop, InvokeStep, SendInvoke, GiveUpInvoke,
         TakeInvokeSlot, BeginInvoke, InstantiateGuest, FailByResult, LoadForInvoke,
         GuestReturns, EndInvoke
  <2> QED
    BY <1>0, <2>1, <2>2 DEF GuestsPart
<1>3. shut' \subseteq 1 .. guests'
  <2>1. \/ shut' = shut
        \/ \E h \in LifecycleSlots : /\ handler[h].at = "close"
                                     /\ shut' = shut \union {handler[h].guest}
    BY DEF HostNext, GiveUpLifecycle, LifecycleStep, SendLifecycle, AnswerLifecycle, DescribeGuest,
         LoadGuest, CloseGuest, BeginStart, EndStart, BeginHealth, AskGuest, MarkUnhealthy,
         BeginStopGuest, TakeGuest, EndStop, InvokeStep, SendInvoke, GiveUpInvoke,
         TakeInvokeSlot, BeginInvoke, InstantiateGuest, FailByResult, LoadForInvoke,
         GuestReturns, EndInvoke, BackendLoad
  <2>2. \A h \in LifecycleSlots : handler[h].at = "close" => handler[h].guest \in 1 .. guests
    BY <1>0 DEF HandlersPart, HandlerBounds
  <2>3. shut \subseteq 1 .. guests
    BY DEF GuestsPart
  <2>4. \A i \in 1 .. guests : i \in 1 .. guests'
    BY <1>0, <1>2
  <2>5. CASE shut' = shut
    BY <2>3, <2>4, <2>5
  <2>6. ASSUME NEW h \in LifecycleSlots, handler[h].at = "close",
               shut' = shut \union {handler[h].guest}
        PROVE  shut' \subseteq 1 .. guests'
    BY <2>2, <2>3, <2>4, <2>6
  <2> QED
    BY <2>1, <2>5, <2>6
<1>4. ASSUME NEW c \in GuestCalls PROVE guestCall'[c].guest <= guests'
  <2>1. guestCall[c].guest <= guests'
    BY <1>0, <1>2 DEF GuestsPart
  <2>2. CASE \A d \in GuestCalls : ~InvokeStep(d)
    <3>1. UNCHANGED guestCall
      BY <2>2 DEF HostNext, GiveUpLifecycle, LifecycleStep, SendLifecycle, AnswerLifecycle,
         DescribeGuest, LoadGuest, CloseGuest, BeginStart, EndStart, BeginHealth, AskGuest,
         MarkUnhealthy, BeginStopGuest, TakeGuest, EndStop
    <3> QED
      BY <2>1, <3>1
  <2>3. ASSUME NEW d \in GuestCalls, InvokeStep(d)
        PROVE  guestCall'[c].guest \in {guestCall[c].guest, NoGuest, guest'}
    <3> USE DEF Move, Reply, IdleCall, HostedCalls
    <3>1. CASE SendInvoke(d)
      <4>1. [IdleCall EXCEPT !.at = "arrived", !.waits = TRUE].guest = NoGuest
        OBVIOUS
      <4> QED
        BY <3>1, <4>1 DEF SendInvoke
    <3>0. CASE GiveUpInvoke(d)
      BY <3>0 DEF GiveUpInvoke
    <3>2. CASE TakeInvokeSlot(d)
      BY <3>2 DEF TakeInvokeSlot
    <3>3. CASE BeginInvoke(d)
      BY <3>3 DEF BeginInvoke
    <3>4. CASE InstantiateGuest(d) \/ FailByResult(d)
      BY <3>4 DEF InstantiateGuest, FailByResult
    <3>5. ASSUME NEW ok \in BOOLEAN, LoadForInvoke(d, ok)
          PROVE  guestCall'[c].guest \in {guestCall[c].guest, NoGuest, guest'}
      BY <3>5 DEF LoadForInvoke
    <3>6. ASSUME NEW ok \in BOOLEAN, GuestReturns(d, ok) \/ EndInvoke(d, ok)
          PROVE  guestCall'[c].guest \in {guestCall[c].guest, NoGuest, guest'}
      BY <3>6 DEF GuestReturns, EndInvoke
    <3> QED
      BY <2>3, <3>0, <3>1, <3>2, <3>3, <3>4, <3>5, <3>6 DEF InvokeStep
  <2> QED
    BY <1>0, <1>2, <2>1, <2>2, <2>3
<1> QED
  BY <1>1, <1>2, <1>3, <1>4 DEF GuestsPart

\* The lines of the other handlers, which no step of one writes.
LEMMA HandlersApart ==
    ASSUME HostTypes, NEW h \in LifecycleSlots, LifecycleStep(h)
    PROVE  \E new : handler' = [handler EXCEPT ![h] = new]
<1> USE DEF HostTypes
<1>1. CASE \E op \in {"describe", "start", "health", "stop"} : SendLifecycle(h, op)
  BY <1>1 DEF SendLifecycle
<1>2. CASE AnswerLifecycle(h)
  BY <1>2 DEF AnswerLifecycle
<1>3. ASSUME NEW at, handler' = [handler EXCEPT ![h].at = at]
      PROVE  \E new : handler' = [handler EXCEPT ![h] = new]
  BY <1>3
<1>4. ASSUME NEW at, NEW n, handler' = [handler EXCEPT ![h].at = at, ![h].entry = n]
      PROVE  \E new : handler' = [handler EXCEPT ![h] = new]
  BY <1>4
<1>5. CASE TakeGuest(h)
  BY <1>5 DEF TakeGuest
<1>6. CASE BeginStart(h)
  BY <1>3, <1>4, <1>6 DEF BeginStart, Step
<1>7. CASE BeginStopGuest(h)
  BY <1>3, <1>4, <1>7 DEF BeginStopGuest, Step
<1>8. CASE \E ok \in BOOLEAN : DescribeGuest(h, ok) \/ LoadGuest(h, ok) \/ CloseGuest(h, ok)
  BY <1>3, <1>8 DEF DescribeGuest, LoadGuest, CloseGuest, Step
<1>9. CASE EndStart(h) \/ BeginHealth(h) \/ AskGuest(h) \/ MarkUnhealthy(h) \/ EndStop(h)
  BY <1>3, <1>9 DEF EndStart, BeginHealth, AskGuest, MarkUnhealthy, EndStop, Step
<1> QED
  BY <1>1, <1>2, <1>5, <1>6, <1>7, <1>8, <1>9 DEF LifecycleStep

\* The handlers after a step of one of them.
LEMMA HandlersStep ==
    ASSUME HostAssumption, HostBounds, HostTypes', HostNext
    PROVE  HandlersPart'
<1> USE DEF HostBounds, HostTypes, invokeVars, backendVars, serverVars, NoGuest
<1>0. /\ guests <= guests' /\ entriesMade <= entriesMade' /\ guest <= guests
      /\ {guests, guests', guest, entriesMade, entriesMade', served.number} \subseteq Nat
      /\ served.number <= entriesMade
      /\ \A h \in LifecycleSlots : handler[h].entry \in Nat /\ handler[h].guest \in Nat
  BY GuestsStep DEF GuestsPart, Handlers
<1>1. ASSUME NEW h \in LifecycleSlots, UNCHANGED handler[h] PROVE HandlerBounds(h)'
  BY <1>0, <1>1 DEF HandlersPart, HandlerBounds
<1>2. CASE GiveUpLifecycle
  BY <1>1, <1>2 DEF GiveUpLifecycle, HandlersPart
<1>3. ASSUME NEW c \in GuestCalls, InvokeStep(c) PROVE HandlersPart'
  <2>1. UNCHANGED <<handler, awaited>> /\ client' \in {client, "ended"}
    BY <1>3 DEF InvokeStep, SendInvoke, GiveUpInvoke, TakeInvokeSlot, BeginInvoke,
         InstantiateGuest, FailByResult, LoadForInvoke, GuestReturns, EndInvoke, Reply
  <2> QED
    BY <1>1, <2>1 DEF HandlersPart
<1>4. ASSUME NEW h \in LifecycleSlots, LifecycleStep(h) PROVE HandlersPart'
  <2>1. \A g \in LifecycleSlots \ {h} : handler'[g] = handler[g]
    BY <1>4, HandlersApart
  <2>2. HandlerBounds(h) /\ handler[h].entry \in Nat /\ handler[h].guest \in Nat
    BY <1>0 DEF HandlersPart
  <2>3. client' \in {"unloaded", "described", "started", "ready", "ended"}
        /\ awaited' \in LifecycleSlots \union {NoHandler}
    <3>1. CASE AnswerLifecycle(h)
      <4>1. handler[h].op \in {"describe", "start", "health", "stop"}
        BY <2>2, <3>1 DEF AnswerLifecycle, HandlerBounds, Handlers
      <4>2. Achieved(handler[h].op) \in {"unloaded", "described", "started", "ready"}
        BY <4>1 DEF Achieved
      <4> QED
        BY <3>1, <4>2 DEF AnswerLifecycle, HandlersPart
    <3>2. CASE ~AnswerLifecycle(h)
      BY <1>4, <3>2 DEF LifecycleStep, SendLifecycle, DescribeGuest, LoadGuest, CloseGuest,
         BeginStart, EndStart, BeginHealth, AskGuest, MarkUnhealthy, BeginStopGuest, TakeGuest,
         EndStop, HandlersPart
    <3> QED
      BY <3>1, <3>2
  <2>4. HandlerBounds(h)'
    <3> USE DEF HandlerBounds, Step, Handlers
    <3>1. CASE \E op \in {"describe", "start", "health", "stop"} : SendLifecycle(h, op)
      <4>1. PICK op \in {"describe", "start", "health", "stop"} : SendLifecycle(h, op)
        BY <3>1
      <4>2. handler'[h] = [op |-> op, at |-> "arrived", entry |-> 0, guest |-> NoGuest]
        BY <4>1 DEF SendLifecycle, IdleSlot
      <4> QED
        BY <1>0, <4>2
    <3>2. CASE AnswerLifecycle(h)
      <4>1. handler'[h] = [op |-> "none", at |-> "idle", entry |-> 0, guest |-> NoGuest]
        BY <3>2 DEF AnswerLifecycle, IdleSlot
      <4> QED
        BY <1>0, <4>1
    <3>3. CASE TakeGuest(h)
      <4> DEFINE at == IF guest = NoGuest THEN "closed" ELSE "close"
      <4>1. handler' = [handler EXCEPT ![h].at = at, ![h].guest = guest] /\ handler[h].at = "take"
        BY <3>3 DEF TakeGuest
      <4>2. at = "close" => guest # NoGuest
        OBVIOUS
      <4> HIDE DEF at
      <4>3. /\ handler'[h].at = at /\ handler'[h].guest = guest
            /\ handler'[h].op = handler[h].op /\ handler'[h].entry = handler[h].entry
        BY <4>1
      <4> QED
        BY <1>0, <2>2, <4>1, <4>2, <4>3
    <3>4. CASE BeginStart(h)
      <4>1. handler[h].op = "start" /\ handler[h].at = "arrived"
        BY <3>4 DEF BeginStart
      <4>2. CASE served.state = "absent"
        <5>1. /\ handler' = [handler EXCEPT ![h].at = "load", ![h].entry = entriesMade + 1]
              /\ entriesMade' = entriesMade + 1
          BY <3>4, <4>2 DEF BeginStart
        <5>2. /\ handler'[h].at = "load" /\ handler'[h].entry = entriesMade'
              /\ handler'[h].op = "start" /\ handler'[h].guest = handler[h].guest
          BY <4>1, <5>1
        <5> QED
          BY <1>0, <2>2, <5>2
      <4>3. CASE served.state # "absent"
        <5>1. \E at \in {"done", "error"} : handler' = [handler EXCEPT ![h].at = at]
          BY <3>4, <4>3 DEF BeginStart
        <5> QED
          BY <1>0, <2>2, <4>1, <5>1
      <4> QED
        BY <4>2, <4>3
    <3>5. CASE BeginStopGuest(h)
      <4>1. handler[h].op = "stop" /\ handler[h].at = "arrived"
        BY <3>5 DEF BeginStopGuest
      <4>2. CASE served.state = "absent" \/ ~MayStop
        <5>1. \E at \in {"done", "error"} : handler' = [handler EXCEPT ![h].at = at]
          BY <3>5, <4>2 DEF BeginStopGuest
        <5> QED
          BY <1>0, <2>2, <4>1, <5>1
      <4>3. CASE ~(served.state = "absent" \/ ~MayStop)
        <5>1. handler' = [handler EXCEPT ![h].at = "take", ![h].entry = served.number]
          BY <3>5, <4>3 DEF BeginStopGuest
        <5>2. /\ handler'[h].at = "take" /\ handler'[h].entry = served.number
              /\ handler'[h].op = "stop" /\ handler'[h].guest = handler[h].guest
          BY <4>1, <5>1
        <5> QED
          BY <1>0, <2>2, <5>2
      <4> QED
        BY <4>2, <4>3
    <3>6. ASSUME NEW at \in HandlerSteps \ {"close"}, Step(h, at), handler[h].at # "idle"
          PROVE  HandlerBounds(h)'
      BY <1>0, <2>2, <3>6
    <3>7. CASE \E ok \in BOOLEAN : DescribeGuest(h, ok) \/ LoadGuest(h, ok) \/ CloseGuest(h, ok)
      <4>1. handler[h].at # "idle"
            /\ \E at \in {"done", "error", "loaded", "unloadable", "closed", "stuck"} : Step(h, at)
        BY <3>7 DEF DescribeGuest, LoadGuest, CloseGuest
      <4> QED
        BY <3>6, <4>1 DEF HandlerSteps
    <3>8. CASE EndStart(h) \/ BeginHealth(h) \/ AskGuest(h) \/ MarkUnhealthy(h) \/ EndStop(h)
      <4>1. handler[h].at # "idle" /\ \E at \in {"done", "error", "ask", "mark"} : Step(h, at)
        BY <3>8 DEF EndStart, BeginHealth, AskGuest, MarkUnhealthy, EndStop
      <4> QED
        BY <3>6, <4>1 DEF HandlerSteps
    <3> HIDE DEF HandlerBounds
    <3> QED
      BY <1>4, <3>1, <3>2, <3>3, <3>4, <3>5, <3>7, <3>8 DEF LifecycleStep
  <2> QED
    BY <1>1, <2>1, <2>3, <2>4 DEF HandlersPart
<1> QED
  BY <1>2, <1>3, <1>4 DEF HostNext

LEMMA ServingStep ==
    ASSUME HostAssumption, HostBounds, HostNext
    PROVE  ServingPart'
<1> USE DEF HostBounds, HostTypes, HostedCalls, CallSteps, Move, Reply, IdleCall
<1>0. /\ IsFiniteSet(Holders) /\ IsFiniteSet(Busy) /\ Cardinality(Busy) \in Nat
      /\ Cardinality(Holders) \in Nat /\ MaxConcurrent \in Nat /\ served.inFlight \in Nat
  <2>1. IsFiniteSet(GuestCalls) /\ Holders \subseteq GuestCalls /\ Busy \subseteq GuestCalls
    BY DEF HostAssumption, Holders, Busy
  <2> QED
    BY <2>1, FS_Subset, FS_CardinalityType DEF HostAssumption
<1>1. ASSUME UNCHANGED <<guestCall, slotsTaken>>, served'.inFlight \in {served.inFlight, 0}
      PROVE  ServingPart'
  <2>1. Holders' = Holders /\ Busy' = Busy
    BY <1>1 DEF Holders, Busy
  <2> QED
    BY <1>0, <1>1, <2>1 DEF ServingPart
<1>2. CASE GiveUpLifecycle
  BY <1>1, <1>2 DEF GiveUpLifecycle, invokeVars, serverVars
<1>3. ASSUME NEW h \in LifecycleSlots, LifecycleStep(h) PROVE ServingPart'
  <2>1. UNCHANGED <<guestCall, slotsTaken>> /\ served'.inFlight \in {served.inFlight, 0}
    BY <1>3 DEF LifecycleStep, SendLifecycle, AnswerLifecycle, DescribeGuest, LoadGuest,
         CloseGuest, BeginStart, EndStart, BeginHealth, AskGuest, MarkUnhealthy,
         BeginStopGuest, TakeGuest, EndStop, Mark, Failed, NoEntry, invokeVars
  <2> QED
    BY <1>1, <2>1
<1>4. ASSUME NEW c \in GuestCalls, InvokeStep(c) PROVE ServingPart'
  <2>1. ASSUME Holders' = Holders, Busy' = Busy, slotsTaken' = slotsTaken,
               served'.inFlight = served.inFlight
        PROVE  ServingPart'
    BY <2>1 DEF ServingPart
  <2>2. CASE SendInvoke(c)
    BY <2>1, <2>2 DEF SendInvoke, Holders, Busy, serverVars
  <2>3. CASE GiveUpInvoke(c)
    BY <2>1, <2>3 DEF GiveUpInvoke, Holders, Busy, serverVars
  <2>4. CASE InstantiateGuest(c)
    BY <2>1, <2>4 DEF InstantiateGuest, Holders, Busy, serverVars
  <2>5. CASE FailByResult(c)
    BY <2>1, <2>5 DEF FailByResult, Failed, Holders, Busy
  <2>6. CASE \E ok \in BOOLEAN : LoadForInvoke(c, ok) \/ GuestReturns(c, ok)
    BY <2>1, <2>6 DEF LoadForInvoke, GuestReturns, Holders, Busy, serverVars
  <2>7. CASE TakeInvokeSlot(c)
    <3>1. CASE slotsTaken < MaxConcurrent
      <4>1. /\ Holders' = Holders \union {c} /\ c \notin Holders /\ Busy' = Busy
            /\ slotsTaken' = slotsTaken + 1 /\ served' = served
        BY <2>7, <3>1 DEF TakeInvokeSlot, Holders, Busy, serverVars
      <4>2. Cardinality(Holders') = Cardinality(Holders) + 1
        BY <1>0, <4>1, FS_AddElement
      <4> QED
        BY <1>0, <3>1, <4>1, <4>2 DEF ServingPart
    <3>2. CASE ~(slotsTaken < MaxConcurrent)
      BY <2>1, <2>7, <3>2 DEF TakeInvokeSlot, Holders, Busy, serverVars
    <3> QED
      BY <3>1, <3>2
  <2>8. CASE BeginInvoke(c)
    <3>1. CASE served.state = "ready"
      <4>1. /\ Busy' = Busy \union {c} /\ c \notin Busy /\ Holders' = Holders
            /\ slotsTaken' = slotsTaken /\ served' = [served EXCEPT !.inFlight = @ + 1]
        BY <2>8, <3>1 DEF BeginInvoke, Holders, Busy
      <4>2. Cardinality(Busy') = Cardinality(Busy) + 1
        BY <1>0, <4>1, FS_AddElement
      <4> QED
        BY <1>0, <4>1, <4>2 DEF ServingPart
    <3>2. CASE served.state # "ready"
      <4>1. /\ Holders' = Holders \ {c} /\ c \in Holders /\ Busy' = Busy
            /\ slotsTaken' = slotsTaken - 1 /\ served' = served
        BY <2>8, <3>2 DEF BeginInvoke, Holders, Busy
      <4>2. Cardinality(Holders') = Cardinality(Holders) - 1
        BY <1>0, <4>1, FS_RemoveElement
      <4> QED
        BY <1>0, <4>1, <4>2 DEF ServingPart
    <3> QED
      BY <3>1, <3>2
  <2>9. CASE \E ok \in BOOLEAN : EndInvoke(c, ok)
    <3>1. /\ Holders' = Holders \ {c} /\ c \in Holders /\ Busy' = Busy \ {c} /\ c \in Busy
          /\ slotsTaken' = slotsTaken - 1
          /\ served' = IF served.inFlight > 0 THEN [served EXCEPT !.inFlight = @ - 1] ELSE served
      BY <2>9 DEF EndInvoke, Holders, Busy
    <3>2. Cardinality(Holders') = Cardinality(Holders) - 1
      BY <1>0, <3>1, FS_RemoveElement
    <3>3. Cardinality(Busy') = Cardinality(Busy) - 1
      BY <1>0, <3>1, FS_RemoveElement
    <3>4. Cardinality(Busy') \in Nat
      <4>1. IsFiniteSet(Busy')
        BY <1>0, <3>1, FS_Subset
      <4> QED
        BY <4>1, FS_CardinalityType
    <3> QED
      BY <1>0, <3>1, <3>2, <3>3, <3>4 DEF ServingPart
  <2> QED
    BY <1>4, <2>2, <2>3, <2>4, <2>5, <2>6, <2>7, <2>8, <2>9 DEF InvokeStep
<1> QED
  BY <1>2, <1>3, <1>4 DEF HostNext

LEMMA BoundsStep ==
    ASSUME HostAssumption
    PROVE  HostBounds /\ [HostNext]_hostVars => HostBounds'
<1> SUFFICES ASSUME HostBounds, [HostNext]_hostVars PROVE HostBounds'
  OBVIOUS
<1>1. CASE UNCHANGED hostVars
  BY <1>1 DEF hostVars, HostBounds, HostTypes, HandlersPart, HandlerBounds, GuestsPart,
       ServingPart, Holders, Busy
<1>2. CASE HostNext
  <2>1. HostTypes'
    <3>1. CASE GiveUpLifecycle
      BY <3>1 DEF GiveUpLifecycle, HostBounds, HostTypes, serverVars, backendVars, invokeVars
    <3> QED
      BY <1>2, <3>1, LifecycleTypes, InvokeTypes DEF HostNext, HostBounds
  <2> QED
    BY <1>2, <2>1, GuestsStep, HandlersStep, ServingStep DEF HostBounds
<1> QED
  BY <1>1, <1>2

\* The server never takes more calls at once than it may, counts no slot twice
\* and gives none back twice, whichever calls its client gives up (grpc_server.go).
THEOREM HostTypesHold == HostSpec => []HostTypeOK
<1>1. HostInit => HostBounds
  <2> SUFFICES ASSUME HostInit PROVE HostBounds
    OBVIOUS
  <2>1. Holders = {} /\ Busy = {}
    BY DEF HostInit, Holders, Busy, IdleCall
  <2>2. Cardinality(Holders) = 0 /\ Cardinality(Busy) = 0
    BY <2>1, FS_EmptySet
  <2>3. HostTypes
    BY HostInitInv DEF HostInv
  <2> QED
    BY <2>2, <2>3, HostAssumption
       DEF HostAssumption, HostInit, HostBounds, HandlersPart, HandlerBounds, GuestsPart,
           ServingPart, IdleSlot, IdleCall, NoEntry, NoGuest
<1>2. HostBounds => HostTypeOK
  <2> SUFFICES ASSUME HostBounds PROVE HostTypeOK
    OBVIOUS
  <2>1. Busy \subseteq GuestCalls /\ Holders \subseteq GuestCalls /\ IsFiniteSet(GuestCalls)
    BY HostAssumption DEF HostAssumption, Busy, Holders
  <2>2. /\ Cardinality(Busy) <= Cardinality(GuestCalls)
        /\ {Cardinality(Busy), Cardinality(GuestCalls), Cardinality(Holders)} \subseteq Nat
    BY <2>1, FS_Subset, FS_CardinalityType
  <2>3. served.inFlight \in 0 .. Cardinality(GuestCalls) /\ slotsTaken \in 0 .. MaxConcurrent
    BY <2>2, HostAssumption DEF HostAssumption, HostBounds, HostTypes, ServingPart
  <2>4. ASSUME NEW h \in LifecycleSlots
        PROVE  /\ handler[h].op \in {"none", "describe", "start", "health", "stop"}
               /\ handler[h].at \in HandlerSteps
               /\ handler[h].entry \in 0 .. entriesMade /\ handler[h].guest \in 0 .. guests
    BY DEF HostBounds, HostTypes, HandlersPart, HandlerBounds, Handlers
  <2>5. ASSUME NEW c \in GuestCalls
        PROVE  /\ guestCall[c].at \in CallSteps
               /\ guestCall[c].guest \in 0 .. guests /\ guestCall[c].waits \in BOOLEAN
    BY DEF HostBounds, HostTypes, GuestsPart, HostedCalls
  <2>6. served.number \in 0 .. entriesMade /\ guest \in 0 .. guests /\ guests \in 0 .. MaxGuests
    BY HostAssumption DEF HostAssumption, HostBounds, HostTypes, GuestsPart
  <2> QED
    BY <2>3, <2>4, <2>5, <2>6
       DEF HostTypeOK, HostBounds, HostTypes, HandlersPart, GuestsPart, HandlerSteps, CallSteps
<1> QED
  BY <1>1, <1>2, BoundsStep, HostAssumption, PTL DEF HostSpec

-----------------------------------------------------------------------------
(* The loader *)

\* The calls on a component, and those of one generation of it.
CallsOn(L, c) == {p \in LoaderCallers : L[p].at = "call" /\ L[p].part = c}
CallsOf(L, c, g) == {p \in CallsOn(L, c) : L[p].generation = g}

\* A lease is on what its component serves, which cannot be unloaded then, or on
\* what an upgrade retired.
IsCurrent(c, l) ==
    /\ entries[c].generation = l.generation /\ entries[c].runtime = l.runtime
    /\ entries[c].state \in {"ready", "failed"}
IsRetired(c, l) ==
    \E u \in DOMAIN retired : /\ retired[u].members[c].generation = l.generation
                              /\ retired[u].members[c].runtime = l.runtime
LeasePart ==
    \A p \in LoaderCallers : lessee[p].at = "call" =>
        /\ lessee[p].runtime # NoRuntime
        /\ IsCurrent(lessee[p].part, lessee[p]) \/ IsRetired(lessee[p].part, lessee[p])

\* A load has its component to itself.
LoadPart ==
    \A p \in LoaderCallers : lessee[p].at = "loading" =>
        /\ entries[lessee[p].part].state = "loading"
        /\ \A q \in LoaderCallers \ {p} :
              lessee[q].at = "loading" => lessee[q].part # lessee[p].part

\* The counts are those of the calls.
CountsPart ==
    \A c \in Parts :
        /\ entries[c].inFlight = Cardinality(CallsOn(lessee, c))
        /\ entries[c].currentInFlight = Cardinality(CallsOf(lessee, c, entries[c].generation))
        /\ \A u \in DOMAIN retired :
              retired[u].members[c].inFlight =
                  Cardinality(CallsOf(lessee, c, retired[u].members[c].generation))

GenerationPart ==
    \A c \in Parts, u \in DOMAIN retired :
        /\ retired[u].members[c].generation < entries[c].generation
        /\ \A v \in DOMAIN retired \ {u} :
              retired[v].members[c].generation # retired[u].members[c].generation

\* A group waits for its members in use, and for those of their last callers that
\* are still to tell it; it is stopped when it waits for none.
InUse(R, u) == {c \in Parts : R[u].members[c].inFlight > 0}
Telling(L, u) == {p \in LoaderCallers : L[p].at = "drained" /\ L[p].group = u}
DrainPart ==
    /\ \A u \in DOMAIN retired :
          /\ retired[u].draining = Cardinality(InUse(retired, u)) + Cardinality(Telling(lessee, u))
          /\ retired[u].triggered => retired[u].draining = 0
    /\ \A p \in LoaderCallers : lessee[p].at = "drained" => lessee[p].group \in DOMAIN retired

AlivePart ==
    /\ \A c \in Parts : entries[c].runtime # NoRuntime => entries[c].runtime \in alive
    /\ \A i \in DOMAIN upgrade.candidates : upgrade.candidates[i] \in alive
    /\ \A u \in DOMAIN retired, c \in Parts :
          retired[u].members[c].inFlight > 0 => retired[u].members[c].runtime \in alive

\* No runtime serves in two places.
DistinctPart ==
    /\ \A c \in Parts : entries[c].runtime <= loads
    /\ \A i \in DOMAIN upgrade.candidates : upgrade.candidates[i] <= loads
    /\ \A u \in DOMAIN retired, c \in Parts : retired[u].members[c].runtime <= loads
    /\ \A c, d \in Parts : c # d /\ entries[c].runtime # NoRuntime =>
          entries[c].runtime # entries[d].runtime
    /\ \A i, j \in DOMAIN upgrade.candidates :
          i # j => upgrade.candidates[i] # upgrade.candidates[j]
    /\ \A u, v \in DOMAIN retired, c, d \in Parts :
          u # v \/ c # d => retired[u].members[c].runtime # retired[v].members[d].runtime
    /\ \A c \in Parts, i \in DOMAIN upgrade.candidates :
          entries[c].runtime # upgrade.candidates[i]
    /\ \A c, d \in Parts, u \in DOMAIN retired :
          entries[c].runtime # retired[u].members[d].runtime
    /\ \A d \in Parts, u \in DOMAIN retired, i \in DOMAIN upgrade.candidates :
          upgrade.candidates[i] # retired[u].members[d].runtime

LoaderInv ==
    /\ LoaderTypeOK /\ LeasePart /\ LoadPart /\ CountsPart /\ GenerationPart /\ DrainPart
    /\ AlivePart /\ DistinctPart

LEMMA LoaderInitIsInv == LoaderInit => LoaderInv
<1> SUFFICES ASSUME LoaderInit PROVE LoaderInv
  OBVIOUS
<1>1. LoaderTypeOK
  BY LoaderAssumption DEF LoaderInit, LoaderTypeOK, Entry, EntryStates, Lessee, Away, Runtimes,
     NoRuntime, Parts, RetiredGroup, LoaderAssumption
<1>2. DOMAIN retired = {} /\ DOMAIN upgrade.candidates = {}
  BY DEF LoaderInit
<1>3. \A c \in Parts : CallsOn(lessee, c) = {} /\ CallsOf(lessee, c, 0) = {}
  BY DEF LoaderInit, Away, CallsOn, CallsOf
<1>4. CountsPart
  BY <1>2, <1>3, FS_EmptySet DEF LoaderInit, CountsPart
<1>5. LeasePart /\ LoadPart /\ GenerationPart /\ DrainPart
  BY <1>2 DEF LoaderInit, Away, LeasePart, LoadPart, GenerationPart, DrainPart
<1>6. AlivePart /\ DistinctPart
  BY <1>2 DEF LoaderInit, AlivePart, DistinctPart, NoRuntime
<1> QED
  BY <1>1, <1>4, <1>5, <1>6 DEF LoaderInv

LEMMA AwayIsLessee == ASSUME NEW p PROVE Away(p) \in Lessee /\ Away(p).at = "idle"
<1>1. 1 \in Parts /\ 0 \in Nat
  BY LoaderAssumption DEF LoaderAssumption, Parts
<1> QED
  BY <1>1 DEF Away, Lessee

LEMMA LoaderTypes ==
    ASSUME LoaderTypeOK
    PROVE  /\ entries \in [Parts -> Entry] /\ lessee \in [LoaderCallers -> Lessee]
           /\ loads \in Nat /\ loads <= MaxLoads /\ MaxLoads \in Nat /\ alive \subseteq Runtimes
           /\ retired \in Seq(RetiredGroup)
           /\ upgrade \in [at : {"no", "loading", "stopping"}, candidates : Seq(Runtimes)]
           /\ IsFiniteSet(LoaderCallers) /\ LoaderParts \in Nat \ {0}
  BY LoaderAssumption DEF LoaderTypeOK, LoaderAssumption

LEMMA EntryFields ==
    ASSUME NEW e \in Entry
    PROVE  /\ e.state \in EntryStates /\ e.runtime \in Runtimes \union {NoRuntime}
           /\ e.generation \in Nat /\ e.inFlight \in Nat /\ e.currentInFlight \in Nat
  BY DEF Entry

LEMMA LesseeFields ==
    ASSUME NEW l \in Lessee
    PROVE  /\ l.at \in {"idle", "ensure", "loading", "ensured", "call", "drained"}
           /\ l.part \in Parts /\ l.runtime \in Runtimes \union {NoRuntime}
           /\ l.generation \in Nat /\ l.group \in Nat
  BY DEF Lessee

LEMMA GroupFields ==
    ASSUME retired \in Seq(RetiredGroup), NEW u \in DOMAIN retired
    PROVE  /\ retired[u] \in RetiredGroup /\ retired[u].draining \in Nat
           /\ retired[u].triggered \in BOOLEAN
           /\ \A c \in Parts : /\ retired[u].members[c] \in Member
                               /\ retired[u].members[c].runtime \in Runtimes
                               /\ retired[u].members[c].generation \in Nat
                               /\ retired[u].members[c].inFlight \in Nat
<1>1. retired[u] \in RetiredGroup
  OBVIOUS
<1>2. retired[u].members \in [Parts -> Member]
  BY <1>1 DEF RetiredGroup
<1> QED
  BY <1>1, <1>2 DEF RetiredGroup, Member

LEMMA EntrySet ==
    ASSUME LoaderTypeOK, NEW c \in Parts, NEW e \in Entry, entries' = [entries EXCEPT ![c] = e]
    PROVE  /\ entries' \in [Parts -> Entry] /\ entries'[c] = e
           /\ \A d \in Parts \ {c} : entries'[d] = entries[d]
  BY DEF LoaderTypeOK

LEMMA LesseeSet ==
    ASSUME LoaderTypeOK, NEW p \in LoaderCallers, NEW l \in Lessee,
           lessee' = [lessee EXCEPT ![p] = l]
    PROVE  /\ lessee' \in [LoaderCallers -> Lessee] /\ lessee'[p] = l
           /\ \A q \in LoaderCallers \ {p} : lessee'[q] = lessee[q]
  BY DEF LoaderTypeOK

\* Calls, and what drained groups are to be told, stay as they are.
SameCalls ==
    \A q \in LoaderCallers :
        /\ lessee'[q].at \in {"call", "drained"} <=> lessee[q].at \in {"call", "drained"}
        /\ lessee[q].at \in {"call", "drained"} => lessee'[q] = lessee[q]

LEMMA LeasesKept ==
    ASSUME SameCalls
    PROVE  /\ \A c : CallsOn(lessee', c) = CallsOn(lessee, c)
           /\ \A c, g : CallsOf(lessee', c, g) = CallsOf(lessee, c, g)
           /\ \A u : Telling(lessee', u) = Telling(lessee, u)
<1>1. \A c : CallsOn(lessee', c) = CallsOn(lessee, c)
  BY DEF SameCalls, CallsOn
<1>2. \A c, g : CallsOf(lessee', c, g) = CallsOf(lessee, c, g)
  BY DEF SameCalls, CallsOn, CallsOf
<1>3. \A u : Telling(lessee', u) = Telling(lessee, u)
  BY DEF SameCalls, Telling
<1> QED
  BY <1>1, <1>2, <1>3

LEMMA NoCalls ==
    ASSUME LoaderInv, NEW c \in Parts, entries[c].inFlight = 0 PROVE CallsOn(lessee, c) = {}
<1>1. IsFiniteSet(CallsOn(lessee, c))
  BY LoaderTypes, FS_Subset DEF LoaderInv, CallsOn
<1> QED
  BY <1>1, FS_EmptySet DEF LoaderInv, CountsPart

LEMMA RuntimesAreNoZero ==
    ASSUME LoaderTypeOK
    PROVE  /\ NoRuntime \notin Runtimes /\ NoRuntime <= loads
           /\ \A r \in Runtimes \union {NoRuntime} : r \in Nat
           /\ \A i \in DOMAIN upgrade.candidates : upgrade.candidates[i] \in Runtimes
           /\ \A u \in DOMAIN retired, c \in Parts : retired[u].members[c].runtime \in Runtimes
<1>1. upgrade.candidates \in Seq(Runtimes)
  BY LoaderTypes
<1>2. \A i \in DOMAIN upgrade.candidates : upgrade.candidates[i] \in Runtimes
  BY <1>1
<1> QED
  BY <1>2, LoaderTypes, GroupFields DEF Runtimes, NoRuntime

\* One entry changes, not its counts and not what calls have of it.
LEMMA EntryStep ==
    ASSUME LoaderInv, SameCalls, NEW c \in Parts, NEW e \in Entry,
           entries' = [entries EXCEPT ![c] = e],
           e.inFlight = entries[c].inFlight, e.currentInFlight = entries[c].currentInFlight,
           e.generation = entries[c].generation,
           e.runtime \in {entries[c].runtime, NoRuntime},
           \/ e.state \in {"ready", "failed"} /\ e.runtime = entries[c].runtime
           \/ entries[c].inFlight = 0
           \/ entries[c].state \notin {"ready", "failed"} \/ entries[c].runtime = NoRuntime,
           UNCHANGED <<retired, upgrade, loads>>,
           alive' = alive \/ (alive' = alive \ {entries[c].runtime} /\ e.runtime = NoRuntime)
    PROVE  /\ LeasePart' /\ CountsPart' /\ GenerationPart' /\ DrainPart' /\ AlivePart'
           /\ DistinctPart'
<1>1. /\ entries' \in [Parts -> Entry] /\ entries'[c] = e
      /\ \A d \in Parts \ {c} : entries'[d] = entries[d]
  BY EntrySet DEF LoaderInv
<1>2. /\ \A d : CallsOn(lessee', d) = CallsOn(lessee, d)
      /\ \A d, g : CallsOf(lessee', d, g) = CallsOf(lessee, d, g)
      /\ \A u : Telling(lessee', u) = Telling(lessee, u)
  BY LeasesKept
<1>3. \A d \in Parts : /\ entries'[d].inFlight = entries[d].inFlight
                       /\ entries'[d].currentInFlight = entries[d].currentInFlight
                       /\ entries'[d].generation = entries[d].generation
                       /\ entries'[d].runtime \in {entries[d].runtime, NoRuntime}
  BY <1>1
<1>4. CountsPart'
  BY <1>2, <1>3 DEF LoaderInv, CountsPart
<1>5. GenerationPart'
  BY <1>3 DEF LoaderInv, GenerationPart
<1>6. DrainPart'
  <2>1. \A u : InUse(retired', u) = InUse(retired, u)
    BY DEF InUse
  <2> QED
    BY <1>2, <2>1 DEF LoaderInv, DrainPart, SameCalls
<1>7. AlivePart'
  BY <1>1, <1>3 DEF LoaderInv, AlivePart, DistinctPart
<1>8. DistinctPart'
  <2>1. /\ NoRuntime \notin Runtimes /\ NoRuntime <= loads
        /\ \A i \in DOMAIN upgrade.candidates : upgrade.candidates[i] \in Runtimes
        /\ \A u \in DOMAIN retired, d \in Parts : retired[u].members[d].runtime \in Runtimes
    BY RuntimesAreNoZero DEF LoaderInv
  <2>2. retired' = retired /\ upgrade' = upgrade /\ loads' = loads
    OBVIOUS
  <2>3. \A d \in Parts : entries'[d].runtime <= loads
    BY <1>3, <2>1 DEF LoaderInv, DistinctPart
  <2>4. \A d, f \in Parts : d # f /\ entries'[d].runtime # NoRuntime =>
           entries'[d].runtime # entries'[f].runtime
    BY <1>3 DEF LoaderInv, DistinctPart
  <2>5. ASSUME NEW d \in Parts, NEW i \in DOMAIN upgrade.candidates
        PROVE  entries'[d].runtime # upgrade.candidates[i]
    <3>1. entries[d].runtime # upgrade.candidates[i]
      BY DEF LoaderInv, DistinctPart
    <3> QED
      BY <1>3, <2>1, <3>1
  <2>6. ASSUME NEW d \in Parts, NEW f \in Parts, NEW u \in DOMAIN retired
        PROVE  entries'[d].runtime # retired[u].members[f].runtime
    <3>1. entries[d].runtime # retired[u].members[f].runtime
      BY DEF LoaderInv, DistinctPart
    <3> QED
      BY <1>3, <2>1, <3>1
  <2> QED
    BY <2>2, <2>3, <2>4, <2>5, <2>6 DEF LoaderInv, DistinctPart
<1>9. ASSUME NEW p \in LoaderCallers, lessee'[p].at = "call"
      PROVE  /\ lessee'[p].runtime # NoRuntime
             /\ IsCurrent(lessee[p].part, lessee[p])' \/ IsRetired(lessee[p].part, lessee[p])'
  <2>1. lessee'[p] = lessee[p] /\ lessee[p].at = "call" /\ lessee[p].part \in Parts
    BY <1>9, LoaderTypes, LesseeFields DEF SameCalls, LoaderInv
  <2>2. /\ lessee[p].runtime # NoRuntime
        /\ IsCurrent(lessee[p].part, lessee[p]) \/ IsRetired(lessee[p].part, lessee[p])
    BY <2>1 DEF LoaderInv, LeasePart
  <2>3. CASE IsRetired(lessee[p].part, lessee[p])
    BY <2>1, <2>2, <2>3 DEF IsRetired
  <2>4. CASE IsCurrent(lessee[p].part, lessee[p])
    <3>1. CASE lessee[p].part # c
      BY <1>1, <2>1, <2>2, <2>4, <3>1 DEF IsCurrent
    <3>2. CASE lessee[p].part = c
      <4>1. p \in CallsOn(lessee, c)
        BY <2>1, <3>2 DEF CallsOn
      <4>2. entries[c].inFlight # 0
        BY <4>1, NoCalls
      <4> QED
        BY <1>1, <2>1, <2>2, <2>4, <3>2, <4>2 DEF IsCurrent
    <3> QED
      BY <3>1, <3>2
  <2> QED
    BY <2>2, <2>1, <2>3, <2>4
<1>10. LeasePart'
  BY <1>9 DEF LeasePart, IsCurrent, IsRetired
<1> QED
  BY <1>4, <1>5, <1>6, <1>7, <1>8, <1>10

\* What calls, entries and retired groups are is left alone; a runtime may be
\* stopped that neither serves nor is called, candidates may go.
LEMMA SideStep ==
    ASSUME LoaderInv, SameCalls, UNCHANGED <<entries, retired, loads>>,
           upgrade'.candidates = upgrade.candidates \/ upgrade'.candidates = <<>>,
           alive' \subseteq alive,
           \A c \in Parts : entries[c].runtime \in alive => entries[c].runtime \in alive',
           \A i \in DOMAIN upgrade'.candidates : upgrade.candidates[i] \in alive',
           \A u \in DOMAIN retired, c \in Parts : retired[u].members[c].inFlight > 0 =>
              retired[u].members[c].runtime \in alive'
    PROVE  /\ LeasePart' /\ CountsPart' /\ GenerationPart' /\ DrainPart' /\ AlivePart'
           /\ DistinctPart'
<1>1. /\ \A d : CallsOn(lessee', d) = CallsOn(lessee, d)
      /\ \A d, g : CallsOf(lessee', d, g) = CallsOf(lessee, d, g)
      /\ \A u : Telling(lessee', u) = Telling(lessee, u)
  BY LeasesKept
<1>2. CountsPart'
  BY <1>1 DEF LoaderInv, CountsPart
<1>3. GenerationPart'
  BY DEF LoaderInv, GenerationPart
<1>4. DrainPart'
  <2>1. \A u : InUse(retired', u) = InUse(retired, u)
    BY DEF InUse
  <2> QED
    BY <1>1, <2>1 DEF LoaderInv, DrainPart, SameCalls
<1>5. /\ \A i \in DOMAIN upgrade'.candidates : /\ i \in DOMAIN upgrade.candidates
                                             /\ upgrade'.candidates[i] = upgrade.candidates[i]
  OBVIOUS
<1>6. AlivePart'
  BY <1>5 DEF LoaderInv, AlivePart
<1>7. DistinctPart'
  BY <1>5 DEF LoaderInv, DistinctPart
<1>8. LeasePart'
  BY DEF LoaderInv, LeasePart, SameCalls, IsCurrent, IsRetired
<1> QED
  BY <1>2, <1>3, <1>4, <1>6, <1>7, <1>8

\* Loads stay where they are, while what loads does not change its state.
LEMMA LoadsKept ==
    ASSUME LoaderInv, \A c \in Parts : entries[c].state = "loading" => entries'[c].state = "loading",
           \A p \in LoaderCallers : lessee'[p].at = "loading" => lessee'[p] = lessee[p]
    PROVE  LoadPart'
<1>1. \A p \in LoaderCallers : lessee[p].part \in Parts
  BY LoaderTypes, LesseeFields DEF LoaderInv
<1> QED
  BY <1>1 DEF LoaderInv, LoadPart

\* A caller that asks, waits, or goes away without a lease.
LEMMA CallerStays ==
    ASSUME LoaderInv, NEW p \in LoaderCallers, NEW l \in Lessee, lessee' = [lessee EXCEPT ![p] = l],
           lessee[p].at \in {"idle", "ensure", "ensured"}, l.at \in {"idle", "ensure", "ensured"},
           UNCHANGED <<entries, alive, loads, retired, upgrade, closing, upgrades>>
    PROVE  LoaderInv'
<1>1. /\ lessee' \in [LoaderCallers -> Lessee] /\ lessee'[p] = l
      /\ \A q \in LoaderCallers \ {p} : lessee'[q] = lessee[q]
  BY LesseeSet DEF LoaderInv
<1>2. SameCalls
  BY <1>1 DEF SameCalls
<1>3. LoaderTypeOK'
  BY <1>1 DEF LoaderInv, LoaderTypeOK
<1>4. LoadPart'
  BY <1>1, LoadsKept
<1>5. /\ LeasePart' /\ CountsPart' /\ GenerationPart' /\ DrainPart' /\ AlivePart' /\ DistinctPart'
  <2>1. \A i \in DOMAIN upgrade'.candidates : upgrade.candidates[i] \in alive'
    BY DEF LoaderInv, AlivePart
  <2>2. \A u \in DOMAIN retired, c \in Parts : retired[u].members[c].inFlight > 0 =>
              retired[u].members[c].runtime \in alive'
    BY DEF LoaderInv, AlivePart
  <2> QED
    BY <1>2, <2>1, <2>2, SideStep
<1> QED
  BY <1>3, <1>4, <1>5 DEF LoaderInv

LEMMA NothingChanges ==
    ASSUME LoaderInv, UNCHANGED <<entries, alive, loads, retired, lessee, upgrade, upgrades>>,
           closing' \in [at : {"no", "upgrades", "drain", "stop", "closed", "gaveup"},
                         seen : SUBSET Parts, part : Parts \union {0}]
    PROVE  LoaderInv'
<1>1. SameCalls /\ LoaderTypeOK'
  BY DEF SameCalls, LoaderInv, LoaderTypeOK
<1>2. LoadPart'
  BY LoadsKept
<1>3. /\ LeasePart' /\ CountsPart' /\ GenerationPart' /\ DrainPart' /\ AlivePart' /\ DistinctPart'
  <2>1. \A i \in DOMAIN upgrade'.candidates : upgrade.candidates[i] \in alive'
    BY DEF LoaderInv, AlivePart
  <2>2. \A u \in DOMAIN retired, c \in Parts : retired[u].members[c].inFlight > 0 =>
              retired[u].members[c].runtime \in alive'
    BY DEF LoaderInv, AlivePart
  <2> QED
    BY <1>1, <2>1, <2>2, SideStep
<1> QED
  BY <1>1, <1>2, <1>3 DEF LoaderInv

LEMMA OfAsking ==
    ASSUME LoaderInv, NEW p \in LoaderCallers,
           (\E c \in Parts : AskRuntime(p, c)) \/ SeeEntry(p) \/ GiveUp(p)
    PROVE  LoaderInv'
<1>1. lessee[p] \in Lessee
  BY LoaderTypes DEF LoaderInv
<1>2. ASSUME NEW c \in Parts, AskRuntime(p, c) PROVE LoaderInv'
  <2>1. [lessee[p] EXCEPT !.at = "ensure", !.part = c] \in Lessee
        /\ [lessee[p] EXCEPT !.at = "ensure", !.part = c].at = "ensure"
    BY <1>1 DEF Lessee
  <2> QED
    BY <1>2, <2>1, CallerStays DEF AskRuntime
<1>3. CASE SeeEntry(p) \/ GiveUp(p)
  <2>1. [lessee[p] EXCEPT !.at = "ensured"] \in Lessee
        /\ [lessee[p] EXCEPT !.at = "ensured"].at = "ensured"
    BY <1>1 DEF Lessee
  <2>2. Away(p) \in Lessee /\ Away(p).at = "idle"
    BY AwayIsLessee
  <2> DEFINE l == IF entries[lessee[p].part].state = "ready"
                  THEN [lessee[p] EXCEPT !.at = "ensured"] ELSE Away(p)
  <2>3. l \in Lessee /\ l.at \in {"idle", "ensured"}
    BY <2>1, <2>2
  <2>4. /\ lessee[p].at = "ensure"
        /\ lessee' = [lessee EXCEPT ![p] = l] \/ lessee' = [lessee EXCEPT ![p] = Away(p)]
    BY <1>3 DEF SeeEntry, GiveUp
  <2>5. UNCHANGED <<entries, alive, loads, retired, upgrade, closing, upgrades>>
    BY <1>3 DEF SeeEntry, GiveUp
  <2> HIDE DEF l
  <2> QED
    BY <2>2, <2>3, <2>4, <2>5, CallerStays
<1> QED
  BY <1>2, <1>3

LEMMA OfBeginLoad == ASSUME LoaderInv, NEW p \in LoaderCallers, BeginLoad(p) PROVE LoaderInv'
<1> DEFINE c == lessee[p].part
           e == [entries[c] EXCEPT !.state = "loading"]
           l == [lessee[p] EXCEPT !.at = "loading"]
<1>1. lessee[p] \in Lessee /\ c \in Parts /\ entries[c] \in Entry /\ lessee[p].at = "ensure"
      /\ entries[c].state = "registered"
  BY LoaderTypes, LesseeFields DEF LoaderInv, BeginLoad
<1>2. /\ e \in Entry /\ e.state = "loading" /\ e.runtime = entries[c].runtime
      /\ e.generation = entries[c].generation /\ e.inFlight = entries[c].inFlight
      /\ e.currentInFlight = entries[c].currentInFlight
  BY <1>1 DEF Entry, EntryStates
<1>3. l \in Lessee /\ l.at = "loading" /\ l.part = c
  BY <1>1 DEF Lessee
<1>4. entries' = [entries EXCEPT ![c] = e] /\ lessee' = [lessee EXCEPT ![p] = l]
  BY LoaderTypes DEF BeginLoad, LoaderInv
<1>5. UNCHANGED <<alive, loads, retired, upgrade, closing, upgrades>>
  BY DEF BeginLoad
<1> HIDE DEF c, e, l
<1>6. /\ entries' \in [Parts -> Entry] /\ entries'[c] = e
      /\ \A d \in Parts \ {c} : entries'[d] = entries[d]
  BY <1>1, <1>2, <1>4, EntrySet DEF LoaderInv
<1>7. /\ lessee' \in [LoaderCallers -> Lessee] /\ lessee'[p] = l
      /\ \A q \in LoaderCallers \ {p} : lessee'[q] = lessee[q]
  BY <1>3, <1>4, LesseeSet DEF LoaderInv
<1>8. LoaderTypeOK'
  BY <1>5, <1>6, <1>7 DEF LoaderInv, LoaderTypeOK
<1>9. SameCalls
  BY <1>1, <1>3, <1>7 DEF SameCalls
<1>10. /\ LeasePart' /\ CountsPart' /\ GenerationPart' /\ DrainPart' /\ AlivePart' /\ DistinctPart'
  BY <1>1, <1>2, <1>4, <1>5, <1>9, EntryStep
<1>11. LoadPart'
  <2>1. \A q \in LoaderCallers : lessee[q].at = "loading" =>
           lessee[q].part \in Parts \ {c} /\ entries[lessee[q].part].state = "loading"
    BY <1>1, LoaderTypes, LesseeFields DEF LoaderInv, LoadPart
  <2> QED
    BY <1>2, <1>3, <1>6, <1>7, <2>1 DEF LoaderInv, LoadPart
<1> QED
  BY <1>8, <1>10, <1>11 DEF LoaderInv

\* An entry fails, is made ready to load again, or is being unloaded.
LEMMA EntryChanges ==
    ASSUME LoaderInv, NEW c \in Parts, NEW e \in Entry, entries' = [entries EXCEPT ![c] = e],
           e.inFlight = entries[c].inFlight, e.currentInFlight = entries[c].currentInFlight,
           e.generation = entries[c].generation,
           e.runtime \in {entries[c].runtime, NoRuntime}, entries[c].state # "loading",
           \/ e.state \in {"ready", "failed"} /\ e.runtime = entries[c].runtime
           \/ entries[c].inFlight = 0
           \/ entries[c].state \notin {"ready", "failed"} \/ entries[c].runtime = NoRuntime,
           UNCHANGED <<retired, upgrade, loads, lessee, upgrades>>,
           alive' = alive \/ (alive' = alive \ {entries[c].runtime} /\ e.runtime = NoRuntime),
           closing' = closing \/ closing' = [closing EXCEPT !.part = c]
    PROVE  LoaderInv'
<1>1. /\ entries' \in [Parts -> Entry] /\ entries'[c] = e
      /\ \A d \in Parts \ {c} : entries'[d] = entries[d]
  BY EntrySet DEF LoaderInv
<1>2. SameCalls
  BY DEF SameCalls
<1>3. LoaderTypeOK'
  BY <1>1 DEF LoaderInv, LoaderTypeOK
<1>4. LoadPart'
  BY <1>1, LoadsKept
<1>5. /\ LeasePart' /\ CountsPart' /\ GenerationPart' /\ DrainPart' /\ AlivePart' /\ DistinctPart'
  BY <1>2, EntryStep
<1> QED
  BY <1>3, <1>4, <1>5 DEF LoaderInv

LEMMA OfEntries ==
    ASSUME LoaderInv,
           \/ \E p \in LoaderCallers, a \in Answers : CallFails(p, a)
           \/ \E c \in Parts : \/ RecoverFailed(c) \/ ShutdownUnloads(c)
                               \/ \E gone \in BOOLEAN : EndUnload(c, gone)
    PROVE  LoaderInv'
<1>1. entries \in [Parts -> Entry]
  BY LoaderTypes DEF LoaderInv
<1>2. ASSUME NEW c \in Parts, NEW s \in EntryStates
      PROVE  LET e == [entries[c] EXCEPT !.state = s]
             IN /\ e \in Entry /\ e.state = s /\ e.runtime = entries[c].runtime
                /\ e.generation = entries[c].generation /\ e.inFlight = entries[c].inFlight
                /\ e.currentInFlight = entries[c].currentInFlight
                /\ [entries EXCEPT ![c].state = s] = [entries EXCEPT ![c] = e]
  BY <1>1 DEF Entry
<1>3. EntryStates = {"registered", "loading", "ready", "unloading", "failed"}
  BY DEF EntryStates
<1>4. ASSUME NEW p \in LoaderCallers, NEW a \in Answers, CallFails(p, a) PROVE LoaderInv'
  <2> DEFINE c == lessee[p].part
             e == [entries[c] EXCEPT !.state = "failed"]
  <2>1. c \in Parts
    BY LoaderTypes, LesseeFields DEF LoaderInv
  <2>2. /\ e \in Entry /\ e.state = "failed" /\ e.runtime = entries[c].runtime
        /\ e.generation = entries[c].generation /\ e.inFlight = entries[c].inFlight
        /\ e.currentInFlight = entries[c].currentInFlight
        /\ [entries EXCEPT ![c].state = "failed"] = [entries EXCEPT ![c] = e]
    BY <1>2, <1>3, <2>1
  <2>3. entries' = [entries EXCEPT ![c].state = "failed"] /\ entries[c].state = "ready"
        /\ UNCHANGED <<alive, loads, retired, lessee, upgrade, closing, upgrades>>
    BY <1>4 DEF CallFails
  <2> HIDE DEF c, e
  <2> QED
    BY <2>1, <2>2, <2>3, EntryChanges
<1>5. ASSUME NEW c \in Parts, RecoverFailed(c) \/ ShutdownUnloads(c) PROVE LoaderInv'
  <2>1. CASE entries' = entries
    <3>1. closing' = closing \/ closing' = [closing EXCEPT !.part = c]
      BY <1>5 DEF RecoverFailed, ShutdownUnloads
    <3>2. UNCHANGED <<alive, loads, retired, lessee, upgrade, upgrades>>
      BY <1>5 DEF RecoverFailed, ShutdownUnloads
    <3>3. closing' \in [at : {"no", "upgrades", "drain", "stop", "closed", "gaveup"},
                        seen : SUBSET Parts, part : Parts \union {0}]
      BY <3>1 DEF LoaderInv, LoaderTypeOK
    <3> QED
      BY <2>1, <3>2, <3>3, NothingChanges
  <2>2. ASSUME NEW s \in {"registered", "unloading"}, entries' = [entries EXCEPT ![c].state = s],
               \/ entries[c].inFlight = 0 /\ entries[c].state \in {"ready", "failed"}
               \/ entries[c].runtime = NoRuntime /\ entries[c].state = "failed"
        PROVE  LoaderInv'
    <3> DEFINE e == [entries[c] EXCEPT !.state = s]
    <3>0. s \in EntryStates
      BY <1>3, <2>2
    <3>1. /\ e \in Entry /\ e.state = s /\ e.runtime = entries[c].runtime
          /\ e.generation = entries[c].generation /\ e.inFlight = entries[c].inFlight
          /\ e.currentInFlight = entries[c].currentInFlight
          /\ [entries EXCEPT ![c].state = s] = [entries EXCEPT ![c] = e]
      BY <1>2, <3>0
    <3>2. UNCHANGED <<alive, loads, retired, lessee, upgrade, upgrades>>
          /\ (closing' = closing \/ closing' = [closing EXCEPT !.part = c])
      BY <1>5 DEF RecoverFailed, ShutdownUnloads
    <3> HIDE DEF e
    <3>3. CASE entries[c].inFlight = 0
      BY <2>2, <3>1, <3>2, <3>3, EntryChanges
    <3>4. CASE entries[c].runtime = NoRuntime /\ entries[c].state = "failed"
      BY <2>2, <3>1, <3>2, <3>4, EntryChanges
    <3> QED
      BY <2>2, <3>3, <3>4
  <2> QED
    BY <1>5, <2>1, <2>2 DEF RecoverFailed, ShutdownUnloads, Unloadable
<1>6. ASSUME NEW c \in Parts, NEW gone \in BOOLEAN, EndUnload(c, gone) PROVE LoaderInv'
  <2>1. CASE ~gone
    <3> DEFINE e == [entries[c] EXCEPT !.state = "failed"]
    <3>1. /\ e \in Entry /\ e.state = "failed" /\ e.runtime = entries[c].runtime
          /\ e.generation = entries[c].generation /\ e.inFlight = entries[c].inFlight
          /\ e.currentInFlight = entries[c].currentInFlight
          /\ [entries EXCEPT ![c].state = "failed"] = [entries EXCEPT ![c] = e]
      BY <1>2, <1>3
    <3>2. entries' = [entries EXCEPT ![c].state = "failed"] /\ entries[c].state = "unloading"
          /\ UNCHANGED <<alive, loads, retired, lessee, upgrade, closing, upgrades>>
      BY <1>6, <2>1 DEF EndUnload
    <3> HIDE DEF e
    <3> QED
      BY <3>1, <3>2, EntryChanges
  <2>2. CASE gone
    <3> DEFINE e == [entries[c] EXCEPT !.state = "registered", !.runtime = NoRuntime]
    <3>1. /\ e \in Entry /\ e.state = "registered" /\ e.runtime = NoRuntime
          /\ e.generation = entries[c].generation /\ e.inFlight = entries[c].inFlight
          /\ e.currentInFlight = entries[c].currentInFlight
      BY <1>1, <1>3 DEF Entry
    <3>2. entries' = [entries EXCEPT ![c] = e] /\ entries[c].state = "unloading"
          /\ alive' = alive \ {entries[c].runtime}
          /\ UNCHANGED <<loads, retired, lessee, upgrade, closing, upgrades>>
      BY <1>6, <2>2 DEF EndUnload
    <3> HIDE DEF e
    <3> QED
      BY <3>1, <3>2, EntryChanges
  <2> QED
    BY <2>1, <2>2
<1> QED
  BY <1>4, <1>5, <1>6

LEMMA GroupsAreFinite ==
    ASSUME LoaderInv, NEW u
    PROVE  /\ IsFiniteSet(InUse(retired, u)) /\ Cardinality(InUse(retired, u)) \in Nat
           /\ IsFiniteSet(Telling(lessee, u)) /\ Cardinality(Telling(lessee, u)) \in Nat
<1>1. IsFiniteSet(Parts)
  BY LoaderTypes, FS_Interval DEF LoaderInv, Parts
<1>2. InUse(retired, u) \in SUBSET Parts /\ Telling(lessee, u) \in SUBSET LoaderCallers
  BY DEF InUse, Telling
<1>3. IsFiniteSet(InUse(retired, u)) /\ IsFiniteSet(Telling(lessee, u))
  BY <1>1, <1>2, LoaderTypes, FS_Subset DEF LoaderInv
<1> QED
  BY <1>3, FS_CardinalityType

\* A group that was triggered serves nobody.
LEMMA TriggeredIsUnused ==
    ASSUME LoaderInv, NEW u \in DOMAIN retired, retired[u].triggered, NEW c \in Parts
    PROVE  retired[u].members[c].inFlight = 0
<1>1. Cardinality(InUse(retired, u)) = 0
  BY GroupsAreFinite DEF LoaderInv, DrainPart
<1>2. InUse(retired, u) = {}
  BY <1>1, GroupsAreFinite, FS_EmptySet
<1>3. retired[u].members[c].inFlight \in Nat
  BY LoaderTypes, GroupFields DEF LoaderInv
<1> QED
  BY <1>2, <1>3 DEF InUse

\* Runtimes of drained members are stopped.
LEMMA MembersStopped ==
    ASSUME LoaderInv, NEW S, alive' = alive \ S,
           \A r \in S : \E u \in DOMAIN retired, c \in Parts :
              r = retired[u].members[c].runtime /\ retired[u].members[c].inFlight <= 0,
           UNCHANGED <<entries, loads, retired, lessee, upgrade, upgrades>>,
           closing' \in [at : {"no", "upgrades", "drain", "stop", "closed", "gaveup"},
                         seen : SUBSET Parts, part : Parts \union {0}]
    PROVE  LoaderInv'
<1>1. SameCalls /\ LoaderTypeOK'
  BY DEF SameCalls, LoaderInv, LoaderTypeOK
<1>2. LoadPart'
  BY LoadsKept
<1>3. \A c \in Parts : entries[c].runtime \notin S
  BY DEF LoaderInv, DistinctPart
<1>4. \A i \in DOMAIN upgrade.candidates : upgrade.candidates[i] \notin S
  BY DEF LoaderInv, DistinctPart
<1>5. ASSUME NEW u \in DOMAIN retired, NEW c \in Parts, retired[u].members[c].inFlight > 0
      PROVE  retired[u].members[c].runtime \notin S
  <2>1. SUFFICES ASSUME retired[u].members[c].runtime \in S PROVE FALSE
    OBVIOUS
  <2>2. PICK v \in DOMAIN retired, d \in Parts :
           /\ retired[u].members[c].runtime = retired[v].members[d].runtime
           /\ retired[v].members[d].inFlight <= 0
    BY <2>1
  <2>3. u = v /\ c = d
    BY <2>2 DEF LoaderInv, DistinctPart
  <2>4. retired[u].members[c].inFlight \in Nat
    BY LoaderTypes, GroupFields DEF LoaderInv
  <2> QED
    BY <1>5, <2>2, <2>3, <2>4
<1>6. /\ \A i \in DOMAIN upgrade'.candidates : upgrade.candidates[i] \in alive'
      /\ \A u \in DOMAIN retired, c \in Parts : retired[u].members[c].inFlight > 0 =>
              retired[u].members[c].runtime \in alive'
  BY <1>4, <1>5 DEF LoaderInv, AlivePart
<1>7. /\ LeasePart' /\ CountsPart' /\ GenerationPart' /\ DrainPart' /\ AlivePart' /\ DistinctPart'
  BY <1>1, <1>3, <1>6, SideStep
<1> QED
  BY <1>1, <1>2, <1>7 DEF LoaderInv

LEMMA OfStopMember == ASSUME LoaderInv, NEW u \in DOMAIN retired, StopMember(u) PROVE LoaderInv'
<1>1. PICK c \in Parts : alive' = alive \ {retired[u].members[c].runtime}
  BY DEF StopMember
<1>2. retired[u].members[c].inFlight = 0
  BY TriggeredIsUnused DEF StopMember
<1>3. UNCHANGED <<entries, loads, retired, lessee, upgrade, closing, upgrades>>
  BY DEF StopMember
<1>4. closing' \in [at : {"no", "upgrades", "drain", "stop", "closed", "gaveup"},
                    seen : SUBSET Parts, part : Parts \union {0}]
  BY <1>3 DEF LoaderInv, LoaderTypeOK
<1> DEFINE S == {retired[u].members[c].runtime}
<1>5. \A r \in S : \E v \in DOMAIN retired, d \in Parts :
         r = retired[v].members[d].runtime /\ retired[v].members[d].inFlight <= 0
  BY <1>2
<1>6. alive' = alive \ S
  BY <1>1
<1> HIDE DEF S
<1> QED
  BY <1>3, <1>4, <1>5, <1>6, MembersStopped

LEMMA OfShutdown == ASSUME LoaderInv, ShutdownStep PROVE LoaderInv'
<1>1. closing' \in [at : {"no", "upgrades", "drain", "stop", "closed", "gaveup"},
                    seen : SUBSET Parts, part : Parts \union {0}]
  <2>1. closing \in [at : {"no", "upgrades", "drain", "stop", "closed", "gaveup"},
                     seen : SUBSET Parts, part : Parts \union {0}]
    BY DEF LoaderInv, LoaderTypeOK
  <2>2. CASE ShutdownBegins \/ UpgradesAreDone \/ ShutdownEnds \/ ShutdownTimesOut
    BY <2>1, <2>2 DEF ShutdownBegins, UpgradesAreDone, ShutdownEnds, ShutdownTimesOut
  <2>3. ASSUME NEW c \in Parts, SeeDrained(c) \/ ShutdownUnloads(c) \/ ShutdownStopsOld(c)
        PROVE  closing' \in [at : {"no", "upgrades", "drain", "stop", "closed", "gaveup"},
                             seen : SUBSET Parts, part : Parts \union {0}]
    BY <2>1, <2>3 DEF SeeDrained, ShutdownUnloads, ShutdownStopsOld
  <2> QED
    BY <2>2, <2>3 DEF ShutdownStep
<1>2. ASSUME NEW c \in Parts, ShutdownStopsOld(c) PROVE LoaderInv'
  <2> DEFINE S == {retired[u].members[c].runtime :
                     u \in {v \in DOMAIN retired : retired[v].members[c].inFlight <= 0}}
  <2>1. \A r \in S : \E u \in DOMAIN retired, d \in Parts :
           r = retired[u].members[d].runtime /\ retired[u].members[d].inFlight <= 0
    OBVIOUS
  <2>2. alive' = alive \ S /\ UNCHANGED <<entries, loads, retired, lessee, upgrade, upgrades>>
    BY <1>2 DEF ShutdownStopsOld
  <2> HIDE DEF S
  <2> QED
    BY <1>1, <2>1, <2>2, MembersStopped
<1>3. ASSUME NEW c \in Parts, ShutdownUnloads(c) PROVE LoaderInv'
  BY <1>3, OfEntries
<1>4. CASE \/ ShutdownBegins \/ UpgradesAreDone \/ ShutdownEnds \/ ShutdownTimesOut
           \/ \E c \in Parts : SeeDrained(c)
  <2>1. UNCHANGED <<entries, alive, loads, retired, lessee, upgrade, upgrades>>
    BY <1>4 DEF ShutdownBegins, UpgradesAreDone, ShutdownEnds, ShutdownTimesOut, SeeDrained
  <2> QED
    BY <1>1, <2>1, NothingChanges
<1> QED
  BY <1>2, <1>3, <1>4 DEF ShutdownStep

LEMMA OfCandidates ==
    ASSUME LoaderInv, BeginUpgrade \/ StopCandidates \/ LoadCandidate(FALSE) PROVE LoaderInv'
<1>1. SameCalls
  BY DEF SameCalls, BeginUpgrade, StopCandidates, LoadCandidate
<1>2. LoadPart'
  BY LoadsKept DEF BeginUpgrade, StopCandidates, LoadCandidate
<1>3. UNCHANGED <<entries, loads, retired, lessee, closing>>
  BY DEF BeginUpgrade, StopCandidates, LoadCandidate
<1>4. LoaderTypeOK'
  <2>1. <<>> \in Seq(Runtimes)
    OBVIOUS
  <2>2. upgrade' \in [at : {"no", "loading", "stopping"}, candidates : Seq(Runtimes)]
    <3>1. upgrade \in [at : {"no", "loading", "stopping"}, candidates : Seq(Runtimes)]
      BY LoaderTypes DEF LoaderInv
    <3>2. CASE BeginUpgrade \/ StopCandidates
      <4>1. \A a \in {"no", "loading"}, s \in Seq(Runtimes) :
               [at |-> a, candidates |-> s] \in [at : {"no", "loading", "stopping"},
                                                candidates : Seq(Runtimes)]
        OBVIOUS
      <4>2. upgrade' = [at |-> "loading", candidates |-> <<>>]
            \/ upgrade' = [at |-> "no", candidates |-> <<>>]
        BY <3>2 DEF BeginUpgrade, StopCandidates
      <4> QED
        BY <2>1, <4>1, <4>2, Zenon
    <3>3. CASE LoadCandidate(FALSE)
      BY <3>1, <3>3 DEF LoadCandidate
    <3> QED
      BY <3>2, <3>3
  <2>3. upgrades' \in 0 .. MaxUpgrades
    BY LoaderAssumption DEF BeginUpgrade, StopCandidates, LoadCandidate, LoaderInv, LoaderTypeOK,
       LoaderAssumption
  <2>4. alive' \subseteq alive
    BY DEF BeginUpgrade, StopCandidates, LoadCandidate
  <2> QED
    BY <1>3, <2>2, <2>3, <2>4 DEF LoaderInv, LoaderTypeOK
<1>5. /\ upgrade'.candidates = upgrade.candidates \/ upgrade'.candidates = <<>>
      /\ alive' = alive \/ (upgrade'.candidates = <<>> /\ alive' = alive \
            {upgrade.candidates[i] : i \in DOMAIN upgrade.candidates})
  BY LoaderTypes DEF LoaderInv, BeginUpgrade, StopCandidates, LoadCandidate
<1>6. \A c \in Parts : entries[c].runtime \in alive => entries[c].runtime \in alive'
  BY <1>5 DEF LoaderInv, DistinctPart
<1>7. \A i \in DOMAIN upgrade'.candidates : upgrade.candidates[i] \in alive'
  BY <1>5 DEF LoaderInv, AlivePart
<1>8. \A u \in DOMAIN retired, c \in Parts : retired[u].members[c].inFlight > 0 =>
         retired[u].members[c].runtime \in alive'
  BY <1>5 DEF LoaderInv, AlivePart, DistinctPart
<1>9. alive' \subseteq alive
  BY <1>5
<1>10. /\ LeasePart' /\ CountsPart' /\ GenerationPart' /\ DrainPart' /\ AlivePart' /\ DistinctPart'
  BY <1>1, <1>3, <1>5, <1>6, <1>7, <1>8, <1>9, SideStep
<1> QED
  BY <1>2, <1>4, <1>10 DEF LoaderInv

LEMMA OfNewCandidate == ASSUME LoaderInv, LoadCandidate(TRUE) PROVE LoaderInv'
<1> DEFINE n == loads + 1
           cs == upgrade.candidates
<1>1. /\ UNCHANGED <<entries, retired, lessee, closing, upgrades>> /\ loads' = n
      /\ alive' = alive \union {n} /\ upgrade' = [upgrade EXCEPT !.candidates = Append(@, n)]
      /\ loads < MaxLoads
  BY DEF LoadCandidate
<1>2. loads \in Nat /\ MaxLoads \in Nat /\ cs \in Seq(Runtimes)
      /\ upgrade \in [at : {"no", "loading", "stopping"}, candidates : Seq(Runtimes)]
  BY LoaderTypes DEF LoaderInv
<1>3. n \in Runtimes /\ n \in 0 .. MaxLoads /\ loads < n /\ n # NoRuntime
  BY <1>1, <1>2 DEF Runtimes, NoRuntime
<1>4. upgrade'.candidates = Append(cs, n)
      /\ upgrade' \in [at : {"no", "loading", "stopping"}, candidates : Seq(Runtimes)]
  <2> HIDE DEF n
  <2>1. Append(cs, n) \in Seq(Runtimes)
    BY <1>2, <1>3
  <2> QED
    BY <1>1, <1>2, <2>1
<1> HIDE DEF n
<1>5. /\ DOMAIN upgrade'.candidates = 1 .. (Len(cs) + 1) /\ DOMAIN cs = 1 .. Len(cs)
      /\ Len(cs) \in Nat /\ upgrade'.candidates[Len(cs) + 1] = n
      /\ \A i \in DOMAIN cs : upgrade'.candidates[i] = cs[i]
  BY <1>2, <1>3, <1>4
<1>6. \A i \in DOMAIN upgrade'.candidates :
         \/ upgrade'.candidates[i] = n /\ i = Len(cs) + 1
         \/ i \in DOMAIN cs /\ upgrade'.candidates[i] = cs[i]
  BY <1>5
<1>7. LoaderTypeOK'
  BY <1>1, <1>3, <1>4 DEF LoaderInv, LoaderTypeOK
<1>8. SameCalls /\ LoadPart'
  BY <1>1 DEF SameCalls, LoaderInv, LoadPart
<1>9. LeasePart' /\ GenerationPart'
  BY <1>1 DEF LoaderInv, LeasePart, IsCurrent, IsRetired, GenerationPart
<1>10. CountsPart'
  BY <1>1, <1>8, LeasesKept DEF LoaderInv, CountsPart
<1>11. DrainPart'
  <2>1. \A u : InUse(retired', u) = InUse(retired, u)
    BY <1>1 DEF InUse
  <2> QED
    BY <1>1, <1>8, <2>1, LeasesKept DEF LoaderInv, DrainPart
<1>12. AlivePart'
  BY <1>1, <1>6 DEF LoaderInv, AlivePart
<1>13. DistinctPart'
  <2>1. /\ \A c \in Parts : entries[c].runtime <= loads /\ entries[c].runtime \in Nat
        /\ \A i \in DOMAIN cs : cs[i] <= loads /\ cs[i] \in Nat
        /\ \A u \in DOMAIN retired, c \in Parts :
              retired[u].members[c].runtime <= loads /\ retired[u].members[c].runtime \in Nat
    BY LoaderTypes, RuntimesAreNoZero, EntryFields DEF LoaderInv, DistinctPart
  <2>2. /\ \A c \in Parts : entries[c].runtime <= n /\ entries[c].runtime # n
        /\ \A i \in DOMAIN cs : cs[i] <= n /\ cs[i] # n
        /\ \A u \in DOMAIN retired, c \in Parts :
              retired[u].members[c].runtime <= n /\ retired[u].members[c].runtime # n
    BY <1>2, <1>3, <2>1 DEF n
  <2>3. n <= n
    BY <1>2 DEF n
  <2>4. \A i \in DOMAIN upgrade'.candidates : upgrade'.candidates[i] <= loads'
    BY <1>1, <1>6, <2>2, <2>3
  <2>5. \A i, j \in DOMAIN upgrade'.candidates :
          i # j => upgrade'.candidates[i] # upgrade'.candidates[j]
    BY <1>6, <2>2 DEF LoaderInv, DistinctPart
  <2>6. /\ \A c \in Parts, i \in DOMAIN upgrade'.candidates :
              entries[c].runtime # upgrade'.candidates[i]
        /\ \A d \in Parts, u \in DOMAIN retired, i \in DOMAIN upgrade'.candidates :
              upgrade'.candidates[i] # retired[u].members[d].runtime
    BY <1>6, <2>2 DEF LoaderInv, DistinctPart
  <2> QED
    BY <1>1, <2>2, <2>4, <2>5, <2>6 DEF LoaderInv, DistinctPart
<1> QED
  BY <1>7, <1>8, <1>9, <1>10, <1>11, <1>12, <1>13 DEF LoaderInv

\* A call is of no generation that its component has not reached.
LEMMA CallsAreOfThePast ==
    ASSUME LoaderInv, NEW c \in Parts
    PROVE  /\ CallsOf(lessee, c, entries[c].generation + 1) = {}
           /\ entries[c].state \notin {"ready", "failed"} =>
                 CallsOf(lessee, c, entries[c].generation) = {}
<1>1. ASSUME NEW p \in CallsOn(lessee, c)
      PROVE  \/ lessee[p].generation < entries[c].generation
             \/ /\ lessee[p].generation = entries[c].generation
                /\ entries[c].state \in {"ready", "failed"}
  BY DEF CallsOn, LoaderInv, LeasePart, IsCurrent, IsRetired, GenerationPart
<1>2. entries[c].generation \in Nat
  BY LoaderTypes, EntryFields DEF LoaderInv
<1>3. \A p \in CallsOn(lessee, c) : lessee[p].generation \in Nat
  BY LoaderTypes, LesseeFields DEF LoaderInv, CallsOn
<1>4. ASSUME NEW p \in CallsOn(lessee, c) PROVE lessee[p].generation # entries[c].generation + 1
  <2>1. lessee[p].generation <= entries[c].generation
    BY <1>1, <1>2, <1>3
  <2> QED
    BY <1>2, <1>3, <2>1
<1>5. ASSUME entries[c].state \notin {"ready", "failed"}, NEW p \in CallsOn(lessee, c)
      PROVE  lessee[p].generation # entries[c].generation
  BY <1>1, <1>2, <1>3, <1>5
<1> QED
  BY <1>4, <1>5 DEF CallsOf

LEMMA OfEndLoad ==
    ASSUME LoaderInv, NEW p \in LoaderCallers, NEW o \in {"ready", "nothing", "stuck"}, EndLoad(p, o)
    PROVE  LoaderInv'
<1> DEFINE c == lessee[p].part
           l == IF o = "ready" THEN [lessee[p] EXCEPT !.at = "ensured"] ELSE Away(p)
<1>1. lessee[p] \in Lessee /\ c \in Parts /\ entries[c] \in Entry /\ lessee[p].at = "loading"
  BY LoaderTypes, LesseeFields DEF LoaderInv, EndLoad
<1>2. /\ entries[c].state = "loading"
      /\ \A q \in LoaderCallers \ {p} : lessee[q].at = "loading" => lessee[q].part # c
  BY <1>1 DEF LoaderInv, LoadPart
<1>3. l \in Lessee /\ l.at \in {"idle", "ensured"}
  <2>1. [lessee[p] EXCEPT !.at = "ensured"] \in Lessee
        /\ [lessee[p] EXCEPT !.at = "ensured"].at = "ensured"
    BY <1>1 DEF Lessee
  <2> QED
    BY <2>1, AwayIsLessee
<1>4. lessee' = [lessee EXCEPT ![p] = l] /\ UNCHANGED <<retired, upgrade, closing, upgrades>>
  BY DEF EndLoad
<1> HIDE DEF l
<1>5. /\ lessee' \in [LoaderCallers -> Lessee] /\ lessee'[p] = l
      /\ \A q \in LoaderCallers \ {p} : lessee'[q] = lessee[q]
  BY <1>3, <1>4, LesseeSet DEF LoaderInv
<1>6. SameCalls
  BY <1>1, <1>3, <1>5 DEF SameCalls
<1>7. ASSUME NEW e \in Entry, entries' = [entries EXCEPT ![c] = e] PROVE LoadPart'
  <2>1. \A d \in Parts \ {c} : entries'[d] = entries[d]
    BY <1>1, <1>7, EntrySet DEF LoaderInv
  <2>2. \A q \in LoaderCallers : lessee'[q].at = "loading" =>
           q # p /\ lessee'[q] = lessee[q] /\ lessee[q].part \in Parts \ {c}
    BY <1>1, <1>2, <1>3, <1>5, LoaderTypes, LesseeFields DEF LoaderInv
  <2> QED
    BY <2>1, <2>2 DEF LoaderInv, LoadPart
<1>8. CASE o = "nothing"
  <2> DEFINE e == [entries[c] EXCEPT !.state = "failed", !.runtime = NoRuntime]
  <2>1. /\ e \in Entry /\ e.state = "failed" /\ e.runtime = NoRuntime
        /\ e.generation = entries[c].generation /\ e.inFlight = entries[c].inFlight
        /\ e.currentInFlight = entries[c].currentInFlight
    BY <1>1 DEF Entry, EntryStates
  <2>2. entries' = [entries EXCEPT ![c] = e] /\ UNCHANGED <<alive, loads>>
    BY <1>8 DEF EndLoad
  <2> HIDE DEF c, e
  <2>3. entries' \in [Parts -> Entry]
    BY <1>1, <2>1, <2>2, EntrySet DEF LoaderInv
  <2>4. LoaderTypeOK'
    BY <1>4, <1>5, <2>2, <2>3 DEF LoaderInv, LoaderTypeOK
  <2>5. /\ LeasePart' /\ CountsPart' /\ GenerationPart' /\ DrainPart' /\ AlivePart' /\ DistinctPart'
    BY <1>1, <1>2, <1>4, <1>6, <2>1, <2>2, EntryStep
  <2> QED
    BY <1>7, <2>1, <2>2, <2>4, <2>5 DEF LoaderInv
<1>9. CASE o # "nothing"
  <2> DEFINE n == loads + 1
             s == IF o = "ready" THEN "ready" ELSE "failed"
             g == entries[c].generation + 1
             e == [entries[c] EXCEPT !.state = s, !.runtime = n, !.generation = g]
  <2>1. /\ entries' = [entries EXCEPT ![c] = e] /\ loads' = n /\ alive' = alive \union {n}
        /\ loads < MaxLoads
    BY <1>9 DEF EndLoad
  <2>2. loads \in Nat /\ MaxLoads \in Nat
    BY LoaderTypes DEF LoaderInv
  <2>3. n \in Runtimes /\ n \in 0 .. MaxLoads /\ loads < n /\ n # NoRuntime
    BY <2>1, <2>2 DEF Runtimes, NoRuntime
  <2>4. s \in EntryStates /\ s \in {"ready", "failed"} /\ g \in Nat /\ entries[c].generation < g
    BY <1>1, EntryFields DEF EntryStates
  <2> HIDE DEF n, s
  <2>5. /\ e \in Entry /\ e.state = s /\ e.runtime = n /\ e.generation = g
        /\ e.inFlight = entries[c].inFlight /\ e.currentInFlight = entries[c].currentInFlight
    <3> HIDE DEF g
    <3> QED
      BY <1>1, <2>3, <2>4 DEF Entry
  <2>6. /\ CallsOf(lessee, c, g) = {} /\ CallsOf(lessee, c, entries[c].generation) = {}
    BY <1>1, <1>2, CallsAreOfThePast
  <2> HIDE DEF c, e, g
  <2>7. /\ entries' \in [Parts -> Entry] /\ entries'[c] = e
        /\ \A d \in Parts \ {c} : entries'[d] = entries[d]
    BY <1>1, <2>1, <2>5, EntrySet DEF LoaderInv
  <2>8. LoaderTypeOK'
    BY <1>4, <1>5, <2>1, <2>3, <2>7 DEF LoaderInv, LoaderTypeOK
  <2>9. /\ \A d : CallsOn(lessee', d) = CallsOn(lessee, d)
        /\ \A d, h : CallsOf(lessee', d, h) = CallsOf(lessee, d, h)
        /\ \A u : Telling(lessee', u) = Telling(lessee, u)
    BY <1>6, LeasesKept
  <2>10. CountsPart'
    <3>1. entries'[c].currentInFlight = Cardinality(CallsOf(lessee, c, entries'[c].generation))
      BY <1>1, <2>5, <2>6, <2>7 DEF LoaderInv, CountsPart
    <3>2. entries'[c].inFlight = Cardinality(CallsOn(lessee, c))
      BY <1>1, <2>5, <2>7 DEF LoaderInv, CountsPart
    <3>3. \A d \in Parts : /\ entries'[d].inFlight = Cardinality(CallsOn(lessee, d))
                           /\ entries'[d].currentInFlight =
                                 Cardinality(CallsOf(lessee, d, entries'[d].generation))
      BY <2>7, <3>1, <3>2 DEF LoaderInv, CountsPart
    <3>4. \A d \in Parts, u \in DOMAIN retired : retired[u].members[d].inFlight =
             Cardinality(CallsOf(lessee', d, retired[u].members[d].generation))
      BY <2>9 DEF LoaderInv, CountsPart
    <3>5. \A d \in Parts : /\ entries'[d].inFlight = Cardinality(CallsOn(lessee', d))
                           /\ entries'[d].currentInFlight =
                                 Cardinality(CallsOf(lessee', d, entries'[d].generation))
      BY <2>9, <3>3
    <3> QED
      BY <1>4, <3>4, <3>5 DEF CountsPart
  <2>11. GenerationPart'
    <3>1. \A u \in DOMAIN retired : retired[u].members[c].generation < entries'[c].generation
      BY <1>1, <2>4, <2>5, <2>7, LoaderTypes, GroupFields, EntryFields DEF LoaderInv, GenerationPart
    <3> QED
      BY <1>4, <2>7, <3>1 DEF LoaderInv, GenerationPart
  <2>12. DrainPart'
    <3>1. \A u : InUse(retired', u) = InUse(retired, u)
      BY <1>4 DEF InUse
    <3> QED
      BY <1>4, <1>6, <2>9, <3>1 DEF LoaderInv, DrainPart, SameCalls
  <2>13. AlivePart'
    BY <1>4, <2>1, <2>5, <2>7 DEF LoaderInv, AlivePart
  <2>14. LeasePart'
    <3>1. ASSUME NEW q \in LoaderCallers, lessee'[q].at = "call"
          PROVE  /\ lessee'[q].runtime # NoRuntime
                 /\ IsCurrent(lessee[q].part, lessee[q])' \/ IsRetired(lessee[q].part, lessee[q])'
      <4>1. lessee'[q] = lessee[q] /\ lessee[q].at = "call" /\ lessee[q].part \in Parts
        BY <1>6, <3>1, LoaderTypes, LesseeFields DEF SameCalls, LoaderInv
      <4>2. /\ lessee[q].runtime # NoRuntime
            /\ IsCurrent(lessee[q].part, lessee[q]) \/ IsRetired(lessee[q].part, lessee[q])
        BY <4>1 DEF LoaderInv, LeasePart
      <4>3. lessee[q].part = c => ~IsCurrent(c, lessee[q])
        BY <1>2 DEF IsCurrent
      <4> QED
        BY <1>4, <2>7, <4>1, <4>2, <4>3 DEF IsCurrent, IsRetired
    <3> QED
      BY <3>1, <1>6 DEF LeasePart, IsCurrent, IsRetired
  <2>15. DistinctPart'
    <3>1. /\ \A d \in Parts : entries[d].runtime <= loads /\ entries[d].runtime \in Nat
          /\ \A i \in DOMAIN upgrade.candidates :
                upgrade.candidates[i] <= loads /\ upgrade.candidates[i] \in Nat
          /\ \A u \in DOMAIN retired, d \in Parts :
                retired[u].members[d].runtime <= loads /\ retired[u].members[d].runtime \in Nat
      BY LoaderTypes, RuntimesAreNoZero, EntryFields DEF LoaderInv, DistinctPart
    <3>2. /\ \A d \in Parts : entries[d].runtime <= n /\ entries[d].runtime # n
          /\ \A i \in DOMAIN upgrade.candidates :
                upgrade.candidates[i] <= n /\ upgrade.candidates[i] # n
          /\ \A u \in DOMAIN retired, d \in Parts :
                retired[u].members[d].runtime <= n /\ retired[u].members[d].runtime # n
          /\ n <= n
      BY <2>2, <2>3, <3>1 DEF n
    <3>3. \A d \in Parts : entries'[d].runtime = IF d = c THEN n ELSE entries[d].runtime
      BY <2>5, <2>7
    <3> QED
      BY <1>4, <2>1, <3>2, <3>3 DEF LoaderInv, DistinctPart
  <2> QED
    BY <1>7, <2>1, <2>5, <2>8, <2>10, <2>11, <2>12, <2>13, <2>14, <2>15 DEF LoaderInv
<1> QED
  BY <1>8, <1>9

LEMMA CallTaken ==
    ASSUME LoaderTypeOK, NEW p \in LoaderCallers, NEW l \in Lessee,
           lessee' = [lessee EXCEPT ![p] = l], lessee[p].at = "ensured", l.at = "call"
    PROVE  /\ CallsOn(lessee', l.part) = CallsOn(lessee, l.part) \union {p}
           /\ p \notin CallsOn(lessee, l.part)
           /\ CallsOf(lessee', l.part, l.generation)
                 = CallsOf(lessee, l.part, l.generation) \union {p}
           /\ \A d : d # l.part => CallsOn(lessee', d) = CallsOn(lessee, d)
           /\ \A d, h : d # l.part \/ h # l.generation =>
                 CallsOf(lessee', d, h) = CallsOf(lessee, d, h)
           /\ \A u : Telling(lessee', u) = Telling(lessee, u)
<1>1. /\ lessee' \in [LoaderCallers -> Lessee] /\ lessee'[p] = l
      /\ \A q \in LoaderCallers \ {p} : lessee'[q] = lessee[q]
  BY LesseeSet
<1>2. /\ CallsOn(lessee', l.part) = CallsOn(lessee, l.part) \union {p}
      /\ p \notin CallsOn(lessee, l.part)
  BY <1>1 DEF CallsOn
<1>3. CallsOf(lessee', l.part, l.generation) = CallsOf(lessee, l.part, l.generation) \union {p}
  BY <1>1, <1>2 DEF CallsOf, CallsOn
<1>4. \A d : d # l.part => CallsOn(lessee', d) = CallsOn(lessee, d)
  BY <1>1 DEF CallsOn
<1>5. \A d, h : d # l.part \/ h # l.generation => CallsOf(lessee', d, h) = CallsOf(lessee, d, h)
  BY <1>1 DEF CallsOf, CallsOn
<1>6. \A u : Telling(lessee', u) = Telling(lessee, u)
  BY <1>1 DEF Telling
<1> QED
  BY <1>2, <1>3, <1>4, <1>5, <1>6

LEMMA CallsAreFinite ==
    ASSUME LoaderTypeOK, NEW c, NEW g
    PROVE  /\ IsFiniteSet(CallsOn(lessee, c)) /\ Cardinality(CallsOn(lessee, c)) \in Nat
           /\ IsFiniteSet(CallsOf(lessee, c, g)) /\ Cardinality(CallsOf(lessee, c, g)) \in Nat
<1>1. CallsOn(lessee, c) \in SUBSET LoaderCallers /\ CallsOf(lessee, c, g) \in SUBSET LoaderCallers
  BY DEF CallsOn, CallsOf
<1>2. IsFiniteSet(CallsOn(lessee, c)) /\ IsFiniteSet(CallsOf(lessee, c, g))
  BY <1>1, LoaderTypes, FS_Subset
<1> QED
  BY <1>2, FS_CardinalityType

\* A ready component is given to a caller.
LEMMA LeaseTaken ==
    ASSUME LoaderInv, NEW p \in LoaderCallers, NEW c \in Parts, NEW e \in Entry, NEW l \in Lessee,
           NEW g \in Nat, lessee[p].at = "ensured",
           entries[c].state = "ready", entries[c].runtime # NoRuntime, entries[c].generation = g,
           e.state = "ready", e.runtime = entries[c].runtime, e.generation = g,
           e.inFlight = entries[c].inFlight + 1, e.currentInFlight = entries[c].currentInFlight + 1,
           l.at = "call", l.part = c, l.runtime = entries[c].runtime,
           l.generation = g,
           entries' = [entries EXCEPT ![c] = e], lessee' = [lessee EXCEPT ![p] = l],
           UNCHANGED <<alive, loads, retired, upgrade, closing, upgrades>>
    PROVE  LoaderInv'
<1>6. /\ entries' \in [Parts -> Entry] /\ entries'[c] = e
      /\ \A d \in Parts \ {c} : entries'[d] = entries[d]
  BY EntrySet DEF LoaderInv
<1>7. /\ lessee' \in [LoaderCallers -> Lessee] /\ lessee'[p] = l
      /\ \A q \in LoaderCallers \ {p} : lessee'[q] = lessee[q]
  BY LesseeSet DEF LoaderInv
<1>8. LoaderTypeOK'
  BY <1>6, <1>7 DEF LoaderInv, LoaderTypeOK
<1>9. LoadPart'
  <2>1. \A d \in Parts : entries'[d].state = entries[d].state
    BY <1>6
  <2>2. \A q \in LoaderCallers : lessee'[q].at = "loading" => lessee'[q] = lessee[q]
    BY <1>7
  <2> QED
    BY <2>1, <2>2, LoadsKept
<1>10. /\ CallsOn(lessee', c) = CallsOn(lessee, c) \union {p} /\ p \notin CallsOn(lessee, c)
       /\ CallsOf(lessee', c, g) = CallsOf(lessee, c, g) \union {p}
       /\ \A d : d # c => CallsOn(lessee', d) = CallsOn(lessee, d)
       /\ \A d, h : d # c \/ h # g => CallsOf(lessee', d, h) = CallsOf(lessee, d, h)
       /\ \A u : Telling(lessee', u) = Telling(lessee, u)
  <2>1. LoaderTypeOK
    BY DEF LoaderInv
  <2>2. l.part = c /\ l.generation = g /\ lessee[p].at = "ensured" /\ l.at = "call"
        /\ lessee' = [lessee EXCEPT ![p] = l]
    OBVIOUS
  <2>3. /\ CallsOn(lessee', l.part) = CallsOn(lessee, l.part) \union {p}
        /\ p \notin CallsOn(lessee, l.part)
    BY <2>1, <2>2, CallTaken
  <2>4. CallsOf(lessee', l.part, l.generation) = CallsOf(lessee, l.part, l.generation) \union {p}
    BY <2>1, <2>2, CallTaken
  <2>5. /\ \A d : d # l.part => CallsOn(lessee', d) = CallsOn(lessee, d)
        /\ \A u : Telling(lessee', u) = Telling(lessee, u)
    BY <2>1, <2>2, CallTaken
  <2>6. \A d, h : d # l.part \/ h # l.generation => CallsOf(lessee', d, h) = CallsOf(lessee, d, h)
    BY <2>1, <2>2, CallTaken
  <2> QED
    BY <2>2, <2>3, <2>4, <2>5, <2>6
<1>11. CountsPart'
  <2>1. p \notin CallsOf(lessee, c, g)
    BY <1>10 DEF CallsOf
  <2>2. /\ Cardinality(CallsOn(lessee', c)) = Cardinality(CallsOn(lessee, c)) + 1
        /\ Cardinality(CallsOf(lessee', c, g)) = Cardinality(CallsOf(lessee, c, g)) + 1
    <3>1. IsFiniteSet(CallsOn(lessee, c)) /\ IsFiniteSet(CallsOf(lessee, c, g))
      BY CallsAreFinite DEF LoaderInv
    <3>2. Cardinality(CallsOn(lessee, c) \union {p}) = Cardinality(CallsOn(lessee, c)) + 1
      BY <1>10, <3>1, FS_AddElement
    <3>3. Cardinality(CallsOf(lessee, c, g) \union {p})
             = Cardinality(CallsOf(lessee, c, g)) + 1
      BY <2>1, <3>1, FS_AddElement
    <3> QED
      BY <1>10, <3>2, <3>3
  <2>3. /\ entries'[c].inFlight = Cardinality(CallsOn(lessee', c))
        /\ entries'[c].currentInFlight = Cardinality(CallsOf(lessee', c, g))
    BY <1>6, <2>2 DEF LoaderInv, CountsPart
  <2>4. ASSUME NEW d \in Parts
        PROVE  /\ entries'[d].inFlight = Cardinality(CallsOn(lessee', d))
               /\ entries'[d].currentInFlight =
                     Cardinality(CallsOf(lessee', d, entries'[d].generation))
    <3>1. CASE d = c
      BY <1>6, <2>3, <3>1
    <3>2. CASE d # c
      <4>1. CallsOn(lessee', d) = CallsOn(lessee, d)
        BY <1>10, <3>2
      <4>2. CallsOf(lessee', d, entries[d].generation) = CallsOf(lessee, d, entries[d].generation)
        BY <1>10, <3>2
      <4>3. entries'[d] = entries[d]
        BY <1>6, <3>2
      <4> QED
        BY <4>1, <4>2, <4>3 DEF LoaderInv, CountsPart
    <3> QED
      BY <3>1, <3>2
  <2>5. ASSUME NEW d \in Parts, NEW u \in DOMAIN retired
        PROVE  retired[u].members[d].inFlight =
                  Cardinality(CallsOf(lessee', d, retired[u].members[d].generation))
    <3>1. d # c \/ retired[u].members[d].generation # g
      BY LoaderTypes, GroupFields DEF LoaderInv, GenerationPart
    <3>2. CallsOf(lessee', d, retired[u].members[d].generation)
             = CallsOf(lessee, d, retired[u].members[d].generation)
      BY <1>10, <3>1
    <3> QED
      BY <3>2 DEF LoaderInv, CountsPart
  <2> QED
    BY <2>4, <2>5 DEF CountsPart
<1>12. GenerationPart'
  BY <1>6 DEF LoaderInv, GenerationPart
<1>13. DrainPart'
  <2>1. \A u : InUse(retired', u) = InUse(retired, u)
    BY  DEF InUse
  <2>2. \A q \in LoaderCallers : lessee'[q].at = "drained" => lessee'[q] = lessee[q]
    BY <1>7
  <2> QED
    BY <1>10, <2>1, <2>2 DEF LoaderInv, DrainPart
<1>14. AlivePart' /\ DistinctPart'
  <2>1. \A d \in Parts : entries'[d].runtime = entries[d].runtime
    BY <1>6
  <2> QED
    BY <2>1 DEF LoaderInv, AlivePart, DistinctPart
<1>15. LeasePart'
  <2>1. \A d \in Parts : /\ entries'[d].runtime = entries[d].runtime
                         /\ entries'[d].generation = entries[d].generation
                         /\ entries'[d].state = entries[d].state
    BY <1>6
  <2>2. ASSUME NEW q \in LoaderCallers, lessee'[q].at = "call", NEW m, m = lessee'[q]
        PROVE  m.runtime # NoRuntime /\ (IsCurrent(m.part, m)' \/ IsRetired(m.part, m)')
    <3>1. CASE q = p
      BY <1>7, <2>1, <2>2, <3>1 DEF IsCurrent
    <3>2. CASE q # p
      <4>1. m = lessee[q] /\ m.part \in Parts
        BY <1>7, <2>2, <3>2, LoaderTypes, LesseeFields DEF LoaderInv
      <4> QED
        BY <2>1, <2>2, <4>1 DEF LoaderInv, LeasePart, IsCurrent, IsRetired
    <3> QED
      BY <3>1, <3>2
  <2> QED
    BY <2>2 DEF LeasePart, IsCurrent, IsRetired
<1> QED
  BY <1>8, <1>9, <1>11, <1>12, <1>13, <1>14, <1>15 DEF LoaderInv

LEMMA OfTakeLease == ASSUME LoaderInv, NEW p \in LoaderCallers, TakeLease(p) PROVE LoaderInv'
<1> DEFINE c == lessee[p].part
           e == [entries[c] EXCEPT !.inFlight = entries[c].inFlight + 1,
                                   !.currentInFlight = entries[c].currentInFlight + 1]
           l == [lessee[p] EXCEPT !.at = "call", !.runtime = entries[c].runtime,
                                  !.generation = entries[c].generation]
<1>1. lessee[p] \in Lessee /\ c \in Parts /\ entries[c] \in Entry /\ lessee[p].at = "ensured"
  BY LoaderTypes, LesseeFields DEF LoaderInv, TakeLease
<1>2. UNCHANGED <<alive, loads, retired, upgrade, closing, upgrades>>
  BY DEF TakeLease
<1>3. CASE ~Lendable(c)
  <2>1. lessee' = [lessee EXCEPT ![p] = Away(p)] /\ entries' = entries
    BY <1>3 DEF TakeLease
  <2> QED
    BY <1>1, <1>2, <2>1, AwayIsLessee, CallerStays
<1>4. CASE Lendable(c)
  <2>1. entries[c].state = "ready" /\ entries[c].runtime # NoRuntime
    BY <1>4 DEF Lendable
  <2>2. /\ entries[c].inFlight + 1 \in Nat /\ entries[c].currentInFlight + 1 \in Nat
        /\ entries[c].runtime \in Runtimes \union {NoRuntime} /\ entries[c].generation \in Nat
    BY <1>1, EntryFields
  <2>3. /\ e \in Entry /\ e.state = "ready" /\ e.runtime = entries[c].runtime
        /\ e.generation = entries[c].generation /\ e.inFlight = entries[c].inFlight + 1
        /\ e.currentInFlight = entries[c].currentInFlight + 1
    BY <1>1, <2>1, <2>2 DEF Entry
  <2>4. /\ l \in Lessee /\ l.at = "call" /\ l.part = c /\ l.runtime = entries[c].runtime
        /\ l.generation = entries[c].generation
    BY <1>1, <2>2 DEF Lessee
  <2>5. entries' = [entries EXCEPT ![c] = e] /\ lessee' = [lessee EXCEPT ![p] = l]
    BY <1>4 DEF TakeLease
  <2> HIDE DEF c, e, l
  <2> QED
    BY <1>1, <1>2, <2>1, <2>2, <2>3, <2>4, <2>5, LeaseTaken
<1> QED
  BY <1>3, <1>4

\* A caller that had a lease is away, or on its way to a group.
LEMMA CallOver ==
    ASSUME LoaderTypeOK, NEW p \in LoaderCallers, NEW l \in Lessee,
           lessee' = [lessee EXCEPT ![p] = l],
           lessee[p].at = "call", l.at \in {"idle", "drained"}
    PROVE  /\ CallsOn(lessee', lessee[p].part) = CallsOn(lessee, lessee[p].part) \ {p}
           /\ CallsOf(lessee', lessee[p].part, lessee[p].generation)
                 = CallsOf(lessee, lessee[p].part, lessee[p].generation) \ {p}
           /\ \A d : d # lessee[p].part => CallsOn(lessee', d) = CallsOn(lessee, d)
           /\ \A d, h : d # lessee[p].part \/ h # lessee[p].generation =>
                 CallsOf(lessee', d, h) = CallsOf(lessee, d, h)
           /\ p \in CallsOf(lessee, lessee[p].part, lessee[p].generation)
           /\ p \in CallsOn(lessee, lessee[p].part)
           /\ \A u : l.at = "drained" /\ l.group = u =>
                 Telling(lessee', u) = Telling(lessee, u) \union {p}
           /\ \A u : ~(l.at = "drained" /\ l.group = u) => Telling(lessee', u) = Telling(lessee, u)
           /\ \A u : p \notin Telling(lessee, u)
<1>1. /\ lessee' \in [LoaderCallers -> Lessee] /\ lessee'[p] = l
      /\ \A q \in LoaderCallers \ {p} : lessee'[q] = lessee[q]
  BY LesseeSet
<1>2. CallsOn(lessee', lessee[p].part) = CallsOn(lessee, lessee[p].part) \ {p}
  BY <1>1 DEF CallsOn
<1>3. CallsOf(lessee', lessee[p].part, lessee[p].generation)
         = CallsOf(lessee, lessee[p].part, lessee[p].generation) \ {p}
  BY <1>1 DEF CallsOf, CallsOn
<1>4. \A d : d # lessee[p].part => CallsOn(lessee', d) = CallsOn(lessee, d)
  BY <1>1 DEF CallsOn
<1>5. \A d, h : d # lessee[p].part \/ h # lessee[p].generation =>
         CallsOf(lessee', d, h) = CallsOf(lessee, d, h)
  BY <1>1 DEF CallsOf, CallsOn
<1>6. /\ p \in CallsOf(lessee, lessee[p].part, lessee[p].generation)
      /\ p \in CallsOn(lessee, lessee[p].part)
  BY DEF CallsOf, CallsOn
<1>7. \A u : l.at = "drained" /\ l.group = u => Telling(lessee', u) = Telling(lessee, u) \union {p}
  BY <1>1 DEF Telling
<1>8. \A u : ~(l.at = "drained" /\ l.group = u) => Telling(lessee', u) = Telling(lessee, u)
  BY <1>1 DEF Telling
<1>9. \A u : p \notin Telling(lessee, u)
  BY DEF Telling
<1> QED
  BY <1>2, <1>3, <1>4, <1>5, <1>6, <1>7, <1>8, <1>9

\* A set that has a member counts at least one, and one less without it.
LEMMA OneLess ==
    ASSUME NEW S, IsFiniteSet(S), NEW x \in S
    PROVE  /\ Cardinality(S) \in Nat /\ Cardinality(S) >= 1
           /\ Cardinality(S \ {x}) = Cardinality(S) - 1
<1>1. Cardinality(S) \in Nat /\ Cardinality(S \ {x}) = Cardinality(S) - 1
  BY FS_RemoveElement, FS_CardinalityType
<1>2. Cardinality(S) # 0
  BY FS_EmptySet
<1> QED
  BY <1>1, <1>2

\* A lease is counted wherever it must be.
LEMMA LeaseIsCounted ==
    ASSUME LoaderInv, NEW p \in LoaderCallers, lessee[p].at = "call"
    PROVE  /\ entries[lessee[p].part].inFlight >= 1
           /\ entries[lessee[p].part].generation = lessee[p].generation =>
                 entries[lessee[p].part].currentInFlight >= 1
           /\ \A u \in DOMAIN retired :
                 retired[u].members[lessee[p].part].generation = lessee[p].generation =>
                    retired[u].members[lessee[p].part].inFlight >= 1
<1>1. LoaderTypeOK /\ lessee[p].part \in Parts
  BY LoaderTypes, LesseeFields DEF LoaderInv
<1>2. /\ p \in CallsOf(lessee, lessee[p].part, lessee[p].generation)
      /\ p \in CallsOn(lessee, lessee[p].part)
  BY DEF CallsOf, CallsOn
<1>3. /\ Cardinality(CallsOf(lessee, lessee[p].part, lessee[p].generation)) >= 1
      /\ Cardinality(CallsOn(lessee, lessee[p].part)) >= 1
  BY <1>1, <1>2, CallsAreFinite, OneLess
<1> QED
  BY <1>1, <1>3 DEF LoaderInv, CountsPart

\* Retired groups count a lease of generation g of c less.
CountedOff(c, g) ==
    /\ retired' \in Seq(RetiredGroup) /\ DOMAIN retired' = DOMAIN retired
    /\ \A u \in DOMAIN retired, d \in Parts :
          /\ retired'[u].members[d].runtime = retired[u].members[d].runtime
          /\ retired'[u].members[d].generation = retired[u].members[d].generation
          /\ retired'[u].members[d].inFlight =
                IF d = c /\ retired[u].members[d].generation = g
                THEN retired[u].members[d].inFlight - 1 ELSE retired[u].members[d].inFlight

\* A lease is given back: what is counted is one less, wherever it was counted.
LEMMA LeaseEnds ==
    ASSUME LoaderInv, NEW p \in LoaderCallers, lessee[p].at = "call",
           NEW c \in Parts, c = lessee[p].part, NEW g \in Nat, g = lessee[p].generation,
           NEW e \in Entry, entries' = [entries EXCEPT ![c] = e],
           e.state = entries[c].state, e.runtime = entries[c].runtime,
           e.generation = entries[c].generation, e.inFlight = entries[c].inFlight - 1,
           e.currentInFlight = IF entries[c].generation = g THEN entries[c].currentInFlight - 1
                               ELSE entries[c].currentInFlight,
           NEW l \in Lessee, l.at \in {"idle", "drained"}, lessee' = [lessee EXCEPT ![p] = l],
           CountedOff(c, g), UNCHANGED <<alive, loads, upgrade, closing, upgrades>>
    PROVE  /\ LoaderTypeOK' /\ LeasePart' /\ LoadPart' /\ CountsPart' /\ GenerationPart'
           /\ AlivePart' /\ DistinctPart'
<1>1. LoaderTypeOK
  BY DEF LoaderInv
<1> USE DEF CountedOff
<1>2. /\ entries' \in [Parts -> Entry] /\ entries'[c] = e
      /\ \A d \in Parts \ {c} : entries'[d] = entries[d]
  BY <1>1, EntrySet
<1>3. /\ lessee' \in [LoaderCallers -> Lessee] /\ lessee'[p] = l
      /\ \A q \in LoaderCallers \ {p} : lessee'[q] = lessee[q]
  BY <1>1, LesseeSet
<1>4. LoaderTypeOK'
  BY <1>1, <1>2, <1>3 DEF LoaderTypeOK
<1>5. \A d \in Parts : /\ entries'[d].runtime = entries[d].runtime
                       /\ entries'[d].generation = entries[d].generation
                       /\ entries'[d].state = entries[d].state
  BY <1>2
<1>6. \A q \in LoaderCallers : lessee'[q].at \in {"call", "loading"} =>
         q # p /\ lessee'[q] = lessee[q]
  BY <1>3
<1>7. LoadPart'
  BY <1>5, <1>6, LoadsKept
<1>8. LeasePart'
  <2>1. ASSUME NEW q \in LoaderCallers, lessee'[q].at = "call", NEW m, m = lessee'[q]
        PROVE  m.runtime # NoRuntime /\ (IsCurrent(m.part, m)' \/ IsRetired(m.part, m)')
    <3>1. m = lessee[q] /\ m.part \in Parts
      BY <1>1, <1>6, <2>1, LoaderTypes, LesseeFields
    <3>2. m.runtime # NoRuntime /\ (IsCurrent(m.part, m) \/ IsRetired(m.part, m))
      BY <2>1, <3>1 DEF LoaderInv, LeasePart
    <3>3. IsCurrent(m.part, m) => IsCurrent(m.part, m)'
      BY <1>5, <3>1 DEF IsCurrent
    <3>4. IsRetired(m.part, m) => IsRetired(m.part, m)'
      BY <3>1 DEF IsRetired
    <3> QED
      BY <3>2, <3>3, <3>4
  <2> QED
    BY <2>1 DEF LeasePart, IsCurrent, IsRetired
<1>9. GenerationPart'
  BY <1>5 DEF LoaderInv, GenerationPart
<1>10. AlivePart'
  <2>1. ASSUME NEW u \in DOMAIN retired, NEW d \in Parts, retired'[u].members[d].inFlight > 0
        PROVE  retired'[u].members[d].runtime \in alive
    <3>1. retired[u].members[d].inFlight \in Nat
      BY <1>1, LoaderTypes, GroupFields
    <3>2. retired[u].members[d].inFlight > 0
      BY <2>1, <3>1
    <3> QED
      BY <3>2 DEF LoaderInv, AlivePart
  <2> QED
    BY <1>5, <2>1 DEF LoaderInv, AlivePart
<1>11. DistinctPart'
  BY <1>5 DEF LoaderInv, DistinctPart
<1>12. /\ CallsOn(lessee', c) = CallsOn(lessee, c) \ {p}
       /\ CallsOf(lessee', c, g) = CallsOf(lessee, c, g) \ {p}
       /\ p \in CallsOf(lessee, c, g) /\ p \in CallsOn(lessee, c)
  <2>1. /\ CallsOn(lessee', lessee[p].part) = CallsOn(lessee, lessee[p].part) \ {p}
        /\ p \in CallsOn(lessee, lessee[p].part)
    BY <1>1, CallOver
  <2>2. /\ CallsOf(lessee', lessee[p].part, lessee[p].generation)
              = CallsOf(lessee, lessee[p].part, lessee[p].generation) \ {p}
        /\ p \in CallsOf(lessee, lessee[p].part, lessee[p].generation)
    BY <1>1, CallOver
  <2> QED
    BY <2>1, <2>2
<1>13. \A d : d # c => CallsOn(lessee', d) = CallsOn(lessee, d)
  <2>1. \A d : d # lessee[p].part => CallsOn(lessee', d) = CallsOn(lessee, d)
    BY <1>1, CallOver
  <2> QED
    BY <2>1
<1>14. ASSUME NEW d \in Parts, NEW h \in Nat, d # c \/ h # g
       PROVE  CallsOf(lessee', d, h) = CallsOf(lessee, d, h)
  <2>1. d # lessee[p].part \/ h # lessee[p].generation
    BY <1>14
  <2>2. CallsOf(lessee', d, h) \subseteq CallsOf(lessee, d, h)
    BY <1>3 DEF CallsOf, CallsOn
  <2>3. CallsOf(lessee, d, h) \subseteq CallsOf(lessee', d, h)
    BY <1>3, <2>1 DEF CallsOf, CallsOn
  <2> QED
    BY <2>2, <2>3
<1>15. /\ Cardinality(CallsOn(lessee', c)) = Cardinality(CallsOn(lessee, c)) - 1
       /\ Cardinality(CallsOf(lessee', c, g)) = Cardinality(CallsOf(lessee, c, g)) - 1
  <2>1. IsFiniteSet(CallsOn(lessee, c)) /\ IsFiniteSet(CallsOf(lessee, c, g))
    BY <1>1, CallsAreFinite
  <2>2. Cardinality(CallsOn(lessee, c) \ {p}) = Cardinality(CallsOn(lessee, c)) - 1
    BY <1>12, <2>1, OneLess
  <2>3. Cardinality(CallsOf(lessee, c, g) \ {p}) = Cardinality(CallsOf(lessee, c, g)) - 1
    BY <1>12, <2>1, OneLess
  <2> QED
    BY <1>12, <2>2, <2>3
<1>16. ASSUME NEW d \in Parts
       PROVE  /\ entries'[d].inFlight = Cardinality(CallsOn(lessee', d))
              /\ entries'[d].currentInFlight =
                    Cardinality(CallsOf(lessee', d, entries'[d].generation))
  <2>1. /\ entries[d].inFlight = Cardinality(CallsOn(lessee, d))
        /\ entries[d].currentInFlight = Cardinality(CallsOf(lessee, d, entries[d].generation))
    BY DEF LoaderInv, CountsPart
  <2>2. entries[d].generation \in Nat
    BY <1>1, LoaderTypes, EntryFields
  <2>3. CASE d # c
    <3>1. CallsOn(lessee', d) = CallsOn(lessee, d) /\ entries'[d] = entries[d]
      BY <1>2, <1>13, <2>3
    <3>2. CallsOf(lessee', d, entries[d].generation) = CallsOf(lessee, d, entries[d].generation)
      BY <1>14, <2>2, <2>3
    <3> QED
      BY <2>1, <3>1, <3>2
  <2>4. CASE d = c /\ entries[c].generation = g
    BY <1>2, <1>15, <2>1, <2>4
  <2>5. CASE d = c /\ entries[c].generation # g
    <3>1. CallsOf(lessee', c, entries[c].generation) = CallsOf(lessee, c, entries[c].generation)
      BY <1>14, <2>2, <2>5
    <3> QED
      BY <1>2, <1>15, <2>1, <2>5, <3>1
  <2> QED
    BY <2>3, <2>4, <2>5
<1>17. ASSUME NEW d \in Parts, NEW u \in DOMAIN retired
       PROVE  retired'[u].members[d].inFlight =
                 Cardinality(CallsOf(lessee', d, retired[u].members[d].generation))
  <2>1. retired[u].members[d].inFlight =
           Cardinality(CallsOf(lessee, d, retired[u].members[d].generation))
    BY DEF LoaderInv, CountsPart
  <2>2. CASE d = c /\ retired[u].members[d].generation = g
    BY <1>15, <2>1, <2>2
  <2>3. CASE d # c \/ retired[u].members[d].generation # g
    <3>1. retired[u].members[d].generation \in Nat
      BY <1>1, LoaderTypes, GroupFields
    <3>2. CallsOf(lessee', d, retired[u].members[d].generation)
             = CallsOf(lessee, d, retired[u].members[d].generation)
      BY <1>14, <2>3, <3>1
    <3> QED
      BY <2>1, <2>3, <3>2
  <2> QED
    BY <2>2, <2>3
<1>18. CountsPart'
  <2>1. ASSUME NEW d \in Parts, NEW u \in DOMAIN retired'
        PROVE  retired'[u].members[d].inFlight =
                  Cardinality(CallsOf(lessee', d, retired'[u].members[d].generation))
    <3>1. u \in DOMAIN retired
      BY <2>1
    <3>2. retired'[u].members[d].generation = retired[u].members[d].generation
      BY <3>1
    <3>3. retired'[u].members[d].inFlight =
             Cardinality(CallsOf(lessee', d, retired[u].members[d].generation))
      BY <1>17, <3>1
    <3> QED
      BY <3>2, <3>3
  <2> QED
    BY <1>16, <2>1 DEF CountsPart
<1> QED
  BY <1>4, <1>7, <1>8, <1>9, <1>10, <1>11, <1>18

LEMMA CurrentReleased ==
    ASSUME LoaderInv, NEW p \in LoaderCallers, lessee[p].at = "call",
           NEW c \in Parts, c = lessee[p].part, NEW g \in Nat, g = lessee[p].generation,
           entries[c].generation = g,
           NEW e \in Entry, entries' = [entries EXCEPT ![c] = e],
           e.state = entries[c].state, e.runtime = entries[c].runtime,
           e.generation = g, e.inFlight = entries[c].inFlight - 1,
           e.currentInFlight = entries[c].currentInFlight - 1,
           lessee' = [lessee EXCEPT ![p] = Away(p)],
           UNCHANGED <<alive, loads, retired, upgrade, closing, upgrades>>
    PROVE  LoaderInv'
<1>1. LoaderTypeOK /\ Away(p) \in Lessee /\ Away(p).at = "idle" /\ retired \in Seq(RetiredGroup)
  BY AwayIsLessee, LoaderTypes DEF LoaderInv
<1>2. \A u \in DOMAIN retired, d \in Parts : d = c => retired[u].members[d].generation # g
  BY <1>1, GroupFields DEF LoaderInv, GenerationPart
<1>3. /\ LoaderTypeOK' /\ LeasePart' /\ LoadPart' /\ CountsPart' /\ GenerationPart'
      /\ AlivePart' /\ DistinctPart'
  <2>1. CountedOff(c, g)
    BY <1>1, <1>2 DEF CountedOff
  <2>2. e.currentInFlight = IF entries[c].generation = g THEN entries[c].currentInFlight - 1
                            ELSE entries[c].currentInFlight
    OBVIOUS
  <2>3. /\ UNCHANGED <<alive, loads, upgrade, closing, upgrades>>
        /\ e.generation = entries[c].generation
        /\ Away(p).at \in {"idle", "drained"}
    BY <1>1
  <2> QED
    BY <1>1, <2>1, <2>2, <2>3, LeaseEnds
<1>4. DrainPart'
  <2>1. \A u : InUse(retired', u) = InUse(retired, u)
    BY DEF InUse
  <2>2. /\ lessee'[p] = Away(p) /\ \A q \in LoaderCallers \ {p} : lessee'[q] = lessee[q]
    BY <1>1, LesseeSet
  <2>3. \A u : Telling(lessee', u) = Telling(lessee, u)
    BY <1>1, <2>2 DEF Telling
  <2>4. \A q \in LoaderCallers : lessee'[q].at = "drained" => lessee'[q] = lessee[q]
    BY <1>1, <2>2
  <2> QED
    BY <2>1, <2>3, <2>4 DEF LoaderInv, DrainPart
<1> QED
  BY <1>3, <1>4 DEF LoaderInv

\* One lease of a retired member less.
OneOff(u, c) == retired' = [retired EXCEPT ![u].members[c].inFlight = @ - 1]

LEMMA MemberReleased ==
    ASSUME LoaderTypeOK, NEW u \in DOMAIN retired, NEW c \in Parts,
           retired[u].members[c].inFlight >= 1,
           OneOff(u, c)
    PROVE  /\ retired' \in Seq(RetiredGroup) /\ DOMAIN retired' = DOMAIN retired
           /\ \A v \in DOMAIN retired : /\ retired'[v].draining = retired[v].draining
                                        /\ retired'[v].triggered = retired[v].triggered
           /\ \A v \in DOMAIN retired, d \in Parts :
                 /\ retired'[v].members[d].runtime = retired[v].members[d].runtime
                 /\ retired'[v].members[d].generation = retired[v].members[d].generation
                 /\ retired'[v].members[d].inFlight =
                       IF v = u /\ d = c THEN retired[v].members[d].inFlight - 1
                       ELSE retired[v].members[d].inFlight
<1>1. retired \in Seq(RetiredGroup) /\ retired[u] \in RetiredGroup
      /\ retired[u].members \in [Parts -> Member] /\ retired[u].members[c] \in Member
  BY LoaderTypes, GroupFields DEF RetiredGroup
<1> DEFINE n == retired[u].members[c].inFlight - 1
           m == [retired[u].members[c] EXCEPT !.inFlight = n]
           ms == [retired[u].members EXCEPT ![c] = m]
           r == [retired[u] EXCEPT !.members = ms]
<1>2. n \in Nat
  BY <1>1, GroupFields
<1>3. m \in Member /\ m.runtime = retired[u].members[c].runtime
      /\ m.generation = retired[u].members[c].generation /\ m.inFlight = n
  <2> HIDE DEF n
  <2> QED
    BY <1>1, <1>2 DEF Member
<1>4. ms \in [Parts -> Member] /\ ms[c] = m /\ \A d \in Parts \ {c} : ms[d] = retired[u].members[d]
  <2> HIDE DEF m
  <2> QED
    BY <1>1, <1>3
<1>5. r \in RetiredGroup /\ r.members = ms /\ r.draining = retired[u].draining
      /\ r.triggered = retired[u].triggered
  <2> HIDE DEF ms
  <2> QED
    BY <1>1, <1>4 DEF RetiredGroup
<1>6. retired' = [retired EXCEPT ![u] = r]
  BY <1>1 DEF OneOff
<1> HIDE DEF n, m, ms, r
<1>7. /\ retired' \in Seq(RetiredGroup) /\ DOMAIN retired' = DOMAIN retired /\ retired'[u] = r
      /\ \A v \in DOMAIN retired \ {u} : retired'[v] = retired[v]
  BY <1>1, <1>5, <1>6
<1>8. \A v \in DOMAIN retired : /\ retired'[v].draining = retired[v].draining
                                /\ retired'[v].triggered = retired[v].triggered
  BY <1>5, <1>7
<1>9. ASSUME NEW v \in DOMAIN retired, NEW d \in Parts
      PROVE  /\ retired'[v].members[d].runtime = retired[v].members[d].runtime
             /\ retired'[v].members[d].generation = retired[v].members[d].generation
             /\ retired'[v].members[d].inFlight =
                   IF v = u /\ d = c THEN retired[v].members[d].inFlight - 1
                   ELSE retired[v].members[d].inFlight
  <2>1. CASE v = u /\ d = c
    <3>1. retired'[v].members[d] = m
      BY <1>4, <1>5, <1>7, <2>1
    <3> QED
      BY <1>3, <2>1, <3>1 DEF n
  <2>2. CASE ~(v = u /\ d = c)
    <3>1. retired'[v].members[d] = retired[v].members[d]
      BY <1>4, <1>5, <1>7, <2>2
    <3> QED
      BY <2>2, <3>1
  <2> QED
    BY <2>1, <2>2
<1> QED
  BY <1>7, <1>8, <1>9

LEMMA RetiredReleased ==
    ASSUME LoaderInv, NEW p \in LoaderCallers, lessee[p].at = "call",
           NEW c \in Parts, c = lessee[p].part, NEW g \in Nat, g = lessee[p].generation,
           entries[c].generation # g,
           NEW u \in DOMAIN retired, retired[u].members[c].generation = g,
           NEW e \in Entry, entries' = [entries EXCEPT ![c] = e],
           e.state = entries[c].state, e.runtime = entries[c].runtime,
           e.generation = entries[c].generation, e.inFlight = entries[c].inFlight - 1,
           e.currentInFlight = entries[c].currentInFlight,
           OneOff(u, c),
           NEW l \in Lessee, lessee' = [lessee EXCEPT ![p] = l],
           \/ retired[u].members[c].inFlight <= 1 /\ l.at = "drained" /\ l.group = u
           \/ retired[u].members[c].inFlight > 1 /\ l.at = "idle",
           UNCHANGED <<alive, loads, upgrade, closing, upgrades>>
    PROVE  LoaderInv'
<1>1. LoaderTypeOK /\ l.at \in {"idle", "drained"}
  BY DEF LoaderInv
<1>2. retired[u].members[c].inFlight >= 1 /\ retired[u].members[c].inFlight \in Nat
  BY <1>1, LeaseIsCounted, LoaderTypes, GroupFields
<1>3. /\ retired' \in Seq(RetiredGroup) /\ DOMAIN retired' = DOMAIN retired
      /\ \A v \in DOMAIN retired : /\ retired'[v].draining = retired[v].draining
                                   /\ retired'[v].triggered = retired[v].triggered
  BY <1>1, <1>2, MemberReleased
<1>4. \A v \in DOMAIN retired, d \in Parts :
         /\ retired'[v].members[d].runtime = retired[v].members[d].runtime
         /\ retired'[v].members[d].generation = retired[v].members[d].generation
         /\ retired'[v].members[d].inFlight =
               IF v = u /\ d = c THEN retired[v].members[d].inFlight - 1
               ELSE retired[v].members[d].inFlight
  BY <1>1, <1>2, MemberReleased
<1>5. \A v \in DOMAIN retired, d \in Parts :
         v = u /\ d = c <=> d = c /\ retired[v].members[d].generation = g
  BY DEF LoaderInv, GenerationPart
<1>6. /\ LoaderTypeOK' /\ LeasePart' /\ LoadPart' /\ CountsPart' /\ GenerationPart'
      /\ AlivePart' /\ DistinctPart'
  <2>1. CountedOff(c, g)
    <3>1. ASSUME NEW v \in DOMAIN retired, NEW d \in Parts
          PROVE  retired'[v].members[d].inFlight =
                    IF d = c /\ retired[v].members[d].generation = g
                    THEN retired[v].members[d].inFlight - 1 ELSE retired[v].members[d].inFlight
      <4>1. retired'[v].members[d].inFlight =
               IF v = u /\ d = c THEN retired[v].members[d].inFlight - 1
               ELSE retired[v].members[d].inFlight
        BY <1>4
      <4>2. v = u /\ d = c <=> d = c /\ retired[v].members[d].generation = g
        BY <1>5
      <4> QED
        BY <4>1, <4>2
    <3>2. \A v \in DOMAIN retired, d \in Parts :
             /\ retired'[v].members[d].runtime = retired[v].members[d].runtime
             /\ retired'[v].members[d].generation = retired[v].members[d].generation
      BY <1>4
    <3> QED
      BY <1>3, <3>1, <3>2 DEF CountedOff
  <2>2. e.currentInFlight = IF entries[c].generation = g THEN entries[c].currentInFlight - 1
                            ELSE entries[c].currentInFlight
    OBVIOUS
  <2> QED
    BY <1>1, <2>1, <2>2, LeaseEnds
<1>7. \A v \in DOMAIN retired \ {u} : InUse(retired', v) = InUse(retired, v)
  BY <1>4 DEF InUse
<1>8. /\ lessee'[p] = l /\ \A q \in LoaderCallers \ {p} : lessee'[q] = lessee[q]
  BY <1>1, LesseeSet
<1>9. \A v \in DOMAIN retired \ {u} : Telling(lessee', v) = Telling(lessee, v)
  BY <1>1, <1>8 DEF Telling
<1>10. Cardinality(InUse(retired', u)) + Cardinality(Telling(lessee', u))
          = Cardinality(InUse(retired, u)) + Cardinality(Telling(lessee, u))
  <2>1. CASE retired[u].members[c].inFlight > 1
    <3>1. ASSUME NEW d \in Parts
          PROVE  retired'[u].members[d].inFlight > 0 <=> retired[u].members[d].inFlight > 0
      <4>1. retired'[u].members[d].inFlight =
               IF d = c THEN retired[u].members[d].inFlight - 1 ELSE retired[u].members[d].inFlight
        BY <1>4
      <4> QED
        BY <1>2, <2>1, <4>1
    <3>4. InUse(retired', u) = InUse(retired, u)
      BY <3>1 DEF InUse
    <3>2. l.at = "idle"
      BY <1>2, <2>1
    <3>3. Telling(lessee', u) = Telling(lessee, u)
      BY <1>8, <3>2 DEF Telling
    <3> QED
      BY <3>3, <3>4
  <2>2. CASE retired[u].members[c].inFlight <= 1
    <3>0. /\ ~(retired'[u].members[c].inFlight > 0) /\ retired[u].members[c].inFlight > 0
          /\ \A d \in Parts \ {c} : retired'[u].members[d].inFlight = retired[u].members[d].inFlight
      <4>1. retired'[u].members[c].inFlight = retired[u].members[c].inFlight - 1
        BY <1>4
      <4>2. \A d \in Parts \ {c} : retired'[u].members[d].inFlight = retired[u].members[d].inFlight
        BY <1>4
      <4> QED
        BY <1>2, <2>2, <4>1, <4>2
    <3>1. InUse(retired', u) = InUse(retired, u) \ {c} /\ c \in InUse(retired, u)
      BY <3>0 DEF InUse
    <3>2. l.at = "drained" /\ l.group = u
      BY <1>2, <2>2
    <3>3. Telling(lessee', u) = Telling(lessee, u) \union {p} /\ p \notin Telling(lessee, u)
      BY <1>8, <3>2 DEF Telling
    <3>4. /\ IsFiniteSet(InUse(retired, u)) /\ Cardinality(InUse(retired, u)) \in Nat
          /\ IsFiniteSet(Telling(lessee, u)) /\ Cardinality(Telling(lessee, u)) \in Nat
      BY GroupsAreFinite
    <3>5. Cardinality(InUse(retired, u) \ {c}) = Cardinality(InUse(retired, u)) - 1
      BY <3>1, <3>4, OneLess
    <3>6. Cardinality(Telling(lessee, u) \union {p}) = Cardinality(Telling(lessee, u)) + 1
      BY <3>3, <3>4, FS_AddElement
    <3>7. /\ Cardinality(InUse(retired', u)) = Cardinality(InUse(retired, u)) - 1
          /\ Cardinality(Telling(lessee', u)) = Cardinality(Telling(lessee, u)) + 1
      BY <3>1, <3>3, <3>5, <3>6
    <3> QED
      BY <3>4, <3>7
  <2> QED
    BY <1>2, <2>1, <2>2
<1>11. DrainPart'
  <2>1. ASSUME NEW v \in DOMAIN retired
        PROVE  /\ retired'[v].draining
                     = Cardinality(InUse(retired', v)) + Cardinality(Telling(lessee', v))
               /\ retired'[v].triggered => retired'[v].draining = 0
    <3>1. /\ retired[v].draining = Cardinality(InUse(retired, v)) + Cardinality(Telling(lessee, v))
          /\ retired[v].triggered => retired[v].draining = 0
      BY DEF LoaderInv, DrainPart
    <3>2. CASE v = u
      BY <1>3, <1>10, <3>1, <3>2
    <3>3. CASE v # u
      BY <1>3, <1>7, <1>9, <3>1, <3>3
    <3> QED
      BY <3>2, <3>3
  <2>2. \A q \in LoaderCallers : lessee'[q].at = "drained" => lessee'[q].group \in DOMAIN retired
    BY <1>8 DEF LoaderInv, DrainPart
  <2> QED
    BY <1>3, <2>1, <2>2 DEF DrainPart
<1> QED
  BY <1>6, <1>11 DEF LoaderInv

LEMMA OfRelease == ASSUME LoaderInv, NEW p \in LoaderCallers, Release(p) PROVE LoaderInv'
<1> DEFINE c == lessee[p].part
           g == lessee[p].generation
           e == [entries[c] EXCEPT !.inFlight = entries[c].inFlight - 1,
                   !.currentInFlight = entries[c].currentInFlight
                                          - (IF BelongsToCurrent(c, g) THEN 1 ELSE 0)]
<1>1. /\ LoaderTypeOK /\ lessee[p].at = "call" /\ c \in Parts /\ g \in Nat /\ entries[c] \in Entry
      /\ lessee[p] \in Lessee
  BY LoaderTypes, LesseeFields DEF LoaderInv, Release
<1>2. /\ entries[c].inFlight >= 1
      /\ entries[c].generation = g => entries[c].currentInFlight >= 1
  BY <1>1, LeaseIsCounted
<1>3. UNCHANGED <<alive, loads, upgrade, closing, upgrades>> /\ entries' = [entries EXCEPT ![c] = e]
  BY DEF Release
<1>4. CASE entries[c].generation = g
  <2>1. BelongsToCurrent(c, g)
    BY <1>4 DEF BelongsToCurrent
  <2>2. entries[c].inFlight - 1 \in Nat /\ entries[c].currentInFlight - 1 \in Nat
    BY <1>1, <1>2, <1>4, EntryFields
  <2>3. e = [entries[c] EXCEPT !.inFlight = entries[c].inFlight - 1,
                               !.currentInFlight = entries[c].currentInFlight - 1]
    BY <2>1
  <2>4. /\ e \in Entry /\ e.state = entries[c].state /\ e.runtime = entries[c].runtime
        /\ e.generation = entries[c].generation /\ e.inFlight = entries[c].inFlight - 1
        /\ e.currentInFlight = entries[c].currentInFlight - 1
    BY <1>1, <2>2, <2>3 DEF Entry
  <2>5. retired' = retired /\ lessee' = [lessee EXCEPT ![p] = Away(p)]
    BY <2>1 DEF Release
  <2> HIDE DEF e, c, g
  <2>6. c = lessee[p].part /\ g = lessee[p].generation
    BY DEF c, g
  <2>7. e.generation = g /\ UNCHANGED <<alive, loads, retired, upgrade, closing, upgrades>>
    BY <1>3, <1>4, <2>4, <2>5
  <2> QED
    BY <1>1, <1>3, <1>4, <2>4, <2>5, <2>6, <2>7, CurrentReleased
<1>5. CASE entries[c].generation # g
  <2>1. ~BelongsToCurrent(c, g)
    BY <1>5 DEF BelongsToCurrent
  <2>2. \E v \in DOMAIN retired : retired[v].members[c].generation = g
    BY <1>1, <1>5 DEF LoaderInv, LeasePart, IsCurrent, IsRetired
  <2> DEFINE u == GroupOf(c, g)
             l == IF retired[u].members[c].inFlight <= 1
                  THEN [Away(p) EXCEPT !.at = "drained", !.group = u] ELSE Away(p)
  <2>3. u \in DOMAIN retired /\ retired[u].members[c].generation = g
    BY <2>2 DEF GroupOf
  <2>4. u \in Nat /\ u # 0
    BY <1>1, <2>3, LoaderTypes
  <2>5. retired[u].members[c].inFlight \in Nat
    BY <1>1, <2>3, LoaderTypes, GroupFields
  <2>6. entries[c].inFlight - 1 \in Nat
    BY <1>1, <1>2, EntryFields
  <2>7. /\ e = [entries[c] EXCEPT !.inFlight = entries[c].inFlight - 1,
                                  !.currentInFlight = entries[c].currentInFlight - 0]
        /\ entries[c].currentInFlight - 0 = entries[c].currentInFlight
        /\ entries[c].currentInFlight \in Nat
    BY <1>1, <2>1, EntryFields
  <2>8. /\ e \in Entry /\ e.state = entries[c].state /\ e.runtime = entries[c].runtime
        /\ e.generation = entries[c].generation /\ e.inFlight = entries[c].inFlight - 1
        /\ e.currentInFlight = entries[c].currentInFlight
    BY <1>1, <2>6, <2>7 DEF Entry
  <2>9. lessee' = [lessee EXCEPT ![p] = l] /\ OneOff(u, c)
    BY <2>1, <2>4 DEF Release, OneOff
  <2>10. /\ l \in Lessee
         /\ \/ retired[u].members[c].inFlight <= 1 /\ l.at = "drained" /\ l.group = u
            \/ retired[u].members[c].inFlight > 1 /\ l.at = "idle"
    <3> HIDE DEF u
    <3>1. Away(p) \in Lessee /\ Away(p).at = "idle"
      BY AwayIsLessee
    <3>2. /\ [Away(p) EXCEPT !.at = "drained", !.group = u] \in Lessee
          /\ [Away(p) EXCEPT !.at = "drained", !.group = u].at = "drained"
          /\ [Away(p) EXCEPT !.at = "drained", !.group = u].group = u
      BY <2>4, <3>1 DEF Lessee
    <3> QED
      BY <2>5, <3>1, <3>2
  <2> HIDE DEF e, c, g, u, l
  <2>11. c = lessee[p].part /\ g = lessee[p].generation
    BY DEF c, g
  <2> QED
    BY <1>1, <1>3, <1>5, <2>3, <2>8, <2>9, <2>10, <2>11, RetiredReleased
<1> QED
  BY <1>4, <1>5

\* A group is told that one of its members has no caller left.
Told(u) == retired' = [retired EXCEPT ![u] =
              [@ EXCEPT !.draining = retired[u].draining - 1,
                        !.triggered = retired[u].triggered \/ retired[u].draining <= 1]]

LEMMA GroupTold ==
    ASSUME LoaderTypeOK, NEW u \in DOMAIN retired, retired[u].draining >= 1, Told(u)
    PROVE  /\ retired' \in Seq(RetiredGroup) /\ DOMAIN retired' = DOMAIN retired
           /\ \A v \in DOMAIN retired \ {u} : retired'[v] = retired[v]
           /\ retired'[u].members = retired[u].members
           /\ retired'[u].draining = retired[u].draining - 1
           /\ retired'[u].triggered = (retired[u].triggered \/ retired[u].draining <= 1)
<1>1. /\ retired \in Seq(RetiredGroup) /\ retired[u] \in RetiredGroup /\ retired[u].draining \in Nat
      /\ retired[u].triggered \in BOOLEAN
  BY LoaderTypes, GroupFields
<1> DEFINE n == retired[u].draining - 1
           t == retired[u].triggered \/ retired[u].draining <= 1
           r == [retired[u] EXCEPT !.draining = n, !.triggered = t]
<1>2. n \in Nat
  BY <1>1
<1>3. t \in BOOLEAN
  BY <1>1, Zenon
<1>4. r \in RetiredGroup /\ r.members = retired[u].members /\ r.draining = n /\ r.triggered = t
  <2> HIDE DEF n, t
  <2> QED
    BY <1>1, <1>2, <1>3 DEF RetiredGroup
<1>5. retired' = [retired EXCEPT ![u] = r]
  BY DEF Told
<1> HIDE DEF n, t, r
<1>6. /\ retired' \in Seq(RetiredGroup) /\ DOMAIN retired' = DOMAIN retired /\ retired'[u] = r
      /\ \A v \in DOMAIN retired \ {u} : retired'[v] = retired[v]
  BY <1>1, <1>4, <1>5
<1> QED
  BY <1>4, <1>6 DEF n, t

LEMMA OfMemberDrained ==
    ASSUME LoaderInv, NEW p \in LoaderCallers, MemberDrained(p) PROVE LoaderInv'
<1> DEFINE u == lessee[p].group
<1>1. /\ LoaderTypeOK /\ lessee[p].at = "drained" /\ u \in DOMAIN retired
      /\ Away(p) \in Lessee /\ Away(p).at = "idle"
  BY AwayIsLessee DEF LoaderInv, DrainPart, MemberDrained
<1>2. /\ UNCHANGED <<entries, alive, loads, upgrade, closing, upgrades>>
      /\ lessee' = [lessee EXCEPT ![p] = Away(p)] /\ Told(u)
  BY DEF MemberDrained, Told
<1>3. p \in Telling(lessee, u)
  BY <1>1 DEF Telling
<1> HIDE DEF u
<1>4. /\ IsFiniteSet(InUse(retired, u)) /\ Cardinality(InUse(retired, u)) \in Nat
      /\ IsFiniteSet(Telling(lessee, u)) /\ Cardinality(Telling(lessee, u)) \in Nat
  BY GroupsAreFinite
<1>5. /\ Cardinality(Telling(lessee, u)) >= 1
      /\ Cardinality(Telling(lessee, u) \ {p}) = Cardinality(Telling(lessee, u)) - 1
  BY <1>3, <1>4, OneLess
<1>6. /\ retired[u].draining = Cardinality(InUse(retired, u)) + Cardinality(Telling(lessee, u))
      /\ retired[u].triggered => retired[u].draining = 0
  BY <1>1 DEF LoaderInv, DrainPart
<1>7. retired[u].draining >= 1
  BY <1>4, <1>5, <1>6
<1>8. /\ retired' \in Seq(RetiredGroup) /\ DOMAIN retired' = DOMAIN retired
      /\ \A v \in DOMAIN retired \ {u} : retired'[v] = retired[v]
      /\ retired'[u].members = retired[u].members
      /\ retired'[u].draining = retired[u].draining - 1
      /\ retired'[u].triggered = (retired[u].triggered \/ retired[u].draining <= 1)
  BY <1>1, <1>2, <1>7, GroupTold
<1>9. \A v \in DOMAIN retired : retired'[v].members = retired[v].members
  BY <1>8
<1>10. /\ lessee' \in [LoaderCallers -> Lessee] /\ lessee'[p] = Away(p)
       /\ \A q \in LoaderCallers \ {p} : lessee'[q] = lessee[q]
  BY <1>1, <1>2, LesseeSet
<1>11. /\ \A d : CallsOn(lessee', d) = CallsOn(lessee, d)
       /\ \A d, h : CallsOf(lessee', d, h) = CallsOf(lessee, d, h)
  <2>1. \A d : CallsOn(lessee', d) = CallsOn(lessee, d)
    BY <1>1, <1>10 DEF CallsOn
  <2>2. \A d, h : CallsOf(lessee', d, h) = CallsOf(lessee, d, h)
    BY <1>1, <1>10 DEF CallsOf, CallsOn
  <2> QED
    BY <2>1, <2>2
<1>12. LoaderTypeOK'
  BY <1>1, <1>2, <1>8, <1>10 DEF LoaderTypeOK
<1>13. LoadPart'
  <2>1. \A q \in LoaderCallers : lessee'[q].at = "loading" => lessee'[q] = lessee[q]
    BY <1>1, <1>10
  <2> QED
    BY <1>2, <2>1, LoadsKept
<1>14. LeasePart'
  <2>1. \A q \in LoaderCallers : lessee'[q].at = "call" => lessee'[q] = lessee[q]
    BY <1>1, <1>10
  <2> QED
    BY <1>2, <1>8, <1>9, <2>1 DEF LoaderInv, LeasePart, IsCurrent, IsRetired
<1>15. CountsPart'
  <2>1. \A d \in Parts :
           /\ entries'[d].inFlight = Cardinality(CallsOn(lessee', d))
           /\ entries'[d].currentInFlight =
                 Cardinality(CallsOf(lessee', d, entries'[d].generation))
    BY <1>2, <1>11 DEF LoaderInv, CountsPart
  <2>2. ASSUME NEW d \in Parts, NEW v \in DOMAIN retired'
        PROVE  retired'[v].members[d].inFlight =
                  Cardinality(CallsOf(lessee', d, retired'[v].members[d].generation))
    <3>1. v \in DOMAIN retired /\ retired'[v].members = retired[v].members
      BY <1>8, <1>9, <2>2
    <3>2. retired[v].members[d].inFlight =
             Cardinality(CallsOf(lessee, d, retired[v].members[d].generation))
      BY <3>1 DEF LoaderInv, CountsPart
    <3>3. CallsOf(lessee', d, retired[v].members[d].generation)
             = CallsOf(lessee, d, retired[v].members[d].generation)
      BY <1>11
    <3> QED
      BY <3>1, <3>2, <3>3
  <2> QED
    BY <2>1, <2>2 DEF CountsPart
<1>16. GenerationPart'
  BY <1>2, <1>8, <1>9 DEF LoaderInv, GenerationPart
<1>17. AlivePart'
  BY <1>2, <1>8, <1>9 DEF LoaderInv, AlivePart
<1>18. DistinctPart'
  BY <1>2, <1>8, <1>9 DEF LoaderInv, DistinctPart
<1>19. DrainPart'
  <2>1. \A v \in DOMAIN retired : InUse(retired', v) = InUse(retired, v)
    BY <1>9 DEF InUse
  <2>2. Telling(lessee', u) = Telling(lessee, u) \ {p}
    BY <1>1, <1>10 DEF Telling
  <2>3. \A v \in DOMAIN retired \ {u} : Telling(lessee', v) = Telling(lessee, v)
    BY <1>1, <1>10 DEF Telling, u
  <2>4. ASSUME NEW v \in DOMAIN retired
        PROVE  /\ retired'[v].draining
                     = Cardinality(InUse(retired', v)) + Cardinality(Telling(lessee', v))
               /\ retired'[v].triggered => retired'[v].draining = 0
    <3>1. CASE v = u
      <4>1. /\ Cardinality(InUse(retired', u)) = Cardinality(InUse(retired, u))
            /\ Cardinality(Telling(lessee', u)) = Cardinality(Telling(lessee, u)) - 1
        BY <1>1, <1>5, <2>1, <2>2
      <4>2. retired'[u].draining
                = Cardinality(InUse(retired', u)) + Cardinality(Telling(lessee', u))
        BY <1>4, <1>6, <1>8, <4>1
      <4>3. retired'[u].triggered => retired'[u].draining = 0
        <5>1. retired'[u].triggered => retired[u].triggered \/ retired[u].draining <= 1
          BY <1>8, Zenon
        <5>2. ~retired[u].triggered
          BY <1>6, <1>7
        <5> QED
          BY <1>4, <1>6, <1>7, <1>8, <5>1, <5>2
      <4> QED
        BY <3>1, <4>2, <4>3
    <3>2. CASE v # u
      <4>1. /\ retired[v].draining = Cardinality(InUse(retired, v)) + Cardinality(Telling(lessee, v))
            /\ retired[v].triggered => retired[v].draining = 0
        BY DEF LoaderInv, DrainPart
      <4> QED
        BY <1>8, <2>1, <2>3, <3>2, <4>1
    <3> QED
      BY <3>1, <3>2
  <2>5. \A q \in LoaderCallers : lessee'[q].at = "drained" => lessee'[q].group \in DOMAIN retired
    BY <1>1, <1>10 DEF LoaderInv, DrainPart
  <2> QED
    BY <1>8, <2>4, <2>5 DEF DrainPart
<1> QED
  BY <1>12, <1>13, <1>14, <1>15, <1>16, <1>17, <1>18, <1>19 DEF LoaderInv

\* What the switch of an upgrade does: group n holds what the components served, and
\* they serve the candidates.
Switched(n) ==
    /\ entries' \in [Parts -> Entry] /\ retired' \in Seq(RetiredGroup)
    /\ n \notin DOMAIN retired /\ DOMAIN retired' = DOMAIN retired \union {n}
    /\ \A u \in DOMAIN retired : retired'[u] = retired[u]
    /\ \A c \in Parts :
          /\ entries[c].state = "ready" /\ entries[c].runtime # NoRuntime
          /\ c \in DOMAIN upgrade.candidates
          /\ entries'[c].state = "ready" /\ entries'[c].runtime = upgrade.candidates[c]
          /\ entries'[c].generation = entries[c].generation + 1
          /\ entries'[c].inFlight = entries[c].inFlight /\ entries'[c].currentInFlight = 0
          /\ retired'[n].members[c].runtime = entries[c].runtime
          /\ retired'[n].members[c].generation = entries[c].generation
          /\ retired'[n].members[c].inFlight = entries[c].currentInFlight
    /\ retired'[n].draining = Cardinality(InUse(retired', n))
    /\ retired'[n].triggered <=> retired'[n].draining = 0
    /\ upgrade' = [at |-> "no", candidates |-> <<>>]
    /\ UNCHANGED <<alive, loads, lessee, closing, upgrades>>

LEMMA SwitchSwitches ==
    ASSUME LoaderInv, Switch,
           \A c \in Parts : entries[c].state = "ready" /\ entries[c].runtime # NoRuntime
    PROVE  Switched(Len(retired) + 1)
<1>1. /\ entries \in [Parts -> Entry] /\ retired \in Seq(RetiredGroup)
      /\ upgrade.candidates \in Seq(Runtimes) /\ LoaderParts \in Nat
  BY LoaderTypes DEF LoaderInv
<1>2. Len(upgrade.candidates) = LoaderParts /\ DOMAIN upgrade.candidates = Parts
  <2>1. Len(upgrade.candidates) = LoaderParts
    BY Zenon DEF Switch
  <2> QED
    BY <1>1, <2>1 DEF Parts
<1> DEFINE used == {c \in Parts : entries[c].currentInFlight > 0}
           busy == Cardinality(used)
           ms == [c \in Parts |-> [runtime |-> entries[c].runtime,
                    generation |-> entries[c].generation, inFlight |-> entries[c].currentInFlight]]
           r == [members |-> ms, draining |-> busy, triggered |-> busy = 0]
           K == upgrade.candidates
           n == Len(retired) + 1
<1>3. /\ retired' = Append(retired, r)
      /\ entries' = [c \in Parts |-> [entries[c] EXCEPT
             !.runtime = K[c], !.generation = @ + 1, !.currentInFlight = 0]]
      /\ upgrade' = [at |-> "no", candidates |-> <<>>]
      /\ UNCHANGED <<alive, loads, lessee, closing, upgrades>>
  BY DEF Switch
<1>4. busy \in Nat
  <2>1. IsFiniteSet(Parts)
    BY <1>1, FS_Interval DEF Parts
  <2>2. used \in SUBSET Parts
    OBVIOUS
  <2> HIDE DEF used
  <2> QED
    BY <2>1, <2>2, FS_Subset, FS_CardinalityType
<1>5. ASSUME NEW c \in Parts
      PROVE  /\ entries'[c] \in Entry /\ ms[c] \in Member
             /\ entries'[c].state = "ready" /\ entries'[c].runtime = K[c]
             /\ entries'[c].generation = entries[c].generation + 1
             /\ entries'[c].inFlight = entries[c].inFlight /\ entries'[c].currentInFlight = 0
             /\ ms[c].runtime = entries[c].runtime
             /\ ms[c].generation = entries[c].generation
             /\ ms[c].inFlight = entries[c].currentInFlight
  <2>1. /\ entries[c] \in Entry /\ entries[c].runtime \in Runtimes /\ entries[c].generation \in Nat
        /\ entries[c].currentInFlight \in Nat /\ entries[c].inFlight \in Nat
    BY <1>1, EntryFields
  <2>2. K[c] \in Runtimes /\ entries[c].generation + 1 \in Nat
    BY <1>1, <1>2, <2>1
  <2>3. entries'[c] = [entries[c] EXCEPT !.runtime = K[c],
                         !.generation = entries[c].generation + 1, !.currentInFlight = 0]
    BY <1>3
  <2>4. /\ ms[c] \in Member /\ ms[c].runtime = entries[c].runtime
        /\ ms[c].generation = entries[c].generation /\ ms[c].inFlight = entries[c].currentInFlight
    BY <2>1 DEF Member
  <2> HIDE DEF K, ms
  <2>5. /\ entries'[c] \in Entry /\ entries'[c].state = entries[c].state
        /\ entries'[c].runtime = K[c] /\ entries'[c].generation = entries[c].generation + 1
        /\ entries'[c].inFlight = entries[c].inFlight /\ entries'[c].currentInFlight = 0
    <3> DEFINE g == entries[c].generation + 1
               f == entries'[c]
    <3>1. /\ entries[c] \in Entry /\ K[c] \in Runtimes /\ g \in Nat
          /\ f = [entries[c] EXCEPT !.runtime = K[c], !.generation = g, !.currentInFlight = 0]
      BY <2>1, <2>2, <2>3
    <3> HIDE DEF g, f
    <3>2. /\ f \in Entry /\ f.state = entries[c].state /\ f.runtime = K[c] /\ f.generation = g
          /\ f.inFlight = entries[c].inFlight /\ f.currentInFlight = 0
      BY ONLY <3>1 DEF Entry
    <3> QED
      BY <3>2 DEF f, g
  <2> QED
    BY <2>4, <2>5
<1>6. ms \in [Parts -> Member]
  BY <1>5
<1>7. r \in RetiredGroup /\ r.members = ms /\ r.draining = busy /\ (r.triggered <=> busy = 0)
  <2>1. (busy = 0) \in BOOLEAN
    BY Zenon
  <2> HIDE DEF busy, ms
  <2> QED
    BY <1>4, <1>6, <2>1 DEF RetiredGroup
<1>8. entries' \in [Parts -> Entry]
  <2>1. DOMAIN entries' = Parts /\ entries' = [c \in Parts |-> entries'[c]]
    BY <1>3
  <2> QED
    BY <1>5, <2>1
<1> HIDE DEF r
<1>9. /\ retired' \in Seq(RetiredGroup) /\ n \notin DOMAIN retired
      /\ DOMAIN retired' = DOMAIN retired \union {n} /\ retired'[n] = r
      /\ \A u \in DOMAIN retired : retired'[u] = retired[u]
  <2>1. /\ r \in RetiredGroup /\ retired \in Seq(RetiredGroup) /\ retired' = Append(retired, r)
    BY <1>1, <1>3, <1>7
  <2> HIDE DEF busy, ms
  <2> QED
    BY ONLY <2>1 DEF n
<1>10. used = InUse(retired', n)
  <2> HIDE DEF ms, n
  <2> QED
    BY <1>5, <1>7, <1>9 DEF InUse
<1> HIDE DEF used, ms, n
<1>11. /\ retired'[n].draining = Cardinality(InUse(retired', n))
       /\ retired'[n].triggered <=> retired'[n].draining = 0
  <2> HIDE DEF r
  <2> QED
    BY <1>7, <1>9, <1>10
<1>12. ASSUME NEW c \in Parts
       PROVE  /\ c \in DOMAIN upgrade.candidates
              /\ entries'[c].state = "ready" /\ entries'[c].runtime = upgrade.candidates[c]
              /\ entries'[c].generation = entries[c].generation + 1
              /\ entries'[c].inFlight = entries[c].inFlight /\ entries'[c].currentInFlight = 0
              /\ retired'[n].members[c].runtime = entries[c].runtime
              /\ retired'[n].members[c].generation = entries[c].generation
              /\ retired'[n].members[c].inFlight = entries[c].currentInFlight
  BY <1>2, <1>5, <1>7, <1>9
<1> HIDE DEF busy, K
<1>13. Switched(n)
  BY <1>3, <1>8, <1>9, <1>11, <1>12 DEF Switched
<1> QED
  BY <1>13 DEF n

LEMMA SwitchKeeps == ASSUME LoaderInv, NEW n, Switched(n) PROVE LoaderInv'
<1> USE DEF Switched
<1>1. /\ LoaderTypeOK /\ lessee' = lessee /\ alive' = alive /\ loads' = loads
      /\ DOMAIN upgrade'.candidates = {}
  BY DEF LoaderInv
<1>2. \A c \in Parts : entries[c].generation \in Nat /\ entries[c].currentInFlight \in Nat
  BY <1>1, LoaderTypes, EntryFields
<1>3. LoaderTypeOK'
  <2>1. upgrade' \in [at : {"no", "loading", "stopping"}, candidates : Seq(Runtimes)]
    OBVIOUS
  <2> QED
    BY <1>1, <2>1 DEF LoaderTypeOK
<1>4. LoadPart'
  <2>1. \A c \in Parts : entries[c].state # "loading"
    OBVIOUS
  <2> QED
    BY <1>1, <2>1, LoadsKept
<1>5. LeasePart'
  <2>1. ASSUME NEW q \in LoaderCallers, lessee[q].at = "call"
        PROVE  /\ lessee[q].runtime # NoRuntime /\ IsRetired(lessee[q].part, lessee[q])'
    <3>1. lessee[q].part \in Parts
      BY <1>1, LoaderTypes, LesseeFields
    <3>2. /\ lessee[q].runtime # NoRuntime
          /\ IsCurrent(lessee[q].part, lessee[q]) \/ IsRetired(lessee[q].part, lessee[q])
      BY <2>1 DEF LoaderInv, LeasePart
    <3>3. CASE IsCurrent(lessee[q].part, lessee[q])
      BY <1>1, <3>1, <3>2, <3>3 DEF IsCurrent, IsRetired
    <3>4. CASE IsRetired(lessee[q].part, lessee[q])
      BY <1>1, <3>1, <3>2, <3>4 DEF IsRetired
    <3> QED
      BY <3>2, <3>3, <3>4
  <2> QED
    BY <1>1, <2>1 DEF LeasePart, IsRetired
<1>6. GenerationPart'
  <2>1. \A c \in Parts, u \in DOMAIN retired :
           /\ retired'[u].members[c].generation \in Nat
           /\ retired'[u].members[c].generation < entries[c].generation
           /\ \A v \in DOMAIN retired \ {u} :
                 retired'[v].members[c].generation # retired'[u].members[c].generation
    BY <1>1, LoaderTypes, GroupFields DEF LoaderInv, GenerationPart
  <2>2. ASSUME NEW c \in Parts, NEW u \in DOMAIN retired'
        PROVE  /\ retired'[u].members[c].generation < entries'[c].generation
               /\ \A v \in DOMAIN retired' \ {u} :
                     retired'[v].members[c].generation # retired'[u].members[c].generation
    BY <1>2, <2>1, <2>2
  <2> QED
    BY <2>2 DEF GenerationPart
<1>7. CountsPart'
  <2>1. ASSUME NEW c \in Parts
        PROVE  /\ entries'[c].inFlight = Cardinality(CallsOn(lessee, c))
               /\ entries'[c].currentInFlight =
                     Cardinality(CallsOf(lessee, c, entries'[c].generation))
    <3>1. CallsOf(lessee, c, entries[c].generation + 1) = {}
      BY CallsAreOfThePast
    <3>2. entries'[c].generation = entries[c].generation + 1 /\ entries'[c].currentInFlight = 0
      OBVIOUS
    <3>3. entries'[c].inFlight = Cardinality(CallsOn(lessee, c))
      BY DEF LoaderInv, CountsPart
    <3> QED
      BY <3>1, <3>2, <3>3, FS_EmptySet
  <2>2. ASSUME NEW c \in Parts, NEW u \in DOMAIN retired'
        PROVE  retired'[u].members[c].inFlight =
                  Cardinality(CallsOf(lessee, c, retired'[u].members[c].generation))
    <3>1. CASE u = n
      BY <3>1 DEF LoaderInv, CountsPart
    <3>2. CASE u \in DOMAIN retired
      BY <3>2 DEF LoaderInv, CountsPart
    <3> QED
      BY <2>2, <3>1, <3>2
  <2> QED
    BY <1>1, <2>1, <2>2 DEF CountsPart
<1>8. DrainPart'
  <2>1. \A u \in DOMAIN retired : InUse(retired', u) = InUse(retired, u)
    BY DEF InUse
  <2>2. Telling(lessee, n) = {}
    BY DEF LoaderInv, DrainPart, Telling
  <2>3. ASSUME NEW u \in DOMAIN retired'
        PROVE  /\ retired'[u].draining
                     = Cardinality(InUse(retired', u)) + Cardinality(Telling(lessee, u))
               /\ retired'[u].triggered => retired'[u].draining = 0
    <3>1. CASE u = n
      <4>1. Cardinality(Telling(lessee, n)) = 0
        BY <2>2, FS_EmptySet
      <4>2. retired'[n] \in RetiredGroup
        BY <2>3, <3>1
      <4>3. retired'[n].draining \in Nat
        BY <4>2 DEF RetiredGroup
      <4> QED
        BY <3>1, <4>1, <4>3
    <3>2. CASE u \in DOMAIN retired
      BY <2>1, <3>2 DEF LoaderInv, DrainPart
    <3> QED
      BY <2>3, <3>1, <3>2
  <2> QED
    BY <1>1, <2>3 DEF LoaderInv, DrainPart
<1>9. AlivePart'
  BY <1>1 DEF LoaderInv, AlivePart
<1>10. DistinctPart'
  BY <1>1 DEF LoaderInv, DistinctPart
<1> QED
  BY <1>3, <1>4, <1>5, <1>6, <1>7, <1>8, <1>9, <1>10 DEF LoaderInv

LEMMA OfSwitch == ASSUME LoaderInv, Switch PROVE LoaderInv'
<1>1. CASE \A c \in Parts : entries[c].state = "ready" /\ entries[c].runtime # NoRuntime
  BY <1>1, SwitchSwitches, SwitchKeeps
<1>2. CASE ~\A c \in Parts : entries[c].state = "ready" /\ entries[c].runtime # NoRuntime
  <2>1. /\ upgrade' = [upgrade EXCEPT !.at = "stopping"]
        /\ UNCHANGED <<entries, retired, alive, loads, lessee, closing, upgrades>>
    BY <1>2, Zenon DEF Switch
  <2>2. upgrade \in [at : {"no", "loading", "stopping"}, candidates : Seq(Runtimes)]
    BY LoaderTypes DEF LoaderInv
  <2>3. /\ upgrade' \in [at : {"no", "loading", "stopping"}, candidates : Seq(Runtimes)]
        /\ upgrade'.candidates = upgrade.candidates
    BY <2>1, <2>2
  <2>4. LoaderTypeOK' /\ SameCalls
    BY <2>1, <2>3 DEF LoaderInv, LoaderTypeOK, SameCalls
  <2>5. LoadPart'
    BY <2>1, LoadsKept
  <2>6. /\ \A i \in DOMAIN upgrade'.candidates : upgrade.candidates[i] \in alive'
        /\ \A u \in DOMAIN retired, c \in Parts : retired[u].members[c].inFlight > 0 =>
              retired[u].members[c].runtime \in alive'
    BY <2>1, <2>3 DEF LoaderInv, AlivePart
  <2>7. /\ LeasePart' /\ CountsPart' /\ GenerationPart' /\ DrainPart' /\ AlivePart'
        /\ DistinctPart'
    BY <2>1, <2>3, <2>4, <2>6, SideStep
  <2> QED
    BY <2>4, <2>5, <2>7 DEF LoaderInv
<1> QED
  BY <1>1, <1>2

LEMMA LoaderStepIsInv == LoaderInv /\ [LoaderNext]_loaderVars => LoaderInv'
<1> SUFFICES ASSUME LoaderInv, [LoaderNext]_loaderVars PROVE LoaderInv'
  OBVIOUS
<1>1. ASSUME NEW p \in LoaderCallers, CallerStep(p) PROVE LoaderInv'
  <2>1. CASE (\E c \in Parts : AskRuntime(p, c)) \/ SeeEntry(p) \/ GiveUp(p)
    BY <2>1, OfAsking
  <2>2. CASE BeginLoad(p)
    BY <2>2, OfBeginLoad
  <2>3. ASSUME NEW o \in {"ready", "nothing", "stuck"}, EndLoad(p, o) PROVE LoaderInv'
    BY <2>3, OfEndLoad
  <2>4. CASE TakeLease(p)
    BY <2>4, OfTakeLease
  <2>5. CASE Release(p)
    BY <2>5, OfRelease
  <2>6. CASE MemberDrained(p)
    BY <2>6, OfMemberDrained
  <2>7. ASSUME NEW a \in Answers, CallFails(p, a) PROVE LoaderInv'
    BY <2>7, OfEntries
  <2> QED
    BY <1>1, <2>1, <2>2, <2>3, <2>4, <2>5, <2>6, <2>7 DEF CallerStep
<1>2. ASSUME NEW u \in DOMAIN retired, StopMember(u) PROVE LoaderInv'
  BY <1>2, OfStopMember
<1>3. ASSUME NEW c \in Parts, RecoverFailed(c) \/ \E gone \in BOOLEAN : EndUnload(c, gone)
      PROVE  LoaderInv'
  BY <1>3, OfEntries
<1>4. CASE UpgradeStep
  <2>1. ASSUME NEW ready \in BOOLEAN, LoadCandidate(ready) PROVE LoaderInv'
    BY <2>1, OfCandidates, OfNewCandidate
  <2> QED
    BY <1>4, <2>1, OfCandidates, OfSwitch DEF UpgradeStep
<1>5. CASE ShutdownStep
  BY <1>5, OfShutdown
<1>6. CASE UNCHANGED loaderVars
  <2>1. UNCHANGED <<entries, alive, loads, retired, lessee, upgrade, closing, upgrades>>
    BY <1>6 DEF loaderVars
  <2>2. closing' \in [at : {"no", "upgrades", "drain", "stop", "closed", "gaveup"},
                      seen : SUBSET Parts, part : Parts \union {0}]
    BY <2>1 DEF LoaderInv, LoaderTypeOK
  <2> QED
    BY <2>1, <2>2, NothingChanges
<1> QED
  BY <1>1, <1>2, <1>3, <1>4, <1>5, <1>6 DEF LoaderNext

\* However upgrades, failures, recoveries and the shutdown interleave with calls, no
\* runtime is stopped while a lease on it is out: what is unloaded has no lease, what
\* an upgrade retired is stopped by the last caller that leaves it, and no runtime
\* serves in two places (loader.go:623, packages.go:104).
THEOREM CallsStayServed == LoaderSpec => []CallsKeepTheirRuntime
<1>1. ASSUME LoaderInv, NEW p \in LoaderCallers, lessee[p].at = "call"
      PROVE  lessee[p].runtime \in alive
  <2>1. lessee[p].part \in Parts
    BY <1>1, LoaderTypes, LesseeFields DEF LoaderInv
  <2>2. /\ lessee[p].runtime # NoRuntime
        /\ IsCurrent(lessee[p].part, lessee[p]) \/ IsRetired(lessee[p].part, lessee[p])
    BY <1>1 DEF LoaderInv, LeasePart
  <2>3. CASE IsCurrent(lessee[p].part, lessee[p])
    BY <1>1, <2>1, <2>2, <2>3 DEF IsCurrent, LoaderInv, AlivePart
  <2>4. CASE IsRetired(lessee[p].part, lessee[p])
    <3>1. PICK u \in DOMAIN retired :
             /\ retired[u].members[lessee[p].part].generation = lessee[p].generation
             /\ retired[u].members[lessee[p].part].runtime = lessee[p].runtime
      BY <2>4 DEF IsRetired
    <3>2. retired[u].members[lessee[p].part].inFlight >= 1
      BY <1>1, <3>1, LeaseIsCounted
    <3>3. retired[u].members[lessee[p].part].inFlight \in Nat
      BY <1>1, <2>1, LoaderTypes, GroupFields DEF LoaderInv
    <3>4. retired[u].members[lessee[p].part].inFlight > 0
      BY <3>2, <3>3
    <3> QED
      BY <1>1, <2>1, <3>1, <3>4 DEF LoaderInv, AlivePart
  <2> QED
    BY <2>2, <2>3, <2>4
<1>2. LoaderInv => CallsKeepTheirRuntime
  BY <1>1 DEF CallsKeepTheirRuntime
<1> QED
  BY <1>2, LoaderInitIsInv, LoaderStepIsInv, PTL DEF LoaderSpec
=============================================================================
