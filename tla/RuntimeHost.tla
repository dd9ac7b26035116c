---------------------------- MODULE RuntimeHost ----------------------------
(***************************************************************************)
(* The server half of the runtime host protocol: grpc_server.go keeps an   *)
(* entry per runtime and counts the calls it serves, hosted_backend.go     *)
(* loads the guest at first need and reuses it, wasm_host.go runs every    *)
(* call in an instance of its own.  One runtime; its client is the loader, *)
(* through grpc_host.go: one lifecycle call after the other, but it may    *)
(* give up on a call whose handler then goes on here.                      *)
(***************************************************************************)
EXTENDS Naturals, FiniteSets

CONSTANTS
    GuestCalls,     \* calls of the client that may be under way at once
    LifecycleSlots, \* handlers of lifecycle calls that may be under way at once
    Abandonable,    \* lifecycle calls on which the client may give up
    MaxConcurrent,  \* calls the server takes at once
    MaxGuests       \* bound: guests loaded by the backend

ASSUME HostAssumption ==
    /\ Abandonable \subseteq {"describe", "start", "health", "stop"}
    /\ MaxConcurrent \in Nat \ {0} /\ MaxGuests \in Nat
    /\ IsFiniteSet(GuestCalls) /\ "none" \notin LifecycleSlots

VARIABLES
    client,     \* the loader's runtime: how far it is loaded
    awaited,    \* the handler whose answer the client awaits, or NoHandler
    served,     \* the server's entry of the runtime: its number, state, calls
    entriesMade,
    handler,    \* slot -> a lifecycle call: its step, and the entry it holds
    guest,      \* the backend's loaded guest, or NoGuest
    guests,     \* number of guests loaded
    shut,       \* guests whose wazero runtime is closed
    guestCall,  \* call -> where its handler is, its guest, its client still waits
    slotsTaken, \* s.invocations
    overwritten \* auxiliary: a Health failed an entry that was loading or unloading again

hostVars == <<client, awaited, served, entriesMade, handler, guest, guests, shut,
              guestCall, slotsTaken, overwritten>>
serverVars == <<served, entriesMade, handler, overwritten>>
backendVars == <<guest, guests, shut>>
invokeVars == <<guestCall, slotsTaken>>

NoHandler == "none"
NoGuest == 0
NoEntry == [number |-> 0, state |-> "absent", inFlight |-> 0]
IdleSlot == [op |-> "none", at |-> "idle", entry |-> 0, guest |-> NoGuest]
IdleCall == [at |-> "idle", guest |-> NoGuest, waits |-> FALSE]

HostTypeOK ==
    /\ client \in {"unloaded", "described", "started", "ready", "ended"}
    /\ awaited \in LifecycleSlots \union {NoHandler}
    /\ served.state \in {"absent", "loading", "ready", "failed", "unloading"}
    /\ served.number \in 0 .. entriesMade
    /\ served.inFlight \in 0 .. Cardinality(GuestCalls)
    /\ \A h \in LifecycleSlots :
         /\ handler[h].op \in {"none", "describe", "start", "health", "stop"}
         /\ handler[h].at \in {"idle", "arrived", "load", "loaded", "unloadable", "ask",
                               "mark", "take", "close", "stuck", "closed", "done", "error"}
         /\ handler[h].entry \in 0 .. entriesMade /\ handler[h].guest \in 0 .. guests
    /\ guest \in 0 .. guests /\ guests \in 0 .. MaxGuests /\ shut \subseteq 1 .. guests
    /\ \A c \in GuestCalls :
         /\ guestCall[c].at \in {"idle", "arrived", "slot", "begun", "loaded", "guest",
                                 "failing", "ending"}
         /\ guestCall[c].guest \in 0 .. guests /\ guestCall[c].waits \in BOOLEAN
    /\ slotsTaken \in 0 .. MaxConcurrent /\ overwritten \in BOOLEAN

HostInit ==
    /\ client = "unloaded" /\ awaited = NoHandler
    /\ served = NoEntry /\ entriesMade = 0
    /\ handler = [h \in LifecycleSlots |-> IdleSlot]
    /\ guest = NoGuest /\ guests = 0 /\ shut = {}
    /\ guestCall = [c \in GuestCalls |-> IdleCall] /\ slotsTaken = 0
    /\ overwritten = FALSE

-----------------------------------------------------------------------------
(* The client *)

NobodyWaits == \A c \in GuestCalls : ~guestCall[c].waits

\* What the loader may ask next; it stops a runtime only once its leases are back.
NextOps ==
    CASE client = "unloaded" -> {"describe"}
      [] client = "described" -> {"start", "stop"}
      [] client = "started" -> {"health", "stop"}
      [] OTHER -> IF NobodyWaits THEN {"stop"} ELSE {}

SendLifecycle(h, op) ==
    /\ awaited = NoHandler /\ op \in NextOps /\ handler[h].at = "idle"
    /\ handler' = [handler EXCEPT ![h] = [IdleSlot EXCEPT !.op = op, !.at = "arrived"]]
    /\ awaited' = h
    /\ UNCHANGED <<client, served, entriesMade, backendVars, invokeVars, overwritten>>

Achieved(op) ==
    CASE op = "describe" -> "described" [] op = "start" -> "started"
      [] op = "health" -> "ready" [] op = "stop" -> "unloaded"

\* An answer nobody waits for any more is lost.
AnswerLifecycle(h) ==
    /\ handler[h].at \in {"done", "error"}
    /\ handler' = [handler EXCEPT ![h] = IdleSlot]
    /\ IF awaited = h
       THEN /\ awaited' = NoHandler
            /\ client' = IF handler[h].at = "done" THEN Achieved(handler[h].op) ELSE "ended"
       ELSE UNCHANGED <<client, awaited>>
    /\ UNCHANGED <<served, entriesMade, backendVars, invokeVars, overwritten>>

GiveUpLifecycle ==
    /\ awaited # NoHandler /\ handler[awaited].op \in Abandonable
    /\ awaited' = NoHandler /\ client' = "ended"
    /\ UNCHANGED <<serverVars, backendVars, invokeVars>>

SendInvoke(c) ==
    /\ client = "ready" /\ awaited = NoHandler /\ guestCall[c].at = "idle"
    /\ guestCall' = [guestCall EXCEPT ![c] = [IdleCall EXCEPT !.at = "arrived", !.waits = TRUE]]
    /\ UNCHANGED <<client, awaited, serverVars, backendVars, slotsTaken>>

\* Its context ends: the client returns, the handler goes on.
GiveUpInvoke(c) ==
    /\ guestCall[c].waits
    /\ guestCall' = [guestCall EXCEPT ![c].waits = FALSE]
    /\ UNCHANGED <<client, awaited, serverVars, backendVars, slotsTaken>>

-----------------------------------------------------------------------------
(* Lifecycle calls at the server *)

Step(h, at) == handler' = [handler EXCEPT ![h].at = at]

\* hostedRuntimeBackend.load, under the backend's lock.
BackendLoad(outcome) ==
    \/ outcome /\ guest # NoGuest /\ UNCHANGED backendVars
    \/ outcome /\ guest = NoGuest /\ guests < MaxGuests
       /\ guests' = guests + 1 /\ guest' = guests + 1 /\ UNCHANGED shut
    \/ ~outcome /\ guest = NoGuest /\ UNCHANGED backendVars

DescribeGuest(h, ok) ==
    /\ handler[h].op = "describe" /\ handler[h].at = "arrived"
    /\ BackendLoad(ok)
    /\ Step(h, IF ok THEN "done" ELSE "error")
    /\ UNCHANGED <<client, awaited, served, entriesMade, invokeVars, overwritten>>

BeginStart(h) ==
    /\ handler[h].op = "start" /\ handler[h].at = "arrived"
    /\ IF served.state = "absent"
       THEN /\ entriesMade' = entriesMade + 1
            /\ served' = [number |-> entriesMade + 1, state |-> "loading", inFlight |-> 0]
            /\ handler' = [handler EXCEPT ![h].at = "load", ![h].entry = entriesMade + 1]
       ELSE /\ Step(h, IF served.state = "ready" THEN "done" ELSE "error")
            /\ UNCHANGED <<served, entriesMade>>
    /\ UNCHANGED <<client, awaited, backendVars, invokeVars, overwritten>>

LoadGuest(h, ok) ==
    /\ handler[h].op = "start" /\ handler[h].at = "load"
    /\ BackendLoad(ok)
    /\ Step(h, IF ok THEN "loaded" ELSE "unloadable")
    /\ UNCHANGED <<client, awaited, served, entriesMade, invokeVars, overwritten>>

\* A handler writes the entry it holds, which may have been replaced meanwhile.
Mark(h, state) ==
    served' = IF served.number = handler[h].entry THEN [served EXCEPT !.state = state] ELSE served

EndStart(h) ==
    /\ handler[h].at \in {"loaded", "unloadable"}
    /\ Mark(h, IF handler[h].at = "loaded" THEN "ready" ELSE "failed")
    /\ Step(h, IF handler[h].at = "loaded" THEN "done" ELSE "error")
    /\ UNCHANGED <<client, awaited, entriesMade, backendVars, invokeVars, overwritten>>

BeginHealth(h) ==
    /\ handler[h].op = "health" /\ handler[h].at = "arrived"
    /\ Step(h, IF served.state = "ready" THEN "ask" ELSE "error")
    /\ UNCHANGED <<client, awaited, served, entriesMade, backendVars, invokeVars, overwritten>>

\* The backend only knows whether it has the guest.
AskGuest(h) ==
    /\ handler[h].at = "ask"
    /\ Step(h, IF guest # NoGuest THEN "done" ELSE "mark")
    /\ UNCHANGED <<client, awaited, served, entriesMade, backendVars, invokeVars, overwritten>>

\* markFailed: whatever entry there is, and whatever another handler makes of it.
Failed(entry) == IF entry.state = "absent" THEN entry ELSE [entry EXCEPT !.state = "failed"]

MarkUnhealthy(h) ==
    /\ handler[h].at = "mark"
    /\ served' = Failed(served) /\ Step(h, "error")
    /\ overwritten' = (overwritten \/ served.state \in {"loading", "unloading"})
    /\ UNCHANGED <<client, awaited, entriesMade, backendVars, invokeVars>>

\* A server that leaves counting the calls to its client.
MayStopBusy == served.state \in {"ready", "failed"}

MayStop == served.inFlight = 0 /\ served.state \in {"ready", "failed"}

BeginStopGuest(h) ==
    /\ handler[h].op = "stop" /\ handler[h].at = "arrived"
    /\ IF served.state = "absent" \/ ~MayStop
       THEN /\ Step(h, IF served.state = "absent" THEN "done" ELSE "error")
            /\ UNCHANGED served
       ELSE /\ served' = [served EXCEPT !.state = "unloading"]
            /\ handler' = [handler EXCEPT ![h].at = "take", ![h].entry = served.number]
    /\ UNCHANGED <<client, awaited, entriesMade, backendVars, invokeVars, overwritten>>

\* The backend forgets the guest first, under its lock, ...
TakeGuest(h) ==
    /\ handler[h].at = "take"
    /\ handler' = [handler EXCEPT ![h].at = IF guest = NoGuest THEN "closed" ELSE "close",
                                  ![h].guest = guest]
    /\ guest' = NoGuest
    /\ UNCHANGED <<client, awaited, served, entriesMade, guests, shut, invokeVars, overwritten>>

\* ... and closes it, which may report an error.
CloseGuest(h, ok) ==
    /\ handler[h].at = "close"
    /\ shut' = shut \union {handler[h].guest}
    /\ Step(h, IF ok THEN "closed" ELSE "stuck")
    /\ UNCHANGED <<client, awaited, served, entriesMade, guest, guests, invokeVars, overwritten>>

\* The entry is deleted under its name.
EndStop(h) ==
    /\ \/ handler[h].at = "closed" /\ served' = NoEntry /\ Step(h, "done")
       \/ handler[h].at = "stuck" /\ Mark(h, "failed") /\ Step(h, "error")
    /\ UNCHANGED <<client, awaited, entriesMade, backendVars, invokeVars, overwritten>>

-----------------------------------------------------------------------------
(* Invoke at the server, and in the guest *)

Move(c, at) == guestCall' = [guestCall EXCEPT ![c].at = at]

\* What a call comes back with; an answer of the kinds that ReadAs of Loader calls
\* unavailable or protocol makes the loader give the runtime up.
Reply(c, fatal) ==
    /\ guestCall' = [guestCall EXCEPT ![c] = IdleCall]
    /\ client' = IF fatal /\ guestCall[c].waits /\ client = "ready" THEN "ended" ELSE client

TakeInvokeSlot(c) ==
    /\ guestCall[c].at = "arrived"
    /\ IF slotsTaken < MaxConcurrent
       THEN slotsTaken' = slotsTaken + 1 /\ Move(c, "slot") /\ UNCHANGED client
       ELSE Reply(c, FALSE) /\ UNCHANGED slotsTaken
    /\ UNCHANGED <<awaited, serverVars, backendVars>>

BeginInvoke(c) ==
    /\ guestCall[c].at = "slot"
    /\ IF served.state = "ready"
       THEN /\ served' = [served EXCEPT !.inFlight = @ + 1]
            /\ Move(c, "begun") /\ UNCHANGED <<client, slotsTaken>>
       ELSE /\ Reply(c, TRUE) /\ slotsTaken' = slotsTaken - 1 /\ UNCHANGED served
    /\ UNCHANGED <<awaited, entriesMade, handler, backendVars, overwritten>>

LoadForInvoke(c, ok) ==
    /\ guestCall[c].at = "begun"
    /\ BackendLoad(ok)
    /\ guestCall' = [guestCall EXCEPT ![c].at = IF ok THEN "loaded" ELSE "ending",
                                      ![c].guest = IF ok THEN guest' ELSE NoGuest]
    /\ UNCHANGED <<client, awaited, serverVars, slotsTaken>>

\* An instance of its own; in a closed runtime there are none.
InstantiateGuest(c) ==
    /\ guestCall[c].at = "loaded"
    /\ Move(c, IF guestCall[c].guest \in shut THEN "ending" ELSE "guest")
    /\ UNCHANGED <<client, awaited, serverVars, backendVars, slotsTaken>>

\* The guest answers, is rejected, runs out of its budget or is cancelled; a result the
\* protocol has no room for fails the runtime ("failing").
GuestReturns(c, fits) ==
    /\ guestCall[c].at = "guest"
    /\ Move(c, IF fits THEN "ending" ELSE "failing")
    /\ UNCHANGED <<client, awaited, serverVars, backendVars, slotsTaken>>

FailByResult(c) ==
    /\ guestCall[c].at = "failing"
    /\ served' = Failed(served) /\ Move(c, "ending")
    /\ UNCHANGED <<client, awaited, entriesMade, handler, backendVars, slotsTaken, overwritten>>

\* endInvoke counts the call off whatever entry there is.
EndInvoke(c, fatal) ==
    /\ guestCall[c].at = "ending"
    /\ served' = IF served.inFlight > 0 THEN [served EXCEPT !.inFlight = @ - 1] ELSE served
    /\ slotsTaken' = slotsTaken - 1
    /\ Reply(c, fatal)
    /\ UNCHANGED <<awaited, entriesMade, handler, backendVars, overwritten>>

-----------------------------------------------------------------------------
LifecycleStep(h) ==
    \/ \E op \in {"describe", "start", "health", "stop"} : SendLifecycle(h, op)
    \/ AnswerLifecycle(h)
    \/ \E ok \in BOOLEAN : DescribeGuest(h, ok) \/ LoadGuest(h, ok) \/ CloseGuest(h, ok)
    \/ BeginStart(h) \/ EndStart(h) \/ BeginHealth(h) \/ AskGuest(h) \/ MarkUnhealthy(h)
    \/ BeginStopGuest(h) \/ TakeGuest(h) \/ EndStop(h)

InvokeStep(c) ==
    \/ SendInvoke(c) \/ GiveUpInvoke(c) \/ TakeInvokeSlot(c) \/ BeginInvoke(c)
    \/ InstantiateGuest(c) \/ FailByResult(c)
    \/ \E ok \in BOOLEAN : LoadForInvoke(c, ok) \/ GuestReturns(c, ok) \/ EndInvoke(c, ok)

HostNext ==
    \/ GiveUpLifecycle
    \/ \E h \in LifecycleSlots : LifecycleStep(h)
    \/ \E c \in GuestCalls : InvokeStep(c)

HostSpec == HostInit /\ [][HostNext]_hostVars

-----------------------------------------------------------------------------
\* A guest is not closed under a call: although the client may have given up the call, or a
\* Start, Health or Stop whose handler then goes on in the next life of the runtime, the
\* server counts the calls it serves and stops an entry only without them.  The exception
\* is what the code lets happen once a late Health has failed an entry that another handler
\* is loading or unloading: a second Stop then gets in beside the first, and the one that
\* comes last takes the guest, or the entry with its count, of the life after.
GuestsOutliveCalls ==
    \A c \in GuestCalls :
        guestCall[c].at = "guest" => guestCall[c].guest \notin shut \/ overwritten
=============================================================================
