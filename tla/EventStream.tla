----------------------------- MODULE EventStream -----------------------------
(* The event stream of one Echo: the engine persists each event and then   *)
(* publishes it in the EventHub; a stream of Access (the SSE endpoint, the *)
(* chat stream, a QQ reply) subscribes, reads the Echo with its persisted  *)
(* events, and goes on with the live ones.  The engine is reduced to what  *)
(* a stream sees of it: one publisher at a time (only root Runs publish,   *)
(* and their attempts are serial), the row that turns terminal, the Finish *)
(* that follows or, when the row cannot be read just then, does not.       *)
EXTENDS Naturals, Sequences, FiniteSets

CONSTANTS Streams,      \* the requests that follow the Echo
          ChannelSize,  \* buffer of a subscription (64 in the code)
          MaxEvents     \* bound: events of the Echo

ASSUME StreamAssumption ==
    /\ ChannelSize \in Nat \ {0}
    /\ MaxEvents \in Nat

VARIABLES
    eventLog,     \* types of the persisted events, by sequence number
    engine,       \* running | persisted (not yet published) | ended | missed | finished
    subscribers,  \* streams whose channel is in the hub
    channel,      \* [Streams -> Seq(Nat)] sequence numbers in the channel
    kindOf,       \* [Streams -> {"sse", "chat", "qq"}] once it has subscribed
    streamAt,     \* where the handler of it is
    rowRead,      \* [Streams -> BOOLEAN] the row was terminal when it was read
    resumeFrom,   \* [Streams -> Nat] Last-Event-ID, 0 without
    sent,         \* [Streams -> Seq(Nat)] what was written to the client
    dropped       \* streams the hub cut off as too slow

engineVars == <<eventLog, engine>>
hubVars == <<subscribers, channel, dropped>>
requestVars == <<kindOf, resumeFrom>>
streamVars == <<engineVars, hubVars, requestVars, streamAt, rowRead, sent>>

TerminalTypes == {"run.completed", "run.failed"}
EventTypes == {"output.delta"} \union TerminalTypes

Kinds == {"sse", "chat", "qq"}
EchoEnded == {"ended", "missed", "finished"}

StreamInit ==
    /\ kindOf = [s \in Streams |-> "sse"]
    /\ eventLog = <<>> /\ engine = "running"
    /\ subscribers = {} /\ dropped = {}
    /\ channel = [s \in Streams |-> <<>>]
    /\ streamAt = [s \in Streams |-> "none"]
    /\ rowRead = [s \in Streams |-> FALSE]
    /\ resumeFrom = [s \in Streams |-> 0]
    /\ sent = [s \in Streams |-> <<>>]

LastSent(s) == IF sent[s] = <<>> THEN resumeFrom[s] ELSE sent[s][Len(sent[s])]
HasTerminal(log) == \E i \in 1..Len(log) : log[i] \in TerminalTypes

-----------------------------------------------------------------------------
(* The engine *)

\* emitEvent, first half: the row of the event, while Run and Echo are running.
PersistEvent(type) ==
    /\ engine = "running" /\ Len(eventLog) < MaxEvents
    /\ ~HasTerminal(eventLog)
    /\ eventLog' = Append(eventLog, type)
    /\ engine' = "persisted"
    /\ UNCHANGED <<hubVars, streamAt, rowRead, requestVars, sent>>

\* emitEvent, second half: Publish.  A channel that is full is closed and
\* forgotten; what it holds can still be received.
Full(s) == Len(channel[s]) >= ChannelSize

\* Mutant of PublishEvent: a full channel loses the event but stays.
PublishLossy ==
    /\ engine = "persisted"
    /\ channel' = [s \in Streams |->
                     IF s \in subscribers /\ ~Full(s)
                     THEN Append(channel[s], Len(eventLog)) ELSE channel[s]]
    /\ engine' = "running"
    /\ UNCHANGED <<eventLog, subscribers, dropped, streamAt, rowRead,
                   requestVars, sent>>

PublishEvent ==
    /\ engine = "persisted"
    /\ LET slow == {s \in subscribers : Full(s)} IN
       /\ channel' = [s \in Streams |->
                        IF s \in subscribers \ slow
                        THEN Append(channel[s], Len(eventLog)) ELSE channel[s]]
       /\ subscribers' = subscribers \ slow
       /\ dropped' = dropped \union slow
    /\ engine' = "running"
    /\ UNCHANGED <<eventLog, streamAt, rowRead, requestVars, sent>>

\* The terminal write; an Echo that is cancelled, or whose Run fails before or
\* beside its executor's terminal frame, ends without a terminal event.
EndEcho ==
    /\ engine = "running"
    /\ engine' = "ended"
    /\ UNCHANGED <<eventLog, hubVars, streamAt, rowRead, requestVars, sent>>

FinishFrom(state) ==
    /\ engine = state
    /\ engine' = "finished" /\ subscribers' = {}
    /\ UNCHANGED <<eventLog, channel, dropped, streamAt, rowRead, requestVars,
                   sent>>

\* finishEchoIfTerminal reads the Echo and closes its streams.
FinishStreams == FinishFrom("ended")

\* That read fails: Finish is left out and nothing repeats it, ...
FinishIsMissed ==
    /\ engine = "ended" /\ engine' = "missed"
    /\ UNCHANGED <<eventLog, hubVars, streamAt, rowRead, requestVars, sent>>

\* ... unless a child Run of the Echo that ran on is released after it.
FinishLater == FinishFrom("missed")

-----------------------------------------------------------------------------
(* A stream.  GetEcho is two SELECTs: first the row, then the events.      *)

\* Subscribe never fails, and succeeds after Finish as well.
Subscribe(s, kind, from) ==
    /\ streamAt[s] = "none"
    /\ kind # "sse" => from = 0
    /\ kindOf' = [kindOf EXCEPT ![s] = kind]
    /\ subscribers' = subscribers \union {s}
    /\ resumeFrom' = [resumeFrom EXCEPT ![s] = from]
    /\ streamAt' = [streamAt EXCEPT ![s] = "subscribed"]
    /\ UNCHANGED <<engineVars, channel, dropped, rowRead, sent>>

ReadRow(s) ==
    /\ streamAt[s] = "subscribed"
    /\ rowRead' = [rowRead EXCEPT ![s] = engine \in EchoEnded]
    /\ streamAt' = [streamAt EXCEPT ![s] = "reading"]
    /\ UNCHANGED <<engineVars, hubVars, requestVars, sent>>

Replay(s) ==
    sent[s] \o [i \in 1..(Len(eventLog) - resumeFrom[s]) |-> resumeFrom[s] + i]

\* Stopping at a terminal event only, for every kind of stream but SSE.
StopsAtTerminalEvent(s) ==
    kindOf[s] \in {"chat", "qq"} /\ HasTerminal(eventLog)

\* The chat stream stops at a terminal event and nowhere else; SSE stops when
\* the row was terminal; a QQ reply in either case.
StopsAfterReplay(s) ==
    \/ kindOf[s] \in {"chat", "qq"} /\ HasTerminal(eventLog)
    \/ kindOf[s] \in {"sse", "qq"} /\ rowRead[s]

ReadEvents(s) ==
    /\ streamAt[s] = "reading"
    /\ sent' = [sent EXCEPT ![s] = Replay(s)]
    /\ IF StopsAfterReplay(s)
       THEN /\ streamAt' = [streamAt EXCEPT ![s] = "done"]
            /\ subscribers' = subscribers \ {s}
       ELSE /\ streamAt' = [streamAt EXCEPT ![s] = "live"]
            /\ UNCHANGED subscribers
    /\ UNCHANGED <<engineVars, channel, dropped, rowRead, requestVars>>

\* The read fails: an HTTP stream answers 500, a QQ reply goes on without it.
ReadFails(s) ==
    /\ streamAt[s] \in {"subscribed", "reading"}
    /\ IF kindOf[s] = "qq"
       THEN /\ streamAt' = [streamAt EXCEPT ![s] = "live unread"]
            /\ UNCHANGED subscribers
       ELSE /\ streamAt' = [streamAt EXCEPT ![s] = "left"]
            /\ subscribers' = subscribers \ {s}
    /\ UNCHANGED <<engineVars, channel, dropped, rowRead, requestVars, sent>>

Live(s) == streamAt[s] \in {"live", "live unread"}

\* A QQ reply that could not read the log does not vouch for what it sent.
Ended(s) == IF streamAt[s] = "live" THEN "done" ELSE "left"

\* The next event of the channel, dropped when the replay had it.
ReceiveEvent(s) ==
    /\ Live(s) /\ channel[s] # <<>>
    /\ channel' = [channel EXCEPT ![s] = Tail(@)]
    /\ LET n == Head(channel[s])
           ends == /\ n > LastSent(s) /\ kindOf[s] \in {"chat", "qq"}
                   /\ eventLog[n] \in TerminalTypes
       IN /\ sent' = IF n > LastSent(s)
                     THEN [sent EXCEPT ![s] = Append(@, n)] ELSE sent
          /\ streamAt' = IF ends THEN [streamAt EXCEPT ![s] = Ended(s)]
                          ELSE streamAt
          /\ subscribers' = IF ends THEN subscribers \ {s} ELSE subscribers
    /\ UNCHANGED <<engineVars, dropped, rowRead, requestVars>>

\* The channel is closed and empty: by Finish, or because it was too slow.
ChannelCloses(s) ==
    /\ Live(s) /\ channel[s] = <<>> /\ s \notin subscribers
    /\ streamAt' = [streamAt EXCEPT ![s] = Ended(s)]
    /\ UNCHANGED <<engineVars, hubVars, rowRead, requestVars, sent>>

LeaveStream(s) ==
    /\ Live(s)
    /\ streamAt' = [streamAt EXCEPT ![s] = "left"]
    /\ subscribers' = subscribers \ {s}
    /\ UNCHANGED <<engineVars, channel, dropped, rowRead, requestVars, sent>>

\* The client goes away: the request's context ends or a write fails.
ClientLeaves(s) == kindOf[s] # "qq" /\ LeaveStream(s)

\* A QQ reply waits for RunTimeout at most.
ReplyTimesOut(s) == kindOf[s] = "qq" /\ LeaveStream(s)

-----------------------------------------------------------------------------
\* What the goroutine of a stream does without its client.
StreamGoroutine(s) ==
    \/ ReadRow(s) \/ ReadEvents(s) \/ ReceiveEvent(s) \/ ChannelCloses(s)
    \/ ReplyTimesOut(s)

EngineStep == PublishEvent \/ EndEcho \/ FinishStreams \/ FinishIsMissed

StreamNext ==
    \/ \E type \in EventTypes : PersistEvent(type)
    \/ EngineStep \/ FinishLater
    \/ \E s \in Streams :
          \/ \E kind \in Kinds, from \in 0..Len(eventLog) : Subscribe(s, kind, from)
          \/ StreamGoroutine(s) \/ ReadFails(s) \/ ClientLeaves(s)

StreamSpec == StreamInit /\ [][StreamNext]_streamVars

\* The engine goes on, and the goroutine of each stream is scheduled; a Finish
\* that was missed need not come later.
StreamFairness ==
    /\ WF_streamVars(EngineStep)
    /\ \A s \in Streams : WF_streamVars(StreamGoroutine(s))
StreamFairSpec == StreamSpec /\ StreamFairness

-----------------------------------------------------------------------------
(* Properties *)

\* Every variable stays in its domain.
StreamTypeOK ==
    /\ eventLog \in Seq(EventTypes)
    /\ engine \in {"running", "persisted"} \union EchoEnded
    /\ subscribers \subseteq Streams
    /\ channel \in [Streams -> Seq(Nat)]
    /\ kindOf \in [Streams -> Kinds]
    /\ streamAt \in [Streams -> {"none", "subscribed", "reading", "live",
                                 "live unread", "done", "left"}]
    /\ rowRead \in [Streams -> BOOLEAN]
    /\ resumeFrom \in [Streams -> Nat]
    /\ sent \in [Streams -> Seq(Nat)]

\* The hand-over from persisted to live events loses nothing and repeats
\* nothing: what a stream has written is what follows the place where it
\* resumed, without a gap, whether the events came from the log, from the
\* channel or from both; and a stream that ended of its own accord and was not
\* cut off has written the whole log.
GaplessStream ==
    \A s \in Streams :
        /\ streamAt[s] \notin {"live unread", "left"} =>
              sent[s] = [i \in 1..Len(sent[s]) |-> resumeFrom[s] + i]
        /\ streamAt[s] = "done" /\ s \notin dropped => LastSent(s) = Len(eventLog)

\* A request that follows an Echo ends once the Echo has, without the help of
\* its client: QQ replies do in any case, and so do SSE streams, with one
\* exception.  A stream that found the Echo running is left to its client when
\* the read before Finish fails (scheduler.go:298); one that comes later, or
\* was cut off, ends all the same.
Stranded(s) ==
    engine = "missed" /\ kindOf[s] = "sse" /\ streamAt[s] = "live" /\ ~rowRead[s]
StreamsEnd ==
    \A s \in Streams : (streamAt[s] # "none" /\ kindOf[s] # "chat")
                           ~> (streamAt[s] \in {"done", "left"} \/ Stranded(s))

\* chat.go:160: a chat stream whose Echo ended without a terminal reply tells
\* its client so and ends; a Finish that was missed is not what it is about.
ChatStreamEnds ==
    \A s \in Streams : (streamAt[s] # "none" /\ kindOf[s] = "chat")
                           ~> (streamAt[s] \in {"done", "left"} \/ engine = "missed")
=============================================================================
