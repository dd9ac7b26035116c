----------------------------- MODULE AgentStream -----------------------------
(* One Run between the model, the Python agent and the engine: the provider *)
(* streams the model's turns, AgentKernel turns them into events,           *)
(* ExecutorRuntime turns those into numbered frames, and executeClaimedRun  *)
(* checks every frame again before it persists and shows it.  Both sides    *)
(* keep the budgets of the Run.  A text is a run of chunks of one byte; the *)
(* stream is a bounded queue each way.                                      *)
EXTENDS Naturals, Sequences, FiniteSets

CONSTANTS MaxTurns,          \* max_steps of the Run
          MaxCapabilityCalls,
          MaxExecutionUnits,
          MaxOutputBytes,
          MaxCostMicrousd,   \* budget of the Run; 0: none
          CostBound,         \* the protocol's bound of a cost (MaxCostMicrousd)
          RetriesBound,      \* the protocol's bound of retries (MaxRetries)
          ProviderRetries,   \* requests beyond the first of a turn (2 in the code)
          MaxRunAttempts,
          CallIds,           \* ids the model gives to its calls
          TurnUnits,         \* units a turn may use
          TurnCosts,         \* and what it may cost
          AnswerLength,      \* bound: chunks of one answer of the model
          WireSize           \* bound: frames under way

\* ValidateStartFrame bounds the budget of the cost; 64 turns of 5 retries each
\* are the protocol's 320.
ASSUME AgentAssumption ==
    /\ {MaxTurns, MaxCapabilityCalls, MaxExecutionUnits, MaxOutputBytes,
        MaxRunAttempts, WireSize} \subseteq Nat \ {0}
    /\ {ProviderRetries, AnswerLength, MaxCostMicrousd, CostBound,
        RetriesBound} \subseteq Nat
    /\ TurnUnits \subseteq Nat /\ TurnCosts \subseteq Nat
    /\ MaxCostMicrousd <= CostBound
    /\ MaxTurns * ProviderRetries <= RetriesBound

VARIABLES
    request,   \* stream_turn: attempt, whether a chunk came, chunks of the answer
    agent,     \* AgentKernel.run and ExecutorRuntime.Run
    wire,      \* frames to the engine
    results,   \* call ids answered, to the agent
    intake,    \* executeClaimedRun: what the receive loop keeps
    shown      \* output.delta events of the Echo: [attempt, turn]

agentVars == <<request, agent, wire, results, intake, shown>>

FirstRequest == [attempt |-> 0, received |-> FALSE, text |-> 0]

\* withheld: a frame was numbered and refused by the runtime's own check.
\* loose: a call was sent whose arguments are JSON to Python's reader alone.
NewAgent ==
    [at |-> "turn", turn |-> 1, output |-> 0, units |-> 0, retries |-> 0,
     cost |-> 0, calls |-> 0, seen |-> {}, pending |-> <<>>, sequence |-> 1,
     withheld |-> FALSE, loose |-> FALSE]

NewIntake(attempt) ==
    [at |-> "receiving", attempt |-> attempt, expected |-> 1, accepted |-> FALSE,
     seen |-> {}, output |-> 0, units |-> 0, retries |-> 0, cost |-> 0,
     usage |-> FALSE, final |-> 0, failure |-> "none", safe |-> TRUE,
     refused |-> "none"]

Frame(n, type, arg) == [sequence |-> n, body |-> type, arg |-> arg]

AgentInit ==
    /\ request = FirstRequest /\ agent = NewAgent
    /\ wire = <<Frame(1, "run_accepted", 0)>> /\ results = <<>>
    /\ intake = NewIntake(1) /\ shown = <<>>

-----------------------------------------------------------------------------
(* The agent.  An event of AgentKernel becomes the next frame; an exception *)
(* becomes a run_failure with the number after the last one counted.        *)

CanSend == Len(wire) < WireSize

SendFrame(type, arg, next) ==
    /\ CanSend
    /\ wire' = Append(wire, Frame(agent.sequence + 1, type, arg))
    /\ agent' = [next EXCEPT !.sequence = agent.sequence + 1]

\* An exception that is not the runtime's own check of a frame.
AgentFails(retryable) ==
    /\ SendFrame("run_failure", retryable, [agent EXCEPT !.at = "ended"])
    /\ UNCHANGED <<request, results, intake, shown>>

\* The runtime counts a frame before it checks it: the failure it sends
\* instead takes the number after.
FrameWithheld ==
    /\ CanSend
    /\ wire' = Append(wire, Frame(agent.sequence + 2, "run_failure", FALSE))
    /\ agent' = [agent EXCEPT !.at = "ended", !.sequence = @ + 2,
                              !.withheld = TRUE]
    /\ UNCHANGED <<request, results, intake, shown>>

\* Mutant of AgentOutput: the budget of a turn instead of the Run's.
OutputOfTurn(size) == request.text + size

AgentOutput(size) == agent.output + size

\* A chunk with text: a delta, unless it breaks the budget or the size limit.
TextChunk ==
    /\ agent.at = "turn" /\ request.text < AnswerLength
    /\ \/ /\ AgentOutput(1) <= MaxOutputBytes
          /\ SendFrame("output_delta", agent.turn,
                       [agent EXCEPT !.output = AgentOutput(1)])
          /\ request' = [request EXCEPT !.received = TRUE, !.text = @ + 1]
          /\ UNCHANGED <<results, intake, shown>>
       \/ AgentOutput(1) > MaxOutputBytes /\ AgentFails(FALSE)
       \/ AgentOutput(1) <= MaxOutputBytes /\ FrameWithheld

\* A chunk of a call or of the usage.
OtherChunk ==
    /\ agent.at = "turn" /\ ~request.received
    /\ request' = [request EXCEPT !.received = TRUE]
    /\ UNCHANGED <<agent, wire, results, intake, shown>>

\* Mutant of AsksAgain: a stream that broke off is asked for again.
AsksAgainAnyway(retryable) == retryable /\ request.attempt < ProviderRetries

AsksAgain(retryable) ==
    retryable /\ ~request.received /\ request.attempt < ProviderRetries

\* The request fails, before its stream or in it, or answers out of form;
\* or the turn exceeds provider_timeout_seconds.
RequestFails(retryable) ==
    /\ agent.at = "turn"
    /\ IF AsksAgain(retryable)
       THEN /\ request' = [FirstRequest EXCEPT !.attempt = request.attempt + 1]
            /\ UNCHANGED <<agent, wire, results, intake, shown>>
       ELSE AgentFails(retryable)

TurnTimesOut == agent.at = "turn" /\ AgentFails(TRUE)

\* The turn is complete: its usage is added up and reported.
TurnCompletes(units, cost, ids) ==
    /\ agent.at = "turn" /\ request.received
    /\ LET total == agent.units + units
           costs == agent.cost + cost IN
       IF \/ total > MaxExecutionUnits
          \/ MaxCostMicrousd > 0 /\ costs > MaxCostMicrousd
       THEN AgentFails(FALSE)
       ELSE /\ SendFrame("resource_usage",
                         <<IF total = 0 THEN 1 ELSE total,
                           agent.retries + request.attempt, costs>>,
                         [agent EXCEPT !.at = "answered", !.units = total,
                                       !.retries = @ + request.attempt,
                                       !.cost = costs, !.pending = ids])
            /\ UNCHANGED <<request, results, intake, shown>>

\* Without a call the turn's text is the reply; an empty one is refused by
\* the runtime.
FinalReply ==
    /\ agent.at = "answered" /\ agent.pending = <<>>
    /\ IF request.text = 0 THEN FrameWithheld
       ELSE /\ SendFrame("final_result", request.text,
                         [agent EXCEPT !.at = "ended"])
            /\ UNCHANGED <<request, results, intake, shown>>

\* The calls of the turn are counted at once.
CountCalls ==
    /\ agent.at = "answered" /\ agent.pending # <<>>
    /\ LET count == agent.calls + Len(agent.pending) IN
       IF count > MaxCapabilityCalls THEN AgentFails(FALSE)
       ELSE /\ agent' = [agent EXCEPT !.at = "calling", !.calls = count]
            /\ UNCHANGED <<request, wire, results, intake, shown>>

Repeated(id) == id \in agent.seen

\* The next call: a repeated id, an unknown name or unusable arguments fail
\* the Run; a frame the runtime refuses is withheld.  json.loads takes NaN and
\* Infinity too, which are not JSON (strict: there are none), and the runtime
\* looks at the length alone.
RequestCapability(strict) ==
    /\ agent.at = "calling" /\ agent.pending # <<>>
    /\ LET id == Head(agent.pending) IN
       \/ AgentFails(FALSE)
       \/ ~Repeated(id) /\ FrameWithheld
       \/ /\ ~Repeated(id)
          /\ SendFrame("capability_call", <<id, strict>>,
                       [agent EXCEPT !.at = "waiting", !.seen = @ \union {id},
                                     !.loose = ~strict])
          /\ UNCHANGED <<request, results, intake, shown>>

ReceiveResult ==
    /\ agent.at = "waiting" /\ results # <<>>
    /\ results' = Tail(results)
    /\ agent' = [agent EXCEPT !.at = "calling", !.pending = Tail(@)]
    /\ UNCHANGED <<request, wire, intake, shown>>

NextTurn ==
    /\ agent.at = "calling" /\ agent.pending = <<>>
    /\ IF agent.turn = MaxTurns THEN AgentFails(FALSE)
       ELSE /\ agent' = [agent EXCEPT !.at = "turn", !.turn = @ + 1]
            /\ request' = FirstRequest
            /\ UNCHANGED <<wire, results, intake, shown>>

-----------------------------------------------------------------------------
(* The engine *)

Receiving == intake.at = "receiving"

\* What the checks of a frame answer, the first that fails: "none", or why it
\* is refused.
Refusal(frame) ==
    IF intake.final > 0 \/ intake.failure # "none" THEN "after terminal"
    ELSE IF frame.sequence # intake.expected THEN "sequence"
    ELSE IF (frame.body = "run_accepted") = intake.accepted THEN "unexpected"
    ELSE CASE frame.body = "capability_call" ->
                IF ~frame.arg[2] THEN "arguments"
                ELSE IF Cardinality(intake.seen) >= MaxCapabilityCalls THEN "budget"
                ELSE IF frame.arg[1] \in intake.seen THEN "duplicate" ELSE "none"
           [] frame.body = "resource_usage" ->
                IF \/ frame.arg[1] < intake.units \/ frame.arg[1] > MaxExecutionUnits
                   \/ frame.arg[2] < intake.retries \/ frame.arg[2] > RetriesBound
                   \/ frame.arg[3] < intake.cost \/ frame.arg[3] > CostBound
                   \/ MaxCostMicrousd > 0 /\ frame.arg[3] > MaxCostMicrousd
                THEN "usage" ELSE "none"
           [] frame.body = "output_delta" ->
                IF intake.output + 1 > MaxOutputBytes THEN "budget" ELSE "none"
           [] frame.body = "final_result" ->
                IF ~intake.usage THEN "unexpected"
                ELSE IF frame.arg > MaxOutputBytes THEN "budget" ELSE "none"
           [] OTHER -> "none"

\* A refused frame fails the Run; neither code may be tried again.  The agent
\* learns of it by the end of its stream.
Stop(at, refused) ==
    /\ intake' = [intake EXCEPT !.at = at, !.refused = refused]
    /\ agent' = [agent EXCEPT !.at = "ended"]
    /\ wire' = <<>> /\ results' = <<>>
    /\ UNCHANGED <<request, shown>>

RefuseFrame ==
    /\ Receiving /\ wire # <<>> /\ Refusal(Head(wire)) # "none"
    /\ Stop("failed", Refusal(Head(wire)))

Taken(frame) == [intake EXCEPT !.expected = @ + 1]

TakeFrame(type) ==
    /\ Receiving /\ wire # <<>> /\ Head(wire).body = type
    /\ Refusal(Head(wire)) = "none"
    /\ wire' = Tail(wire)
    /\ UNCHANGED <<request, agent>>

TakeRunAccepted ==
    /\ TakeFrame("run_accepted")
    /\ intake' = [Taken(Head(wire)) EXCEPT !.accepted = TRUE]
    /\ UNCHANGED <<results, shown>>

TakeOutputDelta ==
    /\ TakeFrame("output_delta")
    /\ intake' = [Taken(Head(wire)) EXCEPT !.output = @ + 1]
    /\ shown' = Append(shown, [attempt |-> intake.attempt, turn |-> Head(wire).arg])
    /\ UNCHANGED results

\* The call is served before the next frame is read; one that is not safe to
\* replay ends the automatic retries.
TakeCapabilityCall(replaySafe) ==
    /\ TakeFrame("capability_call")
    /\ intake' = [Taken(Head(wire)) EXCEPT
                    !.seen = @ \union {Head(wire).arg[1]},
                    !.safe = @ /\ replaySafe]
    /\ results' = Append(results, Head(wire).arg[1])
    /\ UNCHANGED shown

TakeResourceUsage ==
    /\ TakeFrame("resource_usage")
    /\ intake' = [Taken(Head(wire)) EXCEPT !.units = Head(wire).arg[1],
                                           !.retries = Head(wire).arg[2],
                                           !.cost = Head(wire).arg[3],
                                           !.usage = TRUE]
    /\ UNCHANGED <<results, shown>>

TakeFinalResult ==
    /\ TakeFrame("final_result")
    /\ intake' = [Taken(Head(wire)) EXCEPT !.final = Head(wire).arg]
    /\ UNCHANGED <<results, shown>>

TakeRunFailure ==
    /\ TakeFrame("run_failure")
    /\ intake' = [Taken(Head(wire)) EXCEPT
                    !.failure = IF Head(wire).arg THEN "retryable" ELSE "final"]
    /\ UNCHANGED <<results, shown>>

StreamEnds == Receiving /\ wire = <<>> /\ agent.at = "ended"

\* A new attempt is a new Run: budgets, numbers and call ids start afresh.
FailOrRetry(retryable) ==
    IF retryable /\ intake.safe /\ intake.attempt < MaxRunAttempts
    THEN /\ intake' = NewIntake(intake.attempt + 1)
         /\ agent' = NewAgent /\ request' = FirstRequest
         /\ wire' = <<Frame(1, "run_accepted", 0)>> /\ results' = <<>>
         /\ UNCHANGED shown
    ELSE Stop("failed", "none")

EndOfStream ==
    /\ StreamEnds
    /\ IF intake.final > 0 THEN Stop("succeeded", "none")
       ELSE FailOrRetry(intake.failure # "final")

\* The stream breaks: the agent's process ends, or a frame cannot be sent.
StreamBreaks == Receiving /\ FailOrRetry(TRUE)

\* The Run is cancelled or its time is up; the agent is cancelled with it.
RunIsStopped == Receiving /\ Stop("stopped", "none")

-----------------------------------------------------------------------------
AgentNext ==
    \/ TextChunk \/ OtherChunk \/ TurnTimesOut
    \/ \E retryable \in BOOLEAN : RequestFails(retryable)
    \/ \E units \in TurnUnits, cost \in TurnCosts,
          ids \in {<<>>} \union [1..1 -> CallIds] \union [1..2 -> CallIds] :
          TurnCompletes(units, cost, ids)
    \/ FinalReply \/ CountCalls \/ ReceiveResult \/ NextTurn
    \/ \E strict \in BOOLEAN : RequestCapability(strict)
    \/ RefuseFrame \/ TakeRunAccepted \/ TakeOutputDelta \/ TakeResourceUsage
    \/ \E replaySafe \in BOOLEAN : TakeCapabilityCall(replaySafe)
    \/ TakeFinalResult \/ TakeRunFailure
    \/ EndOfStream \/ StreamBreaks \/ RunIsStopped

AgentSpec == AgentInit /\ [][AgentNext]_agentVars

-----------------------------------------------------------------------------
(* Properties *)

\* Every variable stays in its domain.
AgentTypeOK ==
    /\ request \in [attempt : 0..ProviderRetries, received : BOOLEAN,
                    text : 0..AnswerLength]
    /\ agent.at \in {"turn", "answered", "calling", "waiting", "ended"}
    /\ agent.turn \in 1..MaxTurns /\ agent.output \in 0..MaxOutputBytes
    /\ agent.seen \subseteq CallIds
    /\ Len(wire) <= WireSize /\ Len(results) <= 1
    /\ intake.at \in {"receiving", "succeeded", "failed", "stopped"}
    /\ intake.attempt \in 1..MaxRunAttempts
    /\ intake.final \in 0..MaxOutputBytes

\* The two sides agree on the protocol and on the budgets: whatever the model
\* answers, the engine refuses no frame of the agent, with three exceptions that
\* come from the agent's own checks.  The runtime had counted a frame that it
\* withheld, so that the failure it sends instead is out of sequence; the
\* arguments of a call were JSON to the agent alone; or, in a Run without a
\* budget for it, the cost is above what the protocol can carry.
FramesAreTaken ==
    \/ intake.refused = "none"
    \/ intake.refused = "sequence" /\ agent.withheld
    \/ intake.refused = "arguments" /\ agent.loose
    \/ intake.refused = "usage" /\ MaxCostMicrousd = 0 /\ agent.cost > CostBound

\* How often e is in s.
Times(e, s) == Cardinality({i \in DOMAIN s : s[i] = e})

\* The chunks of the agent's turn, in the attempt under way, that were shown.
Shown == Times([attempt |-> intake.attempt, turn |-> agent.turn], shown)

\* The text of the turn that became the reply was shown once: the deltas of
\* that turn, in the attempt that succeeded, are the chunks of the final
\* output, however often the provider was asked.
ReplyIsShownOnce ==
    intake.at = "succeeded" => intake.final = Shown
=============================================================================
