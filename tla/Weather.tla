------------------------------ MODULE Weather ------------------------------
(***************************************************************************)
(* The weather package's process (packages/weather/src): host.go serves    *)
(* the kernel's calls, wx/service.go asks one provider after the other,    *)
(* wx/http.go limits and retries the requests, wx/cache.go keeps what they *)
(* brought until it expires.  Time is counted in an arbitrary unit, and    *)
(* read once a step; coordinates, hours and weather are left out.          *)
(***************************************************************************)
EXTENDS Naturals, FiniteSets, Sequences, SequencesExt

CONSTANTS
    WeatherCalls,      \* calls the host serves at once
    WeatherRequests,   \* what callers ask: [app, capability, source, place, named]
    MaxRetries,        \* ClientConfig.MaxRetries
    Burst, Rate,       \* a provider's bucket: its size, tokens per unit of time
    CacheCapacity,     \* maxMemoryCacheEntries
    Ttl,               \* kind of data -> how long it is valid
    AccuWeatherKey,    \* whether an AccuWeather key is configured
    MaxTime, MaxInvocations  \* bounds: the clock, and the calls made

ASSUME WeatherAssumption ==
    /\ {MaxRetries, Rate, MaxTime, MaxInvocations} \subseteq Nat
    /\ {Burst, CacheCapacity} \subseteq Nat \ {0} /\ AccuWeatherKey \in BOOLEAN
    /\ \A k \in DOMAIN Ttl : Ttl[k] \in Nat \ {0}
    /\ {"geocode", "fetch"} \subseteq DOMAIN Ttl
    /\ \A r \in WeatherRequests : r.capability \in DOMAIN Ttl

VARIABLES
    clock,
    host,          \* hostServer.state
    call,          \* call -> the state of its handler
    invocations,   \* calls made so far
    readings,         \* MemoryCache.items: key -> until when its entry is valid
    readingsOrder,    \* MemoryCache.order
    bucket,        \* provider -> its tokens, and when they were last filled up
    requestsSent           \* provider -> requests sent to it

weatherVars == <<clock, host, call, invocations, readings, readingsOrder, bucket,
                 requestsSent>>
clientVars == <<readings, readingsOrder, bucket, requestsSent>>

WeatherProviders == {"openmeteo", "xiaomi", "accuweather"}
NoRequest == [app |-> "none", capability |-> "none", source |-> "none", place |-> "none",
              named |-> FALSE]
NoAnswer == [at |-> 0, parts |-> {}]
IdleHandler == [at |-> "idle", request |-> NoRequest, todo |-> <<>>, provider |-> "none",
                kind |-> "none", asks |-> <<>>, attempt |-> 0, parts |-> {}, status |-> 0,
                dead |-> FALSE, answer |-> NoAnswer]

WeatherTypeOK ==
    /\ clock \in 0 .. MaxTime /\ invocations \in 0 .. MaxInvocations
    /\ host \in {"loading", "ready", "failed", "stopped"}
    /\ \A c \in WeatherCalls :
         /\ call[c].at \in {"idle", "turn", "lookup", "ask", "wait"}
         /\ call[c].attempt \in 0 .. MaxRetries
    /\ ToSet(readingsOrder) = DOMAIN readings /\ Len(readingsOrder) = Cardinality(DOMAIN readings)
    /\ Len(readingsOrder) <= CacheCapacity
    /\ \A p \in WeatherProviders : bucket[p].tokens \in 0 .. Burst /\ bucket[p].last \in 0 .. clock

WeatherInit ==
    /\ clock = 0 /\ host = "loading" /\ invocations = 0
    /\ call = [c \in WeatherCalls |-> IdleHandler]
    /\ readings = <<>> /\ readingsOrder = <<>>
    /\ bucket = [p \in WeatherProviders |-> [tokens |-> Burst, last |-> 0]]
    /\ requestsSent = [p \in WeatherProviders |-> 0]

(***************************************************************************)
(* The cache: an expired entry is a miss; past the capacity the entry first*)
(* put in goes, and putting an entry anew does not make it younger.        *)
(***************************************************************************)
Key(asked, provider, kind) == <<asked.app, provider, kind, asked.place>>
GetWeather(key) == key \in DOMAIN readings /\ clock < readings[key]
Overfull(order) == Len(order) > CacheCapacity
KeepUntil(key, until) ==
    LET order == IF key \in DOMAIN readings THEN readingsOrder ELSE Append(readingsOrder, key)
        kept == IF Overfull(order) THEN Tail(order) ELSE order
    IN  /\ readingsOrder' = kept
        /\ readings' = [k \in ToSet(kept) |-> IF k = key THEN until ELSE readings[k]]

(***************************************************************************)
(* Which providers are asked, and by which requests.                       *)
(***************************************************************************)
ProvidersFor(asked) ==
    IF asked.capability = "alerts"
    THEN CASE asked.source = "auto" -> <<"xiaomi", "accuweather">>
           [] asked.source = "openmeteo" -> <<>>
           [] OTHER -> <<asked.source>>
    ELSE IF asked.source = "auto" THEN <<"openmeteo", "xiaomi", "accuweather">>
         ELSE <<asked.source>>

\* What the provider keeps of this capability under one key; "none" for a
\* provider that is disabled.
KindAt(provider, capability) ==
    CASE provider = "openmeteo" -> capability
      [] provider = "xiaomi" -> "fetch"
      [] OTHER -> IF AccuWeatherKey /\ capability # "aqi" THEN capability ELSE "none"

RequestsOf(asked, provider, kind) ==
    IF provider # "accuweather" THEN <<kind>>
    ELSE (IF GetWeather(Key(asked, provider, "location")) THEN <<>> ELSE <<"location">>)
         \o (IF kind = "alerts" THEN <<"alerts">> ELSE <<"current", "hourly">>)

(***************************************************************************)
(* The handler's answers.                                                  *)
(***************************************************************************)
AnswersWith(c, parts) ==
    call' = [call EXCEPT ![c] = [IdleHandler EXCEPT !.answer = [at |-> clock, parts |-> parts]]]

\* An error ends the call, unless providers are left to be tried in turn.
FailsWith(c) ==
    IF call[c].kind = "geocode" \/ call[c].request.source # "auto"
    THEN AnswersWith(c, {})
    ELSE call' = [call EXCEPT ![c].at = "turn", ![c].asks = <<>>, ![c].attempt = 0]

\* The merged alerts are valid for as long as each of them is.
MergedUntilFirst(c, until) == IF call[c].parts = {} THEN until ELSE call[c].status
MergedUntil(c, until) ==
    IF call[c].parts = {} \/ until < call[c].status THEN until ELSE call[c].status

Obtains(c, until) ==
    LET turned == [call[c] EXCEPT !.at = "turn", !.asks = <<>>, !.attempt = 0]
    IN  IF call[c].kind = "geocode" THEN call' = [call EXCEPT ![c] = turned]
        ELSE IF call[c].request.capability # "alerts" THEN AnswersWith(c, {until})
        ELSE call' = [call EXCEPT ![c] =
                [turned EXCEPT !.status = MergedUntil(c, until), !.parts = @ \union {until}]]

(***************************************************************************)
(* host.go: the lifecycle, and the arrival of a call.                      *)
(***************************************************************************)
Answering == {c \in WeatherCalls : call[c].at # "idle"}

StartWeather ==
    /\ host \notin {"failed", "ready"}
    /\ host' = "ready"
    /\ UNCHANGED <<clock, call, invocations, clientVars>>

StopWeather ==
    /\ Answering = {} /\ host # "stopped"
    /\ host' = "stopped"
    /\ UNCHANGED <<clock, call, invocations, clientVars>>

InvokeWeather(c) ==
    /\ host = "ready" /\ call[c].at = "idle" /\ invocations < MaxInvocations
    /\ invocations' = invocations + 1
    /\ \E r \in WeatherRequests :
         call' = [call EXCEPT ![c] = [IdleHandler EXCEPT
                    !.request = r, !.todo = ProvidersFor(r),
                    !.at = IF r.named THEN "lookup" ELSE "turn",
                    !.provider = IF r.named THEN "openmeteo" ELSE "none",
                    !.kind = IF r.named THEN "geocode" ELSE "none"]]
    /\ UNCHANGED <<clock, host, clientVars>>

\* The deadline of the call passes: only a request notices.
Expire(c) ==
    /\ call[c].at # "idle" /\ ~call[c].dead
    /\ call' = [call EXCEPT ![c].dead = TRUE]
    /\ UNCHANGED <<clock, host, invocations, clientVars>>

(***************************************************************************)
(* service.go: the next provider, or the end.  Alerts merged from several  *)
(* providers are governed once more; too large a result fails the host.    *)
(***************************************************************************)
NextProvider(c) ==
    /\ call[c].at = "turn" /\ call[c].todo # <<>>
    /\ LET p == Head(call[c].todo)
           kind == KindAt(p, call[c].request.capability)
       IN  call' = [call EXCEPT ![c].todo = Tail(@), ![c].provider = p, ![c].kind = kind,
                                ![c].at = IF kind = "none" THEN "turn" ELSE "lookup"]
    /\ UNCHANGED <<clock, host, invocations, clientVars>>

LastProvider(c) ==
    /\ call[c].at = "turn" /\ call[c].todo = <<>>
    /\ \/ /\ AnswersWith(c, IF call[c].parts # {} /\ clock < call[c].status
                        THEN call[c].parts ELSE {})
          /\ UNCHANGED host
       \/ /\ Cardinality(call[c].parts) > 1 /\ clock < call[c].status
          /\ AnswersWith(c, {})
          /\ host' = "failed"
    /\ UNCHANGED <<clock, invocations, clientVars>>

\* A cached result is answered as it is; Xiaomi's may lack the air quality.
LookUp(c) ==
    /\ call[c].at = "lookup"
    /\ LET r == call[c].request
           key == Key(r, call[c].provider, call[c].kind)
       IN  IF GetWeather(key)
           THEN \/ Obtains(c, readings[key])
                \/ call[c].kind = "fetch" /\ r.capability = "aqi" /\ FailsWith(c)
           ELSE call' = [call EXCEPT ![c].at = "ask", ![c].attempt = 0,
                           ![c].asks = RequestsOf(r, call[c].provider, call[c].kind)]
    /\ UNCHANGED <<clock, host, invocations, clientVars>>

(***************************************************************************)
(* http.go: each attempt, a retry too, takes a token of the provider.      *)
(***************************************************************************)
Refilled(p) == IF bucket[p].tokens + Rate * (clock - bucket[p].last) > Burst THEN Burst
               ELSE bucket[p].tokens + Rate * (clock - bucket[p].last)
TokensTakenOnce(c) == IF call[c].attempt = 0 THEN 1 ELSE 0
TokensTaken(c) == 1

Attempt(c) ==
    LET p == call[c].provider IN
    /\ call[c].at = "ask" /\ UNCHANGED <<clock, host, invocations, readings, readingsOrder>>
    /\ IF call[c].dead
       THEN FailsWith(c) /\ UNCHANGED <<bucket, requestsSent>>
       ELSE IF Refilled(p) < TokensTaken(c)
       THEN /\ FailsWith(c) /\ UNCHANGED requestsSent
            /\ bucket' = [bucket EXCEPT ![p] = [tokens |-> Refilled(p), last |-> clock]]
       ELSE /\ bucket' = [bucket EXCEPT
                 ![p] = [tokens |-> Refilled(p) - TokensTaken(c), last |-> clock]]
            /\ requestsSent' = [requestsSent EXCEPT ![p] = @ + 1]
            /\ call' = [call EXCEPT ![c].at = "wait"]

\* The provider answers with data: the last answer is stamped and kept, as is
\* AccuWeather's location.
Succeed(c) ==
    LET r == call[c].request
        key == Key(r, call[c].provider, call[c].kind)
        until == clock + Ttl[call[c].kind]
    IN
    /\ call[c].at = "wait" /\ UNCHANGED <<clock, host, invocations, bucket, requestsSent>>
    /\ \/ /\ Len(call[c].asks) > 1
          /\ call' = [call EXCEPT ![c].at = "ask", ![c].asks = Tail(@), ![c].attempt = 0]
          /\ IF Head(call[c].asks) = "location"
             THEN KeepUntil(Key(r, "accuweather", "location"), clock + Ttl["geocode"])
             ELSE UNCHANGED <<readings, readingsOrder>>
       \/ /\ Len(call[c].asks) = 1
          /\ KeepUntil(key, until)
          /\ \/ Obtains(c, until)
             \/ call[c].kind = "fetch" /\ r.capability = "aqi" /\ FailsWith(c)

\* It fails: in a way that a retry may mend, or for good (a status, a body that
\* is no data, an unknown place), or because the deadline passed.
FailAttempt(c) ==
    /\ call[c].at = "wait"
    /\ \/ /\ ~call[c].dead /\ call[c].attempt < MaxRetries
          /\ call' = [call EXCEPT ![c].at = "ask", ![c].attempt = @ + 1]
       \/ FailsWith(c)
    /\ UNCHANGED <<clock, host, invocations, clientVars>>

Tick == /\ clock < MaxTime /\ clock' = clock + 1
        /\ UNCHANGED <<host, call, invocations, clientVars>>

WeatherNext ==
    \/ StartWeather \/ StopWeather \/ Tick
    \/ \E c \in WeatherCalls :
         \/ InvokeWeather(c) \/ Expire(c) \/ NextProvider(c) \/ LastProvider(c)
         \/ LookUp(c) \/ Attempt(c) \/ Succeed(c) \/ FailAttempt(c)
WeatherSpec == WeatherInit /\ [][WeatherNext]_weatherVars

(***************************************************************************)
(* Properties.                                                             *)
(***************************************************************************)
\* Every reading in an answer is still valid when it is given: alerts of one
\* provider may expire while the call waits for the other (service.go:95-116).
AnswersAreFresh ==
    \A c \in WeatherCalls : \A u \in call[c].answer.parts : call[c].answer.at < u

\* A provider gets no more requests than its quota allows, however many calls
\* ask it and however often they retry (http.go:207-210).
ProviderQuotaHolds == \A p \in WeatherProviders : requestsSent[p] <= Burst + Rate * clock
============================================================================
