------------------------------ MODULE AgentRun ------------------------------
(***************************************************************************)
(* Concurrent calls of Engine.RunAgent and the stack of clients below      *)
(* them: the limiter (a token bucket and a semaphore per endpoint), the    *)
(* retry decorator and the HTTP client.  A run makes one call of           *)
(* Limiter.Complete per turn: the only one of a plain run, one for each    *)
(* round of the tool loop, and at most one to repair an answer that does   *)
(* not match its schema.                                                   *)
(*                                                                         *)
(* What a model answers, and whether a request fails, is a choice.  An     *)
(* answer is prose, a JSON object that does not match the schema, or one   *)
(* that does.  Every check strips a code fence first, so a fence makes no  *)
(* difference here; that it stays in the output is a matter of PureCalls.  *)
(***************************************************************************)
EXTENDS Naturals, FiniteSets

CONSTANTS
    Runs,               \* calls of RunAgent
    URLs,               \* base URLs
    NoURL,              \* a base_url that is blank
    Hosts,              \* backends, as host:port in lower case
    HostPort,           \* HostPort[u]: the host of u, without scheme and path
    BaseURL,            \* BaseURL[r]: the base_url of r's blueprint
    DefaultURL,         \* OPENAI_BASE_URL
    EnvConcurrency,     \* HARNESS_CONCURRENCY_<KEY> of a key, 0 if unset
    Override,           \* the concurrency of r's blueprint, 0 if unset
    RateOverride,       \* the rate_limit of r's blueprint: <<n, m>> for n requests
                        \* in m seconds, n = 0 if unset
    EnvRate,            \* HARNESS_RATE_LIMIT_<KEY> of a key
    DefaultRate,        \* HARNESS_RATE_LIMIT
    Format,             \* Format[r]: output_format, "text" or "json"
    HasSchema,          \* HasSchema[r]: does the blueprint name a schema?
    UsesTools,          \* UsesTools[r]: does the blueprint list tools?
    HasTimeout,         \* HasTimeout[r]: does the blueprint set a timeout?
    InPipeline,         \* InPipeline[r]: may a pipeline cancel r?
    MaxAttempts,        \* attempts of the retry decorator
    maxToolRounds

\* What the limiter keeps its settings, semaphores and buckets under.
Keys == Hosts \cup {"default"}

ASSUME AgentAssumption ==
    /\ IsFiniteSet(Runs)
    /\ HostPort \in [URLs -> Hosts]
    /\ NoURL \notin URLs
    /\ BaseURL \in [Runs -> URLs \cup {NoURL}]
    /\ DefaultURL \in URLs
    /\ EnvConcurrency \in [Keys -> Nat]
    /\ Override \in [Runs -> Nat]
    /\ RateOverride \in [Runs -> Nat \X (Nat \ {0})]
    /\ EnvRate \in [Keys -> Nat \X (Nat \ {0})]
    /\ DefaultRate \in Nat \X (Nat \ {0})
    /\ Format \in [Runs -> {"text", "json"}]
    /\ HasSchema \in [Runs -> BOOLEAN]
    /\ \A r \in Runs : HasSchema[r] => Format[r] = "json"
    /\ UsesTools \in [Runs -> BOOLEAN]
    /\ HasTimeout \in [Runs -> BOOLEAN]
    /\ InPipeline \in [Runs -> BOOLEAN]
    /\ MaxAttempts \in Nat \ {0}
    /\ maxToolRounds \in Nat \ {0}

VARIABLES
    pc,                 \* where run r is
    turn,               \* which call of the limiter: "plain", "tool", "repair"
    round,              \* rounds of the tool loop begun
    attempt,            \* attempt of the retry decorator
    content,            \* the last answer
    result,             \* how the run ended
    cancelled,          \* is r's context done?
    sem,                \* sem[k]: the runs that hold a slot of semaphore k
    tokens,             \* tokens[b]: tokens in bucket b
    sent,               \* sent[r]: requests that r made of its backend
    turns,              \* turns[r]: calls of the limiter that got a slot
    late,               \* late[r]: requests begun after r's context was done
    retries,            \* harness_llm_retries_total
    schemaFailures      \* harness_schema_failures_total

limits == <<sem, tokens>>
counters == <<sent, turns, late, retries, schemaFailures>>
vars == <<pc, turn, round, attempt, content, result, cancelled, sem, tokens,
          sent, turns, late, retries, schemaFailures>>

Content == {"none", "prose", "object", "valid"}
Result == {"none", "ok", "error", "schema"}
PC == {"start", "rate", "slot", "http", "backoff", "tools", "check", "done"}
-----------------------------------------------------------------------------
(***************************************************************************)
(* The limiter's configuration.                                            *)
(***************************************************************************)
\* endpointKey: the host of the base_url; a blank one has a key of its own.
EndpointKey(r) == IF BaseURL[r] = NoURL THEN "default" ELSE HostPort[BaseURL[r]]

\* OpenAIClient.Complete: where the requests of r go.
Backend(r) == HostPort[IF BaseURL[r] = NoURL THEN DefaultURL ELSE BaseURL[r]]

\* FromEnv and New.  The variable of the key "default" is the default's own.
DefaultConcurrency ==
    IF EnvConcurrency["default"] > 0 THEN EnvConcurrency["default"] ELSE 1

Concurrency(r) ==
    LET e == EndpointKey(r) IN
    IF EnvConcurrency[e] > 0 THEN EnvConcurrency[e]
    ELSE IF Override[r] > 0 THEN Override[r]
    ELSE DefaultConcurrency

\* semFor: one semaphore for each key and size.
SemKey(r) == <<EndpointKey(r), Concurrency(r)>>
SemKeys == {SemKey(r) : r \in Runs}

RateLimit(r) ==
    LET e == EndpointKey(r) IN
    IF RateOverride[r][1] > 0 THEN RateOverride[r]
    ELSE IF EnvRate[e][1] > 0 THEN EnvRate[e]
    ELSE DefaultRate

Limited(r) == RateLimit(r)[1] > 0

\* rateLimiterFor: one bucket for each key, whole number of requests in
\* a second, and burst.  Rates that agree in these share a bucket.
Bucket(r) ==
    LET rate == RateLimit(r) IN <<EndpointKey(r), rate[1] \div rate[2], rate[1]>>
Buckets == {Bucket(r) : r \in {r \in Runs : Limited(r)}}

Goto(r, label) == pc' = [pc EXCEPT ![r] = label]
FreeSlot(r) == sem' = [sem EXCEPT ![SemKey(r)] = @ \ {r}]
\* A request is begun, perhaps when the context is done already.
Attempt(r) ==
    /\ sent' = [sent EXCEPT ![r] = @ + 1]
    /\ late' = [late EXCEPT ![r] = IF cancelled[r] THEN @ + 1 ELSE @]
End(r, res) == Goto(r, "done") /\ result' = [result EXCEPT ![r] = res]
-----------------------------------------------------------------------------
(***************************************************************************)
(* RunAgent, up to its first call of the limiter.                          *)
(***************************************************************************)
\* The agent or its prompt is gone from the registry, or resolveTools fails.
Reject(r) ==
    /\ pc[r] = "start"
    /\ End(r, "error")
    /\ UNCHANGED <<turn, round, attempt, content, cancelled, limits, counters>>

Begin(r) ==
    /\ pc[r] = "start"
    /\ Goto(r, "rate")
    /\ turn' = [turn EXCEPT ![r] = IF UsesTools[r] THEN "tool" ELSE "plain"]
    /\ round' = [round EXCEPT ![r] = 1]
    /\ UNCHANGED <<attempt, content, result, cancelled, limits, counters>>
-----------------------------------------------------------------------------
(***************************************************************************)
(* Limiter.Complete: wait for a token, then for a slot.                    *)
(***************************************************************************)
RateToken(r) ==
    /\ pc[r] = "rate"
    /\ Limited(r) => tokens[Bucket(r)] > 0 /\ ~cancelled[r]
    /\ tokens' = IF Limited(r) THEN [tokens EXCEPT ![Bucket(r)] = @ - 1] ELSE tokens
    /\ Goto(r, "slot")
    /\ UNCHANGED <<turn, round, attempt, content, result, cancelled, sem, counters>>

\* An error of the limiter or the clients: a repair turn that fails counts as
\* a schema failure.
Broken(r) ==
    /\ End(r, IF turn[r] = "repair" THEN "schema" ELSE "error")
    /\ schemaFailures' = IF turn[r] = "repair" THEN schemaFailures + 1
                         ELSE schemaFailures

\* bucket.Wait fails: the context is done, or its deadline comes before the
\* next token.
RateFails(r) ==
    /\ pc[r] = "rate"
    /\ Limited(r)
    /\ cancelled[r] \/ (HasTimeout[r] /\ tokens[Bucket(r)] = 0)
    /\ Broken(r)
    /\ UNCHANGED <<turn, round, attempt, content, cancelled, limits, sent,
                   turns, late, retries>>

\* A slot is free: the first attempt is made.  select may choose the slot also
\* when the context is done.
Acquire(r) ==
    /\ pc[r] = "slot"
    /\ Cardinality(sem[SemKey(r)]) < Concurrency(r)
    /\ sem' = [sem EXCEPT ![SemKey(r)] = @ \cup {r}]
    /\ attempt' = [attempt EXCEPT ![r] = 1]
    /\ Attempt(r)
    /\ turns' = [turns EXCEPT ![r] = @ + 1]
    /\ Goto(r, "http")
    /\ UNCHANGED <<turn, round, content, result, cancelled, tokens, retries,
                   schemaFailures>>

SlotCancelled(r) ==
    /\ pc[r] = "slot"
    /\ cancelled[r]
    /\ Broken(r)
    /\ UNCHANGED <<turn, round, attempt, content, cancelled, limits, sent,
                   turns, late, retries>>
-----------------------------------------------------------------------------
(***************************************************************************)
(* RetryClient.Complete over OpenAIClient.Complete.                        *)
(***************************************************************************)
\* Mutant: one attempt too many.
AttemptFailsLate(r) ==
    /\ pc[r] = "http"
    /\ attempt[r] <= MaxAttempts
    /\ retries' = retries + 1
    /\ Goto(r, "backoff")
    /\ UNCHANGED <<turn, round, attempt, content, result, cancelled, limits,
                   sent, turns, late, schemaFailures>>

\* A transport failure, 429, 5xx or an answer that cannot be decoded, with an
\* attempt left.
AttemptFails(r) ==
    /\ pc[r] = "http"
    /\ attempt[r] < MaxAttempts
    /\ retries' = retries + 1
    /\ Goto(r, "backoff")
    /\ UNCHANGED <<turn, round, attempt, content, result, cancelled, limits,
                   sent, turns, late, schemaFailures>>

\* Another 4xx, a context that is done, or the last attempt.
CallFails(r) ==
    /\ pc[r] = "http"
    /\ FreeSlot(r)
    /\ Broken(r)
    /\ UNCHANGED <<turn, round, attempt, content, cancelled, tokens, sent,
                   turns, late, retries>>

\* Mutant: the retry decorator sleeps without looking at the context.
RetryIgnoringContext(r) ==
    /\ pc[r] = "backoff"
    /\ attempt' = [attempt EXCEPT ![r] = @ + 1]
    /\ Attempt(r)
    /\ Goto(r, "http")
    /\ UNCHANGED <<turn, round, content, result, cancelled, limits, turns,
                   retries, schemaFailures>>

\* Mutant: the slot is given back for the sleep and not taken again.
RetryWithoutSlot(r) ==
    /\ pc[r] = "backoff"
    /\ late[r] = 0
    /\ attempt' = [attempt EXCEPT ![r] = @ + 1]
    /\ Attempt(r)
    /\ FreeSlot(r)
    /\ Goto(r, "http")
    /\ UNCHANGED <<turn, round, content, result, cancelled, tokens, turns,
                   retries, schemaFailures>>

\* The sleep ends; the slot was kept.  A sleep that begins with a context that
\* is done ends at once, with its error.
Retry(r) ==
    /\ pc[r] = "backoff"
    /\ late[r] = 0
    /\ attempt' = [attempt EXCEPT ![r] = @ + 1]
    /\ Attempt(r)
    /\ Goto(r, "http")
    /\ UNCHANGED <<turn, round, content, result, cancelled, limits, turns,
                   retries, schemaFailures>>

\* Mutant: the slot of a run that is cancelled while it sleeps is lost.
BackoffCancelledLeak(r) ==
    /\ pc[r] = "backoff"
    /\ cancelled[r]
    /\ Broken(r)
    /\ UNCHANGED <<turn, round, attempt, content, cancelled, limits, sent,
                   turns, late, retries>>

BackoffCancelled(r) ==
    /\ pc[r] = "backoff"
    /\ cancelled[r]
    /\ FreeSlot(r)
    /\ Broken(r)
    /\ UNCHANGED <<turn, round, attempt, content, cancelled, tokens, sent,
                   turns, late, retries>>

\* The model asks for tools; outside the tool loop nobody looks at that.  A
\* request whose context was done from the start has no answer.
ToolCalls(r) ==
    /\ pc[r] = "http"
    /\ late[r] = 0
    /\ turn[r] = "tool"
    /\ FreeSlot(r)
    /\ Goto(r, "tools")
    /\ UNCHANGED <<turn, round, attempt, content, result, cancelled, tokens,
                   counters>>

\* The answers that the checks of r's blueprint tell apart: nobody looks at
\* text, and without a schema one object is as good as another.
Answers(r) ==
    {"prose"} \cup (IF Format[r] = "json" THEN {"valid"} ELSE {})
              \cup (IF HasSchema[r] THEN {"object"} ELSE {})

Answer(r) ==
    /\ pc[r] = "http"
    /\ late[r] = 0
    /\ \E c \in Answers(r) : content' = [content EXCEPT ![r] = c]
    /\ FreeSlot(r)
    /\ Goto(r, "check")
    /\ UNCHANGED <<turn, round, attempt, result, cancelled, tokens, counters>>
-----------------------------------------------------------------------------
(***************************************************************************)
(* The tool loop and the checks of the answer.                             *)
(***************************************************************************)
\* Mutant: one round too many.
NextRoundLate(r) ==
    /\ pc[r] = "tools"
    /\ round[r] <= maxToolRounds
    /\ round' = [round EXCEPT ![r] = @ + 1]
    /\ Goto(r, "rate")
    /\ UNCHANGED <<turn, attempt, content, result, cancelled, limits, counters>>

\* The tools have run (an error of theirs is text for the model), and there
\* is a round left.
NextRound(r) ==
    /\ pc[r] = "tools"
    /\ round[r] < maxToolRounds
    /\ round' = [round EXCEPT ![r] = @ + 1]
    /\ Goto(r, "rate")
    /\ UNCHANGED <<turn, attempt, content, result, cancelled, limits, counters>>

RoundsExceeded(r) ==
    /\ pc[r] = "tools"
    /\ round[r] >= maxToolRounds
    /\ End(r, "error")
    /\ UNCHANGED <<turn, round, attempt, content, cancelled, limits, counters>>

\* validateJSONObject and Schema.Validate, each of the answer without a fence.
JSONObject(c) == c \in {"object", "valid"}
Matches(c) == c = "valid"

\* The checks of the first answer pass.
Accept(r) ==
    /\ pc[r] = "check"
    /\ turn[r] # "repair"
    /\ Format[r] = "json" => JSONObject(content[r])
    /\ HasSchema[r] => Matches(content[r])
    /\ End(r, "ok")
    /\ UNCHANGED <<turn, round, attempt, content, cancelled, limits, counters>>

\* "returned invalid JSON": fails without a repair.
InvalidJSON(r) ==
    /\ pc[r] = "check"
    /\ turn[r] # "repair"
    /\ Format[r] = "json" /\ ~JSONObject(content[r])
    /\ End(r, "error")
    /\ UNCHANGED <<turn, round, attempt, content, cancelled, limits, counters>>

RepairSchema(r) ==
    /\ pc[r] = "check"
    /\ turn[r] # "repair"
    /\ HasSchema[r] /\ JSONObject(content[r]) /\ ~Matches(content[r])
    /\ turn' = [turn EXCEPT ![r] = "repair"]
    /\ Goto(r, "rate")
    /\ UNCHANGED <<round, attempt, content, result, cancelled, limits, counters>>

\* repairSchema checks the corrected answer itself.
AcceptRepaired(r) ==
    /\ pc[r] = "check"
    /\ turn[r] = "repair"
    /\ JSONObject(content[r]) /\ Matches(content[r])
    /\ End(r, "ok")
    /\ UNCHANGED <<turn, round, attempt, content, cancelled, limits, counters>>

\* The corrected answer is no better.
RepairFails(r) ==
    /\ pc[r] = "check"
    /\ turn[r] = "repair"
    /\ ~JSONObject(content[r]) \/ ~Matches(content[r])
    /\ End(r, "schema")
    /\ schemaFailures' = schemaFailures + 1
    /\ UNCHANGED <<turn, round, attempt, content, cancelled, limits, sent,
                   turns, late, retries>>
-----------------------------------------------------------------------------
\* The blueprint's timeout expires, or the pipeline of r is cancelled.
Cancel(r) ==
    /\ HasTimeout[r] \/ InPipeline[r]
    /\ ~cancelled[r]
    /\ pc[r] # "done"
    /\ cancelled' = [cancelled EXCEPT ![r] = TRUE]
    /\ UNCHANGED <<pc, turn, round, attempt, content, result, limits, counters>>

\* Time passes: the bucket gets a token, up to its capacity.
Refill(b) ==
    /\ tokens[b] < b[3]
    /\ tokens' = [tokens EXCEPT ![b] = @ + 1]
    /\ UNCHANGED <<pc, turn, round, attempt, content, result, cancelled, sem,
                   counters>>

Init ==
    /\ pc = [r \in Runs |-> "start"]
    /\ turn = [r \in Runs |-> "plain"]
    /\ round = [r \in Runs |-> 0]
    /\ attempt = [r \in Runs |-> 0]
    /\ content = [r \in Runs |-> "none"]
    /\ result = [r \in Runs |-> "none"]
    /\ cancelled = [r \in Runs |-> FALSE]
    /\ sem = [k \in SemKeys |-> {}]
    /\ tokens = [b \in Buckets |-> b[3]]
    /\ sent = [r \in Runs |-> 0]
    /\ turns = [r \in Runs |-> 0]
    /\ late = [r \in Runs |-> 0]
    /\ retries = 0
    /\ schemaFailures = 0

Step(r) ==
    \/ Reject(r) \/ Begin(r) \/ RateToken(r) \/ RateFails(r) \/ Acquire(r)
    \/ SlotCancelled(r) \/ AttemptFails(r) \/ CallFails(r) \/ Retry(r)
    \/ BackoffCancelled(r) \/ ToolCalls(r) \/ Answer(r) \/ NextRound(r)
    \/ RoundsExceeded(r) \/ Accept(r) \/ InvalidJSON(r) \/ RepairSchema(r)
    \/ AcceptRepaired(r) \/ RepairFails(r)

Next ==
    \/ \E r \in Runs : Step(r) \/ Cancel(r)
    \/ \E b \in Buckets : Refill(b)

Spec == Init /\ [][Next]_vars

\* Every goroutine is scheduled, a request ends (the HTTP client has a
\* timeout), a sleep ends, and buckets refill.
FairSpec ==
    /\ Spec
    /\ \A r \in Runs : WF_vars(Step(r))
    /\ \A b \in Buckets : WF_vars(Refill(b))
-----------------------------------------------------------------------------
(***************************************************************************)
(* Properties                                                              *)
(***************************************************************************)
\* Every variable has its type; no turn makes more than MaxAttempts attempts.
TypeOK ==
    /\ pc \in [Runs -> PC]
    /\ turn \in [Runs -> {"plain", "tool", "repair"}]
    /\ round \in [Runs -> Nat]
    /\ attempt \in [Runs -> 0..MaxAttempts]
    /\ content \in [Runs -> Content]
    /\ result \in [Runs -> Result]
    /\ cancelled \in [Runs -> BOOLEAN]
    /\ sem \in [SemKeys -> SUBSET Runs]
    /\ tokens \in [Buckets -> Nat]
    /\ sent \in [Runs -> Nat]
    /\ turns \in [Runs -> Nat]
    /\ late \in [Runs -> Nat]
    /\ retries \in Nat
    /\ schemaFailures \in Nat

\* A run holds a slot exactly while it makes a request or sleeps before the
\* next attempt, and only of its own semaphore: however a call ends, Complete
\* gives the slot back.
SlotsHeld ==
    \A r \in Runs : \A k \in SemKeys :
        r \in sem[k] <=> k = SemKey(r) /\ pc[r] \in {"http", "backoff"}

\* The requests that are at a backend.
InFlight(h) == {r \in Runs : Backend(r) = h /\ pc[r] = "http"}

\* The blueprints of a key agree on the limit n; 0 if there are none.
Agreed(e, n) == \A r \in Runs : EndpointKey(r) = e => Concurrency(r) = n
Sizes == {0} \cup {Concurrency(r) : r \in Runs}

\* Where the blueprints of a key agree on its limit, the limiter bounds what a
\* backend sees, retries included: by the limit of its host, plus the limit of
\* the key "default" if blank base URLs lead to it.  Two keys, hence two
\* semaphores, is what endpointKey makes of one backend.
BackendBound ==
    \A h \in Hosts : \A m, n \in Sizes :
        Agreed(h, m) /\ Agreed("default", n) =>
            Cardinality(InFlight(h)) <= m + IF HostPort[DefaultURL] = h THEN n ELSE 0

\* The turns a run may take: the rounds of the tool loop, one repair.
MaxTurns(r) ==
    (IF UsesTools[r] THEN maxToolRounds ELSE 1) + (IF HasSchema[r] THEN 1 ELSE 0)

\* The work of a run is bounded however the model answers and the backend
\* fails: MaxAttempts requests in each of its turns.
CallsBounded ==
    \A r \in Runs : sent[r] <= MaxAttempts * MaxTurns(r)

\* Once its context is done (a timeout, or another step of the pipeline
\* failed), a run begins at most one more request, whatever it was waiting for
\* and however many attempts and rounds it had left, and it does not succeed
\* through that one.
CancelStops ==
    \A r \in Runs : late[r] <= 1 /\ (late[r] = 1 => result[r] # "ok")

-----------------------------------------------------------------------------
(***************************************************************************)
(* Why the bounds hold.                                                    *)
(***************************************************************************)
\* No semaphore holds more than its size.
SemBound == \A k \in SemKeys : Cardinality(sem[k]) <= k[2]

\* Which turns a run takes, and how many it has taken.
TurnsCounted ==
    \A r \in Runs :
        /\ turn[r] = "tool" => UsesTools[r]
        /\ turn[r] = "repair" => HasSchema[r]
        /\ pc[r] = "start" => turn[r] = "plain" /\ round[r] = 0 /\ turns[r] = 0
        /\ pc[r] = "tools" => turn[r] = "tool"
        /\ round[r] <= IF UsesTools[r] THEN maxToolRounds ELSE 1
        /\ pc[r] \in {"rate", "slot"} =>
               turns[r] + 1 = round[r] + (IF turn[r] = "repair" THEN 1 ELSE 0)
        /\ turns[r] <= round[r] + (IF turn[r] = "repair" THEN 1 ELSE 0)
        /\ pc[r] \in {"http", "backoff", "tools", "check"} /\ turn[r] # "repair" =>
               turns[r] = round[r]

\* A run that is not in a turn has made at most MaxAttempts requests in each
\* turn before; in a turn, as many more as there have been attempts.
RequestsCounted ==
    \A r \in Runs :
        IF pc[r] \in {"http", "backoff"}
        THEN /\ turns[r] > 0
             /\ sent[r] <= MaxAttempts * (turns[r] - 1) + attempt[r]
             /\ pc[r] = "backoff" => attempt[r] < MaxAttempts
        ELSE sent[r] <= MaxAttempts * turns[r]

\* A run with a late request is still in it, or failed.
LateLast ==
    \A r \in Runs :
        /\ late[r] <= 1
        /\ late[r] = 1 => pc[r] \in {"http", "backoff", "done"}
        /\ result[r] # "none" => pc[r] = "done"
        /\ late[r] = 1 => result[r] # "ok"

\* The inductive invariant of agent runs.
AgentInv == TypeOK /\ SlotsHeld /\ SemBound /\ TurnsCounted /\ RequestsCounted /\ LateLast
-----------------------------------------------------------------------------
\* Every run ends, so a worker that executes a job gets back to its queue.
RunEnds == \A r \in Runs : <>(pc[r] = "done")
=============================================================================
