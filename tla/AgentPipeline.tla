---------------------------- MODULE AgentPipeline ----------------------------
(***************************************************************************)
(* One execution of a pipeline: the ResearchAgent and AnalystAgent graphs, *)
(* the packs that sequence them, the retry loop around every LLM call, the *)
(* CostTracker that enforces the run's budget, and the way an exception    *)
(* travels from an agent through its pack to an HTTP status or to the last *)
(* frame of an event stream.                                               *)
(*                                                                         *)
(* A pipeline runs in one thread, so its steps are sequential; what varies *)
(* is what the provider answers, what calls cost and what the findings are *)
(* worth.  Prompts, findings and reports are abstracted to whether there   *)
(* are any and whether they pass validation; the reply of a structured     *)
(* pack to what its parser, guard, schema and cross-check tell apart.      *)
(***************************************************************************)
EXTENDS Integers, Sequences

CONSTANTS
    Pipelines,      \* the pipelines considered, see AllPipelines
    Policies,       \* the PackPolicy records of structured packs considered
    Models,         \* how the configured model is priced, see AllModels
    Budget,         \* budget of the run in cents, or NoBudget
    NoBudget,
    Estimates,      \* worst-case estimates of a call before it is made
    Costs,          \* costs of a call by its actual token usage
    MaxIterations,  \* settings.max_research_iterations
    StepCaps,       \* the settings of max_step_count considered
    MaxAttempts     \* max_retries + 1 of _invoke_llm_with_retry

\* "research": POST /research, a ResearchAgent without a pack; "run": POST /run
\* and /run/stream, that is research_analysis without the routes of packs;
\* "structured": a StructuredLLMPack, which makes LLM calls of its own, like the
\* summariser.
AllPipelines ==
    {"research", "run", "research_analysis", "research_only", "analysis_only",
     "structured", "summariser"}
\* regulated: the pack is one of REGULATED_PACK_IDS; review:
\* human_review_required; failClosed, crossCheck: flags among its extensions.
AllPolicies == [{"regulated", "review", "failClosed", "crossCheck"} -> BOOLEAN]
NoPolicy == [flag \in {"regulated", "review", "failClosed", "crossCheck"} |-> FALSE]
\* "known": named at the start of a call, and priced; "unpriced": no price,
\* counted as 0 in development; "strict": no price, an error in production;
\* "unnamed", "unnamed_strict": priced, or not and in production, and named by
\* the response only; "nameless": not even the response names it.
AllModels == {"known", "unpriced", "strict", "unnamed", "unnamed_strict", "nameless"}

ASSUME PipelineAssumption ==
    /\ Pipelines \subseteq AllPipelines /\ Models \subseteq AllModels
    /\ Policies \subseteq AllPolicies /\ Policies # {}
ASSUME CostAssumption ==
    /\ Budget \in Nat \cup {NoBudget}
    /\ NoBudget \notin Nat
    /\ Estimates \subseteq Nat /\ Costs \subseteq Nat
    /\ Estimates # {} /\ Costs # {}
ASSUME LimitAssumption ==
    /\ MaxIterations \in Nat \ {0}
    /\ StepCaps \subseteq Nat \ {0}
    /\ MaxAttempts \in Nat \ {0}

VARIABLES
    pipeline,    \* what is executed
    streamed,    \* TRUE for the streaming twin of the endpoint
    policy,      \* PolicyRegistry.get of the pack
    model,       \* how its model is priced
    cap,         \* settings.max_step_count
    node,        \* the graph node to run, or "end"
    steps,       \* step_count of the running agent's state
    iterations,  \* research iterations done
    output,      \* what a structured pack made of the reply, see Replies
    verdict,     \* what the cross-check said of it, see Verdicts
    findings,    \* TRUE when the research context holds a finding
    call,        \* state of the node's LLM call, see CallStates
    attempt,     \* attempts made for it
    total,       \* CostTracker.total_cost_usd
    billed,      \* what the provider charged, tracked or not
    error,       \* the exception raised by a node, or "none"
    frames,      \* what an event stream has sent, tokens left out, see Frames
    answer       \* HTTP status, 0 before it; that of a stream when it is closed

fixed == <<pipeline, streamed, policy, model, cap>>
result == <<output, verdict>>
vars == <<fixed, result, node, steps, iterations, findings, call, attempt,
          total, billed, error, frames, answer>>

ResearchNodes == {"research", "validate", "summarize"}
AnalystNodes == {"analyze", "synthesize", "report"}
AgentNodes == ResearchNodes \cup AnalystNodes
PackNodes == {"structured", "cross_check", "summariser"}
Nodes == AgentNodes \cup PackNodes \cup {"end"}
CallStates == {"idle", "ready", "calling", "returned"}
\* "auth" is AgentAuthenticationError; "provider_auth" and "connector_auth" are
\* exceptions of the LLM's SDK and of httpx that carry a status 401 or 403.
ConnectorErrors == {"connector", "connector_auth"}
Errors == {"none", "timeout", "budget", "auth", "provider_auth", "execution", "other"}
          \cup ConnectorErrors
\* "started", "completed": of a phase; "result": pipeline_completed; "done":
\* the last frame of /run/stream; "error_auth": an error that names the
\* rejected credential; "timed_out": asyncio.timeout.
Ends == {"done", "error", "error_auth", "timed_out"}
Frames == {"status", "started", "completed", "result"} \cup Ends
\* 499: the client of a stream has left.
Statuses == {0, 200, 402, 499, 500, 502, 504}

\* A reply: the JSON in it, how much is wrong with it for output_schema, what
\* the integrity patterns match before the JSON and in its fields ("notice" is
\* the one pattern that never fails a run), and whether it has the disclaimer.
Replies ==
    [json : {"object", "array", "array_of_scalars", "scalar", "none", "oversized"},
     conforms : {"strictly", "by_coercion", "no"},
     prefix : SUBSET {"critical", "notice"},
     fields : SUBSET {"critical", "notice"},
     disclaimer : BOOLEAN]
NoOutput == [json |-> "none", conforms |-> "no", prefix |-> {}, fields |-> {},
             disclaimer |-> FALSE]
Verdicts == {"none", "passed", "failed", "invalid"}

TypeOK ==
    /\ pipeline \in Pipelines /\ streamed \in BOOLEAN
    /\ policy \in Policies \cup {NoPolicy}
    /\ model \in Models /\ cap \in StepCaps
    /\ output \in Replies /\ verdict \in Verdicts
    /\ node \in Nodes
    /\ steps \in 0..cap /\ iterations \in 0..MaxIterations
    /\ findings \in BOOLEAN
    /\ call \in CallStates /\ attempt \in 0..MaxAttempts
    /\ total \in Nat /\ billed \in Nat
    /\ error \in Errors /\ frames \in Seq(Frames) /\ answer \in Statuses

Entry(p) ==
    CASE p \in {"research", "run", "research_analysis", "research_only"} -> "research"
      [] p = "analysis_only" -> "analyze"
      [] OTHER -> p

\* A stream has announced its first phase before anything can go wrong.
Opening ==
    IF ~streamed THEN <<>>
    ELSE IF pipeline = "run" THEN <<"status", "started">> ELSE <<"started">>

Init ==
    /\ pipeline \in Pipelines
    /\ streamed \in BOOLEAN /\ (pipeline = "research" => ~streamed)
    /\ policy \in IF pipeline = "structured" THEN Policies ELSE {NoPolicy}
    /\ model \in Models /\ cap \in StepCaps
    /\ node = Entry(pipeline)
    /\ steps = 0 /\ iterations = 0 /\ findings = FALSE
    /\ output = NoOutput /\ verdict = "none"
    /\ call = "idle" /\ attempt = 0
    /\ total = 0 /\ billed = 0
    /\ error = "none" /\ frames = Opening /\ answer = 0

\* Closing a stream does not stop the thread that works for it.
Working == error = "none" /\ node # "end" /\ (answer = 0 \/ streamed)
\* A CostTracker is attached to the LLM of agents only.
Tracked == Budget # NoBudget /\ pipeline \notin PackNodes
-----------------------------------------------------------------------------
(* Plausible bugs, used to show that the properties are sensitive to them.  *)

\* The pre-call guard looks at what was spent, not at what the call may cost.
FitsBudgetBySpent(e) == total <= Budget

\* The exception of on_llm_end is logged, not raised.
AfterCallUnchecked(sum) == "none"

\* The thread of a closed stream still has its events sent.
EmitToTheEnd(events) == frames' = IF streamed THEN frames \o events ELSE frames

\* Only a verdict that says so rejects the output.
InvalidVerdictPasses(v) == IF v = "failed" THEN "other" ELSE "none"

\* The packs keep every error of an agent in their state.
PackSwallowsAll(e) == "execution"

\* A retry starts counting again.
AttemptsForgotten == 1

\* The step counter is checked against one step less.
StepsLeftOffByOne == steps + 1 < cap
-----------------------------------------------------------------------------
(* Nodes.                                                                   *)

\* _increment_step.
StepsLeft == steps < cap

\* _route_after_validate.
Route(ok) == IF ~ok /\ iterations < MaxIterations THEN "research" ELSE "summarize"

\* A node starts: it counts a step and makes its LLM call.
EnterNode ==
    /\ Working /\ call = "idle"
    /\ node \in AgentNodes /\ StepsLeft
    /\ node = "validate" => findings
    /\ steps' = steps + 1
    /\ call' = "ready" /\ attempt' = 0
    /\ UNCHANGED <<fixed, node, iterations, findings, result, total, billed,
                   error, frames, answer>>

\* _node_validate without findings: insufficient, and no call is made.
ValidateNothing ==
    /\ Working /\ call = "idle"
    /\ node = "validate" /\ ~findings /\ StepsLeft
    /\ steps' = steps + 1
    /\ node' = Route(FALSE)
    /\ UNCHANGED <<fixed, iterations, findings, result, call, attempt, total,
                   billed, error, frames, answer>>

\* AgentTimeoutError.
StepCapReached ==
    /\ Working /\ call = "idle"
    /\ node \in AgentNodes /\ ~StepsLeft
    /\ error' = "timeout"
    /\ UNCHANGED <<fixed, node, steps, iterations, findings, result, call,
                   attempt, total, billed, frames, answer>>

\* _run_node of a structured pack, its cross-check, and _summarise_node.
EnterPackNode ==
    /\ Working /\ call = "idle"
    /\ node \in PackNodes
    /\ call' = "ready" /\ attempt' = 0
    /\ UNCHANGED <<fixed, node, steps, iterations, findings, result, total,
                   billed, error, frames, answer>>
-----------------------------------------------------------------------------
(* _invoke_llm_with_retry and the CostTracker callbacks.                    *)

\* _enforce_pre_call_budget.
FitsBudget(e) == total + e <= Budget

NextAttempt == attempt + 1

\* on_chat_model_start lets the call through.
StartCall ==
    /\ Working /\ call = "ready"
    /\ Tracked => \/ model \in {"unpriced", "unnamed", "unnamed_strict", "nameless"}
                  \/ model = "known" /\ \E e \in Estimates : FitsBudget(e)
    /\ call' = "calling"
    /\ attempt' = NextAttempt
    /\ UNCHANGED <<fixed, node, steps, iterations, findings, result, total,
                   billed, error, frames, answer>>

\* It raises BudgetExceededError, or UnknownModelPricingError, which the agent
\* reports as the same error.
CallRejected ==
    /\ Working /\ call = "ready"
    /\ Tracked
    /\ \/ model = "strict"
       \/ model = "known" /\ \E e \in Estimates : ~FitsBudget(e)
    /\ error' = "budget"
    /\ UNCHANGED <<fixed, node, steps, iterations, findings, result, call,
                   attempt, total, billed, frames, answer>>

\* compute_call_cost, added to total_cost_usd: a model without a price, or a
\* response without a model, costs nothing, the latter in production as well.
AddCost(c) == IF Tracked /\ model \in {"known", "unnamed"} THEN total + c ELSE total

\* on_llm_end raises when the price is missing or the sum is over the budget.
AfterCall(sum) ==
    IF model = "unnamed_strict" \/ sum > Budget THEN "budget" ELSE "none"

\* The provider answers; on_llm_end adds the actual cost.
CallReturned ==
    /\ Working /\ call = "calling"
    /\ call' = "returned"
    /\ \E c \in Costs : billed' = billed + c /\ total' = AddCost(c)
    /\ error' = IF Tracked THEN AfterCall(total') ELSE "none"
    /\ UNCHANGED <<fixed, node, steps, iterations, findings, result, attempt,
                   frames, answer>>

\* Only agents retry; a pack that calls the LLM itself lets the exception through.
MayRetry == node \in AgentNodes /\ attempt < MaxAttempts

\* A transient error: another attempt after the backoff, or give up.
CallTransient ==
    /\ Working /\ call = "calling"
    /\ IF MayRetry
       THEN call' = "ready" /\ UNCHANGED error
       ELSE error' = "execution" /\ UNCHANGED call
    /\ UNCHANGED <<fixed, node, steps, iterations, findings, result, attempt,
                   total, billed, frames, answer>>

\* A rejected credential becomes an AgentAuthenticationError, except in the
\* cross-check, which lets the provider's exception through.
AuthError == IF node = "cross_check" THEN "provider_auth" ELSE "auth"

\* A rejected credential, or any other error: no retry.
CallFatal ==
    /\ Working /\ call = "calling"
    /\ error' \in {AuthError, "execution"}
    /\ UNCHANGED <<fixed, node, steps, iterations, findings, result, call,
                   attempt, total, billed, frames, answer>>
-----------------------------------------------------------------------------
(* After the call.                                                          *)

\* _node_research: search and connector may or may not add findings.
FinishResearch ==
    /\ Working /\ call = "returned"
    /\ node = "research"
    /\ findings' \in {findings, TRUE}
    /\ iterations' = iterations + 1
    /\ node' = "validate" /\ call' = "idle"
    /\ UNCHANGED <<fixed, steps, result, attempt, total, billed, error, frames,
                   answer>>

FinishValidate ==
    /\ Working /\ call = "returned"
    /\ node = "validate"
    /\ \E ok \in BOOLEAN : node' = Route(ok)
    /\ call' = "idle"
    /\ UNCHANGED <<fixed, steps, iterations, findings, result, attempt, total,
                   billed, error, frames, answer>>

\* An open stream passes the events of the pack on.
Emit(events) ==
    frames' = IF streamed /\ answer = 0 THEN frames \o events ELSE frames

\* _route_after_research: research_analysis goes on with the analyst, unless its
\* graph was cancelled with the stream.
AfterResearch ==
    IF pipeline \in {"run", "research_analysis"} /\ answer = 0 THEN "analyze" ELSE "end"

\* The research graph ends; the state of the analyst starts with a step count
\* of its own.
FinishSummarize ==
    /\ Working /\ call = "returned"
    /\ node = "summarize"
    /\ node' = AfterResearch
    /\ Emit(IF node' = "end" THEN <<"completed">> ELSE <<"completed", "started">>)
    /\ steps' = 0 /\ call' = "idle"
    /\ UNCHANGED <<fixed, iterations, findings, result, attempt, total, billed,
                   error, answer>>

NextNode ==
    CASE node = "analyze" -> "synthesize"
      [] node = "synthesize" -> "report"
      [] OTHER -> "end"

FinishNode ==
    /\ Working /\ call = "returned"
    /\ node \in AnalystNodes \cup {"summariser"}
    /\ node' = NextNode /\ call' = "idle"
    /\ Emit(IF node' = "end" THEN <<"completed">> ELSE <<>>)
    /\ UNCHANGED <<fixed, steps, iterations, findings, result, attempt, total,
                   billed, error, answer>>

\* The search tool raises, the bullets of a summary do not validate ...
NodeRaises ==
    /\ Working /\ call = "returned"
    /\ node \in {"research", "summariser"}
    /\ error' = "other"
    /\ UNCHANGED <<fixed, node, steps, iterations, findings, result, call,
                   attempt, total, billed, frames, answer>>

\* ... or the connector raises after the research of research_analysis.
ConnectorRaises ==
    /\ Working /\ call = "returned"
    /\ node = "summarize" /\ pipeline \in {"run", "research_analysis"}
    /\ error' \in ConnectorErrors
    /\ UNCHANGED <<fixed, node, steps, iterations, findings, result, call,
                   attempt, total, billed, frames, answer>>
-----------------------------------------------------------------------------
(* parse_llm_output of a structured pack.                                   *)

\* An object, or an array with an object in it, of bounded size.
extract_json_object(r) == r.json \in {"object", "array"}

\* The prose before the JSON and every string in it are scanned.
guard_llm_output(r) ==
    policy.regulated /\ policy.failClosed => "critical" \notin r.prefix \cup r.fields

\* The disclaimer is written over whatever the model put there.
apply_compliance_output(r) ==
    IF policy.review THEN [r EXCEPT !.disclaimer = TRUE] ELSE r

\* model_validate, strict for regulated packs.
Validates(r) ==
    \/ r.conforms = "strictly"
    \/ r.conforms = "by_coercion" /\ ~policy.regulated

ParsedOutput(r) == extract_json_object(r) /\ guard_llm_output(r) /\ Validates(r)

CrossChecked == policy.regulated /\ policy.crossCheck

ParseReply ==
    /\ Working /\ call = "returned"
    /\ node = "structured"
    /\ \E r \in Replies :
         /\ ParsedOutput(r)
         /\ output' = apply_compliance_output(r)
    /\ node' = IF CrossChecked THEN "cross_check" ELSE "end"
    /\ Emit(IF CrossChecked THEN <<>> ELSE <<"completed">>)
    /\ call' = "idle"
    /\ UNCHANGED <<fixed, steps, iterations, findings, verdict, attempt, total,
                   billed, error, answer>>

ReplyRejected ==
    /\ Working /\ call = "returned"
    /\ node = "structured"
    /\ \E r \in Replies : ~ParsedOutput(r)
    /\ error' = "other"
    /\ UNCHANGED <<fixed, node, steps, iterations, findings, result, call,
                   attempt, total, billed, frames, answer>>

\* A verdict that is not JSON of the expected schema rejects the output too.
VerdictError(v) == IF v = "passed" THEN "none" ELSE "other"

FinishCrossCheck ==
    /\ Working /\ call = "returned"
    /\ node = "cross_check"
    /\ verdict' \in {"passed", "failed", "invalid"}
    /\ error' = VerdictError(verdict')
    /\ Emit(IF error' = "none" THEN <<"completed">> ELSE <<>>)
    /\ node' = "end" /\ call' = "idle"
    /\ UNCHANGED <<fixed, steps, iterations, findings, output, attempt, total,
                   billed, answer>>
-----------------------------------------------------------------------------
(* From exception to HTTP status.                                           *)

\* _execute of an agent passes AgentExecutionError (authentication included)
\* and AgentBudgetExceededError on, and wraps everything else.
FromAgent(e) == IF e \in {"budget", "auth", "execution"} THEN e ELSE "execution"

\* The exception that the node of a pack sees.
Thrown ==
    IF node \in AgentNodes /\ error \notin ConnectorErrors
    THEN FromAgent(error) ELSE error

\* A pack passes authentication errors on.  The errors its node keeps in the
\* state of the graph become an AgentExecutionError of run() without a cause;
\* any other exception is wrapped in one, as its cause.
Rethrown(e, kept) ==
    CASE e = "auth" -> e
      [] e \in {"provider_auth", "connector_auth"} \ kept -> "execution_by_auth"
      [] OTHER -> "execution"
AgentErrors == {"budget", "execution", "timeout"}

ResearchAnalysisPack(e) == Rethrown(e, AgentErrors)
ResearchOnlyPack(e) == Rethrown(e, AgentErrors)
AnalysisOnlyPack(e) == Rethrown(e, AgentErrors)
SummariserPack(e) == Rethrown(e, AgentErrors)
StructuredLLMPack(e) == Rethrown(e, AgentErrors \cup {"other"})

FromPack(e) ==
    CASE pipeline \in {"run", "research_analysis"} -> ResearchAnalysisPack(e)
      [] pipeline = "research_only" -> ResearchOnlyPack(e)
      [] pipeline = "analysis_only" -> AnalysisOnlyPack(e)
      [] pipeline = "summariser" -> SummariserPack(e)
      [] OTHER -> StructuredLLMPack(e)

\* A rejected credential somewhere behind the error.
find_auth_cause(e) == e = "execution_by_auth"

\* The except clauses of run_pipeline and run_research.
run_pipeline(e) ==
    CASE e = "budget" -> 402
      [] e = "timeout" -> 504
      [] e = "auth" -> 502
      [] OTHER -> 500

run_research(e) == run_pipeline(e)

\* run_pack also looks behind the error.
run_pack(e) == IF find_auth_cause(e) THEN 502 ELSE run_pipeline(e)

Respond ==
    /\ answer = 0 /\ ~streamed
    /\ error # "none" \/ node = "end"
    /\ answer' = CASE error = "none" -> 200
                   [] error # "none" /\ pipeline = "research" -> run_research(Thrown)
                   [] error # "none" /\ pipeline = "run" -> run_pipeline(FromPack(Thrown))
                   [] OTHER -> run_pack(FromPack(Thrown))
    /\ UNCHANGED <<fixed, node, steps, iterations, findings, result, call,
                   attempt, total, billed, error, frames>>
-----------------------------------------------------------------------------
(* From exception to the last frame of a stream.                            *)

\* The packs with agents iterate the events of their graph themselves: an error
\* kept in its state ends the phase, and is noticed by the missing result; any
\* other exception reaches the handler as it is.
Unfinished(e) ==
    IF e \in AgentErrors THEN [events |-> <<"completed">>, raised |-> "execution"]
    ELSE [events |-> <<>>, raised |-> e]
ResearchAnalysisStream(e) == Unfinished(e)
ResearchOnlyStream(e) == Unfinished(e)
AnalysisOnlyStream(e) == Unfinished(e)
\* The others stream around run_from_input.
StructuredLLMStream(e) == [events |-> <<>>, raised |-> StructuredLLMPack(e)]
SummariserStream(e) == [events |-> <<>>, raised |-> SummariserPack(e)]

FromStream(e) ==
    CASE pipeline \in {"run", "research_analysis"} -> ResearchAnalysisStream(e)
      [] pipeline = "research_only" -> ResearchOnlyStream(e)
      [] pipeline = "analysis_only" -> AnalysisOnlyStream(e)
      [] pipeline = "summariser" -> SummariserStream(e)
      [] OTHER -> StructuredLLMStream(e)

\* The except clauses of _stream_pipeline, and of stream_pack.
ErrorFrame(e) ==
    IF e = "auth" \/ (pipeline # "run" /\ find_auth_cause(e))
    THEN "error_auth" ELSE "error"

StreamFails ==
    /\ answer = 0 /\ streamed /\ error # "none"
    /\ LET failed == FromStream(Thrown)
       IN  frames' = frames \o failed.events \o <<ErrorFrame(failed.raised)>>
    /\ answer' = 200
    /\ UNCHANGED <<fixed, node, steps, iterations, findings, result, call,
                   attempt, total, billed, error>>

Finished == answer = 0 /\ streamed /\ error = "none" /\ node = "end"

\* _event_generator of stream_pack passes the result on, and waits for the
\* review to be created before it ends.
SendResult ==
    /\ Finished /\ pipeline # "run" /\ frames[Len(frames)] # "result"
    /\ frames' = Append(frames, "result")
    /\ UNCHANGED <<fixed, node, steps, iterations, findings, result, call,
                   attempt, total, billed, error, answer>>

EndStream ==
    /\ Finished /\ frames[Len(frames)] = "result"
    /\ answer' = 200
    /\ UNCHANGED <<fixed, node, steps, iterations, findings, result, call,
                   attempt, total, billed, error, frames>>

\* _stream_pipeline saves the run first, and then says so.
SendDone ==
    /\ Finished /\ pipeline = "run"
    /\ frames' = Append(frames, "done")
    /\ answer' = 200
    /\ UNCHANGED <<fixed, node, steps, iterations, findings, result, call,
                   attempt, total, billed, error>>

\* The stream's timeout, and a client that leaves, close the generator where it
\* waits.
StreamTimesOut ==
    /\ answer = 0 /\ streamed
    /\ frames' = Append(frames, "timed_out")
    /\ answer' = 200
    /\ UNCHANGED <<fixed, node, steps, iterations, findings, result, call,
                   attempt, total, billed, error>>

ClientLeaves ==
    /\ answer = 0 /\ streamed
    /\ answer' = 499
    /\ UNCHANGED <<fixed, node, steps, iterations, findings, result, call,
                   attempt, total, billed, error, frames>>

Next ==
    \/ EnterNode \/ ValidateNothing \/ StepCapReached \/ EnterPackNode
    \/ StartCall \/ CallRejected \/ CallReturned \/ CallTransient \/ CallFatal
    \/ FinishResearch \/ FinishValidate \/ FinishSummarize \/ FinishNode
    \/ NodeRaises \/ ConnectorRaises
    \/ ParseReply \/ ReplyRejected \/ FinishCrossCheck
    \/ Respond
    \/ StreamFails \/ SendResult \/ EndStream \/ SendDone
    \/ StreamTimesOut \/ ClientLeaves

Spec == Init /\ [][Next]_vars

\* The thread runs on: provider calls have a timeout, backoff is bounded.
FairSpec == Spec /\ WF_vars(Next)
-----------------------------------------------------------------------------
\* The budget caps what the tracker has added up: by at most what one call
\* costs more than its estimate, or by one call when the model is not named.
SpendCapped ==
    Tracked =>
        \/ total <= Budget
        \/ \E c \in Costs, e \in Estimates : total <= Budget + c - e
        \/ model = "unnamed" /\ \E c \in Costs : total <= Budget + c

\* Once the sum is over the budget, no agent of the run makes another call that
\* the provider charges for.
SpendingStops == [][Tracked /\ total > Budget => billed' = billed]_vars

\* "is never converted into a degraded in-band response": a rejected credential
\* reaches the client as 502, or as the error of its stream, through every agent
\* and pack, and a budget that was exceeded as 402 where no pack is in between.
CausesSurface ==
    answer \notin {0, 499} =>
        /\ error \in {"auth", "provider_auth"} =>
               IF streamed THEN frames[Len(frames)] \in {"error_auth", "timed_out"}
               ELSE answer = 502
        /\ error = "budget" /\ pipeline = "research" => answer = 402

Delivered ==
    IF streamed THEN \E i \in DOMAIN frames : frames[i] = "result" ELSE answer = 200

\* "Fail-closed": a structured pack delivers only an output that passed every
\* check its policy asks for, and with the disclaimer when a human has to
\* review it, whatever the model replied and whatever the reviewing model said.
FailClosed ==
    Delivered /\ pipeline = "structured" =>
        /\ policy.regulated => output.conforms = "strictly"
        /\ policy.regulated /\ policy.failClosed =>
               "critical" \notin output.prefix \cup output.fields
        /\ policy.regulated /\ policy.crossCheck => verdict = "passed"
        /\ policy.review => output.disclaimer

\* What a client of a stream may rely on: a phase that completes has been
\* started, a result comes after the last phase and only from a pipeline that
\* did not fail, every stream that is not left ends with its result or one error
\* frame, and nothing follows the end although the thread may go on.  (Only a
\* timeout may still follow a result, while the review is created.)
StreamProtocol ==
    /\ \A i \in DOMAIN frames :
         /\ frames[i] \in Ends => i = Len(frames)
         /\ frames[i] = "completed" => i > 1 /\ frames[i - 1] = "started"
         /\ frames[i] \in {"result", "done"} =>
                i > 1 /\ frames[i - 1] = "completed" /\ error = "none"
         /\ frames[i] = "result" /\ i < Len(frames) => frames[i + 1] = "timed_out"
    /\ streamed /\ answer = 200 => frames[Len(frames)] \in Ends \cup {"result"}

\* "Maximum number of research iterations before forced completion": when the
\* step cap leaves room for the iterations, research that is never good enough
\* is summarised, not cut off.
IterationsForceCompletion ==
    /\ cap >= 2 * MaxIterations + 1 /\ cap >= 3
    => error # "timeout"

\* Retries are bounded per node and rounds per run, so every pipeline answers.
Answers == <>(answer # 0)
=============================================================================
