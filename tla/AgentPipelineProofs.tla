------------------------ MODULE AgentPipelineProofs ------------------------
(* Proofs about one execution of a pipeline, for every set of pipelines,     *)
(* policies and models, every budget, every range of estimates and costs,    *)
(* and every limit on iterations, steps and attempts.                        *)
EXTENDS AgentPipeline, TLAPS

\* Why the counters stay within their limits: a node is entered and a call is
\* retried only below them.
LimitInv ==
    /\ node = "research" => iterations < MaxIterations
    /\ call = "ready" => attempt < MaxAttempts

\* The steps a thread takes in a node, by what they are about.
Entering == EnterNode \/ ValidateNothing \/ StepCapReached \/ EnterPackNode
Calling == StartCall \/ CallRejected \/ CallReturned \/ CallTransient \/ CallFatal
Finishing ==
    \/ FinishResearch \/ FinishValidate \/ FinishSummarize \/ FinishNode
    \/ ParseReply \/ FinishCrossCheck
Raising == NodeRaises \/ ConnectorRaises \/ ReplyRejected
Answering ==
    \/ Respond \/ StreamFails \/ SendResult \/ EndStream \/ SendDone
    \/ StreamTimesOut \/ ClientLeaves

\* Every step is one of these.
LEMMA NextCases ==
    ASSUME Next PROVE Entering \/ Calling \/ Finishing \/ Raising \/ Answering
    BY DEF Next, Entering, Calling, Finishing, Raising, Answering

\* What a step of each kind needs, and what it leaves alone.
LEMMA ThreadWorks ==
    ASSUME Entering \/ Calling \/ Finishing \/ Raising
    PROVE  Working /\ UNCHANGED <<fixed, answer>>
    BY DEF Entering, EnterNode, ValidateNothing, StepCapReached, EnterPackNode,
           Calling, StartCall, CallRejected, CallReturned, CallTransient, CallFatal,
           Finishing, FinishResearch, FinishValidate, FinishSummarize, FinishNode,
           ParseReply, FinishCrossCheck,
           Raising, NodeRaises, ConnectorRaises, ReplyRejected

\* Answering a request or a stream leaves the pipeline as it is.
LEMMA AnsweringKeeps ==
    ASSUME Answering
    PROVE  /\ answer = 0
           /\ UNCHANGED <<fixed, node, steps, iterations, findings, result, call,
                          attempt, total, billed, error>>
    BY DEF Answering, Respond, StreamFails, Finished, SendResult, EndStream, SendDone,
           StreamTimesOut, ClientLeaves

\* The handlers map an exception to one of five statuses.
LEMMA ErrorStatuses ==
    ASSUME NEW e PROVE run_pack(e) \in Statuses /\ run_pipeline(e) \in Statuses
    BY DEF run_pack, run_pipeline, Statuses

\* Every stream forwards at most one more event, and then an error.
LEMMA StreamErrors ==
    ASSUME NEW e
    PROVE  /\ FromStream(e).events \in {<<>>, <<"completed">>}
           /\ ErrorFrame(FromStream(e).raised) \in {"error", "error_auth"}
    BY DEF FromStream, ErrorFrame, Unfinished, ResearchAnalysisStream, ResearchOnlyStream,
           AnalysisOnlyStream, StructuredLLMStream, SummariserStream

\* The pieces streams are made of.
LEMMA FrameSeqs ==
    /\ <<>> \in Seq(Frames) /\ <<"started">> \in Seq(Frames)
    /\ <<"status", "started">> \in Seq(Frames)
    /\ <<"completed">> \in Seq(Frames) /\ <<"completed", "started">> \in Seq(Frames)
    /\ \A f \in Ends \cup {"result"} : f \in Frames /\ <<f>> \in Seq(Frames)
<1>1. /\ {"status", "started", "completed", "result"} \subseteq Frames
      /\ Ends \cup {"result"} \subseteq Frames
    BY DEF Frames
<1> QED
    BY <1>1

\* Emit adds to an open stream what it is given.
LEMMA EmitType ==
    ASSUME frames \in Seq(Frames), NEW events \in Seq(Frames), Emit(events)
    PROVE  frames' \in Seq(Frames)
    BY DEF Emit

\* The compliance text does not change the type of a reply.
LEMMA ComplianceType ==
    ASSUME NEW r \in Replies PROVE apply_compliance_output(r) \in Replies
    BY DEF apply_compliance_output, Replies

\* The types and limits are preserved.
LEMMA TypeStep ==
    ASSUME TypeOK, LimitInv, [Next]_vars PROVE TypeOK' /\ LimitInv'
<1> USE PipelineAssumption, CostAssumption, LimitAssumption DEF fixed, result
<1>1. CASE Entering
    <2>1. CASE EnterNode
        BY <2>1 DEF EnterNode, StepsLeft, TypeOK, LimitInv, CallStates
    <2>2. CASE ValidateNothing
        BY <2>2 DEF ValidateNothing, StepsLeft, Route, TypeOK, LimitInv, Nodes,
                    AgentNodes, ResearchNodes
    <2>3. CASE StepCapReached
        BY <2>3 DEF StepCapReached, TypeOK, LimitInv, Errors
    <2>4. CASE EnterPackNode
        BY <2>4 DEF EnterPackNode, TypeOK, LimitInv, CallStates
    <2> QED
        BY <1>1, <2>1, <2>2, <2>3, <2>4 DEF Entering
<1>2. CASE Calling
    <2>1. CASE StartCall
        BY <2>1 DEF StartCall, NextAttempt, TypeOK, LimitInv, CallStates
    <2>2. CASE CallRejected
        BY <2>2 DEF CallRejected, TypeOK, LimitInv, Errors
    <2>3. CASE CallReturned
        BY <2>3 DEF CallReturned, AddCost, AfterCall, TypeOK, LimitInv, CallStates, Errors
    <2>4. CASE CallTransient
        BY <2>4 DEF CallTransient, MayRetry, TypeOK, LimitInv, CallStates, Errors
    <2>5. CASE CallFatal
        BY <2>5 DEF CallFatal, AuthError, TypeOK, LimitInv, Errors
    <2> QED
        BY <1>2, <2>1, <2>2, <2>3, <2>4, <2>5 DEF Calling
<1>3. CASE Finishing
    <2>1. CASE FinishResearch
        <3>1. findings' \in BOOLEAN
            BY <2>1 DEF FinishResearch, TypeOK
        <3> QED
            BY <2>1, <3>1 DEF FinishResearch, TypeOK, LimitInv, CallStates, Nodes,
                              AgentNodes, ResearchNodes
    <2>2. CASE FinishValidate
        BY <2>2 DEF FinishValidate, Route, TypeOK, LimitInv, CallStates, Nodes, AgentNodes,
                    ResearchNodes
    <2>3. CASE FinishSummarize
        <3>1. frames' \in Seq(Frames)
            BY FrameSeqs, <2>3, EmitType DEF FinishSummarize, TypeOK
        <3> QED
            BY <2>3, <3>1 DEF FinishSummarize, AfterResearch, TypeOK, LimitInv, CallStates,
                              Nodes, AgentNodes, AnalystNodes
    <2>4. CASE FinishNode
        <3>1. frames' \in Seq(Frames)
            BY FrameSeqs, <2>4, EmitType DEF FinishNode, TypeOK
        <3> QED
            BY <2>4, <3>1 DEF FinishNode, NextNode, TypeOK, LimitInv, CallStates, Nodes,
                              AgentNodes, AnalystNodes
    <2>5. CASE ParseReply
        <3>1. frames' \in Seq(Frames)
            BY FrameSeqs, <2>5, EmitType DEF ParseReply, TypeOK
        <3>2. output' \in Replies
            BY <2>5, ComplianceType DEF ParseReply
        <3> QED
            BY <2>5, <3>1, <3>2 DEF ParseReply, TypeOK, LimitInv, CallStates, Nodes, PackNodes
    <2>6. CASE FinishCrossCheck
        <3>1. frames' \in Seq(Frames)
            BY FrameSeqs, <2>6, EmitType DEF FinishCrossCheck, TypeOK
        <3> QED
            BY <2>6, <3>1 DEF FinishCrossCheck, VerdictError, TypeOK, LimitInv, CallStates,
                              Nodes, Verdicts, Errors
    <2> QED
        BY <1>3, <2>1, <2>2, <2>3, <2>4, <2>5, <2>6 DEF Finishing
<1>4. CASE Raising
    BY <1>4 DEF Raising, NodeRaises, ConnectorRaises, ReplyRejected, TypeOK, LimitInv,
                Errors, ConnectorErrors
<1>5. CASE Answering
    <2>1. TypeOK => frames' \in Seq(Frames) /\ answer' \in Statuses
        <3>1. CASE Respond
            BY <3>1, ErrorStatuses DEF Respond, run_research, TypeOK, Statuses
        <3>2. CASE StreamFails
            <4>1. PICK events \in {<<>>, <<"completed">>}, f \in {"error", "error_auth"} :
                    frames' = frames \o events \o <<f>>
                BY <3>2, StreamErrors DEF StreamFails
            <4>2. <<f>> \in Seq(Frames) /\ events \in Seq(Frames)
                BY FrameSeqs DEF Ends
            <4>3. frames' \in Seq(Frames)
                BY <4>1, <4>2 DEF TypeOK
            <4> QED
                BY <3>2, <4>3 DEF StreamFails, Statuses
        <3>3. CASE SendResult \/ EndStream \/ SendDone \/ StreamTimesOut \/ ClientLeaves
            <4>1. frames' = frames
                  \/ \E f \in {"result", "done", "timed_out"} : frames' = Append(frames, f)
                BY <3>3 DEF SendResult, EndStream, SendDone, StreamTimesOut, ClientLeaves
            <4>2. frames' \in Seq(Frames)
                BY <4>1, FrameSeqs DEF TypeOK, Ends
            <4> QED
                BY <3>3, <4>2 DEF SendResult, EndStream, SendDone, StreamTimesOut,
                                  ClientLeaves, TypeOK, Statuses
        <3> QED
            BY <1>5, <3>1, <3>2, <3>3 DEF Answering
    <2> QED
        BY <1>5, <2>1, AnsweringKeeps DEF TypeOK, LimitInv
<1>6. CASE UNCHANGED vars
    BY <1>6 DEF vars, TypeOK, LimitInv
<1> QED
    BY <1>1, <1>2, <1>3, <1>4, <1>5, <1>6, NextCases

\* The initial states are well typed.
LEMMA TypeInit ==
    ASSUME Init PROVE TypeOK /\ LimitInv
<1> USE PipelineAssumption, CostAssumption, LimitAssumption
<1>1. NoOutput \in Replies
    BY DEF NoOutput, Replies
<1>2. Opening \in Seq(Frames)
    BY FrameSeqs DEF Opening
<1>3. node \in Nodes /\ policy \in Policies \cup {NoPolicy}
    BY DEF Init, Entry, AllPipelines, Nodes, AgentNodes, ResearchNodes, AnalystNodes, PackNodes
<1>4. LimitInv
    BY DEF Init, LimitInv
<1>5. /\ steps \in 0..cap /\ iterations \in 0..MaxIterations /\ attempt \in 0..MaxAttempts
      /\ total \in Nat /\ billed \in Nat
    BY DEF Init
<1> QED
    BY <1>1, <1>2, <1>3, <1>4, <1>5
       DEF Init, TypeOK, CallStates, Errors, Statuses, Verdicts

\* The types and limits hold in every state.
LEMMA TypeInvariant == Spec => [](TypeOK /\ LimitInv)
<1>1. Init => TypeOK /\ LimitInv
    BY TypeInit
<1>2. TypeOK /\ LimitInv /\ [Next]_vars => (TypeOK /\ LimitInv)'
    BY TypeStep
<1> QED
    BY <1>1, <1>2, PTL DEF Spec

\* Steps, attempts and iterations never exceed their settings, and the rest of
\* the state is well typed.
THEOREM TypeCorrect == Spec => []TypeOK
    BY TypeInvariant, PTL
-----------------------------------------------------------------------------
(* Spending.                                                                *)

\* A thread that works is within the budget, and a call of a model that was
\* named is under way only when some estimate of it still fitted.
SpendInv ==
    Tracked =>
        /\ error = "none" => total <= Budget
        /\ error = "none" /\ call = "calling" /\ model = "known" =>
               \E e \in Estimates : total + e <= Budget

\* Nothing but an answered call changes the sums.
LEMMA OnlyCallsCharge ==
    ASSUME [Next]_vars, ~CallReturned PROVE UNCHANGED <<total, billed>>
    BY NextCases, AnsweringKeeps
       DEF Entering, EnterNode, ValidateNothing, StepCapReached, EnterPackNode,
           Calling, StartCall, CallRejected, CallTransient, CallFatal,
           Finishing, FinishResearch, FinishValidate, FinishSummarize, FinishNode,
           ParseReply, FinishCrossCheck,
           Raising, NodeRaises, ConnectorRaises, ReplyRejected, vars

\* Once an error is raised it stays, and a call starts by StartCall only.
LEMMA OtherSteps ==
    ASSUME [Next]_vars, ~CallReturned, ~StartCall
    PROVE  /\ error' = "none" => error = "none"
           /\ call' = "calling" => call = "calling"
<1>1. CASE Entering \/ Calling \/ Finishing \/ Raising
    <2>1. error = "none"
        BY <1>1, ThreadWorks DEF Working
    <2> QED
        BY <1>1, <2>1
           DEF Entering, EnterNode, ValidateNothing, StepCapReached, EnterPackNode,
               Calling, CallRejected, CallTransient, CallFatal,
               Finishing, FinishResearch, FinishValidate, FinishSummarize, FinishNode,
               ParseReply, FinishCrossCheck,
               Raising, NodeRaises, ConnectorRaises, ReplyRejected
<1>2. CASE Answering \/ UNCHANGED vars
    BY <1>2, AnsweringKeeps DEF vars
<1> QED
    BY <1>1, <1>2, NextCases

\* The pipeline, its budget and its model are fixed.
LEMMA FixedStep ==
    ASSUME [Next]_vars PROVE UNCHANGED fixed
    BY NextCases, ThreadWorks, AnsweringKeeps DEF vars

\* The sum stays within the budget while the thread works, and exceeds it by
\* one call at most.
LEMMA SpendStep ==
    ASSUME TypeOK, SpendInv, SpendCapped, [Next]_vars
    PROVE  SpendInv' /\ SpendCapped'
<1> USE CostAssumption
<1> SUFFICES ASSUME Tracked PROVE SpendInv' /\ SpendCapped'
    BY FixedStep DEF SpendInv, SpendCapped, Tracked, fixed
<1>0. Budget \in Nat /\ total \in Nat /\ Tracked' /\ model' = model
    BY FixedStep DEF Tracked, TypeOK, fixed
<1>1. CASE CallReturned
    <2>1. PICK c \in Costs : total' = AddCost(c)
        BY <1>1 DEF CallReturned
    <2>2. error = "none" /\ call = "calling" /\ call' = "returned" /\ error' = AfterCall(total')
        BY <1>1 DEF CallReturned, Working
    <2>3. c \in Nat /\ total' \in Nat /\ total <= Budget
        BY <1>0, <2>1, <2>2 DEF AddCost, SpendInv
    <2>4. SpendInv'
        BY <1>0, <2>2, <2>3 DEF SpendInv, AfterCall
    <2>5. SpendCapped'
        <3>1. CASE model = "known"
            <4>1. PICK e \in Estimates : total + e <= Budget
                BY <2>2, <3>1 DEF SpendInv
            <4>2. total' <= Budget + c - e
                BY <1>0, <2>1, <2>3, <3>1, <4>1 DEF AddCost
            <4> QED
                BY <4>2 DEF SpendCapped
        <3>2. CASE model = "unnamed"
            BY <1>0, <2>1, <2>3, <3>2 DEF AddCost, SpendCapped
        <3>3. CASE model \notin {"known", "unnamed"}
            BY <1>0, <2>1, <2>3, <3>3 DEF AddCost, SpendCapped
        <3> QED
            BY <3>1, <3>2, <3>3
    <2> QED
        BY <2>4, <2>5
<1>2. CASE ~CallReturned
    <2>1. total' = total
        BY <1>2, OnlyCallsCharge
    <2>2. SpendCapped'
        BY <1>0, <2>1 DEF SpendCapped
    <2>3. CASE StartCall
        BY <1>0, <2>1, <2>2, <2>3 DEF StartCall, Working, FitsBudget, SpendInv
    <2>4. CASE ~StartCall
        BY <1>0, <1>2, <2>1, <2>2, <2>4, OtherSteps DEF SpendInv
    <2> QED
        BY <2>3, <2>4
<1> QED
    BY <1>1, <1>2

\* The spending invariant holds in every state.
LEMMA SpendInvariant == Spec => [](TypeOK /\ SpendInv /\ SpendCapped)
<1>1. Init => SpendInv /\ SpendCapped
    BY CostAssumption DEF Init, SpendInv, SpendCapped, Tracked
<1>2. TypeOK /\ SpendInv /\ SpendCapped /\ [Next]_vars => (SpendInv /\ SpendCapped)'
    BY SpendStep
<1> QED
    BY <1>1, <1>2, TypeInvariant, PTL DEF Spec

\* The CostTracker caps a run: the sum exceeds the budget by what one call costs
\* more than its estimate, or by one call of a model only the response names.
THEOREM BudgetHolds == Spec => []SpendCapped
    BY SpendInvariant, PTL

\* After the sum went over the budget the provider charges nothing more.
THEOREM BudgetStops == Spec => SpendingStops
<1>1. TypeOK /\ SpendInv /\ [Next]_vars
        => [Tracked /\ total > Budget => billed' = billed]_vars
    <2> SUFFICES ASSUME TypeOK, SpendInv, [Next]_vars, Tracked, total > Budget
                 PROVE  billed' = billed
        OBVIOUS
    <2>1. error # "none"
        BY CostAssumption DEF SpendInv, Tracked, TypeOK
    <2>2. ~CallReturned
        BY <2>1 DEF CallReturned, Working
    <2> QED
        BY <2>2, OnlyCallsCharge
<1> QED
    BY <1>1, SpendInvariant, PTL DEF Spec, SpendingStops
-----------------------------------------------------------------------------
(* Steps.                                                                   *)

\* The step count of an agent is fixed by the node it is in: two steps per
\* iteration of the research, one per node of the analyst.
StepsBefore ==
    CASE node = "validate" -> 2 * iterations - 1
      [] node \in {"research", "summarize"} -> 2 * iterations
      [] node = "synthesize" -> 1
      [] node = "report" -> 2
      [] OTHER -> 0

StepInv ==
    node \in AgentNodes => steps = StepsBefore + (IF call = "idle" THEN 0 ELSE 1)

\* The steps of a node are counted as it is entered and left.
LEMMA StepCount ==
    ASSUME TypeOK, StepInv, [Next]_vars PROVE StepInv'
<1> USE DEF StepInv, StepsBefore, AgentNodes, ResearchNodes, AnalystNodes
<1>0. iterations \in Nat /\ steps \in Nat
    BY LimitAssumption DEF TypeOK
<1>1. CASE Entering
    BY <1>0, <1>1 DEF Entering, EnterNode, ValidateNothing, StepCapReached, EnterPackNode,
                      Route, PackNodes
<1>2. CASE Calling
    BY <1>0, <1>2 DEF Calling, StartCall, CallRejected, CallReturned, CallTransient, CallFatal
<1>3. CASE Finishing
    <2>1. CASE FinishResearch
        BY <1>0, <2>1 DEF FinishResearch
    <2>2. CASE FinishValidate
        BY <1>0, <2>2 DEF FinishValidate, Route
    <2>3. CASE FinishSummarize
        BY <1>0, <2>3 DEF FinishSummarize, AfterResearch
    <2>4. CASE FinishNode
        BY <1>0, <2>4 DEF FinishNode, NextNode
    <2>5. CASE ParseReply \/ FinishCrossCheck
        BY <1>0, <2>5 DEF ParseReply, FinishCrossCheck
    <2> QED
        BY <1>3, <2>1, <2>2, <2>3, <2>4, <2>5 DEF Finishing
<1>4. CASE Raising
    BY <1>0, <1>4 DEF Raising, NodeRaises, ConnectorRaises, ReplyRejected
<1>5. CASE Answering \/ UNCHANGED vars
    BY <1>0, <1>5, AnsweringKeeps DEF vars
<1> QED
    BY <1>1, <1>2, <1>3, <1>4, <1>5, NextCases

\* Only the step cap raises AgentTimeoutError.
LEMMA TimeoutByCap ==
    ASSUME [Next]_vars, error' = "timeout", error # "timeout" PROVE StepCapReached
<1>1. CASE Entering
    BY <1>1 DEF Entering, EnterNode, ValidateNothing, EnterPackNode
<1>2. CASE Calling
    BY <1>2 DEF Calling, StartCall, CallRejected, CallReturned, AfterCall, CallTransient,
                CallFatal, AuthError
<1>3. CASE Finishing
    BY <1>3 DEF Finishing, FinishResearch, FinishValidate, FinishSummarize, FinishNode,
                ParseReply, FinishCrossCheck, VerdictError
<1>4. CASE Raising
    BY <1>4 DEF Raising, NodeRaises, ConnectorRaises, ConnectorErrors, ReplyRejected
<1>5. CASE Answering \/ UNCHANGED vars
    BY <1>5, AnsweringKeeps DEF vars
<1> QED
    BY <1>1, <1>2, <1>3, <1>4, <1>5, NextCases

\* A cap with room for the iterations is never reached.
LEMMA CapSuffices ==
    ASSUME TypeOK, LimitInv, StepInv, IterationsForceCompletion, [Next]_vars
    PROVE  IterationsForceCompletion'
<1> SUFFICES ASSUME cap >= 2 * MaxIterations + 1, cap >= 3, error' = "timeout"
             PROVE  FALSE
    BY FixedStep DEF IterationsForceCompletion, fixed
<1>1. StepCapReached
    BY TimeoutByCap DEF IterationsForceCompletion
<1>2. node \in AgentNodes /\ call = "idle" /\ steps >= cap
    BY <1>1, LimitAssumption DEF StepCapReached, StepsLeft, TypeOK
<1>3. iterations \in Nat /\ iterations <= MaxIterations /\ MaxIterations \in Nat /\ cap \in Nat
    BY LimitAssumption DEF TypeOK
<1> QED
    BY <1>2, <1>3 DEF StepInv, StepsBefore

\* max_research_iterations forces completion before max_step_count cuts a run
\* off, whenever the latter leaves room for two steps per iteration.
THEOREM CompletionForced == Spec => []IterationsForceCompletion
<1>1. Init => StepInv /\ IterationsForceCompletion
    BY PipelineAssumption
       DEF Init, Entry, AllPipelines, StepInv, StepsBefore, IterationsForceCompletion
<1>2. /\ TypeOK /\ LimitInv
      /\ StepInv /\ IterationsForceCompletion /\ [Next]_vars
      => (StepInv /\ IterationsForceCompletion)'
    BY StepCount, CapSuffices
<1> QED
    BY <1>1, <1>2, TypeInvariant, PTL DEF Spec
-----------------------------------------------------------------------------
(* Outputs of structured packs.                                             *)

\* The nodes of a structured pack belong to it, and no other runs in it; there
\* is no streaming twin of POST /research.
RouteInv ==
    /\ pipeline = "research" => ~streamed
    /\ node \in {"structured", "cross_check"} => pipeline = "structured"
    /\ pipeline = "structured" => node \in {"structured", "cross_check", "end"}
    /\ error = "provider_auth" => pipeline = "structured" /\ node = "cross_check"

\* The output passed the parser, the guard and the schema of its policy.
Checked ==
    /\ policy.regulated => output.conforms = "strictly"
    /\ policy.regulated /\ policy.failClosed =>
           "critical" \notin output.prefix \cup output.fields
    /\ policy.review => output.disclaimer

\* A structured pack is past its first node with a checked output only, and at
\* its end, without an error, only when the cross-check passed too.
OutputInv ==
    pipeline = "structured" =>
        /\ node \in {"cross_check", "end"} => Checked
        /\ node = "end" /\ error = "none" /\ CrossChecked => verdict = "passed"

\* What ParsedOutput and apply_compliance_output establish.
LEMMA ReplyChecked ==
    ASSUME TypeOK, NEW r \in Replies, ParsedOutput(r)
    PROVE  LET o == apply_compliance_output(r) IN
           /\ policy.regulated => o.conforms = "strictly"
           /\ policy.regulated /\ policy.failClosed => "critical" \notin o.prefix \cup o.fields
           /\ policy.review => o.disclaimer
<1> DEFINE o == apply_compliance_output(r)
<1>1. o.conforms = r.conforms /\ o.prefix = r.prefix /\ o.fields = r.fields
    BY DEF apply_compliance_output, Replies
<1>2. policy.review => o.disclaimer
    BY DEF apply_compliance_output, Replies
<1>3. policy.regulated => r.conforms = "strictly"
    BY DEF ParsedOutput, Validates
<1>4. policy.regulated /\ policy.failClosed => "critical" \notin r.prefix \cup r.fields
    BY DEF ParsedOutput, guard_llm_output
<1> QED
    BY <1>1, <1>2, <1>3, <1>4

\* Structured packs keep to their nodes.
LEMMA RouteStep ==
    ASSUME RouteInv, [Next]_vars PROVE RouteInv'
<1>0. UNCHANGED fixed
    BY FixedStep
<1> USE <1>0 DEF RouteInv, fixed
<1>1. CASE Entering
    BY <1>1 DEF Entering, EnterNode, ValidateNothing, StepCapReached, EnterPackNode, Route
<1>2. CASE Calling
    BY <1>2 DEF Calling, StartCall, CallRejected, CallReturned, AfterCall, CallTransient,
                CallFatal, AuthError
<1>3. CASE Finishing
    <2>1. CASE FinishResearch \/ FinishValidate \/ FinishSummarize
        BY <2>1 DEF FinishResearch, FinishValidate, FinishSummarize, Route, AfterResearch
    <2>2. CASE FinishNode
        BY <2>2 DEF FinishNode, NextNode, AnalystNodes
    <2>3. CASE ParseReply \/ FinishCrossCheck
        BY <2>3 DEF ParseReply, FinishCrossCheck, VerdictError, Working
    <2> QED
        BY <1>3, <2>1, <2>2, <2>3 DEF Finishing
<1>4. CASE Raising
    BY <1>4 DEF Raising, NodeRaises, ConnectorRaises, ConnectorErrors, ReplyRejected
<1>5. CASE Answering \/ UNCHANGED vars
    BY <1>5, AnsweringKeeps DEF vars
<1> QED
    BY <1>1, <1>2, <1>3, <1>4, <1>5, NextCases

\* Checked outputs stay checked.
LEMMA OutputStep ==
    ASSUME TypeOK, RouteInv, OutputInv, [Next]_vars PROVE OutputInv'
<1> SUFFICES ASSUME pipeline = "structured" PROVE OutputInv'
    BY FixedStep DEF OutputInv, fixed
<1>0. policy' = policy /\ pipeline' = pipeline
    BY FixedStep DEF fixed
<1>1. CASE ParseReply
    <2>1. PICK r \in Replies : ParsedOutput(r) /\ output' = apply_compliance_output(r)
        BY <1>1 DEF ParseReply
    <2>2. Checked'
        BY <1>0, <2>1, ReplyChecked DEF Checked
    <2>3. node' = "end" => ~CrossChecked'
        BY <1>0, <1>1 DEF ParseReply, CrossChecked
    <2> QED
        BY <2>2, <2>3 DEF OutputInv
<1>2. CASE FinishCrossCheck
    <2>1. /\ node = "cross_check" /\ output' = output
          /\ error' = "none" => verdict' = "passed"
        BY <1>2 DEF FinishCrossCheck, VerdictError
    <2> QED
        BY <1>0, <2>1 DEF OutputInv, Checked
<1>3. CASE ~ParseReply /\ ~FinishCrossCheck
    <2>1. UNCHANGED <<node, output, verdict>> /\ (error' = "none" => error = "none")
        <3>1. CASE Entering
            BY <3>1 DEF Entering, EnterNode, ValidateNothing, StepCapReached,
                        EnterPackNode, RouteInv, result
        <3>2. CASE Calling
            BY <3>2 DEF Calling, StartCall, CallRejected, CallReturned, CallTransient,
                        CallFatal, Working, result
        <3>3. CASE Finishing
            BY <1>3, <3>3 DEF Finishing, FinishResearch, FinishValidate, FinishSummarize,
                              FinishNode, AnalystNodes, RouteInv
        <3>4. CASE Raising
            BY <3>4 DEF Raising, NodeRaises, ConnectorRaises, ReplyRejected, Working, result
        <3>5. CASE Answering \/ UNCHANGED vars
            BY <3>5, AnsweringKeeps DEF vars, result
        <3> QED
            BY <3>1, <3>2, <3>3, <3>4, <3>5, NextCases
    <2> QED
        BY <1>0, <2>1 DEF OutputInv, Checked, CrossChecked
<1> QED
    BY <1>1, <1>2, <1>3
-----------------------------------------------------------------------------
(* Event streams.                                                           *)

\* Which frame may come after which.
MayFollow(last, f) ==
    /\ last \notin Ends
    /\ f = "completed" => last = "started"
    /\ f \in {"result", "done"} => last = "completed"
    /\ last = "result" => f = "timed_out"

Ordered(fs) ==
    /\ fs # <<>>
    /\ fs[1] \in {"status", "started"}
    /\ \A i \in 1..Len(fs) : i > 1 => MayFollow(fs[i - 1], fs[i])

Last == frames[Len(frames)]
Succeeded == error = "none" /\ node = "end"

\* What the last frame of an open stream says about the pipeline, and what the
\* frames that announce a result say about it for good.
StreamInv ==
    /\ ~streamed => frames = <<>>
    /\ streamed => Ordered(frames) /\ answer \in {0, 200, 499}
    /\ streamed /\ answer = 0 =>
           Last \in IF Succeeded THEN {"completed", "result"} ELSE {"started"}
    /\ streamed /\ answer = 200 =>
           /\ Last \in Ends \cup {"result"}
           /\ error = "none" /\ node # "end" => Last = "timed_out"
    /\ \A i \in 1..Len(frames) :
           /\ frames[i] \in {"result", "done"} => Succeeded
           /\ frames[i] = "result" => pipeline # "run"

\* A frame that may follow keeps a stream in order.
LEMMA OrderedAppend ==
    ASSUME NEW fs \in Seq(Frames), Ordered(fs), NEW f \in Frames,
           MayFollow(fs[Len(fs)], f)
    PROVE  /\ Append(fs, f) \in Seq(Frames) /\ Ordered(Append(fs, f))
           /\ Len(Append(fs, f)) = Len(fs) + 1 /\ Append(fs, f)[Len(fs) + 1] = f
           /\ \A i \in 1..Len(fs) : Append(fs, f)[i] = fs[i]
<1>1. Len(fs) \in Nat /\ Len(fs) > 0
    BY DEF Ordered
<1>2. /\ Append(fs, f) \in Seq(Frames)
      /\ Len(Append(fs, f)) = Len(fs) + 1 /\ Append(fs, f)[Len(fs) + 1] = f
      /\ \A i \in 1..Len(fs) : Append(fs, f)[i] = fs[i]
    OBVIOUS
<1>3. Append(fs, f) # <<>> /\ Append(fs, f)[1] \in {"status", "started"}
    BY <1>1, <1>2 DEF Ordered
<1>4. ASSUME NEW i \in 1..Len(Append(fs, f)), i > 1
      PROVE  MayFollow(Append(fs, f)[i - 1], Append(fs, f)[i])
    <2>1. CASE i = Len(fs) + 1
        <3>1. i - 1 = Len(fs) /\ Len(fs) \in 1..Len(fs)
            BY <1>1, <2>1
        <3>2. Append(fs, f)[i - 1] = fs[Len(fs)] /\ Append(fs, f)[i] = f
            BY <1>2, <2>1, <3>1
        <3> QED
            BY <3>2
    <2>2. CASE i \in 1..Len(fs)
        <3>1. i - 1 \in 1..Len(fs) /\ MayFollow(fs[i - 1], fs[i])
            BY <1>1, <1>4, <2>2 DEF Ordered
        <3>2. Append(fs, f)[i - 1] = fs[i - 1] /\ Append(fs, f)[i] = fs[i]
            BY <1>2, <2>2, <3>1
        <3> QED
            BY <3>1, <3>2
    <2>3. i = Len(fs) + 1 \/ i \in 1..Len(fs)
        BY <1>1, <1>2
    <2> QED
        BY <2>1, <2>2, <2>3
<1> QED
    BY <1>2, <1>3, <1>4 DEF Ordered

\* What the thread sends: nothing, the end of its last phase, or a change of
\* phase.
LEMMA ThreadFrames ==
    ASSUME TypeOK, Entering \/ Calling \/ Finishing \/ Raising
    PROVE  \/ frames' = frames /\ (streamed /\ answer = 0 => ~Succeeded')
           \/ /\ streamed /\ answer = 0
              /\ frames' = Append(frames, "completed") /\ Succeeded'
           \/ /\ streamed /\ answer = 0
              /\ frames' = Append(Append(frames, "completed"), "started") /\ ~Succeeded'
<1> USE DEF Succeeded
<1>0. /\ \A events \in {<<>>, <<"completed">>, <<"completed", "started">>} :
            Emit(events) => frames' = IF streamed /\ answer = 0 THEN frames \o events ELSE frames
      /\ frames \o <<>> = frames /\ frames \o <<"completed">> = Append(frames, "completed")
      /\ frames \o <<"completed", "started">> = Append(Append(frames, "completed"), "started")
    BY FrameSeqs DEF Emit, TypeOK
<1>1. CASE Entering
    BY <1>1 DEF Entering, EnterNode, ValidateNothing, StepCapReached, EnterPackNode,
                Working, Route
<1>2. CASE Calling
    BY <1>2 DEF Calling, StartCall, CallRejected, CallReturned, CallTransient, CallFatal, Working
<1>3. CASE Raising
    BY <1>3 DEF Raising, NodeRaises, ConnectorRaises, ConnectorErrors, ReplyRejected
<1>4. CASE FinishResearch \/ FinishValidate
    BY <1>4 DEF FinishResearch, FinishValidate, Route
<1>5. CASE FinishSummarize
    BY <1>0, <1>5 DEF FinishSummarize, Working
<1>6. CASE FinishNode
    BY <1>0, <1>6 DEF FinishNode, Working
<1>7. CASE ParseReply
    BY <1>0, <1>7 DEF ParseReply, Working
<1>8. CASE FinishCrossCheck
    BY <1>0, <1>8 DEF FinishCrossCheck, Working
<1> QED
    BY <1>1, <1>2, <1>3, <1>4, <1>5, <1>6, <1>7, <1>8 DEF Finishing

\* A stream stays in order, whoever closes it and whatever its thread does
\* afterwards.
LEMMA StreamStep ==
    ASSUME TypeOK, StreamInv, [Next]_vars PROVE StreamInv'
<1>0. UNCHANGED fixed /\ frames \in Seq(Frames)
    BY FixedStep DEF TypeOK
<1> USE <1>0 DEF fixed
<1>1. CASE ~streamed
    <2>1. frames' = frames /\ frames = <<>>
        <3>1. CASE Entering \/ Calling \/ Finishing \/ Raising
            BY <1>1, <3>1, ThreadFrames DEF StreamInv
        <3>2. CASE Answering \/ UNCHANGED vars
            BY <1>1, <3>2 DEF Answering, Respond, StreamFails, Finished, SendResult,
                              EndStream, SendDone, StreamTimesOut, ClientLeaves, vars, StreamInv
        <3> QED
            BY <1>1, <3>1, <3>2, NextCases DEF StreamInv
    <2>2. 1..Len(frames') = {}
        BY <2>1
    <2> QED
        BY <1>1, <2>1, <2>2 DEF StreamInv
<1>2. CASE streamed /\ answer # 0
    <2>1. frames' = frames /\ answer' = answer
        BY <1>2, ThreadWorks, ThreadFrames, AnsweringKeeps, NextCases DEF vars
    <2>2. (Succeeded => Succeeded') /\ (error' = "none" /\ node' # "end" => error = "none" /\ node # "end")
        BY ThreadWorks, AnsweringKeeps, NextCases DEF vars, Succeeded, Working
    <2> QED
        BY <1>2, <2>1, <2>2 DEF StreamInv, Last
<1>3. CASE streamed /\ answer = 0 /\ (Entering \/ Calling \/ Finishing \/ Raising)
    <2>1. /\ answer' = 0 /\ Last = "started" /\ Ordered(frames)
          /\ \A i \in 1..Len(frames) : frames[i] \notin {"result", "done"}
        BY <1>3, ThreadWorks DEF Working, StreamInv, Succeeded
    <2>2. CASE frames' = frames /\ ~Succeeded'
        BY <1>3, <2>1, <2>2 DEF StreamInv, Last
    <2> DEFINE c == Append(frames, "completed")
    <2>3. /\ c \in Seq(Frames) /\ Ordered(c) /\ Len(c) = Len(frames) + 1
          /\ c[Len(c)] = "completed" /\ \A i \in 1..Len(frames) : c[i] = frames[i]
        <3>1. MayFollow(frames[Len(frames)], "completed") /\ "completed" \in Frames
            BY <2>1 DEF MayFollow, Ends, Last, Frames
        <3> QED
            BY <2>1, <3>1, OrderedAppend
    <2>4. CASE frames' = c /\ Succeeded'
        BY <1>3, <2>1, <2>3, <2>4 DEF StreamInv, Last
    <2> DEFINE d == Append(c, "started")
    <2>5. CASE frames' = d /\ ~Succeeded'
        <3> HIDE DEF c
        <3>1. MayFollow(c[Len(c)], "started") /\ "started" \in Frames
            BY <2>3 DEF MayFollow, Ends, Frames
        <3>2. /\ Ordered(d) /\ Len(d) = Len(c) + 1 /\ d[Len(d)] = "started"
              /\ \A i \in 1..Len(c) : d[i] = c[i]
            BY <2>3, <3>1, OrderedAppend
        <3>3. \A i \in 1..Len(d) : d[i] \notin {"result", "done"}
            BY <2>1, <2>3, <3>2
        <3> HIDE DEF d
        <3> QED
            BY <1>3, <2>1, <2>5, <3>2, <3>3 DEF StreamInv, Last
    <2> QED
        BY <1>3, <2>2, <2>4, <2>5, ThreadFrames
<1>4. CASE streamed /\ answer = 0 /\ Answering
    <2>0. Succeeded' = Succeeded /\ error' = error /\ node' = node
        BY <1>4, AnsweringKeeps DEF Succeeded
    <2>a. Ordered(frames) /\ Last \notin Ends
        BY <1>4 DEF StreamInv, Ends
    <2>1. CASE ClientLeaves
        BY <1>4, <2>0, <2>1 DEF ClientLeaves, StreamInv, Last
    <2>2. CASE EndStream
        BY <1>4, <2>0, <2>2 DEF EndStream, Finished, StreamInv, Last, Succeeded
    <2>3. ASSUME NEW f \in Frames, frames' = Append(frames, f), MayFollow(Last, f),
                 \/ answer' = 200 /\ f = "timed_out"
                 \/ answer' = 200 /\ f \in {"error", "error_auth"} /\ error # "none"
                 \/ answer' = 200 /\ f = "done" /\ Succeeded
                 \/ answer' = 0 /\ f = "result" /\ Succeeded /\ pipeline # "run"
          PROVE  StreamInv'
        <3>1. /\ Ordered(frames') /\ Len(frames') = Len(frames) + 1
              /\ frames'[Len(frames')] = f /\ \A i \in 1..Len(frames) : frames'[i] = frames[i]
            BY <2>3, <2>a, OrderedAppend DEF Last
        <3> QED
            BY <1>4, <2>0, <2>3, <3>1 DEF StreamInv, Last, Succeeded, Ends
    <2>4. CASE StreamTimesOut
        <3>1. MayFollow(Last, "timed_out") /\ "timed_out" \in Frames
            BY <2>a DEF MayFollow, Frames, Ends
        <3> QED
            BY <2>3, <2>4, <3>1 DEF StreamTimesOut
    <2>5. CASE SendDone
        <3>1. Last = "completed" /\ Succeeded
            <4>1. Len(frames) \in 1..Len(frames)
                BY <2>a DEF Ordered
            <4> QED
                BY <1>4, <2>5, <4>1 DEF SendDone, Finished, StreamInv, Succeeded, Last
        <3>2. MayFollow(Last, "done") /\ "done" \in Frames
            BY <3>1 DEF MayFollow, Frames, Ends
        <3> QED
            BY <2>3, <2>5, <3>1, <3>2 DEF SendDone
    <2>6. CASE SendResult
        <3>1. Last = "completed" /\ Succeeded
            BY <1>4, <2>6 DEF SendResult, Finished, StreamInv, Succeeded, Last
        <3>2. MayFollow(Last, "result") /\ "result" \in Frames
            BY <3>1 DEF MayFollow, Frames, Ends
        <3> QED
            BY <1>4, <2>3, <2>6, <3>1, <3>2 DEF SendResult
    <2>7. CASE StreamFails
        <3>1. PICK events \in {<<>>, <<"completed">>}, f \in {"error", "error_auth"} :
                frames' = frames \o events \o <<f>>
            BY <2>7, StreamErrors DEF StreamFails
        <3>2. error # "none" /\ answer' = 200 /\ Last = "started"
            BY <1>4, <2>7 DEF StreamFails, StreamInv, Succeeded
        <3>3. f \in Frames /\ "completed" \in Frames
            BY DEF Frames, Ends
        <3>4. CASE events = <<>>
            <4>1. frames' = Append(frames, f)
                BY <3>1, <3>3, <3>4
            <4>2. MayFollow(Last, f)
                BY <3>2 DEF MayFollow, Ends
            <4> QED
                BY <2>3, <3>2, <3>3, <4>1, <4>2
        <3>5. CASE events = <<"completed">>
            <4> DEFINE c == Append(frames, "completed")
            <4>1. frames' = Append(c, f)
                BY <3>1, <3>3, <3>5
            <4>2. /\ c \in Seq(Frames) /\ Ordered(c) /\ Len(c) = Len(frames) + 1
                  /\ c[Len(c)] = "completed" /\ \A i \in 1..Len(frames) : c[i] = frames[i]
                <5>1. MayFollow(frames[Len(frames)], "completed")
                    BY <3>2 DEF MayFollow, Ends, Last
                <5> QED
                    BY <2>a, <3>3, <5>1, OrderedAppend
            <4> HIDE DEF c
            <4>3. MayFollow(c[Len(c)], f)
                BY <4>2 DEF MayFollow, Ends
            <4>4. /\ Ordered(frames') /\ Len(frames') = Len(c) + 1
                  /\ frames'[Len(frames')] = f /\ \A i \in 1..Len(c) : frames'[i] = c[i]
                BY <3>3, <4>1, <4>2, <4>3, OrderedAppend
            <4>5. \A i \in 1..Len(frames') : frames'[i] \notin {"result", "done"}
                <5>1. \A i \in 1..Len(frames) : frames[i] \notin {"result", "done"}
                    BY <3>2 DEF StreamInv, Succeeded
                <5> QED
                    BY <4>2, <4>4, <5>1
            <4> QED
                BY <1>4, <2>0, <3>2, <4>4, <4>5 DEF StreamInv, Last, Ends
        <3> QED
            BY <3>1, <3>4, <3>5
    <2>8. ~Respond
        BY <1>4 DEF Respond
    <2> QED
        BY <1>4, <2>1, <2>2, <2>4, <2>5, <2>6, <2>7, <2>8 DEF Answering
<1>5. CASE UNCHANGED vars
    BY <1>5 DEF vars, StreamInv, Last, Succeeded, Ordered
<1> QED
    BY <1>1, <1>2, <1>3, <1>4, <1>5, NextCases DEF TypeOK

\* The routing, the checks and the frames agree in every state.
ResultInv == TypeOK /\ RouteInv /\ OutputInv /\ StreamInv

\* ... and so in every reachable one.
LEMMA ResultInvariant == Spec => []ResultInv
<1>1. Init => RouteInv /\ OutputInv /\ StreamInv
    <2> SUFFICES ASSUME Init PROVE RouteInv /\ OutputInv /\ StreamInv
        OBVIOUS
    <2>0. node # "end" /\ error = "none" /\ answer = 0
        BY PipelineAssumption DEF Init, Entry, AllPipelines
    <2>1. RouteInv /\ OutputInv
        BY PipelineAssumption DEF Init, Entry, AllPipelines, RouteInv, OutputInv
    <2>2. CASE ~streamed
        <3>1. frames = <<>> /\ 1..Len(frames) = {}
            BY <2>2 DEF Init, Opening
        <3> QED
            BY <2>0, <2>1, <2>2, <3>1 DEF StreamInv
    <2>3. CASE streamed
        <3>1. frames = <<"started">> \/ frames = <<"status", "started">>
            BY <2>3 DEF Init, Opening
        <3>2. /\ Ordered(frames) /\ Last = "started"
              /\ \A i \in 1..Len(frames) : frames[i] \in {"status", "started"}
            <4>1. CASE frames = <<"started">>
                <5>1. Len(frames) = 1 /\ frames[1] = "started" /\ frames # <<>>
                    BY <4>1
                <5> QED
                    BY <5>1 DEF Ordered, Last
            <4>2. CASE frames = <<"status", "started">>
                <5>1. /\ Len(frames) = 2 /\ frames # <<>>
                      /\ frames[1] = "status" /\ frames[2] = "started"
                    BY <4>2
                <5>2. MayFollow("status", "started")
                    BY DEF MayFollow, Ends
                <5>3. \A i \in 1..2 : i = 1 \/ i = 2
                    OBVIOUS
                <5> QED
                    BY <5>1, <5>2, <5>3 DEF Ordered, Last
            <4> QED
                BY <3>1, <4>1, <4>2
        <3> QED
            BY <2>0, <2>1, <2>3, <3>2 DEF StreamInv, Succeeded
    <2> QED
        BY <2>2, <2>3 DEF Init
<1>2. TypeOK /\ RouteInv /\ OutputInv /\ StreamInv /\ [Next]_vars
        => (RouteInv /\ OutputInv /\ StreamInv)'
    BY RouteStep, OutputStep, StreamStep
<1> QED
    BY <1>1, <1>2, TypeInvariant, PTL DEF Spec, ResultInv

\* A client of a stream sees phases that were started before they complete, a
\* result only from a pipeline that succeeded, and one end.
THEOREM StreamsInOrder == Spec => []StreamProtocol
<1>1. ResultInv => StreamProtocol
    <2> SUFFICES ASSUME ResultInv PROVE StreamProtocol
        OBVIOUS
    <2>1. CASE ~streamed
        BY <2>1 DEF ResultInv, StreamInv, StreamProtocol
    <2>2. CASE streamed
        <3>1. /\ Ordered(frames) /\ frames \in Seq(Frames) /\ Len(frames) \in Nat
              /\ DOMAIN frames = 1..Len(frames)
            BY <2>2 DEF ResultInv, StreamInv, TypeOK
        <3>2. ASSUME NEW i \in 1..Len(frames), i < Len(frames)
              PROVE  MayFollow(frames[i], frames[i + 1])
            <4>1. i + 1 \in 1..Len(frames) /\ i + 1 > 1 /\ (i + 1) - 1 = i
                BY <3>1, <3>2
            <4> QED
                BY <3>1, <4>1 DEF Ordered
        <3>3. ASSUME NEW i \in 1..Len(frames)
              PROVE  /\ frames[i] \in Ends => i = Len(frames)
                     /\ frames[i] = "completed" => i > 1 /\ frames[i - 1] = "started"
                     /\ frames[i] \in {"result", "done"} =>
                            i > 1 /\ frames[i - 1] = "completed" /\ error = "none"
                     /\ frames[i] = "result" /\ i < Len(frames) =>
                            frames[i + 1] = "timed_out"
            <4>1. frames[i] \notin {"status", "started"} =>
                    i > 1 /\ MayFollow(frames[i - 1], frames[i])
                BY <3>1 DEF Ordered
            <4>2. frames[i] \in {"result", "done"} => error = "none"
                BY DEF ResultInv, StreamInv, Succeeded
            <4>3. i < Len(frames) => MayFollow(frames[i], frames[i + 1])
                BY <3>2
            <4>4. i = Len(frames) \/ i < Len(frames)
                <5>1. \A n \in Nat : \A k \in 1..n : k = n \/ k < n
                    OBVIOUS
                <5> QED
                    BY <3>1, <5>1
            <4>5. frames[i] \in Ends => i = Len(frames)
                BY <4>3, <4>4 DEF MayFollow
            <4>6. frames[i] = "result" /\ i < Len(frames) => frames[i + 1] = "timed_out"
                BY <4>3 DEF MayFollow
            <4> QED
                BY <4>1, <4>2, <4>5, <4>6 DEF MayFollow
        <3>4. answer = 200 => frames[Len(frames)] \in Ends \cup {"result"}
            BY <2>2 DEF ResultInv, StreamInv, Last
        <3> QED
            BY <2>2, <3>1, <3>3, <3>4 DEF StreamProtocol
    <2> QED
        BY <2>1, <2>2
<1> QED
    BY <1>1, ResultInvariant, PTL

\* A request that was not streamed is answered 200 when its pipeline has ended
\* without an error, and never before.
LEMMA PlainStep ==
    ASSUME [Next]_vars, ~streamed /\ answer = 200 => Succeeded
    PROVE  (~streamed /\ answer = 200 => Succeeded)'
<1>0. streamed' = streamed
    BY FixedStep DEF fixed
<1>1. CASE Entering \/ Calling \/ Finishing \/ Raising
    BY <1>0, <1>1, ThreadWorks DEF Working
<1>2. CASE Answering
    <2>1. CASE Respond
        BY <2>1 DEF Respond, run_research, run_pack, run_pipeline, Succeeded
    <2>2. CASE ~Respond
        BY <1>0, <1>2, <2>2 DEF Answering, StreamFails, Finished, SendResult, EndStream,
                                SendDone, StreamTimesOut, ClientLeaves
    <2> QED
        BY <2>1, <2>2
<1>3. CASE UNCHANGED vars
    BY <1>3 DEF vars, fixed, Succeeded
<1> QED
    BY <1>1, <1>2, <1>3, NextCases

\* Structured packs fail closed: no path delivers an output that did not pass
\* the checks of its policy.
THEOREM PacksFailClosed == Spec => []FailClosed
<1> DEFINE Plain == ~streamed /\ answer = 200 => Succeeded
<1>1. Init => Plain
    BY DEF Init
<1>2. Plain /\ [Next]_vars => Plain'
    BY PlainStep
<1>3. ResultInv /\ Plain => FailClosed
    <2> SUFFICES ASSUME ResultInv, Plain, Delivered, pipeline = "structured"
                 PROVE  Checked /\ (CrossChecked => verdict = "passed")
        BY DEF FailClosed, Checked, CrossChecked
    <2>1. Succeeded
        <3>1. DOMAIN frames = 1..Len(frames)
            BY DEF ResultInv, TypeOK
        <3> QED
            BY <3>1 DEF Delivered, ResultInv, StreamInv
    <2> QED
        BY <2>1 DEF ResultInv, OutputInv, Succeeded
<1> QED
    BY <1>1, <1>2, <1>3, ResultInvariant, PTL DEF Spec

\* What becomes of a rejected credential on its way out of the packs.
LEMMA AuthTravels ==
    ASSUME RouteInv, pipeline \in AllPipelines, error \in {"auth", "provider_auth"}
    PROVE  /\ pipeline = "research" => run_research(Thrown) = 502
           /\ pipeline = "run" => run_pipeline(FromPack(Thrown)) = 502
           /\ pipeline \notin {"research", "run"} => run_pack(FromPack(Thrown)) = 502
           /\ ErrorFrame(FromStream(Thrown).raised) = "error_auth"
<1>1. Thrown = error
    BY DEF Thrown, FromAgent, RouteInv, AgentNodes, ResearchNodes, AnalystNodes
<1>2. CASE error = "auth"
    BY <1>1, <1>2 DEF run_research, run_pipeline, run_pack, find_auth_cause, FromPack,
        ResearchAnalysisPack, ResearchOnlyPack, AnalysisOnlyPack, SummariserPack,
        StructuredLLMPack, Rethrown, ErrorFrame, FromStream, ResearchAnalysisStream,
        ResearchOnlyStream, AnalysisOnlyStream, SummariserStream, StructuredLLMStream,
        Unfinished, AgentErrors
<1>3. CASE error = "provider_auth"
    BY <1>1, <1>3 DEF RouteInv, run_pack, find_auth_cause, FromPack, StructuredLLMPack,
        Rethrown, ErrorFrame, FromStream, StructuredLLMStream, AgentErrors
<1> QED
    BY <1>2, <1>3

\* Causes still surface after every step.
LEMMA CauseStep ==
    ASSUME ResultInv, CausesSurface, [Next]_vars PROVE CausesSurface'
<1>0. UNCHANGED fixed /\ pipeline \in AllPipelines
    BY FixedStep, PipelineAssumption DEF ResultInv, TypeOK
<1> USE <1>0 DEF fixed
<1>1. CASE Entering \/ Calling \/ Finishing \/ Raising
    <2>1. answer' = answer /\ error = "none" /\ node # "end" /\ (answer = 0 \/ streamed)
        BY <1>1, ThreadWorks DEF Working
    <2>2. CASE answer \in {0, 499}
        BY <2>1, <2>2 DEF CausesSurface
    <2>3. CASE answer = 200
        <3>1. streamed /\ Last = "timed_out" /\ frames' = frames
            BY <1>1, <2>1, <2>3, ThreadFrames DEF ResultInv, StreamInv
        <3> QED
            BY <2>1, <3>1 DEF CausesSurface, Last, ResultInv, RouteInv
    <2> QED
        BY <2>1, <2>2, <2>3 DEF ResultInv, StreamInv
<1>2. CASE Answering
    <2>0. error' = error /\ frames \in Seq(Frames)
        BY <1>2, AnsweringKeeps DEF ResultInv, TypeOK
    <2>1. CASE Respond
        <3>1. error = "budget" => Thrown = "budget"
            BY DEF Thrown, FromAgent, ConnectorErrors
        <3>2. error = "budget" /\ pipeline = "research" => answer' = 402
            BY <2>1, <3>1 DEF Respond, run_research, run_pipeline
        <3>3. error \in {"auth", "provider_auth"} => answer' = 502
            BY <2>1, AuthTravels DEF Respond, ResultInv
        <3> QED
            BY <2>0, <2>1, <3>2, <3>3 DEF Respond, CausesSurface
    <2>2. CASE StreamFails
        <3>1. PICK events \in {<<>>, <<"completed">>} :
                frames' = frames \o events \o <<ErrorFrame(FromStream(Thrown).raised)>>
            BY <2>2, StreamErrors DEF StreamFails
        <3>2. frames'[Len(frames')] = ErrorFrame(FromStream(Thrown).raised)
            BY <2>0, <3>1
        <3>3. error \in {"auth", "provider_auth"} => frames'[Len(frames')] = "error_auth"
            BY <3>2, AuthTravels DEF ResultInv
        <3> QED
            BY <2>0, <2>2, <3>3 DEF StreamFails, CausesSurface, ResultInv, RouteInv
    <2>3. CASE StreamTimesOut
        <3>1. frames'[Len(frames')] = "timed_out"
            BY <2>0, <2>3 DEF StreamTimesOut
        <3> QED
            BY <2>0, <2>3, <3>1 DEF StreamTimesOut, CausesSurface, ResultInv, RouteInv
    <2>4. CASE EndStream \/ SendDone \/ SendResult \/ ClientLeaves
        BY <2>0, <2>4 DEF EndStream, SendDone, SendResult, Finished, ClientLeaves, CausesSurface
    <2> QED
        BY <1>2, <2>1, <2>2, <2>3, <2>4 DEF Answering
<1>3. CASE UNCHANGED vars
    BY <1>3 DEF vars, CausesSurface
<1> QED
    BY <1>1, <1>2, <1>3, NextCases

\* A rejected credential reaches the client as such from every agent and pack,
\* in an answer and in a stream, and so does an exceeded budget of /research.
THEOREM CausesReachClients == Spec => []CausesSurface
<1>1. Init => CausesSurface
    BY DEF Init, CausesSurface
<1>2. ResultInv /\ CausesSurface /\ [Next]_vars => CausesSurface'
    BY CauseStep
<1> QED
    BY <1>1, <1>2, ResultInvariant, PTL DEF Spec
=============================================================================
