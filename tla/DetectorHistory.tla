-------------------------- MODULE DetectorHistory ---------------------------
(***************************************************************************)
(* One trace seen by the two stateful detectors.  The detectors work on    *)
(* line, from counters and a "flagged" set; this module runs them next to  *)
(* the full history of the trace, from which Anomalies defines what they   *)
(* are meant to report without any counter.                                *)
(***************************************************************************)
EXTENDS Anomalies

VARIABLES
  sequence,   \* trace_state["tracewarden.sequence"]
  cost,       \* trace_state["tracewarden.cost_loop"]
  raised,     \* the findings returned so far, in order
  toolCalls,  \* history: the <<tool, arguments>> of every tool call
  prompts     \* history: every user prompt

vars == <<sequence, cost, raised, toolCalls, prompts>>

Init ==
  /\ sequence = SequenceInit
  /\ cost = CostInit
  /\ raised = <<>>
  /\ toolCalls = <<>>
  /\ prompts = <<>>

\* DetectionPipeline.__call__ hands the same context to both detectors, in the
\* order of their toggles: anomalous_sequence, then cost_loop.
RunDetectors(ctx) ==
  LET s == SequenceScan(sequence, ctx)
      c == CostScan(cost, ctx)
  IN  /\ sequence' = s.state
      /\ cost' = c.state
      /\ raised' = raised \o s.findings \o c.findings

ToolCall(tool, text) ==
  /\ RunDetectors([surface |-> "tool_input", tool |-> tool, text |-> text])
  /\ toolCalls' = Append(toolCalls, <<tool, text>>)
  /\ UNCHANGED prompts

Prompt(text) ==
  /\ RunDetectors([surface |-> "user_prompt", tool |-> NoTool, text |-> text])
  /\ prompts' = Append(prompts, text)
  /\ UNCHANGED toolCalls

\* Content that neither detector watches: another surface, or a tool input
\* that comes without a tool name.
OtherContent(ctx) ==
  /\ \/ ctx.surface \notin {"tool_input", "user_prompt"}
     \/ ctx.surface = "tool_input" /\ ctx.tool = NoTool
  /\ RunDetectors(ctx)
  /\ UNCHANGED <<toolCalls, prompts>>

Next ==
  \/ \E tool \in Tools, text \in Texts : ToolCall(tool, text)
  \/ \E text \in Texts : Prompt(text)
  \/ \E ctx \in ScanContext : OtherContent(ctx)

Spec == Init /\ [][Next]_vars

-----------------------------------------------------------------------------
\* The history shows the anomaly of the rule.
Shown(rule) ==
  \/ rule = "repeated_identical_call" /\ CallLoopShown(toolCalls)
  \/ rule = "tool_ping_pong" /\ PingPongShown(toolCalls)
  \/ rule = "tool_fanout" /\ FanoutShown(toolCalls)
  \/ rule = "llm_call_budget_exceeded" /\ BudgetShown(prompts)
  \/ rule = "repeated_identical_prompt" /\ PromptLoopShown(prompts)

-----------------------------------------------------------------------------
\* Types of the detectors' state and of the history.
TypeOK ==
  /\ sequence \in SequenceState
  /\ cost \in CostState
  /\ raised \in Seq(SecurityEvent)
  /\ toolCalls \in Seq(CallKey)
  /\ prompts \in Seq(Texts)

\* The flags of sequence.py are exactly the tool anomalies the history shows:
\* the look at the last four calls and at the one counter just incremented
\* misses no anomaly and invents none, wherever in the trace it happened.
SequenceFlagsExact ==
  \A rule \in SequenceRule : rule \in sequence.flagged <=> Shown(rule)

\* The same for cost_loop.py: the flags are exactly the prompt anomalies of the
\* whole history.
CostFlagsExact ==
  \A rule \in CostRule : rule \in cost.flagged <=> Shown(rule)

\* "one event per anomaly class per trace, not per call" (sequence.py:52): each
\* rule is raised at most once, and a rule has been raised exactly when the
\* history shows its anomaly.
RaisedOncePerTrace ==
  /\ \A i, j \in DOMAIN raised : raised[i].rule = raised[j].rule => i = j
  /\ \A rule \in TraceRule :
       Shown(rule) <=> \E i \in DOMAIN raised : raised[i].rule = rule
=============================================================================
