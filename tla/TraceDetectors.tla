--------------------------- MODULE TraceDetectors ---------------------------
(***************************************************************************)
(* The two stateful detectors of tracewarden: the sequence detector        *)
(* (detectors/sequence.py) and the cost/loop detector                      *)
(* (detectors/cost_loop.py).  Each keeps a dict in ctx.trace_state, one    *)
(* per trace, updates it on every scan and returns its findings.           *)
(*                                                                         *)
(* A detector is a pure operator here: it maps the state and one input to  *)
(* the new state and the list of findings.  The modules that own the state *)
(* are DetectorHistory (one trace) and Pipeline (every trace).             *)
(***************************************************************************)
EXTENDS Schema

CONSTANTS
  Tools,            \* names in meta["tool_name"]
  NoTool,           \* stands for an absent or empty tool name
  Texts,            \* scanned contents, told apart only by digest()
  RepeatThreshold,  \* config.repeat_threshold
  FanoutThreshold,  \* config.tool_fanout_threshold
  CallBudget        \* config.llm_call_budget

ASSUME NoToolAssumption == NoTool \notin Tools

\* config.py declares repeat_threshold and tool_fanout_threshold with ge=2 and
\* llm_call_budget with ge=1: pydantic refuses a smaller value.
ASSUME ThresholdAssumption ==
  /\ RepeatThreshold \in Nat /\ RepeatThreshold >= 2
  /\ FanoutThreshold \in Nat /\ FanoutThreshold >= 2
  /\ CallBudget \in Nat /\ CallBudget >= 1

ScanContext == [surface : Surface, tool : Tools \cup {NoTool}, text : Texts]

\* Mutant: type and rule swapped.
OnceSwapped(rule, fired, type, severity) ==
  IF rule \in fired
    THEN <<[type |-> rule, severity |-> severity, rule |-> type]>>
    ELSE <<>>

\* add() of both detectors: the findings list gets one event of the rule.
Once(rule, fired, type, severity) ==
  IF rule \in fired
    THEN <<[type |-> type, severity |-> severity, rule |-> rule]>>
    ELSE <<>>

-----------------------------------------------------------------------------
(* SequenceDetector.  "order" lists the tools called, "calls" counts each   *)
(* pair of a tool and an argument digest (the dict's missing keys are 0).   *)

CallKey == Tools \X Texts

SequenceState == [order : Seq(Tools),
                  calls : [CallKey -> Nat],
                  flagged : SUBSET SequenceRule]

SequenceInit == [order |-> <<>>, calls |-> [k \in CallKey |-> 0], flagged |-> {}]

WatchesCall(ctx) == ctx.surface = "tool_input" /\ ctx.tool # NoTool

CountCall(state, ctx) ==
  [order |-> Append(state.order, ctx.tool),
   calls |-> [state.calls EXCEPT ![<<ctx.tool, ctx.text>>] = @ + 1],
   flagged |-> state.flagged]

\* Mutant: without the last comparison.
PingPongUnguarded(order) ==
  LET n == Len(order)
  IN  n >= 4 /\ order[n - 3] = order[n - 1] /\ order[n - 2] = order[n]

\* order[-4:] == [order[-2], order[-1]] * 2 and order[-1] != order[-2]
PingPong(order) ==
  LET n == Len(order)
  IN  /\ n >= 4
      /\ order[n - 3] = order[n - 1]
      /\ order[n - 2] = order[n]
      /\ order[n] # order[n - 1]

FannedOut(order) ==
  Cardinality({order[i] : i \in DOMAIN order}) > FanoutThreshold

CallRepeated(calls, key) == calls[key] >= RepeatThreshold

\* The anomaly classes that the call just counted shows.
SequenceAnomalies(state, ctx) ==
  (IF CallRepeated(state.calls, <<ctx.tool, ctx.text>>)
     THEN {"repeated_identical_call"} ELSE {})
  \cup (IF PingPong(state.order) THEN {"tool_ping_pong"} ELSE {})
  \cup (IF FannedOut(state.order) THEN {"tool_fanout"} ELSE {})

\* Mutant: the flags are not consulted.
SequenceFiredAlways(state, ctx) == SequenceAnomalies(state, ctx)

SequenceFired(state, ctx) == SequenceAnomalies(state, ctx) \ state.flagged

SequenceFindings(fired) ==
  Once("repeated_identical_call", fired, "anomalous_sequence", MEDIUM)
    \o Once("tool_ping_pong", fired, "anomalous_sequence", MEDIUM)
    \o Once("tool_fanout", fired, "anomalous_sequence", MEDIUM)

SequenceScan(state, ctx) ==
  LET counted == CountCall(state, ctx)
      fired == SequenceFired(counted, ctx)
  IN  IF WatchesCall(ctx)
        THEN [state |-> [counted EXCEPT !.flagged = @ \cup fired],
              findings |-> SequenceFindings(fired)]
        ELSE [state |-> state, findings |-> <<>>]

-----------------------------------------------------------------------------
(* CostLoopDetector.  Every scan of a user prompt counts as one model call. *)

CostState == [llm_calls : Nat, prompts : [Texts -> Nat], flagged : SUBSET CostRule]

CostInit == [llm_calls |-> 0, prompts |-> [x \in Texts |-> 0], flagged |-> {}]

WatchesPrompt(ctx) == ctx.surface = "user_prompt"

CountPrompt(state, ctx) ==
  [llm_calls |-> state.llm_calls + 1,
   prompts |-> [state.prompts EXCEPT ![ctx.text] = @ + 1],
   flagged |-> state.flagged]

\* Mutant: an off-by-one in the budget.
OverBudgetEarly(calls) == calls >= CallBudget

OverBudget(calls) == calls > CallBudget

PromptRepeated(prompts, text) == prompts[text] >= RepeatThreshold

CostAnomalies(state, ctx) ==
  (IF OverBudget(state.llm_calls) THEN {"llm_call_budget_exceeded"} ELSE {})
  \cup (IF PromptRepeated(state.prompts, ctx.text)
          THEN {"repeated_identical_prompt"} ELSE {})

\* Mutant: the flags are not consulted.
CostFiredAlways(state, ctx) == CostAnomalies(state, ctx)

CostFired(state, ctx) == CostAnomalies(state, ctx) \ state.flagged

CostFindings(fired) ==
  Once("llm_call_budget_exceeded", fired, "cost_anomaly", HIGH)
    \o Once("repeated_identical_prompt", fired, "loop_anomaly", HIGH)

CostScan(state, ctx) ==
  LET counted == CountPrompt(state, ctx)
      fired == CostFired(counted, ctx)
  IN  IF WatchesPrompt(ctx)
        THEN [state |-> [counted EXCEPT !.flagged = @ \cup fired],
              findings |-> CostFindings(fired)]
        ELSE [state |-> state, findings |-> <<>>]
=============================================================================
