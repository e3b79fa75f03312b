----------------------------- MODULE MCPipeline -----------------------------
(* Instances of Pipeline for TLC.  A cfg picks the definitions it needs. *)
EXTENDS Pipeline

Personal == [type |-> "pii_leak", severity |-> MEDIUM, rule |-> "content"]

NoFindings == {<<>>}
OneDirect == {<<Personal>>}
NoDirect == {}

ToolCalls == [surface : {"tool_input"}, tool : Tools, text : Texts]
Prompts == [surface : {"user_prompt"}, tool : {NoTool}, text : Texts]
ToolsAndPrompts == ToolCalls \cup Prompts

\* Every span in a trace of its own (the ids of the traces are then the spans');
\* the same but for the spans that have no trace of their own, which share one.
OwnTrace == [s \in Spans |-> s]
SharedTrace == [s \in Spans |-> IF s \in Traces THEN s ELSE CHOOSE t \in Traces : TRUE]

\* Sound where TraceOf is SharedTrace.
SharedSymmetry ==
  {p \in Permutations(Spans) : \A s \in Spans : SharedTrace[p[s]] = p[SharedTrace[s]]}
=============================================================================
