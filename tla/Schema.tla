------------------------------- MODULE Schema -------------------------------
(***************************************************************************)
(* The event schema of tracewarden (schema.py): the closed sets of event   *)
(* types, severities and surfaces, the security event, and the summary a   *)
(* span carries about its findings.  Confidence, evidence and the id of    *)
(* the detector are attributes no behaviour depends on and are left out.   *)
(***************************************************************************)
EXTENDS Integers, Sequences, FiniteSets

EventType == {"prompt_injection", "secret_leak", "pii_leak", "tool_poisoning",
              "scope_violation", "memory_poisoning", "anomalous_sequence",
              "cost_anomaly", "loop_anomaly"}

\* A severity is its rank, as in _SEVERITY_RANK.
LOW == 0
MEDIUM == 1
HIGH == 2
CRITICAL == 3
Severity == LOW..CRITICAL

Surface == {"system_prompt", "user_prompt", "completion", "tool_input",
            "tool_output", "tool_description", "memory_write"}

\* The rules of the two stateful detectors, which are bookkept per trace...
SequenceRule == {"repeated_identical_call", "tool_ping_pong", "tool_fanout"}
CostRule == {"llm_call_budget_exceeded", "repeated_identical_prompt"}
TraceRule == SequenceRule \cup CostRule
\* ... the LLM classifier's, and one standing for all those that look at the
\* content alone.
Rule == TraceRule \cup {"llm_classifier", "content"}

SecurityEvent == [type : EventType, severity : Severity, rule : Rule]

\* max(events, key=lambda e: e.severity.rank).severity
MaxSeverity(events) ==
  CHOOSE r \in {events[i].severity : i \in DOMAIN events} :
    \A i \in DOMAIN events : events[i].severity <= r

\* The three summary attributes, as set on a span with at least one finding.
SummaryOf(events) ==
  [count |-> Len(events),
   max_severity |-> MaxSeverity(events),
   types |-> {events[i].type : i \in DOMAIN events}]

\* A span on which no summary attribute is set.
NoSummary == [count |-> 0, max_severity |-> LOW, types |-> {}]
=============================================================================
