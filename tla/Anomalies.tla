----------------------------- MODULE Anomalies ------------------------------
(***************************************************************************)
(* The anomalies that the stateful detectors are meant to report, defined  *)
(* on the whole history of a trace: the tool calls it made, as pairs of a  *)
(* tool and its arguments, and the prompts it sent.  These are the         *)
(* sentences of the docstrings of sequence.py and cost_loop.py and of      *)
(* docs/detectors/catalog.md; no definition here counts or remembers.      *)
(***************************************************************************)
EXTENDS TraceDetectors

Occurrences(s, v) == {i \in DOMAIN s : s[i] = v}

CallLoopShown(calls) ==
  \E key \in CallKey : Cardinality(Occurrences(calls, key)) >= RepeatThreshold

\* Somewhere in the trace four consecutive tool calls went A, B, A, B.
PingPongShown(calls) ==
  \E i \in DOMAIN calls :
    /\ i + 3 \in DOMAIN calls
    /\ calls[i][1] = calls[i + 2][1]
    /\ calls[i + 1][1] = calls[i + 3][1]
    /\ calls[i][1] # calls[i + 1][1]

ToolsOf(calls) == {calls[i][1] : i \in DOMAIN calls}

FanoutShown(calls) == Cardinality(ToolsOf(calls)) > FanoutThreshold

BudgetShown(texts) == Len(texts) > CallBudget

PromptLoopShown(texts) ==
  \E text \in Texts : Cardinality(Occurrences(texts, text)) >= RepeatThreshold
=============================================================================
