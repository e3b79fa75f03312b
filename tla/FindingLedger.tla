--------------------------- MODULE FindingLedger ----------------------------
(***************************************************************************)
(* What tracewarden promises about the findings of a span, without saying  *)
(* how: docs/schema.md has one event per finding and the summary           *)
(* attributes "aggregated across all of them".  The ledger has no caches,  *)
(* no detectors and no traces; of its memory it says only how many spans   *)
(* it is good for.                                                         *)
(***************************************************************************)
EXTENDS Schema, SequencesExt

CONSTANTS
  Spans,
  Memory    \* the number of spans whose events are never forgotten

VARIABLES
  status,   \* life of a span: unstarted, recording, ended
  events,   \* the security events of a span
  summary,  \* the summary attributes of a span
  direct    \* spans the host recorded events on itself

vars == <<status, events, summary, direct>>

Init ==
  /\ status = [s \in Spans |-> "unstarted"]
  /\ events = [s \in Spans |-> <<>>]
  /\ summary = [s \in Spans |-> NoSummary]
  /\ direct = {}

Started == {s \in Spans : status[s] # "unstarted"}

Start(s) ==
  /\ status[s] = "unstarted"
  /\ status' = [status EXCEPT ![s] = "recording"]
  /\ UNCHANGED <<events, summary, direct>>

\* A batch of events reaches a recording span, and its summary changes.
Extend(s) ==
  /\ status[s] = "recording"
  /\ IsStrictPrefix(events[s], events'[s])
  /\ events' = [events EXCEPT ![s] = events'[s]]
  /\ summary' = [summary EXCEPT ![s] = summary'[s]]
  /\ UNCHANGED status

\* The summary is that of the events after the first n, the batch included.
\* Events are forgotten only when more than Memory spans were started.
Record(s) ==
  /\ Extend(s)
  /\ UNCHANGED direct
  /\ s \in direct \/ \E n \in 0 .. Len(events[s]) :
       /\ summary'[s] = SummaryOf(SubSeq(events'[s], n + 1, Len(events'[s])))
       /\ n # 0 => Cardinality(Started) > Memory

\* The host records events itself: from then on nothing is said of the summary.
RecordDirect(s) ==
  /\ Extend(s) \/ UNCHANGED <<status, events, summary>>
  /\ direct' = direct \cup {s}

End(s) ==
  /\ status[s] = "recording"
  /\ status' = [status EXCEPT ![s] = "ended"]
  /\ UNCHANGED <<events, summary, direct>>

Next == \E s \in Spans : Start(s) \/ Record(s) \/ RecordDirect(s) \/ End(s)

Spec == Init /\ [][Next]_vars
=============================================================================
