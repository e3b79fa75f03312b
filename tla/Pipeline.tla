------------------------------ MODULE Pipeline ------------------------------
(***************************************************************************)
(* The detection pipeline (pipeline.py) with the spans it enriches.  One   *)
(* call of DetectionPipeline.__call__ is one step: the module is the       *)
(* program of a host that scans from one thread (a synchronous agent or an *)
(* asyncio one: the call has no await).                                    *)
(*                                                                         *)
(* The detectors that look at the content alone are abstracted to the list *)
(* of findings they return for the scanned text, taken from ContentFindings;*)
(* the stateful ones are those of TraceDetectors.                          *)
(***************************************************************************)
EXTENDS TraceDetectors, Lru

CONSTANTS
  Spans,            \* span ids
  Traces,           \* trace ids
  TraceOf,          \* the trace of each span
  MaxSpans,         \* _MAX_TRACKED_SPANS
  MaxTraces,        \* _MAX_TRACKED_TRACES
  Contexts,         \* the scan contexts the host produces
  ContentFindings,  \* what the content detectors may return for a text
  LlmReplies,       \* how the local model may answer
  DirectEvents,     \* what the host may pass to record_events itself
  MaxScans          \* bound on the number of scans and direct recordings

\* Ids are numbers of 64 and 128 bits.
ASSUME IdsAssumption ==
  /\ IsFiniteSet(Spans) /\ IsFiniteSet(Traces)
  /\ TraceOf \in [Spans -> Traces]

\* Module constants of pipeline.py: 4096 and 1024.
ASSUME CapsAssumption == MaxSpans \in Nat \ {0} /\ MaxTraces \in Nat \ {0}

\* "rejected" and "unreachable" both yield nothing (llm.py:98-110): the reply is
\* no injection, or the backend raised an OSError.  "suspect" and "injection" are
\* a verdict below and above confidence 0.85.  "raises" is any other exception
\* out of backend.generate, such as the JSONDecodeError of a reply that is no
\* JSON (llm.py:77): nothing in the detector or the pipeline catches it.
LlmReply == {"rejected", "unreachable", "suspect", "injection", "raises"}

ASSUME InputsAssumption ==
  /\ Contexts \subseteq ScanContext
  /\ ContentFindings \subseteq Seq(SecurityEvent)
  /\ DirectEvents \subseteq Seq(SecurityEvent)
  /\ LlmReplies \subseteq LlmReply
  /\ MaxScans \in Nat

\* The rules of the detectors that look at the content alone are others than
\* those that are reported once per trace (sequence.py:65, cost_loop.py:65).
ASSUME ContentRulesAssumption ==
  \A fs \in ContentFindings : \A i \in DOMAIN fs : fs[i].rule \notin TraceRule

VARIABLES
  status,       \* life of a span: unstarted, recording, ended
  events,       \* the security.event span events
  summary,      \* the security.events.* attributes
  mirror,       \* the Langfuse / OpenInference copies of them
  spanOrder,    \* keys of self._span_events
  accumulated,  \* values of self._span_events, <<>> for a missing key
  traceOrder,   \* keys of self._trace_state
  scratch,      \* values of self._trace_state, Fresh for a missing key
  alerted,      \* the findings handed to on_events, per span
  scans,        \* calls so far
  \* History variables, which no action reads.
  found,        \* every finding _attach was called with, per span
  recentSpans,  \* the other spans with findings since this one's last ones
  recentTraces, \* the other traces scanned since this one's last scan
  forgotSpans,  \* spans with new findings after MaxSpans or more others had some
  forgotTraces, \* traces scanned again after MaxTraces or more others were
  direct,       \* spans the host called record_events on
  visited,      \* traces scanned before
  failed,       \* traces with a scan that raised
  prompted      \* user prompts scanned, per trace

attributes == <<status, events, summary, mirror>>
caches == <<spanOrder, accumulated, traceOrder, scratch>>
history == <<found, recentSpans, recentTraces, forgotSpans, forgotTraces,
             direct, visited, failed, prompted>>
vars == <<attributes, caches, alerted, scans, history>>

\* The empty dict that _state_for inserts; each detector adds its own part.
Fresh == [sequence |-> SequenceInit, cost |-> CostInit]

Init ==
  /\ status = [s \in Spans |-> "unstarted"]
  /\ events = [s \in Spans |-> <<>>]
  /\ summary = [s \in Spans |-> NoSummary]
  /\ mirror = [s \in Spans |-> NoSummary]
  /\ spanOrder = <<>>
  /\ accumulated = [s \in Spans |-> <<>>]
  /\ traceOrder = <<>>
  /\ scratch = [t \in Traces |-> Fresh]
  /\ alerted = [s \in Spans |-> <<>>]
  /\ scans = 0
  /\ found = [s \in Spans |-> <<>>]
  /\ recentSpans = [s \in Spans |-> {}]
  /\ recentTraces = [t \in Traces |-> {}]
  /\ forgotSpans = {}
  /\ forgotTraces = {}
  /\ direct = {}
  /\ visited = {}
  /\ failed = {}
  /\ prompted = [t \in Traces |-> 0]

-----------------------------------------------------------------------------
(* The caches. *)

\* _state_for: the scratch dicts after trace t was looked up.
StateFor(t, order) ==
  [u \in Traces |-> IF Cached(order, u) THEN scratch[u] ELSE Fresh]

\* _events_for: the lists of findings after span s was looked up.
EventsFor(s, order) ==
  [u \in Spans |-> IF Cached(order, u) THEN accumulated[u] ELSE <<>>]

-----------------------------------------------------------------------------
(* The detectors, in the order of their toggles: anomalous_sequence,        *)
(* cost_loop, llm, and then the rest.                                       *)

LlmSurface == {"user_prompt", "tool_output", "tool_description", "memory_write"}

\* Mutant: type and rule swapped.
LlmFindingsSwapped(reply) ==
  IF reply \in {"suspect", "injection"}
    THEN <<[type |-> "llm_classifier", rule |-> "prompt_injection", severity |-> MEDIUM]>>
    ELSE <<>>

LlmFindings(reply) ==
  IF reply \in {"suspect", "injection"}
    THEN <<[type |-> "prompt_injection", rule |-> "llm_classifier",
            severity |-> IF reply = "injection" THEN HIGH ELSE MEDIUM]>>
    ELSE <<>>

\* The model is asked about some surfaces only (llm.py:97).
Asked(ctx, reply) == ctx.surface \in LlmSurface \/ reply = "rejected"

-----------------------------------------------------------------------------
(* span.add_event and span.set_attribute do nothing on an ended span.       *)

\* Mutant: only the first finding of a scan becomes an event.
AddEventsFirst(s, findings) ==
  events' = [events EXCEPT ![s] =
               IF status[s] = "recording" THEN Append(@, Head(findings)) ELSE @]

AddEvents(s, findings) ==
  events' = [events EXCEPT ![s] =
               IF status[s] = "recording" THEN @ \o findings ELSE @]

SetSummary(attribute, s, value) ==
  [attribute EXCEPT ![s] = IF status[s] = "recording" THEN value ELSE @]

\* Mutant: the summary is that of the latest findings only.
AttachLatest(s, findings) ==
  LET order == Touch(spanOrder, s, MaxSpans)
      lists == [EventsFor(s, order) EXCEPT ![s] = @ \o findings]
  IN  /\ AddEvents(s, findings)
      /\ spanOrder' = order
      /\ accumulated' = lists
      /\ summary' = SetSummary(summary, s, SummaryOf(findings))
      /\ mirror' = SetSummary(mirror, s, SummaryOf(findings))
      /\ alerted' = [alerted EXCEPT ![s] = @ \o findings]

\* Mutant: nothing is handed on for a span that no longer records.
AttachLive(s, findings) ==
  LET order == Touch(spanOrder, s, MaxSpans)
      lists == [EventsFor(s, order) EXCEPT ![s] = @ \o findings]
  IN  /\ AddEvents(s, findings)
      /\ spanOrder' = order
      /\ accumulated' = lists
      /\ summary' = SetSummary(summary, s, SummaryOf(lists[s]))
      /\ mirror' = SetSummary(mirror, s, SummaryOf(lists[s]))
      /\ alerted' = [alerted EXCEPT ![s] =
                       IF status[s] = "recording" THEN @ \o findings ELSE @]

\* _attach on a span that has findings, and the backend copies of export.py.
Attach(s, findings) ==
  LET order == Touch(spanOrder, s, MaxSpans)
      lists == [EventsFor(s, order) EXCEPT ![s] = @ \o findings]
  IN  /\ AddEvents(s, findings)
      /\ spanOrder' = order
      /\ accumulated' = lists
      /\ summary' = SetSummary(summary, s, SummaryOf(lists[s]))
      /\ mirror' = SetSummary(mirror, s, SummaryOf(lists[s]))
      /\ alerted' = [alerted EXCEPT ![s] = @ \o findings]

NoteFindings(s, findings) ==
  /\ found' = [found EXCEPT ![s] = @ \o findings]
  /\ recentSpans' = Use(recentSpans, s)
  /\ forgotSpans' = forgotSpans \cup
       {u \in {s} : found[u] # <<>> /\ Cardinality(recentSpans[u]) >= MaxSpans}

NoteScan(t, ctx, reply) ==
  /\ recentTraces' = Use(recentTraces, t)
  /\ forgotTraces' = forgotTraces \cup
       {u \in {t} : u \in visited /\ Cardinality(recentTraces[u]) >= MaxTraces}
  /\ visited' = visited \cup {t}
  /\ failed' = failed \cup {u \in {t} : reply = "raises"}
  /\ prompted' = [prompted EXCEPT ![t] = IF WatchesPrompt(ctx) THEN @ + 1 ELSE @]

-----------------------------------------------------------------------------
(* The steps. *)

Start(s) ==
  /\ status[s] = "unstarted"
  /\ status' = [status EXCEPT ![s] = "recording"]
  /\ UNCHANGED <<events, summary, mirror, caches, alerted, scans, history>>

End(s) ==
  /\ status[s] = "recording"
  /\ status' = [status EXCEPT ![s] = "ended"]
  /\ UNCHANGED <<events, summary, mirror, caches, alerted, scans, history>>

\* DetectionPipeline.__call__: the trace's scratch, every detector in turn, and
\* _attach when there are findings.  A detector that raises ends the call; what
\* the detectors before it stored in the scratch stays.
Scan(s, ctx, reply, content) ==
  LET t == TraceOf[s]
      order == Touch(traceOrder, t, MaxTraces)
      states == StateFor(t, order)
      sequence == SequenceScan(states[t].sequence, ctx)
      cost == CostScan(states[t].cost, ctx)
      findings == sequence.findings \o cost.findings \o LlmFindings(reply) \o content
  IN  /\ status[s] # "unstarted"
      /\ scans < MaxScans
      /\ Asked(ctx, reply)
      /\ traceOrder' = order
      /\ scratch' = [states EXCEPT ![t] = [sequence |-> sequence.state,
                                           cost |-> cost.state]]
      /\ NoteScan(t, ctx, reply)
      /\ scans' = scans + 1
      /\ IF reply # "raises" /\ findings # <<>>
           THEN Attach(s, findings) /\ NoteFindings(s, findings)
           ELSE UNCHANGED <<events, summary, mirror, spanOrder, accumulated,
                            alerted, found, recentSpans, forgotSpans>>
      /\ UNCHANGED <<status, direct>>

\* record_events (schema.py), public: the summary is that of this call's events.
RecordEvents(s, findings) ==
  /\ status[s] # "unstarted"
  /\ scans < MaxScans
  /\ findings # <<>>
  /\ AddEvents(s, findings)
  /\ summary' = SetSummary(summary, s, SummaryOf(findings))
  /\ direct' = direct \cup {s}
  /\ scans' = scans + 1
  /\ UNCHANGED <<status, mirror, caches, alerted, found, recentSpans, recentTraces,
                 forgotSpans, forgotTraces, visited, failed, prompted>>

Next ==
  \E s \in Spans :
    \/ Start(s)
    \/ End(s)
    \/ \E ctx \in Contexts, reply \in LlmReplies, content \in ContentFindings :
         Scan(s, ctx, reply, content)
    \/ \E findings \in DirectEvents : RecordEvents(s, findings)

Spec == Init /\ [][Next]_vars

-----------------------------------------------------------------------------
(* Properties. *)

SpanStatus == {"unstarted", "recording", "ended"}
Summary == [count : Nat, max_severity : Severity, types : SUBSET EventType]
Scratch == [sequence : SequenceState, cost : CostState]

SpanTypes ==
  /\ status \in [Spans -> SpanStatus]
  /\ events \in [Spans -> Seq(SecurityEvent)]
  /\ summary \in [Spans -> Summary]
  /\ mirror \in [Spans -> Summary]
  /\ spanOrder \in Seq(Spans)
  /\ accumulated \in [Spans -> Seq(SecurityEvent)]
  /\ alerted \in [Spans -> Seq(SecurityEvent)]
  /\ found \in [Spans -> Seq(SecurityEvent)]
  /\ recentSpans \in [Spans -> SUBSET Spans]
  /\ forgotSpans \subseteq Spans
  /\ direct \subseteq Spans

TraceTypes ==
  /\ traceOrder \in Seq(Traces)
  /\ scratch \in [Traces -> Scratch]
  /\ recentTraces \in [Traces -> SUBSET Traces]
  /\ forgotTraces \subseteq Traces
  /\ visited \subseteq Traces
  /\ failed \subseteq Traces
  /\ prompted \in [Traces -> Nat]
  /\ scans \in 0 .. MaxScans

\* Types of the spans' attributes, the caches and the history.
TypeOK == SpanTypes /\ TraceTypes

\* The span cache is an exact LRU of the spans with findings: a span's list is
\* kept precisely as long as fewer than MaxSpans other spans had findings since,
\* so the cache is bounded and never drops a span that is still in use.
SpanCacheExact ==
  \A s \in Spans :
    found[s] # <<>> => (Cached(spanOrder, s) <=> Cardinality(recentSpans[s]) < MaxSpans)

\* The same for the scratch of a trace, which every scan of the trace renews.
TraceCacheExact ==
  \A t \in visited :
    Cached(traceOrder, t) <=> Cardinality(recentTraces[t]) < MaxTraces

\* "summary attributes stay correct when one span is scanned several times"
\* (pipeline.py:5), as far as the cache allows: the summary is that of every
\* event on the span as long as fewer than MaxSpans other spans had findings
\* between two findings of this one; on a live span, only as long.
SummaryExact ==
  \A s \in Spans \ direct :
    /\ events[s] # <<>> /\ s \notin forgotSpans => summary[s] = SummaryOf(events[s])
    /\ status[s] = "recording" /\ s \in forgotSpans => summary[s].count < Len(events[s])

\* Where an event of the rule reached the sinks: spans of the trace, and indexes.
Alerts(t, rule) ==
  UNION {{<<s, i>> : i \in {j \in DOMAIN alerted[s] : alerted[s][j].rule = rule}} :
         s \in {u \in Spans : TraceOf[u] = t}}

\* "one event per anomaly class per trace" (sequence.py:52): over all spans of a
\* trace an anomaly is reported once, provided that fewer than MaxTraces other
\* traces were scanned between two scans of this one.
OncePerTrace ==
  \A t \in Traces \ forgotTraces, rule \in TraceRule : Cardinality(Alerts(t, rule)) <= 1

Flagged(t) == scratch[t].sequence.flagged \cup scratch[t].cost.flagged

\* What a stateful detector has marked as reported in a trace has been reported:
\* a rule is in a "flagged" set only if its event reached a span of the trace and
\* the sinks.  A call that fails in between silences the rule for good.
FlaggedIsAlerted ==
  \A t \in Traces : \A rule \in Flagged(t) : Alerts(t, rule) # {}

\* Only a scan that raises silences a rule, and only in its own trace: evictions,
\* spans that have ended and failures of other traces' scans lose no anomaly.
FlaggedUnlessFailed ==
  \A t \in Traces \ failed : \A rule \in Flagged(t) : Alerts(t, rule) # {}

\* The budget alarm of a trace never goes off before the first prompt beyond the
\* budget, and with that prompt it does, whichever spans of the trace the prompts
\* were on and whatever other traces did in between, as long as the trace's
\* scratch was kept and none of its scans raised.
BudgetAlarmExact ==
  \A t \in Traces :
    LET alarm == Alerts(t, "llm_call_budget_exceeded") # {}
    IN  /\ alarm => prompted[t] > CallBudget
        /\ prompted[t] > CallBudget /\ t \notin forgotTraces \cup failed => alarm

\* What a backend sees of the spans is a behaviour of FindingLedger, which
\* remembers MaxSpans spans: caches, detectors and their failures do not show.
Ledger == INSTANCE FindingLedger WITH
  Memory <- MaxSpans, status <- status, events <- events, summary <- summary,
  direct <- direct
LedgerSpec == Ledger!Spec

-----------------------------------------------------------------------------
(* The inductive invariant behind the theorems of PipelineProofs. *)

SpansUsed == {s \in Spans : found[s] # <<>>}

SpanLru == LruInv(spanOrder, recentSpans, SpansUsed, MaxSpans)
TraceLru == LruInv(traceOrder, recentTraces, visited, MaxTraces)

\* A cached list is complete, unless the span was forgotten in between.
ListsFollow ==
  \A s \in Spans :
    /\ ~Cached(spanOrder, s) => accumulated[s] = <<>>
    /\ Cached(spanOrder, s) /\ s \notin forgotSpans => accumulated[s] = found[s]
    /\ s \in forgotSpans => found[s] # <<>> /\ Len(accumulated[s]) < Len(found[s])

\* A live span carries what was found on it.
EventsFollow ==
  \A s \in Spans \ direct :
    /\ status[s] = "unstarted" => events[s] = <<>> /\ found[s] = <<>>
    /\ status[s] = "recording" => events[s] = found[s]

\* What is left of a list whose first n entries are forgotten.
Rest(list, n) == SubSeq(list, n + 1, Len(list))

\* A cached list is a tail of what was found, and only a span among more than
\* MaxSpans started ones is ever forgotten: what the ledger needs to know.
Started == {s \in Spans : status[s] # "unstarted"}
LedgerInv ==
  /\ \A s \in Spans : recentSpans[s] \subseteq Started \ {s}
  /\ forgotSpans # {} => Cardinality(Started) > MaxSpans
  /\ \A s \in Spans : \E n \in 0 .. Len(found[s]) : accumulated[s] = Rest(found[s], n)

\* How the flags and counters of a trace relate to what its spans reported.  With
\* nothing forgotten the scratch has counted every prompt and flagged every alert.
FlagsFollow(t) ==
  LET alarm == Alerts(t, "llm_call_budget_exceeded") # {}
      calls == scratch[t].cost.llm_calls
  IN  /\ ~Cached(traceOrder, t) => scratch[t] = Fresh
      /\ t \notin visited =>
           prompted[t] = 0 /\ \A rule \in TraceRule : Alerts(t, rule) = {}
      /\ calls <= prompted[t]
      /\ t \notin failed => \A rule \in Flagged(t) : Alerts(t, rule) # {}
      /\ alarm => prompted[t] > CallBudget
      /\ t \notin forgotTraces =>
           /\ \A rule \in TraceRule : \A x, y \in Alerts(t, rule) : x = y
           /\ Cached(traceOrder, t) =>
                /\ calls = prompted[t]
                /\ \A rule \in TraceRule : Alerts(t, rule) # {} => rule \in Flagged(t)
           /\ t \notin failed /\ prompted[t] > CallBudget => alarm

FlagsInv == \A t \in Traces : FlagsFollow(t)

SpanInv == SpanTypes /\ SpanLru /\ ListsFollow /\ EventsFollow /\ SummaryExact
TraceInv == TraceTypes /\ TraceLru
Inv == SpanInv /\ TraceInv
=============================================================================
