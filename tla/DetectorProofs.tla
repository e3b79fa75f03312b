--------------------------- MODULE DetectorProofs ---------------------------
(***************************************************************************)
(* Facts about the operators of Schema and TraceDetectors that the proofs  *)
(* of DetectorHistory and of Pipeline share.                               *)
(***************************************************************************)
EXTENDS TraceDetectors, SequenceTheorems, FiniteSetTheorems, TLAPS

\* There is a most severe event, and the summary has its type.
LEMMA SummaryType ==
  ASSUME NEW fs \in Seq(SecurityEvent), fs # <<>>
  PROVE  /\ SummaryOf(fs).count = Len(fs)
         /\ SummaryOf(fs) \in [count : Nat, max_severity : Severity, types : SUBSET EventType]
<1> DEFINE Ranks == {fs[i].severity : i \in DOMAIN fs}
<1>1. Len(fs) \in Nat /\ Len(fs) # 0 /\ DOMAIN fs = 1 .. Len(fs)
  BY LenProperties, EmptySeq
<1>2. \A i \in DOMAIN fs : fs[i] \in SecurityEvent
  BY <1>1, ElementOfSeq
<1>3. \A i \in DOMAIN fs : fs[i].severity \in 0 .. 3 /\ fs[i].type \in EventType
  BY <1>2 DEF SecurityEvent, Severity, LOW, CRITICAL
<1>4. Ranks \subseteq 0 .. 3 /\ Ranks # {}
  BY <1>1, <1>3
<1>5. \E r \in Ranks : \A q \in Ranks : q <= r
  <2> HIDE DEF Ranks
  <2>1. CASE 3 \in Ranks
    BY <1>4, <2>1
  <2>2. CASE 3 \notin Ranks /\ 2 \in Ranks
    BY <1>4, <2>2
  <2>3. CASE 3 \notin Ranks /\ 2 \notin Ranks /\ 1 \in Ranks
    BY <1>4, <2>3
  <2>4. CASE 3 \notin Ranks /\ 2 \notin Ranks /\ 1 \notin Ranks
    <3>1. \A q \in Ranks : q = 0
      BY <1>4, <2>4
    <3>2. PICK r \in Ranks : r = 0
      BY <1>4, <3>1
    <3>3. \A q \in Ranks : q <= r
      BY <3>1, <3>2
    <3> QED  BY <3>3
  <2> QED  BY <2>1, <2>2, <2>3, <2>4
<1>6. MaxSeverity(fs) \in 0 .. 3
  <2>1. \E r \in Ranks : \A i \in DOMAIN fs : fs[i].severity <= r
    BY <1>5
  <2>2. MaxSeverity(fs) \in Ranks
    BY <2>1 DEF MaxSeverity
  <2> QED  BY <1>4, <2>2
<1>7. {fs[i].type : i \in DOMAIN fs} \subseteq EventType
  BY <1>3
<1> QED  BY <1>1, <1>6, <1>7 DEF SummaryOf, Severity, LOW, CRITICAL

\* A list of findings is what add() makes it: one event of each fired rule.
LEMMA OnceType ==
  ASSUME NEW rule \in Rule, NEW fired, NEW type \in EventType, NEW severity \in Severity
  PROVE  Once(rule, fired, type, severity) \in Seq(SecurityEvent)
<1> DEFINE e == [type |-> type, severity |-> severity, rule |-> rule]
<1>1. e \in SecurityEvent
  BY DEF SecurityEvent
<1>2. <<>> \in Seq(SecurityEvent) /\ <<e>> \in Seq(SecurityEvent)
  <2> HIDE DEF e
  <2> QED  BY <1>1
<1> QED  BY <1>2 DEF Once

LEMMA SequenceFindingsType ==
  ASSUME NEW fired
  PROVE  SequenceFindings(fired) \in Seq(SecurityEvent)
<1> DEFINE a == Once("repeated_identical_call", fired, "anomalous_sequence", MEDIUM)
           b == Once("tool_ping_pong", fired, "anomalous_sequence", MEDIUM)
           c == Once("tool_fanout", fired, "anomalous_sequence", MEDIUM)
<1>1. /\ SequenceRule \subseteq Rule
      /\ "anomalous_sequence" \in EventType
      /\ MEDIUM \in Severity
  BY DEF Rule, TraceRule, EventType, Severity, MEDIUM, LOW, CRITICAL
<1>2. a \in Seq(SecurityEvent) /\ b \in Seq(SecurityEvent) /\ c \in Seq(SecurityEvent)
  BY <1>1, OnceType DEF SequenceRule
<1> HIDE DEF a, b, c
<1>3. a \o b \o c \in Seq(SecurityEvent)
  BY <1>2, ConcatProperties
<1> QED  BY <1>3 DEF SequenceFindings, a, b, c

LEMMA CostFindingsType ==
  ASSUME NEW fired
  PROVE  CostFindings(fired) \in Seq(SecurityEvent)
<1> DEFINE a == Once("llm_call_budget_exceeded", fired, "cost_anomaly", HIGH)
           b == Once("repeated_identical_prompt", fired, "loop_anomaly", HIGH)
<1>1. /\ CostRule \subseteq Rule
      /\ "cost_anomaly" \in EventType /\ "loop_anomaly" \in EventType
      /\ HIGH \in Severity
  BY DEF Rule, TraceRule, EventType, Severity, HIGH, LOW, CRITICAL
<1>2. a \in Seq(SecurityEvent) /\ b \in Seq(SecurityEvent)
  BY <1>1, OnceType DEF CostRule
<1> HIDE DEF a, b
<1>3. a \o b \in Seq(SecurityEvent)
  BY <1>2, ConcatProperties
<1> QED  BY <1>3 DEF CostFindings, a, b

-----------------------------------------------------------------------------
(* Lists of findings. *)

RulesOf(fs) == {fs[i].rule : i \in DOMAIN fs}
Distinct(fs) == \A i, j \in DOMAIN fs : fs[i].rule = fs[j].rule => i = j

LEMMA ConcatRules ==
  ASSUME NEW S, NEW a \in Seq(S), NEW b \in Seq(S)
  PROVE  /\ RulesOf(a \o b) = RulesOf(a) \cup RulesOf(b)
         /\ Distinct(a) /\ Distinct(b) /\ RulesOf(a) \cap RulesOf(b) = {} => Distinct(a \o b)
<1> DEFINE m == Len(a)
           n == Len(b)
           c == a \o b
<1>1. m \in Nat /\ n \in Nat /\ DOMAIN a = 1 .. m /\ DOMAIN b = 1 .. n
  BY LenProperties
<1>2. c \in Seq(S) /\ Len(c) = m + n
      /\ \A i \in 1 .. m + n : c[i] = IF i <= m THEN a[i] ELSE b[i - m]
  BY ConcatProperties
<1>3. DOMAIN c = 1 .. m + n
  BY <1>2, LenProperties
<1> HIDE DEF m, n, c
<1>4. \A i \in 1 .. m + n : (i \in 1 .. m /\ c[i] = a[i]) \/ (i - m \in 1 .. n /\ c[i] = b[i - m])
  BY <1>1, <1>2
<1>5. \A i \in 1 .. m : i \in 1 .. m + n /\ c[i] = a[i]
  BY <1>1, <1>2
<1>6. \A i \in 1 .. n : i + m \in 1 .. m + n /\ c[i + m] = b[i]
  <2> TAKE i \in 1 .. n
  <2>1. i + m \in 1 .. m + n /\ ~(i + m <= m) /\ (i + m) - m = i
    BY <1>1
  <2> QED  BY <1>2, <2>1
<1>7. RulesOf(c) \subseteq RulesOf(a) \cup RulesOf(b)
  BY <1>1, <1>3, <1>4 DEF RulesOf
<1>8. RulesOf(a) \subseteq RulesOf(c)
  BY <1>1, <1>3, <1>5 DEF RulesOf
<1>9. RulesOf(b) \subseteq RulesOf(c)
  <2> SUFFICES ASSUME NEW i \in 1 .. n
               PROVE  b[i].rule \in RulesOf(c)
    BY <1>1 DEF RulesOf
  <2>1. i + m \in DOMAIN c /\ c[i + m].rule = b[i].rule
    BY <1>3, <1>6
  <2> QED  BY <2>1 DEF RulesOf
<1>10. ASSUME Distinct(a), Distinct(b), RulesOf(a) \cap RulesOf(b) = {}
       PROVE  Distinct(c)
  <2> SUFFICES ASSUME NEW i \in 1 .. m + n, NEW j \in 1 .. m + n, c[i].rule = c[j].rule
               PROVE  i = j
    BY <1>3 DEF Distinct
  <2>1. \A k \in 1 .. m : a[k].rule \in RulesOf(a)
    BY <1>1 DEF RulesOf
  <2>2. \A k \in 1 .. n : b[k].rule \in RulesOf(b)
    BY <1>1 DEF RulesOf
  <2>3. CASE i \in 1 .. m /\ c[i] = a[i] /\ j \in 1 .. m /\ c[j] = a[j]
    BY <1>1, <1>10, <2>3 DEF Distinct
  <2>4. CASE i - m \in 1 .. n /\ c[i] = b[i - m] /\ j - m \in 1 .. n /\ c[j] = b[j - m]
    <3>1. i - m = j - m
      BY <1>1, <1>10, <2>4 DEF Distinct
    <3> QED  BY <1>1, <3>1
  <2>5. CASE i \in 1 .. m /\ c[i] = a[i] /\ j - m \in 1 .. n /\ c[j] = b[j - m]
    BY <1>10, <2>1, <2>2, <2>5
  <2>6. CASE i - m \in 1 .. n /\ c[i] = b[i - m] /\ j \in 1 .. m /\ c[j] = a[j]
    BY <1>10, <2>1, <2>2, <2>6
  <2> QED  BY <1>4, <2>3, <2>4, <2>5, <2>6
<1> QED  BY <1>7, <1>8, <1>9, <1>10 DEF c

LEMMA OnceRules ==
  ASSUME NEW rule, NEW fired, NEW type, NEW severity
  PROVE  /\ RulesOf(Once(rule, fired, type, severity)) = fired \cap {rule}
         /\ Distinct(Once(rule, fired, type, severity))
<1>1. CASE rule \in fired
  <2>1. Once(rule, fired, type, severity) = <<[type |-> type, severity |-> severity, rule |-> rule]>>
    BY <1>1 DEF Once
  <2> QED  BY <1>1, <2>1 DEF RulesOf, Distinct
<1>2. CASE rule \notin fired
  BY <1>2 DEF Once, RulesOf, Distinct
<1> QED  BY <1>1, <1>2

\* The events a detector returns are one for each rule that fired.
LEMMA SequenceFindingsRules ==
  ASSUME NEW fired \in SUBSET SequenceRule
  PROVE  RulesOf(SequenceFindings(fired)) = fired /\ Distinct(SequenceFindings(fired))
<1> DEFINE a == Once("repeated_identical_call", fired, "anomalous_sequence", MEDIUM)
           b == Once("tool_ping_pong", fired, "anomalous_sequence", MEDIUM)
           c == Once("tool_fanout", fired, "anomalous_sequence", MEDIUM)
<1>1. /\ SequenceRule \subseteq Rule
      /\ "anomalous_sequence" \in EventType
      /\ MEDIUM \in Severity
  BY DEF Rule, TraceRule, EventType, Severity, MEDIUM, LOW, CRITICAL
<1>2. a \in Seq(SecurityEvent) /\ b \in Seq(SecurityEvent) /\ c \in Seq(SecurityEvent)
  BY <1>1, OnceType DEF SequenceRule
<1>3. /\ RulesOf(a) = fired \cap {"repeated_identical_call"} /\ Distinct(a)
      /\ RulesOf(b) = fired \cap {"tool_ping_pong"} /\ Distinct(b)
      /\ RulesOf(c) = fired \cap {"tool_fanout"} /\ Distinct(c)
  BY OnceRules
<1> HIDE DEF a, b, c
<1>4. /\ a \o b \in Seq(SecurityEvent)
      /\ RulesOf(a \o b) = fired \cap {"repeated_identical_call", "tool_ping_pong"}
      /\ Distinct(a \o b)
  <2>1. a \o b \in Seq(SecurityEvent)
    BY <1>2, ConcatProperties
  <2>2. RulesOf(a) \cap RulesOf(b) = {}
    BY <1>3
  <2>3. RulesOf(a \o b) = RulesOf(a) \cup RulesOf(b) /\ Distinct(a \o b)
    BY <1>2, <1>3, <2>2, ConcatRules
  <2>4. RulesOf(a) \cup RulesOf(b) = fired \cap {"repeated_identical_call", "tool_ping_pong"}
    BY <1>3
  <2> QED  BY <2>1, <2>3, <2>4
<1>5. RulesOf((a \o b) \o c) = fired /\ Distinct((a \o b) \o c)
  <2>1. RulesOf(a \o b) \cap RulesOf(c) = {}
    BY <1>3, <1>4
  <2>2. RulesOf((a \o b) \o c) = RulesOf(a \o b) \cup RulesOf(c) /\ Distinct((a \o b) \o c)
    <3> DEFINE d == a \o b
    <3>1. /\ d \in Seq(SecurityEvent) /\ c \in Seq(SecurityEvent)
          /\ Distinct(d) /\ Distinct(c) /\ RulesOf(d) \cap RulesOf(c) = {}
      BY <1>2, <1>3, <1>4, <2>1
    <3> HIDE DEF d
    <3>2. RulesOf(d \o c) = RulesOf(d) \cup RulesOf(c) /\ Distinct(d \o c)
      BY <3>1, ConcatRules
    <3> QED  BY <3>2 DEF d
  <2>3. RulesOf(a \o b) \cup RulesOf(c) = fired
    BY <1>3, <1>4 DEF SequenceRule
  <2> QED  BY <2>2, <2>3
<1> QED  BY <1>5 DEF SequenceFindings, a, b, c

LEMMA CostFindingsRules ==
  ASSUME NEW fired \in SUBSET CostRule
  PROVE  RulesOf(CostFindings(fired)) = fired /\ Distinct(CostFindings(fired))
<1> DEFINE a == Once("llm_call_budget_exceeded", fired, "cost_anomaly", HIGH)
           b == Once("repeated_identical_prompt", fired, "loop_anomaly", HIGH)
<1>1. /\ CostRule \subseteq Rule
      /\ "cost_anomaly" \in EventType /\ "loop_anomaly" \in EventType
      /\ HIGH \in Severity
  BY DEF Rule, TraceRule, EventType, Severity, HIGH, LOW, CRITICAL
<1>2. a \in Seq(SecurityEvent) /\ b \in Seq(SecurityEvent)
  BY <1>1, OnceType DEF CostRule
<1>3. /\ RulesOf(a) = fired \cap {"llm_call_budget_exceeded"} /\ Distinct(a)
      /\ RulesOf(b) = fired \cap {"repeated_identical_prompt"} /\ Distinct(b)
  BY OnceRules
<1> HIDE DEF a, b
<1>4. RulesOf(a) \cap RulesOf(b) = {}
  BY <1>3
<1>5. RulesOf(a \o b) = RulesOf(a) \cup RulesOf(b) /\ Distinct(a \o b)
  BY <1>2, <1>3, <1>4, ConcatRules
<1>6. RulesOf(a) \cup RulesOf(b) = fired
  BY <1>3 DEF CostRule
<1> QED  BY <1>5, <1>6 DEF CostFindings, a, b

-----------------------------------------------------------------------------
(* The scans of the two detectors. *)

\* Counting a call keeps the type of the state.
LEMMA CountCallType ==
  ASSUME NEW state \in SequenceState, NEW ctx \in ScanContext, WatchesCall(ctx)
  PROVE  CountCall(state, ctx) \in SequenceState
<1>1. ctx.tool \in Tools /\ ctx.text \in Texts
  BY DEF WatchesCall, ScanContext
<1>2. <<ctx.tool, ctx.text>> \in CallKey
  BY <1>1 DEF CallKey
<1>3. /\ state.order \in Seq(Tools)
      /\ state.calls \in [CallKey -> Nat]
      /\ state.flagged \in SUBSET SequenceRule
  BY DEF SequenceState
<1>4. Append(state.order, ctx.tool) \in Seq(Tools)
  BY <1>1, <1>3, AppendProperties
<1>5. [state.calls EXCEPT ![<<ctx.tool, ctx.text>>] = @ + 1] \in [CallKey -> Nat]
  BY <1>2, <1>3
<1> QED  BY <1>3, <1>4, <1>5 DEF CountCall, SequenceState

\* What a scan by the sequence detector returns.
LEMMA SequenceScanType ==
  ASSUME NEW state \in SequenceState, NEW ctx \in ScanContext
  PROVE  /\ SequenceScan(state, ctx).state \in SequenceState
         /\ SequenceScan(state, ctx).findings \in Seq(SecurityEvent)
<1> DEFINE counted == CountCall(state, ctx)
           fired == SequenceFired(counted, ctx)
<1>1. CASE WatchesCall(ctx)
  <2>1. counted \in SequenceState
    BY <1>1, CountCallType
  <2>2. fired \subseteq SequenceRule
    BY DEF SequenceFired, SequenceAnomalies, SequenceRule
  <2>3. SequenceFindings(fired) \in Seq(SecurityEvent)
    BY SequenceFindingsType
  <2>4. SequenceScan(state, ctx) = [state |-> [counted EXCEPT !.flagged = @ \cup fired],
                                    findings |-> SequenceFindings(fired)]
    BY <1>1 DEF SequenceScan
  <2> HIDE DEF counted, fired
  <2>5. [counted EXCEPT !.flagged = @ \cup fired] \in SequenceState
    BY <2>1, <2>2 DEF SequenceState
  <2> QED  BY <2>3, <2>4, <2>5
<1>2. CASE ~WatchesCall(ctx)
  BY <1>2, EmptySeq DEF SequenceScan
<1> QED  BY <1>1, <1>2

\* Counting a prompt keeps the type of the state.
LEMMA CountPromptType ==
  ASSUME NEW state \in CostState, NEW ctx \in ScanContext
  PROVE  CountPrompt(state, ctx) \in CostState
<1>1. ctx.text \in Texts
  BY DEF ScanContext
<1>2. /\ state.llm_calls \in Nat
      /\ state.prompts \in [Texts -> Nat]
      /\ state.flagged \in SUBSET CostRule
  BY DEF CostState
<1>3. [state.prompts EXCEPT ![ctx.text] = @ + 1] \in [Texts -> Nat]
  BY <1>1, <1>2
<1> QED  BY <1>2, <1>3 DEF CountPrompt, CostState

\* What a scan by the cost detector returns.
LEMMA CostScanType ==
  ASSUME NEW state \in CostState, NEW ctx \in ScanContext
  PROVE  /\ CostScan(state, ctx).state \in CostState
         /\ CostScan(state, ctx).findings \in Seq(SecurityEvent)
<1> DEFINE counted == CountPrompt(state, ctx)
           fired == CostFired(counted, ctx)
<1>1. CASE WatchesPrompt(ctx)
  <2>1. counted \in CostState
    BY CountPromptType
  <2>2. fired \subseteq CostRule
    BY DEF CostFired, CostAnomalies, CostRule
  <2>3. CostFindings(fired) \in Seq(SecurityEvent)
    BY CostFindingsType
  <2>4. CostScan(state, ctx) = [state |-> [counted EXCEPT !.flagged = @ \cup fired],
                                findings |-> CostFindings(fired)]
    BY <1>1 DEF CostScan
  <2> HIDE DEF counted, fired
  <2>5. [counted EXCEPT !.flagged = @ \cup fired] \in CostState
    BY <2>1, <2>2 DEF CostState
  <2> QED  BY <2>3, <2>4, <2>5
<1>2. CASE ~WatchesPrompt(ctx)
  BY <1>2, EmptySeq DEF CostScan
<1> QED  BY <1>1, <1>2

\* The states the detectors start a trace with.
LEMMA InitialStates == SequenceInit \in SequenceState /\ CostInit \in CostState
  BY EmptySeq DEF SequenceInit, SequenceState, CostInit, CostState
=============================================================================
