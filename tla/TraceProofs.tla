----------------------------- MODULE TraceProofs -----------------------------
(***************************************************************************)
(* One trace, for every set of tools and texts and every admissible        *)
(* threshold: the detectors against the history (DetectorHistory), where   *)
(* flags are exactly the anomalies the whole trace shows and each is       *)
(* raised once, and the scans of an agent's adapters (AgentRun), which are *)
(* such a history and relate it to the calls the agent made.               *)
(***************************************************************************)
EXTENDS AgentRun, DetectorProofs

-----------------------------------------------------------------------------
(* Appending one entry to a history. *)

LEMMA AppendEntry ==
  ASSUME NEW S, NEW h \in Seq(S), NEW v \in S
  PROVE  /\ Len(h) \in Nat
         /\ DOMAIN h = 1 .. Len(h)
         /\ Append(h, v) \in Seq(S)
         /\ Len(Append(h, v)) = Len(h) + 1
         /\ DOMAIN Append(h, v) = 1 .. Len(h) + 1
         /\ \A i \in 1 .. Len(h) : Append(h, v)[i] = h[i]
         /\ Append(h, v)[Len(h) + 1] = v
<1>1. Append(h, v) \in Seq(S) /\ Len(Append(h, v)) = Len(h) + 1
  BY AppendProperties
<1>2. DOMAIN h = 1 .. Len(h) /\ DOMAIN Append(h, v) = 1 .. Len(Append(h, v))
  BY <1>1, LenProperties
<1> QED  BY <1>1, <1>2, AppendProperties, LenProperties

\* Occurrences are finitely many, and the new entry adds one to its own.
LEMMA AppendOccurrences ==
  ASSUME NEW S, NEW h \in Seq(S), NEW v \in S, NEW w
  PROVE  /\ Cardinality(Occurrences(h, w)) \in Nat
         /\ Cardinality(Occurrences(Append(h, v), w)) =
              IF w = v THEN Cardinality(Occurrences(h, w)) + 1
              ELSE Cardinality(Occurrences(h, w))
<1> DEFINE n == Len(h)
           g == Append(h, v)
<1>1. /\ n \in Nat /\ DOMAIN h = 1 .. n /\ DOMAIN g = 1 .. n + 1
      /\ \A i \in 1 .. n : g[i] = h[i]
      /\ g[n + 1] = v
  BY AppendEntry
<1>2. Occurrences(h, w) \subseteq 1 .. n
  BY <1>1 DEF Occurrences
<1> HIDE DEF n, g
<1>3. IsFiniteSet(Occurrences(h, w)) /\ Cardinality(Occurrences(h, w)) \in Nat
  <2>1. IsFiniteSet(1 .. n)
    BY <1>1, FS_Interval
  <2>2. IsFiniteSet(Occurrences(h, w))
    BY <1>2, <2>1, FS_Subset
  <2> QED  BY <2>2, FS_CardinalityType
<1>4. Occurrences(g, w) = IF w = v THEN Occurrences(h, w) \cup {n + 1} ELSE Occurrences(h, w)
  <2>1. \A i \in 1 .. n + 1 : i \in 1 .. n \/ i = n + 1
    BY <1>1
  <2>2. \A i \in 1 .. n : i \in 1 .. n + 1
    BY <1>1
  <2>3. n + 1 \in 1 .. n + 1
    BY <1>1
  <2> QED  BY <1>1, <2>1, <2>2, <2>3 DEF Occurrences
<1>5. n + 1 \notin Occurrences(h, w)
  BY <1>1, <1>2
<1>6. Cardinality(Occurrences(h, w) \cup {n + 1}) = Cardinality(Occurrences(h, w)) + 1
  BY <1>3, <1>5, FS_AddElement
<1> QED  BY <1>3, <1>4, <1>6 DEF g

-----------------------------------------------------------------------------
(* What one more entry adds to the anomalies of a history. *)

\* A loop of identical calls shows first at the key just counted.
LEMMA CallLoopGrows ==
  ASSUME NEW h \in Seq(CallKey), NEW k \in CallKey
  PROVE  CallLoopShown(Append(h, k)) <=>
           \/ CallLoopShown(h)
           \/ Cardinality(Occurrences(Append(h, k), k)) >= RepeatThreshold
<1> DEFINE Old(w) == Cardinality(Occurrences(h, w))
           New(w) == Cardinality(Occurrences(Append(h, k), w))
<1>1. \A w : Old(w) \in Nat /\ New(w) = IF w = k THEN Old(w) + 1 ELSE Old(w)
  BY AppendOccurrences
<1>2. RepeatThreshold \in Nat
  BY ThresholdAssumption
<1>3. (CallLoopShown(h) <=> \E w \in CallKey : Old(w) >= RepeatThreshold)
      /\ (CallLoopShown(Append(h, k)) <=> \E w \in CallKey : New(w) >= RepeatThreshold)
  BY DEF CallLoopShown
<1> HIDE DEF Old, New
<1>4. \A w \in CallKey : Old(w) >= RepeatThreshold => New(w) >= RepeatThreshold
  BY <1>1, <1>2
<1>5. \A w \in CallKey : New(w) >= RepeatThreshold =>
                          Old(w) >= RepeatThreshold \/ New(k) >= RepeatThreshold
  BY <1>1, <1>2
<1>6. CallLoopShown(Append(h, k)) <=> CallLoopShown(h) \/ New(k) >= RepeatThreshold
  BY <1>3, <1>4, <1>5
<1> QED  BY <1>6 DEF New

\* The same for prompts.
LEMMA PromptLoopGrows ==
  ASSUME NEW h \in Seq(Texts), NEW k \in Texts
  PROVE  PromptLoopShown(Append(h, k)) <=>
           \/ PromptLoopShown(h)
           \/ Cardinality(Occurrences(Append(h, k), k)) >= RepeatThreshold
<1> DEFINE Old(w) == Cardinality(Occurrences(h, w))
           New(w) == Cardinality(Occurrences(Append(h, k), w))
<1>1. \A w : Old(w) \in Nat /\ New(w) = IF w = k THEN Old(w) + 1 ELSE Old(w)
  BY AppendOccurrences
<1>2. RepeatThreshold \in Nat
  BY ThresholdAssumption
<1>3. (PromptLoopShown(h) <=> \E w \in Texts : Old(w) >= RepeatThreshold)
      /\ (PromptLoopShown(Append(h, k)) <=> \E w \in Texts : New(w) >= RepeatThreshold)
  BY DEF PromptLoopShown
<1> HIDE DEF Old, New
<1>4. \A w \in Texts : Old(w) >= RepeatThreshold => New(w) >= RepeatThreshold
  BY <1>1, <1>2
<1>5. \A w \in Texts : New(w) >= RepeatThreshold =>
                        Old(w) >= RepeatThreshold \/ New(k) >= RepeatThreshold
  BY <1>1, <1>2
<1>6. PromptLoopShown(Append(h, k)) <=> PromptLoopShown(h) \/ New(k) >= RepeatThreshold
  BY <1>3, <1>4, <1>5
<1> QED  BY <1>6 DEF New

\* order is the list of the tools of the calls in h.
Follows(order, h) ==
  /\ order \in Seq(Tools)
  /\ Len(order) = Len(h)
  /\ \A i \in 1 .. Len(h) : order[i] = h[i][1]

LEMMA FollowsGrows ==
  ASSUME NEW h \in Seq(CallKey), NEW k \in CallKey, NEW order, Follows(order, h)
  PROVE  Follows(Append(order, k[1]), Append(h, k))
<1> DEFINE n == Len(h)
           g == Append(h, k)
           o == Append(order, k[1])
<1>1. k[1] \in Tools
  BY DEF CallKey
<1>2. /\ n \in Nat /\ Len(g) = n + 1 /\ g[n + 1] = k
      /\ \A i \in 1 .. n : g[i] = h[i]
  BY AppendEntry
<1>3. /\ o \in Seq(Tools) /\ Len(o) = n + 1 /\ o[n + 1] = k[1]
      /\ \A i \in 1 .. n : o[i] = order[i]
  BY <1>1, AppendEntry DEF Follows
<1>4. \A i \in 1 .. n : order[i] = h[i][1]
  BY DEF Follows
<1> HIDE DEF n, g, o
<1>5. \A i \in 1 .. n + 1 : o[i] = g[i][1]
  <2>1. \A i \in 1 .. n + 1 : i \in 1 .. n \/ i = n + 1
    BY <1>2
  <2> QED  BY <1>2, <1>3, <1>4, <2>1
<1>6. Follows(o, g)
  BY <1>2, <1>3, <1>5 DEF Follows
<1> QED  BY <1>6 DEF o, g

\* A ping-pong is new exactly when the last four calls form it.
LEMMA PingPongGrows ==
  ASSUME NEW h \in Seq(CallKey), NEW k \in CallKey, NEW order, Follows(order, Append(h, k))
  PROVE  PingPongShown(Append(h, k)) <=> PingPongShown(h) \/ PingPong(order)
<1> DEFINE n == Len(h)
           g == Append(h, k)
           At(f, i) == /\ f[i][1] = f[i + 2][1]
                       /\ f[i + 1][1] = f[i + 3][1]
                       /\ f[i][1] # f[i + 1][1]
<1>1. /\ n \in Nat /\ DOMAIN h = 1 .. n
      /\ Len(g) = n + 1 /\ DOMAIN g = 1 .. n + 1
      /\ \A i \in 1 .. n : g[i] = h[i]
  BY AppendEntry
<1>2. Len(order) = n + 1 /\ \A i \in 1 .. n + 1 : order[i] = g[i][1]
  BY <1>1 DEF Follows
<1>3. /\ PingPongShown(h) <=> \E i \in DOMAIN h : i + 3 \in DOMAIN h /\ At(h, i)
      /\ PingPongShown(g) <=> \E i \in DOMAIN g : i + 3 \in DOMAIN g /\ At(g, i)
  BY DEF PingPongShown
<1> HIDE DEF n, g
<1>4. \A i \in 1 .. n : i + 3 \in 1 .. n => (At(h, i) <=> At(g, i))
  <2> SUFFICES ASSUME NEW i \in 1 .. n, i + 3 \in 1 .. n
               PROVE  At(h, i) <=> At(g, i)
    OBVIOUS
  <2>1. i + 1 \in 1 .. n /\ i + 2 \in 1 .. n
    BY <1>1
  <2>2. g[i] = h[i] /\ g[i + 1] = h[i + 1] /\ g[i + 2] = h[i + 2] /\ g[i + 3] = h[i + 3]
    BY <1>1, <2>1
  <2> QED  BY <2>2
<1>5. n >= 3 => (PingPong(order) <=> At(g, n - 2))
  <2> SUFFICES ASSUME n >= 3
               PROVE  PingPong(order) <=> At(g, n - 2)
    OBVIOUS
  <2>1. /\ n + 1 >= 4
        /\ (n + 1) - 3 = n - 2 /\ (n + 1) - 1 = n /\ (n + 1) - 2 = n - 1
        /\ (n - 2) + 1 = n - 1 /\ (n - 2) + 2 = n /\ (n - 2) + 3 = n + 1
        /\ n - 2 \in 1 .. n + 1 /\ n - 1 \in 1 .. n + 1 /\ n \in 1 .. n + 1 /\ n + 1 \in 1 .. n + 1
    BY <1>1
  <2>2. PingPong(order) <=> /\ order[n - 2] = order[n]
                            /\ order[n - 1] = order[n + 1]
                            /\ order[n + 1] # order[n]
    BY <1>2, <2>1 DEF PingPong
  <2>3. /\ order[n - 2] = g[n - 2][1] /\ order[n - 1] = g[n - 1][1]
        /\ order[n] = g[n][1] /\ order[n + 1] = g[n + 1][1]
    BY <1>2, <2>1
  <2>4. At(g, n - 2) <=> /\ g[n - 2][1] = g[n][1]
                         /\ g[n - 1][1] = g[n + 1][1]
                         /\ g[n - 2][1] # g[n - 1][1]
    BY <2>1
  <2> HIDE DEF At
  <2> QED  BY <2>2, <2>3, <2>4
<1>6. PingPong(order) => n >= 3
  BY <1>1, <1>2 DEF PingPong
<1> HIDE DEF At
<1>7. PingPongShown(h) => PingPongShown(g)
  <2> SUFFICES ASSUME NEW i \in 1 .. n, i + 3 \in 1 .. n, At(h, i)
               PROVE  PingPongShown(g)
    BY <1>1, <1>3
  <2>1. i \in DOMAIN g /\ i + 3 \in DOMAIN g
    BY <1>1
  <2> QED  BY <1>3, <1>4, <2>1
<1>8. PingPong(order) => PingPongShown(g)
  <2> SUFFICES ASSUME PingPong(order)
               PROVE  PingPongShown(g)
    OBVIOUS
  <2>1. n >= 3 /\ At(g, n - 2)
    BY <1>5, <1>6
  <2>2. n - 2 \in DOMAIN g /\ (n - 2) + 3 \in DOMAIN g
    BY <1>1, <2>1
  <2> QED  BY <1>3, <2>1, <2>2
<1>9. PingPongShown(g) => PingPongShown(h) \/ PingPong(order)
  <2> SUFFICES ASSUME NEW i \in 1 .. n + 1, i + 3 \in 1 .. n + 1, At(g, i)
               PROVE  PingPongShown(h) \/ PingPong(order)
    BY <1>1, <1>3
  <2>1. CASE i + 3 \in 1 .. n
    <3>1. i \in 1 .. n
      BY <1>1, <2>1
    <3> QED  BY <1>1, <1>3, <1>4, <2>1, <3>1
  <2>2. CASE i + 3 = n + 1
    <3>1. i = n - 2 /\ n >= 3
      BY <1>1, <2>2
    <3> QED  BY <1>5, <3>1
  <2> QED  BY <1>1, <2>1, <2>2
<1> QED  BY <1>7, <1>8, <1>9 DEF g

\* Fan-out is judged on the order, and never goes back.
LEMMA FanoutGrows ==
  ASSUME NEW h \in Seq(CallKey), NEW k \in CallKey, NEW order, Follows(order, Append(h, k))
  PROVE  /\ FanoutShown(Append(h, k)) <=> FannedOut(order)
         /\ FanoutShown(h) => FanoutShown(Append(h, k))
<1> DEFINE n == Len(h)
           g == Append(h, k)
<1>1. /\ n \in Nat /\ DOMAIN h = 1 .. n
      /\ Len(g) = n + 1 /\ DOMAIN g = 1 .. n + 1
      /\ \A i \in 1 .. n : g[i] = h[i] /\ i \in 1 .. n + 1
  BY AppendEntry
<1>2. /\ order \in Seq(Tools) /\ DOMAIN order = 1 .. n + 1
      /\ \A i \in 1 .. n + 1 : order[i] = g[i][1]
  BY <1>1, LenProperties DEF Follows
<1> HIDE DEF n, g
<1>3. ToolsOf(g) = {order[i] : i \in DOMAIN order}
  BY <1>1, <1>2 DEF ToolsOf
<1>4. ToolsOf(h) \subseteq ToolsOf(g)
  BY <1>1 DEF ToolsOf
<1>5. IsFiniteSet(ToolsOf(g))
  <2>1. IsFiniteSet(1 .. n + 1)
    BY <1>1, FS_Interval
  <2>2. order \in [1 .. n + 1 -> ToolsOf(g)]
    BY <1>2, <1>3
  <2>3. order \in Surjection(1 .. n + 1, ToolsOf(g))
    BY <1>2, <1>3, <2>2 DEF Surjection
  <2> QED  BY <2>1, <2>3, FS_Surjection
<1>6. /\ Cardinality(ToolsOf(h)) \in Nat /\ Cardinality(ToolsOf(g)) \in Nat
      /\ Cardinality(ToolsOf(h)) <= Cardinality(ToolsOf(g))
  BY <1>4, <1>5, FS_Subset, FS_CardinalityType
<1>7. FanoutThreshold \in Nat
  BY ThresholdAssumption
<1>8. FanoutShown(h) => FanoutShown(g)
  BY <1>6, <1>7 DEF FanoutShown
<1> QED  BY <1>3, <1>8 DEF FanoutShown, FannedOut, g

-----------------------------------------------------------------------------
(* A detector whose state agrees with a history, and the scan that keeps it *)
(* so: it raises one event for each anomaly the new entry completes.        *)

SequenceAgrees(state, h) ==
  /\ state \in SequenceState
  /\ Follows(state.order, h)
  /\ \A k \in CallKey : state.calls[k] = Cardinality(Occurrences(h, k))
  /\ "repeated_identical_call" \in state.flagged <=> CallLoopShown(h)
  /\ "tool_ping_pong" \in state.flagged <=> PingPongShown(h)
  /\ "tool_fanout" \in state.flagged <=> FanoutShown(h)

LEMMA SequenceStep ==
  ASSUME NEW state, NEW h \in Seq(CallKey), SequenceAgrees(state, h),
         NEW ctx \in ScanContext, WatchesCall(ctx)
  PROVE  LET r == SequenceScan(state, ctx)
         IN  /\ SequenceAgrees(r.state, Append(h, <<ctx.tool, ctx.text>>))
             /\ state.flagged \subseteq r.state.flagged
             /\ RulesOf(r.findings) = r.state.flagged \ state.flagged
             /\ Distinct(r.findings)
<1> DEFINE k == <<ctx.tool, ctx.text>>
           g == Append(h, k)
           counted == CountCall(state, ctx)
           shown == SequenceAnomalies(counted, ctx)
           fired == SequenceFired(counted, ctx)
           after == [counted EXCEPT !.flagged = @ \cup fired]
           r == SequenceScan(state, ctx)
<1>1. ctx.tool \in Tools /\ k \in CallKey /\ k[1] = ctx.tool
  BY DEF WatchesCall, ScanContext, CallKey
<1>2. state \in SequenceState
  BY DEF SequenceAgrees
<1>3. counted \in SequenceState
  BY <1>2, CountCallType
<1>4. /\ counted.order = Append(state.order, k[1])
      /\ counted.calls = [state.calls EXCEPT ![k] = @ + 1]
      /\ counted.flagged = state.flagged
  BY <1>1 DEF CountCall
<1>5. shown \subseteq SequenceRule /\ fired = shown \ state.flagged
  BY <1>4 DEF SequenceAnomalies, SequenceFired, SequenceRule
<1>6. /\ "repeated_identical_call" \in shown <=> CallRepeated(counted.calls, k)
      /\ "tool_ping_pong" \in shown <=> PingPong(counted.order)
      /\ "tool_fanout" \in shown <=> FannedOut(counted.order)
  BY DEF SequenceAnomalies
<1>7. r.state = after /\ r.findings = SequenceFindings(fired)
  BY DEF SequenceScan
<1> HIDE DEF k, counted, shown, fired, r
<1>8. /\ after \in SequenceState
      /\ after.order = counted.order /\ after.calls = counted.calls
      /\ after.flagged = state.flagged \cup shown
  BY <1>3, <1>4, <1>5 DEF SequenceState
<1> HIDE DEF after
<1>9. Follows(counted.order, g)
  BY <1>1, <1>4, FollowsGrows DEF SequenceAgrees
<1>10. \A w \in CallKey : counted.calls[w] = Cardinality(Occurrences(g, w))
  <2> SUFFICES ASSUME NEW w \in CallKey
               PROVE  counted.calls[w] = Cardinality(Occurrences(g, w))
    OBVIOUS
  <2>1. Cardinality(Occurrences(g, w)) =
          IF w = k THEN Cardinality(Occurrences(h, w)) + 1 ELSE Cardinality(Occurrences(h, w))
    BY <1>1, AppendOccurrences
  <2>2. state.calls[w] = Cardinality(Occurrences(h, w))
    BY DEF SequenceAgrees
  <2>3. counted.calls[w] = IF w = k THEN state.calls[w] + 1 ELSE state.calls[w]
    BY <1>1, <1>2, <1>4 DEF SequenceState
  <2> QED  BY <2>1, <2>2, <2>3
<1>11. CallRepeated(counted.calls, k) <=> Cardinality(Occurrences(g, k)) >= RepeatThreshold
  BY <1>1, <1>10 DEF CallRepeated
<1>12. CallLoopShown(g) <=> CallLoopShown(h) \/ CallRepeated(counted.calls, k)
  BY <1>1, <1>11, CallLoopGrows
<1>13. PingPongShown(g) <=> PingPongShown(h) \/ PingPong(counted.order)
  BY <1>1, <1>9, PingPongGrows
<1>14. (FanoutShown(g) <=> FannedOut(counted.order)) /\ (FanoutShown(h) => FanoutShown(g))
  BY <1>1, <1>9, FanoutGrows
<1> HIDE DEF g
<1>15. /\ "repeated_identical_call" \in after.flagged <=> CallLoopShown(g)
       /\ "tool_ping_pong" \in after.flagged <=> PingPongShown(g)
       /\ "tool_fanout" \in after.flagged <=> FanoutShown(g)
  BY <1>6, <1>8, <1>12, <1>13, <1>14 DEF SequenceAgrees
<1>16. SequenceAgrees(after, g)
  BY <1>8, <1>9, <1>10, <1>15 DEF SequenceAgrees
<1>17. RulesOf(SequenceFindings(fired)) = fired /\ Distinct(SequenceFindings(fired))
  BY <1>5, SequenceFindingsRules
<1>18. fired = after.flagged \ state.flagged /\ state.flagged \subseteq after.flagged
  BY <1>5, <1>8
<1> QED  BY <1>7, <1>16, <1>17, <1>18 DEF r, g, k

CostAgrees(state, h) ==
  /\ state \in CostState
  /\ state.llm_calls = Len(h)
  /\ \A x \in Texts : state.prompts[x] = Cardinality(Occurrences(h, x))
  /\ "llm_call_budget_exceeded" \in state.flagged <=> BudgetShown(h)
  /\ "repeated_identical_prompt" \in state.flagged <=> PromptLoopShown(h)

LEMMA CostStep ==
  ASSUME NEW state, NEW h \in Seq(Texts), CostAgrees(state, h),
         NEW ctx \in ScanContext, WatchesPrompt(ctx)
  PROVE  LET r == CostScan(state, ctx)
         IN  /\ CostAgrees(r.state, Append(h, ctx.text))
             /\ state.flagged \subseteq r.state.flagged
             /\ RulesOf(r.findings) = r.state.flagged \ state.flagged
             /\ Distinct(r.findings)
<1> DEFINE k == ctx.text
           g == Append(h, k)
           counted == CountPrompt(state, ctx)
           shown == CostAnomalies(counted, ctx)
           fired == CostFired(counted, ctx)
           after == [counted EXCEPT !.flagged = @ \cup fired]
           r == CostScan(state, ctx)
<1>1. k \in Texts
  BY DEF ScanContext
<1>2. state \in CostState
  BY DEF CostAgrees
<1>3. counted \in CostState
  BY <1>2, CountPromptType
<1>4. /\ counted.llm_calls = state.llm_calls + 1
      /\ counted.prompts = [state.prompts EXCEPT ![k] = @ + 1]
      /\ counted.flagged = state.flagged
  BY DEF CountPrompt
<1>5. shown \subseteq CostRule /\ fired = shown \ state.flagged
  BY <1>4 DEF CostAnomalies, CostFired, CostRule
<1>6. /\ "llm_call_budget_exceeded" \in shown <=> OverBudget(counted.llm_calls)
      /\ "repeated_identical_prompt" \in shown <=> PromptRepeated(counted.prompts, k)
  BY DEF CostAnomalies
<1>7. r.state = after /\ r.findings = CostFindings(fired)
  BY DEF CostScan
<1> HIDE DEF k, counted, shown, fired, r
<1>8. /\ after \in CostState
      /\ after.llm_calls = counted.llm_calls /\ after.prompts = counted.prompts
      /\ after.flagged = state.flagged \cup shown
  BY <1>3, <1>4, <1>5 DEF CostState
<1> HIDE DEF after
<1>9. Len(g) = Len(h) + 1 /\ Len(h) \in Nat
  BY <1>1, AppendEntry
<1>10. \A w \in Texts : counted.prompts[w] = Cardinality(Occurrences(g, w))
  <2> SUFFICES ASSUME NEW w \in Texts
               PROVE  counted.prompts[w] = Cardinality(Occurrences(g, w))
    OBVIOUS
  <2>1. Cardinality(Occurrences(g, w)) =
          IF w = k THEN Cardinality(Occurrences(h, w)) + 1 ELSE Cardinality(Occurrences(h, w))
    BY <1>1, AppendOccurrences
  <2>2. state.prompts[w] = Cardinality(Occurrences(h, w))
    BY DEF CostAgrees
  <2>3. counted.prompts[w] = IF w = k THEN state.prompts[w] + 1 ELSE state.prompts[w]
    BY <1>1, <1>2, <1>4 DEF CostState
  <2> QED  BY <2>1, <2>2, <2>3
<1>11. PromptRepeated(counted.prompts, k) <=> Cardinality(Occurrences(g, k)) >= RepeatThreshold
  BY <1>1, <1>10 DEF PromptRepeated
<1>12. PromptLoopShown(g) <=> PromptLoopShown(h) \/ PromptRepeated(counted.prompts, k)
  BY <1>1, <1>11, PromptLoopGrows
<1>13. counted.llm_calls = Len(g)
  BY <1>4, <1>9 DEF CostAgrees
<1>14. CallBudget \in Nat
  BY ThresholdAssumption
<1>15. (BudgetShown(g) <=> OverBudget(counted.llm_calls)) /\ (BudgetShown(h) => BudgetShown(g))
  BY <1>9, <1>13, <1>14 DEF BudgetShown, OverBudget
<1> HIDE DEF g
<1>16. /\ "llm_call_budget_exceeded" \in after.flagged <=> BudgetShown(g)
       /\ "repeated_identical_prompt" \in after.flagged <=> PromptLoopShown(g)
  BY <1>6, <1>8, <1>12, <1>15 DEF CostAgrees
<1>17. CostAgrees(after, g)
  BY <1>8, <1>10, <1>13, <1>16 DEF CostAgrees
<1>18. RulesOf(CostFindings(fired)) = fired /\ Distinct(CostFindings(fired))
  BY <1>5, CostFindingsRules
<1>19. fired = after.flagged \ state.flagged /\ state.flagged \subseteq after.flagged
  BY <1>5, <1>8
<1> QED  BY <1>7, <1>17, <1>18, <1>19 DEF r, g, k

-----------------------------------------------------------------------------
(* The invariant of the specification. *)

Inv ==
  /\ TypeOK
  /\ SequenceAgrees(sequence, toolCalls)
  /\ CostAgrees(cost, prompts)
  /\ Distinct(raised)
  /\ RulesOf(raised) = sequence.flagged \cup cost.flagged

\* No calls, no anomalies.
LEMMA NothingShown ==
  /\ SequenceAgrees(SequenceInit, <<>>)
  /\ CostAgrees(CostInit, <<>>)
<1>1. \A w : Occurrences(<<>>, w) = {}
  BY DEF Occurrences
<1>2. \A w : Cardinality(Occurrences(<<>>, w)) = 0
  BY <1>1, FS_EmptySet
<1>3. ToolsOf(<<>>) = {} /\ Cardinality({}) = 0
  BY FS_EmptySet DEF ToolsOf
<1>4. /\ ~CallLoopShown(<<>>) /\ ~PromptLoopShown(<<>>)
      /\ ~PingPongShown(<<>>) /\ ~FanoutShown(<<>>) /\ ~BudgetShown(<<>>)
  <2>1. ~CallLoopShown(<<>>) /\ ~PromptLoopShown(<<>>)
    BY <1>2, ThresholdAssumption DEF CallLoopShown, PromptLoopShown
  <2>2. ~PingPongShown(<<>>)
    BY DEF PingPongShown
  <2>3. ~FanoutShown(<<>>)
    BY <1>3, ThresholdAssumption DEF FanoutShown
  <2>4. ~BudgetShown(<<>>)
    BY EmptySeq, ThresholdAssumption DEF BudgetShown
  <2> QED  BY <2>1, <2>2, <2>3, <2>4
<1>5. SequenceAgrees(SequenceInit, <<>>)
  BY <1>2, <1>4, InitialStates, EmptySeq DEF SequenceAgrees, SequenceInit, Follows
<1>6. CostAgrees(CostInit, <<>>)
  BY <1>2, <1>4, InitialStates, EmptySeq DEF CostAgrees, CostInit
<1> QED  BY <1>5, <1>6

LEMMA InitInv == Init => Inv
<1> SUFFICES ASSUME Init PROVE Inv
  OBVIOUS
<1>1. TypeOK
  BY InitialStates, EmptySeq DEF Init, TypeOK
<1>2. Distinct(<<>>) /\ RulesOf(<<>>) = {}
  BY DEF Distinct, RulesOf
<1>3. SequenceInit.flagged = {} /\ CostInit.flagged = {}
  BY DEF SequenceInit, CostInit
<1> QED  BY <1>1, <1>2, <1>3, NothingShown DEF Init, Inv

\* New findings with new rules keep the list of findings free of repetitions.
LEMMA RaisedGrows ==
  ASSUME NEW old \in Seq(SecurityEvent), NEW new \in Seq(SecurityEvent),
         Distinct(old), Distinct(new), RulesOf(old) \cap RulesOf(new) = {}
  PROVE  /\ old \o new \in Seq(SecurityEvent)
         /\ Distinct(old \o new)
         /\ RulesOf(old \o new) = RulesOf(old) \cup RulesOf(new)
BY ConcatProperties, ConcatRules

LEMMA EmptyConcat ==
  ASSUME NEW S, NEW q \in Seq(S)
  PROVE  q \o <<>> = q
BY ConcatEmptySeq

LEMMA NextInv == Inv /\ [Next]_vars => Inv'
<1> SUFFICES ASSUME Inv, [Next]_vars PROVE Inv'
  OBVIOUS
<1>0. /\ TypeOK /\ SequenceAgrees(sequence, toolCalls) /\ CostAgrees(cost, prompts)
      /\ Distinct(raised) /\ RulesOf(raised) = sequence.flagged \cup cost.flagged
  BY DEF Inv
<1>1. /\ sequence \in SequenceState /\ cost \in CostState
      /\ raised \in Seq(SecurityEvent)
      /\ toolCalls \in Seq(CallKey) /\ prompts \in Seq(Texts)
  BY <1>0 DEF TypeOK
<1>2. sequence.flagged \subseteq SequenceRule /\ cost.flagged \subseteq CostRule
  BY <1>1 DEF SequenceState, CostState
<1>3. SequenceRule \cap CostRule = {}
  BY DEF SequenceRule, CostRule
<1>4. ASSUME NEW tool \in Tools, NEW text \in Texts, ToolCall(tool, text)
      PROVE  Inv'
  <2> DEFINE ctx == [surface |-> "tool_input", tool |-> tool, text |-> text]
             r == SequenceScan(sequence, ctx)
             c == CostScan(cost, ctx)
  <2>1. /\ ctx \in ScanContext /\ WatchesCall(ctx) /\ ~WatchesPrompt(ctx)
        /\ ctx.tool = tool /\ ctx.text = text
    BY NoToolAssumption DEF ScanContext, Surface, WatchesCall, WatchesPrompt
  <2>2. c.state = cost /\ c.findings = <<>>
    BY <2>1 DEF CostScan
  <2>3. /\ sequence' = r.state /\ cost' = c.state
        /\ raised' = raised \o r.findings \o c.findings
        /\ toolCalls' = Append(toolCalls, <<tool, text>>) /\ prompts' = prompts
    BY <1>4 DEF ToolCall, RunDetectors
  <2> HIDE DEF ctx, r, c
  <2>4. /\ SequenceAgrees(r.state, Append(toolCalls, <<tool, text>>))
        /\ sequence.flagged \subseteq r.state.flagged
        /\ RulesOf(r.findings) = r.state.flagged \ sequence.flagged
        /\ Distinct(r.findings)
    BY <1>0, <1>1, <2>1, SequenceStep DEF r
  <2>5. r.state \in SequenceState /\ r.findings \in Seq(SecurityEvent)
    BY <1>1, <2>1, SequenceScanType DEF r
  <2>6. r.state.flagged \subseteq SequenceRule
    BY <2>5 DEF SequenceState
  <2>7. RulesOf(raised) \cap RulesOf(r.findings) = {}
    BY <1>0, <1>2, <1>3, <2>4, <2>6
  <2>8. /\ raised \o r.findings \in Seq(SecurityEvent)
        /\ Distinct(raised \o r.findings)
        /\ RulesOf(raised \o r.findings) = RulesOf(raised) \cup RulesOf(r.findings)
    BY <1>0, <1>1, <2>4, <2>5, <2>7, RaisedGrows
  <2>9. raised' = raised \o r.findings
    BY <2>2, <2>3, <2>8, EmptyConcat
  <2>10. RulesOf(raised \o r.findings) = r.state.flagged \cup cost.flagged
    BY <1>0, <2>4, <2>8
  <2>11. Append(toolCalls, <<tool, text>>) \in Seq(CallKey)
    BY <1>1, AppendProperties DEF CallKey
  <2>12. TypeOK'
    BY <1>1, <2>2, <2>3, <2>5, <2>8, <2>9, <2>11 DEF TypeOK
  <2>13. SequenceAgrees(sequence, toolCalls)' /\ CostAgrees(cost, prompts)'
    BY <1>0, <2>2, <2>3, <2>4 DEF SequenceAgrees, CostAgrees, Follows, CallLoopShown,
       PingPongShown, FanoutShown, BudgetShown, PromptLoopShown
  <2>14. Distinct(raised)' /\ (RulesOf(raised) = sequence.flagged \cup cost.flagged)'
    BY <2>2, <2>3, <2>8, <2>9, <2>10 DEF Distinct, RulesOf
  <2> QED  BY <2>12, <2>13, <2>14 DEF Inv
<1>5. ASSUME NEW text \in Texts, Prompt(text)
      PROVE  Inv'
  <2> DEFINE ctx == [surface |-> "user_prompt", tool |-> NoTool, text |-> text]
             r == SequenceScan(sequence, ctx)
             c == CostScan(cost, ctx)
  <2>1. /\ ctx \in ScanContext /\ ~WatchesCall(ctx) /\ WatchesPrompt(ctx)
        /\ ctx.text = text
    BY DEF ScanContext, Surface, WatchesCall, WatchesPrompt
  <2>2. r.state = sequence /\ r.findings = <<>>
    BY <2>1 DEF SequenceScan
  <2>3. /\ sequence' = r.state /\ cost' = c.state
        /\ raised' = raised \o r.findings \o c.findings
        /\ prompts' = Append(prompts, text) /\ toolCalls' = toolCalls
    BY <1>5 DEF Prompt, RunDetectors
  <2> HIDE DEF ctx, r, c
  <2>4. /\ CostAgrees(c.state, Append(prompts, text))
        /\ cost.flagged \subseteq c.state.flagged
        /\ RulesOf(c.findings) = c.state.flagged \ cost.flagged
        /\ Distinct(c.findings)
    BY <1>0, <1>1, <2>1, CostStep DEF c
  <2>5. c.state \in CostState /\ c.findings \in Seq(SecurityEvent)
    BY <1>1, <2>1, CostScanType DEF c
  <2>6. c.state.flagged \subseteq CostRule
    BY <2>5 DEF CostState
  <2>7. RulesOf(raised) \cap RulesOf(c.findings) = {}
    BY <1>0, <1>2, <1>3, <2>4, <2>6
  <2>8. /\ raised \o c.findings \in Seq(SecurityEvent)
        /\ Distinct(raised \o c.findings)
        /\ RulesOf(raised \o c.findings) = RulesOf(raised) \cup RulesOf(c.findings)
    BY <1>0, <1>1, <2>4, <2>5, <2>7, RaisedGrows
  <2>9. raised' = raised \o c.findings
    <3>1. raised \o <<>> = raised
      BY <1>1, EmptyConcat
    <3> QED  BY <2>2, <2>3, <3>1
  <2>10. RulesOf(raised \o c.findings) = sequence.flagged \cup c.state.flagged
    BY <1>0, <2>4, <2>8
  <2>11. Append(prompts, text) \in Seq(Texts)
    BY <1>1, AppendProperties
  <2>12. TypeOK'
    BY <1>1, <2>2, <2>3, <2>5, <2>8, <2>9, <2>11 DEF TypeOK
  <2>13. SequenceAgrees(sequence, toolCalls)' /\ CostAgrees(cost, prompts)'
    BY <1>0, <2>2, <2>3, <2>4 DEF SequenceAgrees, CostAgrees, Follows, CallLoopShown,
       PingPongShown, FanoutShown, BudgetShown, PromptLoopShown
  <2>14. Distinct(raised)' /\ (RulesOf(raised) = sequence.flagged \cup cost.flagged)'
    BY <2>2, <2>3, <2>8, <2>9, <2>10 DEF Distinct, RulesOf
  <2> QED  BY <2>12, <2>13, <2>14 DEF Inv
<1>6. ASSUME NEW ctx \in ScanContext, OtherContent(ctx)
      PROVE  Inv'
  <2>1. ~WatchesCall(ctx) /\ ~WatchesPrompt(ctx)
    BY <1>6 DEF OtherContent, WatchesCall, WatchesPrompt
  <2>2. /\ sequence' = sequence /\ cost' = cost
        /\ raised' = raised \o <<>> \o <<>>
        /\ toolCalls' = toolCalls /\ prompts' = prompts
    BY <1>6, <2>1 DEF OtherContent, RunDetectors, SequenceScan, CostScan
  <2>3. raised' = raised
    BY <1>1, <2>2, EmptyConcat
  <2> QED  BY <1>0, <2>2, <2>3 DEF Inv, TypeOK, SequenceAgrees, CostAgrees, Follows,
           CallLoopShown, PingPongShown, FanoutShown, BudgetShown, PromptLoopShown,
           Distinct, RulesOf
<1>7. CASE UNCHANGED vars
  BY <1>0, <1>7 DEF vars, Inv, TypeOK, SequenceAgrees, CostAgrees, Follows,
     CallLoopShown, PingPongShown, FanoutShown, BudgetShown, PromptLoopShown,
     Distinct, RulesOf
<1> QED  BY <1>4, <1>5, <1>6, <1>7 DEF Next

\* The invariant holds of every behaviour, whatever the tools and thresholds.
LEMMA Invariance == Spec => []Inv
  BY InitInv, NextInv, PTL DEF Spec

-----------------------------------------------------------------------------
\* The detectors' state and the history keep their types (sequence.py and
\* cost_loop.py, every scan).
THEOREM HistoryTypes == Spec => []TypeOK
<1>1. Inv => TypeOK
  BY DEF Inv
<1> QED  BY <1>1, Invariance, PTL

\* For every threshold the flags of sequence.py are exactly the tool anomalies
\* of the whole history of the trace.
THEOREM SequenceFlagsAreExact == Spec => []SequenceFlagsExact
<1>1. Inv => SequenceFlagsExact
  BY DEF Inv, SequenceAgrees, SequenceFlagsExact, Shown, SequenceRule
<1> QED  BY <1>1, Invariance, PTL

\* For every threshold and budget the flags of cost_loop.py are exactly the
\* prompt anomalies of the whole history.
THEOREM CostFlagsAreExact == Spec => []CostFlagsExact
<1>1. Inv => CostFlagsExact
  BY DEF Inv, CostAgrees, CostFlagsExact, Shown, CostRule
<1> QED  BY <1>1, Invariance, PTL

\* Each anomaly of a trace is raised exactly once (sequence.py:52).
THEOREM RaisedOnce == Spec => []RaisedOncePerTrace
<1>1. Inv => RaisedOncePerTrace
  <2> SUFFICES ASSUME Inv PROVE RaisedOncePerTrace
    OBVIOUS
  <2>1. \A rule \in SequenceRule : Shown(rule) <=> rule \in sequence.flagged
    BY DEF Inv, SequenceAgrees, Shown, SequenceRule
  <2>2. \A rule \in CostRule : Shown(rule) <=> rule \in cost.flagged
    BY DEF Inv, CostAgrees, Shown, CostRule
  <2>3. sequence.flagged \subseteq SequenceRule /\ cost.flagged \subseteq CostRule
    BY DEF Inv, TypeOK, SequenceState, CostState
  <2>4. SequenceRule \cap CostRule = {}
    BY DEF SequenceRule, CostRule
  <2>5. \A rule \in TraceRule : Shown(rule) <=> rule \in RulesOf(raised)
    BY <2>1, <2>2, <2>3, <2>4 DEF Inv, TraceRule
  <2> QED  BY <2>5 DEF Inv, Distinct, RulesOf, RaisedOncePerTrace
<1> QED  BY <1>1, Invariance, PTL

-----------------------------------------------------------------------------
(* The agent's steps are steps of the history. *)

\* A scan is a step of the history: a call, a prompt or other content.
LEMMA ScanIsStep ==
  ASSUME NEW ctx \in ScanContext, Scan(ctx)
  PROVE  Next
BY DEF Scan, Next, ScanContext

\* What a scan adds to the history.
LEMMA ScanAdds ==
  ASSUME NEW ctx \in ScanContext, Scan(ctx)
  PROVE  /\ toolCalls' = IF WatchesCall(ctx) THEN Append(toolCalls, <<ctx.tool, ctx.text>>)
                                             ELSE toolCalls
         /\ prompts' = IF WatchesPrompt(ctx) THEN Append(prompts, ctx.text) ELSE prompts
BY DEF Scan, ToolCall, Prompt, OtherContent, WatchesCall, WatchesPrompt

\* The contents an adapter scans are contexts.
LEMMA ContextType ==
  ASSUME NEW surface \in Surface, NEW tool \in Tools \cup {NoTool}, NEW text \in Texts
  PROVE  Context(surface, tool, text) \in ScanContext
BY DEF Context, ScanContext

\* The spelling of the arguments that an adapter reports.
LEMMA ReportedType ==
  ASSUME NEW call \in CallKey
  PROVE  /\ call[1] \in Tools /\ call[2] \in Texts /\ Dumped[call[2]] \in Texts
         /\ Reported(call) \in CallKey
BY AgentAssumption DEF Reported, CallKey

\* What is scanned of a reply: a call, unless the reply is an answer.
LEMMA ReplyContentShape ==
  ASSUME NEW calls \in Seq(CallKey), NEW i \in Nat \ {0}, i <= Len(calls) \/ calls = <<>>
  PROVE  /\ ReplyContent(calls, i) \in ScanContext
         /\ ~WatchesPrompt(ReplyContent(calls, i))
         /\ calls = <<>> => ~WatchesCall(ReplyContent(calls, i))
         /\ calls # <<>> =>
              /\ WatchesCall(ReplyContent(calls, i))
              /\ <<ReplyContent(calls, i).tool, ReplyContent(calls, i).text>> = Reported(calls[i])
<1> DEFINE c == ReplyContent(calls, i)
<1>1. CASE calls = <<>>
  <2>1. c = Context("completion", NoTool, NoArguments)
    BY <1>1 DEF ReplyContent
  <2>2. c \in ScanContext
    BY <2>1, ContextType, AgentAssumption DEF Surface
  <2> QED  BY <1>1, <2>1, <2>2 DEF Context, WatchesCall, WatchesPrompt
<1>2. CASE calls # <<>>
  <2>1. i \in 1 .. Len(calls)
    BY <1>2, LenProperties
  <2>2. calls[i] \in CallKey
    BY <2>1, ElementOfSeq
  <2> DEFINE r == Reported(calls[i])
  <2>3. r \in CallKey
    BY <2>2, ReportedType
  <2>4. c = Context("tool_input", r[1], r[2])
    BY <1>2 DEF ReplyContent
  <2> HIDE DEF r
  <2>5. r[1] \in Tools /\ r[2] \in Texts /\ r = <<r[1], r[2]>>
    BY <2>3 DEF CallKey
  <2>6. c \in ScanContext
    BY <2>4, <2>5, ContextType DEF Surface
  <2>7. WatchesCall(c) /\ ~WatchesPrompt(c) /\ <<c.tool, c.text>> = r
    BY <2>4, <2>5, NoToolAssumption DEF Context, WatchesCall, WatchesPrompt
  <2> QED  BY <1>2, <2>6, <2>7 DEF r
<1> QED  BY <1>1, <1>2

\* What call_tool scans of the arguments, and of the result.
LEMMA RunContentShape ==
  ASSUME NEW tool \in Tools, NEW text \in Texts
  PROVE  /\ Context("tool_input", tool, text) \in ScanContext
         /\ WatchesCall(Context("tool_input", tool, text))
         /\ ~WatchesPrompt(Context("tool_input", tool, text))
         /\ Context("tool_input", tool, text).tool = tool
         /\ Context("tool_input", tool, text).text = text
         /\ Context("tool_output", tool, text) \in ScanContext
         /\ ~WatchesCall(Context("tool_output", tool, text))
         /\ ~WatchesPrompt(Context("tool_output", tool, text))
<1>1. "tool_input" \in Surface /\ "tool_output" \in Surface
  BY DEF Surface
<1>2. tool # NoTool
  BY NoToolAssumption
<1> QED  BY <1>1, <1>2 DEF Context, ScanContext, WatchesCall, WatchesPrompt

\* A step of the agent is a scan, or nothing the detectors see.
LEMMA AgentStepIsStep == AgentTypes /\ Places /\ [AgentNext]_agentVars => [Next]_vars
<1> SUFFICES ASSUME AgentTypes, Places, [AgentNext]_agentVars
             PROVE  [Next]_vars
  OBVIOUS
<1>1. CASE ScanRequest
  <2>1. next \in 1 .. Len(conversation)
    BY <1>1 DEF ScanRequest, Places, AgentTypes
  <2>2. conversation[next] \in ScanContext
    BY <2>1, ElementOfSeq DEF AgentTypes
  <2> QED  BY <1>1, <2>2, ScanIsStep DEF ScanRequest
<1>2. CASE ScanResponse
  <2>1. next <= Len(reply) \/ reply = <<>>
    <3>1. Len(reply) \in Nat /\ (Len(reply) = 0 => reply = <<>>)
      BY LenProperties, EmptySeq DEF AgentTypes
    <3> QED  BY <1>2, <3>1 DEF ScanResponse, Places
  <2>2. ReplyContent(reply, next) \in ScanContext
    BY <2>1, ReplyContentShape DEF AgentTypes
  <2> QED  BY <1>2, <2>2, ScanIsStep DEF ScanResponse
<1>3. ASSUME NEW i \in DOMAIN reply, StartTool(i)
      PROVE  [Next]_vars
  <2>1. reply[i] \in CallKey
    BY ElementOfSeq, LenProperties DEF AgentTypes
  <2>2. Context("tool_input", reply[i][1], Dumped[reply[i][2]]) \in ScanContext
    BY <2>1, ReportedType, RunContentShape
  <2> QED  BY <1>3, <2>2, ScanIsStep DEF StartTool
<1>4. ASSUME NEW i \in DOMAIN reply, NEW result \in Results, ToolReturns(i, result)
      PROVE  [Next]_vars
  <2>1. reply[i] \in CallKey /\ result \in Texts
    BY ElementOfSeq, LenProperties, AgentAssumption DEF AgentTypes
  <2>2. Context("tool_output", reply[i][1], result) \in ScanContext
    BY <2>1, ReportedType, RunContentShape
  <2> QED  BY <1>4, <2>2, ScanIsStep DEF ToolReturns
<1>5. ASSUME NEW i \in DOMAIN reply, NEW result \in Results, ToolReturnsNothing(i, result)
      PROVE  [Next]_vars
  BY <1>5 DEF ToolReturnsNothing
<1>6. CASE UNCHANGED agentVars
  BY <1>6 DEF agentVars
<1>7. ASSUME NEW text \in Texts, UserSays(text)
      PROVE  [Next]_vars
  BY <1>7 DEF UserSays
<1>8. CASE CallModel \/ ModelFails
  BY <1>8 DEF CallModel, ModelFails
<1>9. ASSUME NEW calls \in Replies, NEW stream \in Streams, ModelReplies(calls, stream)
      PROVE  [Next]_vars
  BY <1>9 DEF ModelReplies
<1>10. started \subseteq DOMAIN reply
  BY DEF AgentTypes
<1> QED  BY <1>1, <1>2, <1>3, <1>4, <1>5, <1>6, <1>7, <1>8, <1>9, <1>10 DEF AgentNext

-----------------------------------------------------------------------------
(* Counting the prompts of a conversation. *)

LEMMA PromptsCount ==
  ASSUME NEW c \in Seq(ScanContext), NEW n \in Nat
  PROVE  IsFiniteSet(PromptsBefore(c, n)) /\ Cardinality(PromptsBefore(c, n)) \in Nat
<1>1. IsFiniteSet(DOMAIN c)
  BY LenProperties, FS_Interval
<1>2. IsFiniteSet(PromptsBefore(c, n))
  BY <1>1, FS_Subset DEF PromptsBefore
<1> QED  BY <1>2, FS_CardinalityType

\* Before the first content there is no prompt.
LEMMA NoPromptsBefore ==
  ASSUME NEW c \in Seq(ScanContext)
  PROVE  Cardinality(PromptsBefore(c, 1)) = 0
<1>1. PromptsBefore(c, 1) = {}
  BY LenProperties DEF PromptsBefore
<1> QED  BY <1>1, FS_EmptySet

\* One content further there is one prompt more, if the content is one.
LEMMA PromptsOneFurther ==
  ASSUME NEW c \in Seq(ScanContext), NEW n \in 1 .. Len(c)
  PROVE  Cardinality(PromptsBefore(c, n + 1)) =
           IF c[n].surface = "user_prompt" THEN Cardinality(PromptsBefore(c, n)) + 1
                                           ELSE Cardinality(PromptsBefore(c, n))
<1> DEFINE P == PromptsBefore(c, n)
           Q == PromptsBefore(c, n + 1)
<1>1. DOMAIN c = 1 .. Len(c) /\ Len(c) \in Nat /\ n \in Nat
  BY LenProperties
<1>2. IsFiniteSet(P) /\ Cardinality(P) \in Nat
  BY <1>1, PromptsCount
<1>3. n \notin P
  BY <1>1 DEF PromptsBefore
<1>4. Q = IF c[n].surface = "user_prompt" THEN P \cup {n} ELSE P
  BY <1>1 DEF PromptsBefore
<1>5. Cardinality(P \cup {n}) = Cardinality(P) + 1
  BY <1>2, <1>3, FS_AddElement
<1> QED  BY <1>4, <1>5

\* A content at the end counts if it is a prompt.
LEMMA PromptsOneMore ==
  ASSUME NEW c \in Seq(ScanContext), NEW ctx \in ScanContext
  PROVE  Cardinality(PromptsBefore(Append(c, ctx), Len(Append(c, ctx)) + 1)) =
           IF ctx.surface = "user_prompt"
             THEN Cardinality(PromptsBefore(c, Len(c) + 1)) + 1
             ELSE Cardinality(PromptsBefore(c, Len(c) + 1))
<1> DEFINE d == Append(c, ctx)
           n == Len(c) + 1
<1>1. /\ Len(c) \in Nat /\ DOMAIN c = 1 .. Len(c)
      /\ d \in Seq(ScanContext) /\ Len(d) = n /\ DOMAIN d = 1 .. n
      /\ \A i \in 1 .. Len(c) : d[i] = c[i]
      /\ d[n] = ctx
  BY AppendEntry
<1> HIDE DEF d
<1>2. Cardinality(PromptsBefore(d, n + 1)) =
        IF d[n].surface = "user_prompt" THEN Cardinality(PromptsBefore(d, n)) + 1
                                        ELSE Cardinality(PromptsBefore(d, n))
  <2>1. n \in 1 .. Len(d)
    BY <1>1
  <2> HIDE DEF n
  <2> QED  BY <1>1, <2>1, PromptsOneFurther
<1>3. PromptsBefore(d, n) = PromptsBefore(c, n)
  BY <1>1 DEF PromptsBefore
<1> QED  BY <1>1, <1>2, <1>3 DEF d

\* Two contents at the end are one after the other.
LEMMA AppendTwo ==
  ASSUME NEW S, NEW c \in Seq(S), NEW a \in S, NEW b \in S
  PROVE  /\ c \o <<a>> = Append(c, a)
         /\ c \o <<a, b>> = Append(Append(c, a), b)
<1>1. <<a>> \in Seq(S) /\ Len(<<a>>) = 1 /\ <<a, b>> \in Seq(S) /\ Len(<<a, b>>) = 2
  OBVIOUS
<1>2. Len(c) \in Nat
  BY LenProperties
<1>3. c \o <<a>> = Append(c, a)
  <2>1. c \o <<a>> \in Seq(S) /\ Len(c \o <<a>>) = Len(c) + 1
    BY <1>1, ConcatProperties
  <2>2. Append(c, a) \in Seq(S) /\ Len(Append(c, a)) = Len(c) + 1
    BY AppendProperties
  <2>3. \A i \in 1 .. Len(c) + 1 : (c \o <<a>>)[i] = Append(c, a)[i]
    BY <1>1, <1>2, ConcatProperties, AppendProperties
  <2> QED  BY <2>1, <2>2, <2>3, SeqEqual
<1>4. c \o <<a, b>> = Append(Append(c, a), b)
  <2> DEFINE d == Append(c, a)
  <2>1. d \in Seq(S) /\ Len(d) = Len(c) + 1 /\ d[Len(c) + 1] = a
        /\ \A i \in 1 .. Len(c) : d[i] = c[i]
    BY AppendProperties
  <2> HIDE DEF d
  <2>2. /\ Append(d, b) \in Seq(S) /\ Len(Append(d, b)) = Len(c) + 2
        /\ \A i \in 1 .. Len(c) + 1 : Append(d, b)[i] = d[i]
        /\ Append(d, b)[Len(c) + 2] = b
    BY <1>2, <2>1, AppendProperties
  <2>3. /\ c \o <<a, b>> \in Seq(S) /\ Len(c \o <<a, b>>) = Len(c) + 2
        /\ \A i \in 1 .. Len(c) + 2 :
             (c \o <<a, b>>)[i] = IF i <= Len(c) THEN c[i] ELSE <<a, b>>[i - Len(c)]
    BY <1>1, <1>2, ConcatProperties
  <2>4. \A i \in 1 .. Len(c) + 2 : i \in 1 .. Len(c) \/ i = Len(c) + 1 \/ i = Len(c) + 2
    BY <1>2
  <2>5. \A i \in 1 .. Len(c) : (c \o <<a, b>>)[i] = Append(d, b)[i]
    BY <1>2, <2>1, <2>2, <2>3
  <2>6. (c \o <<a, b>>)[Len(c) + 1] = a /\ (c \o <<a, b>>)[Len(c) + 2] = b
    BY <1>2, <2>3
  <2>7. Append(d, b)[Len(c) + 1] = a
    BY <1>2, <2>1, <2>2
  <2>8. \A i \in 1 .. Len(c) + 2 : (c \o <<a, b>>)[i] = Append(d, b)[i]
    BY <2>2, <2>4, <2>5, <2>6, <2>7
  <2>9. c \o <<a, b>> = Append(d, b)
    BY <2>2, <2>3, <2>8, SeqEqual
  <2> QED  BY <2>9 DEF d
<1> QED  BY <1>3, <1>4

\* Of two lists together each entry occurs as often as in both.
LEMMA ConcatOccurrences ==
  ASSUME NEW S, NEW g \in Seq(S), NEW h \in Seq(S), NEW w
  PROVE  /\ IsFiniteSet(Occurrences(g, w)) /\ Cardinality(Occurrences(g, w)) \in Nat
         /\ Cardinality(Occurrences(g \o h, w)) =
              Cardinality(Occurrences(g, w)) + Cardinality(Occurrences(h, w))
<1> DEFINE m == Len(g)
           n == Len(h)
           c == g \o h
           A == Occurrences(g, w)
           B == Occurrences(h, w)
           D == {i \in 1 .. m + n : i > m /\ c[i] = w}
<1>1. m \in Nat /\ n \in Nat /\ DOMAIN g = 1 .. m /\ DOMAIN h = 1 .. n
  BY LenProperties
<1>2. c \in Seq(S) /\ Len(c) = m + n
      /\ \A i \in 1 .. m + n : c[i] = IF i <= m THEN g[i] ELSE h[i - m]
  BY ConcatProperties
<1>3. DOMAIN c = 1 .. m + n
  BY <1>2, LenProperties
<1> HIDE DEF m, n, c
<1>4. A \subseteq 1 .. m /\ B \subseteq 1 .. n
  BY <1>1 DEF Occurrences
<1>5. IsFiniteSet(A) /\ IsFiniteSet(B) /\ IsFiniteSet(D)
  <2>1. IsFiniteSet(1 .. m) /\ IsFiniteSet(1 .. n) /\ IsFiniteSet(1 .. m + n)
    BY <1>1, FS_Interval
  <2>2. D \subseteq 1 .. m + n
    OBVIOUS
  <2> HIDE DEF A, B, D
  <2> QED  BY <1>4, <2>1, <2>2, FS_Subset
<1>6. Occurrences(c, w) = A \cup D
  <2>1. \A i \in 1 .. m : i \in 1 .. m + n /\ c[i] = g[i]
    BY <1>1, <1>2
  <2>2. \A i \in 1 .. m + n : i \in 1 .. m \/ i > m
    BY <1>1
  <2> QED  BY <1>1, <1>3, <2>1, <2>2 DEF Occurrences
<1>7. A \cap D = {}
  BY <1>1, <1>4
<1>8. Cardinality(D) = Cardinality(B)
  <2> DEFINE f == [i \in B |-> i + m]
  <2>1. \A i \in B : i \in Int /\ i + m \in D
    <3> TAKE i \in B
    <3>1. i \in 1 .. n /\ h[i] = w
      BY <1>1 DEF Occurrences
    <3>2. i + m \in 1 .. m + n /\ i + m > m /\ (i + m) - m = i /\ ~(i + m <= m)
      BY <1>1, <3>1
    <3> QED  BY <1>2, <3>1, <3>2
  <2>2. \A j \in D : \E i \in B : j = i + m
    <3> TAKE j \in D
    <3>1. j \in 1 .. m + n /\ j > m /\ c[j] = w /\ ~(j <= m)
      BY <1>1
    <3>2. j - m \in 1 .. n /\ h[j - m] = w /\ j = (j - m) + m
      BY <1>1, <1>2, <3>1
    <3>3. j - m \in B
      BY <1>1, <3>2 DEF Occurrences
    <3> QED  BY <3>2, <3>3
  <2> HIDE DEF B, D
  <2>3. f \in [B -> D]
    BY <2>1
  <2>4. \A i, j \in B : f[i] = f[j] => i = j
    BY <1>1, <2>1
  <2>5. \A j \in D : \E i \in B : f[i] = j
    BY <2>2
  <2>6. f \in Bijection(B, D)
    BY <2>3, <2>4, <2>5 DEF Bijection, Injection, Surjection, IsInjective
  <2>7. ExistsBijection(B, D)
    BY <2>6 DEF ExistsBijection
  <2> QED  BY <1>5, <2>7, FS_Bijection, FS_CardinalityType
<1>9. Cardinality(A) \in Nat /\ Cardinality(D) \in Nat
  BY <1>5, FS_CardinalityType
<1>10. Cardinality(A \cup D) = Cardinality(A) + Cardinality(D)
  <2>1. Cardinality(A \cup D) = Cardinality(A) + Cardinality(D) - Cardinality(A \cap D)
    <3> HIDE DEF A, D
    <3> QED  BY <1>5, FS_Union
  <2>2. Cardinality(A \cap D) = 0
    BY <1>7, FS_EmptySet
  <2> QED  BY <1>9, <2>1, <2>2
<1> QED  BY <1>5, <1>6, <1>8, <1>9, <1>10 DEF c

-----------------------------------------------------------------------------
(* Sums over requests. *)

\* With n calls and r results there are at most n(n + 1 + 2r)/2 prompts: the
\* next request adds one prompt for each call and each result so far.
LEMMA Triangle ==
  ASSUME NEW n \in Nat, NEW r \in Nat, NEW s \in Nat, r <= s
  PROVE  /\ n * (n + 1 + 2 * r) \in Nat
         /\ n * (n + 1 + 2 * r) <= n * (n + 1 + 2 * s)
         /\ (n + 1) * ((n + 1) + 1 + 2 * r) = n * (n + 1 + 2 * r) + 2 * (n + 1 + r)
<1>1. n * (n + 1 + 2 * r) = n * n + n + 2 * (n * r)
  OBVIOUS
<1>2. n * r \in Nat /\ n * n \in Nat /\ n * s \in Nat
  OBVIOUS
<1>3. n * (n + 1 + 2 * s) = n * n + n + 2 * (n * s)
  OBVIOUS
<1>4. n * r <= n * s
  <2>1. s - r \in Nat /\ n * (s - r) \in Nat /\ n * s = n * r + n * (s - r)
    OBVIOUS
  <2> QED  BY <1>2, <2>1
<1>5. (n + 1) * ((n + 1) + 1 + 2 * r) = n * n + 3 * n + 2 + 2 * (n * r) + 2 * r
  OBVIOUS
<1> QED  BY <1>1, <1>2, <1>3, <1>4, <1>5

-----------------------------------------------------------------------------
(* The invariant of the agent: what most steps leave alone. *)

\* What was scanned of replies and runs, while neither is scanned.
LEMMA CallsStay ==
  ASSUME ReplyIsAnswered, OneAdapterSees, BothSee,
         stage # "response", stage' # "response",
         UNCHANGED <<adapters, toolCalls, answered, argued>>
  PROVE  (ReplyIsAnswered /\ OneAdapterSees /\ BothSee)'
BY DEF ReplyIsAnswered, OneAdapterSees, BothSee, Awaited, AwaitedOf, ModelIsWrapped

\* What was scanned of requests, while none is scanned; tools may run and the
\* conversation may grow.
LEMMA PromptsStay ==
  ASSUME TypeOK, AgentTypes, Contents, PromptsOfRequests,
         stage # "request", stage' # "request",
         UNCHANGED <<adapters, prompts, modelCalls>>,
         toolRuns' \in Seq(CallKey), Len(toolRuns) <= Len(toolRuns'),
         conversation # <<>> => conversation'[1] = conversation[1]
  PROVE  PromptsOfRequests'
<1> SUFFICES ASSUME ModelIsWrapped'
             PROVE  PromptsOfRequests'
  BY DEF PromptsOfRequests
<1>1. ModelIsWrapped /\ Requested = modelCalls /\ Requested' = modelCalls /\ modelCalls \in Nat
  BY DEF ModelIsWrapped, Requested, AgentTypes
<1>2. \A w : Cardinality(Occurrences(prompts, w)) \in Nat
  BY ConcatOccurrences DEF TypeOK
<1>3. conversation = <<>> => modelCalls = 0
  BY <1>1 DEF Contents
<1>4. Cardinality(Occurrences(prompts, conversation'[1].text)) >= modelCalls
  BY <1>1, <1>2, <1>3 DEF PromptsOfRequests
<1> DEFINE r == IF "anthropic" \in adapters THEN Len(toolRuns) ELSE 0
           s == IF "anthropic" \in adapters THEN Len(toolRuns') ELSE 0
<1>5. r \in Nat /\ s \in Nat /\ r <= s
  BY LenProperties DEF AgentTypes
<1>6. 2 * Len(prompts) <= modelCalls * (modelCalls + 1 + 2 * r)
  <2>1. 2 * Len(prompts) <= modelCalls * (modelCalls + 1 + 2 * r) + 0
    BY <1>1 DEF PromptsOfRequests
  <2> HIDE DEF r
  <2>2. Len(prompts) \in Nat
    BY LenProperties DEF TypeOK
  <2>3. modelCalls * (modelCalls + 1 + 2 * r) \in Nat
    BY <1>1, <1>5, Triangle
  <2> QED  BY <2>1, <2>2, <2>3
<1>7. 2 * Len(prompts) <= modelCalls * (modelCalls + 1 + 2 * s) + 0
  <2>1. Len(prompts) \in Nat
    BY LenProperties DEF TypeOK
  <2> HIDE DEF r, s
  <2>2. s <= s
    BY <1>5
  <2>3. /\ modelCalls * (modelCalls + 1 + 2 * r) <= modelCalls * (modelCalls + 1 + 2 * s)
        /\ modelCalls * (modelCalls + 1 + 2 * r) \in Nat
        /\ modelCalls * (modelCalls + 1 + 2 * s) \in Nat
    BY <1>1, <1>5, <2>2, Triangle
  <2> QED  BY <1>6, <2>1, <2>3
<1>8. Cardinality(Occurrences(prompts, conversation'[1].text)) >= modelCalls + 0
  BY <1>1, <1>4
<1> QED  BY <1>1, <1>7, <1>8 DEF PromptsOfRequests

\* One content more keeps the conversation what it was.
LEMMA ContentsGrow ==
  ASSUME NEW c \in Seq(ScanContext), NEW ctx \in ScanContext,
         ctx.surface \in {"user_prompt", "tool_output"},
         \A i \in DOMAIN c : c[i].surface \in {"user_prompt", "tool_output"}
  PROVE  LET d == Append(c, ctx)
         IN  /\ d \in Seq(ScanContext) /\ d # <<>>
             /\ \A i \in DOMAIN d : d[i].surface \in {"user_prompt", "tool_output"}
             /\ c # <<>> => d[1] = c[1]
             /\ c = <<>> => d[1] = ctx
<1> DEFINE d == Append(c, ctx)
<1>1. /\ Len(c) \in Nat /\ DOMAIN c = 1 .. Len(c)
      /\ d \in Seq(ScanContext) /\ Len(d) = Len(c) + 1 /\ DOMAIN d = 1 .. Len(c) + 1
      /\ \A i \in 1 .. Len(c) : d[i] = c[i]
      /\ d[Len(c) + 1] = ctx
  BY AppendEntry
<1> HIDE DEF d
<1>2. d # <<>> /\ (c # <<>> => Len(c) >= 1) /\ (c = <<>> => Len(c) = 0)
  BY <1>1, EmptySeq
<1>3. \A i \in 1 .. Len(c) + 1 : i \in 1 .. Len(c) \/ i = Len(c) + 1
  BY <1>1
<1>4. \A i \in DOMAIN d : d[i].surface \in {"user_prompt", "tool_output"}
  BY <1>1, <1>3
<1>5. c # <<>> => d[1] = c[1]
  BY <1>1, <1>2
<1>6. c = <<>> => d[1] = ctx
  BY <1>1, <1>2
<1> QED  BY <1>1, <1>2, <1>4, <1>5, <1>6 DEF d

\* The tool calls under way are finitely many.
LEMMA UnderWay ==
  ASSUME AgentTypes
  PROVE  /\ IsFiniteSet(started \ returned) /\ Cardinality(started \ returned) \in Nat
         /\ ResultsAsPrompts \in Int
         /\ ResultsAsPrompts <= IF "anthropic" \in adapters THEN Len(toolRuns) ELSE 0
<1>1. IsFiniteSet(DOMAIN reply)
  BY LenProperties, FS_Interval DEF AgentTypes
<1>2. started \ returned \subseteq DOMAIN reply
  BY DEF AgentTypes
<1>3. IsFiniteSet(started \ returned) /\ Cardinality(started \ returned) \in Nat
  BY <1>1, <1>2, FS_Subset, FS_CardinalityType
<1>4. Len(toolRuns) \in Nat
  BY LenProperties DEF AgentTypes
<1> QED  BY <1>3, <1>4 DEF ResultsAsPrompts

-----------------------------------------------------------------------------
(* The invariant of the agent: its steps. *)

LEMMA AgentInitInv == AgentInit => AgentInv
<1> SUFFICES ASSUME AgentInit
             PROVE  AgentInv
  OBVIOUS
<1> USE DEF AgentInit
<1>1. <<>> \in Seq(ScanContext) /\ <<>> \in Seq(CallKey)
  BY EmptySeq
<1>2. Len(<<>>) = 0 /\ DOMAIN <<>> = {}
  OBVIOUS
<1>3. AgentTypes
  <2>1. /\ conversation \in Seq(ScanContext) /\ reply \in Seq(CallKey)
        /\ answered \in Seq(CallKey) /\ toolRuns \in Seq(CallKey) /\ argued \in Seq(CallKey)
    BY <1>1
  <2>2. next \in Nat \ {0} /\ modelCalls \in Nat
    OBVIOUS
  <2>3. adapters \in Installs /\ stage \in {"idle", "request", "create", "response"}
    OBVIOUS
  <2>4. unanswered \in BOOLEAN
    OBVIOUS
  <2>5. started \subseteq DOMAIN reply /\ returned \subseteq started
    OBVIOUS
  <2> QED  BY <2>1, <2>2, <2>3, <2>4, <2>5 DEF AgentTypes
<1>4. Places /\ Contents /\ ReplyIsAnswered
  BY <1>2 DEF Places, Contents, ReplyIsAnswered
<1>5. OneAdapterSees
  BY <1>2 DEF OneAdapterSees, Init, Awaited
<1>6. \A w : Occurrences(<<>>, w) = {}
  BY <1>2 DEF Occurrences
<1>7. Cardinality({}) = 0
  BY FS_EmptySet
<1>8. BothSee
  BY <1>6, <1>7 DEF BothSee, Init, AwaitedOf
<1>9. PromptsOfConversation
  <2>1. PromptsBefore(conversation, Len(conversation) + 1) = {} /\ started \ returned = {}
    BY <1>2 DEF PromptsBefore
  <2>2. ResultsAsPrompts = 0
    <3>1. Len(toolRuns) = 0 /\ Cardinality(started \ returned) = 0
      BY <1>2, <1>7, <2>1
    <3> QED  BY <3>1 DEF ResultsAsPrompts
  <2>3. Cardinality(PromptsBefore(conversation, Len(conversation) + 1)) = 0
    BY <1>7, <2>1
  <2> QED  BY <2>2, <2>3 DEF PromptsOfConversation
<1>10. PromptsOfRequests
  BY <1>2 DEF PromptsOfRequests, Init, Requested
<1> QED  BY <1>3, <1>4, <1>5, <1>8, <1>9, <1>10 DEF AgentInv

\* The user's message is one prompt more, and the call it asks for is due.
LEMMA UserSaysPreserves ==
  ASSUME TypeOK, AgentInv, NEW text \in Texts, UserSays(text)
  PROVE  AgentInv'
<1> USE DEF AgentInv
<1> DEFINE ctx == Context("user_prompt", NoTool, text)
<1>1. ctx \in ScanContext /\ ctx.surface = "user_prompt"
  BY ContextType DEF Context, Surface
<1>2. conversation \in Seq(ScanContext)
  BY DEF AgentTypes
<1>3. conversation' = Append(conversation, ctx)
  BY <1>1, <1>2, AppendTwo DEF UserSays, UserContents
<1> HIDE DEF ctx
<1>4. /\ conversation' \in Seq(ScanContext) /\ conversation' # <<>>
      /\ \A i \in DOMAIN conversation' :
           conversation'[i].surface \in {"user_prompt", "tool_output"}
      /\ conversation # <<>> => conversation'[1] = conversation[1]
      /\ conversation = <<>> => conversation'[1] = ctx
  BY <1>1, <1>2, <1>3, ContentsGrow DEF Contents
<1>5. /\ stage = "idle" /\ stage' = "idle" /\ ~unanswered /\ unanswered' = TRUE
      /\ UNCHANGED <<toolCalls, prompts, adapters, next, reply, started, returned,
                     modelCalls, answered, toolRuns, argued>>
  BY DEF UserSays, vars, histories
<1>6. AgentTypes'
  BY <1>4, <1>5 DEF AgentTypes
<1>7. Places'
  BY <1>5 DEF Places, ModelIsWrapped
<1>8. Contents'
  BY <1>1, <1>4 DEF Contents
<1>9. (ReplyIsAnswered /\ OneAdapterSees /\ BothSee)'
  BY <1>5, CallsStay
<1>10. PromptsOfConversation'
  <2>1. Cardinality(PromptsBefore(conversation', Len(conversation') + 1)) =
          Cardinality(PromptsBefore(conversation, Len(conversation) + 1)) + 1
    BY <1>1, <1>2, <1>3, PromptsOneMore
  <2>2. Len(conversation) + 1 \in Nat
    BY <1>2, LenProperties
  <2>3. Cardinality(PromptsBefore(conversation, Len(conversation) + 1)) \in Nat
    BY <1>2, <2>2, PromptsCount
  <2>4. ResultsAsPrompts' = ResultsAsPrompts /\ ResultsAsPrompts \in Int /\ modelCalls \in Nat
    BY <1>5, UnderWay DEF ResultsAsPrompts, AgentTypes
  <2> QED  BY <1>5, <2>1, <2>3, <2>4 DEF PromptsOfConversation
<1>11. PromptsOfRequests'
  <2>1. toolRuns' \in Seq(CallKey) /\ Len(toolRuns) <= Len(toolRuns')
    BY <1>5, LenProperties DEF AgentTypes
  <2> QED  BY <1>4, <1>5, <2>1, PromptsStay
<1> QED  BY <1>6, <1>7, <1>8, <1>9, <1>10, <1>11

\* create() is called: nothing of the request is scanned yet.
LEMMA CallModelPreserves ==
  ASSUME TypeOK, AgentInv, CallModel
  PROVE  AgentInv'
<1> USE DEF AgentInv
<1>1. /\ stage = "idle" /\ unanswered /\ returned = DOMAIN reply
      /\ modelCalls \in Nat /\ modelCalls' = modelCalls + 1 /\ next' = 1
      /\ stage' = IF ModelIsWrapped THEN "request" ELSE "create"
      /\ UNCHANGED <<toolCalls, prompts, adapters, conversation, unanswered, reply, started,
                     returned, answered, toolRuns, argued>>
  BY DEF CallModel, AllReturned, FirstContent, vars, agent, AgentTypes
<1>2. conversation # <<>> /\ conversation \in Seq(ScanContext) /\ 1 <= Len(conversation)
  BY <1>1, EmptySeq, LenProperties DEF Contents, AgentTypes
<1>3. AgentTypes'
  BY <1>1 DEF AgentTypes
<1>4. Places'
  BY <1>1, <1>2 DEF Places, ModelIsWrapped
<1>5. Contents'
  BY <1>1, <1>2 DEF Contents
<1>6. (ReplyIsAnswered /\ OneAdapterSees /\ BothSee)'
  BY <1>1, CallsStay
<1>7. PromptsOfConversation'
  <2>1. ResultsAsPrompts' = ResultsAsPrompts /\ ResultsAsPrompts \in Int
    BY <1>1, UnderWay DEF ResultsAsPrompts
  <2>2. Len(conversation) + 1 \in Nat
    BY <1>2, LenProperties
  <2>3. Cardinality(PromptsBefore(conversation, Len(conversation) + 1)) \in Nat
    BY <1>2, <2>2, PromptsCount
  <2> QED  BY <1>1, <2>1, <2>3 DEF PromptsOfConversation
<1>8. PromptsOfRequests'
  <2> SUFFICES ASSUME ModelIsWrapped'
               PROVE  PromptsOfRequests'
    BY DEF PromptsOfRequests
  <2>1. ModelIsWrapped /\ stage' = "request"
    BY <1>1 DEF ModelIsWrapped
  <2>2. Requested = modelCalls /\ Requested' = modelCalls
    BY <1>1, <2>1 DEF Requested
  <2>3. Cardinality(PromptsBefore(conversation, 1)) = 0
    BY <1>2, NoPromptsBefore
  <2>4. Cardinality(Occurrences(prompts, conversation[1].text)) >= modelCalls + 0
    BY <1>1, <1>2, <2>1, <2>2 DEF PromptsOfRequests
  <2> DEFINE r == IF "anthropic" \in adapters THEN Len(toolRuns) ELSE 0
  <2>5. 2 * Len(prompts) <= modelCalls * (modelCalls + 1 + 2 * r) + 0
    BY <1>1, <2>1, <2>2 DEF PromptsOfRequests
  <2>6. stage' = "request" /\ ~(next' > 1) /\ 2 * Cardinality(PromptsBefore(conversation, next')) = 0
    BY <1>1, <2>1, <2>3
  <2> QED  BY <1>1, <2>2, <2>4, <2>5, <2>6 DEF PromptsOfRequests
<1> QED  BY <1>3, <1>4, <1>5, <1>6, <1>7, <1>8

\* create() raises.
LEMMA ModelFailsPreserves ==
  ASSUME TypeOK, AgentInv, ModelFails
  PROVE  AgentInv'
<1> USE DEF AgentInv
<1>1. /\ stage = "create" /\ stage' = "idle" /\ unanswered
      /\ UNCHANGED <<toolCalls, prompts, adapters, conversation, unanswered, next, reply, started,
                     returned, modelCalls, answered, toolRuns, argued>>
  BY DEF ModelFails, vars, agent, histories, Places
<1>2. AgentTypes' /\ Places' /\ Contents'
  BY <1>1 DEF AgentTypes, Places, Contents, ModelIsWrapped
<1>3. (ReplyIsAnswered /\ OneAdapterSees /\ BothSee)'
  BY <1>1, CallsStay
<1>4. PromptsOfConversation'
  <2>1. ResultsAsPrompts' = ResultsAsPrompts /\ ResultsAsPrompts \in Int /\ modelCalls \in Nat
    BY <1>1, UnderWay DEF ResultsAsPrompts, AgentTypes
  <2>2. conversation \in Seq(ScanContext) /\ Len(conversation) + 1 \in Nat
    BY LenProperties DEF AgentTypes
  <2>3. Cardinality(PromptsBefore(conversation, Len(conversation) + 1)) \in Nat
    BY <2>2, PromptsCount
  <2> QED  BY <1>1, <2>1, <2>3 DEF PromptsOfConversation
<1>5. PromptsOfRequests'
  <2>1. toolRuns' \in Seq(CallKey) /\ Len(toolRuns) <= Len(toolRuns')
    BY <1>1, LenProperties DEF AgentTypes
  <2> QED  BY <1>1, <2>1, PromptsStay
<1> QED  BY <1>2, <1>3, <1>4, <1>5

\* One content of the request is scanned; with the last one the request is done.
LEMMA ScanRequestPreserves ==
  ASSUME TypeOK, AgentInv, ScanRequest
  PROVE  AgentInv'
<1> USE DEF AgentInv
<1> DEFINE ctx == conversation[next]
<1>1. /\ stage = "request" /\ stage' = IF next < Len(conversation) THEN "request" ELSE "create"
      /\ Scan(ctx) /\ next' = next + 1
      /\ UNCHANGED <<adapters, conversation, unanswered, reply, started, returned,
                     modelCalls, answered, toolRuns, argued>>
  BY DEF ScanRequest, agent, histories
<1>2. /\ conversation \in Seq(ScanContext) /\ Len(conversation) \in Nat
      /\ DOMAIN conversation = 1 .. Len(conversation)
      /\ next \in Nat \ {0} /\ next <= Len(conversation) /\ next \in 1 .. Len(conversation)
  BY <1>1, LenProperties DEF AgentTypes, Places
<1>3. ctx \in ScanContext /\ ctx.surface \in {"user_prompt", "tool_output"} /\ ctx.text \in Texts
  <2>1. ctx \in ScanContext
    BY <1>2, ElementOfSeq
  <2>2. ctx.surface \in {"user_prompt", "tool_output"}
    BY <1>2 DEF Contents
  <2> QED  BY <2>1, <2>2 DEF ScanContext
<1>4. ModelIsWrapped /\ unanswered /\ modelCalls \in Nat /\ modelCalls > 0 /\ conversation # <<>>
      /\ returned = DOMAIN reply
  BY <1>1 DEF Places, Contents, AgentTypes
<1>5. /\ toolCalls' = toolCalls
      /\ prompts' = IF ctx.surface = "user_prompt" THEN Append(prompts, ctx.text) ELSE prompts
  <2> HIDE DEF ctx
  <2>1. ~WatchesCall(ctx) /\ (WatchesPrompt(ctx) <=> ctx.surface = "user_prompt")
    BY <1>3 DEF WatchesCall, WatchesPrompt
  <2> QED  BY <1>1, <1>3, <2>1, ScanAdds
<1>6. AgentTypes'
  BY <1>1, <1>2 DEF AgentTypes
<1>7. Places'
  BY <1>1, <1>2, <1>4 DEF Places, ModelIsWrapped
<1>8. Contents'
  BY <1>1 DEF Contents
<1>9. (ReplyIsAnswered /\ OneAdapterSees /\ BothSee)'
  BY <1>1, <1>5, CallsStay
<1>10. PromptsOfConversation'
  <2>1. ResultsAsPrompts' = ResultsAsPrompts
    BY <1>1 DEF ResultsAsPrompts
  <2> QED  BY <1>1, <2>1 DEF PromptsOfConversation
<1>11. PromptsOfRequests'
  <2> DEFINE w == conversation[1].text
             p == Cardinality(Occurrences(prompts, w))
             q == Cardinality(Occurrences(prompts', w))
             k == Cardinality(PromptsBefore(conversation, next))
             l == Cardinality(PromptsBefore(conversation, next + 1))
             n == modelCalls - 1
             r == IF "anthropic" \in adapters THEN Len(toolRuns) ELSE 0
             d == IF ctx.surface = "user_prompt" THEN 1 ELSE 0
  <2>1. conversation[1].surface = "user_prompt" /\ prompts \in Seq(Texts)
    BY <1>4 DEF Contents, TypeOK
  <2>2. p \in Nat /\ q \in Nat /\ p <= q /\ (next = 1 => q = p + 1)
    <3>1. CASE ctx.surface = "user_prompt"
      <4> HIDE DEF ctx, w
      <4>1. p \in Nat /\ q = IF w = ctx.text THEN p + 1 ELSE p
        BY <1>3, <1>5, <2>1, <3>1, AppendOccurrences
      <4>2. next = 1 => w = ctx.text
        BY DEF w, ctx
      <4> QED  BY <4>1, <4>2
    <3>2. CASE ctx.surface # "user_prompt"
      <4>1. next # 1
        BY <2>1, <3>2
      <4> HIDE DEF ctx, w
      <4>2. p \in Nat
        BY <2>1, ConcatOccurrences
      <4> QED  BY <1>5, <3>2, <4>1, <4>2
    <3> QED  BY <3>1, <3>2
  <2>3. Len(prompts) \in Nat /\ Len(prompts') = Len(prompts) + d
    <3>1. Len(prompts) \in Nat
      BY <2>1, LenProperties
    <3>2. CASE ctx.surface = "user_prompt"
      BY <1>3, <1>5, <2>1, <3>2, AppendProperties
    <3>3. CASE ctx.surface # "user_prompt"
      BY <1>5, <3>1, <3>3
    <3> QED  BY <3>1, <3>2, <3>3
  <2>4. k \in Nat /\ l = k + d
    <3>1. k \in Nat
      BY <1>2, PromptsCount
    <3>2. l = IF ctx.surface = "user_prompt" THEN k + 1 ELSE k
      BY <1>2, PromptsOneFurther
    <3> QED  BY <3>1, <3>2
  <2>5. n \in Nat /\ modelCalls = n + 1
    BY <1>4
  <2>6. r \in Nat
    BY LenProperties DEF AgentTypes
  <2>7. Requested = n
    BY <1>1 DEF Requested
  <2>8. p >= n + (IF next > 1 THEN 1 ELSE 0)
    BY <1>1, <1>4, <2>7 DEF PromptsOfRequests
  <2>9. 2 * Len(prompts) <= n * (n + 1 + 2 * r) + 2 * k
    BY <1>1, <1>4, <2>7 DEF PromptsOfRequests
  <2>10. d \in Nat
    OBVIOUS
  <2>11. n * (n + 1 + 2 * r) \in Nat /\ (n + 1) * ((n + 1) + 1 + 2 * r) = n * (n + 1 + 2 * r) + 2 * (n + 1 + r)
    <3> HIDE DEF n, r
    <3>1. r <= r
      BY <2>6
    <3> QED  BY <2>5, <2>6, <3>1, Triangle
  <2> HIDE DEF p, q, k, l, n, r, d, w, ctx
  <2>12. CASE next < Len(conversation)
    <3>1. stage' = "request" /\ Requested' = n
      BY <1>1, <2>12 DEF Requested, n
    <3>2. q >= n + 1
      BY <1>2, <2>2, <2>5, <2>8
    <3>3. 2 * Len(prompts') <= n * (n + 1 + 2 * r) + 2 * l
      BY <2>3, <2>4, <2>9, <2>10, <2>11
    <3>4. next' > 1
      BY <1>1, <1>2
    <3> QED  BY <1>1, <3>1, <3>2, <3>3, <3>4 DEF PromptsOfRequests, q, w, r, l
  <2>13. CASE ~(next < Len(conversation))
    <3>1. stage' = "create" /\ Requested' = n + 1 /\ next = Len(conversation)
      <4>1. stage' = "create" /\ modelCalls' = n + 1
        BY <1>1, <2>5, <2>13
      <4>2. next = Len(conversation)
        <5>1. next \in Nat /\ Len(conversation) \in Nat /\ next <= Len(conversation)
          BY <1>2
        <5> QED  BY <2>13, <5>1
      <4> QED  BY <4>1, <4>2 DEF Requested
    <3>2. q >= n + 1 + 0
      BY <1>2, <2>2, <2>5, <2>8
    <3>3. l <= n + 1 + ResultsAsPrompts
      <4>1. l = Cardinality(PromptsBefore(conversation, Len(conversation) + 1))
        BY <3>1 DEF l
      <4>2. modelCalls + 0 + ResultsAsPrompts = n + 1 + ResultsAsPrompts
        BY <2>5, UnderWay
      <4> QED  BY <1>1, <4>1, <4>2 DEF PromptsOfConversation
    <3>4. ResultsAsPrompts \in Int /\ ResultsAsPrompts <= r
      BY UnderWay DEF r
    <3>5. 2 * Len(prompts') <= (n + 1) * ((n + 1) + 1 + 2 * r) + 0
      <4>1. l <= n + 1 + r
        BY <2>4, <2>5, <2>6, <2>10, <3>3, <3>4
      <4>2. 2 * Len(prompts') <= n * (n + 1 + 2 * r) + 2 * l
        BY <2>3, <2>4, <2>9, <2>10, <2>11
      <4> DEFINE B == n * (n + 1 + 2 * r)
                 C == (n + 1) * ((n + 1) + 1 + 2 * r)
      <4>3. B \in Nat /\ C = B + 2 * (n + 1 + r) /\ 2 * Len(prompts') <= B + 2 * l
        BY <2>11, <4>2
      <4> HIDE DEF B, C
      <4>4. 2 * Len(prompts') <= C
        BY <2>3, <2>4, <2>5, <2>6, <2>10, <4>1, <4>3
      <4>5. C \in Nat
        BY <2>5, <2>6, <4>3
      <4>6. 2 * Len(prompts') <= C + 0
        BY <4>4, <4>5
      <4> QED  BY <4>6 DEF C
    <3> QED  BY <1>1, <3>1, <3>2, <3>5 DEF PromptsOfRequests, q, w, r
  <2> QED  BY <2>12, <2>13
<1> QED  BY <1>6, <1>7, <1>8, <1>9, <1>10, <1>11

\* The model replies: all its tool calls are due to be scanned and to be run.
LEMMA ModelRepliesPreserves ==
  ASSUME TypeOK, AgentInv, NEW calls \in Replies, NEW stream \in Streams,
         ModelReplies(calls, stream)
  PROVE  AgentInv'
<1> USE DEF AgentInv
<1> DEFINE new == [i \in DOMAIN calls |-> Reported(calls[i])]
<1>1. /\ stage = "create" /\ unanswered' = FALSE /\ reply' = calls
      /\ started' = {} /\ returned' = {} /\ next' = 1
      /\ UNCHANGED <<toolCalls, prompts, adapters, conversation, modelCalls, toolRuns, argued>>
      /\ modelCalls > 0 /\ conversation # <<>>
  BY DEF ModelReplies, vars, Places, Contents
<1>2. \/ ModelIsWrapped /\ stage' = "response" /\ answered' = answered \o new
      \/ stage' = "idle" /\ answered' = answered
  BY DEF ModelReplies
<1>3. calls \in Seq(CallKey) /\ Len(calls) \in Nat /\ DOMAIN calls = 1 .. Len(calls)
  BY AgentAssumption, LenProperties
<1>4. /\ new \in Seq(CallKey) /\ Len(new) = Len(calls)
      /\ \A i \in 1 .. Len(calls) : new[i] = Reported(calls[i])
  <2>1. \A i \in 1 .. Len(calls) : Reported(calls[i]) \in CallKey
    BY <1>3, ElementOfSeq, ReportedType
  <2>2. new \in [1 .. Len(calls) -> CallKey]
    BY <1>3, <2>1
  <2>3. new \in Seq(CallKey) /\ DOMAIN new = 1 .. Len(calls)
    <3>1. DOMAIN new = 1 .. Len(calls)
      BY <1>3
    <3> HIDE DEF new
    <3>2. \E n \in Nat : new \in [1 .. n -> CallKey]
      BY <1>3, <2>2
    <3> QED  BY <3>1, <3>2, SeqDef
  <2>4. Len(new) = Len(calls)
    <3> HIDE DEF new
    <3>1. Len(new) \in Nat /\ 1 .. Len(new) = 1 .. Len(calls)
      BY <2>3, LenProperties
    <3> QED  BY <1>3, <3>1
  <2> QED  BY <1>3, <2>3, <2>4
<1> HIDE DEF new
<1>5. answered \in Seq(CallKey) /\ Len(answered) \in Nat
  BY LenProperties DEF AgentTypes
<1>6. /\ answered \o new \in Seq(CallKey) /\ Len(answered \o new) = Len(answered) + Len(calls)
      /\ \A i \in 1 .. Len(answered) + Len(calls) :
           (answered \o new)[i] = IF i <= Len(answered) THEN answered[i] ELSE new[i - Len(answered)]
  <2>1. new \in Seq(CallKey) /\ answered \in Seq(CallKey) /\ Len(new) = Len(calls)
    BY <1>4, <1>5
  <2>2. /\ answered \o new \in Seq(CallKey) /\ Len(answered \o new) = Len(answered) + Len(new)
        /\ \A i \in 1 .. Len(answered) + Len(new) :
             (answered \o new)[i] = IF i <= Len(answered) THEN answered[i] ELSE new[i - Len(answered)]
    BY <2>1, ConcatProperties
  <2> QED  BY <2>1, <2>2
<1>7. AgentTypes'
  <2>1. /\ reply' \in Seq(CallKey) /\ answered' \in Seq(CallKey)
        /\ stage' \in {"idle", "request", "create", "response"}
    BY <1>1, <1>2, <1>3, <1>5, <1>6
  <2>2. next' \in Nat \ {0}
    BY <1>1
  <2>3. unanswered' \in BOOLEAN
    BY <1>1
  <2>4. started' \subseteq DOMAIN reply' /\ returned' \subseteq started'
    BY <1>1
  <2> QED  BY <1>1, <2>1, <2>2, <2>3, <2>4 DEF AgentTypes
<1>8. Places'
  BY <1>1, <1>2 DEF Places, ModelIsWrapped
<1>9. Contents'
  BY <1>1 DEF Contents
<1>10. PromptsOfConversation'
  <2>1. Cardinality(started' \ returned') = 0
    <3>1. started' \ returned' = {}
      BY <1>1
    <3> QED  BY <3>1, FS_EmptySet
  <2>2. ResultsAsPrompts \in Int /\ ResultsAsPrompts' \in Int /\ ResultsAsPrompts <= ResultsAsPrompts'
    <3>1. /\ Len(toolRuns) \in Nat /\ Cardinality(started \ returned) \in Nat
      BY UnderWay, LenProperties DEF AgentTypes
    <3> QED  BY <1>1, <2>1, <3>1 DEF ResultsAsPrompts
  <2>3. conversation \in Seq(ScanContext) /\ Len(conversation) + 1 \in Nat /\ modelCalls \in Nat
    BY LenProperties DEF AgentTypes
  <2>4. Cardinality(PromptsBefore(conversation, Len(conversation) + 1)) \in Nat
    BY <2>3, PromptsCount
  <2>5. Cardinality(PromptsBefore(conversation, Len(conversation) + 1)) <= modelCalls + 0 + ResultsAsPrompts
    BY <1>1 DEF PromptsOfConversation
  <2>6. Cardinality(PromptsBefore(conversation, Len(conversation) + 1)) <= modelCalls + 0 + ResultsAsPrompts'
    BY <2>2, <2>3, <2>4, <2>5
  <2> QED  BY <1>1, <2>6 DEF PromptsOfConversation
<1>11. PromptsOfRequests'
  <2>1. toolRuns' \in Seq(CallKey) /\ Len(toolRuns) <= Len(toolRuns') /\ stage' # "request"
    BY <1>1, <1>2, LenProperties DEF AgentTypes
  <2> QED  BY <1>1, <2>1, PromptsStay
<1>12. CASE stage' = "idle" /\ answered' = answered
  <2>1. (ReplyIsAnswered /\ OneAdapterSees /\ BothSee)'
    BY <1>1, <1>12, CallsStay
  <2> QED  BY <1>7, <1>8, <1>9, <1>10, <1>11, <2>1
<1>13. CASE ModelIsWrapped /\ stage' = "response" /\ answered' = answered \o new
  <2>1. ReplyIsAnswered'
    <3>1. \A i \in 1 .. Len(calls) :
            (answered \o new)[Len(answered) + Len(calls) - Len(calls) + i] = Reported(calls[i])
      <4> TAKE i \in 1 .. Len(calls)
      <4>1. /\ Len(answered) + Len(calls) - Len(calls) + i = Len(answered) + i
            /\ Len(answered) + i \in 1 .. Len(answered) + Len(calls)
            /\ ~(Len(answered) + i <= Len(answered))
            /\ Len(answered) + i - Len(answered) = i
        BY <1>3, <1>5
      <4> QED  BY <1>4, <1>6, <4>1
    <3>2. \A i \in DOMAIN calls : Reported(calls[i])' = Reported(calls[i])
      BY <1>1 DEF Reported
    <3>3. Len(calls) <= Len(answered) + Len(calls)
      BY <1>3, <1>5
    <3>4. reply' = calls /\ answered' = answered \o new /\ Len(answered') = Len(answered) + Len(calls)
      BY <1>1, <1>6, <1>13
    <3>5. \A i \in DOMAIN calls : answered'[Len(answered') - Len(calls) + i] = Reported(calls[i])
      BY <1>3, <3>1, <3>4
    <3>6. \A i \in DOMAIN reply' : Reported(reply[i])' = Reported(calls[i])
      BY <1>1 DEF Reported
    <3> QED  BY <3>3, <3>4, <3>5, <3>6 DEF ReplyIsAnswered
  <2>2. OneAdapterSees'
    <3>1. adapters' = {"mcp"} => toolCalls' = argued'
      BY <1>1 DEF OneAdapterSees
    <3>2. ASSUME ModelIsWrapped', "mcp" \notin adapters'
          PROVE  /\ Len(answered') = Len(toolCalls') + Awaited'
                 /\ \A i \in DOMAIN toolCalls' : toolCalls'[i] = answered'[i]
      <4>1. toolCalls \in Seq(CallKey) /\ Len(toolCalls) \in Nat /\ DOMAIN toolCalls = 1 .. Len(toolCalls)
        BY LenProperties DEF TypeOK
      <4>2. Awaited = 0 /\ Awaited' = Len(calls) + 1 - 1
        BY <1>1, <1>13 DEF Awaited
      <4>3. /\ Len(answered) = Len(toolCalls) + 0
            /\ \A i \in DOMAIN toolCalls : toolCalls[i] = answered[i]
        BY <1>1, <1>13, <3>2, <4>2 DEF OneAdapterSees
      <4>4. \A i \in 1 .. Len(toolCalls) : (answered \o new)[i] = answered[i]
        BY <1>3, <1>5, <1>6, <4>1, <4>3
      <4> QED  BY <1>1, <1>3, <1>5, <1>6, <1>13, <4>1, <4>2, <4>3, <4>4
    <3> QED  BY <3>1, <3>2 DEF OneAdapterSees
  <2>3. BothSee'
    <3> SUFFICES ASSUME "mcp" \in adapters, NEW key \in CallKey
                 PROVE  Cardinality(Occurrences(toolCalls', key)) + Cardinality(AwaitedOf(key)')
                          = Cardinality(Occurrences(answered', key)) + Cardinality(Occurrences(argued', key))
      BY <1>1, <1>13 DEF BothSee, AwaitedOf, ModelIsWrapped
    <3>1. AwaitedOf(key) = {} /\ Cardinality({}) = 0
      BY <1>1, FS_EmptySet DEF AwaitedOf
    <3>2. AwaitedOf(key)' = Occurrences(new, key)
      <4>1. AwaitedOf(key)' = {i \in DOMAIN calls : 1 <= i /\ Reported(calls[i]) = key}
        BY <1>1, <1>13 DEF AwaitedOf, Reported
      <4>2. DOMAIN new = 1 .. Len(calls)
        BY <1>4, LenProperties
      <4> QED  BY <1>3, <1>4, <4>1, <4>2 DEF Occurrences
    <3>3. Cardinality(Occurrences(toolCalls, key)) + Cardinality(AwaitedOf(key))
            = Cardinality(Occurrences(answered, key)) + Cardinality(Occurrences(argued, key))
      BY <1>13 DEF BothSee
    <3>4. /\ Cardinality(Occurrences(toolCalls, key)) \in Nat
          /\ Cardinality(Occurrences(argued, key)) \in Nat
          /\ Cardinality(Occurrences(answered, key)) \in Nat
          /\ Cardinality(Occurrences(new, key)) \in Nat
      BY <1>4, ConcatOccurrences DEF TypeOK, AgentTypes
    <3>5. Cardinality(Occurrences(answered \o new, key)) =
            Cardinality(Occurrences(answered, key)) + Cardinality(Occurrences(new, key))
      BY <1>4, <1>5, ConcatOccurrences
    <3> QED  BY <1>1, <1>13, <3>1, <3>2, <3>3, <3>4, <3>5
  <2> QED  BY <1>7, <1>8, <1>9, <1>10, <1>11, <2>1, <2>2, <2>3
<1> QED  BY <1>2, <1>12, <1>13

\* One call of the reply is scanned; with the last one, or with the answer that
\* takes the place of calls, the reply is done.
LEMMA ScanResponsePreserves ==
  ASSUME TypeOK, AgentInv, ScanResponse
  PROVE  AgentInv'
<1> USE DEF AgentInv
<1>1. /\ stage = "response" /\ Scan(ReplyContent(reply, next)) /\ next' = next + 1
      /\ stage' = IF next >= Len(reply) THEN "idle" ELSE "response"
      /\ UNCHANGED <<adapters, conversation, unanswered, reply, started, returned,
                     modelCalls, answered, toolRuns, argued>>
  BY DEF ScanResponse, agent, histories, ReplyIsScanned
<1>2. /\ ModelIsWrapped /\ (next <= Len(reply) \/ next = 1) /\ started = {}
      /\ "mcp" \in adapters => adapters # {"mcp"}
  BY <1>1 DEF Places, ModelIsWrapped, ModelAdapter
<1>3. /\ reply \in Seq(CallKey) /\ Len(reply) \in Nat /\ DOMAIN reply = 1 .. Len(reply)
      /\ next \in Nat \ {0} /\ (reply = <<>> <=> Len(reply) = 0)
  BY LenProperties, EmptySeq DEF AgentTypes
<1>4. toolCalls \in Seq(CallKey) /\ Len(toolCalls) \in Nat /\ DOMAIN toolCalls = 1 .. Len(toolCalls)
  BY LenProperties DEF TypeOK
<1>5. next <= Len(reply) \/ reply = <<>>
  BY <1>2, <1>3
<1>6. /\ prompts' = prompts
      /\ reply = <<>> => toolCalls' = toolCalls
      /\ reply # <<>> => toolCalls' = Append(toolCalls, Reported(reply[next]))
  <2> DEFINE c == ReplyContent(reply, next)
  <2>1. /\ c \in ScanContext /\ ~WatchesPrompt(c)
        /\ reply = <<>> => ~WatchesCall(c)
        /\ reply # <<>> => WatchesCall(c) /\ <<c.tool, c.text>> = Reported(reply[next])
    BY <1>3, <1>5, ReplyContentShape
  <2>2. Scan(c)
    BY <1>1
  <2> HIDE DEF c
  <2> QED  BY <2>1, <2>2, ScanAdds
<1>7. AgentTypes'
  <2>1. next' \in Nat \ {0} /\ stage' \in {"idle", "request", "create", "response"}
    BY <1>1, <1>3
  <2> QED  BY <1>1, <2>1 DEF AgentTypes
<1>8. Places'
  <2>1. stage' = "response" => next' <= Len(reply)
    BY <1>1, <1>3
  <2>2. stage' # "request" /\ stage' # "create"
    BY <1>1
  <2> QED  BY <1>1, <1>2, <2>1, <2>2 DEF Places, ModelIsWrapped
<1>9. Contents'
  BY <1>1 DEF Contents
<1>10. ReplyIsAnswered'
  BY <1>1 DEF ReplyIsAnswered, Reported
<1>11. PromptsOfConversation'
  <2>1. ResultsAsPrompts' = ResultsAsPrompts /\ ResultsAsPrompts \in Int /\ modelCalls \in Nat
    BY <1>1, UnderWay DEF ResultsAsPrompts, AgentTypes
  <2>2. conversation \in Seq(ScanContext) /\ Len(conversation) + 1 \in Nat
    BY LenProperties DEF AgentTypes
  <2>3. Cardinality(PromptsBefore(conversation, Len(conversation) + 1)) \in Nat
    BY <2>2, PromptsCount
  <2> QED  BY <1>1, <2>1, <2>3 DEF PromptsOfConversation
<1>12. PromptsOfRequests'
  <2>1. toolRuns' \in Seq(CallKey) /\ Len(toolRuns) <= Len(toolRuns') /\ stage' # "request"
    BY <1>1, LenProperties DEF AgentTypes
  <2> QED  BY <1>1, <1>6, <2>1, PromptsStay
<1>13. OneAdapterSees'
  <2> SUFFICES ASSUME "mcp" \notin adapters
               PROVE  /\ Len(answered) = Len(toolCalls') + Awaited'
                      /\ \A i \in DOMAIN toolCalls' : toolCalls'[i] = answered[i]
    BY <1>1, <1>2 DEF OneAdapterSees
  <2>1. /\ Len(answered) = Len(toolCalls) + (Len(reply) + 1 - next)
        /\ \A i \in 1 .. Len(toolCalls) : toolCalls[i] = answered[i]
    BY <1>1, <1>2, <1>4 DEF OneAdapterSees, Awaited
  <2>2. CASE reply = <<>>
    <3>1. Awaited' = 0 /\ next = 1 /\ Len(reply) = 0
      BY <1>1, <1>2, <1>3, <2>2 DEF Awaited
    <3> QED  BY <1>4, <1>6, <2>1, <2>2, <3>1
  <2>3. CASE reply # <<>>
    <3>1. next \in 1 .. Len(reply)
      BY <1>3, <1>5, <2>3
    <3>2. Awaited' = Len(reply) - next
      <4>1. Awaited' = IF next >= Len(reply) THEN 0 ELSE Len(reply) + 1 - (next + 1)
        BY <1>1 DEF Awaited
      <4>2. next \in Nat /\ Len(reply) \in Nat /\ next <= Len(reply)
        BY <1>3, <3>1
      <4> QED  BY <4>1, <4>2
    <3> DEFINE call == Reported(reply[next])
               new == Append(toolCalls, call)
    <3>3. call \in CallKey
      BY <1>3, <3>1, ElementOfSeq, ReportedType
    <3> HIDE DEF call
    <3>4. /\ Len(new) = Len(toolCalls) + 1 /\ DOMAIN new = 1 .. Len(toolCalls) + 1
          /\ \A i \in 1 .. Len(toolCalls) : new[i] = toolCalls[i]
          /\ new[Len(toolCalls) + 1] = call
      BY <1>4, <3>3, AppendEntry
    <3>5. answered[Len(toolCalls) + 1] = call
      <4>1. Len(answered) - Len(reply) + next = Len(toolCalls) + 1
        BY <1>3, <1>4, <2>1
      <4>2. answered[Len(answered) - Len(reply) + next] = call
        BY <1>1, <1>3, <3>1 DEF ReplyIsAnswered, call
      <4> QED  BY <4>1, <4>2
    <3> HIDE DEF new
    <3>6. \A i \in 1 .. Len(toolCalls) + 1 : i \in 1 .. Len(toolCalls) \/ i = Len(toolCalls) + 1
      BY <1>4
    <3>7. \A i \in DOMAIN new : new[i] = answered[i]
      BY <2>1, <3>4, <3>5, <3>6
    <3>8. toolCalls' = new
      BY <1>6, <2>3 DEF new, call
    <3>9. Len(answered) = Len(toolCalls) + 1 + (Len(reply) - next)
      BY <1>3, <1>4, <2>1
    <3> QED  BY <3>2, <3>4, <3>7, <3>8, <3>9
  <2> QED  BY <2>2, <2>3
<1>14. BothSee'
  <2> SUFFICES ASSUME "mcp" \in adapters, NEW key \in CallKey
               PROVE  Cardinality(Occurrences(toolCalls', key)) + Cardinality(AwaitedOf(key)')
                        = Cardinality(Occurrences(answered, key)) + Cardinality(Occurrences(argued, key))
    BY <1>1 DEF BothSee, AwaitedOf, ModelIsWrapped
  <2> DEFINE A == AwaitedOf(key)
             B == AwaitedOf(key)'
  <2>1. Cardinality(Occurrences(toolCalls, key)) + Cardinality(A)
          = Cardinality(Occurrences(answered, key)) + Cardinality(Occurrences(argued, key))
    BY <1>2 DEF BothSee
  <2>2. A = {i \in 1 .. Len(reply) : next <= i /\ Reported(reply[i]) = key}
    BY <1>1, <1>3 DEF AwaitedOf
  <2>3. B = {i \in 1 .. Len(reply) : next + 1 <= i /\ Reported(reply[i]) = key}
    <3>1. CASE next >= Len(reply)
      <4>1. B = {}
        BY <1>1, <3>1 DEF AwaitedOf
      <4>2. \A i \in 1 .. Len(reply) : ~(next + 1 <= i)
        BY <1>3, <3>1
      <4> QED  BY <4>1, <4>2
    <3>2. CASE ~(next >= Len(reply))
      BY <1>1, <1>3, <3>2 DEF AwaitedOf, Reported
    <3> QED  BY <3>1, <3>2
  <2> HIDE DEF A, B
  <2>4. IsFiniteSet(B) /\ Cardinality(B) \in Nat
    <3>1. B \subseteq 1 .. Len(reply) /\ IsFiniteSet(1 .. Len(reply))
      BY <1>3, <2>3, FS_Interval
    <3> QED  BY <3>1, FS_Subset, FS_CardinalityType
  <2>5. Cardinality(Occurrences(toolCalls, key)) \in Nat
    BY <1>4, ConcatOccurrences
  <2>6. CASE reply = <<>>
    <3>1. A = {} /\ B = {}
      BY <1>3, <2>2, <2>3, <2>6
    <3> QED  BY <1>6, <2>1, <2>6, <3>1 DEF A, B
  <2>7. CASE reply # <<>>
    <3>1. next \in 1 .. Len(reply) /\ reply[next] \in CallKey
      BY <1>3, <1>5, <2>7, ElementOfSeq
    <3> DEFINE call == Reported(reply[next])
    <3>2. call \in CallKey
      BY <3>1, ReportedType
    <3>3. A = IF key = call THEN B \cup {next} ELSE B
      <4>1. \A i \in 1 .. Len(reply) : next <= i <=> next + 1 <= i \/ i = next
        BY <1>3
      <4> QED  BY <2>2, <2>3, <3>1, <4>1
    <3>4. next \notin B
      BY <1>3, <2>3
    <3> HIDE DEF call
    <3>5. Cardinality(A) = IF key = call THEN Cardinality(B) + 1 ELSE Cardinality(B)
      <4>1. Cardinality(B \cup {next}) = Cardinality(B) + 1
        BY <2>4, <3>4, FS_AddElement
      <4> QED  BY <3>3, <4>1
    <3>6. Cardinality(Occurrences(Append(toolCalls, call), key)) =
            IF key = call THEN Cardinality(Occurrences(toolCalls, key)) + 1
                          ELSE Cardinality(Occurrences(toolCalls, key))
      BY <1>4, <3>2, AppendOccurrences
    <3>7. toolCalls' = Append(toolCalls, call)
      BY <1>6, <2>7 DEF call
    <3>8. Cardinality(Occurrences(toolCalls', key)) + Cardinality(B)
            = Cardinality(Occurrences(toolCalls, key)) + Cardinality(A)
      BY <2>4, <2>5, <3>5, <3>6, <3>7
    <3> QED  BY <2>1, <3>8 DEF A, B
  <2> QED  BY <2>6, <2>7
<1> QED  BY <1>7, <1>8, <1>9, <1>10, <1>11, <1>12, <1>13, <1>14

\* A tool is started: both adapters' histories grow by the same call, or neither.
LEMMA StartToolPreserves ==
  ASSUME TypeOK, AgentInv, NEW i \in DOMAIN reply \ started, StartTool(i)
  PROVE  AgentInv'
<1> USE DEF AgentInv
<1> DEFINE tool == reply[i][1]
           text == reply[i][2]
           run == <<tool, Dumped[text]>>
<1>1. /\ stage = "idle" /\ started' = started \cup {i} /\ toolRuns' = Append(toolRuns, run)
      /\ argued' = IF text = NoArguments THEN argued ELSE Append(argued, run)
      /\ UNCHANGED <<adapters, conversation, unanswered, stage, next, reply, returned,
                     modelCalls, answered>>
  BY DEF StartTool
<1>2. /\ reply[i] \in CallKey /\ tool \in Tools /\ Dumped[text] \in Texts /\ run \in CallKey
      /\ i \in DOMAIN reply
  <2>1. reply[i] \in CallKey
    BY ElementOfSeq, LenProperties DEF AgentTypes
  <2>2. tool \in Tools /\ Dumped[text] \in Texts
    BY <2>1, ReportedType
  <2> QED  BY <2>1, <2>2 DEF CallKey
<1>3. /\ prompts' = prompts
      /\ toolCalls' = IF "mcp" \in adapters /\ text # NoArguments THEN Append(toolCalls, run)
                                                                 ELSE toolCalls
  <2>1. CASE "mcp" \in adapters /\ text # NoArguments
    <3> DEFINE c == Context("tool_input", tool, Dumped[text])
    <3>1. Scan(c)
      BY <2>1 DEF StartTool, ArgumentsAreScanned
    <3>2. c \in ScanContext /\ WatchesCall(c) /\ ~WatchesPrompt(c) /\ <<c.tool, c.text>> = run
      BY <1>2, RunContentShape
    <3> HIDE DEF c, run
    <3> QED  BY <2>1, <3>1, <3>2, ScanAdds
  <2>2. CASE ~("mcp" \in adapters /\ text # NoArguments)
    BY <2>2 DEF StartTool, ArgumentsAreScanned, vars
  <2> QED  BY <2>1, <2>2
<1> HIDE DEF run, text, tool
<1>4. /\ argued \in Seq(CallKey) /\ toolCalls \in Seq(CallKey) /\ toolRuns \in Seq(CallKey)
      /\ answered \in Seq(CallKey)
  BY DEF TypeOK, AgentTypes
<1>5. toolRuns' \in Seq(CallKey) /\ Len(toolRuns) \in Nat /\ Len(toolRuns') = Len(toolRuns) + 1
  BY <1>1, <1>2, <1>4, AppendEntry
<1>6. AgentTypes'
  <2>1. argued' \in Seq(CallKey)
    BY <1>1, <1>2, <1>4, AppendEntry
  <2>2. started' \subseteq DOMAIN reply /\ returned \subseteq started'
    BY <1>1, <1>2 DEF AgentTypes
  <2> QED  BY <1>1, <1>5, <2>1, <2>2 DEF AgentTypes
<1>7. Places' /\ Contents'
  BY <1>1 DEF Places, Contents, ModelIsWrapped
<1>8. ReplyIsAnswered'
  BY <1>1 DEF ReplyIsAnswered
<1>9. OneAdapterSees'
  <2>1. adapters = {"mcp"} => toolCalls' = argued'
    <3>1. adapters = {"mcp"} => toolCalls = argued
      BY DEF OneAdapterSees
    <3> QED  BY <1>1, <1>3, <3>1
  <2>2. "mcp" \notin adapters => toolCalls' = toolCalls
    BY <1>3
  <2> QED  BY <1>1, <2>1, <2>2 DEF OneAdapterSees, Awaited, ModelIsWrapped
<1>10. BothSee'
  <2> SUFFICES ASSUME "mcp" \in adapters, ModelIsWrapped, NEW key \in CallKey
               PROVE  Cardinality(Occurrences(toolCalls', key)) + Cardinality({})
                        = Cardinality(Occurrences(answered, key)) + Cardinality(Occurrences(argued', key))
    BY <1>1 DEF BothSee, AwaitedOf, ModelIsWrapped
  <2>1. Cardinality(Occurrences(toolCalls, key)) + Cardinality({})
          = Cardinality(Occurrences(answered, key)) + Cardinality(Occurrences(argued, key))
    <3>1. AwaitedOf(key) = {}
      BY <1>1 DEF AwaitedOf
    <3>2. Cardinality(Occurrences(toolCalls, key)) + Cardinality(AwaitedOf(key))
            = Cardinality(Occurrences(answered, key)) + Cardinality(Occurrences(argued, key))
      BY DEF BothSee
    <3> QED  BY <3>1, <3>2
  <2>2. CASE text = NoArguments
    BY <1>1, <1>3, <2>1, <2>2
  <2>3. CASE text # NoArguments
    <3>1. /\ Cardinality(Occurrences(toolCalls, key)) \in Nat
          /\ Cardinality(Occurrences(answered, key)) \in Nat
          /\ Cardinality(Occurrences(argued, key)) \in Nat
          /\ Cardinality({}) = 0
      BY <1>4, ConcatOccurrences, FS_EmptySet
    <3>2. Cardinality(Occurrences(toolCalls', key)) =
            IF key = run THEN Cardinality(Occurrences(toolCalls, key)) + 1
                         ELSE Cardinality(Occurrences(toolCalls, key))
      BY <1>2, <1>3, <1>4, <2>3, AppendOccurrences
    <3>3. Cardinality(Occurrences(argued', key)) =
            IF key = run THEN Cardinality(Occurrences(argued, key)) + 1
                         ELSE Cardinality(Occurrences(argued, key))
      BY <1>1, <1>2, <1>4, <2>3, AppendOccurrences
    <3> QED  BY <2>1, <3>1, <3>2, <3>3
  <2> QED  BY <2>2, <2>3
<1>11. PromptsOfConversation'
  <2>1. Cardinality(started' \ returned') = Cardinality(started \ returned) + 1
    <3>1. started' \ returned' = (started \ returned) \cup {i} /\ i \notin started \ returned
      BY <1>1 DEF AgentTypes
    <3> QED  BY <3>1, UnderWay, FS_AddElement
  <2>2. Cardinality(started \ returned) \in Nat
    BY UnderWay
  <2>3. ResultsAsPrompts' = ResultsAsPrompts
    BY <1>1, <1>5, <2>1, <2>2 DEF ResultsAsPrompts
  <2> QED  BY <1>1, <2>3 DEF PromptsOfConversation
<1>12. PromptsOfRequests'
  <2>1. Len(toolRuns) <= Len(toolRuns')
    BY <1>5
  <2> QED  BY <1>1, <1>3, <1>5, <2>1, PromptsStay
<1> QED  BY <1>6, <1>7, <1>8, <1>9, <1>10, <1>11, <1>12

\* What becomes of a tool call is appended to the conversation.
LEMMA ResultContentsShape ==
  ASSUME AgentTypes, Contents, NEW text \in Results
  PROVE  LET d == conversation \o ResultContents(text)
             n == Cardinality(PromptsBefore(conversation, Len(conversation) + 1))
         IN  /\ d \in Seq(ScanContext) /\ d # <<>>
             /\ \A j \in DOMAIN d : d[j].surface \in {"user_prompt", "tool_output"}
             /\ conversation # <<>> => d[1] = conversation[1]
             /\ n \in Nat
             /\ Cardinality(PromptsBefore(d, Len(d) + 1)) =
                  IF "anthropic" \in adapters THEN n + 1 ELSE n
<1> DEFINE a == Context("tool_output", NoTool, text)
           b == Context("user_prompt", NoTool, text)
           n == Cardinality(PromptsBefore(conversation, Len(conversation) + 1))
           c == Append(conversation, a)
           d == Append(c, b)
<1>1. /\ a \in ScanContext /\ a.surface = "tool_output"
      /\ b \in ScanContext /\ b.surface = "user_prompt"
  <2>1. text \in Texts /\ "tool_output" \in Surface /\ "user_prompt" \in Surface
    BY AgentAssumption DEF Surface
  <2> QED  BY <2>1, ContextType DEF Context
<1>2. conversation \o ResultContents(text) = IF "anthropic" \in adapters THEN d ELSE c
  <2>1. conversation \in Seq(ScanContext)
    BY DEF AgentTypes
  <2>2. ResultContents(text) = IF "anthropic" \in adapters THEN <<a, b>> ELSE <<a>>
    BY DEF ResultContents
  <2> HIDE DEF a, b
  <2> QED  BY <1>1, <2>1, <2>2, AppendTwo
<1> HIDE DEF a, b
<1>3. /\ conversation \in Seq(ScanContext) /\ Len(conversation) + 1 \in Nat
      /\ \A j \in DOMAIN conversation : conversation[j].surface \in {"user_prompt", "tool_output"}
  BY LenProperties DEF AgentTypes, Contents
<1>4. n \in Nat
  BY <1>3, PromptsCount
<1>5. /\ c \in Seq(ScanContext) /\ c # <<>>
      /\ \A j \in DOMAIN c : c[j].surface \in {"user_prompt", "tool_output"}
      /\ conversation # <<>> => c[1] = conversation[1]
  BY <1>1, <1>3, ContentsGrow
<1>6. Cardinality(PromptsBefore(c, Len(c) + 1)) = n
  BY <1>1, <1>3, PromptsOneMore
<1> HIDE DEF c
<1>7. /\ d \in Seq(ScanContext) /\ d # <<>>
      /\ \A j \in DOMAIN d : d[j].surface \in {"user_prompt", "tool_output"}
      /\ d[1] = c[1]
  BY <1>1, <1>5, ContentsGrow
<1>8. Cardinality(PromptsBefore(d, Len(d) + 1)) = n + 1
  BY <1>1, <1>5, <1>6, PromptsOneMore
<1> HIDE DEF d, n
<1> QED  BY <1>2, <1>4, <1>5, <1>6, <1>7, <1>8 DEF n

\* A tool call comes back: its result is a message more, and in flight no more.
LEMMA SendBackPreserves ==
  ASSUME TypeOK, AgentInv, NEW i \in started \ returned, NEW text \in Results,
         SendBack(i, text), UNCHANGED <<toolCalls, prompts>>
  PROVE  AgentInv'
<1> USE DEF AgentInv
<1> DEFINE d == conversation \o ResultContents(text)
           n == Cardinality(PromptsBefore(conversation, Len(conversation) + 1))
<1>1. /\ stage = "idle" /\ returned' = returned \cup {i} /\ conversation' = d /\ unanswered' = TRUE
      /\ UNCHANGED <<adapters, stage, next, reply, started, modelCalls, answered, toolRuns, argued>>
  BY DEF SendBack, histories
<1>2. /\ d \in Seq(ScanContext) /\ d # <<>>
      /\ \A j \in DOMAIN d : d[j].surface \in {"user_prompt", "tool_output"}
      /\ conversation # <<>> => d[1] = conversation[1]
      /\ n \in Nat
      /\ Cardinality(PromptsBefore(d, Len(d) + 1)) = IF "anthropic" \in adapters THEN n + 1 ELSE n
  BY ResultContentsShape
<1>3. modelCalls \in Nat /\ modelCalls > 0 /\ conversation # <<>>
  <2>1. reply # <<>>
    BY DEF AgentTypes
  <2> QED  BY <2>1 DEF Places, Contents, AgentTypes
<1> HIDE DEF d, n
<1>4. AgentTypes'
  <2>1. returned' \subseteq started
    BY <1>1 DEF AgentTypes
  <2>2. unanswered' \in BOOLEAN
    BY <1>1
  <2> QED  BY <1>1, <1>2, <2>1, <2>2 DEF AgentTypes
<1>5. Places'
  BY <1>1 DEF Places
<1>6. Contents'
  BY <1>1, <1>2, <1>3 DEF Contents
<1>7. (ReplyIsAnswered /\ OneAdapterSees /\ BothSee)'
  BY <1>1, CallsStay
<1>8. PromptsOfConversation'
  <2>1. Cardinality(started' \ returned') = Cardinality(started \ returned) - 1
    <3>1. started' \ returned' = (started \ returned) \ {i} /\ i \in started \ returned
      BY <1>1
    <3> QED  BY <3>1, UnderWay, FS_RemoveElement
  <2>2. Cardinality(started \ returned) \in Nat /\ Len(toolRuns) \in Nat /\ ResultsAsPrompts \in Int
    BY UnderWay, LenProperties DEF AgentTypes
  <2>3. ResultsAsPrompts' = IF "anthropic" \in adapters THEN ResultsAsPrompts + 1 ELSE ResultsAsPrompts
    BY <1>1, <2>1, <2>2 DEF ResultsAsPrompts
  <2>4. n <= modelCalls + (IF stage = "idle" /\ unanswered THEN 1 ELSE 0) + ResultsAsPrompts
    BY DEF PromptsOfConversation, n
  <2>5. n <= modelCalls + 1 + ResultsAsPrompts
    BY <1>2, <1>3, <2>2, <2>4
  <2>6. Cardinality(PromptsBefore(conversation', Len(conversation') + 1))
          <= modelCalls + 1 + ResultsAsPrompts'
    BY <1>1, <1>2, <1>3, <2>2, <2>3, <2>5
  <2> QED  BY <1>1, <2>6 DEF PromptsOfConversation
<1>9. PromptsOfRequests'
  <2>1. toolRuns' \in Seq(CallKey) /\ Len(toolRuns) <= Len(toolRuns') /\ stage' # "request"
    BY <1>1, LenProperties DEF AgentTypes
  <2> QED  BY <1>1, <1>2, <2>1, PromptsStay
<1> QED  BY <1>4, <1>5, <1>6, <1>7, <1>8, <1>9

\* A tool's text is scanned as output, which neither detector watches.
LEMMA ToolReturnsPreserves ==
  ASSUME TypeOK, AgentInv, NEW i \in started \ returned, NEW result \in Results,
         ToolReturns(i, result) \/ ToolReturnsNothing(i, result)
  PROVE  AgentInv'
<1>1. SendBack(i, result)
  BY DEF ToolReturns, ToolReturnsNothing
<1>2. UNCHANGED <<toolCalls, prompts>>
  <2>1. CASE UNCHANGED vars
    BY <2>1 DEF vars
  <2>2. CASE Scan(Context("tool_output", reply[i][1], result))
    <3>1. i \in DOMAIN reply /\ reply \in Seq(CallKey)
      BY DEF AgentInv, AgentTypes
    <3>2. reply[i] \in CallKey /\ result \in Texts
      BY <3>1, ElementOfSeq, LenProperties, AgentAssumption
    <3> DEFINE c == Context("tool_output", reply[i][1], result)
    <3>3. c \in ScanContext /\ ~WatchesCall(c) /\ ~WatchesPrompt(c)
      BY <3>2, ReportedType, RunContentShape
    <3> HIDE DEF c
    <3> QED  BY <2>2, <3>3, ScanAdds DEF c
  <2> QED  BY <2>1, <2>2 DEF ToolReturns, ToolReturnsNothing
<1> QED  BY <1>1, <1>2, SendBackPreserves

-----------------------------------------------------------------------------
(* The theorems about the agent. *)

\* Every step keeps both invariants: the scans go to the detectors, and the
\* agent remembers what was scanned.
LEMMA AgentStep == Inv /\ AgentInv /\ [AgentNext]_agentVars => (Inv /\ AgentInv)'
<1> SUFFICES ASSUME Inv, AgentInv, [AgentNext]_agentVars
             PROVE  (Inv /\ AgentInv)'
  OBVIOUS
<1>1. AgentTypes /\ Places /\ TypeOK
  BY DEF AgentInv, Inv
<1>2. Inv'
  BY <1>1, AgentStepIsStep, NextInv
<1>3. AgentInv'
  <2>1. ASSUME NEW text \in Texts \ {NoArguments}, UserSays(text)
        PROVE  AgentInv'
    BY <1>1, <2>1, UserSaysPreserves
  <2>2. CASE CallModel
    BY <1>1, <2>2, CallModelPreserves
  <2>3. CASE ScanRequest
    BY <1>1, <2>3, ScanRequestPreserves
  <2>4. ASSUME NEW calls \in Replies, NEW stream \in Streams, ModelReplies(calls, stream)
        PROVE  AgentInv'
    BY <1>1, <2>4, ModelRepliesPreserves
  <2>5. CASE ModelFails
    BY <1>1, <2>5, ModelFailsPreserves
  <2>6. CASE ScanResponse
    BY <1>1, <2>6, ScanResponsePreserves
  <2>7. ASSUME NEW i \in DOMAIN reply \ started, StartTool(i)
        PROVE  AgentInv'
    BY <1>1, <2>7, StartToolPreserves
  <2>8. ASSUME NEW i \in started \ returned, NEW result \in Results,
               ToolReturns(i, result) \/ ToolReturnsNothing(i, result)
        PROVE  AgentInv'
    BY <1>1, <2>8, ToolReturnsPreserves
  <2>9. CASE UNCHANGED agentVars
    <3> USE <2>9 DEF AgentInv, agentVars, agent, histories, vars
    <3>1. AgentTypes' /\ Places' /\ Contents' /\ ReplyIsAnswered'
      BY DEF AgentTypes, Places, Contents, ReplyIsAnswered, ModelIsWrapped, Reported
    <3>2. OneAdapterSees' /\ BothSee'
      BY DEF OneAdapterSees, BothSee, Awaited, AwaitedOf, ModelIsWrapped, Reported
    <3>3. PromptsOfConversation' /\ PromptsOfRequests'
      BY DEF PromptsOfConversation, PromptsOfRequests, PromptsBefore, ModelIsWrapped,
             Requested, ResultsAsPrompts
    <3> QED  BY <3>1, <3>2, <3>3
  <2> QED  BY <2>1, <2>2, <2>3, <2>4, <2>5, <2>6, <2>7, <2>8, <2>9 DEF AgentNext
<1> QED  BY <1>2, <1>3

LEMMA AgentInvariance == AgentSpec => [](Inv /\ AgentInv)
<1>1. AgentInit => Inv /\ AgentInv
  BY InitInv, AgentInitInv DEF AgentInit
<1> QED  BY <1>1, AgentStep, PTL DEF AgentSpec

\* What the adapters of an agent scan is a trace as DetectorHistory describes
\* it, with whatever SDKs and tools: what is proved of the detectors on such a
\* trace holds of the agent's.
THEOREM AgentIsATrace == AgentSpec => Spec
<1>1. AgentInit => Init
  BY DEF AgentInit
<1>2. AgentInv => AgentTypes /\ Places
  BY DEF AgentInv
<1> QED  BY <1>1, <1>2, AgentInvariance, AgentStepIsStep, PTL DEF AgentSpec, Spec

\* The agent's state, the wrappers' progress and the histories keep their types,
\* for every bound on calls and every set of replies and results.
THEOREM AgentTypesHold == AgentSpec => []AgentTypes
<1>1. Inv /\ AgentInv => AgentTypes
  BY DEF AgentInv
<1> QED  BY <1>1, AgentInvariance, PTL

\* With one adapter the sequence detector reports exactly the anomalies of the
\* calls the adapter can know of (mcp_client.py:51, _scan_response), however
\* long the conversation and however many tools run at once.
THEOREM OneAdapterIsExact == AgentSpec => []OneAdapterExact
<1>1. Inv /\ AgentInv => OneAdapterExact
  <2> SUFFICES ASSUME Inv, AgentInv, NEW adapter \in adapters,
                      adapters = {adapter}, stage # "response"
               PROVE  \A rule \in SequenceRule :
                        rule \in sequence.flagged <=> ToolAnomaly(rule, Visible(adapter))
    BY DEF OneAdapterExact
  <2>1. toolCalls \in Seq(CallKey) /\ answered \in Seq(CallKey)
    BY DEF Inv, TypeOK, AgentInv, AgentTypes
  <2>2. CASE adapter \in ModelAdapter
    <3>1. ModelIsWrapped /\ "mcp" \notin adapters
      BY <2>2 DEF ModelIsWrapped, ModelAdapter
    <3>2. /\ Len(answered) = Len(toolCalls) + 0
          /\ \A i \in DOMAIN toolCalls : toolCalls[i] = answered[i]
      BY <3>1 DEF AgentInv, OneAdapterSees, Awaited
    <3>3. Len(toolCalls) \in Nat /\ DOMAIN toolCalls = 1 .. Len(toolCalls)
      BY <2>1, LenProperties
    <3>4. Len(toolCalls) = Len(answered) /\ \A i \in 1 .. Len(toolCalls) : toolCalls[i] = answered[i]
      BY <3>2, <3>3
    <3>5. toolCalls = answered
      BY <2>1, <3>4, SeqEqual
    <3> QED  BY <2>2, <3>5 DEF Inv, SequenceAgrees, Visible, ToolAnomaly, SequenceRule
  <2>3. CASE adapter \notin ModelAdapter
    <3>1. adapters = {"mcp"}
      BY <2>3, AgentAssumption DEF AgentInv, AgentTypes, ModelAdapter
    <3>2. toolCalls = argued
      BY <3>1 DEF AgentInv, OneAdapterSees
    <3> QED  BY <2>3, <3>2 DEF Inv, SequenceAgrees, Visible, ToolAnomaly, SequenceRule
  <2> QED  BY <2>2, <2>3
<1> QED  BY <1>1, AgentInvariance, PTL

\* With both adapters each call counts exactly as often as it was seen in a
\* reply and run with arguments, never once more for a resent history.
THEOREM BothAdaptersCountTwice == AgentSpec => []BothCountTwice
<1>1. Inv /\ AgentInv => BothCountTwice
  <2> SUFFICES ASSUME Inv, AgentInv, "mcp" \in adapters, ModelIsWrapped, stage # "response",
                      NEW key \in CallKey
               PROVE  sequence.calls[key] =
                        Cardinality(Occurrences(answered, key)) + Cardinality(Occurrences(argued, key))
    BY DEF BothCountTwice
  <2>1. AwaitedOf(key) = {} /\ Cardinality({}) = 0
    BY FS_EmptySet DEF AwaitedOf
  <2>2. Cardinality(Occurrences(toolCalls, key)) + Cardinality(AwaitedOf(key))
          = Cardinality(Occurrences(answered, key)) + Cardinality(Occurrences(argued, key))
    BY DEF AgentInv, BothSee
  <2>3. Cardinality(Occurrences(toolCalls, key)) \in Nat
    BY ConcatOccurrences DEF Inv, TypeOK
  <2>4. sequence.calls[key] = Cardinality(Occurrences(toolCalls, key))
    BY DEF Inv, SequenceAgrees
  <2> QED  BY <2>1, <2>2, <2>3, <2>4
<1> QED  BY <1>1, AgentInvariance, PTL

\* The first message of a conversation was scanned with every call, so that it
\* occurs, and prompts were scanned, at least as often as the model was called.
LEMMA FirstPromptRecurs ==
  ASSUME Inv, AgentInv, ModelIsWrapped, stage # "request", modelCalls > 0
  PROVE  /\ conversation[1].text \in Texts
         /\ Cardinality(Occurrences(prompts, conversation[1].text)) >= modelCalls
         /\ Len(prompts) >= modelCalls
<1> DEFINE w == conversation[1].text
<1>1. modelCalls \in Nat /\ prompts \in Seq(Texts) /\ conversation \in Seq(ScanContext)
  BY DEF AgentInv, AgentTypes, Inv, TypeOK
<1>2. conversation # <<>>
  BY DEF AgentInv, Contents
<1>3. w \in Texts
  <2>1. conversation[1] \in ScanContext
    <3>1. Len(conversation) \in Nat /\ Len(conversation) # 0
      BY <1>1, <1>2, LenProperties, EmptySeq
    <3>2. 1 \in 1 .. Len(conversation)
      BY <3>1
    <3> QED  BY <1>1, <3>2, ElementOfSeq
  <2> QED  BY <2>1 DEF ScanContext
<1>4. Cardinality(Occurrences(prompts, w)) >= modelCalls
  <2>1. Requested = modelCalls
    BY DEF Requested
  <2>2. Cardinality(Occurrences(prompts, w)) >= modelCalls + 0
    BY <1>2, <2>1 DEF AgentInv, PromptsOfRequests
  <2> QED  BY <1>1, <2>2
<1> HIDE DEF w
<1>5. Len(prompts) \in Nat /\ Cardinality(Occurrences(prompts, w)) <= Len(prompts)
  <2>1. Len(prompts) \in Nat /\ DOMAIN prompts = 1 .. Len(prompts)
    BY <1>1, LenProperties
  <2>2. IsFiniteSet(1 .. Len(prompts)) /\ Cardinality(1 .. Len(prompts)) = Len(prompts)
    <3>1. 1 .. Len(prompts) = 1 .. Len(prompts) /\ (1 > Len(prompts) => Len(prompts) = 0)
      BY <2>1
    <3> QED  BY <2>1, <3>1, FS_Interval
  <2>3. Occurrences(prompts, w) \subseteq 1 .. Len(prompts)
    BY <2>1 DEF Occurrences
  <2> QED  BY <2>1, <2>2, <2>3, FS_Subset
<1>6. Cardinality(Occurrences(prompts, w)) \in Nat
  BY <1>1, ConcatOccurrences
<1>7. Len(prompts) >= modelCalls
  BY <1>1, <1>4, <1>5, <1>6
<1> QED  BY <1>3, <1>4, <1>7 DEF w

\* The requests so far, also one that is under way, hold no more prompts than
\* n(n + 1 + 2r)/2, for n calls and r tool results taken for messages.
LEMMA PromptsAreBounded ==
  ASSUME Inv, AgentInv, ModelIsWrapped
  PROVE  2 * Len(prompts) <= modelCalls *
           (modelCalls + 1 + 2 * (IF "anthropic" \in adapters THEN Len(toolRuns) ELSE 0))
<1> USE DEF AgentInv
<1> DEFINE r == IF "anthropic" \in adapters THEN Len(toolRuns) ELSE 0
<1>1. modelCalls \in Nat /\ Len(prompts) \in Nat /\ r \in Nat
  BY LenProperties DEF AgentTypes, Inv, TypeOK
<1>2. CASE stage # "request"
  <2>1. Requested = modelCalls
    BY <1>2 DEF Requested
  <2>2. 2 * Len(prompts) <= modelCalls * (modelCalls + 1 + 2 * r) + 0
    BY <1>2, <2>1 DEF PromptsOfRequests
  <2> DEFINE B == modelCalls * (modelCalls + 1 + 2 * r)
  <2> HIDE DEF r
  <2>3. r <= r
    BY <1>1
  <2>4. B \in Nat
    BY <1>1, <2>3, Triangle
  <2>5. 2 * Len(prompts) <= B + 0
    BY <2>2
  <2> HIDE DEF B
  <2>6. 2 * Len(prompts) <= B
    BY <1>1, <2>4, <2>5
  <2> QED  BY <2>6 DEF B, r
<1>3. CASE stage = "request"
  <2> DEFINE n == modelCalls - 1
             k == Cardinality(PromptsBefore(conversation, next))
             l == Cardinality(PromptsBefore(conversation, Len(conversation) + 1))
             B == n * (n + 1 + 2 * r)
             C == (n + 1) * ((n + 1) + 1 + 2 * r)
  <2>1. n \in Nat /\ modelCalls = n + 1 /\ Requested = n
    BY <1>1, <1>3 DEF Places, Requested
  <2>2. /\ conversation \in Seq(ScanContext) /\ Len(conversation) \in Nat
        /\ next \in Nat /\ next <= Len(conversation)
    BY <1>3, LenProperties DEF AgentTypes, Places
  <2>3. k \in Nat /\ l \in Nat /\ k <= l
    <3>1. Len(conversation) + 1 \in Nat
      BY <2>2
    <3>2. /\ k \in Nat /\ l \in Nat
          /\ IsFiniteSet(PromptsBefore(conversation, Len(conversation) + 1))
      BY <2>2, <3>1, PromptsCount
    <3>3. DOMAIN conversation = 1 .. Len(conversation)
      BY <2>2, LenProperties
    <3>4. PromptsBefore(conversation, next) \subseteq PromptsBefore(conversation, Len(conversation) + 1)
      BY <2>2, <3>3 DEF PromptsBefore
    <3> QED  BY <3>2, <3>4, FS_Subset
  <2>4. l <= modelCalls + 0 + ResultsAsPrompts
    BY <1>3 DEF PromptsOfConversation
  <2>5. ResultsAsPrompts \in Int /\ ResultsAsPrompts <= r
    BY UnderWay
  <2>6. 2 * Len(prompts) <= B + 2 * k
    BY <1>3, <2>1 DEF PromptsOfRequests
  <2> HIDE DEF n, r, k, l
  <2>7. B \in Nat /\ C = B + 2 * (n + 1 + r)
    <3>1. r <= r
      BY <1>1
    <3> QED  BY <1>1, <2>1, <3>1, Triangle
  <2>8. k <= n + 1 + r
    BY <1>1, <2>1, <2>3, <2>4, <2>5
  <2> HIDE DEF B
  <2>9. C = modelCalls * (modelCalls + 1 + 2 * r)
    BY <2>1
  <2> HIDE DEF C
  <2>10. 2 * Len(prompts) <= C
    BY <1>1, <2>1, <2>3, <2>6, <2>7, <2>8
  <2> QED  BY <2>9, <2>10 DEF r
<1> QED  BY <1>2, <1>3

\* For every budget the alarm of cost_loop.py is not late, and how early it can
\* be is what the resent history explains.
THEOREM BudgetAlarmIsBounded == AgentSpec => []BudgetAlarmBounds
<1>1. Inv /\ AgentInv => BudgetAlarmBounds
  <2> SUFFICES ASSUME Inv, AgentInv, ModelIsWrapped
               PROVE  BudgetAlarmBounds
    BY DEF BudgetAlarmBounds
  <2> DEFINE results == IF "anthropic" \in adapters THEN Len(toolRuns) ELSE 0
             B == modelCalls * (modelCalls + 1 + 2 * results)
  <2>1. "llm_call_budget_exceeded" \in cost.flagged <=> Len(prompts) > CallBudget
    BY DEF Inv, CostAgrees, BudgetShown
  <2>2. /\ modelCalls \in Nat /\ Len(prompts) \in Nat /\ results \in Nat
        /\ CallBudget \in Nat
    BY LenProperties, ThresholdAssumption DEF AgentInv, AgentTypes, Inv, TypeOK
  <2>3. ASSUME modelCalls > CallBudget, stage # "request"
        PROVE  Len(prompts) > CallBudget
    <3>1. modelCalls > 0
      BY <2>2, <2>3
    <3>2. Len(prompts) >= modelCalls
      BY <2>3, <3>1, FirstPromptRecurs
    <3> QED  BY <2>2, <2>3, <3>2
  <2>4. ASSUME Len(prompts) > CallBudget
        PROVE  B > 2 * CallBudget
    <3>1. 2 * Len(prompts) <= B
      BY PromptsAreBounded
    <3>2. B \in Nat
      <4> HIDE DEF results
      <4>1. results <= results
        BY <2>2
      <4> QED  BY <2>2, <4>1, Triangle
    <3> HIDE DEF B
    <3> QED  BY <2>2, <2>4, <3>1, <3>2
  <2> QED  BY <2>1, <2>3, <2>4 DEF BudgetAlarmBounds
<1> QED  BY <1>1, AgentInvariance, PTL

\* For every threshold a conversation of so many calls has raised the loop alarm
\* of cost_loop.py, whatever was said in it.
THEOREM HistoryTripsTheLoopAlarm == AgentSpec => []HistoryTripsLoopAlarm
<1>1. Inv /\ AgentInv => HistoryTripsLoopAlarm
  <2> SUFFICES ASSUME Inv, AgentInv, ModelIsWrapped, modelCalls >= RepeatThreshold,
                      stage # "request"
               PROVE  "repeated_identical_prompt" \in cost.flagged
    BY DEF HistoryTripsLoopAlarm
  <2> DEFINE w == conversation[1].text
  <2>1. modelCalls \in Nat /\ modelCalls > 0 /\ RepeatThreshold \in Nat
    BY ThresholdAssumption DEF AgentInv, AgentTypes
  <2>2. w \in Texts /\ Cardinality(Occurrences(prompts, w)) >= modelCalls
    BY <2>1, FirstPromptRecurs
  <2>3. Cardinality(Occurrences(prompts, w)) \in Nat
    BY ConcatOccurrences DEF Inv, TypeOK
  <2> HIDE DEF w
  <2>4. Cardinality(Occurrences(prompts, w)) >= RepeatThreshold
    BY <2>1, <2>2, <2>3
  <2>5. PromptLoopShown(prompts)
    BY <2>2, <2>4 DEF PromptLoopShown
  <2> QED  BY <2>5 DEF Inv, CostAgrees
<1> QED  BY <1>1, AgentInvariance, PTL
=============================================================================
