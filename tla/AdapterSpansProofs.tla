------------------------- MODULE AdapterSpansProofs -------------------------
(***************************************************************************)
(* Proofs about AdapterSpans.  For any tasks, agents and runs, agents never*)
(* share a trace, an agent with all its work under one span has one trace, *)
(* adapters scan on live spans, and every open span has someone to end it. *)
(***************************************************************************)
EXTENDS AdapterSpans, SequenceTheorems, TLAPS

\* The initial state satisfies the invariant.
LEMMA InitInv == Init => Inv
<1> SUFFICES ASSUME Init
             PROVE  Inv
  OBVIOUS
<1>1. DOMAIN spans = {} /\ \A t \in Tasks : DOMAIN context[t] = {} /\ Len(context[t]) = 0
  BY DEF Init
<1>2. TypeOK
  <2>1. Agents \subseteq Tasks
    BY SpansAssumption
  <2> QED  BY <2>1 DEF Init, TypeOK
<1>3. \A t \in Tasks : Own(t) = {}
  BY <1>1 DEF Init, Own
<1>4. Owners
  BY <1>1, <1>3 DEF Init, Owners
<1>5. References /\ TracesApart
  BY <1>1 DEF Init, References, TracesApart
<1>6. Carriers
  BY <1>1 DEF Init, Carriers
<1>7. OpenSpansHaveOwners /\ ScansMeetLiveSpans
  BY <1>1 DEF Init, OpenSpansHaveOwners, ScansMeetLiveSpans
<1> QED  BY <1>2, <1>4, <1>5, <1>6, <1>7 DEF Inv

-----------------------------------------------------------------------------
(* Chains of current spans. *)

LEMMA InsideOwn == \A t \in Tasks : Inside(t) = {context[t][i] : i \in Own(t)}
  BY DEF Inside, Own

\* The positions of the spans that a task entered are positions of its chain.
LEMMA OwnPositions ==
  ASSUME TypeOK, Owners, NEW t \in Tasks
  PROVE  /\ Len(context[t]) \in Nat /\ DOMAIN context[t] = 1 .. Len(context[t])
         /\ Own(t) \subseteq DOMAIN context[t]
         /\ entered[t] > 0 => Len(context[t]) \in Own(t) /\ context[t] # <<>>
         /\ context[t] = <<>> <=> DOMAIN context[t] = {}
<1>1. context[t] \in Seq(Nat) /\ entered[t] \in Nat /\ entered[t] <= Len(context[t])
  BY DEF TypeOK, Owners
<1>2. Len(context[t]) \in Nat /\ DOMAIN context[t] = 1 .. Len(context[t])
  BY <1>1, LenProperties
<1>3. context[t] = <<>> <=> Len(context[t]) = 0
  BY <1>1, EmptySeq
<1> DEFINE n == Len(context[t])
           k == entered[t]
<1>4. Own(t) = n - k + 1 .. n
  BY DEF Own
<1>5. n \in Nat /\ k \in Nat /\ k <= n
  BY <1>1, <1>2
<1> HIDE DEF n, k
<1>6. Own(t) \subseteq 1 .. n /\ (k > 0 => n \in Own(t) /\ n # 0)
  BY <1>4, <1>5
<1>7. n = 0 <=> 1 .. n = {}
  BY <1>5
<1> QED  BY <1>2, <1>3, <1>6, <1>7 DEF n, k

\* The current span is one of the agent's.
LEMMA CurrentSpan ==
  ASSUME TypeOK, Owners, References, NEW t \in Tasks
  PROVE  /\ Current(t) = 0 <=> context[t] = <<>>
         /\ Current(t) # 0 =>
              /\ Len(context[t]) \in DOMAIN context[t]
              /\ Current(t) = context[t][Len(context[t])]
              /\ Belongs(Current(t), agent[t])
<1>1. CASE context[t] = <<>>
  BY <1>1 DEF Current
<1>2. CASE context[t] # <<>>
  <2>1. Len(context[t]) \in DOMAIN context[t]
    BY <1>2, OwnPositions
  <2>2. Current(t) = context[t][Len(context[t])]
    BY <1>2 DEF Current, Last
  <2>3. Belongs(Current(t), agent[t])
    BY <2>1, <2>2 DEF References
  <2>4. DOMAIN spans = 1 .. Len(spans) /\ Len(spans) \in Nat
    BY LenProperties DEF TypeOK
  <2> QED  BY <1>2, <2>1, <2>2, <2>3, <2>4 DEF Belongs
<1> QED  BY <1>1, <1>2

\* A task enters a span.
LEMMA Pushes ==
  ASSUME TypeOK, Owners, NEW t \in Tasks, NEW s \in Nat, Push(t, s)
  PROVE  LET n == Len(context[t]) + 1
         IN  /\ context' \in [Tasks -> Seq(Nat)] /\ entered' \in [Tasks -> Nat]
             /\ \A u \in Tasks : u # t =>
                  context'[u] = context[u] /\ entered'[u] = entered[u] /\ Own(u)' = Own(u)
             /\ n \notin DOMAIN context[t] /\ n \in Nat
             /\ DOMAIN context'[t] = DOMAIN context[t] \cup {n}
             /\ \A i \in DOMAIN context[t] : context'[t][i] = context[t][i]
             /\ context'[t][n] = s /\ Len(context'[t]) = n /\ Current(t)' = s
             /\ Own(t)' = Own(t) \cup {n}
             /\ entered'[t] > 0
             /\ \A u \in Tasks : entered'[u] <= Len(context'[u])
<1> DEFINE n == Len(context[t]) + 1
           chain == Append(context[t], s)
<1>1. /\ context \in [Tasks -> Seq(Nat)] /\ entered \in [Tasks -> Nat]
      /\ \A u \in Tasks : entered[u] <= Len(context[u])
  BY DEF TypeOK, Owners
<1>2. /\ context' = [context EXCEPT ![t] = chain]
      /\ entered' = [entered EXCEPT ![t] = @ + 1]
  BY DEF Push
<1>3. /\ chain \in Seq(Nat) /\ chain # <<>> /\ Len(chain) = n
      /\ \A i \in 1 .. Len(context[t]) : chain[i] = context[t][i]
      /\ chain[n] = s
  <2>1. context[t] \in Seq(Nat)
    BY <1>1
  <2> QED  BY <2>1, AppendProperties
<1>4. /\ DOMAIN context[t] = 1 .. Len(context[t]) /\ Len(context[t]) \in Nat
      /\ DOMAIN chain = 1 .. Len(chain)
  BY <1>1, <1>3, LenProperties
<1> HIDE DEF chain
<1>5. context'[t] = chain /\ entered'[t] = entered[t] + 1
  BY <1>1, <1>2
<1>6. \A u \in Tasks : u # t =>
        context'[u] = context[u] /\ entered'[u] = entered[u] /\ Own(u)' = Own(u)
  <2>1. \A u \in Tasks : u # t => context'[u] = context[u] /\ entered'[u] = entered[u]
    BY <1>1, <1>2
  <2> QED  BY <2>1 DEF Own
<1>7. Current(t)' = s
  BY <1>3, <1>5 DEF Current, Last
<1>8. Own(t)' = Own(t) \cup {n}
  BY <1>1, <1>3, <1>4, <1>5 DEF Own
<1>9. \A u \in Tasks : entered'[u] <= Len(context'[u])
  <2>1. entered'[t] <= Len(context'[t])
    <3>1. entered[t] \in Nat /\ entered[t] <= Len(context[t]) /\ Len(context[t]) \in Nat
      BY <1>1, <1>4
    <3> QED  BY <1>3, <1>5, <3>1
  <2> QED  BY <1>1, <1>6, <2>1
<1>10. context' \in [Tasks -> Seq(Nat)] /\ entered' \in [Tasks -> Nat] /\ entered'[t] > 0
  BY <1>1, <1>2, <1>3, <1>5
<1> QED  BY <1>3, <1>4, <1>5, <1>6, <1>7, <1>8, <1>9, <1>10

\* A task leaves the span it entered last.
LEMMA Pops ==
  ASSUME TypeOK, Owners, NEW t \in Tasks, entered[t] > 0, Pop(t)
  PROVE  LET n == Len(context[t])
         IN  /\ context' \in [Tasks -> Seq(Nat)] /\ entered' \in [Tasks -> Nat]
             /\ \A u \in Tasks : u # t =>
                  context'[u] = context[u] /\ entered'[u] = entered[u] /\ Own(u)' = Own(u)
             /\ n \in DOMAIN context[t] /\ n \in Own(t) /\ Current(t) = context[t][n]
             /\ DOMAIN context'[t] = DOMAIN context[t] \ {n}
             /\ \A i \in DOMAIN context'[t] : context'[t][i] = context[t][i]
             /\ Own(t)' = Own(t) \ {n}
             /\ \A u \in Tasks : entered'[u] <= Len(context'[u])
<1> DEFINE n == Len(context[t])
           chain == Front(context[t])
<1>1. /\ context \in [Tasks -> Seq(Nat)] /\ entered \in [Tasks -> Nat]
      /\ \A u \in Tasks : entered[u] <= Len(context[u])
  BY DEF TypeOK, Owners
<1>2. /\ context' = [context EXCEPT ![t] = chain]
      /\ entered' = [entered EXCEPT ![t] = @ - 1]
  BY DEF Pop
<1>3. /\ DOMAIN context[t] = 1 .. n /\ n \in Nat /\ n \in Own(t) /\ context[t] # <<>> /\ n > 0
      /\ \A i \in 1 .. n : context[t][i] \in Nat
  <2>1. DOMAIN context[t] = 1 .. n /\ n \in Nat /\ n \in Own(t) /\ context[t] # <<>>
    BY OwnPositions
  <2> QED  BY <1>1, <2>1, ElementOfSeq
<1>4. /\ chain \in Seq(Nat) /\ Len(chain) = n - 1
      /\ \A i \in 1 .. n - 1 : chain[i] = context[t][i]
  <2>1. n - 1 \in Int /\ \A i \in 1 .. n - 1 : context[t][i] \in Nat
    BY <1>3
  <2> DEFINE m == n - 1
             c == context[t]
  <2> HIDE DEF m, c
  <2>2. m \in Int /\ m >= 0 /\ \A i \in 1 .. m : c[i] \in Nat
    BY <1>3, <2>1 DEF m, c
  <2>3. /\ SubSeq(c, 1, m) \in Seq(Nat)
        /\ Len(SubSeq(c, 1, m)) = IF 1 <= m THEN m - 1 + 1 ELSE 0
        /\ \A i \in 1 .. m - 1 + 1 : SubSeq(c, 1, m)[i] = c[1 + i - 1]
    BY <2>2, SubSeqProperties
  <2>4. chain = SubSeq(c, 1, m)
    BY DEF Front, m, c
  <2>5. Len(chain) = m /\ \A i \in 1 .. m : chain[i] = c[i]
    BY <2>2, <2>3, <2>4
  <2> QED  BY <2>3, <2>4, <2>5 DEF m, c
<1>5. DOMAIN chain = 1 .. n - 1
  BY <1>4, LenProperties
<1> HIDE DEF chain
<1>6. context'[t] = chain /\ entered'[t] = entered[t] - 1
  BY <1>1, <1>2
<1>7. \A u \in Tasks : u # t =>
        context'[u] = context[u] /\ entered'[u] = entered[u] /\ Own(u)' = Own(u)
  <2>1. \A u \in Tasks : u # t => context'[u] = context[u] /\ entered'[u] = entered[u]
    BY <1>1, <1>2
  <2> QED  BY <2>1 DEF Own
<1>8. Current(t) = context[t][n]
  BY <1>3 DEF Current, Last
<1> DEFINE k == entered[t]
<1>9. /\ k \in Nat /\ k > 0 /\ k <= n /\ entered'[t] = k - 1
      /\ Len(context'[t]) = n - 1 /\ DOMAIN context'[t] = 1 .. n - 1
  BY <1>1, <1>4, <1>5, <1>6
<1>10. Own(t)' = Own(t) \ {n}
  <2>1. Own(t) = n - k + 1 .. n /\ Own(t)' = (n - 1) - (k - 1) + 1 .. n - 1
    BY <1>9 DEF Own
  <2> HIDE DEF n, k
  <2> QED  BY <1>3, <1>9, <2>1
<1>11. \A u \in Tasks : entered'[u] <= Len(context'[u])
  <2>1. entered'[t] <= Len(context'[t])
    BY <1>3, <1>9
  <2> QED  BY <1>1, <1>7, <2>1
<1>12. /\ DOMAIN context'[t] = DOMAIN context[t] \ {n}
       /\ \A i \in DOMAIN context'[t] : context'[t][i] = context[t][i]
  <2>1. \A m \in Nat : 1 .. m - 1 = (1 .. m) \ {m}
    OBVIOUS
  <2>2. DOMAIN context'[t] = DOMAIN context[t] \ {n}
    BY <1>3, <1>9, <2>1
  <2> QED  BY <1>4, <1>6, <1>9, <2>2
<1>13. context' \in [Tasks -> Seq(Nat)] /\ entered' \in [Tasks -> Nat]
  BY <1>1, <1>2, <1>4, <1>9
<1> QED  BY <1>3, <1>7, <1>8, <1>10, <1>11, <1>12, <1>13

-----------------------------------------------------------------------------
(* Spans come and end. *)

\* What every step does to the spans there are: they may end.
SpansLast ==
  \A s \in DOMAIN spans :
    /\ s \in DOMAIN spans'
    /\ spans'[s].trace = spans[s].trace /\ spans'[s].of = spans[s].of
    /\ spans'[s].kind = spans[s].kind

\* A new span is of the agent that opens it, on the trace of the current span or
\* on one of its own.
LEMMA Opens ==
  ASSUME TypeOK, Owners, References, TracesApart, NEW t \in Tasks, NEW kind \in SpanKind,
         NEW sampled \in BOOLEAN, Open(t, kind, sampled)
  PROVE  /\ spans' \in Seq(SpanRecord) /\ SpansLast /\ TracesApart'
         /\ NewSpan \notin DOMAIN spans /\ NewSpan # 0 /\ NewSpan \in Nat
         /\ DOMAIN spans' = DOMAIN spans \cup {NewSpan}
         /\ \A s \in DOMAIN spans : spans'[s] = spans[s]
         /\ spans'[NewSpan].open /\ spans'[NewSpan].kind = kind
         /\ spans'[NewSpan].of = agent[t]
<1> DEFINE new == Opened(t, kind, sampled)
           parent == Current(t)
<1>1. /\ spans \in Seq(SpanRecord) /\ agent[t] \in Tasks \cup {NoTask}
      /\ DOMAIN spans = 1 .. Len(spans) /\ Len(spans) \in Nat
  BY LenProperties DEF TypeOK
<1>2. /\ spans' = Append(spans, new)
      /\ strayed' = strayed \cup
           {a \in {agent[t]} : parent = 0 /\ \E s \in DOMAIN spans : spans[s].of = a}
  BY DEF Open
<1>3. /\ NewSpan = Len(spans) + 1 /\ NewSpan \in Nat /\ NewSpan # 0
      /\ NewSpan \notin DOMAIN spans
  BY <1>1 DEF NewSpan
<1>4. /\ new \in SpanRecord /\ new.open /\ new.kind = kind /\ new.of = agent[t]
      /\ \/ parent = 0 /\ new.trace = NewSpan
         \/ Belongs(parent, agent[t]) /\ new.trace = spans[parent].trace
  <2>1. CASE parent = 0
    <3>1. new = [trace |-> NewSpan, sampled |-> sampled, open |-> TRUE, kind |-> kind,
                 of |-> agent[t]]
      BY <2>1 DEF Opened
    <3> QED  BY <1>1, <1>3, <2>1, <3>1 DEF SpanRecord
  <2>2. CASE parent # 0
    <3>1. Belongs(parent, agent[t])
      BY <2>2, CurrentSpan
    <3>2. spans[parent] \in SpanRecord
      BY <1>1, <3>1, ElementOfSeq DEF Belongs
    <3>3. new = [spans[parent] EXCEPT !.open = TRUE, !.kind = kind, !.of = agent[t]]
      BY <2>2 DEF Opened
    <3> QED  BY <1>1, <3>1, <3>2, <3>3 DEF SpanRecord
  <2> QED  BY <2>1, <2>2
<1> HIDE DEF new, parent
<1>5. /\ spans' \in Seq(SpanRecord) /\ Len(spans') = NewSpan
      /\ \A s \in DOMAIN spans : spans'[s] = spans[s]
      /\ spans'[NewSpan] = new
  BY <1>1, <1>2, <1>3, <1>4, AppendProperties
<1>6. DOMAIN spans' = DOMAIN spans \cup {NewSpan}
  <2>1. DOMAIN spans' = 1 .. NewSpan
    BY <1>5, LenProperties
  <2> QED  BY <1>1, <1>3, <2>1
<1>7. SpansLast
  BY <1>5, <1>6 DEF SpansLast
<1>8. TracesApart'
  <2>1. \A s \in DOMAIN spans' : spans'[s].trace \in DOMAIN spans'
    BY <1>3, <1>4, <1>5, <1>6 DEF TracesApart, Belongs
  <2>2. \A s \in DOMAIN spans : /\ new.trace = spans[s].trace => new.of = spans[s].of
                                /\ new.of = spans[s].of /\ new.of \notin strayed' =>
                                     new.trace = spans[s].trace
    <3> SUFFICES ASSUME NEW s \in DOMAIN spans
                 PROVE  /\ new.trace = spans[s].trace => new.of = spans[s].of
                        /\ new.of = spans[s].of /\ new.of \notin strayed' =>
                             new.trace = spans[s].trace
      OBVIOUS
    <3>1. CASE parent = 0 /\ new.trace = NewSpan
      <4>1. spans[s].trace # NewSpan
        BY <1>3 DEF TracesApart
      <4> QED  BY <1>2, <1>4, <3>1, <4>1
    <3>2. CASE Belongs(parent, agent[t]) /\ new.trace = spans[parent].trace
      BY <1>2, <1>4, <3>2 DEF TracesApart, Belongs
    <3> QED  BY <1>4, <3>1, <3>2
  <2>3. strayed \subseteq strayed'
    BY <1>2
  <2>4. \A s, u \in DOMAIN spans' :
          /\ spans'[s].trace = spans'[u].trace => spans'[s].of = spans'[u].of
          /\ spans'[s].of = spans'[u].of /\ spans'[s].of \notin strayed' =>
               spans'[s].trace = spans'[u].trace
    <3> SUFFICES ASSUME NEW s \in DOMAIN spans', NEW u \in DOMAIN spans'
                 PROVE  /\ spans'[s].trace = spans'[u].trace => spans'[s].of = spans'[u].of
                        /\ spans'[s].of = spans'[u].of /\ spans'[s].of \notin strayed' =>
                             spans'[s].trace = spans'[u].trace
      OBVIOUS
    <3>1. CASE s \in DOMAIN spans /\ u \in DOMAIN spans
      BY <1>5, <2>3, <3>1 DEF TracesApart
    <3>2. CASE s = NewSpan \/ u = NewSpan
      BY <1>5, <1>6, <2>2, <3>2
    <3> QED  BY <1>6, <3>1, <3>2
  <2> QED  BY <2>1, <2>4 DEF TracesApart
<1> QED  BY <1>3, <1>4, <1>5, <1>6, <1>7, <1>8

\* A span ends, and nothing else changes about it or about the others.
LEMMA Ends ==
  ASSUME TypeOK, NEW s \in DOMAIN spans, EndSpan(s)
  PROVE  /\ spans' \in Seq(SpanRecord) /\ SpansLast
         /\ DOMAIN spans' = DOMAIN spans
         /\ \A u \in DOMAIN spans : u # s => spans'[u] = spans[u]
         /\ ~spans'[s].open
         /\ strayed' = strayed /\ TracesApart => TracesApart'
<1>1. spans \in Seq(SpanRecord) /\ spans[s] \in SpanRecord
  BY ElementOfSeq, LenProperties DEF TypeOK
<1>2. /\ spans' = [spans EXCEPT ![s] = [spans[s] EXCEPT !.open = FALSE]]
      /\ [spans[s] EXCEPT !.open = FALSE] \in SpanRecord
      /\ [spans[s] EXCEPT !.open = FALSE].open = FALSE
      /\ [spans[s] EXCEPT !.open = FALSE].trace = spans[s].trace
      /\ [spans[s] EXCEPT !.open = FALSE].of = spans[s].of
      /\ [spans[s] EXCEPT !.open = FALSE].kind = spans[s].kind
  BY <1>1 DEF EndSpan, SpanRecord
<1>3. spans' \in Seq(SpanRecord) /\ DOMAIN spans' = DOMAIN spans
  BY <1>1, <1>2, ExceptSeq, LenProperties
<1>4. /\ spans'[s] = [spans[s] EXCEPT !.open = FALSE]
      /\ \A u \in DOMAIN spans : u # s => spans'[u] = spans[u]
  BY <1>2
<1>5. SpansLast
  <2> SUFFICES ASSUME NEW u \in DOMAIN spans
               PROVE  /\ u \in DOMAIN spans'
                      /\ spans'[u].trace = spans[u].trace /\ spans'[u].of = spans[u].of
                      /\ spans'[u].kind = spans[u].kind
    BY DEF SpansLast
  <2>1. CASE u = s
    BY <1>2, <1>3, <1>4, <2>1
  <2>2. CASE u # s
    BY <1>3, <1>4, <2>2
  <2> QED  BY <2>1, <2>2
<1>6. ASSUME strayed' = strayed, TracesApart
      PROVE  TracesApart'
  <2>1. \A u \in DOMAIN spans : spans'[u].trace = spans[u].trace /\ spans'[u].of = spans[u].of
    BY <1>5 DEF SpansLast
  <2> DEFINE d == DOMAIN spans
  <2>2. /\ \A u \in d : spans[u].trace \in d
        /\ \A u, v \in d : spans[u].trace = spans[v].trace => spans[u].of = spans[v].of
        /\ \A u, v \in d : spans[u].of = spans[v].of /\ spans[u].of \notin strayed =>
             spans[u].trace = spans[v].trace
    BY <1>6 DEF TracesApart
  <2>3. d = DOMAIN spans' /\ strayed' = strayed
    BY <1>3, <1>6
  <2> HIDE DEF d
  <2>4. /\ \A u \in d : spans'[u].trace \in d
        /\ \A u, v \in d : spans'[u].trace = spans'[v].trace => spans'[u].of = spans'[v].of
        /\ \A u, v \in d : spans'[u].of = spans'[v].of /\ spans'[u].of \notin strayed =>
             spans'[u].trace = spans'[v].trace
    BY <2>1, <2>2 DEF d
  <2> QED  BY <2>3, <2>4 DEF TracesApart
<1> QED  BY <1>2, <1>3, <1>4, <1>5, <1>6

LEMMA NothingOpens ==
  ASSUME UNCHANGED <<spans, strayed>>
  PROVE  SpansLast /\ (TracesApart => TracesApart')
  BY DEF SpansLast, TracesApart

\* The spans that are referred to are in the table.
LEMMA InTable ==
  ASSUME TypeOK, References, Owners
  PROVE  /\ 0 \notin DOMAIN spans
         /\ \A t \in Tasks : \A i \in DOMAIN context[t] : context[t][i] \in DOMAIN spans
         /\ \A t \in Tasks : \A i \in Own(t) : i \in DOMAIN context[t] /\ context[t][i] \in DOMAIN spans
         /\ \A t \in Tasks : event[t] # 0 => event[t] \in DOMAIN spans
         /\ \A r \in Runs : handler[r] # 0 => handler[r] \in DOMAIN spans
<1>1. 0 \notin DOMAIN spans
  BY LenProperties DEF TypeOK
<1>2. \A t \in Tasks : \A i \in DOMAIN context[t] : context[t][i] \in DOMAIN spans
  BY DEF References, Belongs
<1>3. \A t \in Tasks : Own(t) \subseteq DOMAIN context[t]
  BY OwnPositions
<1> QED  BY <1>1, <1>2, <1>3 DEF References, Belongs

-----------------------------------------------------------------------------
(* How the parts of the invariant are kept. *)

BelongsNext(s, a) == s \in DOMAIN spans' /\ spans'[s].of = a

\* References stay good when new ones are.
LEMMA ReferencesKept ==
  ASSUME References, SpansLast,
         \A t \in Tasks : \A i \in DOMAIN context'[t] :
           \/ i \in DOMAIN context[t] /\ context'[t][i] = context[t][i] /\ agent'[t] = agent[t]
           \/ BelongsNext(context'[t][i], agent'[t]),
         \A t \in Tasks : \/ event'[t] = 0
                          \/ event'[t] = event[t] /\ agent'[t] = agent[t]
                          \/ BelongsNext(event'[t], agent'[t]),
         \A r \in Runs : \/ handler'[r] = 0
                         \/ handler'[r] = handler[r] /\ runner'[r] = runner[r]
                         \/ BelongsNext(handler'[r], runner'[r]),
         \A x \in scans' : \/ x \in scans
                           \/ \E s \in DOMAIN spans' :
                                spans'[s].of = x.agent /\ spans'[s].trace = x.trace
  PROVE  References'
<1>1. \A s, a : Belongs(s, a) => BelongsNext(s, a)
  BY DEF Belongs, BelongsNext, SpansLast
<1>2. \A t \in Tasks : \A i \in DOMAIN context'[t] : BelongsNext(context'[t][i], agent'[t])
  BY <1>1 DEF References
<1>3. \A t \in Tasks : event'[t] # 0 => BelongsNext(event'[t], agent'[t])
  BY <1>1 DEF References
<1>4. \A r \in Runs : handler'[r] # 0 => BelongsNext(handler'[r], runner'[r])
  BY <1>1 DEF References
<1>5. \A x \in scans' : \E s \in DOMAIN spans' :
        BelongsNext(s, x.agent) /\ spans'[s].trace = x.trace
  BY <1>1 DEF References, Belongs, BelongsNext, SpansLast
<1> QED  BY <1>2, <1>3, <1>4, <1>5 DEF References, Belongs, BelongsNext

\* A scan is noted on the trace of one of the agent's spans.
LEMMA ScanRefers ==
  ASSUME NEW a, NEW how, NEW s, NEW table, Scan(a, how, s, table),
         BelongsNext(s, a), table[s].trace = spans'[s].trace
  PROVE  \A x \in scans' : \/ x \in scans
                           \/ \E u \in DOMAIN spans' :
                                spans'[u].of = x.agent /\ spans'[u].trace = x.trace
<1>1. scans' = scans \cup {[agent |-> a, trace |-> table[s].trace]}
  BY DEF Scan
<1>2. /\ [agent |-> a, trace |-> table[s].trace].agent = a
      /\ [agent |-> a, trace |-> table[s].trace].trace = table[s].trace
  OBVIOUS
<1> QED  BY <1>1, <1>2 DEF BelongsNext

\* It met an open span, or one of those that are known to have ended.
LEMMA ScanMeets ==
  ASSUME ScansMeetLiveSpans, parallel' = parallel,
         NEW a, NEW how, NEW s, NEW table, Scan(a, how, s, table),
         \/ table[s].open
         \/ how = "late record"
         \/ how = "event" /\ parallel
  PROVE  ScansMeetLiveSpans'
  BY DEF Scan, ScansMeetLiveSpans

LEMMA NoScanMeets ==
  ASSUME ScansMeetLiveSpans, parallel' = parallel, NoScan
  PROVE  ScansMeetLiveSpans'
  BY DEF NoScan, ScansMeetLiveSpans

\* Outside of an event a task has no carrier in its chain.
LEMMA NoCarriers ==
  ASSUME TypeOK, References, Owners, Carriers, NEW t \in Tasks, event[t] = 0
  PROVE  \A i \in DOMAIN context[t] : spans[context[t][i]].kind # "carrier"
  BY InTable DEF Carriers

\* Carriers do not come up in the steps of tasks outside of events.
LEMMA CarriersKept ==
  ASSUME TypeOK, References, Owners, Carriers, SpansLast,
         parallel' = parallel, event' = event,
         ~parallel => \A t \in Tasks : event[t] = 0,
         \A t \in Tasks :
           \/ context'[t] = context[t] /\ entered'[t] = entered[t]
           \/ event[t] = 0 /\ \A i \in DOMAIN context'[t] : spans'[context'[t][i]].kind # "carrier"
  PROVE  Carriers'
<1>1. \A s \in DOMAIN spans : spans'[s].kind = spans[s].kind
  BY DEF SpansLast
<1>2. \A t \in Tasks : \A i \in DOMAIN context'[t] :
        spans'[context'[t][i]].kind = "carrier" =>
          i = Len(context'[t]) /\ event'[t] = context'[t][i]
  <2> TAKE t \in Tasks
  <2>1. CASE context'[t] = context[t] /\ entered'[t] = entered[t]
    BY <1>1, <2>1, InTable DEF Carriers
  <2>2. CASE event[t] = 0 /\ \A i \in DOMAIN context'[t] : spans'[context'[t][i]].kind # "carrier"
    BY <2>2
  <2> QED  BY <2>1, <2>2
<1>3. \A t \in Tasks : event'[t] # 0 /\ spans'[event'[t]].kind = "carrier" =>
        entered'[t] > 0 /\ Current(t)' = event'[t]
  <2> SUFFICES ASSUME NEW t \in Tasks, event[t] # 0, spans'[event[t]].kind = "carrier"
               PROVE  entered'[t] > 0 /\ Current(t)' = event'[t]
    OBVIOUS
  <2>1. entered[t] > 0 /\ Current(t) = event[t]
    BY <1>1, InTable DEF Carriers
  <2>2. context'[t] = context[t] /\ entered'[t] = entered[t]
    OBVIOUS
  <2>3. Current(t)' = Current(t)
    BY <2>2 DEF Current
  <2> QED  BY <2>1, <2>2, <2>3
<1> QED  BY <1>2, <1>3 DEF Carriers

\* A task enters a span that it opens.
LEMMA OwnersEnter ==
  ASSUME Inv, NEW t \in Tasks, NEW kind \in SpanKind, NEW sampled \in BOOLEAN,
         kind # "langchain", agent[t] # NoTask, Open(t, kind, sampled), Push(t, NewSpan),
         UNCHANGED <<agent, handler, run>>, \A u \in Tasks : u # t => event'[u] = event[u]
  PROVE  Owners' /\ OpenSpansHaveOwners'
<1> USE DEF Inv
<1> DEFINE n == Len(context[t]) + 1
<1>1. /\ NewSpan \notin DOMAIN spans /\ NewSpan \in Nat
      /\ DOMAIN spans' = DOMAIN spans \cup {NewSpan}
      /\ \A s \in DOMAIN spans : spans'[s] = spans[s]
      /\ spans'[NewSpan].open /\ spans'[NewSpan].kind = kind
  BY Opens
<1>2. /\ \A u \in Tasks : u # t =>
           context'[u] = context[u] /\ entered'[u] = entered[u] /\ Own(u)' = Own(u)
      /\ n \notin DOMAIN context[t]
      /\ \A i \in DOMAIN context[t] : context'[t][i] = context[t][i]
      /\ context'[t][n] = NewSpan
      /\ Own(t)' = Own(t) \cup {n}
      /\ \A u \in Tasks : entered'[u] <= Len(context'[u])
  BY <1>1, Pushes
<1>3. \A u \in Tasks : \A i \in Own(u)' :
        \/ i \in Own(u) /\ context'[u][i] = context[u][i] /\ context[u][i] \in DOMAIN spans
        \/ u = t /\ i = n /\ context'[u][i] = NewSpan
  BY <1>2, InTable
<1> HIDE DEF n
<1>4. \A u \in Tasks : \A i \in Own(u)' :
        spans'[context'[u][i]].open /\ spans'[context'[u][i]].kind # "langchain"
  BY <1>1, <1>3 DEF Owners
<1>5. \A u, v \in Tasks : \A i \in Own(u)' : \A j \in Own(v)' :
        context'[u][i] = context'[v][j] => u = v /\ i = j
  BY <1>1, <1>3 DEF Owners
<1>6. \A r \in Runs : handler[r] # 0 =>
        spans'[handler[r]].open /\ spans'[handler[r]].kind = "langchain"
  BY <1>1, InTable DEF Owners
<1>7. \A u \in Tasks : agent'[u] = NoTask => entered'[u] = 0 /\ event'[u] = 0
  BY <1>2 DEF Owners
<1>8. Owners'
  BY <1>2, <1>4, <1>5, <1>6, <1>7 DEF Owners
<1>9. \A u \in Tasks : Inside(u) = {context[u][i] : i \in Own(u)}
                         /\ Inside(u)' = {context'[u][i] : i \in Own(u)'}
  BY DEF Inside, Own
<1>10. /\ \A u \in Tasks : Inside(u) \subseteq Inside(u)'
       /\ NewSpan \in Inside(t)'
  BY <1>2, <1>9, InTable
<1>11. OpenSpansHaveOwners'
  BY <1>1, <1>10 DEF OpenSpansHaveOwners
<1> QED  BY <1>8, <1>11

\* A task leaves the span it entered last, and the span ends.
LEMMA OwnersLeave ==
  ASSUME Inv, NEW t \in Tasks, agent[t] # NoTask, entered[t] > 0,
         Pop(t), EndSpan(Current(t)),
         UNCHANGED <<agent, handler, run>>, \A u \in Tasks : u # t => event'[u] = event[u]
  PROVE  Owners' /\ OpenSpansHaveOwners'
<1> USE DEF Inv
<1> DEFINE n == Len(context[t])
           s == Current(t)
<1>1. /\ \A u \in Tasks : u # t =>
           context'[u] = context[u] /\ entered'[u] = entered[u] /\ Own(u)' = Own(u)
      /\ n \in DOMAIN context[t] /\ n \in Own(t) /\ s = context[t][n]
      /\ DOMAIN context'[t] = DOMAIN context[t] \ {n}
      /\ \A i \in DOMAIN context'[t] : context'[t][i] = context[t][i]
      /\ Own(t)' = Own(t) \ {n}
      /\ \A u \in Tasks : entered'[u] <= Len(context'[u])
  BY Pops
<1>2. s \in DOMAIN spans /\ spans[s].kind # "langchain"
  BY <1>1, InTable DEF Owners
<1> HIDE DEF n, s
<1>3. /\ DOMAIN spans' = DOMAIN spans
      /\ \A u \in DOMAIN spans : u # s => spans'[u] = spans[u]
      /\ ~spans'[s].open
  BY <1>2, Ends DEF s
<1>4. \A u \in Tasks : \A i \in Own(u)' :
        /\ i \in Own(u) /\ context'[u][i] = context[u][i]
        /\ context[u][i] \in DOMAIN spans /\ context[u][i] # s
  <2> SUFFICES ASSUME NEW u \in Tasks, NEW i \in Own(u)'
               PROVE  /\ i \in Own(u) /\ context'[u][i] = context[u][i]
                      /\ context[u][i] \in DOMAIN spans /\ context[u][i] # s
    OBVIOUS
  <2>1. i \in Own(u) /\ context'[u][i] = context[u][i] /\ ~(u = t /\ i = n)
    BY <1>1, InTable
  <2> QED  BY <1>1, <2>1, InTable DEF Owners
<1>5. \A u \in Tasks : \A i \in Own(u)' :
        spans'[context'[u][i]].open /\ spans'[context'[u][i]].kind # "langchain"
  BY <1>3, <1>4 DEF Owners
<1>6. \A u, v \in Tasks : \A i \in Own(u)' : \A j \in Own(v)' :
        context'[u][i] = context'[v][j] => u = v /\ i = j
  BY <1>4 DEF Owners
<1>7. \A r \in Runs : handler[r] # 0 =>
        spans'[handler[r]].open /\ spans'[handler[r]].kind = "langchain"
  BY <1>2, <1>3, InTable DEF Owners
<1>8. \A u \in Tasks : agent'[u] = NoTask => entered'[u] = 0 /\ event'[u] = 0
  BY <1>1 DEF Owners
<1>9. Owners'
  BY <1>1, <1>5, <1>6, <1>7, <1>8 DEF Owners
<1>10. \A u \in Tasks : Inside(u) = {context[u][i] : i \in Own(u)}
                          /\ Inside(u)' = {context'[u][i] : i \in Own(u)'}
  BY DEF Inside, Own
<1>11. \A u \in Tasks : \A i \in Own(u) : context[u][i] # s => i \in Own(u)' /\ context'[u][i] = context[u][i]
  BY <1>1, InTable
<1>12. \A u \in Tasks : \A x \in Inside(u) : x # s => x \in Inside(u)'
  BY <1>10, <1>11
<1>13. OpenSpansHaveOwners'
  BY <1>3, <1>12 DEF OpenSpansHaveOwners
<1> QED  BY <1>9, <1>13

\* The spans stay, or one comes or goes with a run of LangChain.
LEMMA OwnersOfRuns ==
  ASSUME Inv, UNCHANGED <<agent, context, entered>>,
         \A t \in Tasks : agent[t] = NoTask => event'[t] = 0,
         \A s \in DOMAIN spans : s \in DOMAIN spans' /\ spans'[s].kind = spans[s].kind,
         \A r \in Runs : handler'[r] # 0 =>
           /\ spans'[handler'[r]].open /\ spans'[handler'[r]].kind = "langchain",
         \A r, q \in Runs : handler'[r] = handler'[q] /\ handler'[r] # 0 => r = q,
         \A s \in DOMAIN spans : spans[s].kind # "langchain" => spans'[s].open = spans[s].open,
         \A s \in DOMAIN spans' : spans'[s].open =>
           \/ \E r \in Runs : handler'[r] = s /\ run'[r] \in {"started", "raised"}
           \/ /\ s \in DOMAIN spans /\ spans[s].open
              /\ ~ \E r \in Runs : handler[r] = s /\ run[r] \in {"started", "raised"}
  PROVE  Owners' /\ OpenSpansHaveOwners'
<1> USE DEF Inv
<1>1. /\ context' = context /\ entered' = entered /\ agent' = agent
      /\ \A t \in Tasks : Own(t)' = Own(t) /\ Inside(t)' = Inside(t)
  BY DEF Own, Inside
<1>2. \A t \in Tasks : \A i \in Own(t) :
        spans'[context[t][i]].open /\ spans'[context[t][i]].kind # "langchain"
  BY InTable DEF Owners
<1>3. Owners'
  BY <1>1, <1>2 DEF Owners
<1>4. OpenSpansHaveOwners'
  BY <1>1 DEF OpenSpansHaveOwners
<1> QED  BY <1>3, <1>4

\* Neither spans nor who will end them change.
LEMMA OwnersSame ==
  ASSUME Inv, UNCHANGED <<spans, agent, context, entered, handler>>,
         \A t \in Tasks : agent[t] = NoTask => event'[t] = 0,
         \A r \in Runs : run[r] \in {"started", "raised"} => run'[r] \in {"started", "raised"}
  PROVE  Owners' /\ OpenSpansHaveOwners'
<1>1. /\ spans' = spans /\ handler' = handler
      /\ \A s \in DOMAIN spans' : spans'[s].open =>
           \/ \E r \in Runs : handler'[r] = s /\ run'[r] \in {"started", "raised"}
           \/ /\ s \in DOMAIN spans /\ spans[s].open
              /\ ~ \E r \in Runs : handler[r] = s /\ run[r] \in {"started", "raised"}
  OBVIOUS
<1>2. \A r, q \in Runs : handler'[r] = handler'[q] /\ handler'[r] # 0 => r = q
  BY <1>1 DEF Inv, Owners
<1>3. \A r \in Runs : handler'[r] # 0 =>
        spans'[handler'[r]].open /\ spans'[handler'[r]].kind = "langchain"
  BY <1>1 DEF Inv, Owners
<1> QED  BY <1>1, <1>2, <1>3, OwnersOfRuns

-----------------------------------------------------------------------------
(* The steps. *)

LEMMA EnterKeeps ==
  ASSUME Inv, NEW t \in Tasks, NEW kind \in Blocks, NEW sampled \in Sampling,
         Enter(t, kind, sampled)
  PROVE  Inv'
<1> USE DEF Inv
<1>1. /\ agent[t] # NoTask /\ event[t] = 0 /\ (~parallel => \A u \in Tasks : event[u] = 0)
      /\ Open(t, kind, sampled) /\ Push(t, NewSpan)
      /\ IF kind = "host" THEN NoScan ELSE Scan(agent[t], kind, NewSpan, spans')
      /\ UNCHANGED <<parallel, agent, event, handler, run, runner>>
  BY DEF Enter, Runnable
<1>2. kind \in SpanKind /\ kind # "langchain" /\ kind # "carrier" /\ sampled \in BOOLEAN
  BY SpansAssumption DEF SpanKind
<1>3. /\ spans' \in Seq(SpanRecord) /\ SpansLast /\ TracesApart'
      /\ NewSpan \in Nat /\ NewSpan \in DOMAIN spans'
      /\ spans'[NewSpan].open /\ spans'[NewSpan].kind = kind
      /\ BelongsNext(NewSpan, agent[t])
  BY <1>1, <1>2, Opens DEF BelongsNext
<1> DEFINE n == Len(context[t]) + 1
<1>4. /\ context' \in [Tasks -> Seq(Nat)] /\ entered' \in [Tasks -> Nat]
      /\ \A u \in Tasks : u # t => context'[u] = context[u] /\ entered'[u] = entered[u]
      /\ DOMAIN context'[t] = DOMAIN context[t] \cup {n}
      /\ \A i \in DOMAIN context[t] : context'[t][i] = context[t][i]
      /\ context'[t][n] = NewSpan
  BY <1>1, <1>3, Pushes
<1> HIDE DEF n
<1>5. TypeOK'
  BY <1>1, <1>3, <1>4 DEF TypeOK
<1>6. References'
  <2>1. \A x \in scans' : \/ x \in scans
                          \/ \E u \in DOMAIN spans' :
                               spans'[u].of = x.agent /\ spans'[u].trace = x.trace
    <3>1. CASE kind = "host"
      BY <1>1, <3>1 DEF NoScan
    <3>2. CASE kind # "host"
      <4>1. Scan(agent[t], kind, NewSpan, spans')
        BY <1>1, <3>2
      <4> QED  BY <1>3, <4>1, ScanRefers
    <3> QED  BY <3>1, <3>2
  <2>2. \A u \in Tasks : \A i \in DOMAIN context'[u] :
          \/ i \in DOMAIN context[u] /\ context'[u][i] = context[u][i] /\ agent'[u] = agent[u]
          \/ BelongsNext(context'[u][i], agent'[u])
    BY <1>1, <1>3, <1>4
  <2> QED  BY <1>1, <1>3, <2>1, <2>2, ReferencesKept
<1>7. Owners' /\ OpenSpansHaveOwners'
  BY <1>1, <1>2, OwnersEnter
<1>8. Carriers'
  <2>1. \A i \in DOMAIN context'[t] : spans'[context'[t][i]].kind # "carrier"
    <3>1. \A i \in DOMAIN context[t] : spans'[context[t][i]].kind # "carrier"
      BY <1>1, <1>3, NoCarriers, InTable DEF SpansLast
    <3> QED  BY <1>2, <1>3, <1>4, <3>1
  <2>2. \A u \in Tasks :
          \/ context'[u] = context[u] /\ entered'[u] = entered[u]
          \/ event[u] = 0 /\ \A i \in DOMAIN context'[u] : spans'[context'[u][i]].kind # "carrier"
    BY <1>1, <1>4, <2>1
  <2> QED  BY <1>1, <1>3, <2>2, CarriersKept
<1>9. ScansMeetLiveSpans'
  <2>1. CASE kind = "host"
    BY <1>1, <2>1, NoScanMeets
  <2>2. CASE kind # "host"
    <3>1. Scan(agent[t], kind, NewSpan, spans')
      BY <1>1, <2>2
    <3> QED  BY <1>1, <1>3, <3>1, ScanMeets
  <2> QED  BY <2>1, <2>2
<1> QED  BY <1>3, <1>5, <1>6, <1>7, <1>8, <1>9

\* Return and Leave: the reply is scanned while the span is still open.
LEMMA LeavingKeeps ==
  ASSUME Inv, NEW t \in Tasks, Runnable(t), entered[t] > 0, Pop(t), EndSpan(Current(t)),
         Scan(agent[t], "sdk", Current(t), spans) \/ NoScan,
         UNCHANGED <<parallel, agent, event, handler, run, runner, strayed>>
  PROVE  Inv'
<1> USE DEF Inv
<1>1. agent[t] # NoTask /\ event[t] = 0 /\ (~parallel => \A u \in Tasks : event[u] = 0)
  BY DEF Runnable
<1> DEFINE n == Len(context[t])
           s == Current(t)
<1>2. /\ context' \in [Tasks -> Seq(Nat)] /\ entered' \in [Tasks -> Nat]
      /\ \A u \in Tasks : u # t => context'[u] = context[u] /\ entered'[u] = entered[u]
      /\ n \in Own(t) /\ n \in DOMAIN context[t] /\ s = context[t][n]
      /\ DOMAIN context'[t] = DOMAIN context[t] \ {n}
      /\ \A i \in DOMAIN context'[t] : context'[t][i] = context[t][i]
  BY Pops
<1> HIDE DEF n
<1>3. s \in DOMAIN spans /\ spans[s].open /\ spans[s].of = agent[t]
  BY <1>2 DEF Owners, References, Belongs
<1> HIDE DEF s
<1>4. spans' \in Seq(SpanRecord) /\ SpansLast /\ TracesApart'
  BY <1>3, Ends DEF s
<1>5. TypeOK'
  BY <1>2, <1>4 DEF TypeOK
<1>6. References'
  <2>1. BelongsNext(s, agent[t]) /\ spans[s].trace = spans'[s].trace
    BY <1>3, <1>4 DEF BelongsNext, SpansLast
  <2>2. CASE Scan(agent[t], "sdk", s, spans)
    <3>1. \A x \in scans' : \/ x \in scans
                            \/ \E u \in DOMAIN spans' :
                                 spans'[u].of = x.agent /\ spans'[u].trace = x.trace
      BY <2>1, <2>2, ScanRefers
    <3> QED  BY <1>2, <1>4, <3>1, ReferencesKept
  <2>3. CASE NoScan
    BY <1>2, <1>4, <2>3, ReferencesKept DEF NoScan
  <2> QED  BY <2>2, <2>3 DEF s
<1>7. Owners' /\ OpenSpansHaveOwners'
  BY <1>1, OwnersLeave
<1>8. Carriers'
  <2>1. \A i \in DOMAIN context'[t] : spans'[context'[t][i]].kind # "carrier"
    BY <1>1, <1>2, <1>4, NoCarriers, InTable DEF SpansLast
  <2>2. \A u \in Tasks :
          \/ context'[u] = context[u] /\ entered'[u] = entered[u]
          \/ event[u] = 0 /\ \A i \in DOMAIN context'[u] : spans'[context'[u][i]].kind # "carrier"
    BY <1>1, <1>2, <2>1
  <2> QED  BY <1>1, <1>4, <2>2, CarriersKept
<1>9. ScansMeetLiveSpans'
  <2>1. CASE Scan(agent[t], "sdk", s, spans)
    BY <1>3, <2>1, ScanMeets
  <2>2. CASE NoScan
    BY <2>2, NoScanMeets
  <2> QED  BY <2>1, <2>2 DEF s
<1> QED  BY <1>4, <1>5, <1>6, <1>7, <1>8, <1>9

LEMMA RecordKeeps ==
  ASSUME Inv, NEW t \in Tasks, NEW s \in DOMAIN spans, Record(t, s)
  PROVE  Inv'
<1> USE DEF Inv
<1>1. /\ spans[s].of = agent[t]
      /\ Scan(agent[t], IF spans[s].open THEN "manual" ELSE "late record", s, spans)
      /\ spans' = spans /\ strayed' = strayed /\ parallel' = parallel /\ agent' = agent
      /\ context' = context /\ entered' = entered /\ event' = event /\ handler' = handler
      /\ run' = run /\ runner' = runner
      /\ ~parallel => \A u \in Tasks : event[u] = 0
  BY DEF Record, Runnable
<1>2. SpansLast /\ TracesApart'
  BY <1>1, NothingOpens
<1>3. TypeOK'
  BY <1>1 DEF TypeOK
<1>4. References'
  <2>1. BelongsNext(s, agent[t]) /\ spans[s].trace = spans'[s].trace
    BY <1>1 DEF BelongsNext
  <2>2. \A x \in scans' : \/ x \in scans
                          \/ \E u \in DOMAIN spans' :
                               spans'[u].of = x.agent /\ spans'[u].trace = x.trace
    BY <1>1, <2>1, ScanRefers
  <2> QED  BY <1>1, <1>2, <2>2, ReferencesKept
<1>5. Owners' /\ OpenSpansHaveOwners'
  <2>1. \A u \in Tasks : agent[u] = NoTask => event'[u] = 0
    BY <1>1 DEF Owners
  <2> QED  BY <1>1, <2>1, OwnersSame
<1>6. Carriers'
  BY <1>1, <1>2, CarriersKept
<1>7. ScansMeetLiveSpans'
  BY <1>1, ScanMeets
<1> QED  BY <1>2, <1>3, <1>4, <1>5, <1>6, <1>7

LEMMA RunStartKeeps ==
  ASSUME Inv, NEW t \in Tasks, NEW r \in Runs, NEW sampled \in Sampling,
         RunStart(t, r, sampled)
  PROVE  Inv'
<1> USE DEF Inv
<1>1. /\ agent[t] # NoTask /\ run[r] = "new"
      /\ Open(t, "langchain", sampled)
      /\ handler' = [handler EXCEPT ![r] = NewSpan]
      /\ run' = [run EXCEPT ![r] = "started"]
      /\ runner' = [runner EXCEPT ![r] = agent[t]]
      /\ Scan(agent[t], "langchain", NewSpan, spans')
      /\ parallel' = parallel /\ agent' = agent /\ context' = context /\ entered' = entered
      /\ event' = event
      /\ ~parallel => \A u \in Tasks : event[u] = 0
  BY DEF RunStart, Runnable
<1>2. "langchain" \in SpanKind /\ sampled \in BOOLEAN
  BY SpansAssumption DEF SpanKind
<1>3. /\ spans' \in Seq(SpanRecord) /\ SpansLast /\ TracesApart'
      /\ NewSpan \in Nat /\ NewSpan \notin DOMAIN spans
      /\ DOMAIN spans' = DOMAIN spans \cup {NewSpan}
      /\ \A s \in DOMAIN spans : spans'[s] = spans[s]
      /\ spans'[NewSpan].open /\ spans'[NewSpan].kind = "langchain"
      /\ BelongsNext(NewSpan, agent[t])
  BY <1>1, <1>2, Opens DEF BelongsNext
<1>4. /\ handler \in [Runs -> Nat] /\ agent[t] \in Tasks \cup {NoTask}
      /\ run \in [Runs -> {"new", "started", "raised", "over"}]
      /\ runner \in [Runs -> Tasks \cup {NoTask}]
  BY DEF TypeOK
<1>5. /\ handler'[r] = NewSpan /\ run'[r] = "started" /\ runner'[r] = agent[t]
      /\ \A q \in Runs : q # r => handler'[q] = handler[q] /\ run'[q] = run[q]
                                   /\ runner'[q] = runner[q]
  BY <1>1, <1>4
<1>6. TypeOK'
  <2>1. /\ handler' \in [Runs -> Nat] /\ runner' \in [Runs -> Tasks \cup {NoTask}]
        /\ run' \in [Runs -> {"new", "started", "raised", "over"}]
    BY <1>1, <1>3, <1>4
  <2> QED  BY <1>1, <1>3, <2>1 DEF TypeOK
<1>7. References'
  <2>1. \A x \in scans' : \/ x \in scans
                          \/ \E u \in DOMAIN spans' :
                               spans'[u].of = x.agent /\ spans'[u].trace = x.trace
    BY <1>1, <1>3, ScanRefers
  <2>2. \A q \in Runs : \/ handler'[q] = handler[q] /\ runner'[q] = runner[q]
                        \/ BelongsNext(handler'[q], runner'[q])
    BY <1>3, <1>5
  <2> QED  BY <1>1, <1>3, <2>1, <2>2, ReferencesKept
<1>8. Owners' /\ OpenSpansHaveOwners'
  <2>1. \A q \in Runs : handler'[q] # 0 =>
          spans'[handler'[q]].open /\ spans'[handler'[q]].kind = "langchain"
    BY <1>3, <1>5, InTable DEF Owners
  <2>2. \A p, q \in Runs : handler'[p] = handler'[q] /\ handler'[p] # 0 => p = q
    BY <1>3, <1>5, InTable DEF Owners
  <2>3. \A s \in DOMAIN spans' : spans'[s].open =>
           \/ \E q \in Runs : handler'[q] = s /\ run'[q] \in {"started", "raised"}
           \/ /\ s \in DOMAIN spans /\ spans[s].open
              /\ ~ \E q \in Runs : handler[q] = s /\ run[q] \in {"started", "raised"}
    BY <1>1, <1>3, <1>5
  <2>4. \A u \in Tasks : agent[u] = NoTask => event'[u] = 0
    BY <1>1 DEF Owners
  <2> QED  BY <1>1, <1>3, <2>1, <2>2, <2>3, <2>4, OwnersOfRuns
<1>9. Carriers'
  BY <1>1, <1>3, CarriersKept
<1>10. ScansMeetLiveSpans'
  BY <1>1, <1>3, ScanMeets
<1> QED  BY <1>3, <1>6, <1>7, <1>8, <1>9, <1>10

\* on_llm_end, on_tool_end and the error callbacks: the entry and its span go.
LEMMA FinishKeeps ==
  ASSUME Inv, NEW t \in Tasks, NEW r \in Runs, RunGoesOn(t, r), Finish(r),
         \/ NoScan
         \/ handler[r] # 0 /\ Scan(agent[t], "langchain", handler[r], spans),
         run' = [run EXCEPT ![r] = "over"],
         UNCHANGED <<parallel, agent, context, entered, event, runner, strayed>>
  PROVE  Inv'
<1> USE DEF Inv
<1>1. /\ run[r] = "started" /\ runner[r] = agent[t]
      /\ ~parallel => \A u \in Tasks : event[u] = 0
  BY DEF RunGoesOn, Runnable
<1>2. /\ handler \in [Runs -> Nat] /\ run \in [Runs -> {"new", "started", "raised", "over"}]
      /\ spans \in Seq(SpanRecord)
  BY DEF TypeOK
<1>3. /\ handler' = [handler EXCEPT ![r] = 0]
      /\ handler'[r] = 0 /\ run'[r] = "over"
      /\ \A q \in Runs : q # r => handler'[q] = handler[q] /\ run'[q] = run[q]
  BY <1>2 DEF Finish
<1>4. /\ handler[r] # 0 => /\ handler[r] \in DOMAIN spans
                           /\ spans[handler[r]].of = agent[t]
                           /\ spans[handler[r]].open
                           /\ spans[handler[r]].kind = "langchain"
  BY <1>1 DEF References, Belongs, Owners
<1>5. /\ spans' \in Seq(SpanRecord) /\ SpansLast /\ TracesApart'
      /\ DOMAIN spans' = DOMAIN spans
      /\ \A s \in DOMAIN spans : s # handler[r] => spans'[s] = spans[s]
      /\ handler[r] # 0 => ~spans'[handler[r]].open
  <2>1. CASE handler[r] = 0
    <3>1. spans' = spans /\ strayed' = strayed
      BY <2>1 DEF Finish
    <3> QED  BY <1>2, <2>1, <3>1, NothingOpens
  <2>2. CASE handler[r] # 0
    <3>1. EndSpan(handler[r])
      BY <2>2 DEF Finish
    <3> QED  BY <1>4, <2>2, <3>1, Ends
  <2> QED  BY <2>1, <2>2
<1>6. TypeOK'
  <2>1. handler' \in [Runs -> Nat] /\ run' \in [Runs -> {"new", "started", "raised", "over"}]
    BY <1>2, <1>3
  <2> QED  BY <1>5, <2>1 DEF TypeOK
<1>7. References'
  <2>1. \A x \in scans' : \/ x \in scans
                          \/ \E u \in DOMAIN spans' :
                               spans'[u].of = x.agent /\ spans'[u].trace = x.trace
    <3>1. CASE NoScan
      BY <3>1 DEF NoScan
    <3>2. CASE handler[r] # 0 /\ Scan(agent[t], "langchain", handler[r], spans)
      <4>1. BelongsNext(handler[r], agent[t]) /\ spans[handler[r]].trace = spans'[handler[r]].trace
        BY <1>4, <1>5, <3>2 DEF BelongsNext, SpansLast
      <4> QED  BY <3>2, <4>1, ScanRefers
    <3> QED  BY <3>1, <3>2
  <2>2. \A q \in Runs : handler'[q] = 0 \/ (handler'[q] = handler[q] /\ runner'[q] = runner[q])
    BY <1>3
  <2> QED  BY <1>5, <2>1, <2>2, ReferencesKept
<1>8. Owners' /\ OpenSpansHaveOwners'
  <2>1. \A q \in Runs : handler'[q] # 0 => q # r /\ handler'[q] = handler[q] /\ handler[q] # handler[r]
    BY <1>3 DEF Owners
  <2>2. \A q \in Runs : handler'[q] # 0 =>
          spans'[handler'[q]].open /\ spans'[handler'[q]].kind = "langchain"
    BY <1>5, <2>1, InTable DEF Owners
  <2>3. \A p, q \in Runs : handler'[p] = handler'[q] /\ handler'[p] # 0 => p = q
    BY <2>1 DEF Owners
  <2>4. \A s \in DOMAIN spans : s \in DOMAIN spans' /\ spans'[s].kind = spans[s].kind
    BY <1>5 DEF SpansLast
  <2>5. \A s \in DOMAIN spans : spans[s].kind # "langchain" => spans'[s].open = spans[s].open
    BY <1>4, <1>5, InTable
  <2>6. \A s \in DOMAIN spans' : spans'[s].open =>
           \/ \E q \in Runs : handler'[q] = s /\ run'[q] \in {"started", "raised"}
           \/ /\ s \in DOMAIN spans /\ spans[s].open
              /\ ~ \E q \in Runs : handler[q] = s /\ run[q] \in {"started", "raised"}
    <3> SUFFICES ASSUME NEW s \in DOMAIN spans, spans'[s].open
                 PROVE  \/ \E q \in Runs : handler'[q] = s /\ run'[q] \in {"started", "raised"}
                        \/ /\ spans[s].open
                           /\ ~ \E q \in Runs : handler[q] = s /\ run[q] \in {"started", "raised"}
      BY <1>5
    <3>1. s # 0 /\ s # handler[r] /\ spans[s].open
      BY <1>5, InTable
    <3>2. ASSUME NEW q \in Runs, handler[q] = s, run[q] \in {"started", "raised"}
          PROVE  handler'[q] = s /\ run'[q] \in {"started", "raised"}
      BY <1>3, <3>1, <3>2
    <3> QED  BY <3>1, <3>2
  <2>7. \A u \in Tasks : agent[u] = NoTask => event'[u] = 0
    BY DEF Owners
  <2> QED  BY <2>2, <2>3, <2>4, <2>5, <2>6, <2>7, OwnersOfRuns
<1>9. Carriers'
  BY <1>1, <1>5, CarriersKept
<1>10. ScansMeetLiveSpans'
  <2>1. CASE NoScan
    BY <2>1, NoScanMeets
  <2>2. CASE handler[r] # 0 /\ Scan(agent[t], "langchain", handler[r], spans)
    BY <1>4, <2>2, ScanMeets
  <2> QED  BY <2>1, <2>2
<1> QED  BY <1>5, <1>6, <1>7, <1>8, <1>9, <1>10

\* on_tool_end raises: the entry stays and so does its span.
LEMMA RunEndRaisesKeeps ==
  ASSUME Inv, NEW t \in Tasks, NEW r \in Runs, RunEndRaises(t, r)
  PROVE  Inv'
<1> USE DEF Inv
<1>1. /\ run' = [run EXCEPT ![r] = "raised"] /\ NoScan
      /\ spans' = spans /\ strayed' = strayed /\ parallel' = parallel /\ agent' = agent
      /\ context' = context /\ entered' = entered /\ event' = event /\ handler' = handler
      /\ runner' = runner
      /\ ~parallel => \A u \in Tasks : event[u] = 0
  BY DEF RunEndRaises, RunGoesOn, Runnable
<1>2. SpansLast /\ TracesApart'
  BY <1>1, NothingOpens
<1>3. TypeOK'
  BY <1>1 DEF TypeOK
<1>4. References'
  BY <1>1, <1>2, ReferencesKept DEF NoScan
<1>5. Owners' /\ OpenSpansHaveOwners'
  <2>1. \A u \in Tasks : agent[u] = NoTask => event'[u] = 0
    BY <1>1 DEF Owners
  <2>2. \A q \in Runs : run[q] \in {"started", "raised"} => run'[q] \in {"started", "raised"}
    BY <1>1 DEF TypeOK
  <2> QED  BY <1>1, <2>1, <2>2, OwnersSame
<1>6. Carriers'
  BY <1>1, <1>2, CarriersKept
<1>7. ScansMeetLiveSpans'
  BY <1>1, NoScanMeets
<1> QED  BY <1>2, <1>3, <1>4, <1>5, <1>6, <1>7

\* carrier_span yields the current span while that records.
LEMMA BorrowKeeps ==
  ASSUME Inv, NEW t \in Tasks, Runnable(t), Borrows(Current(t)),
         event' = [event EXCEPT ![t] = Current(t)], NoScan,
         UNCHANGED <<spans, context, entered, strayed, parallel, agent, handler, run, runner>>
  PROVE  Inv'
<1> USE DEF Inv
<1> DEFINE s == Current(t)
<1>1. /\ agent[t] # NoTask /\ event[t] = 0 /\ (~parallel => \A u \in Tasks : event[u] = 0)
  BY DEF Runnable
<1>2. /\ Len(context[t]) \in DOMAIN context[t] /\ s = context[t][Len(context[t])]
      /\ s \in DOMAIN spans /\ spans[s].of = agent[t] /\ spans[s].open
  <2>1. s # 0 /\ spans[s].open
    BY DEF Borrows, Recording
  <2> QED  BY <2>1, CurrentSpan DEF Belongs
<1>3. spans[s].kind # "carrier"
  BY <1>1, <1>2, NoCarriers
<1>4. s \in Nat
  BY <1>2, LenProperties DEF TypeOK
<1> HIDE DEF s
<1>5. /\ event \in [Tasks -> Nat] /\ event' \in [Tasks -> Nat] /\ event'[t] = s
      /\ \A u \in Tasks : u # t => event'[u] = event[u]
  BY <1>4 DEF TypeOK, s
<1>6. /\ SpansLast /\ TracesApart' /\ spans' = spans /\ context' = context
      /\ entered' = entered /\ agent' = agent
  BY NothingOpens
<1>7. TypeOK'
  BY <1>5 DEF TypeOK
<1>8. References'
  BY <1>2, <1>5, <1>6, ReferencesKept DEF NoScan, BelongsNext
<1>9. Owners' /\ OpenSpansHaveOwners'
  <2>1. \A u \in Tasks : agent[u] = NoTask => event'[u] = 0
    BY <1>1, <1>5 DEF Owners
  <2> QED  BY <2>1, OwnersSame
<1>10. Carriers'
  <2>1. \A u \in Tasks : \A i \in DOMAIN context[u] :
          spans[context[u][i]].kind = "carrier" => i = Len(context[u]) /\ event'[u] = context[u][i]
    BY <1>1, <1>5, NoCarriers DEF Carriers
  <2>2. \A u \in Tasks : event'[u] # 0 /\ spans[event'[u]].kind = "carrier" =>
          entered[u] > 0 /\ Current(u) = event'[u]
    BY <1>3, <1>5 DEF Carriers
  <2>3. ~parallel => /\ \A u, v \in Tasks : event'[u] # 0 /\ event'[v] # 0 => u = v
                     /\ \A u \in Tasks : event'[u] # 0 => spans[event'[u]].open
    BY <1>1, <1>2, <1>5
  <2>4. \A u \in Tasks : Current(u)' = Current(u)
    BY <1>6 DEF Current
  <2> QED  BY <1>6, <2>1, <2>2, <2>3, <2>4 DEF Carriers
<1>11. ScansMeetLiveSpans'
  BY NoScanMeets
<1> QED  BY <1>6, <1>7, <1>8, <1>9, <1>10, <1>11

\* carrier_span opens a span of its own.
LEMMA CarryKeeps ==
  ASSUME Inv, NEW t \in Tasks, NEW sampled \in Sampling, Runnable(t),
         Open(t, "carrier", sampled), Push(t, NewSpan),
         event' = [event EXCEPT ![t] = NewSpan], NoScan,
         UNCHANGED <<parallel, agent, handler, run, runner>>
  PROVE  Inv'
<1> USE DEF Inv
<1>1. agent[t] # NoTask /\ event[t] = 0 /\ (~parallel => \A u \in Tasks : event[u] = 0)
  BY DEF Runnable
<1>2. "carrier" \in SpanKind /\ sampled \in BOOLEAN
  BY SpansAssumption DEF SpanKind
<1>3. /\ spans' \in Seq(SpanRecord) /\ SpansLast /\ TracesApart'
      /\ NewSpan \in Nat /\ NewSpan \in DOMAIN spans'
      /\ \A s \in DOMAIN spans : spans'[s] = spans[s]
      /\ spans'[NewSpan].open /\ BelongsNext(NewSpan, agent[t])
  BY <1>2, Opens DEF BelongsNext
<1> DEFINE n == Len(context[t]) + 1
<1>4. /\ context' \in [Tasks -> Seq(Nat)] /\ entered' \in [Tasks -> Nat]
      /\ \A u \in Tasks : u # t => context'[u] = context[u] /\ entered'[u] = entered[u]
      /\ DOMAIN context'[t] = DOMAIN context[t] \cup {n}
      /\ \A i \in DOMAIN context[t] : context'[t][i] = context[t][i]
      /\ context'[t][n] = NewSpan /\ Len(context'[t]) = n /\ Current(t)' = NewSpan
      /\ entered'[t] > 0
  BY <1>3, Pushes
<1> HIDE DEF n
<1>5. /\ event \in [Tasks -> Nat] /\ event' \in [Tasks -> Nat] /\ event'[t] = NewSpan
      /\ \A u \in Tasks : u # t => event'[u] = event[u]
  BY <1>3 DEF TypeOK
<1>6. TypeOK'
  BY <1>3, <1>4, <1>5 DEF TypeOK
<1>7. References'
  <2>1. \A u \in Tasks : \A i \in DOMAIN context'[u] :
          \/ i \in DOMAIN context[u] /\ context'[u][i] = context[u][i] /\ agent'[u] = agent[u]
          \/ BelongsNext(context'[u][i], agent'[u])
    <3> TAKE u \in Tasks
    <3> TAKE i \in DOMAIN context'[u]
    <3>1. CASE u = t
      BY <1>3, <1>4, <3>1
    <3>2. CASE u # t
      BY <1>4, <3>2
    <3> QED  BY <3>1, <3>2
  <2>2. \A u \in Tasks : \/ event'[u] = event[u] /\ agent'[u] = agent[u]
                         \/ BelongsNext(event'[u], agent'[u])
    BY <1>3, <1>5
  <2> QED  BY <1>3, <2>1, <2>2, ReferencesKept DEF NoScan
<1>8. Owners' /\ OpenSpansHaveOwners'
  BY <1>1, <1>2, <1>5, OwnersEnter
<1>9. Carriers'
  <2>1. \A u \in Tasks : \A i \in DOMAIN context'[u] :
          spans'[context'[u][i]].kind = "carrier" =>
            i = Len(context'[u]) /\ event'[u] = context'[u][i]
    <3> TAKE u \in Tasks
    <3>1. CASE u = t
      <4>1. \A i \in DOMAIN context[t] : spans'[context[t][i]].kind # "carrier"
        BY <1>1, <1>3, NoCarriers, InTable
      <4> QED  BY <1>4, <1>5, <3>1, <4>1
    <3>2. CASE u # t
      <4>1. context'[u] = context[u] /\ event'[u] = event[u]
        BY <1>4, <1>5, <3>2
      <4>2. \A i \in DOMAIN context[u] : spans'[context[u][i]] = spans[context[u][i]]
        BY <1>3, InTable
      <4> QED  BY <4>1, <4>2 DEF Carriers
    <3> QED  BY <3>1, <3>2
  <2>2. \A u \in Tasks : event'[u] # 0 /\ spans'[event'[u]].kind = "carrier" =>
          entered'[u] > 0 /\ Current(u)' = event'[u]
    <3> TAKE u \in Tasks
    <3>1. CASE u = t
      BY <1>4, <1>5, <3>1
    <3>2. CASE u # t
      <4>1. /\ Current(u)' = Current(u) /\ entered'[u] = entered[u] /\ event'[u] = event[u]
        BY <1>4, <1>5, <3>2 DEF Current
      <4>2. event[u] # 0 => spans'[event[u]] = spans[event[u]]
        BY <1>3, InTable
      <4> QED  BY <4>1, <4>2 DEF Carriers
    <3> QED  BY <3>1, <3>2
  <2>3. ~parallel => /\ \A u, v \in Tasks : event'[u] # 0 /\ event'[v] # 0 => u = v
                     /\ \A u \in Tasks : event'[u] # 0 => spans'[event'[u]].open
    BY <1>1, <1>3, <1>5
  <2> QED  BY <2>1, <2>2, <2>3 DEF Carriers
<1>10. ScansMeetLiveSpans'
  BY NoScanMeets
<1> QED  BY <1>3, <1>6, <1>7, <1>8, <1>9, <1>10

\* The event is scanned on the span that was chosen for it.
LEMMA HandledKeeps ==
  ASSUME Inv, NEW t \in Tasks, Handled(t)
  PROVE  Inv'
<1> USE DEF Inv
<1> DEFINE s == event[t]
<1>1. /\ s # 0 /\ Scan(agent[t], "event", s, spans)
      /\ event' = [event EXCEPT ![t] = 0]
      /\ strayed' = strayed /\ parallel' = parallel /\ agent' = agent
      /\ handler' = handler /\ run' = run /\ runner' = runner
      /\ \/ spans[s].kind = "carrier" /\ Pop(t) /\ EndSpan(s)
         \/ spans[s].kind # "carrier" /\ UNCHANGED <<spans, context, entered>>
  BY DEF Handled
<1>2. /\ s \in DOMAIN spans /\ spans[s].of = agent[t] /\ agent[t] # NoTask
      /\ ~parallel => spans[s].open /\ \A u \in Tasks : u # t => event[u] = 0
      /\ spans[s].kind = "carrier" => entered[t] > 0 /\ Current(t) = s
  BY <1>1 DEF References, Belongs, Owners, Carriers
<1> HIDE DEF s
<1>3. /\ event' \in [Tasks -> Nat] /\ event'[t] = 0
      /\ \A u \in Tasks : u # t => event'[u] = event[u]
  BY <1>1 DEF TypeOK
<1>4. ScansMeetLiveSpans'
  BY <1>1, <1>2, ScanMeets DEF TypeOK
<1>5. ASSUME SpansLast
      PROVE  \A x \in scans' : \/ x \in scans
                               \/ \E u \in DOMAIN spans' :
                                    spans'[u].of = x.agent /\ spans'[u].trace = x.trace
  <2>1. BelongsNext(s, agent[t]) /\ spans[s].trace = spans'[s].trace
    BY <1>2, <1>5 DEF BelongsNext, SpansLast
  <2> QED  BY <1>1, <2>1, ScanRefers
<1>6. CASE spans[s].kind = "carrier" /\ Pop(t) /\ EndSpan(s)
  <2> DEFINE n == Len(context[t])
  <2>1. /\ context' \in [Tasks -> Seq(Nat)] /\ entered' \in [Tasks -> Nat]
        /\ \A u \in Tasks : u # t => context'[u] = context[u] /\ entered'[u] = entered[u]
        /\ n \in DOMAIN context[t]
        /\ DOMAIN context'[t] = DOMAIN context[t] \ {n}
        /\ \A i \in DOMAIN context'[t] : context'[t][i] = context[t][i]
    BY <1>2, <1>6, Pops
  <2>2. spans' \in Seq(SpanRecord) /\ SpansLast /\ TracesApart' /\ DOMAIN spans' = DOMAIN spans
    BY <1>1, <1>2, <1>6, Ends
  <2>3. TypeOK'
    BY <1>1, <1>3, <2>1, <2>2 DEF TypeOK
  <2>4. References'
    <3>1. \A u \in Tasks : \A i \in DOMAIN context'[u] :
            i \in DOMAIN context[u] /\ context'[u][i] = context[u][i] /\ agent'[u] = agent[u]
      BY <1>1, <2>1
    <3> QED  BY <1>1, <1>3, <1>5, <2>2, <3>1, ReferencesKept
  <2>5. Owners' /\ OpenSpansHaveOwners'
    BY <1>1, <1>2, <1>3, <1>6, OwnersLeave
  <2>6. Carriers'
    <3>1. /\ \A v \in DOMAIN spans : spans'[v].kind = spans[v].kind
      BY <2>2 DEF SpansLast
    <3>2. \A u \in Tasks : \A i \in DOMAIN context'[u] :
            spans'[context'[u][i]].kind = "carrier" =>
              i = Len(context'[u]) /\ event'[u] = context'[u][i]
      <4> TAKE u \in Tasks
      <4>1. CASE u = t
        <5> SUFFICES ASSUME NEW i \in DOMAIN context'[t]
                     PROVE  spans'[context'[t][i]].kind # "carrier"
          BY <4>1
        <5>1. i \in DOMAIN context[t] /\ i # n /\ context'[t][i] = context[t][i]
          BY <2>1
        <5>2. spans[context[t][i]].kind # "carrier"
          BY <5>1 DEF Carriers
        <5> QED  BY <3>1, <5>1, <5>2, InTable
      <4>2. CASE u # t
        <5>1. context'[u] = context[u] /\ event'[u] = event[u]
          BY <1>3, <2>1, <4>2
        <5>2. \A i \in DOMAIN context[u] : spans'[context[u][i]].kind = spans[context[u][i]].kind
          BY <3>1, InTable
        <5> QED  BY <5>1, <5>2 DEF Carriers
      <4> QED  BY <4>1, <4>2
    <3>3. \A u \in Tasks : event'[u] # 0 /\ spans'[event'[u]].kind = "carrier" =>
            entered'[u] > 0 /\ Current(u)' = event'[u]
      <4> SUFFICES ASSUME NEW u \in Tasks, event'[u] # 0, spans'[event'[u]].kind = "carrier"
                   PROVE  entered'[u] > 0 /\ Current(u)' = event'[u]
        OBVIOUS
      <4>1. u # t
        BY <1>3
      <4>2. Current(u)' = Current(u) /\ entered'[u] = entered[u] /\ event'[u] = event[u]
        BY <1>3, <2>1, <4>1 DEF Current
      <4>3. event[u] # 0 /\ spans[event[u]].kind = "carrier"
        BY <3>1, <4>2, InTable
      <4> QED  BY <4>2, <4>3 DEF Carriers
    <3>4. ~parallel => \A u \in Tasks : event'[u] = 0
      BY <1>2, <1>3
    <3> QED  BY <1>1, <3>2, <3>3, <3>4 DEF Carriers
  <2> QED  BY <1>4, <2>2, <2>3, <2>4, <2>5, <2>6
<1>7. CASE spans[s].kind # "carrier" /\ UNCHANGED <<spans, context, entered>>
  <2>1. /\ spans' = spans /\ context' = context /\ entered' = entered
        /\ SpansLast /\ TracesApart'
    BY <1>1, <1>7, NothingOpens
  <2>2. TypeOK'
    BY <1>1, <1>3, <2>1 DEF TypeOK
  <2>3. References'
    BY <1>1, <1>3, <1>5, <2>1, ReferencesKept
  <2>4. Owners' /\ OpenSpansHaveOwners'
    <3>1. \A u \in Tasks : agent[u] = NoTask => event'[u] = 0
      BY <1>3 DEF Owners
    <3> QED  BY <1>1, <2>1, <3>1, OwnersSame
  <2>5. Carriers'
    <3>1. \A u \in Tasks : \A i \in DOMAIN context[u] :
            spans[context[u][i]].kind = "carrier" =>
              i = Len(context[u]) /\ event'[u] = context[u][i]
      BY <1>3, <1>7 DEF Carriers, s
    <3>2. \A u \in Tasks : event'[u] # 0 /\ spans[event'[u]].kind = "carrier" =>
            entered[u] > 0 /\ Current(u) = event'[u]
      BY <1>3 DEF Carriers
    <3>3. ~parallel => \A u \in Tasks : event'[u] = 0
      BY <1>2, <1>3
    <3>4. \A u \in Tasks : Current(u)' = Current(u)
      BY <2>1 DEF Current
    <3> QED  BY <1>1, <2>1, <3>1, <3>2, <3>3, <3>4 DEF Carriers
  <2> QED  BY <1>4, <2>1, <2>2, <2>3, <2>4, <2>5
<1> QED  BY <1>1, <1>6, <1>7

\* A new task works for the agent of the task that starts it.
LEMMA SpawnKeeps ==
  ASSUME Inv, NEW t \in Tasks, NEW u \in Tasks, NEW copies \in Copies, Spawn(t, u, copies)
  PROVE  Inv'
<1> USE DEF Inv
<1>1. /\ agent[t] # NoTask /\ event[t] = 0 /\ agent[u] = NoTask
      /\ ~parallel => \A v \in Tasks : event[v] = 0
      /\ agent' = [agent EXCEPT ![u] = agent[t]]
      /\ context' = [context EXCEPT ![u] = IF copies THEN context[t] ELSE <<>>]
      /\ parallel' = parallel /\ spans' = spans /\ entered' = entered /\ event' = event
      /\ handler' = handler /\ run' = run /\ runner' = runner /\ scans' = scans
      /\ lost' = lost /\ strayed' = strayed
  BY DEF Spawn, Runnable
<1>2. /\ agent \in [Tasks -> Tasks \cup {NoTask}] /\ context \in [Tasks -> Seq(Nat)]
      /\ context[t] \in Seq(Nat) /\ entered \in [Tasks -> Nat]
      /\ entered[u] = 0 /\ event[u] = 0 /\ u # t
  BY <1>1 DEF TypeOK, Owners
<1>3. /\ agent'[u] = agent[t] /\ context'[u] \in {context[t], <<>>}
      /\ \A v \in Tasks : v # u => agent'[v] = agent[v] /\ context'[v] = context[v]
  BY <1>1, <1>2
<1>4. context' \in [Tasks -> Seq(Nat)] /\ agent' \in [Tasks -> Tasks \cup {NoTask}]
  BY <1>1, <1>2, EmptySeq
<1>5. SpansLast /\ TracesApart'
  BY <1>1, NothingOpens
<1>6. TypeOK'
  BY <1>1, <1>4 DEF TypeOK
<1>7. References'
  <2>1. \A i \in DOMAIN context'[u] :
          /\ i \in DOMAIN context[t] /\ context'[u][i] = context[t][i]
          /\ BelongsNext(context'[u][i], agent'[u])
    BY <1>1, <1>3 DEF References, Belongs, BelongsNext
  <2>2. \A v \in Tasks : \A i \in DOMAIN context'[v] :
          \/ i \in DOMAIN context[v] /\ context'[v][i] = context[v][i] /\ agent'[v] = agent[v]
          \/ BelongsNext(context'[v][i], agent'[v])
    BY <1>3, <2>1
  <2>3. \A v \in Tasks : event'[v] = 0 \/ (event'[v] = event[v] /\ agent'[v] = agent[v])
    BY <1>1, <1>2, <1>3
  <2> QED  BY <1>1, <1>5, <2>2, <2>3, ReferencesKept
<1>8. /\ Own(u) = {} /\ Own(u)' = {} /\ Inside(u) = {} /\ Inside(u)' = {}
      /\ entered'[u] <= Len(context'[u])
  <2>1. Len(context[u]) \in Nat /\ Len(context'[u]) \in Nat
    BY <1>2, <1>4, LenProperties
  <2> QED  BY <1>1, <1>2, <2>1 DEF Own, Inside
<1>9. \A v \in Tasks : v # u => Own(v)' = Own(v) /\ Inside(v)' = Inside(v)
  BY <1>1, <1>3 DEF Own, Inside
<1>10. Owners'
  <2>1. \A v \in Tasks : entered'[v] <= Len(context'[v])
    BY <1>1, <1>3, <1>8 DEF Owners
  <2>2. \A v \in Tasks : agent'[v] = NoTask => entered'[v] = 0 /\ event'[v] = 0
    BY <1>1, <1>2, <1>3 DEF Owners
  <2>3. \A v \in Tasks : \A i \in Own(v)' :
          v # u /\ i \in Own(v) /\ context'[v][i] = context[v][i]
    BY <1>3, <1>8, <1>9
  <2>4. \A v \in Tasks : \A i \in Own(v)' :
          spans[context'[v][i]].open /\ spans[context'[v][i]].kind # "langchain"
    BY <2>3 DEF Owners
  <2>5. \A v, w \in Tasks : \A i \in Own(v)' : \A j \in Own(w)' :
          context'[v][i] = context'[w][j] => v = w /\ i = j
    BY <2>3 DEF Owners
  <2> QED  BY <1>1, <2>1, <2>2, <2>4, <2>5 DEF Owners
<1>11. OpenSpansHaveOwners'
  BY <1>1, <1>8, <1>9 DEF OpenSpansHaveOwners
<1>12. Carriers'
  <2>1. \A i \in DOMAIN context'[u] : spans'[context'[u][i]].kind # "carrier"
    BY <1>1, <1>3, NoCarriers
  <2>2. \A v \in Tasks :
          \/ context'[v] = context[v] /\ entered'[v] = entered[v]
          \/ event[v] = 0 /\ \A i \in DOMAIN context'[v] : spans'[context'[v][i]].kind # "carrier"
    BY <1>1, <1>2, <1>3, <2>1
  <2> QED  BY <1>1, <1>5, <2>2, CarriersKept
<1>13. ScansMeetLiveSpans'
  BY <1>1 DEF ScansMeetLiveSpans
<1> QED  BY <1>5, <1>6, <1>7, <1>10, <1>11, <1>12, <1>13

LEMMA NextInv == Inv /\ [Next]_vars => Inv'
<1> SUFFICES ASSUME Inv, [Next]_vars
             PROVE  Inv'
  OBVIOUS
<1>1. ASSUME NEW t \in Tasks, NEW kind \in Blocks, NEW sampled \in Sampling,
             Enter(t, kind, sampled)
      PROVE  Inv'
  BY <1>1, EnterKeeps
<1>2. ASSUME NEW t \in Tasks, Return(t) \/ Leave(t)
      PROVE  Inv'
  BY <1>2, LeavingKeeps DEF Return, Leave
<1>3. ASSUME NEW t \in Tasks, NEW s \in DOMAIN spans, Record(t, s)
      PROVE  Inv'
  BY <1>3, RecordKeeps
<1>4. ASSUME NEW t \in Tasks, NEW r \in Runs, NEW sampled \in Sampling,
             RunStart(t, r, sampled)
      PROVE  Inv'
  BY <1>4, RunStartKeeps
<1>5. ASSUME NEW t \in Tasks, NEW r \in Runs, RunEnd(t, r) \/ RunError(t, r)
      PROVE  Inv'
  BY <1>5, FinishKeeps DEF RunEnd, RunError
<1>6. ASSUME NEW t \in Tasks, NEW r \in Runs, RunEndRaises(t, r)
      PROVE  Inv'
  BY <1>6, RunEndRaisesKeeps
<1>7. ASSUME NEW t \in Tasks, NEW sampled \in Sampling, Handle(t, sampled)
      PROVE  Inv'
  <2>1. CASE Borrows(Current(t))
    BY <1>7, <2>1, BorrowKeeps DEF Handle
  <2>2. CASE ~Borrows(Current(t))
    BY <1>7, <2>2, CarryKeeps DEF Handle
  <2> QED  BY <2>1, <2>2
<1>8. ASSUME NEW t \in Tasks, Handled(t)
      PROVE  Inv'
  BY <1>8, HandledKeeps
<1>9. ASSUME NEW t \in Tasks, NEW u \in Tasks, NEW copies \in Copies, Spawn(t, u, copies)
      PROVE  Inv'
  BY <1>9, SpawnKeeps
<1>10. CASE UNCHANGED vars
  <2>1. TypeOK' /\ TracesApart' /\ ScansMeetLiveSpans'
    <3>1. TypeOK' /\ ScansMeetLiveSpans'
      BY <1>10 DEF vars, Inv, TypeOK, ScansMeetLiveSpans
    <3> QED  BY <1>10, <3>1, NothingOpens DEF vars, Inv
  <2>2. References'
    BY <1>10 DEF vars, Inv, References, Belongs
  <2>3. Owners' /\ OpenSpansHaveOwners' /\ Carriers'
    BY <1>10 DEF vars, Inv, Owners, Own, OpenSpansHaveOwners, Inside, Carriers, Current
  <2> QED  BY <2>1, <2>2, <2>3 DEF Inv
<1> QED  BY <1>1, <1>2, <1>3, <1>4, <1>5, <1>6, <1>7, <1>8, <1>9, <1>10 DEF Next

-----------------------------------------------------------------------------
(* The theorems. *)

\* The inductive invariant holds of every behaviour of the tasks.
THEOREM Invariance == Spec => []Inv
<1>1. Init => Inv
  BY InitInv
<1>2. Inv /\ [Next]_vars => Inv'
  BY NextInv
<1> QED  BY <1>1, <1>2, PTL DEF Spec

\* trace_state is kept per trace (pipeline.py:114): for any number of agents,
\* tasks and runs, however their steps interleave and whichever contexts are
\* copied, no two agents ever share a trace.
THEOREM TracesAreOneAgents == Spec => []AgentsKeepApart
<1>1. References /\ TracesApart => AgentsKeepApart
  BY DEF References, TracesApart, Belongs, AgentsKeepApart
<1> QED  BY <1>1, Invariance, PTL DEF Inv

\* A loop cannot hide in a second trace: the scans of an agent whose work is all
\* under its first span are on one trace, also after that span has ended.
THEOREM RootedAgentsHaveOneTrace == Spec => []RootedAgentIsOneTrace
<1>1. References /\ TracesApart => RootedAgentIsOneTrace
  BY DEF References, TracesApart, Belongs, RootedAgentIsOneTrace
<1> QED  BY <1>1, Invariance, PTL DEF Inv

\* No adapter leaks a span: whoever opened one is still to end it, except for the
\* runs whose end callback raised (langchain.py:98).
THEOREM NoSpanLeaks == Spec => []OpenSpansHaveOwners
  BY Invariance, PTL DEF Inv

\* "Events must be attached while the span is recording"
\* (docs/adr/0003-adapter-strategy.md:9), but for what the host does late, and
\* for a span that a thread ends while another borrows it.
THEOREM ScansAreInTime == Spec => []ScansMeetLiveSpans
  BY Invariance, PTL DEF Inv
=============================================================================
