------------------------ MODULE PipelineThreadsProofs ------------------------
(***************************************************************************)
(* What any number of threads cannot do to each other in the pipeline, for *)
(* any number of spans, traces and calls and for all caps and budgets.     *)
(***************************************************************************)
EXTENDS PipelineThreads, SequenceTheorems, FiniteSetTheorems, TLAPS

(* Sequences of keys and of findings. *)

\* A sequence is a function on 1..Len: what the steps below use of one.
LEMMA OrderShape ==
  ASSUME NEW K, NEW keys \in Seq(K)
  PROVE  /\ Len(keys) \in Nat
         /\ DOMAIN keys = 1 .. Len(keys)
         /\ \A i \in 1 .. Len(keys) : keys[i] \in K
  BY LenProperties, ElementOfSeq

\* Removing position p closes the gap.
LEMMA RemoveAtShape ==
  ASSUME NEW K, NEW keys \in Seq(K), NEW p \in 1 .. Len(keys)
  PROVE  /\ RemoveAt(keys, p) \in Seq(K)
         /\ Len(RemoveAt(keys, p)) = Len(keys) - 1
         /\ \A i \in 1 .. Len(keys) - 1 :
              RemoveAt(keys, p)[i] = IF i < p THEN keys[i] ELSE keys[i + 1]
<1> DEFINE a == SubSeq(keys, 1, p - 1)
           b == SubSeq(keys, p + 1, Len(keys))
<1>1. Len(keys) \in Nat /\ \A i \in 1 .. Len(keys) : keys[i] \in K
  BY OrderShape
<1>2. /\ a \in Seq(K)
      /\ Len(a) = p - 1
      /\ \A i \in 1 .. p - 1 : a[i] = keys[i]
  <2>1. /\ 1 \in Int /\ p - 1 \in Int
        /\ \A i \in 1 .. p - 1 : keys[i] \in K
    BY <1>1
  <2>2. /\ a \in Seq(K)
        /\ Len(a) = IF 1 <= p - 1 THEN p - 1 - 1 + 1 ELSE 0
        /\ \A i \in 1 .. p - 1 - 1 + 1 : a[i] = keys[1 + i - 1]
    BY <2>1, SubSeqProperties
  <2> HIDE DEF a
  <2> QED  BY <1>1, <2>2
<1>3. /\ b \in Seq(K)
      /\ Len(b) = Len(keys) - p
      /\ \A i \in 1 .. Len(keys) - p : b[i] = keys[p + i]
  <2>1. /\ p + 1 \in Int /\ Len(keys) \in Int
        /\ \A i \in p + 1 .. Len(keys) : keys[i] \in K
    BY <1>1
  <2>2. /\ b \in Seq(K)
        /\ Len(b) = IF p + 1 <= Len(keys) THEN Len(keys) - (p + 1) + 1 ELSE 0
        /\ \A i \in 1 .. Len(keys) - (p + 1) + 1 : b[i] = keys[p + 1 + i - 1]
    BY <2>1, SubSeqProperties
  <2> HIDE DEF b
  <2> QED  BY <1>1, <2>2
<1>4. RemoveAt(keys, p) = a \o b
  BY DEF RemoveAt
<1> HIDE DEF a, b
<1>5. /\ a \o b \in Seq(K)
      /\ Len(a \o b) = Len(a) + Len(b)
      /\ \A i \in 1 .. Len(a) + Len(b) :
           (a \o b)[i] = IF i <= Len(a) THEN a[i] ELSE b[i - Len(a)]
  BY <1>2, <1>3, ConcatProperties
<1> QED  BY <1>1, <1>2, <1>3, <1>4, <1>5

\* The order after a hit: the keys behind the touched one move up by one.
LEMMA MoveToEndShape ==
  ASSUME NEW K, NEW keys \in Seq(K), NEW key \in K, Cached(keys, key)
  PROVE  LET p == Position(keys, key)
             moved == MoveToEnd(keys, key)
         IN  /\ p \in 1 .. Len(keys) /\ keys[p] = key
             /\ moved \in Seq(K)
             /\ Len(moved) = Len(keys)
             /\ \A i \in 1 .. Len(keys) :
                  moved[i] = IF i = Len(keys) THEN key
                             ELSE IF i < p THEN keys[i] ELSE keys[i + 1]
<1> DEFINE p == Position(keys, key)
           rest == RemoveAt(keys, p)
<1>1. Len(keys) \in Nat /\ DOMAIN keys = 1 .. Len(keys)
  BY OrderShape
<1>2. p \in 1 .. Len(keys) /\ keys[p] = key
  BY <1>1 DEF Position, Cached, Contains
<1>3. /\ rest \in Seq(K)
      /\ Len(rest) = Len(keys) - 1
      /\ \A i \in 1 .. Len(keys) - 1 :
           rest[i] = IF i < p THEN keys[i] ELSE keys[i + 1]
  <2> HIDE DEF p
  <2> QED  BY <1>2, RemoveAtShape
<1>4. MoveToEnd(keys, key) = Append(rest, key)
  BY DEF MoveToEnd
<1> HIDE DEF p, rest
<1>5. /\ Append(rest, key) \in Seq(K)
      /\ Len(Append(rest, key)) = Len(rest) + 1
      /\ \A i \in 1 .. Len(rest) : Append(rest, key)[i] = rest[i]
      /\ Append(rest, key)[Len(rest) + 1] = key
  BY <1>3, AppendProperties
<1> DEFINE moved == MoveToEnd(keys, key)
<1>6. moved \in Seq(K) /\ Len(moved) = Len(keys)
  BY <1>1, <1>3, <1>4, <1>5
<1>7. ASSUME NEW i \in 1 .. Len(keys)
      PROVE  moved[i] = IF i = Len(keys) THEN key
                        ELSE IF i < p THEN keys[i] ELSE keys[i + 1]
  <2>1. CASE i = Len(keys)
    BY <1>1, <1>3, <1>4, <1>5, <2>1
  <2>2. CASE i # Len(keys)
    <3>1. Len(keys) \in Nat /\ i \in Int /\ 1 <= i /\ i <= Len(keys)
      BY <1>1
    <3>2. i <= Len(keys) - 1
      BY <3>1, <2>2
    <3>3. i \in 1 .. Len(keys) - 1
      BY <3>1, <3>2
    <3> QED  BY <1>3, <1>4, <1>5, <2>2, <3>3
  <2> QED  BY <2>1, <2>2
<1> QED  BY <1>2, <1>6, <1>7 DEF p

\* A sequence without duplicates whose elements are in a finite set is no longer
\* than the set is large.
LEMMA OrderFits ==
  ASSUME NEW K, NEW seq \in Seq(K), NEW U, IsFiniteSet(U),
         \A i, j \in DOMAIN seq : seq[i] = seq[j] => i = j,
         \A i \in DOMAIN seq : seq[i] \in U
  PROVE  Len(seq) <= Cardinality(U)
<1>1. Len(seq) \in Nat /\ DOMAIN seq = 1 .. Len(seq)
  BY OrderShape
<1> DEFINE f == [i \in 1 .. Len(seq) |-> seq[i]]
<1>2. f \in Injection(1 .. Len(seq), U)
  BY <1>1 DEF Injection, IsInjective
<1>3. Cardinality(1 .. Len(seq)) <= Cardinality(U)
  BY <1>2, FS_Injection
<1>4. Cardinality(1 .. Len(seq)) = Len(seq)
  <2>1. Cardinality(1 .. Len(seq)) = IF 1 > Len(seq) THEN 0 ELSE Len(seq) - 1 + 1
    BY <1>1, FS_Interval
  <2> QED  BY <1>1, <2>1
<1> QED  BY <1>3, <1>4

\* move_to_end loses no key, brings in none and doubles none.
LEMMA MovedKeys ==
  ASSUME NEW K, NEW seq \in Seq(K), NEW key \in K, Contains(seq, key)
  PROVE  LET moved == MoveToEnd(seq, key)
         IN  /\ moved \in Seq(K)
             /\ Len(moved) = Len(seq)
             /\ \A k : Contains(moved, k) <=> Contains(seq, k)
             /\ (\A i, j \in DOMAIN seq : seq[i] = seq[j] => i = j) =>
                  \A i, j \in DOMAIN moved : moved[i] = moved[j] => i = j
<1> DEFINE n == Len(seq)
           p == Position(seq, key)
           moved == MoveToEnd(seq, key)
           back(i) == IF i = n THEN p ELSE IF i < p THEN i ELSE i + 1
           front(m) == IF m = p THEN n ELSE IF m < p THEN m ELSE m - 1
<1>1. n \in Nat /\ DOMAIN seq = 1 .. n
  BY OrderShape
<1>2. /\ p \in 1 .. n /\ seq[p] = key
      /\ moved \in Seq(K)
      /\ Len(moved) = n
      /\ \A i \in 1 .. n : moved[i] = IF i = n THEN key
                                      ELSE IF i < p THEN seq[i] ELSE seq[i + 1]
  BY MoveToEndShape DEF Cached
<1>3. DOMAIN moved = 1 .. n
  BY <1>2, OrderShape
<1> HIDE DEF n, p, moved
<1>4. \A i \in 1 .. n : back(i) \in 1 .. n /\ moved[i] = seq[back(i)]
  BY <1>1, <1>2
<1>5. \A m \in 1 .. n : front(m) \in 1 .. n /\ back(front(m)) = m
  BY <1>1, <1>2
<1>6. \A i, j \in 1 .. n : back(i) = back(j) => i = j
  BY <1>1, <1>2
<1> HIDE DEF back, front
<1>7. ASSUME NEW k
      PROVE  Contains(moved, k) <=> Contains(seq, k)
  <2>1. Contains(moved, k) => Contains(seq, k)
    BY <1>2, <1>4 DEF Contains, n
  <2>2. ASSUME NEW m \in 1 .. n, seq[m] = k
        PROVE  front(m) \in 1 .. n /\ moved[front(m)] = k
    BY <1>4, <1>5, <2>2
  <2> QED  BY <1>2, <2>1, <2>2 DEF Contains, n
<1>8. ASSUME \A i, j \in DOMAIN seq : seq[i] = seq[j] => i = j
      PROVE  \A i, j \in DOMAIN moved : moved[i] = moved[j] => i = j
  BY <1>1, <1>3, <1>4, <1>6, <1>8
<1> QED  BY <1>2, <1>7, <1>8 DEF moved, n

\* A key that is appended comes last.
LEMMA AppendedKeys ==
  ASSUME NEW K, NEW seq \in Seq(K), NEW key \in K
  PROVE  /\ Append(seq, key) \in Seq(K)
         /\ Len(Append(seq, key)) = Len(seq) + 1
         /\ \A k : Contains(Append(seq, key), k) <=> Contains(seq, k) \/ k = key
         /\ ~Contains(seq, key) /\ (\A i, j \in DOMAIN seq : seq[i] = seq[j] => i = j) =>
              \A i, j \in DOMAIN Append(seq, key) :
                Append(seq, key)[i] = Append(seq, key)[j] => i = j
<1> DEFINE longer == Append(seq, key)
<1>1. Len(seq) \in Nat /\ DOMAIN seq = 1 .. Len(seq)
  BY OrderShape
<1>2. /\ longer \in Seq(K)
      /\ Len(longer) = Len(seq) + 1
      /\ \A i \in 1 .. Len(seq) : longer[i] = seq[i]
      /\ longer[Len(seq) + 1] = key
  BY AppendProperties
<1>3. DOMAIN longer = 1 .. Len(seq) + 1
  BY <1>2, OrderShape
<1> HIDE DEF longer
<1>4. \A i \in 1 .. Len(seq) + 1 : i = Len(seq) + 1 \/ i \in 1 .. Len(seq)
  BY <1>1
<1>5. \A k : Contains(longer, k) <=> Contains(seq, k) \/ k = key
  <2>1. Len(seq) + 1 \in 1 .. Len(seq) + 1 /\ 1 .. Len(seq) \subseteq 1 .. Len(seq) + 1
    BY <1>1
  <2> QED  BY <1>2, <1>4, <2>1 DEF Contains
<1>6. ASSUME ~Contains(seq, key), \A i, j \in DOMAIN seq : seq[i] = seq[j] => i = j
      PROVE  \A i, j \in DOMAIN longer : longer[i] = longer[j] => i = j
  BY <1>1, <1>2, <1>3, <1>4, <1>6 DEF Contains
<1> QED  BY <1>2, <1>5, <1>6 DEF longer

\* popitem(last=False) drops one key.
LEMMA PoppedKeys ==
  ASSUME NEW K, NEW seq \in Seq(K), seq # <<>>
  PROVE  /\ Tail(seq) \in Seq(K)
         /\ Len(Tail(seq)) = Len(seq) - 1
         /\ \A k : Contains(Tail(seq), k) => Contains(seq, k)
         /\ (\A i, j \in DOMAIN seq : seq[i] = seq[j] => i = j) =>
              \A i, j \in DOMAIN Tail(seq) : Tail(seq)[i] = Tail(seq)[j] => i = j
<1> DEFINE rest == Tail(seq)
<1>1. Len(seq) \in Nat /\ DOMAIN seq = 1 .. Len(seq)
  BY OrderShape
<1>2. /\ rest \in Seq(K)
      /\ Len(rest) = Len(seq) - 1
      /\ \A i \in 1 .. Len(rest) : rest[i] = seq[i + 1]
  BY HeadTailProperties
<1>3. DOMAIN rest = 1 .. Len(rest) /\ Len(rest) \in Nat
  BY <1>2, OrderShape
<1> HIDE DEF rest
<1>4. \A i \in 1 .. Len(rest) : i + 1 \in 1 .. Len(seq)
  BY <1>1, <1>2, <1>3
<1>5. \A k : Contains(rest, k) => Contains(seq, k)
  BY <1>2, <1>4 DEF Contains
<1>6. ASSUME \A i, j \in DOMAIN seq : seq[i] = seq[j] => i = j
      PROVE  \A i, j \in DOMAIN rest : rest[i] = rest[j] => i = j
  <2> SUFFICES ASSUME NEW i \in 1 .. Len(rest), NEW j \in 1 .. Len(rest), rest[i] = rest[j]
               PROVE  i = j
    BY <1>3
  <2>1. i + 1 = j + 1
    BY <1>1, <1>2, <1>4, <1>6
  <2> QED  BY <1>3, <2>1
<1> QED  BY <1>2, <1>5, <1>6 DEF rest

\* The keys of a sequence by its positions, and the other way round.
LEMMA KeysAt ==
  ASSUME NEW K, NEW seq \in Seq(K), NEW U
  PROVE  /\ (\A i \in DOMAIN seq : seq[i] \in U) <=> (\A k : Contains(seq, k) => k \in U)
         /\ \A i \in DOMAIN seq : Contains(seq, seq[i]) /\ seq[i] \in K
         /\ \A k : Contains(seq, k) => k \in K
  BY OrderShape DEF Contains

\* The elements of a concatenation.
LEMMA ConcatElements ==
  ASSUME NEW E, NEW a \in Seq(E), NEW b \in Seq(E)
  PROVE  /\ a \o b \in Seq(E)
         /\ Len(a \o b) = Len(a) + Len(b)
         /\ ToSet(a \o b) = ToSet(a) \cup ToSet(b)
         /\ ToSet(a) \subseteq E
<1>1. /\ a \o b \in Seq(E)
      /\ Len(a \o b) = Len(a) + Len(b)
      /\ \A i \in 1 .. Len(a) + Len(b) :
           (a \o b)[i] = IF i <= Len(a) THEN a[i] ELSE b[i - Len(a)]
  BY ConcatProperties
<1>2. /\ Len(a) \in Nat /\ DOMAIN a = 1 .. Len(a) /\ \A i \in 1 .. Len(a) : a[i] \in E
      /\ Len(b) \in Nat /\ DOMAIN b = 1 .. Len(b)
  BY OrderShape
<1>3. DOMAIN (a \o b) = 1 .. Len(a) + Len(b)
  BY <1>1, OrderShape
<1> DEFINE c == a \o b
<1> HIDE DEF c
<1>4. ToSet(c) \subseteq ToSet(a) \cup ToSet(b)
  <2> SUFFICES ASSUME NEW i \in 1 .. Len(a) + Len(b)
               PROVE  c[i] \in ToSet(a) \cup ToSet(b)
    BY <1>3 DEF ToSet, c
  <2>1. i <= Len(a) => i \in 1 .. Len(a)
    BY <1>2
  <2>2. ~(i <= Len(a)) => i - Len(a) \in 1 .. Len(b)
    BY <1>2
  <2> QED  BY <1>1, <1>2, <2>1, <2>2 DEF ToSet, c
<1>5. ToSet(a) \subseteq ToSet(c)
  <2> SUFFICES ASSUME NEW i \in 1 .. Len(a)
               PROVE  i \in DOMAIN c /\ c[i] = a[i]
    BY <1>2 DEF ToSet
  <2> QED  BY <1>1, <1>2, <1>3 DEF c
<1>6. ToSet(b) \subseteq ToSet(c)
  <2> SUFFICES ASSUME NEW i \in 1 .. Len(b)
               PROVE  Len(a) + i \in DOMAIN c /\ c[Len(a) + i] = b[i]
    BY <1>2 DEF ToSet
  <2>1. Len(a) + i \in 1 .. Len(a) + Len(b) /\ ~(Len(a) + i <= Len(a)) /\ (Len(a) + i) - Len(a) = i
    BY <1>2
  <2> QED  BY <1>1, <1>3, <2>1 DEF c
<1>7. ToSet(a) \subseteq E
  BY <1>2 DEF ToSet
<1> QED  BY <1>1, <1>4, <1>5, <1>6, <1>7 DEF c

-----------------------------------------------------------------------------
(* Steps of one thread. *)

Acts(th) ==
  \/ \E s \in Spans, isPrompt \in BOOLEAN : Call(th, s, isPrompt)
  \/ InCache(th) \/ InDetectors(th) \/ InAttach(th)

\* The locals of a call have their types, and its object is there.
LEMMA CallFacts ==
  ASSUME TypeOK, ObjectsApart, NEW th \in Threads
  PROVE  /\ pc[th] \in Places /\ frame[th] \in Frames
         /\ Span(th) \in Spans /\ Trace(th) \in Traces
         /\ Key(th) \in CacheKey
         /\ frame[th].cache \in Caches
         /\ Order(th) \in Seq(CacheKey)
         /\ Findings(th) \in Seq(Finding)
         /\ frame[th].object \in Nat /\ frame[th].calls \in Nat /\ frame[th].count \in Nat
         /\ frame[th].types \in SUBSET Finding
         /\ pc[th] \in Attaching => frame[th].object \in ListsOf(Span(th)) \cap DOMAIN lists
         /\ pc[th] \in Counting => frame[th].object \in ScratchesOf(Trace(th)) \cap DOMAIN scratch
<1>1. pc[th] \in Places /\ frame[th] \in Frames
  BY DEF TypeOK, CallTypes
<1>2. Span(th) \in Spans /\ frame[th].cache \in Caches /\ Findings(th) \in Seq(Finding)
  BY <1>1 DEF Frames, Span, Findings
<1>3. Trace(th) \in Traces
  BY <1>2, ThreadsAssumption DEF Trace
<1>4. Key(th) \in CacheKey
  BY <1>2, <1>3 DEF Key, CacheKey
<1>5. Order(th) \in Seq(CacheKey)
  BY <1>2 DEF Order, TypeOK, CacheTypes
<1>6. /\ frame[th].object \in Nat /\ frame[th].calls \in Nat /\ frame[th].count \in Nat
      /\ frame[th].types \in SUBSET Finding
  BY <1>1 DEF Frames
<1>7. ASSUME pc[th] \in Attaching
      PROVE  frame[th].object \in ListsOf(Span(th)) \cap DOMAIN lists
  <2>1. frame[th].object \in ListsOf(Span(th))
    BY <1>7 DEF ListsOf
  <2> QED  BY <1>2, <2>1 DEF ObjectsApart
<1>8. ASSUME pc[th] \in Counting
      PROVE  frame[th].object \in ScratchesOf(Trace(th)) \cap DOMAIN scratch
  <2>1. frame[th].object \in ScratchesOf(Trace(th))
    BY <1>8 DEF ScratchesOf
  <2> QED  BY <1>3, <2>1 DEF ObjectsApart
<1> QED  BY <1>1, <1>2, <1>3, <1>4, <1>5, <1>6, <1>7, <1>8

\* A thread that starts a call or is between calls.
LEMMA NewFrames ==
  /\ \A s \in Spans, isPrompt \in BOOLEAN : NewFrame(s, isPrompt) \in Frames
  /\ NoFrame \in Frames
<1>1. ASSUME NEW s \in Spans, NEW isPrompt \in BOOLEAN
      PROVE  NewFrame(s, isPrompt) \in Frames
  <2>1. <<>> \in Seq(Finding)
    OBVIOUS
  <2> QED  BY <2>1 DEF NewFrame, Frames, Caches
<1>2. (CHOOSE s \in Spans : TRUE) \in Spans
  BY ThreadsAssumption
<1> QED  BY <1>1, <1>2 DEF NoFrame

\* A step of a thread leaves the calls of the others alone.
LEMMA OthersStay ==
  ASSUME TypeOK, NEW th \in Threads, Acts(th), NEW u \in Threads, u # th
  PROVE  pc'[u] = pc[u] /\ frame'[u] = frame[u]
<1>1. pc \in [Threads -> Places] /\ frame \in [Threads -> Frames]
  BY DEF TypeOK, CallTypes
<1>2. CASE \E s \in Spans, isPrompt \in BOOLEAN : Call(th, s, isPrompt)
  BY <1>1, <1>2 DEF Call, Goes
<1>3. CASE InCache(th)
  BY <1>1, <1>3 DEF InCache, LookUp, InsertKey, CheckCap, PopOldest, Renew, Fetch, Fail,
                    Ends, Goes
<1>4. CASE InDetectors(th)
  BY <1>1, <1>4 DEF InDetectors, ReadCalls, WriteCalls, CheckBudget, CheckFlagged, Mark,
                    ScanContent, Ends, Goes
<1>5. CASE InAttach(th)
  BY <1>1, <1>5 DEF InAttach, AddEvents, Extend, MeasureCount, MeasureTypes, SetCount,
                    SetTypes, Alert, Ends, Goes
<1> QED  BY <1>2, <1>3, <1>4, <1>5 DEF Acts

\* What a step makes of the call of its thread.
LEMMA OwnCall ==
  ASSUME TypeOK, ObjectsApart, NEW th \in Threads, Acts(th)
  PROVE  pc'[th] \in Places /\ frame'[th] \in Frames
<1>1. pc \in [Threads -> Places] /\ frame \in [Threads -> Frames]
  BY DEF TypeOK, CallTypes
<1>a. /\ frame[th] \in Frames /\ Span(th) \in Spans /\ Key(th) \in CacheKey
      /\ frame[th].cache \in Caches /\ NoFrame \in Frames
  BY CallFacts, NewFrames
<1>b. /\ pc[th] \in Attaching => frame[th].object \in DOMAIN lists
      /\ pc[th] \in Counting => frame[th].object \in DOMAIN scratch
  BY CallFacts
<1> USE DEF Places, Looking, Counting, Attaching, Goes, Ends
<1>2. CASE \E s \in Spans, isPrompt \in BOOLEAN : Call(th, s, isPrompt)
  BY <1>1, <1>2, NewFrames DEF Call
<1>3. CASE InCache(th)
  <2>1. ASSUME Fetch(th)
        PROVE  frame'[th] \in Frames
    <3>1. value[frame[th].cache][Key(th)] \in Nat
      BY <1>a DEF TypeOK, CacheTypes
    <3>2. Fetch(th) => frame'[th] \in {NoFrame, [frame[th] EXCEPT !.object = value[frame[th].cache][Key(th)]]}
      BY <1>1 DEF Fetch, Fail
    <3> QED  BY <1>a, <2>1, <3>1, <3>2 DEF Frames
  <2>2. ASSUME ~Fetch(th)
        PROVE  frame'[th] \in Frames
    BY <1>1, <1>a, <1>3, <2>2 DEF InCache, LookUp, InsertKey, CheckCap, PopOldest, Renew, Fail
  <2>3. pc'[th] \in Places
    BY <1>1, <1>3 DEF InCache, LookUp, InsertKey, CheckCap, PopOldest, Renew, Fetch, Fail
  <2> QED  BY <2>1, <2>2, <2>3
<1>4. CASE InDetectors(th)
  <2>1. ASSUME ReadCalls(th)
        PROVE  frame'[th] \in Frames
    <3>1. Scratch(th).llm_calls \in Nat
      <4>1. frame[th].object \in DOMAIN scratch
        BY <1>b, <2>1 DEF ReadCalls
      <4>2. scratch \in Seq([llm_calls : Nat, flagged : BOOLEAN])
        BY DEF TypeOK, CacheTypes
      <4>3. scratch[frame[th].object] \in [llm_calls : Nat, flagged : BOOLEAN]
        BY <4>1, <4>2, OrderShape
      <4> QED  BY <4>3 DEF Scratch
    <3>2. frame'[th] = [frame[th] EXCEPT !.calls = Scratch(th).llm_calls]
      BY <1>1, <2>1 DEF ReadCalls
    <3> QED  BY <1>a, <3>1, <3>2 DEF Frames
  <2>2. ASSUME Mark(th) \/ ScanContent(th)
        PROVE  frame'[th] \in Frames
    <3>1. <<"budget">> \in Seq(Finding) /\ <<"content">> \in Seq(Finding)
      BY DEF Finding
    <3>2. \/ frame'[th] = NoFrame
          \/ frame'[th] = [frame[th] EXCEPT !.findings = Findings(th)]
          \/ frame'[th] = [frame[th] EXCEPT !.findings = <<"budget">>]
          \/ frame'[th] = [frame[th] EXCEPT !.findings = <<"content">>]
      BY <1>1, <2>2 DEF Mark, ScanContent
    <3>3. Findings(th) \in Seq(Finding)
      BY CallFacts
    <3> QED  BY <1>a, <3>1, <3>2, <3>3 DEF Frames
  <2>3. ASSUME ~ReadCalls(th), ~(Mark(th) \/ ScanContent(th))
        PROVE  frame'[th] \in Frames
    BY <1>1, <1>a, <1>4, <2>3 DEF InDetectors, WriteCalls, CheckBudget, CheckFlagged
  <2>4. pc'[th] \in Places
    BY <1>1, <1>4 DEF InDetectors, ReadCalls, WriteCalls, CheckBudget, CheckFlagged, Mark,
                      ScanContent
  <2> QED  BY <2>1, <2>2, <2>3, <2>4
<1>5. CASE InAttach(th)
  <2>1. ASSUME MeasureCount(th) \/ MeasureTypes(th)
        PROVE  frame'[th] \in Frames
    <3>1. Accumulated(th) \in Seq(Finding)
      <4>1. frame[th].object \in DOMAIN lists
        BY <1>b, <2>1 DEF MeasureCount, MeasureTypes
      <4>2. lists \in Seq(Seq(Finding))
        BY DEF TypeOK, CacheTypes
      <4> QED  BY <4>1, <4>2, OrderShape DEF Accumulated
    <3>2. Len(Accumulated(th)) \in Nat /\ ToSet(Accumulated(th)) \in SUBSET Finding
      BY <3>1, OrderShape, ConcatElements
    <3>3. \/ frame'[th] = [frame[th] EXCEPT !.count = Len(Accumulated(th))]
          \/ frame'[th] = [frame[th] EXCEPT !.types = ToSet(Accumulated(th))]
      BY <1>1, <2>1 DEF MeasureCount, MeasureTypes
    <3> QED  BY <1>a, <3>2, <3>3 DEF Frames
  <2>2. ASSUME AddEvents(th)
        PROVE  frame'[th] \in Frames
    BY <1>1, <1>a, <2>2 DEF AddEvents, Frames, Caches
  <2>3. ASSUME ~(MeasureCount(th) \/ MeasureTypes(th)), ~AddEvents(th)
        PROVE  frame'[th] \in Frames
    BY <1>1, <1>a, <1>5, <2>3 DEF InAttach, Extend, SetCount, SetTypes, Alert
  <2>4. pc'[th] \in Places
    BY <1>1, <1>5 DEF InAttach, AddEvents, Extend, MeasureCount, MeasureTypes, SetCount,
                      SetTypes, Alert
  <2> QED  BY <2>1, <2>2, <2>3, <2>4
<1> QED  BY <1>2, <1>3, <1>4, <1>5 DEF Acts

LEMMA CallTypesKept ==
  ASSUME TypeOK, ObjectsApart, NEW th \in Threads, Acts(th)
  PROVE  CallTypes'
<1>1. pc \in [Threads -> Places] /\ frame \in [Threads -> Frames]
  BY DEF TypeOK, CallTypes
<1>2. pc' = [pc EXCEPT ![th] = pc'[th]] /\ frame' = [frame EXCEPT ![th] = frame'[th]]
  BY <1>1 DEF Acts, Call, InCache, LookUp, InsertKey, CheckCap, PopOldest, Renew, Fetch,
              Fail, Goes, Ends, InDetectors, ReadCalls, WriteCalls, CheckBudget, CheckFlagged,
              Mark, ScanContent, InAttach, AddEvents, Extend, MeasureCount, MeasureTypes,
              SetCount, SetTypes, Alert
<1> QED  BY <1>1, <1>2, OwnCall DEF CallTypes

-----------------------------------------------------------------------------
(* The caches. *)

Once(seq) == \A i, j \in DOMAIN seq : seq[i] = seq[j] => i = j

\* A step changes the order of one cache, that of its thread, and only by its key:
\* an insertion brings it in, and nothing but popitem takes a key out.
LEMMA OrderSteps ==
  ASSUME TypeOK, ObjectsApart, NEW th \in Threads, Acts(th), NEW c \in Caches
  PROVE  /\ order' \in [Caches -> Seq(CacheKey)]
         /\ Once(order[c]) => Once(order'[c])
         /\ \A k : Contains(order'[c], k) =>
              Contains(order[c], k) \/ (InsertKey(th) /\ c = frame[th].cache /\ k = Key(th))
         /\ \A k : ~(PopOldest(th) /\ c = frame[th].cache) /\ Contains(order[c], k) =>
              Contains(order'[c], k)
         /\ InsertKey(th) /\ c = frame[th].cache => Contains(order'[c], Key(th))
         /\ Len(order'[c]) \in Nat
         /\ \/ Len(order'[c]) <= Len(order[c])
            \/ /\ InsertKey(th) /\ c = frame[th].cache
               /\ Len(order'[c]) <= Len(order[c]) + 1
         /\ PopOldest(th) /\ c = frame[th].cache =>
              Len(order'[c]) = 0 \/ Len(order'[c]) = Len(order[c]) - 1
<1> DEFINE o == order[c]
           d == frame[th].cache
           key == Key(th)
<1>1. order \in [Caches -> Seq(CacheKey)] /\ o \in Seq(CacheKey)
  BY DEF TypeOK, CacheTypes
<1>2. key \in CacheKey /\ d \in Caches
  BY CallFacts
<1>3. Len(o) \in Nat
  BY <1>1, OrderShape
<1>4. CASE order' = order
  <2>1. ~(InsertKey(th) /\ c = d /\ ~Contains(o, key))
    <3> SUFFICES ASSUME InsertKey(th), c = d, ~Contains(o, key)
                 PROVE  FALSE
      OBVIOUS
    <3>1. order'[c] = Append(o, key)
      BY <1>1 DEF InsertKey
    <3>2. Len(Append(o, key)) = Len(o) + 1
      BY <1>1, <1>2, AppendedKeys
    <3> QED  BY <1>3, <1>4, <3>1, <3>2
  <2>2. PopOldest(th) /\ c = d => o = <<>>
    <3> SUFFICES ASSUME PopOldest(th), c = d, o # <<>>
                 PROVE  FALSE
      OBVIOUS
    <3>1. order'[c] = Tail(o)
      BY <1>1 DEF PopOldest, Order
    <3>2. Len(Tail(o)) = Len(o) - 1
      BY <1>1, PoppedKeys
    <3>3. Tail(o) = o
      BY <1>4, <3>1
    <3> HIDE DEF o
    <3> QED  BY <1>3, <3>2, <3>3
  <2>3. Len(<<>>) = 0
    OBVIOUS
  <2> QED  BY <1>1, <1>3, <1>4, <2>1, <2>2, <2>3
<1>5. CASE order' # order
  <2>1. InsertKey(th) \/ PopOldest(th) \/ Renew(th)
    BY <1>5 DEF Acts, Call, InCache, LookUp, CheckCap, Fetch, Fail, Goes, Ends, InDetectors,
                ReadCalls, WriteCalls, CheckBudget, CheckFlagged, Mark, ScanContent, InAttach,
                AddEvents, Extend, MeasureCount, MeasureTypes, SetCount, SetTypes, Alert, dicts
  <2>2. CASE InsertKey(th)
    <3>1. ~PopOldest(th)
      BY <2>2 DEF InsertKey, PopOldest, Goes, Fail, Ends
    <3>2. order' = [order EXCEPT ![d] = IF Contains(@, key) THEN @ ELSE Append(@, key)]
      BY <2>2 DEF InsertKey
    <3>3. Append(order[d], key) \in Seq(CacheKey) /\ order[d] \in Seq(CacheKey)
      BY <1>1, <1>2, AppendedKeys
    <3>4. order' \in [Caches -> Seq(CacheKey)]
      BY <1>1, <1>2, <3>2, <3>3
    <3>5. CASE c = d /\ ~Contains(o, key)
      <4>1. order'[c] = Append(o, key)
        BY <1>1, <3>2, <3>5
      <4> HIDE DEF o, d, key
      <4> DEFINE longer == Append(o, key)
      <4>2. /\ longer \in Seq(CacheKey)
            /\ Len(longer) = Len(o) + 1
            /\ \A k : Contains(longer, k) <=> Contains(o, k) \/ k = key
            /\ Once(o) => Once(longer)
        BY <1>1, <1>2, <3>5, AppendedKeys DEF Once
      <4> HIDE DEF longer
      <4> QED  BY <1>3, <2>2, <3>1, <3>4, <3>5, <4>1, <4>2 DEF o, d, key, longer
    <3>6. CASE ~(c = d /\ ~Contains(o, key))
      <4>1. order'[c] = o
        BY <1>1, <3>2, <3>6
      <4> QED  BY <1>3, <2>2, <3>1, <3>4, <3>6, <4>1
    <3> QED  BY <3>5, <3>6
  <2>3. CASE PopOldest(th)
    <3>1. ~InsertKey(th)
      BY <2>3 DEF InsertKey, PopOldest, Goes, Fail, Ends
    <3>2. order' = [order EXCEPT ![d] = Tail(@)] /\ order[d] # <<>>
      BY <2>3, <1>5 DEF PopOldest, Order
    <3>3. Tail(order[d]) \in Seq(CacheKey)
      BY <1>1, <1>2, <3>2, PoppedKeys
    <3>4. order' \in [Caches -> Seq(CacheKey)]
      BY <1>1, <1>2, <3>2, <3>3
    <3>5. CASE c = d
      <4>1. order'[c] = Tail(o) /\ o # <<>>
        BY <1>1, <3>2, <3>5
      <4>2. Len(Tail(o)) \in Nat
        BY <3>4, <4>1, OrderShape
      <4> HIDE DEF o, d, key
      <4>3. c = frame[th].cache
        BY <3>5 DEF d
      <4>4. /\ Len(Tail(o)) = Len(o) - 1
            /\ \A k : Contains(Tail(o), k) => Contains(o, k)
            /\ Once(o) => Once(Tail(o))
        BY <1>1, <4>1, PoppedKeys DEF Once
      <4> QED  BY <1>3, <2>3, <3>1, <3>4, <4>1, <4>2, <4>3, <4>4 DEF o
    <3>6. CASE c # d
      <4>1. order'[c] = o
        BY <1>1, <3>2, <3>6
      <4> QED  BY <1>3, <2>3, <3>1, <3>4, <3>6, <4>1
    <3> QED  BY <3>5, <3>6
  <2>4. CASE Renew(th)
    <3>1. ~InsertKey(th) /\ ~PopOldest(th)
      BY <2>4 DEF InsertKey, PopOldest, Renew, Goes, Fail, Ends
    <3>2. order' = [order EXCEPT ![d] = MoveToEnd(@, key)] /\ Contains(order[d], key)
      BY <2>4, <1>5 DEF Renew, Order
    <3>3. MoveToEnd(order[d], key) \in Seq(CacheKey)
      <4> HIDE DEF d, key
      <4>1. order[d] \in Seq(CacheKey)
        BY <1>1, <1>2
      <4> QED  BY <1>2, <3>2, <4>1, MovedKeys
    <3>4. order' \in [Caches -> Seq(CacheKey)]
      BY <1>1, <1>2, <3>2, <3>3
    <3>5. CASE c = d
      <4>1. order'[c] = MoveToEnd(o, key) /\ Contains(o, key)
        BY <1>1, <3>2, <3>5
      <4> HIDE DEF o, d, key
      <4> DEFINE moved == MoveToEnd(o, key)
      <4>2. /\ moved \in Seq(CacheKey)
            /\ Len(moved) = Len(o)
            /\ \A k : Contains(moved, k) <=> Contains(o, k)
            /\ Once(o) => Once(moved)
        BY <1>1, <1>2, <4>1, MovedKeys DEF Once
      <4> HIDE DEF moved
      <4> QED  BY <1>3, <2>4, <3>1, <3>4, <4>1, <4>2 DEF o, moved
    <3>6. CASE c # d
      <4>1. order'[c] = o
        BY <1>1, <3>2, <3>6
      <4> QED  BY <1>3, <2>4, <3>1, <3>4, <3>6, <4>1
    <3> QED  BY <3>5, <3>6
  <2> QED  BY <2>1, <2>2, <2>3, <2>4
<1> QED  BY <1>4, <1>5

Scratches == [llm_calls : Nat, flagged : BOOLEAN]

\* A lookup that misses in the span cache makes one empty list, and a call adds to
\* no list but its own.
LEMMA ListSteps ==
  ASSUME TypeOK, ObjectsApart, NEW th \in Threads, Acts(th)
  PROVE  /\ lists' \in Seq(Seq(Finding))
         /\ DOMAIN lists \subseteq DOMAIN lists'
         /\ Len(lists) + 1 \notin DOMAIN lists
         /\ InsertKey(th) /\ frame[th].cache = "spans" =>
              /\ Len(lists) + 1 \in DOMAIN lists'
              /\ lists'[Len(lists) + 1] = <<>>
         /\ \A o \in DOMAIN lists :
              lists'[o] = lists[o] \/ (Extend(th) /\ o = frame[th].object)
         /\ Extend(th) => lists'[frame[th].object] = Accumulated(th) \o Findings(th)
<1>1. lists \in Seq(Seq(Finding)) /\ Findings(th) \in Seq(Finding)
  BY CallFacts DEF TypeOK, CacheTypes
<1>2. Len(lists) \in Nat /\ DOMAIN lists = 1 .. Len(lists)
  BY <1>1, OrderShape
<1>3. Len(lists) + 1 \notin DOMAIN lists
  BY <1>2
<1>4. CASE Extend(th)
  <2>1. frame[th].object \in DOMAIN lists /\ ~InsertKey(th)
    BY <1>4, CallFacts DEF Extend, InsertKey, Goes, Attaching
  <2>2. lists' = [lists EXCEPT ![frame[th].object] = @ \o Findings(th)]
    BY <1>4 DEF Extend, Extended
  <2>3. lists[frame[th].object] \in Seq(Finding)
    BY <1>1, <2>1, OrderShape
  <2>4. lists[frame[th].object] \o Findings(th) \in Seq(Finding)
    BY <1>1, <2>3, ConcatElements
  <2>5. lists' \in Seq(Seq(Finding)) /\ DOMAIN lists' = DOMAIN lists
    BY <1>1, <2>1, <2>2, <2>4, ExceptSeq
  <2> QED  BY <1>3, <1>4, <2>1, <2>2, <2>5 DEF Accumulated
<1>5. CASE InsertKey(th) /\ frame[th].cache = "spans"
  <2>1. lists' = Append(lists, <<>>) /\ ~Extend(th)
    BY <1>5 DEF Extend, InsertKey, Goes
  <2>2. <<>> \in Seq(Finding)
    OBVIOUS
  <2>3. /\ Append(lists, <<>>) \in Seq(Seq(Finding))
        /\ Len(Append(lists, <<>>)) = Len(lists) + 1
        /\ \A o \in 1 .. Len(lists) : Append(lists, <<>>)[o] = lists[o]
        /\ Append(lists, <<>>)[Len(lists) + 1] = <<>>
    BY <1>1, <2>2, AppendProperties
  <2>4. DOMAIN lists' = 1 .. Len(lists) + 1
    BY <2>1, <2>3, OrderShape
  <2>5. 1 .. Len(lists) \subseteq 1 .. Len(lists) + 1 /\ Len(lists) + 1 \in 1 .. Len(lists) + 1
    BY <1>2
  <2> QED  BY <1>2, <1>3, <2>1, <2>3, <2>4, <2>5
<1>6. CASE ~Extend(th) /\ ~(InsertKey(th) /\ frame[th].cache = "spans")
  <2>0. frame[th].cache \in Caches
    BY CallFacts
  <2>1. lists' = lists
    BY <1>6, <2>0 DEF Caches, Acts, Call, InCache, LookUp, InsertKey, CheckCap, PopOldest, Renew, Fetch, InDetectors,
                ReadCalls, WriteCalls, CheckBudget, CheckFlagged, Mark, ScanContent, InAttach,
                AddEvents, MeasureCount, MeasureTypes, SetCount, SetTypes, Alert, objects
  <2> QED  BY <1>1, <1>3, <1>6, <2>1
<1> QED  BY <1>4, <1>5, <1>6

\* The same for the trace cache: nothing but a call's own counts and flags changes.
LEMMA ScratchSteps ==
  ASSUME TypeOK, ObjectsApart, NEW th \in Threads, Acts(th)
  PROVE  /\ scratch' \in Seq(Scratches)
         /\ DOMAIN scratch \subseteq DOMAIN scratch'
         /\ Len(scratch) + 1 \notin DOMAIN scratch
         /\ InsertKey(th) /\ frame[th].cache = "traces" =>
              /\ Len(scratch) + 1 \in DOMAIN scratch'
              /\ scratch'[Len(scratch) + 1] = [llm_calls |-> 0, flagged |-> FALSE]
         /\ \A o \in DOMAIN scratch :
              scratch'[o] = scratch[o] \/
                ((WriteCalls(th) \/ Mark(th)) /\ o = frame[th].object)
         /\ WriteCalls(th) => scratch'[frame[th].object] =
                                [Scratch(th) EXCEPT !.llm_calls = frame[th].calls + 1]
         /\ Mark(th) => scratch'[frame[th].object] = [Scratch(th) EXCEPT !.flagged = TRUE]
<1> DEFINE fresh == [llm_calls |-> 0, flagged |-> FALSE]
<1>1. scratch \in Seq(Scratches) /\ frame[th].calls \in Nat
  BY CallFacts DEF TypeOK, CacheTypes, Scratches
<1>2. Len(scratch) \in Nat /\ DOMAIN scratch = 1 .. Len(scratch)
  BY <1>1, OrderShape
<1>3. Len(scratch) + 1 \notin DOMAIN scratch
  BY <1>2
<1>4. CASE WriteCalls(th) \/ Mark(th)
  <2>1. frame[th].object \in DOMAIN scratch /\ ~InsertKey(th)
    BY <1>4, CallFacts DEF WriteCalls, Mark, InsertKey, Goes, Counting
  <2>2. Scratch(th) \in Scratches
    BY <1>1, <2>1, OrderShape DEF Scratch
  <2>3. CASE WriteCalls(th)
    <3>1. scratch' = [scratch EXCEPT ![frame[th].object] =
                        [Scratch(th) EXCEPT !.llm_calls = frame[th].calls + 1]]
      BY <2>3 DEF WriteCalls, OneMore, Scratch
    <3>2. [Scratch(th) EXCEPT !.llm_calls = frame[th].calls + 1] \in Scratches
      BY <1>1, <2>2 DEF Scratches
    <3>3. scratch' \in Seq(Scratches) /\ DOMAIN scratch' = DOMAIN scratch
      BY <1>1, <2>1, <3>1, <3>2, ExceptSeq
    <3>4. ~Mark(th)
      BY <2>3 DEF WriteCalls, Mark, Goes
    <3> QED  BY <1>3, <2>1, <2>3, <3>1, <3>3, <3>4
  <2>4. CASE Mark(th)
    <3>1. scratch' = [scratch EXCEPT ![frame[th].object] = [Scratch(th) EXCEPT !.flagged = TRUE]]
      BY <2>4 DEF Mark, Scratch
    <3>2. [Scratch(th) EXCEPT !.flagged = TRUE] \in Scratches
      BY <2>2 DEF Scratches
    <3>3. scratch' \in Seq(Scratches) /\ DOMAIN scratch' = DOMAIN scratch
      BY <1>1, <2>1, <3>1, <3>2, ExceptSeq
    <3>4. ~WriteCalls(th)
      BY <2>4 DEF WriteCalls, Mark, Goes
    <3> QED  BY <1>3, <2>1, <2>4, <3>1, <3>3, <3>4
  <2> QED  BY <1>4, <2>3, <2>4
<1>5. CASE InsertKey(th) /\ frame[th].cache = "traces"
  <2>1. scratch' = Append(scratch, fresh) /\ ~WriteCalls(th) /\ ~Mark(th)
    BY <1>5 DEF WriteCalls, Mark, InsertKey, Goes
  <2>2. fresh \in Scratches
    BY DEF Scratches
  <2>3. /\ Append(scratch, fresh) \in Seq(Scratches)
        /\ Len(Append(scratch, fresh)) = Len(scratch) + 1
        /\ \A o \in 1 .. Len(scratch) : Append(scratch, fresh)[o] = scratch[o]
        /\ Append(scratch, fresh)[Len(scratch) + 1] = fresh
    BY <1>1, <2>2, AppendProperties
  <2>4. DOMAIN scratch' = 1 .. Len(scratch) + 1
    BY <2>1, <2>3, OrderShape
  <2>5. /\ 1 .. Len(scratch) \subseteq 1 .. Len(scratch) + 1
        /\ Len(scratch) + 1 \in 1 .. Len(scratch) + 1
    BY <1>2
  <2> QED  BY <1>2, <1>3, <2>1, <2>3, <2>4, <2>5
<1>6. CASE ~WriteCalls(th) /\ ~Mark(th) /\ ~(InsertKey(th) /\ frame[th].cache = "traces")
  <2>1. scratch' = scratch
    BY <1>6 DEF Acts, Call, InCache, LookUp, InsertKey, CheckCap, PopOldest, Renew, Fetch, InDetectors,
                ReadCalls, CheckBudget, CheckFlagged, ScanContent, InAttach, Extend,
                AddEvents, MeasureCount, MeasureTypes, SetCount, SetTypes, Alert, objects
  <2> QED  BY <1>1, <1>3, <1>6, <2>1
<1> QED  BY <1>4, <1>5, <1>6

\* What a key stands for changes when it is inserted.
LEMMA ValueSteps ==
  ASSUME TypeOK, ObjectsApart, NEW th \in Threads, Acts(th)
  PROVE  /\ value' \in [Caches -> [CacheKey -> Nat]]
         /\ \A c \in Caches, k \in CacheKey :
              value'[c][k] = value[c][k] \/
                (InsertKey(th) /\ c = frame[th].cache /\ k = Key(th))
         /\ InsertKey(th) => value'[frame[th].cache][Key(th)] =
              IF frame[th].cache = "traces" THEN Len(scratch) + 1 ELSE Len(lists) + 1
<1>1. value \in [Caches -> [CacheKey -> Nat]]
  BY DEF TypeOK, CacheTypes
<1>2. Key(th) \in CacheKey /\ frame[th].cache \in Caches
  BY CallFacts
<1>3. Len(scratch) \in Nat /\ Len(lists) \in Nat
  BY OrderShape DEF TypeOK, CacheTypes
<1>4. CASE InsertKey(th)
  <2> DEFINE new == IF frame[th].cache = "traces" THEN Len(scratch) + 1 ELSE Len(lists) + 1
  <2>1. value' = [value EXCEPT ![frame[th].cache][Key(th)] = new]
    BY <1>2, <1>4 DEF InsertKey, Caches
  <2>2. new \in Nat
    BY <1>3
  <2> HIDE DEF new
  <2>3. value' \in [Caches -> [CacheKey -> Nat]]
    BY <1>1, <1>2, <2>1, <2>2
  <2>4. value'[frame[th].cache][Key(th)] = new
    BY <1>1, <1>2, <2>1
  <2>5. \A c \in Caches, k \in CacheKey :
          value'[c][k] = value[c][k] \/ (c = frame[th].cache /\ k = Key(th))
    BY <1>1, <1>2, <2>1
  <2> QED  BY <1>4, <2>3, <2>4, <2>5 DEF new
<1>5. CASE ~InsertKey(th)
  <2>1. value' = value
    BY <1>5 DEF Acts, Call, InCache, LookUp, CheckCap, PopOldest, Renew, Fetch, InDetectors,
                ReadCalls, WriteCalls, CheckBudget, CheckFlagged, Mark, ScanContent, InAttach,
                Extend, AddEvents, MeasureCount, MeasureTypes, SetCount, SetTypes, Alert, dicts
  <2> QED  BY <1>1, <1>5, <2>1
<1> QED  BY <1>4, <1>5

\* The keys that were looked up, and those with which a call failed.
LEMMA UseSteps ==
  ASSUME TypeOK, ObjectsApart, NEW th \in Threads, Acts(th)
  PROVE  /\ used' \in [Caches -> SUBSET CacheKey]
         /\ failed' \in [Caches -> SUBSET CacheKey]
         /\ \A c \in Caches : used'[c] = IF LookUp(th) /\ c = frame[th].cache
                                         THEN used[c] \cup {Key(th)} ELSE used[c]
         /\ \A c \in Caches :
              \/ failed'[c] = failed[c]
              \/ /\ c = frame[th].cache
                 /\ (PopOldest(th) \/ ((Renew(th) \/ Fetch(th)) /\ ~Contains(Order(th), Key(th))))
<1>1. used \in [Caches -> SUBSET CacheKey] /\ failed \in [Caches -> SUBSET CacheKey]
  BY DEF TypeOK, CacheTypes
<1>2. Key(th) \in CacheKey /\ frame[th].cache \in Caches
  BY CallFacts
<1>3. CASE LookUp(th)
  <2>1. /\ used' = [used EXCEPT ![frame[th].cache] = @ \cup {Key(th)}]
        /\ failed' = failed
    BY <1>3 DEF LookUp
  <2> QED  BY <1>1, <1>2, <1>3, <2>1
<1>4. CASE ~LookUp(th)
  <2>1. used' = used
    BY <1>4 DEF Acts, Call, InCache, InsertKey, CheckCap, PopOldest, Renew, Fetch, InDetectors,
                ReadCalls, WriteCalls, CheckBudget, CheckFlagged, Mark, ScanContent, InAttach,
                Extend, AddEvents, MeasureCount, MeasureTypes, SetCount, SetTypes, Alert, ghosts
  <2>2. \/ failed' = failed
        \/ /\ failed' = [failed EXCEPT ![frame[th].cache] = @ \cup {Key(th)}]
           /\ (PopOldest(th) \/ ((Renew(th) \/ Fetch(th)) /\ ~Contains(Order(th), Key(th))))
    BY <1>4 DEF Acts, Call, InCache, InsertKey, CheckCap, PopOldest, Renew, Fetch, InDetectors,
                ReadCalls, WriteCalls, CheckBudget, CheckFlagged, Mark, ScanContent, InAttach,
                Extend, AddEvents, MeasureCount, MeasureTypes, SetCount, SetTypes, Alert, ghosts,
                Fail
  <2> QED  BY <1>1, <1>2, <1>4, <2>1, <2>2
<1> QED  BY <1>3, <1>4

Summaries == [count : Nat, types : SUBSET Finding]

\* A call writes to its own span only.
LEMMA SpanSteps ==
  ASSUME TypeOK, ObjectsApart, NEW th \in Threads, Acts(th)
  PROVE  /\ events' \in [Spans -> Seq(Finding)]
         /\ summary' \in [Spans -> Summaries]
         /\ \A s \in Spans :
              /\ events'[s] = IF AddEvents(th) /\ s = Span(th)
                                THEN events[s] \o Findings(th) ELSE events[s]
              /\ \/ summary'[s] = summary[s]
                 \/ /\ s = Span(th) /\ SetCount(th)
                    /\ summary'[s] = [summary[s] EXCEPT !.count = frame[th].count]
                 \/ /\ s = Span(th) /\ SetTypes(th)
                    /\ summary'[s] = [summary[s] EXCEPT !.types = frame[th].types]
         /\ SetCount(th) =>
              summary'[Span(th)] = [summary[Span(th)] EXCEPT !.count = frame[th].count]
         /\ SetTypes(th) =>
              summary'[Span(th)] = [summary[Span(th)] EXCEPT !.types = frame[th].types]
<1>1. events \in [Spans -> Seq(Finding)] /\ summary \in [Spans -> Summaries]
  BY DEF TypeOK, OutputTypes, Summaries
<1>2. /\ Span(th) \in Spans /\ Findings(th) \in Seq(Finding)
      /\ frame[th].count \in Nat /\ frame[th].types \in SUBSET Finding
  BY CallFacts
<1> DEFINE s0 == Span(th)
<1>3. CASE AddEvents(th)
  <2>1. /\ events' = [events EXCEPT ![s0] = @ \o Findings(th)]
        /\ summary' = summary
        /\ ~SetCount(th) /\ ~SetTypes(th)
    BY <1>3 DEF AddEvents, SetCount, SetTypes, Goes
  <2>2. events[s0] \o Findings(th) \in Seq(Finding)
    BY <1>1, <1>2, ConcatElements
  <2>3. events' \in [Spans -> Seq(Finding)]
    BY <1>1, <2>1, <2>2
  <2> QED  BY <1>1, <1>2, <1>3, <2>1, <2>3
<1>4. CASE SetCount(th)
  <2>1. /\ summary' = [summary EXCEPT ![s0] = [summary[s0] EXCEPT !.count = frame[th].count]]
        /\ events' = events
        /\ ~AddEvents(th) /\ ~SetTypes(th)
    BY <1>4 DEF AddEvents, SetCount, SetTypes, Goes
  <2>2. [summary[s0] EXCEPT !.count = frame[th].count] \in Summaries
    BY <1>1, <1>2 DEF Summaries
  <2>3. summary' \in [Spans -> Summaries]
    BY <1>1, <2>1, <2>2
  <2> QED  BY <1>1, <1>2, <1>4, <2>1, <2>3
<1>5. CASE SetTypes(th)
  <2>1. /\ summary' = [summary EXCEPT ![s0] = [summary[s0] EXCEPT !.types = frame[th].types]]
        /\ events' = events
        /\ ~AddEvents(th) /\ ~SetCount(th)
    BY <1>5 DEF AddEvents, SetCount, SetTypes, Goes
  <2>2. [summary[s0] EXCEPT !.types = frame[th].types] \in Summaries
    BY <1>1, <1>2 DEF Summaries
  <2>3. summary' \in [Spans -> Summaries]
    BY <1>1, <2>1, <2>2
  <2> QED  BY <1>1, <1>2, <1>5, <2>1, <2>3
<1>6. CASE ~AddEvents(th) /\ ~SetCount(th) /\ ~SetTypes(th)
  <2>1. events' = events /\ summary' = summary
    BY <1>6 DEF Acts, Call, InCache, LookUp, InsertKey, CheckCap, PopOldest, Renew, Fetch, InDetectors,
                ReadCalls, WriteCalls, CheckBudget, CheckFlagged, Mark, ScanContent, InAttach,
                Extend, MeasureCount, MeasureTypes, Alert, outputs
  <2> QED  BY <1>1, <1>6, <2>1
<1> QED  BY <1>3, <1>4, <1>5, <1>6

\* A call counts and raises alarms for its own trace only.
LEMMA TraceSteps ==
  ASSUME TypeOK, ObjectsApart, NEW th \in Threads, Acts(th)
  PROVE  /\ prompts' \in [Traces -> Nat]
         /\ alarms' \in [Traces -> Nat]
         /\ \A t \in Traces :
              /\ prompts'[t] = IF WriteCalls(th) /\ t = Trace(th) THEN prompts[t] + 1
                                                                  ELSE prompts[t]
              /\ alarms'[t] = IF /\ Alert(th) /\ t = Trace(th)
                                 /\ "budget" \in ToSet(Findings(th))
                                THEN alarms[t] + 1 ELSE alarms[t]
<1>1. prompts \in [Traces -> Nat] /\ alarms \in [Traces -> Nat]
  BY DEF TypeOK, OutputTypes
<1>2. Trace(th) \in Traces
  BY CallFacts
<1>3. CASE WriteCalls(th)
  <2>1. /\ prompts' = [prompts EXCEPT ![Trace(th)] = @ + 1]
        /\ alarms' = alarms
        /\ ~Alert(th)
    BY <1>3 DEF WriteCalls, Alert, Goes, Ends
  <2> QED  BY <1>1, <1>2, <1>3, <2>1
<1>4. CASE Alert(th)
  <2>1. /\ alarms' = [alarms EXCEPT ![Trace(th)] =
                        IF "budget" \in ToSet(Findings(th)) THEN @ + 1 ELSE @]
        /\ prompts' = prompts
        /\ ~WriteCalls(th)
    BY <1>4 DEF WriteCalls, Alert, Goes, Ends
  <2> QED  BY <1>1, <1>2, <1>4, <2>1
<1>5. CASE ~WriteCalls(th) /\ ~Alert(th)
  <2>1. prompts' = prompts /\ alarms' = alarms
    BY <1>5 DEF Acts, Call, InCache, LookUp, InsertKey, CheckCap, PopOldest, Renew, Fetch, InDetectors,
                ReadCalls, CheckBudget, CheckFlagged, Mark, ScanContent, InAttach,
                AddEvents, Extend, MeasureCount, MeasureTypes, SetCount, SetTypes, ghosts
  <2> QED  BY <1>1, <1>5, <2>1
<1> QED  BY <1>3, <1>4, <1>5

LEMMA TypesKept ==
  ASSUME TypeOK, ObjectsApart, NEW th \in Threads, Acts(th)
  PROVE  TypeOK'
<1>1. CallTypes'
  BY CallTypesKept
<1>2. CacheTypes'
  <2>1. order' \in [Caches -> Seq(CacheKey)]
    BY OrderSteps DEF Caches
  <2> QED  BY <2>1, ListSteps, ScratchSteps, ValueSteps, UseSteps DEF CacheTypes, Scratches
<1>3. OutputTypes'
  BY SpanSteps, TraceSteps DEF OutputTypes, Summaries
<1> QED  BY <1>1, <1>2, <1>3 DEF TypeOK

-----------------------------------------------------------------------------
(* Where a call goes, and with which locals. *)

\* A call that is lost, or that ends.
Leaves(th) == pc'[th] = "idle" /\ frame'[th] = NoFrame

LEMMA CacheMoves ==
  ASSUME TypeOK, NEW th \in Threads
  PROVE  /\ LookUp(th) =>
              /\ pc[th] = "lookup" /\ frame'[th] = frame[th]
              /\ pc'[th] = IF Contains(Order(th), Key(th)) THEN "renew" ELSE "insert"
         /\ InsertKey(th) => pc[th] = "insert" /\ pc'[th] = "check" /\ frame'[th] = frame[th]
         /\ CheckCap(th) => /\ pc[th] = "check" /\ frame'[th] = frame[th]
                            /\ pc'[th] = IF OverCap(th) THEN "pop" ELSE "fetch"
         /\ PopOldest(th) => /\ pc[th] = "pop"
                             /\ Leaves(th) \/ (pc'[th] = "fetch" /\ frame'[th] = frame[th])
         /\ Renew(th) =>
              /\ pc[th] = "renew"
              /\ IF Contains(Order(th), Key(th))
                   THEN pc'[th] = "fetch" /\ frame'[th] = frame[th] ELSE Leaves(th)
         /\ Fetch(th) =>
              /\ pc[th] = "fetch"
              /\ IF Contains(Order(th), Key(th))
                   THEN /\ frame'[th] = [frame[th] EXCEPT !.object = value[frame[th].cache][Key(th)]]
                        /\ pc'[th] = IF frame[th].cache = "spans" THEN "extend"
                                     ELSE IF frame[th].isPrompt THEN "read" ELSE "content"
                   ELSE Leaves(th)
<1>1. pc \in [Threads -> Places] /\ frame \in [Threads -> Frames]
  BY DEF TypeOK, CallTypes
<1>2. ASSUME Fetch(th)
      PROVE  IF Contains(Order(th), Key(th))
               THEN /\ frame'[th] = [frame[th] EXCEPT !.object = value[frame[th].cache][Key(th)]]
                    /\ pc'[th] = IF frame[th].cache = "spans" THEN "extend"
                                 ELSE IF frame[th].isPrompt THEN "read" ELSE "content"
               ELSE Leaves(th)
  BY <1>1, <1>2 DEF Fetch, Fail, Goes, Ends, Leaves
<1> QED  BY <1>1, <1>2 DEF LookUp, InsertKey, CheckCap, PopOldest, Renew, Fetch, Fail, Goes, Ends,
                           Leaves

LEMMA CallMoves ==
  ASSUME TypeOK, NEW th \in Threads, NEW s \in Spans, NEW isPrompt \in BOOLEAN,
         Call(th, s, isPrompt)
  PROVE  /\ pc[th] = "idle" /\ pc'[th] = "lookup"
         /\ frame'[th] = NewFrame(s, isPrompt)
         /\ frame'[th].span = s /\ frame'[th].cache = "traces" /\ frame'[th].findings = <<>>
<1>1. pc \in [Threads -> Places] /\ frame \in [Threads -> Frames]
  BY DEF TypeOK, CallTypes
<1>2. /\ pc[th] = "idle" /\ pc'[th] = "lookup"
      /\ frame'[th] = NewFrame(s, isPrompt)
  BY <1>1 DEF Call, Goes
<1> QED  BY <1>2 DEF NewFrame

LEMMA DetectorMoves ==
  ASSUME TypeOK, NEW th \in Threads
  PROVE  /\ ReadCalls(th) =>
              /\ pc[th] = "read" /\ pc'[th] = "write"
              /\ frame'[th] = [frame[th] EXCEPT !.calls = Scratch(th).llm_calls]
         /\ WriteCalls(th) => pc[th] = "write" /\ pc'[th] = "budget" /\ frame'[th] = frame[th]
         /\ CheckBudget(th) =>
              /\ pc[th] = "budget" /\ frame'[th] = frame[th]
              /\ pc'[th] = IF Scratch(th).llm_calls > CallBudget THEN "flagged" ELSE "content"
         /\ CheckFlagged(th) =>
              /\ pc[th] = "flagged" /\ frame'[th] = frame[th]
              /\ pc'[th] = IF Scratch(th).flagged THEN "content" ELSE "mark"
         /\ Mark(th) => /\ pc[th] = "mark" /\ pc'[th] = "content"
                        /\ frame'[th] = [frame[th] EXCEPT !.findings = <<"budget">>]
         /\ ScanContent(th) =>
              /\ pc[th] = "content"
              /\ \/ frame[th].isPrompt /\ Findings(th) = <<>> /\ Leaves(th)
                 \/ /\ frame[th].isPrompt /\ Findings(th) # <<>>
                    /\ pc'[th] = "event" /\ frame'[th] = frame[th]
                 \/ /\ ~frame[th].isPrompt /\ pc'[th] = "event"
                    /\ frame'[th] = [frame[th] EXCEPT !.findings = <<"content">>]
<1>1. pc \in [Threads -> Places] /\ frame \in [Threads -> Frames]
  BY DEF TypeOK, CallTypes
<1>2. ASSUME ScanContent(th)
      PROVE  /\ pc[th] = "content"
             /\ \/ frame[th].isPrompt /\ Findings(th) = <<>> /\ Leaves(th)
                \/ /\ frame[th].isPrompt /\ Findings(th) # <<>>
                   /\ pc'[th] = "event" /\ frame'[th] = frame[th]
                \/ /\ ~frame[th].isPrompt /\ pc'[th] = "event"
                   /\ frame'[th] = [frame[th] EXCEPT !.findings = <<"content">>]
  <2>1. <<"content">> # <<>>
    OBVIOUS
  <2>2. frame[th] = [frame[th] EXCEPT !.findings = Findings(th)]
    BY <1>1 DEF Frames, Findings
  <2> QED  BY <1>1, <1>2, <2>1, <2>2 DEF ScanContent, Goes, Ends, Leaves
<1> QED  BY <1>1, <1>2 DEF ReadCalls, WriteCalls, CheckBudget, CheckFlagged, IsFlagged, Mark,
                           Goes

LEMMA AttachMoves ==
  ASSUME TypeOK, NEW th \in Threads
  PROVE  /\ AddEvents(th) => /\ pc[th] = "event" /\ pc'[th] = "lookup"
                             /\ frame'[th] = [frame[th] EXCEPT !.cache = "spans"]
         /\ Extend(th) => pc[th] = "extend" /\ pc'[th] = "count" /\ frame'[th] = frame[th]
         /\ MeasureCount(th) =>
              /\ pc[th] = "count" /\ pc'[th] = "types"
              /\ frame'[th] = [frame[th] EXCEPT !.count = Len(Accumulated(th))]
         /\ MeasureTypes(th) =>
              /\ pc[th] = "types" /\ pc'[th] = "set_count"
              /\ frame'[th] = [frame[th] EXCEPT !.types = ToSet(Accumulated(th))]
         /\ SetCount(th) => pc[th] = "set_count" /\ pc'[th] = "set_types" /\ frame'[th] = frame[th]
         /\ SetTypes(th) => pc[th] = "set_types" /\ pc'[th] = "alert" /\ frame'[th] = frame[th]
         /\ Alert(th) => pc[th] = "alert" /\ Leaves(th)
<1>1. pc \in [Threads -> Places] /\ frame \in [Threads -> Frames]
  BY DEF TypeOK, CallTypes
<1> QED  BY <1>1 DEF AddEvents, Extend, MeasureCount, MeasureTypes, SetCount, SetTypes, Alert,
                     Goes, Ends, Leaves

LEMMA StagesKept ==
  ASSUME TypeOK, ObjectsApart, Stages, NEW th \in Threads, Acts(th)
  PROVE  Stages'
<1> SUFFICES ASSUME NEW u \in Threads
             PROVE  Stage(u)'
  BY DEF Stages
<1>1. Stage(u)
  BY DEF Stages
<1>2. CASE u # th
  <2>1. pc'[u] = pc[u] /\ frame'[u] = frame[u]
    BY <1>2, OthersStay
  <2> QED  BY <1>1, <2>1 DEF Stage, Findings
<1>3. CASE u = th
  <2> USE DEF Stage, Findings, Looking, Counting, Attaching
  <2>1. frame[th] \in Frames /\ frame[th].cache \in {"traces", "spans"}
    BY CallFacts DEF Caches
  <2>2. <<"budget">> # <<>> /\ <<"content">> # <<>> /\ <<"budget">> # <<"content">>
    OBVIOUS
  <2>3. NoFrame.cache = "traces" /\ NoFrame.findings = <<>>
    BY DEF NoFrame, NewFrame
  <2>4. CASE \E s \in Spans, isPrompt \in BOOLEAN : Call(th, s, isPrompt)
    <3>1. PICK s \in Spans, isPrompt \in BOOLEAN : Call(th, s, isPrompt)
      BY <2>4
    <3>2. /\ pc'[th] = "lookup"
          /\ frame'[th].cache = "traces" /\ frame'[th].findings = <<>>
      <4> HIDE DEF Looking, Counting, Attaching, Stage, Findings
      <4> QED  BY <3>1, CallMoves
    <3> QED  BY <1>3, <3>2
  <2>5. CASE InCache(th)
    BY <1>1, <1>3, <2>1, <2>2, <2>3, <2>5, CacheMoves DEF InCache, Leaves, Frames
  <2>6. CASE InDetectors(th)
    <3>1. CASE ScanContent(th)
      <4>1. CASE /\ Findings(th) # <<>>
                 /\ pc'[th] = "event" /\ frame'[th] = frame[th]
        BY <1>1, <1>3, <2>2, <3>1, <4>1, DetectorMoves
      <4>2. CASE pc'[th] = "event" /\ frame'[th] = [frame[th] EXCEPT !.findings = <<"content">>]
        <5>1. frame'[th].cache = frame[th].cache /\ frame'[th].findings = <<"content">>
          BY <2>1, <4>2 DEF Frames
        <5> QED  BY <1>1, <1>3, <2>2, <3>1, <4>2, <5>1, DetectorMoves
      <4>3. CASE Leaves(th)
        BY <1>3, <2>2, <2>3, <4>3 DEF Leaves
      <4> QED  BY <3>1, <4>1, <4>2, <4>3, DetectorMoves
    <3>2. CASE ~ScanContent(th)
      BY <1>1, <1>3, <2>1, <2>2, <2>3, <2>6, <3>2, DetectorMoves DEF InDetectors, Leaves, Frames
    <3> QED  BY <3>1, <3>2
  <2>7. CASE InAttach(th)
    BY <1>1, <1>3, <2>1, <2>2, <2>3, <2>7, AttachMoves DEF InAttach, Leaves, Frames
  <2> QED  BY <2>4, <2>5, <2>6, <2>7 DEF Acts
<1> QED  BY <1>2, <1>3

-----------------------------------------------------------------------------
(* The invariant of the caches. *)

\* KeysOnce, by the keys instead of by their positions.
KeysHeld ==
  \A c \in Caches :
    /\ Once(order[c])
    /\ \A k : Contains(order[c], k) => k \in used[c] /\ value[c][k] # 0
    /\ \A th \in Threads :
         frame[th].cache = c /\ pc[th] \in Looking \ {"lookup"} => Key(th) \in used[c]

LEMMA KeysOnceByKey == TypeOK => (KeysOnce <=> KeysHeld)
<1> SUFFICES ASSUME TypeOK
             PROVE  KeysOnce <=> KeysHeld
  OBVIOUS
<1>1. ASSUME NEW c \in Caches
      PROVE  (\A i \in DOMAIN order[c] : order[c][i] \in used[c] /\ value[c][order[c][i]] # 0)
             <=> (\A k : Contains(order[c], k) => k \in used[c] /\ value[c][k] # 0)
  <2>1. order[c] \in Seq(CacheKey)
    BY DEF TypeOK, CacheTypes
  <2>2. DOMAIN order[c] = 1 .. Len(order[c])
    BY <2>1, OrderShape
  <2> QED  BY <2>2 DEF Contains
<1> QED  BY <1>1 DEF KeysOnce, KeysHeld, Once

\* What a step knows of the key it works on afterwards.
LEMMA KeyStays ==
  ASSUME TypeOK, ObjectsApart, NEW th \in Threads, Acts(th),
         pc'[th] \in Looking \ {"lookup"}
  PROVE  /\ frame'[th] = frame[th] /\ Key(th)' = Key(th)
         /\ LookUp(th) \/ pc[th] \in Looking \ {"lookup"}
<1>1. frame'[th] = frame[th] /\ (LookUp(th) \/ pc[th] \in Looking \ {"lookup"})
  <2>1. CASE \E s \in Spans, isPrompt \in BOOLEAN : Call(th, s, isPrompt)
    <3>1. pc'[th] = "lookup"
      BY <2>1, CallMoves
    <3> QED  BY <3>1
  <2>2. CASE InCache(th)
    BY <2>2, CacheMoves DEF InCache, Leaves, Looking
  <2>3. CASE InDetectors(th)
    BY <2>3, DetectorMoves DEF InDetectors, Leaves, Looking
  <2>4. CASE InAttach(th)
    BY <2>4, AttachMoves DEF InAttach, Leaves, Looking
  <2> QED  BY <2>1, <2>2, <2>3, <2>4 DEF Acts
<1> QED  BY <1>1 DEF Key, Trace, Span

LEMMA KeysOnceKept ==
  ASSUME TypeOK, ObjectsApart, KeysOnce, NEW th \in Threads, Acts(th)
  PROVE  KeysOnce'
<1>1. KeysHeld
  BY KeysOnceByKey
<1>2. TypeOK'
  BY TypesKept
<1>3. Key(th) \in CacheKey /\ frame[th].cache \in Caches
  BY CallFacts
<1>4. ASSUME NEW c \in Caches
      PROVE  used[c] \subseteq used'[c]
  BY UseSteps
<1>5. ASSUME NEW c \in Caches
      PROVE  Once(order'[c])
  BY <1>1, OrderSteps DEF KeysHeld
<1>6. ASSUME NEW c \in Caches, NEW k, Contains(order'[c], k)
      PROVE  k \in used'[c] /\ value'[c][k] # 0
  <2>1. k \in CacheKey
    BY <1>2, <1>6, KeysAt DEF TypeOK, CacheTypes
  <2>2. CASE InsertKey(th) /\ c = frame[th].cache /\ k = Key(th)
    <3>1. pc[th] \in Looking \ {"lookup"}
      BY <2>2, CacheMoves DEF Looking
    <3>2. value'[c][k] = IF frame[th].cache = "traces" THEN Len(scratch) + 1 ELSE Len(lists) + 1
      BY <2>2, ValueSteps
    <3>3. Len(scratch) \in Nat /\ Len(lists) \in Nat
      BY OrderShape DEF TypeOK, CacheTypes
    <3>4. Len(scratch) + 1 # 0 /\ Len(lists) + 1 # 0
      BY <3>3
    <3> QED  BY <1>1, <1>4, <2>2, <3>1, <3>2, <3>4 DEF KeysHeld
  <2>3. CASE ~(InsertKey(th) /\ c = frame[th].cache /\ k = Key(th))
    <3>1. Contains(order[c], k)
      BY <1>6, <2>3, OrderSteps
    <3>2. value'[c][k] = value[c][k]
      BY <2>1, <2>3, ValueSteps
    <3> QED  BY <1>1, <1>4, <3>1, <3>2 DEF KeysHeld
  <2> QED  BY <2>2, <2>3
<1>7. ASSUME NEW c \in Caches, NEW u \in Threads,
             frame'[u].cache = c, pc'[u] \in Looking \ {"lookup"}
      PROVE  Key(u)' \in used'[c]
  <2>1. CASE u # th
    <3>1. pc'[u] = pc[u] /\ frame'[u] = frame[u]
      BY <2>1, OthersStay
    <3>2. Key(u)' = Key(u)
      BY <3>1 DEF Key, Trace, Span
    <3> QED  BY <1>1, <1>4, <1>7, <3>1, <3>2 DEF KeysHeld
  <2>2. CASE u = th
    <3>1. /\ frame'[th] = frame[th] /\ Key(th)' = Key(th)
          /\ LookUp(th) \/ pc[th] \in Looking \ {"lookup"}
      BY <1>7, <2>2, KeyStays
    <3>2. LookUp(th) => Key(th) \in used'[c]
      BY <1>3, <1>7, <2>2, <3>1, UseSteps
    <3> QED  BY <1>1, <1>4, <1>7, <2>2, <3>1, <3>2 DEF KeysHeld
  <2> QED  BY <2>1, <2>2
<1>8. KeysHeld'
  BY <1>5, <1>6, <1>7 DEF KeysHeld
<1>9. TypeOK' => (KeysOnce' <=> KeysHeld')
  BY KeysOnceByKey, PTL
<1> QED  BY <1>2, <1>8, <1>9

\* There was room before a step if there is afterwards.
LEMMA RoomBefore ==
  ASSUME TypeOK, ObjectsApart, NEW th \in Threads, Acts(th), NEW c \in Caches, Room(c)'
  PROVE  Room(c)
<1>1. used[c] \subseteq used'[c] /\ used'[c] \subseteq CacheKey
  BY UseSteps
<1>2. IsFiniteSet(CacheKey)
  BY ThreadsAssumption, FS_Union DEF CacheKey
<1>3. IsFiniteSet(used'[c]) /\ IsFiniteSet(used[c])
  BY <1>1, <1>2, FS_Subset
<1>4. /\ Cardinality(used[c]) <= Cardinality(used'[c])
      /\ Cardinality(used[c]) \in Nat /\ Cardinality(used'[c]) \in Nat
  BY <1>1, <1>3, FS_Subset, FS_CardinalityType
<1>5. Cap(c) \in Nat
  BY ThreadsAssumption DEF Cap
<1>6. Cardinality(used'[c]) <= Cap(c)
  BY DEF Room, Cap
<1> QED  BY <1>4, <1>5, <1>6 DEF Room

\* A cache is not over its cap as long as there is room.
LEMMA FitsWithRoom ==
  ASSUME TypeOK, KeysOnce, NEW c \in Caches, Room(c)
  PROVE  Len(order[c]) <= Cap(c)
<1>1. IsFiniteSet(CacheKey)
  BY ThreadsAssumption, FS_Union DEF CacheKey
<1>2. order[c] \in Seq(CacheKey) /\ used[c] \in SUBSET CacheKey
  BY DEF TypeOK, CacheTypes
<1>3. IsFiniteSet(used[c])
  BY <1>1, <1>2, FS_Subset
<1>4. Len(order[c]) <= Cardinality(used[c])
  BY <1>2, <1>3, OrderFits DEF KeysOnce
<1>5. Cardinality(used[c]) \in Nat /\ Cap(c) \in Nat /\ Len(order[c]) \in Nat
  BY <1>2, <1>3, FS_CardinalityType, OrderShape, ThreadsAssumption DEF Cap
<1> QED  BY <1>4, <1>5 DEF Room

LEMMA NothingEvictedKept ==
  ASSUME TypeOK, ObjectsApart, KeysOnce, NothingEvicted, NEW th \in Threads, Acts(th)
  PROVE  NothingEvicted'
<1> SUFFICES ASSUME NEW c \in Caches, Room(c)'
             PROVE  /\ failed'[c] = {}
                    /\ \A u \in Threads : frame'[u].cache = c =>
                         /\ pc'[u] # "pop"
                         /\ pc'[u] \in {"check", "renew", "fetch"} =>
                              Contains(order'[c], Key(u)')
  BY DEF NothingEvicted
<1>1. Room(c)
  BY RoomBefore
<1>2. /\ failed[c] = {}
      /\ \A u \in Threads : frame[u].cache = c =>
           /\ pc[u] # "pop"
           /\ pc[u] \in {"check", "renew", "fetch"} => Contains(order[c], Key(u))
  BY <1>1 DEF NothingEvicted
<1>3. ~(PopOldest(th) /\ c = frame[th].cache)
  BY <1>2, CacheMoves
<1>4. \A k : Contains(order[c], k) => Contains(order'[c], k)
  BY <1>3, OrderSteps
<1>5. failed'[c] = {}
  <2>1. CASE failed'[c] = failed[c]
    BY <1>2, <2>1
  <2>2. CASE failed'[c] # failed[c]
    <3>1. /\ c = frame[th].cache
          /\ PopOldest(th) \/ ((Renew(th) \/ Fetch(th)) /\ ~Contains(order[c], Key(th)))
      BY <2>2, UseSteps DEF Order
    <3>2. pc[th] \in {"renew", "fetch"}
      BY <1>3, <3>1, CacheMoves
    <3> QED  BY <1>2, <1>3, <3>1, <3>2
  <2> QED  BY <2>1, <2>2
<1>6. ASSUME NEW u \in Threads, frame'[u].cache = c
      PROVE  /\ pc'[u] # "pop"
             /\ pc'[u] \in {"check", "renew", "fetch"} => Contains(order'[c], Key(u)')
  <2>1. CASE u # th
    <3>1. pc'[u] = pc[u] /\ frame'[u] = frame[u]
      BY <2>1, OthersStay
    <3>2. Key(u)' = Key(u)
      BY <3>1 DEF Key, Trace, Span
    <3> QED  BY <1>2, <1>4, <1>6, <3>1, <3>2
  <2>2. CASE u = th /\ pc'[th] \in {"pop", "check", "renew", "fetch"}
    <3>1. frame'[th] = frame[th] /\ Key(th)' = Key(th) /\ frame[th].cache = c
      BY <1>6, <2>2, KeyStays DEF Looking
    <3>2. InCache(th)
      <4>1. CASE \E s \in Spans, isPrompt \in BOOLEAN : Call(th, s, isPrompt)
        <5>1. pc'[th] = "lookup"
          BY <4>1, CallMoves
        <5> QED  BY <2>2, <5>1
      <4>2. CASE InDetectors(th)
        BY <2>2, <4>2, DetectorMoves DEF InDetectors, Leaves
      <4>3. CASE InAttach(th)
        BY <2>2, <4>3, AttachMoves DEF InAttach, Leaves
      <4> QED  BY <4>1, <4>2, <4>3 DEF Acts
    <3>3. CASE LookUp(th)
      BY <1>4, <2>2, <3>1, <3>3, CacheMoves DEF Order
    <3>4. CASE InsertKey(th)
      <4>1. Contains(order'[c], Key(th)) /\ pc'[th] = "check"
        BY <3>1, <3>4, OrderSteps, CacheMoves
      <4> QED  BY <2>2, <3>1, <4>1
    <3>5. CASE CheckCap(th)
      <4>1. Len(order[c]) <= Cap(c) /\ Len(order[c]) \in Nat /\ Cap(c) \in Nat
        BY <1>1, FitsWithRoom, OrderShape, ThreadsAssumption DEF TypeOK, CacheTypes, Cap
      <4>2. ~OverCap(th)
        BY <3>1, <4>1 DEF OverCap, Order
      <4> QED  BY <1>2, <1>4, <2>2, <3>1, <3>5, <4>2, CacheMoves
    <3>6. CASE Renew(th) \/ Fetch(th)
      BY <1>2, <1>4, <2>2, <3>1, <3>6, CacheMoves DEF Leaves
    <3> QED  BY <1>3, <3>1, <3>2, <3>3, <3>4, <3>5, <3>6 DEF InCache
  <2> QED  BY <2>1, <2>2
<1> QED  BY <1>5, <1>6

\* A step of one thread takes at most that thread out of those that trim a cache.
LEMMA CacheBoundedKept ==
  ASSUME TypeOK, ObjectsApart, CacheBounded, NEW th \in Threads, Acts(th)
  PROVE  CacheBounded'
<1> SUFFICES ASSUME NEW c \in Caches
             PROVE  Len(order'[c]) <= Cap(c) + Cardinality(Trimming(c)')
  BY DEF CacheBounded, Cap
<1> DEFINE now == Trimming(c)
           then == Trimming(c)'
           mine == c = frame[th].cache
<1>1. Len(order[c]) <= Cap(c) + Cardinality(now)
  BY DEF CacheBounded
<1>2. IsFiniteSet(now) /\ IsFiniteSet(then)
  BY ThreadsAssumption, FS_Subset DEF Trimming
<1>3. /\ Cardinality(now) \in Nat /\ Cardinality(then) \in Nat
      /\ Cap(c) \in Nat /\ Len(order[c]) \in Nat /\ Len(order'[c]) \in Nat
  BY <1>2, FS_CardinalityType, OrderShape, OrderSteps, ThreadsAssumption
     DEF Cap, TypeOK, CacheTypes
<1>4. now \ {th} = then \ {th}
  BY OthersStay DEF Trimming
<1>5. th \in now <=> mine /\ pc[th] \in {"check", "pop"}
  BY DEF Trimming
<1>6. th \in then <=> c = frame'[th].cache /\ pc'[th] \in {"check", "pop"}
  BY DEF Trimming
<1>7. /\ th \in then /\ th \notin now => Cardinality(then) = Cardinality(now) + 1
      /\ th \notin then /\ th \in now => Cardinality(then) = Cardinality(now) - 1
      /\ (th \in then <=> th \in now) => Cardinality(then) = Cardinality(now)
  <2> HIDE DEF now, then
  <2>1. CASE th \in then /\ th \notin now
    <3>1. then = now \cup {th}
      BY <1>4, <2>1
    <3> QED  BY <1>2, <2>1, <3>1, FS_AddElement
  <2>2. CASE th \notin then /\ th \in now
    <3>1. now = then \cup {th}
      BY <1>4, <2>2
    <3>2. Cardinality(now) = Cardinality(then) + 1
      BY <1>2, <2>2, <3>1, FS_AddElement
    <3> QED  BY <1>3, <2>2, <3>2
  <2>3. CASE th \in then <=> th \in now
    <3>1. then = now
      BY <1>4, <2>3
    <3> QED  BY <2>3, <3>1
  <2> QED  BY <2>1, <2>2, <2>3
<1> SUFFICES Len(order'[c]) <= Cap(c) + Cardinality(then)
  OBVIOUS
<1> HIDE DEF now, then
<1>8. CASE InsertKey(th) /\ mine
  <2>1. th \in then /\ th \notin now
    BY <1>5, <1>6, <1>8, CacheMoves
  <2>2. Len(order'[c]) <= Len(order[c]) + 1
    BY <1>3, <1>8, OrderSteps
  <2> QED  BY <1>1, <1>3, <1>7, <2>1, <2>2
<1>9. CASE ~(InsertKey(th) /\ mine)
  <2>1. Len(order'[c]) <= Len(order[c])
    BY <1>9, OrderSteps
  <2>2. CASE th \in now /\ th \notin then
    <3>1. CheckCap(th) \/ PopOldest(th)
      <4>1. pc[th] \in {"check", "pop"}
        BY <1>5, <2>2
      <4>2. ~(\E s \in Spans, isPrompt \in BOOLEAN : Call(th, s, isPrompt))
        BY <4>1, CallMoves
      <4>3. InCache(th)
        BY <4>1, <4>2, DetectorMoves, AttachMoves DEF Acts, InDetectors, InAttach
      <4> QED  BY <4>1, <4>3, CacheMoves DEF InCache
    <3>2. CASE CheckCap(th)
      <4>1. ~OverCap(th)
        BY <1>5, <1>6, <2>2, <3>2, CacheMoves
      <4>2. Len(order[c]) <= Cap(c)
        BY <1>3, <1>5, <2>2, <4>1 DEF OverCap, Order
      <4> QED  BY <1>3, <2>1, <4>2
    <3>3. CASE PopOldest(th)
      <4>1. Len(order'[c]) = 0 \/ Len(order'[c]) = Len(order[c]) - 1
        BY <1>5, <2>2, <3>3, OrderSteps
      <4> QED  BY <1>1, <1>3, <1>7, <2>2, <4>1
    <3> QED  BY <3>1, <3>2, <3>3
  <2>3. CASE ~(th \in now /\ th \notin then)
    BY <1>1, <1>3, <1>7, <2>1, <2>3
  <2> QED  BY <2>2, <2>3
<1> QED  BY <1>8, <1>9

-----------------------------------------------------------------------------
(* The objects that stand for keys. *)

\* How a call comes to hold a list or a scratch: it fetched it, or held it before.
LEMMA Holding ==
  ASSUME TypeOK, ObjectsApart, Stages, KeysOnce, NEW th \in Threads, Acts(th)
  PROVE  /\ pc'[th] \in Attaching =>
              /\ frame'[th].span = Span(th)
              /\ \/ pc[th] \in Attaching /\ frame'[th].object = frame[th].object
                 \/ /\ Fetch(th) /\ Contains(order["spans"], Span(th))
                    /\ frame'[th].object = value["spans"][Span(th)]
                    /\ value["spans"][Span(th)] # 0
         /\ pc'[th] \in Counting =>
              /\ frame'[th].span = Span(th)
              /\ \/ pc[th] \in Counting /\ frame'[th].object = frame[th].object
                 \/ /\ Fetch(th) /\ Contains(order["traces"], Trace(th))
                    /\ frame'[th].object = value["traces"][Trace(th)]
                    /\ value["traces"][Trace(th)] # 0
<1>1. frame[th] \in Frames /\ frame[th].cache \in Caches
  BY CallFacts
<1>2. KeysHeld
  BY KeysOnceByKey
<1>3. Stage(th)
  BY DEF Stages
<1> USE DEF Attaching, Counting
<1>4. CASE \E s \in Spans, isPrompt \in BOOLEAN : Call(th, s, isPrompt)
  <2>1. pc'[th] = "lookup"
    BY <1>4, CallMoves
  <2> QED  BY <2>1
<1>5. CASE InCache(th)
  <2>1. ~Fetch(th) => pc'[th] \in Looking \cup {"idle"}
    BY <1>5, CacheMoves DEF InCache, Leaves, Looking
  <2>2. CASE ~Fetch(th)
    BY <2>1, <2>2 DEF Looking
  <2>3. CASE Fetch(th)
    <3>1. CASE ~Contains(Order(th), Key(th))
      <4>1. pc'[th] = "idle"
        BY <2>3, <3>1, CacheMoves DEF Leaves
      <4> QED  BY <4>1
    <3>2. CASE Contains(Order(th), Key(th)) /\ frame[th].cache = "spans"
      <4>1. /\ frame'[th] = [frame[th] EXCEPT !.object = value["spans"][Key(th)]]
            /\ pc'[th] = "extend"
        BY <2>3, <3>2, CacheMoves
      <4>2. Key(th) = Span(th) /\ Order(th) = order["spans"]
        BY <3>2 DEF Key, Order
      <4>3. frame'[th].span = Span(th) /\ frame'[th].object = value["spans"][Span(th)]
        BY <1>1, <4>1, <4>2 DEF Span, Frames
      <4>4. value["spans"][Span(th)] # 0
        BY <1>2, <3>2, <4>2 DEF KeysHeld, Caches
      <4> QED  BY <2>3, <3>2, <4>1, <4>2, <4>3, <4>4
    <3>3. CASE Contains(Order(th), Key(th)) /\ frame[th].cache = "traces"
      <4>1. /\ frame'[th] = [frame[th] EXCEPT !.object = value["traces"][Key(th)]]
            /\ pc'[th] \in {"read", "content"}
        BY <2>3, <3>3, CacheMoves
      <4>2. Key(th) = Trace(th) /\ Order(th) = order["traces"]
        BY <3>3 DEF Key, Order
      <4>3. frame'[th].span = Span(th) /\ frame'[th].object = value["traces"][Trace(th)]
        BY <1>1, <4>1, <4>2 DEF Span, Frames
      <4>4. value["traces"][Trace(th)] # 0
        BY <1>2, <3>3, <4>2 DEF KeysHeld, Caches
      <4> QED  BY <2>3, <3>3, <4>1, <4>2, <4>3, <4>4
    <3> QED  BY <1>1, <3>1, <3>2, <3>3 DEF Caches
  <2> QED  BY <2>2, <2>3
<1>6. CASE InDetectors(th)
  BY <1>1, <1>6, DetectorMoves DEF InDetectors, Leaves, Span, Frames
<1>7. CASE InAttach(th)
  BY <1>1, <1>7, AttachMoves DEF InAttach, Leaves, Span, Frames
<1> QED  BY <1>4, <1>5, <1>6, <1>7 DEF Acts

\* A step gives a span or a trace no object but a new one.
LEMMA ListsOfSteps ==
  ASSUME TypeOK, ObjectsApart, Stages, KeysOnce, NEW th \in Threads, Acts(th),
         NEW s \in Spans, NEW o \in ListsOf(s)'
  PROVE  \/ o \in ListsOf(s)
         \/ /\ InsertKey(th) /\ frame[th].cache = "spans" /\ Span(th) = s
            /\ o = Len(lists) + 1
<1>1. CASE o = value'["spans"][s] /\ o # 0
  <2>1. CASE InsertKey(th) /\ frame[th].cache = "spans" /\ Key(th) = s
    <3>1. o = Len(lists) + 1
      BY <1>1, <2>1, ValueSteps
    <3>2. Span(th) = s
      BY <2>1 DEF Key
    <3> QED  BY <2>1, <3>1, <3>2
  <2>2. CASE ~(InsertKey(th) /\ frame[th].cache = "spans" /\ Key(th) = s)
    <3>1. value'["spans"][s] = value["spans"][s]
      BY <2>2, ValueSteps DEF Caches, CacheKey
    <3> QED  BY <1>1, <3>1 DEF ListsOf
  <2> QED  BY <2>1, <2>2
<1>2. ASSUME NEW u \in Threads, pc'[u] \in Attaching, Span(u)' = s, o = frame'[u].object
      PROVE  o \in ListsOf(s)
  <2>1. CASE u # th
    <3>1. pc'[u] = pc[u] /\ frame'[u] = frame[u]
      BY <2>1, OthersStay
    <3> QED  BY <1>2, <3>1 DEF ListsOf, Span
  <2>2. CASE u = th
    <3>1. Span(th) = s
      BY <1>2, <2>2, Holding DEF Span
    <3>2. CASE pc[th] \in Attaching /\ frame'[th].object = frame[th].object
      BY <1>2, <2>2, <3>1, <3>2 DEF ListsOf
    <3>3. CASE /\ frame'[th].object = value["spans"][Span(th)]
               /\ value["spans"][Span(th)] # 0
      BY <1>2, <2>2, <3>1, <3>3 DEF ListsOf
    <3> QED  BY <1>2, <2>2, <3>2, <3>3, Holding
  <2> QED  BY <2>1, <2>2
<1> QED  BY <1>1, <1>2 DEF ListsOf

LEMMA ScratchesOfSteps ==
  ASSUME TypeOK, ObjectsApart, Stages, KeysOnce, NEW th \in Threads, Acts(th),
         NEW t \in Traces, NEW o \in ScratchesOf(t)'
  PROVE  \/ o \in ScratchesOf(t)
         \/ /\ InsertKey(th) /\ frame[th].cache = "traces" /\ Trace(th) = t
            /\ o = Len(scratch) + 1
<1>1. CASE o = value'["traces"][t] /\ o # 0
  <2>1. CASE InsertKey(th) /\ frame[th].cache = "traces" /\ Key(th) = t
    <3>1. o = Len(scratch) + 1
      BY <1>1, <2>1, ValueSteps
    <3>2. Trace(th) = t
      BY <2>1 DEF Key
    <3> QED  BY <2>1, <3>1, <3>2
  <2>2. CASE ~(InsertKey(th) /\ frame[th].cache = "traces" /\ Key(th) = t)
    <3>1. value'["traces"][t] = value["traces"][t]
      BY <2>2, ValueSteps DEF Caches, CacheKey
    <3> QED  BY <1>1, <3>1 DEF ScratchesOf
  <2> QED  BY <2>1, <2>2
<1>2. ASSUME NEW u \in Threads, pc'[u] \in Counting, Trace(u)' = t, o = frame'[u].object
      PROVE  o \in ScratchesOf(t)
  <2>1. CASE u # th
    <3>1. pc'[u] = pc[u] /\ frame'[u] = frame[u]
      BY <2>1, OthersStay
    <3> QED  BY <1>2, <3>1 DEF ScratchesOf, Trace, Span
  <2>2. CASE u = th
    <3>1. Trace(th) = t
      BY <1>2, <2>2, Holding DEF Trace, Span
    <3>2. CASE pc[th] \in Counting /\ frame'[th].object = frame[th].object
      BY <1>2, <2>2, <3>1, <3>2 DEF ScratchesOf
    <3>3. CASE /\ frame'[th].object = value["traces"][Trace(th)]
               /\ value["traces"][Trace(th)] # 0
      BY <1>2, <2>2, <3>1, <3>3 DEF ScratchesOf
    <3> QED  BY <1>2, <2>2, <3>2, <3>3, Holding
  <2> QED  BY <2>1, <2>2
<1> QED  BY <1>1, <1>2 DEF ScratchesOf

LEMMA ObjectsApartKept ==
  ASSUME TypeOK, ObjectsApart, Stages, KeysOnce, NEW th \in Threads, Acts(th)
  PROVE  ObjectsApart'
<1>1. ASSUME NEW s \in Spans, NEW o \in ListsOf(s)'
      PROVE  o \in DOMAIN lists'
  <2>1. ListsOf(s) \subseteq DOMAIN lists
    BY DEF ObjectsApart
  <2> QED  BY <2>1, ListsOfSteps, ListSteps
<1>2. ASSUME NEW r \in Spans, NEW s \in Spans, r # s, NEW o \in ListsOf(r)', o \in ListsOf(s)'
      PROVE  FALSE
  <2>1. /\ ListsOf(r) \subseteq DOMAIN lists /\ ListsOf(s) \subseteq DOMAIN lists
        /\ ListsOf(r) \cap ListsOf(s) = {}
    BY <1>2 DEF ObjectsApart
  <2>2. Len(lists) + 1 \notin DOMAIN lists
    BY ListSteps
  <2>3. o \in ListsOf(r) \/ (Span(th) = r /\ o = Len(lists) + 1)
    BY <1>2, ListsOfSteps
  <2>4. o \in ListsOf(s) \/ (Span(th) = s /\ o = Len(lists) + 1)
    BY <1>2, ListsOfSteps
  <2> QED  BY <1>2, <2>1, <2>2, <2>3, <2>4
<1>3. ASSUME NEW t \in Traces, NEW o \in ScratchesOf(t)'
      PROVE  o \in DOMAIN scratch'
  <2>1. ScratchesOf(t) \subseteq DOMAIN scratch
    BY DEF ObjectsApart
  <2> QED  BY <2>1, ScratchesOfSteps, ScratchSteps
<1>4. ASSUME NEW t \in Traces, NEW v \in Traces, t # v,
             NEW o \in ScratchesOf(t)', o \in ScratchesOf(v)'
      PROVE  FALSE
  <2>1. /\ ScratchesOf(t) \subseteq DOMAIN scratch /\ ScratchesOf(v) \subseteq DOMAIN scratch
        /\ ScratchesOf(t) \cap ScratchesOf(v) = {}
    BY <1>4 DEF ObjectsApart
  <2>2. Len(scratch) + 1 \notin DOMAIN scratch
    BY ScratchSteps
  <2>3. o \in ScratchesOf(t) \/ (Trace(th) = t /\ o = Len(scratch) + 1)
    BY <1>4, ScratchesOfSteps
  <2>4. o \in ScratchesOf(v) \/ (Trace(th) = v /\ o = Len(scratch) + 1)
    BY <1>4, ScratchesOfSteps
  <2> QED  BY <1>4, <2>1, <2>2, <2>3, <2>4
<1> QED  BY <1>1, <1>2, <1>3, <1>4 DEF ObjectsApart

-----------------------------------------------------------------------------
(* Nothing is invented on a span. *)

\* What a call carries from its detectors on, and what it has measured.
LEMMA LocalsSteps ==
  ASSUME TypeOK, ObjectsApart, Stages, NEW th \in Threads, Acts(th)
  PROVE  /\ frame'[th].cache = "spans" =>
              /\ frame'[th].span = Span(th) /\ frame'[th].findings = Findings(th)
              /\ frame[th].cache = "spans" \/ AddEvents(th)
         /\ \/ frame'[th].count = 0
            \/ /\ frame'[th].span = Span(th)
               /\ \/ frame'[th].count = frame[th].count
                  \/ MeasureCount(th) /\ frame'[th].count = Len(Accumulated(th))
         /\ \/ frame'[th].types = {}
            \/ /\ frame'[th].span = Span(th)
               /\ \/ frame'[th].types = frame[th].types
                  \/ MeasureTypes(th) /\ frame'[th].types = ToSet(Accumulated(th))
<1>1. frame[th] \in Frames /\ Stage(th)
  BY CallFacts DEF Stages
<1>2. /\ NoFrame.cache = "traces" /\ NoFrame.count = 0 /\ NoFrame.types = {}
      /\ \A s \in Spans, isPrompt \in BOOLEAN :
           /\ NewFrame(s, isPrompt).cache = "traces" /\ NewFrame(s, isPrompt).count = 0
           /\ NewFrame(s, isPrompt).types = {}
  BY DEF NoFrame, NewFrame
<1> USE DEF Span, Findings
<1>3. CASE \E s \in Spans, isPrompt \in BOOLEAN : Call(th, s, isPrompt)
  <2>1. PICK s \in Spans, isPrompt \in BOOLEAN : Call(th, s, isPrompt)
    BY <1>3
  <2>2. frame'[th] = NewFrame(s, isPrompt)
    BY <2>1, CallMoves
  <2>3. frame'[th].cache = "traces" /\ frame'[th].count = 0 /\ frame'[th].types = {}
    BY <2>2 DEF NewFrame
  <2> QED  BY <2>3
<1>4. CASE InCache(th)
  BY <1>1, <1>2, <1>4, CacheMoves DEF InCache, Leaves, Frames
<1>5. CASE InDetectors(th)
  <2>1. frame[th].cache = "traces"
    BY <1>1, <1>5, DetectorMoves DEF InDetectors, Stage, Counting
  <2> QED  BY <1>1, <1>2, <1>5, <2>1, DetectorMoves DEF InDetectors, Leaves, Frames
<1>6. CASE InAttach(th)
  <2>1. CASE AddEvents(th)
    BY <1>1, <2>1, AttachMoves DEF Frames
  <2>2. CASE MeasureCount(th) \/ MeasureTypes(th)
    <3>1. frame[th].cache = "spans"
      BY <1>1, <2>2, AttachMoves DEF Stage, Attaching
    <3> QED  BY <1>1, <2>2, <3>1, AttachMoves DEF Frames
  <2>3. CASE ~AddEvents(th) /\ ~MeasureCount(th) /\ ~MeasureTypes(th)
    BY <1>2, <1>6, <2>3, AttachMoves DEF InAttach, Leaves
  <2> QED  BY <2>1, <2>2, <2>3
<1> QED  BY <1>3, <1>4, <1>5, <1>6 DEF Acts

\* The findings of a call that has any are one.
LEMMA OneFinding ==
  ASSUME TypeOK, ObjectsApart, Stages, NEW th \in Threads, AddEvents(th) \/ Extend(th)
  PROVE  Findings(th) \in Seq(Finding) /\ Len(Findings(th)) = 1
<1>1. pc[th] = "event" \/ frame[th].cache = "spans"
  BY AttachMoves DEF Stages, Stage, Attaching
<1>2. Findings(th) \in {<<"budget">>, <<"content">>}
  BY <1>1 DEF Stages, Stage
<1>3. Len(<<"budget">>) = 1 /\ Len(<<"content">>) = 1
  OBVIOUS
<1> QED  BY <1>2, <1>3, CallFacts

\* A call becomes pending with its events and ceases to be with its list.
LEMMA PendingSteps ==
  ASSUME TypeOK, ObjectsApart, Stages, NEW th \in Threads, Acts(th), NEW s \in Spans
  PROVE  LET now == Cardinality(Pending(s))
             then == Cardinality(Pending(s)')
         IN  /\ now \in Nat /\ then \in Nat
             /\ then <= now \/ (AddEvents(th) /\ s = Span(th) /\ then <= now + 1)
             /\ Extend(th) /\ s = Span(th) => then = now - 1
<1> DEFINE now == Pending(s)
           then == Pending(s)'
<1>1. IsFiniteSet(now) /\ IsFiniteSet(then)
  BY ThreadsAssumption, FS_Subset DEF Pending
<1>2. Cardinality(now) \in Nat /\ Cardinality(then) \in Nat
  BY <1>1, FS_CardinalityType
<1>3. now \ {th} = then \ {th}
  BY OthersStay DEF Pending, Span
<1>4. th \in now <=> Span(th) = s /\ frame[th].cache = "spans" /\ pc[th] \in Looking \cup {"extend"}
  BY DEF Pending
<1>5. th \in then <=> /\ frame'[th].span = s /\ frame'[th].cache = "spans"
                      /\ pc'[th] \in Looking \cup {"extend"}
  BY DEF Pending, Span
<1>6. ASSUME th \in then, th \notin now
      PROVE  AddEvents(th) /\ s = Span(th)
  <2>1. /\ Span(th) = s /\ (frame[th].cache = "spans" \/ AddEvents(th))
        /\ pc'[th] \in Looking \cup {"extend"}
    BY <1>5, <1>6, LocalsSteps
  <2>2. CASE ~AddEvents(th)
    <3>1. frame[th].cache = "spans" /\ pc[th] \notin Looking \cup {"extend"}
      BY <1>4, <1>6, <2>1, <2>2
    <3>2. pc[th] \in Attaching \ {"extend"}
      BY <3>1, CallFacts DEF Stages, Stage, Places
    <3>3. ~(\E r \in Spans, isPrompt \in BOOLEAN : Call(th, r, isPrompt))
      BY <3>2, CallMoves DEF Attaching
    <3>4. ~InCache(th)
      BY <3>2, CacheMoves DEF Attaching, InCache
    <3>5. ~InDetectors(th)
      BY <3>2, DetectorMoves DEF Attaching, InDetectors
    <3>6. InAttach(th)
      BY <3>3, <3>4, <3>5 DEF Acts
    <3> QED  BY <2>1, <2>2, <3>2, <3>6, AttachMoves DEF Attaching, InAttach, Leaves, Looking
  <2> QED  BY <2>1, <2>2
<1>7. ASSUME Extend(th), s = Span(th)
      PROVE  th \in now /\ th \notin then
  BY <1>4, <1>5, <1>7, AttachMoves DEF Looking, Attaching, Stages, Stage
<1> HIDE DEF now, then
<1>8. CASE th \in then /\ th \notin now
  <2>1. then = now \cup {th}
    BY <1>3, <1>8
  <2>2. Cardinality(then) = Cardinality(now) + 1
    BY <1>1, <1>8, <2>1, FS_AddElement
  <2> QED  BY <1>2, <1>6, <1>7, <1>8, <2>2 DEF now, then
<1>9. CASE th \notin then /\ th \in now
  <2>1. now = then \cup {th}
    BY <1>3, <1>9
  <2>2. Cardinality(now) = Cardinality(then) + 1
    BY <1>1, <1>9, <2>1, FS_AddElement
  <2>3. Cardinality(then) = Cardinality(now) - 1 /\ Cardinality(then) <= Cardinality(now)
    BY <1>2, <2>2
  <2> QED  BY <1>2, <2>3 DEF now, then
<1>10. CASE th \in then <=> th \in now
  <2>1. then = now
    BY <1>3, <1>10
  <2>2. ~(Extend(th) /\ s = Span(th))
    BY <1>7, <1>10
  <2>3. Cardinality(then) <= Cardinality(now)
    BY <1>2, <2>1
  <2> QED  BY <1>2, <2>2, <2>3 DEF now, then
<1> QED  BY <1>8, <1>9, <1>10

\* Events stay on their span.
LEMMA EventsGrow ==
  ASSUME TypeOK, ObjectsApart, Stages, NEW th \in Threads, Acts(th), NEW s \in Spans
  PROVE  /\ events[s] \in Seq(Finding) /\ events'[s] \in Seq(Finding)
         /\ Len(events[s]) \in Nat /\ Len(events'[s]) \in Nat
         /\ ToSet(events[s]) \subseteq ToSet(events'[s])
         /\ Len(events'[s]) = IF AddEvents(th) /\ s = Span(th) THEN Len(events[s]) + 1
                                                               ELSE Len(events[s])
         /\ AddEvents(th) /\ s = Span(th) => ToSet(Findings(th)) \subseteq ToSet(events'[s])
<1>1. events[s] \in Seq(Finding) /\ events'[s] \in Seq(Finding)
  BY SpanSteps DEF TypeOK, OutputTypes
<1>2. Len(events[s]) \in Nat /\ Len(events'[s]) \in Nat
  BY <1>1, OrderShape
<1>3. CASE AddEvents(th) /\ s = Span(th)
  <2>1. Findings(th) \in Seq(Finding) /\ Len(Findings(th)) = 1
    BY <1>3, OneFinding
  <2>2. events'[s] = events[s] \o Findings(th)
    BY <1>3, SpanSteps
  <2>3. /\ Len(events[s] \o Findings(th)) = Len(events[s]) + Len(Findings(th))
        /\ ToSet(events[s] \o Findings(th)) = ToSet(events[s]) \cup ToSet(Findings(th))
    <3>1. \A a, b \in Seq(Finding) :
            Len(a \o b) = Len(a) + Len(b) /\ ToSet(a \o b) = ToSet(a) \cup ToSet(b)
      BY ConcatElements
    <3> QED  BY <1>1, <2>1, <3>1
  <2> QED  BY <1>1, <1>2, <1>3, <2>1, <2>2, <2>3
<1>4. CASE ~(AddEvents(th) /\ s = Span(th))
  <2>1. events'[s] = events[s]
    BY <1>4, SpanSteps
  <2> QED  BY <1>1, <1>2, <1>4, <2>1
<1> QED  BY <1>3, <1>4

\* A call works on a list of its own span.
LEMMA OwnList ==
  ASSUME TypeOK, ObjectsApart, NEW th \in Threads, pc[th] \in Attaching
  PROVE  /\ Accumulated(th) \in Seq(Finding) /\ Len(Accumulated(th)) \in Nat
         /\ frame[th].object \in ListsOf(Span(th))
         /\ \A s \in Spans : frame[th].object \in ListsOf(s) => s = Span(th)
<1>1. frame[th].object \in ListsOf(Span(th)) \cap DOMAIN lists /\ Span(th) \in Spans
  BY CallFacts
<1>2. lists \in Seq(Seq(Finding))
  BY DEF TypeOK, CacheTypes
<1>3. Accumulated(th) \in Seq(Finding)
  BY <1>1, <1>2, OrderShape DEF Accumulated
<1>4. Len(Accumulated(th)) \in Nat
  BY <1>3, OrderShape
<1>5. \A s \in Spans : frame[th].object \in ListsOf(s) => s = Span(th)
  BY <1>1 DEF ObjectsApart
<1> QED  BY <1>1, <1>3, <1>4, <1>5

LEMMA SpansFollowKept ==
  ASSUME TypeOK, ObjectsApart, Stages, KeysOnce, SpansFollow, NEW th \in Threads, Acts(th)
  PROVE  SpansFollow'
<1>1. ASSUME NEW s \in Spans
      PROVE  /\ Cardinality(Pending(s)) <= Len(events[s])
             /\ \A o \in ListsOf(s) :
                  /\ Len(lists[o]) + Cardinality(Pending(s)) <= Len(events[s])
                  /\ ToSet(lists[o]) \subseteq ToSet(events[s])
             /\ summary[s].count <= Len(events[s])
             /\ summary[s].types \subseteq ToSet(events[s])
  BY DEF SpansFollow
<1>2. ASSUME NEW u \in Threads
      PROVE  /\ frame[u].cache = "spans" => ToSet(Findings(u)) \subseteq ToSet(events[Span(u)])
             /\ frame[u].count <= Len(events[Span(u)])
             /\ frame[u].types \subseteq ToSet(events[Span(u)])
  BY DEF SpansFollow
<1>3. Span(th) \in Spans /\ frame[th].count \in Nat
  BY CallFacts
<1>4. /\ (SetCount(th) \/ SetTypes(th) \/ MeasureCount(th) \/ MeasureTypes(th)) => ~AddEvents(th)
      /\ Extend(th) \/ MeasureCount(th) \/ MeasureTypes(th) => pc[th] \in Attaching
      /\ Extend(th) => ~AddEvents(th) /\ ~InsertKey(th) /\ frame[th].cache = "spans"
      /\ InsertKey(th) => ~AddEvents(th)
  BY AttachMoves, CacheMoves DEF Attaching, Stages, Stage
<1>5. ASSUME NEW s \in Spans
      PROVE  Cardinality(Pending(s)') <= Len(events'[s])
  BY <1>1, PendingSteps, EventsGrow
<1>6. ASSUME NEW s \in Spans, NEW o \in ListsOf(s)'
      PROVE  /\ Len(lists'[o]) + Cardinality(Pending(s)') <= Len(events'[s])
             /\ ToSet(lists'[o]) \subseteq ToSet(events'[s])
  <2> DEFINE now == Cardinality(Pending(s))
             then == Cardinality(Pending(s)')
  <2>1. /\ now \in Nat /\ then \in Nat
        /\ then <= now \/ (AddEvents(th) /\ s = Span(th) /\ then <= now + 1)
        /\ Extend(th) /\ s = Span(th) => then = now - 1
    BY PendingSteps
  <2>2. /\ Len(events[s]) \in Nat /\ Len(events'[s]) \in Nat
        /\ ToSet(events[s]) \subseteq ToSet(events'[s])
        /\ Len(events'[s]) = IF AddEvents(th) /\ s = Span(th) THEN Len(events[s]) + 1
                                                              ELSE Len(events[s])
    BY EventsGrow
  <2>3. \/ o \in ListsOf(s)
        \/ InsertKey(th) /\ frame[th].cache = "spans" /\ Span(th) = s /\ o = Len(lists) + 1
    BY ListsOfSteps
  <2> HIDE DEF now, then
  <2>4. CASE o \in ListsOf(s) /\ ~(Extend(th) /\ o = frame[th].object)
    <3>1. o \in DOMAIN lists /\ lists \in Seq(Seq(Finding))
      BY <2>4 DEF ObjectsApart, TypeOK, CacheTypes
    <3>2. lists'[o] = lists[o]
      BY <2>4, <3>1, ListSteps
    <3>3. Len(lists[o]) \in Nat
      <4>1. lists[o] \in Seq(Finding)
        BY <3>1, OrderShape
      <4> QED  BY <4>1, OrderShape
    <3>4. Len(lists[o]) + now <= Len(events[s]) /\ ToSet(lists[o]) \subseteq ToSet(events[s])
      BY <1>1, <2>4 DEF now
    <3>5. Len(lists[o]) + then <= Len(events'[s])
      BY <2>1, <2>2, <3>3, <3>4
    <3> QED  BY <2>2, <3>2, <3>4, <3>5 DEF then
  <2>5. CASE Extend(th) /\ o = frame[th].object
    <3>1. /\ o \in ListsOf(Span(th)) /\ Accumulated(th) \in Seq(Finding)
          /\ Len(Accumulated(th)) \in Nat
      BY <1>4, <2>5, OwnList
    <3>2. s = Span(th)
      <4>1. o \in ListsOf(s)
        BY <1>4, <2>3, <2>5
      <4> QED  BY <1>4, <2>5, <4>1, OwnList
    <3>3. Findings(th) \in Seq(Finding) /\ Len(Findings(th)) = 1
      BY <2>5, OneFinding
    <3>4. lists'[o] = Accumulated(th) \o Findings(th)
      BY <2>5, ListSteps
    <3>5. /\ Len(lists'[o]) = Len(Accumulated(th)) + 1
          /\ ToSet(lists'[o]) = ToSet(Accumulated(th)) \cup ToSet(Findings(th))
      <4>1. /\ Len(Accumulated(th) \o Findings(th)) = Len(Accumulated(th)) + Len(Findings(th))
            /\ ToSet(Accumulated(th) \o Findings(th)) =
                 ToSet(Accumulated(th)) \cup ToSet(Findings(th))
        <5>1. \A a, b \in Seq(Finding) :
                Len(a \o b) = Len(a) + Len(b) /\ ToSet(a \o b) = ToSet(a) \cup ToSet(b)
          BY ConcatElements
        <5> QED  BY <3>1, <3>3, <5>1
      <4> QED  BY <3>3, <3>4, <4>1
    <3>6. /\ Len(Accumulated(th)) + now <= Len(events[s])
          /\ ToSet(Accumulated(th)) \subseteq ToSet(events[s])
      BY <1>1, <2>5, <3>1, <3>2 DEF now, Accumulated
    <3>7. ToSet(Findings(th)) \subseteq ToSet(events[s])
      BY <1>2, <1>4, <2>5, <3>2
    <3>8. Len(lists'[o]) + then <= Len(events'[s])
      BY <1>4, <2>1, <2>2, <2>5, <3>1, <3>2, <3>5, <3>6
    <3> QED  BY <2>2, <3>5, <3>6, <3>7, <3>8 DEF then
  <2>6. CASE InsertKey(th) /\ frame[th].cache = "spans" /\ Span(th) = s /\ o = Len(lists) + 1
    <3>1. lists'[o] = <<>>
      BY <2>6, ListSteps
    <3>2. Len(<<>>) = 0 /\ ToSet(<<>>) = {}
      BY DEF ToSet
    <3>3. now <= Len(events[s])
      BY <1>1 DEF now
    <3>4. Len(lists'[o]) + then <= Len(events'[s])
      BY <1>4, <2>1, <2>2, <2>6, <3>1, <3>2, <3>3
    <3> QED  BY <3>1, <3>2, <3>4 DEF then
  <2> QED  BY <2>3, <2>4, <2>5, <2>6
<1>7. ASSUME NEW s \in Spans
      PROVE  /\ summary'[s].count <= Len(events'[s])
             /\ summary'[s].types \subseteq ToSet(events'[s])
  <2>1. summary[s] \in Summaries
    BY DEF TypeOK, OutputTypes, Summaries
  <2>2. /\ Len(events[s]) \in Nat /\ Len(events'[s]) \in Nat
        /\ ToSet(events[s]) \subseteq ToSet(events'[s])
        /\ Len(events[s]) <= Len(events'[s])
    <3>1. Len(events[s]) \in Nat => Len(events[s]) <= Len(events[s]) + 1 /\ Len(events[s]) <= Len(events[s])
      OBVIOUS
    <3> QED  BY <3>1, EventsGrow
  <2>3. CASE summary'[s] = summary[s]
    BY <1>1, <2>1, <2>2, <2>3 DEF Summaries
  <2>4. CASE /\ s = Span(th) /\ SetCount(th)
             /\ summary'[s] = [summary[s] EXCEPT !.count = frame[th].count]
    <3>1. summary'[s].count = frame[th].count /\ summary'[s].types = summary[s].types
      BY <2>1, <2>4 DEF Summaries
    <3>2. frame[th].count <= Len(events[s])
      BY <1>2, <2>4
    <3> QED  BY <1>1, <1>3, <2>2, <3>1, <3>2
  <2>5. CASE /\ s = Span(th) /\ SetTypes(th)
             /\ summary'[s] = [summary[s] EXCEPT !.types = frame[th].types]
    <3>1. summary'[s].types = frame[th].types /\ summary'[s].count = summary[s].count
      BY <2>1, <2>5 DEF Summaries
    <3>2. frame[th].types \subseteq ToSet(events[s])
      BY <1>2, <2>5
    <3>3. summary[s].count \in Nat
      BY <2>1 DEF Summaries
    <3> QED  BY <1>1, <2>2, <3>1, <3>2, <3>3
  <2> QED  BY <2>3, <2>4, <2>5, SpanSteps
<1>8. ASSUME NEW u \in Threads
      PROVE  /\ frame'[u].cache = "spans" =>
                  ToSet(frame'[u].findings) \subseteq ToSet(events'[frame'[u].span])
             /\ frame'[u].count <= Len(events'[frame'[u].span])
             /\ frame'[u].types \subseteq ToSet(events'[frame'[u].span])
  <2> DEFINE s == frame'[u].span
  <2>1. s \in Spans
    <3>1. TypeOK'
      BY TypesKept
    <3> QED  BY <3>1 DEF TypeOK, CallTypes, Frames
  <2>2. /\ Len(events[s]) \in Nat /\ Len(events'[s]) \in Nat
        /\ ToSet(events[s]) \subseteq ToSet(events'[s])
        /\ Len(events[s]) <= Len(events'[s])
    <3>1. Len(events[s]) \in Nat => Len(events[s]) <= Len(events[s]) + 1 /\ Len(events[s]) <= Len(events[s])
      OBVIOUS
    <3> QED  BY <2>1, <3>1, EventsGrow
  <2>3. CASE u # th
    <3>1. frame'[u] = frame[u]
      BY <2>3, OthersStay
    <3>2. Span(u) = s /\ Findings(u) = frame'[u].findings
      BY <3>1 DEF Span, Findings
    <3>3. frame[u].count \in Nat
      BY CallFacts
    <3> HIDE DEF s
    <3>4. frame'[u].count <= Len(events'[s])
      BY <1>2, <2>2, <3>1, <3>2, <3>3
    <3> QED  BY <1>2, <2>2, <3>1, <3>2, <3>4 DEF s
  <2>4. CASE u = th
    <3>1. frame'[th].cache = "spans" => ToSet(frame'[th].findings) \subseteq ToSet(events'[s])
      <4> SUFFICES ASSUME frame'[th].cache = "spans"
                   PROVE  ToSet(Findings(th)) \subseteq ToSet(events'[Span(th)])
        BY <2>4, LocalsSteps
      <4>1. CASE AddEvents(th)
        BY <1>3, <4>1, EventsGrow
      <4>2. CASE frame[th].cache = "spans"
        <5>1. ToSet(Findings(th)) \subseteq ToSet(events[Span(th)])
          BY <1>2, <4>2
        <5>2. ToSet(events[Span(th)]) \subseteq ToSet(events'[Span(th)])
          BY <1>3, EventsGrow
        <5> QED  BY <5>1, <5>2
      <4> QED  BY <4>1, <4>2, LocalsSteps
    <3>2. frame'[th].count <= Len(events'[s])
      <4>1. CASE frame'[th].count = 0
        BY <2>2, <4>1
      <4>2. CASE s = Span(th) /\ frame'[th].count = frame[th].count
        BY <1>2, <1>3, <2>2, <4>2
      <4>3. CASE s = Span(th) /\ MeasureCount(th) /\ frame'[th].count = Len(Accumulated(th))
        <5>1. /\ frame[th].object \in ListsOf(s) /\ Len(Accumulated(th)) \in Nat
              /\ Cardinality(Pending(s)) \in Nat
          BY <1>3, <1>4, <4>3, OwnList, PendingSteps
        <5>2. Len(Accumulated(th)) + Cardinality(Pending(s)) <= Len(events[s])
          BY <1>1, <2>1, <5>1 DEF Accumulated
        <5> HIDE DEF s
        <5> QED  BY <2>2, <4>3, <5>1, <5>2
      <4> QED  BY <2>4, <4>1, <4>2, <4>3, LocalsSteps
    <3>3. frame'[th].types \subseteq ToSet(events'[s])
      <4>1. CASE frame'[th].types = {}
        BY <4>1
      <4>2. CASE s = Span(th) /\ frame'[th].types = frame[th].types
        BY <1>2, <2>2, <4>2
      <4>3. CASE s = Span(th) /\ MeasureTypes(th) /\ frame'[th].types = ToSet(Accumulated(th))
        <5>1. frame[th].object \in ListsOf(s)
          BY <1>4, <4>3, OwnList
        <5>2. ToSet(Accumulated(th)) \subseteq ToSet(events[s])
          BY <1>1, <2>1, <5>1 DEF Accumulated
        <5> QED  BY <2>2, <4>3, <5>2
      <4> QED  BY <2>4, <4>1, <4>2, <4>3, LocalsSteps
    <3> QED  BY <2>4, <3>1, <3>2, <3>3
  <2> QED  BY <2>3, <2>4
<1> QED  BY <1>5, <1>6, <1>7, <1>8 DEF SpansFollow, Span, Findings

-----------------------------------------------------------------------------
(* Nothing is invented for a trace. *)

\* How a call comes to know of the budget.
LEMMA BudgetSteps ==
  ASSUME TypeOK, ObjectsApart, NEW th \in Threads, Acts(th)
  PROVE  /\ pc'[th] = "write" =>
              /\ frame'[th].span = Span(th) /\ ReadCalls(th)
              /\ frame'[th].calls = Scratch(th).llm_calls
         /\ pc'[th] \in {"flagged", "mark"} =>
              /\ frame'[th].span = Span(th) /\ frame'[th].findings = Findings(th)
              /\ \/ pc[th] = "flagged"
                 \/ pc[th] = "budget" /\ Scratch(th).llm_calls > CallBudget
         /\ frame'[th].findings = <<"budget">> =>
              /\ frame'[th].span = Span(th)
              /\ Findings(th) = <<"budget">> \/ (Mark(th) /\ pc[th] = "mark")
<1>1. frame[th] \in Frames
  BY CallFacts
<1>2. NoFrame.findings = <<>> /\ <<"budget">> # <<>>
  BY DEF NoFrame, NewFrame
<1> USE DEF Span, Findings
<1>3. CASE \E s \in Spans, isPrompt \in BOOLEAN : Call(th, s, isPrompt)
  <2>1. pc'[th] = "lookup" /\ frame'[th].findings = <<>>
    BY <1>3, CallMoves
  <2> QED  BY <1>2, <2>1
<1>4. CASE InCache(th)
  BY <1>1, <1>2, <1>4, CacheMoves DEF InCache, Leaves, Frames
<1>5. CASE InDetectors(th)
  <2>1. <<"content">> # <<"budget">>
    OBVIOUS
  <2> QED  BY <1>1, <1>2, <1>5, <2>1, DetectorMoves DEF InDetectors, Leaves, Frames
<1>6. CASE InAttach(th)
  BY <1>1, <1>2, <1>6, AttachMoves DEF InAttach, Leaves, Frames
<1> QED  BY <1>3, <1>4, <1>5, <1>6 DEF Acts

\* A call counts on a scratch of its own trace.
LEMMA OwnScratch ==
  ASSUME TypeOK, ObjectsApart, NEW th \in Threads, pc[th] \in Counting
  PROVE  /\ Scratch(th) \in Scratches
         /\ frame[th].object \in ScratchesOf(Trace(th))
         /\ \A t \in Traces : frame[th].object \in ScratchesOf(t) => t = Trace(th)
<1>1. frame[th].object \in ScratchesOf(Trace(th)) \cap DOMAIN scratch /\ Trace(th) \in Traces
  BY CallFacts
<1>2. scratch \in Seq(Scratches)
  BY DEF TypeOK, CacheTypes, Scratches
<1>3. Scratch(th) \in Scratches
  BY <1>1, <1>2, OrderShape DEF Scratch
<1> QED  BY <1>1, <1>3 DEF ObjectsApart

LEMMA TracesFollowKept ==
  ASSUME TypeOK, ObjectsApart, Stages, KeysOnce, TracesFollow, NEW th \in Threads, Acts(th)
  PROVE  TracesFollow'
<1>1. /\ \A t \in Traces : /\ \A o \in ScratchesOf(t) : scratch[o].llm_calls <= prompts[t]
                           /\ alarms[t] > 0 => prompts[t] > CallBudget
      /\ \A u \in Threads :
           /\ pc[u] = "write" => frame[u].calls <= prompts[Trace(u)]
           /\ pc[u] \in {"flagged", "mark"} \/ Findings(u) = <<"budget">> =>
                prompts[Trace(u)] > CallBudget
  BY DEF TracesFollow
<1>2. Trace(th) \in Traces /\ frame[th].calls \in Nat /\ CallBudget \in Nat
  BY CallFacts, ThreadsAssumption
<1>3. ASSUME NEW t \in Traces
      PROVE  /\ prompts[t] \in Nat /\ prompts'[t] \in Nat /\ prompts[t] <= prompts'[t]
             /\ WriteCalls(th) /\ t = Trace(th) => prompts'[t] = prompts[t] + 1
             /\ alarms[t] \in Nat
  <2>1. prompts[t] \in Nat /\ alarms[t] \in Nat
    BY DEF TypeOK, OutputTypes
  <2> QED  BY <2>1, TraceSteps
<1>4. ASSUME NEW t \in Traces, NEW o \in ScratchesOf(t)'
      PROVE  scratch'[o].llm_calls <= prompts'[t]
  <2>1. \/ o \in ScratchesOf(t)
        \/ /\ InsertKey(th) /\ frame[th].cache = "traces" /\ Trace(th) = t
           /\ o = Len(scratch) + 1
    BY ScratchesOfSteps
  <2>2. CASE /\ InsertKey(th) /\ frame[th].cache = "traces"
             /\ o = Len(scratch) + 1
    <3>1. scratch'[o] = [llm_calls |-> 0, flagged |-> FALSE]
      BY <2>2, ScratchSteps
    <3> QED  BY <1>3, <3>1
  <2>3. CASE o \in ScratchesOf(t)
    <3>1. o \in DOMAIN scratch /\ scratch \in Seq(Scratches)
      BY <2>3 DEF ObjectsApart, TypeOK, CacheTypes, Scratches
    <3>2. scratch[o] \in Scratches
      BY <3>1, OrderShape
    <3>3. scratch[o].llm_calls \in Nat /\ scratch[o].llm_calls <= prompts[t]
      BY <1>1, <2>3, <3>2 DEF Scratches
    <3>4. CASE scratch'[o] = scratch[o]
      BY <1>3, <3>3, <3>4
    <3>5. CASE Mark(th) /\ o = frame[th].object
      <4>1. scratch'[o] = [scratch[o] EXCEPT !.flagged = TRUE]
        BY <3>5, ScratchSteps DEF Scratch
      <4>2. scratch'[o].llm_calls = scratch[o].llm_calls
        BY <3>2, <4>1 DEF Scratches
      <4> QED  BY <1>3, <3>3, <4>2
    <3>6. CASE WriteCalls(th) /\ o = frame[th].object
      <4>1. scratch'[o] = [scratch[o] EXCEPT !.llm_calls = frame[th].calls + 1]
        BY <3>6, ScratchSteps DEF Scratch
      <4>2. scratch'[o].llm_calls = frame[th].calls + 1
        BY <3>2, <4>1 DEF Scratches
      <4>3. pc[th] = "write"
        BY <3>6, DetectorMoves
      <4>4. t = Trace(th)
        BY <2>3, <3>6, <4>3, OwnScratch DEF Counting
      <4>5. frame[th].calls <= prompts[t]
        BY <1>1, <4>3, <4>4
      <4>6. prompts'[t] = prompts[t] + 1
        BY <1>3, <3>6, <4>4
      <4> QED  BY <1>2, <1>3, <4>2, <4>5, <4>6
    <3> QED  BY <3>1, <3>4, <3>5, <3>6, ScratchSteps
  <2> QED  BY <2>1, <2>2, <2>3
<1>5. ASSUME NEW t \in Traces, alarms'[t] > 0
      PROVE  prompts'[t] > CallBudget
  <2>1. CASE alarms'[t] = alarms[t]
    BY <1>1, <1>2, <1>3, <1>5, <2>1
  <2>2. CASE alarms'[t] # alarms[t]
    <3>1. Alert(th) /\ t = Trace(th) /\ "budget" \in ToSet(Findings(th))
      BY <2>2, TraceSteps
    <3>2. frame[th].cache = "spans"
      BY <3>1, AttachMoves DEF Stages, Stage, Attaching
    <3>3. Findings(th) \in {<<"budget">>, <<"content">>}
      BY <3>2 DEF Stages, Stage
    <3>4. ToSet(<<"content">>) = {"content"}
      BY DEF ToSet
    <3>5. Findings(th) = <<"budget">>
      BY <3>1, <3>3, <3>4
    <3> QED  BY <1>1, <1>2, <1>3, <3>1, <3>5
  <2> QED  BY <2>1, <2>2
<1>6. ASSUME NEW u \in Threads, pc'[u] = "write"
      PROVE  frame'[u].calls <= prompts'[Trace(u)']
  <2>1. CASE u # th
    <3>1. pc'[u] = pc[u] /\ frame'[u] = frame[u] /\ Trace(u)' = Trace(u)
      BY <2>1, OthersStay DEF Trace, Span
    <3>2. Trace(u) \in Traces /\ frame[u].calls \in Nat
      BY CallFacts
    <3>3. frame[u].calls <= prompts[Trace(u)]
      BY <1>1, <1>6, <3>1
    <3>4. prompts[Trace(u)] \in Nat /\ prompts'[Trace(u)] \in Nat
          /\ prompts[Trace(u)] <= prompts'[Trace(u)]
      BY <1>3, <3>2
    <3> QED  BY <3>1, <3>2, <3>3, <3>4
  <2>2. CASE u = th
    <3>1. /\ Trace(th)' = Trace(th) /\ ReadCalls(th)
          /\ frame'[th].calls = Scratch(th).llm_calls
      BY <1>6, <2>2, BudgetSteps DEF Trace, Span
    <3>2. Scratch(th) \in Scratches /\ frame[th].object \in ScratchesOf(Trace(th))
      BY <3>1, OwnScratch, DetectorMoves DEF Counting
    <3>3. Scratch(th).llm_calls <= prompts[Trace(th)] /\ Scratch(th).llm_calls \in Nat
      BY <1>1, <1>2, <3>2 DEF Scratch, Scratches
    <3>4. /\ prompts[Trace(th)] \in Nat /\ prompts'[Trace(th)] \in Nat
          /\ prompts[Trace(th)] <= prompts'[Trace(th)]
      BY <1>2, <1>3
    <3> QED  BY <2>2, <3>1, <3>3, <3>4
  <2> QED  BY <2>1, <2>2
<1>7. ASSUME NEW u \in Threads, pc'[u] \in {"flagged", "mark"} \/ frame'[u].findings = <<"budget">>
      PROVE  prompts'[Trace(u)'] > CallBudget
  <2>1. CASE u # th
    <3>1. pc'[u] = pc[u] /\ frame'[u] = frame[u] /\ Trace(u)' = Trace(u)
      BY <2>1, OthersStay DEF Trace, Span
    <3>2. Trace(u) \in Traces
      BY CallFacts
    <3>3. prompts[Trace(u)] > CallBudget
      BY <1>1, <1>7, <3>1 DEF Findings
    <3> QED  BY <1>2, <1>3, <3>1, <3>2, <3>3
  <2>2. CASE u = th
    <3>1. Trace(th)' = Trace(th)
      BY <1>7, <2>2, BudgetSteps DEF Trace, Span
    <3>2. CASE pc[th] \in {"flagged", "mark"} \/ Findings(th) = <<"budget">>
      <4>1. prompts[Trace(th)] > CallBudget
        BY <1>1, <3>2
      <4> QED  BY <1>2, <1>3, <2>2, <3>1, <4>1
    <3>3. CASE ~(pc[th] \in {"flagged", "mark"} \/ Findings(th) = <<"budget">>)
      <4>1. pc[th] = "budget" /\ Scratch(th).llm_calls > CallBudget
        BY <1>7, <2>2, <3>3, BudgetSteps
      <4>2. Scratch(th) \in Scratches /\ frame[th].object \in ScratchesOf(Trace(th))
        BY <4>1, OwnScratch DEF Counting
      <4>3. Scratch(th).llm_calls <= prompts[Trace(th)] /\ Scratch(th).llm_calls \in Nat
        BY <1>1, <1>2, <4>2 DEF Scratch, Scratches
      <4> QED  BY <1>2, <1>3, <2>2, <3>1, <4>1, <4>3
    <3> QED  BY <3>2, <3>3
  <2> QED  BY <2>1, <2>2
<1> QED  BY <1>4, <1>5, <1>6, <1>7 DEF TracesFollow, Findings

-----------------------------------------------------------------------------
(* Calls that do not overlap. *)

\* A call stays on its span until it ends.
LEMMA SpanStays ==
  ASSUME TypeOK, ObjectsApart, NEW th \in Threads, Acts(th)
  PROVE  /\ pc[th] # "idle" => Leaves(th) \/ (pc'[th] # "idle" /\ frame'[th].span = Span(th))
         /\ pc[th] # "idle" => raced' = raced
         /\ pc[th] = "idle" => \E s \in Spans, isPrompt \in BOOLEAN : Call(th, s, isPrompt)
<1>1. frame[th] \in Frames
  BY CallFacts
<1>2. CASE \E s \in Spans, isPrompt \in BOOLEAN : Call(th, s, isPrompt)
  BY <1>2, CallMoves
<1>3. CASE InCache(th)
  <2>1. raced' = raced
    BY <1>3 DEF InCache, LookUp, InsertKey, CheckCap, PopOldest, Renew, Fetch, ghosts
  <2> QED  BY <1>1, <1>3, <2>1, CacheMoves DEF InCache, Leaves, Frames, Span
<1>4. CASE InDetectors(th)
  <2>1. raced' = raced
    BY <1>4 DEF InDetectors, ReadCalls, WriteCalls, CheckBudget, CheckFlagged, Mark, ScanContent,
                ghosts
  <2> QED  BY <1>1, <1>4, <2>1, DetectorMoves DEF InDetectors, Leaves, Frames, Span
<1>5. CASE InAttach(th)
  <2>1. raced' = raced
    BY <1>5 DEF InAttach, AddEvents, Extend, MeasureCount, MeasureTypes, SetCount, SetTypes,
                Alert, ghosts
  <2> QED  BY <1>1, <1>5, <2>1, AttachMoves DEF InAttach, Leaves, Frames, Span
<1> QED  BY <1>2, <1>3, <1>4, <1>5 DEF Acts

\* A call that begins races with those it finds on its span or its trace.
LEMMA RacedByCall ==
  ASSUME TypeOK, ObjectsApart, NEW th \in Threads, Acts(th), pc[th] = "idle",
         NEW o \in Threads, o # th, pc[o] # "idle"
  PROVE  /\ raced \subseteq raced'
         /\ frame'[th].span = Span(o) => Span(o) \in raced'
         /\ TraceOf[frame'[th].span] = Trace(o) => Trace(o) \in raced'
<1>1. PICK s \in Spans, isPrompt \in BOOLEAN : Call(th, s, isPrompt)
  BY SpanStays
<1>2. frame'[th].span = s
  BY <1>1, CallMoves
<1>3. raced' = raced \cup ({s} \cap {Span(v) : v \in Others(th)})
                     \cup ({TraceOf[s]} \cap {Trace(v) : v \in Others(th)})
  BY <1>1 DEF Call
<1>4. o \in Others(th)
  BY DEF Others
<1> QED  BY <1>2, <1>3, <1>4

LEMMA RacedGrows ==
  ASSUME TypeOK, ObjectsApart, NEW th \in Threads, Acts(th)
  PROVE  raced \subseteq raced'
<1>1. CASE pc[th] # "idle"
  BY <1>1, SpanStays
<1>2. CASE pc[th] = "idle"
  <2>1. PICK s \in Spans, isPrompt \in BOOLEAN : Call(th, s, isPrompt)
    BY <1>2, SpanStays
  <2> QED  BY <2>1 DEF Call
<1> QED  BY <1>1, <1>2

LEMMA OneAtATimeKept ==
  ASSUME TypeOK, ObjectsApart, OneAtATime, NEW th \in Threads, Acts(th)
  PROVE  OneAtATime'
<1> SUFFICES ASSUME NEW u \in Threads, NEW o \in Threads, u # o,
                    pc'[u] # "idle", pc'[o] # "idle"
             PROVE  /\ frame'[u].span = frame'[o].span => frame'[u].span \in raced'
                    /\ TraceOf[frame'[u].span] = TraceOf[frame'[o].span] =>
                         TraceOf[frame'[u].span] \in raced'
  BY DEF OneAtATime, Span, Trace
<1>1. raced \subseteq raced'
  BY RacedGrows
<1>2. \A v \in Threads \ {th} : pc'[v] = pc[v] /\ frame'[v] = frame[v]
  BY OthersStay
<1>3. \A v, w \in Threads : v # w /\ pc[v] # "idle" /\ pc[w] # "idle" =>
        /\ Span(v) = Span(w) => Span(v) \in raced
        /\ Trace(v) = Trace(w) => Trace(v) \in raced
  BY DEF OneAtATime
<1>4. CASE pc[th] # "idle"
  <2>1. pc'[th] # "idle" => frame'[th].span = Span(th)
    BY <1>4, SpanStays DEF Leaves
  <2>2. pc[u] # "idle" /\ pc[o] # "idle" /\ frame'[u].span = Span(u) /\ frame'[o].span = Span(o)
    BY <1>2, <1>4, <2>1 DEF Span
  <2> QED  BY <1>1, <1>3, <2>2 DEF Trace
<1>5. CASE pc[th] = "idle"
  <2>1. CASE u # th /\ o # th
    BY <1>1, <1>2, <1>3, <2>1 DEF Trace, Span
  <2>2. CASE u = th
    <3>1. pc[o] # "idle" /\ frame'[o].span = Span(o)
      BY <1>2, <2>2 DEF Span
    <3> QED  BY <1>5, <2>2, <3>1, RacedByCall DEF Trace
  <2>3. CASE o = th
    <3>1. pc[u] # "idle" /\ frame'[u].span = Span(u)
      BY <1>2, <2>3 DEF Span
    <3> QED  BY <1>5, <2>3, <3>1, RacedByCall DEF Trace
  <2> QED  BY <2>1, <2>2, <2>3
<1> QED  BY <1>4, <1>5

-----------------------------------------------------------------------------
(* A span whose calls do not overlap. *)

\* What a cache has for a span, unless the span's own call inserts or extends it.
LEMMA KeptListStays ==
  ASSUME TypeOK, ObjectsApart, KeysOnce, Stages, NEW th \in Threads, Acts(th), NEW s \in Spans,
         ~(PopOldest(th) /\ frame[th].cache = "spans"),
         Span(th) = s => ~Extend(th) /\ ~(InsertKey(th) /\ frame[th].cache = "spans")
  PROVE  /\ Contains(order'["spans"], s) <=> Contains(order["spans"], s)
         /\ value'["spans"][s] = value["spans"][s]
         /\ KeptList(s)' = KeptList(s)
<1>1. frame[th].cache = "spans" => Key(th) = Span(th)
  BY DEF Key
<1>2. Contains(order'["spans"], s) <=> Contains(order["spans"], s)
  BY <1>1, OrderSteps DEF Caches
<1>3. value'["spans"][s] = value["spans"][s]
  BY <1>1, ValueSteps DEF Caches, CacheKey
<1>4. CASE ~Contains(order["spans"], s)
  BY <1>2, <1>3, <1>4 DEF KeptList
<1>5. CASE Contains(order["spans"], s)
  <2> DEFINE o == value["spans"][s]
  <2>1. o # 0
    BY <1>5, KeysOnceByKey DEF KeysHeld, Caches
  <2>2. o \in ListsOf(s) /\ o \in DOMAIN lists
    BY <2>1 DEF ListsOf, ObjectsApart
  <2>3. ~(Extend(th) /\ o = frame[th].object)
    <3>1. Extend(th) => pc[th] \in Attaching
      BY AttachMoves DEF Attaching
    <3> QED  BY <2>2, <3>1, OwnList
  <2>4. lists'[o] = lists[o]
    BY <2>2, <2>3, ListSteps
  <2> QED  BY <1>2, <1>3, <1>5, <2>4 DEF KeptList
<1> QED  BY <1>4, <1>5

\* What SpansExact says of one span.
SpanExact(s) ==
  /\ (\A th \in Threads : Span(th) = s => frame[th].cache = "traces") =>
       KeptList(s) = events[s] /\ summary[s] = ExactSummary(s)
  /\ \A th \in Threads : Span(th) = s /\ frame[th].cache = "spans" => SpanStage(th)

\* A step of a call that is not about the span.
LEMMA SpanExactElsewhere ==
  ASSUME TypeOK, ObjectsApart, KeysOnce, Stages, NEW th \in Threads, Acts(th), NEW s \in Spans,
         ~(PopOldest(th) /\ frame[th].cache = "spans"),
         ~(Span(th) = s /\ (frame[th].cache = "spans" \/ AddEvents(th))),
         SpanExact(s)
  PROVE  SpanExact(s)'
<1>1. Extend(th) \/ SetCount(th) \/ SetTypes(th) => frame[th].cache = "spans"
  BY AttachMoves DEF Stages, Stage, Attaching
<1>2. /\ Contains(order'["spans"], s) <=> Contains(order["spans"], s)
      /\ value'["spans"][s] = value["spans"][s]
      /\ KeptList(s)' = KeptList(s)
  BY <1>1, KeptListStays
<1>3. events'[s] = events[s] /\ summary'[s] = summary[s]
  BY <1>1, SpanSteps
<1>4. ~(frame'[th].span = s /\ frame'[th].cache = "spans")
  BY LocalsSteps
<1>5. frame'[th].cache \in {"traces", "spans"} /\ frame[th].cache \in {"traces", "spans"}
  BY OwnCall, CallFacts DEF Frames, Caches
<1>6. \A u \in Threads \ {th} : pc'[u] = pc[u] /\ frame'[u] = frame[u]
  BY OthersStay
<1>7. ASSUME \A u \in Threads : Span(u)' = s => frame'[u].cache = "traces"
      PROVE  KeptList(s)' = events'[s] /\ summary'[s] = ExactSummary(s)'
  <2>1. \A u \in Threads : Span(u) = s => frame[u].cache = "traces"
    BY <1>5, <1>6, <1>7 DEF Span
  <2> QED  BY <1>2, <1>3, <2>1 DEF SpanExact, ExactSummary
<1>8. ASSUME NEW u \in Threads, Span(u)' = s, frame'[u].cache = "spans"
      PROVE  SpanStage(u)'
  <2>1. u # th
    BY <1>4, <1>8 DEF Span
  <2>2. pc'[u] = pc[u] /\ frame'[u] = frame[u] /\ Span(u) = s /\ Span(u)' = s
    BY <1>6, <1>8, <2>1 DEF Span
  <2>3. SpanStage(u)
    BY <1>8, <2>2 DEF SpanExact
  <2> QED  BY <1>2, <1>3, <2>2, <2>3 DEF SpanStage, ExactSummary, Findings
<1> QED  BY <1>7, <1>8 DEF SpanExact

\* A step of the only call on the span.
LEMMA SpanExactHere ==
  ASSUME TypeOK, ObjectsApart, KeysOnce, NothingEvicted, Stages, Room("spans"),
         NEW th \in Threads, Acts(th), NEW s \in Spans,
         Span(th) = s, frame[th].cache = "spans" \/ AddEvents(th),
         \A u \in Threads \ {th} : Span(u) = s => pc[u] = "idle",
         SpanExact(s)
  PROVE  SpanExact(s)'
<1>1. frame[th] \in Frames /\ Stage(th) /\ frame[th].cache \in {"traces", "spans"}
  BY CallFacts DEF Stages, Caches
<1>2. \A u \in Threads \ {th} : Span(u)' = s => frame'[u].cache = "traces"
  BY OthersStay DEF Span, Stages, Stage
<1>3. \A u \in Threads \ {th} : Span(u) = s => frame[u].cache = "traces"
  BY DEF Stages, Stage
<1>4. AddEvents(th) => frame[th].cache = "traces"
  BY <1>1, AttachMoves DEF Stage
<1>5. /\ events[s] \in Seq(Finding) /\ summary[s] \in Summaries /\ Findings(th) \in Seq(Finding)
      /\ lists \in Seq(Seq(Finding))
  BY CallFacts DEF TypeOK, OutputTypes, CacheTypes, Summaries
<1>6. CASE AddEvents(th)
  <2>1. KeptList(s) = events[s] /\ summary[s] = ExactSummary(s)
    BY <1>1, <1>3, <1>4, <1>6 DEF SpanExact
  <2>2. /\ pc'[th] = "lookup" /\ frame'[th].cache = "spans" /\ frame'[th].span = s
        /\ frame'[th].findings = Findings(th)
    <3>1. pc'[th] = "lookup" /\ frame'[th] = [frame[th] EXCEPT !.cache = "spans"]
      BY <1>6, AttachMoves
    <3> QED  BY <1>1, <3>1 DEF Frames, Span, Findings
  <2>3. KeptList(s)' = KeptList(s)
    <3>1. ~Extend(th) /\ ~InsertKey(th) /\ ~PopOldest(th)
      BY <1>6, AttachMoves, CacheMoves
    <3> QED  BY <3>1, KeptListStays
  <2>4. events'[s] = events[s] \o Findings(th)
    BY <1>6, SpanSteps
  <2>5. SpanStage(th)'
    BY <2>1, <2>2, <2>3, <2>4 DEF SpanStage, Span, Findings, Looking, Attaching
  <2>6. \A u \in Threads : Span(u)' = s /\ frame'[u].cache = "spans" => u = th
    BY <1>2
  <2> QED  BY <2>2, <2>5, <2>6 DEF SpanExact, Span
<1>7. CASE frame[th].cache = "spans"
  <2>1. SpanStage(th) /\ ~AddEvents(th)
    BY <1>4, <1>7 DEF SpanExact
  <2>2. Key(th) = s /\ Order(th) = order["spans"]
    BY <1>7 DEF Key, Order
  <2>3. /\ pc[th] # "pop"
        /\ pc[th] \in {"check", "renew", "fetch"} => Contains(order["spans"], s)
    BY <1>7, <2>2 DEF NothingEvicted, Caches
  <2>4. ~(PopOldest(th) /\ frame[th].cache = "spans")
    BY <2>3, CacheMoves
  <2>5. pc[th] \in Looking \cup Attaching
    BY <1>1, <1>7, CallFacts DEF Stage, Places
  <2>6. SUFFICES \/ /\ frame'[th].cache = "spans" /\ frame'[th].span = s
                    /\ SpanStage(th)'
                 \/ /\ frame'[th].cache = "traces"
                    /\ KeptList(s)' = events'[s] /\ summary'[s] = ExactSummary(s)'
    <3>1. ASSUME frame'[th].cache = "spans", frame'[th].span = s, SpanStage(th)'
          PROVE  SpanExact(s)'
      BY <1>2, <3>1 DEF SpanExact, Span
    <3>2. ASSUME frame'[th].cache = "traces", KeptList(s)' = events'[s],
                 summary'[s] = ExactSummary(s)'
          PROVE  SpanExact(s)'
      BY <1>2, <3>2 DEF SpanExact, Span
    <3> QED  BY <3>1, <3>2
  <2>7. events'[s] = events[s]
    BY <2>1, SpanSteps
  <2>8. ~Extend(th) /\ ~InsertKey(th) =>
          /\ Contains(order'["spans"], s) <=> Contains(order["spans"], s)
          /\ value'["spans"][s] = value["spans"][s]
          /\ KeptList(s)' = KeptList(s)
    BY <2>4, KeptListStays
  <2>9. ~SetCount(th) /\ ~SetTypes(th) => summary'[s] = summary[s]
    BY SpanSteps
  <2>10. CASE LookUp(th) \/ CheckCap(th) \/ Renew(th)
    <3>1. /\ pc[th] \in Looking /\ pc'[th] \in Looking /\ frame'[th] = frame[th]
          /\ pc'[th] = "insert" => ~Contains(order["spans"], s)
          /\ ~Extend(th) /\ ~InsertKey(th)
      BY <2>2, <2>3, <2>10, CacheMoves, AttachMoves DEF Looking, Leaves
    <3> QED  BY <1>7, <2>1, <2>7, <2>8, <3>1 DEF SpanStage, Span, Findings, Looking, Attaching
  <2>11. CASE InsertKey(th)
    <3>1. pc[th] = "insert" /\ pc'[th] = "check" /\ frame'[th] = frame[th]
      BY <2>11, CacheMoves
    <3>2. KeptList(s) = <<>>
      BY <2>1, <3>1 DEF SpanStage, KeptList
    <3>3. KeptList(s)' = <<>>
      <4>1. value'["spans"][s] = Len(lists) + 1
        BY <1>7, <2>2, <2>11, ValueSteps
      <4>2. lists'[Len(lists) + 1] = <<>>
        BY <1>7, <2>11, ListSteps
      <4> QED  BY <4>1, <4>2 DEF KeptList
    <3>4. KeptList(s) \o Findings(th) = events[s]
      BY <2>1, <3>1 DEF SpanStage, Looking
    <3> QED  BY <1>7, <2>7, <3>1, <3>2, <3>3, <3>4 DEF SpanStage, Span, Findings, Looking, Attaching
  <2>12. CASE Fetch(th)
    <3>1. /\ pc[th] = "fetch" /\ pc'[th] = "extend" /\ Contains(order["spans"], s)
          /\ frame'[th] = [frame[th] EXCEPT !.object = value["spans"][s]]
          /\ ~Extend(th) /\ ~InsertKey(th)
      BY <1>7, <2>2, <2>3, <2>12, CacheMoves, AttachMoves
    <3>2. /\ frame'[th].object = value["spans"][s] /\ frame'[th].cache = "spans"
          /\ frame'[th].span = s /\ frame'[th].findings = Findings(th)
      BY <1>1, <1>7, <3>1 DEF Frames, Span, Findings
    <3>3. KeptList(s) \o Findings(th) = events[s]
      BY <2>1, <3>1 DEF SpanStage, Looking
    <3> QED  BY <2>7, <2>8, <3>1, <3>2, <3>3 DEF SpanStage, Span, Findings, Looking, Attaching
  <2>13. CASE Extend(th)
    <3>1. /\ pc[th] = "extend" /\ pc'[th] = "count" /\ frame'[th] = frame[th]
          /\ ~InsertKey(th)
      BY <2>13, AttachMoves, CacheMoves
    <3>2. /\ Contains(order["spans"], s) /\ frame[th].object = value["spans"][s]
          /\ KeptList(s) \o Findings(th) = events[s]
      BY <2>1, <3>1 DEF SpanStage, Looking, Attaching
    <3>3. Contains(order'["spans"], s)
      BY <2>4, <3>2, OrderSteps DEF Caches
    <3>4. value'["spans"][s] = value["spans"][s]
      BY <3>1, ValueSteps DEF Caches, CacheKey
    <3>5. lists'[frame[th].object] = KeptList(s) \o Findings(th)
      BY <2>13, <3>2, ListSteps DEF Accumulated, KeptList
    <3>6. KeptList(s)' = events'[s]
      BY <2>7, <3>2, <3>3, <3>4, <3>5 DEF KeptList
    <3> QED  BY <1>7, <2>7, <3>1, <3>2, <3>3, <3>4, <3>6
             DEF SpanStage, Span, Findings, Looking, Attaching
  <2>14. CASE MeasureCount(th) \/ MeasureTypes(th) \/ SetCount(th) \/ SetTypes(th) \/ Alert(th)
    <3>1. pc[th] \in Attaching \ {"extend"} /\ ~Extend(th) /\ ~InsertKey(th)
      BY <2>14, AttachMoves, CacheMoves DEF Attaching
    <3>2. /\ Contains(order["spans"], s) /\ frame[th].object = value["spans"][s]
          /\ KeptList(s) = events[s]
      BY <2>1, <3>1 DEF SpanStage
    <3>3. Accumulated(th) = events[s]
      BY <3>2 DEF Accumulated, KeptList
    <3>4. /\ Contains(order'["spans"], s) /\ value'["spans"][s] = value["spans"][s]
          /\ KeptList(s)' = events'[s]
      BY <2>7, <2>8, <3>1, <3>2
    <3>5. CASE MeasureCount(th)
      <4>1. /\ pc'[th] = "types" /\ ~SetCount(th) /\ ~SetTypes(th)
            /\ frame'[th] = [frame[th] EXCEPT !.count = Len(events[s])]
        BY <3>3, <3>5, AttachMoves
      <4>2. /\ frame'[th].count = Len(events[s]) /\ frame'[th].object = frame[th].object
            /\ frame'[th].cache = "spans" /\ frame'[th].span = s
        BY <1>1, <1>7, <4>1 DEF Frames, Span
      <4> QED  BY <2>7, <3>2, <3>4, <4>1, <4>2 DEF SpanStage, Span, Looking, Attaching
    <3>6. CASE MeasureTypes(th)
      <4>1. /\ pc[th] = "types" /\ pc'[th] = "set_count" /\ ~SetCount(th) /\ ~SetTypes(th)
            /\ frame'[th] = [frame[th] EXCEPT !.types = ToSet(events[s])]
        BY <3>3, <3>6, AttachMoves
      <4>2. /\ frame'[th].count = frame[th].count /\ frame'[th].object = frame[th].object
            /\ frame'[th].cache = "spans" /\ frame'[th].span = s
            /\ frame'[th].types = ToSet(events[s])
        BY <1>1, <1>7, <4>1 DEF Frames, Span
      <4>3. frame[th].count = Len(events[s])
        BY <2>1, <4>1 DEF SpanStage
      <4> QED  BY <2>7, <3>2, <3>4, <4>1, <4>2, <4>3 DEF SpanStage, Span, Looking, Attaching
    <3>7. CASE SetCount(th)
      <4>1. pc[th] = "set_count" /\ pc'[th] = "set_types" /\ frame'[th] = frame[th]
        BY <3>7, AttachMoves
      <4>2. frame[th].count = Len(events[s]) /\ frame[th].types = ToSet(events[s])
        BY <2>1, <4>1 DEF SpanStage
      <4>3. summary'[s] = [summary[s] EXCEPT !.count = frame[th].count]
        BY <3>7, SpanSteps
      <4>4. summary'[s].count = Len(events'[s])
        BY <1>5, <2>7, <4>2, <4>3 DEF Summaries
      <4> QED  BY <1>7, <2>7, <3>2, <3>4, <4>1, <4>2, <4>4 DEF SpanStage, Span, Looking, Attaching
    <3>8. CASE SetTypes(th)
      <4>1. pc[th] = "set_types" /\ pc'[th] = "alert" /\ frame'[th] = frame[th]
        BY <3>8, AttachMoves
      <4>2. summary[s].count = Len(events[s]) /\ frame[th].types = ToSet(events[s])
        BY <2>1, <4>1 DEF SpanStage
      <4>3. summary'[s] = [summary[s] EXCEPT !.types = frame[th].types]
        BY <3>8, SpanSteps
      <4>4. summary'[s] = ExactSummary(s)'
        BY <1>5, <2>7, <4>2, <4>3 DEF Summaries, ExactSummary
      <4> QED  BY <1>7, <2>7, <3>2, <3>4, <4>1, <4>4 DEF SpanStage, Span, Looking, Attaching
    <3>9. CASE Alert(th)
      <4>1. pc[th] = "alert" /\ frame'[th] = NoFrame /\ ~SetCount(th) /\ ~SetTypes(th)
        BY <3>9, AttachMoves DEF Leaves
      <4>2. frame'[th].cache = "traces"
        BY <4>1 DEF NoFrame, NewFrame
      <4>3. summary[s] = ExactSummary(s)
        BY <2>1, <4>1 DEF SpanStage
      <4> QED  BY <2>7, <2>9, <3>4, <4>1, <4>2, <4>3 DEF ExactSummary
    <3> QED  BY <2>14, <3>5, <3>6, <3>7, <3>8, <3>9
  <2>15. InCache(th) \/ InAttach(th)
    <3>1. ~(\E r \in Spans, isPrompt \in BOOLEAN : Call(th, r, isPrompt))
      BY <2>5, CallMoves DEF Looking, Attaching
    <3>2. ~InDetectors(th)
      BY <2>5, DetectorMoves DEF Looking, Attaching, InDetectors
    <3> QED  BY <3>1, <3>2 DEF Acts
  <2> QED  BY <1>7, <2>1, <2>4, <2>10, <2>11, <2>12, <2>13, <2>14, <2>15 DEF InCache, InAttach
<1> QED  BY <1>6, <1>7

LEMMA SpansExactKept ==
  ASSUME TypeOK, ObjectsApart, KeysOnce, NothingEvicted, Stages, OneAtATime, SpansExact,
         NEW th \in Threads, Acts(th)
  PROVE  SpansExact'
<1> SUFFICES ASSUME NEW s \in Spans, s \notin raced', Room("spans")'
             PROVE  SpanExact(s)'
  BY DEF SpansExact, SpanExact
<1>1. Room("spans") /\ s \notin raced
  BY RoomBefore, RacedGrows DEF Caches
<1>2. SpanExact(s)
  BY <1>1 DEF SpansExact, SpanExact
<1>3. ~(PopOldest(th) /\ frame[th].cache = "spans")
  BY <1>1, CacheMoves DEF NothingEvicted, Caches
<1>4. CASE Span(th) = s /\ (frame[th].cache = "spans" \/ AddEvents(th))
  <2>1. pc[th] # "idle"
    BY <1>4, AttachMoves DEF Stages, Stage
  <2>2. \A u \in Threads \ {th} : Span(u) = s => pc[u] = "idle"
    BY <1>1, <1>4, <2>1 DEF OneAtATime
  <2> QED  BY <1>1, <1>2, <1>4, <2>2, SpanExactHere
<1>5. CASE ~(Span(th) = s /\ (frame[th].cache = "spans" \/ AddEvents(th)))
  BY <1>2, <1>3, <1>5, SpanExactElsewhere
<1> QED  BY <1>4, <1>5

-----------------------------------------------------------------------------
(* A trace whose calls do not overlap. *)

LEMMA KeptScratchStays ==
  ASSUME TypeOK, ObjectsApart, KeysOnce, Stages, NEW th \in Threads, Acts(th), NEW t \in Traces,
         ~(PopOldest(th) /\ frame[th].cache = "traces"),
         Trace(th) = t => ~WriteCalls(th) /\ ~Mark(th) /\ ~(InsertKey(th) /\ frame[th].cache = "traces")
  PROVE  /\ Contains(order'["traces"], t) <=> Contains(order["traces"], t)
         /\ value'["traces"][t] = value["traces"][t]
         /\ KeptScratch(t)' = KeptScratch(t)
<1>1. frame[th].cache = "traces" => Key(th) = Trace(th)
  BY DEF Key
<1>2. Contains(order'["traces"], t) <=> Contains(order["traces"], t)
  BY <1>1, OrderSteps DEF Caches
<1>3. value'["traces"][t] = value["traces"][t]
  BY <1>1, ValueSteps DEF Caches, CacheKey
<1>4. CASE ~Contains(order["traces"], t)
  BY <1>2, <1>3, <1>4 DEF KeptScratch
<1>5. CASE Contains(order["traces"], t)
  <2> DEFINE o == value["traces"][t]
  <2>1. o # 0
    BY <1>5, KeysOnceByKey DEF KeysHeld, Caches
  <2>2. o \in ScratchesOf(t) /\ o \in DOMAIN scratch
    BY <2>1 DEF ScratchesOf, ObjectsApart
  <2>3. ~((WriteCalls(th) \/ Mark(th)) /\ o = frame[th].object)
    <3>1. WriteCalls(th) \/ Mark(th) => pc[th] \in Counting
      BY DetectorMoves DEF Counting
    <3> QED  BY <2>2, <3>1, OwnScratch
  <2>4. scratch'[o] = scratch[o]
    BY <2>2, <2>3, ScratchSteps
  <2> QED  BY <1>2, <1>3, <1>5, <2>4 DEF KeptScratch
<1> QED  BY <1>4, <1>5

LEMMA KeptScratchType ==
  ASSUME TypeOK, ObjectsApart, KeysOnce, NEW t \in Traces
  PROVE  KeptScratch(t) \in Scratches
<1>1. CASE ~Contains(order["traces"], t)
  BY <1>1 DEF KeptScratch, Scratches
<1>2. CASE Contains(order["traces"], t)
  <2> DEFINE o == value["traces"][t]
  <2>1. o # 0
    BY <1>2, KeysOnceByKey DEF KeysHeld, Caches
  <2>2. o \in DOMAIN scratch /\ scratch \in Seq(Scratches)
    BY <2>1 DEF ScratchesOf, ObjectsApart, TypeOK, CacheTypes, Scratches
  <2> HIDE DEF o
  <2>3. scratch[o] \in Scratches
    BY <2>2, OrderShape
  <2> QED  BY <1>2, <2>3 DEF KeptScratch, o
<1> QED  BY <1>1, <1>2

\* What TracesExact says of one trace.
TraceExact(t) ==
  /\ QuietTrace(t) => Counted(t) /\ Reported(t, prompts[t])
  /\ \A th \in Threads : pc[th] # "idle" /\ Trace(th) = t => TraceStage(th)

\* A step of a call on another trace.
LEMMA TraceExactElsewhere ==
  ASSUME TypeOK, ObjectsApart, KeysOnce, Stages, NEW th \in Threads, Acts(th), NEW t \in Traces,
         ~(PopOldest(th) /\ frame[th].cache = "traces"),
         pc[th] # "idle" => Trace(th) # t,
         pc'[th] # "idle" => Trace(th)' # t,
         TraceExact(t)
  PROVE  TraceExact(t)'
<1>1. WriteCalls(th) \/ Mark(th) \/ InsertKey(th) \/ Alert(th) => pc[th] # "idle"
  BY DetectorMoves, CacheMoves, AttachMoves
<1>2. /\ Contains(order'["traces"], t) <=> Contains(order["traces"], t)
      /\ value'["traces"][t] = value["traces"][t]
      /\ KeptScratch(t)' = KeptScratch(t)
  BY <1>1, KeptScratchStays
<1>3. prompts'[t] = prompts[t] /\ alarms'[t] = alarms[t]
  BY <1>1, TraceSteps
<1>4. \A u \in Threads \ {th} : pc'[u] = pc[u] /\ frame'[u] = frame[u] /\ Trace(u)' = Trace(u)
  BY OthersStay DEF Trace, Span
<1>5. QuietTrace(t)' => QuietTrace(t)
  BY <1>4 DEF QuietTrace
<1>6. Counted(t)' = Counted(t) /\ Reported(t, prompts[t])' = Reported(t, prompts[t])
  BY <1>2, <1>3 DEF Counted, Reported
<1>7. ASSUME NEW u \in Threads, pc'[u] # "idle", Trace(u)' = t
      PROVE  TraceStage(u)'
  <2>1. u # th
    BY <1>7
  <2>2. pc'[u] = pc[u] /\ frame'[u] = frame[u] /\ Trace(u) = t /\ Trace(u)' = t
    BY <1>4, <1>7, <2>1
  <2>3. TraceStage(u)
    BY <1>7, <2>2 DEF TraceExact
  <2> QED  BY <1>2, <1>3, <2>2, <2>3 DEF TraceStage, Counted, Reported, Findings
<1> QED  BY <1>5, <1>6, <1>7 DEF TraceExact

\* A step of the only call on the trace.
LEMMA TraceExactHere ==
  ASSUME TypeOK, ObjectsApart, KeysOnce, NothingEvicted, Stages, Room("spans"), Room("traces"),
         NEW th \in Threads, Acts(th), NEW t \in Traces,
         pc[th] # "idle", Trace(th) = t,
         \A u \in Threads \ {th} : pc[u] # "idle" => Trace(u) # t,
         TraceExact(t)
  PROVE  TraceExact(t)'
<1>1. frame[th] \in Frames /\ Stage(th) /\ frame[th].cache \in {"traces", "spans"}
  BY CallFacts DEF Stages, Caches
<1>2. TraceStage(th)
  BY DEF TraceExact
<1>3. ~PopOldest(th) /\ pc[th] # "pop"
      /\ (pc[th] \in {"check", "renew", "fetch"} => Contains(Order(th), Key(th)))
  BY <1>1, CacheMoves DEF NothingEvicted, Caches, Order
<1>4. frame[th].cache = "traces" => Key(th) = t /\ Order(th) = order["traces"]
  BY DEF Key, Order
<1>5. \A u \in Threads \ {th} : pc'[u] # "idle" => Trace(u)' # t
  BY OthersStay DEF Trace, Span
<1>6. pc'[th] # "idle" => Trace(th)' = t
  BY SpanStays DEF Leaves, Trace, Span
<1> SUFFICES \/ pc'[th] # "idle" /\ TraceStage(th)'
             \/ pc'[th] = "idle" /\ Counted(t)' /\ Reported(t, prompts[t])'
  <2>1. ASSUME pc'[th] # "idle", TraceStage(th)'
        PROVE  TraceExact(t)'
    BY <1>5, <1>6, <2>1 DEF TraceExact, QuietTrace
  <2>2. ASSUME pc'[th] = "idle", Counted(t)', Reported(t, prompts[t])'
        PROVE  TraceExact(t)'
    BY <1>5, <2>2 DEF TraceExact
  <2> QED  BY <2>1, <2>2
<1>7. /\ prompts[t] \in Nat /\ alarms[t] \in Nat /\ CallBudget \in Nat
      /\ KeptScratch(t) \in Scratches
  BY KeptScratchType, ThreadsAssumption DEF TypeOK, OutputTypes
<1>8. ~WriteCalls(th) /\ ~Mark(th) /\ ~(InsertKey(th) /\ frame[th].cache = "traces") =>
        /\ Contains(order'["traces"], t) <=> Contains(order["traces"], t)
        /\ value'["traces"][t] = value["traces"][t]
        /\ KeptScratch(t)' = KeptScratch(t)
  BY <1>3, KeptScratchStays
<1>9. /\ ~WriteCalls(th) => prompts'[t] = prompts[t]
      /\ ~Alert(th) => alarms'[t] = alarms[t]
  BY TraceSteps
<1>10. <<"budget">> # <<>> /\ <<"budget">> # <<"content">>
  OBVIOUS
<1> USE DEF Looking, Counting, Attaching
\* Steps that change neither the scratch nor what is known of the trace.
<1>11. ASSUME KeptScratch(t)' = KeptScratch(t), prompts'[t] = prompts[t], alarms'[t] = alarms[t],
              pc[th] \notin {"budget", "flagged", "mark"},
              pc'[th] \notin Counting \cup {"idle"},
              frame'[th].findings = Findings(th) \/
                (Findings(th) = <<>> /\ frame'[th].findings = <<"content">>),
              frame'[th].cache = "traces" /\ pc'[th] = "insert" => ~Contains(order'["traces"], t)
       PROVE  pc'[th] # "idle" /\ TraceStage(th)'
  <2>1. /\ Counted(t)
        /\ IF Findings(th) = <<"budget">>
             THEN prompts[t] > CallBudget /\ KeptScratch(t).flagged /\ alarms[t] = 0
             ELSE Reported(t, prompts[t])
    BY <1>2, <1>11 DEF TraceStage
  <2>2. Counted(t)' /\ (Reported(t, prompts[t])' <=> Reported(t, prompts[t]))
    BY <1>11, <2>1 DEF Counted, Reported
  <2>3. Trace(th)' = t
    BY <1>6, <1>11
  <2> QED  BY <1>10, <1>11, <2>1, <2>2, <2>3 DEF TraceStage, Findings
<1>12. CASE LookUp(th) \/ CheckCap(th) \/ Renew(th)
  <2>1. /\ pc[th] \in Looking /\ pc'[th] \in Looking /\ frame'[th] = frame[th]
        /\ pc'[th] = "insert" => ~Contains(Order(th), Key(th))
        /\ ~WriteCalls(th) /\ ~Mark(th) /\ ~InsertKey(th) /\ ~Alert(th)
    BY <1>3, <1>12, CacheMoves, DetectorMoves, AttachMoves DEF Leaves
  <2> QED  BY <1>4, <1>8, <1>9, <1>11, <2>1 DEF Findings
<1>13. CASE InsertKey(th)
  <2>1. /\ pc[th] = "insert" /\ pc'[th] = "check" /\ frame'[th] = frame[th]
        /\ ~WriteCalls(th) /\ ~Mark(th) /\ ~Alert(th)
    BY <1>13, CacheMoves, DetectorMoves, AttachMoves
  <2>2. KeptScratch(t)' = KeptScratch(t)
    <3>1. CASE frame[th].cache = "spans"
      BY <1>8, <2>1, <3>1
    <3>2. CASE frame[th].cache = "traces"
      <4>1. KeptScratch(t) = [llm_calls |-> 0, flagged |-> FALSE]
        BY <1>2, <2>1, <3>2 DEF TraceStage, KeptScratch
      <4>2. /\ value'["traces"][t] = Len(scratch) + 1
            /\ scratch'[Len(scratch) + 1] = [llm_calls |-> 0, flagged |-> FALSE]
        BY <1>4, <1>13, <3>2, ValueSteps, ScratchSteps
      <4> QED  BY <4>1, <4>2 DEF KeptScratch
    <3> QED  BY <1>1, <3>1, <3>2
  <2> QED  BY <1>9, <1>11, <2>1, <2>2 DEF Findings
<1>14. CASE Fetch(th)
  <2>1. /\ pc[th] = "fetch" /\ Contains(Order(th), Key(th))
        /\ frame'[th] = [frame[th] EXCEPT !.object = value[frame[th].cache][Key(th)]]
        /\ pc'[th] = IF frame[th].cache = "spans" THEN "extend"
                     ELSE IF frame[th].isPrompt THEN "read" ELSE "content"
        /\ ~WriteCalls(th) /\ ~Mark(th) /\ ~InsertKey(th) /\ ~Alert(th)
    BY <1>3, <1>14, CacheMoves, DetectorMoves, AttachMoves
  <2>2. /\ frame'[th].findings = Findings(th) /\ frame'[th].cache = frame[th].cache
        /\ frame'[th].object = value[frame[th].cache][Key(th)]
    BY <1>1, <2>1 DEF Frames, Findings
  <2>3. CASE pc'[th] # "read"
    <3>1. pc'[th] \in {"extend", "content"}
      BY <2>1, <2>3
    <3> QED  BY <1>8, <1>9, <1>11, <2>1, <2>2, <3>1
  <2>4. CASE pc'[th] = "read"
    <3>1. frame[th].cache = "traces" /\ frame'[th].object = value["traces"][t]
      BY <1>1, <1>4, <2>1, <2>2, <2>4
    <3>2. Contains(order'["traces"], t)
      BY <1>4, <1>8, <2>1, <3>1
    <3>3. Findings(th) = <<>>
      BY <1>1, <2>1, <3>1 DEF Stage
    <3>4. Counted(t) /\ Reported(t, prompts[t])
      BY <1>2, <1>10, <2>1, <3>3 DEF TraceStage
    <3>5. Counted(t)' /\ Reported(t, prompts[t])'
      BY <1>8, <1>9, <2>1, <3>4 DEF Counted, Reported
    <3>6. Trace(th)' = t
      BY <1>6, <2>4
    <3> QED  BY <1>8, <1>10, <2>1, <2>2, <2>4, <3>1, <3>2, <3>3, <3>5, <3>6 DEF TraceStage, Findings
  <2> QED  BY <2>3, <2>4
<1>15. CASE InDetectors(th)
  <2>1. CASE ScanContent(th)
    <3>1. /\ pc[th] = "content" /\ ~WriteCalls(th) /\ ~Mark(th) /\ ~InsertKey(th) /\ ~Alert(th)
      BY <2>1, CacheMoves, DetectorMoves, AttachMoves
    <3>2. CASE Findings(th) = <<>> /\ Leaves(th)
      <4>1. Counted(t) /\ Reported(t, prompts[t])
        BY <1>2, <1>10, <3>1, <3>2 DEF TraceStage
      <4> QED  BY <1>8, <1>9, <3>1, <3>2, <4>1 DEF Leaves, Counted, Reported
    <3>3. CASE pc'[th] = "event" /\ frame'[th] = frame[th]
      BY <1>8, <1>9, <1>11, <3>1, <3>3 DEF Findings
    <3>4. CASE /\ ~frame[th].isPrompt /\ pc'[th] = "event"
               /\ frame'[th] = [frame[th] EXCEPT !.findings = <<"content">>]
      <4>1. Findings(th) = <<>>
        BY <1>1, <3>1, <3>4 DEF Stage
      <4>2. frame'[th].findings = <<"content">>
        BY <1>1, <3>4 DEF Frames
      <4> QED  BY <1>8, <1>9, <1>11, <3>1, <3>4, <4>1, <4>2
    <3> QED  BY <2>1, <3>2, <3>3, <3>4, DetectorMoves
  <2>2. CASE ~ScanContent(th)
    <3>1. pc[th] \in Counting /\ ~InsertKey(th) /\ ~Alert(th)
      BY <1>15, <2>2, CacheMoves, DetectorMoves, AttachMoves DEF InDetectors
    <3>2. /\ Contains(order["traces"], t) /\ frame[th].object = value["traces"][t]
          /\ Scratch(th) = KeptScratch(t) /\ Findings(th) = <<>>
      BY <1>1, <1>2, <3>1 DEF TraceStage, Scratch, KeptScratch, Stage
    <3>3. Contains(order'["traces"], t) /\ value'["traces"][t] = frame[th].object
      <4>1. value'["traces"][t] = value["traces"][t]
        BY <3>1, ValueSteps DEF Caches, CacheKey
      <4> QED  BY <1>3, <3>2, <4>1, OrderSteps DEF Caches
    <3>4. Counted(t)
      BY <1>2 DEF TraceStage
    <3>5. CASE ReadCalls(th)
      <4>1. /\ pc[th] = "read" /\ pc'[th] = "write" /\ ~WriteCalls(th) /\ ~Mark(th)
            /\ frame'[th] = [frame[th] EXCEPT !.calls = KeptScratch(t).llm_calls]
        BY <3>2, <3>5, DetectorMoves
      <4>2. /\ frame'[th].calls = prompts[t] /\ frame'[th].object = frame[th].object
            /\ frame'[th].findings = <<>>
        BY <1>1, <3>2, <3>4, <4>1 DEF Frames, Findings, Counted
      <4>3. Reported(t, prompts[t])
        BY <1>2, <1>10, <3>2, <4>1 DEF TraceStage
      <4>4. Counted(t)' /\ Reported(t, prompts[t])' /\ prompts'[t] = prompts[t]
        BY <1>8, <1>9, <3>1, <3>4, <4>1, <4>3 DEF Counted, Reported
      <4>5. Trace(th)' = t
        BY <1>6, <4>1
      <4> QED  BY <1>10, <3>3, <4>1, <4>2, <4>4, <4>5 DEF TraceStage, Findings
    <3>6. CASE WriteCalls(th)
      <4>1. /\ pc[th] = "write" /\ pc'[th] = "budget" /\ frame'[th] = frame[th]
        BY <3>6, DetectorMoves
      <4>2. frame[th].calls = prompts[t] /\ Reported(t, prompts[t])
        BY <1>2, <1>10, <3>2, <4>1 DEF TraceStage
      <4>3. KeptScratch(t)' = [KeptScratch(t) EXCEPT !.llm_calls = prompts[t] + 1]
        BY <3>2, <3>3, <3>6, <4>2, ScratchSteps DEF KeptScratch
      <4>4. prompts'[t] = prompts[t] + 1
        BY <3>6, TraceSteps
      <4>5. /\ KeptScratch(t)'.llm_calls = prompts'[t]
            /\ KeptScratch(t)'.flagged = KeptScratch(t).flagged
        BY <1>7, <4>3, <4>4 DEF Scratches
      <4>6. prompts'[t] > 0 /\ prompts'[t] - 1 = prompts[t]
        BY <1>7, <4>4
      <4>7. Reported(t, prompts[t] - 1)'
        BY <1>9, <3>1, <4>2, <4>5, <4>6 DEF Reported
      <4>8. Trace(th)' = t
        BY <1>6, <4>1
      <4> QED  BY <3>3, <4>1, <4>5, <4>6, <4>7, <4>8 DEF TraceStage, Counted
    <3>7. CASE CheckBudget(th)
      <4>1. /\ pc[th] = "budget" /\ frame'[th] = frame[th] /\ ~WriteCalls(th) /\ ~Mark(th)
            /\ pc'[th] = IF KeptScratch(t).llm_calls > CallBudget THEN "flagged" ELSE "content"
        BY <3>2, <3>7, DetectorMoves
      <4>2. prompts[t] > 0 /\ Reported(t, prompts[t] - 1) /\ KeptScratch(t).llm_calls = prompts[t]
        BY <1>2, <3>4, <4>1 DEF TraceStage, Counted
      <4>3. /\ KeptScratch(t)' = KeptScratch(t) /\ prompts'[t] = prompts[t] /\ alarms'[t] = alarms[t]
        BY <1>8, <1>9, <3>1, <4>1
      <4>4. Counted(t)' /\ Reported(t, prompts[t] - 1)' /\ Trace(th)' = t
        BY <1>6, <3>4, <4>1, <4>2, <4>3 DEF Counted, Reported
      <4>5. CASE prompts[t] > CallBudget
        BY <3>3, <4>1, <4>2, <4>3, <4>4, <4>5 DEF TraceStage
      <4>6. CASE ~(prompts[t] > CallBudget)
        <5>1. Reported(t, prompts[t])
          BY <1>7, <4>2, <4>6 DEF Reported, Exceeded
        <5>2. Reported(t, prompts[t])'
          BY <4>3, <5>1 DEF Reported
        <5> QED  BY <1>10, <3>2, <4>1, <4>2, <4>4, <4>6, <5>2 DEF TraceStage, Findings
      <4> QED  BY <4>5, <4>6
    <3>8. CASE CheckFlagged(th)
      <4>1. /\ pc[th] = "flagged" /\ frame'[th] = frame[th] /\ ~WriteCalls(th) /\ ~Mark(th)
            /\ pc'[th] = IF KeptScratch(t).flagged THEN "content" ELSE "mark"
        BY <3>2, <3>8, DetectorMoves
      <4>2. prompts[t] > 0 /\ Reported(t, prompts[t] - 1) /\ prompts[t] > CallBudget
        BY <1>2, <4>1 DEF TraceStage
      <4>3. /\ KeptScratch(t)' = KeptScratch(t) /\ prompts'[t] = prompts[t] /\ alarms'[t] = alarms[t]
        BY <1>8, <1>9, <3>1, <4>1
      <4>4. Counted(t)' /\ Reported(t, prompts[t] - 1)' /\ Trace(th)' = t
        BY <1>6, <3>4, <4>1, <4>2, <4>3 DEF Counted, Reported
      <4>5. CASE ~KeptScratch(t).flagged
        BY <3>3, <4>1, <4>2, <4>3, <4>4, <4>5 DEF TraceStage
      <4>6. CASE KeptScratch(t).flagged
        <5>1. Reported(t, prompts[t])
          BY <1>7, <4>2, <4>6 DEF Reported, Exceeded
        <5>2. Reported(t, prompts[t])'
          BY <4>3, <5>1 DEF Reported
        <5> QED  BY <1>10, <3>2, <4>1, <4>4, <4>6, <5>2 DEF TraceStage, Findings
      <4> QED  BY <4>5, <4>6
    <3>9. CASE Mark(th)
      <4>1. /\ pc[th] = "mark" /\ pc'[th] = "content" /\ ~WriteCalls(th)
            /\ frame'[th] = [frame[th] EXCEPT !.findings = <<"budget">>]
        BY <3>9, DetectorMoves
      <4>2. frame'[th].findings = <<"budget">>
        BY <1>1, <4>1 DEF Frames
      <4>3. /\ prompts[t] > CallBudget /\ Reported(t, prompts[t] - 1)
            /\ ~KeptScratch(t).flagged
        BY <1>2, <4>1 DEF TraceStage
      <4>4. alarms[t] = 0
        BY <1>7, <4>3 DEF Reported, Exceeded
      <4>5. KeptScratch(t)' = [KeptScratch(t) EXCEPT !.flagged = TRUE]
        BY <3>2, <3>3, <3>9, ScratchSteps DEF KeptScratch
      <4>6. KeptScratch(t)'.flagged /\ KeptScratch(t)'.llm_calls = KeptScratch(t).llm_calls
        BY <1>7, <4>5 DEF Scratches
      <4>7. prompts'[t] = prompts[t] /\ alarms'[t] = 0
        BY <1>9, <3>1, <4>1, <4>4
      <4>8. Counted(t)' /\ Trace(th)' = t
        BY <1>6, <3>4, <4>1, <4>6, <4>7 DEF Counted
      <4> QED  BY <4>1, <4>2, <4>3, <4>6, <4>7, <4>8 DEF TraceStage, Findings
    <3> QED  BY <1>15, <2>2, <3>5, <3>6, <3>7, <3>8, <3>9 DEF InDetectors
  <2> QED  BY <2>1, <2>2
<1>16. CASE InAttach(th) /\ ~Alert(th)
  <2>1. /\ pc[th] \in {"event"} \cup Attaching /\ pc'[th] \in {"lookup"} \cup Attaching
        /\ ~WriteCalls(th) /\ ~Mark(th) /\ ~InsertKey(th)
    BY <1>16, CacheMoves, DetectorMoves, AttachMoves DEF InAttach
  <2>2. frame'[th].findings = Findings(th)
    <3>1. \/ frame'[th] = [frame[th] EXCEPT !.cache = "spans"]
          \/ frame'[th] = frame[th]
          \/ frame'[th] = [frame[th] EXCEPT !.count = Len(Accumulated(th))]
          \/ frame'[th] = [frame[th] EXCEPT !.types = ToSet(Accumulated(th))]
      BY <1>16, AttachMoves DEF InAttach
    <3> QED  BY <1>1, <3>1 DEF Frames, Findings
  <2> QED  BY <1>8, <1>9, <1>11, <1>16, <2>1, <2>2
<1>17. CASE Alert(th)
  <2>1. pc[th] = "alert" /\ pc'[th] = "idle" /\ ~WriteCalls(th) /\ ~Mark(th) /\ ~InsertKey(th)
    BY <1>17, CacheMoves, DetectorMoves, AttachMoves DEF Leaves
  <2>2. KeptScratch(t)' = KeptScratch(t) /\ prompts'[t] = prompts[t]
    BY <1>8, <1>9, <2>1
  <2>3. Counted(t)'
    BY <1>2, <2>2 DEF TraceStage, Counted
  <2>4. CASE Findings(th) = <<"budget">>
    <3>1. prompts[t] > CallBudget /\ KeptScratch(t).flagged /\ alarms[t] = 0
      BY <1>2, <2>1, <2>4 DEF TraceStage
    <3>2. "budget" \in ToSet(Findings(th))
      <4>1. ToSet(<<"budget">>) = {"budget"}
        BY DEF ToSet
      <4> QED  BY <2>4, <4>1
    <3>3. alarms'[t] = 1
      BY <1>17, <3>1, <3>2, TraceSteps
    <3> QED  BY <2>1, <2>2, <2>3, <3>1, <3>3 DEF Reported, Exceeded
  <2>5. CASE Findings(th) # <<"budget">>
    <3>1. Reported(t, prompts[t])
      BY <1>2, <2>1, <2>5 DEF TraceStage
    <3>2. Findings(th) = <<"content">>
      BY <1>1, <2>1, <2>5 DEF Stage
    <3>3. "budget" \notin ToSet(Findings(th))
      <4>1. ToSet(<<"content">>) = {"content"}
        BY DEF ToSet
      <4> QED  BY <3>2, <4>1
    <3>4. alarms'[t] = alarms[t]
      BY <3>3, TraceSteps
    <3> QED  BY <2>1, <2>2, <2>3, <3>1, <3>4 DEF Reported
  <2> QED  BY <2>4, <2>5
<1>18. ~(\E s \in Spans, isPrompt \in BOOLEAN : Call(th, s, isPrompt))
  BY CallMoves
<1> QED  BY <1>3, <1>12, <1>13, <1>14, <1>15, <1>16, <1>17, <1>18 DEF Acts, InCache

\* The first step of a call on a trace on which nobody else works.
LEMMA TraceExactBegins ==
  ASSUME TypeOK, ObjectsApart, KeysOnce, NothingEvicted, Stages, Room("traces"),
         NEW th \in Threads, Acts(th), NEW t \in Traces,
         pc[th] = "idle", Trace(th)' = t, QuietTrace(t),
         TraceExact(t)
  PROVE  TraceExact(t)'
<1>1. PICK s \in Spans, isPrompt \in BOOLEAN : Call(th, s, isPrompt)
  BY SpanStays
<1>2. /\ pc'[th] = "lookup"
      /\ frame'[th].cache = "traces" /\ frame'[th].findings = <<>>
  BY <1>1, CallMoves
<1>3. ~WriteCalls(th) /\ ~Mark(th) /\ ~InsertKey(th) /\ ~Alert(th) /\ ~PopOldest(th)
  BY CacheMoves, DetectorMoves, AttachMoves
<1>4. KeptScratch(t)' = KeptScratch(t)
  BY <1>3, KeptScratchStays
<1>5. prompts'[t] = prompts[t] /\ alarms'[t] = alarms[t]
  BY <1>3, TraceSteps
<1>6. Counted(t)' /\ Reported(t, prompts[t])'
  BY <1>4, <1>5 DEF TraceExact, Counted, Reported
<1>7. \A u \in Threads \ {th} : pc'[u] # "idle" => Trace(u)' # t
  BY OthersStay DEF QuietTrace, Trace, Span
<1>8. <<>> # <<"budget">>
  OBVIOUS
<1>9. TraceStage(th)'
  BY <1>2, <1>6, <1>8 DEF TraceStage, Counting, Findings
<1>10. ~QuietTrace(t)'
  BY <1>2 DEF QuietTrace
<1> QED  BY <1>7, <1>9, <1>10 DEF TraceExact

LEMMA TracesExactKept ==
  ASSUME TypeOK, ObjectsApart, KeysOnce, NothingEvicted, Stages, OneAtATime, TracesExact,
         NEW th \in Threads, Acts(th)
  PROVE  TracesExact'
<1> SUFFICES ASSUME NEW t \in Traces, t \notin raced', Room("traces")', Room("spans")'
             PROVE  TraceExact(t)'
  BY DEF TracesExact, TraceExact
<1>1. Room("traces") /\ Room("spans") /\ t \notin raced
  BY RoomBefore, RacedGrows DEF Caches
<1>2. TraceExact(t)
  BY <1>1 DEF TracesExact, TraceExact
<1>3. CASE pc[th] # "idle" /\ Trace(th) = t
  <2>1. \A u \in Threads \ {th} : pc[u] # "idle" => Trace(u) # t
    BY <1>1, <1>3 DEF OneAtATime
  <2> QED  BY <1>1, <1>2, <1>3, <2>1, TraceExactHere
<1>4. CASE pc[th] = "idle" /\ Trace(th)' = t
  <2>1. \A u \in Threads \ {th} : pc[u] # "idle" => Trace(u) # t
    BY <1>4, RacedByCall DEF Trace, Span
  <2>2. QuietTrace(t)
    BY <1>4, <2>1 DEF QuietTrace
  <2> QED  BY <1>1, <1>2, <1>4, <2>2, TraceExactBegins
<1>5. CASE ~(pc[th] # "idle" /\ Trace(th) = t) /\ ~(pc[th] = "idle" /\ Trace(th)' = t)
  <2>1. ~(PopOldest(th) /\ frame[th].cache = "traces")
    BY <1>1, CacheMoves DEF NothingEvicted, Caches
  <2>2. pc'[th] # "idle" => Trace(th)' # t
    BY <1>5, SpanStays DEF Leaves, Trace, Span
  <2> QED  BY <1>2, <1>5, <2>1, <2>2, TraceExactElsewhere
<1> QED  BY <1>3, <1>4, <1>5

-----------------------------------------------------------------------------
(* The invariant, and what follows from it. *)

LEMMA InitInv == Init => Inv
<1> SUFFICES ASSUME Init
             PROVE  Inv
  OBVIOUS
<1> USE DEF Init
<1>1. TypeOK
  <2>1. \A A : <<>> \in Seq(A)
    OBVIOUS
  <2> QED  BY <2>1, NewFrames DEF TypeOK, CallTypes, CacheTypes, OutputTypes, Places, CacheKey
<1>2. \A th \in Threads : /\ pc[th] = "idle" /\ frame[th] = NoFrame
                          /\ frame[th].cache = "traces" /\ frame[th].findings = <<>>
                          /\ frame[th].count = 0 /\ frame[th].types = {}
  BY DEF NoFrame, NewFrame
<1>3. \A c \in Caches : order[c] = <<>> /\ used[c] = {} /\ failed[c] = {} /\ ToSet(<<>>) = {}
  BY DEF ToSet
<1>4. <<>> # <<"budget">>
  OBVIOUS
<1>5. Stages
  BY <1>2, <1>4 DEF Stages, Stage, Findings, Looking, Counting, Attaching
<1>6. KeysOnce
  BY <1>2, <1>3 DEF KeysOnce, Looking
<1>7. NothingEvicted
  BY <1>2, <1>3 DEF NothingEvicted
<1>8. CacheBounded
  <2> SUFFICES ASSUME NEW c \in Caches
               PROVE  Len(order[c]) <= Cap(c) + Cardinality(Trimming(c))
    BY DEF CacheBounded
  <2>1. IsFiniteSet(Trimming(c))
    BY ThreadsAssumption, FS_Subset DEF Trimming
  <2>2. Cardinality(Trimming(c)) \in Nat
    BY <2>1, FS_CardinalityType
  <2> QED  BY <1>3, <2>2, ThreadsAssumption DEF Cap
<1>9. /\ \A s \in Spans : ListsOf(s) = {}
      /\ \A t \in Traces : ScratchesOf(t) = {}
  <2>1. \A k \in CacheKey : value["spans"][k] = 0 /\ value["traces"][k] = 0
    BY DEF Caches, CacheKey
  <2>2. \A th \in Threads : pc[th] \notin Attaching \cup Counting
    BY <1>2 DEF Attaching, Counting
  <2> QED  BY <2>1, <2>2 DEF ListsOf, ScratchesOf, CacheKey
<1>10. ObjectsApart
  BY <1>9 DEF ObjectsApart
<1>11. \A s \in Spans : Pending(s) = {} /\ Cardinality(Pending(s)) = 0
  BY <1>2, FS_EmptySet DEF Pending
<1>12. SpansFollow
  BY <1>2, <1>9, <1>11 DEF SpansFollow, Span
<1>13. TracesFollow
  <2>1. \A t \in Traces : ~(alarms[t] > 0)
    OBVIOUS
  <2>2. \A th \in Threads : Findings(th) # <<"budget">> /\ pc[th] \notin {"write", "flagged", "mark"}
    BY <1>2, <1>4 DEF Findings
  <2> QED  BY <1>9, <2>1, <2>2 DEF TracesFollow
<1>14. OneAtATime
  BY <1>2 DEF OneAtATime
<1>15. \A k : ~Contains(<<>>, k)
  BY DEF Contains
<1>16. SpansExact
  BY <1>2, <1>3, <1>15 DEF SpansExact, KeptList, ExactSummary, Caches
<1>17. TracesExact
  BY <1>2, <1>3, <1>15, ThreadsAssumption
     DEF TracesExact, KeptScratch, Caches, Counted, Reported, Exceeded
<1> QED  BY <1>1, <1>5, <1>6, <1>7, <1>8, <1>10, <1>12, <1>13, <1>14, <1>16, <1>17
         DEF Inv, CacheInv

LEMMA InvKept == Inv /\ [Next]_vars => Inv'
<1> SUFFICES ASSUME Inv, [Next]_vars
             PROVE  Inv'
  OBVIOUS
<1>1. CASE Next
  <2>1. PICK th \in Threads : Acts(th)
    BY <1>1 DEF Next, Acts
  <2> USE DEF Inv, CacheInv
  <2>2. TypeOK' /\ Stages'
    BY <2>1, TypesKept, StagesKept
  <2>3. KeysOnce' /\ NothingEvicted' /\ CacheBounded' /\ ObjectsApart'
    BY <2>1, KeysOnceKept, NothingEvictedKept, CacheBoundedKept, ObjectsApartKept
  <2>4. SpansFollow' /\ TracesFollow' /\ OneAtATime'
    BY <2>1, SpansFollowKept, TracesFollowKept, OneAtATimeKept
  <2>5. SpansExact' /\ TracesExact'
    BY <2>1, SpansExactKept, TracesExactKept
  <2> QED  BY <2>2, <2>3, <2>4, <2>5
<1>2. CASE UNCHANGED vars
  <2> USE DEF Inv, CacheInv, Span, Trace, Findings, Key
  <2>1. /\ pc' = pc /\ frame' = frame /\ order' = order /\ value' = value
        /\ scratch' = scratch /\ lists' = lists /\ events' = events /\ summary' = summary
        /\ used' = used /\ raced' = raced /\ failed' = failed
        /\ prompts' = prompts /\ alarms' = alarms
    BY <1>2 DEF vars, dicts, objects, outputs, ghosts
  <2>2. TypeOK' /\ Stages'
    BY <2>1 DEF TypeOK, CallTypes, CacheTypes, OutputTypes, Stages, Stage
  <2>3. KeysOnce' /\ NothingEvicted' /\ CacheBounded'
    BY <2>1 DEF KeysOnce, NothingEvicted, CacheBounded, Trimming, Room
  <2>4. /\ \A s \in Spans : ListsOf(s)' = ListsOf(s) /\ Pending(s)' = Pending(s)
        /\ \A t \in Traces : ScratchesOf(t)' = ScratchesOf(t)
    BY <2>1 DEF ListsOf, ScratchesOf, Pending
  <2>5. ObjectsApart'
    BY <2>1, <2>4 DEF ObjectsApart
  <2>6. SpansFollow'
    BY <2>1, <2>4 DEF SpansFollow
  <2>7. TracesFollow' /\ OneAtATime'
    BY <2>1, <2>4 DEF TracesFollow, OneAtATime
  <2>8. \A c : Room(c)' = Room(c)
    BY <2>1 DEF Room
  <2>9. SpansExact'
    <3>1. \A s : KeptList(s)' = KeptList(s) /\ ExactSummary(s)' = ExactSummary(s)
      BY <2>1 DEF KeptList, ExactSummary
    <3>2. \A th \in Threads : SpanStage(th) => SpanStage(th)'
      BY <2>1, <3>1 DEF SpanStage
    <3> QED  BY <2>1, <2>8, <3>1, <3>2 DEF SpansExact
  <2>10. TracesExact'
    <3>1. \A t : KeptScratch(t)' = KeptScratch(t) /\ QuietTrace(t)' = QuietTrace(t)
      BY <2>1 DEF KeptScratch, QuietTrace
    <3>2. \A t : /\ Counted(t)' = Counted(t)
                 /\ Reported(t, prompts[t])' = Reported(t, prompts[t])
                 /\ Reported(t, prompts[t] - 1)' = Reported(t, prompts[t] - 1)
      BY <2>1, <3>1 DEF Counted, Reported
    <3>3. \A th \in Threads : TraceStage(th) => TraceStage(th)'
      BY <2>1, <3>1, <3>2 DEF TraceStage
    <3> QED  BY <2>1, <2>8, <3>1, <3>2, <3>3 DEF TracesExact
  <2> QED  BY <2>2, <2>3, <2>5, <2>6, <2>7, <2>9, <2>10
<1> QED  BY <1>1, <1>2

LEMMA Invariance == Spec => []Inv
  BY InitInv, InvKept, PTL DEF Spec

\* _state_for and _events_for (pipeline.py:104): a cache that n calls fill at once
\* exceeds its cap by n at most, and only until they have trimmed it, for any
\* number of threads and any cap.
THEOREM CachesStayBounded == Spec => []CacheBounded
<1>1. Inv => CacheBounded
  BY DEF Inv, CacheInv
<1> QED  BY <1>1, Invariance, PTL

\* No call is lost to a KeyError (pipeline.py:111 and :120) in a cache that had
\* room for every key, however the threads' inserts, renewals and trims mix.
THEOREM NoFailureWithRoom == Spec => []FailsOnlyWhenFull
<1>1. Inv => FailsOnlyWhenFull
  BY DEF Inv, CacheInv, NothingEvicted, FailsOnlyWhenFull
<1> QED  BY <1>1, Invariance, PTL

\* Whatever races and evictions lose, a summary counts no more than the events
\* that are on the span, and there is no alarm within the budget.
THEOREM RacesInventNothing == Spec => []NothingInvented
<1>1. Inv => NothingInvented
  BY DEF Inv, SpansFollow, TracesFollow, NothingInvented
<1> QED  BY <1>1, Invariance, PTL

\* _attach (pipeline.py:73): calls of any number of threads on other spans leave the
\* list and the summary of a span exact, if its own calls did not overlap.
THEOREM QuietSpansAreExact == Spec => []QuietSpanExact
<1>1. ASSUME Inv
      PROVE  QuietSpanExact
  <2> SUFFICES ASSUME NEW s \in Spans \ raced, Quiet(s), Room("spans")
               PROVE  /\ Contains(order["spans"], s) => lists[value["spans"][s]] = events[s]
                      /\ summary[s] = ExactSummary(s)
    BY DEF QuietSpanExact, ExactSummary
  <2>1. \A th \in Threads : Span(th) = s => frame[th].cache = "traces"
    BY <1>1 DEF Quiet, Inv, Stages, Stage
  <2>2. KeptList(s) = events[s] /\ summary[s] = ExactSummary(s)
    BY <1>1, <2>1 DEF Inv, SpansExact
  <2> QED  BY <2>2 DEF KeptList
<1>2. Inv => QuietSpanExact
  BY <1>1
<1> QED  BY <1>2, Invariance, PTL

\* CostLoopDetector.scan (cost_loop.py): calls on other traces neither raise nor
\* delay nor repeat the budget alarm of a trace whose own calls did not overlap.
THEOREM QuietTracesAreExact == Spec => []QuietTraceExact
<1>1. Inv => QuietTraceExact
  BY DEF Inv, TracesExact, QuietTraceExact, Reported, Exceeded
<1> QED  BY <1>1, Invariance, PTL

-----------------------------------------------------------------------------
(* Calls that do not overlap. *)

\* The places at which the order is not yet what the call will make of it.
Unsettled == {"insert", "renew", "check", "pop"}

\* Outside a lookup the order is what it looks like.
LEMMA SettledAtRest ==
  ASSUME \A th \in Threads : pc[th] \notin Unsettled, NEW c \in Caches
  PROVE  SettledOrder(c) = order[c]
<1>1. CASE Using(c) = {}
  BY <1>1 DEF SettledOrder
<1>2. CASE Using(c) # {}
  <2> DEFINE u == CHOOSE th \in Using(c) : TRUE
  <2>1. u \in Using(c)
    BY <1>2
  <2>2. u \in Threads /\ frame[u].cache = c
    BY <2>1 DEF Using
  <2>3. SettledOrder(c) = Settled(u)
    BY <1>2 DEF SettledOrder
  <2> HIDE DEF u
  <2> QED  BY <2>2, <2>3 DEF Settled, Order, Unsettled
<1> QED  BY <1>1, <1>2

AllSettled == \A th \in Threads : pc[th] \notin Unsettled
OrdersAsSettled == \A c \in Caches : SettledOrder(c) = order[c]

\* The same after a step.
LEMMA SettledAfter == AllSettled' => OrdersAsSettled'
<1>1. AllSettled => OrdersAsSettled
  BY SettledAtRest DEF AllSettled, OrdersAsSettled
<1> QED  BY <1>1, PTL

\* The only call decides what its cache settles to, now and after a step.
LEMMA SettledBy ==
  ASSUME NEW th \in Threads, OneCall, pc[th] # "idle", NEW c \in Caches
  PROVE  SettledOrder(c) = IF c = frame[th].cache THEN Settled(th) ELSE order[c]
<1>1. Using(c) = IF c = frame[th].cache THEN {th} ELSE {}
  BY DEF Using, OneCall
<1>2. (CHOOSE u \in {th} : TRUE) = th
  OBVIOUS
<1> QED  BY <1>1, <1>2 DEF SettledOrder

LEMMA SettledNext ==
  ASSUME NEW th \in Threads, OneCall', pc'[th] # "idle", NEW c \in Caches
  PROVE  SettledOrder(c)' = IF c = frame'[th].cache THEN Settled(th)' ELSE order'[c]
<1>1. Using(c)' = IF c = frame'[th].cache THEN {th} ELSE {}
  BY DEF Using, OneCall
<1>2. (CHOOSE u \in {th} : TRUE) = th
  OBVIOUS
<1> QED  BY <1>1, <1>2 DEF SettledOrder

\* What KeyHeld says after a step that keeps the frame.
LEMMA KeyHeldNext ==
  ASSUME NEW th \in Threads, frame'[th] = frame[th]
  PROVE  LET o == order'[frame[th].cache]
             key == Key(th)
         IN  KeyHeld(th)' <=>
               /\ pc'[th] = "insert" => ~Contains(o, key)
               /\ pc'[th] \in {"renew", "fetch"} => Contains(o, key)
               /\ pc'[th] \in {"check", "pop"} => o # <<>> /\ o[Len(o)] = key
               /\ pc'[th] = "pop" => Len(o) > Cap(frame[th].cache)
<1>1. Key(th)' = Key(th) /\ Order(th)' = order'[frame[th].cache]
  BY DEF Key, Trace, Span, Order
<1>2. OverCap(th)' <=> Len(order'[frame[th].cache]) > Cap(frame[th].cache)
  BY DEF OverCap, Order, Cap
<1> QED  BY <1>1, <1>2 DEF KeyHeld

\* The threads that a step does not belong to are idle before and after it.
LEMMA OthersIdle ==
  ASSUME TypeOK, ObjectsApart, NEW th \in Threads, Acts(th), OneCall, OneCall',
         NEW u \in Threads, u # th
  PROVE  pc[u] = "idle" /\ pc'[u] = "idle"
<1>1. pc'[u] = pc[u]
  BY OthersStay
<1>2. pc[th] # "idle" \/ pc'[th] # "idle"
  <2>1. CASE \E s \in Spans, isPrompt \in BOOLEAN : Call(th, s, isPrompt)
    <3>1. pc'[th] = "lookup"
      BY <2>1, CallMoves
    <3> QED  BY <3>1
  <2>2. CASE InCache(th)
    BY <2>2, CacheMoves DEF InCache
  <2>3. CASE InDetectors(th)
    BY <2>3, DetectorMoves DEF InDetectors
  <2>4. CASE InAttach(th)
    BY <2>4, AttachMoves DEF InAttach
  <2> QED  BY <2>1, <2>2, <2>3, <2>4 DEF Acts
<1>3. pc[u] # "idle" => pc[th] = "idle"
  BY DEF OneCall
<1>4. pc'[u] # "idle" => pc'[th] = "idle"
  BY DEF OneCall
<1> QED  BY <1>1, <1>2, <1>3, <1>4

\* The steps that are no part of a lookup.
Searches(th) == LookUp(th) \/ InsertKey(th) \/ CheckCap(th) \/ PopOldest(th) \/ Renew(th)

LEMMA OtherSteps ==
  ASSUME TypeOK, NEW th \in Threads, Acts(th), ~Searches(th)
  PROVE  /\ order' = order
         /\ pc[th] # "lookup" /\ pc[th] \notin Unsettled /\ pc'[th] \notin Unsettled
         /\ pc'[th] # "fetch"
<1> USE DEF Unsettled
<1>1. CASE \E s \in Spans, isPrompt \in BOOLEAN : Call(th, s, isPrompt)
  <2>1. PICK s \in Spans, isPrompt \in BOOLEAN : Call(th, s, isPrompt)
    BY <1>1
  <2>2. pc[th] = "idle" /\ pc'[th] = "lookup"
    BY <2>1, CallMoves
  <2> QED  BY <2>1, <2>2 DEF Call, dicts
<1>2. CASE InCache(th)
  <2>1. Fetch(th)
    BY <1>2 DEF InCache, Searches
  <2>2. order' = order
    BY <2>1 DEF Fetch, dicts
  <2> QED  BY <2>1, <2>2, CacheMoves DEF Leaves
<1>3. CASE InDetectors(th)
  <2>1. order' = order
    BY <1>3 DEF InDetectors, ReadCalls, WriteCalls, CheckBudget, CheckFlagged, Mark, ScanContent,
                dicts
  <2> QED  BY <1>3, <2>1, DetectorMoves DEF InDetectors, Leaves
<1>4. CASE InAttach(th)
  <2>1. order' = order
    BY <1>4 DEF InAttach, AddEvents, Extend, MeasureCount, MeasureTypes, SetCount, SetTypes, Alert,
                dicts
  <2> QED  BY <1>4, <2>1, AttachMoves DEF InAttach, Leaves
<1> QED  BY <1>1, <1>2, <1>3, <1>4 DEF Acts

\* What the parts of a lookup make of the order of their cache.
LEMMA SearchSteps ==
  ASSUME TypeOK, ObjectsApart, NEW th \in Threads, Acts(th), Searches(th), KeyHeld(th)
  PROVE  LET c == frame[th].cache
             o == order[c]
             key == Key(th)
         IN  /\ frame'[th] = frame[th] /\ Key(th)' = key
             /\ \A d \in Caches \ {c} : order'[d] = order[d]
             /\ LookUp(th) => order'[c] = o
             /\ InsertKey(th) => ~Contains(o, key) /\ order'[c] = Append(o, key)
             /\ CheckCap(th) => order'[c] = o
             /\ PopOldest(th) => /\ pc'[th] = "fetch" /\ o # <<>> /\ OverCap(th)
                                 /\ order'[c] = Tail(o)
             /\ Renew(th) => /\ pc'[th] = "fetch" /\ Contains(o, key)
                             /\ order'[c] = MoveToEnd(o, key)
<1>1. order \in [Caches -> Seq(CacheKey)] /\ frame[th].cache \in Caches
  BY CallFacts DEF TypeOK, CacheTypes
<1>2. PopOldest(th) => Order(th) # <<>> /\ OverCap(th)
  BY CacheMoves DEF KeyHeld
<1>3. Renew(th) => Contains(Order(th), Key(th))
  BY CacheMoves DEF KeyHeld
<1>4. InsertKey(th) => ~Contains(Order(th), Key(th))
  BY CacheMoves DEF KeyHeld
<1>5. PopOldest(th) => pc'[th] = "fetch" /\ frame'[th] = frame[th]
  <2>1. PopOldest(th) => Goes(th, "pop", "fetch") /\ UNCHANGED frame
    BY <1>2 DEF PopOldest
  <2> QED  BY <2>1 DEF Goes, TypeOK, CallTypes
<1>6. frame'[th] = frame[th] /\ (Renew(th) => pc'[th] = "fetch")
  BY <1>3, <1>5, CacheMoves DEF Searches
<1>7. Key(th)' = Key(th)
  BY <1>6 DEF Key, Trace, Span
<1>8. CASE LookUp(th) \/ CheckCap(th)
  <2>1. order' = order
    BY <1>8 DEF LookUp, CheckCap, dicts
  <2>2. ~InsertKey(th) /\ ~PopOldest(th) /\ ~Renew(th)
    BY <1>8, CacheMoves
  <2> QED  BY <1>6, <1>7, <2>1, <2>2
<1>9. CASE InsertKey(th)
  <2>1. order' = [order EXCEPT ![frame[th].cache] = Append(@, Key(th))]
    BY <1>1, <1>4, <1>9 DEF InsertKey, Order
  <2>2. ~LookUp(th) /\ ~CheckCap(th) /\ ~PopOldest(th) /\ ~Renew(th)
    BY <1>9, CacheMoves
  <2> QED  BY <1>1, <1>4, <1>6, <1>7, <2>1, <2>2 DEF Order
<1>10. CASE PopOldest(th)
  <2>1. order' = [order EXCEPT ![frame[th].cache] = Tail(@)]
    BY <1>2, <1>10 DEF PopOldest
  <2>2. ~LookUp(th) /\ ~CheckCap(th) /\ ~InsertKey(th) /\ ~Renew(th)
    BY <1>10, CacheMoves
  <2>3. /\ order'[frame[th].cache] = Tail(order[frame[th].cache])
        /\ \A d \in Caches \ {frame[th].cache} : order'[d] = order[d]
    BY <1>1, <2>1
  <2>4. order[frame[th].cache] # <<>>
    BY <1>2, <1>10 DEF Order
  <2> QED  BY <1>2, <1>5, <1>6, <1>7, <1>10, <2>2, <2>3, <2>4
<1>11. CASE Renew(th)
  <2>1. order' = [order EXCEPT ![frame[th].cache] = MoveToEnd(@, Key(th))]
    BY <1>3, <1>11 DEF Renew
  <2>2. ~LookUp(th) /\ ~CheckCap(th) /\ ~InsertKey(th) /\ ~PopOldest(th)
    BY <1>11, CacheMoves
  <2> QED  BY <1>1, <1>3, <1>6, <1>7, <2>1, <2>2 DEF Order
<1> QED  BY <1>8, <1>9, <1>10, <1>11 DEF Searches

\* Between two steps the only call holds its key.
LEMMA SerialInvKept ==
  ASSUME TypeOK, ObjectsApart, SerialInv, OneCall, OneCall', NEW th \in Threads, Acts(th)
  PROVE  SerialInv'
<1>1. KeyHeld(th) /\ \A c \in Caches : failed[c] = {}
  BY DEF SerialInv, NoneFailed
<1> DEFINE c == frame[th].cache
           key == Key(th)
           o == order[c]
<1>2. c \in Caches /\ key \in CacheKey /\ o \in Seq(CacheKey) /\ o = Order(th)
  BY CallFacts DEF Order
<1>3. Len(o) \in Nat /\ DOMAIN o = 1 .. Len(o)
  BY <1>2, OrderShape
<1>4. ASSUME NEW d \in Caches
      PROVE  failed'[d] = {}
  <2>1. PopOldest(th) => o # <<>> /\ pc'[th] = "fetch"
    BY <1>1, SearchSteps DEF Searches
  <2>2. PopOldest(th) => failed' = failed
    BY <1>2, <2>1 DEF PopOldest
  <2>3. Renew(th) \/ Fetch(th) => Contains(Order(th), Key(th))
    BY <1>1, CacheMoves DEF KeyHeld
  <2> QED  BY <1>1, <2>2, <2>3, UseSteps
<1>5. ASSUME NEW u \in Threads, u # th
      PROVE  KeyHeld(u)'
  <2>1. pc'[u] = "idle"
    BY <1>5, OthersIdle
  <2> QED  BY <2>1 DEF KeyHeld
<1>6. CASE ~Searches(th)
  <2>1. pc'[th] \notin Unsettled \cup {"fetch"}
    BY <1>6, OtherSteps
  <2>2. KeyHeld(th)'
    BY <2>1 DEF KeyHeld, Unsettled
  <2> QED  BY <1>4, <1>5, <2>2 DEF SerialInv, NoneFailed
<1>7. ASSUME Searches(th)
      PROVE  KeyHeld(th)'
  <2>1. frame'[th] = frame[th] /\ Key(th)' = key
    BY <1>1, <1>7, SearchSteps
  <2>2. \/ ~(pc'[th] = "insert" => ~Contains(order'[c], key))
        \/ ~(pc'[th] \in {"renew", "fetch"} => Contains(order'[c], key))
        \/ ~(pc'[th] \in {"check", "pop"} =>
               order'[c] # <<>> /\ order'[c][Len(order'[c])] = key)
        \/ ~(pc'[th] = "pop" => Len(order'[c]) > Cap(c))
        \/ KeyHeld(th)'
    BY <2>1, KeyHeldNext
  <2>3. CASE LookUp(th)
    <3>1. order'[c] = o
      BY <1>1, <1>7, <2>3, SearchSteps
    <3>2. pc'[th] = IF Contains(o, key) THEN "renew" ELSE "insert"
      BY <1>2, <2>3, CacheMoves
    <3> QED  BY <2>2, <3>1, <3>2
  <2>4. CASE InsertKey(th)
    <3>1. order'[c] = Append(o, key) /\ pc'[th] = "check"
      BY <1>1, <1>7, <2>4, SearchSteps, CacheMoves
    <3>2. Len(Append(o, key)) = Len(o) + 1 /\ Append(o, key)[Len(o) + 1] = key
      BY <1>2, AppendProperties
    <3>3. Append(o, key) # <<>>
      BY <1>2, AppendProperties
    <3> QED  BY <1>3, <2>2, <3>1, <3>2, <3>3
  <2>5. CASE CheckCap(th)
    <3>1. order'[c] = o /\ pc'[th] = IF OverCap(th) THEN "pop" ELSE "fetch"
      BY <1>1, <1>7, <2>5, SearchSteps, CacheMoves
    <3>2. o # <<>> /\ o[Len(o)] = key
      BY <1>1, <1>2, <2>5, CacheMoves DEF KeyHeld
    <3>3. Contains(o, key)
      <4>1. Len(o) # 0
        BY <1>2, <3>2, EmptySeq
      <4>2. Len(o) \in 1 .. Len(o)
        BY <1>3, <4>1
      <4> QED  BY <3>2, <4>2 DEF Contains
    <3>4. OverCap(th) => Len(o) > Cap(c)
      BY DEF OverCap, Order
    <3> QED  BY <2>2, <3>1, <3>2, <3>3, <3>4
  <2>6. CASE PopOldest(th)
    <3>1. order'[c] = Tail(o) /\ pc'[th] = "fetch" /\ o # <<>> /\ OverCap(th)
      BY <1>1, <1>7, <2>6, SearchSteps
    <3>2. o[Len(o)] = key
      BY <1>1, <1>2, <2>6, CacheMoves DEF KeyHeld
    <3>3. Len(o) > 1
      BY <1>2, <1>3, <3>1, ThreadsAssumption DEF OverCap, Cap
    <3>4. /\ Len(Tail(o)) = Len(o) - 1
          /\ \A i \in 1 .. Len(Tail(o)) : Tail(o)[i] = o[i + 1]
      BY <1>2, <3>1, HeadTailProperties
    <3>5. Len(o) - 1 \in 1 .. Len(Tail(o)) /\ Tail(o)[Len(o) - 1] = key
      BY <1>3, <3>2, <3>3, <3>4
    <3>6. Contains(Tail(o), key)
      BY <3>5 DEF Contains
    <3> QED  BY <2>2, <3>1, <3>6
  <2>7. CASE Renew(th)
    <3>1. order'[c] = MoveToEnd(o, key) /\ pc'[th] = "fetch" /\ Contains(o, key)
      BY <1>1, <1>7, <2>7, SearchSteps
    <3>2. Contains(MoveToEnd(o, key), key)
      BY <1>2, <3>1, MovedKeys
    <3> QED  BY <2>2, <3>1, <3>2
  <2> QED  BY <1>7, <2>3, <2>4, <2>5, <2>6, <2>7 DEF Searches
<1> QED  BY <1>4, <1>5, <1>6, <1>7 DEF SerialInv, NoneFailed

\* What a step of the only call makes of the order that it leaves in its cache.
LEMMA SettledSteps ==
  ASSUME TypeOK, ObjectsApart, SerialInv, OneCall, OneCall', NEW th \in Threads, Acts(th),
         Searches(th), NEW d \in Caches
  PROVE  SettledOrder(d)' = IF LookUp(th) /\ d = frame[th].cache
                             THEN Touch(SettledOrder(d), Key(th), Cap(d))
                             ELSE SettledOrder(d)
<1>1. KeyHeld(th)
  BY DEF SerialInv
<1> DEFINE c == frame[th].cache
           key == Key(th)
           o == order[c]
<1>2. c \in Caches /\ key \in CacheKey /\ o \in Seq(CacheKey) /\ o = Order(th)
  BY CallFacts DEF Order
<1>3. frame'[th] = frame[th] /\ Key(th)' = key /\ Order(th)' = order'[c]
  BY <1>1, SearchSteps DEF Order
<1>4. pc[th] # "idle" /\ pc'[th] # "idle"
  BY <1>1, SearchSteps, CacheMoves DEF Searches
<1>5. SettledOrder(d) = IF d = c THEN Settled(th) ELSE order[d]
  BY <1>4, SettledBy
<1>6. SettledOrder(d)' = IF d = c THEN Settled(th)' ELSE order'[d]
  BY <1>3, <1>4, SettledNext
<1>7. CASE d # c
  <2>1. order'[d] = order[d]
    BY <1>1, <1>7, SearchSteps
  <2> QED  BY <1>5, <1>6, <1>7, <2>1
<1>8. CASE d = c
  <2> SUFFICES Settled(th)' = IF LookUp(th) THEN Touch(Settled(th), key, Cap(c))
                                            ELSE Settled(th)
    BY <1>5, <1>6, <1>8
  <2>1. Settled(th)' = IF pc'[th] = "insert" THEN Insert(order'[c], key, Cap(c))
                       ELSE IF pc'[th] = "renew" THEN MoveToEnd(order'[c], key)
                       ELSE IF pc'[th] \in {"check", "pop"} /\ Len(order'[c]) > Cap(c)
                         THEN Tail(order'[c])
                       ELSE order'[c]
    BY <1>3 DEF Settled, OverCap, Cap
  <2>2. Settled(th) = IF pc[th] = "insert" THEN Insert(o, key, Cap(c))
                      ELSE IF pc[th] = "renew" THEN MoveToEnd(o, key)
                      ELSE IF pc[th] \in {"check", "pop"} /\ Len(o) > Cap(c) THEN Tail(o)
                      ELSE o
    BY <1>2 DEF Settled, OverCap
  <2> HIDE DEF o, key
  <2>3. CASE LookUp(th)
    <3>1. /\ order'[c] = o /\ pc[th] = "lookup"
          /\ pc'[th] = IF Contains(o, key) THEN "renew" ELSE "insert"
      BY <1>1, <1>2, <2>3, SearchSteps, CacheMoves DEF Searches, o, key
    <3> QED  BY <2>1, <2>2, <2>3, <3>1 DEF Touch, Cached
  <2>4. CASE InsertKey(th)
    <3>1. order'[c] = Append(o, key) /\ pc[th] = "insert" /\ pc'[th] = "check"
      BY <1>1, <2>4, SearchSteps, CacheMoves DEF Searches, o, key
    <3>2. Len(Append(o, key)) = Len(o) + 1
      BY <1>2, AppendProperties
    <3>3. ~LookUp(th)
      BY <3>1, CacheMoves
    <3> QED  BY <2>1, <2>2, <3>1, <3>2, <3>3 DEF Insert
  <2>5. CASE CheckCap(th)
    <3>1. /\ order'[c] = o /\ pc[th] = "check"
          /\ pc'[th] = IF OverCap(th) THEN "pop" ELSE "fetch"
      BY <1>1, <2>5, SearchSteps, CacheMoves DEF Searches, o
    <3>2. OverCap(th) <=> Len(o) > Cap(c)
      BY <1>2 DEF OverCap
    <3>3. ~LookUp(th)
      BY <3>1, CacheMoves
    <3> QED  BY <2>1, <2>2, <3>1, <3>2, <3>3
  <2>6. CASE PopOldest(th)
    <3>1. order'[c] = Tail(o) /\ pc[th] = "pop" /\ pc'[th] = "fetch" /\ OverCap(th)
      BY <1>1, <2>6, SearchSteps, CacheMoves DEF Searches, o
    <3>2. Len(o) > Cap(c)
      BY <1>2, <3>1 DEF OverCap
    <3>3. ~LookUp(th)
      BY <3>1, CacheMoves
    <3> QED  BY <2>1, <2>2, <3>1, <3>2, <3>3
  <2>7. CASE Renew(th)
    <3>1. order'[c] = MoveToEnd(o, key) /\ pc[th] = "renew" /\ pc'[th] = "fetch"
      BY <1>1, <2>7, SearchSteps, CacheMoves DEF Searches, o, key
    <3>2. ~LookUp(th)
      BY <3>1, CacheMoves
    <3> QED  BY <2>1, <2>2, <3>1, <3>2
  <2> QED  BY <2>3, <2>4, <2>5, <2>6, <2>7 DEF Searches
<1> QED  BY <1>7, <1>8

\* A step of the only call touches its key at the lookup and nothing otherwise.
LEMMA TouchOnlyStep ==
  ASSUME TypeOK, ObjectsApart, SerialInv, OneCall, OneCall', NEW th \in Threads, Acts(th)
  PROVE  TouchOnly
<1>1. ASSUME NEW u \in Threads, NEW d \in Caches
      PROVE  LooksUp(u, d) <=> u = th /\ LookUp(th) /\ d = frame[th].cache
  <2>1. CASE u # th
    <3>1. pc[u] = "idle"
      BY <2>1, OthersIdle
    <3> QED  BY <2>1, <3>1 DEF LooksUp
  <2>2. CASE u = th
    <3>1. LookUp(th) => pc[th] = "lookup" /\ pc'[th] # "lookup"
      BY CacheMoves
    <3>2. ~LookUp(th) => pc[th] # "lookup"
      BY OtherSteps, CacheMoves DEF Searches
    <3> QED  BY <2>2, <3>1, <3>2 DEF LooksUp
  <2> QED  BY <2>1, <2>2
<1>2. ASSUME NEW d \in Caches
      PROVE  SettledOrder(d)' = IF LookUp(th) /\ d = frame[th].cache
                                 THEN Touch(SettledOrder(d), Key(th), Cap(d))
                                 ELSE SettledOrder(d)
  <2>1. CASE Searches(th)
    BY <2>1, SettledSteps
  <2>2. CASE ~Searches(th)
    <3>1. /\ order' = order
          /\ pc[th] \notin Unsettled /\ pc'[th] \notin Unsettled
      BY <2>2, OtherSteps
    <3>2. \A u \in Threads : pc[u] \notin Unsettled /\ pc'[u] \notin Unsettled
      BY <3>1, OthersIdle DEF Unsettled
    <3>3. SettledOrder(d) = order[d]
      BY <3>2, SettledAtRest
    <3>4. SettledOrder(d)' = order'[d]
      BY <3>2, SettledAfter DEF AllSettled, OrdersAsSettled
    <3> QED  BY <2>2, <3>1, <3>3, <3>4 DEF Searches
  <2> QED  BY <2>1, <2>2
<1> QED  BY <1>1, <1>2 DEF TouchOnly, Cap

\* The only call keeps its key, and fails at no step.
LEMMA SerialInvariance == Spec /\ []OneCall => []SerialInv
<1>1. Init => SerialInv
  BY DEF Init, SerialInv, NoneFailed, KeyHeld
<1>2. Inv /\ SerialInv /\ OneCall /\ OneCall' /\ [Next]_vars => SerialInv'
  <2> SUFFICES ASSUME Inv, SerialInv, OneCall, OneCall', [Next]_vars
               PROVE  SerialInv'
    OBVIOUS
  <2>1. CASE Next
    <3>1. PICK th \in Threads : Acts(th)
      BY <2>1 DEF Next, Acts
    <3> QED  BY <3>1, SerialInvKept DEF Inv
  <2>2. CASE UNCHANGED vars
    <3>1. pc' = pc /\ frame' = frame /\ order' = order /\ failed' = failed
      BY <2>2 DEF vars, dicts, ghosts
    <3>2. ASSUME NEW th \in Threads
          PROVE  KeyHeld(th)'
      BY <3>1, KeyHeldNext DEF SerialInv, KeyHeld, Order, OverCap
    <3> QED  BY <3>1, <3>2 DEF SerialInv, NoneFailed
  <2> QED  BY <2>1, <2>2
<1> QED  BY <1>1, <1>2, Invariance, PTL DEF Spec

\* asyncio hosts and hosts with one thread (__call__ awaits nothing, pipeline.py:67):
\* while calls do not overlap, none is lost to a KeyError (pipeline.py:111 and :120),
\* however small the caches are and however many spans and traces there are.
THEOREM SerialCallsNeverFail == Spec /\ []OneCall => []NoneFailed
<1>1. SerialInv => NoneFailed
  BY DEF SerialInv
<1> QED  BY <1>1, SerialInvariance, PTL

\* For the same hosts the many steps of _state_for and _events_for (pipeline.py:104)
\* change their OrderedDict by the one Touch that the module Pipeline takes them
\* for, whatever the cap: Pipeline's caches are what the code does there.
THEOREM SerialCachesAreLru == Spec /\ []OneCall => [][TouchOnly]_vars
<1>1. ASSUME Inv, SerialInv, OneCall, OneCall', [Next]_vars
      PROVE  [TouchOnly]_vars
  <2>1. CASE Next
    <3>1. PICK th \in Threads : Acts(th)
      BY <2>1 DEF Next, Acts
    <3> QED  BY <1>1, <3>1, TouchOnlyStep DEF Inv
  <2> QED  BY <1>1, <2>1
<1> QED  BY <1>1, Invariance, SerialInvariance, PTL DEF Spec
=============================================================================
