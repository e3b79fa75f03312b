-------------------------- MODULE PipelineThreads ---------------------------
(***************************************************************************)
(* The detection pipeline called from several threads at once.  Nothing in *)
(* pipeline.py or the detectors takes a lock; the interpreter makes one    *)
(* operation on a dict, a list or a span atomic and may switch threads     *)
(* between two.  A thread here is one call of __call__ after the other,    *)
(* each with a user prompt, which the cost/loop detector counts, or with   *)
(* another content, in which a stateless detector finds something.         *)
(*                                                                         *)
(* The two caches are OrderedDicts from a key to a mutable object; a call  *)
(* goes on using the object it fetched when the dict has lost it or got a  *)
(* new one, so that objects have an identity of their own here.            *)
(*                                                                         *)
(* Of the detectors' counters and flags the model has llm_calls and its    *)
(* rule: the others are read and written in the same way.  The same holds  *)
(* of max_severity and the backend copies, which are computed and set like *)
(* the types of a summary.                                                 *)
(***************************************************************************)
EXTENDS Lru

CONSTANTS
  Threads,
  Spans,
  Traces,
  TraceOf,     \* the trace of each span
  MaxSpans,    \* _MAX_TRACKED_SPANS
  MaxTraces,   \* _MAX_TRACKED_TRACES
  CallBudget,  \* config.llm_call_budget
  MaxCalls     \* bound on the calls of all threads

ASSUME ThreadsAssumption ==
  /\ IsFiniteSet(Threads) /\ IsFiniteSet(Spans) /\ IsFiniteSet(Traces) /\ Spans # {}
  /\ TraceOf \in [Spans -> Traces]
  /\ MaxSpans \in Nat \ {0} /\ MaxTraces \in Nat \ {0}
  /\ CallBudget \in Nat \ {0} /\ MaxCalls \in Nat

VARIABLES
  pc,        \* what a thread does next
  frame,     \* the locals of a thread's call
  order,     \* the keys of each cache, oldest use first
  value,     \* the object that a key of a cache stands for
  scratch,   \* the objects of the trace cache
  lists,     \* the objects of the span cache
  events,    \* the events of a span
  summary,   \* the summary attributes of a span
  \* History variables, which no action reads.
  calls,     \* calls so far, which bounds the model
  used,      \* the keys that were looked up in each cache
  raced,     \* spans and traces on which two calls overlapped
  failed,    \* the keys with which a KeyError ended a call, per cache
  prompts,   \* prompts per trace that were counted
  alarms     \* budget alarms per trace

objects == <<scratch, lists>>
dicts == <<order, value>>
outputs == <<events, summary>>
ghosts == <<calls, used, raced, failed, prompts, alarms>>
vars == <<pc, frame, dicts, objects, outputs, ghosts>>

Caches == {"traces", "spans"}
Cap(c) == IF c = "traces" THEN MaxTraces ELSE MaxSpans

\* What a call keeps: its span, whether its text is a prompt, the cache it works
\* on, the object it fetched from there, what it read of a counter or a list, and
\* its findings.
NewFrame(s, isPrompt) ==
  [span |-> s, isPrompt |-> isPrompt, cache |-> "traces", object |-> 0,
   calls |-> 0, count |-> 0, types |-> {}, findings |-> <<>>]

NoFrame == NewFrame(CHOOSE s \in Spans : TRUE, FALSE)

Span(th) == frame[th].span
Trace(th) == TraceOf[Span(th)]
Findings(th) == frame[th].findings
Key(th) == IF frame[th].cache = "traces" THEN Trace(th) ELSE Span(th)
Order(th) == order[frame[th].cache]

\* The call of a thread goes on to another step; its frame is gone when it ends.
Goes(th, from, to) == pc[th] = from /\ pc' = [pc EXCEPT ![th] = to]
Ends(th, from) == Goes(th, from, "idle") /\ frame' = [frame EXCEPT ![th] = NoFrame]

Init ==
  /\ pc = [th \in Threads |-> "idle"]
  /\ frame = [th \in Threads |-> NoFrame]
  /\ order = [c \in Caches |-> <<>>]
  /\ value = [c \in Caches |-> [k \in Spans \cup Traces |-> 0]]
  /\ scratch = <<>>
  /\ lists = <<>>
  /\ events = [s \in Spans |-> <<>>]
  /\ summary = [s \in Spans |-> [count |-> 0, types |-> {}]]
  /\ calls = 0
  /\ used = [c \in Caches |-> {}]
  /\ raced = {}
  /\ failed = [c \in Caches |-> {}]
  /\ prompts = [t \in Traces |-> 0]
  /\ alarms = [t \in Traces |-> 0]

Others(th) == {o \in Threads \ {th} : pc[o] # "idle"}

Call(th, s, isPrompt) ==
  /\ Goes(th, "idle", "lookup")
  /\ calls < MaxCalls
  /\ calls' = calls + 1
  /\ frame' = [frame EXCEPT ![th] = NewFrame(s, isPrompt)]
  /\ raced' = raced \cup ({s} \cap {Span(o) : o \in Others(th)})
                    \cup ({TraceOf[s]} \cap {Trace(o) : o \in Others(th)})
  /\ UNCHANGED <<dicts, objects, outputs, used, failed, prompts, alarms>>

-----------------------------------------------------------------------------
(* _state_for and _events_for. *)

\* key not in the dict
LookUp(th) ==
  /\ Goes(th, "lookup", IF Contains(Order(th), Key(th)) THEN "renew" ELSE "insert")
  /\ used' = [used EXCEPT ![frame[th].cache] = @ \cup {Key(th)}]
  /\ UNCHANGED <<frame, dicts, objects, outputs, calls, raced, failed, prompts, alarms>>

\* d[key] = {} or []: a key that another call inserted meanwhile keeps its place,
\* but gets a new object.
InsertKey(th) ==
  /\ Goes(th, "insert", "check")
  /\ order' = [order EXCEPT ![frame[th].cache] =
                 IF Contains(@, Key(th)) THEN @ ELSE Append(@, Key(th))]
  /\ IF frame[th].cache = "traces"
       THEN /\ scratch' = Append(scratch, [llm_calls |-> 0, flagged |-> FALSE])
            /\ value' = [value EXCEPT !["traces"][Key(th)] = Len(scratch) + 1]
            /\ UNCHANGED lists
       ELSE /\ lists' = Append(lists, <<>>)
            /\ value' = [value EXCEPT !["spans"][Key(th)] = Len(lists) + 1]
            /\ UNCHANGED scratch
  /\ UNCHANGED <<frame, outputs, ghosts>>

\* Mutant: the cap is off by one.
OverCapEarly(th) == Len(Order(th)) >= Cap(frame[th].cache)

\* Mutant: nothing is ever evicted.
OverCapNever(th) == FALSE

\* len(d) > _MAX_TRACKED_...
OverCap(th) == Len(Order(th)) > Cap(frame[th].cache)

CheckCap(th) ==
  /\ Goes(th, "check", IF OverCap(th) THEN "pop" ELSE "fetch")
  /\ UNCHANGED <<frame, dicts, objects, outputs, ghosts>>

\* A KeyError ends the call; _hooks.scan swallows it.
Fail(th, from) ==
  /\ Ends(th, from)
  /\ failed' = [failed EXCEPT ![frame[th].cache] = @ \cup {Key(th)}]

\* d.popitem(last=False)
PopOldest(th) ==
  /\ IF Order(th) = <<>>
       THEN Fail(th, "pop") /\ UNCHANGED order
       ELSE /\ Goes(th, "pop", "fetch")
            /\ order' = [order EXCEPT ![frame[th].cache] = Tail(@)]
            /\ UNCHANGED <<frame, failed>>
  /\ UNCHANGED <<value, objects, outputs, calls, used, raced, prompts, alarms>>

\* d.move_to_end(key)
Renew(th) ==
  /\ IF Contains(Order(th), Key(th))
       THEN /\ Goes(th, "renew", "fetch")
            /\ order' = [order EXCEPT ![frame[th].cache] = MoveToEnd(@, Key(th))]
            /\ UNCHANGED <<frame, failed>>
       ELSE Fail(th, "renew") /\ UNCHANGED order
  /\ UNCHANGED <<value, objects, outputs, calls, used, raced, prompts, alarms>>

\* return d[key]
Fetch(th) ==
  /\ IF Contains(Order(th), Key(th))
       THEN /\ Goes(th, "fetch", IF frame[th].cache = "spans" THEN "extend"
                                 ELSE IF frame[th].isPrompt THEN "read" ELSE "content")
            /\ frame' = [frame EXCEPT ![th].object = value[frame[th].cache][Key(th)]]
            /\ UNCHANGED failed
       ELSE Fail(th, "fetch")
  /\ UNCHANGED <<dicts, objects, outputs, calls, used, raced, prompts, alarms>>

-----------------------------------------------------------------------------
(* CostLoopDetector.scan on the scratch that the call fetched. *)

Scratch(th) == scratch[frame[th].object]

\* state["llm_calls"] += 1 reads and then writes.
ReadCalls(th) ==
  /\ Goes(th, "read", "write")
  /\ frame' = [frame EXCEPT ![th].calls = Scratch(th).llm_calls]
  /\ UNCHANGED <<dicts, objects, outputs, ghosts>>

\* Mutant: a call counts for two.
OneMoreTwice(number) == number + 2

OneMore(number) == number + 1

WriteCalls(th) ==
  /\ Goes(th, "write", "budget")
  /\ scratch' = [scratch EXCEPT ![frame[th].object].llm_calls = OneMore(frame[th].calls)]
  /\ prompts' = [prompts EXCEPT ![Trace(th)] = @ + 1]
  /\ UNCHANGED <<frame, dicts, lists, outputs, calls, used, raced, failed, alarms>>

CheckBudget(th) ==
  /\ Goes(th, "budget", IF Scratch(th).llm_calls > CallBudget THEN "flagged" ELSE "content")
  /\ UNCHANGED <<frame, dicts, objects, outputs, ghosts>>

\* Mutant: the flags are not consulted.
IsFlaggedNever(th) == FALSE

\* rule in state["flagged"]
IsFlagged(th) == Scratch(th).flagged

CheckFlagged(th) ==
  /\ Goes(th, "flagged", IF IsFlagged(th) THEN "content" ELSE "mark")
  /\ UNCHANGED <<frame, dicts, objects, outputs, ghosts>>

\* state["flagged"].add(rule) and the finding.
Mark(th) ==
  /\ Goes(th, "mark", "content")
  /\ scratch' = [scratch EXCEPT ![frame[th].object].flagged = TRUE]
  /\ frame' = [frame EXCEPT ![th].findings = <<"budget">>]
  /\ UNCHANGED <<dicts, lists, outputs, ghosts>>

\* The other detectors; without findings the call ends.
ScanContent(th) ==
  LET all == IF frame[th].isPrompt THEN Findings(th) ELSE <<"content">>
  IN  /\ IF all = <<>>
           THEN Ends(th, "content")
           ELSE /\ Goes(th, "content", "event")
                /\ frame' = [frame EXCEPT ![th].findings = all]
      /\ UNCHANGED <<dicts, objects, outputs, ghosts>>

-----------------------------------------------------------------------------
(* _attach *)

AddEvents(th) ==
  /\ Goes(th, "event", "lookup")
  /\ events' = [events EXCEPT ![Span(th)] = @ \o Findings(th)]
  /\ frame' = [frame EXCEPT ![th].cache = "spans"]
  /\ UNCHANGED <<dicts, objects, summary, ghosts>>

Accumulated(th) == lists[frame[th].object]

\* Mutant: the list is replaced.
ExtendedAnew(list, new) == new

Extended(list, new) == list \o new

\* accumulated.extend(findings)
Extend(th) ==
  /\ Goes(th, "extend", "count")
  /\ lists' = [lists EXCEPT ![frame[th].object] = Extended(@, Findings(th))]
  /\ UNCHANGED <<frame, dicts, scratch, outputs, ghosts>>

\* count = len(accumulated), and then types = {e.type for e in accumulated}.
MeasureCount(th) ==
  /\ Goes(th, "count", "types")
  /\ frame' = [frame EXCEPT ![th].count = Len(Accumulated(th))]
  /\ UNCHANGED <<dicts, objects, outputs, ghosts>>

MeasureTypes(th) ==
  /\ Goes(th, "types", "set_count")
  /\ frame' = [frame EXCEPT ![th].types = ToSet(Accumulated(th))]
  /\ UNCHANGED <<dicts, objects, outputs, ghosts>>

SetCount(th) ==
  /\ Goes(th, "set_count", "set_types")
  /\ summary' = [summary EXCEPT ![Span(th)].count = frame[th].count]
  /\ UNCHANGED <<frame, dicts, objects, events, ghosts>>

SetTypes(th) ==
  /\ Goes(th, "set_types", "alert")
  /\ summary' = [summary EXCEPT ![Span(th)].types = frame[th].types]
  /\ UNCHANGED <<frame, dicts, objects, events, ghosts>>

\* self._on_events(span, findings)
Alert(th) ==
  /\ Ends(th, "alert")
  /\ alarms' = [alarms EXCEPT ![Trace(th)] =
                  IF "budget" \in ToSet(Findings(th)) THEN @ + 1 ELSE @]
  /\ UNCHANGED <<dicts, objects, outputs, calls, used, raced, failed, prompts>>

-----------------------------------------------------------------------------
InCache(th) ==
  LookUp(th) \/ InsertKey(th) \/ CheckCap(th) \/ PopOldest(th) \/ Renew(th) \/ Fetch(th)

InDetectors(th) ==
  \/ ReadCalls(th) \/ WriteCalls(th) \/ CheckBudget(th) \/ CheckFlagged(th)
  \/ Mark(th) \/ ScanContent(th)

InAttach(th) ==
  \/ AddEvents(th) \/ Extend(th) \/ MeasureCount(th) \/ MeasureTypes(th)
  \/ SetCount(th) \/ SetTypes(th) \/ Alert(th)

Next ==
  \E th \in Threads :
    \/ \E s \in Spans, isPrompt \in BOOLEAN : Call(th, s, isPrompt)
    \/ InCache(th)
    \/ InDetectors(th)
    \/ InAttach(th)

Spec == Init /\ [][Next]_vars

-----------------------------------------------------------------------------
(* Properties. *)

\* No more keys than the cache has room for were ever looked up in it.
Room(c) == Cardinality(used[c]) <= Cap(c)

\* A call is lost to a KeyError (the key was evicted between its lookup and its
\* use, pipeline.py:111 and :120) only when the cache has been full: as long as
\* there was room, threads that insert the same or other keys never fail.
FailsOnlyWhenFull == \A c \in Caches : Room(c) => failed[c] = {}

Trimming(c) == {th \in Threads : frame[th].cache = c /\ pc[th] \in {"check", "pop"}}

\* However many threads insert at once, a cache exceeds its cap by no more than
\* the calls that are about to trim it.
CacheBounded ==
  \A c \in Caches : Len(order[c]) <= Cap(c) + Cardinality(Trimming(c))

Quiet(s) == \A th \in Threads : pc[th] = "idle" \/ Span(th) # s

\* Calls on other spans, of the same trace or not, do not disturb a span whose
\* own calls came one after the other: its list and its summary are complete
\* whenever no call is working on it (while there is room).
QuietSpanExact ==
  \A s \in Spans \ raced :
    Quiet(s) /\ Room("spans") =>
      /\ Contains(order["spans"], s) => lists[value["spans"][s]] = events[s]
      /\ summary[s] = [count |-> Len(events[s]), types |-> ToSet(events[s])]

QuietTrace(t) == \A th \in Threads : pc[th] = "idle" \/ Trace(th) # t

\* The same for the alarm of a trace: prompts of other traces neither raise nor
\* delay it, and it is raised once.
QuietTraceExact ==
  \A t \in Traces \ raced :
    QuietTrace(t) /\ Room("traces") /\ Room("spans") =>
      alarms[t] = IF prompts[t] > CallBudget THEN 1 ELSE 0

\* Races and evictions lose counts and findings but invent none: a summary never
\* counts more than the events that are on the span, and the budget alarm is
\* never raised in a trace that has not exceeded the budget.
NothingInvented ==
  /\ \A s \in Spans : /\ summary[s].count <= Len(events[s])
                      /\ summary[s].types \subseteq ToSet(events[s])
  /\ \A t \in Traces : alarms[t] > 0 => prompts[t] > CallBudget

-----------------------------------------------------------------------------
(* The inductive invariant behind the theorems of PipelineThreadsProofs. *)

Finding == {"budget", "content"}

\* The steps on a cache, on a scratch and on a list.
Looking == {"lookup", "insert", "check", "pop", "renew", "fetch"}
Counting == {"read", "write", "budget", "flagged", "mark"}
Attaching == {"extend", "count", "types", "set_count", "set_types", "alert"}

CacheKey == Spans \cup Traces

Places == Looking \cup Counting \cup Attaching \cup {"idle", "content", "event"}

Frames ==
  [span : Spans, isPrompt : BOOLEAN, cache : Caches, object : Nat, calls : Nat,
   count : Nat, types : SUBSET Finding, findings : Seq(Finding)]

CallTypes == pc \in [Threads -> Places] /\ frame \in [Threads -> Frames]

CacheTypes ==
  /\ order \in [Caches -> Seq(CacheKey)]
  /\ value \in [Caches -> [CacheKey -> Nat]]
  /\ scratch \in Seq([llm_calls : Nat, flagged : BOOLEAN])
  /\ lists \in Seq(Seq(Finding))
  /\ used \in [Caches -> SUBSET CacheKey]
  /\ failed \in [Caches -> SUBSET CacheKey]

OutputTypes ==
  /\ events \in [Spans -> Seq(Finding)]
  /\ summary \in [Spans -> [count : Nat, types : SUBSET Finding]]
  /\ prompts \in [Traces -> Nat]
  /\ alarms \in [Traces -> Nat]

\* Types of the calls' places and locals, the caches and the spans.
TypeOK == CallTypes /\ CacheTypes /\ OutputTypes

\* Which cache a call works on, and what it has found by then.
Stage(th) ==
  /\ pc[th] \in Counting \cup {"idle", "content", "event"} => frame[th].cache = "traces"
  /\ pc[th] \in Attaching => frame[th].cache = "spans"
  /\ pc[th] \in Counting => frame[th].isPrompt
  /\ frame[th].cache = "traces" /\ pc[th] \notin {"content", "event"} => Findings(th) = <<>>
  /\ pc[th] = "content" => Findings(th) \in {<<>>, <<"budget">>}
  /\ Findings(th) = <<"budget">> => frame[th].isPrompt
  /\ frame[th].cache = "spans" \/ pc[th] = "event" =>
       Findings(th) \in {<<"budget">>, <<"content">>}

Stages == \A th \in Threads : Stage(th)

\* A cache has each key once, and only keys that were looked up.
KeysOnce ==
  \A c \in Caches :
    /\ \A i, j \in DOMAIN order[c] : order[c][i] = order[c][j] => i = j
    /\ \A i \in DOMAIN order[c] : order[c][i] \in used[c] /\ value[c][order[c][i]] # 0
    /\ \A th \in Threads :
         frame[th].cache = c /\ pc[th] \in Looking \ {"lookup"} => Key(th) \in used[c]

\* With room for every key nothing is evicted, so that no call fails.
NothingEvicted ==
  \A c \in Caches : Room(c) =>
    /\ failed[c] = {}
    /\ \A th \in Threads : frame[th].cache = c =>
         /\ pc[th] # "pop"
         /\ pc[th] \in {"check", "renew", "fetch"} => Contains(order[c], Key(th))

CacheInv == KeysOnce /\ NothingEvicted /\ CacheBounded

\* The objects that stand for a key, in a cache or in the hands of a call.
ListsOf(s) ==
  ({value["spans"][s]} \ {0}) \cup
    {frame[th].object : th \in {u \in Threads : pc[u] \in Attaching /\ Span(u) = s}}

ScratchesOf(t) ==
  ({value["traces"][t]} \ {0}) \cup
    {frame[th].object : th \in {u \in Threads : pc[u] \in Counting /\ Trace(u) = t}}

\* No object stands for two keys.
ObjectsApart ==
  /\ \A s \in Spans : ListsOf(s) \subseteq DOMAIN lists
  /\ \A r, s \in Spans : r # s => ListsOf(r) \cap ListsOf(s) = {}
  /\ \A t \in Traces : ScratchesOf(t) \subseteq DOMAIN scratch
  /\ \A t, u \in Traces : t # u => ScratchesOf(t) \cap ScratchesOf(u) = {}

\* The calls that have added their events to span s and not yet to its list.
Pending(s) ==
  {th \in Threads : /\ Span(th) = s /\ frame[th].cache = "spans"
                    /\ pc[th] \in Looking \cup {"extend"}}

\* What calls know of a span is on it.
SpansFollow ==
  /\ \A s \in Spans :
       /\ Cardinality(Pending(s)) <= Len(events[s])
       /\ \A o \in ListsOf(s) : /\ Len(lists[o]) + Cardinality(Pending(s)) <= Len(events[s])
                                /\ ToSet(lists[o]) \subseteq ToSet(events[s])
       /\ summary[s].count <= Len(events[s])
       /\ summary[s].types \subseteq ToSet(events[s])
  /\ \A th \in Threads :
       /\ frame[th].cache = "spans" => ToSet(Findings(th)) \subseteq ToSet(events[Span(th)])
       /\ frame[th].count <= Len(events[Span(th)])
       /\ frame[th].types \subseteq ToSet(events[Span(th)])

\* What calls know of the prompts of a trace has happened.
TracesFollow ==
  /\ \A t \in Traces :
       /\ \A o \in ScratchesOf(t) : scratch[o].llm_calls <= prompts[t]
       /\ alarms[t] > 0 => prompts[t] > CallBudget
  /\ \A th \in Threads :
       /\ pc[th] = "write" => frame[th].calls <= prompts[Trace(th)]
       /\ pc[th] \in {"flagged", "mark"} \/ Findings(th) = <<"budget">> =>
            prompts[Trace(th)] > CallBudget

\* Calls overlap on raced spans and traces only.
OneAtATime ==
  \A th, o \in Threads : th # o /\ pc[th] # "idle" /\ pc[o] # "idle" =>
    /\ Span(th) = Span(o) => Span(th) \in raced
    /\ Trace(th) = Trace(o) => Trace(th) \in raced

\* What the cache has for a span or a trace.
KeptList(s) == IF Contains(order["spans"], s) THEN lists[value["spans"][s]] ELSE <<>>
KeptScratch(t) ==
  IF Contains(order["traces"], t) THEN scratch[value["traces"][t]]
                                  ELSE [llm_calls |-> 0, flagged |-> FALSE]

ExactSummary(s) == [count |-> Len(events[s]), types |-> ToSet(events[s])]

\* How far a call on a span of its own has got with it.
SpanStage(th) ==
  LET s == Span(th)
  IN  /\ pc[th] = "insert" => ~Contains(order["spans"], s)
      /\ pc[th] \in Looking \cup {"extend"} => KeptList(s) \o Findings(th) = events[s]
      /\ pc[th] \in Attaching => /\ Contains(order["spans"], s)
                                 /\ frame[th].object = value["spans"][s]
      /\ pc[th] \in Attaching \ {"extend"} => KeptList(s) = events[s]
      /\ pc[th] \in {"types", "set_count"} => frame[th].count = Len(events[s])
      /\ pc[th] \in {"set_count", "set_types"} => frame[th].types = ToSet(events[s])
      /\ pc[th] = "set_types" => summary[s].count = Len(events[s])
      /\ pc[th] = "alert" => summary[s] = ExactSummary(s)

SpansExact ==
  \A s \in Spans \ raced : Room("spans") =>
    /\ (\A th \in Threads : Span(th) = s => frame[th].cache = "traces") =>
         KeptList(s) = events[s] /\ summary[s] = ExactSummary(s)
    /\ \A th \in Threads : Span(th) = s /\ frame[th].cache = "spans" => SpanStage(th)

Exceeded(number) == IF number > CallBudget THEN 1 ELSE 0

\* A trace whose n prompts have been counted and reported, and one of which the last
\* prompt has been counted only.
Reported(t, n) ==
  /\ KeptScratch(t).flagged <=> n > CallBudget
  /\ alarms[t] = Exceeded(n)
Counted(t) == KeptScratch(t).llm_calls = prompts[t]

\* How far a call on a trace of its own has got with the detector.
TraceStage(th) ==
  LET t == Trace(th)
  IN  /\ frame[th].cache = "traces" /\ pc[th] = "insert" => ~Contains(order["traces"], t)
      /\ pc[th] \in Counting => /\ Contains(order["traces"], t)
                                /\ frame[th].object = value["traces"][t]
      /\ Counted(t)
      /\ pc[th] = "write" => frame[th].calls = prompts[t]
      /\ pc[th] \in {"budget", "flagged", "mark"} =>
           prompts[t] > 0 /\ Reported(t, prompts[t] - 1)
      /\ pc[th] \in {"flagged", "mark"} => prompts[t] > CallBudget
      /\ pc[th] = "mark" => ~KeptScratch(t).flagged
      /\ pc[th] \notin {"budget", "flagged", "mark"} =>
           IF Findings(th) = <<"budget">>
             THEN prompts[t] > CallBudget /\ KeptScratch(t).flagged /\ alarms[t] = 0
             ELSE Reported(t, prompts[t])

TracesExact ==
  \A t \in Traces \ raced : Room("traces") /\ Room("spans") =>
    /\ QuietTrace(t) => Counted(t) /\ Reported(t, prompts[t])
    /\ \A th \in Threads : pc[th] # "idle" /\ Trace(th) = t => TraceStage(th)

Inv ==
  /\ TypeOK /\ CacheInv /\ ObjectsApart /\ SpansFollow /\ TracesFollow
  /\ OneAtATime /\ SpansExact /\ TracesExact
  /\ Stages

-----------------------------------------------------------------------------
(* Hosts whose calls do not overlap: those with one thread, and event loops, *)
(* because nothing in __call__ awaits.                                       *)

OneCall == \A th, o \in Threads : pc[th] # "idle" /\ pc[o] # "idle" => th = o

\* No call has ended with a KeyError.
NoneFailed == \A c \in Caches : failed[c] = {}

\* The order that the call of a thread leaves in its cache, from the lookup of
\* its key on.
Settled(th) ==
  IF pc[th] = "insert" THEN Insert(Order(th), Key(th), Cap(frame[th].cache))
  ELSE IF pc[th] = "renew" THEN MoveToEnd(Order(th), Key(th))
  ELSE IF pc[th] \in {"check", "pop"} /\ OverCap(th) THEN Tail(Order(th))
  ELSE Order(th)

Using(c) == {th \in Threads : pc[th] # "idle" /\ frame[th].cache = c}

SettledOrder(c) ==
  IF Using(c) = {} THEN order[c] ELSE Settled(CHOOSE th \in Using(c) : TRUE)

LooksUp(th, c) == pc[th] = "lookup" /\ pc'[th] # "lookup" /\ frame[th].cache = c

\* A cache is a plain LRU: a lookup touches its key, and nothing else changes it.
\* The steps of the call between are the parts of one Touch.
TouchOnly ==
  \A c \in Caches :
    /\ \A th \in Threads : LooksUp(th, c) =>
         SettledOrder(c)' = Touch(SettledOrder(c), Key(th), Cap(c))
    /\ (\A th \in Threads : ~LooksUp(th, c)) => SettledOrder(c)' = SettledOrder(c)

\* Where the key of the only call is.
KeyHeld(th) ==
  /\ pc[th] = "insert" => ~Contains(Order(th), Key(th))
  /\ pc[th] \in {"renew", "fetch"} => Contains(Order(th), Key(th))
  /\ pc[th] \in {"check", "pop"} =>
       Order(th) # <<>> /\ Order(th)[Len(Order(th))] = Key(th)
  /\ pc[th] = "pop" => OverCap(th)

SerialInv == NoneFailed /\ \A th \in Threads : KeyHeld(th)
=============================================================================
