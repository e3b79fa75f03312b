---------------------------- MODULE AdapterSpans ----------------------------
(***************************************************************************)
(* The spans the adapters scan on.  The wrappers (openai_sdk.py and the    *)
(* like) and the context managers of manual.py hold a current span of      *)
(* their own, the LangChain handler keeps a span per run that is never     *)
(* current, and the LlamaIndex handler borrows the current span or opens a *)
(* short one (carrier_span).  Tasks stand for asyncio tasks or threads;    *)
(* what span is current is part of a task's context, which a new task      *)
(* copies when asyncio starts it and does not when threading does.         *)
(***************************************************************************)
EXTENDS Integers, Sequences, SequencesExt, FiniteSets

CONSTANTS
  Tasks,       \* asyncio tasks or threads
  Agents,      \* the tasks that run from the start
  Runs,        \* run ids of LangChain
  Blocks,      \* of the spans that are entered: "host", "manual", the wrappers' "sdk"
  Copies,      \* of TRUE and FALSE: a new task may start with a copied context
  Sampling,    \* of TRUE and FALSE: what the sampler may say of a new trace
  Parallel,    \* of TRUE and FALSE: tasks are threads, not tasks of one loop
  MaxSpans     \* bound on the number of spans

ASSUME SpansAssumption ==
  /\ Agents \subseteq Tasks
  /\ Blocks \subseteq {"host", "manual", "sdk"}
  /\ Copies \subseteq BOOLEAN /\ Sampling \subseteq BOOLEAN /\ Parallel \subseteq BOOLEAN
  /\ MaxSpans \in Nat

VARIABLES
  parallel,    \* whether another task may act between two steps of one
  spans,       \* the spans so far, by number
  agent,       \* the agent a task works for, NoTask before it starts
  context,     \* the chain of current spans of a task, the newest last
  entered,     \* how many of those the task entered itself
  event,       \* the span a LlamaIndex event is scanned on, 0 outside of handle
  handler,     \* _spans of the LangChain handler, 0 for a missing run id
  run,         \* what LangChain did with a run id
  runner,      \* the agent whose run it is
  scans,       \* history: on which trace, for which agent
  lost,        \* history: how a scan met an ended span of a sampled trace
  strayed      \* history: agents that opened a second span without a context

vars == <<parallel, spans, agent, context, entered, event, handler, run,
          runner, scans, lost, strayed>>

NoTask == "none"

Init ==
  /\ parallel \in Parallel
  /\ spans = <<>>
  /\ agent = [t \in Tasks |-> IF t \in Agents THEN t ELSE NoTask]
  /\ context = [t \in Tasks |-> <<>>]
  /\ entered = [t \in Tasks |-> 0]
  /\ event = [t \in Tasks |-> 0]
  /\ handler = [r \in Runs |-> 0]
  /\ run = [r \in Runs |-> "new"]
  /\ runner = [r \in Runs |-> NoTask]
  /\ scans = {}
  /\ lost = {}
  /\ strayed = {}

-----------------------------------------------------------------------------
(* OpenTelemetry: spans and contexts. *)

\* The number of the span to come.
NewSpan == Len(spans) + 1

Current(t) == IF context[t] = <<>> THEN 0 ELSE Last(context[t])

Recording(s) == s # 0 /\ spans[s].open /\ spans[s].sampled

\* start_span: the parent is the current span, also when it has ended.
Opened(t, kind, sampled) ==
  LET parent == Current(t)
  IN  IF parent = 0
        THEN [trace |-> NewSpan, sampled |-> sampled, open |-> TRUE,
              kind |-> kind, of |-> agent[t]]
        ELSE [spans[parent] EXCEPT !.open = TRUE, !.kind = kind, !.of = agent[t]]

Open(t, kind, sampled) ==
  /\ NewSpan <= MaxSpans
  /\ spans' = Append(spans, Opened(t, kind, sampled))
  /\ strayed' = strayed \cup
       {a \in {agent[t]} : Current(t) = 0 /\ \E s \in DOMAIN spans : spans[s].of = a}

Push(t, s) ==
  /\ context' = [context EXCEPT ![t] = Append(@, s)]
  /\ entered' = [entered EXCEPT ![t] = @ + 1]

Pop(t) ==
  /\ context' = [context EXCEPT ![t] = Front(@)]
  /\ entered' = [entered EXCEPT ![t] = @ - 1]

EndSpan(s) == spans' = [spans EXCEPT ![s].open = FALSE]

-----------------------------------------------------------------------------
(* Scans of adapter code, on spans as they are when the scan is made. *)

Scan(a, how, s, table) ==
  /\ scans' = scans \cup {[agent |-> a, trace |-> table[s].trace]}
  /\ lost' = lost \cup
       {h \in {how} : table[s].sampled /\ ~ table[s].open}

NoScan == UNCHANGED <<scans, lost>>

\* Task t may take a step: in one event loop only at an await of the others.
Runnable(t) ==
  /\ agent[t] # NoTask
  /\ event[t] = 0
  /\ parallel \/ \A u \in Tasks : event[u] = 0

-----------------------------------------------------------------------------
(* Wrappers and context managers. *)

\* start_as_current_span, and the scan of the request, prompt or arguments.
Enter(t, kind, sampled) ==
  /\ Runnable(t)
  /\ Open(t, kind, sampled)
  /\ Push(t, NewSpan)
  /\ IF kind = "host" THEN NoScan ELSE Scan(agent[t], kind, NewSpan, spans')
  /\ UNCHANGED <<parallel, agent, event, handler, run, runner>>

\* Mutant: the reply is scanned after the with block.
ReturnAfterBlock(t) ==
  /\ Runnable(t) /\ entered[t] > 0
  /\ Pop(t)
  /\ EndSpan(Current(t))
  /\ IF spans[Current(t)].kind = "sdk"
       THEN Scan(agent[t], "sdk", Current(t), spans') ELSE NoScan
  /\ UNCHANGED <<parallel, agent, event, handler, run, runner, strayed>>

\* The block ends; a wrapper whose call returned scans the reply first.
Return(t) ==
  /\ Runnable(t) /\ entered[t] > 0
  /\ Pop(t)
  /\ EndSpan(Current(t))
  /\ IF spans[Current(t)].kind = "sdk"
       THEN Scan(agent[t], "sdk", Current(t), spans) ELSE NoScan
  /\ UNCHANGED <<parallel, agent, event, handler, run, runner, strayed>>

\* The wrapped call raises, or the task is cancelled: the block ends the span.
Leave(t) ==
  /\ Runnable(t) /\ entered[t] > 0
  /\ Pop(t)
  /\ EndSpan(Current(t))
  /\ NoScan
  /\ UNCHANGED <<parallel, agent, event, handler, run, runner, strayed>>

\* SpanScanner.record, by any task of the agent that was given the scanner,
\* also after the block of the context manager.
Record(t, s) ==
  /\ Runnable(t)
  /\ spans[s].kind = "manual" /\ spans[s].of = agent[t]
  /\ Scan(agent[t], IF spans[s].open THEN "manual" ELSE "late record", s, spans)
  /\ UNCHANGED <<parallel, spans, agent, context, entered, event, handler, run, runner, strayed>>

-----------------------------------------------------------------------------
(* LangChain: callbacks with run ids. *)

\* Mutant: the handler starts its spans outside of any context.
RunStartDetached(t, r, sampled) ==
  /\ Runnable(t) /\ run[r] = "new" /\ NewSpan <= MaxSpans
  /\ spans' = Append(spans, [trace |-> NewSpan, sampled |-> sampled, open |-> TRUE,
                             kind |-> "langchain", of |-> agent[t]])
  /\ handler' = [handler EXCEPT ![r] = NewSpan]
  /\ run' = [run EXCEPT ![r] = "started"]
  /\ runner' = [runner EXCEPT ![r] = agent[t]]
  /\ Scan(agent[t], "langchain", NewSpan, spans')
  /\ UNCHANGED <<parallel, agent, context, entered, event, strayed>>

\* Mutant: the handler remembers its latest span only.
RunStartLatest(t, r, sampled) ==
  /\ Runnable(t) /\ run[r] = "new"
  /\ Open(t, "langchain", sampled)
  /\ handler' = [q \in Runs |-> IF q = r \/ run[q] = "started" THEN NewSpan ELSE 0]
  /\ run' = [run EXCEPT ![r] = "started"]
  /\ runner' = [runner EXCEPT ![r] = agent[t]]
  /\ Scan(agent[t], "langchain", NewSpan, spans')
  /\ UNCHANGED <<parallel, agent, context, entered, event>>

\* on_llm_start, on_chat_model_start and on_tool_start.
RunStart(t, r, sampled) ==
  /\ Runnable(t) /\ run[r] = "new"
  /\ Open(t, "langchain", sampled)
  /\ handler' = [handler EXCEPT ![r] = NewSpan]
  /\ run' = [run EXCEPT ![r] = "started"]
  /\ runner' = [runner EXCEPT ![r] = agent[t]]
  /\ Scan(agent[t], "langchain", NewSpan, spans')
  /\ UNCHANGED <<parallel, agent, context, entered, event>>

\* A run ends in the agent that started it, if not in the same task.
RunGoesOn(t, r) ==
  /\ Runnable(t) /\ run[r] = "started" /\ runner[r] = agent[t]

\* _finish: the entry is removed and its span ended.
Finish(r) ==
  /\ handler' = [handler EXCEPT ![r] = 0]
  /\ IF handler[r] = 0 THEN UNCHANGED spans ELSE EndSpan(handler[r])

\* Mutant: the span is ended before the generations are scanned.
RunEndFinishFirst(t, r) ==
  /\ RunGoesOn(t, r)
  /\ Finish(r)
  /\ IF handler[r] = 0 THEN NoScan ELSE Scan(agent[t], "langchain", handler[r], spans')
  /\ run' = [run EXCEPT ![r] = "over"]
  /\ UNCHANGED <<parallel, agent, context, entered, event, runner, strayed>>

\* on_llm_end and on_tool_end.
RunEnd(t, r) ==
  /\ RunGoesOn(t, r)
  /\ IF handler[r] = 0 THEN NoScan ELSE Scan(agent[t], "langchain", handler[r], spans)
  /\ Finish(r)
  /\ run' = [run EXCEPT ![r] = "over"]
  /\ UNCHANGED <<parallel, agent, context, entered, event, runner, strayed>>

\* Mutant: the error callbacks drop the run without ending its span.
RunErrorDropped(t, r) ==
  /\ RunGoesOn(t, r)
  /\ handler' = [handler EXCEPT ![r] = 0]
  /\ run' = [run EXCEPT ![r] = "over"]
  /\ NoScan
  /\ UNCHANGED <<parallel, spans, agent, context, entered, event, runner, strayed>>

\* on_llm_error and on_tool_error.
RunError(t, r) ==
  /\ RunGoesOn(t, r)
  /\ Finish(r)
  /\ run' = [run EXCEPT ![r] = "over"]
  /\ NoScan
  /\ UNCHANGED <<parallel, agent, context, entered, event, runner, strayed>>

\* on_tool_end whose str(output) raises: LangChain logs it (raise_error is
\* False) and calls nothing else for the run.
RunEndRaises(t, r) ==
  /\ RunGoesOn(t, r)
  /\ run' = [run EXCEPT ![r] = "raised"]
  /\ NoScan
  /\ UNCHANGED <<parallel, spans, agent, context, entered, event, handler, runner, strayed>>

-----------------------------------------------------------------------------
(* LlamaIndex: events. *)

\* Mutant: a current span is borrowed though it has ended.
BorrowsAny(s) == s # 0

Borrows(s) == Recording(s)

\* carrier_span decides which span to use...
Handle(t, sampled) ==
  /\ Runnable(t)
  /\ IF Borrows(Current(t))
       THEN /\ event' = [event EXCEPT ![t] = Current(t)]
            /\ UNCHANGED <<spans, context, entered, strayed>>
       ELSE /\ Open(t, "carrier", sampled)
            /\ Push(t, NewSpan)
            /\ event' = [event EXCEPT ![t] = NewSpan]
  /\ NoScan
  /\ UNCHANGED <<parallel, agent, handler, run, runner>>

\* ... and the event is scanned on it; one that was opened for it ends.
Handled(t) ==
  /\ event[t] # 0
  /\ Scan(agent[t], "event", event[t], spans)
  /\ IF spans[event[t]].kind = "carrier"
       THEN Pop(t) /\ EndSpan(event[t])
       ELSE UNCHANGED <<spans, context, entered>>
  /\ event' = [event EXCEPT ![t] = 0]
  /\ UNCHANGED <<parallel, agent, handler, run, runner, strayed>>

-----------------------------------------------------------------------------
(* Tasks. *)

\* Task t starts task u, as an asyncio task or as a thread.
Spawn(t, u, copies) ==
  /\ Runnable(t) /\ agent[u] = NoTask
  /\ agent' = [agent EXCEPT ![u] = agent[t]]
  /\ context' = [context EXCEPT ![u] = IF copies THEN context[t] ELSE <<>>]
  /\ UNCHANGED <<parallel, spans, entered, event, handler, run, runner, scans, lost, strayed>>

Next ==
  \E t \in Tasks :
    \/ \E kind \in Blocks, sampled \in Sampling : Enter(t, kind, sampled)
    \/ Return(t)
    \/ Leave(t)
    \/ \E s \in DOMAIN spans : Record(t, s)
    \/ \E r \in Runs, sampled \in Sampling : RunStart(t, r, sampled)
    \/ \E r \in Runs : RunEnd(t, r) \/ RunError(t, r) \/ RunEndRaises(t, r)
    \/ \E sampled \in Sampling : Handle(t, sampled)
    \/ Handled(t)
    \/ \E u \in Tasks, copies \in Copies : Spawn(t, u, copies)

Spec == Init /\ [][Next]_vars

-----------------------------------------------------------------------------
(* Properties. *)

\* "Events must be attached while the span is recording"
\* (docs/adr/0003-adapter-strategy.md:9): no adapter scans on a span that has
\* ended, though the current span of a task may have ended in another one.  The
\* exceptions are a thread that ends the span a LlamaIndex event of another
\* thread has just borrowed, and a scanner the host uses after its block.
ScansMeetLiveSpans ==
  lost \subseteq (IF parallel THEN {"event"} ELSE {}) \cup {"late record"}

\* The spans that task t is inside of.
Inside(t) ==
  {context[t][i] : i \in Len(context[t]) - entered[t] + 1 .. Len(context[t])}

\* No span is left open for good: each one belongs to a block that some task is
\* in or to a run that LangChain has not ended, but for those of tool runs whose
\* output cannot be converted to a string (langchain.py:98).
OpenSpansHaveOwners ==
  \A s \in DOMAIN spans : spans[s].open =>
    \/ \E t \in Tasks : s \in Inside(t)
    \/ \E r \in Runs : handler[r] = s /\ run[r] \in {"started", "raised"}

\* The detectors' state per trace is never shared by two agents of a process,
\* though they share the handlers.
AgentsKeepApart ==
  \A x, y \in scans : x.trace = y.trace => x.agent = y.agent

\* An agent whose work is all under its first span is one trace to the
\* detectors, whichever of its tasks and adapters scan, and however long after
\* that span ended: a loop cannot hide in a second trace.
RootedAgentIsOneTrace ==
  \A x, y \in scans : x.agent = y.agent /\ x.agent \notin strayed => x.trace = y.trace

-----------------------------------------------------------------------------
(* The inductive invariant behind the theorems of AdapterSpansProofs. *)

SpanKind == Blocks \cup {"langchain", "carrier"}
SpanRecord == [trace : Nat, sampled : BOOLEAN, open : BOOLEAN, kind : SpanKind,
               of : Tasks \cup {NoTask}]

TypeOK ==
  /\ parallel \in Parallel
  /\ spans \in Seq(SpanRecord)
  /\ agent \in [Tasks -> Tasks \cup {NoTask}]
  /\ context \in [Tasks -> Seq(Nat)]
  /\ entered \in [Tasks -> Nat] /\ event \in [Tasks -> Nat]
  /\ handler \in [Runs -> Nat]
  /\ run \in [Runs -> {"new", "started", "raised", "over"}]
  /\ runner \in [Runs -> Tasks \cup {NoTask}]

\* A trace is one agent's, and has its first span in the table; an agent that has
\* not strayed has one trace.
TracesApart ==
  /\ \A s \in DOMAIN spans : spans[s].trace \in DOMAIN spans
  /\ \A s, u \in DOMAIN spans : spans[s].trace = spans[u].trace => spans[s].of = spans[u].of
  /\ \A s, u \in DOMAIN spans :
       spans[s].of = spans[u].of /\ spans[s].of \notin strayed => spans[s].trace = spans[u].trace

\* Whoever refers to a span works for its agent.
Belongs(s, a) == s \in DOMAIN spans /\ spans[s].of = a

References ==
  /\ \A t \in Tasks : \A i \in DOMAIN context[t] : Belongs(context[t][i], agent[t])
  /\ \A t \in Tasks : event[t] # 0 => Belongs(event[t], agent[t])
  /\ \A r \in Runs : handler[r] # 0 => Belongs(handler[r], runner[r])
  /\ \A x \in scans : \E s \in DOMAIN spans : Belongs(s, x.agent) /\ spans[s].trace = x.trace

\* Where in its chain of current spans are those a task entered itself.
Own(t) == Len(context[t]) - entered[t] + 1 .. Len(context[t])

\* A span that is to be ended is open, and one block or run ends it.
Owners ==
  /\ \A t \in Tasks : entered[t] <= Len(context[t])
  /\ \A t \in Tasks : agent[t] = NoTask => entered[t] = 0 /\ event[t] = 0
  /\ \A t \in Tasks : \A i \in Own(t) :
       spans[context[t][i]].open /\ spans[context[t][i]].kind # "langchain"
  /\ \A t, u \in Tasks : \A i \in Own(t) : \A j \in Own(u) :
       context[t][i] = context[u][j] => t = u /\ i = j
  /\ \A r \in Runs : handler[r] # 0 =>
       spans[handler[r]].open /\ spans[handler[r]].kind = "langchain"
  /\ \A r, q \in Runs : handler[r] = handler[q] /\ handler[r] # 0 => r = q

\* A carrier is current only while the event it was opened for is handled, and in
\* one event loop nobody else acts meanwhile.
Carriers ==
  /\ \A t \in Tasks : \A i \in DOMAIN context[t] :
       spans[context[t][i]].kind = "carrier" => i = Len(context[t]) /\ event[t] = context[t][i]
  /\ \A t \in Tasks : event[t] # 0 /\ spans[event[t]].kind = "carrier" =>
       entered[t] > 0 /\ Current(t) = event[t]
  /\ ~parallel =>
       /\ \A t, u \in Tasks : event[t] # 0 /\ event[u] # 0 => t = u
       /\ \A t \in Tasks : event[t] # 0 => spans[event[t]].open

Inv ==
  /\ TypeOK /\ TracesApart /\ References /\ Owners /\ Carriers
  /\ OpenSpansHaveOwners /\ ScansMeetLiveSpans
=============================================================================
