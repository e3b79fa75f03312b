# A TLA+ model of tracewarden

tracewarden scans what an LLM agent sends and receives and attaches its findings to the agent's
OpenTelemetry spans. This directory holds TLA+ modules of its core (`src/tracewarden`), the TLC
configurations that check them, and proofs of the main theorems. Paths below are relative to the
repository; `pipeline.py` without a directory is `src/tracewarden/pipeline.py`.

- `tlc -config MCPipeline.cfg MCPipeline` checks a model, `tlapm PipelineProofs.tla` checks
  proofs. `PROJECT.json` lists the runs, the source lines of each definition, the mutants (plausible
  bugs, each of which makes one property fail), the hazards of the code and the findings.

## 1. Inventory: the parts of the program

| Part | State | Operations | Talks to |
|---|---|---|---|
| Adapters (`instrumentation/`) | the replaced methods, `_spans` of the LangChain handler | wrapped SDK calls, callbacks, events | `_hooks.scan`, OpenTelemetry |
| Manual (`manual.py`) | the current span of the context | `llm_call`, `tool_call`, `memory_write`, `SpanScanner.record`, `guarded_tool` | `_hooks.scan` |
| Hook (`_hooks.py`) | the list of scanners | `register_scanner`, `clear_scanners`, `scan` | the pipelines |
| Pipeline (`pipeline.py`) | two LRU caches: findings per span, scratch per trace | `__call__`, `_attach` | detectors, span, `on_events` |
| Stateful detectors (`sequence.py`, `cost_loop.py`) | counters and flags in the scratch of the trace | `scan` | the scratch dict |
| Stateless detectors, LLM classifier | none (the classifier has a backend) | `scan` | a local model |
| Schema, backend copies (`schema.py`, `export.py`) | events and attributes of a span | `record_events`, `annotate_for_backends` | the span |
| Alerting (`alerting.py`) | none; the sinks have | `AlertManager.__call__`, four sinks | stderr, files, HTTP |
| Installation (`_bootstrap.py`, `instrumentation/__init__.py`) | `_handle`, `_active`, the registered provider | `install`, `uninstall`, `shutdown`, `instrument` | OpenTelemetry's registry |
| Configuration (`config.py`) | frozen | `from_env` | the environment |

An adapter opens a span (or borrows one) and calls `_hooks.scan` for each piece of content; the hook
calls each registered pipeline; a pipeline looks up the scratch of the trace, runs the detectors,
and if there are findings adds one event for each to the span, updates the summary attributes from
the cached list of the span, and hands the findings to `on_events`, which is an `AlertManager` in the
documented set-up. All of it is synchronous, in the thread of the agent's call.

What is hard, and what each part must get right:

- **Pipeline.** The caches are bounded, spans and traces are not: evictions must be exactly those of
  an LRU, and while an entry is kept the summary is that of all events of the span. An exception
  between the detectors and `_attach` separates what is flagged from what is reported. No lock
  protects the caches: threads interleave between any two dict operations.
- **Stateful detectors.** A look at the last four calls and at one counter must amount to the
  anomalies of the whole history, each raised once per trace.
- **Adapters.** Each sees its own part of a call; they overlap (the model asks for a tool call, MCP
  runs it), the history is sent again with every request, streams and failures leave parts out.
  Spans must be open when content is scanned, whatever the tasks, threads and callbacks of the host
  do, and must be closed in the end.
- **Installation.** Handles share providers; installs fail half way; hosts register providers of
  their own at any time. Only what was created may be shut down, and once.
  The adapters patch frameworks that other libraries patch too.
- **Alerting.** Sinks fail, hang and are interrupted; the rest must be served, in order, once, and
  the agent's call must go on.
- **Content detectors, configuration.** They share signatures, scores and surfaces; the environment
  turns them off, names the allowed tools and sets thresholds. Findings and settings must be in the
  ranges their pydantic models state, or the call raises.

## 2. Modules

| Module | What it models | Composes |
|---|---|---|
| `Schema` | types, severities, surfaces, events, `SummaryOf` (`record_events`) | |
| `Lru` | `OrderedDict` use of `_events_for` / `_state_for`: `Touch`, and the LRU invariant | |
| `TraceDetectors` | `sequence.py` and `cost_loop.py` as functions of scratch and context | `Schema` |
| `Anomalies` | the anomalies, defined on a whole history (the reference) | `TraceDetectors` |
| `DetectorHistory` | one trace: scans, the two detectors, the full history | `Anomalies` |
| `Pipeline` | `DetectionPipeline` with spans; one call is one step | `TraceDetectors`, `Lru`, `FindingLedger` |
| `FindingLedger` | the abstract promise: events and summary of a span change together | `Schema` |
| `ContentDetectors` | `from_env`, `build_detectors` and the detectors without state, the local model's verdict included | `Schema` |
| `PipelineThreads` | the same call split at every shared access, by concurrent threads | `Lru` |
| `AgentRun` | an agent through the OpenAI or Anthropic adapter, the MCP adapter or both | `DetectorHistory` |
| `AdapterSpans` | spans, contexts, tasks, LangChain runs, LlamaIndex events, manual blocks | |
| `Alerting` | `AlertManager` and its sinks, threads, timeouts, interrupts | `Schema`, `AlertLog` |
| `AlertLog` | the abstract promise: alerts fall due, and every sink settles each once, in order and in the end; what a remote sink was sent in vain may still arrive, once | |
| `Bootstrap` | `install`, `uninstall`, handles, the adapter registry, the provider registry | |
| `Patching` | what the adapters do to methods and handler lists, next to a second library | `Bootstrap` |
| `MC...` | values and symmetries for TLC | |
| `DetectorProofs`, `TraceProofs`, `PipelineProofs`, `PipelineThreadsProofs`, `InstallationProofs`, `AlertingProofs`, `AdapterSpansProofs`, `ContentDetectorProofs` | section 5 | |

How state and actions correspond to the code:

- `Pipeline`: `spanOrder` and `accumulated` are the keys and values of `_span_events`, `traceOrder`
  and `scratch` those of `_trace_state`; `Scan` is the whole of `__call__` with `_attach`, the backend
  copies and `on_events` (`alerted`), including the call that ends with an exception of the
  classifier (`reply = "raises"`): the scratch is changed, nothing is attached, and `_hooks.scan`
  swallows it. `RecordEvents` is the public function of `schema.py`. Findings of stateless detectors
  come from the constant `ContentFindings`. A span that has ended ignores events and attributes.
  `found`, `recent...`, `forgot...`, `visited`, `failed`, `prompted`, `direct` are history that no
  action reads.
- `FindingLedger` knows spans, their events and their summary, and no caches, traces or detectors.
  `Pipeline` implements it with `Memory <- MaxSpans`: a scan is `Record` or a stutter (no finding, an
  exception, a span that has ended), `RecordEvents` is `RecordDirect`. The ledger leaves out events of
  a summary only when more than `Memory` spans were started, which is what the cap promises.
- `ContentDetectors`: a text is what the patterns match in it, one `Match` for each place where a
  pattern does, with its span, and the places just after a newline (`breaks`). A match may reach over
  a line break and overlap others; `FindIter` is what `finditer` makes of them, from left to right and
  without overlaps, and the gates (entropy, `luhn_valid`) come after it. Where patterns match, and the
  entropy and the digits of what they capture, is input (the regular expressions and `shannon_entropy` are
  inputs). The tables (`InjectionWeight`, `PoisoningSeverity`, `SecretRule`) are the rules, one
  operator per detector is its `scan`. `FromEnv` reads the switches, the list of tools and the
  thresholds and refuses what `int()` or pydantic does; `Scan` is one scan by the detectors that are
  on. Weights are in tenths, confidences in hundredths, so that comparisons are exact.
- `PipelineThreads`: `pc` and `frame` are a thread's place in `__call__` and its locals. One step is
  one operation the interpreter makes atomic: a lookup, an insertion, a `popitem`, a `move_to_end`, a
  read or write of a counter, an `extend`, one `set_attribute`. Objects fetched from a cache have an
  identity, since a call goes on using one that was evicted or replaced.
- `AgentRun`: each content an adapter scans is one step, and one of `DetectorHistory`. `stage` is where
  the wrapped `create` is: `CallModel` enters it, `ScanRequest` goes through the messages,
  `ModelReplies` or `ModelFails` is what the SDK does, `ScanResponse` goes through the reply.
  `StartTool` and `ToolReturns` are the two halves of `call_tool_wrapper`, for calls that run one
  after the other or at once; `ToolReturnsNothing` is a call that raises or has no text. The host
  appends to `conversation` and sends all of it with every call; the model's own messages are left
  out of it, since no role of theirs is scanned. The Anthropic adapter scans a tool result as tool
  output and once more as the user message it comes in.
- `AdapterSpans`: `context` is the chain of current spans of a task, `entered` how many of them it
  entered itself; a new task copies the context (asyncio) or does not (threads). `Enter`, `Return`
  and `Leave` are the with blocks of the wrappers and of `manual.py` (`guarded_tool` is a wrapper
  here), `Record` is `SpanScanner.record`, `RunStart`, `RunEnd`, `RunError`, `RunEndRaises` the
  LangChain callbacks, `Handle` and `Handled` the two halves of a LlamaIndex event (`carrier_span`,
  then the scan). With `parallel = FALSE` the halves are one step of the loop.
- `Alerting`: `checked` and `turn` are the two loops of a call, `waiting` the pending POST. It
  implements `AlertLog` with `due` the alerts the rules call for, `settled` those a sink is done with, and
  `log` what the sinks got. `urlopen` that gives up only closes its socket, so a request that timed out
  or was interrupted is `adrift`: its server may take it then, after the thread's next alerts, or
  never (`TakenLate`; `late` is history, the alerts that were taken so).
- `Bootstrap`: `global` is the provider OpenTelemetry knows, `handles` every handle the host may
  have kept, `current` is `_handle`, `active` is `_active`, `tracer` where an adapter got its tracer.
- `Patching` adds to each step of `Bootstrap` what it does to the frameworks: `layers` is the wrappers
  a call goes through (or the list of handlers), `original` is `_ORIGINALS`, `saved` the same of the
  other library. `Patch` wraps what `instrument()` newly reached, up to the framework it fails on;
  `Unpatch` puts back what was saved, whatever the method is by then. `tangled` is history: where a
  wrapper was not removed from the top. The host is taken to go through `install()` and
  `instrument()`; a host that calls `instrument_openai()` itself is stopped by the guard on
  `_ORIGINALS` and not modelled.

Integers are unbounded in Python; every bound in a guard is one of the model's (`MaxScans` of `Pipeline`,
`MaxCalls`, `MaxRuns`, `MaxHandles`, `MaxHanded`, `MaxSpans` of `AdapterSpans`, and `OwnProviders`);
`DetectorHistory` has none, its run has one (`MaxScans` in `MCDetectorHistory`);
in `OtherPatches` the other library leaves a tangled method alone, in `Scan` of `ContentDetectors`
one scan is enough, since nothing there outlives it.
`MaxSpans` and `MaxTraces` of the pipeline modules are the code's own caps (4096 and 1024).

## 3. Runs

No run but `Alerting` states liveness: the library is passive and acts only when the host calls. In
`Alerting` a thread that is inside a call goes on (`WF_vars(Work(t))`): the code never waits except
in `urlopen`, which has a timeout; custom sinks are taken to return. Nothing is assumed of servers, and
so nothing is promised of requests that were given up. From it
follows the fairness of `AlertLog` (every alert due is settled in the end). `CHECK_DEADLOCK FALSE` is set
where a bound, or the host, ends the behaviour (an agent whose calls are used up, all spans ended).

| Run | Bounds | Shows |
|---|---|---|
| `DetectorHistory` | 3 tools, 2 texts, thresholds 2, 6 scans | the flags are exactly the anomalies of the history, each raised once; six scans reach every anomaly, and go on after it |
| `Pipeline` | 4 spans in 3 traces, room for 2 spans and 2 traces, 4 scans, a classifier that may raise, direct recordings | both caches are exact LRU caches; the summary is complete unless the span was forgotten, and then a summary of the latest events; alarms come once while the trace is kept, the budget alarm with the first call beyond the budget and never before; an anomaly is silenced only by a scan that failed in its own trace; the pipeline implements `FindingLedger` |
| `PipelineThreads` | 2 threads, 4 spans in 3 traces, room for 2 spans and 2 traces, 3 calls | under every interleaving: a call is lost to a `KeyError` only if the cache was full, caches exceed their cap only by calls about to trim them, spans and traces without overlapping calls are exact, races never invent findings |
| `AgentRun` | 3 tools, 3 texts, 3 model calls, 3 tool runs, replies of up to two calls, tools that return one text | with one adapter the sequence detector is exact for what that adapter can know; with two every call counts twice and no more; once a request is scanned the budget alarm is not late and at most quadratically early; the loop alarm is tripped by the resent history |
| `AdapterSpans` | 2 agents and a child task, 2 runs, 3 spans, sampled or not, loop or threads | scans meet open spans but for two races; every open span has an owner that will close it, but for one leak; agents never share a trace; an agent under a root span is one trace |
| `Alerting` | 2 threads with 2 findings and 1, webhook before file, the rules of the documentation, servers that take requests late | each sink gets the matching findings but for its own failures, none twice, and out of order only where a server takes a request that was given up; reporting calls return; the manager implements `AlertLog` |
| `Content` | 33 environments with one variable set, texts of up to two lines, of 7 kinds with values or 7 with signatures, and two whose match reaches across lines, all surfaces, every shape of a reply | findings and thresholds are valid; what a part of a text shows the whole shows, unless a match reaches over the line break between; the list of tools means what it says from the variable to the finding; next to a card number no mistyped one passes |
| `Installation` | 2 providers of the host, 3 own, 3 adapters (a wrapping, a hooking and a missing one), 3 handles, a second library | one live handle; providers are shut down once and only by their owner; scanners belong to handles; adapters emit on the registered provider; a call goes through a wrapper once exactly while its adapter is active, and the other library's patch stays |
| `ModelFails`, `BootstrapDeadProvider`, `BootstrapInstallFails`, `AgentRunPingPong` | as small as the behaviour allows | section 4 |

Why the bounds are enough. Two entries and a cache of two are needed for a hit and a miss, a third
entry for an eviction, and four scans for an entry that is evicted and found again; four spans in
three traces, one of which has two, fill both caches.
Thresholds of 2 are the smallest the configuration allows (`config.py:43-49`) for repeats; ping-pong
always needs four calls, so six scans leave room before and after. Three handles are an install
after an install that followed a shutdown. Three spans are a root, one that is open while the root
ends, and one opened below an ended one. Two threads show every race on a pair of operations; a third
would only repeat them; three traces and a cache of two leave a trace alone while another is used, and
fill the cache with the third call. Two findings of one thread are needed for an order, one of another
for what comes between. What is symmetric is declared so: tools, texts, spans of one trace, threads,
agents, run ids, providers. What two lines of a text do to each other needs texts of two lines (no
detector reads both values and signatures, so these are not mixed); the card numbers have 13, 16 and 19
digits, so that both parities and both bounds of `luhn_valid` occur.

## 4. Where the code and its documentation differ

Four runs end in a counterexample to what the repository says:

- `ModelFails`: a reply of the local model that is no JSON raises out of `llm.py:77`, the scan ends,
  and anomalies already marked as flagged are never reported in that trace ("Non-fatal",
  `docs/detectors/llm.md:36`).
- `BootstrapDeadProvider`: after `handle.shutdown()` the next `install()` attaches to the provider
  that was shut down (`docs/adr/0002-...:16`).
- `BootstrapInstallFails`: after an `install()` that raised, `uninstall()` does not shut down the
  provider it made (`_bootstrap.py:111`).
- `AgentRunPingPong`: with the OpenAI and MCP adapters together, A→B→A→B is scanned as A A B B A A B B
  and not flagged (`docs/detectors/catalog.md:68`).

Others are stated as the exact condition in a property that holds: the summary restarts after an
eviction (`SummaryExact`; `docs/schema.md:29` has no such exception), `record_events` overwrites a
summary (`schema.py:125`), evicted traces raise an anomaly again (`OncePerTrace`), resent user
messages count as model calls (`BudgetAlarmBounds`; `cost_loop.py:43`), MCP calls without arguments
are not counted (`Visible`; `mcp_client.py:51`), a LangChain run whose output has no string keeps its
span open (`OpenSpansHaveOwners`; `langchain.py:98`). Seen, but not checked: installing again after a
shutdown registers a second pipeline beside the first (`_bootstrap.py:64`), and adapters ignore a
provider passed to `install()` (`_bootstrap.py:76`).

`ContentDetectors` follows the code where words differ: every injection weight reaches the threshold
(`prompt_injection.py:91`), so a single signature always flags, while `docs/detectors/tuning.md` has
a weak one score below it; in an output only a critical poisoning finding is lowered
(`tool_poisoning.py:97`), though the comment above it lowers all but the medium ones; a model's
`"injection": "false"`, a string, is true (`llm.py:137`), and a `NaN` confidence is 1.0 (`llm.py:145`);
`TRACEWARDEN_DETECT_...` set to the empty string turns a detector off (`config.py:57`).

`OnlyOverlapHides` has an exception that happens. In "token:" on one line and
`my-sample-service-account-password=Zq8v...` on the next, the match of `generic_credential_assignment` that
begins at "token" goes over the newline (`\s*`, `secrets.py:105`) and captures
`my-sample-service-account-password`; `finditer` goes on behind it, the entropy gate drops it
(`secrets.py:129`), and the password, which the second line alone shows, is not found. On one line the
same happens to a card number after a number of six digits (`pii.py:54`).

When wrappers are removed out of order (`tangled`), `uninstall()` drops the other library's wrapper
(`openai_sdk.py:96`), and when the other library restores what it saved, ours comes back on a framework
that is not instrumented any more: `PatchesExact` says that nothing else disturbs the patches.

## 5. Proofs

Checked by TLAPS for every value of the constants that satisfies the assumptions of the modules
(finite sets of spans, traces and threads, positive caps and thresholds, typed inputs;
`ContentRulesAssumption`: content detectors do not raise the rules that are kept per trace):

| Theorem | States |
|---|---|
| `HistoryTypes` | `DetectorHistory!Spec => []TypeOK` |
| `SequenceFlagsAreExact`, `CostFlagsAreExact` | the flags are the anomalies of the whole history |
| `RaisedOnce` | each rule is raised at most once, exactly if its anomaly is in the history |
| `AgentIsATrace` | `AgentRun!AgentSpec => DetectorHistory!Spec`: the theorems above hold of what adapters scan |
| `AgentTypesHold` | `AgentSpec => []AgentTypes` |
| `OneAdapterIsExact`, `BothAdaptersCountTwice` | the counted calls are those one adapter can know of, or of both each once |
| `BudgetAlarmIsBounded`, `HistoryTripsTheLoopAlarm` | what the resent history does to the two alarms on prompts, for any budget and threshold |
| `TypesCorrect` | `Pipeline!Spec => []TypeOK` |
| `SpanCacheIsExact`, `TraceCacheIsExact` | the caches are exact LRU caches |
| `SummaryIsExact` | the summary is complete exactly if the span was not forgotten |
| `AnomaliesComeOnce`, `BudgetAlarmIsExact` | alarms of a kept trace come once, the budget alarm exactly beyond the budget |
| `OnlyFailuresSilence` | a rule is flagged and unreported only where a scan of the same trace failed |
| `ImplementsLedger` | `Pipeline!Spec => Ledger!Spec`, for any caps, failures and direct recordings |
| `CachesStayBounded`, `NoFailureWithRoom` | any number of threads exceed a cap by the calls about to trim, and lose a call only to a full cache |
| `QuietSpansAreExact`, `QuietTracesAreExact` | other threads do not disturb a span or a trace without overlapping calls |
| `SerialCallsNeverFail`, `SerialCachesAreLru` | `Spec /\ []OneCall => ...`: while calls do not overlap (one thread, or coroutines of one event loop), none is lost, whatever the caps, and every cache changes by `Touch` only |
| `RacesInventNothing` | no race makes up a finding or an alarm |
| `BootstrapTypes` | `Bootstrap!Spec => []TypeOK` |
| `AtMostOneLiveHandle`, `ProvidersAreShutOnce`, `ProvidersHaveOneOwner` | one live handle; a provider has at most one owner, which made it, and is shut down once, with it |
| `ScannersBelongToHandles`, `AdaptersEmitWhereRegistered` | nothing scans without a current handle; adapters emit on the registered provider |
| `PatchingIsInstallation` | `PatchSpec => Bootstrap!Spec`: patches do not show in the installation |
| `PatchesStayExact` | both libraries' patches are where they should be, unless tangled |
| `AlertsComeOnceInOrder`, `SinksGetWhatIsDue` | each sink gets what is due but for its own failures, interrupts and requests still adrift; no alert twice, and out of order only one that a server took late |
| `ManagerKeepsTheLog` | `Alerting!Spec => LogSteps`, the safety part of `LogSpec`, late servers included |
| `TracesAreOneAgents`, `RootedAgentsHaveOneTrace` | agents never share a trace; an agent below a root span has one |
| `NoSpanLeaks`, `ScansAreInTime` | open spans have owners, scans meet open spans, but for the exceptions named |
| `ObjectsAreValid`, `PartsAreFoundInTheWhole`, `ListsMeanWhatTheySay`, `NoTypoIsACard` | the four properties of `ContentDetectors`, for every environment, text and reply |

- `PipelineProofs`, caches: the invariant `LruInv` ties the order of the keys to the sets of other
  keys used since each one's last use: the keys behind a cached one are its recent set, and an entry
  is missing exactly if its set has reached the cap. The step is proved for hits (`HitPreserves`) and
  misses (`MissPreserves`), the latter with the cardinality lemmas about appending to a sequence
  without duplicates. Cache exactness follows (`CachedIffRecent`).
- `TraceProofs`, detectors: the invariant adds to the flags what the counters and the remembered calls
  say about the history (each counter is the number of occurrences, the last four calls are a suffix,
  the set of tools is that of the calls). A flag alone is not inductive: the next one depends on the
  counters. For each anomaly a lemma says how one more call can make it appear (`CallLoopGrows`,
  `PingPongGrows`, `FanoutGrows`, ...), and once it appears it stays.
- `TraceProofs`, the agent: none of the four properties is inductive while a request or a reply is being
  scanned, so `AgentInv` (at the end of `AgentRun`, checked by TLC first) says what was scanned at each
  place. `ReplyIsAnswered` and `OneAdapterSees`: the calls still to be scanned are the last of those the
  adapter saw. `BothSee`: for each call what was counted and what is awaited add up to what both
  adapters saw. `PromptsOfConversation`: a conversation has no more prompts than calls of the model,
  tool results taken for messages and the one not yet sent. `PromptsOfRequests`: the first message was
  in every request, and n requests with r results had at most n(n + 1 + 2r)/2 prompts (`Triangle`),
  plus those before `next`. Each action keeps it (`...Preserves`, one lemma per action); with the flags
  exact (`Inv`) the four theorems follow. `AgentIsATrace` is step by step: a scan is a step of
  `DetectorHistory`, everything else a stutter (`AgentStepIsStep`).
- `PipelineProofs`, calls: `Inv` has the LRU invariant of both caches, `ListsFollow` (a cached list is
  all that was found on its span, unless it was forgotten in between) and `EventsFollow` (a live span
  carries what was found). `SummaryExact` alone is not inductive since the next summary comes from
  the list. One lemma per action, and `AttachPreserves` for the part of a scan that touches spans.
  For the refinement, `LedgerInv` adds that a cached list is a tail of what was found and that a span
  is forgotten only among more than `MaxSpans` started ones; a scan is then `Record` (`ScanIsAttach`,
  `AttachLedger`) or a stutter, a direct recording `RecordDirect` (`DirectIsRecord`).
  For the alarms, `FlagsFollow` says of each trace what its flags and its counter have to do with the
  alerts so far: what was alerted in a kept trace is flagged, what is flagged was alerted unless a
  scan failed, and the counter is at most the number of prompts, and equal to it in a kept trace. The three properties follow from it
  (`FlagsHold`), and none is inductive without the counter.
- `PipelineThreadsProofs`: the invariant says for each place of `__call__` what a thread knows there.
  `ObjectsApart` (the object behind a key was made for it and for no other key), `NothingEvicted`
  (with room for every key no call is about to evict, and the key a call is about to check, renew or
  fetch is in the order), `SpansExact` and
  `TracesExact` (what the list and the counter of an undisturbed key are at each place of the one call
  on it) carry the proof; `CacheBounded` needs that no key is in an order twice, since two threads
  may insert the same one. Each action changes the frame of one thread, so each conjunct has a
  lemma for that thread and one for the others. The operation that fetches an object was first written as
  a `CASE` whose arms overlapped; the proof asked which one applies, and it is an `IF` now.
- `PipelineThreadsProofs`, calls that do not overlap: `SettledOrder` maps the order of a cache in the
  middle of a lookup to what the call will have made of it, and `SerialInv` says where the key of the
  only call is between its insertion and its use (it is the last one, so that `popitem` drops another,
  as a cap is at least 1). Each step of a lookup is then `Touch` at the lookup itself and a stutter
  afterwards (`SettledSteps`, `TouchOnlyStep`). This is why `Pipeline` may take a lookup for one step.
  No run lists the two properties: TLC checked them for two threads under the constraint `OneCall`.
- `InstallationProofs`, handles: the properties are inductive together once `UsedAreMade` is added: a
  provider of `install()` that is not made yet is neither registered nor attached to by any handle. It
  makes `OneOwner` survive an install and, with it, `ProvidersShutOnce` a shutdown (`ClosePreserves`).
  `FinishPreserves` is the end of an install, which adds a handle or, if it failed, nothing.
- `InstallationProofs`, patches: `WrapInv` lists what the layers of a method and the two saved copies can be
  together, `HookInv` the orders of a list of handlers. `PatchesExact` counts layers only and says
  nothing of the saved copies an `Unpatch` puts back, hence the strengthening. The lists have at most
  two entries, so the sequence lemmas (`ShortLists`, `Pairs`, `PairsRemoved`) are about these.
  Through `PatchingIsInstallation` the theorems about `install()` hold with patches too.
- `AlertingProofs`: `Inv` has the places of the two loops (`LoopsInRange`) and that a sink has exactly
  what was settled for it and not missed (`SettledIsOut`, `OutIsSettled`), and that what is adrift is not
  out (`AdriftIsNotOut`), without which a late server could deliver an alert twice. A step of a loop then adds
  at most the next alert of one thread to one sink, which is `Settle` of the log, or leaves a matching
  rule's sink behind, which is `Abandon`; a time-out is a `Settle` that lets
  the alert go (`LetGo`), a late server `Arrive`.
- `AdapterSpansProofs`: `TracesApart` (a trace belongs to one agent, and what comes below a span is of
  its trace), `References` (contexts, handlers and borrowed spans refer to spans that exist),
  `Owners` (open spans, as `NoSpanLeaks` says, with what a context keeps entered) and `Carriers` (a
  borrowed span is open in the one task that borrowed it, or threads run in parallel). The last is
  what makes the exceptions of `ScansMeetLiveSpans` the only ones.
- `ContentDetectorProofs`: `Inv` says that the configuration is the environment's and the findings are
  those of the context; the theorems are then about `FindingsOf`. Scores and check digits are sums,
  which `SumFunctionOnSet` of the community modules defines by recursion over a set.
  `SetInduction` is induction over the subsets of a finite set stated with a set instead of a
  predicate, from `WFMin` and the well-foundedness of strict inclusion; `SumsRecursion` shows that the
  recursion defines a function, `SumsShape` that the order of the elements does not matter, `SumGrows` and
  `SumChanges` what more elements and other values do to a sum. A check digit then catches a typo
  because `LuhnDigit` is one-to-one on digits and two neighbours are weighted differently
  (`DoubledDigits`, `Neighbours`). `FindIter` is a `CHOOSE`: `FindIterYields` (by induction over the
  positions) and `FindIterUnique` show that there is exactly one such set, and so `PartsAreYielded`, that
  the matches before and after a place are yielded in the part as in the whole if no yielded match
  reaches over it.

Only model-checked: liveness (`ReportsReturn` and the fairness of `LogSpec`), which is out of reach of
the prover, as are ENABLED and RECURSIVE operators. Every invariant of a passing run is proved, and
every action property. The four runs of section 4 are counterexamples and need no proof.

## 6. Not modelled

- Regular expressions and the Shannon entropy: what they give for a text is an input of
  `ContentDetectors`. `Pipeline` takes the findings of stateless detectors from a constant, since it
  does nothing with them but count and pass them on. Left out is the truncation of the text the local
  model sees. No pattern looks behind or ahead across the end of a line, so `OnlyOverlapHides` takes the
  matches within a part of a text for those of the part alone (a Markdown link cut in two is the one
  that may have fewer there).
- How long a time-out of `urlopen` really is (it is one of each socket operation), and redirects.
- Evidence and redaction, detector ids, attribute names, formatting of alerts, logging.
- The exporters and processors of OpenTelemetry (what happens to a span that ended), its limit of 128
  events a span, invalid span contexts (trace id 0), a host that shuts down its own provider.
- The text digest of the detectors is taken as injective; a tool name is a value of its own.
- `annotate_backends` is on, as `from_config` always has it.
- Threads: `max_severity` and the backend copies are written like `event_types`, the other counters
  like `llm_calls`, and stand for by them. `print` in `stdout_sink` is one step in `Alerting` though it
  writes the line and its end separately.
- `guarded_tool` on a coroutine function, which scans the coroutine and not its result.
- An Anthropic message with several tool results: in `AgentRun` each comes in a message of its own, which
  makes the most of the prompts that are counted.
- `list_tools` of the MCP adapter (it scans descriptions, which no stateful detector looks at), and
  how `_util.py` flattens a message to text.
- Dashboards, compose files, the example.

## 7. Plan

Done, in this order: `Lru`, `TraceDetectors`, `Pipeline` (core), `DetectorHistory`, `FindingLedger`,
`Bootstrap`, `AgentRun`, `PipelineThreads`, `Alerting`, `AdapterSpans`, `AlertLog`, `Patching`,
`ContentDetectors`, and the proofs of section 5.

Next: of `PipelineThreads` implementing `Pipeline` while calls do not overlap, the caches and the absence
of failed calls are proved (`SerialCachesAreLru`, `SerialCallsNeverFail`); the lists, the summaries and the
alarms of evicted spans and traces are left.
