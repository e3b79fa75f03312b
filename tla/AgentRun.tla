------------------------------ MODULE AgentRun ------------------------------
(***************************************************************************)
(* One trace of an agent that calls a chat model through the OpenAI or the *)
(* Anthropic adapter (openai_sdk.py, anthropic_sdk.py) and its tools       *)
(* through the MCP adapter (mcp_client.py), as far as install() patched    *)
(* them in.  The adapters turn each call into scans, one to a step, and    *)
(* the stateful detectors see nothing but those: the scans are the actions *)
(* of DetectorHistory.  All spans are in one trace: the agent runs under a *)
(* root span, and tracewarden keeps the trace's scratch.                   *)
(***************************************************************************)
EXTENDS DetectorHistory

CONSTANTS
  Installs,     \* the sets of adapters to consider, with one model SDK at most
  NoArguments,  \* the text that stands for an empty argument object
  Dumped,       \* dump_json(json.loads(arguments)), which unifies spellings
  Streams,      \* of TRUE and FALSE, what the agent may pass as stream=
  Replies,      \* the lists of tool calls the model may answer with
  Results,      \* the texts the tools may return
  MaxCalls,     \* bound on the calls of the model
  MaxRuns       \* bound on the tool calls the model asks for

ASSUME AgentAssumption ==
  /\ Installs \subseteq {a \in SUBSET {"openai", "anthropic", "mcp"} :
                            ~ {"openai", "anthropic"} \subseteq a}
  /\ NoArguments \in Texts
  /\ Dumped \in [Texts -> Texts]
  /\ \A text \in Texts : /\ Dumped[Dumped[text]] = Dumped[text]
                         /\ Dumped[text] = NoArguments <=> text = NoArguments
  /\ Streams \subseteq BOOLEAN
  /\ Replies \subseteq Seq(CallKey)
  /\ Results \subseteq Texts
  /\ MaxCalls \in Nat /\ MaxRuns \in Nat

VARIABLES
  adapters,      \* the adapters that install() patched in
  conversation,  \* the messages that go with every call of the model, as they are scanned
  unanswered,    \* the last message is not the model's
  stage,         \* how far a call of the model has come
  next,          \* what of the request or of the reply is scanned next
  reply,         \* the tool calls of the last reply
  started,       \* those of them that were started
  returned,      \* those of them that returned
  modelCalls,    \* history: calls of the model, also those that failed
  answered,      \* history: the tool calls the adapter saw in replies
  toolRuns,      \* history: the tool calls that were started, in order
  argued         \* history: those of toolRuns that have arguments

agent == <<conversation, unanswered, reply, started, returned>>
histories == <<modelCalls, answered, toolRuns, argued>>

agentVars == <<vars, adapters, agent, stage, next, histories>>

AgentInit ==
  /\ Init
  /\ adapters \in Installs
  /\ conversation = <<>>
  /\ unanswered = FALSE
  /\ stage = "idle"
  /\ next = 1
  /\ reply = <<>>
  /\ started = {}
  /\ returned = {}
  /\ modelCalls = 0
  /\ answered = <<>>
  /\ toolRuns = <<>>
  /\ argued = <<>>

-----------------------------------------------------------------------------
(* What the adapters scan. *)

Context(surface, tool, text) == [surface |-> surface, tool |-> tool, text |-> text]

\* _hooks.scan: the detectors of the pipeline see the content.
Scan(ctx) ==
  \/ ctx.surface = "tool_input" /\ ctx.tool # NoTool /\ ToolCall(ctx.tool, ctx.text)
  \/ ctx.surface = "user_prompt" /\ Prompt(ctx.text)
  \/ OtherContent(ctx)

\* The adapters that wrap the model's SDK.
ModelAdapter == {"openai", "anthropic"}

ModelIsWrapped == ModelAdapter \cap adapters # {}

\* A message of the user is scanned as what it is (ROLE_SURFACE).
UserContents(text) == <<Context("user_prompt", NoTool, text)>>

\* A tool result goes back to the Anthropic SDK as a block of a user message:
\* the block is scanned as tool output, and the message as a user prompt.
ResultContents(text) ==
  IF "anthropic" \in adapters
    THEN <<Context("tool_output", NoTool, text), Context("user_prompt", NoTool, text)>>
    ELSE <<Context("tool_output", NoTool, text)>>

\* Mutant: only the newest message is scanned.
FirstContentNewest == Len(conversation)

\* _scan_request goes through every message of the request, the old ones too.
FirstContent == 1

\* A tool call as the model's adapter reports it: OpenAI's arguments are a
\* string of the model, Anthropic's are an object that goes through dump_json.
Reported(call) ==
  IF "anthropic" \in adapters THEN <<call[1], Dumped[call[2]]>> ELSE call

\* _scan_response: the answer, or the tool calls it consists of.
ReplyContent(calls, i) ==
  IF calls = <<>>
    THEN Context("completion", NoTool, NoArguments)
    ELSE Context("tool_input", Reported(calls[i])[1], Reported(calls[i])[2])

\* Mutant: of several tool calls only the first is scanned.
ReplyIsScannedFirst(calls, i) == i >= 1

ReplyIsScanned(calls, i) == i >= Len(calls)

\* Mutant: a call without arguments is scanned too.
ArgumentsAreScannedEmpty(text) == TRUE

\* call_tool_wrapper scans the arguments if there are any.
ArgumentsAreScanned(text) == text # NoArguments

-----------------------------------------------------------------------------
(* The agent. *)

AllReturned == returned = DOMAIN reply

\* The user starts the conversation, or goes on after an answer.
UserSays(text) ==
  /\ stage = "idle" /\ AllReturned /\ ~unanswered
  /\ modelCalls < MaxCalls
  /\ conversation' = conversation \o UserContents(text)
  /\ unanswered' = TRUE
  /\ UNCHANGED <<vars, adapters, stage, next, reply, started, returned, histories>>

\* create() is called, with the whole conversation.
CallModel ==
  /\ stage = "idle" /\ AllReturned /\ unanswered
  /\ modelCalls < MaxCalls
  /\ modelCalls' = modelCalls + 1
  /\ stage' = IF ModelIsWrapped THEN "request" ELSE "create"
  /\ next' = FirstContent
  /\ UNCHANGED <<vars, adapters, agent, answered, toolRuns, argued>>

\* One step of _scan_request.
ScanRequest ==
  /\ stage = "request"
  /\ Scan(conversation[next])
  /\ next' = next + 1
  /\ stage' = IF next < Len(conversation) THEN "request" ELSE "create"
  /\ UNCHANGED <<adapters, agent, histories>>

\* The wrapped create() returns: the reply is scanned unless it is streamed.
ModelReplies(calls, stream) ==
  /\ stage = "create"
  /\ Len(toolRuns) + Len(calls) <= MaxRuns
  /\ unanswered' = FALSE
  /\ reply' = calls /\ started' = {} /\ returned' = {}
  /\ next' = 1
  /\ \/ /\ ModelIsWrapped /\ ~stream
        /\ stage' = "response"
        /\ answered' = answered \o [i \in DOMAIN calls |-> Reported(calls[i])]
     \/ /\ ~ModelIsWrapped \/ stream
        /\ stage' = "idle"
        /\ UNCHANGED answered
  /\ UNCHANGED <<vars, adapters, conversation, modelCalls, toolRuns, argued>>

\* The wrapped create() raises: the agent sees the exception and may call again.
ModelFails ==
  /\ stage = "create"
  /\ stage' = "idle"
  /\ UNCHANGED <<vars, adapters, agent, next, histories>>

\* One step of _scan_response.
ScanResponse ==
  /\ stage = "response"
  /\ Scan(ReplyContent(reply, next))
  /\ next' = next + 1
  /\ stage' = IF ReplyIsScanned(reply, next) THEN "idle" ELSE "response"
  /\ UNCHANGED <<adapters, agent, histories>>

\* The agent runs the tool calls of a reply, concurrently or in any order.
StartTool(i) ==
  LET tool == reply[i][1]
      text == reply[i][2]
  IN  /\ stage = "idle"
      /\ started' = started \cup {i}
      /\ toolRuns' = Append(toolRuns, <<tool, Dumped[text]>>)
      /\ argued' = IF text = NoArguments THEN argued ELSE Append(argued, <<tool, Dumped[text]>>)
      /\ IF "mcp" \in adapters /\ ArgumentsAreScanned(text)
           THEN Scan(Context("tool_input", tool, Dumped[text]))
           ELSE UNCHANGED vars
      /\ UNCHANGED <<adapters, conversation, unanswered, stage, next, reply, returned, modelCalls, answered>>

\* The agent sends what became of a tool call back to the model.
SendBack(i, text) ==
  /\ stage = "idle"
  /\ returned' = returned \cup {i}
  /\ conversation' = conversation \o ResultContents(text)
  /\ unanswered' = TRUE
  /\ UNCHANGED <<adapters, stage, next, reply, started, histories>>

\* call_tool() returns a text, which is scanned.
ToolReturns(i, result) ==
  /\ SendBack(i, result)
  /\ IF "mcp" \in adapters THEN Scan(Context("tool_output", reply[i][1], result))
                           ELSE UNCHANGED vars

\* call_tool() raises, or returns no text: nothing is scanned.
ToolReturnsNothing(i, result) ==
  /\ SendBack(i, result)
  /\ UNCHANGED vars

AgentNext ==
  \/ \E text \in Texts \ {NoArguments} : UserSays(text)
  \/ CallModel
  \/ ScanRequest
  \/ \E calls \in Replies, stream \in Streams : ModelReplies(calls, stream)
  \/ ModelFails
  \/ ScanResponse
  \/ \E i \in DOMAIN reply \ started : StartTool(i)
  \/ \E i \in started \ returned, result \in Results :
       ToolReturns(i, result) \/ ToolReturnsNothing(i, result)

AgentSpec == AgentInit /\ [][AgentNext]_agentVars

-----------------------------------------------------------------------------
(* Properties. *)

\* The types of the agent's state and of the histories.
AgentTypes ==
  /\ adapters \in Installs
  /\ conversation \in Seq(ScanContext)
  /\ unanswered \in BOOLEAN
  /\ stage \in {"idle", "request", "create", "response"}
  /\ next \in Nat \ {0}
  /\ reply \in Seq(CallKey)
  /\ started \subseteq DOMAIN reply /\ returned \subseteq started
  /\ modelCalls \in Nat
  /\ answered \in Seq(CallKey) /\ toolRuns \in Seq(CallKey) /\ argued \in Seq(CallKey)

\* The tool calls that an adapter can know of.
Visible(adapter) == IF adapter \in ModelAdapter THEN answered ELSE argued

ToolAnomaly(rule, calls) ==
  \/ rule = "repeated_identical_call" /\ CallLoopShown(calls)
  \/ rule = "tool_ping_pong" /\ PingPongShown(calls)
  \/ rule = "tool_fanout" /\ FanoutShown(calls)

\* With one adapter the flags of the sequence detector are the anomalies of the
\* calls that adapter can know of, once a reply is scanned: no call is counted
\* twice or lost between the adapter and the detector, though old messages are
\* scanned again and again and tools run at the same time.
OneAdapterExact ==
  \A adapter \in adapters :
    adapters = {adapter} /\ stage # "response" =>
      \A rule \in SequenceRule :
        rule \in sequence.flagged <=> ToolAnomaly(rule, Visible(adapter))

\* With the adapters of the model and of the tools every call is counted once
\* when the model asks for it and once more when it runs, unless its reply was
\* streamed or it has no arguments: two runs may make up a "loop" of four, but
\* nothing is counted a third time when the history is sent again.
BothCountTwice ==
  "mcp" \in adapters /\ ModelIsWrapped /\ stage # "response" =>
    \A key \in CallKey :
      sequence.calls[key] =
        Cardinality(Occurrences(answered, key)) + Cardinality(Occurrences(argued, key))

\* How far the budget alarm can be off, since the detector counts user messages
\* and every call resends the old ones: once a request is scanned it is not late
\* (docs/detectors/catalog.md:73), and n calls count as n(n+1)/2 at the most,
\* to which the Anthropic adapter adds each tool result in each later request.
BudgetAlarmBounds ==
  ModelIsWrapped =>
    LET flagged == "llm_call_budget_exceeded" \in cost.flagged
        results == IF "anthropic" \in adapters THEN Len(toolRuns) ELSE 0
    IN  /\ modelCalls > CallBudget /\ stage # "request" => flagged
        /\ flagged => modelCalls * (modelCalls + 1 + 2 * results) > 2 * CallBudget

\* What the resent history does to the loop alarm: a conversation of
\* RepeatThreshold calls has raised it, whatever was said, because the first
\* message was in all of them (cost_loop.py:71).
HistoryTripsLoopAlarm ==
  ModelIsWrapped /\ modelCalls >= RepeatThreshold /\ stage # "request" =>
    "repeated_identical_prompt" \in cost.flagged

\* catalog.md:68, "A->B->A->B ping-pong" is flagged.
PingPongIsFlagged ==
  PingPongShown(toolRuns) => "tool_ping_pong" \in sequence.flagged

-----------------------------------------------------------------------------
(* The inductive invariant behind the theorems of TraceProofs: where a call *)
(* of the model is, and what was scanned of it so far.                      *)

\* Where the agent and the wrapper are.
Places ==
  /\ stage \in {"request", "response"} => ModelIsWrapped
  /\ stage = "request" => next <= Len(conversation)
  /\ stage = "response" => next <= Len(reply) \/ next = 1
  /\ stage \in {"request", "create"} => unanswered /\ modelCalls > 0 /\ returned = DOMAIN reply
  /\ stage = "response" => started = {}
  /\ reply # <<>> => modelCalls > 0

\* The conversation starts with the user, and holds what users and tools said.
Contents ==
  /\ \A i \in DOMAIN conversation :
       conversation[i].surface \in {"user_prompt", "tool_output"}
  /\ unanswered \/ modelCalls > 0 => conversation # <<>>
  /\ conversation # <<>> => conversation[1].surface = "user_prompt"

\* The calls of the reply that are not yet scanned end the list of the answered ones.
Awaited == IF stage = "response" THEN Len(reply) + 1 - next ELSE 0

ReplyIsAnswered ==
  stage = "response" =>
    /\ Len(reply) <= Len(answered)
    /\ \A i \in DOMAIN reply : answered[Len(answered) - Len(reply) + i] = Reported(reply[i])

\* With one adapter the detector has seen what the adapter saw, in that order.
OneAdapterSees ==
  /\ adapters = {"mcp"} => toolCalls = argued
  /\ ModelIsWrapped /\ "mcp" \notin adapters =>
       /\ Len(answered) = Len(toolCalls) + Awaited
       /\ \A i \in DOMAIN toolCalls : toolCalls[i] = answered[i]

AwaitedOf(key) ==
  IF stage = "response"
    THEN {i \in DOMAIN reply : next <= i /\ Reported(reply[i]) = key}
    ELSE {}

\* With two it has seen each call as often as both adapters together.
BothSee ==
  "mcp" \in adapters /\ ModelIsWrapped =>
    \A key \in CallKey :
      Cardinality(Occurrences(toolCalls, key)) + Cardinality(AwaitedOf(key))
        = Cardinality(Occurrences(answered, key)) + Cardinality(Occurrences(argued, key))

\* The contents before the nth that count as prompts.
PromptsBefore(contents, n) ==
  {i \in DOMAIN contents : i < n /\ contents[i].surface = "user_prompt"}

\* The calls of the model whose request was scanned to the end.
Requested == IF stage = "request" THEN modelCalls - 1 ELSE modelCalls

\* The tool results that the Anthropic adapter takes for messages of the user.
ResultsAsPrompts ==
  IF "anthropic" \in adapters THEN Len(toolRuns) - Cardinality(started \ returned) ELSE 0

\* Each user message but the newest was answered by a call of its own.
PromptsOfConversation ==
  Cardinality(PromptsBefore(conversation, Len(conversation) + 1))
    <= modelCalls + (IF stage = "idle" /\ unanswered THEN 1 ELSE 0) + ResultsAsPrompts

\* The first message was in every request, and no request had more prompts than
\* there were calls and results.
PromptsOfRequests ==
  ModelIsWrapped =>
    /\ conversation # <<>> =>
         Cardinality(Occurrences(prompts, conversation[1].text))
           >= Requested + (IF stage = "request" /\ next > 1 THEN 1 ELSE 0)
    /\ LET results == IF "anthropic" \in adapters THEN Len(toolRuns) ELSE 0
       IN  2 * Len(prompts)
             <= Requested * (Requested + 1 + 2 * results)
                  + (IF stage = "request" THEN 2 * Cardinality(PromptsBefore(conversation, next)) ELSE 0)

AgentInv ==
  /\ AgentTypes /\ Places /\ Contents
  /\ ReplyIsAnswered /\ OneAdapterSees /\ BothSee
  /\ PromptsOfConversation /\ PromptsOfRequests
=============================================================================
