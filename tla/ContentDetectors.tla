-------------------------- MODULE ContentDetectors --------------------------
(***************************************************************************)
(* The detectors that keep nothing between scans, from the environment     *)
(* that configures them (config.py) over the registry that builds them     *)
(* (detectors/base.py) to what each finds in a scanned text.               *)
(*                                                                         *)
(* A text is what the regular expressions can match in it: one match for   *)
(* each place where a pattern does, with its span (the characters from     *)
(* "from" up to "to"); of the value it captures the detectors look at the  *)
(* Shannon entropy (in tenths of a bit) and the digits.  A match may span  *)
(* several lines and overlap others.  "breaks" are the places just after a *)
(* newline.  Weights are in tenths and confidences in hundredths.          *)
(***************************************************************************)
EXTENDS Schema, FiniteSetsExt

CONSTANTS
  Tools,         \* names in meta["tool_name"]
  NoTool,        \* stands for an absent or empty tool name
  Environments,  \* what TRACEWARDEN_* may be set to
  Unset,         \* a variable that is not set, and None
  Blank,         \* an entry of a comma-separated list with no name in it
  Word,          \* a value of which isdigit() is false
  Superscript,   \* one of which it is true and that int() refuses ("2" raised)
  Texts,         \* scanned contents
  Replies        \* what the local model may answer

Toggle == {"secrets", "pii", "prompt_injection", "tool_poisoning", "scope_violation",
           "memory_poisoning", "anomalous_sequence", "cost_loop", "llm"}

Environment == [flag : [Toggle -> STRING \cup {Unset}],
                allowed : {Unset} \cup SUBSET (Tools \cup {Blank}),
                number : [{"repeat", "budget", "fanout"} ->
                            Nat \cup {Unset, Word, Superscript}]]

ASSUME EnvironmentsAssumption == Environments \subseteq Environment

ASSUME NamesAssumption ==
  /\ {NoTool, Unset, Blank} \cap Tools = {} /\ Cardinality({NoTool, Unset, Blank}) = 3
  /\ \A list \in SUBSET (Tools \cup {Blank}) : list # Unset

Match == [rule : STRING, from : Nat, to : Nat, entropy : Nat, digits : Seq(0..9)]

Text == [length : Nat, blank : BOOLEAN, breaks : SUBSET Nat, matches : SUBSET Match]

Verdict == [kind : {"verdict"}, injection : BOOLEAN,
            confidence : {Unset, "nan"} \cup [{1} -> Int]]

ASSUME ContentsAssumption ==
  /\ Texts \subseteq Text
  /\ \A text \in Texts :
       /\ \A m \in text.matches : m.from < m.to /\ m.to <= text.length
       /\ \A m, n \in text.matches : m.rule = n.rule /\ m.from = n.from => m = n
  /\ \A reply \in Replies : reply.kind = "verdict" => reply \in Verdict

VARIABLES
  env,       \* the environment of the process
  config,    \* what from_env made of it: NotRead, Refused or a configuration
  context,   \* the last scan context, with the model's reply to it
  findings   \* what the detectors found in it

vars == <<env, config, context, findings>>

NotRead == [state |-> "not read"]
Refused == [state |-> "refused"]
NoText == [length |-> 0, blank |-> TRUE, breaks |-> {}, matches |-> {}]
NoContext == [surface |-> "system_prompt", tool |-> NoTool, text |-> NoText,
              reply |-> [kind |-> "unreachable"]]

Init ==
  /\ env \in Environments
  /\ config = NotRead
  /\ context = NoContext
  /\ findings = {}

-----------------------------------------------------------------------------
(* Configuration. *)

\* flag(): a variable set to anything but these words turns a detector off.
On(toggle) ==
  IF env.flag[toggle] = Unset
    THEN toggle # "llm"
    ELSE env.flag[toggle] \in {"1", "true", "yes", "on"}

\* Mutant: a list without a name is taken for no list.
AllowedToolsTruthy ==
  IF env.allowed \in {Unset, {}, {Blank}} THEN Unset ELSE env.allowed \ {Blank}

\* The tools of a list; an empty variable is no list, a comma alone is an empty one.
AllowedTools ==
  IF env.allowed \in {Unset, {}} THEN Unset ELSE env.allowed \ {Blank}

DefaultOf == [repeat |-> 3, budget |-> 25, fanout |-> 15]
LeastOf == [repeat |-> 2, budget |-> 1, fanout |-> 2]

\* integer(): what is no digits leaves the default.
Threshold(name) ==
  IF env.number[name] \in {Unset, Word} THEN DefaultOf[name] ELSE env.number[name]

\* int() accepts the value, and pydantic its size.
Acceptable(name) ==
  Threshold(name) # Superscript /\ Threshold(name) >= LeastOf[name]

\* What the constructor gets from from_env, if it accepts all of it.
Configuration ==
  IF \A name \in DOMAIN DefaultOf : Acceptable(name)
    THEN [state |-> "built",
          detectors |-> {toggle \in Toggle : On(toggle)},
          allowed |-> AllowedTools,
          threshold |-> [name \in DOMAIN DefaultOf |-> Threshold(name)]]
    ELSE Refused

\* TracewardenConfig.from_env and build_detectors: a value that is refused raises.
FromEnv ==
  /\ config = NotRead
  /\ config' = Configuration
  /\ UNCHANGED <<env, context, findings>>

-----------------------------------------------------------------------------
(* Findings. *)

\* The rules that matched, and the match itself where each makes a finding.
Finding(type, severity, rules, matches, confidence) ==
  [type |-> type, severity |-> severity, rules |-> rules, matches |-> matches,
   confidence |-> confidence]

\* The patterns of a table that search() finds somewhere in the text.
Hits(table, text) == {p \in DOMAIN table : \E m \in text.matches : m.rule = p}

\* finditer(): from left to right, going on where the last match ended, so that a match
\* is yielded unless one that was yielded before it reaches into it.
FindIter(candidates) ==
  CHOOSE yielded \in SUBSET candidates :
    \A m \in candidates :
      m \in yielded <=> \A t \in yielded : t.from < m.from => t.to <= m.from

Yielded(p, text) == FindIter({m \in text.matches : m.rule = p})

-----------------------------------------------------------------------------
(* Prompt injection, tool poisoning and memory poisoning. *)

InjectionWeight ==
  [override_instructions |-> 10, new_persona |-> 8, prompt_exfiltration |-> 9,
   delimiter_spoof |-> 8, concealment_order |-> 10, encoded_payload_execution |-> 9,
   markdown_exfil_link |-> 10, authority_spoof |-> 9, invisible_unicode |-> 10]

IndirectSurface == {"tool_output", "tool_description", "memory_write"}

\* Mutant: not capped.
InjectionConfidenceOpen(score) == 5 * score

\* min(1.0, score / 2.0)
InjectionConfidence(score) == Min({100, 5 * score})

InjectionFindings(ctx) ==
  LET hits == Hits(InjectionWeight, ctx.text)
      score == SumFunctionOnSet(InjectionWeight, hits)
      severity == (IF ctx.surface \in IndirectSurface THEN HIGH ELSE MEDIUM)
                    + (IF score >= 15 THEN 1 ELSE 0)
  IN  IF ctx.surface = "system_prompt" \/ score < 8
        THEN {}
        ELSE {Finding("prompt_injection", severity, hits, {}, InjectionConfidence(score))}

PoisoningSeverity ==
  [important_block |-> HIGH, hidden_from_user |-> HIGH, sensitive_file_read |-> CRITICAL,
   sidechannel_exfil |-> CRITICAL, precondition_hijack |-> HIGH,
   always_include_param |-> MEDIUM]

\* In an output the worst is one notch lower.
PoisoningFindings(ctx) ==
  IF ctx.surface \in {"tool_description", "tool_output"}
    THEN {Finding("tool_poisoning",
                  IF ctx.surface = "tool_output" THEN Min({HIGH, PoisoningSeverity[p]})
                                                 ELSE PoisoningSeverity[p],
                  {p}, {}, 85) : p \in Hits(PoisoningSeverity, ctx.text)}
    ELSE {}

StandingOrder(text) ==
  {Finding("memory_poisoning", HIGH, {p}, {}, 80) :
     p \in Hits([persistence_order |-> HIGH], text)}

PersistentInjections(text) ==
  {Finding("memory_poisoning", CRITICAL, {p}, {}, 85) :
     p \in {q \in Hits(InjectionWeight, text) : InjectionWeight[q] >= 8}}

MemoryFindings(ctx) ==
  IF ctx.surface = "memory_write"
    THEN StandingOrder(ctx.text) \cup PersistentInjections(ctx.text)
    ELSE {}

-----------------------------------------------------------------------------
(* Secrets and personal data: one finding for each match that is yielded    *)
(* and then passes the gate of its rule.                                    *)

\* The severity of a rule, and the entropy its value must have.
SecretRule ==
  [private_key_block |-> <<CRITICAL, 0>>, aws_access_key_id |-> <<HIGH, 0>>,
   aws_secret_access_key |-> <<CRITICAL, 35>>, github_token |-> <<HIGH, 30>>,
   gitlab_pat |-> <<HIGH, 30>>, slack_token |-> <<HIGH, 0>>,
   stripe_live_key |-> <<CRITICAL, 0>>, openai_api_key |-> <<HIGH, 35>>,
   anthropic_api_key |-> <<HIGH, 0>>, google_api_key |-> <<HIGH, 0>>,
   jwt |-> <<MEDIUM, 0>>, generic_credential_assignment |-> <<MEDIUM, 40>>]

SecretLeak(p, m) ==
  Finding("secret_leak", SecretRule[p][1], {p}, {m},
          IF SecretRule[p][2] > 0 THEN 90 ELSE 100)

SecretsOf(p, matches) ==
  {SecretLeak(p, m) : m \in {n \in matches : n.entropy >= SecretRule[p][2]}}

\* Mutant: the loop ends at a match that does not look random.
SecretFindingsBreak(ctx) ==
  UNION {SecretsOf(p, {m \in Yielded(p, ctx.text) :
                         \A t \in Yielded(p, ctx.text) :
                           t.from < m.from => t.entropy >= SecretRule[p][2]}) :
           p \in DOMAIN SecretRule}

SecretFindings(ctx) ==
  UNION {SecretsOf(p, Yielded(p, ctx.text)) : p \in DOMAIN SecretRule}

\* Mutant: the digits of a doubled digit are not added up.
LuhnDigitDoubled(d, i) == IF i % 2 = 0 THEN 2 * d ELSE d

\* Every second digit from the right is doubled, and the digits of that added up.
LuhnDigit(d, i) ==
  IF i % 2 = 0 THEN (IF 2 * d > 9 THEN 2 * d - 9 ELSE 2 * d) ELSE d

LuhnValid(digits) ==
  /\ Len(digits) \in 13..19
  /\ SumFunction([i \in DOMAIN digits |->
                     LuhnDigit(digits[Len(digits) + 1 - i], i)]) % 10 = 0

\* The severity of a rule and the confidence of its findings.
PiiRule ==
  [email |-> <<LOW, 90>>, us_ssn |-> <<HIGH, 90>>, credit_card |-> <<HIGH, 85>>,
   phone_number |-> <<LOW, 50>>]

PiiGate(p, digits) ==
  /\ p = "credit_card" => LuhnValid(digits)
  /\ p = "phone_number" => Len(digits) >= 10

PiiLeak(p, m) == Finding("pii_leak", PiiRule[p][1], {p}, {m}, PiiRule[p][2])

PersonalDataOf(p, matches) ==
  {PiiLeak(p, m) : m \in {n \in matches : PiiGate(p, n.digits)}}

PiiFindings(ctx) ==
  UNION {PersonalDataOf(p, Yielded(p, ctx.text)) : p \in DOMAIN PiiRule}

-----------------------------------------------------------------------------
(* Tool calls outside their scope. *)

ScopeFindings(ctx) ==
  IF ctx.surface # "tool_input" THEN {}
  ELSE {Finding("scope_violation", HIGH, {"tool_not_allowlisted"}, {}, 100) :
          tool \in {t \in {ctx.tool} \ {NoTool} :
                      config.allowed # Unset /\ t \notin config.allowed}}
       \cup {Finding("scope_violation", HIGH, {p}, {}, 85) :
               p \in Hits([sensitive_path_access |-> HIGH], ctx.text)}

-----------------------------------------------------------------------------
(* The local model.  A reply is "unreachable", "malformed" (no braces, no   *)
(* JSON between them, or JSON that is no object) or "verdict": then with    *)
(* the truth value of "injection" (any string but the empty one is true)    *)
(* and the float() of "confidence" as a tuple, "nan", or Unset when there   *)
(* is none or it is no number.  Any other exception ends the scan: Pipeline *)
(* has that case.                                                           *)

\* max(0.0, min(1.0, confidence)); of a nan, min() returns its first argument.
Confidence(reply) ==
  CASE reply.confidence = Unset -> IF reply.injection THEN 100 ELSE 0
    [] reply.confidence = "nan" -> 100
    [] OTHER -> Max({0, Min({100, reply.confidence[1]})})

Asked(ctx) ==
  /\ ctx.surface \in {"user_prompt", "tool_output", "tool_description", "memory_write"}
  /\ ~ ctx.text.blank

LlmFindings(ctx) ==
  IF /\ Asked(ctx)
     /\ ctx.reply.kind = "verdict" /\ ctx.reply.injection /\ Confidence(ctx.reply) >= 60
    THEN {Finding("prompt_injection",
                  IF Confidence(ctx.reply) >= 85 THEN HIGH ELSE MEDIUM,
                  {"llm_classifier"}, {}, Confidence(ctx.reply))}
    ELSE {}

-----------------------------------------------------------------------------
(* A scan. *)

FindingsOf(toggle, ctx) ==
  CASE toggle = "secrets" -> SecretFindings(ctx)
    [] toggle = "pii" -> PiiFindings(ctx)
    [] toggle = "prompt_injection" -> InjectionFindings(ctx)
    [] toggle = "tool_poisoning" -> PoisoningFindings(ctx)
    [] toggle = "scope_violation" -> ScopeFindings(ctx)
    [] toggle = "memory_poisoning" -> MemoryFindings(ctx)
    [] toggle = "llm" -> LlmFindings(ctx)
    [] OTHER -> {}

\* What the pipeline gets from the detectors that are on.
AllFindings(ctx) == UNION {FindingsOf(toggle, ctx) : toggle \in config.detectors}

Contexts == [surface : Surface, tool : Tools \cup {NoTool}, text : Texts, reply : Replies]

\* A bound: one scan, for no detector here keeps anything of it.
Scan ==
  /\ config.state = "built"
  /\ context = NoContext
  /\ \E ctx \in Contexts :
       /\ "llm" \notin config.detectors \/ ~Asked(ctx) => ctx.reply = NoContext.reply
       /\ context' = ctx
       /\ findings' = AllFindings(ctx)
  /\ UNCHANGED <<env, config>>

Next == FromEnv \/ Scan

Spec == Init /\ [][Next]_vars

-----------------------------------------------------------------------------
(* Properties. *)

\* Every object the detectors build is valid for its pydantic model (schema.py:99,
\* config.py:45-49), however many signatures a text matches and whatever number the
\* model calls its confidence: a scan never raises a ValidationError, and the stateful
\* detectors have thresholds that TraceDetectors can assume.
FieldsValid ==
  /\ \A f \in findings : f.confidence \in 0..100
  /\ config.state = "built" =>
       \A name \in DOMAIN LeastOf : config.threshold[name] >= LeastOf[name]

\* Nothing hides behind more text but what a match across lines takes with it: what is
\* found in the lines before a line break, or in those after it, is found in the whole
\* text, of the same type and at least as severe, by the detectors that score, return
\* early or share signatures, and itself by those that report each match; unless
\* finditer() yields a match of its rule that reaches over the break and so takes the
\* characters it begins in.  (The local model has a view of its own.)
Before(b) == {m \in context.text.matches : m.to <= b}
After(b) == {m \in context.text.matches : m.from >= b}

ReachesOver(p, b) == \E m \in Yielded(p, context.text) : m.from < b /\ b < m.to

OnlyOverlapHides ==
  \A b \in context.text.breaks : \A kept \in {Before(b), After(b)} :
    LET part == [context EXCEPT !.text.matches = kept]
    IN  \A f \in AllFindings(part) \ LlmFindings(part) :
          IF f.matches = {}
            THEN \E g \in findings : g.type = f.type /\ g.severity >= f.severity
            ELSE f \in findings \/ \E p \in f.rules : ReachesOver(p, b)

\* "If scope_allowed_tools is configured, any other tool call is a violation"
\* (scope.py:4), from the variable to the finding: a list that names no tool allows
\* none, an empty variable allows every one, a call without a name is let through.
AllowlistExact ==
  config.state = "built" /\ "scope_violation" \in config.detectors =>
    ((\E f \in findings : f.rules = {"tool_not_allowlisted"})
       <=> /\ context.surface = "tool_input" /\ context.tool # NoTool
           /\ env.allowed # Unset /\ env.allowed # {}
           /\ context.tool \notin env.allowed)

\* One digit of a number is mistyped, or two neighbours are swapped (not 0 with 9).
Typos(digits) ==
  {[digits EXCEPT ![i] = d] : i \in DOMAIN digits, d \in 0..9}
    \cup {[digits EXCEPT ![i] = digits[i + 1], ![i + 1] = digits[i]] :
            i \in {j \in DOMAIN digits \ {Len(digits)} : {digits[j], digits[j + 1]} # {0, 9}}}

\* The gate that "keeps random 16-digit numbers from flagging" (_text.py:25) does what
\* a check digit is for: next to a card number no mistyped one is flagged.
TypoIsNoCard ==
  \A m \in context.text.matches :
    (\E f \in findings : f.rules = {"credit_card"} /\ f.matches = {m}) =>
      \A digits \in Typos(m.digits) \ {m.digits} : ~PiiGate("credit_card", digits)

-----------------------------------------------------------------------------
(* The inductive invariant behind the theorems of ContentDetectorProofs: the *)
(* configuration is what the environment says, the findings are those of the *)
(* context.                                                                  *)

Inv ==
  /\ env \in Environments
  /\ config \in {NotRead, Configuration}
  /\ \/ context = NoContext /\ findings = {}
     \/ /\ config.state = "built"
        /\ context \in Contexts
        /\ findings = AllFindings(context)
=============================================================================
