------------------------- MODULE MCContentDetectors -------------------------
(* An instance of ContentDetectors for TLC. *)
EXTENDS ContentDetectors, SequencesExt

Found(rule, from, to, entropy, digits) ==
  [rule |-> rule, from |-> from, to |-> to, entropy |-> entropy, digits |-> digits]
Number(rules, from, to, digits) == {Found(p, from, to, 0, digits) : p \in rules}
Signs(rules) == {Found(p, 0, 20, 0, <<>>) : p \in rules}

Ones(n) == [i \in 1..n |-> 1]
Card == <<4, 0, 9, 5>> \o Ones(8) \o <<0, 5, 5, 0>>
Order == <<0, 0, 0, 1, 2, 3>>

\* What the patterns match on a line: a key that two rules match; "api_key = sk-example-
\* example-example-ex"; an e-mail address; card numbers that look like phone numbers too:
\* a valid one in groups of four, an invalid one of 13 digits, a valid one of 19, and
\* the first one after the number of an order, "000123 4095 1111 1111 0550".
Values ==
  {{Found("openai_api_key", 0, 31, 48, <<>>), Found("anthropic_api_key", 0, 31, 48, <<>>)},
   {Found("openai_api_key", 10, 39, 29, <<>>),
    Found("generic_credential_assignment", 0, 39, 29, <<>>)},
   {Found("email", 0, 19, 0, <<>>)},
   Number({"credit_card", "phone_number"}, 5, 24, Card)
     \cup Number({"phone_number"}, 10, 24, SubSeq(Card, 5, 16)),
   Number({"credit_card", "phone_number"}, 3, 16, Ones(13)),
   Number({"credit_card", "phone_number"}, 3, 22, <<5, 0, 9>> \o Ones(15) \o <<3>>),
   Number({"credit_card"}, 6, 28, Order \o SubSeq(Card, 1, 12))
     \cup Number({"phone_number"}, 6, 27, Order \o SubSeq(Card, 1, 12))
     \cup Number({"credit_card", "phone_number"}, 13, 32, Card)
     \cup Number({"phone_number"}, 18, 32, SubSeq(Card, 5, 16))}

\* Each kind of signature, and three of them together.
Signatures ==
  {Signs({"override_instructions", "concealment_order", "hidden_from_user"}),
   Signs({"new_persona"}), Signs({"delimiter_spoof"}), Signs({"sensitive_file_read"}),
   Signs({"always_include_param"}), Signs({"persistence_order"}),
   Signs({"sensitive_path_access"})}

\* The lines are padded to 60 characters, the newline included.
Width == 60
Shifted(m, by) == [m EXCEPT !.from = @ + by, !.to = @ + by]
TextOf(lines) ==
  [length |-> Width * Len(lines), blank |-> lines = <<>>,
   breaks |-> {Width * i : i \in 1..(Len(lines) - 1)},
   matches |-> UNION {{Shifted(m, Width * (i - 1)) : m \in lines[i]} : i \in DOMAIN lines}]

\* "token:" on a line of its own, and on the next one the assignment of a password to
\* "my-sample-service-account-password", or the token.  \s* reaches over the newline.
AcrossLines ==
  {[length |-> 2 * Width, blank |-> FALSE, breaks |-> {Width}, matches |-> matches] :
     matches \in {{Found("generic_credential_assignment", 0, 94, 39, <<>>),
                   Found("generic_credential_assignment", 86, 119, 45, <<>>)},
                  {Found("generic_credential_assignment", 0, 84, 45, <<>>)}}}

\* One line or two; no detector looks both for values and for signatures.
SomeTexts ==
  AcrossLines \cup {TextOf(lines) : lines \in {<<>>}
                                      \cup SeqOf(Values, 2) \cup SeqOf(Signatures, 2)}

Verdicts ==
  [kind : {"verdict"}, injection : BOOLEAN,
   confidence : {Unset, "nan", <<-20>>, <<59>>, <<60>>, <<85>>, <<170>>}]
SomeReplies == {[kind |-> "unreachable"], [kind |-> "malformed"]} \cup Verdicts

\* Nothing is set but one variable.
NothingSet == [flag |-> [t \in Toggle |-> Unset], allowed |-> Unset,
               number |-> [n \in DOMAIN DefaultOf |-> Unset]]
OneFlag == {[NothingSet EXCEPT !.flag[t] = ""] : t \in Toggle}
             \cup {[NothingSet EXCEPT !.flag["llm"] = "on"]}
OneNumber ==
  {[NothingSet EXCEPT !.number[n] = v] :
     n \in DOMAIN DefaultOf, v \in {Word, Superscript, 0, 2}}
OneList == {[NothingSet EXCEPT !.allowed = list] : list \in SUBSET (Tools \cup {Blank})}
SomeEnvironments == OneFlag \cup OneNumber \cup OneList
=============================================================================
