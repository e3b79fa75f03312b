----------------------------- MODULE MCAgentRun -----------------------------
(* Instances of AgentRun for TLC.  A cfg picks the definitions it needs. *)
EXTENDS AgentRun, TLC

\* The detectors compare tools only for equality.
ToolSymmetry == Permutations(Tools)

\* "raw" and "dumped" are two spellings of the same arguments.
Spellings == [text \in Texts |-> IF text = "raw" THEN "dumped" ELSE text]

Calls == {<<tool, text>> : tool \in Tools, text \in Texts}
Answer == {<<>>}
OneCall == {<<c>> : c \in Calls}
TwoCalls == {<<c, d>> : c, d \in Calls}
OneAtATime == Answer \cup OneCall
UpToTwo == OneAtATime \cup TwoCalls

WithArguments(replies) ==
  {r \in replies : \A i \in DOMAIN r : r[i][2] # NoArguments}
OneWithArguments == WithArguments(OneAtATime)
=============================================================================
