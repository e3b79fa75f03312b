----------------------------- MODULE MCPatching -----------------------------
(* An instance of Patching for TLC. *)
EXTENDS Patching, TLC

\* A name that is listed twice, one that fails first and one that fails later.
AllRequests == {<<>>, <<"openai", "openai">>, <<"langchain", "ghost", "openai">>, <<"ghost">>}

ProviderSymmetry == Permutations(HostProviders) \cup Permutations(OwnProviders)
=============================================================================
