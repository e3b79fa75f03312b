---------------------------- MODULE MCBootstrap -----------------------------
(* Instances of Bootstrap for TLC.  A cfg picks the requests it needs. *)
EXTENDS Bootstrap, TLC

NoRequest == {<<>>}
\* A name that is listed twice, one that fails first and one that fails later.
AllRequests == {<<>>, <<"openai", "mcp">>, <<"mcp", "ghost", "openai">>, <<"ghost">>}

ProviderSymmetry == Permutations(HostProviders) \cup Permutations(OwnProviders)
=============================================================================
