------------------------------ MODULE Patching ------------------------------
(***************************************************************************)
(* What the adapters do to the frameworks when Bootstrap patches them in   *)
(* and out, in a process where another library patches the same ones.  A   *)
(* wrapping adapter (openai, anthropic, mcp, pydantic_ai) saves a method   *)
(* and replaces it by a wrapper that calls it; a hooking one (langchain,   *)
(* llamaindex) adds a handler to a list of the framework.  The host goes   *)
(* through instrument() and install(), never to an adapter itself.         *)
(***************************************************************************)
EXTENDS Bootstrap, SequencesExt

CONSTANT Hooking  \* the frameworks with a list of handlers

ASSUME HookingAssumption == Hooking \subseteq Frameworks

VARIABLES
  layers,    \* the wrappers a call goes through, or the list of handlers
  original,  \* _ORIGINALS: the layers of the method that the adapter replaced
  saved,     \* the same of the other library
  foreign,   \* the frameworks that the other library has patched
  tangled    \* history: those where a wrapper was not removed from the top

patches == <<layers, original, saved, foreign, tangled>>
allVars == <<vars, patches>>

PatchInit ==
  /\ Init
  /\ layers = [f \in Frameworks |-> <<>>]
  /\ original = [f \in Frameworks |-> <<>>]
  /\ saved = [f \in Frameworks |-> <<>>]
  /\ foreign = {}
  /\ tangled = {}

\* A wrapper goes around what is there, a handler to the end of the list.
With(who, f) == IF f \in Hooking THEN Append(layers[f], who) ELSE <<who>> \o layers[f]

\* Mutant: the newest handler is deleted, whoever registered it.
WithoutLast(who, list) == Front(list)

\* A handler is found on the list by its name, or by its identity, and deleted.
Without(who, list) == RemoveAt(list, CHOOSE i \in DOMAIN list : list[i] = who)

Covered(who, f) == f \notin Hooking /\ (layers[f] = <<>> \/ Head(layers[f]) # who)

\* Mutant: an adapter that is active is patched in again.
PatchAgain(names) ==
  /\ layers' = [f \in Frameworks |-> IF f \in Reached(names) THEN With("ours", f) ELSE layers[f]]
  /\ original' = [f \in Frameworks |-> IF f \in Reached(names) THEN layers[f] ELSE original[f]]

\* instrument_<framework>() for the adapters that instrument() reaches.
Patch(names) ==
  LET new == Reached(names) \ active
  IN  /\ layers' = [f \in Frameworks |-> IF f \in new THEN With("ours", f) ELSE layers[f]]
      /\ original' = [f \in Frameworks |-> IF f \in new THEN layers[f] ELSE original[f]]

\* uninstrument_all(): each active adapter puts back what it saved, whatever the
\* method is by now, or takes its handler off the list.
Unpatch ==
  /\ layers' = [f \in Frameworks |->
                  CASE f \notin active -> layers[f]
                    [] f \in active \cap Hooking -> Without("ours", layers[f])
                    [] OTHER -> original[f]]
  /\ original' = [f \in Frameworks |-> IF f \in active THEN <<>> ELSE original[f]]
  /\ tangled' = tangled \cup {f \in active : Covered("ours", f)}

\* The other library does the same, at any time; a bound of the model: not again
\* once the wrappers of a method are tangled, which would pile them up.
OtherPatches(f) ==
  /\ f \notin foreign \cup tangled
  /\ layers' = [layers EXCEPT ![f] = With("other", f)]
  /\ saved' = [saved EXCEPT ![f] = layers[f]]
  /\ foreign' = foreign \cup {f}
  /\ UNCHANGED <<vars, original, tangled>>

OtherUnpatches(f) ==
  /\ f \in foreign
  /\ layers' = [layers EXCEPT ![f] =
                  IF f \in Hooking THEN Without("other", @) ELSE saved[f]]
  /\ saved' = [saved EXCEPT ![f] = <<>>]
  /\ foreign' = foreign \ {f}
  /\ tangled' = tangled \cup {g \in {f} : Covered("other", g)}
  /\ UNCHANGED <<vars, original>>

PatchNext ==
  \/ \E names \in Requests :
       /\ \/ \E injected \in HostProviders \cup {NoProvider} : Install(injected, names)
          \/ HostInstruments(names)
       /\ Patch(names)
       /\ UNCHANGED <<saved, foreign, tangled>>
  \/ Uninstall /\ Unpatch /\ UNCHANGED <<saved, foreign>>
  \/ \E h \in DOMAIN handles : Shutdown(h) /\ UNCHANGED patches
  \/ \E p \in HostProviders \cup {Foreign} : HostRegisters(p) /\ UNCHANGED patches
  \/ \E f \in Frameworks \ Missing : OtherPatches(f) \/ OtherUnpatches(f)

PatchSpec == PatchInit /\ [][PatchNext]_allVars

-----------------------------------------------------------------------------
(* Properties. *)

Occurs(who, f) == Cardinality({i \in DOMAIN layers[f] : layers[f][i] = who})
Once(who, f, in) == Occurs(who, f) = IF in THEN 1 ELSE 0

\* "Undo instrumentation" (_bootstrap.py:111): a call goes through our wrapper, or
\* to our handler, once while the adapter is active and not at all otherwise, over
\* any installs, failures and uninstalls, and another library's patch is left alone.
\* For handlers this holds in every order; for wrappers unless one was removed from
\* under the other.
PatchesExact ==
  \A f \in Frameworks \ tangled :
    Once("ours", f, f \in active) /\ Once("other", f, f \in foreign)

-----------------------------------------------------------------------------
(* The inductive invariant behind the theorems of InstallationProofs. *)

\* The layers of a wrapped method and what each side saved of it.
WrapInv(f) ==
  \/ f \notin active /\ f \notin foreign /\ layers[f] = <<>>
  \/ f \in active /\ f \notin foreign /\ layers[f] = <<"ours">> /\ original[f] = <<>>
  \/ f \notin active /\ f \in foreign /\ layers[f] = <<"other">> /\ saved[f] = <<>>
  \/ /\ f \in active /\ f \in foreign /\ layers[f] = <<"ours", "other">>
     /\ original[f] = <<"other">> /\ saved[f] = <<>>
  \/ /\ f \in active /\ f \in foreign /\ layers[f] = <<"other", "ours">>
     /\ original[f] = <<>> /\ saved[f] = <<"ours">>

\* The handlers on a list, in either order.
HookInv(f) ==
  \/ f \notin active /\ f \notin foreign /\ layers[f] = <<>>
  \/ f \in active /\ f \notin foreign /\ layers[f] = <<"ours">>
  \/ f \notin active /\ f \in foreign /\ layers[f] = <<"other">>
  \/ f \in active /\ f \in foreign /\ layers[f] \in {<<"ours", "other">>, <<"other", "ours">>}

PatchInv ==
  /\ Hooking \cap tangled = {}
  /\ \A f \in Frameworks \ tangled : IF f \in Hooking THEN HookInv(f) ELSE WrapInv(f)
=============================================================================
