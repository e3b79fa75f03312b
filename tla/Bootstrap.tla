----------------------------- MODULE Bootstrap ------------------------------
(***************************************************************************)
(* The life of tracewarden in a process: install(), uninstall() and the    *)
(* handles of _bootstrap.py, the adapter registry of                       *)
(* instrumentation/__init__.py and the scanner list of _hooks.py, over the *)
(* process-wide TracerProvider of OpenTelemetry.  Nothing here is guarded  *)
(* by a lock; the module is the program of a host that calls them from one *)
(* thread, in any order and any number of times.                           *)
(***************************************************************************)
EXTENDS Integers, Sequences, FiniteSets

CONSTANTS
  HostProviders,  \* SDK TracerProviders that the application makes itself
  OwnProviders,   \* those install() makes (a bound: no more can be made)
  Foreign,        \* a registered provider that is no SDK TracerProvider
  NoProvider,     \* no provider registered, or none passed
  Proxy,          \* the provider of a tracer obtained while none is registered
  Frameworks,     \* names of adapters
  Missing,        \* those _load or the adapter's import refuses
  Requests,       \* what the host may pass as instrument=
  MaxHandles      \* bound on the installs that succeed

ASSUME ProvidersAssumption ==
  /\ HostProviders \cap OwnProviders = {}
  /\ {Foreign, NoProvider, Proxy} \cap (HostProviders \cup OwnProviders) = {}
  /\ Foreign # NoProvider /\ Foreign # Proxy /\ NoProvider # Proxy

ASSUME RequestsAssumption ==
  /\ Missing \subseteq Frameworks
  /\ Requests \subseteq Seq(Frameworks)
  /\ MaxHandles \in Nat

VARIABLES
  global,    \* the provider registered with opentelemetry.trace
  made,      \* the providers made by install()
  down,      \* how often shutdown() was called on a provider
  active,    \* keys of instrumentation._active: the adapters patched in
  tracer,    \* the provider that an adapter's tracer was obtained from
  handles,   \* every TracewardenHandle returned, the host may keep them all
  current,   \* index of _handle, 0 for None
  scanners   \* _hooks._scanners, a pipeline by the index of its handle

providers == <<global, made, down>>
adapters == <<active, tracer>>
vars == <<providers, adapters, handles, current, scanners>>

SdkProviders == HostProviders \cup OwnProviders

Init ==
  /\ global = NoProvider
  /\ made = {}
  /\ down = [p \in SdkProviders |-> 0]
  /\ active = {}
  /\ tracer = [f \in Frameworks |-> NoProvider]
  /\ handles = <<>>
  /\ current = 0
  /\ scanners = <<>>

-----------------------------------------------------------------------------
(* OpenTelemetry's registry. *)

\* Mutant: a registration replaces the one before.
SetGlobalAlways(p) == global' = p

\* trace.set_tracer_provider: only the first registration counts.
SetGlobal(p) == global' = IF global = NoProvider THEN p ELSE global

\* trace.get_tracer: a tracer obtained too early is a proxy.
TracerSource(registered) == IF registered = NoProvider THEN Proxy ELSE registered

\* Where the spans of a tracer go: a proxy asks the registry every time.
Resolved(source) == IF source = Proxy THEN TracerSource(global) ELSE source

-----------------------------------------------------------------------------
(* instrument(): the names are taken in order, and the first that fails     *)
(* raises; the adapters before it stay patched in.                          *)

Fails(names) == \E i \in DOMAIN names : names[i] \in Missing

Reached(names) ==
  {names[i] : i \in {j \in DOMAIN names : \A k \in 1 .. j : names[k] \notin Missing}}

\* An adapter that is active already is skipped.
PatchIn(names, registered) ==
  /\ active' = active \cup Reached(names)
  /\ tracer' = [f \in Frameworks |->
                  IF f \in Reached(names) \ active
                    THEN TracerSource(registered) ELSE tracer[f]]

-----------------------------------------------------------------------------
(* TracewardenHandle.shutdown() *)

\* Mutant: the provider is shut down whoever made it.
CloseAny(h) ==
  /\ handles' = [handles EXCEPT ![h] = [provider |-> @.provider,
                                        created |-> @.created, shut |-> TRUE]]
  /\ down' = [p \in SdkProviders |->
                IF p = handles[h].provider /\ ~handles[h].shut
                  THEN down[p] + 1 ELSE down[p]]

Close(h) ==
  /\ handles' = [handles EXCEPT ![h] = [provider |-> @.provider,
                                        created |-> @.created, shut |-> TRUE]]
  /\ down' = [p \in SdkProviders |->
                IF p = handles[h].provider /\ handles[h].created /\ ~handles[h].shut
                  THEN down[p] + 1 ELSE down[p]]

Shutdown(h) ==
  /\ Close(h)
  /\ UNCHANGED <<global, made, adapters, current, scanners>>

-----------------------------------------------------------------------------
(* install() *)

\* Mutant: the handle of an earlier install is not looked at.
InstalledNever == FALSE

\* The early return: install() hands out the handle it has.
Installed == current # 0 /\ ~handles[current].shut

\* The provider is passed, or found registered, or made and registered.
Adopt(injected, p) ==
  /\ \/ injected # NoProvider /\ p = injected
     \/ injected = NoProvider /\ global \in SdkProviders /\ p = global
  /\ UNCHANGED <<global, made>>

Make(injected, p) ==
  /\ injected = NoProvider
  /\ global \notin SdkProviders
  /\ p \in OwnProviders \ made
  /\ made' = made \cup {p}
  /\ SetGlobal(p)

\* Mutant: the pipeline is registered before the adapters are patched in.
FinishEarly(p, isNew, names) ==
  /\ scanners' = Append(scanners, Len(handles) + 1)
  /\ IF Fails(names)
       THEN UNCHANGED <<handles, current>>
       ELSE /\ handles' = Append(handles, [provider |-> p, created |-> isNew, shut |-> FALSE])
            /\ current' = Len(handles) + 1

\* Mutant: every handle owns its provider.
FinishOwning(p, isNew, names) ==
  IF Fails(names)
    THEN UNCHANGED <<handles, current, scanners>>
    ELSE /\ scanners' = Append(scanners, Len(handles) + 1)
         /\ handles' = Append(handles, [provider |-> p, created |-> TRUE, shut |-> FALSE])
         /\ current' = Len(handles) + 1

\* After the adapters: a new pipeline is registered and a handle returned,
\* unless instrument() raised.
Finish(p, isNew, names) ==
  IF Fails(names)
    THEN UNCHANGED <<handles, current, scanners>>
    ELSE /\ scanners' = Append(scanners, Len(handles) + 1)
         /\ handles' = Append(handles, [provider |-> p, created |-> isNew, shut |-> FALSE])
         /\ current' = Len(handles) + 1

Install(injected, names) ==
  /\ ~Installed
  /\ Len(handles) < MaxHandles
  /\ \E p \in SdkProviders :
       \/ Adopt(injected, p) /\ PatchIn(names, global) /\ Finish(p, FALSE, names)
       \/ Make(injected, p) /\ PatchIn(names, global') /\ Finish(p, TRUE, names)
  /\ UNCHANGED down

-----------------------------------------------------------------------------
(* uninstall() and what the host does by itself. *)

Uninstall ==
  /\ active' = {}
  /\ tracer' = [f \in Frameworks |-> NoProvider]
  /\ scanners' = <<>>
  /\ IF current = 0 THEN UNCHANGED <<handles, down>> ELSE Close(current)
  /\ current' = 0
  /\ UNCHANGED <<global, made>>

\* instrumentation.instrument() without install().
HostInstruments(names) ==
  /\ PatchIn(names, global)
  /\ UNCHANGED <<providers, handles, current, scanners>>

\* The application registers a provider of its own.
HostRegisters(p) ==
  /\ SetGlobal(p)
  /\ UNCHANGED <<made, down, adapters, handles, current, scanners>>

Next ==
  \/ \E injected \in HostProviders \cup {NoProvider}, names \in Requests :
       Install(injected, names)
  \/ Uninstall
  \/ \E h \in DOMAIN handles : Shutdown(h)
  \/ \E names \in Requests : HostInstruments(names)
  \/ \E p \in HostProviders \cup {Foreign} : HostRegisters(p)

Spec == Init /\ [][Next]_vars

-----------------------------------------------------------------------------
(* Properties. *)

Handle == [provider : SdkProviders, created : BOOLEAN, shut : BOOLEAN]

\* Types of the registries and the handles.
TypeOK ==
  /\ global \in SdkProviders \cup {Foreign, NoProvider}
  /\ made \subseteq OwnProviders
  /\ down \in [SdkProviders -> Nat]
  /\ active \subseteq Frameworks
  /\ tracer \in [Frameworks -> SdkProviders \cup {Foreign, NoProvider, Proxy}]
  /\ handles \in Seq(Handle)
  /\ current \in 0 .. Len(handles)
  /\ scanners \in Seq(1 .. Len(handles))

\* Whatever the order of installs, shutdowns and uninstalls, there is at most
\* one handle that is not shut, the current one, and no other pipeline scans on
\* behalf of a live handle.
OneLiveHandle == \A h \in DOMAIN handles : ~handles[h].shut => h = current

\* uninstall() and shutdown() tear down only what install() made ("tears down
\* only what tracewarden created", docs/adr/0002:22), and that just once, however
\* many handles came to share the provider.
ProvidersShutOnce ==
  \A p \in SdkProviders :
    down[p] = IF \E h \in DOMAIN handles : /\ handles[h].provider = p
                                           /\ handles[h].created /\ handles[h].shut
                THEN 1 ELSE 0

\* A provider has at most one owner ("created_provider", _bootstrap.py:31): a handle
\* owns only what install() made, never a provider of the host, and of all the
\* handles attached to that provider it is the first and the only one that owns it -
\* the others adopted it from the registry, as all do if the install() that made it
\* failed.
OneOwner ==
  \A h \in DOMAIN handles : handles[h].created =>
    /\ handles[h].provider \in made
    /\ \A g \in DOMAIN handles \ {h} :
         handles[g].provider = handles[h].provider => g > h /\ ~ handles[g].created

\* Nothing scans when tracewarden is not installed, also after an install that
\* failed half way: a pipeline is registered only behind a handle that uninstall()
\* or the next install() finds.
ScannersHaveHandle == current = 0 => scanners = <<>>

\* Every adapter emits on the provider that is registered now, though its tracer
\* was obtained once, perhaps before there was one.
AdaptersFollowRegistry ==
  \A f \in active : Resolved(tracer[f]) = TracerSource(global)

\* docs/adr/0002:16, "attach only; ... the existing pipeline already ships spans":
\* the provider of a live handle has not been shut down.
AttachedProviderShips == Installed => down[handles[current].provider] = 0

\* _bootstrap.py:111, uninstall() shuts down "what install() created".
UninstallShutsCreated ==
  [][Uninstall => \A p \in made : down'[p] > 0]_vars

-----------------------------------------------------------------------------
(* The inductive invariant behind the theorems of InstallationProofs. *)

\* No provider of install()'s is registered or attached to before it is made.
UsedAreMade ==
  /\ made \subseteq OwnProviders
  /\ \A p \in OwnProviders \ made :
       p # global /\ \A h \in DOMAIN handles : handles[h].provider # p

Inv == TypeOK /\ UsedAreMade /\ OneOwner /\ OneLiveHandle /\ ProvidersShutOnce
         /\ ScannersHaveHandle
=============================================================================
