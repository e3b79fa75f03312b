------------------------- MODULE InstallationProofs -------------------------
(***************************************************************************)
(* Proofs about Bootstrap and Patching.  For any providers, adapters and   *)
(* requests, and any number of installs, one handle is live, a provider is *)
(* shut down once, by the handle that made it, and adapters emit where the *)
(* registry says.  To the installation the patches do not show, and both   *)
(* libraries' patches are where they should be, except where wrappers were *)
(* tangled.                                                                *)
(***************************************************************************)
EXTENDS Patching, SequenceTheorems, FiniteSetTheorems, TLAPS

\* The initial state satisfies the invariant.
LEMMA InitInv == Init => Inv
<1> SUFFICES ASSUME Init PROVE Inv
    OBVIOUS
<1>1. DOMAIN handles = {}
    BY DEF Init
<1>2. TypeOK
  <2>1. handles \in Seq(Handle) /\ scanners \in Seq(1 .. Len(handles)) /\ Len(handles) = 0
      BY DEF Init
  <2> QED BY <2>1 DEF Init, TypeOK
<1>3. UsedAreMade /\ OneOwner /\ OneLiveHandle /\ ScannersHaveHandle
    BY <1>1, ProvidersAssumption DEF Init, UsedAreMade, OneOwner, OneLiveHandle, ScannersHaveHandle
<1>4. ProvidersShutOnce
    BY <1>1 DEF Init, ProvidersShutOnce
<1> QED BY <1>2, <1>3, <1>4 DEF Inv

-----------------------------------------------------------------------------
(* Shutting a handle down. *)

\* shutdown() marks one handle and leaves what the handles are about.
LEMMA CloseHandles ==
  ASSUME TypeOK, NEW h \in DOMAIN handles, Close(h)
  PROVE  /\ handles' \in Seq(Handle) /\ Len(handles') = Len(handles)
         /\ DOMAIN handles' = DOMAIN handles
         /\ \A g \in DOMAIN handles :
              /\ handles'[g].provider = handles[g].provider
              /\ handles'[g].created = handles[g].created
              /\ handles'[g].shut <=> g = h \/ handles[g].shut
<1>1. handles \in Seq(Handle) /\ h \in 1 .. Len(handles) /\ DOMAIN handles = 1 .. Len(handles)
    BY DEF TypeOK
<1> DEFINE e == [provider |-> handles[h].provider, created |-> handles[h].created,
                 shut |-> TRUE]
<1>2. \A g \in DOMAIN handles : handles[g] \in Handle
    BY <1>1, ElementOfSeq
<1>3. e \in Handle
    BY <1>1, <1>2 DEF Handle
<1>4. handles' = [handles EXCEPT ![h] = e]
    BY DEF Close
<1> HIDE DEF e
<1>5. /\ handles' \in Seq(Handle) /\ Len(handles') = Len(handles)
      /\ \A g \in 1 .. Len(handles) : handles'[g] = IF g = h THEN e ELSE handles[g]
    BY <1>1, <1>3, <1>4, ExceptSeq
<1>6. e.provider = handles[h].provider /\ e.created = handles[h].created /\ e.shut = TRUE
    BY DEF e
<1>7. \A g \in DOMAIN handles : handles[g].shut \in BOOLEAN
    BY <1>2 DEF Handle
<1> QED BY <1>1, <1>5, <1>6, <1>7

\* A provider is shut down the first time the handle that made it is.
LEMMA ClosePreserves ==
  ASSUME Inv, NEW h \in DOMAIN handles, Close(h), made' = made, global' = global
  PROVE  /\ down' \in [SdkProviders -> Nat]
         /\ UsedAreMade' /\ OneOwner' /\ ProvidersShutOnce'
         /\ \A g \in DOMAIN handles' : handles'[g].shut <=> g = h \/ handles[g].shut
         /\ handles' \in Seq(Handle) /\ Len(handles') = Len(handles)
         /\ DOMAIN handles' = DOMAIN handles
<1>1. TypeOK
    BY DEF Inv
<1>2. /\ handles' \in Seq(Handle) /\ Len(handles') = Len(handles)
      /\ DOMAIN handles' = DOMAIN handles
      /\ \A g \in DOMAIN handles :
           /\ handles'[g].provider = handles[g].provider
           /\ handles'[g].created = handles[g].created
           /\ handles'[g].shut <=> g = h \/ handles[g].shut
    BY <1>1, CloseHandles
<1>3. UsedAreMade' /\ OneOwner'
    BY <1>2 DEF Inv, UsedAreMade, OneOwner
<1>4. down' \in [SdkProviders -> Nat]
    BY <1>1 DEF TypeOK, Close
<1>5. ASSUME NEW p \in SdkProviders
      PROVE  down'[p] = IF \E g \in DOMAIN handles' :
                             /\ handles'[g].provider = p
                             /\ handles'[g].created /\ handles'[g].shut
                          THEN 1 ELSE 0
  <2> DEFINE Closed(g) == handles[g].provider = p /\ handles[g].created /\ handles[g].shut
  <2>1. down[p] = IF \E g \in DOMAIN handles : Closed(g) THEN 1 ELSE 0
      BY DEF Inv, ProvidersShutOnce
  <2>2. CASE handles[h].provider = p /\ handles[h].created /\ ~ handles[h].shut
    <3>1. ~ \E g \in DOMAIN handles : Closed(g)
        BY <2>2 DEF Inv, OneOwner
    <3>2. down'[p] = 1
        BY <2>1, <2>2, <3>1 DEF Close
    <3> QED BY <2>2, <3>2, <1>2
  <2>3. CASE ~ (handles[h].provider = p /\ handles[h].created /\ ~ handles[h].shut)
    <3>1. down'[p] = down[p]
        BY <2>3 DEF Close
    <3>2. (\E g \in DOMAIN handles' : /\ handles'[g].provider = p
                                      /\ handles'[g].created /\ handles'[g].shut)
            <=> \E g \in DOMAIN handles : Closed(g)
        BY <2>3, <1>2
    <3> QED BY <2>1, <3>1, <3>2
  <2> QED BY <2>2, <2>3
<1>6. ProvidersShutOnce'
    BY <1>5 DEF ProvidersShutOnce, SdkProviders
<1> QED BY <1>2, <1>3, <1>4, <1>6

-----------------------------------------------------------------------------
(* Installing. *)

\* instrument() keeps the registry of adapters well typed.
LEMMA PatchInTypes ==
  ASSUME TypeOK, NEW names \in Requests, NEW registered \in SdkProviders \cup {Foreign, NoProvider},
         PatchIn(names, registered)
  PROVE  /\ active' \subseteq Frameworks
         /\ tracer' \in [Frameworks -> SdkProviders \cup {Foreign, NoProvider, Proxy}]
<1>1. names \in Seq(Frameworks)
    BY RequestsAssumption
<1>2. Reached(names) \subseteq Frameworks
    BY <1>1 DEF Reached
<1>3. TracerSource(registered) \in SdkProviders \cup {Foreign, NoProvider, Proxy}
    BY DEF TracerSource
<1> QED BY <1>2, <1>3 DEF PatchIn, TypeOK

\* A failed install changes neither handles nor scanners; one that succeeds adds
\* one live handle, which owns a provider that no other does, or none.
LEMMA FinishPreserves ==
  ASSUME Inv, ~ Installed, NEW names \in Requests, NEW p \in SdkProviders,
         NEW isNew \in BOOLEAN, Finish(p, isNew, names), UNCHANGED down,
         made \subseteq made', made' \subseteq OwnProviders,
         isNew => p \in made' \ made,
         p \in OwnProviders => p \in made',
         \A q \in OwnProviders \ made' : q # global'
  PROVE  /\ handles' \in Seq(Handle)
         /\ current' \in 0 .. Len(handles')
         /\ scanners' \in Seq(1 .. Len(handles'))
         /\ UsedAreMade' /\ OneOwner' /\ OneLiveHandle' /\ ProvidersShutOnce'
         /\ ScannersHaveHandle'
<1>1. TypeOK
    BY DEF Inv
<1>2. handles \in Seq(Handle) /\ Len(handles) \in Nat /\ DOMAIN handles = 1 .. Len(handles)
    BY <1>1 DEF TypeOK
<1>3. CASE Fails(names)
  <2>1. UNCHANGED <<handles, current, scanners>>
      BY <1>3 DEF Finish
  <2>2. UsedAreMade' /\ OneOwner' /\ OneLiveHandle' /\ ProvidersShutOnce' /\ ScannersHaveHandle'
      BY <1>1, <1>2, <2>1 DEF Inv, UsedAreMade, OneOwner, OneLiveHandle, ProvidersShutOnce,
                  ScannersHaveHandle
  <2> QED BY <1>1, <2>1, <2>2 DEF TypeOK
<1>4. CASE ~ Fails(names)
  <2> DEFINE n == Len(handles) + 1
             e == [provider |-> p, created |-> isNew, shut |-> FALSE]
  <2>1. handles' = Append(handles, e) /\ scanners' = Append(scanners, n) /\ current' = n
      BY <1>4 DEF Finish
  <2>2. e \in Handle
      BY DEF Handle
  <2>3. e.provider = p /\ e.created = isNew /\ e.shut = FALSE
      OBVIOUS
  <2> HIDE DEF e
  <2>4. /\ handles' \in Seq(Handle) /\ Len(handles') = n /\ DOMAIN handles' = 1 .. n
        /\ handles'[n] = e
        /\ \A h \in DOMAIN handles : handles'[h] = handles[h]
      BY <1>2, <2>1, <2>2
  <2>5. scanners' \in Seq(1 .. Len(handles'))
    <3>1. scanners \in Seq(1 .. n)
        BY <1>1, <1>2, SeqMonotonic DEF TypeOK
    <3> QED BY <1>2, <2>1, <2>4, <3>1, AppendProperties
  <2>6. DOMAIN handles' = DOMAIN handles \cup {n} /\ n \notin DOMAIN handles
      BY <1>2, <2>4
  <2>7. \A h \in DOMAIN handles : handles[h].shut
      BY <1>2 DEF Inv, OneLiveHandle, Installed
  <2>8. UsedAreMade'
      BY <2>3, <2>4, <2>6 DEF Inv, UsedAreMade
  <2>9. OneOwner'
    <3>1. isNew => \A h \in DOMAIN handles : handles[h].provider # p
        BY <1>1 DEF Inv, UsedAreMade
    <3>2. \A h \in DOMAIN handles : n > h
        BY <1>2
    <3>3. \A h \in DOMAIN handles : handles[h].created =>
            /\ handles[h].provider \in made'
            /\ handles[h].provider = p => ~ isNew
        BY <3>1 DEF Inv, OneOwner
    <3> QED BY <2>3, <2>4, <2>6, <3>1, <3>2, <3>3 DEF Inv, OneOwner
  <2>10. OneLiveHandle'
      BY <2>1, <2>4, <2>6, <2>7 DEF OneLiveHandle
  <2>11. ProvidersShutOnce'
    <3> SUFFICES ASSUME NEW q \in SdkProviders
                 PROVE  (\E h \in DOMAIN handles' : /\ handles'[h].provider = q
                                                    /\ handles'[h].created /\ handles'[h].shut)
                          <=> \E h \in DOMAIN handles : /\ handles[h].provider = q
                                                        /\ handles[h].created /\ handles[h].shut
        BY DEF Inv, ProvidersShutOnce, SdkProviders
    <3> QED BY <2>3, <2>4, <2>6
  <2>12. ScannersHaveHandle'
      BY <1>2, <2>1 DEF ScannersHaveHandle
  <2> QED BY <1>2, <2>1, <2>4, <2>5, <2>8, <2>9, <2>10, <2>11, <2>12
<1> QED BY <1>3, <1>4

\* install() preserves the invariant, whether it adopts a provider or makes one.
LEMMA InstallPreserves ==
  ASSUME Inv, NEW injected \in HostProviders \cup {NoProvider}, NEW names \in Requests,
         Install(injected, names)
  PROVE  Inv'
<1>1. TypeOK /\ ~ Installed /\ UNCHANGED down
    BY DEF Inv, Install
<1>2. PICK p \in SdkProviders :
        \/ Adopt(injected, p) /\ PatchIn(names, global) /\ Finish(p, FALSE, names)
        \/ Make(injected, p) /\ PatchIn(names, global') /\ Finish(p, TRUE, names)
    BY DEF Install
<1>3. CASE Adopt(injected, p) /\ PatchIn(names, global) /\ Finish(p, FALSE, names)
  <2>1. UNCHANGED <<global, made>>
      BY <1>3 DEF Adopt
  <2>2. made \subseteq OwnProviders
      BY DEF Inv, UsedAreMade
  <2>3. /\ p \in OwnProviders => p \in made
        /\ \A q \in OwnProviders \ made : q # global
      BY <1>3, ProvidersAssumption DEF Adopt, Inv, UsedAreMade
  <2>4. /\ handles' \in Seq(Handle) /\ current' \in 0 .. Len(handles')
        /\ scanners' \in Seq(1 .. Len(handles'))
        /\ UsedAreMade' /\ OneOwner' /\ OneLiveHandle' /\ ProvidersShutOnce'
        /\ ScannersHaveHandle'
      BY <1>1, <1>3, <2>1, <2>2, <2>3, FinishPreserves
  <2>5. /\ active' \subseteq Frameworks
        /\ tracer' \in [Frameworks -> SdkProviders \cup {Foreign, NoProvider, Proxy}]
      BY <1>1, <1>3, PatchInTypes DEF TypeOK
  <2>6. TypeOK'
      BY <1>1, <2>1, <2>4, <2>5 DEF TypeOK, SdkProviders
  <2> QED BY <2>4, <2>6 DEF Inv
<1>4. CASE Make(injected, p) /\ PatchIn(names, global') /\ Finish(p, TRUE, names)
  <2>1. /\ made' = made \cup {p} /\ p \in OwnProviders \ made
        /\ global' \in SdkProviders \cup {Foreign, NoProvider}
      BY <1>1, <1>4 DEF Make, SetGlobal, TypeOK
  <2>2. made' \subseteq OwnProviders
      BY <2>1 DEF Inv, UsedAreMade
  <2>3. /\ p \in made'
        /\ \A q \in OwnProviders \ made' : q # global'
      BY <1>4, <2>1 DEF Make, SetGlobal, Inv, UsedAreMade
  <2>4. /\ handles' \in Seq(Handle) /\ current' \in 0 .. Len(handles')
        /\ scanners' \in Seq(1 .. Len(handles'))
        /\ UsedAreMade' /\ OneOwner' /\ OneLiveHandle' /\ ProvidersShutOnce'
        /\ ScannersHaveHandle'
      BY <1>1, <1>4, <2>1, <2>2, <2>3, FinishPreserves
  <2>5. /\ active' \subseteq Frameworks
        /\ tracer' \in [Frameworks -> SdkProviders \cup {Foreign, NoProvider, Proxy}]
      BY <1>1, <1>4, <2>1, PatchInTypes
  <2>6. TypeOK'
      BY <1>1, <2>1, <2>2, <2>4, <2>5 DEF TypeOK, SdkProviders
  <2> QED BY <2>4, <2>6 DEF Inv
<1> QED BY <1>2, <1>3, <1>4

-----------------------------------------------------------------------------
(* The other steps. *)

\* Shutting a handle down leaves no second live one.
LEMMA ShutdownPreserves ==
  ASSUME Inv, NEW h \in DOMAIN handles, Shutdown(h)
  PROVE  Inv'
<1>1. Close(h) /\ UNCHANGED <<global, made, active, tracer, current, scanners>>
    BY DEF Shutdown, adapters
<1>2. /\ down' \in [SdkProviders -> Nat]
      /\ UsedAreMade' /\ OneOwner' /\ ProvidersShutOnce'
      /\ \A g \in DOMAIN handles' : handles'[g].shut <=> g = h \/ handles[g].shut
      /\ handles' \in Seq(Handle) /\ Len(handles') = Len(handles)
      /\ DOMAIN handles' = DOMAIN handles
    BY <1>1, ClosePreserves
<1>3. TypeOK'
    BY <1>1, <1>2 DEF Inv, TypeOK, SdkProviders
<1>4. OneLiveHandle' /\ ScannersHaveHandle'
    BY <1>1, <1>2 DEF Inv, OneLiveHandle, ScannersHaveHandle
<1> QED BY <1>2, <1>3, <1>4 DEF Inv

\* After uninstall() there is no current handle, so all of them must be shut.
LEMMA UninstallPreserves ==
  ASSUME Inv, Uninstall
  PROVE  Inv'
<1>1. /\ active' = {} /\ tracer' = [f \in Frameworks |-> NoProvider]
      /\ scanners' = <<>> /\ current' = 0 /\ UNCHANGED <<global, made>>
    BY DEF Uninstall
<1>2. TypeOK
    BY DEF Inv
<1>3. /\ handles' \in Seq(Handle) /\ down' \in [SdkProviders -> Nat]
      /\ UsedAreMade' /\ OneOwner' /\ ProvidersShutOnce'
      /\ \A g \in DOMAIN handles' : handles'[g].shut
  <2>1. CASE current = 0
    <3>1. UNCHANGED <<handles, down>>
        BY <2>1 DEF Uninstall
    <3>2. \A g \in DOMAIN handles : g # 0 /\ handles[g].shut
        BY <1>2, <2>1 DEF Inv, OneLiveHandle, TypeOK
    <3> QED BY <1>1, <1>2, <3>1, <3>2 DEF Inv, TypeOK, UsedAreMade, OneOwner, ProvidersShutOnce,
                                          SdkProviders
  <2>2. CASE current # 0
    <3>1. Close(current) /\ current \in DOMAIN handles
        BY <1>2, <2>2 DEF Uninstall, TypeOK
    <3>2. \A g \in DOMAIN handles : handles[g].shut \/ g = current
        BY DEF Inv, OneLiveHandle
    <3> QED BY <1>1, <3>1, <3>2, ClosePreserves
  <2> QED BY <2>1, <2>2
<1>4. scanners' \in Seq(1 .. Len(handles')) /\ Len(handles') \in Nat
    BY <1>1, <1>3
<1>5. TypeOK'
    BY <1>1, <1>2, <1>3, <1>4 DEF TypeOK, SdkProviders
<1>6. OneLiveHandle' /\ ScannersHaveHandle'
    BY <1>1, <1>3 DEF OneLiveHandle, ScannersHaveHandle
<1> QED BY <1>3, <1>5, <1>6 DEF Inv

\* A step that leaves handles, providers made and scanners alone, and registers
\* nothing of install()'s.
LEMMA ElsewherePreserves ==
  ASSUME Inv, UNCHANGED <<made, down, handles, current, scanners>>, TypeOK',
         global' = global \/ global' \notin OwnProviders
  PROVE  Inv'
BY DEF Inv, UsedAreMade, OneOwner, OneLiveHandle, ProvidersShutOnce, ScannersHaveHandle,
       SdkProviders

\* Every step preserves the invariant.
LEMMA NextInv == Inv /\ [Next]_vars => Inv'
<1> SUFFICES ASSUME Inv, [Next]_vars PROVE Inv'
    OBVIOUS
<1>1. TypeOK
    BY DEF Inv
<1>2. CASE \E injected \in HostProviders \cup {NoProvider}, names \in Requests :
             Install(injected, names)
    BY <1>2, InstallPreserves
<1>3. CASE Uninstall
    BY <1>3, UninstallPreserves
<1>4. CASE \E h \in DOMAIN handles : Shutdown(h)
    BY <1>4, ShutdownPreserves
<1>5. ASSUME NEW names \in Requests, HostInstruments(names)
      PROVE  Inv'
  <2>1. PatchIn(names, global) /\ UNCHANGED <<global, made, down, handles, current, scanners>>
      BY <1>5 DEF HostInstruments, providers
  <2>2. TypeOK'
      BY <1>1, <2>1, PatchInTypes DEF TypeOK, SdkProviders
  <2> QED BY <2>1, <2>2, ElsewherePreserves
<1>6. ASSUME NEW p \in HostProviders \cup {Foreign}, HostRegisters(p)
      PROVE  Inv'
  <2>1. SetGlobal(p) /\ UNCHANGED <<made, down, active, tracer, handles, current, scanners>>
      BY <1>6 DEF HostRegisters, adapters
  <2>2. TypeOK'
      BY <1>1, <2>1 DEF TypeOK, SetGlobal, SdkProviders
  <2>3. global' = global \/ global' \notin OwnProviders
      BY <2>1, ProvidersAssumption DEF SetGlobal
  <2> QED BY <2>1, <2>2, <2>3, ElsewherePreserves
<1>7. CASE UNCHANGED vars
  <2>1. UNCHANGED <<global, made, down, active, tracer, handles, current, scanners>>
      BY <1>7 DEF vars, providers, adapters
  <2>2. TypeOK'
      BY <1>1, <2>1 DEF TypeOK, SdkProviders
  <2> QED BY <2>1, <2>2, ElsewherePreserves
<1> QED BY <1>2, <1>3, <1>4, <1>5, <1>6, <1>7 DEF Next

\* The invariant holds in every reachable state.
LEMMA Invariance == Spec => []Inv
BY InitInv, NextInv, PTL DEF Spec

\* Handles, registries and scanners keep their types.
THEOREM BootstrapTypes == Spec => []TypeOK
BY Invariance, PTL DEF Inv

\* At most one handle is live, and it is the one install() would hand out.
THEOREM AtMostOneLiveHandle == Spec => []OneLiveHandle
BY Invariance, PTL DEF Inv

\* A provider is shut down at most once, only by install()'s own handles, and
\* exactly when the handle that made it is.
THEOREM ProvidersAreShutOnce == Spec => []ProvidersShutOnce
BY Invariance, PTL DEF Inv

\* A handle owns only what install() made, and no other handle attached to it owns it
\* or was there before.
THEOREM ProvidersHaveOneOwner == Spec => []OneOwner
BY Invariance, PTL DEF Inv

\* Nothing scans when tracewarden is not installed.
THEOREM ScannersBelongToHandles == Spec => []ScannersHaveHandle
BY Invariance, PTL DEF Inv

-----------------------------------------------------------------------------
(* The tracers of the adapters.                                             *)

\* A tracer that is no proxy was obtained from the provider that is registered now.
TracersHeld ==
  \A f \in active : tracer[f] = Proxy \/ (tracer[f] = global /\ global # NoProvider)

\* A registration is never replaced.
LEMMA GlobalStays ==
  ASSUME Next
  PROVE  global # NoProvider => global' = global
BY DEF Next, Install, Adopt, Make, SetGlobal, Uninstall, Shutdown, HostInstruments, HostRegisters,
       providers

\* instrument() obtains the tracers of the new adapters from what is registered.
LEMMA PatchedTracers ==
  ASSUME TypeOK, TracersHeld, NEW names \in Requests, PatchIn(names, global'),
         global # NoProvider => global' = global
  PROVE  TracersHeld'
<1> SUFFICES ASSUME NEW f \in active'
             PROVE  tracer'[f] = Proxy \/ (tracer'[f] = global' /\ global' # NoProvider)
    BY DEF TracersHeld
<1>1. names \in Seq(Frameworks)
    BY RequestsAssumption
<1>2. Reached(names) \subseteq Frameworks
    BY <1>1 DEF Reached
<1>3. f \in Frameworks /\ (f \in active \/ f \in Reached(names) \ active)
    BY <1>2 DEF PatchIn, TypeOK
<1>4. tracer'[f] = IF f \in Reached(names) \ active THEN TracerSource(global') ELSE tracer[f]
    BY <1>3 DEF PatchIn
<1> QED BY <1>3, <1>4 DEF TracersHeld, TracerSource

LEMMA TracersKept == Inv /\ TracersHeld /\ [Next]_vars => TracersHeld'
<1> SUFFICES ASSUME Inv, TracersHeld, [Next]_vars PROVE TracersHeld'
    OBVIOUS
<1>1. TypeOK
    BY DEF Inv
<1>2. ASSUME NEW names \in Requests, PatchIn(names, global'), Next
      PROVE  TracersHeld'
    BY <1>1, <1>2, GlobalStays, PatchedTracers
<1>3. ASSUME NEW injected \in HostProviders \cup {NoProvider}, NEW names \in Requests,
             Install(injected, names)
      PROVE  TracersHeld'
  <2>1. Next
      BY <1>3 DEF Next
  <2>2. PatchIn(names, global')
    <3>1. ASSUME NEW p, Adopt(injected, p), PatchIn(names, global)
          PROVE  PatchIn(names, global')
        BY <3>1 DEF Adopt
    <3> QED BY <1>3, <3>1 DEF Install
  <2> QED BY <1>2, <2>1, <2>2
<1>4. ASSUME NEW names \in Requests, HostInstruments(names)
      PROVE  TracersHeld'
  <2>1. Next
      BY <1>4 DEF Next
  <2>2. PatchIn(names, global')
      BY <1>4 DEF HostInstruments, providers
  <2> QED BY <1>2, <2>1, <2>2
<1>5. CASE Uninstall
    BY <1>5 DEF Uninstall, TracersHeld
<1>6. ASSUME active' = active, tracer' = tracer, global # NoProvider => global' = global
      PROVE  TracersHeld'
    BY <1>6 DEF TracersHeld
<1>7. CASE \E h \in DOMAIN handles : Shutdown(h)
    BY <1>6, <1>7 DEF Shutdown, adapters
<1>8. CASE \E p \in HostProviders \cup {Foreign} : HostRegisters(p)
    BY <1>6, <1>8 DEF HostRegisters, SetGlobal, adapters
<1>9. CASE UNCHANGED vars
    BY <1>6, <1>9 DEF vars, providers, adapters
<1> QED BY <1>3, <1>4, <1>5, <1>7, <1>8, <1>9 DEF Next

\* instrument(): every active adapter's spans go to the provider that is registered
\* now, whenever and in whatever order host and install() registered and patched.
THEOREM AdaptersEmitWhereRegistered == Spec => []AdaptersFollowRegistry
<1>1. Init => TracersHeld
    BY DEF Init, TracersHeld
<1>2. TracersHeld => AdaptersFollowRegistry
    BY DEF TracersHeld, AdaptersFollowRegistry, Resolved, TracerSource
<1> QED BY <1>1, <1>2, TracersKept, Invariance, PTL DEF Spec

-----------------------------------------------------------------------------
(* The patches.                                                             *)

LEMMA Constants == Hooking \subseteq Frameworks /\ Requests \subseteq Seq(Frameworks)
  BY HookingAssumption, RequestsAssumption

\* Every step with its patches is a step of Bootstrap, or does not show there: what
\* the theorems above say of install() and uninstall() holds here too.
THEOREM PatchingIsInstallation == PatchSpec => Spec
<1>1. PatchInit => Init
  BY DEF PatchInit
<1>2. [PatchNext]_allVars => [Next]_vars
  BY DEF PatchNext, Next, allVars, OtherPatches, OtherUnpatches
<1> QED  BY <1>1, <1>2, PTL DEF PatchSpec, Spec

-----------------------------------------------------------------------------
(* Lists of one or two layers. *)

\* A list with the length and the elements of one of them is that list.
LEMMA ShortLists ==
  ASSUME NEW S, NEW x \in S, NEW y \in S, NEW s \in Seq(S)
  PROVE  /\ Len(s) = 1 /\ s[1] = x => s = <<x>>
         /\ Len(s) = 2 /\ s[1] = x /\ s[2] = y => s = <<x, y>>
<1>1. /\ <<x>> \in Seq(S) /\ Len(<<x>>) = 1 /\ <<x>>[1] = x
      /\ <<x, y>> \in Seq(S) /\ Len(<<x, y>>) = 2 /\ <<x, y>>[1] = x /\ <<x, y>>[2] = y
  OBVIOUS
<1>2. ASSUME Len(s) = 1, s[1] = x
      PROVE  s = <<x>>
  <2>1. \A i \in 1 .. Len(s) : s[i] = <<x>>[i]
    BY <1>1, <1>2
  <2> QED  BY <1>1, <1>2, <2>1, SeqEqual
<1>3. ASSUME Len(s) = 2, s[1] = x, s[2] = y
      PROVE  s = <<x, y>>
  <2>1. \A i \in 1 .. Len(s) : i = 1 \/ i = 2
    BY <1>3
  <2>2. \A i \in 1 .. Len(s) : s[i] = <<x, y>>[i]
    BY <1>1, <1>3, <2>1
  <2> QED  BY <1>1, <1>3, <2>2, SeqEqual
<1> QED  BY <1>2, <1>3

LEMMA Pairs ==
  ASSUME NEW x, NEW y
  PROVE  /\ Append(<<>>, x) = <<x>> /\ Append(<<x>>, y) = <<x, y>>
         /\ <<x>> \o <<>> = <<x>> /\ <<x>> \o <<y>> = <<x, y>>
         /\ Head(<<x>>) = x /\ Head(<<x, y>>) = x
<1> DEFINE S == {x, y}
<1>1. <<x>> \in Seq(S) /\ <<y>> \in Seq(S) /\ <<x, y>> \in Seq(S) /\ <<>> \in Seq(S)
  OBVIOUS
<1>2. Append(<<>>, x) = <<x>> /\ Append(<<x>>, y) = <<x, y>>
  <2>1. /\ Append(<<>>, x) \in Seq(S) /\ Len(Append(<<>>, x)) = 1 /\ Append(<<>>, x)[1] = x
    BY <1>1, AppendProperties
  <2>2. /\ Append(<<x>>, y) \in Seq(S) /\ Len(Append(<<x>>, y)) = 2
        /\ Append(<<x>>, y)[1] = x /\ Append(<<x>>, y)[2] = y
    <3>1. Len(<<x>>) = 1 /\ <<x>>[1] = x
      OBVIOUS
    <3> QED  BY <1>1, <3>1, AppendProperties
  <2> QED  BY <2>1, <2>2, ShortLists
<1>3. <<x>> \o <<>> = <<x>>
  BY <1>1, ConcatEmptySeq
<1>4. <<x>> \o <<y>> = Append(<<x>>, y)
  BY <1>1, AppendIsConcat
<1>5. Head(<<x>>) = x /\ Head(<<x, y>>) = x
  OBVIOUS
<1> QED  BY <1>2, <1>3, <1>4, <1>5

\* One of the two layers is removed.
LEMMA PairsRemoved ==
  ASSUME NEW x, NEW y, x # y
  PROVE  /\ Without(x, <<x>>) = <<>>
         /\ Without(x, <<x, y>>) = <<y>>
         /\ Without(y, <<x, y>>) = <<x>>
<1> DEFINE S == {x, y}
<1>1. /\ DOMAIN <<x>> = {1} /\ <<x>>[1] = x
      /\ DOMAIN <<x, y>> = {1, 2} /\ <<x, y>>[1] = x /\ <<x, y>>[2] = y
  OBVIOUS
<1>2. /\ (CHOOSE i \in DOMAIN <<x>> : <<x>>[i] = x) = 1
      /\ (CHOOSE i \in DOMAIN <<x, y>> : <<x, y>>[i] = x) = 1
      /\ (CHOOSE i \in DOMAIN <<x, y>> : <<x, y>>[i] = y) = 2
  BY <1>1
<1>3. /\ <<x>> \in Seq(S) /\ <<x, y>> \in Seq(S) /\ <<y>> \in Seq(S)
      /\ Len(<<x>>) = 1 /\ Len(<<x, y>>) = 2 /\ Len(<<y>>) = 1
  OBVIOUS
<1>4. \A m, n \in Int : n < m => SubSeq(<<x>>, m, n) = <<>> /\ SubSeq(<<x, y>>, m, n) = <<>>
  BY SubSeqEmpty
<1>5. SubSeq(<<x, y>>, 2, 2) = <<y>> /\ SubSeq(<<x, y>>, 1, 1) = <<x>>
  <2>1. \A i \in {1, 2} : /\ SubSeq(<<x, y>>, i, i) \in Seq(S)
                          /\ Len(SubSeq(<<x, y>>, i, i)) = 1
                          /\ SubSeq(<<x, y>>, i, i)[1] = <<x, y>>[i]
    BY <1>3, SubSeqProperties
  <2> QED  BY <1>1, <2>1, ShortLists
<1>6. /\ RemoveAt(<<x>>, 1) = <<>>
      /\ RemoveAt(<<x, y>>, 1) = <<y>>
      /\ RemoveAt(<<x, y>>, 2) = <<x>>
  <2>1. RemoveAt(<<x>>, 1) = SubSeq(<<x>>, 1, 0) \o SubSeq(<<x>>, 2, 1)
    BY <1>3 DEF RemoveAt
  <2>2. RemoveAt(<<x, y>>, 1) = SubSeq(<<x, y>>, 1, 0) \o SubSeq(<<x, y>>, 2, 2)
    BY <1>3 DEF RemoveAt
  <2>3. RemoveAt(<<x, y>>, 2) = SubSeq(<<x, y>>, 1, 1) \o SubSeq(<<x, y>>, 3, 2)
    BY <1>3 DEF RemoveAt
  <2>4. <<>> \o <<>> = <<>> /\ <<>> \o <<y>> = <<y>> /\ <<x>> \o <<>> = <<x>>
    BY <1>3, ConcatEmptySeq
  <2> QED  BY <1>4, <1>5, <2>1, <2>2, <2>3, <2>4
<1> QED  BY <1>2, <1>6 DEF Without

\* The lists that occur: what the operations do to them, and how often a name occurs.
LEMMA Layers ==
  /\ Append(<<>>, "ours") = <<"ours">> /\ Append(<<>>, "other") = <<"other">>
  /\ Append(<<"ours">>, "other") = <<"ours", "other">>
  /\ Append(<<"other">>, "ours") = <<"other", "ours">>
  /\ <<"ours">> \o <<>> = <<"ours">> /\ <<"other">> \o <<>> = <<"other">>
  /\ <<"ours">> \o <<"other">> = <<"ours", "other">>
  /\ <<"other">> \o <<"ours">> = <<"other", "ours">>
  /\ Head(<<"ours">>) = "ours" /\ Head(<<"other">>) = "other"
  /\ Head(<<"ours", "other">>) = "ours" /\ Head(<<"other", "ours">>) = "other"
<1>1. "ours" # "other"
  OBVIOUS
<1> QED  BY <1>1, Pairs

LEMMA Removed ==
  /\ Without("ours", <<"ours">>) = <<>> /\ Without("other", <<"other">>) = <<>>
  /\ Without("ours", <<"ours", "other">>) = <<"other">>
  /\ Without("ours", <<"other", "ours">>) = <<"other">>
  /\ Without("other", <<"ours", "other">>) = <<"ours">>
  /\ Without("other", <<"other", "ours">>) = <<"ours">>
<1>1. "ours" # "other"
  OBVIOUS
<1> QED  BY <1>1, PairsRemoved

LEMMA OccursInPair ==
  ASSUME NEW f, NEW x, NEW y, x # y
  PROVE  /\ layers[f] = <<>> => Occurs(x, f) = 0
         /\ layers[f] = <<x>> => Occurs(x, f) = 1
         /\ layers[f] = <<y>> => Occurs(x, f) = 0
         /\ layers[f] \in {<<x, y>>, <<y, x>>} => Occurs(x, f) = 1
<1> DEFINE at == {i \in DOMAIN layers[f] : layers[f][i] = x}
<1>1. /\ DOMAIN <<x>> = {1} /\ <<x>>[1] = x /\ DOMAIN <<y>> = {1} /\ <<y>>[1] = y
      /\ DOMAIN <<x, y>> = {1, 2} /\ <<x, y>>[1] = x /\ <<x, y>>[2] = y
      /\ DOMAIN <<y, x>> = {1, 2} /\ <<y, x>>[1] = y /\ <<y, x>>[2] = x
      /\ DOMAIN <<>> = {}
  OBVIOUS
<1>2. /\ layers[f] = <<>> => at = {}
      /\ layers[f] = <<x>> => at = {1}
      /\ layers[f] = <<y>> => at = {}
      /\ layers[f] = <<x, y>> => at = {1}
      /\ layers[f] = <<y, x>> => at = {2}
  BY <1>1
<1>3. Cardinality({}) = 0 /\ Cardinality({1}) = 1 /\ Cardinality({2}) = 1
  BY FS_EmptySet, FS_Singleton
<1>4. Occurs(x, f) = Cardinality(at)
  BY DEF Occurs
<1> HIDE DEF at
<1> QED  BY <1>2, <1>3, <1>4

LEMMA Occurrences ==
  ASSUME NEW f
  PROVE  /\ layers[f] = <<>> => Occurs("ours", f) = 0 /\ Occurs("other", f) = 0
         /\ layers[f] = <<"ours">> => Occurs("ours", f) = 1 /\ Occurs("other", f) = 0
         /\ layers[f] = <<"other">> => Occurs("ours", f) = 0 /\ Occurs("other", f) = 1
         /\ layers[f] \in {<<"ours", "other">>, <<"other", "ours">>} =>
              Occurs("ours", f) = 1 /\ Occurs("other", f) = 1
<1>1. "ours" # "other"
  OBVIOUS
<1> QED  BY <1>1, OccursInPair

-----------------------------------------------------------------------------
(* The inductive invariant. *)

PatchTypes ==
  /\ DOMAIN layers = Frameworks /\ DOMAIN original = Frameworks /\ DOMAIN saved = Frameworks
  /\ active \subseteq Frameworks

FullInv == PatchTypes /\ PatchInv

LEMMA InitPatchInv == PatchInit => FullInv
  BY DEF PatchInit, Init, FullInv, PatchTypes, PatchInv, HookInv, WrapInv

\* install() and instrument() wrap what they newly reach.
LEMMA PatchPreserves ==
  ASSUME FullInv, NEW names \in Requests, Patch(names),
         active' = active \cup Reached(names), UNCHANGED <<saved, foreign, tangled>>
  PROVE  FullInv'
<1> USE Constants DEF FullInv, PatchTypes
<1> DEFINE new == Reached(names) \ active
<1>1. new \subseteq Frameworks /\ active' = active \cup new
  <2>1. Reached(names) \subseteq Frameworks
    BY DEF Reached
  <2> QED  BY <2>1
<1>2. \A f \in Frameworks :
        /\ layers'[f] = IF f \in new THEN With("ours", f) ELSE layers[f]
        /\ original'[f] = IF f \in new THEN layers[f] ELSE original[f]
  BY DEF Patch
<1>3. PatchTypes'
  BY <1>1 DEF Patch
<1> HIDE DEF new
<1>4. ASSUME NEW f \in Frameworks \ tangled
      PROVE  IF f \in Hooking THEN HookInv(f)' ELSE WrapInv(f)'
  <2>1. IF f \in Hooking THEN HookInv(f) ELSE WrapInv(f)
    BY DEF PatchInv
  <2>2. CASE f \notin new
    BY <1>1, <1>2, <2>1, <2>2 DEF HookInv, WrapInv
  <2>3. CASE f \in new
    <3>1. f \notin active /\ f \in active'
      BY <1>1, <2>3 DEF new
    <3>2. layers'[f] = With("ours", f) /\ original'[f] = layers[f]
      BY <1>2, <2>3
    <3>3. CASE f \in Hooking
      BY <2>1, <3>1, <3>2, <3>3, Layers DEF HookInv, With
    <3>4. CASE f \notin Hooking
      BY <2>1, <3>1, <3>2, <3>4, Layers DEF WrapInv, With
    <3> QED  BY <3>3, <3>4
  <2> QED  BY <2>2, <2>3
<1> QED  BY <1>3, <1>4 DEF PatchInv

\* uninstall() puts the saved methods back and takes the handlers off.
LEMMA UnpatchPreserves ==
  ASSUME FullInv, Unpatch, active' = {}, UNCHANGED <<saved, foreign>>
  PROVE  FullInv'
<1> USE Constants DEF FullInv, PatchTypes
<1>1. PatchTypes'
  BY DEF Unpatch
<1>2. ASSUME NEW f \in Frameworks
      PROVE  layers'[f] = CASE f \notin active -> layers[f]
                            [] f \in active \cap Hooking -> Without("ours", layers[f])
                            [] OTHER -> original[f]
  BY DEF Unpatch
<1>3. Hooking \cap tangled' = {}
  BY DEF Unpatch, Covered, PatchInv
<1>4. ASSUME NEW f \in Frameworks \ tangled'
      PROVE  IF f \in Hooking THEN HookInv(f)' ELSE WrapInv(f)'
  <2>1. f \notin tangled /\ (f \in active => ~Covered("ours", f))
    BY DEF Unpatch
  <2>2. IF f \in Hooking THEN HookInv(f) ELSE WrapInv(f)
    BY <2>1 DEF PatchInv
  <2>3. CASE f \notin active
    BY <1>2, <2>2, <2>3 DEF HookInv, WrapInv
  <2>4. CASE f \in active /\ f \in Hooking
    <3>1. layers'[f] = Without("ours", layers[f])
      BY <1>2, <2>4
    <3> QED  BY <2>2, <2>4, <3>1, Removed DEF HookInv
  <2>5. CASE f \in active /\ f \notin Hooking
    <3>1. layers'[f] = original[f]
      BY <1>2, <2>5
    <3>2. layers[f] # <<"other", "ours">>
      BY <2>1, <2>5, Layers DEF Covered
    <3> QED  BY <2>2, <2>5, <3>1, <3>2 DEF WrapInv
  <2> QED  BY <2>3, <2>4, <2>5
<1> QED  BY <1>1, <1>3, <1>4 DEF PatchInv

LEMMA OtherPreserves ==
  ASSUME FullInv, NEW g \in Frameworks, OtherPatches(g) \/ OtherUnpatches(g)
  PROVE  FullInv'
<1> USE Constants DEF FullInv, PatchTypes
<1>1. active' = active /\ original' = original
  BY DEF OtherPatches, OtherUnpatches, vars, adapters
<1>2. PatchTypes'
  BY <1>1 DEF OtherPatches, OtherUnpatches
<1>3. CASE OtherPatches(g)
  <2>1. /\ g \notin foreign /\ foreign' = foreign \cup {g} /\ tangled' = tangled
        /\ layers'[g] = With("other", g) /\ saved'[g] = layers[g]
        /\ \A f \in Frameworks : f # g => layers'[f] = layers[f] /\ saved'[f] = saved[f]
    BY <1>3 DEF OtherPatches
  <2>2. ASSUME NEW f \in Frameworks \ tangled
        PROVE  IF f \in Hooking THEN HookInv(f)' ELSE WrapInv(f)'
    <3>1. IF f \in Hooking THEN HookInv(f) ELSE WrapInv(f)
      BY DEF PatchInv
    <3>2. CASE f # g
      BY <1>1, <2>1, <3>1, <3>2 DEF HookInv, WrapInv
    <3>3. CASE f = g /\ f \in Hooking
      BY <1>1, <2>1, <3>1, <3>3, Layers DEF HookInv, With
    <3>4. CASE f = g /\ f \notin Hooking
      BY <1>1, <2>1, <3>1, <3>4, Layers DEF WrapInv, With
    <3> QED  BY <3>2, <3>3, <3>4
  <2> QED  BY <1>2, <2>1, <2>2 DEF PatchInv
<1>4. CASE OtherUnpatches(g)
  <2>1. /\ g \in foreign /\ foreign' = foreign \ {g}
        /\ tangled' = tangled \cup {f \in {g} : Covered("other", f)}
        /\ layers'[g] = IF g \in Hooking THEN Without("other", layers[g]) ELSE saved[g]
        /\ \A f \in Frameworks : f # g => layers'[f] = layers[f] /\ saved'[f] = saved[f]
    BY <1>4 DEF OtherUnpatches
  <2>2. Hooking \cap tangled' = {}
    BY <2>1 DEF Covered, PatchInv
  <2>3. ASSUME NEW f \in Frameworks \ tangled'
        PROVE  IF f \in Hooking THEN HookInv(f)' ELSE WrapInv(f)'
    <3>1. IF f \in Hooking THEN HookInv(f) ELSE WrapInv(f)
      BY <2>1 DEF PatchInv
    <3>2. CASE f # g
      BY <1>1, <2>1, <3>1, <3>2 DEF HookInv, WrapInv
    <3>3. CASE f = g /\ f \in Hooking
      BY <1>1, <2>1, <3>1, <3>3, Removed DEF HookInv
    <3>4. CASE f = g /\ f \notin Hooking
      <4>1. ~Covered("other", g)
        BY <2>1, <3>4
      <4>2. layers[f] # <<"ours", "other">>
        BY <3>4, <4>1, Layers DEF Covered
      <4> QED  BY <1>1, <2>1, <3>1, <3>4, <4>2 DEF WrapInv
    <3> QED  BY <3>2, <3>3, <3>4
  <2> QED  BY <1>2, <2>2, <2>3 DEF PatchInv
<1> QED  BY <1>3, <1>4

LEMMA PatchNextInv == FullInv /\ [PatchNext]_allVars => FullInv'
<1> SUFFICES ASSUME FullInv, [PatchNext]_allVars
             PROVE  FullInv'
  OBVIOUS
<1>1. ASSUME NEW names \in Requests, Patch(names), UNCHANGED <<saved, foreign, tangled>>,
             \/ \E injected \in HostProviders \cup {NoProvider} : Install(injected, names)
             \/ HostInstruments(names)
      PROVE  FullInv'
  <2>1. active' = active \cup Reached(names)
    BY <1>1 DEF Install, HostInstruments, PatchIn
  <2> QED  BY <1>1, <2>1, PatchPreserves
<1>2. CASE Uninstall /\ Unpatch /\ UNCHANGED <<saved, foreign>>
  BY <1>2, UnpatchPreserves DEF Uninstall
<1>3. ASSUME active' = active, UNCHANGED patches
      PROVE  FullInv'
  BY <1>3 DEF FullInv, PatchTypes, PatchInv, HookInv, WrapInv, patches
<1>4. ASSUME NEW h \in DOMAIN handles, Shutdown(h), UNCHANGED patches
      PROVE  FullInv'
  BY <1>3, <1>4 DEF Shutdown, adapters
<1>5. ASSUME NEW p, HostRegisters(p), UNCHANGED patches
      PROVE  FullInv'
  BY <1>3, <1>5 DEF HostRegisters, adapters
<1>6. ASSUME NEW f \in Frameworks, OtherPatches(f) \/ OtherUnpatches(f)
      PROVE  FullInv'
  BY <1>6, OtherPreserves
<1>7. CASE UNCHANGED allVars
  BY <1>3, <1>7 DEF allVars, vars, adapters
<1> QED  BY <1>1, <1>2, <1>4, <1>5, <1>6, <1>7 DEF PatchNext

\* For any frameworks and requests, failing ones too: as long as nobody removes a
\* wrapper from under the other, a call goes through ours exactly while the adapter
\* is active, and through the other library's exactly while it wants that.
THEOREM PatchesStayExact == PatchSpec => []PatchesExact
<1>1. FullInv => PatchesExact
  <2> SUFFICES ASSUME FullInv, NEW f \in Frameworks \ tangled
               PROVE  Once("ours", f, f \in active) /\ Once("other", f, f \in foreign)
    BY DEF PatchesExact
  <2>1. IF f \in Hooking THEN HookInv(f) ELSE WrapInv(f)
    BY DEF FullInv, PatchInv
  <2> QED  BY <2>1, Occurrences DEF HookInv, WrapInv, Once
<1>2. FullInv /\ [PatchNext]_allVars => FullInv'
  BY PatchNextInv
<1> QED  BY <1>1, <1>2, InitPatchInv, PTL DEF PatchSpec
=============================================================================
