--------------------------- MODULE AlertingProofs ---------------------------
(***************************************************************************)
(* Proofs about Alerting: for any threads, rules, sinks and findings, each *)
(* sink gets the alerts that are due, once and in order, but for those it  *)
(* fails to deliver itself and those that its server takes late or never,  *)
(* and every step is one of AlertLog.                                      *)
(***************************************************************************)
EXTENDS Alerting, SequenceTheorems, TLAPS

-----------------------------------------------------------------------------
(* Shapes. *)

\* The sinks are numbered from one.
LEMMA SinkNumbers ==
  /\ Len(SinkKinds) \in Nat
  /\ Sinks = 1 .. Len(SinkKinds)
BY AlertingAssumption DEF Sinks

\* The findings of a thread are a sequence of events.
LEMMA HandedShape ==
  ASSUME TypeOK, NEW t \in Threads
  PROVE  /\ handed[t] \in Seq(SecurityEvent) /\ Len(handed[t]) \in Nat
         /\ DOMAIN handed[t] = 1 .. Len(handed[t])
         /\ \A n \in DOMAIN handed[t] : handed[t][n] \in SecurityEvent
<1>1. handed[t] \in Seq(SecurityEvent)
  BY DEF TypeOK
<1> QED  BY <1>1, LenProperties, ElementOfSeq

\* The alert in the hand of a thread, and where the thread is.
LEMMA InHand ==
  ASSUME TypeOK, LoopsInRange, NEW t \in Threads, turn[t] # 0
  PROVE  /\ turn[t] \in Sinks /\ checked[t] \in DOMAIN handed[t]
         /\ Alert(t, checked[t]) \in Due(t) /\ Alert(t, checked[t]) \in AlertType
         /\ Alert(t, checked[t]).by = t /\ Alert(t, checked[t]).n = checked[t]
<1>1. /\ turn[t] \in 1 .. Len(SinkKinds) /\ checked[t] \in DOMAIN handed[t]
      /\ CallsForAlert(handed[t][checked[t]])
  BY SinkNumbers DEF LoopsInRange, TypeOK
<1>2. handed[t][checked[t]] \in SecurityEvent /\ checked[t] \in Nat
  BY <1>1, HandedShape DEF TypeOK
<1> QED  BY <1>1, <1>2, SinkNumbers DEF Alert, Due, AlertType

\* A rule fires exactly if the documentation calls for an alert.
LEMMA FiresIffCalled ==
  ASSUME NEW event \in SecurityEvent
  PROVE  Fires(event) <=> CallsForAlert(event)
<1>1. event.severity \in 0 .. 3
  BY DEF SecurityEvent, Severity, LOW, CRITICAL
<1>2. \A rule \in Rules : rule.floor \in 0 .. 3
  BY AlertingAssumption DEF AlertRule, Severity, LOW, CRITICAL
<1> QED  BY <1>1, <1>2 DEF Fires, Matches, CallsForAlert, CRITICAL

\* What a sink has got after one alert more.
LEMMA RangeAppend ==
  ASSUME NEW S, NEW s \in Seq(S), NEW e \in S
  PROVE  /\ Append(s, e) \in Seq(S) /\ Len(Append(s, e)) = Len(s) + 1 /\ Len(s) \in Nat
         /\ DOMAIN s = 1 .. Len(s) /\ DOMAIN Append(s, e) = 1 .. Len(s) + 1
         /\ \A i \in 1 .. Len(s) : Append(s, e)[i] = s[i]
         /\ Append(s, e)[Len(s) + 1] = e
         /\ Range(Append(s, e)) = Range(s) \cup {e}
<1>1. /\ Append(s, e) \in Seq(S) /\ Len(Append(s, e)) = Len(s) + 1 /\ Len(s) \in Nat
      /\ \A i \in 1 .. Len(s) : Append(s, e)[i] = s[i]
      /\ Append(s, e)[Len(s) + 1] = e
  BY AppendProperties, LenProperties
<1>2. DOMAIN s = 1 .. Len(s) /\ DOMAIN Append(s, e) = 1 .. Len(s) + 1
  BY <1>1, LenProperties
<1> QED  BY <1>1, <1>2 DEF Range

-----------------------------------------------------------------------------
(* What a step settles. *)

\* New findings leave what is settled; what they call for comes after it.
LEMMA ReportSettles ==
  ASSUME TypeOK, LoopsInRange, NEW t \in Threads, NEW report \in Reports, Report(t, report)
  PROVE  /\ handed' \in [Threads -> Seq(SecurityEvent)]
         /\ DOMAIN handed[t] \subseteq DOMAIN handed'[t]
         /\ \A n \in DOMAIN handed[t] : handed'[t][n] = handed[t][n]
         /\ \A u \in Threads \ {t} : handed'[u] = handed[u]
         /\ Due(t) \subseteq Due(t)'
         /\ \A a \in Due(t)' \ Due(t) : a.n \in Nat /\ a.n > Len(handed[t])
         /\ \A k \in Sinks : Settled(t, k) = Due(t)
         /\ \A u \in Threads, k \in Sinks : Settled(u, k)' = Settled(u, k)
<1>1. /\ handed[t] \in Seq(SecurityEvent) /\ Len(handed[t]) \in Nat
      /\ DOMAIN handed[t] = 1 .. Len(handed[t])
  BY HandedShape
<1>2. report \in Seq(SecurityEvent) /\ Len(report) \in Nat
  BY AlertingAssumption
<1>3. handed'[t] = handed[t] \o report /\ \A u \in Threads \ {t} : handed'[u] = handed[u]
  BY DEF Report, TypeOK
<1>4. /\ handed'[t] \in Seq(SecurityEvent)
      /\ DOMAIN handed'[t] = 1 .. Len(handed[t]) + Len(report)
      /\ \A n \in DOMAIN handed[t] : handed'[t][n] = handed[t][n]
  BY <1>1, <1>2, <1>3
<1>5. handed' \in [Threads -> Seq(SecurityEvent)]
  BY <1>3, <1>4 DEF TypeOK, Report
<1>6. checked[t] = Len(handed[t]) /\ turn[t] = 0 /\ UNCHANGED <<checked, turn>>
  BY DEF Report, Idle
<1>7. Due(t) \subseteq Due(t)' /\ \A a \in Due(t)' \ Due(t) : a.n \in Nat /\ a.n > Len(handed[t])
  BY <1>1, <1>2, <1>4 DEF Due, Alert
<1>8. \A a \in Due(t) : a.n \in 1 .. Len(handed[t])
  BY <1>1 DEF Due, Alert
<1>9. \A k \in Sinks : Settled(t, k) = Due(t)
  BY <1>1, <1>6, <1>8, SinkNumbers DEF Settled
<1>10. \A k \in Sinks : Settled(t, k)' = Due(t)
  BY <1>1, <1>6, <1>7, <1>8, SinkNumbers DEF Settled
<1>11. \A u \in Threads \ {t} : Due(u)' = Due(u)
  BY <1>3 DEF Due, Alert
<1>12. \A u \in Threads \ {t}, k \in Sinks : Settled(u, k)' = Settled(u, k)
  BY <1>6, <1>11 DEF Settled
<1>13. DOMAIN handed[t] \subseteq DOMAIN handed'[t]
  BY <1>1, <1>2, <1>4
<1>14. \A u \in Threads, k \in Sinks : Settled(u, k)' = Settled(u, k)
  BY <1>9, <1>10, <1>12
<1> QED  BY <1>3, <1>4, <1>5, <1>7, <1>9, <1>13, <1>14

\* What is due depends on the findings handed on alone.
LEMMA SameDue ==
  ASSUME UNCHANGED handed, NEW t \in Threads
  PROVE  Due(t)' = Due(t) /\ \A n : Alert(t, n)' = Alert(t, n)
BY DEF Due, Alert

\* Matching a finding against the rules settles nothing.
LEMMA CheckSettles ==
  ASSUME TypeOK, LoopsInRange, NEW t \in Threads, Check(t), NEW u \in Threads, NEW k \in Sinks
  PROVE  Settled(u, k)' = Settled(u, k)
<1>1. UNCHANGED handed
  BY DEF Check
<1>2. Due(u)' = Due(u)
  BY <1>1, SameDue
<1>3. CASE u # t
  <2>1. checked'[u] = checked[u] /\ turn'[u] = turn[u]
    BY <1>3 DEF Check, TypeOK
  <2> QED  BY <1>2, <2>1 DEF Settled
<1>4. CASE u = t
  <2> DEFINE n == checked[t] + 1
  <2>1. checked[t] \in Nat /\ turn[t] = 0 /\ n \in 1 .. Len(handed[t]) /\ checked'[t] = n
    BY HandedShape DEF Check, TypeOK
  <2>2. turn'[t] = IF CallsForAlert(handed[t][n]) THEN 1 ELSE 0
    <3>1. Sinks # {}
      OBVIOUS
    <3>2. Fires(handed[t][n]) <=> CallsForAlert(handed[t][n])
      BY <2>1, FiresIffCalled, HandedShape
    <3> QED  BY <3>1, <3>2 DEF Check, TypeOK
  <2>3. \A a \in Due(t) : a.n \in Nat /\ (a.n = n => CallsForAlert(handed[t][n]))
    BY HandedShape DEF Due, Alert
  <2>4. k \in Nat /\ k >= 1
    BY SinkNumbers
  <2>5. ASSUME NEW a \in Due(t)
        PROVE  a \in Settled(t, k)' <=> a \in Settled(t, k)
    <3>1. a \in Settled(t, k) <=> a.n <= checked[t]
      BY <2>1, <2>3, <2>4 DEF Settled
    <3>2. a \in Settled(t, k)' <=> (a.n < n \/ (a.n = n /\ turn'[t] \notin 1 .. k))
      BY <1>2, <1>4, <2>1 DEF Settled
    <3>3. CASE a.n = n
      BY <2>1, <2>2, <2>3, <2>4, <3>1, <3>2, <3>3
    <3>4. CASE a.n # n
      BY <2>1, <2>3, <3>1, <3>2, <3>4
    <3> QED  BY <3>3, <3>4
  <2> QED  BY <1>2, <1>4, <2>5 DEF Settled
<1> QED  BY <1>3, <1>4

\* Going on to the next sink settles the alert in hand at this one.
LEMMA ProceedSettles ==
  ASSUME TypeOK, LoopsInRange, NEW t \in Threads, turn[t] # 0, Proceed(t),
         UNCHANGED <<handed, checked>>, NEW u \in Threads, NEW k \in Sinks
  PROVE  Settled(u, k)' = IF u = t /\ k = turn[t]
                            THEN Settled(u, k) \cup {Alert(t, checked[t])} ELSE Settled(u, k)
<1>1. Due(u)' = Due(u)
  BY SameDue
<1>2. CASE u # t
  <2>1. turn'[u] = turn[u]
    BY <1>2 DEF Proceed, TypeOK
  <2> QED  BY <1>1, <1>2, <2>1 DEF Settled
<1>3. CASE u = t
  <2>1. /\ Len(SinkKinds) \in Nat /\ k \in 1 .. Len(SinkKinds)
        /\ turn[t] \in 1 .. Len(SinkKinds) /\ checked[t] \in Nat
    BY SinkNumbers, InHand DEF TypeOK
  <2>2. turn'[t] = IF turn[t] = Len(SinkKinds) THEN 0 ELSE turn[t] + 1
    BY DEF Proceed, NextSink, TypeOK
  <2>3. turn'[t] \notin 1 .. k <=> turn[t] \notin 1 .. k \/ k = turn[t]
    BY <2>1, <2>2
  <2>4. \A a \in Due(t) : a.n = checked[t] => a = Alert(t, checked[t])
    BY DEF Due, Alert
  <2>5. Alert(t, checked[t]) \in Due(t) /\ Alert(t, checked[t]).n = checked[t]
    BY InHand
  <2>6. ASSUME NEW a \in Due(t)
        PROVE  a \in Settled(t, k)' <=> \/ a \in Settled(t, k)
                                        \/ k = turn[t] /\ a = Alert(t, checked[t])
    BY <1>1, <1>3, <2>3, <2>4, <2>5, <2>6 DEF Settled
  <2> QED  BY <1>1, <1>3, <2>5, <2>6 DEF Settled
<1> QED  BY <1>2, <1>3

\* An interrupt settles all that is due of its thread.
LEMMA InterruptSettles ==
  ASSUME TypeOK, LoopsInRange, NEW t \in Threads, Interrupt(t), NEW u \in Threads, NEW k \in Sinks
  PROVE  Settled(u, k)' = IF u = t THEN Due(t) ELSE Settled(u, k)
<1>1. Due(u)' = Due(u)
  BY SameDue DEF Interrupt
<1>2. CASE u # t
  <2>1. checked'[u] = checked[u] /\ turn'[u] = turn[u]
    BY <1>2 DEF Interrupt, TypeOK
  <2> QED  BY <1>1, <1>2, <2>1 DEF Settled
<1>3. CASE u = t
  <2>1. checked'[t] = Len(handed[t]) /\ turn'[t] = 0
    BY DEF Interrupt, TypeOK
  <2>2. \A a \in Due(t) : a.n \in 1 .. Len(handed[t])
    BY HandedShape DEF Due, Alert
  <2>3. Len(handed[t]) \in Nat /\ k \in Nat
    BY HandedShape, SinkNumbers
  <2> QED  BY <1>1, <1>3, <2>1, <2>2, <2>3 DEF Settled
<1> QED  BY <1>2, <1>3

\* Nothing settled depends on an answer being waited for.
LEMMA SameSettled ==
  ASSUME UNCHANGED <<handed, checked, turn>>, NEW u \in Threads, NEW k \in Sinks
  PROVE  Settled(u, k)' = Settled(u, k)
BY SameDue DEF Settled
-----------------------------------------------------------------------------
(* The invariant. *)

\* The initial state satisfies the invariant.
LEMMA InitInv == Init => Inv
<1> SUFFICES ASSUME Init PROVE Inv
  OBVIOUS
<1>1. TypeOK
  BY AlertingAssumption DEF Init, TypeOK
<1>2. LoopsInRange
  BY SinkNumbers DEF Init, LoopsInRange
<1>3. \A t \in Threads, k \in Sinks : Settled(t, k) = {}
  BY DEF Init, Settled, Due
<1>4. \A k \in Sinks : /\ Range(out[k]) = {} /\ DOMAIN out[k] = {}
                       /\ adrift[k] = {} /\ missed[k] = {}
  BY DEF Init, Range
<1>5. OutIsSettled /\ AdriftIsNotOut /\ SettledIsOut /\ OncePerFinding
  BY <1>3, <1>4 DEF OutIsSettled, AdriftIsNotOut, SettledIsOut, OncePerFinding
<1> QED  BY <1>1, <1>2, <1>5 DEF Inv

\* What sinks got, may yet get or failed at are alerts.
LEMMA RecordedTypes ==
  ASSUME TypeOK, NEW k \in Sinks, NEW a \in Range(out[k]) \cup adrift[k] \cup missed[k]
  PROVE  a \in AlertType
<1>1. out[k] \in Seq(AlertType) /\ {adrift[k], missed[k]} \subseteq SUBSET AlertType
  BY DEF TypeOK
<1>2. \A i \in DOMAIN out[k] : out[k][i] \in AlertType
  BY <1>1
<1> QED  BY <1>1, <1>2 DEF Range

\* No two alerts of a thread at a sink have the same number.
LEMMA NumbersTellAlerts ==
  ASSUME TypeOK, OutIsSettled, NEW k \in Sinks,
         NEW a \in Range(out[k]) \cup adrift[k], NEW b \in Range(out[k]) \cup adrift[k],
         a.by = b.by, a.n = b.n
  PROVE  a = b
<1>1. a \in AlertType
  BY RecordedTypes
<1>2. a \in Due(a.by) /\ b \in Due(a.by)
  BY DEF OutIsSettled, Settled
<1> QED  BY <1>1, <1>2 DEF Due, Alert, AlertType

\* A sink gets one alert more: it has not got it yet, and those of the thread that it
\* has got are of findings before, or the alert is late.
LEMMA AppendKeeps ==
  ASSUME TypeOK, OncePerFinding, NEW k \in Sinks, NEW e \in AlertType,
         out' = [out EXCEPT ![k] = Append(@, e)],
         \A q \in Sinks : late[q] \subseteq late'[q],
         \A a \in Range(out[k]) :
           a.by = e.by => \/ a.n < e.n
                          \/ a.n > e.n /\ IsWebhook(k) /\ e \in late'[k]
  PROVE  /\ out' \in [Sinks -> Seq(AlertType)]
         /\ \A q \in Sinks : Range(out'[q]) = IF q = k THEN Range(out[q]) \cup {e} ELSE Range(out[q])
         /\ OncePerFinding'
<1>1. /\ out'[k] = Append(out[k], e) /\ \A q \in Sinks \ {k} : out'[q] = out[q]
      /\ out \in [Sinks -> Seq(AlertType)]
  BY DEF TypeOK
<1>2. /\ out'[k] \in Seq(AlertType) /\ Range(out'[k]) = Range(out[k]) \cup {e}
      /\ Len(out[k]) \in Nat
      /\ DOMAIN out[k] = 1 .. Len(out[k]) /\ DOMAIN out'[k] = 1 .. Len(out[k]) + 1
      /\ \A i \in 1 .. Len(out[k]) : out'[k][i] = out[k][i]
      /\ out'[k][Len(out[k]) + 1] = e
  <2>1. out[k] \in Seq(AlertType)
    BY <1>1
  <2> QED  BY <1>1, <2>1, RangeAppend
<1>3. OncePerFinding'
  <2> SUFFICES ASSUME NEW q \in Sinks, NEW i \in DOMAIN out'[q], NEW j \in DOMAIN out'[q],
                      i < j, out'[q][i].by = out'[q][j].by
               PROVE  \/ out'[q][i].n < out'[q][j].n
                      \/ /\ out'[q][i].n > out'[q][j].n /\ IsWebhook(q)
                         /\ out'[q][j] \in late'[q]
    BY DEF OncePerFinding, IsWebhook
  <2>1. CASE q # k
    BY <1>1, <2>1 DEF OncePerFinding
  <2>2. CASE q = k /\ j \in DOMAIN out[k]
    <3>1. i \in 1 .. Len(out[k]) + 1 /\ j \in 1 .. Len(out[k])
      BY <1>2, <2>2
    <3>2. i \in 1 .. Len(out[k])
      BY <1>2, <3>1
    <3>3. i \in DOMAIN out[k] /\ out'[k][i] = out[k][i] /\ out'[k][j] = out[k][j]
      BY <1>2, <3>1, <3>2
    <3> QED  BY <2>2, <3>3 DEF OncePerFinding
  <2>3. CASE q = k /\ j \notin DOMAIN out[k]
    <3>1. i \in 1 .. Len(out[k]) + 1 /\ j \in 1 .. Len(out[k]) + 1 /\ j \notin 1 .. Len(out[k])
      BY <1>2, <2>3
    <3>2. j = Len(out[k]) + 1 /\ i \in 1 .. Len(out[k])
      BY <1>2, <3>1
    <3>3. out'[k][i] \in Range(out[k]) /\ out'[k][j] = e
      BY <1>2, <3>2 DEF Range
    <3> QED  BY <2>3, <3>3
  <2> QED  BY <2>1, <2>2, <2>3
<1>4. out' \in [Sinks -> Seq(AlertType)]
  <2>1. out' = [q \in Sinks |-> out'[q]]
    BY <1>1
  <2>2. \A q \in Sinks : out'[q] \in Seq(AlertType)
    BY <1>1, <1>2
  <2> QED  BY <2>1, <2>2
<1>5. \A q \in Sinks : Range(out'[q]) = IF q = k THEN Range(out[q]) \cup {e} ELSE Range(out[q])
  BY <1>1, <1>2
<1> QED  BY <1>3, <1>4, <1>5

\* The alert in hand is not settled at its sink: the sink has not got it, and all that
\* it has got of the thread comes before.
LEMMA InHandIsNew ==
  ASSUME Inv, NEW t \in Threads, turn[t] # 0
  PROVE  LET k == turn[t]
             e == Alert(t, checked[t])
         IN  /\ e \notin Settled(t, k) /\ e \notin Range(out[k]) \cup adrift[k] \cup missed[k]
             /\ \A a \in Range(out[k]) : a.by = t => a.n < checked[t]
<1> DEFINE k == turn[t]
           e == Alert(t, checked[t])
<1>1. k \in Sinks /\ k \in 1 .. k /\ e.by = t /\ e.n = checked[t] /\ checked[t] \in Nat
  BY InHand, SinkNumbers DEF Inv, TypeOK
<1>2. e \notin Settled(t, k) /\ \A a \in Settled(t, k) : a.n < checked[t]
  BY <1>1 DEF Settled
<1>3. \A a \in Range(out[k]) \cup adrift[k] \cup missed[k] : a \in Settled(a.by, k)
  BY <1>1 DEF Inv, OutIsSettled
<1> QED  BY <1>1, <1>2, <1>3

\* How the alert in hand may leave: delivered, given up at a webhook, or missed.
Leaves(t) ==
  \/ Deliver(t) /\ UNCHANGED missed
  \/ GiveUp(t) /\ UNCHANGED missed /\ IsWebhook(turn[t])
  \/ Miss(t)

\* It goes to one of the three sets of its sink, and the others stay as they are.
LEMMA LeavesKeeps ==
  ASSUME Inv, NEW t \in Threads, turn[t] # 0, Leaves(t)
  PROVE  LET q == turn[t]
             e == Alert(t, checked[t])
         IN  /\ out' \in [Sinks -> Seq(AlertType)]
             /\ {adrift, late, missed}' \subseteq [Sinks -> SUBSET AlertType]
             /\ OncePerFinding' /\ AdriftIsNotOut'
             /\ \A k \in Sinks \ {q} :
                  Range(out'[k]) = Range(out[k]) /\ adrift'[k] = adrift[k] /\ missed'[k] = missed[k]
             /\ \/ /\ Range(out'[q]) \cup adrift'[q] = Range(out[q]) \cup adrift[q] \cup {e}
                   /\ missed'[q] = missed[q]
                \/ /\ Range(out'[q]) \cup adrift'[q] = Range(out[q]) \cup adrift[q]
                   /\ missed'[q] = missed[q] \cup {e}
<1> DEFINE q == turn[t]
           e == Alert(t, checked[t])
<1>1. /\ TypeOK /\ LoopsInRange /\ OncePerFinding /\ AdriftIsNotOut
      /\ out \in [Sinks -> Seq(AlertType)]
      /\ {adrift, late, missed} \subseteq [Sinks -> SUBSET AlertType]
  BY DEF Inv, TypeOK
<1>2. q \in Sinks /\ e \in AlertType /\ e.by = t /\ e.n = checked[t]
  BY <1>1, InHand
<1>3. /\ e \notin Range(out[q]) \cup adrift[q] \cup missed[q]
      /\ \A a \in Range(out[q]) : a.by = t => a.n < checked[t]
  BY InHandIsNew
<1> HIDE DEF e, q
<1>4. CASE Deliver(t) /\ UNCHANGED missed
  <2>1. out' = [out EXCEPT ![q] = Append(@, e)] /\ UNCHANGED <<adrift, late, missed>>
    BY <1>4 DEF Deliver, e, q
  <2>2. /\ out' \in [Sinks -> Seq(AlertType)] /\ OncePerFinding'
        /\ \A k \in Sinks : Range(out'[k]) = IF k = q THEN Range(out[k]) \cup {e} ELSE Range(out[k])
    BY <1>1, <1>2, <1>3, <2>1, AppendKeeps
  <2>3. AdriftIsNotOut'
    BY <1>1, <1>3, <2>1, <2>2 DEF AdriftIsNotOut, IsWebhook
  <2> QED  BY <1>1, <1>2, <2>1, <2>2, <2>3 DEF e, q
<1>5. CASE GiveUp(t) /\ UNCHANGED missed /\ IsWebhook(turn[t])
  <2>1. /\ adrift' = [adrift EXCEPT ![q] = @ \cup {e}] /\ UNCHANGED <<out, late, missed>>
        /\ IsWebhook(q)
    BY <1>5 DEF GiveUp, e, q
  <2>2. /\ adrift' \in [Sinks -> SUBSET AlertType] /\ adrift'[q] = adrift[q] \cup {e}
        /\ \A k \in Sinks \ {q} : adrift'[k] = adrift[k]
    BY <1>1, <1>2, <2>1
  <2>3. OncePerFinding' /\ AdriftIsNotOut'
    BY <1>1, <1>3, <2>1, <2>2 DEF AdriftIsNotOut, OncePerFinding, IsWebhook
  <2> QED  BY <1>1, <1>2, <2>1, <2>2, <2>3 DEF e, q
<1>6. CASE Miss(t)
  <2>1. missed' = [missed EXCEPT ![q] = @ \cup {e}] /\ UNCHANGED <<out, adrift, late>>
    BY <1>6 DEF Miss, sent, e, q
  <2>2. /\ missed' \in [Sinks -> SUBSET AlertType] /\ missed'[q] = missed[q] \cup {e}
        /\ \A k \in Sinks \ {q} : missed'[k] = missed[k]
    BY <1>1, <1>2, <2>1
  <2>3. OncePerFinding' /\ AdriftIsNotOut'
    BY <1>1, <2>1 DEF AdriftIsNotOut, OncePerFinding, IsWebhook
  <2> QED  BY <1>1, <1>2, <2>1, <2>2, <2>3 DEF e, q
<1> QED  BY <1>4, <1>5, <1>6 DEF Leaves

\* A sink done with the alert in hand: it was delivered or given up, or the sink failed.
LEMMA ProceedPreserves ==
  ASSUME Inv, NEW t \in Threads, turn[t] # 0, Proceed(t), UNCHANGED <<handed, checked, cut>>,
         waiting' = [waiting EXCEPT ![t] = FALSE], Leaves(t)
  PROVE  Inv'
<1> DEFINE q == turn[t]
           e == Alert(t, checked[t])
<1>1. TypeOK /\ LoopsInRange
  BY DEF Inv
<1>2. /\ q \in Sinks /\ e \in Due(t) /\ e \in AlertType /\ e.by = t /\ e.n = checked[t]
      /\ checked[t] \in Nat
  BY <1>1, InHand DEF TypeOK
<1>3. \A u \in Threads, k \in Sinks :
        Settled(u, k)' = IF u = t /\ k = q THEN Settled(u, k) \cup {e} ELSE Settled(u, k)
  BY <1>1, ProceedSettles
<1>4. e \notin Settled(t, q) /\ e \notin Range(out[q]) \cup adrift[q] \cup missed[q]
  BY InHandIsNew
<1>5. /\ out' \in [Sinks -> Seq(AlertType)]
      /\ {adrift, late, missed}' \subseteq [Sinks -> SUBSET AlertType]
      /\ OncePerFinding' /\ AdriftIsNotOut'
      /\ \A k \in Sinks \ {q} :
           Range(out'[k]) = Range(out[k]) /\ adrift'[k] = adrift[k] /\ missed'[k] = missed[k]
      /\ \/ /\ Range(out'[q]) \cup adrift'[q] = Range(out[q]) \cup adrift[q] \cup {e}
            /\ missed'[q] = missed[q]
         \/ /\ Range(out'[q]) \cup adrift'[q] = Range(out[q]) \cup adrift[q]
            /\ missed'[q] = missed[q] \cup {e}
  BY LeavesKeeps
<1> HIDE DEF e
<1>6. TypeOK'
  <2>1. turn' \in [Threads -> Nat]
    <3>1. NextSink(q) \in Nat
      BY <1>2, SinkNumbers DEF NextSink
    <3> QED  BY <1>1, <3>1 DEF Proceed, TypeOK
  <2> QED  BY <1>1, <1>5, <2>1 DEF TypeOK
<1>7. LoopsInRange'
  <2>1. NextSink(q) \in 0 .. Len(SinkKinds) /\ Len(SinkKinds) \in Nat
    BY <1>2, SinkNumbers DEF NextSink
  <2>2. turn'[t] = NextSink(q) /\ \A u \in Threads \ {t} : turn'[u] = turn[u]
    BY <1>1 DEF Proceed, TypeOK
  <2>3. ~ waiting'[t] /\ \A u \in Threads \ {t} : waiting'[u] = waiting[u]
    BY <1>1 DEF TypeOK
  <2>4. \A u \in Threads : handed'[u] = handed[u] /\ checked'[u] = checked[u]
    OBVIOUS
  <2>5. \A event : CallsForAlert(event)' = CallsForAlert(event)
    BY DEF CallsForAlert
  <2> SUFFICES ASSUME NEW u \in Threads
               PROVE  (/\ checked[u] <= Len(handed[u]) /\ turn[u] <= Len(SinkKinds)
                       /\ turn[u] # 0 => /\ checked[u] \in DOMAIN handed[u]
                                         /\ CallsForAlert(handed[u][checked[u]])
                       /\ waiting[u] => turn[u] # 0 /\ IsWebhook(turn[u]))'
    BY DEF LoopsInRange
  <2>6. CASE u = t
    BY <1>1, <2>1, <2>2, <2>3, <2>4, <2>5, <2>6 DEF LoopsInRange
  <2>7. CASE u # t
    BY <1>1, <2>2, <2>3, <2>4, <2>5, <2>7 DEF LoopsInRange, IsWebhook
  <2> QED  BY <2>6, <2>7
<1>8. OutIsSettled'
  <2> SUFFICES ASSUME NEW k \in Sinks, NEW a \in Range(out'[k]) \cup adrift'[k] \cup missed'[k]
               PROVE  a \in Settled(a.by, k)'
    BY DEF OutIsSettled
  <2>1. CASE a = e /\ k = q
    BY <1>2, <1>3, <2>1
  <2>2. CASE a # e \/ k # q
    <3>1. a \in Range(out[k]) \cup adrift[k] \cup missed[k]
      BY <1>5, <2>2
    <3>2. a \in Settled(a.by, k)
      BY <3>1 DEF Inv, OutIsSettled
    <3>3. a.by \in Threads
      <4>1. a \in AlertType
        BY <1>1, <3>1, RecordedTypes
      <4> QED  BY <4>1 DEF AlertType
    <3> QED  BY <1>3, <3>2, <3>3
  <2> QED  BY <2>1, <2>2
<1>9. SettledIsOut'
  <2> SUFFICES ASSUME NEW u \in Threads \ cut, NEW k \in Sinks
               PROVE  {a \in Range(out'[k]) \cup adrift'[k] : a.by = u} = Settled(u, k)' \ missed'[k]
    BY DEF SettledIsOut
  <2>1. {a \in Range(out[k]) \cup adrift[k] : a.by = u} = Settled(u, k) \ missed[k]
    BY DEF Inv, SettledIsOut
  <2>2. CASE k # q
    BY <1>3, <1>5, <2>1, <2>2
  <2>3. CASE k = q /\ u # t
    <3>1. \A a \in Settled(u, k) : a.by = u
      BY DEF Settled, Due, Alert
    <3> QED  BY <1>2, <1>3, <1>5, <2>1, <2>3, <3>1
  <2>4. CASE k = q /\ u = t
    BY <1>2, <1>3, <1>4, <1>5, <2>1, <2>4
  <2> QED  BY <2>2, <2>3, <2>4
<1> QED  BY <1>5, <1>6, <1>7, <1>8, <1>9 DEF Inv
\* A report waits at every sink until its thread is done with the last one.
LEMMA ReportPreserves ==
  ASSUME Inv, NEW t \in Threads, NEW report \in Reports, Report(t, report)
  PROVE  Inv'
<1>1. TypeOK /\ LoopsInRange /\ UNCHANGED <<checked, turn, waiting, out, adrift, late, missed, cut>>
  BY DEF Inv, Report, sent
<1>2. /\ handed' \in [Threads -> Seq(SecurityEvent)]
      /\ DOMAIN handed[t] \subseteq DOMAIN handed'[t]
      /\ \A n \in DOMAIN handed[t] : handed'[t][n] = handed[t][n]
      /\ \A u \in Threads \ {t} : handed'[u] = handed[u]
      /\ \A u \in Threads, k \in Sinks : Settled(u, k)' = Settled(u, k)
  BY <1>1, ReportSettles
<1>3. TypeOK'
  BY <1>1, <1>2 DEF TypeOK
<1>4. LoopsInRange'
  <2> SUFFICES ASSUME NEW u \in Threads
               PROVE  (/\ checked[u] <= Len(handed[u]) /\ turn[u] <= Len(SinkKinds)
                       /\ turn[u] # 0 => /\ checked[u] \in DOMAIN handed[u]
                                         /\ CallsForAlert(handed[u][checked[u]])
                       /\ waiting[u] => turn[u] # 0 /\ IsWebhook(turn[u]))'
    BY DEF LoopsInRange
  <2>1. \A event : CallsForAlert(event)' = CallsForAlert(event)
    BY DEF CallsForAlert
  <2>2. Len(handed[u]) <= Len(handed'[u]) /\ Len(handed[u]) \in Nat /\ Len(handed'[u]) \in Nat
    <3>1. handed'[u] \in Seq(SecurityEvent)
      BY <1>2
    <3>2. DOMAIN handed'[u] = 1 .. Len(handed'[u]) /\ Len(handed'[u]) \in Nat
      BY <3>1
    <3>3. DOMAIN handed[u] = 1 .. Len(handed[u]) /\ Len(handed[u]) \in Nat
      BY <1>1, HandedShape
    <3>4. DOMAIN handed[u] \subseteq DOMAIN handed'[u]
      BY <1>2
    <3> QED  BY <3>2, <3>3, <3>4
  <2>3. \A n \in DOMAIN handed[u] : n \in DOMAIN handed'[u] /\ handed'[u][n] = handed[u][n]
    BY <1>2
  <2>4. checked[u] \in Nat
    BY <1>1 DEF TypeOK
  <2> QED  BY <1>1, <2>1, <2>2, <2>3, <2>4 DEF LoopsInRange
<1>5. OutIsSettled'
  BY <1>1, <1>2, RecordedTypes DEF Inv, OutIsSettled, AlertType
<1>6. SettledIsOut' /\ OncePerFinding' /\ AdriftIsNotOut'
  BY <1>1, <1>2 DEF Inv, SettledIsOut, OncePerFinding, AdriftIsNotOut, IsWebhook
<1> QED  BY <1>3, <1>4, <1>5, <1>6 DEF Inv

\* Neither matching a finding nor sending a request settles anything.
LEMMA QuietPreserves ==
  ASSUME Inv, TypeOK', LoopsInRange', UNCHANGED <<handed, out, adrift, late, missed, cut>>,
         \A u \in Threads, k \in Sinks : Settled(u, k)' = Settled(u, k)
  PROVE  Inv'
<1>1. OutIsSettled'
  BY RecordedTypes DEF Inv, OutIsSettled, AlertType
<1>2. SettledIsOut' /\ OncePerFinding' /\ AdriftIsNotOut'
  BY DEF Inv, SettledIsOut, OncePerFinding, AdriftIsNotOut, IsWebhook
<1> QED  BY <1>1, <1>2 DEF Inv

\* The alert that a thread takes in hand is due.
LEMMA CheckPreserves ==
  ASSUME Inv, NEW t \in Threads, Check(t)
  PROVE  Inv'
<1>1. TypeOK /\ LoopsInRange /\ UNCHANGED <<handed, waiting, out, adrift, late, missed, cut>>
  BY DEF Inv, Check, sent
<1> DEFINE n == checked[t] + 1
<1>2. /\ checked[t] \in Nat /\ turn[t] = 0 /\ n \in 1 .. Len(handed[t])
      /\ checked' = [checked EXCEPT ![t] = n]
  BY <1>1, HandedShape DEF Check, TypeOK
<1>3. \/ turn' = [turn EXCEPT ![t] = 0]
      \/ /\ turn' = [turn EXCEPT ![t] = 1] /\ Sinks # {} /\ CallsForAlert(handed[t][n])
  <2>1. Fires(handed[t][n]) <=> CallsForAlert(handed[t][n])
    BY <1>1, <1>2, FiresIffCalled, HandedShape
  <2> QED  BY <2>1 DEF Check
<1>4. TypeOK'
  <2>1. turn' \in [Threads -> Nat]
    <3>1. turn \in [Threads -> Nat]
      BY <1>1 DEF TypeOK
    <3> QED  BY <1>3, <3>1
  <2>2. checked' \in [Threads -> Nat]
    <3>1. checked \in [Threads -> Nat] /\ n \in Nat
      BY <1>1, <1>2 DEF TypeOK
    <3> QED  BY <1>2, <3>1
  <2> QED  BY <1>1, <2>1, <2>2 DEF TypeOK
<1>5. LoopsInRange'
  <2> SUFFICES ASSUME NEW u \in Threads
               PROVE  (/\ checked[u] <= Len(handed[u]) /\ turn[u] <= Len(SinkKinds)
                       /\ turn[u] # 0 => /\ checked[u] \in DOMAIN handed[u]
                                         /\ CallsForAlert(handed[u][checked[u]])
                       /\ waiting[u] => turn[u] # 0 /\ IsWebhook(turn[u]))'
    BY DEF LoopsInRange
  <2>1. \A event : CallsForAlert(event)' = CallsForAlert(event)
    BY DEF CallsForAlert
  <2>2. CASE u = t
    <3>1. checked'[t] = n /\ waiting'[t] = waiting[t] /\ ~ waiting[t]
      BY <1>1, <1>2 DEF TypeOK, LoopsInRange
    <3>2. n \in DOMAIN handed[t] /\ n <= Len(handed[t])
      BY <1>1, <1>2, HandedShape
    <3>3. \/ turn'[t] = 0
          \/ turn'[t] = 1 /\ 1 <= Len(SinkKinds) /\ CallsForAlert(handed[t][n])
      <4>1. Sinks # {} => 1 <= Len(SinkKinds)
        BY SinkNumbers
      <4> QED  BY <1>1, <1>3, <4>1 DEF TypeOK
    <3>4. 0 <= Len(SinkKinds)
      BY SinkNumbers
    <3> QED  BY <1>1, <2>1, <2>2, <3>1, <3>2, <3>3, <3>4
  <2>3. CASE u # t
    <3>1. checked'[u] = checked[u] /\ turn'[u] = turn[u]
      BY <1>1, <1>2, <1>3, <2>3 DEF TypeOK
    <3> QED  BY <1>1, <2>1, <3>1 DEF LoopsInRange, IsWebhook
  <2> QED  BY <2>2, <2>3
<1> QED  BY <1>1, <1>4, <1>5, CheckSettles, QuietPreserves

\* A request is on its way: nothing is settled before its answer.
LEMMA SendPreserves ==
  ASSUME Inv, NEW t \in Threads, Send(t)
  PROVE  Inv'
<1>1. /\ TypeOK /\ LoopsInRange
      /\ UNCHANGED <<handed, checked, turn, out, adrift, late, missed, cut>>
      /\ turn[t] # 0 /\ IsWebhook(turn[t]) /\ waiting' = [waiting EXCEPT ![t] = TRUE]
  BY DEF Inv, Send, Calling, sent
<1>2. TypeOK'
  BY <1>1 DEF TypeOK
<1>3. LoopsInRange'
  <2>1. \A u \in Threads : waiting'[u] => turn[u] # 0 /\ IsWebhook(turn[u])
    BY <1>1 DEF LoopsInRange, TypeOK
  <2>2. \A event : CallsForAlert(event)' = CallsForAlert(event)
    BY DEF CallsForAlert
  <2> QED  BY <1>1, <2>1, <2>2 DEF LoopsInRange, IsWebhook
<1>4. \A u \in Threads, k \in Sinks : Settled(u, k)' = Settled(u, k)
  BY <1>1, SameSettled
<1> QED  BY <1>1, <1>2, <1>3, <1>4, QuietPreserves

\* After an interrupt all is settled, and nothing promised of what the sinks got.
LEMMA InterruptPreserves ==
  ASSUME Inv, NEW t \in Threads, Interrupt(t)
  PROVE  Inv'
<1>1. /\ TypeOK /\ LoopsInRange /\ UNCHANGED <<handed, missed>> /\ turn[t] # 0
      /\ checked' = [checked EXCEPT ![t] = Len(handed[t])]
      /\ turn' = [turn EXCEPT ![t] = 0] /\ waiting' = [waiting EXCEPT ![t] = FALSE]
      /\ cut' = cut \cup {t}
  BY DEF Inv, Interrupt
<1>2. /\ out' \in [Sinks -> Seq(AlertType)]
      /\ {adrift, late, missed}' \subseteq [Sinks -> SUBSET AlertType]
      /\ OncePerFinding' /\ AdriftIsNotOut'
      /\ \A k \in Sinks : Range(out'[k]) \cup adrift'[k]
                          \subseteq Range(out[k]) \cup adrift[k] \cup {Alert(t, checked[t])}
      /\ \A k \in Sinks : Range(out[k]) \cup adrift[k] \subseteq Range(out'[k]) \cup adrift'[k]
  <2>1. CASE UNCHANGED sent
    BY <1>1, <2>1 DEF Inv, OncePerFinding, AdriftIsNotOut, IsWebhook, TypeOK, sent
  <2>2. CASE GiveUp(t) /\ waiting[t]
    <3>1. Leaves(t)
      BY <1>1, <2>2 DEF Leaves, LoopsInRange
    <3>2. UNCHANGED <<out, missed>> /\ turn[t] \in Sinks
      BY <1>1, <2>2, InHand DEF GiveUp
    <3>3. \A k \in Sinks :
            adrift'[k] = IF k = turn[t] THEN adrift[k] \cup {Alert(t, checked[t])} ELSE adrift[k]
      BY <1>1, <2>2 DEF GiveUp, TypeOK
    <3>4. /\ out' \in [Sinks -> Seq(AlertType)]
          /\ {adrift, late, missed}' \subseteq [Sinks -> SUBSET AlertType]
          /\ OncePerFinding' /\ AdriftIsNotOut'
      BY <1>1, <3>1, LeavesKeeps
    <3> QED  BY <3>2, <3>3, <3>4
  <2> QED  BY <2>1, <2>2 DEF Interrupt
<1>3. \A u \in Threads, k \in Sinks : Settled(u, k)' = IF u = t THEN Due(t) ELSE Settled(u, k)
  BY <1>1, InterruptSettles
<1>4. Len(handed[t]) \in Nat
  BY <1>1, HandedShape
<1>5. TypeOK'
  BY <1>1, <1>2, <1>4 DEF TypeOK
<1>6. LoopsInRange'
  <2>1. \A event : CallsForAlert(event)' = CallsForAlert(event)
    BY DEF CallsForAlert
  <2>2. /\ checked'[t] = Len(handed[t]) /\ turn'[t] = 0 /\ ~ waiting'[t]
        /\ \A u \in Threads \ {t} : /\ checked'[u] = checked[u] /\ turn'[u] = turn[u]
                                    /\ waiting'[u] = waiting[u]
    BY <1>1 DEF TypeOK
  <2> QED  BY <1>1, <1>4, <2>1, <2>2, SinkNumbers DEF LoopsInRange, IsWebhook
<1>7. \A k \in Sinks, a \in Due(t) : a.by = t
  BY DEF Due, Alert
<1>8. OutIsSettled'
  <2> SUFFICES ASSUME NEW k \in Sinks, NEW a \in Range(out'[k]) \cup adrift'[k] \cup missed[k]
               PROVE  a \in Settled(a.by, k)'
    BY <1>1 DEF OutIsSettled
  <2>1. CASE a = Alert(t, checked[t])
    BY <1>1, <1>3, <2>1, InHand
  <2>2. CASE a \in Range(out[k]) \cup adrift[k] \cup missed[k]
    <3>1. a \in Settled(a.by, k) /\ a.by \in Threads
      BY <1>1, <2>2, RecordedTypes DEF Inv, OutIsSettled, AlertType
    <3>2. Settled(t, k) \subseteq Due(t)
      BY DEF Settled
    <3> QED  BY <1>3, <3>1, <3>2
  <2> QED  BY <1>2, <2>1, <2>2
<1>9. SettledIsOut'
  <2> SUFFICES ASSUME NEW u \in Threads \ (cut \cup {t}), NEW k \in Sinks
               PROVE  {a \in Range(out'[k]) \cup adrift'[k] : a.by = u} = Settled(u, k)' \ missed[k]
    BY <1>1 DEF SettledIsOut
  <2>1. {a \in Range(out[k]) \cup adrift[k] : a.by = u} = Settled(u, k) \ missed[k]
    BY DEF Inv, SettledIsOut
  <2>2. Alert(t, checked[t]).by = t
    BY <1>1, InHand
  <2> QED  BY <1>2, <1>3, <2>1, <2>2
<1> QED  BY <1>2, <1>5, <1>6, <1>8, <1>9 DEF Inv

\* A request that was given up arrives: what is adrift becomes late.
LEMMA TakenLatePreserves ==
  ASSUME Inv, NEW k \in Sinks, TakenLate(k)
  PROVE  Inv'
<1>1. PICK e \in adrift[k] :
        /\ out' = [out EXCEPT ![k] = Append(@, e)]
        /\ adrift' = [adrift EXCEPT ![k] = @ \ {e}]
        /\ late' = [late EXCEPT ![k] = @ \cup {e}]
  BY DEF TakenLate
<1>2. /\ TypeOK /\ LoopsInRange /\ OutIsSettled /\ AdriftIsNotOut /\ OncePerFinding
      /\ UNCHANGED <<handed, checked, turn, waiting, missed, cut>>
  BY DEF Inv, TakenLate
<1>3. /\ e \in AlertType /\ IsWebhook(k) /\ e \notin Range(out[k])
      /\ {adrift, late, missed} \subseteq [Sinks -> SUBSET AlertType]
  BY <1>2, RecordedTypes DEF AdriftIsNotOut, TypeOK
<1>4. /\ adrift' \in [Sinks -> SUBSET AlertType] /\ late' \in [Sinks -> SUBSET AlertType]
      /\ \A q \in Sinks : /\ adrift'[q] = IF q = k THEN adrift[q] \ {e} ELSE adrift[q]
                          /\ late[q] \subseteq late'[q]
      /\ e \in late'[k]
  BY <1>1, <1>3
<1>5. \A a \in Range(out[k]) :
        a.by = e.by => a.n < e.n \/ (a.n > e.n /\ IsWebhook(k) /\ e \in late'[k])
  <2> SUFFICES ASSUME NEW a \in Range(out[k]), a.by = e.by
               PROVE  a.n < e.n \/ a.n > e.n
    BY <1>3, <1>4
  <2>1. a.n \in Nat /\ e.n \in Nat
    BY <1>2, <1>3, RecordedTypes DEF AlertType
  <2>2. a.n # e.n
    BY <1>2, <1>3, NumbersTellAlerts
  <2> QED  BY <2>1, <2>2
<1>6. /\ out' \in [Sinks -> Seq(AlertType)] /\ OncePerFinding'
      /\ \A q \in Sinks : Range(out'[q]) = IF q = k THEN Range(out[q]) \cup {e} ELSE Range(out[q])
  BY <1>1, <1>2, <1>3, <1>4, <1>5, AppendKeeps
<1>7. TypeOK'
  BY <1>2, <1>3, <1>4, <1>6 DEF TypeOK
<1>8. LoopsInRange'
  BY <1>2 DEF LoopsInRange, CallsForAlert, IsWebhook
<1>9. \A q \in Sinks : Range(out'[q]) \cup adrift'[q] = Range(out[q]) \cup adrift[q]
  BY <1>1, <1>4, <1>6
<1>10. \A u \in Threads, q \in Sinks : Settled(u, q)' = Settled(u, q)
  BY <1>2, SameSettled
<1>11. OutIsSettled'
  <2> SUFFICES ASSUME NEW q \in Sinks, NEW a \in Range(out[q]) \cup adrift[q] \cup missed[q]
               PROVE  a \in Settled(a.by, q)'
    BY <1>2, <1>9 DEF OutIsSettled
  <2>1. a \in Settled(a.by, q) /\ a.by \in Threads
    BY <1>2, RecordedTypes DEF OutIsSettled, AlertType
  <2> QED  BY <1>10, <2>1
<1>12. AdriftIsNotOut'
  BY <1>2, <1>3, <1>4, <1>6 DEF AdriftIsNotOut, IsWebhook
<1>13. SettledIsOut'
  BY <1>2, <1>9, <1>10 DEF Inv, SettledIsOut
<1> QED  BY <1>6, <1>7, <1>8, <1>11, <1>12, <1>13 DEF Inv

\* Every step preserves the invariant.
LEMMA NextInv == Inv /\ [Next]_vars => Inv'
<1> SUFFICES ASSUME Inv, [Next]_vars PROVE Inv'
  OBVIOUS
<1>1. TypeOK /\ LoopsInRange
  BY DEF Inv
<1>2. ASSUME NEW t \in Threads, Write(t) \/ Raise(t)
      PROVE  Inv'
  <2>1. waiting' = [waiting EXCEPT ![t] = FALSE]
    BY <1>1, <1>2 DEF Write, Raise, Calling, TypeOK
  <2> QED  BY <1>2, <2>1, ProceedPreserves DEF Write, Raise, Calling, Leaves
<1>3. ASSUME NEW t \in Threads, Answered(t) \/ TimesOut(t)
      PROVE  Inv'
  <2>1. turn[t] # 0 /\ IsWebhook(turn[t])
    BY <1>1, <1>3 DEF Answered, TimesOut, LoopsInRange
  <2> QED  BY <1>3, <2>1, ProceedPreserves DEF Answered, TimesOut, Leaves
<1>4. CASE UNCHANGED vars
  <2>1. UNCHANGED <<handed, checked, turn, waiting, out, adrift, late, missed, cut>>
    BY <1>4 DEF vars, sent
  <2>2. TypeOK' /\ LoopsInRange'
    BY <1>1, <2>1 DEF TypeOK, LoopsInRange, CallsForAlert, IsWebhook
  <2>3. \A u \in Threads, k \in Sinks : Settled(u, k)' = Settled(u, k)
    BY <2>1, SameSettled
  <2> QED  BY <2>1, <2>2, <2>3, QuietPreserves
<1> QED  BY <1>2, <1>3, <1>4, ReportPreserves, CheckPreserves, SendPreserves, InterruptPreserves,
         TakenLatePreserves DEF Next, Work

\* The invariant holds in every reachable state.
LEMMA Invariance == Spec => []Inv
BY InitInv, NextInv, PTL DEF Spec

\* For any number of threads, sinks, rules and failures: no sink gets an alert twice,
\* and two alerts of a thread out of order only from a request that was given up on.
THEOREM AlertsComeOnceInOrder == Spec => []OncePerFinding
BY Invariance, PTL DEF Inv

\* When a thread's calls have returned, a sink has or may yet get exactly the thread's
\* alerts that are due, but for those it failed to deliver.
THEOREM SinksGetWhatIsDue == Spec => []SinkExact
<1>1. Inv => SinkExact
  <2> SUFFICES ASSUME Inv, NEW t \in Threads \ cut, NEW k \in Sinks, Idle(t)
               PROVE  {a \in Range(out[k]) \cup adrift[k] : a.by = t} = Due(t) \ missed[k]
    BY DEF SinkExact
  <2>1. TypeOK /\ checked[t] = Len(handed[t]) /\ turn[t] = 0
    BY DEF Inv, Idle
  <2>2. \A a \in Due(t) : a.n \in 1 .. Len(handed[t])
    BY <2>1, HandedShape DEF Due, Alert
  <2>3. Settled(t, k) = Due(t)
    BY <2>1, <2>2, HandedShape, SinkNumbers DEF Settled
  <2> QED  BY <2>3 DEF Inv, SettledIsOut
<1> QED  BY <1>1, Invariance, PTL
-----------------------------------------------------------------------------
(* The manager implements AlertLog. *)

DueOf == [t \in Threads |-> Due(t)]
SettledOf == [t \in Threads |-> [k \in Sinks |-> Settled(t, k)]]

\* The alert in hand is the next one due at the sink of the turn.
LEMMA InHandIsNext ==
  ASSUME Inv, NEW t \in Threads, turn[t] # 0
  PROVE  /\ turn[t] \in Sinks /\ Alert(t, checked[t]) \in Due(t)
         /\ Log!IsNext(Alert(t, checked[t]), t, turn[t])
<1> DEFINE q == turn[t]
           e == Alert(t, checked[t])
<1>1. /\ TypeOK /\ q \in Sinks /\ e \in Due(t) /\ e.n = checked[t] /\ checked[t] \in Nat
  BY InHand DEF Inv, TypeOK
<1>2. e \notin Settled(t, q)
  <2>1. q \in 1 .. q
    BY <1>1, SinkNumbers
  <2> QED  BY <1>1, <2>1 DEF Settled
<1>3. \A b \in Due(t) \ Settled(t, q) : e.n <= b.n
  <2>1. \A b \in Due(t) : b.n \in Nat
    BY <1>1, HandedShape DEF Due, Alert
  <2> QED  BY <1>1, <2>1 DEF Settled
<1>4. DueOf[t] = Due(t) /\ SettledOf[t][q] = Settled(t, q)
  BY <1>1 DEF DueOf, SettledOf
<1> QED  BY <1>1, <1>2, <1>3, <1>4 DEF Log!IsNext, DueOf, SettledOf

\* A sink done with the alert in hand has settled it.
LEMMA ProceedIsSettle ==
  ASSUME Inv, NEW t \in Threads, turn[t] # 0, Proceed(t), UNCHANGED <<handed, checked>>,
         Leaves(t)
  PROVE  Log!Settle(t, turn[t])
<1> DEFINE q == turn[t]
           e == Alert(t, checked[t])
<1>1. TypeOK /\ LoopsInRange
  BY DEF Inv
<1>2. q \in Sinks /\ e \in Due(t) /\ Log!IsNext(e, t, q)
  BY InHandIsNext
<1>3. \A u \in Threads, k \in Sinks :
        Settled(u, k)' = IF u = t /\ k = q THEN Settled(u, k) \cup {e} ELSE Settled(u, k)
  BY <1>1, ProceedSettles
<1>4. DueOf' = DueOf
  BY SameDue DEF DueOf
<1>5. SettledOf' = [SettledOf EXCEPT ![t][q] = @ \cup {e}]
  BY <1>2, <1>3 DEF SettledOf
<1>6. \/ Log!Got(e, q) /\ UNCHANGED adrift
      \/ Log!LetGo(e, q) /\ UNCHANGED out
      \/ UNCHANGED <<out, adrift>>
  BY <1>2 DEF Leaves, Deliver, GiveUp, Miss, sent, Log!Got, Log!LetGo
<1>7. DueOf[t] = Due(t)
  BY DEF DueOf
<1> QED  BY <1>2, <1>4, <1>5, <1>6, <1>7 DEF Log!Settle, DueOf, SettledOf

\* An interrupt drops what is due, but for the alert on its way.
LEMMA InterruptIsAbandon ==
  ASSUME Inv, NEW t \in Threads, Interrupt(t)
  PROVE  Log!Abandon(t)
<1>1. TypeOK /\ LoopsInRange /\ turn[t] # 0 /\ UNCHANGED handed /\ t = MainThread
  BY DEF Inv, Interrupt
<1>2. \A u \in Threads, k \in Sinks : Settled(u, k)' = IF u = t THEN Due(t) ELSE Settled(u, k)
  BY <1>1, InterruptSettles
<1>3. DueOf' = DueOf /\ DueOf[t] = Due(t)
  BY <1>1, SameDue DEF DueOf
<1>4. SettledOf' = [SettledOf EXCEPT ![t] = [k \in Sinks |-> DueOf[t]]]
  BY <1>2, <1>3 DEF SettledOf
<1>5. /\ \/ \E k \in Sinks, a \in DueOf[t] : Log!IsNext(a, t, k) /\ Log!LetGo(a, k)
         \/ UNCHANGED adrift
      /\ UNCHANGED out
  <2>1. CASE waiting[t] /\ GiveUp(t)
    <3>1. IsWebhook(turn[t])
      BY <1>1, <2>1 DEF LoopsInRange
    <3>2. /\ turn[t] \in Sinks /\ Alert(t, checked[t]) \in DueOf[t]
          /\ Log!IsNext(Alert(t, checked[t]), t, turn[t])
      BY <1>1, <1>3, InHandIsNext
    <3>3. Log!LetGo(Alert(t, checked[t]), turn[t]) /\ UNCHANGED out
      BY <2>1, <3>1, <3>2 DEF GiveUp, Log!LetGo
    <3> QED  BY <3>2, <3>3
  <2>2. CASE UNCHANGED sent
    BY <2>2 DEF sent
  <2> QED  BY <2>1, <2>2 DEF Interrupt
<1> QED  BY <1>1, <1>3, <1>4, <1>5 DEF Log!Abandon, DueOf, SettledOf

\* New findings publish the alerts they call for, if they do.
LEMMA ReportIsPublish ==
  ASSUME Inv, NEW t \in Threads, NEW report \in Reports, Report(t, report)
  PROVE  Log!Publish(t) \/ UNCHANGED <<DueOf, SettledOf, out, adrift>>
<1>1. TypeOK /\ LoopsInRange /\ UNCHANGED <<out, adrift>>
  BY DEF Inv, Report, sent
<1>2. /\ handed' \in [Threads -> Seq(SecurityEvent)]
      /\ \A u \in Threads \ {t} : handed'[u] = handed[u]
      /\ Due(t) \subseteq Due(t)'
      /\ \A a \in Due(t)' \ Due(t) : a.n \in Nat /\ a.n > Len(handed[t])
      /\ \A k \in Sinks : Settled(t, k) = Due(t)
      /\ \A u \in Threads, k \in Sinks : Settled(u, k)' = Settled(u, k)
  BY <1>1, ReportSettles
<1>3. SettledOf' = SettledOf
  BY <1>2 DEF SettledOf
<1>4. DueOf' = [DueOf EXCEPT ![t] = DueOf'[t]] /\ DueOf[t] = Due(t) /\ DueOf'[t] = Due(t)'
  <2>1. \A u \in Threads \ {t} : Due(u)' = Due(u)
    BY <1>2 DEF Due, Alert
  <2> QED  BY <2>1 DEF DueOf
<1>5. \A k \in Sinks : SettledOf[t][k] = DueOf[t]
  BY <1>2 DEF SettledOf, DueOf
<1>6. \A a \in DueOf'[t] \ DueOf[t], b \in DueOf'[t] : a = b \/ a.n < b.n \/ b.n < a.n
  <2>1. \A n \in DOMAIN handed'[t] : n \in Nat
    BY <1>2
  <2>2. \A a, b \in Due(t)' : a.n \in Nat /\ b.n \in Nat /\ (a.n = b.n => a = b)
    BY <2>1 DEF Due, Alert
  <2> QED  BY <1>4, <2>2
<1>7. \A a \in DueOf'[t] \ DueOf[t], b \in DueOf[t] : b.n < a.n
  <2>1. \A b \in Due(t) : b.n \in 1 .. Len(handed[t])
    BY <1>1, HandedShape DEF Due, Alert
  <2>2. Len(handed[t]) \in Nat
    BY <1>1, HandedShape
  <2> QED  BY <1>2, <1>4, <2>1, <2>2
<1>8. DueOf[t] \subseteq DueOf'[t]
  BY <1>2, <1>4
<1> QED  BY <1>1, <1>3, <1>4, <1>5, <1>6, <1>7, <1>8 DEF Log!Publish, DueOf, SettledOf

\* Every step of the manager is a step of the log, or shows nothing there.
LEMMA StepImplements ==
  Inv /\ [Next]_vars => [Log!Next]_(Log!vars)
<1> SUFFICES ASSUME Inv, [Next]_vars
             PROVE  Log!Next \/ UNCHANGED <<DueOf, SettledOf, out, adrift>>
  BY DEF Log!vars, DueOf, SettledOf
<1>1. TypeOK /\ LoopsInRange
  BY DEF Inv
<1>2. ASSUME NEW t \in Threads, NEW report \in Reports, Report(t, report)
      PROVE  Log!Publish(t) \/ UNCHANGED <<DueOf, SettledOf, out, adrift>>
  BY <1>2, ReportIsPublish
<1>3. ASSUME NEW t \in Threads, Check(t)
      PROVE  UNCHANGED <<DueOf, SettledOf, out, adrift>>
  BY <1>1, <1>3, CheckSettles, SameDue DEF Check, DueOf, SettledOf, sent
<1>4. ASSUME NEW t \in Threads, Send(t)
      PROVE  UNCHANGED <<DueOf, SettledOf, out, adrift>>
  BY <1>4, SameSettled, SameDue DEF Send, DueOf, SettledOf, sent
<1>5. ASSUME NEW t \in Threads, Write(t) \/ Raise(t) \/ Answered(t) \/ TimesOut(t)
      PROVE  turn[t] \in Sinks /\ Log!Settle(t, turn[t])
  <2>1. turn[t] # 0 /\ (waiting[t] => IsWebhook(turn[t]))
    BY <1>1, <1>5 DEF Write, Raise, Calling, Answered, TimesOut, LoopsInRange
  <2>2. turn[t] \in Sinks
    BY <2>1, InHandIsNext
  <2> QED  BY <1>5, <2>1, <2>2, ProceedIsSettle DEF Write, Raise, Answered, TimesOut, Leaves
<1>6. ASSUME NEW t \in Threads, Interrupt(t)
      PROVE  Log!Abandon(t)
  BY <1>6, InterruptIsAbandon
<1>7. CASE UNCHANGED vars
  BY <1>7, SameSettled, SameDue DEF vars, DueOf, SettledOf, sent
<1>8. ASSUME NEW k \in Sinks, TakenLate(k)
      PROVE  Log!Arrive(k)
  <2>1. UNCHANGED <<DueOf, SettledOf>>
    BY <1>8, SameSettled, SameDue DEF TakenLate, DueOf, SettledOf
  <2> QED  BY <1>8, <2>1 DEF TakenLate, Log!Arrive, Log!Got, DueOf, SettledOf
<1> QED  BY <1>2, <1>3, <1>4, <1>5, <1>6, <1>7, <1>8 DEF Next, Work, Log!Next

\* Whatever sinks, servers and threads do, the logs of the sinks are a behaviour of
\* AlertLog (but for its fairness): alerts are settled one after the other, once, and
\* one that is let go of at a webhook arrives later, once, or never.
THEOREM ManagerKeepsTheLog == Spec => LogSteps
<1>1. Init => Log!Init
  <2> SUFFICES ASSUME Init PROVE Log!Init
    OBVIOUS
  <2>1. \A t \in Threads : Due(t) = {}
    BY DEF Init, Due
  <2> QED  BY <2>1 DEF Init, Settled, Log!Init
<1> QED  BY <1>1, Invariance, StepImplements, PTL DEF Spec, LogSteps
=============================================================================
