------------------------------ MODULE Alerting ------------------------------
(***************************************************************************)
(* AlertManager and its sinks (alerting.py), called by the pipeline as     *)
(* on_events in the thread that scans.  The manager holds no lock and      *)
(* keeps no state of its own: threads meet in the sinks only.  A sink is   *)
(* named by its place in the manager's sequence.                           *)
(***************************************************************************)
EXTENDS Schema, Functions

CONSTANTS
  Threads,     \* threads of the host that scan
  MainThread,  \* the one that gets a KeyboardInterrupt
  Reports,     \* the lists of findings the pipeline may hand on
  Rules,       \* the rules of the manager
  SinkKinds,   \* the sinks of the manager, in order
  MaxHanded    \* bound on the findings handed to the calls of each thread

\* types=None, which matches every type, is the set of all of them.
AlertRule == [floor : Severity, types : SUBSET EventType]
SinkKind == {"stdout", "stream", "file", "webhook", "custom"}

\* The pipeline calls on_events only when there are findings (pipeline.py:83).
ASSUME AlertingAssumption ==
  /\ MainThread \in Threads
  /\ Reports \subseteq Seq(SecurityEvent) \ {<<>>}
  /\ Rules \subseteq AlertRule
  /\ SinkKinds \in Seq(SinkKind)
  /\ MaxHanded \in [Threads -> Nat]

VARIABLES
  handed,    \* the findings handed on by the calls of a thread
  checked,   \* how many of them the thread has matched against the rules
  turn,      \* the sink that is dispatched to, 0 outside of _dispatch
  waiting,   \* the thread waits for the answer to its POST
  out,       \* the alerts each sink wrote, or the server received
  adrift,    \* requests the client gave up on that the server has not taken
  late,      \* history: the alerts that a server took from those
  missed,    \* history: the alerts a sink failed to deliver
  cut        \* history: threads whose call was interrupted

sent == <<out, adrift, late>>
vars == <<handed, checked, turn, waiting, sent, missed, cut>>

Sinks == DOMAIN SinkKinds

Init ==
  /\ handed = [t \in Threads |-> <<>>]
  /\ checked = [t \in Threads |-> 0]
  /\ turn = [t \in Threads |-> 0]
  /\ waiting = [t \in Threads |-> FALSE]
  /\ out = [k \in Sinks |-> <<>>]
  /\ adrift = [k \in Sinks |-> {}]
  /\ late = [k \in Sinks |-> {}]
  /\ missed = [k \in Sinks |-> {}]
  /\ cut = {}

-----------------------------------------------------------------------------
(* The rules. *)

\* Mutant: only a finding above the minimum severity matches.
MatchesAbove(rule, event) ==
  /\ event.severity > rule.floor
  /\ event.type \in rule.types

\* AlertRule.matches; the rank of a severity is the number itself.
Matches(rule, event) ==
  /\ event.severity >= rule.floor
  /\ event.type \in rule.types

Fires(event) == \E rule \in Rules : Matches(rule, event)

-----------------------------------------------------------------------------
(* A call of the manager. *)

AlertType == [by : Threads, n : Nat, event : SecurityEvent]
Alert(t, n) == [by |-> t, n |-> n, event |-> handed[t][n]]

Idle(t) == checked[t] = Len(handed[t]) /\ turn[t] = 0

\* The pipeline reports the findings of a scan.
Report(t, report) ==
  /\ Idle(t)
  /\ Len(handed[t]) + Len(report) <= MaxHanded[t]
  /\ handed' = [handed EXCEPT ![t] = @ \o report]
  /\ UNCHANGED <<checked, turn, waiting, sent, missed, cut>>

\* The next finding of the call; it is dispatched if a rule matches.
Check(t) ==
  /\ turn[t] = 0
  /\ checked[t] < Len(handed[t])
  /\ checked' = [checked EXCEPT ![t] = @ + 1]
  /\ turn' = [turn EXCEPT ![t] =
                IF Fires(handed[t][checked[t] + 1]) /\ Sinks # {} THEN 1 ELSE 0]
  /\ UNCHANGED <<handed, waiting, sent, missed, cut>>

NextSink(k) == IF k = Len(SinkKinds) THEN 0 ELSE k + 1

Proceed(t) == turn' = [turn EXCEPT ![t] = NextSink(@)]

Deliver(t) ==
  /\ out' = [out EXCEPT ![turn[t]] = Append(@, Alert(t, checked[t]))]
  /\ UNCHANGED <<adrift, late>>

Miss(t) ==
  /\ missed' = [missed EXCEPT ![turn[t]] = @ \cup {Alert(t, checked[t])}]
  /\ UNCHANGED sent

\* urlopen closes its socket; that does not call the request back.
GiveUp(t) ==
  /\ adrift' = [adrift EXCEPT ![turn[t]] = @ \cup {Alert(t, checked[t])}]
  /\ UNCHANGED <<out, late>>

Calling(t) == turn[t] # 0 /\ ~ waiting[t]
IsWebhook(k) == SinkKinds[k] = "webhook"

\* A local sink prints or appends its line.
Write(t) ==
  /\ Calling(t) /\ ~ IsWebhook(turn[t])
  /\ Deliver(t)
  /\ Proceed(t)
  /\ UNCHANGED <<handed, checked, waiting, missed, cut>>

\* Mutant: an exception of a sink leaves _dispatch.
RaiseThrough(t) ==
  /\ Calling(t)
  /\ Miss(t)
  /\ turn' = [turn EXCEPT ![t] = 0]
  /\ UNCHANGED <<handed, checked, waiting, cut>>

\* Any sink raises, or the webhook cannot connect: a warning is logged.
Raise(t) ==
  /\ Calling(t)
  /\ Miss(t)
  /\ Proceed(t)
  /\ UNCHANGED <<handed, checked, waiting, cut>>

\* The webhook's request is on its way.
Send(t) ==
  /\ Calling(t) /\ IsWebhook(turn[t])
  /\ waiting' = [waiting EXCEPT ![t] = TRUE]
  /\ UNCHANGED <<handed, checked, turn, sent, missed, cut>>

\* The server takes the alert and answers in time.
Answered(t) ==
  /\ waiting[t]
  /\ waiting' = [waiting EXCEPT ![t] = FALSE]
  /\ Deliver(t)
  /\ Proceed(t)
  /\ UNCHANGED <<handed, checked, missed, cut>>

\* Mutant: a request that timed out is sent again.
TimesOutRetried(t) ==
  /\ waiting[t]
  /\ waiting' = [waiting EXCEPT ![t] = FALSE]
  /\ GiveUp(t)
  /\ UNCHANGED <<handed, checked, turn, missed, cut>>

\* No answer within the timeout, or none that says all is well: a warning is logged.
\* The server may have taken the alert by then, may take it later or never.
TimesOut(t) ==
  /\ waiting[t]
  /\ waiting' = [waiting EXCEPT ![t] = FALSE]
  /\ GiveUp(t)
  /\ Proceed(t)
  /\ UNCHANGED <<handed, checked, missed, cut>>

\* A server takes a request nobody waits for any more: before the thread goes on or
\* long after, when it has other alerts of the thread already.
TakenLate(k) ==
  \E alert \in adrift[k] :
    /\ out' = [out EXCEPT ![k] = Append(@, alert)]
    /\ adrift' = [adrift EXCEPT ![k] = @ \ {alert}]
    /\ late' = [late EXCEPT ![k] = @ \cup {alert}]
    /\ UNCHANGED <<handed, checked, turn, waiting, missed, cut>>

\* A KeyboardInterrupt while a sink runs: no except clause up to the host
\* catches it, and the rest of the call does not happen.
Interrupt(t) ==
  /\ t = MainThread
  /\ turn[t] # 0
  /\ checked' = [checked EXCEPT ![t] = Len(handed[t])]
  /\ turn' = [turn EXCEPT ![t] = 0]
  /\ waiting' = [waiting EXCEPT ![t] = FALSE]
  /\ IF waiting[t] THEN GiveUp(t) ELSE UNCHANGED sent
  /\ cut' = cut \cup {t}
  /\ UNCHANGED <<handed, missed>>

Work(t) == Check(t) \/ Write(t) \/ Raise(t) \/ Send(t) \/ Answered(t) \/ TimesOut(t)

Next ==
  \/ \E t \in Threads :
       \/ \E report \in Reports : Report(t, report)
       \/ Work(t)
       \/ Interrupt(t)
  \/ \E k \in Sinks : TakenLate(k)

\* A thread of the host runs on until its call is over, and urlopen gives up
\* after its timeout; custom sinks are taken to return.  Nothing is promised of
\* requests that were given up.
Spec == Init /\ [][Next]_vars /\ \A t \in Threads : WF_vars(Work(t))

-----------------------------------------------------------------------------
(* Properties. *)

\* Whether docs/alerting.md:34-35 calls for an alert about an event.
CallsForAlert(event) ==
  \E rule \in Rules : event.severity \in rule.floor .. CRITICAL /\ event.type \in rule.types

\* The alerts that the findings of thread t call for.
Due(t) == {Alert(t, n) : n \in {m \in DOMAIN handed[t] : CallsForAlert(handed[t][m])}}

\* Those of them that sink k is done with.
Settled(t, k) ==
  {a \in Due(t) : \/ a.n < checked[t]
                  \/ a.n = checked[t] /\ turn[t] \notin 1 .. k}

\* The manager implements the log of AlertLog: each alert that the documented rules
\* call for is settled at every sink once, in order and in the end, whatever sinks,
\* servers and other threads do; a request that was given up may still arrive, once
\* and at any time, and only an interrupt drops what is still due.
Log == INSTANCE AlertLog WITH
  Sinks <- Sinks,
  Remote <- {k \in Sinks : IsWebhook(k)},
  due <- [t \in Threads |-> Due(t)],
  settled <- [t \in Threads |-> [k \in Sinks |-> Settled(t, k)]],
  log <- out
LogSpec == Log!Spec

\* The part of it that concerns single steps.
LogSteps == Log!Init /\ [][Log!Next]_(Log!vars)

\* When a thread's calls have returned, every alert they called for has reached every
\* sink, or is on its way to one whose server did not answer in time, except for those
\* the sink itself failed to deliver, and a sink has nothing else: "a failing sink
\* never blocks the others" (docs/alerting.md:48), whatever other threads did in
\* between.
SinkExact ==
  \A t \in Threads \ cut, k \in Sinks :
    Idle(t) => {a \in Range(out[k]) \cup adrift[k] : a.by = t} = Due(t) \ missed[k]

\* A finding is dispatched "once even if several rules match it"
\* (docs/alerting.md:37), and after those found before it: no sink has an alert
\* twice, and two alerts of a thread are out of order at a webhook only, if the
\* request of the second was given up on and its server took it late.
OncePerFinding ==
  \A k \in Sinks : \A i, j \in DOMAIN out[k] :
    i < j /\ out[k][i].by = out[k][j].by =>
      \/ out[k][i].n < out[k][j].n
      \/ out[k][i].n > out[k][j].n /\ IsWebhook(k) /\ out[k][j] \in late[k]

\* "Alerting must not take the app down" (docs/alerting.md:49): the scan that
\* reports findings goes on in the end, however often sinks fail and servers
\* do not answer.
ReportsReturn == \A t \in Threads : ~ Idle(t) ~> Idle(t)

-----------------------------------------------------------------------------
(* The inductive invariant behind the theorems of AlertingProofs. *)

\* Findings handed on, and the places of the two loops in them and in the sinks.
TypeOK ==
  /\ handed \in [Threads -> Seq(SecurityEvent)]
  /\ checked \in [Threads -> Nat]
  /\ turn \in [Threads -> Nat]
  /\ waiting \in [Threads -> BOOLEAN]
  /\ out \in [Sinks -> Seq(AlertType)]
  /\ {adrift, late, missed} \subseteq [Sinks -> SUBSET AlertType]
  /\ cut \subseteq Threads

\* A thread inside _dispatch has an alert in hand that is due.
LoopsInRange ==
  \A t \in Threads :
    /\ checked[t] <= Len(handed[t]) /\ turn[t] <= Len(SinkKinds)
    /\ turn[t] # 0 => /\ checked[t] \in DOMAIN handed[t]
                      /\ CallsForAlert(handed[t][checked[t]])
    /\ waiting[t] => turn[t] # 0 /\ IsWebhook(turn[t])

\* A sink is sent nothing but alerts it is done with, and has failed at no others.
OutIsSettled ==
  \A k \in Sinks :
    \A a \in Range(out[k]) \cup adrift[k] \cup missed[k] : a \in Settled(a.by, k)

\* Requests adrift are those of webhooks, and not among what the server has taken.
AdriftIsNotOut ==
  \A k \in Sinks : /\ adrift[k] # {} => IsWebhook(k)
                   /\ adrift[k] \cap Range(out[k]) = {}

\* SinkExact, also in the midst of a call.
SettledIsOut ==
  \A t \in Threads \ cut, k \in Sinks :
    {a \in Range(out[k]) \cup adrift[k] : a.by = t} = Settled(t, k) \ missed[k]

Inv ==
  /\ TypeOK /\ LoopsInRange
  /\ OutIsSettled /\ AdriftIsNotOut /\ SettledIsOut /\ OncePerFinding
=============================================================================
