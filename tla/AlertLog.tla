------------------------------ MODULE AlertLog ------------------------------
(***************************************************************************)
(* What docs/alerting.md promises of alerts, without rules, sinks and      *)
(* servers: every sink keeps a log, the alerts that a thread's findings    *)
(* call for are due at every sink, and each is settled there once and in   *)
(* order - in the log or, if the sink failed, not.  A sink behind a        *)
(* network may also leave it adrift, to arrive at any later time or never. *)
(* An alert has the number of its finding among those of the thread.       *)
(***************************************************************************)
EXTENDS Integers, Sequences

CONSTANTS
  Threads,
  MainThread,  \* the one whose calls may be interrupted
  Sinks,
  Remote       \* those behind a network

VARIABLES
  due,      \* the alerts of each thread
  settled,  \* those of them each sink is done with, per thread
  log,      \* what each sink has got, of all threads
  adrift    \* what each sink may get yet of what is settled there

vars == <<due, settled, log, adrift>>

Init ==
  /\ due = [t \in Threads |-> {}]
  /\ settled = [t \in Threads |-> [k \in Sinks |-> {}]]
  /\ log = [k \in Sinks |-> <<>>]
  /\ adrift = [k \in Sinks |-> {}]

\* A scan of thread t has findings that call for alerts; they come after those
\* before.
Publish(t) ==
  /\ \A k \in Sinks : settled[t][k] = due[t]
  /\ due[t] \subseteq due'[t]
  /\ \A a \in due'[t] \ due[t], b \in due'[t] : a = b \/ a.n < b.n \/ b.n < a.n
  /\ \A a \in due'[t] \ due[t], b \in due[t] : b.n < a.n
  /\ due' = [due EXCEPT ![t] = due'[t]]
  /\ UNCHANGED <<settled, log, adrift>>

\* The alert of thread t that is next at sink k.
IsNext(a, t, k) ==
  a \in due[t] \ settled[t][k] /\ \A b \in due[t] \ settled[t][k] : a.n <= b.n

Got(a, k) == log' = [log EXCEPT ![k] = Append(@, a)]

\* Nobody will say whether sink k gets the alert.
LetGo(a, k) ==
  /\ k \in Remote
  /\ adrift' = [adrift EXCEPT ![k] = @ \cup {a}]

\* The next alert of t reaches the log of sink k, or is let go, or the sink fails.
Settle(t, k) ==
  /\ \E a \in due[t] :
       /\ IsNext(a, t, k)
       /\ settled' = [settled EXCEPT ![t][k] = @ \cup {a}]
       /\ \/ Got(a, k) /\ UNCHANGED adrift
          \/ LetGo(a, k) /\ UNCHANGED log
          \/ UNCHANGED <<log, adrift>>
  /\ UNCHANGED due

\* An interrupt: what is still due is dropped, but for an alert on its way.
Abandon(t) ==
  /\ t = MainThread
  /\ settled' = [settled EXCEPT ![t] = [k \in Sinks |-> due[t]]]
  /\ \/ \E k \in Sinks, a \in due[t] : IsNext(a, t, k) /\ LetGo(a, k)
     \/ UNCHANGED adrift
  /\ UNCHANGED <<due, log>>

\* An alert that was let go arrives after all.
Arrive(k) ==
  /\ \E a \in adrift[k] :
       /\ Got(a, k)
       /\ adrift' = [adrift EXCEPT ![k] = @ \ {a}]
  /\ UNCHANGED <<due, settled>>

Next ==
  \/ \E t \in Threads : Publish(t) \/ Abandon(t) \/ \E k \in Sinks : Settle(t, k)
  \/ \E k \in Sinks : Arrive(k)

\* Nothing stays due: neither a sink that fails nor a server that does not answer
\* keeps the other sinks waiting for ever.
Spec ==
  /\ Init /\ [][Next]_vars
  /\ \A t \in Threads, k \in Sinks : WF_vars(Settle(t, k))
=============================================================================
