----------------------------- MODULE MCAlerting -----------------------------
(* An instance of Alerting for TLC. *)
EXTENDS Alerting, TLC

CONSTANTS main, other

\* Two alerts of a thread may overtake each other, between those of another.
FindingsOf == (main :> 2) @@ (other :> 1)

Event(type, severity) == [type |-> type, severity |-> severity, rule |-> "content"]
HighSecret == Event("secret_leak", HIGH)
LowSecret == Event("secret_leak", LOW)
MediumPii == Event("pii_leak", MEDIUM)

\* A scan with a finding that both rules match, one that only the second does
\* and one that none does, in two orders.
SomeReports == {<<HighSecret>>, <<MediumPii, LowSecret>>, <<LowSecret, HighSecret>>}

\* The rules of docs/alerting.md:18.
DocumentedRules == {[floor |-> HIGH, types |-> EventType],
                    [floor |-> LOW, types |-> {"secret_leak"}]}

\* The slow sink before the fast one.
WebhookFirst == <<"webhook", "file">>
=============================================================================
