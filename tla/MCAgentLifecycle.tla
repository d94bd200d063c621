--------------------------- MODULE MCAgentLifecycle ---------------------------
\* A small instance of AgentLifecycle for TLC.
EXTENDS AgentLifecycle, TLC

\* A log by an Envoy stream, a metric by a call and a cluster event.
MCKindOf == ("l" :> "log") @@ ("m" :> "metric") @@ ("e" :> "event")
MCVia == ("l" :> "stream") @@ ("m" :> "metrics") @@ ("e" :> "informers")

CONSTANTS own, app, d1

MCNamespaceOf == d1 :> app

\* The rollout and the telemetry are looked at one at a time, since they meet
\* only in what the main goroutine does: either the agent is configured without
\* a rollout, or nothing calls it, its workers begin before the rollout, and
\* the users' changes are followed until the rollout ends.
NoRollout ==
    /\ config = [namespaces |-> FALSE, deployments |-> FALSE]
    /\ namespaces[app] # Absent /\ mesh # "inherited"
NoTraffic == (\A i \in Items : at[i] = "source") /\ (\A c \in Calls : call[c] = "none")
Begun == HasClientSet => \A w \in AllWorkers : worker[w] # "spawned"
Changed == \E n \in Namespaces : Exists(n) /\ namespaces[n].edit > 0
RolloutOrTraffic == NoRollout \/ (NoTraffic /\ Begun /\ (Destroyed => ~Changed))
=============================================================================
