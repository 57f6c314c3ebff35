---------------------------- MODULE ActuatorFaults -----------------------------
(***************************************************************************)
(* The way of a setting to the nodes when things fail: a message is        *)
(* dropped because the client has not started, or refused by the client    *)
(* (mqtt_publish ignores what esp_mqtt_client_publish returns), and the    *)
(* center restarts, which takes the settings, last_*, the outbox and the   *)
(* retained values of the embedded broker with it.  publish_state sends    *)
(* changes only, so none of this is repaired until the setting changes     *)
(* once more; the nodes, which are other devices, keep what they were told.*)
(***************************************************************************)
EXTENDS ActuatorPublish

CONSTANT MaxRestarts    \* bound: how often the center restarts

ASSUME RestartAssumption == MaxRestarts \in Nat

VARIABLES
    node,       \* what the nodes were last told, a restart notwithstanding
    restarts,
    lost        \* topics whose last change did not make it into the outbox,
                \* or that a restart left on; only the properties read it

fault_vars == <<node, restarts, lost>>
all_vars == <<actuator_vars, fault_vars>>

FaultsInit ==
    /\ ActuatorInit
    /\ node = [x \in Topic |-> "none"]
    /\ restarts = 0
    /\ lost = {}

\* The message of the topic t is at made it into the outbox, or did not.
Accepted(t) == lost' = lost \ {CurrentTopic(t)}
NotAccepted(t) == lost' = lost \cup {CurrentTopic(t)}

SendAccepted(t) ==
    /\ global_client
    /\ Send(t)
    /\ Accepted(t)
    /\ UNCHANGED <<node, restarts>>

SendDropped(t) ==
    /\ ~global_client
    /\ Send(t)
    /\ NotAccepted(t)
    /\ UNCHANGED <<node, restarts>>

\* esp_mqtt_client_publish returns -1 or -2: out of memory, outbox full.
SendRefused(t) ==
    /\ publish[t].stage = "send" /\ global_client
    /\ publish' = [publish EXCEPT ![t] = AfterTopic(publish[t])]
    /\ NotAccepted(t)
    /\ UNCHANGED <<act, last, link_vars, node, restarts>>

\* Mutant: settings and last_* survive while the broker forgets.
RestartKeepingSettings ==
    /\ restarts < MaxRestarts
    /\ restarts' = restarts + 1
    /\ publish' = [t \in Task |-> NotPublishing]
    /\ global_client' = FALSE /\ connected' = FALSE
    /\ outbox' = <<>>
    /\ told' = [x \in Topic |-> "none"]
    /\ lost' = {x \in Topic : node[x] = "1"}
    /\ UNCHANGED <<act, last, node>>

\* Everything in RAM is as ActuatorInit has it; persistence is off in the
\* broker's configuration.
Restart ==
    /\ restarts < MaxRestarts
    /\ restarts' = restarts + 1
    /\ act' = AllOff
    /\ last' = AllOff
    /\ publish' = [t \in Task |-> NotPublishing]
    /\ global_client' = FALSE /\ connected' = FALSE
    /\ outbox' = <<>>
    /\ told' = [x \in Topic |-> "none"]
    /\ lost' = {x \in Topic : node[x] = "1"}
    /\ UNCHANGED node

\* A stored value is forwarded to the nodes.
NodesFollow ==
    /\ node' = [x \in Topic |-> IF told'[x] = "none" THEN node[x] ELSE told'[x]]
    /\ UNCHANGED <<restarts, lost>>

FaultsNext ==
    \/ \E t \in Publisher, s \in Decisions : Decide(t, s) /\ UNCHANGED fault_vars
    \/ \E t \in Task : (Compare(t) \/ Record(t)) /\ UNCHANGED fault_vars
    \/ \E t \in Task : SendAccepted(t) \/ SendDropped(t) \/ SendRefused(t)
    \/ LinkNext /\ NodesFollow
    \/ Restart

\* As PublishFairness; nothing is assumed of refusals and restarts.
FaultsFairness ==
    /\ \A t \in Task :
        WF_all_vars(\/ (Compare(t) \/ Record(t)) /\ UNCHANGED fault_vars
                    \/ SendAccepted(t) \/ SendDropped(t))
    /\ WF_all_vars(BeforeConnect /\ NodesFollow)
    /\ WF_all_vars(Connected /\ NodesFollow)
    /\ SF_all_vars(Deliver /\ NodesFollow)

FaultsSpec == FaultsInit /\ [][FaultsNext]_all_vars /\ FaultsFairness

-----------------------------------------------------------------------------
(* Properties *)

NodeOn(x) == node[x] = "1"

\* What a fault costs, and no more: once things have settled, a node that
\* disagrees with the settings belongs to an actuator whose own last change
\* was dropped or refused, or that a restart left on.  A refusal in the middle
\* of a combined change does not disturb the other topics, and a later
\* accepted change repairs the topic.
OnlyLostChangesDiffer ==
    Settled => \A x \in Topic : (NodeOn(x) # act[x]) => x \in lost

\* When the last change of every actuator was accepted and the settings stay,
\* the nodes come to agree for good, whatever was lost before.
NodesRecover ==
    \A s \in Decisions :
        <>[](act = s /\ lost = {}) => <>[](\A x \in Topic : NodeOn(x) <=> s[x])
=============================================================================
