--------------------------- MODULE ActuatorPublish ---------------------------
(***************************************************************************)
(* The way of an actuator setting to the actuator nodes: publish_state     *)
(* (src/src/system_state.c), mqtt_publish and the client's event handler   *)
(* (src/src/mqtt_pub_sub.c), the MQTT client's outbox and the broker's     *)
(* retained values (libraries).                                            *)
(*                                                                         *)
(* publish_state runs without state_mutex and both tasks call it, so each  *)
(* of its accesses to the shared last_* values is a step of its own: per   *)
(* topic one comparison and one call of mqtt_publish, then four stores.    *)
(***************************************************************************)
EXTENDS ControlRules

CONSTANTS
    Publisher,      \* the tasks that decide on settings here
    Decisions,      \* the settings they may decide on
    AwaitConnected, \* the README's startup order: nothing is asked of the
                    \* system before the MQTT client has started
    OutboxBound     \* bound: messages waiting in the client's outbox

ASSUME PublishAssumption ==
    /\ Publisher \subseteq Task
    /\ Decisions \subseteq [Topic -> BOOLEAN]
    /\ AwaitConnected \in BOOLEAN
    /\ OutboxBound \in Nat \ {0}

VARIABLES
    act,            \* window, fan, door, absorber_used
    last,           \* last_window, last_fan, last_door, last_absorber
    publish,        \* each task's progress through publish_state
    global_client,  \* whether the event handler has stored the client
    connected,      \* whether the client has a session with the broker
    outbox,         \* published, not yet acknowledged by the broker
    told            \* the retained value of each topic, "none" before one

publish_vars == <<last, publish>>
link_vars == <<global_client, connected, outbox, told>>
actuator_vars == <<act, last, publish, global_client, connected, outbox, told>>

\* Mutant: the fan's message goes out before the window's.
TopicOrderFanFirst == <<"fan", "window", "door", "absorber">>

\* The order of publish_state.
TopicOrder == <<"window", "fan", "door", "absorber">>

NotPublishing == [stage |-> "idle", k |-> 0, snap |-> AllOff]
Idle(t) == publish[t].stage = "idle"

ActuatorInit ==
    /\ act = AllOff
    /\ last = AllOff
    /\ publish = [t \in Task |-> NotPublishing]
    /\ global_client = FALSE
    /\ connected = FALSE
    /\ outbox = <<>>
    /\ told = [x \in Topic |-> "none"]

-----------------------------------------------------------------------------
(* publish_state(w, f, d, a) called by task t with the settings s *)

StartPublish(t, s) ==
    publish' = [publish EXCEPT ![t] = [stage |-> "compare", k |-> 1, snap |-> s]]

CurrentTopic(t) == TopicOrder[publish[t].k]

\* Where a task goes once the topic it is at has been dealt with.
AfterTopic(p) ==
    IF p.k < Len(TopicOrder) THEN [stage |-> "compare", k |-> p.k + 1, snap |-> p.snap]
                             ELSE [stage |-> "record", k |-> 1, snap |-> p.snap]

Compare(t) ==
    /\ publish[t].stage = "compare"
    /\ publish' = [publish EXCEPT ![t] =
                     IF publish[t].snap[CurrentTopic(t)] # last[CurrentTopic(t)]
                     THEN [publish[t] EXCEPT !.stage = "send"]
                     ELSE AfterTopic(publish[t])]
    /\ UNCHANGED <<act, last, link_vars>>

Payload(on) == IF on THEN "1" ELSE "0"

\* Mutant: QoS 0, dropped while the connection is down.
SendQos0(t) ==
    /\ publish[t].stage = "send"
    /\ publish' = [publish EXCEPT ![t] = AfterTopic(publish[t])]
    /\ \/ ~connected /\ UNCHANGED outbox
       \/ /\ connected
          /\ Len(outbox) < OutboxBound
          /\ outbox' = Append(outbox, [topic |-> CurrentTopic(t),
                                       value |-> Payload(publish[t].snap[CurrentTopic(t)])])
    /\ UNCHANGED <<act, last, global_client, connected, told>>

\* mqtt_publish: dropped without a client, else queued with QoS 1, retained.
Send(t) ==
    /\ publish[t].stage = "send"
    /\ publish' = [publish EXCEPT ![t] = AfterTopic(publish[t])]
    /\ \/ /\ ~global_client
          /\ UNCHANGED outbox
       \/ /\ global_client
          /\ Len(outbox) < OutboxBound
          /\ outbox' = Append(outbox, [topic |-> CurrentTopic(t),
                                       value |-> Payload(publish[t].snap[CurrentTopic(t)])])
    /\ UNCHANGED <<act, last, global_client, connected, told>>

\* Mutants: last_absorber is forgotten; one store too many.
AfterRecordShort(p) == IF p.k < Len(TopicOrder) - 1 THEN [p EXCEPT !.k = p.k + 1]
                                                    ELSE NotPublishing
AfterRecordLong(p) == IF p.k <= Len(TopicOrder) THEN [p EXCEPT !.k = p.k + 1]
                                                ELSE NotPublishing

AfterRecord(p) == IF p.k < Len(TopicOrder) THEN [p EXCEPT !.k = p.k + 1]
                                           ELSE NotPublishing

Record(t) ==
    /\ publish[t].stage = "record"
    /\ last' = [last EXCEPT ![CurrentTopic(t)] = publish[t].snap[CurrentTopic(t)]]
    /\ publish' = [publish EXCEPT ![t] = AfterRecord(publish[t])]
    /\ UNCHANGED <<act, link_vars>>

PublishStep(t) == Compare(t) \/ Send(t) \/ Record(t)

-----------------------------------------------------------------------------
(* The MQTT client and the broker *)

\* mqtt_event_handler: any event, the one before the first connection
\* attempt included, stores the client.
BeforeConnect ==
    /\ ~global_client
    /\ global_client' = TRUE
    /\ UNCHANGED <<act, publish_vars, connected, outbox, told>>

Connected ==
    /\ global_client /\ ~connected
    /\ connected' = TRUE
    /\ UNCHANGED <<act, publish_vars, global_client, outbox, told>>

Disconnected ==
    /\ connected
    /\ connected' = FALSE
    /\ UNCHANGED <<act, publish_vars, global_client, outbox, told>>

HeadIsStored == told' = [told EXCEPT ![Head(outbox).topic] = Head(outbox).value]

\* The broker stores the oldest message and the client sees the
\* acknowledgement ...
Deliver ==
    /\ connected /\ outbox # <<>>
    /\ HeadIsStored
    /\ outbox' = Tail(outbox)
    /\ UNCHANGED <<act, publish_vars, global_client, connected>>

\* ... or loses the connection first, and will send the message again.
DeliverUnacknowledged ==
    /\ connected /\ outbox # <<>>
    /\ HeadIsStored
    /\ connected' = FALSE
    /\ UNCHANGED <<act, publish_vars, global_client, outbox>>

LinkNext ==
    BeforeConnect \/ Connected \/ Disconnected \/ Deliver \/ DeliverUnacknowledged

-----------------------------------------------------------------------------
(* The callers reduced to what publish_state sees of them: a critical       *)
(* section that stores new settings, and a snapshot taken in it.            *)

Ready == AwaitConnected => global_client

Decide(t, s) ==
    /\ Idle(t) /\ Ready
    /\ act' = s
    /\ StartPublish(t, s)
    /\ UNCHANGED <<last, link_vars>>

ActuatorNext ==
    \/ \E t \in Publisher, s \in Decisions : Decide(t, s)
    \/ \E t \in Task : PublishStep(t)
    \/ LinkNext

\* A task inside publish_state keeps running; the client retries until it is
\* connected, and connections last long enough, again and again, for the
\* oldest message to be acknowledged.
PublishFairness ==
    /\ \A t \in Task : WF_actuator_vars(PublishStep(t))
    /\ WF_actuator_vars(BeforeConnect)
    /\ WF_actuator_vars(Connected)
    /\ SF_actuator_vars(Deliver)

ActuatorSpec == ActuatorInit /\ [][ActuatorNext]_actuator_vars /\ PublishFairness

-----------------------------------------------------------------------------
(* Properties *)

Setting == [Topic -> BOOLEAN]
Progress == [stage : {"idle", "compare", "send", "record"},
             k : 0..Len(TopicOrder), snap : Setting]
OutboxMessage == [topic : Topic, value : {"0", "1"}]

\* The variables hold values the program can hold.
ActuatorTypeOK ==
    /\ act \in Setting
    /\ last \in Setting
    /\ publish \in [Task -> Progress]
    /\ \A t \in Task : Idle(t) <=> publish[t].k = 0
    /\ global_client \in BOOLEAN
    /\ connected \in BOOLEAN
    /\ outbox \in Seq(OutboxMessage)
    /\ Len(outbox) <= OutboxBound
    /\ told \in [Topic -> {"none", "0", "1"}]

\* What the nodes subscribed to topic x have been told; nothing yet means
\* off, the state they start in.
ToldOn(x) == told[x] = "1"

Settled == outbox = <<>> /\ \A t \in Task : Idle(t)

\* Once publish_state has returned everywhere and the outbox is empty, the
\* nodes have been told exactly the settings the status endpoint reports.
\* publish_state sends changes only, so a change it wrongly believes to have
\* been sent is never repaired.
SettledAgreement == Settled => \A x \in Topic : ToldOn(x) <=> act[x]

\* Change detection compares with the settings decided last: whenever nobody
\* is inside publish_state, last_* and the settings agree.  This is what a
\* second publisher breaks, and what a lost publication does not.
LastIsCurrent == (\A t \in Task : Idle(t)) => last = act
=============================================================================
