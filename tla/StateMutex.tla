----------------------------- MODULE StateMutex ------------------------------
(***************************************************************************)
(* state_mutex itself: which task holds it, which wait for it, and what    *)
(* else they wait for.  It is a FreeRTOS mutex that a task cannot take     *)
(* twice, taken with portMAX_DELAY.  While it publishes, a task also       *)
(* waits for the broker's task, whose message callback waits for the       *)
(* mutex: whoever held the mutex while publishing could wait forever.      *)
(*                                                                         *)
(* A task's code is the sequence of the steps at which it may wait or make *)
(* others wait.  What the critical sections compute, and so which way a    *)
(* task takes through its code, is CommCenter's subject: here every way is *)
(* open each time.                                                         *)
(***************************************************************************)
EXTENDS Integers, Sequences

CONSTANT WireBound      \* bound: messages the center's socket to the broker
                        \* takes before the broker reads

ASSUME WireAssumption == WireBound \in Nat \ {0}

VARIABLES
    holder,     \* the task that holds state_mutex
    path,       \* the steps each task still has before it
    client,     \* the MQTT client: not started, without or with a session
    wire        \* how many messages the broker has not read yet

mutex_vars == <<holder, path, client, wire>>

User == {"httpd", "system", "broker", "oled"}
Nobody == "nobody"

MutexInit ==
    /\ holder = Nobody
    /\ path = [t \in User |-> <<>>]
    /\ client = "not_started"
    /\ wire = 0

-----------------------------------------------------------------------------
(* The ways through the code *)

Section == <<"take", "give">>

\* The setter and the getters of the status message take the mutex; the
\* _locked setters are for those who hold it and do nothing one waits for.
system_status_set_message == Section
system_status_get_headline == Section
system_status_get_explanation == Section
system_status_set_message_locked == <<>>

system_state_refresh_sensor_timeouts == Section

\* At most one message per topic.
publish_state == {[k \in 1..n |-> "send"] : n \in 0..4}

\* Three ways through system_auto_update: two leave early.
ManualUpdate == {<<"take">> \o system_status_set_message_locked \o <<"give">>}
HoldUpdate == {<<"take">> \o system_status_set_message_locked \o <<"give">>}

\* Mutant: the settings are published before the mutex is given back.
AutoUpdatePublishesInside ==
    {<<"take">> \o system_status_set_message_locked \o sends \o <<"give">> :
        sends \in publish_state}

AutoUpdate ==
    {<<"take">> \o system_status_set_message_locked \o <<"give">> \o sends :
        sends \in publish_state}

SystemRounds ==
    {system_state_refresh_sensor_timeouts \o update :
        update \in ManualUpdate \cup HoldUpdate \cup AutoUpdate}

\* What a handler refuses on its body alone does not touch the mutex.
BodyRefused == {<<"answer">>}

\* Mutant: the refusal returns without giving the mutex back.
ManualControlRefusedHolding == {<<"take", "answer">>}

ManualControlRefused == {Section \o <<"answer">>}
FanRuleRefused == {Section \o <<"answer">>}

ActuatorsAccepted ==
    {Section \o system_status_set_message \o sends \o <<"answer">> : sends \in publish_state}

sensors_get_handler ==
    {system_state_refresh_sensor_timeouts \o Section \o <<"answer">>}
status_get_handler ==
    {Section \o system_status_get_headline \o system_status_get_explanation \o <<"answer">>}
schedule_get_handler == {Section \o <<"answer">>}
mode_post_handler == BodyRefused \cup {Section \o system_status_set_message \o <<"answer">>}
actuators_post_handler ==
    BodyRefused \cup ManualControlRefused \cup FanRuleRefused \cup ActuatorsAccepted
schedule_post_handler == BodyRefused \cup {Section \o system_status_set_message \o <<"answer">>}

Handlers ==
    sensors_get_handler \cup status_get_handler \cup schedule_get_handler
        \cup mode_post_handler \cup actuators_post_handler \cup schedule_post_handler

\* The reading of a board or of the wind, and before it the board's address
\* if the payload carries one.
mqtt_message_cb == {Section, Section \o Section}

capture_snapshot == {Section}

-----------------------------------------------------------------------------
(* The steps *)

Start(t, ways) ==
    /\ path[t] = <<>>
    /\ \E p \in ways : path' = [path EXCEPT ![t] = p]
    /\ UNCHANGED <<holder, client, wire>>

SystemRound == Start("system", SystemRounds)
OledRound == Start("oled", capture_snapshot)
Receive == Start("httpd", Handlers)
NodePublishes == Start("broker", mqtt_message_cb)

At(t, step) == path[t] # <<>> /\ Head(path[t]) = step
Pass(t) == path' = [path EXCEPT ![t] = Tail(@)]

Take(t) ==
    /\ At(t, "take") /\ holder = Nobody
    /\ holder' = t
    /\ Pass(t)
    /\ UNCHANGED <<client, wire>>

Give(t) ==
    /\ At(t, "give") /\ holder = t
    /\ holder' = Nobody
    /\ Pass(t)
    /\ UNCHANGED <<client, wire>>

\* mqtt_publish: dropped before the client has started, left in the outbox
\* without a session, otherwise written to the broker by the calling task,
\* which waits until the socket takes it.
Send(t) ==
    /\ At(t, "send")
    /\ IF client = "session" THEN wire < WireBound /\ wire' = wire + 1 ELSE UNCHANGED wire
    /\ Pass(t)
    /\ UNCHANGED <<holder, client>>

Answer ==
    /\ At("httpd", "answer")
    /\ Pass("httpd")
    /\ UNCHANGED <<holder, client, wire>>

Proceed(t) == Take(t) \/ Give(t) \/ Send(t) \/ (t = "httpd" /\ Answer)

\* The center's own messages have topics the callback ignores.
BrokerReads ==
    /\ path["broker"] = <<>> /\ wire > 0
    /\ wire' = wire - 1
    /\ UNCHANGED <<holder, path, client>>

ClientStarts ==
    /\ client = "not_started"
    /\ client' = "no_session"
    /\ UNCHANGED <<holder, path, wire>>

SessionBegins ==
    /\ client = "no_session"
    /\ client' = "session"
    /\ UNCHANGED <<holder, path, wire>>

\* Also what happens when a write takes too long: the client gives the
\* connection up and keeps the message.
SessionEnds ==
    /\ client = "session"
    /\ client' = "no_session" /\ wire' = 0
    /\ UNCHANGED <<holder, path>>

MutexNext ==
    \/ SystemRound \/ OledRound \/ Receive \/ NodePublishes
    \/ \E t \in User : Proceed(t)
    \/ BrokerReads
    \/ ClientStarts \/ SessionBegins \/ SessionEnds

\* A task that waits for the mutex or for the socket gets it in the end if it
\* becomes free again and again: the others sleep or wait for the network
\* between their rounds.  The broker's loop serves every socket that has
\* something to read.  Users and nodes need not send anything, and the
\* connection need neither begin nor end.
MutexFairness ==
    /\ WF_mutex_vars(SystemRound)
    /\ WF_mutex_vars(OledRound)
    /\ \A t \in User : SF_mutex_vars(Proceed(t))
    /\ SF_mutex_vars(BrokerReads)

MutexSpec == MutexInit /\ [][MutexNext]_mutex_vars /\ MutexFairness

-----------------------------------------------------------------------------
(* Properties *)

\* Every request is answered: on no way through a handler, refused or not,
\* does a task keep the mutex, and nobody holds it while waiting for a broker
\* that may be slow, away, or itself waiting for the mutex.
EveryRequestAnswered == (path["httpd"] # <<>>) ~> At("httpd", "answer")

\* system_task, the broker's callback and the screen come back to their loops
\* whatever the others do: no ring of tasks waiting for each other through
\* mutex and socket, and nobody takes the mutex it already holds.
TasksComeBack == \A t \in User \ {"httpd"} : []<>(path[t] = <<>>)
=============================================================================
