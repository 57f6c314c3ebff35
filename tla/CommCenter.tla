----------------------------- MODULE CommCenter ------------------------------
(***************************************************************************)
(* The communication center as src/src/main.c starts it: the broker task   *)
(* with its message callback, the MQTT client, the HTTP server task and    *)
(* system_task, over the state they share.                                 *)
(***************************************************************************)
EXTENDS HttpServer

CommCenterInit == SystemInit /\ HttpInit

\* The broker task and the clocks.
SensorStep ==
    /\ \/ \E d \in TimeSteps : Tick(d)
       \/ \E m \in Publications : MessageArrives(m)
       \/ UpdateNodeIp
       \/ UpdateSensor
    /\ UNCHANGED <<actuator_vars, control_vars, minute, system_pc, http>>

MinuteStep == \E m \in Minutes : ClockShows(m) /\ UNCHANGED http

SystemStep == SystemTask /\ UNCHANGED http

PublishBy(t) ==
    PublishStep(t) /\ UNCHANGED <<sensor_vars, control_vars, minute, system_pc, http>>

LinkStep == LinkNext /\ UNCHANGED <<sensor_vars, control_vars, minute, system_pc, http>>

CommCenterNext ==
    \/ SensorStep
    \/ MinuteStep
    \/ SystemStep
    \/ HttpTask
    \/ \E t \in Task : PublishBy(t)
    \/ LinkStep

\* FreeRTOS schedules every ready task: system_task at priority 3 sleeps a
\* second in each round, the server's tasks are above the idle priority.
\* Clients need not send requests, nodes need not publish, and nothing makes
\* the wall clock move.
Reconnects == (BeforeConnect \/ Connected) /\ UNCHANGED <<sensor_vars, control_vars, minute, system_pc, http>>
Acknowledged == Deliver /\ UNCHANGED <<sensor_vars, control_vars, minute, system_pc, http>>

Fairness ==
    /\ WF_vars(SystemStep)
    /\ WF_vars(Handle)
    /\ \A t \in Task : WF_vars(PublishBy(t))
    /\ WF_vars(Reconnects)
    /\ SF_vars(Acknowledged)

CommCenterSpec == CommCenterInit /\ [][CommCenterNext]_vars /\ Fairness

-----------------------------------------------------------------------------
(* Properties *)

Headline == {"none", "in_control", "take_over", "thinking", "fresh_up_inside_toxic",
             "outside_toxic", "waiting", "windy", "one_moment", "fresh_up", "saving_energy",
             "looking_outside", "plan_remembered", "automatic_mode", "fresh_start",
             "plan_saved", "plan_updated"}
Explanation == {"none", "manual", "schedule_inactive", "best_no_data", "best_fan_on",
                "best_toxic", "best_no_gain", "eco_windy", "eco_no_indoor_data",
                "eco_fan_on", "eco_fan_kept_on", "eco_fan_off", "eco_toxic", "eco_no_gain",
                "eco_no_outdoor_data", "plan_remembered", "automatic", "schedule_cleared",
                "plan_saved", "plan_updated"}
StatusMessage == [headline : Headline, why : Explanation, absorber : BOOLEAN]

Period == [start : TimeText, end : TimeText, mode : Int]
Schedules == {s \in Seq(Period) : Len(s) <= MAX_PERIODS}

Flags == [configured : BOOLEAN, active : BOOLEAN, holding : BOOLEAN, manual_allowed : BOOLEAN]
Reply == [code : {0, 200, 400, 403}, available : [Source -> BOOLEAN],
          outdoor_connected : BOOLEAN, mode : Int, act : Setting, flags : Flags,
          headline : Headline, why : StatusMessage, periods : Schedules]
Place == {"idle", "handle", "read", "headline", "why", "message",
          "message_and_publish", "publish", "respond"}
Handling == [pc : Place, req : Requests \cup {NoRequest}, message : StatusMessage,
             reply : Reply, asked_at : Nat]

TypeOK ==
    /\ SensorTypeOK
    /\ ActuatorTypeOK
    /\ current_mode \in Int
    /\ schedule \in Schedules
    /\ status \in StatusMessage
    /\ minute \in Minutes
    /\ system_pc \in {"refresh", "update"}
    /\ http \in Handling
    /\ http.asked_at <= clock

\* The fan is never on behind a closed window, whether the automatic rules
\* or a user set the actuators, in whatever order their critical sections
\* run, and no snapshot on its way to the nodes breaks the rule either.
FanNeedsWindow ==
    /\ act["fan"] => act["window"]
    /\ \A t \in Task : publish[t].snap["fan"] => publish[t].snap["window"]

\* The automatic rules open the window only on data of both boards.
\* AUTO_ECO does not test indoor_data_available before it opens: it relies
\* on the zero humidity a timed-out board leaves behind.
AutoOpensOnlyWithData ==
    [][AutoUpdate /\ act'["window"] /\ ~act["window"]
            => available["indoor"] /\ available["outdoor"]]_vars

\* While a user's settings are in force (MANUAL, or the schedule holds) no
\* evaluation of system_task takes them back: only a request does.
ManualSettingsStay ==
    [][ManualControlAllowed /\ act' # act => ActuatorsPost]_vars

\* GET /sensors never shows data that had timed out when the request came in,
\* although the timeouts are applied in an earlier critical section than the
\* one the values are read in.
FreshReply ==
    At("read", "GET_sensors") =>
        \A s \in Source : available[s] => http.asked_at - last_update_ms[s] <= TimeoutMs(s)

\* Between requests, with publish_state finished and the outbox empty, the
\* nodes have been told what GET /status reports.
StatusMatchesNodes == (http.pc # "message_and_publish") => SettledAgreement

\* The message a handler sets after it left the mutex may be out of date by
\* then; system_task has the last word while the mode stays what it is.
StatusFollowsMode ==
    /\ (current_mode = MODE_MANUAL) ~> (status = ManualMessage \/ current_mode # MODE_MANUAL)
    /\ Holding ~> (status = HoldMessage \/ ~Holding)

\* An active period takes over: as long as it is active and the user does
\* not choose MANUAL, its mode becomes the current mode.
ScheduleTakesOver ==
    LET InForce == current_mode # MODE_MANUAL /\ schedule # <<>> /\ ~Holding
    IN  InForce ~> (~InForce \/ current_mode = ScheduledMode(schedule, minute))
=============================================================================
