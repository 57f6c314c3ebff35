----------------------------- MODULE HttpServer ------------------------------
(***************************************************************************)
(* The HTTP API of src/src/http_server.c.  The server library runs all     *)
(* handlers on one task, one request at a time.  A handler is split where  *)
(* it gives the mutex away: the status message is set, and the settings    *)
(* are published, after the critical section that changed the state, and   *)
(* GET /status reads the flags, the headline and the explanation in three. *)
(***************************************************************************)
EXTENDS SystemState, ScheduleText

CONSTANT Requests   \* the requests clients may send

\* A body that the handler's sscanf accepts is well formed.  mode belongs
\* to POST /mode, want to POST /actuators, periods to POST /schedule, whose
\* loop over the body is HttpText's subject: here every object is closed.
Uri == {"GET_sensors", "GET_status", "GET_schedule",
        "POST_mode", "POST_actuators", "POST_schedule"}

Request == [uri : Uri, well_formed : BOOLEAN, mode : Int,
            want : [Topic -> BOOLEAN], periods : Seq(PeriodObject)]
NoRequest == [uri |-> "GET_status", well_formed |-> TRUE, mode |-> MODE_MANUAL,
              want |-> AllOff, periods |-> <<>>]

ASSUME RequestAssumption == Requests \subseteq Request

VARIABLE http       \* the server task: its place, its request, its reply

http_vars == <<http>>
system_vars == <<sensor_vars, actuator_vars, control_vars, minute, system_pc>>
vars == <<clock, available, last_update_ms, reading, wind_speed, node_ip, now, callback,
          act, last, publish, global_client, connected, outbox, told,
          current_mode, schedule, status, minute, system_pc, http>>

NoReply ==
    [code |-> 0,
     available |-> [s \in Source |-> FALSE], outdoor_connected |-> FALSE,
     mode |-> MODE_MANUAL, act |-> AllOff,
     flags |-> ControlFlags(MODE_MANUAL, <<>>, 0),
     headline |-> "none", why |-> Message("none", "none"),
     periods |-> <<>>]

\* message is what the handler will show once it has left the mutex, and
\* asked_at the clock when the request came in (only the properties read it).
HttpIdle == [pc |-> "idle", req |-> NoRequest, message |-> HoldMessage,
             reply |-> NoReply, asked_at |-> 0]

HttpInit == http = HttpIdle

At(pc, uri) == http.pc = pc /\ http.req.uri = uri

Answer(reply) == http' = [http EXCEPT !.pc = "respond", !.reply = reply]
Refuse(code) == Answer([NoReply EXCEPT !.code = code])
Ok == [NoReply EXCEPT !.code = 200]

Receive(r) ==
    /\ http.pc = "idle" /\ Ready
    /\ http' = [http EXCEPT !.pc = "handle", !.req = r, !.asked_at = clock]
    /\ UNCHANGED system_vars

Respond ==
    /\ http.pc = "respond"
    /\ http' = HttpIdle
    /\ UNCHANGED system_vars

-----------------------------------------------------------------------------
(* GET /api/v1/sensors *)

SensorsSamplesNow ==
    /\ At("handle", "GET_sensors")
    /\ SampleNow("httpd")
    /\ UNCHANGED <<actuator_vars, control_vars, minute, system_pc, http>>

\* Mutant: the values are read without a refresh.
SensorsNotRefreshed ==
    /\ At("handle", "GET_sensors")
    /\ http' = [http EXCEPT !.pc = "read"]
    /\ UNCHANGED system_vars

SensorsRefreshes ==
    /\ At("handle", "GET_sensors")
    /\ RefreshTimeouts("httpd")
    /\ http' = [http EXCEPT !.pc = "read"]
    /\ UNCHANGED <<actuator_vars, control_vars, minute, system_pc>>

\* Values of an unavailable source are formatted as "--", whatever they are.
SensorsRead ==
    /\ At("read", "GET_sensors")
    /\ Answer([Ok EXCEPT !.available = available,
                         !.outdoor_connected = available["outdoor"] \/ available["wind"]])
    /\ UNCHANGED system_vars

-----------------------------------------------------------------------------
(* GET /api/v1/status *)

StatusFlags ==
    /\ At("handle", "GET_status")
    /\ http' = [http EXCEPT !.pc = "headline",
                            !.reply = [Ok EXCEPT !.mode = current_mode, !.act = act,
                                       !.flags = ControlFlags(current_mode, schedule, minute)]]
    /\ UNCHANGED system_vars

StatusHeadline ==
    /\ At("headline", "GET_status")
    /\ http' = [http EXCEPT !.pc = "why", !.reply.headline = status.headline]
    /\ UNCHANGED system_vars

StatusExplanation ==
    /\ At("why", "GET_status")
    /\ Answer([http.reply EXCEPT !.why = status])
    /\ UNCHANGED system_vars

-----------------------------------------------------------------------------
(* GET /api/v1/schedule *)

ScheduleRead ==
    /\ At("handle", "GET_schedule")
    /\ Answer([Ok EXCEPT !.periods = schedule])
    /\ UNCHANGED system_vars

-----------------------------------------------------------------------------
(* The steps that end a POST handler: the message, and for actuators the   *)
(* publication of the settings the critical section snapshotted.           *)

Then(pc, message) == http' = [http EXCEPT !.pc = pc, !.message = message]

SetMessage ==
    /\ http.pc = "message"
    /\ status' = http.message
    /\ Answer(Ok)
    /\ UNCHANGED <<sensor_vars, actuator_vars, current_mode, schedule, minute, system_pc>>

SetMessageAndPublish ==
    /\ http.pc = "message_and_publish"
    /\ status' = http.message
    /\ StartPublish("httpd", http.req.want)
    /\ http' = [http EXCEPT !.pc = "publish"]
    /\ UNCHANGED <<sensor_vars, act, last, link_vars, current_mode, schedule, minute, system_pc>>

Published ==
    /\ http.pc = "publish" /\ Idle("httpd")
    /\ Answer(Ok)
    /\ UNCHANGED system_vars

-----------------------------------------------------------------------------
(* POST /api/v1/mode *)

ValidMode(r) == r.well_formed /\ r.mode \in MODE_AUTO_BEST..MODE_MANUAL

ModeRefused ==
    /\ At("handle", "POST_mode")
    /\ ~ValidMode(http.req)
    /\ Refuse(400)
    /\ UNCHANGED system_vars

ModeMessage(mode) ==
    CASE mode = MODE_MANUAL -> ManualMessage
      [] mode # MODE_MANUAL /\ schedule # <<>> -> Message("plan_remembered", "plan_remembered")
      [] OTHER -> Message("automatic_mode", "automatic")

ModePost ==
    /\ At("handle", "POST_mode")
    /\ ValidMode(http.req)
    /\ current_mode' = http.req.mode
    /\ Then("message", ModeMessage(http.req.mode))
    /\ UNCHANGED <<sensor_vars, actuator_vars, schedule, status, minute, system_pc>>

-----------------------------------------------------------------------------
(* POST /api/v1/actuators *)

\* Mutant: the business rule dropped.
FanRuleIgnored(want) == FALSE

FanRuleBroken(want) == want["fan"] /\ ~want["window"]

ManualControlAllowed == ControlFlags(current_mode, schedule, minute).manual_allowed

ActuatorsRefused ==
    /\ At("handle", "POST_actuators")
    /\ \/ /\ ~http.req.well_formed
          /\ Refuse(400)
       \/ /\ http.req.well_formed /\ ~ManualControlAllowed
          /\ Refuse(403)
       \/ /\ http.req.well_formed /\ ManualControlAllowed
          /\ FanRuleBroken(http.req.want)
          /\ Refuse(400)
    /\ UNCHANGED system_vars

ActuatorsPost ==
    /\ At("handle", "POST_actuators")
    /\ http.req.well_formed /\ ManualControlAllowed
    /\ ~FanRuleBroken(http.req.want)
    /\ act' = http.req.want
    /\ Then("message_and_publish",
            IF ControlFlags(current_mode, schedule, minute).holding THEN HoldMessage
                                                                    ELSE ManualMessage)
    /\ UNCHANGED <<sensor_vars, last, publish, link_vars, control_vars, minute, system_pc>>

-----------------------------------------------------------------------------
(* POST /api/v1/schedule *)

ScheduleRefused ==
    /\ At("handle", "POST_schedule")
    /\ ~http.req.well_formed
    /\ Refuse(400)
    /\ UNCHANGED system_vars

ScheduleMessage(periods) ==
    CASE periods = <<>> -> Message("fresh_start", "schedule_cleared")
      [] periods # <<>> /\ current_mode = MODE_MANUAL -> Message("plan_saved", "plan_saved")
      [] OTHER -> Message("plan_updated", "plan_updated")

SchedulePost ==
    /\ At("handle", "POST_schedule")
    /\ http.req.well_formed
    /\ schedule' = ParsedPeriods(http.req.periods)
    /\ Then("message", ScheduleMessage(ParsedPeriods(http.req.periods)))
    /\ UNCHANGED <<sensor_vars, actuator_vars, current_mode, status, minute, system_pc>>

-----------------------------------------------------------------------------
Handle ==
    \/ SensorsSamplesNow \/ SensorsRefreshes \/ SensorsRead
    \/ StatusFlags \/ StatusHeadline \/ StatusExplanation
    \/ ScheduleRead
    \/ ModeRefused \/ ModePost
    \/ ActuatorsRefused \/ ActuatorsPost
    \/ ScheduleRefused \/ SchedulePost
    \/ SetMessage \/ SetMessageAndPublish \/ Published
    \/ Respond

HttpTask == Handle \/ \E r \in Requests : Receive(r)
=============================================================================
