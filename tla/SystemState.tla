----------------------------- MODULE SystemState -----------------------------
(***************************************************************************)
(* system_task of src/src/system_state.c: refresh the sensor timeouts,     *)
(* evaluate mode and schedule, apply the automatic rules, publish what     *)
(* changed, and start over.  The sensor cache and publish_state are the    *)
(* modules of their own that this one composes; the status message of      *)
(* src/src/system_status.c lives under the same mutex and is part of this  *)
(* state.                                                                  *)
(***************************************************************************)
EXTENDS SensorCache, ActuatorPublish

CONSTANT Minutes    \* the minutes of the day the wall clock may show

ASSUME MinutesAssumption == Minutes \subseteq 0..1439 /\ Minutes # {}

VARIABLES
    current_mode,
    schedule,       \* schedule[0 .. schedule_count - 1]
    status,         \* status_headline and status_explanation
    minute,         \* localtime_r: tm_hour * 60 + tm_min
    system_pc       \* where system_task is between its calls

control_vars == <<current_mode, schedule, status>>

SystemInit ==
    /\ SensorInit
    /\ ActuatorInit
    /\ current_mode = MODE_MANUAL
    /\ schedule = <<>>
    /\ status = ManualMessage
    /\ minute \in Minutes
    /\ system_pc = "refresh"

\* SNTP sets the clock forwards or backwards, and time passes.
ClockShows(m) ==
    /\ m # minute
    /\ minute' = m
    /\ UNCHANGED <<sensor_vars, actuator_vars, control_vars, system_pc>>

-----------------------------------------------------------------------------
(* system_state_refresh_sensor_timeouts *)

SystemSamplesNow ==
    /\ system_pc = "refresh" /\ Idle("system_task")
    /\ SampleNow("system_task")
    /\ UNCHANGED <<actuator_vars, control_vars, minute, system_pc>>

SystemRefreshes ==
    /\ system_pc = "refresh"
    /\ RefreshTimeouts("system_task")
    /\ system_pc' = "update"
    /\ UNCHANGED <<actuator_vars, control_vars, minute>>

-----------------------------------------------------------------------------
(* system_auto_update: one critical section, three ways through it *)

UpdateDone ==
    /\ system_pc = "update"
    /\ system_pc' = "refresh"
    /\ UNCHANGED <<sensor_vars, last, link_vars, minute>>

\* MANUAL: the message, nothing else.
\* Mutant: MANUAL returns before it sets its message.
ManualUpdateSilent ==
    /\ current_mode = MODE_MANUAL
    /\ UpdateDone
    /\ UNCHANGED <<act, publish, control_vars>>

ManualUpdate ==
    /\ current_mode = MODE_MANUAL
    /\ status' = ManualMessage
    /\ UpdateDone
    /\ UNCHANGED <<act, publish, current_mode, schedule>>

Holding ==
    /\ current_mode # MODE_MANUAL
    /\ schedule # <<>>
    /\ ~schedule_is_active(schedule, minute)

\* Outside every period: the user may take over.
HoldUpdate ==
    /\ Holding
    /\ status' = HoldMessage
    /\ UpdateDone
    /\ UNCHANGED <<act, publish, current_mode, schedule>>

\* An active period overwrites the mode; the rules of the mode are applied
\* and the result is published from a snapshot.
ActiveMode == IF schedule # <<>> THEN ScheduledMode(schedule, minute) ELSE current_mode

AutoSettings ==
    FanNeedsOpenWindow(apply_auto_logic(ActiveMode, available, reading, wind_speed, act))

\* Mutants: the snapshot taken before the rules; MANUAL not tested; the
\* scheduled mode applied but not stored.
AutoUpdateEarlySnapshot ==
    /\ current_mode # MODE_MANUAL /\ ~Holding
    /\ current_mode' = ActiveMode
    /\ act' = AutoSettings
    /\ status' = AutoMessage(ActiveMode, available, reading, wind_speed, act, status)
    /\ StartPublish("system_task", act)
    /\ UpdateDone
    /\ UNCHANGED schedule
AutoUpdateOverManual ==
    /\ ~Holding
    /\ schedule # <<>> => schedule_is_active(schedule, minute)
    /\ current_mode' = ActiveMode
    /\ act' = AutoSettings
    /\ status' = AutoMessage(ActiveMode, available, reading, wind_speed, act, status)
    /\ StartPublish("system_task", AutoSettings)
    /\ UpdateDone
    /\ UNCHANGED schedule
AutoUpdateKeepsMode ==
    /\ current_mode # MODE_MANUAL /\ ~Holding
    /\ act' = AutoSettings
    /\ status' = AutoMessage(ActiveMode, available, reading, wind_speed, act, status)
    /\ StartPublish("system_task", AutoSettings)
    /\ UpdateDone
    /\ UNCHANGED <<current_mode, schedule>>

AutoUpdate ==
    /\ current_mode # MODE_MANUAL /\ ~Holding
    /\ current_mode' = ActiveMode
    /\ act' = AutoSettings
    /\ status' = AutoMessage(ActiveMode, available, reading, wind_speed, act, status)
    /\ StartPublish("system_task", AutoSettings)
    /\ UpdateDone
    /\ UNCHANGED schedule

SystemTask ==
    \/ SystemSamplesNow
    \/ SystemRefreshes
    \/ ManualUpdate
    \/ HoldUpdate
    \/ AutoUpdate
=============================================================================
