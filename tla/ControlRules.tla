---------------------------- MODULE ControlRules ----------------------------
(***************************************************************************)
(* The decisions of src/src/system_state.c as pure operators: when a       *)
(* schedule period is active, what the control flags say, and what         *)
(* AUTO_BEST and AUTO_ECO make of the sensor readings.  Nothing here has   *)
(* state; the modules that own the globals pass them in.                   *)
(*                                                                         *)
(* Floats are whole numbers: the code only compares readings with the      *)
(* whole thresholds of system_state.h and subtracts two humidities.        *)
(***************************************************************************)
EXTENDS Integers, Sequences

\* The two tasks that run the control logic; the third actor, the broker
\* task, only stores sensor data.
Task == {"system_task", "httpd"}

HUMIDITY_DIFF_THRESHOLD == 10
HIGH_HUMIDITY == 55
GOOD_AQ == 70
WIND_HIGH == 5
MAX_PERIODS == 8
AUTO_ECO_FAN_ON_TEMP_C == 25
AUTO_ECO_FAN_OFF_TEMP_C == 24
AUTO_ECO_FAN_HUMIDITY_RELEASE_MARGIN == 3

MODE_AUTO_BEST == 0
MODE_AUTO_ECO == 1
MODE_MANUAL == 2

\* The two sensor boards and the anemometer publish independently.
Board == {"indoor", "outdoor"}
Source == Board \cup {"wind"}

\* A board's reading: two floats and a uint8_t air-quality index.  Relative
\* humidity is never negative.
Reading == [temp : Int, humidity : Nat, aq : 0..255]
ZeroReading == [temp |-> 0, humidity |-> 0, aq |-> 0]

\* The four actuators, named by their MQTT topic.
Topic == {"window", "fan", "door", "absorber"}
Settings(w, f, d, a) ==
    [t \in Topic |-> CASE t = "window" -> w
                       [] t = "fan" -> f
                       [] t = "door" -> d
                       [] t = "absorber" -> a]
AllOff == Settings(FALSE, FALSE, FALSE, FALSE)

-----------------------------------------------------------------------------
(* Schedule *)

\* A period's start or end as it is stored: up to five characters, each as
\* its distance from '0', so that ':' is 10.  strncpy fills up with NUL.
TimeText == Seq(Int)
NUL == -48
CharAt(t, i) == IF i <= Len(t) THEN t[i] ELSE NUL

\* The digits are read at fixed places; hh and mm are uint8_t.
time_to_minutes(t) ==
    ((CharAt(t, 1) * 10 + CharAt(t, 2)) % 256) * 60
        + ((CharAt(t, 4) * 10 + CharAt(t, 5)) % 256)

\* Mutant: the end excluded.
InPeriodEndExcluded(now_min, start, end) ==
    \/ start <= end /\ now_min >= start /\ now_min < end
    \/ start > end /\ (now_min >= start \/ now_min < end)

\* Both ends are inside the period; a start after the end spans midnight.
InPeriod(now_min, start, end) ==
    \/ start <= end /\ now_min >= start /\ now_min <= end
    \/ start > end /\ (now_min >= start \/ now_min <= end)

ActivePeriods(schedule, now_min) ==
    {i \in DOMAIN schedule : InPeriod(now_min,
                                      time_to_minutes(schedule[i].start),
                                      time_to_minutes(schedule[i].end))}

schedule_is_active(schedule, now_min) == ActivePeriods(schedule, now_min) # {}

\* The loop returns at the first period that matches.
ScheduledMode(schedule, now_min) ==
    LET active == ActivePeriods(schedule, now_min)
    IN  schedule[CHOOSE i \in active : \A j \in active : i <= j].mode

\* system_state_get_control_flags_locked: the schedule is only consulted
\* outside MANUAL mode.
ControlFlags(current_mode, schedule, now_min) ==
    LET consult == current_mode # MODE_MANUAL /\ schedule # <<>>
        active == consult /\ schedule_is_active(schedule, now_min)
        holding == consult /\ ~active
    IN  [configured |-> schedule # <<>>,
         active |-> active,
         holding |-> holding,
         manual_allowed |-> current_mode = MODE_MANUAL \/ holding]

-----------------------------------------------------------------------------
(* Automatic rules.  available and reading are indexed by source and board; *)
(* act holds the settings before the evaluation.                            *)

HumidityDiffHighEnough(reading) ==
    reading["indoor"].humidity - reading["outdoor"].humidity > HUMIDITY_DIFF_THRESHOLD

OutdoorAirIsGood(reading) == reading["outdoor"].aq <= GOOD_AQ

AbsorberNeeded(reading) ==
    \/ reading["indoor"].humidity > HIGH_HUMIDITY
    \/ reading["indoor"].aq > GOOD_AQ

\* Missing data keeps the window and the door where they are.
WaitForData(act) == Settings(act["window"], FALSE, act["door"], FALSE)

AutoBest(available, reading, act) ==
    IF available["indoor"] /\ available["outdoor"]
    THEN LET open == HumidityDiffHighEnough(reading) /\ OutdoorAirIsGood(reading)
         IN  Settings(open, open, open, AbsorberNeeded(reading))
    ELSE WaitForData(act)

Windy(available, wind_speed) == available["wind"] /\ wind_speed > WIND_HIGH

FanShouldStart(reading) ==
    \/ reading["indoor"].humidity > HIGH_HUMIDITY
    \/ reading["indoor"].temp > AUTO_ECO_FAN_ON_TEMP_C

FanShouldKeepRunning(reading, act) ==
    /\ act["fan"]
    /\ \/ reading["indoor"].humidity > HIGH_HUMIDITY - AUTO_ECO_FAN_HUMIDITY_RELEASE_MARGIN
       \/ reading["indoor"].temp > AUTO_ECO_FAN_OFF_TEMP_C

AutoEco(available, reading, wind_speed, act) ==
    IF available["outdoor"]
    THEN LET open == OutdoorAirIsGood(reading) /\ HumidityDiffHighEnough(reading)
             fan == /\ open
                    /\ ~Windy(available, wind_speed)
                    /\ available["indoor"]
                    /\ FanShouldStart(reading) \/ FanShouldKeepRunning(reading, act)
         IN  Settings(open, fan, open, available["indoor"] /\ AbsorberNeeded(reading))
    ELSE WaitForData(act)

\* A mode other than the two automatic ones changes nothing.
apply_auto_logic(mode, available, reading, wind_speed, act) ==
    CASE mode = MODE_AUTO_BEST -> AutoBest(available, reading, act)
      [] mode = MODE_AUTO_ECO -> AutoEco(available, reading, wind_speed, act)
      [] OTHER -> act

\* The last rule of system_auto_update: no fan behind a closed window.
FanNeedsOpenWindow(s) == [s EXCEPT !["fan"] = s["fan"] /\ s["window"]]

-----------------------------------------------------------------------------
(* Status messages.  A message is a short name for its headline and one     *)
(* for its explanation; absorber: the absorber sentence was appended.       *)

Message(headline, why) == [headline |-> headline, why |-> why, absorber |-> FALSE]

ManualMessage == Message("in_control", "manual")
HoldMessage == Message("take_over", "schedule_inactive")

\* In AUTO_BEST fan = window, so the branch "Fresh air is coming in" (window
\* open, fan off) has no state to apply to and is left out.
BestMessage(available, reading) ==
    LET open == HumidityDiffHighEnough(reading) /\ OutdoorAirIsGood(reading)
    IN  CASE ~(available["indoor"] /\ available["outdoor"]) ->
                Message("thinking", "best_no_data")
          [] OTHER ->
                [CASE open -> Message("fresh_up_inside_toxic", "best_fan_on")
                   [] ~OutdoorAirIsGood(reading) -> Message("outside_toxic", "best_toxic")
                   [] OTHER -> Message("waiting", "best_no_gain")
                 EXCEPT !.absorber = AbsorberNeeded(reading)]

EcoMessage(available, reading, wind_speed, act) ==
    LET open == OutdoorAirIsGood(reading) /\ HumidityDiffHighEnough(reading)
        base == CASE open /\ Windy(available, wind_speed) ->
                        Message("windy", "eco_windy")
                  [] open /\ ~Windy(available, wind_speed) /\ ~available["indoor"] ->
                        Message("one_moment", "eco_no_indoor_data")
                  [] open /\ ~Windy(available, wind_speed) /\ available["indoor"] ->
                        CASE FanShouldStart(reading) -> Message("fresh_up", "eco_fan_on")
                          [] FanShouldKeepRunning(reading, act) /\ ~FanShouldStart(reading) ->
                                Message("fresh_up", "eco_fan_kept_on")
                          [] OTHER -> Message("saving_energy", "eco_fan_off")
                  [] ~OutdoorAirIsGood(reading) -> Message("outside_toxic", "eco_toxic")
                  [] OTHER -> Message("waiting", "eco_no_gain")
    IN  IF available["outdoor"]
        THEN [base EXCEPT !.absorber = available["indoor"] /\ AbsorberNeeded(reading)]
        ELSE Message("looking_outside", "eco_no_outdoor_data")

AutoMessage(mode, available, reading, wind_speed, act, status) ==
    CASE mode = MODE_AUTO_BEST -> BestMessage(available, reading)
      [] mode = MODE_AUTO_ECO -> EcoMessage(available, reading, wind_speed, act)
      [] OTHER -> status
=============================================================================
