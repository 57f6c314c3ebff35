---------------------------- MODULE MCCommCenter ----------------------------
EXTENDS CommCenter

BoardPublication(b, temp, hum, aq) ==
    [topic |-> b, len |-> 41, fields |-> Key, ends |-> [k \in Key |-> 41],
     temp |-> temp, humidity |-> hum, aq |-> aq, ip |-> b, speed |-> 0]

\* Indoor air that calls for the fan and the absorber, outdoor air that is
\* dry enough to let in.
HumidIndoor == BoardPublication("indoor", 20, 60, 40)
DryOutdoor == BoardPublication("outdoor", 10, 30, 40)

PostMode(mode) == [NoRequest EXCEPT !.uri = "POST_mode", !.mode = mode]
PostActuators(want) == [NoRequest EXCEPT !.uri = "POST_actuators", !.want = want]
PostSchedule(periods) == [NoRequest EXCEPT !.uri = "POST_schedule", !.periods = periods]
Get(uri) == [NoRequest EXCEPT !.uri = uri]
Malformed(r) == [r EXCEPT !.well_formed = FALSE]

At0800 == <<0, 8, 10, 0, 0>>
At1800 == <<1, 8, 10, 0, 0>>
At2200 == <<2, 2, 10, 0, 0>>
At0600 == <<0, 6, 10, 0, 0>>
Object(start, end, mode) ==
    [start |-> start, end |-> end, quoted |-> FALSE, mode |-> mode, closed |-> TRUE]
Unparsed(p) == [p EXCEPT !.quoted = TRUE]

NoPublications == {}
NoSteps == {}
MCPublications == {HumidIndoor, DryOutdoor}
MCLateStep == {1001}
Noon == {720}

DayPlan == <<Object(At0800, At1800, MODE_AUTO_ECO)>>
\* Two overlapping periods of different modes, one of them over midnight,
\* an object that does not parse, and more objects than the schedule holds.
NightPlan == << Unparsed(Object(At0800, At0800, MODE_AUTO_ECO)),
                Object(At2200, At0800, MODE_AUTO_BEST) >>
             \o [i \in 1..8 |-> Object(At0600, At0800, MODE_AUTO_ECO)]
NoonAndNight == {720, 1380}

OpenWithFan == Settings(TRUE, TRUE, FALSE, FALSE)
FanOnly == Settings(FALSE, TRUE, FALSE, FALSE)

\* Both publishers, and a schedule that turns manual control on and off.
MCControlRequests ==
    { PostMode(MODE_AUTO_BEST), PostMode(MODE_MANUAL),
      PostActuators(OpenWithFan), PostActuators(FanOnly),
      PostSchedule(NightPlan) }

\* Liveness of the control loop: one schedule, both kinds of mode, and every
\* handler with every way it has of answering.
MCPlanRequests ==
    { PostMode(MODE_AUTO_BEST), PostMode(MODE_MANUAL), PostMode(3),
      PostSchedule(DayPlan), PostSchedule(<<>>), Malformed(PostSchedule(<<>>)),
      PostActuators(AllOff), PostActuators(FanOnly), Malformed(PostActuators(AllOff)),
      Get("GET_sensors"), Get("GET_status"), Get("GET_schedule") }

\* Automatic control alone: modes are chosen and the sensors are read while
\* data comes and goes.
MCModeRequests ==
    { PostMode(MODE_AUTO_ECO), PostMode(MODE_AUTO_BEST), PostMode(MODE_MANUAL),
      Get("GET_sensors") }
=============================================================================
