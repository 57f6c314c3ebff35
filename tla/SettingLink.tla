----------------------------- MODULE SettingLink ------------------------------
(***************************************************************************)
(* What the way of a setting to the nodes promises.  The center decides on *)
(* settings; for each actuator that changed it owes the nodes one value,   *)
(* in the order window, fan, door, absorber; the nodes are told the owed   *)
(* values in the order in which they became owed, each at least once, and  *)
(* in the end all of them.  Comparing with last_*, mqtt_publish, outbox,   *)
(* lost connections and acknowledgements are how ActuatorPublish does it.  *)
(***************************************************************************)
EXTENDS ControlRules

CONSTANT Decisions  \* the settings that may be decided on

VARIABLES
    setting,    \* the settings in force
    owed,       \* what the nodes have not been told, or not for certain
    told        \* what the nodes have been told last about each actuator

setting_link_vars == <<setting, owed, told>>

Value(on) == IF on THEN "1" ELSE "0"

\* The values a change of the settings from old to new owes the nodes.
Due(old, new, x) ==
    IF new[x] # old[x] THEN <<[topic |-> x, value |-> Value(new[x])]>> ELSE <<>>
Changes(old, new) ==
    Due(old, new, "window") \o (Due(old, new, "fan")
        \o (Due(old, new, "door") \o Due(old, new, "absorber")))

SettingLinkInit ==
    /\ setting = AllOff
    /\ owed = <<>>
    /\ told = [x \in Topic |-> "none"]

DecideOn(s) ==
    /\ setting' = s
    /\ owed' = owed \o Changes(setting, s)
    /\ UNCHANGED told

OldestIsTold ==
    /\ owed # <<>>
    /\ told' = [told EXCEPT ![Head(owed).topic] = Head(owed).value]

\* Told for certain ...
Tell ==
    /\ OldestIsTold
    /\ owed' = Tail(owed)
    /\ UNCHANGED setting

\* ... or told, and to be told once more.
TellAgain ==
    /\ OldestIsTold
    /\ UNCHANGED <<setting, owed>>

SettingLinkNext ==
    \/ \E s \in Decisions : DecideOn(s)
    \/ Tell
    \/ TellAgain

\* WF(Tell) with its ENABLED written out: what is owed is told in the end.
WhatIsOwedIsTold == []<>(owed = <<>>) \/ []<><<Tell>>_setting_link_vars

SettingLinkSafety == SettingLinkInit /\ [][SettingLinkNext]_setting_link_vars
SettingLinkSpec == SettingLinkSafety /\ WhatIsOwedIsTold
=============================================================================
