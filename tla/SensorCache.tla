----------------------------- MODULE SensorCache -----------------------------
(***************************************************************************)
(* The sensor half of the shared state (src/src/system_state.c) and the    *)
(* broker callback that fills it (src/src/mqtt_broker.c).                  *)
(*                                                                         *)
(* Every access of the cache is a critical section of state_mutex, so a    *)
(* critical section is one action.  What is read before the mutex is taken *)
(* is a step of its own: system_state_refresh_sensor_timeouts samples the  *)
(* clock first and only then waits for the mutex, and mqtt_message_cb      *)
(* stores the node's IP and its readings in two critical sections.         *)
(***************************************************************************)
EXTENDS ControlRules

CONSTANTS
    Publications,   \* the payloads the sensor nodes may publish
    TimeSteps,      \* how far the millisecond clock may advance at once
    MaxClock        \* bound: the clock stops here

INDOOR_SENSOR_TIMEOUT_MS == 1000
OUTDOOR_SENSOR_TIMEOUT_MS == 1000
WIND_SENSOR_TIMEOUT_MS == 5000
TimeoutMs(s) == CASE s = "indoor" -> INDOOR_SENSOR_TIMEOUT_MS
                  [] s = "outdoor" -> OUTDOOR_SENSOR_TIMEOUT_MS
                  [] s = "wind" -> WIND_SENSOR_TIMEOUT_MS

\* A payload: its length, the keys it contains with the offset at which
\* what follows each of them ends, and the numbers themselves.  ip is the
\* text after "IP:", "" when nothing follows.
Key == {"Temp", "H", "AQ", "IP"}
Publication == [topic : Source, len : Nat, fields : SUBSET Key, ends : [Key -> Nat],
                temp : Int, humidity : Nat, aq : Int, ip : STRING, speed : Int]
NoPublication == [topic |-> "wind", len |-> 3, fields |-> {}, ends |-> [k \in Key |-> 3],
                  temp |-> 0, humidity |-> 0, aq |-> 0, ip |-> "", speed |-> 0]

ASSUME SensorAssumption ==
    /\ Publications \subseteq Publication
    /\ TimeSteps \subseteq Nat
    /\ MaxClock \in Nat

VARIABLES
    clock,          \* esp_timer_get_time() / 1000
    available,      \* the *_data_available flags
    last_update_ms, \* the *_last_update_ms stamps
    reading,        \* temperature, humidity and air quality of each board
    wind_speed,
    node_ip,        \* indoor_ip_address, outdoor_ip_address
    now,            \* the clock sample a refreshing task holds, or NotSampled
    callback        \* progress of mqtt_message_cb on the broker task

cache_vars == <<available, last_update_ms, reading, wind_speed, node_ip>>
sensor_vars == <<clock, available, last_update_ms, reading, wind_speed, node_ip, now, callback>>

NotSampled == -1

SensorInit ==
    /\ clock = 0
    /\ available = [s \in Source |-> FALSE]
    /\ last_update_ms = [s \in Source |-> 0]
    /\ reading = [b \in Board |-> ZeroReading]
    /\ wind_speed = 0
    /\ node_ip = [b \in Board |-> "--"]
    /\ now = [t \in Task |-> NotSampled]
    /\ callback = [stage |-> "idle", msg |-> NoPublication]

Tick(d) ==
    /\ clock + d <= MaxClock
    /\ clock' = clock + d
    /\ UNCHANGED <<cache_vars, now, callback>>

-----------------------------------------------------------------------------
(* mqtt_message_cb *)

PAYLOAD_SIZE == 96

\* Mutant: the bound tested on the eight low bits, the length copied in full.
CopyLengthUnbounded(len) == IF len % 256 < PAYLOAD_SIZE - 1 THEN len ELSE PAYLOAD_SIZE - 1

\* copy_len: the length is compared, and kept, as a uint8_t.
CopyLength(len) == IF len % 256 < PAYLOAD_SIZE - 1 THEN len % 256 ELSE PAYLOAD_SIZE - 1

\* The keys the callback finds in its copy of the payload.
Seen(m) == {k \in m.fields : m.ends[k] <= CopyLength(m.len)}

CarriesIp(m) == m.topic \in Board /\ "IP" \in Seen(m)

\* The broker hands over a payload; nothing shared is touched yet.
MessageArrives(m) ==
    /\ callback.stage = "idle"
    /\ callback' = [stage |-> IF CarriesIp(m) THEN "ip" ELSE "sensor", msg |-> m]
    /\ UNCHANGED <<clock, cache_vars, now>>

\* copy_node_ip_locked: an empty address is shown as "--".
CopyNodeIp(ip) == IF ip = "" THEN "--" ELSE ip

\* Mutant: the outdoor branch copied from the indoor one.
UpdateIndoorIpOnly ==
    /\ callback.stage = "ip"
    /\ node_ip' = [node_ip EXCEPT !["indoor"] = CopyNodeIp(callback.msg.ip)]
    /\ callback' = [callback EXCEPT !.stage = "sensor"]
    /\ UNCHANGED <<clock, available, last_update_ms, reading, wind_speed, now>>

UpdateNodeIp ==
    /\ callback.stage = "ip"
    /\ node_ip' = [node_ip EXCEPT ![callback.msg.topic] = CopyNodeIp(callback.msg.ip)]
    /\ callback' = [callback EXCEPT !.stage = "sensor"]
    /\ UNCHANGED <<clock, available, last_update_ms, reading, wind_speed, now>>

\* Mutant: a reading wider than the global it is stored in.
ParsedReadingUntruncated(m) ==
    [temp |-> IF "Temp" \in Seen(m) THEN m.temp ELSE 0,
     humidity |-> IF "H" \in Seen(m) THEN m.humidity ELSE 0,
     aq |-> IF "AQ" \in Seen(m) THEN m.aq ELSE 0]

\* A key the payload lacks leaves its number at 0; atoi's int is stored in
\* a uint8_t.
ParsedReading(m) ==
    [temp |-> IF "Temp" \in Seen(m) THEN m.temp ELSE 0,
     humidity |-> IF "H" \in Seen(m) THEN m.humidity ELSE 0,
     aq |-> (IF "AQ" \in Seen(m) THEN m.aq ELSE 0) % 256]

StoreReading(m) ==
    /\ reading' = IF m.topic \in Board
                  THEN [reading EXCEPT ![m.topic] = ParsedReading(m)]
                  ELSE reading
    /\ wind_speed' = IF m.topic = "wind" THEN m.speed ELSE wind_speed
    /\ available' = [available EXCEPT ![m.topic] = TRUE]
    /\ last_update_ms' = [last_update_ms EXCEPT ![m.topic] = clock]

UpdateSensor ==
    /\ callback.stage = "sensor"
    /\ StoreReading(callback.msg)
    /\ callback' = [stage |-> "idle", msg |-> NoPublication]
    /\ UNCHANGED <<clock, node_ip, now>>

-----------------------------------------------------------------------------
(* system_state_refresh_sensor_timeouts, called by task t: both tasks do. *)

SampleNow(t) ==
    /\ now[t] = NotSampled
    /\ now' = [now EXCEPT ![t] = clock]
    /\ UNCHANGED <<clock, cache_vars, callback>>

\* Mutants: the age computed unsigned; the wind timeout forgotten.
TimedOutUnsigned(s, at) ==
    available[s] /\ (at < last_update_ms[s] \/ at - last_update_ms[s] > TimeoutMs(s))
TimedOutBoardsOnly(s, at) ==
    s \in Board /\ available[s] /\ at - last_update_ms[s] > TimeoutMs(s)

\* int64_t arithmetic: a stamp newer than the sample gives a negative age.
TimedOut(s, at) == available[s] /\ at - last_update_ms[s] > TimeoutMs(s)

\* Mutant: only the availability flag is cleared.
KeepReading(b, timed_out) == reading[b]

ResetReading(b, timed_out) == IF timed_out THEN ZeroReading ELSE reading[b]

RefreshTimeouts(t) ==
    /\ now[t] # NotSampled
    /\ available' = [s \in Source |-> available[s] /\ ~TimedOut(s, now[t])]
    /\ reading' = [b \in Board |-> ResetReading(b, TimedOut(b, now[t]))]
    /\ wind_speed' = IF TimedOut("wind", now[t]) THEN 0 ELSE wind_speed
    /\ now' = [now EXCEPT ![t] = NotSampled]
    /\ UNCHANGED <<clock, last_update_ms, node_ip, callback>>

-----------------------------------------------------------------------------
SensorNext ==
    \/ \E d \in TimeSteps : Tick(d)
    \/ \E m \in Publications : MessageArrives(m)
    \/ UpdateNodeIp
    \/ UpdateSensor
    \/ \E t \in Task : SampleNow(t)
    \/ \E t \in Task : RefreshTimeouts(t)

\* Only system_task refreshes without being asked: it loops forever.
SensorFairness ==
    /\ WF_sensor_vars(SampleNow("system_task"))
    /\ WF_sensor_vars(RefreshTimeouts("system_task"))

SensorSpec == SensorInit /\ [][SensorNext]_sensor_vars /\ SensorFairness

-----------------------------------------------------------------------------
(* Properties *)

\* The addresses the globals can hold.
Address == {"--"} \cup {m.ip : m \in Publications \cup {NoPublication}}

\* The variables hold values the C globals can hold, and no task holds a
\* clock sample or a stamp from the future.
SensorTypeOK ==
    /\ clock \in Nat
    /\ available \in [Source -> BOOLEAN]
    /\ last_update_ms \in [Source -> Nat]
    /\ reading \in [Board -> Reading]
    /\ wind_speed \in Int
    /\ node_ip \in [Board -> Address]
    /\ now \in [Task -> Nat \cup {NotSampled}]
    /\ callback \in [stage : {"idle", "ip", "sensor"}, msg : Publications \cup {NoPublication}]
    /\ \A t \in Task : now[t] <= clock
    /\ \A s \in Source : last_update_ms[s] <= clock

\* A source without data reads zero everywhere: the control logic, which
\* tests only some of the availability flags, never sees leftovers of a
\* reading that timed out (reset_*_sensor_state_locked).
NoLeftoverReadings ==
    /\ \A b \in Board : ~available[b] => reading[b] = ZeroReading
    /\ ~available["wind"] => wind_speed = 0

\* A refresh that sampled the clock, then lost the race for the mutex to a
\* fresh reading, must not throw that reading away: data is dropped only
\* when it really is older than its timeout, by the clock of that moment.
NoSpuriousTimeout ==
    [][\A s \in Source : available[s] /\ ~available'[s]
            => clock - last_update_ms[s] > TimeoutMs(s)]_sensor_vars

\* The nodes' payloads carry their address (api.md), and mqtt_message_cb
\* stores it before the readings: a board whose data is shown as present
\* always has an address to show beside it (oled_status.c reads both).
ConnectedBoardHasIp ==
    (\A m \in Publications : m.topic \in Board => CarriesIp(m) /\ m.ip \notin {"", "--"})
        => \A b \in Board : available[b] => node_ip[b] # "--"

\* A source that stops publishing is eventually marked missing by
\* system_task, whoever else refreshes or publishes meanwhile.
StaleDataIsDropped ==
    \A s \in Source :
        (available[s] /\ clock - last_update_ms[s] > TimeoutMs(s))
            ~> (~available[s] \/ clock - last_update_ms[s] <= TimeoutMs(s))

\* Whatever length a payload has, memcpy stays inside both the payload and
\* the callback's buffer with its terminator; and a payload that fits, as the
\* documented ones do, is seen in full.
CopyStaysInside ==
    LET m == callback.msg
    IN  /\ CopyLength(m.len) <= m.len
        /\ CopyLength(m.len) <= PAYLOAD_SIZE - 1
        /\ m.len < PAYLOAD_SIZE /\ (\A k \in m.fields : m.ends[k] <= m.len)
                => Seen(m) = m.fields

=============================================================================
