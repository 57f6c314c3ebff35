-------------------------- MODULE CommCenterProofs ---------------------------
(***************************************************************************)
(* The whole communication center: what holds however system_task, the     *)
(* server task, the broker task and the MQTT client interleave, for every  *)
(* set of requests, payloads and minutes and every bound.  First what      *)
(* holds of the sensor cache by itself, for every set of payloads, every   *)
(* clock and every way its tasks interleave.                               *)
(***************************************************************************)
EXTENDS CommCenter, ActuatorPublishProofs, ScheduleTextProofs

-----------------------------------------------------------------------------
(* The sensor cache *)

\* The topic of a payload in flight is one of the three sources; whoever
\* handles it finds a complete record.
LEMMA PublicationFields ==
    ASSUME NEW m \in Publications \cup {NoPublication}
    PROVE  /\ m.topic \in Source
           /\ m.temp \in Int /\ m.humidity \in Nat /\ m.aq \in Int
           /\ m.speed \in Int
<1>1. CASE m \in Publications
  <2>1. m \in Publication
    BY <1>1, SensorAssumption
  <2> QED BY <2>1 DEF Publication
<1>2. CASE m = NoPublication
  <2>1. /\ m.topic = "wind" /\ m.temp = 0 /\ m.humidity = 0
        /\ m.aq = 0 /\ m.speed = 0
    BY <1>2 DEF NoPublication
  <2> QED BY <2>1 DEF Source
<1> QED BY <1>1, <1>2

\* mqtt_message_cb's numbers fit the globals, whatever a payload lacks.
LEMMA ParsedReadingType ==
    ASSUME NEW m \in Publications \cup {NoPublication}
    PROVE  ParsedReading(m) \in Reading
<1>1. m.temp \in Int /\ m.humidity \in Nat /\ m.aq \in Int
  BY PublicationFields
<1>2. \A n \in Int : n % 256 \in 0..255
  OBVIOUS
<1> QED BY <1>1, <1>2 DEF ParsedReading, Reading

LEMMA ZeroReadingType == ZeroReading \in Reading
  BY DEF ZeroReading, Reading

LEMMA SensorInitType == SensorInit => SensorTypeOK
<1> SUFFICES ASSUME SensorInit
             PROVE  SensorTypeOK
  OBVIOUS
<1> USE DEF SensorInit
<1>1. /\ clock \in Nat /\ wind_speed \in Int
      /\ available \in [Source -> BOOLEAN]
      /\ node_ip \in [Board -> Address]
  BY DEF Address
<1>5. last_update_ms \in [Source -> Nat] /\ \A s \in Source : last_update_ms[s] <= clock
  OBVIOUS
<1>2. reading \in [Board -> Reading]
  BY ZeroReadingType
<1>3. now \in [Task -> Nat \cup {NotSampled}] /\ \A t \in Task : now[t] <= clock
  BY DEF NotSampled
<1>4. callback \in [stage : {"idle", "ip", "sensor"}, msg : Publications \cup {NoPublication}]
  OBVIOUS
<1> QED BY <1>1, <1>2, <1>3, <1>4, <1>5 DEF SensorTypeOK

LEMMA SensorStepType ==
    SensorTypeOK /\ [SensorNext]_sensor_vars => SensorTypeOK'
<1> SUFFICES ASSUME SensorTypeOK, [SensorNext]_sensor_vars
             PROVE  SensorTypeOK'
  OBVIOUS
<1> USE DEF SensorTypeOK
<1>1. ASSUME NEW d \in TimeSteps, Tick(d)
      PROVE  SensorTypeOK'
  <2>1. d \in Nat
    BY SensorAssumption
  <2> QED BY <1>1, <2>1 DEF Tick, cache_vars, NotSampled
<1>2. ASSUME NEW m \in Publications, MessageArrives(m)
      PROVE  SensorTypeOK'
  BY <1>2 DEF MessageArrives, cache_vars
<1>3. CASE UpdateNodeIp
  <2>1. callback.msg \in Publications \cup {NoPublication}
    OBVIOUS
  <2>2. CopyNodeIp(callback.msg.ip) \in Address
    BY <2>1 DEF CopyNodeIp, Address
  <2> QED BY <1>3, <2>2 DEF UpdateNodeIp
<1>4. CASE UpdateSensor
  <2> DEFINE m == callback.msg
  <2>1. m \in Publications \cup {NoPublication}
    OBVIOUS
  <2>2. ParsedReading(m) \in Reading /\ m.speed \in Int /\ m.topic \in Source
    BY <2>1, ParsedReadingType, PublicationFields
  <2>3. reading' \in [Board -> Reading] /\ wind_speed' \in Int
    BY <1>4, <2>2 DEF UpdateSensor, StoreReading
  <2>4. /\ available' \in [Source -> BOOLEAN]
        /\ last_update_ms' \in [Source -> Nat]
        /\ \A s \in Source : last_update_ms'[s] <= clock
    BY <1>4, <2>2 DEF UpdateSensor, StoreReading
  <2>5. callback' \in [stage : {"idle", "ip", "sensor"}, msg : Publications \cup {NoPublication}]
    BY <1>4 DEF UpdateSensor
  <2> QED BY <1>4, <2>3, <2>4, <2>5 DEF UpdateSensor
<1>5. ASSUME NEW t \in Task, SampleNow(t)
      PROVE  SensorTypeOK'
  BY <1>5 DEF SampleNow, cache_vars
<1>6. ASSUME NEW t \in Task, RefreshTimeouts(t)
      PROVE  SensorTypeOK'
  <2>1. reading' \in [Board -> Reading] /\ wind_speed' \in Int
    BY <1>6, ZeroReadingType DEF RefreshTimeouts, ResetReading
  <2>2. available' \in [Source -> BOOLEAN]
    BY <1>6 DEF RefreshTimeouts
  <2>3. /\ now' \in [Task -> Nat \cup {NotSampled}]
        /\ \A u \in Task : now'[u] <= clock
    BY <1>6 DEF RefreshTimeouts, NotSampled
  <2> QED BY <1>6, <2>1, <2>2, <2>3 DEF RefreshTimeouts
<1>7. CASE UNCHANGED sensor_vars
  BY <1>7 DEF sensor_vars
<1> QED BY <1>1, <1>2, <1>3, <1>4, <1>5, <1>6, <1>7 DEF SensorNext

\* The variables hold values the C globals can hold; in particular a task
\* never holds a clock sample or a stamp from the future.
THEOREM SensorTypeCorrect == SensorSpec => []SensorTypeOK
<1>1. SensorInit => SensorTypeOK
  BY SensorInitType
<1>2. SensorTypeOK /\ [SensorNext]_sensor_vars => SensorTypeOK'
  BY SensorStepType
<1> QED BY <1>1, <1>2, PTL DEF SensorSpec

-----------------------------------------------------------------------------
LEMMA LeftoversStep ==
    ASSUME SensorTypeOK, NoLeftoverReadings, [SensorNext]_sensor_vars
    PROVE  NoLeftoverReadings'
<1> USE DEF NoLeftoverReadings
<1>1. ASSUME NEW d \in TimeSteps, Tick(d)
      PROVE  NoLeftoverReadings'
  BY <1>1 DEF Tick, cache_vars
<1>2. ASSUME NEW m \in Publications, MessageArrives(m)
      PROVE  NoLeftoverReadings'
  BY <1>2 DEF MessageArrives, cache_vars
<1>3. CASE UpdateNodeIp
  BY <1>3 DEF UpdateNodeIp
<1>4. CASE UpdateSensor
  \* Only the source that became available gets a new reading.
  <2> DEFINE m == callback.msg
  <2>1. m.topic \in Source
    BY PublicationFields DEF SensorTypeOK
  <2>2. \A s \in Source : s # m.topic => available'[s] = available[s]
    BY <1>4 DEF UpdateSensor, StoreReading, SensorTypeOK
  <2>3. available'[m.topic]
    BY <1>4, <2>1 DEF UpdateSensor, StoreReading, SensorTypeOK
  <2>4. \A b \in Board : b # m.topic => reading'[b] = reading[b]
    BY <1>4 DEF UpdateSensor, StoreReading, SensorTypeOK
  <2>5. m.topic # "wind" => wind_speed' = wind_speed
    BY <1>4 DEF UpdateSensor, StoreReading
  <2> QED BY <2>2, <2>3, <2>4, <2>5 DEF Source, Board
<1>5. ASSUME NEW t \in Task, SampleNow(t)
      PROVE  NoLeftoverReadings'
  BY <1>5 DEF SampleNow, cache_vars
<1>6. ASSUME NEW t \in Task, RefreshTimeouts(t)
      PROVE  NoLeftoverReadings'
  \* What becomes unavailable is reset in the same critical section.
  <2>1. \A b \in Board : ~available'[b] => reading'[b] = ZeroReading
    BY <1>6 DEF RefreshTimeouts, ResetReading, TimedOut, Source, SensorTypeOK
  <2>2. ~available'["wind"] => wind_speed' = 0
    BY <1>6 DEF RefreshTimeouts, TimedOut, Source, SensorTypeOK
  <2> QED BY <2>1, <2>2
<1>7. CASE UNCHANGED sensor_vars
  BY <1>7 DEF sensor_vars
<1> QED BY <1>1, <1>2, <1>3, <1>4, <1>5, <1>6, <1>7 DEF SensorNext

\* A source without data reads zero, whoever timed it out and whatever
\* arrived meanwhile.
THEOREM NoLeftovers == SensorSpec => []NoLeftoverReadings
<1>1. SensorInit => NoLeftoverReadings
  BY DEF SensorInit, NoLeftoverReadings
<1>2. SensorTypeOK /\ NoLeftoverReadings /\ [SensorNext]_sensor_vars => NoLeftoverReadings'
  BY LeftoversStep
<1> QED BY <1>1, <1>2, SensorTypeCorrect, PTL DEF SensorSpec

-----------------------------------------------------------------------------
\* The sample a task compares with is not newer than the clock, so what looks
\* too old by the sample is too old by the clock.
LEMMA TimeoutStep ==
    ASSUME SensorTypeOK, [SensorNext]_sensor_vars,
           NEW s \in Source, available[s], ~available'[s]
    PROVE  clock - last_update_ms[s] > TimeoutMs(s)
<1> USE DEF SensorTypeOK
<1>1. ASSUME NEW d \in TimeSteps, Tick(d)
      PROVE  FALSE
  BY <1>1 DEF Tick, cache_vars
<1>2. ASSUME NEW m \in Publications, MessageArrives(m)
      PROVE  FALSE
  BY <1>2 DEF MessageArrives, cache_vars
<1>3. CASE UpdateNodeIp
  BY <1>3 DEF UpdateNodeIp
<1>4. CASE UpdateSensor
  BY <1>4 DEF UpdateSensor, StoreReading
<1>5. ASSUME NEW t \in Task, SampleNow(t)
      PROVE  FALSE
  BY <1>5 DEF SampleNow, cache_vars
<1>6. ASSUME NEW t \in Task, RefreshTimeouts(t)
      PROVE  clock - last_update_ms[s] > TimeoutMs(s)
  <2>1. TimedOut(s, now[t])
    BY <1>6 DEF RefreshTimeouts
  <2>2. now[t] <= clock /\ now[t] \in Int /\ last_update_ms[s] \in Int /\ clock \in Int
    BY DEF NotSampled
  <2>3. TimeoutMs(s) \in Int
    BY DEF TimeoutMs, Source, Board, INDOOR_SENSOR_TIMEOUT_MS,
           OUTDOOR_SENSOR_TIMEOUT_MS, WIND_SENSOR_TIMEOUT_MS
  <2> QED BY <2>1, <2>2, <2>3 DEF TimedOut
<1>7. CASE UNCHANGED sensor_vars
  BY <1>7 DEF sensor_vars
<1> QED BY <1>1, <1>2, <1>3, <1>4, <1>5, <1>6, <1>7 DEF SensorNext

\* No fresh reading is dropped by a task that sampled the clock before the
\* reading arrived.
THEOREM TimeoutsAreJustified == SensorSpec => NoSpuriousTimeout
<1>1. SensorTypeOK /\ [SensorNext]_sensor_vars
        => [\A s \in Source : available[s] /\ ~available'[s]
                => clock - last_update_ms[s] > TimeoutMs(s)]_sensor_vars
  BY TimeoutStep
<1> QED BY <1>1, SensorTypeCorrect, PTL DEF SensorSpec, NoSpuriousTimeout

-----------------------------------------------------------------------------
\* Nodes that always send their address.
AddressesSent == \A m \in Publications : m.topic \in Board => CarriesIp(m) /\ m.ip \notin {"", "--"}

\* The strengthening: a payload in flight is one of the nodes', and by the
\* time its readings are stored its address has been.
IpInv ==
    /\ callback.stage # "idle" => callback.msg \in Publications
    /\ callback.stage = "sensor" /\ callback.msg.topic \in Board
            => node_ip[callback.msg.topic] # "--"
    /\ \A b \in Board : available[b] => node_ip[b] # "--"

LEMMA IpInvInit == SensorInit => IpInv
<1> SUFFICES ASSUME SensorInit
             PROVE  IpInv
  OBVIOUS
<1>1. callback.stage = "idle"
  BY DEF SensorInit
<1>2. \A b \in Board : ~available[b]
  BY DEF SensorInit, Source
<1> QED BY <1>1, <1>2 DEF IpInv

LEMMA IpInvStep ==
    ASSUME AddressesSent, SensorTypeOK, IpInv, [SensorNext]_sensor_vars
    PROVE  IpInv'
<1> USE DEF IpInv, SensorTypeOK
<1>1. ASSUME NEW d \in TimeSteps, Tick(d)
      PROVE  IpInv'
  BY <1>1 DEF Tick, cache_vars
<1>2. ASSUME NEW m \in Publications, MessageArrives(m)
      PROVE  IpInv'
  <2>1. callback'.msg = m /\ callback'.stage = (IF CarriesIp(m) THEN "ip" ELSE "sensor")
    BY <1>2 DEF MessageArrives
  <2>2. m.topic \in Board => callback'.stage = "ip"
    BY <2>1 DEF AddressesSent
  <2> QED BY <1>2, <2>1, <2>2 DEF MessageArrives, cache_vars
<1>3. CASE UpdateNodeIp
  <2>1. callback.msg \in Publications /\ callback'.msg = callback.msg /\ callback'.stage = "sensor"
    BY <1>3 DEF UpdateNodeIp
  <2>2. callback.msg.topic \in Board => CopyNodeIp(callback.msg.ip) # "--"
    BY <2>1 DEF AddressesSent, CopyNodeIp
  <2>3. \A b \in Board : node_ip'[b] = IF b = callback.msg.topic
                                       THEN CopyNodeIp(callback.msg.ip) ELSE node_ip[b]
    BY <1>3 DEF UpdateNodeIp
  <2> QED BY <1>3, <2>1, <2>2, <2>3 DEF UpdateNodeIp
<1>4. CASE UpdateSensor
  <2>1. callback'.stage = "idle"
    BY <1>4 DEF UpdateSensor
  <2>2. \A b \in Board : available'[b] => available[b] \/ b = callback.msg.topic
    BY <1>4 DEF UpdateSensor, StoreReading, Source
  <2> QED BY <1>4, <2>1, <2>2 DEF UpdateSensor
<1>5. ASSUME NEW t \in Task, SampleNow(t)
      PROVE  IpInv'
  BY <1>5 DEF SampleNow, cache_vars
<1>6. ASSUME NEW t \in Task, RefreshTimeouts(t)
      PROVE  IpInv'
  <2>1. \A b \in Board : available'[b] => available[b]
    BY <1>6 DEF RefreshTimeouts, Source
  <2> QED BY <1>6, <2>1 DEF RefreshTimeouts
<1>7. CASE UNCHANGED sensor_vars
  BY <1>7 DEF sensor_vars
<1> QED BY <1>1, <1>2, <1>3, <1>4, <1>5, <1>6, <1>7 DEF SensorNext

\* Nodes that send their address with every reading are never shown as
\* connected without one, however their payloads interleave with timeouts.
THEOREM ConnectedBoardsHaveIps == SensorSpec => []ConnectedBoardHasIp
<1>1. CASE AddressesSent
  <2>1. SensorInit => IpInv
    BY IpInvInit
  <2>2. SensorTypeOK /\ IpInv /\ [SensorNext]_sensor_vars => IpInv'
    BY <1>1, IpInvStep
  <2>3. IpInv => ConnectedBoardHasIp
    BY DEF IpInv, ConnectedBoardHasIp
  <2> QED BY <2>1, <2>2, <2>3, SensorTypeCorrect, PTL DEF SensorSpec
<1>2. CASE ~AddressesSent
  <2>1. ConnectedBoardHasIp
    BY <1>2 DEF AddressesSent, ConnectedBoardHasIp
  <2> QED BY <2>1, PTL
<1> QED BY <1>1, <1>2
-----------------------------------------------------------------------------
\* The 8-bit length never exceeds the real one nor the buffer, and is the
\* real one when the payload fits.
LEMMA CopyLengthBounds ==
    ASSUME NEW len \in Nat
    PROVE  /\ CopyLength(len) \in 0..PAYLOAD_SIZE - 1
           /\ CopyLength(len) <= len
           /\ len < PAYLOAD_SIZE => CopyLength(len) = len
<1>1. len % 256 \in 0..255 /\ len % 256 <= len /\ (len < 256 => len % 256 = len)
  OBVIOUS
<1> QED BY <1>1 DEF CopyLength, PAYLOAD_SIZE

LEMMA PayloadShape ==
    ASSUME NEW m \in Publications \cup {NoPublication}
    PROVE  m.len \in Nat /\ m.ends \in [Key -> Nat] /\ m.fields \subseteq Key
<1>1. CASE m \in Publications
  <2>1. m \in Publication
    BY <1>1, SensorAssumption
  <2> QED BY <2>1 DEF Publication
<1>2. CASE m = NoPublication
  BY <1>2 DEF NoPublication
<1> QED BY <1>1, <1>2

\* memcpy stays inside payload and buffer for payloads of every length
\* (mqtt_message_cb), and what fits is seen in full.
THEOREM CopiesStayInside == SensorSpec => []CopyStaysInside
<1>1. ASSUME SensorTypeOK
      PROVE  CopyStaysInside
  <2> DEFINE m == callback.msg
  <2>1. m \in Publications \cup {NoPublication}
    BY <1>1 DEF SensorTypeOK
  <2>2. m.len \in Nat /\ m.ends \in [Key -> Nat] /\ m.fields \subseteq Key
    BY <2>1, PayloadShape
  <2> HIDE DEF m
  <2>3. /\ CopyLength(m.len) <= m.len
        /\ CopyLength(m.len) <= PAYLOAD_SIZE - 1
    BY <2>2, CopyLengthBounds DEF PAYLOAD_SIZE
  <2>4. ASSUME m.len < PAYLOAD_SIZE, \A k \in m.fields : m.ends[k] <= m.len
        PROVE  Seen(m) = m.fields
    <3>1. CopyLength(m.len) = m.len
      BY <2>2, <2>4, CopyLengthBounds
    <3> QED BY <2>4, <3>1 DEF Seen
  <2> QED BY <2>3, <2>4 DEF CopyStaysInside, m
<1> QED BY <1>1, SensorTypeCorrect, PTL

-----------------------------------------------------------------------------

(* What a step does to the parts the center is composed of. *)

LEMMA SensorSteps ==
    ASSUME [CommCenterNext]_vars
    PROVE  [SensorNext]_sensor_vars
<1> USE DEF SensorNext
<1>1. CASE SensorStep
  BY <1>1 DEF SensorStep
<1>2. CASE MinuteStep
  BY <1>2 DEF MinuteStep, ClockShows
<1>3. CASE SystemStep
  <2>1. CASE SystemSamplesNow \/ SystemRefreshes
    BY <2>1 DEF SystemSamplesNow, SystemRefreshes, Task
  <2>2. CASE ManualUpdate \/ HoldUpdate \/ AutoUpdate
    BY <2>2 DEF ManualUpdate, HoldUpdate, AutoUpdate, UpdateDone
  <2> QED BY <1>3, <2>1, <2>2 DEF SystemStep, SystemTask
<1>4. CASE HttpTask
  <2>1. CASE SensorsSamplesNow \/ SensorsRefreshes
    BY <2>1 DEF SensorsSamplesNow, SensorsRefreshes, Task
  <2>2. CASE SensorsRead \/ StatusFlags \/ StatusHeadline \/ StatusExplanation \/ ScheduleRead
    BY <2>2 DEF SensorsRead, StatusFlags, StatusHeadline, StatusExplanation, ScheduleRead,
                system_vars
  <2>3. CASE ModeRefused \/ ModePost \/ ActuatorsRefused \/ ActuatorsPost
             \/ ScheduleRefused \/ SchedulePost
    BY <2>3 DEF ModeRefused, ModePost, ActuatorsRefused, ActuatorsPost, ScheduleRefused,
                SchedulePost, system_vars
  <2>4. CASE SetMessage \/ SetMessageAndPublish \/ Published \/ Respond
    BY <2>4 DEF SetMessage, SetMessageAndPublish, Published, Respond, system_vars
  <2>5. ASSUME NEW r \in Requests, Receive(r)
        PROVE  UNCHANGED sensor_vars
    BY <2>5 DEF Receive, system_vars
  <2> QED BY <1>4, <2>1, <2>2, <2>3, <2>4, <2>5 DEF HttpTask, Handle
<1>5. ASSUME NEW t \in Task, PublishBy(t)
      PROVE  UNCHANGED sensor_vars
  BY <1>5 DEF PublishBy
<1>6. CASE LinkStep
  BY <1>6 DEF LinkStep
<1>7. CASE UNCHANGED vars
  BY <1>7 DEF vars, sensor_vars
<1> HIDE DEF SensorNext
<1> QED BY <1>1, <1>2, <1>3, <1>4, <1>5, <1>6, <1>7 DEF CommCenterNext

\* The settings and the way to the nodes: the steps of publish_state and of
\* the link, the evaluation of system_task, and POST /actuators in two steps.
LEMMA ActuatorSteps ==
    ASSUME [CommCenterNext]_vars
    PROVE  \/ UNCHANGED actuator_vars
           \/ \E t \in Task : PublishBy(t)
           \/ LinkStep
           \/ AutoUpdate /\ UNCHANGED http
           \/ ActuatorsPost
           \/ SetMessageAndPublish
<1>1. CASE SensorStep
  BY <1>1 DEF SensorStep
<1>2. CASE MinuteStep
  BY <1>2 DEF MinuteStep, ClockShows
<1>3. CASE SystemStep
  <2>1. CASE SystemSamplesNow \/ SystemRefreshes
    BY <2>1 DEF SystemSamplesNow, SystemRefreshes
  <2>2. CASE ManualUpdate \/ HoldUpdate
    BY <2>2 DEF ManualUpdate, HoldUpdate, UpdateDone, actuator_vars, link_vars
  <2> QED BY <1>3, <2>1, <2>2 DEF SystemStep, SystemTask
<1>4. CASE HttpTask
  <2>1. CASE SensorsSamplesNow \/ SensorsRefreshes
    BY <2>1 DEF SensorsSamplesNow, SensorsRefreshes
  <2>2. CASE SensorsRead \/ StatusFlags \/ StatusHeadline \/ StatusExplanation \/ ScheduleRead
    BY <2>2 DEF SensorsRead, StatusFlags, StatusHeadline, StatusExplanation, ScheduleRead,
                system_vars
  <2>3. CASE ModeRefused \/ ModePost \/ ActuatorsRefused \/ ScheduleRefused \/ SchedulePost
    BY <2>3 DEF ModeRefused, ModePost, ActuatorsRefused, ScheduleRefused,
                SchedulePost, system_vars
  <2>4. CASE SetMessage \/ Published \/ Respond
    BY <2>4 DEF SetMessage, Published, Respond, system_vars
  <2>5. ASSUME NEW r \in Requests, Receive(r)
        PROVE  UNCHANGED actuator_vars
    BY <2>5 DEF Receive, system_vars
  <2> QED BY <1>4, <2>1, <2>2, <2>3, <2>4, <2>5 DEF HttpTask, Handle
<1>5. CASE UNCHANGED vars
  BY <1>5 DEF vars, actuator_vars
<1> QED BY <1>1, <1>2, <1>3, <1>4, <1>5 DEF CommCenterNext

-----------------------------------------------------------------------------
(* The operators' results *)

\* Whatever the rules make of the readings is a setting of the actuators.
LEMMA SettingsType ==
    ASSUME NEW w \in BOOLEAN, NEW f \in BOOLEAN, NEW d \in BOOLEAN, NEW a \in BOOLEAN
    PROVE  /\ Settings(w, f, d, a) \in Setting
           /\ Settings(w, f, d, a)["window"] = w
  BY DEF Settings, Setting, Topic

LEMMA RulesType ==
    ASSUME SensorTypeOK, act \in Setting, NEW mode
    PROVE  apply_auto_logic(mode, available, reading, wind_speed, act) \in Setting
<1>1. \A x \in Topic : act[x] \in BOOLEAN
  BY DEF Setting
<1>2. WaitForData(act) \in Setting
  BY <1>1, SettingsType DEF WaitForData, Topic
<1>3. /\ HumidityDiffHighEnough(reading) \in BOOLEAN /\ OutdoorAirIsGood(reading) \in BOOLEAN
      /\ AbsorberNeeded(reading) \in BOOLEAN /\ FanShouldStart(reading) \in BOOLEAN
      /\ Windy(available, wind_speed) \in BOOLEAN /\ FanShouldKeepRunning(reading, act) \in BOOLEAN
      /\ available["indoor"] \in BOOLEAN
  <2>1. /\ HumidityDiffHighEnough(reading) \in BOOLEAN /\ OutdoorAirIsGood(reading) \in BOOLEAN
    BY DEF HumidityDiffHighEnough, OutdoorAirIsGood
  <2>2. AbsorberNeeded(reading) \in BOOLEAN /\ FanShouldStart(reading) \in BOOLEAN
    BY DEF AbsorberNeeded, FanShouldStart
  <2>3. Windy(available, wind_speed) \in BOOLEAN
    BY DEF Windy
  <2>4. FanShouldKeepRunning(reading, act) \in BOOLEAN
    BY DEF FanShouldKeepRunning
  <2>5. available["indoor"] \in BOOLEAN
    BY DEF SensorTypeOK, Source, Board
  <2> QED BY <2>1, <2>2, <2>3, <2>4, <2>5
<1>4. AutoBest(available, reading, act) \in Setting
  BY <1>2, <1>3, SettingsType DEF AutoBest
<1>5. AutoEco(available, reading, wind_speed, act) \in Setting
  BY <1>2, <1>3, SettingsType DEF AutoEco
<1> QED BY <1>4, <1>5 DEF apply_auto_logic

LEMMA AutoSettingsType ==
    ASSUME SensorTypeOK, act \in Setting
    PROVE  /\ AutoSettings \in Setting
           /\ AutoSettings["fan"] => AutoSettings["window"]
<1> DEFINE s == apply_auto_logic(ActiveMode, available, reading, wind_speed, act)
<1>1. s \in Setting
  BY RulesType
<1> HIDE DEF s
<1>2. /\ FanNeedsOpenWindow(s) \in Setting
      /\ FanNeedsOpenWindow(s)["fan"] => FanNeedsOpenWindow(s)["window"]
  BY <1>1 DEF FanNeedsOpenWindow, Setting, Topic
<1> QED BY <1>2 DEF AutoSettings, s

\* A set of numbers has a least one, so the first active period is defined.
LEMMA FirstPeriod ==
    ASSUME NEW S, S \subseteq Nat, S # {}
    PROVE  (CHOOSE i \in S : \A j \in S : i <= j) \in S
<1>1. PICK m \in S : \A n \in S : ~ (<<n, m>> \in OpToRel(<, Nat))
  BY NatLessThanWellFounded, WFMin, Zenon
<1>2. \A j \in S : m <= j
  <2>1. \A j \in S : j \in Nat /\ m \in Nat
    OBVIOUS
  <2>2. \A j \in S : j < m => <<j, m>> \in OpToRel(<, Nat)
    BY <2>1 DEF OpToRel
  <2>3. \A j \in S : ~ (j < m)
    BY <1>1, <2>2, Zenon
  <2> QED BY <2>1, <2>3
<1> QED BY <1>2

LEMMA StoredPlans == Stored \subseteq Schedules
  BY DEF Stored, Schedules, Period

LEMMA ActiveModeType ==
    ASSUME schedule \in Schedules, current_mode \in Int, current_mode # MODE_MANUAL, ~Holding
    PROVE  ActiveMode \in Int
<1>1. CASE schedule = <<>>
  BY <1>1 DEF ActiveMode
<1>2. CASE schedule # <<>>
  <2> DEFINE active == ActivePeriods(schedule, minute)
             first == CHOOSE i \in active : \A j \in active : i <= j
  <2>1. active # {}
    BY <1>2 DEF Holding, schedule_is_active
  <2>2. active \subseteq DOMAIN schedule
    BY DEF ActivePeriods
  <2>3. schedule \in Seq(Period) /\ DOMAIN schedule = 1..Len(schedule) /\ Len(schedule) \in Nat
    BY LenProperties DEF Schedules
  <2>4. active \subseteq Nat
    BY <2>2, <2>3
  <2> HIDE DEF active
  <2>5. first \in active
    BY <2>1, <2>4, FirstPeriod
  <2> HIDE DEF first
  <2>6. schedule[first] \in Period
    BY <2>2, <2>3, <2>5, ElementOfSeq
  <2>7. schedule[first].mode \in Int
    BY <2>6 DEF Period
  <2> QED BY <1>2, <2>7 DEF ActiveMode, ScheduledMode, first, active
<1> QED BY <1>1, <1>2

LEMMA ControlFlagsType ==
    ASSUME NEW mode, NEW plan, NEW m
    PROVE  ControlFlags(mode, plan, m) \in Flags
<1> DEFINE consult == mode # MODE_MANUAL /\ plan # <<>>
           active == consult /\ schedule_is_active(plan, m)
           holding == consult /\ ~active
<1>1. /\ (plan # <<>>) \in BOOLEAN /\ active \in BOOLEAN /\ holding \in BOOLEAN
      /\ (mode = MODE_MANUAL \/ holding) \in BOOLEAN
  BY Zenon
<1> QED BY <1>1, Zenon DEF ControlFlags, Flags

LEMMA MessageType ==
    ASSUME NEW h \in Headline, NEW w \in Explanation
    PROVE  Message(h, w) \in StatusMessage
  BY DEF Message, StatusMessage

LEMMA FixedMessages ==
    /\ ManualMessage \in StatusMessage
    /\ HoldMessage \in StatusMessage
    /\ Message("none", "none") \in StatusMessage
  BY MessageType DEF ManualMessage, HoldMessage, Headline, Explanation

LEMMA WithAbsorber ==
    ASSUME NEW m \in StatusMessage, NEW b \in BOOLEAN
    PROVE  [m EXCEPT !.absorber = b] \in StatusMessage
  BY DEF StatusMessage

LEMMA AutoMessageType ==
    ASSUME NEW mode, SensorTypeOK, status \in StatusMessage
    PROVE  AutoMessage(mode, available, reading, wind_speed, act, status) \in StatusMessage
<1>1. AbsorberNeeded(reading) \in BOOLEAN
  BY DEF AbsorberNeeded
<1>2. (available["indoor"] /\ AbsorberNeeded(reading)) \in BOOLEAN
  BY <1>1, Zenon
<1>3. BestMessage(available, reading) \in StatusMessage
  <2> DEFINE open == HumidityDiffHighEnough(reading) /\ OutdoorAirIsGood(reading)
             m == CASE open -> Message("fresh_up_inside_toxic", "best_fan_on")
                    [] ~OutdoorAirIsGood(reading) -> Message("outside_toxic", "best_toxic")
                    [] OTHER -> Message("waiting", "best_no_gain")
  <2>1. m \in StatusMessage
    BY MessageType DEF Headline, Explanation
  <2>2. Message("thinking", "best_no_data") \in StatusMessage
    BY MessageType DEF Headline, Explanation
  <2>3. BestMessage(available, reading)
          = CASE ~(available["indoor"] /\ available["outdoor"]) ->
                   Message("thinking", "best_no_data")
              [] OTHER -> [m EXCEPT !.absorber = AbsorberNeeded(reading)]
    BY Zenon DEF BestMessage
  <2> HIDE DEF m
  <2> QED BY <1>1, <2>1, <2>2, <2>3, WithAbsorber
<1>4. EcoMessage(available, reading, wind_speed, act) \in StatusMessage
  <2> DEFINE open == OutdoorAirIsGood(reading) /\ HumidityDiffHighEnough(reading)
             m == CASE open /\ Windy(available, wind_speed) -> Message("windy", "eco_windy")
                    [] open /\ ~Windy(available, wind_speed) /\ ~available["indoor"] ->
                          Message("one_moment", "eco_no_indoor_data")
                    [] open /\ ~Windy(available, wind_speed) /\ available["indoor"] ->
                          CASE FanShouldStart(reading) -> Message("fresh_up", "eco_fan_on")
                            [] FanShouldKeepRunning(reading, act) /\ ~FanShouldStart(reading) ->
                                  Message("fresh_up", "eco_fan_kept_on")
                            [] OTHER -> Message("saving_energy", "eco_fan_off")
                    [] ~OutdoorAirIsGood(reading) -> Message("outside_toxic", "eco_toxic")
                    [] OTHER -> Message("waiting", "eco_no_gain")
  <2>1. m \in StatusMessage
    BY MessageType DEF Headline, Explanation
  <2>2. Message("looking_outside", "eco_no_outdoor_data") \in StatusMessage
    BY MessageType DEF Headline, Explanation
  <2>3. EcoMessage(available, reading, wind_speed, act)
          = IF available["outdoor"]
            THEN [m EXCEPT !.absorber = available["indoor"] /\ AbsorberNeeded(reading)]
            ELSE Message("looking_outside", "eco_no_outdoor_data")
    BY Zenon DEF EcoMessage
  <2> HIDE DEF m
  <2> QED BY <1>2, <2>1, <2>2, <2>3, WithAbsorber
<1> QED BY <1>3, <1>4 DEF AutoMessage

LEMMA HandlerMessages ==
    ASSUME NEW mode, NEW periods
    PROVE  /\ ModeMessage(mode) \in StatusMessage
           /\ ScheduleMessage(periods) \in StatusMessage
<1>1. /\ Message("plan_remembered", "plan_remembered") \in StatusMessage
      /\ Message("automatic_mode", "automatic") \in StatusMessage
      /\ Message("fresh_start", "schedule_cleared") \in StatusMessage
      /\ Message("plan_saved", "plan_saved") \in StatusMessage
      /\ Message("plan_updated", "plan_updated") \in StatusMessage
  BY MessageType DEF Headline, Explanation
<1>2. ModeMessage(mode) \in StatusMessage
  BY <1>1, FixedMessages DEF ModeMessage
<1>3. ScheduleMessage(periods) \in StatusMessage
  BY <1>1 DEF ScheduleMessage
<1> QED BY <1>2, <1>3

LEMMA Replies ==
    /\ NoReply \in Reply
    /\ Ok \in Reply
    /\ \A c \in {200, 400, 403} : [NoReply EXCEPT !.code = c] \in Reply
<1>1. ControlFlags(MODE_MANUAL, <<>>, 0) \in Flags
  BY ControlFlagsType
<1>2. <<>> \in Schedules
  BY EmptySeq DEF Schedules, MAX_PERIODS
<1>3. "none" \in Headline
  BY DEF Headline
<1>4. NoReply \in Reply
  BY <1>1, <1>2, <1>3, FixedMessages, SettingsAreSettings DEF NoReply, Reply, MODE_MANUAL
<1>5. \A c \in {200, 400, 403} : [NoReply EXCEPT !.code = c] \in Reply
  <2> HIDE DEF NoReply
  <2> QED BY <1>4 DEF Reply
<1> QED BY <1>4, <1>5 DEF Ok

-----------------------------------------------------------------------------
(* The types *)

LEMMA RequestFields ==
    ASSUME NEW r \in Requests \cup {NoRequest}
    PROVE  /\ r.want \in Setting /\ r.mode \in Int
           /\ r.periods \in Seq(PeriodObject) /\ r.well_formed \in BOOLEAN
<1>1. CASE r \in Requests
  BY <1>1, RequestAssumption DEF Request, Setting
<1>2. CASE r = NoRequest
  <2>1. <<>> \in Seq(PeriodObject)
    BY EmptySeq
  <2> QED BY <1>2, <2>1, SettingsAreSettings DEF NoRequest, MODE_MANUAL
<1> QED BY <1>1, <1>2

LEMMA CenterInitType == CommCenterInit => TypeOK
<1> SUFFICES ASSUME CommCenterInit
             PROVE  TypeOK
  OBVIOUS
<1>1. SensorTypeOK /\ ActuatorTypeOK
  BY SensorInitType, ActuatorInitType DEF CommCenterInit, SystemInit
<1>2. /\ current_mode \in Int /\ status \in StatusMessage
      /\ minute \in Minutes /\ system_pc \in {"refresh", "update"}
  BY FixedMessages DEF CommCenterInit, SystemInit, MODE_MANUAL
<1>3. schedule \in Schedules
  BY EmptySeq DEF CommCenterInit, SystemInit, Schedules, MAX_PERIODS
<1>4. http \in Handling /\ http.asked_at <= clock
  <2>1. HttpIdle \in Handling /\ HttpIdle.asked_at = 0
    BY FixedMessages, Replies DEF HttpIdle, Handling, Place
  <2>2. http = HttpIdle /\ clock = 0
    BY DEF CommCenterInit, HttpInit, SystemInit, SensorInit
  <2> QED BY <2>1, <2>2
<1> QED BY <1>1, <1>2, <1>3, <1>4 DEF TypeOK

LEMMA ActuatorTypeStep ==
    ASSUME TypeOK, [CommCenterNext]_vars
    PROVE  ActuatorTypeOK'
<1> USE DEF TypeOK
<1>0. act \in Setting /\ http.req.want \in Setting
  BY RequestFields DEF ActuatorTypeOK, Handling
<1>1. CASE UNCHANGED actuator_vars
  BY <1>1 DEF ActuatorTypeOK, Idle, actuator_vars
<1>2. ASSUME NEW t \in Task, PublishBy(t)
      PROVE  ActuatorTypeOK'
  BY <1>2, PublishStepType DEF PublishBy
<1>3. CASE LinkStep
  BY <1>3, LinkStepType DEF LinkStep
<1>4. CASE AutoUpdate
  <2>1. /\ AutoSettings \in Setting /\ act' = AutoSettings
        /\ StartPublish("system_task", AutoSettings) /\ UNCHANGED <<last, link_vars>>
    BY <1>0, <1>4, AutoSettingsType DEF AutoUpdate, UpdateDone
  <2>2. "system_task" \in Task
    BY DEF Task
  <2> QED BY <2>1, <2>2, StartPublishType
<1>5. CASE ActuatorsPost
  BY <1>0, <1>5 DEF ActuatorsPost, ActuatorTypeOK, Idle, link_vars
<1>6. CASE SetMessageAndPublish
  <2>1. /\ act' = act
        /\ StartPublish("httpd", http.req.want) /\ UNCHANGED <<last, link_vars>>
    BY <1>6 DEF SetMessageAndPublish
  <2>2. "httpd" \in Task
    BY DEF Task
  <2> QED BY <1>0, <2>1, <2>2, StartPublishType
<1> QED BY <1>1, <1>2, <1>3, <1>4, <1>5, <1>6, ActuatorSteps

LEMMA ClockForward ==
    ASSUME TypeOK, [CommCenterNext]_vars
    PROVE  clock' \in Nat /\ clock <= clock'
<1>1. clock \in Nat /\ SensorTypeOK' /\ [SensorNext]_sensor_vars
  BY SensorSteps, SensorStepType DEF TypeOK, SensorTypeOK
<1>2. ASSUME NEW d \in TimeSteps, Tick(d)
      PROVE  clock <= clock'
  BY <1>1, <1>2, SensorAssumption DEF Tick
<1>3. clock' = clock \/ \E d \in TimeSteps : Tick(d)
  BY <1>1 DEF SensorNext, MessageArrives, UpdateNodeIp, UpdateSensor, SampleNow,
              RefreshTimeouts, sensor_vars
<1> QED BY <1>1, <1>2, <1>3 DEF SensorTypeOK

LEMMA ControlTypeStep ==
    ASSUME TypeOK, [CommCenterNext]_vars
    PROVE  /\ current_mode' \in Int /\ schedule' \in Schedules /\ status' \in StatusMessage
           /\ minute' \in Minutes /\ system_pc' \in {"refresh", "update"}
<1> DEFINE Typed == /\ current_mode \in Int /\ schedule \in Schedules /\ status \in StatusMessage
                    /\ minute \in Minutes /\ system_pc \in {"refresh", "update"}
<1>0. Typed
  BY DEF TypeOK
<1>1. CASE UNCHANGED <<control_vars, minute, system_pc>>
  BY <1>0, <1>1 DEF control_vars
<1>2. CASE MinuteStep
  BY <1>0, <1>2 DEF MinuteStep, ClockShows, control_vars
<1>3. CASE SystemStep
  <2>1. CASE SystemSamplesNow \/ SystemRefreshes
    BY <1>0, <2>1 DEF SystemSamplesNow, SystemRefreshes, control_vars
  <2>2. CASE ManualUpdate \/ HoldUpdate
    BY <1>0, <2>2, FixedMessages DEF ManualUpdate, HoldUpdate, UpdateDone
  <2>3. CASE AutoUpdate
    <3>1. current_mode' \in Int
      BY <1>0, <2>3, ActiveModeType DEF AutoUpdate
    <3>2. status' \in StatusMessage
      BY <1>0, <2>3, AutoMessageType DEF AutoUpdate, TypeOK
    <3> QED BY <1>0, <2>3, <3>1, <3>2 DEF AutoUpdate, UpdateDone
  <2> QED BY <1>3, <2>1, <2>2, <2>3 DEF SystemStep, SystemTask
<1>4. CASE HttpTask
  <2>0. /\ http.message \in StatusMessage /\ http.req.mode \in Int
        /\ http.req.periods \in Seq(PeriodObject)
    BY RequestFields DEF TypeOK, Handling
  <2>1. CASE SensorsSamplesNow \/ SensorsRefreshes
    BY <1>0, <2>1 DEF SensorsSamplesNow, SensorsRefreshes, control_vars
  <2>2. CASE SensorsRead \/ StatusFlags \/ StatusHeadline \/ StatusExplanation \/ ScheduleRead
    BY <1>0, <2>2 DEF SensorsRead, StatusFlags, StatusHeadline, StatusExplanation, ScheduleRead,
                system_vars, control_vars
  <2>3. CASE ModeRefused \/ ActuatorsRefused \/ ActuatorsPost \/ ScheduleRefused
    BY <1>0, <2>3 DEF ModeRefused, ActuatorsRefused, ActuatorsPost, ScheduleRefused,
                system_vars, control_vars
  <2>4. CASE ModePost
    BY <1>0, <2>0, <2>4 DEF ModePost
  <2>5. CASE SchedulePost
    <3>1. schedule' \in Schedules
      BY <2>0, <2>5, ParsedPeriodsType, StoredPlans DEF SchedulePost
    <3> QED BY <1>0, <2>5, <3>1 DEF SchedulePost
  <2>6. CASE SetMessage \/ SetMessageAndPublish
    BY <1>0, <2>0, <2>6 DEF SetMessage, SetMessageAndPublish
  <2>7. CASE Published \/ Respond
    BY <1>0, <2>7 DEF Published, Respond, system_vars, control_vars
  <2>8. ASSUME NEW r \in Requests, Receive(r)
        PROVE  Typed'
    BY <1>0, <2>8 DEF Receive, system_vars, control_vars
  <2> QED BY <1>4, <2>1, <2>2, <2>3, <2>4, <2>5, <2>6, <2>7, <2>8 DEF HttpTask, Handle
<1>5. ASSUME NEW t \in Task, PublishBy(t)
      PROVE  UNCHANGED <<control_vars, minute, system_pc>>
  BY <1>5 DEF PublishBy
<1>6. CASE SensorStep \/ LinkStep \/ UNCHANGED vars
  BY <1>1, <1>6 DEF SensorStep, LinkStep, vars, control_vars
<1> QED BY <1>1, <1>2, <1>3, <1>4, <1>5, <1>6 DEF CommCenterNext

\* A reply that is filled in stays one.
LEMMA FilledReply ==
    ASSUME NEW r \in Reply
    PROVE  /\ \A a \in [Source -> BOOLEAN], o \in BOOLEAN :
                  [r EXCEPT !.available = a, !.outdoor_connected = o] \in Reply
           /\ \A m \in Int, s \in Setting, f \in Flags :
                  [r EXCEPT !.mode = m, !.act = s, !.flags = f] \in Reply
<1>1. ASSUME NEW a \in [Source -> BOOLEAN], NEW o \in BOOLEAN
      PROVE  [r EXCEPT !.available = a, !.outdoor_connected = o] \in Reply
  BY DEF Reply
<1>2. ASSUME NEW m \in Int, NEW s \in Setting, NEW f \in Flags
      PROVE  [r EXCEPT !.mode = m, !.act = s, !.flags = f] \in Reply
  BY DEF Reply
<1> QED BY <1>1, <1>2

\* A handler that goes on with a reply, one that answers, and one that goes on
\* to its message.
LEMMA ReplyType ==
    ASSUME http \in Handling, NEW pc \in Place, NEW r \in Reply,
           http' = [http EXCEPT !.pc = pc, !.reply = r]
    PROVE  http' \in Handling /\ http'.asked_at = http.asked_at
  BY DEF Handling

LEMMA AnswerType ==
    ASSUME http \in Handling, NEW r \in Reply, Answer(r)
    PROVE  http' \in Handling /\ http'.asked_at = http.asked_at
<1>1. "respond" \in Place
  BY DEF Place
<1> QED BY <1>1, ReplyType DEF Answer

LEMMA ThenType ==
    ASSUME http \in Handling, NEW pc \in Place, NEW m \in StatusMessage, Then(pc, m)
    PROVE  http' \in Handling /\ http'.asked_at = http.asked_at
  BY DEF Then, Handling

LEMMA HttpTypeStep ==
    ASSUME TypeOK, [CommCenterNext]_vars
    PROVE  http' \in Handling /\ http'.asked_at <= clock'
<1> DEFINE Kept == http' \in Handling /\ http'.asked_at = http.asked_at
<1>0. /\ http \in Handling /\ http.asked_at \in Nat /\ http.asked_at <= clock
      /\ clock \in Nat /\ clock' \in Nat /\ clock <= clock'
  BY ClockForward DEF TypeOK, Handling, SensorTypeOK
<1>1. CASE UNCHANGED http
  BY <1>0, <1>1
<1>2. CASE HttpTask
  <2>1. CASE SensorsSamplesNow \/ SensorsRefreshes
    BY <1>0, <2>1 DEF SensorsSamplesNow, SensorsRefreshes, Handling, Place
  <2>2. CASE SensorsRead
    <3> DEFINE r == [Ok EXCEPT !.available = available,
                               !.outdoor_connected = available["outdoor"] \/ available["wind"]]
    <3>1. available \in [Source -> BOOLEAN]
      BY DEF TypeOK, SensorTypeOK
    <3>2. (available["outdoor"] \/ available["wind"]) \in BOOLEAN
      OBVIOUS
    <3>3. r \in Reply
      BY <3>1, <3>2, Replies, FilledReply, Zenon
    <3>4. Answer(r)
      BY <2>2 DEF SensorsRead
    <3> HIDE DEF r
    <3>5. Kept
      BY <1>0, <3>3, <3>4, AnswerType
    <3> QED BY <1>0, <3>5
  <2>3. CASE StatusFlags
    <3> DEFINE flags == ControlFlags(current_mode, schedule, minute)
               r == [Ok EXCEPT !.mode = current_mode, !.act = act, !.flags = flags]
    <3>1. flags \in Flags
      BY ControlFlagsType
    <3>2. current_mode \in Int /\ act \in Setting
      BY DEF TypeOK, ActuatorTypeOK
    <3> HIDE DEF flags
    <3>3. r \in Reply
      BY <3>1, <3>2, Replies, FilledReply, Zenon
    <3>4. http' = [http EXCEPT !.pc = "headline", !.reply = r]
      BY <2>3 DEF StatusFlags, flags
    <3>5. "headline" \in Place
      BY DEF Place
    <3> HIDE DEF r
    <3>6. Kept
      BY <1>0, <3>3, <3>4, <3>5, ReplyType
    <3> QED BY <1>0, <3>6
  <2>4. CASE StatusHeadline
    <3>1. status.headline \in Headline
      BY DEF TypeOK, StatusMessage
    <3>2. http' = [http EXCEPT !.pc = "why", !.reply.headline = status.headline]
      BY <2>4 DEF StatusHeadline
    <3> DEFINE r == [http.reply EXCEPT !.headline = status.headline]
    <3>3. r \in Reply
      BY <1>0, <3>1 DEF Handling, Reply
    <3>4. http' = [http EXCEPT !.pc = "why", !.reply = r]
      BY <1>0, <3>2 DEF Handling
    <3>5. "why" \in Place
      BY DEF Place
    <3> HIDE DEF r
    <3>6. Kept
      BY <1>0, <3>3, <3>4, <3>5, ReplyType
    <3> QED BY <1>0, <3>6
  <2>5. CASE StatusExplanation
    <3>1. [http.reply EXCEPT !.why = status] \in Reply
      BY <1>0 DEF TypeOK, Handling, Reply
    <3> QED BY <1>0, <2>5, <3>1, AnswerType DEF StatusExplanation
  <2>6. CASE ScheduleRead
    <3>1. [Ok EXCEPT !.periods = schedule] \in Reply
      BY Replies DEF TypeOK, Reply
    <3> QED BY <1>0, <2>6, <3>1, AnswerType DEF ScheduleRead
  <2>7. CASE ModeRefused \/ ActuatorsRefused \/ ScheduleRefused
    <3>1. PICK c \in {200, 400, 403} : Answer([NoReply EXCEPT !.code = c])
      BY <2>7 DEF ModeRefused, ActuatorsRefused, ScheduleRefused, Refuse
    <3>2. [NoReply EXCEPT !.code = c] \in Reply
      BY Replies
    <3>3. Kept
      BY <1>0, <3>1, <3>2, AnswerType
    <3> QED BY <1>0, <3>3
  <2>8. CASE ModePost \/ ActuatorsPost \/ SchedulePost
    <3>1. PICK pc \in Place, m \in StatusMessage : Then(pc, m)
      <4>1. {"message", "message_and_publish"} \subseteq Place
        BY DEF Place
      <4> QED BY <2>8, <4>1, HandlerMessages, FixedMessages
              DEF ModePost, ActuatorsPost, SchedulePost
    <3>2. Kept
      BY <1>0, <3>1, ThenType
    <3> QED BY <1>0, <3>2
  <2>9. CASE SetMessage \/ Published
    BY <1>0, <2>9, Replies, AnswerType DEF SetMessage, Published
  <2>10. CASE SetMessageAndPublish
    BY <1>0, <2>10 DEF SetMessageAndPublish, Handling, Place
  <2>11. CASE Respond
    <3>1. HttpIdle \in Handling /\ HttpIdle.asked_at = 0
      BY FixedMessages, Replies DEF HttpIdle, Handling, Place
    <3> QED BY <1>0, <2>11, <3>1 DEF Respond
  <2>12. ASSUME NEW r \in Requests, Receive(r)
         PROVE  http' \in Handling /\ http'.asked_at <= clock'
    BY <1>0, <2>12 DEF Receive, Handling, Place
  <2> QED BY <1>2, <2>1, <2>2, <2>3, <2>4, <2>5, <2>6, <2>7, <2>8, <2>9, <2>10, <2>11, <2>12
          DEF HttpTask, Handle
<1>3. ASSUME NEW t \in Task, PublishBy(t)
      PROVE  UNCHANGED http
  BY <1>3 DEF PublishBy
<1>4. CASE SensorStep \/ MinuteStep \/ SystemStep \/ LinkStep \/ UNCHANGED vars
  BY <1>1, <1>4 DEF SensorStep, MinuteStep, SystemStep, LinkStep, vars
<1> QED BY <1>1, <1>2, <1>3, <1>4 DEF CommCenterNext

LEMMA CenterStepType ==
    ASSUME TypeOK, [CommCenterNext]_vars
    PROVE  TypeOK'
<1>1. SensorTypeOK'
  BY SensorSteps, SensorStepType DEF TypeOK
<1>2. ActuatorTypeOK'
  BY ActuatorTypeStep
<1> QED BY <1>1, <1>2, ControlTypeStep, HttpTypeStep DEF TypeOK

\* The variables hold values the program can hold: in particular a stored plan
\* never exceeds its array, whatever a body holds, and a status message is
\* one the code shows.
THEOREM CenterTypeCorrect == CommCenterSpec => []TypeOK
<1>1. TypeOK /\ [CommCenterNext]_vars => TypeOK'
  BY CenterStepType
<1> QED BY <1>1, CenterInitType, PTL DEF CommCenterSpec

-----------------------------------------------------------------------------
(* Where the server task goes *)

\* Steps of a handler other than the two of POST /actuators that other parts
\* see: it keeps its request, waits for publish_state to return, and only a
\* refresh leads GET /sensors on.
HandlerGoesOn ==
    /\ http.pc \notin {"idle", "message_and_publish"}
    /\ http.pc = "publish" => Idle("httpd")
    /\ http'.pc \in {"read", "headline", "why", "message", "respond"}
    /\ http'.req = http.req /\ http'.asked_at = http.asked_at
    /\ At("handle", "GET_sensors") \/ http'.pc = "read" => SensorsRefreshes

LEMMA ServerSteps ==
    ASSUME http \in Handling, [CommCenterNext]_vars
    PROVE  \/ UNCHANGED http
           \/ \E r \in Requests : Receive(r)
           \/ ActuatorsPost
           \/ SetMessageAndPublish
           \/ Respond
           \/ HandlerGoesOn
<1>1. CASE SensorStep \/ MinuteStep \/ SystemStep \/ LinkStep \/ UNCHANGED vars
  BY <1>1 DEF SensorStep, MinuteStep, SystemStep, LinkStep, vars
<1>2. ASSUME NEW t \in Task, PublishBy(t)
      PROVE  UNCHANGED http
  BY <1>2 DEF PublishBy
<1>3. ASSUME NEW r, NEW pc, Answer(r) \/ Then(pc, r)
      PROVE  /\ http'.pc \in {"respond", pc}
             /\ http'.req = http.req /\ http'.asked_at = http.asked_at
  BY <1>3 DEF Answer, Then, Handling
<1>4. CASE Handle
  <2>1. CASE SensorsSamplesNow \/ ActuatorsPost \/ SetMessageAndPublish \/ Respond
    BY <2>1 DEF SensorsSamplesNow
  <2>2. CASE SensorsRefreshes
    BY <2>2 DEF SensorsRefreshes, HandlerGoesOn, At, Handling
  <2>3. CASE SensorsRead \/ StatusExplanation \/ ScheduleRead
    BY <1>3, <2>3 DEF SensorsRead, StatusExplanation, ScheduleRead, HandlerGoesOn, At
  <2>4. CASE StatusFlags \/ StatusHeadline
    BY <2>4 DEF StatusFlags, StatusHeadline, HandlerGoesOn, At, Handling
  <2>5. CASE ModeRefused \/ ActuatorsRefused \/ ScheduleRefused
    BY <1>3, <2>5 DEF ModeRefused, ActuatorsRefused, ScheduleRefused, Refuse, HandlerGoesOn, At
  <2>6. CASE ModePost \/ SchedulePost
    BY <1>3, <2>6 DEF ModePost, SchedulePost, HandlerGoesOn, At
  <2>7. CASE SetMessage \/ Published
    BY <1>3, <2>7 DEF SetMessage, Published, HandlerGoesOn, At
  <2> QED BY <1>4, <2>1, <2>2, <2>3, <2>4, <2>5, <2>6, <2>7 DEF Handle
<1> QED BY <1>1, <1>2, <1>4 DEF CommCenterNext, HttpTask

-----------------------------------------------------------------------------
(* The fan and the window *)

\* The strengthening: a handler on its way to publish_state holds settings
\* that it has checked.
FanRuleInv ==
    /\ FanNeedsWindow
    /\ http.pc = "message_and_publish" => ~FanRuleBroken(http.req.want)

LEMMA SnapshotKept ==
    ASSUME ActuatorTypeOK, NEW t \in Task, PublishStep(t), NEW u \in Task
    PROVE  publish'[u].snap \in {publish[u].snap, AllOff}
<1>0. publish \in [Task -> Progress] /\ publish[t].k # 0
  BY DEF ActuatorTypeOK, PublishStep, Compare, Send, Record, Idle
<1>1. CASE u # t
  BY <1>0, <1>1 DEF PublishStep, Compare, Send, Record
<1>2. CASE u = t
  <2>1. AfterTopic(publish[t]).snap = publish[t].snap
    BY <1>0, AfterTopicType
  <2>2. AfterRecord(publish[t]).snap \in {publish[t].snap, AllOff}
    BY <1>0 DEF AfterRecord, NotPublishing, Progress
  <2>3. [publish[t] EXCEPT !.stage = "send"].snap = publish[t].snap
    BY <1>0 DEF Progress
  <2>4. publish'[t] \in {[publish[t] EXCEPT !.stage = "send"], AfterTopic(publish[t]),
                         AfterRecord(publish[t])}
    BY <1>0 DEF PublishStep, Compare, Send, Record
  <2> QED BY <1>2, <2>1, <2>2, <2>3, <2>4
<1> QED BY <1>1, <1>2

LEMMA FanRuleKept ==
    ASSUME TypeOK, FanRuleInv, [CommCenterNext]_vars
    PROVE  FanRuleInv'
<1> USE DEF FanRuleInv, FanNeedsWindow
<1>0. /\ act \in Setting /\ http \in Handling /\ publish \in [Task -> Progress]
      /\ SensorTypeOK /\ ActuatorTypeOK
  BY DEF TypeOK, ActuatorTypeOK
<1>1. http'.pc = "message_and_publish" => ~FanRuleBroken(http'.req.want)
  <2>1. ASSUME NEW r \in Requests, Receive(r) PROVE http'.pc = "handle"
    BY <1>0, <2>1 DEF Receive, Handling
  <2>2. CASE ActuatorsPost
    BY <1>0, <2>2 DEF ActuatorsPost, Then, Handling
  <2>3. CASE SetMessageAndPublish \/ Respond \/ HandlerGoesOn
    BY <1>0, <2>3 DEF SetMessageAndPublish, Respond, HandlerGoesOn, Handling, HttpIdle
  <2>4. CASE UNCHANGED http
    BY <2>4
  <2> QED BY <1>0, <2>1, <2>2, <2>3, <2>4, ServerSteps
<1>2. FanNeedsWindow'
  <2>1. CASE UNCHANGED actuator_vars
    BY <2>1 DEF actuator_vars
  <2>2. ASSUME NEW t \in Task, PublishBy(t) PROVE FanNeedsWindow'
    <3>1. act' = act
      BY <2>2 DEF PublishBy, PublishStep, Compare, Send, Record
    <3>2. AllOff["fan"] = FALSE
      BY DEF AllOff, Settings, Topic
    <3>3. \A u \in Task : publish'[u].snap \in {publish[u].snap, AllOff}
      BY <1>0, <2>2, SnapshotKept DEF PublishBy
    <3> QED BY <3>1, <3>2, <3>3
  <2>3. CASE LinkStep
    BY <2>3 DEF LinkStep, LinkNext, BeforeConnect, Connected, Disconnected, Deliver,
                DeliverUnacknowledged, publish_vars
  <2>4. CASE AutoUpdate
    <3>1. /\ act' = AutoSettings
          /\ publish' = [publish EXCEPT !["system_task"] =
                           [stage |-> "compare", k |-> 1, snap |-> AutoSettings]]
      BY <2>4 DEF AutoUpdate, StartPublish
    <3>2. AutoSettings["fan"] => AutoSettings["window"]
      BY <1>0, AutoSettingsType
    <3> QED BY <1>0, <3>1, <3>2
  <2>5. CASE ActuatorsPost
    BY <2>5 DEF ActuatorsPost, FanRuleBroken
  <2>6. CASE SetMessageAndPublish
    <3>1. /\ act' = act
          /\ publish' = [publish EXCEPT !["httpd"] =
                           [stage |-> "compare", k |-> 1, snap |-> http.req.want]]
          /\ ~FanRuleBroken(http.req.want)
      BY <2>6 DEF SetMessageAndPublish, StartPublish
    <3> QED BY <1>0, <3>1 DEF FanRuleBroken
  <2> QED BY <2>1, <2>2, <2>3, <2>4, <2>5, <2>6, ActuatorSteps
<1> QED BY <1>1, <1>2

\* The fan is never on behind a closed window, and no snapshot on its way to
\* the nodes breaks the rule, in whatever order the two tasks' critical
\* sections run.
THEOREM FanAlwaysHasWindow == CommCenterSpec => []FanNeedsWindow
<1>1. CommCenterInit => FanRuleInv
  <2>1. AllOff["fan"] = FALSE
    BY DEF AllOff, Settings, Topic
  <2> QED BY <2>1 DEF CommCenterInit, SystemInit, ActuatorInit, HttpInit, HttpIdle,
                      NotPublishing, FanRuleInv, FanNeedsWindow
<1>2. TypeOK /\ FanRuleInv /\ [CommCenterNext]_vars => FanRuleInv'
  BY FanRuleKept
<1>3. FanRuleInv => FanNeedsWindow
  BY DEF FanRuleInv
<1> QED BY <1>1, <1>2, <1>3, CenterTypeCorrect, PTL DEF CommCenterSpec

-----------------------------------------------------------------------------
(* What system_task may do on its own *)

\* The rules open the window only on data of both boards: AUTO_ECO, which does
\* not ask for the indoor board, because without data that board reads zero
\* and no humidity is below it.
LEMMA OpensWithData ==
    ASSUME SensorTypeOK, NoLeftoverReadings, act \in Setting,
           AutoSettings["window"], ~act["window"]
    PROVE  available["indoor"] /\ available["outdoor"]
<1> DEFINE s == apply_auto_logic(ActiveMode, available, reading, wind_speed, act)
<1>1. /\ "indoor" \in Board /\ "outdoor" \in Board
      /\ available["indoor"] \in BOOLEAN /\ available["outdoor"] \in BOOLEAN
      /\ reading["outdoor"].humidity \in Nat
  BY DEF SensorTypeOK, Source, Board, Reading
<1>2. s["window"]
  <2>1. s \in Setting
    BY RulesType
  <2> HIDE DEF s
  <2>2. FanNeedsOpenWindow(s)["window"] = s["window"]
    BY <2>1 DEF FanNeedsOpenWindow, Setting, Topic
  <2>3. AutoSettings = FanNeedsOpenWindow(s)
    BY DEF AutoSettings, s
  <2> QED BY <2>2, <2>3
<1>3. WaitForData(act)["window"] = act["window"]
  BY DEF WaitForData, Settings, Topic
<1>4. ~available["indoor"] => ~HumidityDiffHighEnough(reading)
  <2>1. ~available["indoor"] => reading["indoor"] = ZeroReading
    BY <1>1 DEF NoLeftoverReadings
  <2> QED BY <1>1, <2>1 DEF HumidityDiffHighEnough, ZeroReading, HUMIDITY_DIFF_THRESHOLD
<1>5. CASE ActiveMode = MODE_AUTO_BEST
  <2>1. s = AutoBest(available, reading, act)
    BY <1>5 DEF apply_auto_logic, MODE_AUTO_ECO, MODE_AUTO_BEST
  <2>2. CASE available["indoor"] /\ available["outdoor"]
    BY <2>2
  <2>3. CASE ~(available["indoor"] /\ available["outdoor"])
    <3>1. s = WaitForData(act)
      BY <2>1, <2>3 DEF AutoBest
    <3> HIDE DEF s
    <3> QED BY <1>2, <1>3, <3>1
  <2> QED BY <2>2, <2>3
<1>6. CASE ActiveMode = MODE_AUTO_ECO
  <2>1. s = AutoEco(available, reading, wind_speed, act)
    BY <1>6 DEF apply_auto_logic, MODE_AUTO_ECO, MODE_AUTO_BEST
  <2>2. CASE ~available["outdoor"]
    <3>1. s = WaitForData(act)
      BY <2>1, <2>2 DEF AutoEco
    <3> HIDE DEF s
    <3> QED BY <1>2, <1>3, <3>1
  <2>3. CASE available["outdoor"]
    <3>1. s["window"] = (OutdoorAirIsGood(reading) /\ HumidityDiffHighEnough(reading))
      BY <2>1, <2>3 DEF AutoEco, Settings, Topic
    <3> HIDE DEF s
    <3> QED BY <1>2, <1>4, <2>3, <3>1
  <2> QED BY <2>2, <2>3
<1>7. CASE ActiveMode \notin {MODE_AUTO_BEST, MODE_AUTO_ECO}
  <2>1. s = act
    BY <1>7 DEF apply_auto_logic
  <2> HIDE DEF s
  <2> QED BY <1>2, <2>1
<1> QED BY <1>5, <1>6, <1>7

\* The automatic rules open the window only on data of both boards, whichever
\* task refreshed the timeouts last and however late.
THEOREM AutoAlwaysOpensWithData == CommCenterSpec => AutoOpensOnlyWithData
<1> DEFINE Inv == TypeOK /\ NoLeftoverReadings
           Opens == AutoUpdate /\ act'["window"] /\ ~act["window"]
                        => available["indoor"] /\ available["outdoor"]
<1>1. CommCenterInit => NoLeftoverReadings
  BY DEF CommCenterInit, SystemInit, SensorInit, NoLeftoverReadings
<1>2. TypeOK /\ NoLeftoverReadings /\ [CommCenterNext]_vars => NoLeftoverReadings'
  BY SensorSteps, LeftoversStep DEF TypeOK
<1>3. Inv /\ [CommCenterNext]_vars => [Opens]_vars
  <2> SUFFICES ASSUME Inv, AutoUpdate, act'["window"], ~act["window"]
               PROVE  available["indoor"] /\ available["outdoor"]
    OBVIOUS
  <2>1. act' = AutoSettings
    BY DEF AutoUpdate
  <2> QED BY <2>1, OpensWithData DEF TypeOK, ActuatorTypeOK
<1> HIDE DEF Opens
<1>4. CommCenterSpec => [][Opens]_vars
  BY <1>1, <1>2, <1>3, CenterTypeCorrect, PTL DEF CommCenterSpec
<1> QED BY <1>4 DEF Opens, AutoOpensOnlyWithData

\* While a user's settings are in force, nothing but another request of a user
\* changes them: no evaluation of system_task does, in whatever state it
\* finds the schedule.
THEOREM ManualSettingsAlwaysStay == CommCenterSpec => ManualSettingsStay
<1> DEFINE Stays == ManualControlAllowed /\ act' # act => ActuatorsPost
<1>1. [CommCenterNext]_vars => [Stays]_vars
  <2> SUFFICES ASSUME [CommCenterNext]_vars, ManualControlAllowed, act' # act
               PROVE  ActuatorsPost
    OBVIOUS
  <2>1. CASE UNCHANGED actuator_vars
    BY <2>1 DEF actuator_vars
  <2>2. CASE (\E t \in Task : PublishBy(t)) \/ LinkStep \/ SetMessageAndPublish
    BY <2>2 DEF PublishBy, PublishStep, Compare, Send, Record, LinkStep, LinkNext,
                BeforeConnect, Connected, Disconnected, Deliver, DeliverUnacknowledged,
                SetMessageAndPublish
  <2>3. CASE AutoUpdate
    <3>1. current_mode # MODE_MANUAL /\ ~Holding
      BY <2>3 DEF AutoUpdate
    <3> QED BY <3>1 DEF Holding, ManualControlAllowed, ControlFlags
  <2> QED BY <2>1, <2>2, <2>3, ActuatorSteps
<1> HIDE DEF Stays
<1>2. CommCenterSpec => [][Stays]_vars
  BY <1>1, PTL DEF CommCenterSpec
<1> QED BY <1>2 DEF Stays, ManualSettingsStay

-----------------------------------------------------------------------------
(* GET /sensors *)

\* The strengthening: only GET /sensors holds a clock sample, taken after its
\* request came in.
FreshInv ==
    /\ now["httpd"] # NotSampled =>
           At("handle", "GET_sensors") /\ http.asked_at <= now["httpd"]
    /\ FreshReply

LEMMA TimeoutType == \A s \in Source : TimeoutMs(s) \in Nat
  BY DEF TimeoutMs, Source, Board, INDOOR_SENSOR_TIMEOUT_MS, OUTDOOR_SENSOR_TIMEOUT_MS,
         WIND_SENSOR_TIMEOUT_MS

\* What is available was so before, or has just been stored.
LEMMA StaysFresh ==
    ASSUME SensorTypeOK, [SensorNext]_sensor_vars, NEW s \in Source, available'[s]
    PROVE  \/ last_update_ms'[s] = clock
           \/ available[s] /\ last_update_ms'[s] = last_update_ms[s]
<1> USE DEF SensorTypeOK
<1>1. CASE \/ \E d \in TimeSteps : Tick(d)
           \/ \E m \in Publications : MessageArrives(m)
           \/ UpdateNodeIp
           \/ \E t \in Task : SampleNow(t)
           \/ UNCHANGED sensor_vars
  BY <1>1 DEF Tick, MessageArrives, UpdateNodeIp, SampleNow, cache_vars, sensor_vars
<1>2. CASE UpdateSensor
  BY <1>2 DEF UpdateSensor, StoreReading
<1>3. ASSUME NEW t \in Task, RefreshTimeouts(t)
      PROVE  available[s] /\ last_update_ms'[s] = last_update_ms[s]
  BY <1>3 DEF RefreshTimeouts
<1> QED BY <1>1, <1>2, <1>3 DEF SensorNext

\* The server task samples the clock for GET /sensors only.
LEMMA ServerSample ==
    ASSUME [CommCenterNext]_vars, now'["httpd"] # now["httpd"], now \in [Task -> Nat \cup {NotSampled}]
    PROVE  SensorsSamplesNow \/ SensorsRefreshes
<1> USE DEF Task
<1>1. CASE SensorStep
  BY <1>1 DEF SensorStep, Tick, MessageArrives, UpdateNodeIp, UpdateSensor
<1>2. CASE MinuteStep \/ LinkStep \/ UNCHANGED vars
  BY <1>2 DEF MinuteStep, ClockShows, LinkStep, vars, sensor_vars
<1>3. CASE SystemStep
  BY <1>3 DEF SystemStep, SystemTask, SystemSamplesNow, SystemRefreshes, ManualUpdate,
              HoldUpdate, AutoUpdate, UpdateDone, SampleNow, RefreshTimeouts, sensor_vars
<1>4. ASSUME NEW t \in Task, PublishBy(t)
      PROVE  FALSE
  BY <1>4 DEF PublishBy, sensor_vars
<1>5. CASE HttpTask
  <2>1. ASSUME NEW r \in Requests, Receive(r) PROVE FALSE
    BY <2>1 DEF Receive, system_vars, sensor_vars
  <2>2. CASE \/ SensorsRead \/ StatusFlags \/ StatusHeadline \/ StatusExplanation
             \/ ScheduleRead \/ ModeRefused \/ ActuatorsRefused \/ ScheduleRefused
             \/ Published \/ Respond
    BY <2>2 DEF SensorsRead, StatusFlags, StatusHeadline, StatusExplanation, ScheduleRead,
                ModeRefused, ActuatorsRefused, ScheduleRefused, Published, Respond,
                system_vars, sensor_vars
  <2>3. CASE ModePost \/ ActuatorsPost \/ SchedulePost \/ SetMessage \/ SetMessageAndPublish
    BY <2>3 DEF ModePost, ActuatorsPost, SchedulePost, SetMessage, SetMessageAndPublish,
                sensor_vars
  <2> QED BY <1>5, <2>1, <2>2, <2>3 DEF HttpTask, Handle
<1> QED BY <1>1, <1>2, <1>3, <1>4, <1>5 DEF CommCenterNext

LEMMA FreshKept ==
    ASSUME TypeOK, TypeOK', FreshInv, [CommCenterNext]_vars
    PROVE  FreshInv'
<1>0. /\ http \in Handling /\ http.asked_at \in Nat /\ http.asked_at <= clock
      /\ SensorTypeOK /\ clock \in Nat /\ now \in [Task -> Nat \cup {NotSampled}]
      /\ "httpd" \in Task /\ [SensorNext]_sensor_vars
      /\ last_update_ms \in [Source -> Nat] /\ last_update_ms' \in [Source -> Nat]
  BY SensorSteps DEF TypeOK, SensorTypeOK, Handling, Task
<1>1. CASE SensorsSamplesNow
  <2>1. /\ UNCHANGED http /\ At("handle", "GET_sensors") /\ now'["httpd"] = clock
    BY <1>0, <1>1 DEF SensorsSamplesNow, SampleNow
  <2>2. http'.pc = "handle"
    BY <2>1 DEF At
  <2> QED BY <1>0, <2>1, <2>2 DEF FreshInv, FreshReply, At
<1>2. CASE SensorsRefreshes
  <2>1. /\ now'["httpd"] = NotSampled /\ now["httpd"] # NotSampled
        /\ http'.asked_at = http.asked_at
    BY <1>0, <1>2 DEF SensorsRefreshes, RefreshTimeouts, Handling
  <2>2. http.asked_at <= now["httpd"] /\ now["httpd"] \in Nat
    BY <1>0, <2>1 DEF FreshInv
  <2>3. ASSUME NEW s \in Source, available'[s]
        PROVE  http'.asked_at - last_update_ms'[s] <= TimeoutMs(s)
    <3>1. /\ now["httpd"] - last_update_ms[s] <= TimeoutMs(s)
          /\ last_update_ms' = last_update_ms
      <4>1. available[s] /\ ~TimedOut(s, now["httpd"]) /\ last_update_ms' = last_update_ms
        BY <1>2, <2>3 DEF SensorsRefreshes, RefreshTimeouts
      <4>2. ~(now["httpd"] - last_update_ms[s] > TimeoutMs(s))
        BY <4>1 DEF TimedOut
      <4> QED BY <1>0, <2>2, <4>1, <4>2, TimeoutType
    <3> QED BY <1>0, <2>1, <2>2, <3>1, TimeoutType
  <2> QED BY <2>1, <2>3 DEF FreshInv, FreshReply
<1>3. CASE ~SensorsSamplesNow /\ ~SensorsRefreshes
  <2>1. now'["httpd"] = now["httpd"]
    BY <1>0, <1>3, ServerSample
  <2>2. CASE UNCHANGED http
    <3>1. ASSUME At("read", "GET_sensors")', NEW s \in Source, available'[s]
          PROVE  http'.asked_at - last_update_ms'[s] <= TimeoutMs(s)
      <4>1. At("read", "GET_sensors")
        BY <2>2, <3>1 DEF At
      <4>2. CASE last_update_ms'[s] = clock
        BY <1>0, <2>2, <4>2, TimeoutType
      <4>3. CASE available[s] /\ last_update_ms'[s] = last_update_ms[s]
        BY <2>2, <4>1, <4>3 DEF FreshInv, FreshReply
      <4> QED BY <1>0, <3>1, <4>2, <4>3, StaysFresh
    <3> QED BY <2>1, <2>2, <3>1 DEF FreshInv, FreshReply, At
  <2>3. CASE now["httpd"] = NotSampled /\ http'.pc # "read"
    BY <2>1, <2>3 DEF FreshInv, FreshReply, At
  <2>4. ASSUME NEW r \in Requests, Receive(r)
        PROVE  http.pc = "idle" /\ http'.pc = "handle"
    BY <1>0, <2>4 DEF Receive, Handling
  <2>5. CASE ActuatorsPost \/ SetMessageAndPublish \/ Respond
    <3>1. ~At("handle", "GET_sensors") /\ http'.pc # "read"
      <4>1. CASE ActuatorsPost
        BY <1>0, <4>1 DEF ActuatorsPost, Then, At, Handling
      <4>2. CASE SetMessageAndPublish
        BY <1>0, <4>2 DEF SetMessageAndPublish, At, Handling
      <4>3. CASE Respond
        BY <4>3 DEF Respond, At, HttpIdle
      <4> QED BY <2>5, <4>1, <4>2, <4>3
    <3> QED BY <2>3, <3>1 DEF FreshInv
  <2>6. CASE HandlerGoesOn
    <3>1. ~At("handle", "GET_sensors") /\ http'.pc # "read"
      BY <1>3, <2>6 DEF HandlerGoesOn
    <3> QED BY <2>3, <3>1 DEF FreshInv
  <2>7. http.pc = "idle" /\ http'.pc = "handle" => FreshInv'
    BY <2>3 DEF FreshInv, At
  <2> QED BY <1>0, <2>2, <2>4, <2>5, <2>6, <2>7, ServerSteps
<1> QED BY <1>1, <1>2, <1>3

\* GET /sensors never shows data that had timed out when the request came in,
\* whatever happens between its refresh and its reading.
THEOREM RepliesAlwaysFresh == CommCenterSpec => []FreshReply
<1>1. CommCenterInit => FreshInv
  BY DEF CommCenterInit, SystemInit, SensorInit, HttpInit, HttpIdle, NoRequest, FreshInv,
         FreshReply, At, Task
<1>2. TypeOK /\ TypeOK' /\ FreshInv /\ [CommCenterNext]_vars => FreshInv'
  BY FreshKept
<1>3. FreshInv => FreshReply
  BY DEF FreshInv
<1> QED BY <1>1, <1>2, <1>3, CenterTypeCorrect, PTL DEF CommCenterSpec

-----------------------------------------------------------------------------
(* What the nodes are told, when one of the two tasks publishes *)

\* No request sets the actuators, so system_task is the only publisher; or no
\* request chooses an automatic mode, so the server task is.
OnlyAutomatic == \A r \in Requests : r.uri = "POST_actuators" => ~r.well_formed
OnlyManual == \A r \in Requests : r.uri = "POST_mode" /\ ValidMode(r) => r.mode = MODE_MANUAL

\* The README's startup order: whoever handles a request, and whoever has left
\* MANUAL, which takes one, has waited for the client.
WaitedForClient ==
    http.pc # "idle" \/ current_mode # MODE_MANUAL => global_client

\* system_task evaluates only when its last publish_state has returned.
SystemRounds ==
    /\ system_pc = "update" => now["system_task"] = NotSampled
    /\ now["system_task"] # NotSampled \/ system_pc = "update" => Idle("system_task")

\* The steps that change the mode, and those that do not.
LEMMA ModeSteps ==
    ASSUME [CommCenterNext]_vars
    PROVE  current_mode' = current_mode \/ ModePost \/ (AutoUpdate /\ UNCHANGED http)
<1>1. CASE SensorStep \/ MinuteStep \/ LinkStep \/ UNCHANGED vars
  BY <1>1 DEF SensorStep, MinuteStep, ClockShows, LinkStep, vars, control_vars
<1>2. CASE SystemStep
  BY <1>2 DEF SystemStep, SystemTask, SystemSamplesNow, SystemRefreshes, ManualUpdate,
              HoldUpdate, control_vars
<1>3. ASSUME NEW t \in Task, PublishBy(t)
      PROVE  current_mode' = current_mode
  BY <1>3 DEF PublishBy, control_vars
<1>4. CASE HttpTask
  <2>1. ASSUME NEW r \in Requests, Receive(r)
        PROVE  current_mode' = current_mode
    BY <2>1 DEF Receive, system_vars, control_vars
  <2>2. CASE \/ SensorsSamplesNow \/ SensorsRefreshes
             \/ SensorsRead \/ StatusFlags \/ StatusHeadline \/ StatusExplanation
             \/ ScheduleRead \/ ModeRefused \/ ActuatorsRefused \/ ScheduleRefused
             \/ Published \/ Respond
    BY <2>2 DEF SensorsSamplesNow, SensorsRefreshes, SensorsRead, StatusFlags,
                StatusHeadline, StatusExplanation, ScheduleRead, ModeRefused,
                ActuatorsRefused, ScheduleRefused, Published, Respond,
                system_vars, control_vars
  <2>3. CASE ActuatorsPost \/ SchedulePost \/ SetMessage \/ SetMessageAndPublish
    BY <2>3 DEF ActuatorsPost, SchedulePost, SetMessage, SetMessageAndPublish, control_vars
  <2> QED BY <1>4, <2>1, <2>2, <2>3 DEF HttpTask, Handle
<1> QED BY <1>1, <1>2, <1>3, <1>4 DEF CommCenterNext

\* The client, once stored, stays.
LEMMA ClientStays ==
    ASSUME [CommCenterNext]_vars, global_client
    PROVE  global_client'
<1>1. CASE UNCHANGED actuator_vars
  BY <1>1 DEF actuator_vars
<1>2. CASE (\E t \in Task : PublishBy(t)) \/ LinkStep
  BY <1>2 DEF PublishBy, PublishStep, Compare, Send, Record, LinkStep, LinkNext, link_vars,
              BeforeConnect, Connected, Disconnected, Deliver, DeliverUnacknowledged
<1>3. CASE AutoUpdate \/ ActuatorsPost \/ SetMessageAndPublish
  BY <1>3 DEF AutoUpdate, UpdateDone, ActuatorsPost, SetMessageAndPublish, link_vars
<1> QED BY <1>1, <1>2, <1>3, ActuatorSteps

LEMMA WaitedKept ==
    ASSUME AwaitConnected, http \in Handling, WaitedForClient, [CommCenterNext]_vars
    PROVE  WaitedForClient'
<1>1. CASE global_client
  BY <1>1, ClientStays DEF WaitedForClient
<1>2. CASE ~global_client
  <2>1. http.pc = "idle" /\ current_mode = MODE_MANUAL
    BY <1>2 DEF WaitedForClient
  <2>2. current_mode' = current_mode
    BY <2>1, ModeSteps DEF ModePost, At, AutoUpdate
  <2>3. http' = http
    <3>1. ASSUME NEW r \in Requests, Receive(r) PROVE FALSE
      BY <1>2, <3>1 DEF Receive, Ready
    <3> QED BY <2>1, <3>1, ServerSteps
            DEF ActuatorsPost, SetMessageAndPublish, Respond, HandlerGoesOn, At
  <2> QED BY <2>1, <2>2, <2>3 DEF WaitedForClient
<1> QED BY <1>1, <1>2

\* A task that is not inside publish_state stays out of it, but for the two
\* steps that enter it.
LEMMA StaysIdle ==
    ASSUME ActuatorTypeOK, [CommCenterNext]_vars, NEW t \in Task, Idle(t)
    PROVE  \/ Idle(t)'
           \/ t = "system_task" /\ AutoUpdate
           \/ t = "httpd" /\ SetMessageAndPublish
<1> USE DEF Idle
<1>0. publish \in [Task -> Progress]
  BY DEF ActuatorTypeOK
<1>1. CASE UNCHANGED actuator_vars
  BY <1>1 DEF actuator_vars
<1>2. ASSUME NEW u \in Task, PublishBy(u)
      PROVE  Idle(t)'
  <2>1. u # t /\ publish' = [publish EXCEPT ![u] = publish'[u]]
    BY <1>0, <1>2 DEF PublishBy, PublishStep, Compare, Send, Record
  <2> QED BY <1>0, <2>1
<1>3. CASE LinkStep
  BY <1>3 DEF LinkStep, LinkNext, publish_vars,
              BeforeConnect, Connected, Disconnected, Deliver, DeliverUnacknowledged
<1>4. CASE AutoUpdate
  BY <1>0, <1>4 DEF AutoUpdate, StartPublish
<1>5. CASE ActuatorsPost
  BY <1>5 DEF ActuatorsPost
<1>6. CASE SetMessageAndPublish
  BY <1>0, <1>6 DEF SetMessageAndPublish, StartPublish
<1> QED BY <1>1, <1>2, <1>3, <1>4, <1>5, <1>6, ActuatorSteps

\* Where system_task goes.
LEMMA SystemSteps ==
    ASSUME SensorTypeOK, [CommCenterNext]_vars
    PROVE  \/ now'["system_task"] = now["system_task"] /\ system_pc' = system_pc /\ ~AutoUpdate
           \/ SystemSamplesNow
           \/ SystemRefreshes
           \/ now' = now /\ system_pc = "update" /\ system_pc' = "refresh"
<1> USE DEF Task
<1>0. now \in [Task -> Nat \cup {NotSampled}]
  BY DEF SensorTypeOK
<1>1. CASE SystemStep
  BY <1>1 DEF SystemStep, SystemTask, ManualUpdate, HoldUpdate, AutoUpdate, UpdateDone,
              sensor_vars
<1>2. ~SystemStep => UNCHANGED system_pc
  <2>1. CASE HttpTask
    <3>1. ASSUME NEW r \in Requests, Receive(r)
          PROVE  UNCHANGED system_pc
      BY <3>1 DEF Receive, system_vars
    <3>2. CASE \/ SensorsSamplesNow \/ SensorsRefreshes
               \/ SensorsRead \/ StatusFlags \/ StatusHeadline \/ StatusExplanation
               \/ ScheduleRead \/ ModeRefused \/ ActuatorsRefused \/ ScheduleRefused
               \/ Published \/ Respond
      BY <3>2 DEF SensorsSamplesNow, SensorsRefreshes, SensorsRead, StatusFlags,
                  StatusHeadline, StatusExplanation, ScheduleRead, ModeRefused,
                  ActuatorsRefused, ScheduleRefused, Published, Respond, system_vars
    <3>3. CASE ModePost \/ ActuatorsPost \/ SchedulePost \/ SetMessage \/ SetMessageAndPublish
      BY <3>3 DEF ModePost, ActuatorsPost, SchedulePost, SetMessage, SetMessageAndPublish
    <3> QED BY <2>1, <3>1, <3>2, <3>3 DEF HttpTask, Handle
  <2>2. ASSUME NEW t \in Task, PublishBy(t)
        PROVE  UNCHANGED system_pc
    BY <2>2 DEF PublishBy
  <2>3. CASE SensorStep \/ MinuteStep \/ LinkStep \/ UNCHANGED vars
    BY <2>3 DEF SensorStep, MinuteStep, ClockShows, LinkStep, vars
  <2> QED BY <2>1, <2>2, <2>3 DEF CommCenterNext
<1>3. ~SystemStep => now'["system_task"] = now["system_task"]
  <2>1. CASE SensorStep
    BY <2>1 DEF SensorStep, Tick, MessageArrives, UpdateNodeIp, UpdateSensor
  <2>2. CASE MinuteStep \/ LinkStep \/ UNCHANGED vars
    BY <2>2 DEF MinuteStep, ClockShows, LinkStep, vars, sensor_vars
  <2>3. ASSUME NEW t \in Task, PublishBy(t)
        PROVE  now' = now
    BY <2>3 DEF PublishBy, sensor_vars
  <2>4. CASE HttpTask
    <3>1. CASE SensorsSamplesNow \/ SensorsRefreshes
      BY <1>0, <3>1 DEF SensorsSamplesNow, SensorsRefreshes, SampleNow, RefreshTimeouts
    <3>2. ASSUME NEW r \in Requests, Receive(r)
          PROVE  now' = now
      BY <3>2 DEF Receive, system_vars, sensor_vars
    <3>3. CASE \/ SensorsRead \/ StatusFlags \/ StatusHeadline \/ StatusExplanation
               \/ ScheduleRead \/ ModeRefused \/ ActuatorsRefused \/ ScheduleRefused
               \/ Published \/ Respond
      BY <3>3 DEF SensorsRead, StatusFlags, StatusHeadline, StatusExplanation, ScheduleRead,
                  ModeRefused, ActuatorsRefused, ScheduleRefused, Published, Respond,
                  system_vars, sensor_vars
    <3>4. CASE ModePost \/ ActuatorsPost \/ SchedulePost \/ SetMessage \/ SetMessageAndPublish
      BY <3>4 DEF ModePost, ActuatorsPost, SchedulePost, SetMessage, SetMessageAndPublish,
                  sensor_vars
    <3> QED BY <2>4, <3>1, <3>2, <3>3, <3>4 DEF HttpTask, Handle
  <2> QED BY <2>1, <2>2, <2>3, <2>4 DEF CommCenterNext
<1>4. AutoUpdate => system_pc' # system_pc
  BY DEF AutoUpdate, UpdateDone
<1> QED BY <1>1, <1>2, <1>3, <1>4

LEMMA RoundsKept ==
    ASSUME TypeOK, SystemRounds, [CommCenterNext]_vars
    PROVE  SystemRounds'
<1>0. /\ SensorTypeOK /\ ActuatorTypeOK /\ "system_task" \in Task
      /\ now \in [Task -> Nat \cup {NotSampled}]
  BY DEF TypeOK, SensorTypeOK, Task
<1>1. CASE now'["system_task"] = now["system_task"] /\ system_pc' = system_pc /\ ~AutoUpdate
  BY <1>0, <1>1, StaysIdle DEF SystemRounds
<1>2. CASE SystemSamplesNow
  <2>1. system_pc' = "refresh" /\ Idle("system_task")'
    BY <1>2 DEF SystemSamplesNow, actuator_vars, Idle
  <2> QED BY <2>1 DEF SystemRounds
<1>3. CASE SystemRefreshes
  <2>1. now["system_task"] # NotSampled /\ now'["system_task"] = NotSampled
    BY <1>0, <1>3 DEF SystemRefreshes, RefreshTimeouts
  <2>2. Idle("system_task")'
    BY <1>3, <2>1 DEF SystemRounds, SystemRefreshes, actuator_vars, Idle
  <2> QED BY <2>1, <2>2 DEF SystemRounds
<1>4. CASE now' = now /\ system_pc = "update" /\ system_pc' = "refresh"
  BY <1>4 DEF SystemRounds
<1> QED BY <1>0, <1>1, <1>2, <1>3, <1>4, SystemSteps

\* What the steps of publish_state and of the link are to a sole publisher.
LEMMA WayToNodes ==
    ASSUME (\E t \in Task : PublishBy(t)) \/ LinkStep \/ UNCHANGED actuator_vars
    PROVE  act' = act /\ Moves
<1>1. ASSUME NEW t \in Task, PublishBy(t)
      PROVE  act' = act /\ Moves
  BY <1>1 DEF PublishBy, PublishStep, Compare, Send, Record, Moves
<1>2. ASSUME LinkStep
      PROVE  act' = act /\ Moves
  BY <1>2 DEF LinkStep, LinkNext, BeforeConnect, Connected, Disconnected, Deliver,
              DeliverUnacknowledged, Moves
<1>3. ASSUME UNCHANGED actuator_vars
      PROVE  act' = act /\ Moves
  BY <1>3 DEF actuator_vars, link_vars, Moves
<1> QED BY <1>1, <1>2, <1>3

\* Without requests that set the actuators the server task never publishes.
AutomaticInv ==
    /\ WaitedForClient
    /\ SystemRounds
    /\ http.pc \notin {"message_and_publish", "publish"}
    /\ Publishes("system_task", act)
    /\ Links("system_task", act)

LEMMA AutomaticKept ==
    ASSUME OnlyAutomatic, AwaitConnected, TypeOK, TypeOK', AutomaticInv,
           [CommCenterNext]_vars
    PROVE  AutomaticInv'
<1>0. /\ SensorTypeOK /\ ActuatorTypeOK /\ http \in Handling
      /\ act \in Setting /\ act' \in Setting /\ "system_task" \in Task
  BY DEF TypeOK, ActuatorTypeOK, Task
<1>1. ~ActuatorsPost /\ ~SetMessageAndPublish
  <2>1. ASSUME ActuatorsPost PROVE FALSE
    <3>1. http.req.uri = "POST_actuators" /\ http.req.well_formed
      BY <2>1 DEF ActuatorsPost, At
    <3>2. http.req \in Requests
      BY <1>0, <3>1 DEF Handling, NoRequest
    <3> QED BY <3>1, <3>2 DEF OnlyAutomatic
  <2> QED BY <2>1 DEF SetMessageAndPublish, AutomaticInv
<1>2. http'.pc \notin {"message_and_publish", "publish"}
  <2>1. ASSUME NEW r \in Requests, Receive(r) PROVE http'.pc = "handle"
    BY <1>0, <2>1 DEF Receive, Handling
  <2>2. CASE Respond
    BY <2>2 DEF Respond, HttpIdle
  <2>3. CASE UNCHANGED http \/ HandlerGoesOn
    BY <2>3 DEF AutomaticInv, HandlerGoesOn
  <2> QED BY <1>0, <1>1, <2>1, <2>2, <2>3, ServerSteps
<1> SUFFICES ASSUME NEW a \in Setting, NEW b \in Setting, a = act, b = act'
             PROVE  Publishes("system_task", b)' /\ Links("system_task", b)'
  BY <1>0, <1>2, WaitedKept, RoundsKept DEF AutomaticInv, Publishes, Links, SentFor
<1>3. OnePublisherStep("system_task", a, b)
  <2>1. CASE AutoUpdate
    <3>1. Idle("system_task")
      BY <2>1 DEF AutomaticInv, SystemRounds, AutoUpdate, UpdateDone
    <3>2. Ready
      BY <2>1 DEF AutomaticInv, WaitedForClient, AutoUpdate, Ready
    <3>3. StartPublish("system_task", b) /\ UNCHANGED <<last, link_vars>>
      BY <2>1 DEF AutoUpdate, UpdateDone
    <3> QED BY <3>1, <3>2, <3>3 DEF OnePublisherStep, StartsWith
  <2>2. ~AutoUpdate => act' = act /\ Moves
    BY <1>1, ActuatorSteps, WayToNodes
  <2> QED BY <2>1, <2>2 DEF OnePublisherStep
<1>4. Publishes("system_task", a) /\ Links("system_task", a)
  BY DEF AutomaticInv
<1> QED BY <1>0, <1>3, <1>4, PublishesStep, LinksStep

\* Without an automatic mode system_task never publishes, and the server
\* task is between storing settings and publishing them for a while.
Sent == IF http.pc = "message_and_publish" THEN last ELSE act

ManualInv ==
    /\ WaitedForClient
    /\ current_mode = MODE_MANUAL
    /\ http.pc # "publish" => Idle("httpd")
    /\ http.pc = "message_and_publish" => act = http.req.want
    /\ Publishes("httpd", Sent)
    /\ Links("httpd", Sent)

LEMMA ManualKept ==
    ASSUME OnlyManual, AwaitConnected, TypeOK, TypeOK', ManualInv, [CommCenterNext]_vars
    PROVE  ManualInv'
<1>0. /\ SensorTypeOK /\ ActuatorTypeOK /\ http \in Handling
      /\ act \in Setting /\ act' \in Setting /\ last \in Setting /\ last' \in Setting
      /\ "httpd" \in Task
  BY DEF TypeOK, ActuatorTypeOK, Task
<1>1. ~AutoUpdate
  BY DEF AutoUpdate, ManualInv
<1>2. current_mode' = MODE_MANUAL
  <2>1. ASSUME ModePost PROVE current_mode' = MODE_MANUAL
    <3>1. http.req.uri = "POST_mode" /\ ValidMode(http.req) /\ current_mode' = http.req.mode
      BY <2>1 DEF ModePost, At
    <3>2. http.req \in Requests
      BY <1>0, <3>1 DEF Handling, NoRequest
    <3> QED BY <3>1, <3>2 DEF OnlyManual
  <2> QED BY <1>1, <2>1, ModeSteps DEF ManualInv
<1>3. CASE ActuatorsPost
  \* The settings are stored; what the nodes are told is still to change.
  <2>1. /\ http.pc = "handle" /\ http'.pc = "message_and_publish"
        /\ act' = http'.req.want /\ UNCHANGED <<last, publish, link_vars>>
    BY <1>0, <1>3 DEF ActuatorsPost, At, Then, Handling
  <2>2. Idle("httpd") /\ Idle("httpd")'
    BY <2>1 DEF ManualInv, Idle
  <2>3. last = act
    BY <2>1, <2>2 DEF ManualInv, Publishes, Sent
  <2>4. Sent' = Sent
    BY <2>1, <2>3 DEF Sent
  <2>5. Publishes("httpd", Sent)' /\ Links("httpd", Sent)'
    BY <2>1, <2>4 DEF ManualInv, Publishes, Links, Idle, SentFor, link_vars
  <2> QED BY <1>0, <1>2, <2>1, <2>2, <2>5, WaitedKept DEF ManualInv
<1>4. CASE ~ActuatorsPost
  <2>1. SetMessageAndPublish \/ (act' = act /\ Moves)
    BY <1>1, <1>4, ActuatorSteps, WayToNodes
  <2>2. CASE SetMessageAndPublish
    <3>1. /\ http.pc = "message_and_publish" /\ http'.pc = "publish"
          /\ act' = act /\ act = http.req.want
      BY <1>0, <2>2 DEF SetMessageAndPublish, Handling, ManualInv
    <3>2. StartsWith("httpd", act)
      BY <2>2, <3>1 DEF SetMessageAndPublish, StartsWith, Ready, ManualInv, WaitedForClient
    <3>3. Publishes("httpd", last) /\ Links("httpd", last)
      BY <3>1 DEF ManualInv, Sent, Publishes, Links, SentFor
    <3>4. PICK a \in Setting, b \in Setting : a = last /\ b = act
      BY <1>0
    <3>5. Publishes("httpd", a) /\ Links("httpd", a) /\ OnePublisherStep("httpd", a, b)
      BY <3>2, <3>3, <3>4 DEF OnePublisherStep, StartsWith
    <3>6. Publishes("httpd", b)' /\ Links("httpd", b)'
      BY <1>0, <3>5, PublishesStep, LinksStep
    <3>7. Sent' = b
      BY <3>1, <3>4 DEF Sent
    <3>8. Publishes("httpd", Sent)' /\ Links("httpd", Sent)'
      BY <3>6, <3>7 DEF Publishes, Links, SentFor
    <3> QED BY <1>0, <1>2, <3>1, <3>8, WaitedKept DEF ManualInv
  <2>3. CASE ~SetMessageAndPublish /\ act' = act /\ Moves
    <3>1. Idle("httpd") => Idle("httpd")'
      BY <1>0, <2>3, StaysIdle
    <3>2. \/ http' = http
          \/ /\ http'.pc # "message_and_publish" /\ http.pc # "message_and_publish"
             /\ http.pc = "publish" => Idle("httpd")
      <4>1. ASSUME NEW r \in Requests, Receive(r)
            PROVE  http.pc = "idle" /\ http'.pc = "handle"
        BY <1>0, <4>1 DEF Receive, Handling
      <4>2. CASE Respond
        BY <4>2 DEF Respond, HttpIdle
      <4>3. CASE HandlerGoesOn
        BY <4>3 DEF HandlerGoesOn
      <4> QED BY <1>0, <1>4, <2>3, <4>1, <4>2, <4>3, ServerSteps
    <3>3. http'.pc # "publish" => Idle("httpd")'
      BY <3>1, <3>2 DEF ManualInv
    <3>4. http'.pc = "message_and_publish" => act' = http'.req.want
      BY <2>3, <3>2 DEF ManualInv
    <3>5. Sent' = Sent
      <4>1. CASE http.pc = "message_and_publish"
        <5>1. \A t \in Task : Idle(t)
          BY <4>1 DEF ManualInv, Publishes
        <5>2. last' = last
          BY <2>3, <5>1 DEF Moves, Idle, PublishStep, Compare, Send, Record, LinkNext,
                BeforeConnect, Connected, Disconnected, Deliver, DeliverUnacknowledged,
                publish_vars
        <5> QED BY <3>2, <4>1, <5>2 DEF Sent
      <4>2. CASE http.pc # "message_and_publish"
        BY <2>3, <3>2, <4>2 DEF Sent
      <4> QED BY <4>1, <4>2
    <3>6. PICK a \in Setting : a = Sent
      BY <1>0 DEF Sent
    <3>7. Publishes("httpd", a) /\ Links("httpd", a) /\ OnePublisherStep("httpd", a, a)
      BY <2>3, <3>6 DEF ManualInv, OnePublisherStep
    <3>8. Publishes("httpd", a)' /\ Links("httpd", a)'
      BY <1>0, <3>7, PublishesStep, LinksStep
    <3>9. Publishes("httpd", Sent)' /\ Links("httpd", Sent)'
      BY <3>5, <3>6, <3>8 DEF Publishes, Links, SentFor
    <3> QED BY <1>0, <1>2, <3>3, <3>4, <3>9, WaitedKept DEF ManualInv
  <2> QED BY <2>1, <2>2, <2>3
<1> QED BY <1>3, <1>4

\* Either way there is one publisher, and between requests, with
\* publish_state finished and the outbox empty, the nodes have been told what
\* GET /status reports.  With both publishers the runs of ActuatorPublish and
\* of the claims show how they come apart.
THEOREM NodesAlwaysMatchStatus ==
    ASSUME AwaitConnected, OnlyAutomatic \/ OnlyManual
    PROVE  CommCenterSpec => []StatusMatchesNodes
<1>1. CommCenterInit => AutomaticInv /\ ManualInv
  <2> SUFFICES ASSUME CommCenterInit
               PROVE  AutomaticInv /\ ManualInv
    OBVIOUS
  <2> USE DEF CommCenterInit, SystemInit
  <2>1. "httpd" \in Task /\ "system_task" \in Task /\ ActuatorInit
    BY DEF Task
  <2>2. \A t \in Task : Idle(t) /\ publish[t].stage = "idle"
    BY DEF ActuatorInit, NotPublishing, Idle
  <2>3. /\ http.pc = "idle" /\ current_mode = MODE_MANUAL /\ system_pc = "refresh"
        /\ last = act /\ now["system_task"] = NotSampled
    BY DEF ActuatorInit, HttpInit, HttpIdle, SensorInit, Task
  <2>4. Publishes("httpd", act) /\ Publishes("system_task", act)
    BY <2>1, <2>2, <2>3 DEF Publishes
  <2>5. Links("httpd", act) /\ Links("system_task", act)
    BY <2>1, LinkInvInit DEF LinkInv
  <2>6. Sent = act
    BY <2>3 DEF Sent
  <2>7. Publishes("httpd", Sent) /\ Links("httpd", Sent)
    BY <2>4, <2>5, <2>6 DEF Publishes, Links, SentFor
  <2> QED BY <2>1, <2>2, <2>3, <2>4, <2>5, <2>7
          DEF AutomaticInv, ManualInv, WaitedForClient, SystemRounds
<1>2. CASE OnlyAutomatic
  <2>1. TypeOK /\ TypeOK' /\ AutomaticInv /\ [CommCenterNext]_vars => AutomaticInv'
    BY <1>2, AutomaticKept
  <2>2. TypeOK /\ AutomaticInv => StatusMatchesNodes
    BY LinksSettle DEF AutomaticInv, StatusMatchesNodes, SettledAgreement, TypeOK,
                       ActuatorTypeOK, Task
  <2> QED BY <1>1, <2>1, <2>2, CenterTypeCorrect, PTL DEF CommCenterSpec
<1>3. CASE OnlyManual
  <2>1. TypeOK /\ TypeOK' /\ ManualInv /\ [CommCenterNext]_vars => ManualInv'
    BY <1>3, ManualKept
  <2>2. TypeOK /\ ManualInv => StatusMatchesNodes
    <3> SUFFICES ASSUME TypeOK, ManualInv, http.pc # "message_and_publish", Settled,
                        NEW x \in Topic
                 PROVE  ToldOn(x) <=> act[x]
      BY DEF StatusMatchesNodes, SettledAgreement
    <3>1. PICK a \in Setting : a = act
      BY DEF TypeOK, ActuatorTypeOK
    <3>2. Links("httpd", a)
      BY <3>1 DEF ManualInv, Sent, Links, SentFor
    <3> QED BY <3>1, <3>2, LinksSettle DEF Task
  <2> QED BY <1>1, <2>1, <2>2, CenterTypeCorrect, PTL DEF CommCenterSpec
<1> QED BY <1>2, <1>3
=============================================================================
