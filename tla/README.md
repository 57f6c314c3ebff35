# The communication center in TLA+

TLA+ modules for the ESP32 communication center of this repository: the C files
of `src/src/` (about 2100 lines), that is the sensor cache, the automatic
ventilation rules, the schedule, the HTTP API, the way of an actuator setting to
the nodes, startup and the displays, and the part of the embedded mosquitto broker
that this firmware relies on. TLC checks them on small instances. TLAPS proves every invariant
that a passing run checks, under the hypotheses its theorem names, for every value of the
constants, and that the way of a setting to the nodes implements an abstract specification.

Line numbers below are those of the files under `src/src/` unless a path is given;
the broker's files are in `src/components/mosquitto/mosquitto/src/`.

## Inventory

| Part | State | Operations | Talks to |
|---|---|---|---|
| Sensor cache (`system_state.c:32-209`) | readings, `*_data_available`, `*_last_update_ms`, node IPs; under `state_mutex` | six updates, `system_state_refresh_sensor_timeouts` | filled by the broker callback; read by the control loop, `GET /sensors`, OLED |
| Broker callback (`mqtt_broker.c:10-72`) | none of its own | `mqtt_message_cb` on the broker task, core 0 | calls the sensor cache, IP and readings in two critical sections |
| Control rules (`system_state.c:231-489`) | `current_mode`, `schedule`, the four settings | `schedule_is_active`, `apply_auto_logic`, control flags | pure, called under the mutex |
| Control loop (`system_state.c:491-553`) | where `system_task` is | refresh, `system_auto_update`, one second of sleep, again | sensor cache, rules, `publish_state` |
| `publish_state` (`system_state.c:211-229`) | `last_*`, **not** under the mutex | compare, send, record | called by `system_task` and the HTTP server; calls `mqtt_publish` |
| MQTT client (`mqtt_pub_sub.c`) | `global_client` | event handler, `mqtt_publish` (QoS 1, retained) | client library's outbox, broker |
| Status message (`system_status.c`) | headline and explanation, under the same mutex | set both; get each | set by control loop and POST handlers, read by `GET /status` |
| HTTP API (`http_server.c`) | one request at a time on the server task, core 1 | three GETs, three POSTs | everything above |
| JSON escaping (`http_server.c:35-85`) | a chunk buffer | `httpd_resp_send_json_escaped_string_chunk` | HTTP API |
| Wi-Fi station (`wifi.c`) | `wifi_connected`, `esp_ip_addr`, volatile, no lock | event handler on the event loop task | sets the LED's flag; read by the OLED task |
| Status LED (`status_led.c`) | two health flags, LED on or off | polling task | - |
| OLED screen (`oled_status.c`) | a snapshot, the previous one, the screen | polling task | reads Wi-Fi globals and the sensor cache |
| `state_mutex` (`system_state.c:99-109`, `system_status.c:22-25`) | its holder and those who wait | take with no limit of time, give; not recursive | HTTP server, `system_task`, broker callback, OLED; status setters and getters take it as well |
| Startup (`main.c`) | the order of initialisation | `app_main` | starts every task |
| Embedded broker (`database.c`, `subs.c`, `retain.c`, `context.c`, `handle_*.c`) | contexts, subscription tree, message store with reference counts, retained messages, in-flight window and queue per client | CONNECT, SUBSCRIBE, UNSUBSCRIBE, PUBLISH, PUBACK, DISCONNECT, keep-alive, main loop | the center's client, the nodes; calls the broker callback |
| Rest of mosquitto (`lib/`, `client/`, `plugins/`, `apps/`, bridges, persistence, TLS, configuration file) | - | - | not compiled in, or switched off by `port/config.c` |
| Clock (`sntp_time.c`), authentication (`mqtt_broker.c:75-86`) | - | configuration; a stateless comparison | - |

What is hard here: three tasks (broker, HTTP server, `system_task`) share the
globals; they wait for one mutex, and two of them, while they publish, for the broker's
task, which waits for the mutex itself; handlers give the mutex away and go on with what they read; the clock
is sampled before the mutex is taken; `last_*` and the Wi-Fi globals have no lock
at all; messages wait in an outbox while the connection is away, may be delivered
twice, dropped before the client has started or refused; the center restarts and
forgets while the nodes remember; a node's session outlives its connections and is
taken over by the next; the wall clock jumps; data times out between any two of
these steps; fixed buffers take text of any length.
`PROJECT.json` lists these hazards with their lines and the properties aimed at them.

Per component, correct means:

* sensor cache: a reading is dropped when, and only when, it is too old; what
  is marked missing reads zero; a connected board has an address;
* control: the fan never runs behind a closed window, automatic control acts on
  complete data, an active period takes over, only requests change a user's settings;
* publication: once things settle, the nodes know the settings in force;
* HTTP: every request is answered, sensor replies are fresh, `GET /status` and
  the nodes agree, the status message catches up with the mode; texts fit their
  buffers, are escaped completely and mean what was posted;
* mutex: every way through the code gives it back, nobody takes it twice, nobody
  holds it while waiting for somebody else;
* board: no task runs before its mutex exists, the screen is consistent without a
  lock, LED and screen catch up with the link, the station keeps trying;
* broker: messages live exactly as long as they are referred to, subscriptions
  survive a takeover, the in-flight window is exact, a topic's messages are
  not reordered, and a subscribed node ends with the retained setting.

## Modules

| Module | Models | Composed of |
|---|---|---|
| `ControlRules` | the decisions as pure operators: periods, control flags, AUTO_BEST, AUTO_ECO, messages | - |
| `SensorCache` | sensor cache, timeouts, broker callback with its bounded copy | `ControlRules` |
| `SettingLink` | abstract: what the way of a setting to the nodes promises | `ControlRules` |
| `ActuatorPublish` | `publish_state`, `mqtt_publish`, client outbox, retained values | `ControlRules` |
| `ActuatorLinkRefinement` | `ActuatorPublish` implements `SettingLink` | both |
| `ActuatorFaults` | dropped and refused publications, restarts of the center | `ActuatorPublish` |
| `SystemState` | `system_task`: refresh, `system_auto_update` | `SensorCache`, `ActuatorPublish` |
| `ScheduleText` | one schedule object, a body, the printed schedule and its length | `ControlRules` |
| `HttpServer` | the six handlers | `SystemState`, `ScheduleText` |
| `CommCenter` | all tasks together, with fairness and the system's properties | `HttpServer` |
| `StateMutex` | the mutex: every take and give of every task, and the waiting for the broker | - |
| `HttpText` | the parser's loop over a body, the escaping writer and its chunks | `ScheduleText` |
| `Board` | `app_main`, Wi-Fi event handler, LED task, OLED task | - |
| `Broker` | the broker's store, retained messages, subscriptions, sessions, in-flight window | - |
| `MCSensorCache`, `MCActuatorPublish`, `MCActuatorFaults`, `MCCommCenter`, `MCStateMutex`, `MCHttpText`, `MCBoard`, `MCBroker` | instances for TLC | |
| `MCCommCenterClaims`, `MCBrokerClaims` | statements of the docs and comments that the code does not keep | `MCCommCenter`, `MCBroker` |
| `ActuatorPublishProofs`, `BoardProofs` | theorems about the module they are named after | |
| `BrokerProofs` | theorems about the broker's types, sessions, quota and packet identifiers | |
| `BrokerMessageProofs` | theorems about the broker's messages: order, copies held back, store, what settled nodes show | `BrokerProofs` |
| `ActuatorLinkProofs` | theorems about `ActuatorLinkRefinement` and `ActuatorFaults` | `ActuatorPublishProofs` |
| `ScheduleTextProofs` | lemmas: induction over numbers, the loop over the objects of a body | |
| `CommCenterProofs` | theorems about the sensor cache and about all tasks together | `ActuatorPublishProofs`, `ScheduleTextProofs` |
| `HttpTextProofs` | theorems about parser and writer | `ScheduleTextProofs` |

### State and actions against the code

A critical section of `state_mutex` is one action. What a task reads or does
outside the mutex is a step of its own:

* `SampleNow`, `RefreshTimeouts`: line 170 of `system_state.c` reads the clock
  before line 175 waits for the mutex. `now[t]` is the local variable `now`.
* `MessageArrives`, `UpdateNodeIp`, `UpdateSensor`: the callback, which stores
  the address and the readings separately.
* `Compare`, `Send`, `Record`: one comparison, one `mqtt_publish`, one store of
  `publish_state`. `publish[t]` holds the arguments (`snap`) and the place.
* `ManualUpdate`, `HoldUpdate`, `AutoUpdate`: the three ways through
  `system_auto_update`. `AutoUpdate` includes the mode change, the rules, the
  fan guard, the message and the snapshot that starts `publish_state`.
* `StatusFlags`, `StatusHeadline`, `StatusExplanation`: `GET /status` takes the
  mutex three times.
* `ModePost`, `ActuatorsPost`, `SchedulePost`: the critical section of each
  POST; `SetMessage` and `SetMessageAndPublish` are what follows it. `http.message`
  is the message chosen inside.

* `StateMutex` looks at the same code from the other side: `path[t]` is what a task still has
  before it of `take`, `give`, `send` (one `mqtt_publish`) and `answer`, and the definitions with the
  names of the C functions say which sequences of these the function has. `AutoUpdate` gives the
  mutex and then sends; `ManualControlRefused` gives and answers;
  `system_status_set_message_locked` is empty where `system_status_set_message` takes and gives.
  Which way a task takes is left open, because the values that decide it are `CommCenter`'s
  subject. In the other modules a critical section is one step, which this one justifies: whoever
  is inside gets out.
* `SendRefused`, `Restart` (`ActuatorFaults`): `esp_mqtt_client_publish` returns an
  error nobody looks at; all of RAM returns to its initial values, `node` does not.
* `ScanObject`, `EscapeIntoChunk`, `SendFullChunk`: one pass of the loops at
  `http_server.c:443` and `:48`.
* `StoreAddress`, `FlagUp`, `LedUp`, `FlagDown`, `LedDown`, `Connect`: one access each
  of the Wi-Fi event handler; `CaptureFlag`, `CaptureAddress`, `CaptureNodes`: one
  read each of the OLED task's snapshot.
* `Broker`: the broker is one task, so the handling of a packet is one action,
  built from operators with the names of the C functions. `db` is its global
  state; a context is a record in `db.ctx`, `leaves` is the subscription tree
  flattened to (topic, context, QoS), `store` keeps `ref_count` and the clients
  already served. A message is the number of its publication, which is what
  the order properties compare.

Three simplifications: `Board.Connect` takes every `esp_wifi_connect` for the beginning of an
attempt, while its result is ignored at `wifi.c:30` and `:39`; `Broker` knows no failed `send__publish`
(`database.c:1124-1141`), what it leads to being the loss of the connection that follows; a node
does not subscribe to a topic twice on one connection.

The settings `window, fan, door, absorber_used` are one function `act` over the
MQTT topics, `last` and the snapshots likewise.

Data is abstracted: floats are whole numbers (the code compares them with whole
thresholds and subtracts two of them); a payload is its length, the keys it
carries, where each ends (a key cut off by the copy is absent) and their numbers,
and a humidity is never negative; a body is whether it parses and to
what; a character to be escaped is one of three classes; texts are short names.
`uint8_t` widths are kept for the payload's length, the air-quality index and in
`time_to_minutes`. The branch "Fresh air is coming in" of AUTO_BEST (window open, fan off) has
no state to apply to, since there the fan equals the window.

External, modelled from how the code uses it: the client library stores QoS 1
messages in order, resends the oldest until it is acknowledged, and reconnects
by itself (`Connected`, `Disconnected`, `Deliver`, `DeliverUnacknowledged`);
the HTTP server library runs one handler at a time; the Wi-Fi driver posts an event
for each change of its link; the nodes act on what they receive, acknowledge
in order and may lose their connection. In the center's modules the broker only replaces
a topic's retained value (`told`); what happens behind it is `Broker`'s subject,
where the center is the one who publishes. Nodes that publish actuator topics
themselves are not modelled.

### The refinement

`SettingLink` knows three things: the settings, what the nodes have been told, and
what is *owed* to them, a queue. A decision appends one value per changed
actuator in the order window, fan, door, absorber; the oldest owed value
is told, possibly more than once; in the end all of it is. `ActuatorLinkRefinement`
maps `owed` to the outbox followed by what the publisher inside `publish_state` is
still going to send, that is the topics not yet compared whose setting differs
from `last_*`. So a decision, a single step of the code that only stores a snapshot,
becomes the abstract decision; every comparison, `mqtt_publish`, store, loss of the
connection becomes a stutter; an acknowledged delivery is `Tell`, one whose
acknowledgement is lost `TellAgain`. It holds with one publisher; two break it
(`ClaimTakeover`).

## Runs

| Run | Instance | Distinct states | Shows |
|---|---|---|---|
| `SensorCache` | two refreshing tasks; payloads with a missing key, a key cut off at byte 95, a length of 256 and more, an index above 255, wind; steps of 1 s and 5.001 s | 286k | types, `NoLeftoverReadings`, `ConnectedBoardHasIp`, `CopyStaysInside`, `NoSpuriousTimeout`, `StaleDataIsDropped` |
| `ActuatorLink` | `system_task` publishes three settings, outbox of 6 | 11k | types, `SettledAgreement`, `ImplementsSettingLink` |
| `ActuatorFaults` | the server task publishes before the client has started and while it refuses; two restarts | 148k | `LastIsCurrent`, `OnlyLostChangesDiffer`, `NodesRecover` |
| `CenterAuto` | mode requests, `GET /sensors`, data of both boards, one timeout | 1.23M | `StatusMatchesNodes`, `FreshReply`, `AutoOpensOnlyWithData` |
| `CenterControl` | both publishers; a plan of ten objects, one that does not parse, one over midnight, and one more than fits; the clock at noon and 23:00; settings accepted and refused | 557k | types, `FanNeedsWindow`, `ManualSettingsStay` |
| `CenterPlan` | every handler and every way to refuse; a day's plan; the clock jumps between noon and 23:00; nothing to publish | 28k | `StatusFollowsMode`, `ScheduleTakesOver` |
| `SharedMutex` | every way through every handler, through `system_auto_update` and the callback; up to four messages per publication; the session begins and ends | 21k | `EveryRequestAnswered`, `TasksComeBack` |
| `HttpText` | every text of up to five characters in chunks of four; every pair of four times; bodies with odd times, quoted modes, objects left open, more than eight objects, modes of the greatest length | 70k | `ChunkFits`, `ReceivedIsEscaped`, `ScanAgrees`, `PlanReplyFits`, `PeriodsCoverTheirMinutes` |
| `Board` | two addresses, two events waiting | 19k | `ScreenIsConsistent`, `TasksHaveTheirMutex`, `StationKeepsTrying`, `DisplaysCatchUp` |
| `Broker` | one node of either QoS, two contexts, a window of one and a queue of one, four publications, three connections, clean or not | 327k | types, `StoreIsExact`, `LeavesAreListed`, `QuotaIsExact`, `MidsAreDistinct`, `SentInOrder`, `OnlyCopiesAreHeldBack`, `SettledNodesShowRetained`, `SubscribedNodesCatchUp` |
| `Claim*` | see "Disagreements" | | one violated statement each |

Bounds and why they are enough:

* `MaxClock` stops the millisecond clock after every source has been fresh, on
  its limit and late; ages only matter relative to the timeouts.
* `OutboxBound` makes `Send` wait when the outbox is full. Six messages hold a
  complete change of the settings and the half of the next; `ActuatorFaults` uses
  two, the length of its combined change, and the composed runs
  one, because the length is examined in `ActuatorLink` and proved
  irrelevant by `SettledNodesAgree`.
* `MaxRestarts = 2`: a restart, and one that meets what the first left behind.
* Requests, payloads and minutes are sets of a few members that take every
  branch of the handlers and every branch of the schedule test.
* `AwaitConnected` is the startup order of `src/README.md:61-69`: nobody uses the
  center before the client has started. `ActuatorFaults` does without.
* `WireBound = 1` lets the socket take one message before the broker reads: the least with which a
  publisher waits for the broker; a larger one only makes that rarer.
* `ChunkSize = 4` is the least in which a chunk may hold two escaped, or one escaped and one plain
  character, and be short of one place or of two; five characters need a second chunk.
* `EventBound`: a disconnection and a new address wait while an older event is handled.
* `Broker`: a takeover needs two contexts; a window of one and a queue of one are the least
  in which a message is in flight, queued and dropped; four publications fill both, drop one and
  repair it; the third connection takes over a session that a second one has carried on. The
  settings shipped (`port/config.c`) are 20 and 1000 with the same comparisons; a
  second topic or node multiplies the states, and shares with the first only the store. When
  publications and connections are used up the broker may stop, so this run (and its claim)
  does not look for deadlocks; all others do.

Fairness (`Fairness` in `CommCenter`): `system_task` loops forever and the
server task runs a handler it has started (both are FreeRTOS tasks that block
only on the mutex, whose critical sections are single actions); a task inside
`publish_state` goes on; the client connects when it can. `Acknowledged` is
strongly fair: connections come and go, but not always just before an
acknowledgement. Users, nodes and the wall clock are not fair.

`FaultsFairness` says the same for `ActuatorFaults` and nothing of refusals and
restarts; `MutexFairness` says that a task
that waits for the mutex or for the socket gets it if it becomes free again and again (strong
fairness: FreeRTOS wakes the waiter of highest priority, and every task sleeps or waits for the
network between its rounds), and that the broker's loop serves every socket that has something to
read; nobody has to send a request or a reading, and a write need not time out nor a session
end. `BoardFairness` lets `app_main`, the event loop, the LED and the OLED task run, and
leaves the access point and the presence of a display open. `BrokerFairness`: the main loop of the
broker keeps running (it handles packets that have arrived, checks keep-alives and
frees contexts) and a connected node reads its socket. Nobody has to publish, connect or subscribe.

## Proofs

The assumptions on the constants are those their modules state (`*Assumption`) and nothing else,
unless the theorem says so: how many topics, nodes, contexts, requests, payloads, restarts there
are, how long texts and bodies are and where the bounds lie is left open.

`CommCenterProofs`, first section, about the sensor cache alone (any payloads, any time steps, any clock
bound):

* `SensorTypeCorrect`: `SensorTypeOK` is inductive. It includes that no
  sample and no stamp is ahead of the clock.
* `NoLeftovers`: `NoLeftoverReadings`, inductive with the types.
* `TimeoutsAreJustified`: the action property `NoSpuriousTimeout`. The age
  by a stale sample is at most the age by the clock, which is the type
  invariant's last part; the subtraction must be signed, as `int64_t` is.
* `ConnectedBoardsHaveIps`: needs a strengthening about the callback: while a
  board's message waits for its second critical section, its address is stored.
* `CopiesStayInside`: `CopyStaysInside` for payloads of any length. What is copied is at most
  95 bytes and at most what was received (`CopyLengthBounds`, about the 8-bit length), and no
  key is read that ends beyond it.

`ActuatorPublishProofs` (any settings, any outbox bound):

* `ActuatorTypeCorrect`: types, with any set of publishers.
* `LastIsAlwaysCurrent`: with one publisher, `LastIsCurrent`. The invariant
  `LastInv` says that the snapshot in flight is the settings in force and that
  `last_*` has been brought up to it for the topics before the one being recorded.
  It does not need `AwaitConnected`.
* `SettledNodesAgree`: with one publisher that waits for the client,
  `SettledAgreement`. The invariant `LinkInv` says where each topic will end
  once the outbox is drained: the last message about it, or else the retained
  value, is the setting in force for the topics `publish_state` is done with and the
  one recorded in `last_*` for the others. A repeated delivery of the oldest
  message does not change that, which the lemma `EndsDelivered` states.

Both invariants take the publisher and its settings as parameters (`Publishes`, `Links`), so that
the proofs about faults and about all tasks together use the same lemmas.

`ActuatorLinkProofs` (any settings, any outbox bound, any number of restarts):

* `LinkKeepsItsPromise`: with one publisher that waits for the client, `ActuatorSpec` implements
  `SettingLinkSafety`, the part of `ImplementsSettingLink` that is not liveness. `LinkSimulates` takes
  one step at a time: a decision is `DecideOn` (`DecisionPending`: what a fresh snapshot makes pending
  is what the abstract specification says has changed), comparing, sending and storing leave `Owed` as it
  is (`PendingFirst`: the topic a task is at comes first of what is pending), the two deliveries are
  `Tell` and `TellAgain`. Beyond `LastInv` and `LinkInv` it needs `SendInv`: what is about to be
  sent still differs from `last_*`.
* `LastStaysCurrent`: `LastIsCurrent` also when publications are dropped or refused and the
  center restarts: `publish_state` records what it failed to send as well.
* `OnlyLostTopicsDiffer`: `OnlyLostChangesDiffer`. `LinkInv` does not survive a refusal; `FaultInv`
  keeps its promise topic by topic, for the topics that are not `lost`, and says of the nodes, not
  of the retained values, where they end. A topic leaves `lost` only when a message about
  it enters the outbox, and a repeated delivery never revives an older one of another topic.

The assumption of one publisher is needed: with two, `ClaimTakeover` shows the
agreement lost.

`CommCenterProofs`, the rest (any requests, payloads, minutes and times):

* `CenterTypeCorrect`: the types of all tasks together. Its content is in the lemmas: whatever a
  body holds, at most eight periods are stored (`StoredPlans`, from `ParsedPeriodsType`), whatever the rules
  decide is a setting and a message the code has (`AutoSettingsType`, `HandlerMessages`).
* `FanAlwaysHasWindow`: `FanNeedsWindow`. The property speaks of the settings and of the snapshots on
  their way; inductive it becomes with what `ActuatorsPost` has accepted and not yet handed to
  `publish_state` (`FanRuleInv`): in between, the mutex is free.
* `AutoAlwaysOpensWithData` and `ManualSettingsAlwaysStay`: action properties, each from a lemma about what the
  rules can do (`OpensWithData`) or about who can do it (`ModeSteps`, `SystemSteps`), on typed states.
* `RepliesAlwaysFresh`: `FreshReply`, for every set of timeouts. `FreshInv` adds that the server
  task's sample is taken after the request came in and only by `GET /sensors`;
  a reading that survives a refresh with that sample, or arrives later, is fresh (`StaysFresh`).
* `NodesAlwaysMatchStatus`: `StatusMatchesNodes`, assuming that everybody waits for the client
  (`AwaitConnected`) and that either no user sets actuators (`OnlyAutomatic`) or no user asks for an automatic
  mode (`OnlyManual`). The run `CenterAuto` is an instance of the first. With both, `publish_state` has two
  callers at once and the statement is false (`ClaimTakeover`). Either way the invariant is `Links`
  of the one publisher, together with where that task is in its round (`SystemRounds`) or which settings
  the handler is about to publish (`Sent`).

`HttpTextProofs` (any text, any chunk size of at least two, bodies of any length):

* `ChunkAlwaysFits`: `WriterInv` bounds the chunk by its size after every character; an escaped
  character is written only after the test for two places.
* `ReceivedIsAlwaysEscaped`: `ReceivedIsEscaped`. `SentInv`: what was sent followed by what is in the
  chunk is the escaped form of the text before `i`, however it was cut.
* `ScanAlwaysAgrees`: `ScanAgrees`. `ScanInv`: while the loop runs over a body whose objects are closed, it has stored
  what the first `p - 1` objects give; a null pointer needs an object left open.
* `PlanReplyAlwaysFits`: `PlanReplyFits`; every period prints in at most 52 characters
  (`LengthOfIntBounded` for the numbers), a plan of eight in at most 438 of 512.
* `PeriodsAlwaysCoverTheirMinutes`: `PeriodsCoverTheirMinutes`, by arithmetic on minutes
  (`MinutesInPeriod`), for periods within a day and over midnight.

`BoardProofs` (any addresses, any number of events waiting):

* `TasksAlwaysHaveTheirMutex`: by `StartupInv`, which ties the place in `app_main` to the tasks
  that exist: before the mutex only the LED's.
* `ScreenAlwaysConsistent`: `StationInv` says that the event handler stores the address before
  it raises the flag and that no event takes the address back; therefore `DisplayInv`: a snapshot that has
  seen the flag finds an address however late it reads it.

`BrokerProofs` (any nodes, topics and contexts, any limits, any number of publications and
connections, whether sockets stall or not):

* `BrokerTypeCorrect`: `TypeInv`, stronger than `TypeOK` in that it types the store and ties
  every number of a message to what has been published. The loops over the messages in flight and over the queue
  stay inside the types by `AllWritten` and `ProcessType`.
* `LeavesAlwaysListed`: `LeavesAreListed`. `SessionInv` says why: leaves and lists agree one to one
  (`Listed`), a context that was given up has no client id any more (`Named`), so the new context of
  a returning client is the only one of its id, and a node's connection belongs to the active
  context of its id (`Linked`). The takeover in `handle__connect` first moves the lists and then the leaves
  (`GivenWay`); `LeavesAreListed` alone does not survive it.
* `QuotaAlwaysExact`: `QuotaIsExact`. The quota is given back by `handle__pubackcomp` whatever the PUBACK names,
  so the statement depends on the packets on their way. `QuotaInv` therefore bounds, for each
  context and each packet identifier, the PUBACKs on their way by the messages that wait for one and
  have been received by the node (`Slack`), and lets PUBACKs exist only towards the context the node is connected to.
  It also says that the number of QoS 1 messages in flight never exceeds the window when a
  session changes its context, where the quota is counted afresh (`db__message_reconnect_reset`). TLC checked
  `QuotaInv` on the run before it was proved.
  Counting is by `Count(q, P)`, how many elements of a sequence are in a set, with lemmas for
  appending, removing and replacing one.
* `MidsDistinctUntilUsedUp`: `MidsAreDistinct`, as long as no context has come to the last identifier
  (`MidsLeft`, a hypothesis about the whole behavior). `MidsInv` says of every context that no
  identifier is in use twice, in flight and queue together, and none beyond `last_mid`
  (`Distinct`); so the next one is free. Sending, the queue's moving on, PUBACKs and
  `connect__on_authorised`, which hands the messages and `last_mid` on together, bring no identifier
  into use (`NoMoreIds`). A publication or a retained copy brings at most the next one
  (`OneMoreId`), a publication because it is offered to each context at most once: a context has one leaf of a topic (`SessionInv`).
  The hypothesis is needed: `mosquitto__mid_generate` starts again after 65535 without looking
  who still waits, and a client that leaves one message unacknowledged that long would see its
  identifier again. TLC checked `MidsInv` on the run's instance as well.

`BrokerMessageProofs` (the same constants):

* `AlwaysSentInOrder`: `SentInOrder`, and `OnlyCopiesAreEverHeldBack`: `OnlyCopiesAreHeldBack`, both
  from `OrderInv`. For every context it says that what is on its way, in flight and queued is in order, each
  list by itself and each ahead of the next (`InLine`; what waits for a PUBACK may be older than what is on
  its way); that while the client is connected, what is unsent in flight comes last and is a retained
  copy (`Lately`), or the backward search of `db__message_write_inflight_out_latest` would stop short;
  that only a client of QoS 1 has a queue, because a QoS 0 message is written past it (`Even`, with
  `Alike`: every leaf has its client's QoS); and that the retained message is the newest of its topic
  (`Retains`), so that a copy of it may go behind everything. `Sound` of `QuotaInv` is needed
  too: a queue that is not empty has no quota left, so no live message overtakes it.

* `StoreAlwaysExact`: `StoreIsExact`. The store's count of a message is compared with the number of places
  in which all contexts hold it (`Total`) plus one if it is retained (`Kept`); the difference is its
  `Surplus`, and `StoreInv` says that it is 0 for every message and that nothing is stored without a
  reference. Inside a handler it is not: `sub__messages_queue` protects the message it sends with a reference
  of its own, a loop that sends what is in flight has taken the whole list out of the context
  and owes for the rest of it (`Owing`), and so does `context__cleanup` while it lets go of a context's
  messages. The lemmas therefore say that an operator keeps every surplus, whatever it is, as
  long as none is negative (`Balance`), so that they can be put one behind the other; a negative
  one would free a message that is still referred to. Adding up over the contexts is done
  with one finite set of places (`SideBySide`), of which one context's share changes at a time; a
  takeover changes two (`TwoMoved`). `Single`, which follows from `OrderInv`, keeps a message from being
  retained for two topics. TLC checked `StoreInv` with two topics and a window of two before it was proved.

* `SettledNodesAlwaysShowRetained`: `SettledNodesShowRetained`. `SettledInv` says of every node that has
  subscribed to a topic and was not dropped a message of it that the retained message is yet to come to it
  (`ToCome`: on its way, unsent in flight, or queued), or that the node shows it and no other message of the
  topic is to come (`Served`). No step of the broker loses anything of what is to come but the end of a
  connection (`Carries`, for the loops and for what a queue moves into flight) and a publication or
  a SUBSCRIBE adds one message at most (`MayCome`). When the node receives, the retained message comes last
  of its topic, by `OrderInv`. That a message comes to whoever has room for it (`ProcessComes`) is
  the delicate part: `subs__send` skips a client that was given the message before, so the proof follows, from one
  subscriber to the next, that the message is still stored (`Balance`, from `StoreInv`), that the clients before
  this one have other ids (`SubscribersDiffer`, from `SessionInv`) and that this client's context is
  as it was (`InTurn`). A PUBACK takes out the first message with its identifier; that this one has been
  sent needs `Slack` of `QuotaInv` (`AwaitedWaits`) and that what is unsent comes last. TLC checked
  `SettledInv` with two topics and a window of two before it was proved.

Induction over data is done over sets of numbers: the least counterexample of `WFMin` gives
`SetOfNumbers`, `UpTo` and `StaysInside`, and `Recursion` says that a recursive function on 0..N is what its
definition says (all in `ScheduleTextProofs`). That reaches the loops this code has, over
periods, characters, messages in flight, queue and contexts.

Only model-checked:

* all liveness, the refinement's included: TLAPS does not reason about fairness here. Every
  invariant a passing run checks is stated by a theorem, under the hypotheses named above.

## Disagreements

Each of these runs ends with a counterexample, on purpose:

* `ClaimTakeover`: `publish_state` is not serialised. A user takes over while
  `system_task` is recording; `last_*` ends with the other task's values, and
  the nodes keep what `GET /status` no longer reports (`src/api.md:551`). Change detection does not
  repair this by itself: a topic is published again when a later decision differs from its `last_*`.
* `ClaimResubscribe`: a node subscribes while its socket does not take the SUBACK at once; the
  retained setting is put in flight, but nothing sends it until the broker's next message to this
  node or the node's next PUBACK (`handle_subscribe.c:243` against `subs.c:328-329`).

Others, met while modelling and visible in the definitions, have no run:

* the window's message precedes the fan's (`TopicOrder`), so when the window closes the nodes
  run the fan behind it until the second message arrives (`src/api.md:481`);
* when the indoor board times out, AUTO_ECO closes an open window (`AutoEco`), against
  the comment at `system_state.c:389`; the branch at 415-420 is reached by no state;
* the user's AUTO mode is overwritten by a period and does not come back when the plan
  is cleared (`AutoUpdate`, `SchedulePost`), as the text at `http_server.c:484` promises;
* a period of mode MANUAL ends automatic control for good (`system_state.c:520`): later periods
  never take over again, though no user chose manual control;
* outside every period the settings are held (`HoldUpdate`), where
  `src/api.md:512` turns everything off;
* the mode of a period is not validated (`ParsedPeriods`), where `POST /mode` refuses an unknown one: a
  period of mode 3 comes into force, and `GET /status` reports a mode that `src/api.md:259-262` does
  not list;
* an air-quality index above 255 wraps: 300 is stored as 44 (`ParsedReading`; `mqtt_broker.c:59`), counts as
  good air and may open the window (`src/api.md:16`, `:388`);
* `GET /schedule` prints a period's mode in quotes, as `src/api.md:309-316` shows it, and `POST /schedule`
  does not read quotes (`PrintedPeriod`, `Parses`): a plan read and posted back is cleared;
* a schedule body whose last object has no closing brace sends the loop of `http_server.c:443`
  after a null pointer (`ScanNull`);
* the body `{"2"}` that `src/api.md` gives for `POST /mode` has no `"mode"` key and is refused;
* headline and explanation of one status reply may belong to two messages
  (`StatusHeadline`, `StatusExplanation`; `src/api.md:237`);
* `src/api.md:395-421` gives AUTO_BEST's fan, door and absorber rules that
  `AutoBest` does not have: in the code the fan and the door equal the window and the
  absorber also follows indoor air quality;
* `scheduleActive` is false in MANUAL mode whatever the time is (`ControlFlags`;
  `src/api.md:270`).

## Not modelled

* HTTP: the formatting of `GET /sensors` (at most 223 of its 256 bytes for the numbers
  the sensors can produce) and of `GET /status`; the character scan of the bodies of
  `POST /mode` and `POST /actuators`, which the model takes as parsed or not.
* Status message: the cut at `STATUS_EXPLANATION_MAX_LEN`, which no text reaches, and setters without callers.
* OLED fonts, drawing and I2C; SNTP and Wi-Fi configuration calls; the fixed comparison of
  `mqtt_auth_cb`: no state of their own.
* Broker: QoS 2 and MQTT 5 (no client of this system uses them), wills, shared
  subscriptions, wildcards and the walk down the topic tree (topics are fixed names), access
  control, the limit of 1000 packets a socket may hold back, an empty retained payload (the
  center never publishes one); `mosquitto__mid_generate`'s wrap is written out but not reached by
  the run. Persistence, bridges, TLS, websockets and plugins are not compiled in.
* mosquitto's client library, command-line clients, dynamic-security plugin, `apps/` and their tests: vendored, not part of
  the firmware. They are most of the lines of the repository, so the share of all its lines
  that the project covers stays small, while it covers nearly all of `src/src/`.

## Plan

What is modelled stands, and so do the proofs. What is left:

* the walk down the topic tree (`sub__search`, `retain__search`) with wildcards, should the
  firmware come to use them.
