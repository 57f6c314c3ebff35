------------------------------ MODULE BoardProofs ------------------------------
(***************************************************************************)
(* Theorems about the board for any addresses and any number of waiting    *)
(* events: tasks and their mutex, and the screen that is consistent        *)
(* without a lock.                                                         *)
(***************************************************************************)
EXTENDS Board, SequenceTheorems, TLAPS

-----------------------------------------------------------------------------
(* Startup *)

\* Before the fourth step is done only the LED's task exists; from then on
\* there is a mutex.
StartupInv ==
    /\ boot \in 0..9
    /\ state_mutex \in BOOLEAN
    /\ boot < 4 => running \subseteq {"led"}
    /\ boot >= 4 => state_mutex

\* The order of app_main's nine steps.
LEMMA StartupOrder ==
    /\ Len(Startup) = 9
    /\ Startup[1] = "led" /\ Startup[2] = "wifi" /\ Startup[3] = "time"
    /\ Startup[4] = "state"
  BY DEF Startup

\* The initial state has no task and no mutex.
LEMMA StartupInitially == BoardInit => StartupInv
<1> SUFFICES ASSUME BoardInit PROVE StartupInv
  OBVIOUS
<1>1. boot = 0 /\ running = {}
  BY DEF BoardInit
<1>2. state_mutex \in BOOLEAN
  BY Zenon DEF BoardInit
<1> QED BY <1>1, <1>2 DEF StartupInv

\* A step of app_main starts a task that needs the mutex only after "state".
LEMMA BootKeepsStartup == StartupInv /\ Boot => StartupInv'
<1> SUFFICES ASSUME StartupInv, Boot PROVE StartupInv'
  OBVIOUS
<1>1. boot \in 0..8 /\ boot' = boot + 1
  BY StartupOrder DEF StartupInv, Boot
<1> DEFINE step == Startup[boot + 1]
<1>2. /\ state_mutex' \in BOOLEAN
      /\ running' = IF step \in {"wifi", "time", "state"} THEN running
                                                         ELSE running \cup {step}
      /\ step = "state" => state_mutex'
      /\ state_mutex => state_mutex'
  BY DEF Boot, StartupInv
<1>3. CASE boot < 3
  <2>1. step \in {"led", "wifi", "time"}
    BY <1>1, <1>3, StartupOrder
  <2> QED BY <1>1, <1>2, <1>3, <2>1 DEF StartupInv
<1>4. CASE boot = 3
  <2>1. step = "state"
    BY <1>4, StartupOrder
  <2> QED BY <1>1, <1>2, <1>4, <2>1 DEF StartupInv
<1>5. CASE boot >= 4
  BY <1>1, <1>2, <1>5 DEF StartupInv
<1> QED BY <1>1, <1>3, <1>4, <1>5

\* No other step creates a task or does away with the mutex.
LEMMA StartupKept == StartupInv /\ [BoardNext]_board_vars => StartupInv'
<1> SUFFICES ASSUME StartupInv, [BoardNext]_board_vars PROVE StartupInv'
  OBVIOUS
<1>1. CASE Boot
  BY <1>1, BootKeepsStartup
<1>2. CASE DisplayAbsent
  BY <1>2 DEF DisplayAbsent, StartupInv
<1>3. CASE UNCHANGED <<boot, running, state_mutex>>
  BY <1>3 DEF StartupInv
<1>4. (\E a \in Addresses : Associate(a)) \/ LoseLink => UNCHANGED boot_vars
  BY DEF Associate, LoseLink
<1>5. EventHandler => UNCHANGED boot_vars
  BY DEF EventHandler, TakeEvent, FlagDown, LedDown, Connect, StoreAddress, FlagUp, LedUp
<1>6. LedPass \/ DisplayFound \/ OledPass => UNCHANGED boot_vars
  BY DEF LedPass, DisplayFound, OledPass, CaptureFlag, CaptureAddress, CaptureNodes, Render
<1> QED BY <1>1, <1>2, <1>3, <1>4, <1>5, <1>6 DEF BoardNext, boot_vars, board_vars

\* Every task that takes state_mutex is created after it, in whatever way the
\* tasks that already run interleave with app_main.
THEOREM TasksAlwaysHaveTheirMutex == BoardSpec => []TasksHaveTheirMutex
<1>1. StartupInv => TasksHaveTheirMutex
  BY DEF StartupInv, TasksHaveTheirMutex
<1> QED BY <1>1, StartupInitially, StartupKept, PTL DEF BoardSpec

-----------------------------------------------------------------------------
(* The screen *)

Down(steps) == [event : {"start", "disconnected"}, ip : {NoAddress}, step : steps]
GotIp(steps) == [event : {"got_ip"}, ip : Addresses, step : steps]
Posted == Down({1}) \cup GotIp({1})
InHand == Down({1, 2, 3}) \cup GotIp({1, 2, 3}) \cup {NoEvent}
Snapshot == [wifi : BOOLEAN, ip : Addresses \cup {NoAddress}]
Display == [pc : {"init", "flag", "ip", "nodes", "render"},
            snapshot : Snapshot, screen : Snapshot]

HasAddress == esp_ip_addr # NoAddress

\* The address is there before the flag is, and is never taken back.
StationInv ==
    /\ events \in Seq(Posted)
    /\ handling \in InHand
    /\ esp_ip_addr \in Addresses \cup {NoAddress}
    /\ wifi_connected \in BOOLEAN
    /\ handling.event = "got_ip" /\ handling.step # 1 => HasAddress
    /\ wifi_connected => HasAddress

\* A snapshot whose flag is set finds an address, however late it reads it.
DisplayInv ==
    /\ oled \in Display
    /\ oled.pc = "ip" /\ oled.snapshot.wifi => HasAddress
    /\ oled.pc \in {"nodes", "render"} /\ oled.snapshot.wifi =>
            oled.snapshot.ip # NoAddress
    /\ ScreenIsConsistent

\* At first no event is there, nothing is connected and the screen is blank.
LEMMA ScreenInitially == BoardInit => StationInv /\ DisplayInv
<1> SUFFICES ASSUME BoardInit PROVE StationInv /\ DisplayInv
  OBVIOUS
<1>1. events \in Seq(Posted)
  BY EmptySeq, Zenon DEF BoardInit
<1>2. handling = NoEvent /\ esp_ip_addr = NoAddress
  BY DEF BoardInit
<1>3. wifi_connected \in BOOLEAN /\ ~wifi_connected
  BY Zenon DEF BoardInit
<1>4. oled = [pc |-> "init", snapshot |-> Blank, screen |-> Blank]
  BY DEF BoardInit
<1>5. Blank \in Snapshot /\ ~Blank.wifi /\ Blank.ip = NoAddress
  BY DEF Blank, Snapshot
<1>6. NoEvent.event = "none"
  BY DEF NoEvent
<1>7. StationInv
  BY <1>1, <1>2, <1>3, <1>6 DEF StationInv, InHand
<1>8. DisplayInv
  BY <1>4, <1>5 DEF DisplayInv, Display, ScreenIsConsistent
<1> QED BY <1>7, <1>8

\* Startup and the driver at most post one event.
LEMMA OnlyPosted ==
    ASSUME Boot \/ (\E a \in Addresses : Associate(a)) \/ LoseLink
    PROVE  /\ UNCHANGED <<handling, esp_ip_addr, wifi_connected, oled>>
           /\ \/ UNCHANGED events
              \/ \E e \in Posted : events' = Append(events, e)
<1>1. UNCHANGED <<handling, esp_ip_addr, wifi_connected, oled>>
  BY DEF Boot, Associate, LoseLink
<1>2. \A a \in Addresses : Event("got_ip", a) \in Posted
  BY DEF Event, GotIp, Posted
<1>3. \A name \in {"start", "disconnected"} : Event(name, NoAddress) \in Posted
  BY DEF Event, Down, Posted
<1>4. CASE Boot
  BY <1>1, <1>3, <1>4 DEF Boot
<1>5. CASE (\E a \in Addresses : Associate(a)) \/ LoseLink
  BY <1>1, <1>2, <1>3, <1>5 DEF Associate, LoseLink, Post
<1> QED BY <1>4, <1>5

\* An event being handled is of one kind, and its steps are numbered.
LEMMA HandledEvents ==
    ASSUME NEW h \in InHand
    PROVE  /\ h.event = "got_ip" => h \in GotIp({1, 2, 3})
           /\ h.event \in {"start", "disconnected"} => h \in Down({1, 2, 3})
<1>1. h \in Down({1, 2, 3}) \/ h \in GotIp({1, 2, 3}) \/ h = NoEvent
  BY DEF InHand
<1>2. h \in Down({1, 2, 3}) => h.event # "got_ip"
  BY DEF Down
<1>3. h \in GotIp({1, 2, 3}) => h.event = "got_ip"
  BY DEF GotIp
<1>4. NoEvent.event = "none"
  BY DEF NoEvent
<1> QED BY <1>1, <1>2, <1>3, <1>4

LEMMA StepsOfGotIp ==
    ASSUME NEW h \in GotIp({1, 2, 3}), h.step # 3
    PROVE  [h EXCEPT !.step = @ + 1] \in InHand /\ h.ip \in Addresses
<1>1. h.step \in {1, 2} /\ h.ip \in Addresses
  BY DEF GotIp
<1>2. h.step + 1 \in {1, 2, 3}
  BY <1>1
<1>3. [h EXCEPT !.step = h.step + 1] \in GotIp({1, 2, 3})
  BY <1>2 DEF GotIp
<1> QED BY <1>1, <1>3 DEF InHand

LEMMA StepsOfDown ==
    ASSUME NEW h \in Down({1, 2, 3}), h.step # 3
    PROVE  /\ [h EXCEPT !.step = @ + 1] \in InHand
           /\ [h EXCEPT !.step = @ + 1].event # "got_ip"
<1>1. h.step \in {1, 2}
  BY DEF Down
<1>2. h.step + 1 \in {1, 2, 3}
  BY <1>1
<1>3. [h EXCEPT !.step = h.step + 1] \in Down({1, 2, 3})
  BY <1>2 DEF Down
<1>4. [h EXCEPT !.step = h.step + 1].event # "got_ip"
  BY <1>3 DEF Down
<1> QED BY <1>3, <1>4 DEF InHand

\* The station's part: each step of the event handler keeps it, because the
\* flag is only raised by an event whose address has been stored.
LEMMA HandlerKeepsStation ==
    ASSUME StationInv, EventHandler
    PROVE  StationInv' /\ (HasAddress => HasAddress')
<1>1. handling \in InHand /\ esp_ip_addr \in Addresses \cup {NoAddress}
      /\ events \in Seq(Posted) /\ wifi_connected \in BOOLEAN
  BY DEF StationInv
<1>2. CASE TakeEvent
  <2>1. events # <<>> /\ handling' = Head(events) /\ events' = Tail(events)
        /\ UNCHANGED <<esp_ip_addr, wifi_connected>>
    BY <1>2 DEF TakeEvent
  <2>2. handling' \in Posted /\ events' \in Seq(Posted)
    BY <1>1, <2>1, HeadTailProperties
  <2>3. handling' \in InHand /\ handling'.step = 1
    BY <2>2 DEF Posted, InHand, Down, GotIp
  <2> QED BY <2>1, <2>2, <2>3 DEF StationInv, HasAddress
<1>3. CASE FlagDown \/ LedDown
  <2>1. IsDown /\ handling.step \in {1, 2} /\ NextStep
        /\ UNCHANGED <<events, esp_ip_addr>>
    BY <1>3 DEF FlagDown, LedDown
  <2>2. wifi_connected' \in BOOLEAN /\ (wifi_connected' => wifi_connected)
    <3>1. CASE FlagDown
      BY <3>1, Zenon DEF FlagDown
    <3>2. CASE LedDown
      BY <1>1, <3>2 DEF LedDown
    <3> QED BY <1>3, <3>1, <3>2
  <2>3. handling' \in InHand /\ handling'.event # "got_ip"
    BY <1>1, <2>1, HandledEvents, StepsOfDown DEF IsDown, NextStep
  <2> QED BY <2>1, <2>2, <2>3 DEF StationInv, HasAddress
<1>4. CASE Connect \/ LedUp
  <2>1. handling' = NoEvent /\ UNCHANGED <<events, esp_ip_addr, wifi_connected>>
    BY <1>4 DEF Connect, LedUp
  <2>2. handling' \in InHand /\ handling'.event = "none"
    BY <2>1 DEF InHand, NoEvent
  <2> QED BY <2>1, <2>2 DEF StationInv, HasAddress
<1>5. CASE StoreAddress
  <2>1. handling.event = "got_ip" /\ handling.step = 1 /\ NextStep
        /\ esp_ip_addr' = handling.ip /\ UNCHANGED <<events, wifi_connected>>
    BY <1>5 DEF StoreAddress
  <2>2. handling \in GotIp({1, 2, 3})
    BY <1>1, <2>1, HandledEvents
  <2>3. handling' \in InHand /\ esp_ip_addr' \in Addresses
    BY <2>1, <2>2, StepsOfGotIp DEF NextStep
  <2>4. HasAddress'
    BY <2>3, BoardAssumption DEF HasAddress
  <2> QED BY <2>1, <2>3, <2>4 DEF StationInv
<1>6. CASE FlagUp
  <2>1. handling.event = "got_ip" /\ handling.step = 2 /\ NextStep
        /\ UNCHANGED <<events, esp_ip_addr>>
    BY <1>6 DEF FlagUp
  <2>2. wifi_connected' \in BOOLEAN
    BY <1>6, Zenon DEF FlagUp
  <2>3. handling' \in InHand
    BY <1>1, <2>1, HandledEvents, StepsOfGotIp DEF NextStep
  <2>4. handling.step # 1
    BY <2>1, 2 # 1, Zenon
  <2>5. HasAddress /\ HasAddress'
    BY <2>1, <2>4 DEF StationInv, HasAddress
  <2> QED BY <2>1, <2>2, <2>3, <2>5 DEF StationInv
<1> QED BY <1>2, <1>3, <1>4, <1>5, <1>6 DEF EventHandler

\* No other step touches it but for an event posted.
LEMMA OthersKeepStation ==
    ASSUME StationInv, UNCHANGED <<handling, esp_ip_addr, wifi_connected>>,
           UNCHANGED events \/ \E e \in Posted : events' = Append(events, e)
    PROVE  StationInv' /\ (HasAddress => HasAddress')
<1>1. events \in Seq(Posted)
  BY DEF StationInv
<1>2. events' \in Seq(Posted)
  BY <1>1, AppendProperties
<1> QED BY <1>2 DEF StationInv, HasAddress

\* The OLED task's part: it reads the flag before the address and draws what
\* it has read.
LEMMA DisplayKept ==
    ASSUME StationInv, DisplayInv, HasAddress => HasAddress',
           OledPass \/ DisplayFound
    PROVE  DisplayInv'
<1>1. oled \in Display /\ wifi_connected \in BOOLEAN
      /\ esp_ip_addr \in Addresses \cup {NoAddress}
  BY DEF StationInv, DisplayInv
<1>2. CASE DisplayFound
  <2>1. oled' \in Display /\ oled'.pc = "flag" /\ oled'.screen = oled.screen
    BY <1>1, <1>2 DEF DisplayFound, Display
  <2> QED BY <2>1 DEF DisplayInv, ScreenIsConsistent
<1>3. CASE CaptureFlag
  <2>1. oled' = [oled EXCEPT !.pc = "ip", !.snapshot.wifi = wifi_connected]
    BY <1>3 DEF CaptureFlag
  <2>2. oled' \in Display /\ oled'.pc = "ip" /\ oled'.screen = oled.screen
        /\ oled'.snapshot.wifi = wifi_connected
    BY <1>1, <2>1 DEF Display, Snapshot
  <2>3. oled'.snapshot.wifi => HasAddress'
    BY <2>2, Zenon DEF StationInv
  <2> QED BY <2>2, <2>3 DEF DisplayInv, ScreenIsConsistent
<1>4. CASE CaptureAddress
  <2>1. oled.pc = "ip" /\ oled' = [oled EXCEPT !.pc = "nodes", !.snapshot.ip = esp_ip_addr]
    BY <1>4 DEF CaptureAddress, At
  <2>2. oled' \in Display /\ oled'.pc = "nodes" /\ oled'.screen = oled.screen
        /\ oled'.snapshot.ip = esp_ip_addr /\ oled'.snapshot.wifi = oled.snapshot.wifi
    BY <1>1, <2>1 DEF Display, Snapshot
  <2> QED BY <2>1, <2>2 DEF DisplayInv, ScreenIsConsistent, HasAddress
<1>5. CASE CaptureNodes
  <2>1. oled.pc = "nodes" /\ oled' = [oled EXCEPT !.pc = "render"]
    BY <1>5 DEF CaptureNodes, At
  <2>2. oled' \in Display /\ oled'.pc = "render" /\ oled'.screen = oled.screen
        /\ oled'.snapshot = oled.snapshot
    BY <1>1, <2>1 DEF Display
  <2> QED BY <2>1, <2>2 DEF DisplayInv, ScreenIsConsistent
<1>6. CASE Render
  <2> DEFINE shown == [wifi |-> oled.snapshot.wifi, ip |-> ShownAddress(oled.snapshot)]
  <2>1. oled.pc = "render" /\ oled' = [oled EXCEPT !.pc = "flag", !.screen = shown]
    BY <1>6 DEF Render, At
  <2>2. oled.snapshot.wifi => oled.snapshot.ip # NoAddress
    BY <2>1 DEF DisplayInv
  <2>3. shown \in Snapshot /\ (shown.wifi <=> shown.ip # NoAddress)
    BY <1>1, <2>2 DEF Display, Snapshot, ShownAddress
  <2>4. oled' \in Display /\ oled'.pc = "flag" /\ oled'.screen = shown
    BY <1>1, <2>1, <2>3 DEF Display
  <2> HIDE DEF shown
  <2> QED BY <2>3, <2>4 DEF DisplayInv, ScreenIsConsistent
<1> QED BY <1>2, <1>3, <1>4, <1>5, <1>6 DEF OledPass

\* Other steps leave the OLED task alone and never take the address away.
LEMMA DisplayLeftAlone ==
    ASSUME DisplayInv, HasAddress => HasAddress', UNCHANGED oled
    PROVE  DisplayInv'
  BY DEF DisplayInv, ScreenIsConsistent

LEMMA ScreenKept ==
    StationInv /\ DisplayInv /\ [BoardNext]_board_vars => StationInv' /\ DisplayInv'
<1> SUFFICES ASSUME StationInv, DisplayInv, [BoardNext]_board_vars
             PROVE  StationInv' /\ DisplayInv'
  OBVIOUS
<1>1. CASE Boot \/ (\E a \in Addresses : Associate(a)) \/ LoseLink
  BY <1>1, OnlyPosted, OthersKeepStation, DisplayLeftAlone
<1>2. CASE EventHandler
  <2>1. UNCHANGED oled
    BY <1>2 DEF EventHandler, TakeEvent, FlagDown, LedDown, Connect, StoreAddress,
                FlagUp, LedUp
  <2> QED BY <1>2, <2>1, HandlerKeepsStation, DisplayLeftAlone
<1>3. CASE LedPass \/ DisplayAbsent \/ UNCHANGED board_vars
  <2>1. UNCHANGED <<events, handling, esp_ip_addr, wifi_connected, oled>>
    BY <1>3 DEF LedPass, DisplayAbsent, wifi_vars, board_vars
  <2> QED BY <2>1, OthersKeepStation, DisplayLeftAlone
<1>4. CASE OledPass \/ DisplayFound
  <2>1. UNCHANGED <<events, handling, esp_ip_addr, wifi_connected>>
    BY <1>4 DEF OledPass, DisplayFound, CaptureFlag, CaptureAddress, CaptureNodes, Render,
                wifi_vars
  <2> QED BY <1>4, <2>1, OthersKeepStation, DisplayKept
<1> QED BY <1>1, <1>2, <1>3, <1>4 DEF BoardNext

\* The screen shows a connection exactly when it shows an address, though
\* neither the event handler nor the OLED task takes a lock.
THEOREM ScreenAlwaysConsistent == BoardSpec => []ScreenIsConsistent
<1>1. DisplayInv => ScreenIsConsistent
  BY DEF DisplayInv
<1> QED BY <1>1, ScreenInitially, ScreenKept, PTL DEF BoardSpec
=============================================================================
