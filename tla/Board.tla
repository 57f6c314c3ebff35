-------------------------------- MODULE Board ---------------------------------
(***************************************************************************)
(* The board around the control logic: the order in which app_main starts  *)
(* everything (src/src/main.c), the Wi-Fi station's event handler          *)
(* (src/src/wifi.c), the LED task (src/src/status_led.c) and the OLED task *)
(* (src/src/oled_status.c).  They share volatile globals without a lock,   *)
(* so each access is a step of its own.                                    *)
(***************************************************************************)
EXTENDS Integers, Sequences

CONSTANTS
    Addresses,      \* the addresses DHCP may hand out
    EventBound      \* bound: Wi-Fi events waiting for the event loop

NoAddress == 0

ASSUME BoardAssumption ==
    /\ Addresses \subseteq Nat \ {NoAddress} /\ Addresses # {}
    /\ EventBound \in Nat \ {0}

VARIABLES
    boot,           \* how many of app_main's steps are done
    running,        \* the tasks that exist
    state_mutex,    \* whether it has been created
    link,           \* the Wi-Fi driver's link to the access point
    events,         \* posted by the driver, not yet handled
    handling,       \* the event being handled and how far
    esp_ip_addr, wifi_connected,        \* wifi.c
    led_wifi, require_remote_connection, led_on,    \* status_led.c
    oled            \* the OLED task: its place, its snapshot, the screen

wifi_vars == <<link, events, handling, esp_ip_addr, wifi_connected, led_wifi>>
boot_vars == <<boot, running, state_mutex, require_remote_connection>>
board_vars == <<boot, running, state_mutex, link, events, handling, esp_ip_addr,
                wifi_connected, led_wifi, require_remote_connection, led_on, oled>>

NoEvent == [event |-> "none", ip |-> NoAddress, step |-> 0]
Blank == [wifi |-> FALSE, ip |-> NoAddress]

BoardInit ==
    /\ boot = 0 /\ running = {} /\ state_mutex = FALSE
    /\ link = "off" /\ events = <<>> /\ handling = NoEvent
    /\ esp_ip_addr = NoAddress /\ wifi_connected = FALSE
    /\ led_wifi = FALSE /\ require_remote_connection = FALSE /\ led_on = FALSE
    /\ oled = [pc |-> "init", snapshot |-> Blank, screen |-> Blank]

-----------------------------------------------------------------------------
(* app_main *)

\* Mutant: the display started before the state it shows.
StartupDisplayFirst == <<"led", "wifi", "time", "oled", "state", "broker", "client", "http", "system">>

Startup == <<"led", "wifi", "time", "state", "oled", "broker", "client", "http", "system">>

\* Mutant: the LED also waits for a remote connection nobody reports.
ShouldRequireRemote == TRUE

\* status_led_init(false)
ShouldRequireRemoteConnection == FALSE

Event(name, ip) == [event |-> name, ip |-> ip, step |-> 1]

\* "wifi" ends in esp_wifi_start, "state" creates the mutex, the last five
\* create a task each.
Boot ==
    /\ boot < Len(Startup)
    /\ boot' = boot + 1
    /\ LET step == Startup[boot + 1]
       IN  /\ running' = IF step \in {"wifi", "time", "state"} THEN running
                                                              ELSE running \cup {step}
           /\ state_mutex' = (state_mutex \/ step = "state")
           /\ require_remote_connection' =
                IF step = "led" THEN ShouldRequireRemoteConnection ELSE require_remote_connection
           /\ events' = IF step = "wifi" THEN Append(events, Event("start", NoAddress)) ELSE events
    /\ UNCHANGED <<link, handling, esp_ip_addr, wifi_connected, led_wifi, led_on, oled>>

-----------------------------------------------------------------------------
(* The Wi-Fi driver *)

Post(e) == Len(events) < EventBound /\ events' = Append(events, e)

Associate(a) ==
    /\ link = "connecting"
    /\ link' = "up"
    /\ Post(Event("got_ip", a))
    /\ UNCHANGED <<boot_vars, handling, esp_ip_addr, wifi_connected, led_wifi, led_on, oled>>

LoseLink ==
    /\ link \in {"connecting", "up"}
    /\ link' = "off"
    /\ Post(Event("disconnected", NoAddress))
    /\ UNCHANGED <<boot_vars, handling, esp_ip_addr, wifi_connected, led_wifi, led_on, oled>>

-----------------------------------------------------------------------------
(* wifi_event_handler, on the event loop task *)

TakeEvent ==
    /\ handling = NoEvent /\ events # <<>>
    /\ handling' = Head(events)
    /\ events' = Tail(events)
    /\ UNCHANGED <<boot_vars, link, esp_ip_addr, wifi_connected, led_wifi, led_on, oled>>

NextStep == handling' = [handling EXCEPT !.step = @ + 1]
IsDown == handling.event \in {"start", "disconnected"}

FlagDown ==
    /\ IsDown /\ handling.step = 1
    /\ wifi_connected' = FALSE
    /\ NextStep
    /\ UNCHANGED <<boot_vars, link, events, esp_ip_addr, led_wifi, led_on, oled>>

LedDown ==
    /\ IsDown /\ handling.step = 2
    /\ led_wifi' = FALSE
    /\ NextStep
    /\ UNCHANGED <<boot_vars, link, events, esp_ip_addr, wifi_connected, led_on, oled>>

\* Mutant: the station connects when it starts and never again.
ConnectOnce ==
    /\ IsDown /\ handling.step = 3
    /\ link' = IF handling.event = "start" THEN "connecting" ELSE link
    /\ handling' = NoEvent
    /\ UNCHANGED <<boot_vars, events, esp_ip_addr, wifi_connected, led_wifi, led_on, oled>>

\* esp_wifi_connect: a link that is up by now stays as it is.
Connect ==
    /\ IsDown /\ handling.step = 3
    /\ link' = IF link = "off" THEN "connecting" ELSE link
    /\ handling' = NoEvent
    /\ UNCHANGED <<boot_vars, events, esp_ip_addr, wifi_connected, led_wifi, led_on, oled>>

\* Mutant: the flag is raised before there is an address.
StoreAddressFlagFirst ==
    /\ handling.event = "got_ip" /\ handling.step = 1
    /\ wifi_connected' = TRUE
    /\ NextStep
    /\ UNCHANGED <<boot_vars, link, events, esp_ip_addr, led_wifi, led_on, oled>>

StoreAddress ==
    /\ handling.event = "got_ip" /\ handling.step = 1
    /\ esp_ip_addr' = handling.ip
    /\ NextStep
    /\ UNCHANGED <<boot_vars, link, events, wifi_connected, led_wifi, led_on, oled>>

FlagUp ==
    /\ handling.event = "got_ip" /\ handling.step = 2
    /\ wifi_connected' = TRUE
    /\ NextStep
    /\ UNCHANGED <<boot_vars, link, events, esp_ip_addr, led_wifi, led_on, oled>>

LedUp ==
    /\ handling.event = "got_ip" /\ handling.step = 3
    /\ led_wifi' = TRUE
    /\ handling' = NoEvent
    /\ UNCHANGED <<boot_vars, link, events, esp_ip_addr, wifi_connected, led_on, oled>>

EventHandler ==
    TakeEvent \/ FlagDown \/ LedDown \/ Connect \/ StoreAddress \/ FlagUp \/ LedUp

-----------------------------------------------------------------------------
(* status_led_task: one pass every 250 ms.  No caller ever sets              *)
(* remote_connected.                                                         *)

Healthy == led_wifi /\ ~require_remote_connection

LedPass ==
    /\ "led" \in running
    /\ led_on' = (~Healthy /\ ~led_on)
    /\ UNCHANGED <<boot_vars, wifi_vars, oled>>

-----------------------------------------------------------------------------
(* oled_status_task *)

At(pc) == "oled" \in running /\ oled.pc = pc

\* The display is optional: without it the task deletes itself.
DisplayFound ==
    /\ At("init")
    /\ oled' = [oled EXCEPT !.pc = "flag"]
    /\ UNCHANGED <<boot_vars, wifi_vars, led_on>>

DisplayAbsent ==
    /\ At("init")
    /\ running' = running \ {"oled"}
    /\ UNCHANGED <<boot, state_mutex, require_remote_connection, wifi_vars, led_on, oled>>

CaptureFlag ==
    /\ At("flag")
    /\ oled' = [oled EXCEPT !.pc = "ip", !.snapshot.wifi = wifi_connected]
    /\ UNCHANGED <<boot_vars, wifi_vars, led_on>>

CaptureAddress ==
    /\ At("ip")
    /\ oled' = [oled EXCEPT !.pc = "nodes", !.snapshot.ip = esp_ip_addr]
    /\ UNCHANGED <<boot_vars, wifi_vars, led_on>>

\* The nodes' availability and addresses, in one critical section (see
\* SensorCache), or without one as long as there is no mutex.
CaptureNodes ==
    /\ At("nodes")
    /\ oled' = [oled EXCEPT !.pc = "render"]
    /\ UNCHANGED <<boot_vars, wifi_vars, led_on>>

ShownAddress(snapshot) == IF snapshot.wifi THEN snapshot.ip ELSE NoAddress

Render ==
    /\ At("render")
    /\ oled' = [oled EXCEPT !.pc = "flag",
                            !.screen = [wifi |-> oled.snapshot.wifi,
                                        ip |-> ShownAddress(oled.snapshot)]]
    /\ UNCHANGED <<boot_vars, wifi_vars, led_on>>

OledPass == CaptureFlag \/ CaptureAddress \/ CaptureNodes \/ Render

-----------------------------------------------------------------------------
BoardNext ==
    \/ Boot
    \/ \E a \in Addresses : Associate(a)
    \/ LoseLink
    \/ EventHandler
    \/ LedPass
    \/ DisplayFound \/ DisplayAbsent \/ OledPass

\* app_main and the tasks run; whether the access point is there is not up
\* to the board.
BoardFairness ==
    /\ WF_board_vars(Boot)
    /\ WF_board_vars(EventHandler)
    /\ WF_board_vars(LedPass)
    /\ WF_board_vars(OledPass)

BoardSpec == BoardInit /\ [][BoardNext]_board_vars /\ BoardFairness

-----------------------------------------------------------------------------
(* Properties *)

\* Flag and address are written and read without a lock: because the handler
\* writes the address first and the snapshot reads the flag first, the screen
\* never shows a connection without an address, nor an address without one.
ScreenIsConsistent == oled.screen.wifi <=> oled.screen.ip # NoAddress

\* Every task that takes state_mutex is created after the mutex is: taking a
\* null handle stops the board, and the OLED task would read the sensor
\* globals unprotected.
TasksHaveTheirMutex ==
    running \cap {"oled", "broker", "http", "system"} # {} => state_mutex

\* The station never stays away from the access point: each loss is followed
\* by another attempt.
StationKeepsTrying == []<>(link # "off")

\* Once the link stays as it is, LED and screen tell the truth for good: dark
\* and connected with the station's address, or blinking and not connected.
DisplaysCatchUp ==
    /\ <>[](link = "up") => <>[](~led_on /\ (At("flag") =>
            oled.screen.wifi /\ oled.screen.ip = esp_ip_addr))
    /\ <>[](link # "up") => []<>led_on /\ <>[](~oled.screen.wifi)
=============================================================================
