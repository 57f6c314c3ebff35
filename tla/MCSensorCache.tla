---------------------------- MODULE MCSensorCache ----------------------------
EXTENDS SensorCache

\* "Temp: 20.00, H=60.00, AQ: 40, IP:10.0.0.1"
BoardPublication(b, hum, ip) ==
    [topic |-> b, len |-> 41, fields |-> Key,
     ends |-> [k \in Key |-> CASE k = "Temp" -> 11 [] k = "H" -> 20
                                 [] k = "AQ" -> 28 [] k = "IP" -> 41],
     temp |-> 20, humidity |-> hum, aq |-> 40, ip |-> ip, speed |-> 0]

\* An indoor payload without "Temp:" and so long that "AQ:", which comes
\* last, is cut off, an outdoor one with an index above 255, and wind.
MCPublications ==
    { [BoardPublication("indoor", 60, "ip1") EXCEPT
            !.fields = {"H", "AQ", "IP"}, !.ends["AQ"] = 300, !.len = 300],
      [BoardPublication("outdoor", 30, "ip2") EXCEPT !.aq = 300],
      [NoPublication EXCEPT !.speed = 6] }

\* 1000 ms is still in time for a board; 5001 ms is late for everyone.
MCTimeSteps == {1000, 5001}
=============================================================================
