------------------------------ MODULE MCHttpText -------------------------------
EXTENDS HttpText

Time(a, b, c, d) == <<a, b, 10, c, d>>
At0000 == Time(0, 0, 0, 0)
At0800 == Time(0, 8, 0, 0)
At0930 == Time(0, 9, 3, 0)
At2359 == Time(2, 3, 5, 9)
Times == {At0000, At0800, At0930, At2359}

\* "8:00", "08:0" and "008:00", whose sixth character does not scan.
ShortHour == <<8, 10, 0, 0>>
ShortMinute == <<0, 8, 10, 0>>
TooLong == <<0, 0, 8, 10, 0, 0>>

Object(start, end) ==
    [start |-> start, end |-> end, quoted |-> FALSE, mode |-> MODE_AUTO_ECO, closed |-> TRUE]
Quoted(o) == [o EXCEPT !.quoted = TRUE]
Open(o) == [o EXCEPT !.closed = FALSE]
WithMode(o, mode) == [o EXCEPT !.mode = mode]

Day == Object(At0800, At2359)
Many(n, o) == [k \in 1..n |-> o]

\* Every pair of times; times that do not parse or parse oddly; objects left
\* open in the middle and at the end, also as the ninth; a full array, and
\* modes of the greatest length.
MCBodies ==
    { <<Object(s, e)>> : s \in Times, e \in Times }
    \cup { <<Object(ShortHour, At0930), Object(At0800, ShortMinute), Object(TooLong, At0930)>>,
           <<Day, Quoted(Day), Day>>,
           <<Day, Open(Day), Quoted(Day), Day>>,
           <<Day, Open(Day)>>,
           Many(9, Day), Many(7, Day) \o <<Open(Day)>>, Many(8, Day) \o <<Open(Day)>>,
           Many(8, WithMode(Day, -2147483647)), <<>> }

\* All texts of up to five characters, with chunks of four and less.
MCMessages == UNION { [1..n -> Character] : n \in 0..5 }
=============================================================================
