----------------------------- MODULE ScheduleText -----------------------------
(***************************************************************************)
(* The texts of the schedule API in src/src/http_server.c: what one object *)
(* of a POST body gives, what the whole body gives when its braces match,  *)
(* and what GET prints.                                                    *)
(***************************************************************************)
EXTENDS ControlRules

\* One object of a body, from its "start" key on.  quoted tells whether the
\* number of the mode stands in quotes, closed whether a '}' follows before
\* the next "start".
PeriodObject == [start : TimeText, end : TimeText, quoted : BOOLEAN, mode : Int,
                 closed : BOOLEAN]

\* "%5[^\"]\"" takes one to five characters and then needs the quote.
Scans(t) == Len(t) \in 1..5

\* sscanf finds all three fields; its "%d" does not accept a quote.
Parses(o) == Scans(o.start) /\ Scans(o.end) /\ ~o.quoted

ParsedPeriod(o) == [start |-> o.start, end |-> o.end, mode |-> o.mode]

\* Mutant: the loop misses the end of the array.
ParsedPeriodsUnbounded(objects) ==
    LET local[k \in 0..Len(objects)] ==
            IF k = 0 THEN <<>>
            ELSE IF Parses(objects[k]) THEN Append(local[k - 1], ParsedPeriod(objects[k]))
                                       ELSE local[k - 1]
    IN  local[Len(objects)]

\* What the loop has found in the first k objects: those that do not parse
\* are skipped, and it stops looking at MAX_PERIODS.
ParsedPeriods(objects) ==
    LET local[k \in 0..Len(objects)] ==
            IF k = 0 THEN <<>>
            ELSE IF Parses(objects[k]) /\ Len(local[k - 1]) < MAX_PERIODS
                 THEN Append(local[k - 1], ParsedPeriod(objects[k]))
                 ELSE local[k - 1]
    IN  local[Len(objects)]

-----------------------------------------------------------------------------
(* GET /api/v1/schedule *)

PrintedPeriod(p) ==
    [start |-> p.start, end |-> p.end, quoted |-> TRUE, mode |-> p.mode, closed |-> TRUE]

PrintedPeriods(periods) == [i \in DOMAIN periods |-> PrintedPeriod(periods[i])]

\* Mutant: the size the other replies have.
RESP_SIZE_OF_SENSORS == 256

RESP_SIZE == 512
LengthOfInt(n) ==
    LET HasDigits(k) == n < 10^k /\ -n < 10^k
        digits == CHOOSE k \in 1..10 : (k < 10 => HasDigits(k)) /\ (k > 1 => ~HasDigits(k - 1))
    IN  IF n < 0 THEN digits + 1 ELSE digits

\* {"start":"","end":"","mode":""} with its values, and a comma but once.
PrintedLength(periods) ==
    LET Object(p) == 31 + Len(p.start) + Len(p.end) + LengthOfInt(p.mode)
        upto[i \in 0..Len(periods)] == IF i = 0 THEN 0 ELSE upto[i - 1] + Object(periods[i])
    IN  15 + upto[Len(periods)] + (IF periods = <<>> THEN 0 ELSE Len(periods) - 1)
=============================================================================
