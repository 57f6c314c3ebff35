------------------------------- MODULE HttpText --------------------------------
(***************************************************************************)
(* How the server task reads and writes text (src/src/http_server.c): the  *)
(* loop of POST /schedule over a body, GET /schedule, and the chunks in    *)
(* which GET /status sends a message with its quotes escaped.  One request *)
(* at a time; a step is one pass of a loop.                                *)
(***************************************************************************)
EXTENDS ScheduleText, SequencesExt

CONSTANTS
    Bodies,     \* schedule bodies clients may post: sequences of objects
    Messages,   \* texts to be escaped: sequences of character classes
    ChunkSize   \* sizeof(chunk)

\* What the writer tells apart: a control character, one of the two that are
\* escaped (\ and "), any other.
Character == {"control", "special", "plain"}

ASSUME TextAssumption ==
    /\ Bodies \subseteq Seq(PeriodObject)
    /\ Messages \subseteq Seq(Character)
    /\ ChunkSize \in Nat /\ ChunkSize >= 2

VARIABLES
    plan,       \* schedule[0 .. schedule_count - 1]
    task,       \* what the server task is doing
    body, p, local,     \* POST: body, the number of the object p points
                        \* before (NULL: the null pointer), the periods found
    src, i, chunk, sent \* GET: message, index, chunk[0 .. j - 1], bytes sent

post_vars == <<body, p, local>>
writer_vars == <<src, i, chunk, sent>>
text_vars == <<plan, task, body, p, local, src, i, chunk, sent>>

Null == 0

TextInit ==
    /\ plan = <<>>
    /\ task = "idle"
    /\ body = <<>> /\ p = 1 /\ local = <<>>
    /\ src = <<>> /\ i = 1 /\ chunk = <<>> /\ sent = <<>>

-----------------------------------------------------------------------------
(* schedule_post_handler *)

PostSchedule(b) ==
    /\ task = "idle"
    /\ task' = "scan"
    /\ body' = b /\ p' = 1 /\ local' = <<>>
    /\ UNCHANGED <<plan, writer_vars>>

\* strchr(p + 1, '}'): past the brace that ends this object, or a later one
\* when this one has none.
AfterBrace(b, k) ==
    LET braces == {n \in k..Len(b) : b[n].closed}
    IN  IF braces = {} THEN Null ELSE Min(braces) + 1

\* Mutant: the bound tested after the object has been stored.
ScanObjectLate ==
    /\ task = "scan" /\ p # Null
    /\ p <= Len(body) /\ Len(local) <= MAX_PERIODS
    /\ local' = IF Parses(body[p]) THEN Append(local, ParsedPeriod(body[p])) ELSE local
    /\ p' = AfterBrace(body, p)
    /\ UNCHANGED <<plan, task, body, writer_vars>>

\* One pass: the object p points before, or the next one.
ScanObject ==
    /\ task = "scan" /\ p # Null
    /\ p <= Len(body) /\ Len(local) < MAX_PERIODS
    /\ local' = IF Parses(body[p]) THEN Append(local, ParsedPeriod(body[p])) ELSE local
    /\ p' = AfterBrace(body, p)
    /\ UNCHANGED <<plan, task, body, writer_vars>>

StorePlan ==
    /\ task = "scan" /\ p # Null
    /\ p > Len(body) \/ Len(local) >= MAX_PERIODS
    /\ plan' = local
    /\ task' = "idle"
    /\ body' = <<>> /\ p' = 1 /\ local' = <<>>
    /\ UNCHANGED writer_vars

\* The loop's condition calls strstr(NULL, ...), which is undefined; on this
\* chip it reads address 0, and the exception restarts the center.
ScanNull ==
    /\ task = "scan" /\ p = Null
    /\ task' = "panic"
    /\ UNCHANGED <<plan, post_vars, writer_vars>>

Reboot ==
    /\ task = "panic"
    /\ plan' = <<>>
    /\ task' = "idle"
    /\ body' = <<>> /\ p' = 1 /\ local' = <<>>
    /\ UNCHANGED writer_vars

\* The client posts what GET /schedule printed.
PostPrintedPlan ==
    /\ plan # <<>>
    /\ PostSchedule(PrintedPeriods(plan))

-----------------------------------------------------------------------------
(* httpd_resp_send_json_escaped_string_chunk *)

SendMessage(m) ==
    /\ task = "idle"
    /\ task' = "escape"
    /\ src' = m /\ i' = 1 /\ chunk' = <<>> /\ sent' = <<>>
    /\ UNCHANGED <<plan, post_vars>>

EscapedCharacter(c) ==
    CASE c = "control" -> <<>>
      [] c = "special" -> <<"backslash", c>>
      [] OTHER -> <<c>>

\* Mutant: one place is always enough.
ChunkIsFullForOne(c) == Len(chunk) >= ChunkSize

\* An escaped character needs two places; one place always stays free.
ChunkIsFull(c) ==
    \/ c = "special" /\ Len(chunk) + 2 >= ChunkSize
    \/ c # "special" /\ Len(chunk) + 1 >= ChunkSize

SkipControl ==
    /\ task = "escape" /\ i <= Len(src)
    /\ src[i] = "control"
    /\ i' = i + 1
    /\ UNCHANGED <<plan, task, post_vars, src, chunk, sent>>

EscapeIntoChunk ==
    /\ task = "escape" /\ i <= Len(src)
    /\ src[i] # "control" /\ ~ChunkIsFull(src[i])
    /\ chunk' = chunk \o EscapedCharacter(src[i])
    /\ i' = i + 1
    /\ UNCHANGED <<plan, task, post_vars, src, sent>>

\* Mutant: j is not reset.
SendFullChunkTwice ==
    /\ task = "escape" /\ i <= Len(src)
    /\ src[i] # "control" /\ ChunkIsFull(src[i])
    /\ sent' = sent \o chunk
    /\ chunk' = chunk \o EscapedCharacter(src[i])
    /\ i' = i + 1
    /\ UNCHANGED <<plan, task, post_vars, src>>

\* The chunk is sent and started again with the character that did not fit.
SendFullChunk ==
    /\ task = "escape" /\ i <= Len(src)
    /\ src[i] # "control" /\ ChunkIsFull(src[i])
    /\ sent' = sent \o chunk
    /\ chunk' = EscapedCharacter(src[i])
    /\ i' = i + 1
    /\ UNCHANGED <<plan, task, post_vars, src>>

SendLastChunk ==
    /\ task = "escape" /\ i > Len(src)
    /\ sent' = sent \o chunk
    /\ chunk' = <<>>
    /\ task' = "sent"
    /\ UNCHANGED <<plan, post_vars, src, i>>

\* httpd_resp_send_chunk fails when the client is gone; the handler returns.
SendFails ==
    /\ task = "escape"
    /\ i <= Len(src) => src[i] # "control" /\ ChunkIsFull(src[i])
    /\ task' = "failed"
    /\ UNCHANGED <<plan, post_vars, writer_vars>>

Finish ==
    /\ task \in {"sent", "failed"}
    /\ task' = "idle"
    /\ src' = <<>> /\ i' = 1 /\ chunk' = <<>> /\ sent' = <<>>
    /\ UNCHANGED <<plan, post_vars>>

-----------------------------------------------------------------------------
TextNext ==
    \/ \E b \in Bodies : PostSchedule(b)
    \/ PostPrintedPlan
    \/ ScanObject \/ StorePlan \/ ScanNull \/ Reboot
    \/ \E m \in Messages : SendMessage(m)
    \/ SkipControl \/ EscapeIntoChunk \/ SendFullChunk \/ SendLastChunk \/ SendFails
    \/ Finish

TextSpec == TextInit /\ [][TextNext]_text_vars

-----------------------------------------------------------------------------
(* Properties *)

\* The chunk buffer is never written past its end, whatever the mixture of
\* characters that need one place and of those that need two.
ChunkFits == Len(chunk) <= ChunkSize

Escaped(m) == FlattenSeq([k \in DOMAIN m |-> EscapedCharacter(m[k])])

\* However the text falls into chunks, the client receives exactly its
\* escaped characters, in order, none twice and none lost.
ReceivedIsEscaped == task = "sent" => sent = Escaped(src)

\* With every object closed, the loop finds what the HTTP API's model takes it
\* to find, and looks nowhere else.  With an object left open it either
\* jumps to a later brace or, without one, follows the null pointer: no
\* other body does.
ScanAgrees ==
    /\ (\A k \in DOMAIN body : body[k].closed) =>
            /\ task # "panic"
            /\ task = "scan" /\ (p > Len(body) \/ Len(local) >= MAX_PERIODS)
                    => local = ParsedPeriods(body)
    /\ task = "panic" => body # <<>> /\ ~Last(body).closed

\* The reply of GET /schedule fits its buffer: the offsets snprintf's results
\* add up to never pass its end.
PlanReplyFits == PrintedLength(plan) < RESP_SIZE

\* The minutes from start to end, both included, walking forward through
\* midnight when the end comes first.
MinutesWithin(start, end) == {(start + d) % 1440 : d \in 0..((end - start) % 1440)}

TwoDigits(a, b, limit) == a \in 0..9 /\ b \in 0..9 /\ a * 10 + b < limit
WellFormed(t) ==
    /\ Len(t) = 5 /\ t[3] = 10
    /\ TwoDigits(t[1], t[2], 24) /\ TwoDigits(t[4], t[5], 60)

\* A stored period of well-formed times is active in exactly its minutes: both
\* ends, over midnight, and one minute only when start and end are the same.
PeriodsCoverTheirMinutes ==
    task = "idle" => \A k \in DOMAIN plan :
        LET q == plan[k]
            start == (q.start[1] * 10 + q.start[2]) * 60 + q.start[4] * 10 + q.start[5]
            end == (q.end[1] * 10 + q.end[2]) * 60 + q.end[4] * 10 + q.end[5]
        IN  WellFormed(q.start) /\ WellFormed(q.end) =>
                {m \in 0..1439 : schedule_is_active(<<q>>, m)} = MinutesWithin(start, end)
=============================================================================
