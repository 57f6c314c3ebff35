---------------------------- MODULE HttpTextProofs -----------------------------
(***************************************************************************)
(* Proofs about HttpText, for texts and bodies of every length: the chunk  *)
(* buffer of the escaping writer is large enough whatever its size from    *)
(* two on, and the client receives the text escaped; the loop of POST      *)
(* /schedule finds what the HTTP API's model takes it to find; a plan fits *)
(* the reply of GET, is cleared when it is posted back, and covers exactly *)
(* its minutes.                                                            *)
(***************************************************************************)
EXTENDS HttpText, ScheduleTextProofs

\* What a chunk consists of
Written == Character \cup {"backslash"}

\* The text being written, and a buffer that is not written past its end.
WriterInv ==
    /\ src \in Seq(Character)
    /\ i \in Nat \ {0}
    /\ chunk \in Seq(Written)
    /\ Len(chunk) <= ChunkSize

\* An escaped character takes two places, any other one or none.
LEMMA EscapedLength ==
    ASSUME NEW c \in Character
    PROVE  /\ EscapedCharacter(c) \in Seq(Written)
           /\ c = "special" => Len(EscapedCharacter(c)) = 2
           /\ c = "plain" => Len(EscapedCharacter(c)) = 1
<1>1. CASE c = "control"
  BY <1>1, EmptySeq DEF EscapedCharacter
<1>2. CASE c = "special"
  <2>1. EscapedCharacter(c) = <<"backslash", c>>
    BY <1>2 DEF EscapedCharacter
  <2>2. c \in Written /\ "backslash" \in Written
    BY DEF Written
  <2>3. <<"backslash", c>> \in Seq(Written) /\ Len(<<"backslash", c>>) = 2
    BY <2>2
  <2> QED BY <1>2, <2>1, <2>3
<1>3. CASE c = "plain"
  <2>1. EscapedCharacter(c) = <<c>>
    BY <1>3 DEF EscapedCharacter
  <2>2. <<c>> \in Seq(Written) /\ Len(<<c>>) = 1
    BY DEF Written
  <2> QED BY <1>3, <2>1, <2>2
<1> QED BY <1>1, <1>2, <1>3 DEF Character

\* At first there is nothing to write.
LEMMA WriterInitially == TextInit => WriterInv
<1> SUFFICES ASSUME TextInit PROVE WriterInv
  OBVIOUS
<1>1. src = <<>> /\ i = 1 /\ chunk = <<>>
  BY DEF TextInit
<1>2. src \in Seq(Character) /\ chunk \in Seq(Written) /\ Len(chunk) = 0
  BY <1>1, EmptySeq
<1> QED BY <1>1, <1>2, TextAssumption DEF WriterInv

\* A request, and the end of one, leave an empty chunk.
LEMMA EmptyChunk ==
    ASSUME WriterInv, src' \in Seq(Character), i' \in Nat \ {0}, chunk' = <<>>
    PROVE  WriterInv'
<1>1. chunk' \in Seq(Written) /\ Len(chunk') = 0
  BY EmptySeq
<1> QED BY <1>1, TextAssumption DEF WriterInv

\* The next character is one that is written.
LEMMA NextCharacter ==
    ASSUME WriterInv, i <= Len(src), src[i] # "control"
    PROVE  src[i] \in Character /\ src[i] \in {"special", "plain"}
<1>1. src[i] \in Character
  BY ElementOfSeq DEF WriterInv
<1> QED BY <1>1 DEF Character

LEMMA WriterKept == WriterInv /\ [TextNext]_text_vars => WriterInv'
<1> SUFFICES ASSUME WriterInv, [TextNext]_text_vars PROVE WriterInv'
  OBVIOUS
<1>1. CASE UNCHANGED writer_vars
  BY <1>1 DEF WriterInv, writer_vars
<1>2. (\E b \in Bodies : PostSchedule(b)) \/ PostPrintedPlan \/ ScanObject \/ StorePlan
        \/ ScanNull \/ Reboot \/ SendFails \/ UNCHANGED text_vars
      => UNCHANGED writer_vars
  BY DEF PostSchedule, PostPrintedPlan, ScanObject, StorePlan, ScanNull, Reboot,
         SendFails, writer_vars, text_vars
<1>3. ASSUME NEW m \in Messages, SendMessage(m) PROVE WriterInv'
  <2>1. src' = m /\ i' = 1 /\ chunk' = <<>>
    BY <1>3 DEF SendMessage
  <2> QED BY <2>1, EmptyChunk, TextAssumption
<1>4. CASE SkipControl
  BY <1>4 DEF SkipControl, WriterInv
<1>5. CASE EscapeIntoChunk
  <2> DEFINE c == src[i]
             e == EscapedCharacter(c)
  <2>1. /\ i <= Len(src) /\ c # "control" /\ ~ChunkIsFull(c)
        /\ chunk' = chunk \o e /\ i' = i + 1 /\ UNCHANGED src
    BY <1>5 DEF EscapeIntoChunk
  <2>2. c \in Character /\ c \in {"special", "plain"}
    BY <2>1, NextCharacter
  <2>3. Len(chunk) + Len(e) < ChunkSize /\ e \in Seq(Written) /\ chunk \in Seq(Written)
    <3>1. chunk \in Seq(Written) /\ Len(chunk) \in Nat /\ ChunkSize \in Nat
      BY LenProperties, TextAssumption DEF WriterInv
    <3>2. CASE c = "special"
      <4>1. Len(e) = 2 /\ e \in Seq(Written)
        BY <2>2, <3>2, EscapedLength
      <4>2. ~(Len(chunk) + 2 >= ChunkSize)
        BY <2>1, <3>2 DEF ChunkIsFull
      <4> QED BY <3>1, <4>1, <4>2
    <3>3. CASE c = "plain"
      <4>1. Len(e) = 1 /\ e \in Seq(Written)
        BY <2>2, <3>3, EscapedLength
      <4>2. ~(Len(chunk) + 1 >= ChunkSize)
        BY <2>1, <3>3 DEF ChunkIsFull
      <4> QED BY <3>1, <4>1, <4>2
    <3> QED BY <2>2, <3>2, <3>3
  <2> HIDE DEF c, e
  <2>4. chunk' \in Seq(Written) /\ Len(chunk') = Len(chunk) + Len(e)
    BY <2>1, <2>3, ConcatProperties
  <2>5. Len(chunk') <= ChunkSize
    BY <2>3, <2>4, LenProperties, TextAssumption
  <2>6. src' \in Seq(Character) /\ i' \in Nat \ {0}
    BY <2>1 DEF WriterInv
  <2> QED BY <2>4, <2>5, <2>6 DEF WriterInv
<1>6. CASE SendFullChunk
  <2> DEFINE c == src[i]
  <2>1. /\ i <= Len(src) /\ c # "control"
        /\ chunk' = EscapedCharacter(c) /\ i' = i + 1 /\ UNCHANGED src
    BY <1>6 DEF SendFullChunk
  <2>2. c \in Character /\ c \in {"special", "plain"}
    BY <2>1, NextCharacter
  <2>3. chunk' \in Seq(Written) /\ Len(chunk') \in {1, 2}
    BY <2>1, <2>2, EscapedLength
  <2> HIDE DEF c
  <2>4. Len(chunk') <= ChunkSize
    <3>1. ChunkSize \in Nat /\ ChunkSize >= 2
      BY TextAssumption
    <3>2. CASE Len(chunk') = 1
      BY <3>1, <3>2
    <3>3. CASE Len(chunk') = 2
      BY <3>1, <3>3
    <3> QED BY <2>3, <3>2, <3>3
  <2>5. src' \in Seq(Character) /\ i' \in Nat \ {0}
    BY <2>1 DEF WriterInv
  <2> QED BY <2>3, <2>4, <2>5 DEF WriterInv
<1>7. CASE SendLastChunk
  BY <1>7, EmptyChunk DEF SendLastChunk, WriterInv
<1>8. CASE Finish
  <2>1. src' = <<>> /\ i' = 1 /\ chunk' = <<>>
    BY <1>8 DEF Finish
  <2> QED BY <2>1, EmptyChunk, EmptySeq
<1> QED BY <1>1, <1>2, <1>3, <1>4, <1>5, <1>6, <1>7, <1>8 DEF TextNext

\* Whatever characters a message has, and however long it is, the chunk buffer
\* is never written past its end.
THEOREM ChunkAlwaysFits == TextSpec => []ChunkFits
<1>1. WriterInv => ChunkFits
  BY DEF WriterInv, ChunkFits
<1> QED BY <1>1, WriterInitially, WriterKept, PTL DEF TextSpec

-----------------------------------------------------------------------------
(* The loop of POST /schedule *)

\* Whoever posts, the plan fits its array, and the loop walks along the body.
ScanTypeOK ==
    /\ plan \in Stored
    /\ body \in Seq(PeriodObject)
    /\ local \in Stored
    /\ p \in 0..(Len(body) + 1)

LEMMA NothingStored == <<>> \in Stored /\ <<>> \in Seq(PeriodObject)
  BY EmptySeq DEF Stored, MAX_PERIODS

\* GET prints one object for each period; its mode is quoted, its brace closed.
LEMMA PrintedPeriodsType ==
    ASSUME NEW s \in Stored
    PROVE  /\ PrintedPeriods(s) \in Seq(PeriodObject)
           /\ \A k \in DOMAIN PrintedPeriods(s) : PrintedPeriods(s)[k].quoted
<1> DEFINE P == [start : TimeText, end : TimeText, mode : Int]
<1>1. s \in Seq(P) /\ Len(s) \in Nat /\ DOMAIN s = 1..Len(s)
  BY LenProperties DEF Stored
<1>2. \A k \in 1..Len(s) : s[k] \in P
  BY <1>1, ElementOfSeq
<1>3. \A k \in 1..Len(s) : PrintedPeriod(s[k]) \in PeriodObject
  BY <1>2 DEF PrintedPeriod, PeriodObject
<1>4. PrintedPeriods(s) = [k \in 1..Len(s) |-> PrintedPeriod(s[k])]
  BY <1>1 DEF PrintedPeriods
<1>5. PrintedPeriods(s) \in Seq(PeriodObject)
  BY <1>1, <1>3, <1>4, SeqDef
<1> QED BY <1>1, <1>4, <1>5 DEF PrintedPeriod

\* Where strchr leaves the loop.
LEMMA BraceFound ==
    ASSUME NEW b \in Seq(PeriodObject), NEW k \in 1..Len(b)
    PROVE  /\ AfterBrace(b, k) = Null \/ AfterBrace(b, k) \in 2..(Len(b) + 1)
           /\ b[k].closed => AfterBrace(b, k) = k + 1
           /\ AfterBrace(b, k) = Null => ~b[Len(b)].closed
<1> DEFINE braces == {n \in k..Len(b) : b[n].closed}
<1>1. Len(b) \in Nat /\ k \in Nat
  BY LenProperties
<1>2. CASE braces = {}
  <2>1. AfterBrace(b, k) = Null
    BY <1>2 DEF AfterBrace
  <2>2. k \in k..Len(b) /\ Len(b) \in k..Len(b)
    BY <1>1
  <2> QED BY <1>2, <2>1, <2>2
<1>3. CASE braces # {}
  <2> DEFINE least(n) == n \in braces /\ \A j \in braces : n <= j
  <2>1. \E n : least(n)
    <3>1. braces \subseteq Nat
      BY <1>1
    <3>2. PICK n \in braces : \A j \in braces : ~ (<<j, n>> \in OpToRel(<, Nat))
      BY <1>3, <3>1, NatLessThanWellFounded, WFMin, Zenon
    <3>3. \A j \in braces : ~ (j < n)
      BY <3>1, <3>2 DEF OpToRel
    <3> QED BY <3>1, <3>3
  <2>2. least(Min(braces))
    <3>1. Min(braces) = CHOOSE n \in braces : \A j \in braces : n <= j
      BY DEF Min
    <3> HIDE DEF braces
    <3> QED BY <2>1, <3>1
  <2>3. AfterBrace(b, k) = Min(braces) + 1
    BY <1>3 DEF AfterBrace
  <2>4. Min(braces) \in k..Len(b)
    BY <2>2
  <2>5. b[k].closed => Min(braces) = k
    <3>1. b[k].closed => k \in braces
      BY <1>1
    <3>2. k \in braces => Min(braces) <= k
      BY <2>2
    <3> QED BY <1>1, <2>4, <3>1, <3>2
  <2> QED BY <1>1, <2>3, <2>4, <2>5 DEF Null
<1> QED BY <1>2, <1>3

LEMMA ScanInitially == TextInit => ScanTypeOK
<1> SUFFICES ASSUME TextInit PROVE ScanTypeOK
  OBVIOUS
<1>1. Len(body) = 0
  BY DEF TextInit
<1> QED BY <1>1, NothingStored DEF TextInit, ScanTypeOK

LEMMA ScanTypeKept == ScanTypeOK /\ [TextNext]_text_vars => ScanTypeOK'
<1> SUFFICES ASSUME ScanTypeOK, [TextNext]_text_vars PROVE ScanTypeOK'
  OBVIOUS
<1>1. CASE UNCHANGED <<plan, post_vars>>
  BY <1>1 DEF ScanTypeOK, post_vars
<1>2. (\E m \in Messages : SendMessage(m)) \/ SkipControl \/ EscapeIntoChunk \/ SendFullChunk
        \/ SendLastChunk \/ SendFails \/ Finish \/ ScanNull \/ UNCHANGED text_vars
      => UNCHANGED <<plan, post_vars>>
  BY DEF SendMessage, SkipControl, EscapeIntoChunk, SendFullChunk, SendLastChunk,
         SendFails, Finish, ScanNull, post_vars, text_vars
<1>3. ASSUME NEW b \in Seq(PeriodObject), PostSchedule(b)
      PROVE  ScanTypeOK'
  <2>1. plan' = plan /\ body' = b /\ p' = 1 /\ local' = <<>>
    BY <1>3 DEF PostSchedule
  <2>2. Len(b) \in Nat
    BY LenProperties
  <2> QED BY <2>1, <2>2, NothingStored DEF ScanTypeOK
<1>4. (\E b \in Bodies : PostSchedule(b)) \/ PostPrintedPlan
        => \E b \in Seq(PeriodObject) : PostSchedule(b)
  BY TextAssumption, PrintedPeriodsType DEF PostPrintedPlan, ScanTypeOK
<1>5. CASE ScanObject
  <2>1. p \in 1..Len(body) /\ Len(body) \in Nat
    BY <1>5, LenProperties DEF ScanObject, ScanTypeOK, Null
  <2>2. body[p] \in PeriodObject
    BY <2>1, ElementOfSeq DEF ScanTypeOK
  <2>3. local' = Pass(local, body[p])
    BY <1>5 DEF ScanObject, Pass
  <2>4. local' \in Stored
    BY <2>2, <2>3, PassType DEF ScanTypeOK
  <2>5. p' \in 0..(Len(body) + 1)
    BY <1>5, <2>1, BraceFound DEF ScanObject, ScanTypeOK, Null
  <2> QED BY <1>5, <2>4, <2>5 DEF ScanObject, ScanTypeOK
<1>6. CASE StorePlan \/ Reboot
  <2>1. plan' \in Stored /\ body' = <<>> /\ p' = 1 /\ local' = <<>>
    BY <1>6, NothingStored DEF StorePlan, Reboot, ScanTypeOK
  <2>2. Len(body') = 0
    BY <2>1
  <2> QED BY <2>1, <2>2, NothingStored DEF ScanTypeOK
<1> QED BY <1>1, <1>2, <1>3, <1>4, <1>5, <1>6 DEF TextNext

LEMMA ScanTypeCorrect == TextSpec => []ScanTypeOK
  BY ScanInitially, ScanTypeKept, PTL DEF TextSpec

\* What the loop has found before each object, and in the end.
Loop(objects) ==
    CHOOSE g : /\ Looped(objects, Len(objects), g)
               /\ ParsedPeriods(objects) = g[Len(objects)]

AllClosed(b) == \A k \in DOMAIN b : b[k].closed
EndsOpen(b) == b # <<>> /\ ~Last(b).closed

\* While every object is closed, the loop has been at each of the objects
\* before p and at no other place; the null pointer needs an object left open
\* at the end.
ScanInv ==
    /\ task = "scan" /\ AllClosed(body) => p # Null /\ local = Loop(body)[p - 1]
    /\ task = "scan" /\ p = Null => EndsOpen(body)
    /\ task = "panic" => EndsOpen(body)

LEMMA LoopIsThere ==
    ASSUME NEW b \in Seq(PeriodObject)
    PROVE  /\ Looped(b, Len(b), Loop(b))
           /\ ParsedPeriods(b) = Loop(b)[Len(b)]
<1> DEFINE Is(g) == Looped(b, Len(b), g) /\ ParsedPeriods(b) = g[Len(b)]
<1>1. \E g : Is(g)
  BY LoopFinds
<1>2. Loop(b) = CHOOSE g : Is(g)
  BY DEF Loop
<1> HIDE DEF Is
<1>3. Is(Loop(b))
  BY <1>1, <1>2
<1> QED BY <1>3 DEF Is

\* An object left open at the end is not closed.
LEMMA OpenEnd ==
    ASSUME NEW b \in Seq(PeriodObject), EndsOpen(b)
    PROVE  ~AllClosed(b)
<1>1. Len(b) \in Nat /\ Len(b) # 0 /\ DOMAIN b = 1..Len(b)
  BY LenProperties, EmptySeq DEF EndsOpen
<1> QED BY <1>1 DEF EndsOpen, AllClosed, Last

LEMMA ScanKept == ScanTypeOK /\ ScanInv /\ [TextNext]_text_vars => ScanInv'
<1> SUFFICES ASSUME ScanTypeOK, ScanInv, [TextNext]_text_vars
             PROVE  ScanInv'
  OBVIOUS
<1>1. CASE ScanObject
  <2>1. /\ p \in 1..Len(body) /\ Len(body) \in Nat /\ DOMAIN body = 1..Len(body)
        /\ body' = body /\ task' = task /\ task = "scan" /\ p' = AfterBrace(body, p)
    BY <1>1, LenProperties DEF ScanObject, ScanTypeOK, Null
  <2>2. ASSUME AllClosed(body)
        PROVE  p' # Null /\ local' = Loop(body)[p' - 1]
    <3>1. p' = p + 1
      BY <2>1, <2>2, BraceFound DEF AllClosed, ScanTypeOK
    <3>2. local' = Pass(local, body[p])
      BY <1>1 DEF ScanObject, Pass
    <3>3. local = Loop(body)[p - 1]
      BY <2>1, <2>2 DEF ScanInv
    <3>4. Loop(body)[p] = Pass(Loop(body)[p - 1], body[p])
      BY <2>1, LoopIsThere DEF Looped, ScanTypeOK
    <3> QED BY <2>1, <3>1, <3>2, <3>3, <3>4 DEF Null
  <2>3. p' = Null => EndsOpen(body)
    <3>1. p' = Null => ~body[Len(body)].closed
      BY <2>1, BraceFound DEF ScanTypeOK
    <3>2. body # <<>>
      BY <2>1, EmptySeq
    <3> QED BY <3>1, <3>2 DEF EndsOpen, Last
  <2> QED BY <2>1, <2>2, <2>3 DEF ScanInv
<1>2. ASSUME NEW b \in Seq(PeriodObject), PostSchedule(b)
      PROVE  ScanInv'
  <2>1. task' = "scan" /\ body' = b /\ p' = 1 /\ local' = <<>>
    BY <1>2 DEF PostSchedule
  <2>2. Loop(b)[0] = <<>>
    BY LoopIsThere DEF Looped
  <2> QED BY <2>1, <2>2 DEF ScanInv, Null
<1>3. CASE ScanNull
  BY <1>3 DEF ScanNull, ScanInv, post_vars
<1>4. CASE StorePlan \/ Reboot \/ (\E m \in Messages : SendMessage(m)) \/ SendLastChunk
           \/ SendFails \/ Finish
  <2>1. task' \notin {"scan", "panic"}
    BY <1>4 DEF StorePlan, Reboot, SendMessage, SendLastChunk, SendFails, Finish
  <2> QED BY <2>1 DEF ScanInv
<1>5. CASE SkipControl \/ EscapeIntoChunk \/ SendFullChunk \/ UNCHANGED text_vars
  <2>1. UNCHANGED <<task, body, p, local>>
    BY <1>5 DEF SkipControl, EscapeIntoChunk, SendFullChunk, text_vars, post_vars
  <2> QED BY <2>1 DEF ScanInv
<1>6. (\E b \in Bodies : PostSchedule(b)) \/ PostPrintedPlan
        => \E b \in Seq(PeriodObject) : PostSchedule(b)
  BY TextAssumption, PrintedPeriodsType DEF PostPrintedPlan, ScanTypeOK
<1> QED BY <1>1, <1>2, <1>3, <1>4, <1>5, <1>6 DEF TextNext

\* Posted with every object closed, a body of any length and content gives
\* what the HTTP API's model takes it to give; only a body whose last object
\* is left open leads the loop to the null pointer.
THEOREM ScanAlwaysAgrees == TextSpec => []ScanAgrees
<1>1. TextInit => ScanInv
  BY DEF TextInit, ScanInv
<1>2. ScanTypeOK /\ ScanInv => ScanAgrees
  <2> SUFFICES ASSUME ScanTypeOK, ScanInv PROVE ScanAgrees
    OBVIOUS
  <2>1. task = "panic" => body # <<>> /\ ~Last(body).closed
    BY DEF ScanInv, EndsOpen
  <2>2. ASSUME AllClosed(body)
        PROVE  task # "panic"
    BY <2>2, OpenEnd DEF ScanInv, ScanTypeOK
  <2>3. ASSUME AllClosed(body), task = "scan", p > Len(body) \/ Len(local) >= MAX_PERIODS
        PROVE  local = ParsedPeriods(body)
    <3>1. p # Null /\ local = Loop(body)[p - 1]
      BY <2>3 DEF ScanInv
    <3>2. Len(body) \in Nat /\ p \in Nat /\ p - 1 \in 0..Len(body)
      BY <3>1, LenProperties DEF ScanTypeOK, Null
    <3>3. /\ Looped(body, Len(body), Loop(body))
          /\ ParsedPeriods(body) = Loop(body)[Len(body)]
      BY LoopIsThere DEF ScanTypeOK
    <3>4. CASE p > Len(body)
      <4>1. p - 1 = Len(body)
        BY <3>2, <3>4
      <4> QED BY <3>1, <3>3, <4>1
    <3>5. CASE Len(local) >= MAX_PERIODS
      BY <3>1, <3>2, <3>3, <3>5, LoopStays
    <3> QED BY <2>3, <3>4, <3>5
  <2> QED BY <2>1, <2>2, <2>3 DEF ScanAgrees, AllClosed
<1> QED BY <1>1, <1>2, ScanKept, ScanTypeCorrect, PTL DEF TextSpec

-----------------------------------------------------------------------------
(* GET /schedule *)

\* An integer is printed in ten digits and a sign at most.
LEMMA LengthOfIntBounded ==
    ASSUME NEW n \in Int
    PROVE  LengthOfInt(n) \in 1..11
<1> DEFINE HasDigits(k) == n < 10^k /\ -n < 10^k
           Is(k) == (k < 10 => HasDigits(k)) /\ (k > 1 => ~HasDigits(k - 1))
           digits == CHOOSE k \in 1..10 : Is(k)
           few == {k \in 1..10 : k < 10 => HasDigits(k)}
<1>1. PICK k \in few : \A j \in few : ~ (j < k)
  <2>1. 10 \in few /\ few \subseteq Nat
    OBVIOUS
  <2> HIDE DEF few
  <2>2. PICK k \in few : \A j \in few : ~ (<<j, k>> \in OpToRel(<, Nat))
    BY <2>1, NatLessThanWellFounded, WFMin, Zenon
  <2> QED BY <2>1, <2>2 DEF OpToRel
<1>2. k \in 1..10 /\ Is(k)
  <2>1. k \in 1..10 /\ (k < 10 => HasDigits(k))
    OBVIOUS
  <2>2. ASSUME k > 1 PROVE ~HasDigits(k - 1)
    <3>1. k - 1 \in 1..10 /\ k - 1 < 10 /\ k - 1 < k
      BY <2>1, <2>2
    <3>2. k - 1 \notin few
      BY <1>1, <3>1
    <3> HIDE DEF HasDigits
    <3> QED BY <3>1, <3>2
  <2> QED BY <2>1, <2>2
<1> HIDE DEF Is
<1>3. digits \in 1..10
  BY <1>2
<1>4. LengthOfInt(n) = IF n < 0 THEN digits + 1 ELSE digits
  BY DEF LengthOfInt, Is
<1> HIDE DEF digits
<1> QED BY <1>3, <1>4

\* At most eight objects of at most 52 bytes, seven commas, and what
\* surrounds them.
LEMMA PrintedLengthBounded ==
    ASSUME NEW s \in Stored
    PROVE  PrintedLength(s) \in 0..438
<1> DEFINE P == [start : TimeText, end : TimeText, mode : Int]
           N == Len(s)
           Object(q) == 31 + Len(q.start) + Len(q.end) + LengthOfInt(q.mode)
           Step(g, k) == IF k = 0 THEN 0 ELSE g[k - 1] + Object(s[k])
           Is(g) == g = [k \in 0..N |-> Step(g, k)]
           upto == CHOOSE g : Is(g)
<1>1. N \in 0..8 /\ N \in Nat /\ \A k \in 1..N : s[k] \in P
  <2>1. s \in Seq(P) /\ N <= 8
    BY DEF Stored, MAX_PERIODS
  <2>2. N \in Nat /\ \A k \in 1..N : s[k] \in P
    BY <2>1, LenProperties, ElementOfSeq
  <2> HIDE DEF N, P
  <2> QED BY <2>1, <2>2
<1>2. \A k \in 1..N : Object(s[k]) \in 0..52
  <2> SUFFICES ASSUME NEW k \in 1..N PROVE Object(s[k]) \in 0..52
    OBVIOUS
  <2>1. Len(s[k].start) \in 1..5 /\ Len(s[k].end) \in 1..5
    BY <1>1 DEF Stored, Scans
  <2>2. s[k].mode \in Int
    BY <1>1
  <2>3. LengthOfInt(s[k].mode) \in 1..11
    BY <2>2, LengthOfIntBounded
  <2>4. PICK a \in 1..5, b \in 1..5, c \in 1..11 :
            a = Len(s[k].start) /\ b = Len(s[k].end) /\ c = LengthOfInt(s[k].mode)
    BY <2>1, <2>3
  <2>5. Object(s[k]) = 31 + a + b + c
    BY <2>4, Zenon
  <2> HIDE DEF Object
  <2> QED BY <2>5
<1> HIDE DEF Object, N
<1>3. PICK f \in [0..N -> Nat] : Is(f)
  <2> DEFINE step == [k \in 1..N |-> [n \in Nat |-> n + Object(s[k])]]
  <2>1. step \in [1..N -> [Nat -> Nat]]
    BY <1>2
  <2>2. \A k \in 1..N : \A n \in Nat : step[k][n] = n + Object(s[k])
    OBVIOUS
  <2>3. \E f \in [0..N -> Nat] : f[0] = 0 /\ \A k \in 1..N : f[k] = step[k][f[k - 1]]
    <3> HIDE DEF step
    <3>1. step \in Steps(Nat, N) /\ 0 \in Nat /\ N \in Nat
      BY <1>1, <2>1 DEF Steps
    <3>2. PICK f : Runs(Nat, N, 0, step, f)
      BY <3>1, Recursion
    <3> QED BY <3>2 DEF Runs
  <2> HIDE DEF step
  <2>4. PICK f \in [0..N -> Nat] : f[0] = 0 /\ \A k \in 1..N : f[k] = step[k][f[k - 1]]
    BY <2>3
  <2>5. \A k \in 1..N : f[k - 1] \in Nat
    BY <1>1
  <2>6. ASSUME NEW k \in 0..N
        PROVE  f[k] = Step(f, k)
    <3>1. CASE k = 0
      BY <2>4, <3>1
    <3>2. CASE k # 0
      <4>1. k \in 1..N
        BY <1>1, <3>2
      <4>2. f[k] = f[k - 1] + Object(s[k])
        BY <2>2, <2>4, <2>5, <4>1
      <4> QED BY <3>2, <4>2
    <3> QED BY <3>1, <3>2
  <2>7. f = [k \in 0..N |-> f[k]]
    OBVIOUS
  <2> QED BY <2>6, <2>7
<1>4. Is(upto)
  BY <1>3, Zenon
<1>5. PrintedLength(s) = 15 + upto[N] + (IF s = <<>> THEN 0 ELSE N - 1)
  BY DEF PrintedLength, N, Object
<1>6. upto[0] = 0 /\ \A k \in 1..N : upto[k] = upto[k - 1] + Object(s[k])
  <2> HIDE DEF upto
  <2>1. \A k \in 0..N : upto[k] = Step(upto, k)
    BY <1>4
  <2> QED BY <1>1, <2>1
<1> HIDE DEF upto
<1>7. \A k \in 0..N : upto[k] \in 0..(52 * k)
  <2> DEFINE T == {k \in 0..N : upto[k] \in 0..(52 * k)}
  <2>1. 0 \in T
    BY <1>1, <1>6
  <2>2. ASSUME NEW k \in 0..(N - 1), k \in T
        PROVE  k + 1 \in T
    <3>1. k + 1 \in 1..N /\ (k + 1) - 1 = k /\ k \in Nat
      BY <1>1
    <3>2. PICK a \in 0..52 : upto[k + 1] = upto[k] + a
      BY <1>2, <1>6, <3>1
    <3>3. upto[k] \in Nat /\ upto[k] <= 52 * k
      BY <2>2, <3>1
    <3>4. upto[k + 1] \in Nat /\ upto[k + 1] <= 52 * k + 52
      BY <3>1, <3>2, <3>3
    <3>5. 52 * k + 52 = 52 * (k + 1)
      BY <3>1
    <3>6. k + 1 \in 0..N
      BY <3>1
    <3> QED BY <3>1, <3>4, <3>5, <3>6
  <2>3. N \in Nat
    BY <1>1
  <2> HIDE DEF T
  <2>4. \A k \in 0..N : k \in T
    BY <2>1, <2>2, <2>3, UpTo
  <2> QED BY <2>4 DEF T
<1>8. upto[N] \in 0..(52 * N)
  BY <1>1, <1>7
<1>9. (IF s = <<>> THEN 0 ELSE N - 1) \in 0..7
  <2>1. s # <<>> => N # 0
    BY EmptySeq DEF Stored, N
  <2> QED BY <1>1, <2>1
<1>10. PICK a \in 0..(52 * N), b \in 0..7 : PrintedLength(s) = 15 + a + b
  BY <1>5, <1>8, <1>9
<1>11. 52 * N <= 416
  BY <1>1
<1> QED BY <1>1, <1>10, <1>11

\* A plan of any periods that were read is printed within the buffer.
THEOREM PlanReplyAlwaysFits == TextSpec => []PlanReplyFits
<1>1. ScanTypeOK => PlanReplyFits
  <2> SUFFICES ASSUME ScanTypeOK PROVE PlanReplyFits
    OBVIOUS
  <2>1. PrintedLength(plan) \in 0..438
    BY PrintedLengthBounded DEF ScanTypeOK
  <2> QED BY <2>1 DEF PlanReplyFits, RESP_SIZE
<1> QED BY <1>1, ScanTypeCorrect, PTL

-----------------------------------------------------------------------------
(* The minutes of a period *)

Minute == 0..1439

\* The minute d minutes after minute a.
After(a, d) == (a + d) % 1440

LEMMA OnceRound ==
    ASSUME NEW a \in Minute, NEW d \in Minute
    PROVE  /\ a + d < 1440 => After(a, d) = a + d
           /\ a + d >= 1440 => After(a, d) = a + d - 1440
  BY DEF Minute, After

LEMMA SameSum ==
    ASSUME NEW a \in Int, NEW d \in Int, NEW m \in Nat, d = m + 1440 - a
    PROVE  a + d = m + 1440 /\ a + d >= 1440
  OBVIOUS

\* What lies ahead of minute a within reach minutes.
LEMMA Ahead ==
    ASSUME NEW a \in Minute, NEW reach \in Minute, NEW m \in Minute
    PROVE  (\E d \in 0..reach : m = After(a, d))
             <=> (m >= a /\ m <= a + reach) \/ (m + 1440 >= a /\ m + 1440 <= a + reach)
<1>1. ASSUME NEW d \in 0..reach, m = After(a, d)
      PROVE  (m >= a /\ m <= a + reach) \/ (m + 1440 >= a /\ m + 1440 <= a + reach)
  <2>1. d \in Minute
    BY DEF Minute
  <2>2. m = a + d \/ m = a + d - 1440
    <3>1. a + d < 1440 \/ a + d >= 1440
      BY <2>1 DEF Minute
    <3> QED BY <1>1, <2>1, <3>1, OnceRound
  <2> QED BY <2>2 DEF Minute
<1>2. ASSUME m >= a, m <= a + reach
      PROVE  \E d \in 0..reach : m = After(a, d)
  <2>1. /\ m - a \in 0..reach /\ m - a \in Minute
        /\ a + (m - a) < 1440 /\ a + (m - a) = m
    BY <1>2 DEF Minute
  <2>2. After(a, m - a) = m
    BY <2>1, OnceRound
  <2> QED BY <2>1, <2>2
<1>3. ASSUME m + 1440 >= a, m + 1440 <= a + reach
      PROVE  \E d \in 0..reach : m = After(a, d)
  <2>1. \A x \in 0..reach : x \in Minute
    BY DEF Minute
  <2>2. PICK d \in 0..reach : d = m + 1440 - a
    <3>1. m + 1440 - a \in 0..reach
      BY <1>3 DEF Minute
    <3> QED BY <3>1
  <2>3. d \in Minute
    BY <2>1
  <2>4. After(a, d) = m
    <3>1. a \in Int /\ d \in Int /\ m \in Nat
      BY <2>3 DEF Minute
    <3>2. a + d = m + 1440 /\ a + d >= 1440
      BY <2>2, <3>1, SameSum
    <3>3. After(a, d) = (a + d) - 1440
      BY <2>3, <3>2, OnceRound
    <3> QED BY <3>1, <3>2, <3>3
  <2> QED BY <2>4
<1> QED BY <1>1, <1>2, <1>3

\* Walking forward from start over at most a day's minutes meets exactly the
\* minutes the code takes to be inside.
LEMMA MinutesInPeriod ==
    ASSUME NEW a \in Minute, NEW b \in Minute, NEW m \in Minute
    PROVE  InPeriod(m, a, b) <=> m \in MinutesWithin(a, b)
<1>1. PICK r \in Minute : /\ (b - a) % 1440 = r
                          /\ a <= b => r = b - a
                          /\ a > b => r = b - a + 1440
  <2>1. (b - a) % 1440 \in Minute
    BY DEF Minute
  <2>2. ASSUME a <= b PROVE (b - a) % 1440 = b - a
    <3>1. PICK x \in Minute : x = b - a
      BY <2>2 DEF Minute
    <3>2. x % 1440 = x
      BY DEF Minute
    <3> QED BY <3>1, <3>2
  <2>3. a > b => (b - a) % 1440 = b - a + 1440
    BY DEF Minute
  <2> QED BY <2>1, <2>2, <2>3
<1>2. m \in MinutesWithin(a, b) <=> \E d \in 0..r : m = After(a, d)
  BY <1>1 DEF MinutesWithin, After
<1>3. m \in MinutesWithin(a, b)
        <=> (m >= a /\ m <= a + r) \/ (m + 1440 >= a /\ m + 1440 <= a + r)
  BY <1>2, Ahead
<1> QED BY <1>1, <1>3 DEF InPeriod, Minute

\* The minute a time of day is written for.
MinuteOf(t) == (t[1] * 10 + t[2]) * 60 + t[4] * 10 + t[5]

\* The hours and the minutes of a well-formed time survive their uint8_t.
LEMMA ReadWellFormed ==
    ASSUME NEW t \in TimeText, WellFormed(t)
    PROVE  time_to_minutes(t) = MinuteOf(t) /\ MinuteOf(t) \in Minute
<1>1. /\ CharAt(t, 1) = t[1] /\ CharAt(t, 2) = t[2]
      /\ CharAt(t, 4) = t[4] /\ CharAt(t, 5) = t[5]
  BY DEF WellFormed, CharAt
<1>2. PICK hh \in 0..23 : hh = t[1] * 10 + t[2]
  BY DEF WellFormed, TwoDigits
<1>3. PICK mm \in 0..59 : mm = t[4] * 10 + t[5]
  BY DEF WellFormed, TwoDigits
<1>4. hh % 256 = hh /\ mm % 256 = mm
  OBVIOUS
<1>5. time_to_minutes(t) = hh * 60 + mm
  BY <1>1, <1>2, <1>3, <1>4 DEF time_to_minutes
<1>6. MinuteOf(t) = hh * 60 + mm
  <2>1. MinuteOf(t) = (t[1] * 10 + t[2]) * 60 + t[4] * 10 + t[5]
    BY DEF MinuteOf
  <2>2. PICK x \in Int, y \in Int : x = t[4] /\ y = t[5]
    BY DEF WellFormed, TwoDigits
  <2>3. MinuteOf(t) = hh * 60 + x * 10 + y
    BY <1>2, <2>1, <2>2
  <2>4. mm = x * 10 + y
    BY <1>3, <2>2
  <2> QED BY <2>3, <2>4
<1>7. hh * 60 + mm \in Minute
  BY DEF Minute
<1> QED BY <1>5, <1>6, <1>7

\* A schedule of one period is active when that period is.
LEMMA ActiveAlone ==
    ASSUME NEW q, NEW m
    PROVE  schedule_is_active(<<q>>, m)
             <=> InPeriod(m, time_to_minutes(q.start), time_to_minutes(q.end))
<1> DEFINE one == <<q>>
<1>1. DOMAIN one = {1} /\ one[1] = q
  OBVIOUS
<1> HIDE DEF one
<1> DEFINE Is == InPeriod(m, time_to_minutes(q.start), time_to_minutes(q.end))
<1>2. ActivePeriods(one, m) = {x \in {1} : InPeriod(m, time_to_minutes(one[x].start),
                                                     time_to_minutes(one[x].end))}
  BY <1>1, Zenon DEF ActivePeriods
<1>3. 1 \in ActivePeriods(one, m) <=> Is
  BY <1>1, <1>2
<1>4. \A x \in ActivePeriods(one, m) : x = 1
  BY <1>2
<1>5. ActivePeriods(one, m) # {} <=> Is
  BY <1>3, <1>4
<1> QED BY <1>5, Zenon DEF schedule_is_active, one

\* What is stored is active in exactly the minutes it was written for.
THEOREM PeriodsAlwaysCoverTheirMinutes == TextSpec => []PeriodsCoverTheirMinutes
<1>1. ScanTypeOK => PeriodsCoverTheirMinutes
  <2> SUFFICES ASSUME ScanTypeOK, NEW k \in DOMAIN plan,
                      WellFormed(plan[k].start), WellFormed(plan[k].end)
               PROVE  {m \in Minute : schedule_is_active(<<plan[k]>>, m)}
                        = MinutesWithin(MinuteOf(plan[k].start), MinuteOf(plan[k].end))
    BY DEF PeriodsCoverTheirMinutes, MinuteOf, Minute
  <2>1. plan[k].start \in TimeText /\ plan[k].end \in TimeText
    <3>1. plan \in Seq([start : TimeText, end : TimeText, mode : Int])
      BY DEF ScanTypeOK, Stored
    <3>2. plan[k] \in [start : TimeText, end : TimeText, mode : Int]
      BY <3>1, ElementOfSeq, LenProperties
    <3> QED BY <3>2
  <2>2. PICK a \in Minute, b \in Minute :
            /\ time_to_minutes(plan[k].start) = a /\ MinuteOf(plan[k].start) = a
            /\ time_to_minutes(plan[k].end) = b /\ MinuteOf(plan[k].end) = b
    BY <2>1, ReadWellFormed, Zenon
  <2>3. \A m \in Minute : schedule_is_active(<<plan[k]>>, m) <=> m \in MinutesWithin(a, b)
    <3> TAKE m \in Minute
    <3>1. schedule_is_active(<<plan[k]>>, m) <=> InPeriod(m, a, b)
      BY <2>2, ActiveAlone, Zenon
    <3> QED BY <3>1, MinutesInPeriod, Zenon
  <2>4. \A m \in MinutesWithin(a, b) : m \in Minute
    <3>1. ASSUME NEW d \in Int PROVE (a + d) % 1440 \in Minute
      BY DEF Minute
    <3>2. (b - a) % 1440 \in Int
      BY DEF Minute
    <3>3. ASSUME NEW n \in Int PROVE \A d \in 0..n : d \in Int
      OBVIOUS
    <3> QED BY <3>1, <3>2, <3>3 DEF MinutesWithin
  <2>5. {m \in Minute : schedule_is_active(<<plan[k]>>, m)} = MinutesWithin(a, b)
    BY <2>3, <2>4, Zenon
  <2> QED BY <2>2, <2>5, Zenon
<1> QED BY <1>1, ScanTypeCorrect, PTL

-----------------------------------------------------------------------------
(* What the client receives *)

\* g gives, for every n, what the first n characters of m become.
EscapedPrefixes(m, g) ==
    /\ g \in [0..Len(m) -> Seq(Written)]
    /\ g[0] = <<>>
    /\ \A n \in 1..Len(m) : g[n] = g[n - 1] \o EscapedCharacter(m[n])

LEMMA PrefixesExist ==
    ASSUME NEW m \in Seq(Character)
    PROVE  \E g : EscapedPrefixes(m, g)
<1> DEFINE N == Len(m)
           S == Seq(Written)
           step == [n \in 1..N |-> [s \in S |-> s \o EscapedCharacter(m[n])]]
<1>1. N \in Nat /\ \A n \in 1..N : EscapedCharacter(m[n]) \in S
  BY LenProperties, ElementOfSeq, EscapedLength
<1>2. step \in [1..N -> [S -> S]]
  <2>1. \A n \in 1..N : \A s \in S : s \o EscapedCharacter(m[n]) \in S
    BY <1>1, ConcatProperties
  <2> HIDE DEF S, N
  <2> QED BY <2>1
<1>3. \A n \in 1..N : \A s \in S : step[n][s] = s \o EscapedCharacter(m[n])
  OBVIOUS
<1>4. <<>> \in S
  BY EmptySeq
<1> HIDE DEF step, S, N
<1>5. N \in Nat /\ step \in Steps(S, N)
  BY <1>1, <1>2 DEF Steps
<1>6. PICK f \in [0..N -> S] : f[0] = <<>> /\ \A n \in 1..N : f[n] = step[n][f[n - 1]]
  BY <1>4, <1>5, Recursion DEF Runs
<1>7. \A n \in 1..N : f[n - 1] \in S
  BY <1>1
<1>8. \A n \in 1..N : f[n] = f[n - 1] \o EscapedCharacter(m[n])
  BY <1>3, <1>6, <1>7
<1> QED BY <1>6, <1>8 DEF EscapedPrefixes, N, S

\* The last of them is the whole text escaped.
LEMMA LastPrefix ==
    ASSUME NEW m \in Seq(Character), NEW g, EscapedPrefixes(m, g)
    PROVE  Escaped(m) = g[Len(m)]
<1> DEFINE N == Len(m)
           S == Seq(Written)
           parts == [k \in DOMAIN m |-> EscapedCharacter(m[k])]
           Step(h, k) == IF k = 1 THEN parts[k] ELSE h[k - 1] \o parts[k]
           Is(h) == h = [k \in 1..Len(parts) |-> Step(h, k)]
           flatten == CHOOSE h : Is(h)
<1>1. N \in Nat /\ DOMAIN m = 1..N /\ \A n \in 1..N : EscapedCharacter(m[n]) \in S
  BY LenProperties, ElementOfSeq, EscapedLength
<1>2. parts \in Seq(S) /\ Len(parts) = N /\ \A n \in 1..N : parts[n] = EscapedCharacter(m[n])
  BY <1>1, SeqDef, LenProperties
<1>3. g[0] = <<>> /\ \A n \in 1..N : g[n] = g[n - 1] \o parts[n] /\ g[n - 1] \in S
  <2>1. /\ g \in [0..N -> S] /\ g[0] = <<>>
        /\ \A n \in 1..N : g[n] = g[n - 1] \o EscapedCharacter(m[n])
    BY DEF EscapedPrefixes
  <2> HIDE DEF N, S, parts
  <2>2. \A n \in 1..N : g[n - 1] \in S
    BY <1>1, <2>1
  <2> QED BY <1>2, <2>1, <2>2
<1>4. Escaped(m) = IF Len(parts) = 0 THEN parts ELSE flatten[Len(parts)]
  <2>1. Escaped(m) = FlattenSeq(parts)
    BY DEF Escaped
  <2> HIDE DEF parts
  <2> QED BY <2>1 DEF FlattenSeq
<1> HIDE DEF N, S, parts
<1>5. CASE N = 0
  <2>1. parts = <<>>
    BY <1>2, <1>5, EmptySeq
  <2> QED BY <1>2, <1>3, <1>4, <1>5, <2>1 DEF N
<1>6. CASE N # 0
  <2> DEFINE h == [k \in 1..N |-> g[k]]
  <2>1. \A k \in 1..N : h[k] = Step(h, k)
    <3> SUFFICES ASSUME NEW k \in 1..N PROVE h[k] = Step(h, k)
      OBVIOUS
    <3>1. CASE k = 1
      <4>1. parts[1] \in S /\ <<>> \o parts[1] = parts[1]
        BY <1>1, <1>2, <3>1, ConcatEmptySeq DEF S
      <4>2. h[1] = g[1] /\ 1 \in 1..N /\ 1 - 1 = 0
        BY <3>1
      <4>3. g[1] = <<>> \o parts[1]
        BY <1>3, <4>2
      <4> QED BY <3>1, <4>1, <4>2, <4>3
    <3>2. CASE k # 1
      <4>1. k - 1 \in 1..N
        BY <1>1, <3>2
      <4> QED BY <1>3, <3>2, <4>1
    <3> QED BY <3>1, <3>2
  <2>2. Is(h)
    BY <1>2, <2>1
  <2>3. Is(flatten)
    BY <2>2, Zenon
  <2> HIDE DEF flatten
  <2>4. \A k \in 1..N : flatten[k] = Step(flatten, k)
    BY <1>2, <2>3
  <2> DEFINE T == {k \in 0..N : k # 0 => flatten[k] = g[k]}
  <2>5. 0 \in T
    BY <1>1
  <2>6. ASSUME NEW k \in 0..(N - 1), k \in T
        PROVE  k + 1 \in T
    <3>1. k + 1 \in 1..N /\ (k + 1) - 1 = k
      BY <1>1
    <3>2. CASE k = 0
      <4>1. 1 \in 1..N /\ 1 - 1 = 0
        BY <3>1, <3>2
      <4>2. flatten[1] = parts[1] /\ g[1] = g[0] \o parts[1]
        BY <1>3, <2>4, <4>1
      <4>3. parts[1] \in S /\ <<>> \o parts[1] = parts[1]
        BY <1>1, <1>2, <4>1, ConcatEmptySeq DEF S
      <4> QED BY <1>3, <3>1, <3>2, <4>2, <4>3
    <3>3. CASE k # 0
      <4>1. k + 1 # 1
        BY <3>1, <3>3
      <4>2. flatten[k + 1] = flatten[k] \o parts[k + 1]
        BY <2>4, <3>1, <4>1
      <4>3. g[k + 1] = g[k] \o parts[k + 1]
        BY <1>3, <3>1
      <4>4. flatten[k] = g[k] /\ k + 1 \in 0..N
        BY <2>6, <3>1, <3>3
      <4> QED BY <4>2, <4>3, <4>4
    <3> QED BY <3>2, <3>3
  <2> HIDE DEF T
  <2>7. \A k \in 0..N : k \in T
    BY <1>1, <2>5, <2>6, UpTo
  <2>8. flatten[N] = g[N]
    BY <1>1, <1>6, <2>7 DEF T
  <2> QED BY <1>2, <1>4, <1>6, <2>8 DEF N
<1> QED BY <1>5, <1>6

\* What the first n characters of m become.
EscapedFirst(m, n) == (CHOOSE g : EscapedPrefixes(m, g))[n]

LEMMA EscapedFirstSteps ==
    ASSUME NEW m \in Seq(Character)
    PROVE  /\ EscapedFirst(m, 0) = <<>>
           /\ \A n \in 1..Len(m) : EscapedFirst(m, n)
                                     = EscapedFirst(m, n - 1) \o EscapedCharacter(m[n])
           /\ \A n \in 0..Len(m) : EscapedFirst(m, n) \in Seq(Written)
           /\ Escaped(m) = EscapedFirst(m, Len(m))
<1> DEFINE g == CHOOSE g : EscapedPrefixes(m, g)
<1>1. EscapedPrefixes(m, g)
  BY PrefixesExist, Zenon
<1>2. \A n : EscapedFirst(m, n) = g[n]
  BY DEF EscapedFirst
<1> HIDE DEF g
<1>3. Escaped(m) = g[Len(m)]
  BY <1>1, LastPrefix
<1> QED BY <1>1, <1>2, <1>3 DEF EscapedPrefixes

\* What has been sent and what the chunk holds is what the characters before
\* i became; nothing else is ever between the client and the text.
SentInv ==
    /\ sent \in Seq(Written)
    /\ i \in 1..(Len(src) + 1)
    /\ task = "escape" => sent \o chunk = EscapedFirst(src, i - 1)
    /\ task = "sent" => sent = Escaped(src)

LEMMA SentKept == WriterInv /\ SentInv /\ [TextNext]_text_vars => SentInv'
<1> SUFFICES ASSUME WriterInv, SentInv, [TextNext]_text_vars PROVE SentInv'
  OBVIOUS
<1>0. /\ src \in Seq(Character) /\ chunk \in Seq(Written) /\ sent \in Seq(Written)
      /\ Len(src) \in Nat /\ i \in 1..(Len(src) + 1)
  BY LenProperties DEF WriterInv, SentInv
\* The character at i is written behind what there is.
<1>1. ASSUME task = "escape", i <= Len(src)
      PROVE  /\ i' = i + 1 /\ src' = src => i' \in 1..(Len(src') + 1)
             /\ EscapedCharacter(src[i]) \in Seq(Written)
             /\ EscapedFirst(src, (i + 1) - 1) = sent \o (chunk \o EscapedCharacter(src[i]))
             /\ EscapedFirst(src, (i + 1) - 1) = (sent \o chunk) \o EscapedCharacter(src[i])
  <2>1. i \in 1..Len(src) /\ (i + 1) - 1 = i
    BY <1>0, <1>1
  <2>2. EscapedCharacter(src[i]) \in Seq(Written)
    BY <1>0, <2>1, ElementOfSeq, EscapedLength
  <2>3. EscapedFirst(src, i) = EscapedFirst(src, i - 1) \o EscapedCharacter(src[i])
    BY <1>0, <2>1, EscapedFirstSteps
  <2>4. EscapedFirst(src, i) = (sent \o chunk) \o EscapedCharacter(src[i])
    BY <1>1, <2>3 DEF SentInv
  <2>5. (sent \o chunk) \o EscapedCharacter(src[i]) = sent \o (chunk \o EscapedCharacter(src[i]))
    BY <1>0, <2>2, ConcatAssociative
  <2>6. i + 1 \in 1..(Len(src) + 1)
    BY <1>0, <2>1
  <2> QED BY <2>1, <2>2, <2>4, <2>5, <2>6
<1>2. CASE UNCHANGED writer_vars /\ (task' = task \/ task' \notin {"escape", "sent"})
  BY <1>2 DEF SentInv, writer_vars
<1>3. (\E b \in Bodies : PostSchedule(b)) \/ PostPrintedPlan \/ ScanObject \/ StorePlan
        \/ ScanNull \/ Reboot \/ SendFails \/ UNCHANGED text_vars
      => UNCHANGED writer_vars /\ (task' = task \/ task' \notin {"escape", "sent"})
  BY DEF PostSchedule, PostPrintedPlan, ScanObject, StorePlan, ScanNull, Reboot,
         SendFails, writer_vars, text_vars
<1>4. ASSUME NEW m \in Messages, SendMessage(m) PROVE SentInv'
  <2>1. /\ task' = "escape" /\ src' = m /\ i' = 1 /\ chunk' = <<>> /\ sent' = <<>>
        /\ m \in Seq(Character)
    BY <1>4, TextAssumption DEF SendMessage
  <2>2. sent' \in Seq(Written) /\ sent' \o chunk' = <<>>
    BY <2>1, EmptySeq, ConcatEmptySeq
  <2>3. EscapedFirst(m, 0) = <<>> /\ 1 - 1 = 0 /\ 1 \in 1..(Len(m) + 1)
    BY <2>1, EscapedFirstSteps, LenProperties
  <2> QED BY <2>1, <2>2, <2>3 DEF SentInv
<1>5. CASE SkipControl
  <2>1. /\ task = "escape" /\ task' = "escape" /\ i <= Len(src) /\ src[i] = "control"
        /\ i' = i + 1 /\ src' = src /\ chunk' = chunk /\ sent' = sent
    BY <1>5 DEF SkipControl
  <2>2. EscapedCharacter(src[i]) = <<>> /\ chunk \o <<>> = chunk
    BY <1>0, <2>1, ConcatEmptySeq DEF EscapedCharacter
  <2>3. EscapedFirst(src, (i + 1) - 1) = sent \o chunk
    BY <1>1, <2>1, <2>2
  <2> QED BY <1>0, <1>1, <2>1, <2>3 DEF SentInv
<1>6. CASE EscapeIntoChunk
  <2>1. /\ task = "escape" /\ task' = "escape" /\ i <= Len(src)
        /\ i' = i + 1 /\ src' = src /\ sent' = sent
        /\ chunk' = chunk \o EscapedCharacter(src[i])
    BY <1>6 DEF EscapeIntoChunk
  <2> QED BY <1>0, <1>1, <2>1 DEF SentInv
<1>7. CASE SendFullChunk
  <2>1. /\ task = "escape" /\ task' = "escape" /\ i <= Len(src)
        /\ i' = i + 1 /\ src' = src /\ sent' = sent \o chunk
        /\ chunk' = EscapedCharacter(src[i])
    BY <1>7 DEF SendFullChunk
  <2>2. sent' \in Seq(Written)
    BY <1>0, <2>1, ConcatProperties
  <2> QED BY <1>1, <2>1, <2>2 DEF SentInv
<1>8. CASE SendLastChunk
  <2>1. /\ task = "escape" /\ task' = "sent" /\ i > Len(src)
        /\ i' = i /\ src' = src /\ sent' = sent \o chunk
    BY <1>8 DEF SendLastChunk
  <2>2. i - 1 = Len(src)
    BY <1>0, <2>1
  <2>3. sent' = Escaped(src)
    BY <1>0, <2>1, <2>2, EscapedFirstSteps DEF SentInv
  <2>4. sent' \in Seq(Written)
    BY <1>0, <2>1, ConcatProperties
  <2> QED BY <1>0, <2>1, <2>3, <2>4 DEF SentInv
<1>9. CASE Finish
  <2>1. task' = "idle" /\ src' = <<>> /\ i' = 1 /\ sent' = <<>>
    BY <1>9 DEF Finish
  <2>2. sent' \in Seq(Written) /\ i' \in 1..(Len(src') + 1)
    BY <2>1, EmptySeq
  <2> QED BY <2>1, <2>2 DEF SentInv
<1> QED BY <1>2, <1>3, <1>4, <1>5, <1>6, <1>7, <1>8, <1>9 DEF TextNext

\* However a text falls into chunks, whatever it consists of and whatever the
\* size of the buffer, the client receives exactly its escaped characters.
THEOREM ReceivedIsAlwaysEscaped == TextSpec => []ReceivedIsEscaped
<1>1. TextInit => SentInv
  <2> SUFFICES ASSUME TextInit PROVE SentInv
    OBVIOUS
  <2>1. task = "idle" /\ src = <<>> /\ i = 1 /\ sent = <<>>
    BY DEF TextInit
  <2>2. sent \in Seq(Written) /\ i \in 1..(Len(src) + 1)
    BY <2>1, EmptySeq
  <2> QED BY <2>1, <2>2 DEF SentInv
<1>2. SentInv => ReceivedIsEscaped
  BY DEF SentInv, ReceivedIsEscaped
<1> QED BY <1>1, <1>2, SentKept, WriterInitially, WriterKept, PTL DEF TextSpec
=============================================================================
