-------------------------- MODULE ScheduleTextProofs ---------------------------
(***************************************************************************)
(* What the loop of POST /schedule finds in a body of any length, by       *)
(* induction over its objects; CommCenterProofs and HttpTextProofs use it. *)
(***************************************************************************)
EXTENDS ScheduleText, SequenceTheorems, WellFoundedInduction, TLAPS

\* Induction over the numbers, for a set of them.
LEMMA SetOfNumbers ==
    ASSUME NEW T, T \subseteq Nat, 0 \in T, \A n \in T : n + 1 \in T
    PROVE  T = Nat
<1>1. SUFFICES ASSUME Nat \ T # {}
               PROVE  FALSE
  OBVIOUS
<1>2. PICK m \in Nat \ T : \A n \in Nat \ T : ~ (<<n, m>> \in OpToRel(<, Nat))
  BY <1>1, NatLessThanWellFounded, WFMin, Zenon
<1>3. m # 0 /\ m - 1 \in Nat
  OBVIOUS
<1>4. <<m - 1, m>> \in OpToRel(<, Nat)
  BY <1>3 DEF OpToRel
<1>5. m - 1 \in T
  BY <1>2, <1>3, <1>4
<1>6. (m - 1) + 1 \in T
  BY <1>5
<1> QED BY <1>6

\* A set that starts at 0 and is left only beyond N holds 0..N.
LEMMA UpTo ==
    ASSUME NEW N \in Nat, NEW T, 0 \in T, \A n \in 0..(N - 1) : n \in T => n + 1 \in T
    PROVE  \A n \in 0..N : n \in T
<1> DEFINE S == {n \in Nat : n <= N => n \in T}
<1>1. 0 \in S
  OBVIOUS
<1>2. ASSUME NEW n \in S PROVE n + 1 \in S
  <2>1. n \in Nat /\ n + 1 \in Nat
    OBVIOUS
  <2>2. ASSUME n + 1 <= N PROVE n + 1 \in T
    <3>1. n \in 0..(N - 1) /\ n \in T
      BY <2>1, <2>2
    <3> QED BY <3>1
  <2> QED BY <2>1, <2>2
<1>3. S \subseteq Nat
  OBVIOUS
<1> HIDE DEF S
<1>4. S = Nat
  BY <1>1, <1>2, <1>3, SetOfNumbers
<1> QED BY <1>4 DEF S

\* A recursion that enters S and whose steps stay there is in S everywhere.
LEMMA StaysInside ==
    ASSUME NEW S, NEW N \in Nat, NEW f, f[0] \in S,
           \A n \in 1..N : f[n - 1] \in S => f[n] \in S
    PROVE  \A n \in 0..N : f[n] \in S
<1> DEFINE T == {n \in 0..N : f[n] \in S}
<1>1. 0 \in T
  OBVIOUS
<1>2. ASSUME NEW n \in 0..(N - 1), n \in T
      PROVE  n + 1 \in T
  <2>1. n + 1 \in 1..N /\ (n + 1) - 1 = n
    OBVIOUS
  <2> QED BY <1>2, <2>1
<1> HIDE DEF T
<1>3. \A n \in 0..N : n \in T
  BY <1>1, <1>2, UpTo
<1> QED BY <1>3 DEF T

\* A recursion over 1..N whose steps stay in S has a value everywhere.
Steps(S, N) == [1..N -> [S -> S]]
Runs(S, N, a, step, f) ==
    /\ f \in [0..N -> S]
    /\ f[0] = a
    /\ \A n \in 1..N : f[n] = step[n][f[n - 1]]

LEMMA Recursion ==
    ASSUME NEW S, NEW a \in S, NEW N \in Nat, NEW step \in Steps(S, N)
    PROVE  \E f : Runs(S, N, a, step, f)
<1> DEFINE Goes(f, m) == f[0] = a /\ \A n \in 1..m : f[n] = step[n][f[n - 1]]
           T == {m \in 0..N : \E f \in [0..m -> S] : Goes(f, m)}
<1>1. 0 \in T
  <2> DEFINE f == [n \in 0..0 |-> a]
  <2>1. f \in [0..0 -> S] /\ Goes(f, 0)
    OBVIOUS
  <2> HIDE DEF f, Goes
  <2> QED BY <2>1
<1>2. ASSUME NEW m \in 0..(N - 1), m \in T
      PROVE  m + 1 \in T
  <2>1. PICK f \in [0..m -> S] : Goes(f, m)
    BY <1>2
  <2>2. m \in Nat /\ m + 1 \in 1..N /\ f[m] \in S
    BY <2>1
  <2>3. step[m + 1][f[m]] \in S
    BY <2>2 DEF Steps
  <2> DEFINE h == [n \in 0..(m + 1) |-> IF n = m + 1 THEN step[m + 1][f[m]] ELSE f[n]]
  <2>4. h \in [0..(m + 1) -> S]
    BY <2>1, <2>2, <2>3
  <2>5. h[0] = a
    BY <2>1, <2>2
  <2>6. ASSUME NEW n \in 1..(m + 1)
        PROVE  h[n] = step[n][h[n - 1]]
    <3>1. n - 1 \in 0..m /\ h[n - 1] = f[n - 1]
      BY <2>2
    <3>2. CASE n = m + 1
      <4>1. h[n] = step[m + 1][f[m]] /\ n - 1 = m
        BY <2>2, <3>2
      <4> HIDE DEF h
      <4> QED BY <3>1, <3>2, <4>1
    <3>3. CASE n # m + 1
      <4>1. n \in 1..m /\ h[n] = f[n]
        BY <2>2, <3>3
      <4> HIDE DEF h
      <4> QED BY <2>1, <3>1, <4>1
    <3> QED BY <3>2, <3>3
  <2> HIDE DEF h
  <2>7. Goes(h, m + 1)
    BY <2>5, <2>6
  <2> HIDE DEF Goes
  <2> QED BY <2>2, <2>4, <2>7
<1> HIDE DEF T
<1>3. N \in 0..N /\ \A n \in 0..N : n \in T
  BY <1>1, <1>2, UpTo
<1> QED BY <1>3 DEF T, Runs

-----------------------------------------------------------------------------
\* One pass of the loop: what it has found once it has looked at object o.
Pass(found, o) ==
    IF Parses(o) /\ Len(found) < MAX_PERIODS THEN Append(found, ParsedPeriod(o)) ELSE found

\* What the array may hold: no more periods than fit, with times that were read.
Stored == {s \in Seq([start : TimeText, end : TimeText, mode : Int]) :
               /\ Len(s) <= MAX_PERIODS
               /\ \A k \in 1..Len(s) : Scans(s[k].start) /\ Scans(s[k].end)}

LEMMA PassType ==
    ASSUME NEW found \in Stored, NEW o \in PeriodObject
    PROVE  Pass(found, o) \in Stored
<1> DEFINE P == [start : TimeText, end : TimeText, mode : Int]
<1>1. ParsedPeriod(o) \in P
  BY DEF ParsedPeriod, PeriodObject
<1>2. found \in Seq(P) /\ Len(found) \in Nat /\ Len(found) <= MAX_PERIODS
  BY LenProperties DEF Stored
<1> HIDE DEF P
<1> DEFINE longer == Append(found, ParsedPeriod(o))
<1>3. /\ longer \in Seq(P) /\ Len(longer) = Len(found) + 1
      /\ \A k \in 1..Len(found) : longer[k] = found[k]
      /\ longer[Len(found) + 1] = ParsedPeriod(o)
  BY <1>1, <1>2, AppendProperties
<1> HIDE DEF longer
<1>4. ASSUME Parses(o), Len(found) < MAX_PERIODS
      PROVE  longer \in Stored
  <2>1. MAX_PERIODS \in Nat /\ Len(longer) <= MAX_PERIODS
    BY <1>2, <1>3, <1>4 DEF MAX_PERIODS
  <2>2. ASSUME NEW k \in 1..Len(longer)
        PROVE  Scans(longer[k].start) /\ Scans(longer[k].end)
    <3>1. CASE k = Len(found) + 1
      BY <1>3, <1>4, <3>1 DEF Parses, ParsedPeriod
    <3>2. CASE k # Len(found) + 1
      <4>1. k \in 1..Len(found) /\ longer[k] = found[k]
        BY <1>2, <1>3, <3>2
      <4> QED BY <4>1 DEF Stored
    <3> QED BY <3>1, <3>2
  <2> QED BY <1>3, <2>1, <2>2 DEF Stored, P
<1> QED BY <1>4 DEF Pass, longer

\* What the loop has found in the first n objects, for every n up to m.
Looped(objects, m, g) ==
    /\ g \in [0..m -> Stored]
    /\ g[0] = <<>>
    /\ \A n \in 1..m : g[n] = Pass(g[n - 1], objects[n])

\* The recursion of ParsedPeriods is that loop.
LEMMA LoopFinds ==
    ASSUME NEW objects \in Seq(PeriodObject)
    PROVE  \E g : /\ Looped(objects, Len(objects), g)
                  /\ ParsedPeriods(objects) = g[Len(objects)]
<1> DEFINE N == Len(objects)
           Step(g, k) == IF k = 0 THEN <<>>
                         ELSE IF Parses(objects[k]) /\ Len(g[k - 1]) < MAX_PERIODS
                              THEN Append(g[k - 1], ParsedPeriod(objects[k]))
                              ELSE g[k - 1]
           Is(g) == g = [k \in 0..N |-> Step(g, k)]
           local == CHOOSE g : Is(g)
<1>0. N \in Nat /\ \A n \in 1..N : objects[n] \in PeriodObject
  BY LenProperties, ElementOfSeq
<1>1. PICK g : Looped(objects, N, g)
  <2> DEFINE step == [n \in 1..N |-> [s \in Stored |-> Pass(s, objects[n])]]
  <2>1. <<>> \in Stored
    BY EmptySeq DEF Stored, MAX_PERIODS
  <2>2. step \in [1..N -> [Stored -> Stored]]
    BY <1>0, PassType
  <2>3. \A n \in 1..N : \A s \in Stored : step[n][s] = Pass(s, objects[n])
    OBVIOUS
  <2> HIDE DEF step, N
  <2>4. N \in Nat /\ step \in Steps(Stored, N)
    BY <1>0, <2>2 DEF Steps
  <2>5. PICK f \in [0..N -> Stored] : f[0] = <<>> /\ \A n \in 1..N : f[n] = step[n][f[n - 1]]
    BY <2>1, <2>4, Recursion DEF Runs
  <2>6. \A n \in 1..N : f[n - 1] \in Stored
    BY <1>0
  <2>7. Looped(objects, N, f)
    BY <2>3, <2>5, <2>6 DEF Looped
  <2> QED BY <2>7
<1>2. Is(g)
  <2>1. \A k \in 0..N : g[k] = Step(g, k)
    <3>1. g[0] = Step(g, 0)
      BY <1>1 DEF Looped
    <3>2. ASSUME NEW k \in 1..N
          PROVE  g[k] = Step(g, k)
      BY <1>1, <3>2 DEF Looped, Pass
    <3> HIDE DEF Step
    <3> QED BY <1>0, <3>1, <3>2
  <2>2. g = [k \in 0..N |-> g[k]]
    BY <1>1 DEF Looped
  <2> QED BY <2>1, <2>2
<1>3. Is(local)
  BY <1>2, Zenon
<1>4. ParsedPeriods(objects) = local[N]
  BY DEF ParsedPeriods
<1>5. /\ \A k \in 0..N : local[k] = Step(local, k)
      /\ local = [k \in 0..N |-> local[k]]
  <2> HIDE DEF local
  <2> QED BY <1>3
<1> HIDE DEF local
<1>6. local[0] = <<>> /\ \A n \in 1..N : local[n] = Pass(local[n - 1], objects[n])
  BY <1>0, <1>5 DEF Pass
<1>7. \A n \in 0..N : local[n] \in Stored
  <2>1. local[0] \in Stored
    BY <1>0, <1>1, <1>6 DEF Looped
  <2>2. \A n \in 1..N : local[n - 1] \in Stored => local[n] \in Stored
    BY <1>0, <1>6, PassType
  <2> QED BY <1>0, <2>1, <2>2, StaysInside
<1> QED BY <1>4, <1>5, <1>6, <1>7 DEF Looped

\* A full array stays as it is.
LEMMA LoopStays ==
    ASSUME NEW objects, NEW N \in Nat, NEW g, Looped(objects, N, g),
           NEW m \in 0..N, Len(g[m]) >= MAX_PERIODS
    PROVE  g[N] = g[m]
<1> DEFINE T == {n \in 0..N : n >= m => g[n] = g[m]}
<1>1. 0 \in T
  OBVIOUS
<1>2. ASSUME NEW n \in 0..(N - 1), n \in T
      PROVE  n + 1 \in T
  <2>1. n + 1 \in 1..N /\ (n + 1) - 1 = n /\ n + 1 \in 0..N
    OBVIOUS
  <2>2. CASE n >= m
    <3>1. g[n] = g[m] /\ g[n + 1] = Pass(g[n], objects[n + 1])
      BY <1>2, <2>1, <2>2 DEF Looped
    <3>2. MAX_PERIODS \in Nat /\ g[m] \in Stored
      BY DEF MAX_PERIODS, Looped
    <3>3. Len(g[m]) \in Nat
      BY <3>2, LenProperties DEF Stored
    <3>4. ~(Len(g[m]) < MAX_PERIODS)
      BY <3>2, <3>3
    <3>5. g[n + 1] = g[m]
      BY <3>1, <3>4 DEF Pass
    <3> QED BY <2>1, <3>5
  <2>3. CASE ~(n >= m)
    <3>1. n + 1 >= m => n + 1 = m
      BY <2>3
    <3> QED BY <2>1, <3>1
  <2> QED BY <2>2, <2>3
<1> HIDE DEF T
<1>3. \A n \in 0..N : n \in T
  BY <1>1, <1>2, UpTo
<1>4. N \in T
  BY <1>3
<1> QED BY <1>4 DEF T

\* A plan that is stored is never longer than the array it is stored in.
LEMMA ParsedPeriodsType ==
    ASSUME NEW objects \in Seq(PeriodObject)
    PROVE  ParsedPeriods(objects) \in Stored
<1>1. Len(objects) \in Nat
  BY LenProperties
<1> QED BY <1>1, LoopFinds DEF Looped
=============================================================================
