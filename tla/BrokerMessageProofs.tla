-------------------------- MODULE BrokerMessageProofs --------------------------
(***************************************************************************)
(* Proofs about the messages the broker keeps, for every number of         *)
(* contexts and nodes and for every setting of its limits: the order in    *)
(* which a client is sent what was published of a topic, the reference     *)
(* counts of the message store, and what a node shows once nothing is on   *)
(* its way to it.                                                          *)
(***************************************************************************)
EXTENDS BrokerProofs

-----------------------------------------------------------------------------
(* The order of the messages to a client *)

\* The messages of a list, those of it that still have to be sent
Msgs(q) == {q[i].msg : i \in 1..Len(q)}
UnsentMsgs(q) == {q[i].msg : i \in {j \in 1..Len(q) : q[j].state # "wait"}}

\* What is published of one topic is in order: between two sets of messages
\* and within a list. p is what has been published.
Ahead(p, A, B) == \A a \in A, b \in B : p[a] = p[b] => a <= b
Sorted(p, q) ==
    \A i, j \in 1..Len(q) : i < j /\ p[q[i].msg] = p[q[j].msg] => q[i].msg <= q[j].msg

\* What is to be sent comes last, and is a retained copy.
Behind(q) == \A i, j \in 1..Len(q) : i < j /\ q[i].state = "publish" => q[j].state = "publish"
Copies(q) == \A i \in 1..Len(q) : q[i].state = "publish" => q[i].retain
Underway(q) == \A i \in 1..Len(q) : q[i].state # "queued"
Flushed(q) == \A i \in 1..Len(q) : q[i].state = "wait"

\* The messages of a list that has got one more item
LEMMA AppendMsgs ==
    ASSUME NEW S, NEW q \in Seq(S), NEW x \in S
    PROVE  /\ Msgs(Append(q, x)) = Msgs(q) \cup {x.msg}
           /\ UnsentMsgs(Append(q, x)) \subseteq UnsentMsgs(q) \cup {x.msg}
           /\ x.state = "wait" => UnsentMsgs(Append(q, x)) \subseteq UnsentMsgs(q)
<1> DEFINE N == Len(q)
           r == Append(q, x)
<1>1. /\ N \in Nat /\ Len(r) = N + 1 /\ r[N + 1] = x
      /\ \A i \in 1..N : r[i] = q[i]
  BY LenProperties, AppendProperties
<1> HIDE DEF r, N
<1>2. 1..Len(r) = (1..N) \cup {N + 1}
  BY <1>1
<1>3. Msgs(r) = Msgs(q) \cup {x.msg}
  BY <1>1, <1>2 DEF Msgs, N
<1>4. UnsentMsgs(r) \subseteq UnsentMsgs(q) \cup {x.msg}
  BY <1>1, <1>2 DEF UnsentMsgs, N
<1>5. x.state = "wait" => UnsentMsgs(r) \subseteq UnsentMsgs(q)
  BY <1>1, <1>2 DEF UnsentMsgs, N
<1> QED BY <1>3, <1>4, <1>5 DEF r

\* A list stays in order when what is appended is not behind anything of it.
LEMMA AppendSorted ==
    ASSUME NEW S, NEW q \in Seq(S), NEW x \in S, NEW p,
           Sorted(p, q), Ahead(p, Msgs(q), {x.msg})
    PROVE  Sorted(p, Append(q, x))
<1> DEFINE N == Len(q)
           r == Append(q, x)
<1>1. /\ N \in Nat /\ Len(r) = N + 1 /\ r[N + 1] = x
      /\ \A i \in 1..N : r[i] = q[i]
  BY LenProperties, AppendProperties
<1> HIDE DEF r, N
<1>2. \A i \in 1..N : p[q[i].msg] = p[x.msg] => q[i].msg <= x.msg
  BY DEF Ahead, Msgs, N
<1>3. ASSUME NEW i \in 1..Len(r), NEW j \in 1..Len(r), i < j, p[r[i].msg] = p[r[j].msg]
      PROVE  r[i].msg <= r[j].msg
  <2>1. i \in 1..N
    BY <1>1, <1>3
  <2>2. CASE j \in 1..N
    BY <1>1, <1>3, <2>1, <2>2 DEF Sorted, N
  <2>3. CASE j = N + 1
    BY <1>1, <1>2, <1>3, <2>1, <2>3
  <2> QED BY <1>1, <2>2, <2>3
<1> QED BY <1>3 DEF Sorted, r

\* The empty list is in order whatever one asks of it.
LEMMA EmptyList ==
    /\ Msgs(<<>>) = {} /\ UnsentMsgs(<<>>) = {}
    /\ \A p : Sorted(p, <<>>)
    /\ Behind(<<>>) /\ Copies(<<>>) /\ Underway(<<>>) /\ Flushed(<<>>)
  BY DEF Msgs, UnsentMsgs, Sorted, Behind, Copies, Underway, Flushed

\* A list of which all has been sent has nothing to send.
LEMMA FlushedFacts ==
    ASSUME NEW q, Flushed(q)
    PROVE  UnsentMsgs(q) = {} /\ Behind(q) /\ Copies(q) /\ Underway(q)
<1>1. \A i \in 1..Len(q) : q[i].state = "wait"
  BY DEF Flushed
<1>2. UnsentMsgs(q) = {}
  BY <1>1 DEF UnsentMsgs
<1>3. Behind(q) /\ Copies(q) /\ Underway(q)
  BY <1>1 DEF Behind, Copies, Underway
<1> QED BY <1>2, <1>3

\* r is q without some of its elements, whose states may have changed.
Thinned(q, r, f) ==
    /\ f \in [1..Len(r) -> 1..Len(q)]
    /\ \A i, j \in 1..Len(r) : i < j => f[i] < f[j]
    /\ \A i \in 1..Len(r) : r[i].msg = q[f[i]].msg

\* A list stays in order when items of it are taken out.
LEMMA ThinnedSorted ==
    ASSUME NEW q, NEW r, NEW f, Thinned(q, r, f)
    PROVE  Msgs(r) \subseteq Msgs(q) /\ \A p : Sorted(p, q) => Sorted(p, r)
<1>1. Msgs(r) \subseteq Msgs(q)
  BY DEF Msgs, Thinned
<1>2. ASSUME NEW p, Sorted(p, q) PROVE Sorted(p, r)
  <2> SUFFICES ASSUME NEW i \in 1..Len(r), NEW j \in 1..Len(r), i < j,
                      p[r[i].msg] = p[r[j].msg]
               PROVE  r[i].msg <= r[j].msg
    BY DEF Sorted
  <2>1. f[i] \in 1..Len(q) /\ f[j] \in 1..Len(q) /\ f[i] < f[j]
    BY DEF Thinned
  <2>2. r[i].msg = q[f[i]].msg /\ r[j].msg = q[f[j]].msg
    BY DEF Thinned
  <2> QED BY <1>2, <2>1, <2>2 DEF Sorted
<1> QED BY <1>1, <1>2

\* What is said of the states of a list holds of one with items taken out.
LEMMA ThinnedStates ==
    ASSUME NEW q, NEW r, NEW f, Thinned(q, r, f), \A i \in 1..Len(r) : r[i] = q[f[i]]
    PROVE  /\ UnsentMsgs(r) \subseteq UnsentMsgs(q)
           /\ Behind(q) => Behind(r)
           /\ Copies(q) => Copies(r)
           /\ Underway(q) => Underway(r)
<1>1. UnsentMsgs(r) \subseteq UnsentMsgs(q)
  BY DEF UnsentMsgs, Thinned
<1>2. Copies(q) => Copies(r)
  BY DEF Copies, Thinned
<1>3. Behind(q) => Behind(r)
  BY DEF Behind, Thinned
<1>4. Underway(q) => Underway(r)
  BY DEF Underway, Thinned
<1> QED BY <1>1, <1>2, <1>3, <1>4

\* Its tail is a list with an item taken out.
LEMMA TailThinned ==
    ASSUME NEW S, NEW q \in Seq(S), q # <<>>
    PROVE  /\ Head(q) = q[1] /\ 1 \in 1..Len(q)
           /\ \E f : Thinned(q, Tail(q), f) /\ \A i \in 1..Len(Tail(q)) : Tail(q)[i] = q[f[i]]
<1> DEFINE N == Len(q)
           f == [i \in 1..Len(Tail(q)) |-> i + 1]
<1>1. N \in Nat /\ N # 0 /\ Len(Tail(q)) = N - 1 /\ Head(q) = q[1]
      /\ \A i \in 1..(N - 1) : Tail(q)[i] = q[i + 1]
  BY LenProperties, EmptySeq, HeadTailProperties
<1>2. Thinned(q, Tail(q), f)
  BY <1>1 DEF Thinned
<1>3. \A i \in 1..Len(Tail(q)) : Tail(q)[i] = q[f[i]]
  BY <1>1
<1> QED BY <1>1, <1>2, <1>3

\* So is what is left when the k-th item is removed.
LEMMA RemovedThinned ==
    ASSUME NEW S, NEW q \in Seq(S), NEW k \in 1..Len(q)
    PROVE  \E f : /\ Thinned(q, RemoveAt(q, k), f)
                  /\ \A i \in 1..Len(RemoveAt(q, k)) : RemoveAt(q, k)[i] = q[f[i]]
<1> DEFINE N == Len(q)
           a == SubSeq(q, 1, k - 1)
           b == SubSeq(q, k + 1, N)
           r == RemoveAt(q, k)
           f == [i \in 1..Len(r) |-> IF i < k THEN i ELSE i + 1]
<1>1. N \in Nat /\ k \in Nat /\ k >= 1 /\ k <= N
  BY LenProperties
<1>2. /\ a \in Seq(S) /\ Len(a) = k - 1 /\ \A i \in 1..(k - 1) : a[i] = q[i]
  <2>1. \A i \in 1..(k - 1) : q[i] \in S
    BY <1>1, ElementOfSeq
  <2> QED BY <1>1, <2>1, SubSeqProperties
<1>3. /\ b \in Seq(S) /\ Len(b) = N - k /\ \A i \in 1..(N - k) : b[i] = q[k + i]
  <2>1. \A i \in (k + 1)..N : q[i] \in S
    BY <1>1, ElementOfSeq
  <2>2. b \in Seq(S) /\ Len(b) = IF k + 1 <= N THEN N - (k + 1) + 1 ELSE 0
    BY <1>1, <2>1, SubSeqProperties
  <2>3. Len(b) = N - k
    BY <1>1, <2>2
  <2>4. \A i \in 1..(N - (k + 1) + 1) : b[i] = q[(k + 1) + i - 1]
    BY <1>1, <2>1, SubSeqProperties
  <2> QED BY <1>1, <2>2, <2>3, <2>4
<1>4. r = a \o b
  BY DEF RemoveAt
<1> HIDE DEF a, b
<1>5. /\ Len(r) = N - 1
      /\ \A i \in 1..(N - 1) : r[i] = IF i <= k - 1 THEN a[i] ELSE b[i - (k - 1)]
  <2>1. /\ Len(a \o b) = Len(a) + Len(b)
        /\ \A i \in 1..(Len(a) + Len(b)) :
             (a \o b)[i] = IF i <= Len(a) THEN a[i] ELSE b[i - Len(a)]
    BY <1>2, <1>3, ConcatProperties
  <2>2. Len(a) = k - 1 /\ Len(a) + Len(b) = N - 1
    BY <1>1, <1>2, <1>3
  <2> QED BY <1>4, <2>1, <2>2
<1> HIDE DEF r
<1>6. \A i \in 1..Len(r) : r[i] = q[f[i]] /\ f[i] \in 1..N
  <2> SUFFICES ASSUME NEW i \in 1..Len(r) PROVE r[i] = q[f[i]] /\ f[i] \in 1..N
    OBVIOUS
  <2>1. CASE i < k
    BY <1>1, <1>2, <1>5, <2>1
  <2>2. CASE ~(i < k)
    <3>1. i - (k - 1) \in 1..(N - k) /\ k + (i - (k - 1)) = i + 1
      BY <1>1, <1>5, <2>2
    <3>2. r[i] = q[i + 1]
      BY <1>1, <1>3, <1>5, <2>2, <3>1
    <3> QED BY <1>1, <1>5, <2>2, <3>2
  <2> QED BY <2>1, <2>2
<1>7. Thinned(q, r, f)
  <2>1. \A i, j \in 1..Len(r) : i < j => f[i] < f[j]
    BY <1>1, <1>5
  <2>2. f \in [1..Len(r) -> 1..Len(q)]
    BY <1>6
  <2> QED BY <1>6, <2>1, <2>2 DEF Thinned
<1> QED BY <1>6, <1>7 DEF r

\* One list behind another, ahead of which it is
LEMMA ConcatLined ==
    ASSUME NEW S, NEW a \in Seq(S), NEW b \in Seq(S)
    PROVE  /\ Msgs(a \o b) = Msgs(a) \cup Msgs(b)
           /\ UnsentMsgs(a \o b) \subseteq UnsentMsgs(a) \cup Msgs(b)
           /\ \A p : Sorted(p, a) /\ Sorted(p, b) /\ Ahead(p, Msgs(a), Msgs(b))
                      => Sorted(p, a \o b)
           /\ Behind(a) /\ (\A i \in 1..Len(b) : b[i].state = "publish") => Behind(a \o b)
           /\ Underway(a) /\ (\A i \in 1..Len(b) : b[i].state = "publish") => Underway(a \o b)
<1> DEFINE A == Len(a)
           B == Len(b)
           r == a \o b
<1>1. A \in Nat /\ B \in Nat /\ Len(r) = A + B
  BY LenProperties, ConcatProperties
<1>2. \A i \in 1..(A + B) : r[i] = IF i <= A THEN a[i] ELSE b[i - A]
  BY ConcatProperties
<1> HIDE DEF r, A, B
<1>3. \A i \in 1..A : i \in 1..Len(r) /\ r[i] = a[i]
  BY <1>1, <1>2
<1>4. \A j \in 1..B : A + j \in 1..Len(r) /\ r[A + j] = b[j]
  <2> SUFFICES ASSUME NEW j \in 1..B PROVE A + j \in 1..Len(r) /\ r[A + j] = b[j]
    OBVIOUS
  <2>1. A + j \in 1..(A + B) /\ ~(A + j <= A) /\ (A + j) - A = j
    BY <1>1
  <2> QED BY <1>1, <1>2, <2>1
<1>5. \A i \in 1..Len(r) : \/ i \in 1..A /\ r[i] = a[i]
                           \/ i > A /\ i - A \in 1..B /\ r[i] = b[i - A]
  BY <1>1, <1>2
<1>6. Msgs(r) = Msgs(a) \cup Msgs(b)
  <2>1. Msgs(r) \subseteq Msgs(a) \cup Msgs(b)
    BY <1>5 DEF Msgs, A, B
  <2>2. Msgs(a) \subseteq Msgs(r)
    BY <1>3 DEF Msgs, A
  <2>3. Msgs(b) \subseteq Msgs(r)
    BY <1>4 DEF Msgs, B
  <2> QED BY <2>1, <2>2, <2>3
<1>7. UnsentMsgs(r) \subseteq UnsentMsgs(a) \cup Msgs(b)
  BY <1>5 DEF UnsentMsgs, Msgs, A, B
<1>8. ASSUME NEW p, Sorted(p, a), Sorted(p, b), Ahead(p, Msgs(a), Msgs(b)) PROVE Sorted(p, r)
  <2> SUFFICES ASSUME NEW i \in 1..Len(r), NEW j \in 1..Len(r), i < j,
                      p[r[i].msg] = p[r[j].msg]
               PROVE  r[i].msg <= r[j].msg
    BY DEF Sorted
  <2>1. CASE i \in 1..A /\ r[i] = a[i] /\ j \in 1..A /\ r[j] = a[j]
    BY <1>8, <2>1 DEF Sorted, A
  <2>2. CASE i \in 1..A /\ r[i] = a[i] /\ j - A \in 1..B /\ r[j] = b[j - A]
    <3>1. a[i].msg \in Msgs(a) /\ b[j - A].msg \in Msgs(b)
      BY <2>2 DEF Msgs, A, B
    <3> QED BY <1>8, <2>2, <3>1 DEF Ahead
  <2>3. CASE i > A /\ i - A \in 1..B /\ r[i] = b[i - A] /\ j - A \in 1..B /\ r[j] = b[j - A]
    <3>1. i - A < j - A
      BY <1>1
    <3> QED BY <1>8, <2>3, <3>1 DEF Sorted, B
  <2>4. i > A => j > A
    BY <1>1
  <2>5. i \in 1..A => ~(i > A)
    BY <1>1
  <2>6. j \in 1..A => ~(j > A)
    BY <1>1
  <2> QED BY <1>5, <2>1, <2>2, <2>3, <2>4, <2>5, <2>6
<1>9. ASSUME Behind(a), \A i \in 1..Len(b) : b[i].state = "publish" PROVE Behind(r)
  <2> SUFFICES ASSUME NEW i \in 1..Len(r), NEW j \in 1..Len(r), i < j, r[i].state = "publish"
               PROVE  r[j].state = "publish"
    BY DEF Behind
  <2>1. CASE j \in 1..A
    <3>1. i \in 1..A
      BY <1>1, <2>1
    <3> QED BY <1>3, <1>9, <2>1, <3>1 DEF Behind, A
  <2>2. CASE j - A \in 1..B /\ r[j] = b[j - A]
    BY <1>9, <2>2 DEF B
  <2> QED BY <1>5, <2>1, <2>2
<1>10. Underway(a) /\ (\A i \in 1..Len(b) : b[i].state = "publish") => Underway(r)
  BY <1>5 DEF Underway, A, B
<1> QED BY <1>6, <1>7, <1>8, <1>9, <1>10 DEF r

\* The first n of a list, sent again, and what is left of it
LEMMA SplitLined ==
    ASSUME NEW q \in Seq(Item), NEW n \in 0..Len(q)
    PROVE  /\ Resent(q, n) \in Seq(Item) /\ Len(Resent(q, n)) = n
           /\ \A i \in 1..n : Resent(q, n)[i].state = "publish"
           /\ Msgs(Resent(q, n)) \subseteq Msgs(q)
           /\ SubSeq(q, n + 1, Len(q)) \in Seq(Item)
           /\ Msgs(SubSeq(q, n + 1, Len(q))) \subseteq Msgs(q)
           /\ \A p : Sorted(p, q) => /\ Sorted(p, Resent(q, n))
                                     /\ Sorted(p, SubSeq(q, n + 1, Len(q)))
                                     /\ Ahead(p, Msgs(Resent(q, n)),
                                                 Msgs(SubSeq(q, n + 1, Len(q))))
<1> DEFINE N == Len(q)
           r == Resent(q, n)
           b == SubSeq(q, n + 1, N)
           f == [i \in 1..n |-> i]
           g == [i \in 1..(N - n) |-> n + i]
<1>1. N \in Nat /\ n \in Nat /\ n <= N /\ \A i \in 1..N : q[i] \in Item
  BY LenProperties, ElementOfSeq
<1>2. \A i \in 1..n : /\ r[i] \in Item /\ r[i].state = "publish" /\ r[i].msg = q[i].msg
  <2> SUFFICES ASSUME NEW i \in 1..n
               PROVE  r[i] \in Item /\ r[i].state = "publish" /\ r[i].msg = q[i].msg
    OBVIOUS
  <2>1. r[i] = [q[i] EXCEPT !.state = "publish"] /\ q[i] \in Item
    BY <1>1 DEF Resent
  <2>2. /\ [q[i] EXCEPT !.state = "publish"] \in Item
        /\ [q[i] EXCEPT !.state = "publish"].state = "publish"
        /\ [q[i] EXCEPT !.state = "publish"].msg = q[i].msg
    BY <2>1, ItemFacts DEF Item
  <2> QED BY <2>1, <2>2
<1>3. r = [i \in 1..n |-> r[i]]
  BY DEF Resent
<1> HIDE DEF r
<1>4. r \in Seq(Item) /\ Len(r) = n
  <2>1. r \in [1..n -> Item]
    BY <1>2, <1>3
  <2> QED BY <1>1, <2>1, SeqDef, LenProperties
<1>5. b \in Seq(Item) /\ Len(b) = N - n /\ \A i \in 1..(N - n) : b[i] = q[n + i]
  <2>1. \A i \in (n + 1)..N : q[i] \in Item
    BY <1>1
  <2>2. b \in Seq(Item) /\ Len(b) = IF n + 1 <= N THEN N - (n + 1) + 1 ELSE 0
    BY <1>1, <2>1, SubSeqProperties
  <2>3. Len(b) = N - n
    BY <1>1, <2>2
  <2>4. \A i \in 1..(N - (n + 1) + 1) : b[i] = q[(n + 1) + i - 1]
    BY <1>1, <2>1, SubSeqProperties
  <2>5. \A i \in 1..(N - n) : i \in 1..(N - (n + 1) + 1) /\ (n + 1) + i - 1 = n + i
    BY <1>1
  <2> QED BY <2>2, <2>3, <2>4, <2>5
<1> HIDE DEF b
<1>6. Thinned(q, r, f)
  BY <1>1, <1>2, <1>4 DEF Thinned
<1>7. Thinned(q, b, g)
  BY <1>1, <1>5 DEF Thinned
<1>8. ASSUME NEW p, Sorted(p, q) PROVE Ahead(p, Msgs(r), Msgs(b))
  <2>1. ASSUME NEW i \in 1..n, NEW j \in 1..(N - n), p[q[i].msg] = p[q[n + j].msg]
        PROVE  q[i].msg <= q[n + j].msg
    <3>1. i \in 1..N /\ n + j \in 1..N /\ i < n + j
      BY <1>1
    <3> QED BY <1>8, <2>1, <3>1 DEF Sorted, N
  <2>2. ASSUME NEW x \in Msgs(r), NEW y \in Msgs(b), p[x] = p[y] PROVE x <= y
    <3>1. PICK i \in 1..n : x = q[i].msg
      BY <1>2, <1>4 DEF Msgs
    <3>2. PICK j \in 1..(N - n) : y = q[n + j].msg
      BY <1>5 DEF Msgs
    <3> QED BY <2>1, <2>2, <3>1, <3>2
  <2> QED BY <2>2 DEF Ahead
<1>9. /\ Msgs(r) \subseteq Msgs(q) /\ Msgs(b) \subseteq Msgs(q)
      /\ \A p : Sorted(p, q) => Sorted(p, r) /\ Sorted(p, b)
  <2> HIDE DEF f, g
  <2> QED BY <1>6, <1>7, ThinnedSorted
<1> QED BY <1>2, <1>4, <1>5, <1>8, <1>9 DEF r, b

\* The messages of a context are in line: what is on its way, in flight and
\* queued, p being what has been published.
InLine(p, c) ==
    /\ Msgs(c.inflight) \cup Msgs(c.queued) \cup Msgs(c.out) \subseteq 1..Len(p)
    /\ Sorted(p, c.inflight) /\ Sorted(p, c.queued) /\ Sorted(p, c.out)
    /\ Ahead(p, Msgs(c.inflight), Msgs(c.queued))
    /\ Ahead(p, Msgs(c.out), UnsentMsgs(c.inflight) \cup Msgs(c.queued))
    /\ Underway(c.inflight)

\* What is ahead stays so with less on both sides.
LEMMA AheadLess ==
    ASSUME NEW p, NEW A, NEW B, Ahead(p, A, B), NEW C, NEW D, C \subseteq A, D \subseteq B
    PROVE  Ahead(p, C, D)
  BY DEF Ahead

\* What is ahead of two sets, and two sets ahead of one
LEMMA AheadBoth ==
    ASSUME NEW p, NEW A, NEW B, NEW C
    PROVE  /\ Ahead(p, A, B) /\ Ahead(p, A, C) => Ahead(p, A, B \cup C)
           /\ Ahead(p, A, C) /\ Ahead(p, B, C) => Ahead(p, A \cup B, C)
           /\ Ahead(p, {}, A) /\ Ahead(p, A, {})
  BY DEF Ahead

\* The queue moves on, as far as the quota lets it.
LEMMA QueueLined ==
    ASSUME NEW p, NEW c \in Context, InLine(p, c)
    PROVE  LET e == db__message_write_queued_out(c) IN
           /\ InLine(p, e) /\ e.out = c.out
           /\ Behind(c.inflight) => Behind(e.inflight)
           /\ c.queued = <<>> => e.queued = <<>>
<1> DEFINE n == Min({c.quota, Len(c.queued)})
           moved == Resent(c.queued, n)
           rest == SubSeq(c.queued, n + 1, Len(c.queued))
           e == db__message_write_queued_out(c)
<1>1. /\ c.quota \in Nat /\ Len(c.queued) \in Nat
      /\ c.queued \in Seq(Item) /\ c.inflight \in Seq(Item)
  BY LenProperties, BrokerAssumption DEF Context
<1>2. n \in 0..Len(c.queued)
  BY <1>1, MinOfTwo
<1>3. e.inflight = c.inflight \o moved /\ e.queued = rest /\ e.out = c.out
  BY DEF db__message_write_queued_out, Context, Resent
<1> HIDE DEF n, e
<1>4. /\ moved \in Seq(Item) /\ \A i \in 1..Len(moved) : moved[i].state = "publish"
      /\ Msgs(moved) \subseteq Msgs(c.queued) /\ Msgs(rest) \subseteq Msgs(c.queued)
      /\ Sorted(p, moved) /\ Sorted(p, rest) /\ Ahead(p, Msgs(moved), Msgs(rest))
  BY <1>1, <1>2, SplitLined DEF InLine
<1> HIDE DEF moved
<1>5. c.queued = <<>> => rest = <<>>
  <2> SUFFICES ASSUME c.queued = <<>> PROVE rest = <<>>
    OBVIOUS
  <2>1. Len(c.queued) = 0
    BY <1>1, EmptySeq
  <2>2. n = 0
    BY <1>2, <2>1
  <2> QED BY <1>1, <2>1, <2>2, SubSeqEmpty
<1> HIDE DEF rest
<1>6. /\ Sorted(p, c.inflight) /\ Sorted(p, c.out) /\ Underway(c.inflight)
      /\ Ahead(p, Msgs(c.inflight), Msgs(c.queued))
      /\ Ahead(p, Msgs(c.out), UnsentMsgs(c.inflight) \cup Msgs(c.queued))
  BY DEF InLine
<1>7. Ahead(p, Msgs(c.inflight), Msgs(moved)) /\ Ahead(p, Msgs(c.inflight), Msgs(rest))
  BY <1>4, <1>6, AheadLess
<1>8. /\ Msgs(e.inflight) = Msgs(c.inflight) \cup Msgs(moved)
      /\ UnsentMsgs(e.inflight) \subseteq UnsentMsgs(c.inflight) \cup Msgs(moved)
      /\ Sorted(p, e.inflight)
      /\ Behind(c.inflight) => Behind(e.inflight)
      /\ Underway(e.inflight)
  BY <1>1, <1>3, <1>4, <1>6, <1>7, ConcatLined
<1>9. Ahead(p, Msgs(e.inflight), Msgs(e.queued))
  <2>1. Ahead(p, Msgs(c.inflight) \cup Msgs(moved), Msgs(rest))
    BY <1>4, <1>7, AheadBoth
  <2> QED BY <1>3, <1>8, <2>1
<1>10. Ahead(p, Msgs(e.out), UnsentMsgs(e.inflight) \cup Msgs(e.queued))
  <2>1. UnsentMsgs(e.inflight) \cup Msgs(e.queued)
          \subseteq UnsentMsgs(c.inflight) \cup Msgs(c.queued)
    BY <1>3, <1>4, <1>8
  <2> QED BY <1>3, <1>6, <2>1, AheadLess
<1>11. Msgs(e.inflight) \cup Msgs(e.queued) \cup Msgs(e.out) \subseteq 1..Len(p)
  BY <1>3, <1>4, <1>8 DEF InLine
<1>12. InLine(p, e)
  BY <1>3, <1>4, <1>8, <1>9, <1>10, <1>11 DEF InLine
<1> QED BY <1>3, <1>5, <1>8, <1>12 DEF e

\* Without quota for it the queue does not move.
LEMMA QueueStays ==
    ASSUME NEW c \in Context, c.queued # <<>> => c.quota = 0
    PROVE  LET e == db__message_write_queued_out(c) IN
           e.inflight = c.inflight /\ e.queued = c.queued /\ e.out = c.out
<1> DEFINE n == Min({c.quota, Len(c.queued)})
           moved == Resent(c.queued, n)
           e == db__message_write_queued_out(c)
<1>1. /\ c.quota \in Nat /\ Len(c.queued) \in Nat
      /\ c.queued \in Seq(Item) /\ c.inflight \in Seq(Item)
  BY LenProperties, BrokerAssumption DEF Context
<1>2. n = 0
  <2>1. n \in {c.quota, Len(c.queued)} /\ n <= c.quota /\ n <= Len(c.queued) /\ n \in Nat
    BY <1>1, MinOfTwo
  <2>2. c.queued = <<>> => Len(c.queued) = 0
    BY <1>1, EmptySeq
  <2> HIDE DEF n
  <2> QED BY <1>1, <2>1, <2>2
<1>3. /\ e.inflight = c.inflight \o moved /\ e.out = c.out
      /\ e.queued = SubSeq(c.queued, n + 1, Len(c.queued))
  BY DEF db__message_write_queued_out, Context, Resent
<1> HIDE DEF n, e
<1>4. moved = <<>>
  <2>1. moved \in Seq(Item) /\ Len(moved) = 0
    BY <1>1, <1>2, SplitLined
  <2> HIDE DEF moved
  <2> QED BY <2>1, EmptySeq
<1> HIDE DEF moved
<1>5. e.inflight = c.inflight
  BY <1>1, <1>3, <1>4, ConcatEmptySeq
<1>6. e.queued = c.queued
  BY <1>1, <1>2, <1>3, SubSeqFull
<1> QED BY <1>3, <1>5, <1>6 DEF e

\* The first k items in flight of c have been looked at: e is what has
\* become of c. Those that were to be sent are on their way.
First(q, k) == {q[i].msg : i \in 1..k}
FirstUnsent(q, k) == {q[i].msg : i \in {j \in 1..k : q[j].state # "wait"}}
Lined(p, c, k, e) ==
    /\ e \in Context /\ e.queued = c.queued
    /\ Sorted(p, e.inflight) /\ Flushed(e.inflight) /\ Sorted(p, e.out)
    /\ Msgs(e.inflight) \subseteq First(c.inflight, k)
    /\ Msgs(e.out) \subseteq Msgs(c.out) \cup FirstUnsent(c.inflight, k)

\* An item that has been sent joins a list of such.
LEMMA AppendFlushed ==
    ASSUME NEW S, NEW q \in Seq(S), NEW x \in S, Flushed(q), x.state = "wait"
    PROVE  Flushed(Append(q, x))
<1> DEFINE N == Len(q)
           r == Append(q, x)
<1>1. /\ N \in Nat /\ Len(r) = N + 1 /\ r[N + 1] = x
      /\ \A i \in 1..N : r[i] = q[i]
  BY LenProperties, AppendProperties
<1> HIDE DEF r, N
<1>2. ASSUME NEW i \in 1..Len(r) PROVE r[i].state = "wait"
  <2>1. i \in 1..N \/ i = N + 1
    BY <1>1
  <2> QED BY <1>1, <2>1 DEF Flushed, N
<1> QED BY <1>2 DEF Flushed, r

\* One more item is looked at; one to be sent is not passed over.
LEMMA PassedLined ==
    ASSUME NEW p, NEW c \in Context, InLine(p, c), NEW k \in Nat, k + 1 \in 1..Len(c.inflight),
           NEW e, Lined(p, c, k, e), NEW f, Passed(e, c.inflight[k + 1], f),
           c.inflight[k + 1].state = "publish" => f.out = Append(e.out, c.inflight[k + 1])
    PROVE  Lined(p, c, k + 1, f)
<1> DEFINE q == c.inflight
           x == q[k + 1]
           w == [x EXCEPT !.state = "wait"]
<1>1. /\ q \in Seq(Item) /\ e.inflight \in Seq(Item) /\ e.out \in Seq(Item)
      /\ e \in Context /\ f \in Context
  BY DEF Context, Lined, Passed
<1>2. /\ x \in Item /\ x.state \in {"publish", "wait"}
      /\ w \in Item /\ w.msg = x.msg /\ w.state = "wait"
  <2>1. x \in Item
    BY <1>1, ElementOfSeq
  <2>2. x.state # "queued"
    BY DEF InLine, Underway
  <2>3. x.state \in {"publish", "wait", "queued"} /\ w.msg = x.msg /\ w.state = "wait"
    BY <2>1 DEF Item
  <2> QED BY <2>1, <2>2, <2>3, ItemFacts
<1>3. /\ First(q, k + 1) = First(q, k) \cup {x.msg}
      /\ FirstUnsent(q, k) \subseteq FirstUnsent(q, k + 1)
      /\ x.state # "wait" => x.msg \in FirstUnsent(q, k + 1)
      /\ First(q, k) \subseteq First(q, k + 1)
  <2>1. 1..(k + 1) = (1..k) \cup {k + 1}
    OBVIOUS
  <2>2. First(q, k + 1) = First(q, k) \cup {x.msg}
    BY <2>1 DEF First
  <2>3. FirstUnsent(q, k) \subseteq FirstUnsent(q, k + 1)
    BY <2>1 DEF FirstUnsent
  <2>4. x.state # "wait" => x.msg \in FirstUnsent(q, k + 1)
    BY <2>1 DEF FirstUnsent
  <2> QED BY <2>2, <2>3, <2>4
\* It is no older than those before it, and than what was on its way.
<1>4. Ahead(p, Msgs(e.inflight), {x.msg})
  <2>1. Ahead(p, First(q, k), {x.msg})
    <3> SUFFICES ASSUME NEW i \in 1..k, p[q[i].msg] = p[x.msg] PROVE q[i].msg <= x.msg
      BY DEF Ahead, First
    <3>1. i \in 1..Len(q) /\ i < k + 1
      BY <1>1, LenProperties
    <3> QED BY <3>1 DEF InLine, Sorted
  <2> QED BY <2>1, AheadLess DEF Lined
<1>5. ASSUME x.state = "publish" PROVE Ahead(p, Msgs(e.out), {x.msg})
  <2>1. x.msg \in UnsentMsgs(q)
    BY <1>5 DEF UnsentMsgs
  <2>2. Ahead(p, Msgs(c.out), {x.msg})
    BY <2>1, AheadLess DEF InLine
  <2>3. Ahead(p, FirstUnsent(q, k), {x.msg})
    <3> SUFFICES ASSUME NEW i \in 1..k, p[q[i].msg] = p[x.msg] PROVE q[i].msg <= x.msg
      BY DEF Ahead, FirstUnsent
    <3>1. i \in 1..Len(q) /\ i < k + 1
      BY <1>1, LenProperties
    <3> QED BY <3>1 DEF InLine, Sorted
  <2>4. Ahead(p, Msgs(c.out) \cup FirstUnsent(q, k), {x.msg})
    BY <2>2, <2>3, AheadBoth
  <2> QED BY <2>4, AheadLess DEF Lined
<1> HIDE DEF w, x, q
<1>6. ASSUME x.state = "publish"
      PROVE  /\ Sorted(p, Append(e.out, x))
             /\ Msgs(Append(e.out, x)) \subseteq Msgs(c.out) \cup FirstUnsent(q, k + 1)
  <2>1. Sorted(p, Append(e.out, x))
    BY <1>1, <1>2, <1>5, <1>6, AppendSorted DEF Lined
  <2>2. Msgs(Append(e.out, x)) = Msgs(e.out) \cup {x.msg}
    BY <1>1, <1>2, AppendMsgs
  <2>3. x.msg \in FirstUnsent(q, k + 1)
    BY <1>3, <1>6
  <2>4. Msgs(e.out) \subseteq Msgs(c.out) \cup FirstUnsent(q, k)
    BY DEF Lined, q
  <2> QED BY <1>3, <2>1, <2>2, <2>3, <2>4
<1>7. ASSUME NEW y \in Item, y.state = "wait", y.msg = x.msg
      PROVE  /\ Sorted(p, Append(e.inflight, y)) /\ Flushed(Append(e.inflight, y))
             /\ Msgs(Append(e.inflight, y)) \subseteq First(q, k + 1)
  <2>1. Ahead(p, Msgs(e.inflight), {y.msg})
    BY <1>4, <1>7
  <2>2. Sorted(p, Append(e.inflight, y))
    BY <1>1, <2>1, AppendSorted DEF Lined
  <2>3. Flushed(Append(e.inflight, y))
    BY <1>1, <1>7, AppendFlushed DEF Lined
  <2>4. Msgs(Append(e.inflight, y)) = Msgs(e.inflight) \cup {y.msg}
    BY <1>1, AppendMsgs
  <2>5. Msgs(e.inflight) \subseteq First(q, k)
    BY DEF Lined, q
  <2> QED BY <1>3, <1>7, <2>2, <2>3, <2>4, <2>5
<1>8. /\ f.queued = c.queued
      /\ Sorted(p, e.inflight) /\ Flushed(e.inflight) /\ Sorted(p, e.out)
      /\ Msgs(e.inflight) \subseteq First(q, k + 1)
      /\ Msgs(e.out) \subseteq Msgs(c.out) \cup FirstUnsent(q, k + 1)
  <2>1. /\ f.queued = e.queued /\ e.queued = c.queued
        /\ Sorted(p, e.inflight) /\ Flushed(e.inflight) /\ Sorted(p, e.out)
        /\ Msgs(e.inflight) \subseteq First(q, k)
        /\ Msgs(e.out) \subseteq Msgs(c.out) \cup FirstUnsent(q, k)
    BY DEF Lined, Passed, q
  <2> QED BY <1>3, <2>1
<1>9. CASE f.inflight = Append(e.inflight, x) /\ f.out = e.out
  <2>1. x.state = "wait"
    <3> SUFFICES ASSUME x.state = "publish" PROVE FALSE
      BY <1>2
    <3>1. f.out = Append(e.out, x)
      BY DEF x, q
    <3>2. Len(f.out) = Len(e.out) + 1 /\ Len(e.out) \in Nat
      BY <1>1, <1>2, <3>1, AppendProperties, LenProperties
    <3> QED BY <1>9, <3>2
  <2>2. /\ Sorted(p, f.inflight) /\ Flushed(f.inflight)
        /\ Msgs(f.inflight) \subseteq First(q, k + 1)
    BY <1>2, <1>7, <1>9, <2>1
  <2> QED BY <1>1, <1>8, <1>9, <2>2 DEF Lined, q
<1>10. CASE x.state = "publish" /\ f.inflight = e.inflight /\ f.out = Append(e.out, x)
  BY <1>1, <1>6, <1>8, <1>10 DEF Lined, q
<1>11. CASE x.state = "publish" /\ f.inflight = Append(e.inflight, w) /\ f.out = Append(e.out, x)
  <2>1. /\ Sorted(p, f.inflight) /\ Flushed(f.inflight)
        /\ Msgs(f.inflight) \subseteq First(q, k + 1)
    BY <1>2, <1>7, <1>11
  <2> QED BY <1>1, <1>6, <1>8, <1>11, <2>1 DEF Lined, q
<1>12. \/ f.inflight = Append(e.inflight, x) /\ f.out = e.out
       \/ x.state = "publish" /\ f.inflight = e.inflight /\ f.out = Append(e.out, x)
       \/ x.state = "publish" /\ f.inflight = Append(e.inflight, w) /\ f.out = Append(e.out, x)
  BY DEF Passed, x, w, q
<1> QED BY <1>9, <1>10, <1>11, <1>12

\* All items are looked at, those to be sent from place i on are sent: when
\* there are none before, none is left.
SentBefore(q, i) == \A k \in 1..Len(q) : k < i => q[k].state # "publish"

\* What the loops of db__message_write_inflight_out_all and _latest leave in
\* flight has all been sent, in order, when what they skip had been sent before.
LEMMA WrittenLined ==
    ASSUME NEW p, NEW n, NEW d \in Databases(n), NEW s \in Slot, NEW i, Connected(d.ctx[s]),
           InLine(p, d.ctx[s]), SentBefore(d.ctx[s].inflight, i)
    PROVE  /\ InLine(p, WrittenFrom(d, s, i).ctx[s])
           /\ Flushed(WrittenFrom(d, s, i).ctx[s].inflight)
           /\ WrittenFrom(d, s, i).ctx[s].queued = d.ctx[s].queued
<1> DEFINE c == d.ctx[s]
           q == c.inflight
           N == Len(q)
<1>1. PICK w : /\ w \in [0..N -> Databases(n)] /\ Passes(d, s, i, w)
               /\ WrittenFrom(d, s, i) = w[N]
  BY LoopPasses
<1>2. c \in Context /\ q \in Seq(Item) /\ c.out \in Seq(Item) /\ N \in Nat
  BY LenProperties DEF Databases, Context
<1> DEFINE T == {k \in 0..N : Lined(p, c, k, w[k].ctx[s])}
<1>3. 0 \in T
  <2> DEFINE e == [c EXCEPT !.inflight = <<>>]
  <2>1. w[0].ctx[s] = e /\ e \in Context
    BY <1>1, EmptiedType DEF Passes
  <2>2. e.queued = c.queued /\ e.out = c.out /\ e.inflight = <<>>
    BY <1>2 DEF Context
  <2>3. Sorted(p, c.out)
    BY DEF InLine
  <2> HIDE DEF e, c, q
  <2>4. Lined(p, c, 0, e)
    BY <2>1, <2>2, <2>3, EmptyList DEF Lined
  <2> QED BY <1>2, <2>1, <2>4
<1>4. ASSUME NEW k \in 0..(N - 1), k \in T PROVE k + 1 \in T
  <2>1. k + 1 \in 1..N /\ k + 1 \in 0..N /\ (k + 1) - 1 = k /\ k \in 0..N /\ k \in Nat
    BY <1>2
  <2>2. w[k + 1] = Pass(w[k], s, i, k + 1, q[k + 1])
    BY <1>1, <2>1 DEF Passes
  <2>3. q[k + 1] \in Item /\ w[k] \in Databases(n)
    BY <1>1, <1>2, <2>1, ElementOfSeq
  <2>4. k + 1 < i => q[k + 1].state # "publish"
    BY <2>1 DEF SentBefore
  <2> HIDE DEF c, q, N
  <2>5. /\ Passed(w[k].ctx[s], q[k + 1], w[k + 1].ctx[s])
        /\ \/ k + 1 < i \/ q[k + 1].state # "publish"
           \/ w[k + 1].ctx[s].out = Append(w[k].ctx[s].out, q[k + 1])
    <3> DEFINE x == q[k + 1]
               before == w[k]
               r == Pass(before, s, i, k + 1, x)
    <3>1. x \in Item /\ before \in Databases(n) /\ w[k + 1] = r
      BY <2>2, <2>3
    <3> HIDE DEF x, before
    <3>2. /\ Passed(before.ctx[s], x, r.ctx[s])
          /\ k + 1 < i \/ x.state # "publish" \/ r.ctx[s].out = Append(before.ctx[s].out, x)
      BY <3>1, PassDoes
    <3> QED BY <3>1, <3>2 DEF x, before
  <2>6. q[k + 1].state = "publish" => w[k + 1].ctx[s].out = Append(w[k].ctx[s].out, q[k + 1])
    BY <2>4, <2>5
  <2>7. Lined(p, c, k, w[k].ctx[s])
    BY <1>4
  <2>8. Lined(p, c, k + 1, w[k + 1].ctx[s])
    BY <1>2, <2>1, <2>5, <2>6, <2>7, PassedLined DEF q, N, c
  <2> QED BY <2>1, <2>8
<1>5. N \in T
  <2> HIDE DEF T, N
  <2>1. \A k \in 0..N : k \in T
    BY <1>2, <1>3, <1>4, Numbers!UpTo
  <2> QED BY <1>2, <2>1
<1> DEFINE e == WrittenFrom(d, s, i).ctx[s]
<1>6. Lined(p, c, N, e)
  BY <1>1, <1>5
<1>7. First(q, N) = Msgs(q) /\ FirstUnsent(q, N) = UnsentMsgs(q)
  BY DEF First, FirstUnsent, Msgs, UnsentMsgs
<1> HIDE DEF e, N
<1>8. /\ Sorted(p, e.inflight) /\ Flushed(e.inflight) /\ Sorted(p, e.out)
      /\ Msgs(e.inflight) \subseteq Msgs(q) /\ Msgs(e.out) \subseteq Msgs(c.out) \cup UnsentMsgs(q)
      /\ e.queued = c.queued
  BY <1>6, <1>7 DEF Lined
<1>9. UnsentMsgs(e.inflight) = {} /\ Underway(e.inflight)
  BY <1>8, FlushedFacts
<1>10. UnsentMsgs(q) \subseteq Msgs(q)
  BY DEF UnsentMsgs, Msgs
<1> HIDE DEF q
<1>11. /\ Msgs(q) \cup Msgs(c.queued) \cup Msgs(c.out) \subseteq 1..Len(p)
       /\ Sorted(p, c.queued) /\ Ahead(p, Msgs(q), Msgs(c.queued))
       /\ Ahead(p, Msgs(c.out), UnsentMsgs(q) \cup Msgs(c.queued))
  BY DEF InLine, q
<1> HIDE DEF c
<1>12. Msgs(e.inflight) \cup Msgs(e.queued) \cup Msgs(e.out) \subseteq 1..Len(p)
  BY <1>8, <1>10, <1>11
<1>13. Ahead(p, Msgs(e.inflight), Msgs(e.queued))
  BY <1>8, <1>11, AheadLess
<1>14. Ahead(p, Msgs(e.out), UnsentMsgs(e.inflight) \cup Msgs(e.queued))
  <2>1. Ahead(p, Msgs(c.out), Msgs(c.queued))
    BY <1>11, AheadLess
  <2>2. Ahead(p, UnsentMsgs(q), Msgs(c.queued))
    BY <1>10, <1>11, AheadLess
  <2>3. Ahead(p, Msgs(c.out) \cup UnsentMsgs(q), Msgs(c.queued))
    BY <2>1, <2>2, AheadBoth
  <2>4. Ahead(p, Msgs(e.out), Msgs(c.queued))
    BY <1>8, <2>3, AheadLess
  <2> QED BY <1>8, <1>9, <2>4
<1>15. InLine(p, e)
  BY <1>8, <1>9, <1>11, <1>12, <1>13, <1>14 DEF InLine
<1> QED BY <1>8, <1>15 DEF e, c

\* A set of positions that is not empty has a last one.
LEMMA LargestExists ==
    ASSUME NEW N \in Nat, NEW A, A \subseteq 1..N, A # {}
    PROVE  Max(A) \in A
<1> DEFINE B == {N - x : x \in A}
<1>1. B \subseteq Nat /\ B # {}
  <2>1. \A x \in A : N - x \in Nat
    OBVIOUS
  <2> QED BY <2>1
<1>2. PICK b \in B : \A y \in B : b <= y
  <2> HIDE DEF B
  <2> QED BY <1>1, SmallestExists
<1>3. PICK m \in A : b = N - m
  BY <1>2
<1>4. \A x \in A : m >= x
  BY <1>2, <1>3
<1> QED BY <1>3, <1>4 DEF Max

\* On a list where what is to be sent comes last, the latest are all of it.
LEMMA LatestLined ==
    ASSUME NEW p, NEW n, NEW d \in Databases(n), NEW s \in Slot, Connected(d.ctx[s]),
           InLine(p, d.ctx[s]), Behind(d.ctx[s].inflight)
    PROVE  LET e == db__message_write_inflight_out_latest(d, s).ctx[s] IN
           InLine(p, e) /\ Flushed(e.inflight) /\ e.queued = d.ctx[s].queued
<1> DEFINE q == d.ctx[s].inflight
           waiting == {i \in 2..Len(q) : q[i].state # "publish"}
           i == IF waiting = {} THEN 1 ELSE Max(waiting) + 1
<1>1. db__message_write_inflight_out_latest(d, s) = WrittenFrom(d, s, i)
  BY DEF db__message_write_inflight_out_latest
<1>2. Len(q) \in Nat
  BY LenProperties DEF Databases, Context
<1>3. SentBefore(q, i)
  <2>1. CASE waiting = {}
    BY <2>1 DEF SentBefore
  <2>2. CASE waiting # {}
    <3>1. waiting \subseteq 1..Len(q)
      OBVIOUS
    <3>2. Max(waiting) \in waiting
      <4> HIDE DEF waiting
      <4> QED BY <1>2, <2>2, <3>1, LargestExists
    <3>3. i = Max(waiting) + 1
      BY <2>2
    <3> DEFINE m == Max(waiting)
    <3>4. m \in 1..Len(q) /\ q[m].state # "publish" /\ i = m + 1
      <4>1. \A j \in waiting : j \in 1..Len(q) /\ q[j].state # "publish"
        OBVIOUS
      <4> HIDE DEF waiting, i, q
      <4> QED BY <3>2, <3>3, <4>1
    <3> HIDE DEF waiting, i, m
    <3>5. ASSUME NEW k \in 1..Len(q), k < i PROVE q[k].state # "publish"
      <4>1. k < m \/ k = m
        BY <1>2, <3>4, <3>5
      <4> QED BY <3>4, <4>1 DEF Behind
    <3> QED BY <3>5 DEF SentBefore
  <2> QED BY <2>1, <2>2
<1> HIDE DEF i, waiting
<1>4. /\ InLine(p, WrittenFrom(d, s, i).ctx[s])
      /\ Flushed(WrittenFrom(d, s, i).ctx[s].inflight)
      /\ WrittenFrom(d, s, i).ctx[s].queued = d.ctx[s].queued
  BY <1>3, WrittenLined
<1> QED BY <1>1, <1>4

\* What is to be sent to a client that is there comes last, and is a retained
\* copy.
Lately(c) == c.state = "active" => Behind(c.inflight) /\ Copies(c.inflight)

\* A sound context has no quota for its queue: it stays where it is.
LEMMA UpdatedLined ==
    ASSUME NEW p, NEW n, NEW d \in Databases(n), NEW s \in Slot, InLine(p, d.ctx[s]),
           Sound(d.ctx[s]), d.ctx[s].state = "active" => Behind(d.ctx[s].inflight)
    PROVE  LET e == Updated(d, s).ctx[s] IN
           InLine(p, e) /\ Lately(e) /\ e.queued = d.ctx[s].queued
<1> DEFINE e == db__message_write_inflight_out_latest(d, s)
           c == e.ctx[s]
           f == [e EXCEPT !.ctx[s] = db__message_write_queued_out(@)]
           g == db__message_write_queued_out(c)
<1>1. /\ e \in Databases(n) /\ OnlyMessages(d, e, s) /\ Better(d.ctx[s], c)
  <2>1. e \in Databases(n) /\ OnlyMessages(d, e, s)
    BY LatestWritten
  <2>2. Better(d.ctx[s], c)
    BY LatestBetter
  <2> QED BY <2>1, <2>2
<1>2. Updated(d, s) = IF Connected(c) THEN f ELSE e
  BY DEF Updated
<1>3. c.state = d.ctx[s].state
  BY <1>1 DEF OnlyMessages, Session
<1>4. CASE d.ctx[s].state # "active"
  <2>1. e = d
    BY <1>4 DEF db__message_write_inflight_out_latest, WrittenFrom, Connected
  <2> HIDE DEF e
  <2> QED BY <1>2, <1>4, <2>1 DEF Connected, Lately
<1>5. CASE d.ctx[s].state = "active"
  <2>1. InLine(p, c) /\ Flushed(c.inflight) /\ c.queued = d.ctx[s].queued
    BY <1>5, LatestLined DEF Connected
  <2>2. c \in Context /\ f.ctx[s] = g
    <3> HIDE DEF e
    <3> QED BY <1>1 DEF Databases
  <2>3. c.queued # <<>> => c.quota = 0
    BY <1>1, <1>3, <1>5 DEF Better, Sound
  <2> HIDE DEF c, f, g
  <2>4. g.inflight = c.inflight /\ g.queued = c.queued /\ g.out = c.out
    BY <2>2, <2>3, QueueStays DEF g
  <2>5. InLine(p, g)
    BY <2>1, <2>4 DEF InLine
  <2>6. Lately(g)
    BY <2>1, <2>4, FlushedFacts DEF Lately
  <2>7. Updated(d, s).ctx[s] = g
    BY <1>2, <1>3, <1>5, <2>2 DEF Connected
  <2> QED BY <2>1, <2>4, <2>5, <2>6, <2>7
<1> QED BY <1>4, <1>5

-----------------------------------------------------------------------------
(* One more message for a client *)

\* Nothing newer of the topic of m has been published.
Newest(p, m) == m \in 1..Len(p) /\ \A k \in 1..Len(p) : p[k] = p[m] => k <= m

\* The newest publication of a topic may go behind any other.
LEMMA NewestAhead ==
    ASSUME NEW p, NEW m, Newest(p, m), NEW A \in SUBSET (1..Len(p))
    PROVE  Ahead(p, A, {m})
  BY DEF Newest, Ahead

\* One more item that is to be sent joins those at the end.
LEMMA AppendStates ==
    ASSUME NEW S, NEW q \in Seq(S), NEW x \in S, x.state = "publish"
    PROVE  /\ Behind(q) => Behind(Append(q, x))
           /\ Copies(q) /\ x.retain => Copies(Append(q, x))
           /\ Underway(q) => Underway(Append(q, x))
<1> DEFINE N == Len(q)
           r == Append(q, x)
<1>1. /\ N \in Nat /\ Len(r) = N + 1 /\ r[N + 1] = x
      /\ \A i \in 1..N : r[i] = q[i]
  BY LenProperties, AppendProperties
<1> HIDE DEF r, N
<1>2. \A i \in 1..Len(r) : i \in 1..N \/ i = N + 1
  BY <1>1
<1>3. Copies(q) /\ x.retain => Copies(r)
  BY <1>1, <1>2 DEF Copies, N
<1>4. Underway(q) => Underway(r)
  BY <1>1, <1>2 DEF Underway, N
<1>5. ASSUME Behind(q), NEW i \in 1..Len(r), NEW j \in 1..Len(r), i < j, r[i].state = "publish"
      PROVE  r[j].state = "publish"
  <2>1. CASE j = N + 1
    BY <1>1, <2>1
  <2>2. CASE j \in 1..N
    <3>1. i \in 1..N
      BY <1>1, <1>5, <2>2
    <3> QED BY <1>1, <1>5, <2>2, <3>1 DEF Behind, N
  <2> QED BY <1>2, <2>1, <2>2
<1> QED BY <1>3, <1>4, <1>5 DEF Behind, r

\* The newest message of a topic goes in flight when nothing waits in the
\* queue, otherwise to the end of the queue.
LEMMA GivenLined ==
    ASSUME NEW p, NEW c \in Context, InLine(p, c), NEW x \in Item,
           x.state \in {"publish", "queued"},
           Newest(p, x.msg), x.state = "publish" => c.queued = <<>>
    PROVE  LET e == Given(c, x) IN
           /\ InLine(p, e)
           /\ Behind(c.inflight) => Behind(e.inflight)
           /\ Copies(c.inflight) /\ x.retain => Copies(e.inflight)
           /\ x.state = "publish" => e.queued = c.queued
<1> DEFINE e == Given(c, x)
<1>1. /\ c.inflight \in Seq(Item) /\ c.queued \in Seq(Item) /\ c.out \in Seq(Item)
  BY DEF Context
<1>2. /\ e.inflight = IF x.state = "publish" THEN Append(c.inflight, x) ELSE c.inflight
      /\ e.queued = IF x.state = "queued" THEN Append(c.queued, x) ELSE c.queued
      /\ e.out = c.out
  BY DEF Given, Messages, Context
<1> HIDE DEF e
<1>3. /\ Msgs(c.inflight) \cup Msgs(c.queued) \cup Msgs(c.out) \subseteq 1..Len(p)
      /\ Sorted(p, c.inflight) /\ Sorted(p, c.queued) /\ Sorted(p, c.out)
      /\ Ahead(p, Msgs(c.inflight), Msgs(c.queued))
      /\ Ahead(p, Msgs(c.out), UnsentMsgs(c.inflight) \cup Msgs(c.queued))
      /\ Underway(c.inflight)
  BY DEF InLine
<1>4. /\ Ahead(p, Msgs(c.inflight), {x.msg}) /\ Ahead(p, Msgs(c.queued), {x.msg})
      /\ Ahead(p, Msgs(c.out), {x.msg}) /\ x.msg \in 1..Len(p)
  BY <1>3, NewestAhead DEF Newest
<1>5. Ahead(p, Msgs(c.out), (UnsentMsgs(c.inflight) \cup Msgs(c.queued)) \cup {x.msg})
  BY <1>3, <1>4, AheadBoth
<1>6. CASE x.state = "publish"
  <2>1. /\ Msgs(e.inflight) = Msgs(c.inflight) \cup {x.msg}
        /\ UnsentMsgs(e.inflight) \subseteq UnsentMsgs(c.inflight) \cup {x.msg}
    BY <1>1, <1>2, <1>6, AppendMsgs
  <2>2. Sorted(p, e.inflight)
    BY <1>1, <1>2, <1>3, <1>4, <1>6, AppendSorted
  <2>3. /\ Behind(c.inflight) => Behind(e.inflight)
        /\ Copies(c.inflight) /\ x.retain => Copies(e.inflight)
        /\ Underway(e.inflight)
    BY <1>1, <1>2, <1>3, <1>6, AppendStates
  <2>4. e.queued = c.queued /\ Msgs(c.queued) = {}
    BY <1>2, <1>6, EmptyList
  <2>5. Ahead(p, Msgs(e.inflight), Msgs(e.queued))
    BY <2>4, AheadBoth
  <2>6. UnsentMsgs(e.inflight) \cup Msgs(e.queued)
          \subseteq (UnsentMsgs(c.inflight) \cup Msgs(c.queued)) \cup {x.msg}
    BY <2>1, <2>4
  <2>7. Ahead(p, Msgs(e.out), UnsentMsgs(e.inflight) \cup Msgs(e.queued))
    BY <1>2, <1>5, <2>6, AheadLess
  <2>8. Msgs(e.inflight) \cup Msgs(e.queued) \cup Msgs(e.out) \subseteq 1..Len(p)
    BY <1>2, <1>3, <1>4, <2>1, <2>4
  <2>9. InLine(p, e)
    BY <1>2, <1>3, <2>2, <2>3, <2>4, <2>5, <2>7, <2>8 DEF InLine
  <2> QED BY <2>3, <2>4, <2>9 DEF e
<1>7. CASE x.state = "queued"
  <2>1. Msgs(e.queued) = Msgs(c.queued) \cup {x.msg} /\ e.inflight = c.inflight /\ e.out = c.out
    BY <1>1, <1>2, <1>7, AppendMsgs
  <2>2. Sorted(p, e.queued)
    BY <1>1, <1>2, <1>3, <1>4, <1>7, AppendSorted
  <2>3. Ahead(p, Msgs(e.inflight), Msgs(e.queued))
    <3>1. Ahead(p, Msgs(c.inflight), Msgs(c.queued) \cup {x.msg})
      BY <1>3, <1>4, AheadBoth
    <3> QED BY <2>1, <3>1
  <2>4. UnsentMsgs(e.inflight) \cup Msgs(e.queued)
          \subseteq (UnsentMsgs(c.inflight) \cup Msgs(c.queued)) \cup {x.msg}
    BY <2>1
  <2>5. Ahead(p, Msgs(e.out), UnsentMsgs(e.inflight) \cup Msgs(e.queued))
    BY <1>5, <2>1, <2>4, AheadLess
  <2>6. Msgs(e.inflight) \cup Msgs(e.queued) \cup Msgs(e.out) \subseteq 1..Len(p)
    BY <1>3, <1>4, <2>1
  <2>7. InLine(p, e)
    BY <1>3, <2>1, <2>2, <2>3, <2>5, <2>6 DEF InLine
  <2> QED BY <1>7, <2>1, <2>7 DEF e
<1> QED BY <1>6, <1>7

\* Only a client that subscribes with QoS 1 has a queue; u is what the
\* clients subscribe with.
Even(u, c) == c.queued # <<>> /\ c.id # NoId => u[c.id] = 1

Ordered(p, u, c) == InLine(p, c) /\ Lately(c) /\ Even(u, c)
Proper(p, u, c) == Ordered(p, u, c) /\ Sound(c)

\* db__message_insert: what is live is sent at once or joins the queue, a
\* retained copy may wait in flight; the client's line stays in order.
LEMMA InsertProper ==
    ASSUME NEW p, NEW u, NEW n, NEW d \in Databases(n), NEW s \in Slot, NEW m \in 1..MaxPublish,
           NEW mid \in Mid, NEW qos \in {0, 1}, NEW retain \in BOOLEAN, NEW update \in BOOLEAN,
           qos > 0 <=> mid # 0, Proper(p, u, d.ctx[s]), Newest(p, m), retain \/ update,
           d.ctx[s].id # NoId => qos = u[d.ctx[s].id]
    PROVE  Proper(p, u, db__message_insert(d, s, m, mid, qos, retain, update).ctx[s])
<1> DEFINE c == d.ctx[s]
           e == Held(d, s, m, mid, qos, retain)
           g == e.ctx[s]
           x == NewItem(c, m, mid, qos, retain)
           r == db__message_insert(d, s, m, mid, qos, retain, update)
<1>1. \/ r = d
      \/ /\ Fate(c, qos) # "dropped" /\ c.id # NoId
         /\ r = IF update THEN Updated(e, s) ELSE e
  BY DEF db__message_insert
<1>2. CASE r = d
  BY <1>2
<1>3. CASE Fate(c, qos) # "dropped" /\ c.id # NoId /\ r = IF update THEN Updated(e, s) ELSE e
  <2>1. /\ e \in Databases(n) /\ g = Given(c, x) /\ c \in Context
        /\ Session(g) = Session(c)
    <3>1. c \in Context
      BY DEF Databases
    <3> QED BY <1>3, <3>1, HeldType DEF OnlyMessages
  <2>2. Better(c, g)
    BY <1>3, HeldBetter
  <2>3. Fate(c, qos) \in {"publish", "queued"}
    BY <1>3 DEF Fate
  <2>4. /\ x \in Item /\ x.msg = m /\ x.state = Fate(c, qos) /\ x.retain = retain
    BY <2>3, ItemFacts DEF NewItem
  <2>5. /\ Fate(c, qos) = "publish" => c.state = "active" /\ (qos = 0 \/ c.quota > 0)
        /\ Fate(c, qos) = "queued" => qos > 0
    BY DEF Fate, Connected, db__ready_for_flight, db__ready_for_queue
  <2>6. InLine(p, c) /\ Lately(c) /\ Even(u, c) /\ Sound(c)
    BY DEF Proper, Ordered
  <2>7. qos = u[c.id]
    BY <1>3
  <2> HIDE DEF e, g, x, r, c
  <2>8. x.state = "publish" => c.queued = <<>>
    <3> SUFFICES ASSUME x.state = "publish", c.queued # <<>> PROVE FALSE
      OBVIOUS
    <3>1. c.state = "active" /\ (qos = 0 \/ c.quota > 0)
      BY <2>4, <2>5
    <3>2. qos = 1
      BY <1>3, <2>6, <2>7 DEF Even
    <3>3. c.quota = 0
      BY <2>6, <3>1 DEF Sound
    <3> QED BY <3>1, <3>2, <3>3
  <2>9. x.state \in {"publish", "queued"} /\ Newest(p, x.msg)
    BY <2>3, <2>4
  <2>10. /\ InLine(p, g)
         /\ Behind(c.inflight) => Behind(g.inflight)
         /\ Copies(c.inflight) /\ x.retain => Copies(g.inflight)
         /\ x.state = "publish" => g.queued = c.queued
    BY <2>1, <2>4, <2>6, <2>8, <2>9, GivenLined
  <2>11. g.state = c.state /\ g.id = c.id
    BY <2>1 DEF Session
  <2>12. Even(u, g)
    <3>1. CASE x.state = "publish"
      BY <2>6, <2>10, <2>11, <3>1 DEF Even
    <3>2. CASE x.state = "queued"
      <4>1. qos = 1
        BY <2>4, <2>5, <3>2
      <4> QED BY <2>7, <2>11, <4>1 DEF Even
    <3> QED BY <2>9, <3>1, <3>2
  <2>13. Sound(g)
    BY <2>2, <2>6 DEF Better
  <2>14. c.state = "active" => Behind(g.inflight) /\ (retain => Copies(g.inflight))
    BY <2>4, <2>6, <2>10 DEF Lately
  <2>15. CASE update = FALSE
    <3>1. retain /\ r = e
      BY <1>3, <2>15
    <3>2. Lately(g)
      BY <2>11, <2>14, <3>1 DEF Lately
    <3> QED BY <2>10, <2>12, <2>13, <3>1, <3>2 DEF Proper, Ordered, g, r
  <2>16. CASE update = TRUE
    <3> DEFINE f == Updated(e, s).ctx[s]
    <3>1. g.state = "active" => Behind(g.inflight)
      BY <2>11, <2>14
    <3>2. InLine(p, f) /\ Lately(f) /\ f.queued = g.queued
      BY <2>1, <2>10, <2>13, <3>1, UpdatedLined DEF g
    <3>3. Better(g, f)
      BY <2>1, UpdatedBetter DEF g
    <3>4. r = Updated(e, s) /\ r \in Databases(n) /\ OnlyMessages(d, r, s)
      BY <1>3, <2>16, InsertType DEF r
    <3>5. f.id = g.id
      BY <2>11, <3>4 DEF OnlyMessages, Session, c
    <3> HIDE DEF f
    <3>6. Even(u, f) /\ Sound(f)
      BY <2>12, <2>13, <3>2, <3>3, <3>5 DEF Even, Better
    <3> QED BY <3>2, <3>4, <3>6 DEF Proper, Ordered, f, r
  <2> QED BY <2>15, <2>16
<1> QED BY <1>1, <1>2, <1>3

\* A client is offered a message, which it may have been given already.
LEMMA OfferedProper ==
    ASSUME NEW p, NEW u, NEW n, NEW d \in Databases(n), NEW s \in Slot, NEW m \in 1..MaxPublish,
           NEW qos \in {0, 1}, NEW retain \in BOOLEAN, NEW update \in BOOLEAN,
           Proper(p, u, d.ctx[s]), Newest(p, m), retain \/ update,
           d.ctx[s].id # NoId => qos = u[d.ctx[s].id]
    PROVE  Proper(p, u, Offered(d, s, m, qos, retain, update).ctx[s])
<1> DEFINE mid == IF qos = 0 THEN 0 ELSE mosquitto__mid_generate(d.ctx[s].last_mid)
           c == [d.ctx[s] EXCEPT !.last_mid = mid]
           numbered == [d EXCEPT !.ctx[s].last_mid = mid]
           e == IF qos = 0 THEN d ELSE numbered
<1>1. d.ctx[s] \in Context /\ d.ctx[s].last_mid \in Mid
  BY DEF Databases, Context
<1>2. mid \in Mid /\ (qos > 0 <=> mid # 0)
  BY <1>1, MidFacts
<1>3. Offered(d, s, m, qos, retain, update) = db__message_insert(e, s, m, mid, qos, retain, update)
  BY DEF Offered
<1> HIDE DEF mid
<1>4. c \in Context
  BY <1>1, <1>2, ContextChanges
<1>5. /\ c.inflight = d.ctx[s].inflight /\ c.queued = d.ctx[s].queued /\ c.out = d.ctx[s].out
      /\ c.quota = d.ctx[s].quota /\ c.state = d.ctx[s].state /\ c.id = d.ctx[s].id
  BY <1>1 DEF Context
<1>6. numbered = [d EXCEPT !.ctx[s] = c]
  BY DEF Databases
<1> HIDE DEF c, numbered
<1>7. numbered \in Databases(n) /\ numbered.ctx[s] = c
  BY <1>4, <1>6, ContextReplaced
<1>8. Proper(p, u, c)
  <2>1. Better(d.ctx[s], c)
    BY <1>5, SameMessages
  <2>2. Sound(c)
    BY <2>1 DEF Better, Proper
  <2>3. InLine(p, c) /\ Lately(c) /\ Even(u, c)
    BY <1>5 DEF Proper, Ordered, InLine, Lately, Even
  <2> QED BY <2>2, <2>3 DEF Proper, Ordered
<1>9. e \in Databases(n) /\ Proper(p, u, e.ctx[s]) /\ e.ctx[s].id = d.ctx[s].id
  BY <1>5, <1>7, <1>8
<1> HIDE DEF e
<1>10. e.ctx[s].id # NoId => qos = u[e.ctx[s].id]
  BY <1>9
<1>11. Proper(p, u, db__message_insert(e, s, m, mid, qos, retain, update).ctx[s])
  BY <1>2, <1>9, <1>10, InsertProper
<1> QED BY <1>3, <1>11

-----------------------------------------------------------------------------
(* A publication, for every context *)

\* A leaf has the QoS its client subscribes with.
Alike(u, d) == \A l \in d.leaves : d.ctx[l.slot].id # NoId => l.qos = u[d.ctx[l.slot].id]

AllProper(p, u, d) == \A s \in Slot : Proper(p, u, d.ctx[s])

\* subs__process offers the message to every subscriber, one after another.
LEMMA ProcessProper ==
    ASSUME NEW p, NEW u, NEW n, NEW d \in Databases(n), NEW t, NEW m \in 1..MaxPublish,
           IsFiniteSet(d.leaves), Alike(u, d), AllProper(p, u, d), Newest(p, m)
    PROVE  AllProper(p, u, subs__process(d, t, m))
<1> DEFINE S == {e \in Databases(n) : SessionsStay(d, e) /\ AllProper(p, u, e)}
<1>1. d \in S
  BY SessionsStayFacts
<1>2. ASSUME NEW e \in S, NEW leaf \in Subscribers(d, t) PROVE subs__send(e, leaf, m) \in S
  <2> DEFINE s == leaf.slot
             f == subs__send(e, leaf, m)
  <2>1. /\ s \in Slot /\ leaf.qos \in {0, 1} /\ leaf \in d.leaves
        /\ FALSE \in BOOLEAN /\ TRUE \in BOOLEAN
    BY DEF Leaf, Subscribers, Databases
  <2>2. f = Offered(e, s, m, leaf.qos, FALSE, TRUE)
    BY DEF subs__send
  <2>3. e.ctx[s].id # NoId => leaf.qos = u[e.ctx[s].id]
    BY <2>1 DEF Alike, SessionsStay, Session
  <2>4. Proper(p, u, e.ctx[s])
    BY <2>1 DEF AllProper
  <2> HIDE DEF s, f
  <2>5. f \in Databases(n) /\ OnlyMessages(e, f, s)
    BY <2>1, <2>2, OfferedType
  <2>6. Proper(p, u, f.ctx[s])
    BY <2>1, <2>2, <2>3, <2>4, OfferedProper
  <2>7. SessionsStay(d, f)
    BY <2>1, <2>5, SessionsStayFacts
  <2>8. AllProper(p, u, f)
    BY <2>5, <2>6 DEF AllProper, OnlyMessages
  <2> QED BY <2>5, <2>7, <2>8 DEF f
<1>3. subs__process(d, t, m) \in S
  <2> HIDE DEF S
  <2> QED BY <1>1, <1>2, ProcessInside
<1> QED BY <1>3

\* sub__messages_queue, the message retained first
LEMMA QueuedProper ==
    ASSUME NEW p, NEW u, NEW n \in Nat, n <= MaxPublish, NEW d \in Databases(n), NEW t,
           NEW m \in 1..n,
           IsFiniteSet(d.leaves), Alike(u, d), AllProper(p, u, d), Newest(p, m)
    PROVE  AllProper(p, u, sub__messages_queue(d, t, m))
<1> DEFINE e == db__msg_store_ref_inc(d, m)
           f == subs__process(e, t, m)
           g == retain__store(f, t, m)
<1>1. m \in 1..MaxPublish
  BY BrokerAssumption
<1>2. e \in Databases(n) /\ e.ctx = d.ctx /\ e.leaves = d.leaves
  BY RefInc
<1> HIDE DEF e
<1>3. Alike(u, e) /\ AllProper(p, u, e) /\ IsFiniteSet(e.leaves)
  BY <1>2 DEF Alike, AllProper
<1>4. f \in Databases(n) /\ AllProper(p, u, f)
  BY <1>1, <1>2, <1>3, ProcessType, ProcessProper
<1> HIDE DEF f
<1>5. g \in Databases(n) /\ g.ctx = f.ctx
  BY <1>4, RetainType, RetainBetter
<1>6. sub__messages_queue(d, t, m) = db__msg_store_ref_dec(g, m)
  BY DEF sub__messages_queue, e, f
<1> HIDE DEF g
<1>7. sub__messages_queue(d, t, m).ctx = f.ctx
  BY <1>5, <1>6, RefDec
<1> QED BY <1>4, <1>7 DEF AllProper

\* What becomes of the retained messages
LEMMA ProcessRetains ==
    ASSUME NEW n, NEW d \in Databases(n), NEW t, NEW m \in 1..MaxPublish, IsFiniteSet(d.leaves)
    PROVE  subs__process(d, t, m).retained = d.retained
<1> DEFINE S == {e \in Databases(n) : e.retained = d.retained}
<1>1. d \in S
  OBVIOUS
<1>2. ASSUME NEW e \in S, NEW leaf \in Subscribers(d, t) PROVE subs__send(e, leaf, m) \in S
  <2>1. leaf.slot \in Slot /\ leaf.qos \in {0, 1} /\ FALSE \in BOOLEAN
    BY DEF Leaf, Subscribers, Databases
  <2>2. /\ subs__send(e, leaf, m) \in Databases(n)
        /\ OnlyMessages(e, subs__send(e, leaf, m), leaf.slot)
    BY <2>1, OfferedType DEF subs__send
  <2> QED BY <2>2 DEF OnlyMessages
<1>3. subs__process(d, t, m) \in S
  <2> HIDE DEF S
  <2> QED BY <1>1, <1>2, ProcessInside
<1> QED BY <1>3

\* The message published is the one retained of its topic.
LEMMA QueuedRetains ==
    ASSUME NEW n \in Nat, n <= MaxPublish, NEW d \in Databases(n), NEW t \in Topic,
           NEW m \in 1..n, IsFiniteSet(d.leaves)
    PROVE  sub__messages_queue(d, t, m).retained = [d.retained EXCEPT ![t] = m]
<1> DEFINE e == db__msg_store_ref_inc(d, m)
           f == subs__process(e, t, m)
           g == IF f.retained[t] = NoMessage THEN f ELSE db__msg_store_ref_dec(f, f.retained[t])
           h == [g EXCEPT !.retained[t] = m]
           i == db__msg_store_ref_inc(h, m)
<1>1. m \in 1..MaxPublish
  BY BrokerAssumption
<1>2. e \in Databases(n) /\ e.retained = d.retained /\ IsFiniteSet(e.leaves)
  BY RefInc
<1>3. sub__messages_queue(d, t, m) = db__msg_store_ref_dec(i, m)
  BY DEF sub__messages_queue, retain__store
<1> HIDE DEF e
<1>4. f \in Databases(n) /\ f.retained = e.retained
  BY <1>1, <1>2, ProcessType, ProcessRetains
<1> HIDE DEF f
<1>5. g \in Databases(n) /\ g.retained = f.retained
  BY <1>4, RefDec
<1> HIDE DEF g
<1>6. h \in Databases(n) /\ h.retained = [g.retained EXCEPT ![t] = m]
  BY <1>5 DEF Databases
<1> HIDE DEF h
<1>7. i \in Databases(n) /\ i.retained = h.retained
  BY <1>6, RefInc
<1> HIDE DEF i
<1>8. sub__messages_queue(d, t, m).retained = i.retained
  BY <1>3, <1>7, RefDec
<1> QED BY <1>2, <1>4, <1>5, <1>6, <1>7, <1>8

\* The retained message of a topic is one of it, and none of its publications
\* is newer.
Retains(p, d) ==
    /\ \A m \in 1..Len(p) : m <= d.retained[p[m]]
    /\ \A t \in Topic : d.retained[t] # NoMessage => p[d.retained[t]] = t

(* The inductive invariant behind SentInOrder and OnlyCopiesAreHeldBack. For
   every context, p being what has been published:
   - what is on its way to the client, in flight and queued is in order (InLine):
     each list by itself, what is in flight ahead of the queue, and what is on its
     way ahead of all that still has to be sent;
   - while its client is connected, what is in flight and still to be sent comes
     last and is a retained copy (Lately), which is why the backward search of
     db__message_write_inflight_out_latest misses nothing;
   - only a client of QoS 1 has a queue (Even): a QoS 0 message is written at once
     and would overtake it. That needs every leaf to have its client's QoS (Alike);
   and the retained message of a topic is the newest one of it (Retains), so that a
   copy of it may go behind all that was published before. *)
OrderInv ==
    /\ \A s \in Slot : Ordered(published, sub_qos, db.ctx[s])
    /\ Alike(sub_qos, db)
    /\ Retains(published, db)

\* A context without messages is in order.
LEMMA BlankOrdered ==
    ASSUME NEW p, NEW u, NEW c,
           c.inflight = <<>>, c.queued = <<>>, c.out = <<>>
    PROVE  Ordered(p, u, c)
<1>1. Len(<<>>) = 0
  OBVIOUS
<1>2. \A A : Ahead(p, {}, A) /\ Ahead(p, A, {})
  BY DEF Ahead
<1>3. InLine(p, c)
  BY <1>2, EmptyList DEF InLine
<1>4. Lately(c)
  BY EmptyList DEF Lately
<1>5. Even(u, c)
  BY DEF Even
<1> QED BY <1>3, <1>4, <1>5 DEF Ordered

\* It holds at the start.
LEMMA OrderInit == BrokerInit => OrderInv
<1> SUFFICES ASSUME BrokerInit PROVE OrderInv
  OBVIOUS
<1>1. published = <<>> /\ published \in Seq(Topic) /\ Len(published) = 0
  BY DEF BrokerInit
<1>2. \A s \in Slot : db.ctx[s] = NewContext
  BY DEF BrokerInit
<1>3. NewContext.inflight = <<>> /\ NewContext.queued = <<>> /\ NewContext.out = <<>>
  BY DEF NewContext
<1>4. \A s \in Slot : Ordered(published, sub_qos, db.ctx[s])
  BY <1>1, <1>2, <1>3, BlankOrdered
<1>5. db.leaves = {}
  BY DEF BrokerInit
<1>6. \A t \in Topic : db.retained[t] = NoMessage
  BY DEF BrokerInit
<1> QED BY <1>1, <1>4, <1>5, <1>6 DEF OrderInv, Alike, Retains

\* What is in order stays so when the list of publications grows.
LEMMA LineExtends ==
    ASSUME NEW p \in Seq(Topic), NEW t \in Topic, NEW c, InLine(p, c)
    PROVE  InLine(Append(p, t), c)
<1> DEFINE r == Append(p, t)
<1>1. Len(p) \in Nat /\ Len(r) = Len(p) + 1 /\ \A m \in 1..Len(p) : r[m] = p[m]
  BY LenProperties
<1> HIDE DEF r
<1>2. ASSUME NEW A \in SUBSET (1..Len(p)), NEW B \in SUBSET (1..Len(p)), Ahead(p, A, B)
      PROVE  Ahead(r, A, B)
  <2> SUFFICES ASSUME NEW a \in A, NEW b \in B, r[a] = r[b] PROVE a <= b
    BY DEF Ahead
  <2>1. p[a] = p[b]
    BY <1>1
  <2> QED BY <1>2, <2>1 DEF Ahead
<1>3. ASSUME NEW q, Msgs(q) \subseteq 1..Len(p), Sorted(p, q)
      PROVE  Sorted(r, q)
  <2> SUFFICES ASSUME NEW i \in 1..Len(q), NEW j \in 1..Len(q), i < j,
                      r[q[i].msg] = r[q[j].msg]
               PROVE  q[i].msg <= q[j].msg
    BY DEF Sorted
  <2>1. q[i].msg \in 1..Len(p) /\ q[j].msg \in 1..Len(p)
    BY <1>3 DEF Msgs
  <2>2. p[q[i].msg] = p[q[j].msg]
    BY <1>1, <2>1
  <2> QED BY <1>3, <2>2 DEF Sorted
<1>4. /\ Msgs(c.inflight) \in SUBSET (1..Len(p)) /\ Msgs(c.queued) \in SUBSET (1..Len(p))
      /\ Msgs(c.out) \in SUBSET (1..Len(p))
      /\ UnsentMsgs(c.inflight) \cup Msgs(c.queued) \in SUBSET (1..Len(p))
  BY DEF InLine, Msgs, UnsentMsgs
<1>5. Sorted(r, c.inflight) /\ Sorted(r, c.queued) /\ Sorted(r, c.out)
  BY <1>3 DEF InLine
<1>6. Ahead(r, Msgs(c.inflight), Msgs(c.queued))
  BY <1>2, <1>4 DEF InLine
<1>7. Ahead(r, Msgs(c.out), UnsentMsgs(c.inflight) \cup Msgs(c.queued))
  BY <1>2, <1>4 DEF InLine
<1>8. Msgs(c.inflight) \cup Msgs(c.queued) \cup Msgs(c.out) \subseteq 1..Len(r)
  BY <1>1 DEF InLine
<1> QED BY <1>5, <1>6, <1>7, <1>8 DEF InLine, r

\* A publication is the newest of its topic, so it may go behind all the others.
LEMMA PublishOrder ==
    ASSUME TypeInv, QuotaInv, OrderInv, NEW t \in Topic, handle__publish(t)
    PROVE  OrderInv'
<1> DEFINE n == Len(published) + 1
           p == Append(published, t)
           stored == db__message_store(db, n)
<1>1. /\ Len(published) < MaxPublish /\ db' = sub__messages_queue(stored, t, n)
      /\ published' = p /\ sub_qos' = sub_qos
  BY DEF handle__publish
<1>2. Len(published) \in Nat /\ published \in Seq(Topic) /\ db \in Databases(Len(published))
  BY LenProperties DEF TypeInv
<1>3. n \in Nat /\ n <= MaxPublish /\ n \in 1..n
  BY <1>1, <1>2, BrokerAssumption
<1>4. /\ stored \in Databases(n) /\ stored.ctx = db.ctx /\ IsFiniteSet(stored.leaves)
      /\ stored.leaves = db.leaves
  BY <1>2, StoreType DEF TypeInv
<1>5. stored.retained = db.retained
  BY <1>2 DEF db__message_store, Databases
<1>6. /\ Len(p) = n /\ p[n] = t /\ \A m \in 1..Len(published) : p[m] = published[m]
      /\ \A m \in 1..n : m \in 1..Len(published) \/ m = n
  BY <1>2
<1>7. Newest(p, n)
  BY <1>2, <1>3, <1>6 DEF Newest
<1>8. \A s \in Slot : InLine(p, db.ctx[s])
  BY <1>2, LineExtends DEF OrderInv, Ordered
<1> HIDE DEF stored
<1>9. AllProper(p, sub_qos, stored)
  BY <1>4, <1>8 DEF AllProper, Proper, Ordered, OrderInv, QuotaInv
<1>10. Alike(sub_qos, stored)
  BY <1>4 DEF Alike, OrderInv
<1>11. db'.retained = [db.retained EXCEPT ![t] = n]
  BY <1>1, <1>3, <1>4, <1>5, QueuedRetains
<1>12. SessionsStay(db, db')
  BY PublishType
<1> HIDE DEF p
<1>13. AllProper(p, sub_qos, db')
  BY <1>1, <1>3, <1>4, <1>7, <1>9, <1>10, QueuedProper
<1>14. Alike(sub_qos, db')
  <2> SUFFICES ASSUME NEW l \in db.leaves, db'.ctx[l.slot].id # NoId
               PROVE  l.qos = sub_qos[db'.ctx[l.slot].id]
    BY <1>12 DEF Alike, SessionsStay
  <2>1. l.slot \in Slot
    BY <1>2 DEF Databases, Leaf
  <2>2. db'.ctx[l.slot].id = db.ctx[l.slot].id
    BY <1>12, <2>1 DEF SessionsStay, Session
  <2> QED BY <2>2 DEF Alike, OrderInv
<1>15. Retains(p, db')
  <2>1. /\ db.retained \in [Topic -> 0..Len(published)]
        /\ \A m \in 1..Len(published) : published[m] \in Topic
    BY <1>2 DEF Databases
  <2>2. db'.retained[t] = n /\ \A x \in Topic \ {t} : db'.retained[x] = db.retained[x]
    BY <1>11, <2>1
  <2>3. ASSUME NEW m \in 1..n PROVE m <= db'.retained[p[m]]
    <3>1. CASE p[m] = t
      BY <1>2, <2>2, <3>1
    <3>2. CASE p[m] # t
      <4>1. m \in 1..Len(published) /\ p[m] = published[m] /\ published[m] \in Topic
        BY <1>6, <2>1, <3>2
      <4>2. m <= db.retained[published[m]]
        BY <4>1 DEF OrderInv, Retains
      <4> QED BY <2>2, <3>2, <4>1, <4>2
    <3> QED BY <3>1, <3>2
  <2>4. ASSUME NEW x \in Topic, db'.retained[x] # NoMessage PROVE p[db'.retained[x]] = x
    <3>1. CASE x = t
      BY <1>6, <2>2, <3>1
    <3>2. CASE x # t
      <4>1. db'.retained[x] = db.retained[x] /\ published[db.retained[x]] = x
        BY <2>2, <2>4, <3>2 DEF OrderInv, Retains
      <4>2. db.retained[x] \in 1..Len(published)
        BY <1>2, <2>1, <2>4, <4>1 DEF NoMessage
      <4> QED BY <1>6, <4>1, <4>2
    <3> QED BY <3>1, <3>2
  <2> QED BY <1>6, <2>3, <2>4 DEF Retains
<1> QED BY <1>1, <1>13, <1>14, <1>15 DEF OrderInv, AllProper, Proper

(* The steps that publish nothing *)

SameLine(c, e) ==
    /\ e.inflight = c.inflight /\ e.queued = c.queued /\ e.out = c.out
    /\ e.state = c.state /\ e.id = c.id
SameLines(d, e) == \A r \in Slot : SameLine(d.ctx[r], e.ctx[r])

\* A context with the same messages is as much in order.
LEMMA SameOrdered ==
    ASSUME NEW p, NEW u, NEW c, NEW e, SameLine(c, e), Ordered(p, u, c)
    PROVE  Ordered(p, u, e)
BY DEF SameLine, Ordered, InLine, Lately, Even

\* A step that publishes nothing only has to keep the contexts in order.
LEMMA OrderKept ==
    ASSUME OrderInv, UNCHANGED <<published, sub_qos>>, db'.retained = db.retained,
           \A s \in Slot : Ordered(published, sub_qos, db'.ctx[s]), Alike(sub_qos, db')
    PROVE  OrderInv'
<1>1. Retains(published, db')
  BY DEF OrderInv, Retains
<1> QED BY <1>1 DEF OrderInv

\* The leaves of a step that only moves messages
LEMMA AlikeStays ==
    ASSUME NEW n, NEW d \in Databases(n), NEW u, NEW e, Alike(u, d), SessionsStay(d, e)
    PROVE  Alike(u, e)
<1> SUFFICES ASSUME NEW l \in d.leaves, e.ctx[l.slot].id # NoId
             PROVE  l.qos = u[e.ctx[l.slot].id]
  BY DEF Alike, SessionsStay
<1>1. l.slot \in Slot
  BY DEF Databases, Leaf
<1>2. e.ctx[l.slot].id = d.ctx[l.slot].id
  BY <1>1 DEF SessionsStay, Session
<1> QED BY <1>2 DEF Alike

\* A step that changes a context's list of subscriptions moves no message.
LEMMA OnlyListChanged ==
    ASSUME NEW n, NEW d \in Databases(n), NEW s \in Slot, NEW x, NEW e,
           \/ e.ctx = d.ctx
           \/ e.ctx = [d.ctx EXCEPT ![s] = [d.ctx[s] EXCEPT !.subs = x]]
    PROVE  SameLines(d, e)
<1> SUFFICES ASSUME NEW r \in Slot PROVE SameLine(d.ctx[r], e.ctx[r])
  BY DEF SameLines
<1>1. d.ctx \in [Slot -> Context] /\ d.ctx[s] \in Context
  BY DEF Databases
<1>2. e.ctx[r] = d.ctx[r] \/ e.ctx[r] = [d.ctx[r] EXCEPT !.subs = x]
  BY <1>1
<1> QED BY <1>1, <1>2 DEF Context, SameLine

\* A new leaf has the QoS its client subscribes with, as all of its leaves.
LEMMA AddOrder ==
    ASSUME NEW n, NEW d \in Databases(n), NEW u, NEW s \in Slot, NEW t, NEW qos,
           Alike(u, d), d.ctx[s].id # NoId, qos = u[d.ctx[s].id]
    PROVE  LET e == sub__add(d, s, t, qos) IN
           SameLines(d, e) /\ Alike(u, e) /\ e.retained = d.retained
<1> DEFINE e == sub__add(d, s, t, qos)
           same == {leaf \in d.leaves : leaf.topic = t /\ d.ctx[leaf.slot].id = d.ctx[s].id}
           new == [topic |-> t, slot |-> s, qos |-> qos]
<1>1. d.leaves \in SUBSET Leaf /\ \A l \in d.leaves : l.slot \in Slot
  BY DEF Databases, Leaf
<1>2. CASE same # {}
  <2>1. /\ e.leaves = (d.leaves \ same) \cup {[leaf EXCEPT !.qos = qos] : leaf \in same}
        /\ e.ctx = d.ctx /\ e.retained = d.retained
    BY <1>2 DEF sub__add, Databases
  <2> HIDE DEF e
  <2>2. Alike(u, e)
    <3> SUFFICES ASSUME NEW l \in e.leaves, e.ctx[l.slot].id # NoId
                 PROVE  l.qos = u[e.ctx[l.slot].id]
      BY DEF Alike
    <3>1. CASE l \in d.leaves
      BY <2>1, <3>1 DEF Alike
    <3>2. CASE l \notin d.leaves
      <4>1. PICK leaf \in same : l = [leaf EXCEPT !.qos = qos]
        BY <2>1, <3>2
      <4>2. l.slot = leaf.slot /\ l.qos = qos
        BY <1>1, <4>1 DEF Leaf
      <4> QED BY <2>1, <4>1, <4>2
    <3> QED BY <3>1, <3>2
  <2> QED BY <2>1, <2>2, OnlyListChanged DEF e
<1>3. CASE same = {}
  <2>1. /\ e.leaves = d.leaves \cup {new} /\ e.retained = d.retained
        /\ e.ctx = [d.ctx EXCEPT ![s] = [d.ctx[s] EXCEPT !.subs = @ \cup {t}]]
    BY <1>3 DEF sub__add, Databases, Context
  <2>2. new.slot = s /\ new.qos = qos
    OBVIOUS
  <2> HIDE DEF e, new, same
  <2>3. SameLines(d, e)
    BY <2>1, OnlyListChanged
  <2>4. \A r \in Slot : e.ctx[r].id = d.ctx[r].id
    BY <2>3 DEF SameLine, SameLines
  <2>5. Alike(u, e)
    BY <1>1, <2>1, <2>2, <2>4 DEF Alike
  <2> QED BY <2>1, <2>3, <2>5 DEF e
<1> QED BY <1>2, <1>3

\* A leaf that goes moves no message.
LEMMA RemoveOrder ==
    ASSUME NEW n, NEW d \in Databases(n), NEW u, NEW s \in Slot, NEW t, Alike(u, d)
    PROVE  LET e == sub__remove(d, s, t) IN
           SameLines(d, e) /\ Alike(u, e) /\ e.retained = d.retained
<1> DEFINE e == sub__remove(d, s, t)
<1>1. /\ e.leaves \subseteq d.leaves /\ e.retained = d.retained
      /\ e.ctx = [d.ctx EXCEPT ![s] = [d.ctx[s] EXCEPT !.subs = @ \ {t}]]
  BY DEF sub__remove, Databases, Context
<1> HIDE DEF e
<1>2. SameLines(d, e)
  BY <1>1, OnlyListChanged
<1>3. \A l \in d.leaves : e.ctx[l.slot].id = d.ctx[l.slot].id
  BY <1>2 DEF SameLine, SameLines, Databases, Leaf
<1>4. Alike(u, e)
  BY <1>1, <1>3 DEF Alike
<1> QED BY <1>1, <1>2, <1>4 DEF e

\* handle__unsubscribe moves no message.
LEMMA UnsubscribeOrder ==
    ASSUME TypeInv, OrderInv, NEW n \in Node, NEW t \in Topic, handle__unsubscribe(n, t)
    PROVE  OrderInv'
<1>1. /\ link[n] \in Slot /\ db' = sub__remove(db, link[n], t)
      /\ db \in Databases(Len(published)) /\ UNCHANGED <<published, sub_qos>>
  BY UnsubscribeType DEF handle__unsubscribe, TypeInv
<1>2. Alike(sub_qos, db)
  BY DEF OrderInv
<1>3. /\ SameLines(db, db')
      /\ Alike(sub_qos, db') /\ db'.retained = db.retained
  BY <1>1, <1>2, RemoveOrder
<1>4. \A r \in Slot : Ordered(published, sub_qos, db'.ctx[r])
  BY <1>3, SameOrdered DEF OrderInv, SameLines
<1> QED BY <1>1, <1>3, <1>4, OrderKept

\* The end of a connection: nothing is on its way to the client any more.
LEMMA EndedOrdered ==
    ASSUME NEW p, NEW u, NEW n, NEW d \in Databases(n), NEW s \in Slot, InLine(p, d.ctx[s]),
           d.ctx[s].id # NoId => Even(u, d.ctx[s])
    PROVE  Ordered(p, u, do_disconnect(d, s).ctx[s]) /\ do_disconnect(d, s).retained = d.retained
<1> DEFINE c == d.ctx[s]
           e == do_disconnect(d, s).ctx[s]
<1>1. c \in Context
  BY DEF Databases
<1>2. /\ e.inflight = c.inflight /\ e.queued = c.queued /\ e.out = <<>>
      /\ e.state # "active" /\ (e.id = c.id \/ e.id = NoId)
      /\ do_disconnect(d, s).retained = d.retained
  BY <1>1 DEF do_disconnect, Databases, Context
<1> HIDE DEF c, e
<1>3. Ahead(p, {}, UnsentMsgs(c.inflight) \cup Msgs(c.queued))
  BY DEF Ahead
<1>4. InLine(p, e)
  BY <1>2, <1>3, EmptyList DEF InLine, c
<1>5. Lately(e) /\ Even(u, e)
  BY <1>2 DEF Lately, Even, c
<1> QED BY <1>2, <1>4, <1>5 DEF Ordered, e

\* do_disconnect, on a DISCONNECT or when the keepalive has run out
LEMMA EndOrder ==
    ASSUME TypeInv, OrderInv, NEW s \in Slot, db' = do_disconnect(db, s),
           UNCHANGED <<published, sub_qos>>
    PROVE  OrderInv'
<1> DEFINE p == Len(published)
<1>1. /\ db \in Databases(p) /\ InLine(published, db.ctx[s]) /\ Even(sub_qos, db.ctx[s])
      /\ Alike(sub_qos, db)
  BY DEF TypeInv, OrderInv, Ordered
<1> HIDE DEF p
<1>2. Ordered(published, sub_qos, db'.ctx[s]) /\ db'.retained = db.retained
  BY <1>1, EndedOrdered
<1>3. /\ db'.leaves = db.leaves
      /\ \A r \in Slot \ {s} : db'.ctx[r] = db.ctx[r]
      /\ db'.ctx[s].id = NoId \/ db'.ctx[s].id = db.ctx[s].id
  BY <1>1, DisconnectType, ZenonT(60) DEF Session
<1>4. \A r \in Slot : Ordered(published, sub_qos, db'.ctx[r])
  BY <1>2, <1>3 DEF OrderInv
<1>5. \A l \in db.leaves : l.slot \in Slot
  BY <1>1 DEF Databases, Leaf
<1>6. Alike(sub_qos, db')
  BY <1>1, <1>3, <1>5 DEF Alike
<1> QED BY <1>2, <1>4, <1>6, OrderKept

\* context__free_disused drops the messages of the contexts it frees.
LEMMA FreedOrder ==
    ASSUME TypeInv, OrderInv, context__free_disused
    PROVE  OrderInv'
<1>1. /\ FreedOnly(db, db', Disused) /\ UNCHANGED <<published, sub_qos>>
      /\ published \in Seq(Topic) /\ db \in Databases(Len(published))
  BY FreedDoes DEF context__free_disused, TypeInv
<1>2. NewContext.inflight = <<>> /\ NewContext.queued = <<>> /\ NewContext.out = <<>>
  BY DEF NewContext
<1>3. Ordered(published, sub_qos, NewContext)
  BY <1>1, <1>2, BlankOrdered
<1>4. \A r \in Slot : Ordered(published, sub_qos, db'.ctx[r])
  BY <1>1, <1>3 DEF OrderInv, FreedOnly
<1>5. NewContext.id = NoId
  BY DEF NewContext
<1>6. \A l \in db.leaves : l.slot \in Slot
  BY <1>1 DEF Databases, Leaf
<1>7. Alike(sub_qos, db')
  BY <1>1, <1>5, <1>6 DEF Alike, OrderInv, FreedOnly
<1>8. db'.retained = db.retained
  BY <1>1 DEF FreedOnly
<1> QED BY <1>1, <1>4, <1>7, <1>8, OrderKept

\* A step that moves the messages of one context only has to keep it in order.
LEMMA MovedOrder ==
    ASSUME TypeInv, OrderInv, NEW s \in Slot, OnlyMessages(db, db', s),
           UNCHANGED <<published, sub_qos>>, Ordered(published, sub_qos, db'.ctx[s])
    PROVE  OrderInv'
<1>1. SessionsStay(db, db') /\ db'.retained = db.retained
  BY SessionsStayFacts DEF OnlyMessages
<1>2. Alike(sub_qos, db) /\ db \in Databases(Len(published))
  BY DEF OrderInv, TypeInv
<1>3. Alike(sub_qos, db')
  BY <1>1, <1>2, AlikeStays
<1>4. \A r \in Slot : Ordered(published, sub_qos, db'.ctx[r])
  BY DEF OrderInv, OnlyMessages
<1> QED BY <1>1, <1>3, <1>4, OrderKept

\* The items of the queue go in flight while the quota lasts, and then all that
\* is to be sent is sent.
LEMMA FlushOrdered ==
    ASSUME NEW p, NEW u, NEW n, NEW d \in Databases(n), NEW s \in Slot, Connected(d.ctx[s]),
           InLine(p, d.ctx[s]), Behind(d.ctx[s].inflight), Even(u, d.ctx[s])
    PROVE  LET e == [d EXCEPT !.ctx[s] = db__message_write_queued_out(@)] IN
           Ordered(p, u, db__message_write_inflight_out_latest(e, s).ctx[s])
<1> DEFINE c == d.ctx[s]
           q == db__message_write_queued_out(c)
           e == [d EXCEPT !.ctx[s] = db__message_write_queued_out(@)]
           f == db__message_write_inflight_out_latest(e, s)
           g == f.ctx[s]
<1>1. c \in Context
  BY DEF Databases
<1>2. e \in Databases(n) /\ OnlyMessages(d, e, s)
  BY QueueWritten
<1>3. e.ctx[s] = q
  BY DEF Databases
<1>4. /\ InLine(p, q) /\ (Behind(c.inflight) => Behind(q.inflight))
      /\ (c.queued = <<>> => q.queued = <<>>)
  BY <1>1, QueueLined
<1> HIDE DEF e, q
<1>5. Connected(e.ctx[s]) /\ e.ctx[s].id = c.id
  BY <1>2 DEF OnlyMessages, Session, Connected
<1>6. InLine(p, g) /\ Flushed(g.inflight) /\ g.queued = q.queued
  BY <1>2, <1>3, <1>4, <1>5, LatestLined
<1>7. OnlyMessages(e, f, s)
  BY <1>2, LatestWritten
<1> HIDE DEF f
<1>8. g.id = c.id
  BY <1>5, <1>7 DEF OnlyMessages, Session
<1>9. Lately(g)
  BY <1>6, FlushedFacts DEF Lately
<1>10. Even(u, g)
  BY <1>4, <1>6, <1>8 DEF Even
<1> QED BY <1>6, <1>9, <1>10 DEF Ordered, e, f

\* handle__subscribe inserts the retained message, a copy of the newest one, and
\* sends what is to be sent.
LEMMA SubscribeOrder ==
    ASSUME TypeInv, SessionInv, QuotaInv, OrderInv, NEW n \in Node, NEW t \in Topic,
           NEW taken \in BOOLEAN, handle__subscribe(n, t, taken)
    PROVE  OrderInv'
<1> DEFINE s == link[n]
           k == Len(published)
           p == published
           qos == sub_qos[n]
           d == sub__add(db, s, t, qos)
           m == d.retained[t]
           e == retain__process(d, s, t, qos)
           moved == [e EXCEPT !.ctx[s] = db__message_write_queued_out(@)]
           latest == db__message_write_inflight_out_latest(moved, s)
<1>1. /\ db \in Databases(k) /\ k \in Nat /\ k <= MaxPublish
      /\ s \in Slot /\ qos \in {0, 1} /\ d \in Databases(k) /\ OnlyMessages(d, db', s)
  BY SubscribeType, LenProperties DEF TypeInv
<1>2. /\ db' = e \/ db' = latest
      /\ s # NoSlot /\ UNCHANGED <<published, sub_qos>>
  BY DEF handle__subscribe, Requests
<1>3. db.ctx[s].state = "active" /\ db.ctx[s].id = n /\ n # NoId
  BY <1>2, BrokerAssumption DEF SessionInv, Linked
<1>4. Alike(sub_qos, db) /\ Retains(p, db)
  BY DEF OrderInv
<1>5. AllBetter(db, d)
  BY <1>1, AddBetter
<1>6. SameLines(db, d) /\ Alike(sub_qos, d) /\ d.retained = db.retained
  <2>1. db.ctx[s].id # NoId /\ qos = sub_qos[db.ctx[s].id]
    BY <1>3
  <2> HIDE DEF s, k, qos
  <2> QED BY <1>1, <1>4, <2>1, AddOrder
<1> HIDE DEF d, s, k
<1>7. \A r \in Slot : Ordered(p, sub_qos, d.ctx[r])
  BY <1>6, SameOrdered DEF OrderInv, SameLines
<1>8. Proper(p, sub_qos, d.ctx[s]) /\ d.ctx[s].state = "active" /\ d.ctx[s].id = n
  BY <1>1, <1>3, <1>5, <1>6, <1>7 DEF Proper, AllBetter, Better, QuotaInv, SameLine, SameLines
<1>9. OnlyMessages(d, e, s) /\ e \in Databases(k)
  BY <1>1, CopyType
<1>10. Proper(p, sub_qos, e.ctx[s])
  <2>1. CASE m = NoMessage
    BY <1>8, <2>1 DEF retain__process
  <2>2. CASE m # NoMessage
    <3>1. m \in 0..k
      BY <1>1 DEF Databases
    <3>2. m \in 1..k /\ m \in 1..MaxPublish
      BY <1>1, <2>2, <3>1, BrokerAssumption DEF NoMessage
    <3>3. p[m] = t /\ \A x \in 1..Len(p) : x <= db.retained[p[x]]
      BY <1>4, <1>6, <2>2 DEF Retains
    <3>4. Newest(p, m)
      BY <1>6, <3>2, <3>3 DEF Newest, k
    <3>5. TRUE \in BOOLEAN /\ FALSE \in BOOLEAN
      OBVIOUS
    <3>6. e = Offered(d, s, m, qos, TRUE, FALSE)
      BY <2>2 DEF retain__process
    <3> HIDE DEF m, e
    <3>7. Proper(p, sub_qos, Offered(d, s, m, qos, TRUE, FALSE).ctx[s])
      BY <1>1, <1>8, <3>2, <3>4, <3>5, OfferedProper
    <3> QED BY <3>6, <3>7
  <2> QED BY <2>1, <2>2
<1> HIDE DEF e
<1>11. Connected(e.ctx[s])
  BY <1>8, <1>9 DEF OnlyMessages, Session, Connected
<1>12. InLine(p, e.ctx[s]) /\ Behind(e.ctx[s].inflight) /\ Even(sub_qos, e.ctx[s])
  BY <1>10, <1>11 DEF Proper, Ordered, Lately, Connected
<1>13. Ordered(p, sub_qos, latest.ctx[s])
  BY <1>1, <1>9, <1>11, <1>12, FlushOrdered
<1> HIDE DEF latest
<1>14. Ordered(p, sub_qos, db'.ctx[s])
  BY <1>2, <1>10, <1>13 DEF Proper
<1>15. \A r \in Slot \ {s} : Ordered(p, sub_qos, db'.ctx[r])
  BY <1>1, <1>7 DEF OnlyMessages
<1>16. Alike(sub_qos, db') /\ db'.retained = db.retained
  <2>1. SessionsStay(d, db') /\ db'.retained = d.retained
    BY <1>1, SessionsStayFacts DEF OnlyMessages
  <2>2. Alike(sub_qos, db')
    BY <1>1, <1>6, <2>1, AlikeStays
  <2> QED BY <1>6, <2>1, <2>2
<1> QED BY <1>2, <1>14, <1>15, <1>16, OrderKept

\* A node takes the first packet on its way: the line behind it stays in order.
LEMMA ReceivesOrder ==
    ASSUME TypeInv, OrderInv, NEW n \in Node, NodeReceives(n)
    PROVE  OrderInv'
<1> DEFINE s == link[n]
           p == published
           c == db.ctx[s]
           e == db'.ctx[s]
           o == Tail(c.out)
<1>1. s \in Slot /\ OnlyMessages(db, db', s)
  BY ReceivesType
<1>2. /\ c.out # <<>> /\ db' = [db EXCEPT !.ctx[s].out = Tail(@)]
      /\ UNCHANGED <<published, sub_qos>>
  BY DEF NodeReceives
<1>3. c \in Context /\ db.ctx \in [Slot -> Context] /\ Ordered(p, sub_qos, c)
  BY <1>1 DEF TypeInv, Databases, OrderInv
<1>4. e = [c EXCEPT !.out = o]
  BY <1>1, <1>2 DEF TypeInv, Databases
<1> HIDE DEF s, c, e, p
<1>5. /\ e.inflight = c.inflight /\ e.queued = c.queued
      /\ e.state = c.state /\ e.id = c.id /\ e.out = o
  BY <1>3, <1>4 DEF Context
<1>6. c.out \in Seq(Item)
  BY <1>3 DEF Context
<1>7. PICK f : Thinned(c.out, o, f)
  BY <1>2, <1>6, TailThinned
<1> HIDE DEF o
<1>8. Msgs(o) \subseteq Msgs(c.out) /\ (Sorted(p, c.out) => Sorted(p, o))
  BY <1>7, ThinnedSorted
<1>9. InLine(p, e)
  <2>1. Ahead(p, Msgs(c.out), UnsentMsgs(c.inflight) \cup Msgs(c.queued))
    BY <1>3 DEF Ordered, InLine
  <2>2. Ahead(p, Msgs(o), UnsentMsgs(c.inflight) \cup Msgs(c.queued))
    BY <1>8, <2>1, AheadLess
  <2> QED BY <1>3, <1>5, <1>8, <2>2 DEF Ordered, InLine
<1>10. Lately(e) /\ Even(sub_qos, e)
  BY <1>3, <1>5 DEF Ordered, Lately, Even
<1>11. Ordered(p, sub_qos, e)
  BY <1>9, <1>10 DEF Ordered
<1> QED BY <1>1, <1>2, <1>11, MovedOrder DEF p, e

\* The item of an acknowledged packet leaves the list.
LEMMA WithoutOrdered ==
    ASSUME NEW p, NEW u, NEW n, NEW d \in Databases(n), NEW s \in Slot, NEW mid,
           InLine(p, d.ctx[s]), Behind(d.ctx[s].inflight), Even(u, d.ctx[s])
    PROVE  LET e == WithoutMid(d, s, mid).ctx[s] IN
           InLine(p, e) /\ Behind(e.inflight) /\ Even(u, e)
<1> DEFINE c == d.ctx[s]
           e == WithoutMid(d, s, mid).ctx[s]
<1>1. c \in Context /\ c.inflight \in Seq(Item)
  BY DEF Databases, Context
<1>2. CASE \A j \in 1..Len(c.inflight) : c.inflight[j].mid # mid
  <2>1. DOMAIN c.inflight = 1..Len(c.inflight)
    BY <1>1, LenProperties
  <2>2. {i \in DOMAIN c.inflight : c.inflight[i].mid = mid} = {}
    BY <1>2, <2>1
  <2>3. e = c
    BY <2>2 DEF WithoutMid
  <2> HIDE DEF c, e
  <2> QED BY <2>3 DEF c, e
<1>3. CASE \E j \in 1..Len(c.inflight) : c.inflight[j].mid = mid
  <2>1. TakenOut(c, mid, e)
    BY <1>3, WithoutMidDoes
  <2> HIDE DEF e
  <2>2. PICK i \in 1..Len(c.inflight) : e = [c EXCEPT !.inflight = RemoveAt(c.inflight, i)]
    BY <2>1 DEF TakenOut
  <2> DEFINE q == RemoveAt(c.inflight, i)
  <2>3. e.inflight = q /\ e.queued = c.queued /\ e.out = c.out /\ e.id = c.id
    BY <1>1, <2>2 DEF Context
  <2>4. PICK f : Thinned(c.inflight, q, f) /\ \A j \in 1..Len(q) : q[j] = c.inflight[f[j]]
    BY <1>1, RemovedThinned
  <2> HIDE DEF q, c
  <2>5. Msgs(q) \subseteq Msgs(c.inflight) /\ (Sorted(p, c.inflight) => Sorted(p, q))
    BY <2>4, ThinnedSorted
  <2>6. /\ UnsentMsgs(q) \subseteq UnsentMsgs(c.inflight)
        /\ Behind(c.inflight) => Behind(q)
        /\ Underway(c.inflight) => Underway(q)
    BY <2>4, ThinnedStates
  <2>7. InLine(p, c) /\ Behind(c.inflight) /\ Even(u, c)
    BY DEF c
  <2>8. Ahead(p, Msgs(q), Msgs(c.queued))
    <3>1. Ahead(p, Msgs(c.inflight), Msgs(c.queued))
      BY <2>7 DEF InLine
    <3> QED BY <2>5, <3>1, AheadLess
  <2>9. Ahead(p, Msgs(c.out), UnsentMsgs(q) \cup Msgs(c.queued))
    <3>1. Ahead(p, Msgs(c.out), UnsentMsgs(c.inflight) \cup Msgs(c.queued))
      BY <2>7 DEF InLine
    <3>2. UnsentMsgs(q) \cup Msgs(c.queued) \subseteq UnsentMsgs(c.inflight) \cup Msgs(c.queued)
      BY <2>6
    <3> QED BY <3>1, <3>2, AheadLess
  <2>10. InLine(p, e)
    BY <2>3, <2>5, <2>6, <2>7, <2>8, <2>9 DEF InLine
  <2>11. Behind(e.inflight) /\ Even(u, e)
    BY <2>3, <2>6, <2>7 DEF Even
  <2> QED BY <2>10, <2>11 DEF e
<1> QED BY <1>2, <1>3

\* handle__pubackcomp removes an item, and the queue moves on.
LEMMA PubackOrder ==
    ASSUME TypeInv, OrderInv, NEW s \in Slot, handle__pubackcomp(s)
    PROVE  OrderInv'
<1> DEFINE c == db.ctx[s]
           quota == IF c.quota < InflightMax THEN c.quota + 1 ELSE c.quota
           x == [c EXCEPT !.quota = quota]
           d == [db EXCEPT !.ctx[s].quota = quota]
           k == Len(published)
           mid == Head(acks[s])
           e == WithoutMid(d, s, mid)
<1>1. /\ Connected(c) /\ UNCHANGED <<published, sub_qos>>
      /\ db' = db__message_delete_outgoing(d, s, mid)
  BY DEF handle__pubackcomp
<1>2. OnlyMessages(db, db', s)
  BY PubackType
<1>3. db \in Databases(k) /\ c \in Context /\ c.quota \in 0..InflightMax
  BY DEF TypeInv, Databases, Context
<1>4. quota \in 0..InflightMax
  BY <1>3, BrokerAssumption
<1>5. d = [db EXCEPT !.ctx[s] = x]
  BY <1>3 DEF Databases
<1> HIDE DEF quota, k, mid, d
<1>6. x \in Context /\ SameLine(c, x)
  BY <1>3, <1>4, ContextChanges DEF Context, SameLine
<1>7. Ordered(published, sub_qos, x)
  BY <1>6, SameOrdered DEF OrderInv, SameLines
<1> HIDE DEF x
<1>8. d \in Databases(k) /\ d.ctx[s] = x
  BY <1>3, <1>5, <1>6, ContextReplaced
<1>9. x.state = "active"
  BY <1>1, <1>6 DEF SameLine, Connected
<1>10. InLine(published, x) /\ Behind(x.inflight) /\ Even(sub_qos, x)
  BY <1>7, <1>9 DEF Ordered, Lately
<1>11. /\ InLine(published, e.ctx[s]) /\ Behind(e.ctx[s].inflight)
       /\ Even(sub_qos, e.ctx[s])
  BY <1>8, <1>10, WithoutOrdered
<1>12. e \in Databases(k) /\ OnlyMessages(d, e, s)
  BY <1>8, WithoutMidType
<1> HIDE DEF e
<1>13. Connected(e.ctx[s])
  BY <1>8, <1>9, <1>12 DEF OnlyMessages, Session, Connected
<1>14. Ordered(published, sub_qos, db__message_delete_outgoing(d, s, mid).ctx[s])
  BY <1>11, <1>12, <1>13, FlushOrdered DEF db__message_delete_outgoing, e
<1> QED BY <1>1, <1>2, <1>14, MovedOrder

(* A connection: what the new context inherits is in order. *)

\* A context nothing is on its way to
Silent(p, c) == InLine(p, c) /\ c.out = <<>>

\* db__message_reconnect_reset: all that was in flight is to be sent again, in
\* the order in which it was sent.
LEMMA ResetLined ==
    ASSUME NEW p, NEW c \in Context, Silent(p, c)
    PROVE  LET e == db__message_reconnect_reset(c) IN
           Silent(p, e) /\ (c.queued = <<>> => e.queued = <<>>)
<1> DEFINE N == Len(c.inflight)
           again == [i \in DOMAIN c.inflight |-> [c.inflight[i] EXCEPT !.state = "publish"]]
           counted == {i \in DOMAIN again : again[i].qos > 0}
           used == Cardinality(counted)
           quota == IF used > InflightMax THEN 0 ELSE InflightMax - used
           one == [c EXCEPT !.inflight = again]
           two == [one EXCEPT !.quota = quota]
           e == db__message_write_queued_out(two)
<1>1. /\ c.inflight \in Seq(Item) /\ N \in Nat /\ DOMAIN c.inflight = 1..N /\ N \in 0..N
  BY LenProperties DEF Context
<1>2. again = Resent(c.inflight, N)
  BY <1>1 DEF Resent
<1>3. used \in Nat
  <2>1. DOMAIN again = 1..N
    BY <1>1
  <2> HIDE DEF again
  <2>2. counted \subseteq 1..N /\ IsFiniteSet(1..N)
    BY <1>1, <2>1, FirstNumbers
  <2> HIDE DEF counted
  <2> QED BY <2>2, FS_Subset, FS_CardinalityType
<1>4. db__message_reconnect_reset(c) = e
  BY DEF db__message_reconnect_reset, Context
<1> HIDE DEF again, used
<1>5. quota \in 0..InflightMax
  BY <1>3, BrokerAssumption
<1> HIDE DEF quota
<1>6. /\ again \in Seq(Item) /\ Len(again) = N
      /\ \A i \in 1..N : again[i].state = "publish"
      /\ Msgs(again) \subseteq Msgs(c.inflight)
  BY <1>1, <1>2, SplitLined
<1>7. Sorted(p, c.inflight) => Sorted(p, again)
  BY <1>1, <1>2, SplitLined
<1>8. one \in Context /\ one.queued = c.queued /\ one.out = c.out /\ one.inflight = again
  BY <1>6, ContextChanges DEF Context
<1> HIDE DEF one
<1>9. two \in Context /\ two.queued = c.queued /\ two.out = c.out /\ two.inflight = again
  BY <1>5, <1>8, ContextChanges DEF Context
<1> HIDE DEF two, N
<1>10. InLine(p, c) /\ c.out = <<>>
  BY DEF Silent
<1>11. Ahead(p, Msgs(again), Msgs(c.queued))
  <2>1. Ahead(p, Msgs(c.inflight), Msgs(c.queued))
    BY <1>10 DEF InLine
  <2> QED BY <1>6, <2>1, AheadLess
<1>12. Ahead(p, Msgs(<<>>), UnsentMsgs(again) \cup Msgs(c.queued))
  BY EmptyList DEF Ahead
<1>13. Underway(again)
  BY <1>6 DEF Underway
<1>14. InLine(p, two)
  BY <1>6, <1>7, <1>9, <1>10, <1>11, <1>12, <1>13 DEF InLine
<1>15. InLine(p, e) /\ e.out = two.out /\ (two.queued = <<>> => e.queued = <<>>)
  BY <1>9, <1>14, QueueLined
<1> HIDE DEF e
<1> QED BY <1>4, <1>9, <1>10, <1>15 DEF Silent

\* A context that inherits a session's messages resends them in order.
LEMMA InheritedLined ==
    ASSUME NEW p, NEW c \in Context, NEW old \in Context, Blank(c), InLine(p, old)
    PROVE  /\ Silent(p, Inherited(c, old))
           /\ old.queued = <<>> => Inherited(c, old).queued = <<>>
<1> DEFINE listed == [c EXCEPT !.subs = old.subs]
           fresh == [listed EXCEPT !.last_mid = old.last_mid]
           half == [fresh EXCEPT !.inflight = old.inflight]
           full == [half EXCEPT !.queued = old.queued]
<1>1. /\ old.subs \in SUBSET Topic /\ old.last_mid \in Mid
      /\ old.inflight \in Seq(Item) /\ old.queued \in Seq(Item)
  BY DEF Context
<1>2. fresh = BookkeepingMoved(c, old)
  BY DEF BookkeepingMoved, Context
<1>3. listed \in Context /\ Blank(listed)
  BY <1>1, SessionChanges DEF Context, Blank
<1> HIDE DEF listed
<1>4. fresh \in Context /\ Blank(fresh)
  BY <1>1, <1>3, ContextChanges DEF Context, Blank
<1> HIDE DEF fresh
<1>5. half \in Context /\ half.inflight = old.inflight /\ half.out = <<>>
  BY <1>1, <1>4, ContextChanges DEF Context, Blank
<1>6. full = [fresh EXCEPT !.inflight = old.inflight, !.queued = old.queued]
  BY <1>4 DEF Context
<1> HIDE DEF half
<1>7. /\ full \in Context /\ full.inflight = old.inflight /\ full.out = <<>>
      /\ full.queued = old.queued
  BY <1>1, <1>5, ContextChanges DEF Context
<1>8. Inherited(c, old) = IF old.inflight = <<>> /\ old.queued = <<>> THEN fresh
                          ELSE db__message_reconnect_reset(full)
  BY <1>2, <1>6 DEF Inherited
<1> HIDE DEF full
<1>9. Silent(p, full)
  <2>1. Ahead(p, Msgs(<<>>), UnsentMsgs(old.inflight) \cup Msgs(old.queued))
    BY EmptyList DEF Ahead
  <2>2. InLine(p, full)
    BY <1>7, <2>1, EmptyList DEF InLine
  <2> QED BY <1>7, <2>2 DEF Silent
<1> DEFINE again == db__message_reconnect_reset(full)
<1>10. Silent(p, again) /\ (full.queued = <<>> => again.queued = <<>>)
  BY <1>7, <1>9, ResetLined
<1>11. Silent(p, fresh) /\ fresh.queued = <<>>
  <2>1. Ordered(p, 0, fresh)
    BY <1>4, BlankOrdered DEF Blank
  <2> QED BY <1>4, <2>1 DEF Ordered, Silent, Blank
<1> HIDE DEF again
<1> QED BY <1>7, <1>8, <1>10, <1>11 DEF again

\* Context s takes over from f: what it inherits waits for it only if f had a
\* queue, and f is done with.
Handed(p, u, d, e, s, f) ==
    /\ Silent(p, e.ctx[s]) /\ (d.ctx[f].queued = <<>> => e.ctx[s].queued = <<>>)
    /\ Ordered(p, u, e.ctx[f]) /\ e.retained = d.retained

\* A takeover: what was in flight and queued goes to the new context, what was
\* on its way is lost with the old connection.
LEMMA TakenOverLined ==
    ASSUME NEW p, NEW u, NEW n, NEW d \in Databases(n), NEW s \in Slot, NEW f \in Slot, s # f,
           Blank(d.ctx[s]), InLine(p, d.ctx[s]), InLine(p, d.ctx[f]), Even(u, d.ctx[f])
    PROVE  Handed(p, u, d, TakenOver(d, s, f), s, f)
<1> DEFINE g == IF ~d.ctx[s].clean /\ ~d.ctx[f].clean THEN SessionMoved(d, s, f)
                ELSE IF d.ctx[s].clean THEN sub__clean_session(d, f) ELSE d
           ends == [g.ctx[f] EXCEPT !.clean = TRUE]
           h == [g EXCEPT !.ctx[f] = ends]
           e == TakenOver(d, s, f)
           Taken(c) == Silent(p, c) /\ (d.ctx[f].queued = <<>> => c.queued = <<>>)
           Left(c) == InLine(p, c) /\ Even(u, c)
<1>1. d.ctx[s] \in Context /\ d.ctx[f] \in Context
  BY DEF Databases
<1>2. Taken(d.ctx[s]) /\ Left(d.ctx[f])
  BY DEF Silent, Blank
<1>3. g \in Databases(n) /\ Taken(g.ctx[s]) /\ Left(g.ctx[f]) /\ g.retained = d.retained
  <2>1. CASE ~d.ctx[s].clean /\ ~d.ctx[f].clean
    <3>1. g = SessionMoved(d, s, f)
      BY <2>1
    <3>2. SessionMoved(d, s, f).retained = d.retained
      BY DEF SessionMoved, ContextMoved, Databases
    <3> HIDE DEF g
    <3>3. g \in Databases(n) /\ g.ctx = ContextMoved(d, s, f).ctx
      BY <3>1, SessionMovedType
    <3>4. g.ctx[s] = Inherited(d.ctx[s], d.ctx[f]) /\ g.ctx[f] = HandedOver(d.ctx[f])
      BY <3>3, MovedDoes
    <3>5. Taken(Inherited(d.ctx[s], d.ctx[f]))
      BY <1>1, InheritedLined
    <3>6. Left(HandedOver(d.ctx[f]))
      <4> DEFINE old == d.ctx[f]
                 c == HandedOver(old)
      <4>1. c.inflight = <<>> /\ c.queued = <<>> /\ c.out = old.out
        BY <1>1 DEF HandedOver, Context
      <4> HIDE DEF c
      <4>2. \A A : Ahead(p, A, {}) /\ Ahead(p, {}, A)
        BY DEF Ahead
      <4>3. InLine(p, c)
        BY <1>2, <4>1, <4>2, EmptyList DEF InLine
      <4> QED BY <4>1, <4>3 DEF Even, c
    <3> HIDE DEF Taken, Left
    <3> QED BY <3>1, <3>2, <3>3, <3>4, <3>5, <3>6
  <2>2. CASE ~(~d.ctx[s].clean /\ ~d.ctx[f].clean) /\ d.ctx[s].clean
    <3>1. g = sub__clean_session(d, f)
      BY <2>2
    <3>2. /\ sub__clean_session(d, f).ctx[f].inflight = d.ctx[f].inflight
          /\ sub__clean_session(d, f).ctx[f].queued = d.ctx[f].queued
          /\ sub__clean_session(d, f).ctx[f].out = d.ctx[f].out
          /\ sub__clean_session(d, f).ctx[f].id = d.ctx[f].id
          /\ sub__clean_session(d, f).retained = d.retained
      BY <1>1 DEF sub__clean_session, Databases, Context
    <3> HIDE DEF g
    <3>3. g \in Databases(n) /\ g.ctx[s] = d.ctx[s]
      BY <3>1, CleanType
    <3>4. Left(g.ctx[f])
      BY <1>2, <3>1, <3>2 DEF InLine, Even
    <3> HIDE DEF Taken, Left
    <3> QED BY <1>2, <3>1, <3>2, <3>3, <3>4
  <2>3. CASE ~(~d.ctx[s].clean /\ ~d.ctx[f].clean) /\ ~d.ctx[s].clean
    <3>1. g = d
      BY <2>3
    <3> HIDE DEF g, Taken, Left
    <3> QED BY <1>2, <3>1
  <2> HIDE DEF g, Taken, Left
  <2> QED BY <2>1, <2>2, <2>3
<1>4. e = do_disconnect(h, f)
  <2>1. g \in Databases(n)
    BY <1>3
  <2>2. e = do_disconnect([g EXCEPT !.ctx[f].clean = TRUE], f)
    BY DEF TakenOver
  <2> HIDE DEF g, e
  <2>3. [g EXCEPT !.ctx[f].clean = TRUE] = h
    BY <2>1 DEF Databases, Context
  <2> QED BY <2>2, <2>3
<1> HIDE DEF g
<1>5. g.ctx[f] \in Context
  BY <1>3 DEF Databases
<1>6. ends \in Context /\ Left(ends)
  <2>1. /\ ends.inflight = g.ctx[f].inflight /\ ends.queued = g.ctx[f].queued
        /\ ends.out = g.ctx[f].out /\ ends.id = g.ctx[f].id
    BY <1>5 DEF Context
  <2>2. ends \in Context
    BY <1>5, SessionChanges
  <2> HIDE DEF ends
  <2> QED BY <1>3, <2>1, <2>2 DEF InLine, Even
<1> HIDE DEF ends
<1>7. /\ h \in Databases(n) /\ h.ctx[f] = ends /\ h.ctx[s] = g.ctx[s]
      /\ h.retained = g.retained
  BY <1>3, <1>6, ContextReplaced
<1> HIDE DEF h
<1>8. Ordered(p, u, do_disconnect(h, f).ctx[f]) /\ do_disconnect(h, f).retained = h.retained
  BY <1>6, <1>7, EndedOrdered
<1>9. do_disconnect(h, f).ctx[s] = h.ctx[s]
  <2>1. s \in Slot \ {f}
    OBVIOUS
  <2>2. \A r \in Slot \ {f} : do_disconnect(h, f).ctx[r] = h.ctx[r]
    BY <1>7, DisconnectType
  <2> QED BY <2>1, <2>2
<1> HIDE DEF e
<1> QED BY <1>3, <1>4, <1>7, <1>8, <1>9 DEF e, Handed

\* The new context's line is in order; all others are as they were or have
\* given way.
AllOrdered(p, u, d) == \A q \in Slot : Ordered(p, u, d.ctx[q])

LEMMA ConnectedLined ==
    ASSUME NEW p, NEW u, NEW n, NEW d \in Databases(n), NEW s \in Slot, NEW m \in Node,
           Blank(d.ctx[s]), AllOrdered(p, u, d)
    PROVE  /\ AllOrdered(p, u, connect__on_authorised(d, s, m))
           /\ connect__on_authorised(d, s, m).retained = d.retained
<1> DEFINE e == Cleared(d, s, m)
           c == e.ctx[s]
           one == [c EXCEPT !.state = "active"]
           two == [one EXCEPT !.id = m]
           active == [e EXCEPT !.ctx[s] = two]
           moved == [active EXCEPT !.ctx[s] = db__message_write_queued_out(@)]
           r == connect__on_authorised(d, s, m)
           Fit(x) == Silent(p, x) /\ (x.queued # <<>> => u[m] = 1)
<1>0. \A q \in Slot : Ordered(p, u, d.ctx[q])
  BY DEF AllOrdered
<1>1. /\ e \in Databases(n)
      /\ \A q \in Slot \ {s} : r.ctx[q] = e.ctx[q]
      /\ r.ctx[s].id = m
  BY ConnectedType, SMTT(30) DEF NowActive, Session
<1>2. /\ Fit(c) /\ e.retained = d.retained
      /\ \A q \in Slot \ {s} : Ordered(p, u, e.ctx[q])
  <2>1. CASE e = d
    <3>1. Fit(d.ctx[s])
      BY <1>0 DEF Blank, Silent, Ordered
    <3> HIDE DEF e, Fit
    <3> QED BY <1>0, <2>1, <3>1
  <2>2. ASSUME NEW f \in Slot \ {s}, d.ctx[f].id = m, e = TakenOver(d, s, f)
        PROVE  /\ Fit(c) /\ e.retained = d.retained
               /\ \A q \in Slot \ {s} : Ordered(p, u, e.ctx[q])
    <3> HIDE DEF e
    <3>1. f \in Slot /\ s # f
      OBVIOUS
    <3>2. InLine(p, d.ctx[s]) /\ InLine(p, d.ctx[f]) /\ Even(u, d.ctx[f])
      BY <1>0 DEF Ordered
    <3>3. Handed(p, u, d, e, s, f)
      BY <2>2, <3>1, <3>2, TakenOverLined
    <3>4. GivenWay(d, e, s, f)
      BY <2>2, <3>1, TakenOverType
    <3>5. \A q \in Slot \ {s, f} : e.ctx[q] = d.ctx[q]
      BY <3>4 DEF GivenWay
    <3>6. d.ctx[f].queued # <<>> => u[m] = 1
      BY <2>2, <3>2, BrokerAssumption DEF Even
    <3> QED BY <1>0, <3>3, <3>5, <3>6 DEF Handed
  <2>3. e = d \/ \E f \in Slot \ {s} : d.ctx[f].id = m /\ e = TakenOver(d, s, f)
    BY ClearedFacts
  <2> HIDE DEF e, Fit
  <2> QED BY <2>1, <2>2, <2>3
<1>3. r = db__message_write_inflight_out_all(moved, s)
  <2>1. c \in Context
    BY <1>1 DEF Databases
  <2>2. [e EXCEPT !.ctx[s].state = "active", !.ctx[s].id = m] = active
    BY <1>1, <2>1 DEF Databases, Context
  <2> HIDE DEF active
  <2>3. r = db__message_write_inflight_out_all(
              [[e EXCEPT !.ctx[s].state = "active", !.ctx[s].id = m]
                  EXCEPT !.ctx[s] = db__message_write_queued_out(@)], s)
    BY DEF connect__on_authorised, Cleared
  <2> HIDE DEF r, e
  <2> QED BY <2>2, <2>3
<1> HIDE DEF e, r
<1>4. c \in Context /\ "active" \in ContextState
  BY <1>1 DEF Databases, ContextState
<1> HIDE DEF c
<1>5. one \in Context /\ one.state = "active"
  BY <1>4, SessionChanges DEF Context
<1>6. two \in Context
  BY <1>5, SessionChanges
<1>7. /\ two.inflight = c.inflight /\ two.queued = c.queued /\ two.out = c.out
      /\ two.state = "active"
  BY <1>4, <1>5 DEF Context
<1> HIDE DEF one, two
<1>8. Fit(two) /\ Connected(two)
  BY <1>2, <1>7 DEF Silent, InLine, Connected
<1>9. /\ active \in Databases(n) /\ active.ctx[s] = two /\ active.retained = e.retained
  BY <1>1, <1>6, ContextReplaced
<1> HIDE DEF active
<1> DEFINE three == db__message_write_queued_out(two)
<1>10. /\ moved \in Databases(n) /\ OnlyMessages(active, moved, s)
  BY <1>9, QueueWritten
<1>11. moved.ctx[s] = three
  BY <1>9 DEF Databases
<1>12. InLine(p, three) /\ (two.queued = <<>> => three.queued = <<>>)
  BY <1>6, <1>8, QueueLined DEF Silent
<1> HIDE DEF moved, three
<1>13. Connected(moved.ctx[s])
  BY <1>8, <1>9, <1>10 DEF OnlyMessages, Session, Connected
<1> DEFINE first == 1
           w == WrittenFrom(moved, s, first)
<1>14. r = w
  BY <1>3 DEF db__message_write_inflight_out_all
<1>15. InLine(p, w.ctx[s]) /\ Flushed(w.ctx[s].inflight) /\ w.ctx[s].queued = three.queued
  <2>1. SentBefore(moved.ctx[s].inflight, first)
    BY DEF SentBefore
  <2>2. InLine(p, moved.ctx[s]) /\ moved.ctx[s].queued = three.queued
    BY <1>11, <1>12
  <2> HIDE DEF first
  <2>3. /\ InLine(p, w.ctx[s]) /\ Flushed(w.ctx[s].inflight)
        /\ w.ctx[s].queued = moved.ctx[s].queued
    BY <1>10, <1>13, <2>1, <2>2, WrittenLined
  <2> QED BY <2>2, <2>3
<1>16. w.retained = moved.retained
  BY <1>10, AllWritten DEF OnlyMessages
<1> HIDE DEF w
<1>17. Lately(r.ctx[s])
  BY <1>14, <1>15, FlushedFacts DEF Lately
<1>18. Even(u, r.ctx[s])
  BY <1>1, <1>8, <1>12, <1>14, <1>15 DEF Even
<1>19. Ordered(p, u, r.ctx[s])
  BY <1>14, <1>15, <1>17, <1>18 DEF Ordered
<1>20. r.retained = d.retained
  BY <1>2, <1>9, <1>10, <1>14, <1>16 DEF OnlyMessages
<1>21. AllOrdered(p, u, r)
  BY <1>1, <1>2, <1>19 DEF AllOrdered
<1> QED BY <1>20, <1>21 DEF r

\* handle__connect: a session taken over is resent in order, and its leaves keep
\* their QoS in the new context.
LEMMA ConnectOrder ==
    ASSUME TypeInv, SessionInv, QuotaInv, OrderInv, NEW n \in Node, NEW clean \in BOOLEAN,
           handle__connect(n, clean)
    PROVE  OrderInv'
<1> DEFINE s == Min(FreeSlots)
           d == [db EXCEPT !.ctx[s].clean = clean]
           k == Len(published)
           e == Cleared(d, s, n)
           r == connect__on_authorised(d, s, n)
<1>1. /\ s \in Slot /\ db.ctx[s].state = "free"
      /\ d \in Databases(k) /\ db \in Databases(k) /\ d.leaves = db.leaves
      /\ \A q \in Slot \ {s} : d.ctx[q] = db.ctx[q]
      /\ db' = r
  BY ConnectType DEF FreeSlots, TypeInv
<1>2. UNCHANGED <<published, sub_qos>> /\ n # NoId
  BY BrokerAssumption DEF handle__connect
<1>3. d.retained = db.retained /\ d.ctx[s] = [db.ctx[s] EXCEPT !.clean = clean]
  BY <1>1 DEF Databases
<1> HIDE DEF s, k
<1>4. Blank(d.ctx[s])
  <2>1. Blank(db.ctx[s])
    BY <1>1 DEF QuotaInv, Sound, Blank
  <2>2. db.ctx[s] \in Context
    BY <1>1 DEF Databases
  <2> HIDE DEF d
  <2> QED BY <1>3, <2>1, <2>2 DEF Blank, Context
<1> HIDE DEF d
<1>5. \A q \in Slot : Ordered(published, sub_qos, d.ctx[q])
  <2>1. Ordered(published, sub_qos, d.ctx[s])
    BY <1>4, BlankOrdered DEF Blank
  <2> QED BY <1>1, <2>1 DEF OrderInv
<1>6. (\A q \in Slot : Ordered(published, sub_qos, r.ctx[q])) /\ r.retained = d.retained
  <2>1. AllOrdered(published, sub_qos, d)
    BY <1>5 DEF AllOrdered
  <2>2. AllOrdered(published, sub_qos, r) /\ r.retained = d.retained
    BY <1>1, <1>4, <2>1, ConnectedLined
  <2> QED BY <2>2 DEF AllOrdered
<1>7. /\ e \in Databases(k) /\ r.leaves = e.leaves
      /\ \A q \in Slot \ {s} : r.ctx[q] = e.ctx[q]
      /\ r.ctx[s].id = n
  BY <1>1, ConnectedType, SMTT(30) DEF NowActive, Session
<1> HIDE DEF r
<1>8. \A l \in db.leaves : l.slot \in Slot /\ l.slot # s
  <2>1. db.ctx[s].subs = {}
    BY <1>1 DEF SessionInv, Named
  <2> QED BY <1>1, <2>1 DEF SessionInv, Listed, Databases, Leaf
<1>9. Alike(sub_qos, r)
  <2>1. CASE e = d
    <3> HIDE DEF e
    <3> QED BY <1>1, <1>7, <1>8, <2>1 DEF Alike, OrderInv
  <2>2. ASSUME NEW f \in Slot \ {s}, d.ctx[f].id = n, e = TakenOver(d, s, f)
        PROVE  Alike(sub_qos, r)
    <3> HIDE DEF e
    <3>1. f \in Slot /\ f # s /\ db.ctx[f].id = n
      BY <1>1, <2>2
    <3>2. GivenWay(d, e, s, f)
      BY <1>1, <2>2, <3>1, TakenOverType
    <3>3. /\ \A q \in Slot \ {s, f} : e.ctx[q] = d.ctx[q]
          /\ e.ctx[f].id = NoId
      BY <3>2 DEF GivenWay, Session
    <3>4. \/ e.leaves = Relinked(d.leaves, d.ctx[f].subs, s, f)
          \/ e.leaves = Cleaned(d.leaves, d.ctx[f].subs, f)
          \/ e.leaves = d.leaves
      BY <3>2 DEF GivenWay
    <3>5. \A l \in e.leaves : \/ l \in db.leaves
                              \/ /\ l.slot = s
                                 /\ \E leaf \in db.leaves : leaf.slot = f /\ l.qos = leaf.qos
      <4> SUFFICES ASSUME NEW l \in e.leaves, l \notin db.leaves
                   PROVE  /\ l.slot = s
                          /\ \E leaf \in db.leaves : leaf.slot = f /\ l.qos = leaf.qos
        OBVIOUS
      <4>1. e.leaves = Relinked(d.leaves, d.ctx[f].subs, s, f)
        BY <1>1, <3>4 DEF Cleaned
      <4>2. PICK leaf \in db.leaves : leaf.slot = f /\ l = [leaf EXCEPT !.slot = s]
        BY <1>1, <4>1 DEF Relinked
      <4>3. l.slot = s /\ l.qos = leaf.qos
        BY <1>1, <4>2 DEF Databases, Leaf
      <4> QED BY <4>2, <4>3
    <3>6. ASSUME NEW l \in e.leaves, r.ctx[l.slot].id # NoId
          PROVE  l.qos = sub_qos[r.ctx[l.slot].id]
      <4>1. CASE l \in db.leaves
        <5>1. l.slot \in Slot /\ l.slot # s /\ l.slot # f
          BY <1>7, <1>8, <3>1, <3>3, <3>6, <4>1
        <5>2. r.ctx[l.slot] = db.ctx[l.slot]
          BY <1>1, <1>7, <3>3, <5>1
        <5> QED BY <3>6, <4>1, <5>2 DEF Alike, OrderInv
      <4>2. CASE l \notin db.leaves
        <5>1. PICK leaf \in db.leaves : leaf.slot = f /\ l.qos = leaf.qos
          BY <3>5, <4>2
        <5>2. l.slot = s
          BY <3>5, <4>2
        <5>3. leaf.qos = sub_qos[n]
          BY <1>2, <3>1, <5>1 DEF Alike, OrderInv
        <5> QED BY <1>7, <5>1, <5>2, <5>3
      <4> QED BY <4>1, <4>2
    <3> QED BY <1>7, <3>6 DEF Alike
  <2>3. e = d \/ \E f \in Slot \ {s} : d.ctx[f].id = n /\ e = TakenOver(d, s, f)
    BY <1>1, ClearedFacts
  <2> HIDE DEF e
  <2> QED BY <2>1, <2>2, <2>3
<1> QED BY <1>1, <1>2, <1>3, <1>6, <1>9, OrderKept

-----------------------------------------------------------------------------
\* Every step keeps the line of every client in order.
LEMMA OrderStep ==
    ASSUME TypeInv, SessionInv, QuotaInv, OrderInv, [BrokerNext]_vars
    PROVE  OrderInv'
<1>1. CASE context__free_disused
  BY <1>1, FreedOrder
<1>2. ASSUME NEW t \in Topic, handle__publish(t) PROVE OrderInv'
  BY <1>2, PublishOrder
<1>3. ASSUME NEW s \in Slot, handle__pubackcomp(s) PROVE OrderInv'
  BY <1>3, PubackOrder
<1>4. ASSUME NEW s \in Slot, keepalive__check(s) PROVE OrderInv'
  <2>1. db' = do_disconnect(db, s) /\ UNCHANGED <<published, sub_qos>>
    BY <1>4 DEF keepalive__check
  <2> QED BY <2>1, EndOrder
<1>5. ASSUME NEW n \in Node, NEW clean \in BOOLEAN, handle__connect(n, clean) PROVE OrderInv'
  BY <1>5, ConnectOrder
<1>6. ASSUME NEW n \in Node, NEW t \in Topic, NEW taken \in BOOLEAN,
             handle__subscribe(n, t, taken)
      PROVE  OrderInv'
  BY <1>6, SubscribeOrder
<1>7. ASSUME NEW n \in Node, NEW t \in Topic, handle__unsubscribe(n, t) PROVE OrderInv'
  BY <1>7, UnsubscribeOrder
<1>8. ASSUME NEW n \in Node, handle__disconnect(n) PROVE OrderInv'
  <2>1. link[n] \in Slot /\ db' = do_disconnect(db, link[n]) /\ UNCHANGED <<published, sub_qos>>
    BY <1>8, DisconnectedType DEF handle__disconnect
  <2> QED BY <2>1, EndOrder
<1>9. ASSUME NEW n \in Node, NodeReceives(n) PROVE OrderInv'
  BY <1>9, ReceivesOrder
<1>10. ASSUME UNCHANGED <<db, published, sub_qos>> PROVE OrderInv'
  BY <1>10 DEF OrderInv
<1>11. ASSUME NEW n \in Node, LinkLost(n) PROVE OrderInv'
  BY <1>10, <1>11 DEF LinkLost
<1>12. CASE UNCHANGED vars
  BY <1>10, <1>12 DEF vars
<1> QED BY <1>1, <1>2, <1>3, <1>4, <1>5, <1>6, <1>7, <1>8, <1>9, <1>11, <1>12 DEF BrokerNext

\* What is in line for a client that is there is sent in order.
LEMMA LineSentInOrder ==
    ASSUME NEW s \in Slot, db.ctx[s] \in Context, InLine(published, db.ctx[s]),
           NEW i \in DOMAIN Line(s), NEW j \in DOMAIN Line(s), i < j,
           Line(s)[i].state # "wait", Line(s)[j].state # "wait",
           published[Line(s)[i].msg] = published[Line(s)[j].msg]
    PROVE  Line(s)[i].msg <= Line(s)[j].msg
<1> DEFINE c == db.ctx[s]
           p == published
           a == c.out
           b == c.inflight
           q == c.queued
           w == a \o (b \o q)
           A == Len(a)
           B == Len(b)
           Q == Len(q)
<1>1. /\ a \in Seq(Item) /\ b \in Seq(Item) /\ q \in Seq(Item)
      /\ A \in Nat /\ B \in Nat /\ Q \in Nat
  BY LenProperties DEF Context
<1>2. Line(s) = w
  BY DEF Line, Pending
<1> HIDE DEF a, b, q, A, B, Q
<1>3. b \o q \in Seq(Item) /\ Len(b \o q) = B + Q
  BY <1>1, ConcatProperties DEF B, Q
<1>4. /\ Len(w) = A + (B + Q) /\ w \in Seq(Item) /\ DOMAIN w = 1..(A + (B + Q))
  BY <1>1, <1>3, ConcatProperties, LenProperties DEF A
<1>5. \A x \in 1..(B + Q) : (b \o q)[x] = IF x <= B THEN b[x] ELSE q[x - B]
  BY <1>1, ConcatProperties DEF B, Q
<1>6. \A x \in 1..(A + (B + Q)) : w[x] = IF x <= A THEN a[x] ELSE (b \o q)[x - A]
  BY <1>1, <1>3, ConcatProperties DEF A
<1> HIDE DEF w
<1>7. i \in 1..(A + (B + Q)) /\ j \in 1..(A + (B + Q))
  BY <1>2, <1>4
<1>8. ASSUME NEW x \in 1..(A + (B + Q))
      PROVE  \/ x \in 1..A /\ w[x] = a[x]
             \/ x - A \in 1..B /\ w[x] = b[x - A]
             \/ x - A - B \in 1..Q /\ w[x] = q[x - A - B]
  <2>1. CASE x <= A
    <3>1. x \in 1..A
      BY <1>1, <2>1
    <3> QED BY <1>6, <2>1, <3>1
  <2>2. CASE ~(x <= A)
    <3> DEFINE y == x - A
               z == y - B
    <3>1. y \in 1..(B + Q)
      BY <1>1, <2>2
    <3>2. w[x] = (b \o q)[y]
      BY <1>6, <2>2
    <3>3. /\ y <= B => y \in 1..B
          /\ ~(y <= B) => z \in 1..Q
      BY <1>1, <3>1
    <3> HIDE DEF y
    <3>4. w[x] = IF y <= B THEN b[y] ELSE q[z]
      BY <1>5, <3>1, <3>2
    <3> HIDE DEF z
    <3>5. \/ y \in 1..B /\ w[x] = b[y]
          \/ z \in 1..Q /\ w[x] = q[z]
      BY <3>3, <3>4
    <3> QED BY <3>5 DEF y, z
  <2> QED BY <2>1, <2>2
<1>9. /\ Sorted(p, a) /\ Sorted(p, b) /\ Sorted(p, q)
      /\ Ahead(p, Msgs(b), Msgs(q)) /\ Ahead(p, Msgs(a), UnsentMsgs(b) \cup Msgs(q))
  BY DEF InLine, a, b, q
<1> DEFINE x == w[i]
           y == w[j]
<1>10. /\ x.state # "wait" /\ y.state # "wait" /\ p[x.msg] = p[y.msg]
  BY <1>2
<1>11. x.msg <= y.msg
  <2>1. ASSUME NEW z \in 1..A PROVE a[z].msg \in Msgs(a)
    BY DEF Msgs, A
  <2>2. ASSUME NEW z \in 1..B
        PROVE  b[z].msg \in Msgs(b) /\ (b[z].state # "wait" => b[z].msg \in UnsentMsgs(b))
    BY DEF Msgs, UnsentMsgs, B
  <2>3. ASSUME NEW z \in 1..Q PROVE q[z].msg \in Msgs(q)
    BY DEF Msgs, Q
  <2>4. CASE i \in 1..A /\ x = a[i]
    <3>1. x.msg \in Msgs(a)
      BY <2>1, <2>4
    <3>2. CASE j \in 1..A /\ y = a[j]
      BY <1>9, <1>10, <2>4, <3>2 DEF Sorted, A
    <3>3. CASE j - A \in 1..B /\ y = b[j - A]
      <4>1. y.msg \in UnsentMsgs(b)
        BY <1>10, <2>2, <3>3
      <4> QED BY <1>9, <1>10, <3>1, <4>1 DEF Ahead
    <3>4. CASE j - A - B \in 1..Q /\ y = q[j - A - B]
      <4>1. y.msg \in Msgs(q)
        BY <2>3, <3>4
      <4> QED BY <1>9, <1>10, <3>1, <4>1 DEF Ahead
    <3> QED BY <1>7, <1>8, <3>2, <3>3, <3>4
  <2>5. CASE i - A \in 1..B /\ x = b[i - A]
    <3>1. x.msg \in Msgs(b)
      BY <2>2, <2>5
    <3>2. CASE j \in 1..A /\ y = a[j]
      BY <1>1, <1>7, <2>5, <3>2
    <3>3. CASE j - A \in 1..B /\ y = b[j - A]
      <4>1. i - A < j - A
        BY <1>1, <1>7
      <4> QED BY <1>9, <1>10, <2>5, <3>3, <4>1 DEF Sorted, B
    <3>4. CASE j - A - B \in 1..Q /\ y = q[j - A - B]
      <4>1. y.msg \in Msgs(q)
        BY <2>3, <3>4
      <4> QED BY <1>9, <1>10, <3>1, <4>1 DEF Ahead
    <3> QED BY <1>7, <1>8, <3>2, <3>3, <3>4
  <2>6. CASE i - A - B \in 1..Q /\ x = q[i - A - B]
    <3>2. CASE j \in 1..A /\ y = a[j]
      BY <1>1, <1>7, <2>6, <3>2
    <3>3. CASE j - A \in 1..B /\ y = b[j - A]
      BY <1>1, <1>7, <2>6, <3>3
    <3>4. CASE j - A - B \in 1..Q /\ y = q[j - A - B]
      <4>1. i - A - B < j - A - B
        BY <1>1, <1>7
      <4> QED BY <1>9, <1>10, <2>6, <3>4, <4>1 DEF Sorted, Q
    <3> QED BY <1>7, <1>8, <3>2, <3>3, <3>4
  <2> QED BY <1>7, <1>8, <2>4, <2>5, <2>6
<1> QED BY <1>2, <1>11

\* The two properties follow.
LEMMA OrderFacts ==
    ASSUME TypeInv, OrderInv
    PROVE  SentInOrder /\ OnlyCopiesAreHeldBack
<1>1. db \in Databases(Len(published))
  BY DEF TypeInv
<1>2. SentInOrder
  <2> SUFFICES ASSUME NEW s \in Slot, NEW t \in Topic, NEW i \in Coming(s, t),
                      NEW j \in Coming(s, t), i < j
               PROVE  Line(s)[i].msg <= Line(s)[j].msg
    BY DEF SentInOrder
  <2>1. db.ctx[s] \in Context /\ InLine(published, db.ctx[s])
    BY <1>1 DEF Databases, OrderInv, Ordered
  <2>2. /\ i \in DOMAIN Line(s) /\ j \in DOMAIN Line(s)
        /\ Line(s)[i].state # "wait" /\ Line(s)[j].state # "wait"
        /\ published[Line(s)[i].msg] = published[Line(s)[j].msg]
    BY DEF Coming
  <2> QED BY <2>1, <2>2, LineSentInOrder
<1>3. OnlyCopiesAreHeldBack
  <2> SUFFICES ASSUME NEW s \in Slot, Connected(db.ctx[s]),
                      NEW i \in DOMAIN db.ctx[s].inflight,
                      db.ctx[s].inflight[i].state = "publish"
               PROVE  db.ctx[s].inflight[i].retain
    BY DEF OnlyCopiesAreHeldBack
  <2>1. DOMAIN db.ctx[s].inflight = 1..Len(db.ctx[s].inflight)
    BY <1>1, LenProperties DEF Databases, Context
  <2>2. Copies(db.ctx[s].inflight)
    BY DEF OrderInv, Ordered, Lately, Connected
  <2> QED BY <2>1, <2>2 DEF Copies
<1> QED BY <1>2, <1>3

(* On one connection a client is sent the messages of a topic in the order in
   which they were published: db__message_insert, the queue of
   db__message_write_queued_out, the copies retain__store hands to a new
   subscriber, what db__message_reconnect_reset sends again, and a takeover in
   connect__on_authorised, in whatever order they come. *)
THEOREM AlwaysSentInOrder == BrokerSpec => []SentInOrder
<1>1. BrokerInit => TypeInv /\ SessionInv /\ QuotaInv /\ OrderInv
  BY TypeInit, SessionInit, QuotaInit, OrderInit
<1>2. TypeInv /\ SessionInv /\ QuotaInv /\ OrderInv /\ [BrokerNext]_vars
        => TypeInv' /\ SessionInv' /\ QuotaInv' /\ OrderInv'
  BY TypeStep, SessionStep, QuotaStep, OrderStep
<1>3. TypeInv /\ OrderInv => SentInOrder
  BY OrderFacts
<1> QED BY <1>1, <1>2, <1>3, PTL DEF BrokerSpec

(* A message that is in flight to a connected client and has not been sent is
   a retained copy: subs__send has db__message_insert send a live one at once, and
   the loops of db__message_write_inflight_out_latest leave none behind. *)
THEOREM OnlyCopiesAreEverHeldBack == BrokerSpec => []OnlyCopiesAreHeldBack
<1>1. BrokerInit => TypeInv /\ SessionInv /\ QuotaInv /\ OrderInv
  BY TypeInit, SessionInit, QuotaInit, OrderInit
<1>2. TypeInv /\ SessionInv /\ QuotaInv /\ OrderInv /\ [BrokerNext]_vars
        => TypeInv' /\ SessionInv' /\ QuotaInv' /\ OrderInv'
  BY TypeStep, SessionStep, QuotaStep, OrderStep
<1>3. TypeInv /\ OrderInv => OnlyCopiesAreHeldBack
  BY OrderFacts
<1> QED BY <1>1, <1>2, <1>3, PTL DEF BrokerSpec

-----------------------------------------------------------------------------
(* The references to a stored message *)

\* One finite set for every context, side by side; when one of them changes
\* the sum of their sizes changes by as much.
SideBySide(A) == UNION {{<<s, i>> : i \in A[s]} : s \in Slot}

Within(A, N) == \A s \in Slot : A[s] \in SUBSET (1..N)
SameButOne(A, B, s) == \A r \in Slot \ {s} : B[r] = A[r]

\* It is finite, and empty only when all of them are.
LEMMA SideBySideFinite ==
    ASSUME NEW N \in Nat, NEW A, Within(A, N)
    PROVE  /\ IsFiniteSet(SideBySide(A)) /\ Cardinality(SideBySide(A)) \in Nat
           /\ Cardinality(SideBySide(A)) = 0 <=> \A s \in Slot : A[s] = {}
<1>1. IsFiniteSet(Slot) /\ IsFiniteSet(1..N)
  BY FirstNumbers, BrokerAssumption DEF Slot
<1>2. IsFiniteSet(Slot \X (1..N))
  BY <1>1, FS_Product
<1>3. SideBySide(A) \in SUBSET (Slot \X (1..N))
  BY DEF SideBySide, Within
<1>4. IsFiniteSet(SideBySide(A))
  BY <1>2, <1>3, FS_Subset
<1>5. SideBySide(A) = {} <=> \A s \in Slot : A[s] = {}
  <2>1. ASSUME NEW s \in Slot, NEW i \in A[s] PROVE SideBySide(A) # {}
    <3>1. <<s, i>> \in SideBySide(A)
      BY DEF SideBySide
    <3> QED BY <3>1
  <2>2. ASSUME NEW x \in SideBySide(A) PROVE \E s \in Slot : A[s] # {}
    BY DEF SideBySide
  <2> QED BY <2>1, <2>2
<1> QED BY <1>4, <1>5, FS_CardinalityType, FS_EmptySet

\* The set of one context is as large standing there as by itself.
LEMMA ColumnSize ==
    ASSUME NEW s, NEW B, IsFiniteSet(B)
    PROVE  /\ IsFiniteSet({<<s, i>> : i \in B})
           /\ Cardinality({<<s, i>> : i \in B}) = Cardinality(B)
<1> DEFINE C == {<<s, i>> : i \in B}
           f == [i \in B |-> <<s, i>>]
<1>1. f \in Bijection(B, C)
  <2>1. f \in [B -> C]
    OBVIOUS
  <2>2. \A i, j \in B : f[i] = f[j] => i = j
    OBVIOUS
  <2>3. \A c \in C : \E i \in B : f[i] = c
    OBVIOUS
  <2> HIDE DEF f, C
  <2> QED BY <2>1, <2>2, <2>3 DEF Bijection, Injection, Surjection, IsInjective
<1> HIDE DEF C, f
<1>2. IsFiniteSet(C) /\ Cardinality(C) = Cardinality(B)
  BY <1>1, FS_Bijection DEF ExistsBijection
<1> QED BY <1>2 DEF C

\* One of the sets is replaced.
LEMMA SideBySideChanged ==
    ASSUME NEW N \in Nat, NEW A, Within(A, N),
           NEW M \in Nat, NEW B, Within(B, M),
           NEW s \in Slot, SameButOne(A, B, s)
    PROVE  /\ Cardinality(SideBySide(B)) - Cardinality(B[s])
                = Cardinality(SideBySide(A)) - Cardinality(A[s])
           /\ Cardinality(A[s]) <= Cardinality(SideBySide(A))
           /\ Cardinality(A[s]) \in Nat /\ Cardinality(B[s]) \in Nat
           /\ Cardinality(SideBySide(A)) \in Nat /\ Cardinality(SideBySide(B)) \in Nat
<1> DEFINE Others == UNION {{<<r, i>> : i \in A[r]} : r \in Slot \ {s}}
           P == {<<s, i>> : i \in A[s]}
           Q == {<<s, i>> : i \in B[s]}
<1>1. /\ SideBySide(A) = Others \cup P /\ Others \cap P = {}
  BY DEF SideBySide
<1>2. /\ SideBySide(B) = Others \cup Q /\ Others \cap Q = {}
  BY DEF SideBySide, SameButOne
<1>3. IsFiniteSet(SideBySide(A)) /\ IsFiniteSet(SideBySide(B))
  BY SideBySideFinite
<1>4. IsFiniteSet(A[s]) /\ IsFiniteSet(B[s])
  <2>1. IsFiniteSet(1..N) /\ IsFiniteSet(1..M)
    BY FirstNumbers
  <2> QED BY <2>1, FS_Subset DEF Within
<1>5. /\ IsFiniteSet(P) /\ Cardinality(P) = Cardinality(A[s])
      /\ IsFiniteSet(Q) /\ Cardinality(Q) = Cardinality(B[s])
  BY <1>4, ColumnSize
<1> HIDE DEF Others, P, Q
<1>6. IsFiniteSet(Others)
  <2>1. Others \in SUBSET SideBySide(A)
    BY <1>1
  <2> QED BY <1>3, <2>1, FS_Subset
<1>7. /\ Cardinality(Others \cup P) = Cardinality(Others) + Cardinality(P) - Cardinality({})
      /\ Cardinality(Others \cup Q) = Cardinality(Others) + Cardinality(Q) - Cardinality({})
  BY <1>1, <1>2, <1>5, <1>6, FS_Union
<1>8. /\ Cardinality({}) = 0 /\ Cardinality(Others) \in Nat
      /\ Cardinality(P) \in Nat /\ Cardinality(Q) \in Nat
  BY <1>5, <1>6, FS_EmptySet, FS_CardinalityType
<1> QED BY <1>1, <1>2, <1>5, <1>7, <1>8

-----------------------------------------------------------------------------
Of(m) == {x \in Item : x.msg = m}
Holds(c, m) == Count(c.inflight, Of(m)) + Count(c.queued, Of(m))

\* The places where a context holds message m, all contexts', and how many
\* there are
PlacesOf(c, m) == Places(c.inflight \o c.queued, Of(m))
Total(d, m) == Cardinality(SideBySide([s \in Slot |-> PlacesOf(d.ctx[s], m)]))
Kept(d, m) == Bit(\E t \in Topic : d.retained[t] = m)
Ref(d, m) == IF m \in DOMAIN d.store THEN d.store[m].ref ELSE 0

\* What the count of m exceeds the references to it by
Surplus(d, m) == Ref(d, m) - Total(d, m) - Kept(d, m)
Message == 1..MaxPublish

\* A context holds a message as often as it has a place for it.
LEMMA HoldsFacts ==
    ASSUME NEW c \in Context, NEW m
    PROVE  /\ Cardinality(PlacesOf(c, m)) = Holds(c, m) /\ Holds(c, m) \in Nat
           /\ Count(c.inflight, Of(m)) \in Nat /\ Count(c.queued, Of(m)) \in Nat
           /\ Len(c.inflight \o c.queued) \in Nat
           /\ PlacesOf(c, m) \in SUBSET (1..Len(c.inflight \o c.queued))
<1>1. c.inflight \in Seq(Item) /\ c.queued \in Seq(Item)
  BY DEF Context
<1>2. c.inflight \o c.queued \in Seq(Item)
  BY <1>1, ConcatProperties
<1>3. Count(c.inflight \o c.queued, Of(m)) = Holds(c, m)
  BY <1>1, CountConcat DEF Holds
<1>4. Count(c.inflight, Of(m)) \in Nat /\ Count(c.queued, Of(m)) \in Nat
  BY <1>1, CountType
<1>5. /\ Len(c.inflight \o c.queued) \in Nat
      /\ PlacesOf(c, m) \in SUBSET (1..Len(c.inflight \o c.queued))
  BY <1>2, LenProperties DEF PlacesOf, Places
<1>6. Cardinality(PlacesOf(c, m)) = Holds(c, m)
  BY <1>3 DEF PlacesOf, Count
<1>7. Holds(c, m) \in Nat
  BY <1>4 DEF Holds
<1> QED BY <1>4, <1>5, <1>6, <1>7

\* A bound for the lists of all contexts
LEMMA ListsBounded ==
    ASSUME NEW n, NEW d \in Databases(n)
    PROVE  \E N \in Nat : \A s \in Slot : \A m : PlacesOf(d.ctx[s], m) \in SUBSET (1..N)
<1> DEFINE L(s) == Len(d.ctx[s].inflight \o d.ctx[s].queued)
           T == {k \in 0..Slots : \E N \in Nat : \A s \in 1..k : L(s) <= N}
<1>1. \A s \in Slot : L(s) \in Nat
  BY HoldsFacts DEF Databases
<1> HIDE DEF L
<1>2. 0 \in T
  BY BrokerAssumption
<1>3. ASSUME NEW k \in 0..(Slots - 1), k \in T PROVE k + 1 \in T
  <2>1. PICK N \in Nat : \A s \in 1..k : L(s) <= N
    BY <1>3
  <2>2. k + 1 \in Slot /\ k + 1 \in 0..Slots
    BY BrokerAssumption DEF Slot
  <2>3. L(k + 1) \in Nat
    BY <1>1, <2>2
  <2> DEFINE M == N + L(k + 1)
  <2>4. M \in Nat /\ \A s \in 1..(k + 1) : L(s) <= M
    <3>1. \A s \in 1..(k + 1) : s \in Slot /\ (s \in 1..k \/ s = k + 1)
      <4>1. k \in Nat /\ Slots \in Nat /\ k + 1 <= Slots
        BY BrokerAssumption
      <4> QED BY <4>1 DEF Slot
    <3>2. M \in Nat /\ N <= M /\ L(k + 1) <= M
      BY <2>3
    <3>3. ASSUME NEW s \in 1..(k + 1) PROVE L(s) <= M
      <4>1. CASE s \in 1..k
        <5>1. L(s) <= N /\ L(s) \in Nat
          BY <1>1, <2>1, <3>1, <4>1
        <5> HIDE DEF M
        <5> QED BY <3>2, <5>1
      <4>2. CASE s = k + 1
        BY <3>2, <4>2
      <4> QED BY <3>1, <4>1, <4>2
    <3> QED BY <3>2, <3>3
  <2> QED BY <2>2, <2>4
<1> HIDE DEF T
<1>4. \A k \in 0..Slots : k \in T
  BY <1>2, <1>3, BrokerAssumption, Numbers!UpTo
<1>5. Slots \in T
  BY <1>4, BrokerAssumption
<1>6. PICK N \in Nat : \A s \in Slot : L(s) <= N
  BY <1>5 DEF T, Slot
<1>7. ASSUME NEW s \in Slot, NEW m PROVE PlacesOf(d.ctx[s], m) \in SUBSET (1..N)
  <2>1. PlacesOf(d.ctx[s], m) \in SUBSET (1..L(s))
    BY HoldsFacts DEF L, Databases
  <2>2. L(s) \in Nat /\ L(s) <= N
    BY <1>1, <1>6
  <2>3. 1..L(s) \subseteq 1..N
    BY <2>2
  <2> QED BY <2>1, <2>3
<1> QED BY <1>7

\* When one context changes the total changes by what that one holds.
LEMMA TotalChanged ==
    ASSUME NEW n, NEW d \in Databases(n), NEW k, NEW e \in Databases(k), NEW s \in Slot,
           \A r \in Slot \ {s} : e.ctx[r] = d.ctx[r], NEW m
    PROVE  /\ Total(e, m) - Holds(e.ctx[s], m) = Total(d, m) - Holds(d.ctx[s], m)
           /\ Holds(d.ctx[s], m) <= Total(d, m)
           /\ Total(d, m) \in Nat /\ Total(e, m) \in Nat
           /\ Holds(d.ctx[s], m) \in Nat /\ Holds(e.ctx[s], m) \in Nat
<1> DEFINE A == [r \in Slot |-> PlacesOf(d.ctx[r], m)]
           B == [r \in Slot |-> PlacesOf(e.ctx[r], m)]
<1>1. PICK N \in Nat : Within(A, N)
  BY ListsBounded DEF Within
<1>2. PICK M \in Nat : Within(B, M)
  BY ListsBounded DEF Within
<1>3. SameButOne(A, B, s)
  BY DEF SameButOne
<1>4. /\ Cardinality(A[s]) = Holds(d.ctx[s], m) /\ Cardinality(B[s]) = Holds(e.ctx[s], m)
  BY HoldsFacts DEF Databases
<1>5. /\ Total(d, m) = Cardinality(SideBySide(A)) /\ Total(e, m) = Cardinality(SideBySide(B))
  BY DEF Total
<1> HIDE DEF A, B
<1>6. /\ Cardinality(SideBySide(B)) - Cardinality(B[s])
           = Cardinality(SideBySide(A)) - Cardinality(A[s])
      /\ Cardinality(A[s]) <= Cardinality(SideBySide(A))
      /\ Cardinality(A[s]) \in Nat /\ Cardinality(B[s]) \in Nat
      /\ Cardinality(SideBySide(A)) \in Nat /\ Cardinality(SideBySide(B)) \in Nat
  BY <1>1, <1>2, <1>3, SideBySideChanged
<1> QED BY <1>4, <1>5, <1>6

(* What changes the count of a message *)

\* Every stored message is referred to by someone, and none is referred to more
\* often than it counts.
Stored(d) == \A m \in DOMAIN d.store : d.store[m].ref > 0
Healthy(d) == Stored(d) /\ \A m \in Message : Surplus(d, m) >= 0
Evenly(d, e) == \A m \in Message : Surplus(e, m) = Surplus(d, m)

\* From d to e no message has lost or won references it does not count.
Balance(d, e) == Healthy(d) => Stored(e) /\ Evenly(d, e)

\* Steps in balance can be put one behind the other.
LEMMA BalanceFacts ==
    /\ \A d : Balance(d, d)
    /\ \A d, e, f : Balance(d, e) /\ Balance(e, f) => Balance(d, f)
    /\ \A d, e : Balance(d, e) /\ Healthy(d) => Healthy(e)
  BY DEF Balance, Healthy, Evenly

\* The count of a message, and of one that is not stored
LEMMA RefType ==
    ASSUME NEW n, NEW d \in Databases(n), NEW m
    PROVE  /\ Ref(d, m) \in Int /\ Kept(d, m) \in {0, 1}
           /\ DOMAIN d.store \subseteq 1..n
           /\ Stored(d) /\ Ref(d, m) > 0 => m \in DOMAIN d.store
           /\ Stored(d) /\ m \in DOMAIN d.store => Ref(d, m) > 0
<1>1. PICK A \in SUBSET (1..n) : d.store \in [A -> StoredMessage]
  BY DEF Databases, Stores
<1>2. /\ DOMAIN d.store \subseteq 1..n
      /\ \A k \in DOMAIN d.store : d.store[k].ref \in Int
  BY <1>1 DEF StoredMessage
<1>3. \/ Ref(d, m) = 0 /\ m \notin DOMAIN d.store
      \/ Ref(d, m) = d.store[m].ref /\ m \in DOMAIN d.store
  BY DEF Ref
<1>4. Ref(d, m) \in Int
  BY <1>2, <1>3
<1>5. Kept(d, m) \in {0, 1}
  BY DEF Kept, Bit
<1> QED BY <1>2, <1>3, <1>4, <1>5 DEF Stored

\* No context holds more of a message than there is.
LEMMA SurplusType ==
    ASSUME NEW n, NEW d \in Databases(n), NEW m
    PROVE  /\ Surplus(d, m) \in Int /\ Total(d, m) \in Nat
           /\ \A s \in Slot : Holds(d.ctx[s], m) \in Nat /\ Holds(d.ctx[s], m) <= Total(d, m)
<1>1. 1 \in Slot
  BY BrokerAssumption DEF Slot
<1>2. \A s \in Slot : /\ Total(d, m) \in Nat
                      /\ Holds(d.ctx[s], m) \in Nat /\ Holds(d.ctx[s], m) <= Total(d, m)
  BY TotalChanged
<1>3. Total(d, m) \in Nat
  BY <1>1, <1>2
<1>4. Ref(d, m) \in Int /\ Kept(d, m) \in {0, 1}
  BY RefType
<1> QED BY <1>2, <1>3, <1>4 DEF Surplus

\* A message somebody refers to is stored.
LEMMA InStore ==
    ASSUME NEW n, NEW d \in Databases(n), Healthy(d), NEW m \in Message,
           \/ Surplus(d, m) > 0
           \/ \E t \in Topic : d.retained[t] = m
           \/ \E s \in Slot : Holds(d.ctx[s], m) > 0
    PROVE  m \in DOMAIN d.store
<1>1. /\ Surplus(d, m) \in Int /\ Total(d, m) \in Nat /\ Surplus(d, m) >= 0
      /\ \A s \in Slot : Holds(d.ctx[s], m) \in Nat /\ Holds(d.ctx[s], m) <= Total(d, m)
  BY SurplusType DEF Healthy
<1>2. Ref(d, m) \in Int /\ Kept(d, m) \in {0, 1}
  BY RefType
<1>3. Ref(d, m) = Surplus(d, m) + Total(d, m) + Kept(d, m)
  BY <1>1, <1>2 DEF Surplus
<1>4. \/ Surplus(d, m) > 0
      \/ Kept(d, m) = 1
      \/ Total(d, m) > 0
  BY <1>1 DEF Kept, Bit
<1>5. Ref(d, m) > 0
  BY <1>1, <1>2, <1>3, <1>4
<1> QED BY <1>5, RefType DEF Healthy

\* db__msg_store_ref_inc counts one more reference to that message,
LEMMA IncCounts ==
    ASSUME NEW n, NEW d \in Databases(n), NEW k \in DOMAIN d.store, Stored(d)
    PROVE  /\ Stored(db__msg_store_ref_inc(d, k))
           /\ DOMAIN db__msg_store_ref_inc(d, k).store = DOMAIN d.store
           /\ \A m : Ref(db__msg_store_ref_inc(d, k), m) = Ref(d, m) + Bit(m = k)
<1> DEFINE e == db__msg_store_ref_inc(d, k)
<1>1. PICK A \in SUBSET (1..n) : d.store \in [A -> StoredMessage]
  BY DEF Databases, Stores
<1>2. e.store = [d.store EXCEPT ![k].ref = @ + 1]
  BY DEF db__msg_store_ref_inc, Databases
<1> HIDE DEF e
<1>3. DOMAIN e.store = DOMAIN d.store
  BY <1>2
<1>4. \A m \in DOMAIN d.store : d.store[m].ref \in Int
  BY <1>1 DEF StoredMessage
<1>5. \A m \in DOMAIN d.store : e.store[m].ref = d.store[m].ref + Bit(m = k)
  BY <1>1, <1>2, <1>4 DEF Bit, StoredMessage
<1>6. Stored(e)
  BY <1>3, <1>4, <1>5 DEF Stored, Bit
<1>7. \A m : Ref(e, m) = Ref(d, m) + Bit(m = k)
  BY <1>3, <1>4, <1>5 DEF Ref, Bit
<1> QED BY <1>3, <1>6, <1>7 DEF e

\* and db__msg_store_ref_dec one less; at the last one the message goes.
LEMMA DecCounts ==
    ASSUME NEW n, NEW d \in Databases(n), NEW k \in DOMAIN d.store, Stored(d)
    PROVE  /\ Stored(db__msg_store_ref_dec(d, k))
           /\ \A m : Ref(db__msg_store_ref_dec(d, k), m) = Ref(d, m) - Bit(m = k)
<1> DEFINE e == db__msg_store_ref_dec(d, k)
<1>1. PICK A \in SUBSET (1..n) : d.store \in [A -> StoredMessage]
  BY DEF Databases, Stores
<1>2. \A m \in DOMAIN d.store : d.store[m].ref \in Int /\ d.store[m].ref > 0
  BY <1>1 DEF StoredMessage, Stored
<1>3. CASE d.store[k].ref = 1
  <2>1. e.store = [m \in DOMAIN d.store \ {k} |-> d.store[m]]
    BY <1>3 DEF db__msg_store_ref_dec, Databases
  <2> HIDE DEF e
  <2>2. Stored(e)
    BY <1>2, <2>1 DEF Stored
  <2>3. \A m : Ref(e, m) = Ref(d, m) - Bit(m = k)
    BY <1>2, <1>3, <2>1 DEF Ref, Bit
  <2> QED BY <2>2, <2>3 DEF e
<1>4. CASE d.store[k].ref # 1
  <2>1. e.store = [d.store EXCEPT ![k].ref = @ - 1]
    BY <1>4 DEF db__msg_store_ref_dec, Databases
  <2> HIDE DEF e
  <2>2. DOMAIN e.store = DOMAIN d.store
    BY <2>1
  <2>3. \A m \in DOMAIN d.store : e.store[m].ref = d.store[m].ref - Bit(m = k)
    BY <1>1, <1>2, <2>1 DEF Bit, StoredMessage
  <2>4. Stored(e)
    BY <1>2, <1>4, <2>2, <2>3 DEF Stored, Bit
  <2>5. \A m : Ref(e, m) = Ref(d, m) - Bit(m = k)
    BY <1>2, <2>2, <2>3 DEF Ref, Bit
  <2> QED BY <2>4, <2>5 DEF e
<1> QED BY <1>3, <1>4

\* When one context changes, the surplus changes by what it holds less.
LEMMA SurplusMoves ==
    ASSUME NEW n, NEW d \in Databases(n), NEW e \in Databases(n), NEW s \in Slot,
           OnlyMessages(d, e, s), NEW m
    PROVE  /\ Surplus(e, m) - Ref(e, m) + Holds(e.ctx[s], m)
                = Surplus(d, m) - Ref(d, m) + Holds(d.ctx[s], m)
           /\ Surplus(d, m) \in Int /\ Surplus(e, m) \in Int
           /\ Ref(d, m) \in Int /\ Ref(e, m) \in Int
           /\ Holds(d.ctx[s], m) \in Nat /\ Holds(e.ctx[s], m) \in Nat
<1>1. /\ Total(e, m) - Holds(e.ctx[s], m) = Total(d, m) - Holds(d.ctx[s], m)
      /\ Total(d, m) \in Nat /\ Total(e, m) \in Nat
      /\ Holds(d.ctx[s], m) \in Nat /\ Holds(e.ctx[s], m) \in Nat
  BY TotalChanged DEF OnlyMessages
<1>2. Kept(e, m) = Kept(d, m)
  BY DEF OnlyMessages, Kept
<1>3. /\ Ref(d, m) \in Int /\ Ref(e, m) \in Int /\ Kept(d, m) \in {0, 1}
  BY RefType
<1> QED BY <1>1, <1>2, <1>3 DEF Surplus

\* A context that holds the same messages as before, in whatever state
HoldsStill(d, e, s) ==
    e.store = d.store /\ \A m : Holds(e.ctx[s], m) = Holds(d.ctx[s], m)

\* Nothing that is held changes, so no count does.
LEMMA SameHeld ==
    ASSUME NEW n, NEW d \in Databases(n), NEW e \in Databases(n), NEW s \in Slot,
           OnlyMessages(d, e, s), HoldsStill(d, e, s)
    PROVE  Balance(d, e)
<1>1. \A m : Ref(e, m) = Ref(d, m)
  BY DEF Ref, HoldsStill
<1>2. \A m : Surplus(e, m) = Surplus(d, m)
  <2> SUFFICES ASSUME NEW m PROVE Surplus(e, m) = Surplus(d, m)
    OBVIOUS
  <2>1. Holds(e.ctx[s], m) = Holds(d.ctx[s], m) /\ Ref(e, m) = Ref(d, m)
    BY <1>1 DEF HoldsStill
  <2> QED BY <2>1, SurplusMoves
<1> QED BY <1>2 DEF Balance, Evenly, Stored, Healthy, HoldsStill

\* All contexts and all that is retained stay.
AllHeldStill(d, e) ==
    /\ e.store = d.store /\ e.retained = d.retained
    /\ \A s \in Slot : /\ e.ctx[s].inflight = d.ctx[s].inflight
                       /\ e.ctx[s].queued = d.ctx[s].queued

\* The same for all contexts
LEMMA SameReferences ==
    ASSUME NEW d, NEW e, AllHeldStill(d, e)
    PROVE  Balance(d, e)
<1>1. \A m : [s \in Slot |-> PlacesOf(e.ctx[s], m)] = [s \in Slot |-> PlacesOf(d.ctx[s], m)]
  BY DEF PlacesOf, AllHeldStill
<1>2. \A m : Total(e, m) = Total(d, m)
  BY <1>1 DEF Total
<1>3. \A m : Kept(e, m) = Kept(d, m) /\ Ref(e, m) = Ref(d, m)
  BY DEF Kept, Ref, AllHeldStill
<1>4. \A m : Surplus(e, m) = Surplus(d, m)
  BY <1>2, <1>3 DEF Surplus
<1> QED BY <1>4 DEF Balance, Evenly, Stored, Healthy, AllHeldStill

(* Items of a list are let go of one after the other *)

\* From d to e context s either takes up an item with message x, or it does
\* not and the message is let go of.
LetsGo(d, e, s, x) ==
    \/ e.store = d.store /\ \A m : Holds(e.ctx[s], m) = Holds(d.ctx[s], m) + Bit(m = x)
    \/ /\ e.store = db__msg_store_ref_dec(d, x).store
       /\ \A m : Holds(e.ctx[s], m) = Holds(d.ctx[s], m)

OneLess(d, e, x) == Stored(e) /\ \A m \in Message : Surplus(e, m) = Surplus(d, m) - Bit(m = x)

\* Either way there is one reference more to m than before, or one less counted.
LEMMA LetGo ==
    ASSUME NEW n, NEW d \in Databases(n), NEW e \in Databases(n), NEW s \in Slot,
           OnlyMessages(d, e, s), NEW x \in Message, Healthy(d), Surplus(d, x) > 0,
           LetsGo(d, e, s, x)
    PROVE  OneLess(d, e, x)
<1>1. x \in DOMAIN d.store /\ Stored(d)
  BY InStore DEF Healthy
<1>2. CASE e.store = d.store /\ \A m : Holds(e.ctx[s], m) = Holds(d.ctx[s], m) + Bit(m = x)
  <2>1. Stored(e) /\ \A m : Ref(e, m) = Ref(d, m)
    BY <1>1, <1>2 DEF Ref, Stored
  <2>2. ASSUME NEW m \in Message PROVE Surplus(e, m) = Surplus(d, m) - Bit(m = x)
    <3>1. Holds(e.ctx[s], m) = Holds(d.ctx[s], m) + Bit(m = x) /\ Ref(e, m) = Ref(d, m)
      BY <1>2, <2>1
    <3>2. Bit(m = x) \in {0, 1}
      BY DEF Bit
    <3> QED BY <3>1, <3>2, SurplusMoves
  <2> QED BY <2>1, <2>2 DEF OneLess
<1>3. CASE /\ e.store = db__msg_store_ref_dec(d, x).store
           /\ \A m : Holds(e.ctx[s], m) = Holds(d.ctx[s], m)
  <2> DEFINE f == db__msg_store_ref_dec(d, x)
  <2>1. Stored(f) /\ \A m : Ref(f, m) = Ref(d, m) - Bit(m = x)
    BY <1>1, DecCounts
  <2>2. Stored(e) /\ \A m : Ref(e, m) = Ref(f, m)
    <3> HIDE DEF f
    <3>1. e.store = f.store
      BY <1>3 DEF f
    <3> QED BY <2>1, <3>1 DEF Ref, Stored
  <2> HIDE DEF f
  <2>3. ASSUME NEW m \in Message PROVE Surplus(e, m) = Surplus(d, m) - Bit(m = x)
    <3>1. Holds(e.ctx[s], m) = Holds(d.ctx[s], m) /\ Ref(e, m) = Ref(d, m) - Bit(m = x)
      BY <1>3, <2>1, <2>2
    <3>2. Bit(m = x) \in {0, 1}
      BY DEF Bit
    <3>3. /\ Surplus(e, m) - Ref(e, m) + Holds(e.ctx[s], m)
               = Surplus(d, m) - Ref(d, m) + Holds(d.ctx[s], m)
          /\ Surplus(d, m) \in Int /\ Surplus(e, m) \in Int
          /\ Ref(d, m) \in Int /\ Ref(e, m) \in Int
          /\ Holds(d.ctx[s], m) \in Nat /\ Holds(e.ctx[s], m) \in Nat
      BY SurplusMoves
    <3> QED BY <3>1, <3>2, <3>3
  <2> QED BY <2>2, <2>3 DEF OneLess
<1> QED BY <1>2, <1>3 DEF LetsGo

\* What is left of a list after its first k items
Left(list, k) == SubSeq(list, k + 1, Len(list))

\* What is left shrinks by the next item.
LEMMA LeftFacts ==
    ASSUME NEW S, NEW list \in Seq(S)
    PROVE  /\ Left(list, 0) = list /\ Left(list, Len(list)) = <<>>
           /\ \A k \in 0..(Len(list) - 1) : \A P :
                /\ list[k + 1] \in S
                /\ Count(Left(list, k), P) = Count(Left(list, k + 1), P) + Bit(list[k + 1] \in P)
<1> DEFINE N == Len(list)
<1>1. N \in Nat
  BY LenProperties
<1>2. Left(list, 0) = list
  <2>1. Left(list, 0) = SubSeq(list, 1, N)
    BY DEF Left
  <2> QED BY <2>1, SubSeqFull
<1>3. Left(list, N) = <<>>
  BY <1>1, SubSeqEmpty DEF Left
<1>4. ASSUME NEW k \in 0..(N - 1), NEW P
      PROVE  /\ list[k + 1] \in S
             /\ Count(Left(list, k), P) = Count(Left(list, k + 1), P) + Bit(list[k + 1] \in P)
  <2> DEFINE q == Left(list, k)
  <2>1. k + 1 \in 1..(N + 1) /\ N \in 0..N /\ k + 1 \in 1..N /\ k + 2 \in 1..(N + 1)
    BY <1>1
  <2>2. list[k + 1] \in S
    BY <2>1, ElementOfSeq
  <2>3. /\ q \in Seq(S) /\ Len(q) = N - k
        /\ \A j \in 1..(N - k) : q[j] = list[(k + 1) + j - 1]
    <3> HIDE DEF N
    <3> QED BY <1>1, <2>1, SubSeqProperties DEF Left, N
  <2>4. q # <<>>
    BY <1>1, <2>3
  <2>5. Head(q) = list[k + 1]
    <3>1. Head(q) = q[1] /\ 1 \in 1..(N - k)
      BY <1>1, <2>3, <2>4, HeadTailProperties
    <3> HIDE DEF q, N
    <3> QED BY <1>1, <2>3, <3>1
  <2>6. Tail(q) = Left(list, k + 1)
    <3>1. /\ Tail(q) \in Seq(S) /\ Len(Tail(q)) = N - k - 1
          /\ \A j \in 1..(N - k - 1) : Tail(q)[j] = q[j + 1]
      <4> HIDE DEF q
      <4> QED BY <1>1, <2>3, <2>4, HeadTailProperties
    <3>2. /\ Left(list, k + 1) \in Seq(S) /\ Len(Left(list, k + 1)) = N - k - 1
          /\ \A j \in 1..(N - k - 1) : Left(list, k + 1)[j] = list[(k + 2) + j - 1]
      <4> HIDE DEF N
      <4>1. (k + 1) + 1 = k + 2
        BY <1>1
      <4> QED BY <1>1, <2>1, <4>1, SubSeqProperties DEF Left, N
    <3> HIDE DEF q, N
    <3>3. \A j \in 1..(N - k - 1) : Tail(q)[j] = Left(list, k + 1)[j]
      <4> SUFFICES ASSUME NEW j \in 1..(N - k - 1) PROVE Tail(q)[j] = Left(list, k + 1)[j]
        OBVIOUS
      <4>1. j + 1 \in 1..(N - k) /\ (k + 1) + (j + 1) - 1 = (k + 2) + j - 1
        BY <1>1
      <4>2. Tail(q)[j] = q[j + 1] /\ q[j + 1] = list[(k + 1) + (j + 1) - 1]
        BY <2>3, <3>1, <4>1
      <4>3. Left(list, k + 1)[j] = list[(k + 2) + j - 1]
        BY <3>2
      <4> QED BY <4>1, <4>2, <4>3
    <3>4. \A j \in 1..Len(Tail(q)) : Tail(q)[j] = Left(list, k + 1)[j]
      BY <3>1, <3>3
    <3> QED BY <3>1, <3>2, <3>4, SeqEqual
  <2> HIDE DEF q
  <2>7. Count(q, P) = Count(Tail(q), P) + Bit(Head(q) \in P)
    BY <2>3, <2>4, CountTail
  <2> QED BY <2>2, <2>5, <2>6, <2>7 DEF q
<1> QED BY <1>2, <1>3, <1>4

\* e still counts what it has yet to let go of.
Owing(d, e, rest) ==
    Stored(e) /\ \A m \in Message : Surplus(e, m) = Surplus(d, m) + Count(rest, Of(m))

\* The next item is kept or let go of.
LEMMA OwingLess ==
    ASSUME NEW n, NEW d \in Databases(n), NEW e \in Databases(n), NEW f \in Databases(n),
           NEW s \in Slot, Healthy(d), NEW list \in Seq(Item), NEW k \in 0..(Len(list) - 1),
           Owing(d, e, Left(list, k)), OnlyMessages(e, f, s), LetsGo(e, f, s, list[k + 1].msg)
    PROVE  Owing(d, f, Left(list, k + 1))
<1> DEFINE x == list[k + 1].msg
           A(m) == Count(Left(list, k), Of(m))
           B(m) == Count(Left(list, k + 1), Of(m))
<1>1. Len(list) \in Nat
  BY LenProperties
<1>2. list[k + 1] \in Item /\ \A m : A(m) = B(m) + Bit(list[k + 1] \in Of(m))
  BY LeftFacts
<1>3. x \in Message /\ \A m : list[k + 1] \in Of(m) <=> m = x
  BY <1>2 DEF Item, Of, Message
<1>4. Left(list, k) \in Seq(Item) /\ Left(list, k + 1) \in Seq(Item)
  <2>1. k + 1 \in 1..(Len(list) + 1) /\ k + 2 \in 1..(Len(list) + 1) /\ (k + 1) + 1 = k + 2
    BY <1>1
  <2> QED BY <1>1, <2>1, SubSeqProperties DEF Left
<1>5. \A m : A(m) \in Nat /\ B(m) \in Nat
  BY <1>4, CountType
<1> HIDE DEF x, A, B
<1>6. \A m : A(m) = B(m) + Bit(m = x)
  <2>1. \A m : Bit(list[k + 1] \in Of(m)) = Bit(m = x)
    BY <1>3 DEF Bit
  <2> QED BY <1>2, <2>1
<1>7. \A m \in Message : /\ Surplus(e, m) = Surplus(d, m) + A(m)
                         /\ Surplus(d, m) \in Int /\ Surplus(d, m) >= 0
  BY SurplusType DEF Owing, A, Healthy
<1>8. Stored(e)
  BY DEF Owing
<1>9. Healthy(e)
  BY <1>5, <1>7, <1>8 DEF Healthy
<1>10. Surplus(e, x) > 0
  <2>1. A(x) = B(x) + 1 /\ A(x) \in Nat /\ B(x) \in Nat
    BY <1>5, <1>6 DEF Bit
  <2> QED BY <1>3, <1>7, <2>1
<1>11. OneLess(e, f, x)
  BY <1>3, <1>9, <1>10, LetGo DEF x
<1>12. ASSUME NEW m \in Message PROVE Surplus(f, m) = Surplus(d, m) + B(m)
  <2>1. /\ Surplus(f, m) = Surplus(e, m) - Bit(m = x) /\ A(m) = B(m) + Bit(m = x)
        /\ Surplus(e, m) = Surplus(d, m) + A(m)
        /\ Surplus(d, m) \in Int /\ A(m) \in Nat /\ B(m) \in Nat
    BY <1>5, <1>6, <1>7, <1>11 DEF OneLess
  <2>2. Bit(m = x) \in {0, 1}
    BY DEF Bit
  <2> QED BY <2>1, <2>2
<1> QED BY <1>11, <1>12 DEF Owing, OneLess, B

\* All of the list is let go of.
LEMMA OwingNothing ==
    ASSUME NEW n, NEW d \in Databases(n), NEW e, Owing(d, e, <<>>)
    PROVE  Stored(e) /\ Evenly(d, e)
<1>1. \A m : Count(<<>>, Of(m)) = 0
  BY CountEmpty
<1>2. \A m \in Message : Surplus(e, m) = Surplus(d, m) + 0 /\ Surplus(d, m) \in Int
  BY <1>1, SurplusType DEF Owing
<1> QED BY <1>2 DEF Evenly, Owing

\* A context holds one more item, in flight or in the queue.
OneMore(c, e, y) ==
    \/ e.inflight = Append(c.inflight, y) /\ e.queued = c.queued
    \/ e.inflight = c.inflight /\ e.queued = Append(c.queued, y)

\* It holds one more of the message of that item.
LEMMA HoldsOneMore ==
    ASSUME NEW c \in Context, NEW e \in Context, NEW y \in Item, OneMore(c, e, y)
    PROVE  \A m : Holds(e, m) = Holds(c, m) + Bit(m = y.msg)
<1> SUFFICES ASSUME NEW m PROVE Holds(e, m) = Holds(c, m) + Bit(m = y.msg)
  OBVIOUS
<1>1. c.inflight \in Seq(Item) /\ c.queued \in Seq(Item)
  BY DEF Context
<1>2. /\ Count(Append(c.inflight, y), Of(m)) = Count(c.inflight, Of(m)) + Bit(y \in Of(m))
      /\ Count(Append(c.queued, y), Of(m)) = Count(c.queued, Of(m)) + Bit(y \in Of(m))
  BY <1>1, CountAppend
<1>3. Bit(y \in Of(m)) = Bit(m = y.msg) /\ Bit(y \in Of(m)) \in {0, 1}
  BY DEF Of, Bit
<1>4. Count(c.inflight, Of(m)) \in Nat /\ Count(c.queued, Of(m)) \in Nat
  BY HoldsFacts
<1>5. CASE e.inflight = Append(c.inflight, y) /\ e.queued = c.queued
  BY <1>2, <1>3, <1>4, <1>5 DEF Holds
<1>6. CASE e.inflight = c.inflight /\ e.queued = Append(c.queued, y)
  BY <1>2, <1>3, <1>4, <1>6 DEF Holds
<1> QED BY <1>5, <1>6 DEF OneMore

\* A pass of the loop keeps the item, in whatever state, or lets go of its message.
LEMMA PassLetsGo ==
    ASSUME NEW n, NEW d \in Databases(n), NEW s \in Slot, NEW i, NEW k, NEW item \in Item
    PROVE  LetsGo(d, Pass(d, s, i, k, item), s, item.msg)
<1> DEFINE c == d.ctx[s]
           e == Pass(d, s, i, k, item)
           kept == [d EXCEPT !.ctx[s].inflight = Append(@, item)]
           sent == [d EXCEPT !.ctx[s].out = Append(@, item)]
           w == [item EXCEPT !.state = "wait"]
           held == [sent EXCEPT !.ctx[s].inflight = Append(@, w)]
<1>1. c \in Context /\ w \in Item /\ w.msg = item.msg
  BY ItemFacts DEF Databases, Item
<1>2. \/ e = kept
      \/ e = db__msg_store_ref_dec(sent, item.msg)
      \/ e = held
  BY DEF Pass, db__message_write_inflight_out_single
<1>3. sent \in Databases(n) /\ sent.store = d.store /\ sent.ctx[s] \in Context
      /\ sent.ctx[s].inflight = c.inflight /\ sent.ctx[s].queued = c.queued
  <2>1. sent \in Databases(n)
    BY SentAppended
  <2>2. sent.store = d.store /\ sent.ctx[s] = [c EXCEPT !.out = Append(@, item)]
    BY DEF Databases
  <2> HIDE DEF sent
  <2>3. sent.ctx[s].inflight = c.inflight /\ sent.ctx[s].queued = c.queued
    BY <1>1, <2>2 DEF Context
  <2> QED BY <2>1, <2>2, <2>3 DEF Databases
<1>4. CASE e = kept
  <2>1. kept \in Databases(n)
    BY InflightAppended
  <2>2. kept.store = d.store /\ kept.ctx[s] = [c EXCEPT !.inflight = Append(@, item)]
    BY DEF Databases
  <2> HIDE DEF kept, e
  <2>3. /\ kept.ctx[s].inflight = Append(c.inflight, item) /\ kept.ctx[s].queued = c.queued
        /\ kept.ctx[s] \in Context
    BY <1>1, <2>1, <2>2 DEF Context, Databases
  <2>4. \A m : Holds(kept.ctx[s], m) = Holds(c, m) + Bit(m = item.msg)
    <3>1. OneMore(c, kept.ctx[s], item)
      BY <2>3 DEF OneMore
    <3> QED BY <1>1, <2>3, <3>1, HoldsOneMore
  <2> QED BY <1>4, <2>2, <2>4 DEF LetsGo, e
<1>5. CASE e = db__msg_store_ref_dec(sent, item.msg)
  <2> HIDE DEF sent, e
  <2>1. e.ctx = sent.ctx
    BY <1>3, <1>5, RefDec
  <2>2. e.store = db__msg_store_ref_dec(d, item.msg).store
    BY <1>3, <1>5 DEF db__msg_store_ref_dec, Databases
  <2>3. \A m : Holds(e.ctx[s], m) = Holds(c, m)
    BY <1>3, <2>1 DEF Holds
  <2> QED BY <2>2, <2>3 DEF LetsGo, e
<1>6. CASE e = held
  <2> HIDE DEF sent, e
  <2>1. held.store = d.store /\ held.ctx[s] = [sent.ctx[s] EXCEPT !.inflight = Append(@, w)]
        /\ held \in Databases(n)
    BY <1>1, <1>3, InflightAppended DEF Databases
  <2> HIDE DEF held, w
  <2>2. /\ held.ctx[s].inflight = Append(c.inflight, w) /\ held.ctx[s].queued = c.queued
        /\ held.ctx[s] \in Context
    BY <1>3, <2>1 DEF Context, Databases
  <2>3. \A m : Holds(held.ctx[s], m) = Holds(c, m) + Bit(m = w.msg)
    <3>1. OneMore(c, held.ctx[s], w)
      BY <1>3, <2>2 DEF OneMore
    <3> QED BY <1>1, <2>2, <3>1, HoldsOneMore
  <2> QED BY <1>1, <1>6, <2>1, <2>3 DEF LetsGo, e
<1> QED BY <1>2, <1>4, <1>5, <1>6

\* The references of all others to the message stay.
LEMMA SurplusSplit ==
    ASSUME NEW n, NEW d \in Databases(n), NEW e \in Databases(n), NEW s \in Slot,
           OnlyMessages(d, e, s), NEW m
    PROVE  \E k \in Int : /\ Surplus(d, m) = (Ref(d, m) - Holds(d.ctx[s], m)) - k
                         /\ Surplus(e, m) = (Ref(e, m) - Holds(e.ctx[s], m)) - k
<1> DEFINE k == (Total(d, m) - Holds(d.ctx[s], m)) + Kept(d, m)
<1>1. /\ Total(e, m) - Holds(e.ctx[s], m) = Total(d, m) - Holds(d.ctx[s], m)
      /\ Total(d, m) \in Nat /\ Total(e, m) \in Nat
      /\ Holds(d.ctx[s], m) \in Nat /\ Holds(e.ctx[s], m) \in Nat
  BY TotalChanged DEF OnlyMessages
<1>2. Kept(e, m) = Kept(d, m)
  BY DEF OnlyMessages, Kept
<1>3. Ref(d, m) \in Int /\ Ref(e, m) \in Int /\ Kept(d, m) \in Int
  <2>1. Kept(d, m) \in {0, 1}
    BY RefType
  <2> QED BY <2>1, RefType
<1>4. k \in Int /\ Surplus(d, m) = (Ref(d, m) - Holds(d.ctx[s], m)) - k
  BY <1>1, <1>3 DEF Surplus
<1>5. k = (Total(e, m) - Holds(e.ctx[s], m)) + Kept(e, m)
  BY <1>1, <1>2
<1> HIDE DEF k
<1>6. Surplus(e, m) = (Ref(e, m) - Holds(e.ctx[s], m)) - k
  <2>1. Kept(e, m) \in Int
    BY <1>2, <1>3
  <2> QED BY <1>1, <1>3, <1>5, <2>1 DEF Surplus
<1> QED BY <1>4, <1>6

\* The list in flight has been taken out of the context.
ListTaken(d, e, s) ==
    /\ e.store = d.store /\ e.ctx[s].inflight = <<>>
    /\ e.ctx[s].queued = d.ctx[s].queued

\* Its items are owed for: the store still counts them,
LEMMA EmptiedOwes ==
    ASSUME NEW n, NEW d \in Databases(n), NEW e \in Databases(n), NEW s \in Slot,
           OnlyMessages(d, e, s), ListTaken(d, e, s), NEW m
    PROVE  Surplus(e, m) = Surplus(d, m) + Count(d.ctx[s].inflight, Of(m))
<1>1. Ref(e, m) = Ref(d, m)
  BY DEF Ref, ListTaken
<1>2. Count(<<>>, Of(m)) = 0
  BY CountEmpty
<1>3. d.ctx[s] \in Context
  BY DEF Databases
<1>4. Count(d.ctx[s].inflight, Of(m)) \in Nat /\ Count(d.ctx[s].queued, Of(m)) \in Nat
  BY <1>3, HoldsFacts
<1>5. Holds(e.ctx[s], m) = 0 + Count(d.ctx[s].queued, Of(m))
  BY <1>2 DEF Holds, ListTaken
<1>6. Holds(d.ctx[s], m) = Count(d.ctx[s].inflight, Of(m)) + Count(d.ctx[s].queued, Of(m))
  BY DEF Holds
<1>7. PICK k \in Int : /\ Surplus(d, m) = (Ref(d, m) - Holds(d.ctx[s], m)) - k
                      /\ Surplus(e, m) = (Ref(e, m) - Holds(e.ctx[s], m)) - k
  BY SurplusSplit
<1>8. Ref(d, m) \in Int
  BY RefType
<1> QED BY <1>1, <1>4, <1>5, <1>6, <1>7, <1>8

\* at the start of the loop as well.
LEMMA EmptiedOwing ==
    ASSUME NEW n, NEW d \in Databases(n), NEW s \in Slot, Stored(d)
    PROVE  Owing(d, Emptied(d, s), d.ctx[s].inflight)
<1> DEFINE c == d.ctx[s]
           f == Emptied(d, s)
<1>1. c \in Context
  BY DEF Databases
<1>2. /\ f \in Databases(n) /\ OnlyMessages(d, f, s)
      /\ f.ctx[s] = [c EXCEPT !.inflight = <<>>]
  BY EmptiedType
<1>3. f.store = d.store
  BY DEF Emptied, Databases
<1> HIDE DEF f
<1>4. ListTaken(d, f, s)
  <2>1. f.ctx[s].inflight = <<>> /\ f.ctx[s].queued = c.queued
    BY <1>1, <1>2 DEF Context
  <2> QED BY <1>3, <2>1 DEF ListTaken
<1>5. \A m \in Message : Surplus(f, m) = Surplus(d, m) + Count(d.ctx[s].inflight, Of(m))
  BY <1>2, <1>4, EmptiedOwes
<1>6. Stored(f)
  BY <1>3 DEF Stored
<1> QED BY <1>5, <1>6 DEF Owing, f

\* What the loops over the items in flight send or keep stays counted.
LEMMA WrittenBalance ==
    ASSUME NEW n, NEW d \in Databases(n), NEW s \in Slot, NEW i
    PROVE  Balance(d, WrittenFrom(d, s, i))
<1> DEFINE c == d.ctx[s]
           list == c.inflight
           N == Len(list)
<1>1. CASE ~Connected(c)
  BY <1>1, BalanceFacts DEF WrittenFrom
<1>2. CASE Connected(c)
  <2> SUFFICES ASSUME Healthy(d)
               PROVE  Stored(WrittenFrom(d, s, i)) /\ Evenly(d, WrittenFrom(d, s, i))
    BY DEF Balance
  <2>1. PICK w : /\ w \in [0..N -> Databases(n)] /\ Passes(d, s, i, w)
                 /\ WrittenFrom(d, s, i) = w[N]
    BY <1>2, LoopPasses
  <2>2. c \in Context /\ list \in Seq(Item) /\ N \in Nat
    BY LenProperties DEF Databases, Context
  <2> DEFINE T == {k \in 0..N : Owing(d, w[k], Left(list, k))}
  <2>3. 0 \in T
    <3>1. w[0] = Emptied(d, s)
      BY <2>1 DEF Passes
    <3>2. Owing(d, Emptied(d, s), d.ctx[s].inflight)
      BY EmptiedOwing DEF Healthy
    <3>3. Left(list, 0) = list
      BY <2>2, LeftFacts
    <3> QED BY <2>2, <3>1, <3>2, <3>3
  <2>4. ASSUME NEW k \in 0..(N - 1), k \in T PROVE k + 1 \in T
    <3>1. k + 1 \in 1..N /\ k + 1 \in 0..N /\ (k + 1) - 1 = k /\ k \in 0..N
      BY <2>2
    <3>2. w[k + 1] = Pass(w[k], s, i, k + 1, list[k + 1])
      BY <2>1, <3>1 DEF Passes
    <3>3. list[k + 1] \in Item /\ w[k] \in Databases(n) /\ w[k + 1] \in Databases(n)
      BY <2>1, <2>2, <3>1, ElementOfSeq
    <3>4. OnlyMessages(w[k], w[k + 1], s)
      BY <3>2, <3>3, PassDoes
    <3>5. LetsGo(w[k], w[k + 1], s, list[k + 1].msg)
      BY <3>2, <3>3, PassLetsGo
    <3>6. Owing(d, w[k], Left(list, k))
      BY <2>4
    <3> HIDE DEF list, T
    <3>7. Owing(d, w[k + 1], Left(list, k + 1))
      BY <2>2, <3>3, <3>4, <3>5, <3>6, OwingLess
    <3> QED BY <3>1, <3>7 DEF T
  <2>5. N \in T
    <3> HIDE DEF T, N
    <3>1. \A k \in 0..N : k \in T
      BY <2>2, <2>3, <2>4, Numbers!UpTo
    <3> QED BY <2>2, <3>1
  <2>6. Left(list, N) = <<>>
    BY <2>2, LeftFacts
  <2>7. Owing(d, w[N], <<>>)
    BY <2>5, <2>6
  <2> HIDE DEF N, T, list
  <2> QED BY <2>1, <2>7, OwingNothing
<1> QED BY <1>1, <1>2

\* db__message_write_queued_out moves items within a context.
LEMMA QueueHolds ==
    ASSUME NEW c \in Context
    PROVE  \A m : Holds(db__message_write_queued_out(c), m) = Holds(c, m)
<1> DEFINE N == Len(c.queued)
           n == Min({c.quota, N})
           first == SubSeq(c.queued, 1, n)
           rest == SubSeq(c.queued, n + 1, N)
           moved == Resent(c.queued, n)
           e == db__message_write_queued_out(c)
<1>1. c.quota \in Nat /\ N \in Nat /\ c.queued \in Seq(Item) /\ c.inflight \in Seq(Item)
  BY LenProperties, BrokerAssumption DEF Context
<1>2. n \in Nat /\ n <= N /\ n \in 0..N
  BY <1>1, MinOfTwo
<1>3. e.inflight = c.inflight \o moved /\ e.queued = rest
  BY DEF db__message_write_queued_out, Context, Resent
<1> HIDE DEF n, e
<1>4. moved \in Seq(Item) /\ Len(moved) = n /\ rest \in Seq(Item)
  BY <1>1, <1>2, SplitLined
<1>5. first \in Seq(Item) /\ Len(first) = n /\ \A i \in 1..n : first[i] = c.queued[i]
  BY <1>1, <1>2, SubSeqProperties
<1>6. c.queued = first \o rest
  <2>1. SubSeq(c.queued, 1, n) \o SubSeq(c.queued, n + 1, N) = SubSeq(c.queued, 1, N)
    <3>1. 1 \in 1..(N + 1) /\ n \in (1 - 1)..N /\ N \in n..N
      BY <1>1, <1>2
    <3> HIDE DEF N
    <3> QED BY <1>1, <3>1, ConcatAdjacentSubSeq DEF N
  <2>2. SubSeq(c.queued, 1, N) = c.queued
    BY <1>1, SubSeqFull
  <2> QED BY <2>1, <2>2, ZenonT(60)
<1>7. \A i \in 1..n : moved[i].msg = first[i].msg /\ moved[i] \in Item /\ first[i] \in Item
  <2> SUFFICES ASSUME NEW i \in 1..n
               PROVE  moved[i].msg = first[i].msg /\ moved[i] \in Item /\ first[i] \in Item
    OBVIOUS
  <2>1. moved[i] = [c.queued[i] EXCEPT !.state = "publish"] /\ first[i] = c.queued[i]
    BY <1>5 DEF Resent
  <2>2. c.queued[i] \in Item
    BY <1>1, <1>2, ElementOfSeq
  <2>3. /\ [c.queued[i] EXCEPT !.state = "publish"] \in Item
        /\ [c.queued[i] EXCEPT !.state = "publish"].msg = c.queued[i].msg
    BY <2>2, ItemFacts DEF Item
  <2> QED BY <2>1, <2>2, <2>3
<1> HIDE DEF first, rest, moved
<1> SUFFICES ASSUME NEW m PROVE Holds(e, m) = Holds(c, m)
  BY DEF e
<1>8. Count(moved, Of(m)) = Count(first, Of(m))
  <2>1. \A i \in 1..n : moved[i] \in Of(m) <=> first[i] \in Of(m)
    BY <1>7 DEF Of
  <2> QED BY <1>4, <1>5, <2>1, CountSame
<1>9. Count(c.inflight \o moved, Of(m)) = Count(c.inflight, Of(m)) + Count(moved, Of(m))
  BY <1>1, <1>4, CountConcat
<1>10. Count(c.queued, Of(m)) = Count(first, Of(m)) + Count(rest, Of(m))
  BY <1>4, <1>5, <1>6, CountConcat
<1>11. /\ Count(c.inflight, Of(m)) \in Nat /\ Count(first, Of(m)) \in Nat
       /\ Count(rest, Of(m)) \in Nat
  BY <1>1, <1>4, <1>5, CountType
<1>12. Holds(e, m) = (Count(c.inflight, Of(m)) + Count(first, Of(m))) + Count(rest, Of(m))
  BY <1>3, <1>8, <1>9 DEF Holds
<1>13. Holds(c, m) = Count(c.inflight, Of(m)) + (Count(first, Of(m)) + Count(rest, Of(m)))
  BY <1>10 DEF Holds
<1> QED BY <1>11, <1>12, <1>13

\* The queue of context s moves on.
QueueOut(d, s) == [d EXCEPT !.ctx[s] = db__message_write_queued_out(@)]

\* That moves no reference,
LEMMA QueueBalance ==
    ASSUME NEW n, NEW d \in Databases(n), NEW s \in Slot
    PROVE  QueueOut(d, s) \in Databases(n) /\ Balance(d, QueueOut(d, s))
<1> DEFINE e == QueueOut(d, s)
<1>1. e \in Databases(n) /\ OnlyMessages(d, e, s)
  BY QueueWritten DEF QueueOut
<1>2. e.store = d.store /\ e.ctx[s] = db__message_write_queued_out(d.ctx[s])
  BY DEF QueueOut, Databases
<1> HIDE DEF e
<1>3. d.ctx[s] \in Context
  BY DEF Databases
<1>4. HoldsStill(d, e, s)
  BY <1>2, <1>3, QueueHolds DEF HoldsStill
<1>5. Balance(d, e)
  BY <1>1, <1>4, SameHeld
<1> QED BY <1>1, <1>5 DEF e

\* nor does sending what is last in flight,
LEMMA LatestBalance ==
    ASSUME NEW n, NEW d \in Databases(n), NEW s \in Slot
    PROVE  /\ db__message_write_inflight_out_latest(d, s) \in Databases(n)
           /\ Balance(d, db__message_write_inflight_out_latest(d, s))
<1>1. \E i : db__message_write_inflight_out_latest(d, s) = WrittenFrom(d, s, i)
  BY DEF db__message_write_inflight_out_latest
<1> QED BY <1>1, WrittenBalance, LatestWritten

\* nor both of them.
LEMMA UpdatedBalance ==
    ASSUME NEW n, NEW d \in Databases(n), NEW s \in Slot
    PROVE  Balance(d, Updated(d, s))
<1> DEFINE e == db__message_write_inflight_out_latest(d, s)
<1>1. e \in Databases(n) /\ Balance(d, e)
  BY LatestBalance
<1>2. Updated(d, s) = e \/ Updated(d, s) = QueueOut(e, s)
  BY DEF Updated, QueueOut
<1> HIDE DEF e
<1>3. Balance(e, QueueOut(e, s))
  BY <1>1, QueueBalance
<1> QED BY <1>1, <1>2, <1>3, BalanceFacts

-----------------------------------------------------------------------------
(* A message is held for one more client *)

\* A message that is put in flight or in the queue is counted once more.
LEMMA HeldStores ==
    ASSUME NEW n, NEW d \in Databases(n), NEW s \in Slot, NEW m \in 1..MaxPublish,
           NEW mid, NEW qos, NEW retain
    PROVE  LET h == Held(d, s, m, mid, qos, retain).store
               e == db__msg_store_ref_inc(d, m).store
           IN  DOMAIN h = DOMAIN e /\ \A k \in DOMAIN e : h[k].ref = e[k].ref
<1> DEFINE c == d.ctx[s]
           e == db__msg_store_ref_inc(d, m)
           fate == Fate(c, qos)
           item == [msg |-> m, mid |-> mid, qos |-> qos, retain |-> retain, state |-> fate]
           w == [e.store EXCEPT ![m].dest = IF retain THEN @ ELSE @ \cup {c.id}]
           h == Held(d, s, m, mid, qos, retain)
<1>1. e.ctx = d.ctx /\ e \in Databases(n)
  BY RefInc
<1> HIDE DEF e, item, fate
<1>2. h = [e EXCEPT !.ctx[s].inflight = IF fate = "publish" THEN Append(@, item) ELSE @,
                    !.ctx[s].queued = IF fate = "queued" THEN Append(@, item) ELSE @,
                    !.ctx[s].quota = IF fate = "publish" /\ qos > 0 THEN @ - 1 ELSE @,
                    !.store[m].dest = IF retain THEN @ ELSE @ \cup {c.id}]
  BY Zenon DEF Held, e, item, fate
<1> HIDE DEF c, h
<1>3. h.store = w
  BY <1>1, <1>2 DEF Databases, c
<1>4. PICK A \in SUBSET (1..n) : e.store \in [A -> StoredMessage]
  BY <1>1 DEF Databases, Stores
<1>5. DOMAIN w = DOMAIN e.store /\ \A k \in DOMAIN e.store : w[k].ref = e.store[k].ref
  BY <1>4 DEF StoredMessage
<1> HIDE DEF w
<1> QED BY <1>3, <1>5 DEF e, h

\* It is counted for the item that was added.
LEMMA HeldBalance ==
    ASSUME NEW n, NEW d \in Databases(n), NEW s \in Slot, NEW m \in 1..MaxPublish,
           NEW mid \in Mid, NEW qos \in {0, 1}, NEW retain \in BOOLEAN,
           Fate(d.ctx[s], qos) # "dropped", m \in DOMAIN d.store
    PROVE  Balance(d, Held(d, s, m, mid, qos, retain))
<1> DEFINE c == d.ctx[s]
           e == db__msg_store_ref_inc(d, m)
           h == Held(d, s, m, mid, qos, retain)
           item == NewItem(c, m, mid, qos, retain)
<1> SUFFICES ASSUME Healthy(d) PROVE Stored(h) /\ Evenly(d, h)
  BY DEF Balance
<1>1. h \in Databases(n) /\ OnlyMessages(d, h, s) /\ h.ctx[s] = Given(c, item)
  BY HeldType
<1>2. DOMAIN h.store = DOMAIN e.store /\ \A k \in DOMAIN e.store : h.store[k].ref = e.store[k].ref
  BY HeldStores
<1>3. Stored(e) /\ \A k : Ref(e, k) = Ref(d, k) + Bit(k = m)
  BY IncCounts DEF Healthy
<1> HIDE DEF e
<1>4. c \in Context /\ item \in Item /\ item.state \in {"publish", "queued"} /\ item.msg = m
  <2>1. Fate(c, qos) \in {"publish", "queued"}
    BY DEF Fate
  <2>2. item \in Item
    BY <2>1, ItemFacts DEF NewItem
  <2> QED BY <2>1, <2>2 DEF NewItem, Databases
<1> HIDE DEF item, h, c
<1>5. OneMore(c, h.ctx[s], item)
  BY <1>1, <1>4 DEF Given, Messages, Context, OneMore
<1>6. h.ctx[s] \in Context
  BY <1>1 DEF Databases
<1>7. \A k : Holds(h.ctx[s], k) = Holds(c, k) + Bit(k = m)
  BY <1>4, <1>5, <1>6, HoldsOneMore
<1>8. Stored(h) /\ \A k : Ref(h, k) = Ref(e, k)
  BY <1>2, <1>3 DEF Stored, Ref
<1>9. ASSUME NEW k \in Message PROVE Surplus(h, k) = Surplus(d, k)
  <2>1. Ref(h, k) = Ref(d, k) + Bit(k = m) /\ Holds(h.ctx[s], k) = Holds(c, k) + Bit(k = m)
    BY <1>3, <1>7, <1>8
  <2>2. Bit(k = m) \in {0, 1}
    BY DEF Bit
  <2>3. PICK j \in Int : /\ Surplus(d, k) = (Ref(d, k) - Holds(c, k)) - j
                         /\ Surplus(h, k) = (Ref(h, k) - Holds(h.ctx[s], k)) - j
    BY <1>1, SurplusSplit DEF c
  <2>4. Ref(d, k) \in Int /\ Holds(c, k) \in Nat
    BY <1>4, RefType, HoldsFacts
  <2>5. Ref(h, k) - Holds(h.ctx[s], k) = Ref(d, k) - Holds(c, k)
    BY <2>1, <2>2, <2>4
  <2> QED BY <2>3, <2>5
<1> QED BY <1>8, <1>9 DEF Evenly

\* db__message_insert counts what it keeps and nothing else.
LEMMA InsertBalance ==
    ASSUME NEW n, NEW d \in Databases(n), NEW s \in Slot, NEW m \in 1..MaxPublish,
           NEW mid \in Mid, NEW qos \in {0, 1}, NEW retain \in BOOLEAN, NEW update,
           m \in DOMAIN d.store
    PROVE  Balance(d, db__message_insert(d, s, m, mid, qos, retain, update))
<1> DEFINE e == Held(d, s, m, mid, qos, retain)
           r == db__message_insert(d, s, m, mid, qos, retain, update)
<1>1. \/ r = d
      \/ Fate(d.ctx[s], qos) # "dropped" /\ (r = e \/ r = Updated(e, s))
  BY DEF db__message_insert
<1>2. CASE r = d
  BY <1>2, BalanceFacts
<1>3. CASE Fate(d.ctx[s], qos) # "dropped" /\ (r = e \/ r = Updated(e, s))
  <2>1. e \in Databases(n) /\ Balance(d, e)
    BY <1>3, HeldType, HeldBalance
  <2> HIDE DEF e, r
  <2>2. Balance(e, Updated(e, s))
    BY <2>1, UpdatedBalance
  <2> QED BY <1>3, <2>1, <2>2, BalanceFacts DEF r
<1> QED BY <1>1, <1>2, <1>3

\* A packet identifier more changes no reference.
LEMMA OfferedBalance ==
    ASSUME NEW n, NEW d \in Databases(n), NEW s \in Slot, NEW m \in 1..MaxPublish,
           NEW qos \in {0, 1}, NEW retain \in BOOLEAN, NEW update, m \in DOMAIN d.store
    PROVE  Balance(d, Offered(d, s, m, qos, retain, update))
<1> DEFINE mid == IF qos = 0 THEN 0 ELSE mosquitto__mid_generate(d.ctx[s].last_mid)
           numbered == [d EXCEPT !.ctx[s].last_mid = mid]
           e == IF qos = 0 THEN d ELSE numbered
<1>1. d.ctx[s] \in Context /\ d.ctx[s].last_mid \in Mid
  BY DEF Databases, Context
<1>2. mid \in Mid
  BY <1>1, MidFacts
<1>3. Offered(d, s, m, qos, retain, update) = db__message_insert(e, s, m, mid, qos, retain, update)
  BY DEF Offered
<1> HIDE DEF mid
<1>4. /\ numbered \in Databases(n) /\ OnlyMessages(d, numbered, s)
      /\ numbered.store = d.store /\ HoldsStill(d, numbered, s)
  <2> DEFINE c == [d.ctx[s] EXCEPT !.last_mid = mid]
  <2>1. numbered = [d EXCEPT !.ctx[s] = c]
    BY DEF Databases
  <2>2. c \in Context /\ Session(c) = Session(d.ctx[s])
    BY <1>1, <1>2, ContextChanges
  <2>3. c.inflight = d.ctx[s].inflight /\ c.queued = d.ctx[s].queued
    BY <1>1 DEF Context
  <2> HIDE DEF c, numbered
  <2>4. numbered \in Databases(n) /\ OnlyMessages(d, numbered, s)
    BY <2>1, <2>2, MessagesReplaced
  <2>5. numbered.store = d.store /\ numbered.ctx[s] = c
    BY <2>1, <2>2, ContextReplaced, <2>4
  <2>6. \A k : Holds(numbered.ctx[s], k) = Holds(d.ctx[s], k)
    BY <2>3, <2>5 DEF Holds
  <2> QED BY <2>4, <2>5, <2>6 DEF HoldsStill
<1> HIDE DEF numbered
<1>5. Balance(d, numbered)
  BY <1>4, SameHeld
<1>6. e \in Databases(n) /\ Balance(d, e) /\ m \in DOMAIN e.store
  BY <1>4, <1>5, BalanceFacts
<1> HIDE DEF e
<1>7. Balance(e, db__message_insert(e, s, m, mid, qos, retain, update))
  BY <1>2, <1>6, InsertBalance
<1> QED BY <1>3, <1>6, <1>7, BalanceFacts

\* subs__process offers a message that is protected to one subscriber after another.
LEMMA ProcessBalance ==
    ASSUME NEW n, NEW d \in Databases(n), NEW t, NEW m \in Message, IsFiniteSet(d.leaves),
           Healthy(d), Surplus(d, m) > 0
    PROVE  Balance(d, subs__process(d, t, m))
<1> DEFINE S == {e \in Databases(n) : Balance(d, e)}
<1>1. d \in S
  BY BalanceFacts
<1>2. ASSUME NEW e \in S, NEW leaf \in Subscribers(d, t) PROVE subs__send(e, leaf, m) \in S
  <2>1. leaf.slot \in Slot /\ leaf.qos \in {0, 1} /\ FALSE \in BOOLEAN /\ m \in 1..MaxPublish
    BY DEF Leaf, Subscribers, Databases, Message
  <2>2. e \in Databases(n) /\ Balance(d, e) /\ Healthy(e) /\ Surplus(e, m) = Surplus(d, m)
    BY BalanceFacts DEF Balance, Evenly
  <2>3. m \in DOMAIN e.store
    BY <2>2, InStore
  <2>4. /\ subs__send(e, leaf, m) \in Databases(n)
        /\ Balance(e, subs__send(e, leaf, m))
    <3> HIDE DEF S
    <3>1. subs__send(e, leaf, m) \in Databases(n)
      BY <2>1, <2>2, OfferedType DEF subs__send
    <3>2. Balance(e, subs__send(e, leaf, m))
      BY <2>1, <2>2, <2>3, OfferedBalance DEF subs__send
    <3> QED BY <3>1, <3>2
  <2> QED BY <2>2, <2>4, BalanceFacts
<1>3. subs__process(d, t, m) \in S
  <2> HIDE DEF S
  <2> QED BY <1>1, <1>2, ProcessInside
<1> QED BY <1>3

\* A message is retained for one topic at most.
Single(d) == \A x, y \in Topic : d.retained[x] = d.retained[y] => d.retained[x] = NoMessage \/ x = y

\* A new message is retained instead of the old one of its topic.
KeptInstead(d, e, t, m) ==
    /\ \A r \in Topic \ {t} : e.retained[r] = d.retained[r]
    /\ e.retained[t] = m /\ \A r \in Topic : d.retained[r] # m

\* Which messages are retained then
LEMMA KeptMoves ==
    ASSUME NEW d, NEW e, NEW t \in Topic, NEW m \in Message, Single(d), KeptInstead(d, e, t, m),
           NEW k \in Message
    PROVE  Kept(e, k) = (Kept(d, k) - Bit(k = d.retained[t])) + Bit(k = m)
<1>0. k # NoMessage
  BY BrokerAssumption DEF NoMessage, Message
<1>1. CASE k = m
  <2>1. Kept(e, k) = 1 /\ Kept(d, k) = 0 /\ k # d.retained[t]
    BY <1>1 DEF Kept, Bit, KeptInstead
  <2> QED BY <1>1, <2>1 DEF Bit
<1>2. CASE k # m /\ k = d.retained[t]
  <2>1. Kept(d, k) = 1
    BY <1>2 DEF Kept, Bit
  <2>2. ASSUME NEW r \in Topic PROVE e.retained[r] # k
    BY <1>0, <1>2 DEF KeptInstead, Single
  <2>3. Kept(e, k) = 0
    BY <2>2 DEF Kept, Bit
  <2> QED BY <1>2, <2>1, <2>3 DEF Bit
<1>3. CASE k # m /\ k # d.retained[t]
  <2>1. \A r \in Topic : e.retained[r] = k <=> d.retained[r] = k
    BY <1>3 DEF KeptInstead
  <2>2. Kept(e, k) = Kept(d, k) /\ Kept(d, k) \in {0, 1}
    BY <2>1 DEF Kept, Bit
  <2> QED BY <1>3, <2>2 DEF Bit
<1> QED BY <1>1, <1>2, <1>3

\* The same contexts hold the same messages.
LEMMA SameTotal ==
    ASSUME NEW d, NEW e, e.ctx = d.ctx
    PROVE  \A m : Total(e, m) = Total(d, m)
  BY DEF Total

\* retain__store counts the new message before the old one is forgotten.
LEMMA RetainBalance ==
    ASSUME NEW n \in Nat, n <= MaxPublish, NEW d \in Databases(n), NEW t \in Topic,
           NEW m \in 1..n, m \in Message, Single(d), \A r \in Topic : d.retained[r] # m,
           m \in DOMAIN d.store
    PROVE  Balance(d, retain__store(d, t, m))
<1> DEFINE old == d.retained[t]
           e == IF old = NoMessage THEN d ELSE db__msg_store_ref_dec(d, old)
           f == [e EXCEPT !.retained[t] = m]
           g == retain__store(d, t, m)
<1> SUFFICES ASSUME Healthy(d) PROVE Stored(g) /\ Evenly(d, g)
  BY DEF Balance
<1>1. e \in Databases(n) /\ e.ctx = d.ctx /\ e.retained = d.retained
  BY RefDec
<1>2. old \in 0..n /\ old # m
  BY DEF Databases
<1>3. Stored(e) /\ \A k \in Message : Ref(e, k) = Ref(d, k) - Bit(k = old)
  <2>1. CASE old = NoMessage
    <3>1. e = d /\ \A k \in Message : Ref(d, k) \in Int /\ k # old
      BY <2>1, RefType, BrokerAssumption DEF NoMessage, Message
    <3>2. \A k \in Message : Bit(k = old) = 0
      BY <3>1 DEF Bit
    <3>3. \A k \in Message : Ref(d, k) = Ref(d, k) - Bit(k = old)
      BY <3>1, <3>2
    <3> HIDE DEF old
    <3> QED BY <3>1, <3>3 DEF Healthy
  <2>2. CASE old # NoMessage
    <3>1. old \in DOMAIN d.store
      <4>1. DOMAIN d.store \subseteq 1..n /\ old \in 1..n
        BY <1>2, <2>2, RefType DEF NoMessage
      <4>2. old \in Message
        BY <4>1, BrokerAssumption DEF Message
      <4> QED BY <4>2, InStore
    <3>2. e = db__msg_store_ref_dec(d, old) /\ Stored(d)
      BY <2>2 DEF Healthy
    <3> HIDE DEF e, old
    <3> QED BY <3>1, <3>2, DecCounts
  <2> QED BY <2>1, <2>2
<1> HIDE DEF e, old
<1>4. m \in DOMAIN e.store
  <2>1. Ref(d, m) > 0 /\ Ref(d, m) \in Int
    BY RefType DEF Healthy
  <2>2. Ref(e, m) = Ref(d, m)
    <3>1. Bit(m = old) = 0
      BY <1>2 DEF Bit
    <3> QED BY <1>3, <2>1, <3>1
  <2> QED BY <1>1, <1>3, <2>1, <2>2, RefType
<1>5. /\ f \in Databases(n) /\ f.ctx = e.ctx /\ f.store = e.store
      /\ f.retained = [e.retained EXCEPT ![t] = m]
  BY <1>1 DEF Databases
<1>6. g = db__msg_store_ref_inc(f, m)
  BY DEF retain__store, e, old
<1> HIDE DEF f, g
<1>7. Stored(f) /\ \A k : Ref(f, k) = Ref(e, k)
  BY <1>3, <1>5 DEF Stored, Ref
<1>8. Stored(g) /\ \A k : Ref(g, k) = Ref(f, k) + Bit(k = m)
  BY <1>4, <1>5, <1>6, <1>7, IncCounts
<1>9. g \in Databases(n) /\ g.ctx = d.ctx /\ g.retained = [d.retained EXCEPT ![t] = m]
  <2>1. g \in Databases(n) /\ g.ctx = f.ctx /\ g.retained = f.retained
    BY <1>5, <1>6, RefInc
  <2> QED BY <1>1, <1>5, <2>1
<1>10. KeptInstead(d, g, t, m)
  <2>1. d.retained \in [Topic -> 0..n]
    BY DEF Databases
  <2> QED BY <1>9, <2>1 DEF KeptInstead
<1>11. ASSUME NEW k \in Message PROVE Surplus(g, k) = Surplus(d, k)
  <2>1. Kept(g, k) = (Kept(d, k) - Bit(k = old)) + Bit(k = m)
    BY <1>10, KeptMoves DEF old
  <2>2. Ref(g, k) = (Ref(d, k) - Bit(k = old)) + Bit(k = m)
    BY <1>3, <1>7, <1>8
  <2>3. Total(g, k) = Total(d, k) /\ Total(d, k) \in Nat
    BY <1>9, SameTotal, SurplusType
  <2>4. Bit(k = old) \in {0, 1} /\ Bit(k = m) \in {0, 1}
    BY DEF Bit
  <2>5. Ref(d, k) \in Int /\ Kept(d, k) \in {0, 1}
    BY RefType
  <2>6. Ref(g, k) - Kept(g, k) = Ref(d, k) - Kept(d, k)
    BY <2>1, <2>2, <2>4, <2>5
  <2>7. Ref(g, k) \in Int /\ Kept(g, k) \in {0, 1}
    BY <1>9, RefType
  <2> QED BY <2>3, <2>5, <2>6, <2>7 DEF Surplus
<1> QED BY <1>8, <1>11 DEF Evenly, g

-----------------------------------------------------------------------------
\* The store counts exactly the references there are.
Counted(d) == Stored(d) /\ \A m \in Message : Surplus(d, m) = 0

\* What is counted exactly stays so in a step in balance.
LEMMA CountedFacts ==
    ASSUME NEW d, Counted(d)
    PROVE  Healthy(d) /\ \A e : Balance(d, e) => Counted(e)
  BY DEF Counted, Healthy, Balance, Evenly

\* A message that is stored, and protected
LEMMA ProtectedCounts ==
    ASSUME NEW n \in Nat, NEW d \in Databases(n), n + 1 \in Message, Counted(d)
    PROVE  LET e == db__msg_store_ref_inc(db__message_store(d, n + 1), n + 1) IN
           /\ e \in Databases(n + 1) /\ e.leaves = d.leaves /\ e.retained = d.retained
           /\ Stored(e) /\ \A m \in Message : Surplus(e, m) = Bit(m = n + 1)
<1> DEFINE k == n + 1
           a == db__message_store(d, k)
           e == db__msg_store_ref_inc(a, k)
<1>1. /\ a \in Databases(k) /\ a.ctx = d.ctx /\ a.leaves = d.leaves
  BY StoreType
<1>2. /\ a.retained = d.retained
      /\ a.store = [m \in DOMAIN d.store \cup {k} |->
                        IF m = k THEN [ref |-> 0, dest |-> {}] ELSE d.store[m]]
  BY DEF db__message_store, Databases
<1>3. DOMAIN d.store \subseteq 1..n /\ k \notin DOMAIN d.store /\ k # NoMessage /\ k \in Message
  <2>1. DOMAIN d.store \subseteq 1..n
    BY RefType
  <2> QED BY <2>1 DEF NoMessage
<1> HIDE DEF a, k
<1>4. /\ e \in Databases(k) /\ e.ctx = a.ctx /\ e.leaves = a.leaves /\ e.retained = a.retained
  BY <1>1, RefInc
<1>5. e.store = [a.store EXCEPT ![k].ref = @ + 1]
  BY <1>1 DEF db__msg_store_ref_inc, Databases
<1> HIDE DEF e
<1>6. /\ DOMAIN e.store = DOMAIN d.store \cup {k} /\ e.store[k].ref = 1
      /\ \A m \in DOMAIN d.store : e.store[m] = d.store[m]
  BY <1>2, <1>3, <1>5
<1>7. Stored(e)
  BY <1>6 DEF Stored, Counted
<1>8. \A m : Ref(e, m) = Ref(d, m) + Bit(m = k)
  <2> SUFFICES ASSUME NEW m PROVE Ref(e, m) = Ref(d, m) + Bit(m = k)
    OBVIOUS
  <2>1. Ref(d, m) \in Int
    BY RefType
  <2>2. CASE m = k
    BY <1>3, <1>6, <2>2 DEF Ref, Bit
  <2>3. CASE m # k
    <3>1. Ref(e, m) = Ref(d, m)
      BY <1>6, <2>3 DEF Ref
    <3> QED BY <2>1, <2>3, <3>1 DEF Bit
  <2> QED BY <2>2, <2>3
<1>9. ASSUME NEW m \in Message PROVE Surplus(e, m) = Bit(m = k)
  <2>1. Total(e, m) = Total(d, m) /\ Total(d, m) \in Nat /\ Kept(e, m) = Kept(d, m)
    BY <1>1, <1>2, <1>4, SameTotal, SurplusType DEF Kept
  <2>2. Surplus(d, m) = 0
    BY DEF Counted
  <2>3. Ref(d, m) \in Int /\ Kept(d, m) \in {0, 1} /\ Bit(m = k) \in {0, 1}
    BY RefType DEF Bit
  <2>4. Ref(e, m) = Ref(d, m) + Bit(m = k)
    BY <1>8
  <2> QED BY <2>1, <2>2, <2>3, <2>4 DEF Surplus
<1> QED BY <1>1, <1>2, <1>4, <1>7, <1>9 DEF e, a, k

\* Nothing is retained that was not published yet.
LEMMA UnbornUnused ==
    ASSUME NEW n \in Nat, NEW d \in Databases(n), NEW t \in Topic
    PROVE  d.retained[t] # n + 1
<1>1. d.retained[t] \in 0..n
  BY DEF Databases
<1> QED BY <1>1

\* sub__messages_queue: protected while it is sent, retained, and let go of
LEMMA QueuedCounts ==
    ASSUME NEW n \in Nat, NEW d \in Databases(n), n + 1 \in Message, Counted(d), Single(d),
           IsFiniteSet(d.leaves), NEW t \in Topic
    PROVE  Counted(sub__messages_queue(db__message_store(d, n + 1), t, n + 1))
<1> DEFINE k == n + 1
           e == db__msg_store_ref_inc(db__message_store(d, k), k)
           f == subs__process(e, t, k)
           g == retain__store(f, t, k)
           h == db__msg_store_ref_dec(g, k)
<1>1. /\ e \in Databases(k) /\ e.leaves = d.leaves /\ e.retained = d.retained
      /\ Stored(e) /\ \A m \in Message : Surplus(e, m) = Bit(m = k)
  BY ProtectedCounts
<1>2. k \in Message /\ k \in Nat /\ k \in 1..k /\ k \in 1..MaxPublish /\ k <= MaxPublish
  BY BrokerAssumption DEF Message
<1>3. \A r \in Topic : d.retained[r] # k
  BY UnbornUnused
<1> HIDE DEF k
<1>4. h = sub__messages_queue(db__message_store(d, k), t, k)
  BY DEF sub__messages_queue
<1> HIDE DEF e
<1>5. Healthy(e) /\ Surplus(e, k) > 0
  <2>1. \A m \in Message : Bit(m = k) >= 0
    BY DEF Bit
  <2>2. Bit(k = k) > 0
    BY DEF Bit
  <2> QED BY <1>1, <1>2, <2>1, <2>2 DEF Healthy
<1>6. Balance(e, f)
  BY <1>1, <1>2, <1>5, ProcessBalance
<1>7. f \in Databases(k) /\ f.retained = d.retained
  BY <1>1, <1>2, ProcessType, ProcessRetains
<1> HIDE DEF f
<1>8. Healthy(f) /\ \A m \in Message : Surplus(f, m) = Bit(m = k)
  BY <1>1, <1>5, <1>6, BalanceFacts DEF Balance, Evenly
<1>9. k \in DOMAIN f.store
  <2>1. Surplus(f, k) > 0
    BY <1>2, <1>8 DEF Bit
  <2> QED BY <1>2, <1>7, <1>8, <2>1, InStore
<1>10. Single(f) /\ \A r \in Topic : f.retained[r] # k
  BY <1>3, <1>7 DEF Single
<1>11. g \in Databases(k) /\ Balance(f, g)
  BY <1>2, <1>7, <1>9, <1>10, RetainType, RetainBalance
<1> HIDE DEF g
<1>12. Healthy(g) /\ \A m \in Message : Surplus(g, m) = Bit(m = k)
  BY <1>8, <1>11, BalanceFacts DEF Balance, Evenly
<1>13. h \in Databases(k) /\ h.ctx = g.ctx /\ h.leaves = g.leaves /\ h.retained = g.retained
  BY <1>11, RefDec
<1>14. LetsGo(g, h, 1, k) /\ OnlyMessages(g, h, 1) /\ 1 \in Slot
  BY <1>13, BrokerAssumption DEF LetsGo, OnlyMessages, Slot
<1> HIDE DEF h
<1>15. OneLess(g, h, k)
  <2>1. Surplus(g, k) > 0
    BY <1>2, <1>12 DEF Bit
  <2> QED BY <1>2, <1>11, <1>12, <1>13, <1>14, <2>1, LetGo
<1>16. \A m \in Message : Surplus(h, m) = 0
  <2>1. \A m \in Message : Surplus(h, m) = Bit(m = k) - Bit(m = k)
    BY <1>12, <1>15 DEF OneLess
  <2>2. \A m \in Message : Bit(m = k) \in Int
    BY DEF Bit
  <2> QED BY <2>1, <2>2
<1>17. Counted(h)
  BY <1>15, <1>16 DEF Counted, OneLess
<1> QED BY <1>4, <1>17 DEF k

\* The retained message of a topic is offered to a new subscriber.
LEMMA CopyBalance ==
    ASSUME NEW n \in Nat, n <= MaxPublish, NEW d \in Databases(n), NEW s \in Slot,
           NEW t \in Topic, NEW qos \in {0, 1}
    PROVE  Balance(d, retain__process(d, s, t, qos))
<1> DEFINE m == d.retained[t]
<1>1. CASE m = NoMessage
  BY <1>1, BalanceFacts DEF retain__process
<1>2. CASE m # NoMessage
  <2> SUFFICES ASSUME Healthy(d) PROVE Balance(d, retain__process(d, s, t, qos))
    BY DEF Balance
  <2>1. m \in 0..n
    BY DEF Databases
  <2>2. m \in 1..MaxPublish /\ m \in Message /\ TRUE \in BOOLEAN
    BY <1>2, <2>1, BrokerAssumption DEF NoMessage, Message
  <2>3. m \in DOMAIN d.store
    BY <2>2, InStore
  <2> QED BY <1>2, <2>2, <2>3, OfferedBalance DEF retain__process
<1> QED BY <1>1, <1>2

\* The item of a packet identifier is taken out of flight, and its message is
\* let go of.
LEMMA WithoutMidBalance ==
    ASSUME NEW n, NEW d \in Databases(n), NEW s \in Slot, NEW mid
    PROVE  Balance(d, WithoutMid(d, s, mid))
<1> DEFINE c == d.ctx[s]
           list == c.inflight
           found == {i \in DOMAIN list : list[i].mid = mid}
           i == Min(found)
           one == [c EXCEPT !.inflight = RemoveAt(list, i)]
           e == [d EXCEPT !.ctx[s] = one]
           x == list[i].msg
           f == db__msg_store_ref_dec(e, x)
<1>0. d.ctx[s] \in Context
  BY DEF Databases
<1>1. WithoutMid(d, s, mid) = IF found = {} THEN d ELSE f
  BY <1>0 DEF WithoutMid, Databases, Context
<1>2. CASE found = {}
  BY <1>1, <1>2, BalanceFacts
<1>3. CASE found # {}
  <2>0. WithoutMid(d, s, mid) = f
    BY <1>1, <1>3
  <2> SUFFICES ASSUME Healthy(d)
               PROVE  Stored(WithoutMid(d, s, mid)) /\ Evenly(d, WithoutMid(d, s, mid))
    BY DEF Balance
  <2>1. list \in Seq(Item) /\ c \in Context
    BY DEF Databases, Context
  <2>2. i \in 1..Len(list)
    <3>1. found \subseteq Nat /\ found \subseteq 1..Len(list)
      BY <2>1, LenProperties
    <3> HIDE DEF found
    <3> QED BY <1>3, <3>1, SmallestExists
  <2> HIDE DEF i, found
  <2>3. list[i] \in Item /\ x \in Message
    <3>1. list[i] \in Item
      <4> HIDE DEF list
      <4> QED BY <2>1, <2>2, ElementOfSeq
    <3> HIDE DEF i, list
    <3> QED BY <3>1 DEF Item, Message
  <2>4. /\ RemoveAt(list, i) \in Seq(Item)
        /\ \A P : Count(list, P) = Count(RemoveAt(list, i), P) + Bit(list[i] \in P)
    <3> HIDE DEF list
    <3> QED BY <2>1, <2>2, CountRemoved
  <2>5. /\ one \in Context /\ Session(one) = Session(c)
        /\ one.inflight = RemoveAt(list, i) /\ one.queued = c.queued
    BY <2>1, <2>4, ContextChanges DEF Context
  <2>6. \A m : Holds(c, m) = Holds(one, m) + Bit(m = x)
    <3> SUFFICES ASSUME NEW m PROVE Holds(c, m) = Holds(one, m) + Bit(m = x)
      OBVIOUS
    <3>1. Bit(list[i] \in Of(m)) = Bit(m = x) /\ Bit(m = x) \in {0, 1}
      BY <2>3 DEF Of, Bit
    <3>2. Count(list, Of(m)) = Count(RemoveAt(list, i), Of(m)) + Bit(list[i] \in Of(m))
      BY <2>4
    <3>3. Count(RemoveAt(list, i), Of(m)) \in Nat /\ Count(c.queued, Of(m)) \in Nat
      BY <2>1, <2>4, CountType DEF Context
    <3>4. Holds(c, m) = Count(list, Of(m)) + Count(c.queued, Of(m))
      BY DEF Holds
    <3>5. Holds(one, m) = Count(RemoveAt(list, i), Of(m)) + Count(c.queued, Of(m))
      BY <2>5 DEF Holds
    <3> HIDE DEF list, c, one, x
    <3> QED BY <3>1, <3>2, <3>3, <3>4, <3>5
  <2> HIDE DEF one, list, x, c
  <2>7. e \in Databases(n) /\ OnlyMessages(d, e, s)
    BY <2>5, MessagesReplaced DEF c
  <2>8. e \in Databases(n) /\ e.ctx[s] = one /\ e.store = d.store
    BY <2>5, ContextReplaced
  <2> HIDE DEF e
  <2>9. ASSUME NEW m \in Message PROVE Surplus(e, m) = Surplus(d, m) + Bit(m = x)
    <3>1. Ref(e, m) = Ref(d, m)
      BY <2>8 DEF Ref
    <3>2. PICK j \in Int : /\ Surplus(d, m) = (Ref(d, m) - Holds(d.ctx[s], m)) - j
                           /\ Surplus(e, m) = (Ref(e, m) - Holds(e.ctx[s], m)) - j
      BY <2>7, SurplusSplit
    <3>3. Holds(d.ctx[s], m) = Holds(e.ctx[s], m) + Bit(m = x) /\ Bit(m = x) \in {0, 1}
      BY <2>6, <2>8 DEF Bit, c
    <3>4. Ref(d, m) \in Int /\ Holds(e.ctx[s], m) \in Nat
      BY <2>5, <2>8, RefType, HoldsFacts
    <3> QED BY <3>1, <3>2, <3>3, <3>4
  <2>10. \A m \in Message : Surplus(d, m) \in Int /\ Surplus(d, m) >= 0 /\ Bit(m = x) \in {0, 1}
    BY SurplusType DEF Healthy, Bit
  <2>11. Healthy(e)
    <3>1. Stored(e)
      BY <2>8 DEF Stored, Healthy
    <3> QED BY <2>9, <2>10, <3>1 DEF Healthy
  <2>12. Surplus(e, x) > 0
    <3>1. Bit(x = x) = 1
      BY DEF Bit
    <3> QED BY <2>3, <2>9, <2>10, <3>1
  <2>13. f \in Databases(n) /\ f.ctx = e.ctx /\ f.leaves = e.leaves /\ f.retained = e.retained
    BY <2>8, RefDec
  <2>14. LetsGo(e, f, s, x) /\ OnlyMessages(e, f, s)
    BY <2>13 DEF LetsGo, OnlyMessages
  <2> HIDE DEF f
  <2>15. OneLess(e, f, x)
    BY <2>3, <2>8, <2>11, <2>12, <2>13, <2>14, LetGo
  <2>16. ASSUME NEW m \in Message PROVE Surplus(f, m) = Surplus(d, m)
    <3>1. Surplus(f, m) = Surplus(e, m) - Bit(m = x)
      BY <2>15 DEF OneLess
    <3> QED BY <2>9, <2>10, <3>1
  <2> QED BY <2>0, <2>15, <2>16 DEF Evenly, OneLess
<1> QED BY <1>2, <1>3

\* What moves on from the queue behind an acknowledged item stays counted.
LEMMA DeletedBalance ==
    ASSUME NEW n, NEW d \in Databases(n), NEW s \in Slot, NEW mid
    PROVE  Balance(d, db__message_delete_outgoing(d, s, mid))
<1> DEFINE e == WithoutMid(d, s, mid)
           f == QueueOut(e, s)
<1>1. e \in Databases(n) /\ Balance(d, e)
  BY WithoutMidType, WithoutMidBalance
<1> HIDE DEF e
<1>2. f \in Databases(n) /\ Balance(e, f)
  BY <1>1, QueueBalance
<1>3. db__message_delete_outgoing(d, s, mid) = db__message_write_inflight_out_latest(f, s)
  BY DEF db__message_delete_outgoing, e, QueueOut
<1> HIDE DEF f
<1>4. Balance(f, db__message_write_inflight_out_latest(f, s))
  BY <1>2, LatestBalance
<1> QED BY <1>1, <1>2, <1>3, <1>4, BalanceFacts

-----------------------------------------------------------------------------
(* Subscriptions and sessions *)

\* The subscription tree refers to no message.
LEMMA AddBalance ==
    ASSUME NEW n, NEW d \in Databases(n), NEW s \in Slot, NEW t, NEW qos
    PROVE  Balance(d, sub__add(d, s, t, qos))
<1> DEFINE e == sub__add(d, s, t, qos)
           same == {leaf \in d.leaves : leaf.topic = t /\ d.ctx[leaf.slot].id = d.ctx[s].id}
<1>1. e.store = d.store /\ e.retained = d.retained
  BY DEF sub__add, Databases
<1>2. CASE same # {}
  <2>1. e.ctx = d.ctx
    BY <1>2 DEF sub__add, Databases
  <2> HIDE DEF e
  <2>2. AllHeldStill(d, e)
    BY <1>1, <2>1 DEF AllHeldStill
  <2> QED BY <2>2, SameReferences DEF e
<1>3. CASE same = {}
  <2>1. e.ctx = [d.ctx EXCEPT ![s] = [d.ctx[s] EXCEPT !.subs = @ \cup {t}]]
    BY <1>3 DEF sub__add, Databases, Context
  <2> HIDE DEF e, same
  <2>2. SameLines(d, e)
    BY <2>1, OnlyListChanged
  <2>3. AllHeldStill(d, e)
    BY <1>1, <2>2 DEF AllHeldStill, SameLines, SameLine
  <2> QED BY <2>3, SameReferences DEF e
<1> QED BY <1>2, <1>3

\* Neither does a leaf that goes,
LEMMA RemoveBalance ==
    ASSUME NEW n, NEW d \in Databases(n), NEW s \in Slot, NEW t
    PROVE  Balance(d, sub__remove(d, s, t))
<1> DEFINE e == sub__remove(d, s, t)
<1>1. /\ e.store = d.store /\ e.retained = d.retained
      /\ e.ctx = [d.ctx EXCEPT ![s] = [d.ctx[s] EXCEPT !.subs = @ \ {t}]]
  BY DEF sub__remove, Databases, Context
<1> HIDE DEF e
<1>2. SameLines(d, e)
  BY <1>1, OnlyListChanged
<1>3. AllHeldStill(d, e)
  BY <1>1, <1>2 DEF AllHeldStill, SameLines, SameLine
<1> QED BY <1>3, SameReferences DEF e

\* nor all the leaves of a session,
LEMMA CleanBalance ==
    ASSUME NEW n, NEW d \in Databases(n), NEW s \in Slot
    PROVE  Balance(d, sub__clean_session(d, s))
<1> DEFINE e == sub__clean_session(d, s)
<1>1. /\ e.store = d.store /\ e.retained = d.retained
      /\ e.ctx = [d.ctx EXCEPT ![s] = [d.ctx[s] EXCEPT !.subs = {}]]
  BY DEF sub__clean_session, Databases, Context
<1> HIDE DEF e
<1>2. SameLines(d, e)
  BY <1>1, OnlyListChanged
<1>3. AllHeldStill(d, e)
  BY <1>1, <1>2 DEF AllHeldStill, SameLines, SameLine
<1> QED BY <1>3, SameReferences DEF e

\* and what was on its way on a connection that ends is not counted.
LEMMA DisconnectBalance ==
    ASSUME NEW n, NEW d \in Databases(n), NEW s \in Slot
    PROVE  Balance(d, do_disconnect(d, s))
<1> DEFINE e == do_disconnect(d, s)
<1>1. d.ctx[s] \in Context
  BY DEF Databases
<1>2. /\ e.store = d.store /\ e.retained = d.retained
      /\ e.ctx[s].inflight = d.ctx[s].inflight /\ e.ctx[s].queued = d.ctx[s].queued
  BY <1>1 DEF do_disconnect, Databases, Context
<1>3. \A r \in Slot \ {s} : e.ctx[r] = d.ctx[r]
  BY DisconnectType
<1> HIDE DEF e
<1>4. AllHeldStill(d, e)
  BY <1>2, <1>3 DEF AllHeldStill
<1> QED BY <1>4, SameReferences DEF e

\* db__message_reconnect_reset sends again what is held.
LEMMA ResetHolds ==
    ASSUME NEW c \in Context
    PROVE  \A m : Holds(db__message_reconnect_reset(c), m) = Holds(c, m)
<1> DEFINE N == Len(c.inflight)
           again == [i \in DOMAIN c.inflight |-> [c.inflight[i] EXCEPT !.state = "publish"]]
           counted == {i \in DOMAIN again : again[i].qos > 0}
           used == Cardinality(counted)
           quota == IF used > InflightMax THEN 0 ELSE InflightMax - used
           one == [c EXCEPT !.inflight = again]
           two == [one EXCEPT !.quota = quota]
<1>1. /\ c.inflight \in Seq(Item) /\ N \in Nat /\ DOMAIN c.inflight = 1..N
      /\ \A i \in 1..N : c.inflight[i] \in Item
  BY LenProperties, ElementOfSeq DEF Context
<1>2. /\ again \in [1..N -> Item]
      /\ \A i \in 1..N : again[i].msg = c.inflight[i].msg
  BY <1>1 DEF Item
<1>3. used \in Nat
  <2>1. DOMAIN again = 1..N
    BY <1>1
  <2> HIDE DEF again
  <2>2. counted \subseteq 1..N /\ IsFiniteSet(1..N)
    BY <1>1, <2>1, FirstNumbers
  <2> HIDE DEF counted
  <2> QED BY <2>2, FS_Subset, FS_CardinalityType
<1>4. db__message_reconnect_reset(c) = db__message_write_queued_out(two)
  BY DEF db__message_reconnect_reset, Context
<1> HIDE DEF again, used
<1>5. quota \in 0..InflightMax
  BY <1>3, BrokerAssumption
<1> HIDE DEF quota
<1>6. again \in Seq(Item) /\ Len(again) = N
  BY <1>1, <1>2
<1>7. one \in Context /\ one.queued = c.queued /\ one.inflight = again
  BY <1>6, ContextChanges DEF Context
<1> HIDE DEF one
<1>8. two \in Context /\ two.queued = c.queued /\ two.inflight = again
  BY <1>5, <1>7, ContextChanges DEF Context
<1> HIDE DEF two, N
<1> SUFFICES ASSUME NEW m PROVE Holds(db__message_reconnect_reset(c), m) = Holds(c, m)
  OBVIOUS
<1>9. Count(again, Of(m)) = Count(c.inflight, Of(m))
  <2>1. \A i \in 1..N : again[i] \in Of(m) <=> c.inflight[i] \in Of(m)
    BY <1>1, <1>2 DEF Of
  <2>2. Len(c.inflight) = N
    BY DEF N
  <2> QED BY <1>1, <1>6, <2>1, <2>2, CountSame
<1>10. Holds(db__message_write_queued_out(two), m) = Holds(two, m)
  BY <1>8, QueueHolds
<1> QED BY <1>4, <1>8, <1>9, <1>10 DEF Holds

\* A context that inherits a session holds what the old one held ...
LEMMA InheritedHolds ==
    ASSUME NEW c \in Context, NEW old \in Context, Blank(c), NEW m
    PROVE  Holds(Inherited(c, old), m) = Holds(old, m)
<1> DEFINE fresh == BookkeepingMoved(c, old)
           half == [fresh EXCEPT !.inflight = old.inflight]
           full == [half EXCEPT !.queued = old.queued]
<1>1. /\ old.subs \in SUBSET Topic /\ old.last_mid \in Mid
      /\ old.inflight \in Seq(Item) /\ old.queued \in Seq(Item)
  BY DEF Context
<1>2. /\ fresh \in Context /\ fresh.inflight = c.inflight /\ fresh.queued = c.queued
  BY <1>1 DEF Context, BookkeepingMoved
<1>3. CASE old.inflight = <<>> /\ old.queued = <<>>
  <2>1. Inherited(c, old) = fresh
    BY <1>3 DEF Inherited
  <2> HIDE DEF fresh
  <2> QED BY <1>2, <1>3, <2>1 DEF Holds, Blank
<1>4. CASE ~(old.inflight = <<>> /\ old.queued = <<>>)
  <2> HIDE DEF fresh
  <2>1. [fresh EXCEPT !.inflight = old.inflight, !.queued = old.queued] = full
    BY <1>2 DEF Context
  <2>2. Inherited(c, old) = db__message_reconnect_reset(full)
    BY <1>4, <2>1 DEF Inherited, fresh
  <2>3. half \in Context /\ half.inflight = old.inflight
    BY <1>1, <1>2, ContextChanges DEF Context
  <2> HIDE DEF half
  <2>4. full \in Context /\ full.inflight = old.inflight /\ full.queued = old.queued
    BY <1>1, <2>3, ContextChanges DEF Context
  <2> HIDE DEF full
  <2>5. Holds(db__message_reconnect_reset(full), m) = Holds(full, m)
    BY <2>4, ResetHolds
  <2> QED BY <2>2, <2>4, <2>5 DEF Holds
<1> QED BY <1>3, <1>4

\* Two contexts hold together what they held before, the others what they held.
HoldTogether(d, e, s, f) ==
    /\ e.store = d.store /\ e.retained = d.retained
    /\ \A r \in Slot \ {s, f} : e.ctx[r] = d.ctx[r]
    /\ \A m : Holds(e.ctx[s], m) + Holds(e.ctx[f], m) = Holds(d.ctx[s], m) + Holds(d.ctx[f], m)

\* No reference is lost between them.
LEMMA TwoMoved ==
    ASSUME NEW n, NEW d \in Databases(n), NEW e \in Databases(n), NEW s \in Slot, NEW f \in Slot,
           s # f, HoldTogether(d, e, s, f)
    PROVE  Balance(d, e)
<1> DEFINE x == [d EXCEPT !.ctx[s] = e.ctx[s]]
<1>1. e.ctx[s] \in Context
  BY DEF Databases
<1>2. x \in Databases(n) /\ x.ctx[s] = e.ctx[s] /\ \A r \in Slot \ {s} : x.ctx[r] = d.ctx[r]
  BY <1>1, ContextReplaced
<1> HIDE DEF x
<1>3. \A r \in Slot \ {f} : e.ctx[r] = x.ctx[r]
  BY <1>2 DEF HoldTogether
<1>4. x.ctx[f] = d.ctx[f]
  BY <1>2
<1>5. ASSUME NEW m PROVE Surplus(e, m) = Surplus(d, m)
  <2>1. /\ Total(x, m) - Holds(x.ctx[s], m) = Total(d, m) - Holds(d.ctx[s], m)
        /\ Total(x, m) \in Nat /\ Total(d, m) \in Nat
        /\ Holds(x.ctx[s], m) \in Nat /\ Holds(d.ctx[s], m) \in Nat
    BY <1>2, TotalChanged
  <2>2. /\ Total(e, m) - Holds(e.ctx[f], m) = Total(x, m) - Holds(x.ctx[f], m)
        /\ Total(e, m) \in Nat /\ Holds(e.ctx[f], m) \in Nat /\ Holds(x.ctx[f], m) \in Nat
    BY <1>2, <1>3, TotalChanged
  <2>3. Holds(e.ctx[s], m) + Holds(e.ctx[f], m) = Holds(d.ctx[s], m) + Holds(d.ctx[f], m)
    BY DEF HoldTogether
  <2>4. Total(e, m) = Total(d, m)
    BY <1>2, <1>4, <2>1, <2>2, <2>3
  <2>5. Ref(e, m) = Ref(d, m) /\ Kept(e, m) = Kept(d, m)
    BY DEF Ref, Kept, HoldTogether
  <2> QED BY <2>4, <2>5 DEF Surplus
<1>6. Stored(d) => Stored(e)
  BY DEF Stored, HoldTogether
<1> QED BY <1>5, <1>6 DEF Balance, Healthy, Evenly

\* ... so that taking over a session moves no reference.
LEMMA SessionMovedBalance ==
    ASSUME NEW n, NEW d \in Databases(n), NEW s \in Slot, NEW f \in Slot, s # f, Blank(d.ctx[s])
    PROVE  Balance(d, SessionMoved(d, s, f))
<1> DEFINE e == SessionMoved(d, s, f)
<1>0. d.ctx[s] \in Context /\ d.ctx[f] \in Context
  BY DEF Databases
<1>1. e.store = d.store /\ e.retained = d.retained
  BY DEF SessionMoved, ContextMoved, Databases
<1>2. e \in Databases(n) /\ e.ctx = ContextMoved(d, s, f).ctx
  BY SessionMovedType
<1> HIDE DEF e
<1>3. e.ctx[s] = Inherited(d.ctx[s], d.ctx[f]) /\ e.ctx[f] = HandedOver(d.ctx[f])
  BY <1>2, MovedDoes
<1>4. \A r \in Slot \ {s, f} : e.ctx[r] = d.ctx[r]
  BY <1>2, MovedType
<1>5. ASSUME NEW m
      PROVE  Holds(e.ctx[s], m) + Holds(e.ctx[f], m) = Holds(d.ctx[s], m) + Holds(d.ctx[f], m)
  <2>1. Holds(e.ctx[s], m) = Holds(d.ctx[f], m)
    BY <1>0, <1>3, InheritedHolds
  <2>2. Holds(e.ctx[f], m) = 0
    <3>1. HandedOver(d.ctx[f]).inflight = <<>> /\ HandedOver(d.ctx[f]).queued = <<>>
      BY <1>0 DEF HandedOver, Context
    <3> QED BY <1>3, <3>1, CountEmpty DEF Holds
  <2>3. Holds(d.ctx[s], m) = 0
    BY CountEmpty DEF Blank, Holds
  <2>4. Holds(d.ctx[f], m) \in Nat
    BY <1>0, HoldsFacts
  <2> QED BY <2>1, <2>2, <2>3, <2>4
<1>6. HoldTogether(d, e, s, f)
  BY <1>1, <1>4, <1>5 DEF HoldTogether
<1> QED BY <1>2, <1>6, TwoMoved DEF e

\* What is said of a session changes, its messages do not.
LEMMA SessionBalance ==
    ASSUME NEW n, NEW d \in Databases(n), NEW s \in Slot, NEW c \in Context,
           c.inflight = d.ctx[s].inflight, c.queued = d.ctx[s].queued
    PROVE  Balance(d, [d EXCEPT !.ctx[s] = c])
<1> DEFINE e == [d EXCEPT !.ctx[s] = c]
<1>1. /\ e \in Databases(n)
      /\ e.store = d.store /\ e.retained = d.retained /\ e.ctx[s] = c
      /\ \A r \in Slot \ {s} : e.ctx[r] = d.ctx[r]
  BY ContextReplaced
<1> HIDE DEF e
<1>2. AllHeldStill(d, e)
  BY <1>1 DEF AllHeldStill
<1> QED BY <1>2, SameReferences DEF e

\* A takeover moves the references of the session or leaves them where they are.
LEMMA TakenOverBalance ==
    ASSUME NEW n, NEW d \in Databases(n), NEW s \in Slot, NEW f \in Slot, s # f, Blank(d.ctx[s])
    PROVE  Balance(d, TakenOver(d, s, f))
<1> DEFINE g == IF ~d.ctx[s].clean /\ ~d.ctx[f].clean THEN SessionMoved(d, s, f)
                ELSE IF d.ctx[s].clean THEN sub__clean_session(d, f) ELSE d
           ends == [g.ctx[f] EXCEPT !.clean = TRUE]
           h == [g EXCEPT !.ctx[f] = ends]
           e == TakenOver(d, s, f)
<1>1. g \in Databases(n) /\ Balance(d, g)
  <2>1. SessionMoved(d, s, f) \in Databases(n) /\ Balance(d, SessionMoved(d, s, f))
    BY SessionMovedType, SessionMovedBalance
  <2>2. sub__clean_session(d, f) \in Databases(n) /\ Balance(d, sub__clean_session(d, f))
    BY CleanType, CleanBalance
  <2>3. Balance(d, d)
    BY BalanceFacts
  <2> QED BY <2>1, <2>2, <2>3
<1>2. e = do_disconnect(h, f)
  <2>1. e = do_disconnect([g EXCEPT !.ctx[f].clean = TRUE], f)
    BY DEF TakenOver
  <2> HIDE DEF g, e
  <2>2. [g EXCEPT !.ctx[f].clean = TRUE] = h
    BY <1>1 DEF Databases, Context
  <2> QED BY <2>1, <2>2
<1> HIDE DEF g
<1>3. g.ctx[f] \in Context
  BY <1>1 DEF Databases
<1>4. ends \in Context /\ ends.inflight = g.ctx[f].inflight /\ ends.queued = g.ctx[f].queued
  BY <1>3, SessionChanges DEF Context
<1> HIDE DEF ends
<1>5. h \in Databases(n) /\ Balance(g, h)
  BY <1>1, <1>4, ContextReplaced, SessionBalance
<1> HIDE DEF h
<1>6. Balance(h, do_disconnect(h, f))
  BY <1>5, DisconnectBalance
<1> HIDE DEF e
<1> QED BY <1>1, <1>2, <1>5, <1>6, BalanceFacts DEF e

\* connect__on_authorised: a takeover, and everything is sent again.
LEMMA ConnectedBalance ==
    ASSUME NEW n, NEW d \in Databases(n), NEW s \in Slot, NEW m \in Node, Blank(d.ctx[s])
    PROVE  Balance(d, connect__on_authorised(d, s, m))
<1> DEFINE e == Cleared(d, s, m)
           c == e.ctx[s]
           one == [c EXCEPT !.state = "active"]
           two == [one EXCEPT !.id = m]
           active == [e EXCEPT !.ctx[s] = two]
           moved == QueueOut(active, s)
           r == connect__on_authorised(d, s, m)
<1>1. e \in Databases(n)
  BY ConnectedType
<1>2. Balance(d, e)
  <2>1. e = d \/ \E f \in Slot \ {s} : e = TakenOver(d, s, f)
    BY ClearedFacts
  <2>2. \A f \in Slot \ {s} : Balance(d, TakenOver(d, s, f))
    BY TakenOverBalance
  <2> HIDE DEF e
  <2> QED BY <2>1, <2>2, BalanceFacts
<1>3. r = db__message_write_inflight_out_all(moved, s)
  <2>1. c \in Context
    BY <1>1 DEF Databases
  <2>2. [e EXCEPT !.ctx[s].state = "active", !.ctx[s].id = m] = active
    BY <1>1, <2>1 DEF Databases, Context
  <2> HIDE DEF active
  <2>3. r = db__message_write_inflight_out_all(
              [[e EXCEPT !.ctx[s].state = "active", !.ctx[s].id = m]
                  EXCEPT !.ctx[s] = db__message_write_queued_out(@)], s)
    BY DEF connect__on_authorised, Cleared
  <2> HIDE DEF r, e
  <2> QED BY <2>2, <2>3 DEF QueueOut
<1> HIDE DEF e, r
<1>4. c \in Context /\ "active" \in ContextState
  BY <1>1 DEF Databases, ContextState
<1>5. one \in Context /\ one.inflight = c.inflight /\ one.queued = c.queued
  <2> HIDE DEF c
  <2> QED BY <1>4, SessionChanges DEF Context
<1> HIDE DEF one
<1>6. two \in Context /\ two.inflight = c.inflight /\ two.queued = c.queued
  <2> HIDE DEF c
  <2> QED BY <1>5, SessionChanges DEF Context
<1> HIDE DEF two
<1>7. active \in Databases(n) /\ Balance(e, active)
  BY <1>1, <1>6, ContextReplaced, SessionBalance
<1> HIDE DEF active
<1>8. moved \in Databases(n) /\ Balance(active, moved)
  BY <1>7, QueueBalance
<1> HIDE DEF moved
<1>9. Balance(moved, WrittenFrom(moved, s, 1))
  BY <1>8, WrittenBalance
<1>10. r = WrittenFrom(moved, s, 1)
  BY <1>3 DEF db__message_write_inflight_out_all
<1>11. Balance(d, active) /\ Balance(active, r)
  BY <1>2, <1>7, <1>8, <1>9, <1>10, BalanceFacts
<1> QED BY <1>11, BalanceFacts DEF r

-----------------------------------------------------------------------------
\* What is owed for a list is paid when the list is let go of.
LEMMA ReleasedOwing ==
    ASSUME NEW n, NEW d \in Databases(n), Healthy(d), NEW list \in Seq(Item),
           NEW e \in Databases(n), Owing(d, e, list)
    PROVE  Owing(d, Released(e, list), <<>>)
<1> DEFINE N == Len(list)
<1>1. PICK w : /\ w \in [0..N -> Databases(n)] /\ w[0] = e
               /\ \A k \in 1..N : w[k] = db__msg_store_ref_dec(w[k - 1], list[k].msg)
               /\ Released(e, list) = w[N]
  BY ReleasedRuns
<1>2. N \in Nat /\ N = Len(list)
  BY LenProperties
<1> HIDE DEF N
<1> DEFINE T == {k \in 0..N : Owing(d, w[k], Left(list, k))}
<1>3. 0 \in T
  <2>1. Left(list, 0) = list
    BY LeftFacts
  <2> QED BY <1>1, <1>2, <2>1
<1>4. PICK s : s \in Slot
  <2>1. 1 \in Slot
    BY BrokerAssumption DEF Slot
  <2> QED BY <2>1
<1>5. ASSUME NEW k \in 0..(N - 1), k \in T PROVE k + 1 \in T
  <2>1. k + 1 \in 1..N /\ k + 1 \in 0..N /\ (k + 1) - 1 = k /\ k \in 0..N
    BY <1>2
  <2>2. w[k + 1] = db__msg_store_ref_dec(w[k], list[k + 1].msg)
    BY <1>1, <2>1
  <2>3. w[k] \in Databases(n) /\ w[k + 1] \in Databases(n)
    BY <1>1, <2>1
  <2>4. /\ w[k + 1].ctx = w[k].ctx /\ w[k + 1].leaves = w[k].leaves
        /\ w[k + 1].retained = w[k].retained
    BY <2>2, <2>3, RefDec
  <2>5. OnlyMessages(w[k], w[k + 1], s) /\ LetsGo(w[k], w[k + 1], s, list[k + 1].msg)
    BY <2>2, <2>4 DEF OnlyMessages, LetsGo
  <2>6. Owing(d, w[k], Left(list, k)) /\ k \in 0..(Len(list) - 1)
    BY <1>2, <1>5
  <2> HIDE DEF T
  <2>7. Owing(d, w[k + 1], Left(list, k + 1))
    BY <1>4, <2>3, <2>5, <2>6, OwingLess
  <2> QED BY <2>1, <2>7 DEF T
<1>6. N \in T
  <2> HIDE DEF T
  <2>1. \A k \in 0..N : k \in T
    BY <1>2, <1>3, <1>5, Numbers!UpTo
  <2> QED BY <1>2, <2>1
<1>7. Left(list, N) = <<>>
  BY <1>2, LeftFacts
<1> QED BY <1>1, <1>6, <1>7

\* A context that is freed lets go of all that it holds.
LEMMA CleanupBalance ==
    ASSUME NEW n, NEW d \in Databases(n), NEW s \in Slot
    PROVE  Balance(d, context__cleanup(d, s))
<1> DEFINE e == sub__clean_session(d, s)
           f == [e EXCEPT !.ctx[s] = NewContext]
           c == d.ctx[s]
           list == c.inflight \o c.queued
<1> SUFFICES ASSUME Healthy(d)
             PROVE  Stored(context__cleanup(d, s)) /\ Evenly(d, context__cleanup(d, s))
  BY DEF Balance
<1>1. context__cleanup(d, s) = Released(f, list)
  BY DEF context__cleanup
<1>2. c.inflight \in Seq(Item) /\ c.queued \in Seq(Item) /\ c \in Context
  BY DEF Databases, Context
<1>3. list \in Seq(Item) /\ \A m : Count(list, Of(m)) = Holds(c, m)
  <2>1. \A P : Count(list, P) = Count(c.inflight, P) + Count(c.queued, P)
    BY <1>2, CountConcat
  <2> QED BY <1>2, <2>1, ConcatProperties DEF Holds
<1> HIDE DEF list
<1>4. e \in Databases(n) /\ Balance(d, e)
  BY CleanType, CleanBalance
<1>5. \A m : Holds(e.ctx[s], m) = Holds(c, m)
  <2>1. e.ctx[s].inflight = c.inflight /\ e.ctx[s].queued = c.queued
    BY DEF sub__clean_session, Databases, Context
  <2> HIDE DEF e
  <2> QED BY <2>1 DEF Holds
<1> HIDE DEF e
<1>6. /\ f \in Databases(n) /\ f.ctx[s] = NewContext /\ f.store = e.store
      /\ f.retained = e.retained /\ \A r \in Slot \ {s} : f.ctx[r] = e.ctx[r]
  BY <1>4, NewContextType, ContextReplaced
<1> HIDE DEF f
<1>7. ASSUME NEW m \in Message PROVE Surplus(f, m) = Surplus(d, m) + Count(list, Of(m))
  <2>1. Surplus(e, m) = Surplus(d, m)
    BY <1>4 DEF Balance, Evenly
  <2>2. Ref(f, m) = Ref(e, m) /\ Kept(f, m) = Kept(e, m)
    BY <1>6 DEF Ref, Kept
  <2>3. Ref(e, m) \in Int /\ Kept(e, m) \in {0, 1}
    BY <1>4, RefType
  <2>4. /\ Total(f, m) - Holds(f.ctx[s], m) = Total(e, m) - Holds(e.ctx[s], m)
        /\ Total(e, m) \in Nat /\ Total(f, m) \in Nat
        /\ Holds(e.ctx[s], m) \in Nat /\ Holds(f.ctx[s], m) \in Nat
    BY <1>4, <1>6, TotalChanged
  <2>5. Holds(f.ctx[s], m) = 0
    BY <1>6, CountEmpty DEF NewContext, Holds
  <2>6. Total(f, m) = Total(e, m) - Holds(e.ctx[s], m)
    BY <2>4, <2>5
  <2>7. Holds(e.ctx[s], m) = Count(list, Of(m))
    BY <1>3, <1>5
  <2>8. Surplus(f, m) = (Ref(f, m) - Total(f, m)) - Kept(f, m)
    BY DEF Surplus
  <2>9. Surplus(e, m) = (Ref(e, m) - Total(e, m)) - Kept(e, m)
    BY DEF Surplus
  <2> QED BY <2>1, <2>2, <2>3, <2>4, <2>6, <2>7, <2>8, <2>9
<1>8. Stored(f)
  <2>1. Stored(e)
    BY <1>4 DEF Balance
  <2> QED BY <1>6, <2>1 DEF Stored
<1>9. Owing(d, f, list)
  BY <1>7, <1>8 DEF Owing
<1>10. Owing(d, Released(f, list), <<>>)
  BY <1>3, <1>6, <1>9, ReleasedOwing
<1> QED BY <1>1, <1>10, OwingNothing

(* The inductive invariant behind StoreIsExact: the count of every message is the
   sum of its places in flight and in the queues of all contexts (Total), and one
   more when it is retained (Kept); nothing is stored without a reference.  While
   a packet is handled the two differ: Balance says that a step from d to e keeps
   the difference (Surplus) of every message if none is negative before, so steps
   can be put one behind the other, and sub__messages_queue can protect the
   message it sends with a reference of its own. Single, which OrderInv implies,
   keeps a message from being retained twice. *)
StoreInv == Counted(db)

\* Nothing is stored at the start, and nothing referred to.
LEMMA StoreInit == BrokerInit => StoreInv
<1> SUFFICES ASSUME BrokerInit PROVE Counted(db)
  BY DEF StoreInv
<1>1. db \in Databases(Len(published))
  BY TypeInit DEF TypeInv
<1>2. /\ db.store = <<>> /\ \A t \in Topic : db.retained[t] = 0
      /\ \A s \in Slot : db.ctx[s] = NewContext
  BY DEF BrokerInit, NoMessage
<1>3. DOMAIN db.store = {}
  BY <1>2
<1>4. Stored(db)
  BY <1>3 DEF Stored
<1>5. ASSUME NEW m \in Message PROVE Surplus(db, m) = 0
  <2>1. Ref(db, m) = 0
    BY <1>3 DEF Ref
  <2>2. Kept(db, m) = 0
    BY <1>2 DEF Kept, Bit, Message
  <2> DEFINE A == [s \in Slot |-> PlacesOf(db.ctx[s], m)]
  <2>3. \A s \in Slot : A[s] = {}
    <3>1. PlacesOf(NewContext, m) = {}
      <4>1. NewContext.inflight \o NewContext.queued = <<>>
        BY DEF NewContext
      <4> QED BY <4>1 DEF PlacesOf, Places
    <3> QED BY <1>2, <3>1
  <2>4. Cardinality(SideBySide(A)) = 0
    <3> HIDE DEF A
    <3>1. Within(A, 0)
      BY <2>3 DEF Within
    <3> QED BY <2>3, <3>1, SideBySideFinite
  <2>5. Total(db, m) = 0
    BY <2>4 DEF Total
  <2> QED BY <2>1, <2>2, <2>5 DEF Surplus
<1> QED BY <1>4, <1>5 DEF Counted

\* handle__publish: no message but the new one changes its surplus.
LEMMA PublishStore ==
    ASSUME TypeInv, OrderInv, StoreInv, NEW t \in Topic, handle__publish(t)
    PROVE  StoreInv'
<1> DEFINE n == Len(published)
<1>1. n < MaxPublish /\ db' = sub__messages_queue(db__message_store(db, n + 1), t, n + 1)
  BY DEF handle__publish
<1>2. n \in Nat /\ db \in Databases(n) /\ IsFiniteSet(db.leaves)
  BY LenProperties DEF TypeInv
<1>3. n + 1 \in Message
  BY <1>1, <1>2, BrokerAssumption DEF Message
<1>4. Single(db)
  BY DEF OrderInv, Retains, Single
<1> HIDE DEF n
<1>5. Counted(sub__messages_queue(db__message_store(db, n + 1), t, n + 1))
  BY <1>2, <1>3, <1>4, QueuedCounts DEF StoreInv
<1> QED BY <1>1, <1>5 DEF StoreInv

\* A step that moves references only keeps the count.
LEMMA StoreKept ==
    ASSUME StoreInv, Balance(db, db')
    PROVE  StoreInv'
BY CountedFacts DEF StoreInv

\* handle__connect moves the references of the old session at most.
LEMMA ConnectStore ==
    ASSUME TypeInv, QuotaInv, StoreInv, NEW n \in Node, NEW clean \in BOOLEAN,
           handle__connect(n, clean)
    PROVE  StoreInv'
<1> DEFINE s == Min(FreeSlots)
           d == [db EXCEPT !.ctx[s].clean = clean]
           c == [db.ctx[s] EXCEPT !.clean = clean]
           k == Len(published)
<1>1. /\ s \in Slot /\ db.ctx[s].state = "free"
      /\ d \in Databases(k) /\ db \in Databases(k)
      /\ db' = connect__on_authorised(d, s, n)
  BY ConnectType DEF FreeSlots, TypeInv
<1> HIDE DEF s, k
<1>2. db.ctx[s] \in Context /\ Blank(db.ctx[s])
  BY <1>1 DEF QuotaInv, Sound, Blank, Databases
<1>3. c \in Context /\ c.inflight = db.ctx[s].inflight /\ c.queued = db.ctx[s].queued /\ Blank(c)
  BY <1>2, SessionChanges DEF Context, Blank
<1>4. d = [db EXCEPT !.ctx[s] = c]
  BY <1>1 DEF Databases
<1> HIDE DEF c, d
<1>5. Balance(db, d) /\ d.ctx[s] = c
  BY <1>1, <1>3, <1>4, SessionBalance, ContextReplaced
<1>6. Balance(d, connect__on_authorised(d, s, n))
  BY <1>1, <1>3, <1>5, ConnectedBalance
<1>7. Balance(db, db')
  BY <1>1, <1>5, <1>6, BalanceFacts
<1> QED BY <1>7, StoreKept

\* handle__subscribe: a retained copy joins the context, and is counted.
LEMMA SubscribeStore ==
    ASSUME TypeInv, StoreInv, NEW n \in Node, NEW t \in Topic, NEW taken \in BOOLEAN,
           handle__subscribe(n, t, taken)
    PROVE  StoreInv'
<1> DEFINE s == link[n]
           p == Len(published)
           d == sub__add(db, s, t, sub_qos[n])
           e == retain__process(d, s, t, sub_qos[n])
           moved == QueueOut(e, s)
<1>1. /\ db \in Databases(p) /\ p \in Nat /\ p <= MaxPublish /\ sub_qos[n] \in {0, 1}
      /\ s \in Slot /\ d \in Databases(p)
  BY SubscribeType, LenProperties DEF TypeInv
<1>2. db' = e \/ db' = db__message_write_inflight_out_latest(moved, s)
  BY DEF handle__subscribe, QueueOut
<1> HIDE DEF s, p
<1>3. Balance(db, d)
  BY <1>1, AddBalance
<1> HIDE DEF d
<1>4. e \in Databases(p) /\ Balance(d, e)
  BY <1>1, CopyType, CopyBalance
<1> HIDE DEF e
<1>5. moved \in Databases(p) /\ Balance(e, moved)
  BY <1>1, <1>4, QueueBalance
<1> HIDE DEF moved
<1>6. Balance(moved, db__message_write_inflight_out_latest(moved, s))
  BY <1>1, <1>5, LatestBalance
<1>7. Balance(db, e)
  BY <1>3, <1>4, BalanceFacts
<1>8. Balance(e, db__message_write_inflight_out_latest(moved, s))
  BY <1>5, <1>6, BalanceFacts
<1>9. Balance(db, db')
  BY <1>2, <1>7, <1>8, BalanceFacts
<1> QED BY <1>9, StoreKept

\* handle__pubackcomp: an item goes, and its reference.
LEMMA PubackStore ==
    ASSUME TypeInv, StoreInv, NEW s \in Slot, handle__pubackcomp(s)
    PROVE  StoreInv'
<1> DEFINE c == db.ctx[s]
           quota == IF c.quota < InflightMax THEN c.quota + 1 ELSE c.quota
           d == [db EXCEPT !.ctx[s].quota = quota]
           one == [c EXCEPT !.quota = quota]
           p == Len(published)
<1>1. db \in Databases(p) /\ c \in Context
  BY DEF TypeInv, Databases
<1>2. quota \in 0..InflightMax
  <2>1. c.quota \in 0..InflightMax
    BY <1>1 DEF Context
  <2> QED BY <2>1, BrokerAssumption
<1>3. db' = db__message_delete_outgoing(d, s, Head(acks[s]))
  BY DEF handle__pubackcomp
<1> HIDE DEF quota, p
<1>4. one \in Context /\ one.inflight = c.inflight /\ one.queued = c.queued
  BY <1>1, <1>2, ContextChanges DEF Context
<1>5. d = [db EXCEPT !.ctx[s] = one]
  BY <1>1 DEF Databases
<1> HIDE DEF one, d
<1>6. d \in Databases(p) /\ Balance(db, d)
  BY <1>1, <1>4, <1>5, ContextReplaced, SessionBalance
<1>7. Balance(d, db__message_delete_outgoing(d, s, Head(acks[s])))
  BY <1>6, DeletedBalance
<1>8. Balance(db, db')
  BY <1>3, <1>6, <1>7, BalanceFacts
<1> QED BY <1>8, StoreKept

\* What is on its way to a node is no reference: it has been written.
LEMMA ReceivesStore ==
    ASSUME TypeInv, StoreInv, NEW n \in Node, NodeReceives(n)
    PROVE  StoreInv'
<1> DEFINE s == link[n]
<1>1. db \in Databases(Len(published)) /\ s \in Slot
  BY ReceivesType DEF TypeInv
<1>2. db' = [db EXCEPT !.ctx[s].out = Tail(@)]
  BY DEF NodeReceives
<1> HIDE DEF s
<1>3. AllHeldStill(db, db')
  BY <1>1, <1>2 DEF AllHeldStill, Databases, Context
<1>4. Balance(db, db')
  BY <1>3, SameReferences
<1> QED BY <1>4, StoreKept

\* context__free_disused lets go of all that its contexts held.
LEMMA FreedStore ==
    ASSUME TypeInv, StoreInv, context__free_disused
    PROVE  StoreInv'
<1> DEFINE p == Len(published)
           S == {e \in Databases(p) : Balance(db, e)}
<1>1. db' = Freed(db, Disused) /\ db \in Databases(p)
  BY FreedType DEF TypeInv
<1>2. db \in S
  BY <1>1, BalanceFacts
<1>3. \A e \in S : \A s \in Slot \cap Disused : context__cleanup(e, s) \in S
  <2> SUFFICES ASSUME NEW e \in S, NEW s \in Slot \cap Disused
               PROVE  context__cleanup(e, s) \in S
    OBVIOUS
  <2>1. e \in Databases(p) /\ Balance(db, e) /\ s \in Slot
    OBVIOUS
  <2>2. context__cleanup(e, s) \in Databases(p) /\ Balance(e, context__cleanup(e, s))
    BY <2>1, CleanupType, CleanupBalance
  <2> QED BY <2>1, <2>2, BalanceFacts
<1>4. db' \in S
  <2> HIDE DEF S
  <2> QED BY <1>1, <1>2, <1>3, FreedInside
<1>5. Balance(db, db')
  BY <1>4
<1> QED BY <1>5, StoreKept

\* Every step keeps the counts exact.
LEMMA StoreStep ==
    ASSUME TypeInv, QuotaInv, OrderInv, StoreInv, [BrokerNext]_vars
    PROVE  StoreInv'
<1>0. db \in Databases(Len(published))
  BY DEF TypeInv
<1>1. CASE context__free_disused
  BY <1>1, FreedStore
<1>2. ASSUME NEW t \in Topic, handle__publish(t) PROVE StoreInv'
  BY <1>2, PublishStore
<1>3. ASSUME NEW s \in Slot, handle__pubackcomp(s) PROVE StoreInv'
  BY <1>3, PubackStore
<1>4. ASSUME NEW s \in Slot, db' = do_disconnect(db, s) PROVE StoreInv'
  BY <1>0, <1>4, DisconnectBalance, StoreKept
<1>5. ASSUME NEW s \in Slot, keepalive__check(s) PROVE StoreInv'
  BY <1>4, <1>5 DEF keepalive__check
<1>6. ASSUME NEW n \in Node, NEW clean \in BOOLEAN, handle__connect(n, clean) PROVE StoreInv'
  BY <1>6, ConnectStore
<1>7. ASSUME NEW n \in Node, NEW t \in Topic, NEW taken \in BOOLEAN,
             handle__subscribe(n, t, taken)
      PROVE  StoreInv'
  BY <1>7, SubscribeStore
<1>8. ASSUME NEW n \in Node, NEW t \in Topic, handle__unsubscribe(n, t) PROVE StoreInv'
  BY <1>0, <1>8, UnsubscribeType, RemoveBalance, StoreKept
<1>9. ASSUME NEW n \in Node, handle__disconnect(n) PROVE StoreInv'
  BY <1>4, <1>9, DisconnectedType
<1>10. ASSUME NEW n \in Node, NodeReceives(n) PROVE StoreInv'
  BY <1>10, ReceivesStore
<1>11. ASSUME db' = db PROVE StoreInv'
  BY <1>11 DEF StoreInv
<1>12. ASSUME NEW n \in Node, LinkLost(n) PROVE StoreInv'
  BY <1>11, <1>12 DEF LinkLost
<1>13. CASE UNCHANGED vars
  BY <1>11, <1>13 DEF vars
<1> QED BY <1>1, <1>2, <1>3, <1>5, <1>6, <1>7, <1>8, <1>9, <1>10, <1>12, <1>13 DEF BrokerNext

\* The property follows: a message is retained once at most, its places in the
\* lists are the references to it.
LEMMA StoreFacts ==
    ASSUME TypeInv, OrderInv, StoreInv
    PROVE  StoreIsExact
<1>1. /\ db \in Databases(Len(published)) /\ Len(published) \in Nat
      /\ published \in Seq(Topic) /\ Len(published) <= MaxPublish
      /\ DOMAIN published = 1..Len(published)
  BY LenProperties DEF TypeInv
<1> SUFFICES ASSUME NEW n \in DOMAIN published
             PROVE  IF References(n) = 0 THEN n \notin DOMAIN db.store
                    ELSE n \in DOMAIN db.store /\ db.store[n].ref = References(n)
  BY DEF StoreIsExact
<1>2. n \in Message /\ n # 0
  BY <1>1, BrokerAssumption DEF Message
<1>3. Cardinality({t \in Topic : db.retained[t] = n}) = Kept(db, n)
  <2>1. CASE \E t \in Topic : db.retained[t] = n
    <3>1. PICK t \in Topic : db.retained[t] = n
      BY <2>1
    <3>2. {r \in Topic : db.retained[r] = n} = {t}
      BY <1>2, <3>1 DEF OrderInv, Retains, NoMessage
    <3> QED BY <2>1, <3>2, FS_Singleton DEF Kept, Bit
  <2>2. CASE ~\E t \in Topic : db.retained[t] = n
    <3>1. {r \in Topic : db.retained[r] = n} = {}
      BY <2>2
    <3> QED BY <2>2, <3>1, FS_EmptySet DEF Kept, Bit
  <2> QED BY <2>1, <2>2
<1>4. \A s \in Slot : {j \in DOMAIN Pending(s) : Pending(s)[j].msg = n} = PlacesOf(db.ctx[s], n)
  <2> SUFFICES ASSUME NEW s \in Slot
               PROVE  {j \in DOMAIN Pending(s) : Pending(s)[j].msg = n} = PlacesOf(db.ctx[s], n)
    OBVIOUS
  <2>1. db.ctx[s].inflight \in Seq(Item) /\ db.ctx[s].queued \in Seq(Item)
    BY <1>1 DEF Databases, Context
  <2>2. Pending(s) \in Seq(Item) /\ Pending(s) = db.ctx[s].inflight \o db.ctx[s].queued
    BY <2>1, ConcatProperties DEF Pending
  <2> HIDE DEF Pending
  <2>3. \A j \in DOMAIN Pending(s) : Pending(s)[j] \in Item
    BY <2>2, ElementOfSeq, LenProperties
  <2> QED BY <2>2, <2>3 DEF PlacesOf, Places, Of
<1>5. UNION {{<<s, i>> : i \in {j \in DOMAIN Pending(s) : Pending(s)[j].msg = n}} : s \in Slot}
        = SideBySide([s \in Slot |-> PlacesOf(db.ctx[s], n)])
  BY <1>4 DEF SideBySide
<1>6. References(n) = Kept(db, n) + Total(db, n)
  BY <1>3, <1>5 DEF References, Total
<1>7. Surplus(db, n) = 0 /\ Stored(db)
  BY <1>2 DEF StoreInv, Counted
<1>8. Ref(db, n) \in Int /\ Kept(db, n) \in {0, 1} /\ Total(db, n) \in Nat
  BY <1>1, RefType, SurplusType
<1>9. Ref(db, n) = References(n)
  BY <1>6, <1>7, <1>8 DEF Surplus
<1>10. CASE n \in DOMAIN db.store
  <2>1. Ref(db, n) > 0
    BY <1>1, <1>7, <1>10, RefType
  <2> QED BY <1>9, <1>10, <2>1 DEF Ref
<1>11. CASE n \notin DOMAIN db.store
  BY <1>9, <1>11 DEF Ref
<1> QED BY <1>10, <1>11

(* Between two packets a stored message counts exactly the references to it and
   is freed with the last one, never earlier: db__message_store,
   db__msg_store_ref_inc and db__msg_store_ref_dec as db__message_insert, the
   write loops, retain__store, db__message_delete_outgoing, takeovers in
   connect__on_authorised and context__cleanup call them, in whatever order. *)
THEOREM StoreAlwaysExact == BrokerSpec => []StoreIsExact
<1>1. BrokerInit => TypeInv /\ SessionInv /\ QuotaInv /\ OrderInv /\ StoreInv
  BY TypeInit, SessionInit, QuotaInit, OrderInit, StoreInit
<1>2. TypeInv /\ SessionInv /\ QuotaInv /\ OrderInv /\ StoreInv /\ [BrokerNext]_vars
        => TypeInv' /\ SessionInv' /\ QuotaInv' /\ OrderInv' /\ StoreInv'
  BY TypeStep, SessionStep, QuotaStep, OrderStep, StoreStep
<1>3. TypeInv /\ OrderInv /\ StoreInv => StoreIsExact
  BY StoreFacts
<1> QED BY <1>1, <1>2, <1>3, PTL DEF BrokerSpec

-----------------------------------------------------------------------------
(* What a client has yet to see *)

\* The messages that are on their way to it or still have to be sent; and the
\* items of which all this consists have not been sent before.
ToCome(c) == (Msgs(c.out) \cup UnsentMsgs(c.inflight)) \cup Msgs(c.queued)
Unsent(q) == \A i \in 1..Len(q) : q[i].state # "wait"
Fresh(c) == Unsent(c.out) /\ Unsent(c.queued)

\* From c to e nothing comes that did not, and nothing is lost.
Carries(c, e) == ToCome(e) = ToCome(c) /\ (Fresh(c) => Fresh(e))

LEMMA CarriesFacts ==
    /\ \A c : Carries(c, c)
    /\ \A c, e, f : Carries(c, e) /\ Carries(e, f) => Carries(c, f)
    /\ \A c, e : SameLine(c, e) => Carries(c, e)
BY DEF Carries, SameLine, ToCome, Fresh

\* The messages still to be sent of a list with one item more
LEMMA AppendUnsent ==
    ASSUME NEW S, NEW q \in Seq(S), NEW x \in S
    PROVE  /\ x.state # "wait" => UnsentMsgs(Append(q, x)) = UnsentMsgs(q) \cup {x.msg}
           /\ x.state = "wait" => UnsentMsgs(Append(q, x)) = UnsentMsgs(q)
           /\ x.state # "wait" /\ Unsent(q) => Unsent(Append(q, x))
<1> DEFINE N == Len(q)
           r == Append(q, x)
<1>1. /\ N \in Nat /\ Len(r) = N + 1 /\ r[N + 1] = x
      /\ \A i \in 1..N : r[i] = q[i]
  BY LenProperties, AppendProperties
<1> HIDE DEF r, N
<1>2. 1..Len(r) = (1..N) \cup {N + 1}
  BY <1>1
<1>3. UnsentMsgs(q) \subseteq UnsentMsgs(r)
  BY <1>1, <1>2 DEF UnsentMsgs, N
<1>4. x.state # "wait" => x.msg \in UnsentMsgs(r)
  BY <1>1, <1>2 DEF UnsentMsgs, N
<1>5. /\ UnsentMsgs(r) \subseteq UnsentMsgs(q) \cup {x.msg}
      /\ x.state = "wait" => UnsentMsgs(r) \subseteq UnsentMsgs(q)
  BY AppendMsgs DEF r
<1>6. x.state # "wait" /\ Unsent(q) => Unsent(r)
  BY <1>1, <1>2 DEF Unsent, N
<1> QED BY <1>3, <1>4, <1>5, <1>6 DEF r

\* One list behind the other, the second one to be sent
LEMMA ConcatUnsent ==
    ASSUME NEW S, NEW a \in Seq(S), NEW b \in Seq(S),
           \A i \in 1..Len(b) : b[i].state = "publish"
    PROVE  UnsentMsgs(a \o b) = UnsentMsgs(a) \cup Msgs(b)
<1> DEFINE A == Len(a)
           B == Len(b)
           r == a \o b
<1>1. A \in Nat /\ B \in Nat /\ Len(r) = A + B
  BY LenProperties, ConcatProperties
<1>2. \A i \in 1..(A + B) : r[i] = IF i <= A THEN a[i] ELSE b[i - A]
  BY ConcatProperties
<1>3. \A i \in 1..B : b[i].state = "publish"
  OBVIOUS
<1> HIDE DEF r, A, B
<1>4. \A i \in 1..A : i \in 1..Len(r) /\ r[i] = a[i]
  BY <1>1, <1>2
<1>5. \A j \in 1..B : A + j \in 1..Len(r) /\ r[A + j] = b[j]
  <2> SUFFICES ASSUME NEW j \in 1..B PROVE A + j \in 1..Len(r) /\ r[A + j] = b[j]
    OBVIOUS
  <2>1. A + j \in 1..(A + B) /\ ~(A + j <= A) /\ (A + j) - A = j
    BY <1>1
  <2> QED BY <1>1, <1>2, <2>1
<1>6. UnsentMsgs(a) \subseteq UnsentMsgs(r)
  BY <1>4 DEF UnsentMsgs, A
<1>7. Msgs(b) \subseteq UnsentMsgs(r)
  <2> SUFFICES ASSUME NEW j \in 1..B PROVE b[j].msg \in UnsentMsgs(r)
    BY DEF Msgs, B
  <2>1. A + j \in 1..Len(r) /\ r[A + j].state # "wait" /\ r[A + j].msg = b[j].msg
    BY <1>3, <1>5
  <2> DEFINE k == A + j
  <2>2. k \in 1..Len(r) /\ r[k].state # "wait" /\ r[k].msg = b[j].msg
    BY <2>1
  <2> HIDE DEF k
  <2> QED BY <2>2 DEF UnsentMsgs
<1>8. UnsentMsgs(r) \subseteq UnsentMsgs(a) \cup Msgs(b)
  BY ConcatLined DEF r
<1> QED BY <1>6, <1>7, <1>8 DEF r

\* A list in two parts, of which the first is to be sent
LEMMA SplitMsgs ==
    ASSUME NEW q \in Seq(Item), NEW n \in 0..Len(q)
    PROVE  /\ Msgs(Resent(q, n)) \cup Msgs(SubSeq(q, n + 1, Len(q))) = Msgs(q)
           /\ Unsent(q) => Unsent(SubSeq(q, n + 1, Len(q)))
<1> DEFINE N == Len(q)
           r == Resent(q, n)
           b == SubSeq(q, n + 1, N)
<1>1. N \in Nat /\ n \in Nat /\ n <= N /\ \A i \in 1..N : q[i] \in Item
  BY LenProperties, ElementOfSeq
<1>2. \A i \in 1..n : r[i].msg = q[i].msg
  <2> SUFFICES ASSUME NEW i \in 1..n PROVE r[i].msg = q[i].msg
    OBVIOUS
  <2>1. r[i] = [q[i] EXCEPT !.state = "publish"] /\ q[i] \in Item
    BY <1>1 DEF Resent
  <2>2. [q[i] EXCEPT !.state = "publish"].msg = q[i].msg
    BY <2>1 DEF Item
  <2> QED BY <2>1, <2>2
<1>3. Len(r) = n /\ Msgs(r) \subseteq Msgs(q) /\ Msgs(b) \subseteq Msgs(q)
  BY SplitLined
<1>4. Len(b) = N - n /\ \A i \in 1..(N - n) : b[i] = q[n + i]
  <2>1. \A i \in (n + 1)..N : q[i] \in Item
    BY <1>1
  <2>2. Len(b) = IF n + 1 <= N THEN N - (n + 1) + 1 ELSE 0
    BY <1>1, <2>1, SubSeqProperties
  <2>3. Len(b) = N - n
    BY <1>1, <2>2
  <2>4. \A i \in 1..(N - (n + 1) + 1) : b[i] = q[(n + 1) + i - 1]
    BY <1>1, <2>1, SubSeqProperties
  <2>5. \A i \in 1..(N - n) : i \in 1..(N - (n + 1) + 1) /\ (n + 1) + i - 1 = n + i
    BY <1>1
  <2> QED BY <2>3, <2>4, <2>5
<1> HIDE DEF r, b
<1>5. \A i \in 1..N : q[i].msg \in Msgs(r) \cup Msgs(b)
  <2> SUFFICES ASSUME NEW i \in 1..N PROVE q[i].msg \in Msgs(r) \cup Msgs(b)
    OBVIOUS
  <2>1. CASE i \in 1..n
    BY <1>2, <1>3, <2>1 DEF Msgs
  <2>2. CASE i \notin 1..n
    <3> DEFINE j == i - n
    <3>1. j \in 1..(N - n) /\ n + j = i
      BY <1>1, <2>2
    <3> HIDE DEF j
    <3>2. j \in 1..Len(b) /\ b[j] = q[i]
      BY <1>4, <3>1
    <3> QED BY <3>2 DEF Msgs
  <2> QED BY <2>1, <2>2
<1>6. Msgs(q) \subseteq Msgs(r) \cup Msgs(b)
  BY <1>5 DEF Msgs, N
<1>7. Unsent(q) => Unsent(b)
  <2> SUFFICES ASSUME Unsent(q), NEW i \in 1..Len(b) PROVE b[i].state # "wait"
    BY DEF Unsent
  <2>1. n + i \in 1..N /\ b[i] = q[n + i]
    BY <1>1, <1>4
  <2> QED BY <2>1 DEF Unsent, N
<1> QED BY <1>3, <1>6, <1>7 DEF r, b

\* The queue moves on: what is to come is the same.
LEMMA QueueCarries ==
    ASSUME NEW c \in Context
    PROVE  Carries(c, db__message_write_queued_out(c))
<1> DEFINE n == Min({c.quota, Len(c.queued)})
           moved == Resent(c.queued, n)
           rest == SubSeq(c.queued, n + 1, Len(c.queued))
           e == db__message_write_queued_out(c)
<1>1. /\ c.quota \in Nat /\ Len(c.queued) \in Nat
      /\ c.queued \in Seq(Item) /\ c.inflight \in Seq(Item)
  BY LenProperties, BrokerAssumption DEF Context
<1>2. n \in 0..Len(c.queued)
  BY <1>1, MinOfTwo
<1>3. e.inflight = c.inflight \o moved /\ e.queued = rest /\ e.out = c.out
  BY DEF db__message_write_queued_out, Context, Resent
<1> HIDE DEF n, e
<1>4. /\ moved \in Seq(Item) /\ \A i \in 1..Len(moved) : moved[i].state = "publish"
  BY <1>1, <1>2, SplitLined
<1>5. /\ Msgs(moved) \cup Msgs(rest) = Msgs(c.queued)
      /\ Unsent(c.queued) => Unsent(rest)
  BY <1>1, <1>2, SplitMsgs
<1> HIDE DEF moved, rest
<1>6. UnsentMsgs(e.inflight) = UnsentMsgs(c.inflight) \cup Msgs(moved)
  BY <1>1, <1>3, <1>4, ConcatUnsent
<1>7. ToCome(e) = ToCome(c)
  BY <1>3, <1>5, <1>6 DEF ToCome
<1> QED BY <1>3, <1>5, <1>7 DEF e, Carries, Fresh

\* k items of the list have been looked at.
Carried(c, k, e) ==
    /\ e \in Context /\ e.queued = c.queued
    /\ Msgs(e.out) \cup UnsentMsgs(e.inflight) = Msgs(c.out) \cup FirstUnsent(c.inflight, k)
    /\ Unsent(c.out) => Unsent(e.out)

LEMMA PassedCarried ==
    ASSUME NEW c \in Context, NEW k \in Nat, k + 1 \in 1..Len(c.inflight),
           NEW e, Carried(c, k, e), NEW f, Passed(e, c.inflight[k + 1], f)
    PROVE  Carried(c, k + 1, f)
<1> DEFINE q == c.inflight
           x == q[k + 1]
           w == [x EXCEPT !.state = "wait"]
<1>1. /\ q \in Seq(Item) /\ e.inflight \in Seq(Item) /\ e.out \in Seq(Item)
      /\ e \in Context /\ f \in Context
  BY DEF Context, Carried, Passed
<1>2. /\ x \in Item /\ w \in Item /\ w.state = "wait"
  <2>1. x \in Item
    BY <1>1, ElementOfSeq
  <2>2. w.state = "wait"
    BY <2>1 DEF Item
  <2> QED BY <2>1, <2>2, ItemFacts
<1>3. /\ x.state # "wait" => FirstUnsent(q, k + 1) = FirstUnsent(q, k) \cup {x.msg}
      /\ x.state = "wait" => FirstUnsent(q, k + 1) = FirstUnsent(q, k)
  <2>1. 1..(k + 1) = (1..k) \cup {k + 1}
    OBVIOUS
  <2>2. FirstUnsent(q, k) \subseteq FirstUnsent(q, k + 1)
    BY <2>1 DEF FirstUnsent
  <2>3. x.state # "wait" => x.msg \in FirstUnsent(q, k + 1)
    BY <2>1 DEF FirstUnsent
  <2>4. FirstUnsent(q, k + 1) \subseteq FirstUnsent(q, k) \cup {x.msg}
    BY <2>1 DEF FirstUnsent
  <2>5. x.state = "wait" => FirstUnsent(q, k + 1) \subseteq FirstUnsent(q, k)
    BY <2>1 DEF FirstUnsent
  <2> QED BY <2>2, <2>3, <2>4, <2>5
<1>4. /\ e.queued = c.queued /\ f.queued = e.queued
      /\ Msgs(e.out) \cup UnsentMsgs(e.inflight) = Msgs(c.out) \cup FirstUnsent(q, k)
      /\ Unsent(c.out) => Unsent(e.out)
      /\ \/ f.inflight = Append(e.inflight, x) /\ f.out = e.out
         \/ /\ x.state = "publish" /\ f.inflight = e.inflight /\ f.out = Append(e.out, x)
         \/ /\ x.state = "publish" /\ f.inflight = Append(e.inflight, w)
            /\ f.out = Append(e.out, x)
  BY DEF Carried, Passed
<1> HIDE DEF q, x, w
<1>5. /\ x.state # "wait" => UnsentMsgs(Append(e.inflight, x)) = UnsentMsgs(e.inflight) \cup {x.msg}
      /\ x.state = "wait" => UnsentMsgs(Append(e.inflight, x)) = UnsentMsgs(e.inflight)
      /\ UnsentMsgs(Append(e.inflight, w)) = UnsentMsgs(e.inflight)
      /\ Msgs(Append(e.out, x)) = Msgs(e.out) \cup {x.msg}
      /\ x.state # "wait" /\ Unsent(e.out) => Unsent(Append(e.out, x))
  BY <1>1, <1>2, AppendUnsent, AppendMsgs
<1>6. CASE f.inflight = Append(e.inflight, x) /\ f.out = e.out
  <2>1. Msgs(f.out) \cup UnsentMsgs(f.inflight) = Msgs(c.out) \cup FirstUnsent(q, k + 1)
    BY <1>3, <1>4, <1>5, <1>6
  <2> QED BY <1>1, <1>4, <1>6, <2>1 DEF Carried, q
<1>7. CASE x.state = "publish" /\ f.inflight = e.inflight /\ f.out = Append(e.out, x)
  <2>1. Msgs(f.out) \cup UnsentMsgs(f.inflight) = Msgs(c.out) \cup FirstUnsent(q, k + 1)
    BY <1>3, <1>4, <1>5, <1>7
  <2> QED BY <1>1, <1>4, <1>5, <1>7, <2>1 DEF Carried, q
<1>8. CASE /\ x.state = "publish" /\ f.inflight = Append(e.inflight, w)
           /\ f.out = Append(e.out, x)
  <2>1. Msgs(f.out) \cup UnsentMsgs(f.inflight) = Msgs(c.out) \cup FirstUnsent(q, k + 1)
    BY <1>3, <1>4, <1>5, <1>8
  <2> QED BY <1>1, <1>4, <1>5, <1>8, <2>1 DEF Carried, q
<1> QED BY <1>4, <1>6, <1>7, <1>8

\* The loops that write what is in flight lose nothing and send nothing twice.
LEMMA WrittenCarries ==
    ASSUME NEW n, NEW d \in Databases(n), NEW s \in Slot, NEW i
    PROVE  Carries(d.ctx[s], WrittenFrom(d, s, i).ctx[s])
<1> DEFINE c == d.ctx[s]
           q == c.inflight
           N == Len(q)
<1>1. CASE ~Connected(c)
  BY <1>1, CarriesFacts DEF WrittenFrom
<1>2. CASE Connected(c)
  <2>1. PICK w : /\ w \in [0..N -> Databases(n)] /\ Passes(d, s, i, w)
                 /\ WrittenFrom(d, s, i) = w[N]
    BY <1>2, LoopPasses
  <2>2. c \in Context /\ q \in Seq(Item) /\ c.out \in Seq(Item) /\ N \in Nat
    BY LenProperties DEF Databases, Context
  <2> DEFINE T == {k \in 0..N : Carried(c, k, w[k].ctx[s])}
  <2>3. 0 \in T
    <3> DEFINE e == [c EXCEPT !.inflight = <<>>]
    <3>1. w[0].ctx[s] = e /\ e \in Context
      BY <2>1, EmptiedType DEF Passes
    <3>2. e.queued = c.queued /\ e.out = c.out /\ e.inflight = <<>>
      BY <2>2 DEF Context
    <3>3. FirstUnsent(q, 0) = {}
      BY DEF FirstUnsent
    <3> HIDE DEF e, c, q
    <3>4. Carried(c, 0, e)
      BY <3>1, <3>2, <3>3, EmptyList DEF Carried, q
    <3> QED BY <2>2, <3>1, <3>4
  <2>4. ASSUME NEW k \in 0..(N - 1), k \in T PROVE k + 1 \in T
    <3>1. k + 1 \in 1..N /\ k + 1 \in 0..N /\ (k + 1) - 1 = k /\ k \in 0..N /\ k \in Nat
      BY <2>2
    <3>2. w[k + 1] = Pass(w[k], s, i, k + 1, q[k + 1])
      BY <2>1, <3>1 DEF Passes
    <3>3. q[k + 1] \in Item /\ w[k] \in Databases(n)
      BY <2>1, <2>2, <3>1, ElementOfSeq
    <3> HIDE DEF c, q, N
    <3>4. Passed(w[k].ctx[s], q[k + 1], w[k + 1].ctx[s])
      <4> DEFINE x == q[k + 1]
                 before == w[k]
                 r == Pass(before, s, i, k + 1, x)
      <4>1. x \in Item /\ before \in Databases(n) /\ w[k + 1] = r
        BY <3>2, <3>3
      <4> HIDE DEF x, before
      <4>2. Passed(before.ctx[s], x, r.ctx[s])
        BY <4>1, PassDoes
      <4> QED BY <4>1, <4>2 DEF x, before
    <3>5. Carried(c, k, w[k].ctx[s])
      BY <2>4
    <3>6. Carried(c, k + 1, w[k + 1].ctx[s])
      BY <2>2, <3>1, <3>4, <3>5, PassedCarried DEF q, N, c
    <3> QED BY <3>1, <3>6
  <2>5. N \in T
    <3> HIDE DEF T, N
    <3>1. \A k \in 0..N : k \in T
      BY <2>2, <2>3, <2>4, Numbers!UpTo
    <3> QED BY <2>2, <3>1
  <2>6. Carried(c, N, WrittenFrom(d, s, i).ctx[s])
    BY <2>1, <2>5
  <2>7. FirstUnsent(q, N) = UnsentMsgs(q)
    BY DEF FirstUnsent, UnsentMsgs
  <2> HIDE DEF N
  <2> QED BY <2>6, <2>7 DEF Carried, Carries, ToCome, Fresh
<1> QED BY <1>1, <1>2

LEMMA LatestCarries ==
    ASSUME NEW n, NEW d \in Databases(n), NEW s \in Slot
    PROVE  Carries(d.ctx[s], db__message_write_inflight_out_latest(d, s).ctx[s])
BY WrittenCarries DEF db__message_write_inflight_out_latest

LEMMA QueueWrittenCarries ==
    ASSUME NEW n, NEW d \in Databases(n), NEW s \in Slot
    PROVE  Carries(d.ctx[s], QueueOut(d, s).ctx[s])
<1>1. d.ctx[s] \in Context /\ QueueOut(d, s).ctx[s] = db__message_write_queued_out(d.ctx[s])
  BY DEF QueueOut, Databases
<1> QED BY <1>1, QueueCarries

\* What a new item is followed by, and what a SUBSCRIBE ends with
LEMMA UpdatedCarries ==
    ASSUME NEW n, NEW d \in Databases(n), NEW s \in Slot
    PROVE  Carries(d.ctx[s], Updated(d, s).ctx[s])
<1> DEFINE e == db__message_write_inflight_out_latest(d, s)
<1>1. e \in Databases(n)
  BY LatestWritten
<1>2. Carries(d.ctx[s], e.ctx[s])
  BY LatestCarries
<1>3. Updated(d, s) = IF Connected(e.ctx[s]) THEN QueueOut(e, s) ELSE e
  BY DEF Updated, QueueOut
<1> HIDE DEF e
<1>4. Carries(e.ctx[s], QueueOut(e, s).ctx[s])
  BY <1>1, QueueWrittenCarries
<1> QED BY <1>2, <1>3, <1>4, CarriesFacts

LEMMA FlushCarries ==
    ASSUME NEW n, NEW d \in Databases(n), NEW s \in Slot
    PROVE  /\ QueueOut(d, s) \in Databases(n)
           /\ Carries(d.ctx[s], db__message_write_inflight_out_latest(QueueOut(d, s), s).ctx[s])
<1>1. QueueOut(d, s) \in Databases(n)
  BY QueueBalance
<1>2. Carries(d.ctx[s], QueueOut(d, s).ctx[s])
  BY QueueWrittenCarries
<1>3. Carries(QueueOut(d, s).ctx[s],
              db__message_write_inflight_out_latest(QueueOut(d, s), s).ctx[s])
  BY <1>1, LatestCarries
<1> QED BY <1>1, <1>2, <1>3, CarriesFacts

-----------------------------------------------------------------------------
(* One more message to come *)

\* From c to e nothing new comes but message m, and nothing is lost.
MayCome(c, e, m) ==
    /\ ToCome(c) \subseteq ToCome(e) /\ ToCome(e) \subseteq ToCome(c) \cup {m}
    /\ Fresh(c) => Fresh(e)

LEMMA MayComeFacts ==
    /\ \A c, e, m : Carries(c, e) => MayCome(c, e, m)
    /\ \A c, e, f, m : MayCome(c, e, m) /\ MayCome(e, f, m) => MayCome(c, f, m)
    /\ \A c, m : MayCome(c, c, m)
BY DEF Carries, MayCome

LEMMA GivenComes ==
    ASSUME NEW c \in Context, NEW x \in Item, x.state \in {"publish", "queued"}
    PROVE  MayCome(c, Given(c, x), x.msg) /\ x.msg \in ToCome(Given(c, x))
<1> DEFINE e == Given(c, x)
<1>1. /\ c.inflight \in Seq(Item) /\ c.queued \in Seq(Item)
  BY DEF Context
<1>2. /\ e.inflight = IF x.state = "publish" THEN Append(c.inflight, x) ELSE c.inflight
      /\ e.queued = IF x.state = "queued" THEN Append(c.queued, x) ELSE c.queued
      /\ e.out = c.out
  BY DEF Given, Messages, Context
<1> HIDE DEF e
<1>3. /\ UnsentMsgs(Append(c.inflight, x)) = UnsentMsgs(c.inflight) \cup {x.msg}
      /\ Msgs(Append(c.queued, x)) = Msgs(c.queued) \cup {x.msg}
      /\ Unsent(c.queued) => Unsent(Append(c.queued, x))
  BY <1>1, AppendUnsent, AppendMsgs
<1>4. ToCome(e) = ToCome(c) \cup {x.msg}
  BY <1>2, <1>3 DEF ToCome
<1>5. Fresh(c) => Fresh(e)
  BY <1>2, <1>3 DEF Fresh
<1> QED BY <1>4, <1>5 DEF e, MayCome

\* The message is taken for the client of context s.
Welcome(d, s, m, qos, retain) ==
    /\ d.ctx[s].id # NoId /\ Fate(d.ctx[s], qos) # "dropped"
    /\ retain \/ d.ctx[s].id \notin d.store[m].dest

\* What db__message_insert takes comes, sooner or later.
LEMMA InsertComes ==
    ASSUME NEW n, NEW d \in Databases(n), NEW s \in Slot, NEW m \in 1..MaxPublish,
           NEW mid \in Mid, NEW qos \in {0, 1}, NEW retain \in BOOLEAN, NEW update
    PROVE  LET e == db__message_insert(d, s, m, mid, qos, retain, update) IN
           /\ MayCome(d.ctx[s], e.ctx[s], m)
           /\ Welcome(d, s, m, qos, retain) => m \in ToCome(e.ctx[s])
<1> DEFINE c == d.ctx[s]
           e == Held(d, s, m, mid, qos, retain)
           x == NewItem(c, m, mid, qos, retain)
           r == db__message_insert(d, s, m, mid, qos, retain, update)
<1>1. \/ r = d /\ ~Welcome(d, s, m, qos, retain)
      \/ Fate(c, qos) # "dropped" /\ r = IF update THEN Updated(e, s) ELSE e
  BY DEF db__message_insert, Welcome
<1>2. CASE r = d /\ ~Welcome(d, s, m, qos, retain)
  BY <1>2, MayComeFacts
<1>3. CASE Fate(c, qos) # "dropped" /\ r = IF update THEN Updated(e, s) ELSE e
  <2>1. c \in Context /\ e \in Databases(n) /\ e.ctx[s] = Given(c, x)
    BY <1>3, HeldType DEF Databases
  <2>2. Fate(c, qos) \in {"publish", "queued"}
    BY <1>3 DEF Fate
  <2>3. x \in Item /\ x.msg = m /\ x.state \in {"publish", "queued"}
    BY <2>2, ItemFacts DEF NewItem
  <2> HIDE DEF e, x, r, c
  <2>4. MayCome(c, e.ctx[s], m) /\ m \in ToCome(e.ctx[s])
    BY <2>1, <2>3, GivenComes
  <2>5. Carries(e.ctx[s], Updated(e, s).ctx[s])
    BY <2>1, UpdatedCarries
  <2>6. Carries(e.ctx[s], r.ctx[s])
    BY <1>3, <2>5, CarriesFacts
  <2>7. MayCome(c, r.ctx[s], m) /\ m \in ToCome(r.ctx[s])
    <3>1. ToCome(r.ctx[s]) = ToCome(e.ctx[s]) /\ MayCome(e.ctx[s], r.ctx[s], m)
      BY <2>6, MayComeFacts DEF Carries
    <3> QED BY <2>4, <3>1, MayComeFacts
  <2> QED BY <2>7 DEF r, c
<1> QED BY <1>1, <1>2, <1>3

LEMMA OfferedComes ==
    ASSUME NEW n, NEW d \in Databases(n), NEW s \in Slot, NEW m \in 1..MaxPublish,
           NEW qos \in {0, 1}, NEW retain \in BOOLEAN, NEW update
    PROVE  LET e == Offered(d, s, m, qos, retain, update) IN
           /\ MayCome(d.ctx[s], e.ctx[s], m)
           /\ Welcome(d, s, m, qos, retain) => m \in ToCome(e.ctx[s])
<1> DEFINE mid == IF qos = 0 THEN 0 ELSE mosquitto__mid_generate(d.ctx[s].last_mid)
           c == [d.ctx[s] EXCEPT !.last_mid = mid]
           numbered == [d EXCEPT !.ctx[s].last_mid = mid]
           e == IF qos = 0 THEN d ELSE numbered
           r == db__message_insert(e, s, m, mid, qos, retain, update)
<1>1. d.ctx[s] \in Context /\ d.ctx[s].last_mid \in Mid
  BY DEF Databases, Context
<1>2. mid \in Mid
  BY <1>1, MidFacts
<1>3. Offered(d, s, m, qos, retain, update) = r
  BY DEF Offered
<1> HIDE DEF mid
<1>4. c \in Context
  BY <1>1, <1>2, ContextChanges
<1>5. /\ c.inflight = d.ctx[s].inflight /\ c.queued = d.ctx[s].queued /\ c.out = d.ctx[s].out
      /\ c.quota = d.ctx[s].quota /\ c.state = d.ctx[s].state /\ c.id = d.ctx[s].id
  BY <1>1 DEF Context
<1>6. numbered = [d EXCEPT !.ctx[s] = c]
  BY DEF Databases
<1> HIDE DEF c, numbered
<1>7. numbered \in Databases(n) /\ numbered.ctx[s] = c /\ numbered.store = d.store
  BY <1>4, <1>6, ContextReplaced
<1>8. /\ ToCome(c) = ToCome(d.ctx[s]) /\ (Fresh(d.ctx[s]) <=> Fresh(c))
      /\ Fate(c, qos) = Fate(d.ctx[s], qos)
  BY <1>5 DEF ToCome, Fresh, Fate, Connected, db__ready_for_flight, db__ready_for_queue
<1>9. /\ e \in Databases(n) /\ Carries(d.ctx[s], e.ctx[s])
      /\ Welcome(d, s, m, qos, retain) => Welcome(e, s, m, qos, retain)
  <2>1. numbered.ctx[s] = c /\ numbered \in Databases(n) /\ numbered.store = d.store
    BY <1>7
  <2>2. Carries(d.ctx[s], numbered.ctx[s]) /\ Carries(d.ctx[s], d.ctx[s])
    BY <1>8, <2>1, CarriesFacts DEF Carries
  <2>3. Welcome(d, s, m, qos, retain) => Welcome(numbered, s, m, qos, retain)
    BY <1>5, <1>8, <2>1 DEF Welcome
  <2> QED BY <2>1, <2>2, <2>3
<1> HIDE DEF e
<1>10. /\ MayCome(e.ctx[s], r.ctx[s], m)
       /\ Welcome(e, s, m, qos, retain) => m \in ToCome(r.ctx[s])
  BY <1>2, <1>9, InsertComes
<1> HIDE DEF r
<1> QED BY <1>3, <1>9, <1>10, MayComeFacts

-----------------------------------------------------------------------------
(* Whom a message has been given to *)

GivenTo(d, m) == IF m \in DOMAIN d.store THEN d.store[m].dest ELSE {}

\* From d to e no message was given to anybody but, perhaps, client i.
GivenMore(d, e, i) == \A m : GivenTo(e, m) \subseteq GivenTo(d, m) \cup {i}

LEMMA GivenMoreFacts ==
    /\ \A d, e, i : e.store = d.store => GivenMore(d, e, i)
    /\ \A d, e, f, i : GivenMore(d, e, i) /\ GivenMore(e, f, i) => GivenMore(d, f, i)
BY DEF GivenMore, GivenTo

LEMMA CountsGive ==
    ASSUME NEW n, NEW d \in Databases(n), NEW k, NEW i
    PROVE  /\ GivenMore(d, db__msg_store_ref_inc(d, k), i)
           /\ GivenMore(d, db__msg_store_ref_dec(d, k), i)
<1>1. PICK A \in SUBSET (1..n) : d.store \in [A -> StoredMessage]
  BY DEF Databases, Stores
<1> DEFINE more == [d.store EXCEPT ![k].ref = @ + 1]
           less == [d.store EXCEPT ![k].ref = @ - 1]
           gone == [m \in DOMAIN d.store \ {k} |-> d.store[m]]
<1>2. /\ db__msg_store_ref_inc(d, k).store = more
      /\ db__msg_store_ref_dec(d, k).store \in {less, gone}
  BY DEF db__msg_store_ref_inc, db__msg_store_ref_dec, Databases
<1>3. /\ DOMAIN more = A /\ DOMAIN less = A /\ DOMAIN gone \subseteq A /\ DOMAIN d.store = A
      /\ \A m \in A : more[m].dest = d.store[m].dest /\ less[m].dest = d.store[m].dest
      /\ \A m \in DOMAIN gone : gone[m] = d.store[m]
  BY <1>1 DEF StoredMessage
<1> HIDE DEF more, less, gone
<1>4. GivenMore(d, db__msg_store_ref_inc(d, k), i)
  BY <1>2, <1>3 DEF GivenMore, GivenTo
<1>5. CASE db__msg_store_ref_dec(d, k).store = less
  <2>1. GivenMore(d, db__msg_store_ref_dec(d, k), i)
    BY <1>3, <1>5 DEF GivenMore, GivenTo
  <2> QED BY <1>4, <2>1
<1>6. CASE db__msg_store_ref_dec(d, k).store = gone
  <2>1. GivenMore(d, db__msg_store_ref_dec(d, k), i)
    BY <1>3, <1>6 DEF GivenMore, GivenTo
  <2> QED BY <1>4, <2>1
<1> QED BY <1>2, <1>5, <1>6

LEMMA PassGives ==
    ASSUME NEW n, NEW d \in Databases(n), NEW s \in Slot, NEW i, NEW k, NEW item \in Item, NEW id
    PROVE  GivenMore(d, Pass(d, s, i, k, item), id)
<1> DEFINE kept == [d EXCEPT !.ctx[s].inflight = Append(@, item)]
           sent == [d EXCEPT !.ctx[s].out = Append(@, item)]
           held == [sent EXCEPT !.ctx[s].inflight = Append(@, [item EXCEPT !.state = "wait"])]
           e == Pass(d, s, i, k, item)
<1>1. e \in {kept, db__msg_store_ref_dec(sent, item.msg), held}
  BY DEF Pass, db__message_write_inflight_out_single
<1>2. sent \in Databases(n)
  BY SentAppended
<1>3. kept.store = d.store /\ sent.store = d.store /\ held.store = sent.store
  BY DEF Databases
<1> HIDE DEF kept, sent, held, e
<1>4. GivenMore(sent, db__msg_store_ref_dec(sent, item.msg), id)
  BY <1>2, CountsGive
<1>5. GivenMore(d, db__msg_store_ref_dec(sent, item.msg), id)
  BY <1>3, <1>4, GivenMoreFacts
<1>6. GivenMore(d, kept, id) /\ GivenMore(d, held, id)
  BY <1>3, GivenMoreFacts
<1> QED BY <1>1, <1>5, <1>6 DEF e

LEMMA WrittenGives ==
    ASSUME NEW n, NEW d \in Databases(n), NEW s \in Slot, NEW i, NEW id
    PROVE  GivenMore(d, WrittenFrom(d, s, i), id)
<1> DEFINE q == d.ctx[s].inflight
           N == Len(q)
<1>1. CASE ~Connected(d.ctx[s])
  BY <1>1, GivenMoreFacts DEF WrittenFrom
<1>2. CASE Connected(d.ctx[s])
  <2>1. PICK w : /\ w \in [0..N -> Databases(n)] /\ Passes(d, s, i, w)
                 /\ WrittenFrom(d, s, i) = w[N]
    BY <1>2, LoopPasses
  <2>2. q \in Seq(Item) /\ N \in Nat
    BY LenProperties DEF Databases, Context
  <2> DEFINE S == {e \in Databases(n) : GivenMore(d, e, id)}
  <2>3. w[0] \in S
    <3>1. w[0] \in Databases(n) /\ w[0].store = d.store
      <4>1. w[0] = Emptied(d, s)
        BY <2>1 DEF Passes
      <4>2. Emptied(d, s) \in Databases(n)
        BY EmptiedType
      <4>3. Emptied(d, s).store = d.store
        BY DEF Emptied, Databases
      <4> QED BY <4>1, <4>2, <4>3
    <3> QED BY <3>1, GivenMoreFacts
  <2>4. ASSUME NEW k \in 1..N, w[k - 1] \in S PROVE w[k] \in S
    <3>1. w[k] = Pass(w[k - 1], s, i, k, q[k]) /\ w[k] \in Databases(n)
      BY <2>1, <2>2 DEF Passes
    <3>2. q[k] \in Item /\ w[k - 1] \in Databases(n) /\ GivenMore(d, w[k - 1], id)
      BY <2>2, <2>4, ElementOfSeq
    <3> HIDE DEF q, N
    <3>3. GivenMore(w[k - 1], w[k], id)
      <4> DEFINE x == q[k]
                 before == w[k - 1]
      <4>1. x \in Item /\ before \in Databases(n) /\ w[k] = Pass(before, s, i, k, x)
        BY <3>1, <3>2
      <4> HIDE DEF x, before
      <4>2. GivenMore(before, Pass(before, s, i, k, x), id)
        BY <4>1, PassGives
      <4> QED BY <4>1, <4>2 DEF before
    <3> QED BY <3>1, <3>2, <3>3, GivenMoreFacts
  <2>5. \A k \in 0..N : w[k] \in S
    <3> HIDE DEF S, N, q
    <3> QED BY <2>2, <2>3, <2>4, Numbers!StaysInside
  <2> QED BY <2>1, <2>2, <2>5
<1> QED BY <1>1, <1>2

LEMMA UpdatedGives ==
    ASSUME NEW n, NEW d \in Databases(n), NEW s \in Slot, NEW id
    PROVE  GivenMore(d, Updated(d, s), id)
<1> DEFINE e == db__message_write_inflight_out_latest(d, s)
<1>1. e \in Databases(n) /\ GivenMore(d, e, id)
  BY LatestWritten, WrittenGives DEF db__message_write_inflight_out_latest
<1>2. Updated(d, s) = IF Connected(e.ctx[s]) THEN QueueOut(e, s) ELSE e
  BY DEF Updated, QueueOut
<1> HIDE DEF e
<1>3. QueueOut(e, s).store = e.store
  BY <1>1 DEF QueueOut, Databases
<1> QED BY <1>1, <1>2, <1>3, GivenMoreFacts

LEMMA HeldGives ==
    ASSUME NEW n, NEW d \in Databases(n), NEW s \in Slot, NEW m,
           NEW mid, NEW qos, NEW retain
    PROVE  GivenMore(d, Held(d, s, m, mid, qos, retain), d.ctx[s].id)
<1> DEFINE c == d.ctx[s]
           e == db__msg_store_ref_inc(d, m)
           fate == Fate(c, qos)
           item == [msg |-> m, mid |-> mid, qos |-> qos, retain |-> retain, state |-> fate]
           w == [e.store EXCEPT ![m].dest = IF retain THEN @ ELSE @ \cup {c.id}]
           h == Held(d, s, m, mid, qos, retain)
<1>1. e.ctx = d.ctx /\ e \in Databases(n)
  BY RefInc
<1>2. GivenMore(d, e, c.id)
  BY CountsGive
<1> HIDE DEF e, item, fate
<1>3. h = [e EXCEPT !.ctx[s].inflight = IF fate = "publish" THEN Append(@, item) ELSE @,
                    !.ctx[s].queued = IF fate = "queued" THEN Append(@, item) ELSE @,
                    !.ctx[s].quota = IF fate = "publish" /\ qos > 0 THEN @ - 1 ELSE @,
                    !.store[m].dest = IF retain THEN @ ELSE @ \cup {c.id}]
  BY Zenon DEF Held, e, item, fate
<1> HIDE DEF c, h
<1>4. h.store = w
  BY <1>1, <1>3 DEF Databases, c
<1>5. PICK A \in SUBSET (1..n) : e.store \in [A -> StoredMessage]
  BY <1>1 DEF Databases, Stores
<1>6. /\ DOMAIN w = A /\ DOMAIN e.store = A
      /\ \A k \in A : w[k].dest \subseteq e.store[k].dest \cup {c.id}
  BY <1>5 DEF StoredMessage
<1> HIDE DEF w
<1>7. GivenMore(e, h, c.id)
  BY <1>4, <1>6 DEF GivenMore, GivenTo
<1> QED BY <1>2, <1>7, GivenMoreFacts DEF h, c

\* A message offered to a client is given to no other.
LEMMA OfferedGives ==
    ASSUME NEW n, NEW d \in Databases(n), NEW s \in Slot, NEW m \in 1..MaxPublish,
           NEW qos \in {0, 1}, NEW retain \in BOOLEAN, NEW update
    PROVE  GivenMore(d, Offered(d, s, m, qos, retain, update), d.ctx[s].id)
<1> DEFINE mid == IF qos = 0 THEN 0 ELSE mosquitto__mid_generate(d.ctx[s].last_mid)
           c == [d.ctx[s] EXCEPT !.last_mid = mid]
           numbered == [d EXCEPT !.ctx[s].last_mid = mid]
           e == IF qos = 0 THEN d ELSE numbered
           id == d.ctx[s].id
           h == Held(e, s, m, mid, qos, retain)
           r == db__message_insert(e, s, m, mid, qos, retain, update)
<1>1. d.ctx[s] \in Context /\ d.ctx[s].last_mid \in Mid
  BY DEF Databases, Context
<1>2. mid \in Mid
  BY <1>1, MidFacts
<1>3. Offered(d, s, m, qos, retain, update) = r
  BY DEF Offered
<1> HIDE DEF mid
<1>4. c \in Context
  BY <1>1, <1>2, ContextChanges
<1>5. c.id = id
  BY <1>1 DEF Context
<1>6. numbered = [d EXCEPT !.ctx[s] = c]
  BY DEF Databases
<1> HIDE DEF c, numbered
<1>7. numbered \in Databases(n) /\ numbered.ctx[s] = c /\ numbered.store = d.store
  BY <1>4, <1>6, ContextReplaced
<1>8. e \in Databases(n) /\ e.ctx[s].id = id /\ e.store = d.store
  BY <1>5, <1>7
<1> HIDE DEF e
<1>9. GivenMore(e, h, id)
  BY <1>8, HeldGives
<1>10. \/ r = e
       \/ Fate(e.ctx[s], qos) # "dropped" /\ (r = h \/ r = Updated(h, s))
  BY DEF db__message_insert
<1>11. CASE r = e
  BY <1>3, <1>8, <1>11, GivenMoreFacts
<1>12. CASE Fate(e.ctx[s], qos) # "dropped" /\ (r = h \/ r = Updated(h, s))
  <2>1. h \in Databases(n)
    BY <1>2, <1>8, <1>12, HeldType
  <2> HIDE DEF h, r, id
  <2>2. GivenMore(h, Updated(h, s), id)
    BY <2>1, UpdatedGives
  <2>3. GivenMore(e, r, id) /\ GivenMore(d, e, id)
    BY <1>8, <1>9, <1>12, <2>2, GivenMoreFacts
  <2> QED BY <1>3, <2>3, GivenMoreFacts DEF id
<1> QED BY <1>10, <1>11, <1>12

-----------------------------------------------------------------------------
(* A publication: to whom its message comes *)

\* Nobody loses anything, and only the message published is new.
LEMMA ProcessMayCome ==
    ASSUME NEW n, NEW d \in Databases(n), NEW t, NEW m \in 1..MaxPublish, IsFiniteSet(d.leaves)
    PROVE  \A s \in Slot : MayCome(d.ctx[s], subs__process(d, t, m).ctx[s], m)
<1> DEFINE S == {e \in Databases(n) : \A s \in Slot : MayCome(d.ctx[s], e.ctx[s], m)}
<1>1. d \in S
  BY MayComeFacts
<1>2. ASSUME NEW e \in S, NEW leaf \in Subscribers(d, t) PROVE subs__send(e, leaf, m) \in S
  <2> DEFINE s == leaf.slot
             f == subs__send(e, leaf, m)
  <2>1. s \in Slot /\ leaf.qos \in {0, 1} /\ FALSE \in BOOLEAN
    BY DEF Leaf, Subscribers, Databases
  <2>2. e \in Databases(n) /\ \A r \in Slot : MayCome(d.ctx[r], e.ctx[r], m)
    OBVIOUS
  <2>3. f \in Databases(n) /\ OnlyMessages(e, f, s)
    BY <2>1, <2>2, OfferedType DEF subs__send
  <2>4. MayCome(e.ctx[s], f.ctx[s], m)
    BY <2>1, <2>2, OfferedComes DEF subs__send
  <2> HIDE DEF f, s
  <2>5. ASSUME NEW r \in Slot PROVE MayCome(d.ctx[r], f.ctx[r], m)
    <3>1. CASE r = s
      BY <2>2, <2>4, <3>1, MayComeFacts
    <3>2. CASE r # s
      BY <2>2, <2>3, <3>2 DEF OnlyMessages
    <3> QED BY <3>1, <3>2
  <2> QED BY <2>3, <2>5 DEF f
<1>3. subs__process(d, t, m) \in S
  <2> HIDE DEF S
  <2> QED BY <1>1, <1>2, ProcessInside
<1> QED BY <1>3

\* Until leaf l is sent the message, its context is as before and the message
\* has not been given to its client; from then on the message comes.
InTurn(d, e, l, m) ==
    \/ m \in ToCome(e.ctx[l.slot])
    \/ e.ctx[l.slot] = d.ctx[l.slot] /\ d.ctx[l.slot].id \notin GivenTo(e, m)

LEMMA ProcessComes ==
    ASSUME NEW n, NEW d \in Databases(n), NEW t, NEW m \in Message, IsFiniteSet(d.leaves),
           Listed(d), Named(d), Healthy(d), Surplus(d, m) > 0, GivenTo(d, m) = {},
           NEW l \in Subscribers(d, t), Fate(d.ctx[l.slot], l.qos) # "dropped"
    PROVE  m \in ToCome(subs__process(d, t, m).ctx[l.slot])
<1> DEFINE leaves == SetToSeq(Subscribers(d, t))
           N == Len(leaves)
           S == {e \in Databases(n) : /\ Balance(d, e)
                                      /\ \A s \in Slot : Session(e.ctx[s]) = Session(d.ctx[s])}
<1>1. d \in S
  BY BalanceFacts
<1>2. ASSUME NEW e \in S, NEW leaf \in Subscribers(d, t)
      PROVE  /\ subs__send(e, leaf, m) \in S
             /\ OnlyMessages(e, subs__send(e, leaf, m), leaf.slot)
             /\ MayCome(e.ctx[leaf.slot], subs__send(e, leaf, m).ctx[leaf.slot], m)
             /\ GivenMore(e, subs__send(e, leaf, m), d.ctx[leaf.slot].id)
             /\ Welcome(e, leaf.slot, m, leaf.qos, FALSE)
                  => m \in ToCome(subs__send(e, leaf, m).ctx[leaf.slot])
             /\ m \in DOMAIN e.store
  <2> DEFINE s == leaf.slot
             f == subs__send(e, leaf, m)
  <2>1. s \in Slot /\ leaf.qos \in {0, 1} /\ FALSE \in BOOLEAN /\ m \in 1..MaxPublish
    BY DEF Leaf, Subscribers, Databases, Message
  <2>2. /\ e \in Databases(n) /\ Balance(d, e) /\ Healthy(e) /\ Surplus(e, m) = Surplus(d, m)
        /\ \A r \in Slot : Session(e.ctx[r]) = Session(d.ctx[r])
    BY BalanceFacts DEF Balance, Evenly
  <2>3. m \in DOMAIN e.store
    BY <2>2, InStore
  <2> HIDE DEF S
  <2>4. f \in Databases(n) /\ OnlyMessages(e, f, s)
    BY <2>1, <2>2, OfferedType DEF subs__send
  <2>5. Balance(e, f)
    BY <2>1, <2>2, <2>3, OfferedBalance DEF subs__send
  <2>6. /\ MayCome(e.ctx[s], f.ctx[s], m)
        /\ Welcome(e, s, m, leaf.qos, FALSE) => m \in ToCome(f.ctx[s])
    BY <2>1, <2>2, OfferedComes DEF subs__send
  <2>7. GivenMore(e, f, e.ctx[s].id)
    BY <2>1, <2>2, OfferedGives DEF subs__send
  <2>8. e.ctx[s].id = d.ctx[s].id
    BY <2>1, <2>2 DEF Session
  <2> HIDE DEF f, s
  <2>9. \A r \in Slot : Session(f.ctx[r]) = Session(d.ctx[r])
    BY <2>2, <2>4 DEF OnlyMessages
  <2>10. Balance(d, f)
    BY <2>2, <2>5, BalanceFacts
  <2> QED BY <2>3, <2>4, <2>6, <2>7, <2>8, <2>9, <2>10 DEF S, f, s
<1>3. N \in Nat /\ \A k \in 1..N : leaves[k] \in Subscribers(d, t)
  BY SubscribersListed, LenProperties
<1>4. PICK j \in 1..N : leaves[j] = l
  BY SubscribersListed
<1>5. PICK w : Sends(S, d, t, m, w)
  <2> HIDE DEF S
  <2> QED BY <1>1, <1>2, ProcessRuns
<1>6. /\ w \in [0..N -> S] /\ w[0] = d /\ subs__process(d, t, m) = w[N]
      /\ \A k \in 1..N : w[k] = subs__send(w[k - 1], leaves[k], m)
  BY <1>5 DEF Sends
<1> HIDE DEF leaves, N, S
<1> DEFINE s == l.slot
           i == d.ctx[s].id
           T == {k \in 0..N : /\ InTurn(d, w[k], l, m)
                              /\ k \in j..N => m \in ToCome(w[k].ctx[s])}
<1>7. s \in Slot
  BY DEF Subscribers, Databases, Leaf
<1>8. 0 \in T
  BY <1>3, <1>6 DEF InTurn
<1>9. ASSUME NEW k \in 0..(N - 1), k \in T PROVE k + 1 \in T
  <2> DEFINE leaf == leaves[k + 1]
             e == w[k]
             f == w[k + 1]
  <2>1. k + 1 \in 1..N /\ k + 1 \in 0..N /\ (k + 1) - 1 = k /\ k \in 0..N
    BY <1>3
  <2>2. leaf \in Subscribers(d, t) /\ e \in S /\ f = subs__send(e, leaf, m)
    BY <1>3, <1>6, <2>1
  <2>3. /\ InTurn(d, e, l, m)
        /\ k \in j..N => m \in ToCome(e.ctx[s])
    BY <1>9
  <2>4. k + 1 \in j..N => leaf = l \/ k \in j..N
    BY <1>3, <1>4
  <2> HIDE DEF leaf, e, f, T
  <2>5. /\ OnlyMessages(e, f, leaf.slot)
        /\ MayCome(e.ctx[leaf.slot], f.ctx[leaf.slot], m)
        /\ GivenMore(e, f, d.ctx[leaf.slot].id)
        /\ Welcome(e, leaf.slot, m, leaf.qos, FALSE) => m \in ToCome(f.ctx[leaf.slot])
        /\ m \in DOMAIN e.store
    BY <1>2, <2>2
  <2>6. CASE m \in ToCome(e.ctx[s])
    <3>1. m \in ToCome(f.ctx[s])
      <4>1. CASE leaf.slot = s
        BY <2>5, <2>6, <4>1 DEF MayCome
      <4>2. CASE leaf.slot # s
        BY <1>7, <2>5, <2>6, <4>2 DEF OnlyMessages
      <4> QED BY <4>1, <4>2
    <3> QED BY <2>1, <3>1 DEF InTurn, T, f
  <2>7. CASE leaf # l /\ m \notin ToCome(e.ctx[s])
    <3>1. leaf.slot # s /\ d.ctx[leaf.slot].id # i
      BY <2>2, <2>7, SubscribersDiffer
    <3>2. e.ctx[s] = d.ctx[s] /\ i \notin GivenTo(e, m)
      BY <2>3, <2>7 DEF InTurn
    <3>3. f.ctx[s] = d.ctx[s]
      BY <1>7, <2>5, <3>1, <3>2 DEF OnlyMessages
    <3>4. i \notin GivenTo(f, m)
      BY <2>5, <3>1, <3>2 DEF GivenMore
    <3>5. ~(k + 1 \in j..N)
      BY <2>3, <2>4, <2>7
    <3> QED BY <2>1, <3>3, <3>4, <3>5 DEF InTurn, T, f
  <2>8. CASE leaf = l /\ m \notin ToCome(e.ctx[s])
    <3>1. e.ctx[s] = d.ctx[s] /\ i \notin GivenTo(e, m)
      BY <2>3, <2>8 DEF InTurn
    <3>2. i # NoId
      BY DEF Subscribers
    <3>3. Welcome(e, s, m, l.qos, FALSE)
      BY <2>5, <3>1, <3>2 DEF Welcome, GivenTo
    <3>4. m \in ToCome(f.ctx[s])
      BY <2>5, <2>8, <3>3
    <3> QED BY <2>1, <3>4 DEF InTurn, T, f
  <2> QED BY <2>6, <2>7, <2>8
<1>10. N \in T
  <2> HIDE DEF T
  <2>1. \A k \in 0..N : k \in T
    BY <1>3, <1>8, <1>9, Numbers!UpTo
  <2> QED BY <1>3, <2>1
<1>11. N \in j..N
  BY <1>3, <1>4
<1> QED BY <1>6, <1>10, <1>11

\* A new message has been given to nobody.
LEMMA NewGivenToNobody ==
    ASSUME NEW n \in Nat, NEW d \in Databases(n)
    PROVE  GivenTo(db__msg_store_ref_inc(db__message_store(d, n + 1), n + 1), n + 1) = {}
<1> DEFINE k == n + 1
           a == db__message_store(d, k)
           e == db__msg_store_ref_inc(a, k)
<1>1. a \in Databases(k)
  BY StoreType
<1>2. GivenTo(a, k) = {}
  <2>1. a.store = [m \in DOMAIN d.store \cup {k} |->
                    IF m = k THEN [ref |-> 0, dest |-> {}] ELSE d.store[m]]
    BY DEF db__message_store, Databases
  <2>2. k \in DOMAIN a.store /\ a.store[k].dest = {}
    BY <2>1
  <2> QED BY <2>2 DEF GivenTo
<1> HIDE DEF a, k
<1>3. GivenMore(a, e, 0) /\ GivenMore(a, e, 1)
  BY <1>1, CountsGive
<1> HIDE DEF e
<1>4. GivenTo(e, k) \subseteq {0} /\ GivenTo(e, k) \subseteq {1}
  BY <1>2, <1>3 DEF GivenMore
<1>5. GivenTo(e, k) = {}
  BY <1>4
<1> QED BY <1>5 DEF e, a, k

\* What a publication brings to the contexts, and to a subscriber that has room.
QueuedTo(d, e, t, m) ==
    /\ \A s \in Slot : MayCome(d.ctx[s], e.ctx[s], m)
    /\ \A l \in Subscribers(d, t) :
        Fate(d.ctx[l.slot], l.qos) # "dropped" => m \in ToCome(e.ctx[l.slot])

LEMMA QueuedComes ==
    ASSUME NEW n \in Nat, NEW d \in Databases(n), n + 1 \in Message, Counted(d),
           IsFiniteSet(d.leaves), Listed(d), Named(d), NEW t \in Topic
    PROVE  QueuedTo(d, sub__messages_queue(db__message_store(d, n + 1), t, n + 1), t, n + 1)
<1> DEFINE k == n + 1
           e == db__msg_store_ref_inc(db__message_store(d, k), k)
           f == subs__process(e, t, k)
           g == retain__store(f, t, k)
           h == db__msg_store_ref_dec(g, k)
<1>1. /\ e \in Databases(k) /\ e.leaves = d.leaves
      /\ Stored(e) /\ \A m \in Message : Surplus(e, m) = Bit(m = k)
  BY ProtectedCounts
<1>2. e.ctx = d.ctx
  <2>1. /\ db__message_store(d, k) \in Databases(k)
        /\ db__message_store(d, k).ctx = d.ctx
    BY StoreType
  <2> QED BY <2>1, RefInc
<1>3. GivenTo(e, k) = {}
  BY NewGivenToNobody
<1>4. k \in Message /\ k \in Nat /\ k \in 1..k /\ k \in 1..MaxPublish /\ k <= MaxPublish
  BY BrokerAssumption DEF Message
<1> HIDE DEF k
<1>5. h = sub__messages_queue(db__message_store(d, k), t, k)
  BY DEF sub__messages_queue
<1> HIDE DEF e
<1>6. Healthy(e) /\ Surplus(e, k) > 0
  <2>1. \A m \in Message : Bit(m = k) >= 0
    BY DEF Bit
  <2>2. Bit(k = k) > 0
    BY DEF Bit
  <2> QED BY <1>1, <1>4, <2>1, <2>2 DEF Healthy
<1>7. Listed(e) /\ Named(e) /\ Subscribers(e, t) = Subscribers(d, t) /\ IsFiniteSet(e.leaves)
  BY <1>1, <1>2 DEF Listed, Named, Subscribers
<1>8. \A s \in Slot : MayCome(e.ctx[s], f.ctx[s], k)
  BY <1>1, <1>4, <1>7, ProcessMayCome
<1>9. \A l \in Subscribers(e, t) :
        Fate(e.ctx[l.slot], l.qos) # "dropped" => k \in ToCome(f.ctx[l.slot])
  BY <1>1, <1>3, <1>4, <1>6, <1>7, ProcessComes
<1>10. f \in Databases(k)
  BY <1>1, <1>4, <1>7, ProcessType
<1> HIDE DEF f
<1>11. g.ctx = f.ctx /\ g \in Databases(k)
  BY <1>4, <1>10, RetainBetter, RetainType
<1> HIDE DEF g
<1>12. h.ctx = f.ctx
  BY <1>11, RefDec
<1> HIDE DEF h
<1>13. QueuedTo(d, h, t, k)
  BY <1>2, <1>7, <1>8, <1>9, <1>12 DEF QueuedTo
<1> QED BY <1>5, <1>13 DEF k

-----------------------------------------------------------------------------
(* What a subscribed node is served *)

\* r, the retained message of topic t, has yet to come to a client that shows v,
\* or it shows it and nothing of the topic is to come.
Served(p, r, v, t, c) == r \in ToCome(c) \/ (v = r /\ \A m \in ToCome(c) : p[m] # t)

AllFresh(d) == \A s \in Slot : Fresh(d.ctx[s])

\* What a node shows of a topic was published of it.
Shown ==
    /\ asked \in [Node -> SUBSET Topic]
    /\ shows \in [Node -> [Topic -> 0..Len(published)]]
    /\ \A n \in Node, t \in Topic :
        shows[n][t] # NoMessage => published[shows[n][t]] = t

(* The inductive invariant behind SettledNodesShowRetained. For every node that
   has subscribed to a topic and was not dropped a message of it, the message the
   broker retains of the topic is yet to come, or the node shows it and no other
   message of the topic is to come. What is on its way to a client or in its queue
   is never marked as sent (AllFresh), so that all that is to come has its place in
   the line. The step of a node that receives rests on OrderInv: the retained
   message is the newest of its topic and comes after all the others. That a
   message which was not dropped does come rests on SessionInv (a subscriber has
   one leaf in the tree) and on StoreInv (a message just published is in the store
   and has been given to nobody). *)
SettledInv ==
    /\ AllFresh(db)
    /\ Shown
    /\ \A n \in Node, t \in Topic : Subscribed(n, t) =>
        Served(published, db.retained[t], shows[n][t], t, db.ctx[link[n]])

LEMMA SettledInit == BrokerInit => SettledInv
<1> SUFFICES ASSUME BrokerInit PROVE SettledInv
  OBVIOUS
<1>1. AllFresh(db)
  <2>1. \A s \in Slot : db.ctx[s].out = <<>> /\ db.ctx[s].queued = <<>>
    BY DEF BrokerInit, NewContext
  <2> QED BY <2>1 DEF AllFresh, Fresh, Unsent
<1>2. Shown
  <2>1. published = <<>> /\ Len(published) = 0 /\ NoMessage \in 0..0
    BY DEF BrokerInit, NoMessage
  <2>2. /\ asked \in [Node -> SUBSET Topic]
        /\ shows = [n \in Node |-> [t \in Topic |-> NoMessage]]
    BY DEF BrokerInit
  <2>3. \A n \in Node, t \in Topic : shows[n][t] = NoMessage
    BY <2>2
  <2> QED BY <2>1, <2>2, <2>3 DEF Shown
<1>3. \A n \in Node, t \in Topic : ~Subscribed(n, t)
  BY DEF BrokerInit, Subscribed
<1> QED BY <1>1, <1>2, <1>3 DEF SettledInv

\* Who is subscribed was so before, and what it has yet to see is the same.
StillComes ==
    \A n \in Node, t \in Topic : Subscribed(n, t)' =>
        Subscribed(n, t) /\ ToCome(db'.ctx[link'[n]]) = ToCome(db.ctx[link[n]])

LEMMA SettledKept ==
    ASSUME SettledInv, UNCHANGED <<published, shows>>, db'.retained = db.retained,
           asked' \in [Node -> SUBSET Topic], AllFresh(db'), StillComes
    PROVE  SettledInv'
<1>1. Shown'
  BY DEF SettledInv, Shown
<1>2. ASSUME NEW n \in Node, NEW t \in Topic, Subscribed(n, t)'
      PROVE  Served(published, db.retained[t], shows[n][t], t, db.ctx[link[n]])'
  <2>1. Subscribed(n, t) /\ ToCome(db'.ctx[link'[n]]) = ToCome(db.ctx[link[n]])
    BY <1>2 DEF StillComes
  <2>2. Served(published, db.retained[t], shows[n][t], t, db.ctx[link[n]])
    BY <2>1 DEF SettledInv
  <2> QED BY <2>1, <2>2 DEF Served
<1> QED BY <1>1, <1>2 DEF SettledInv, AllFresh

LEMMA UnsubscribeSettled ==
    ASSUME TypeInv, OrderInv, SettledInv, NEW n \in Node, NEW t \in Topic,
           handle__unsubscribe(n, t)
    PROVE  SettledInv'
<1> DEFINE s == link[n]
           k == Len(published)
<1>1. s \in Slot /\ db' = sub__remove(db, s, t) /\ link' = link /\ db \in Databases(k)
  BY UnsubscribeType DEF TypeInv
<1>2. UNCHANGED <<published, shows, asked, missed>>
  BY DEF handle__unsubscribe
<1> HIDE DEF s, k
<1>3. SameLines(db, db') /\ db'.retained = db.retained
  <2>1. Alike(sub_qos, db)
    BY DEF OrderInv
  <2> QED BY <1>1, <2>1, RemoveOrder
<1>4. \A r \in Slot : db'.ctx[r].subs \subseteq db.ctx[r].subs
  <2>1. \A r \in Slot \ {s} : db'.ctx[r] = db.ctx[r]
    BY <1>1, RemoveType
  <2>2. db'.ctx[s].subs = db.ctx[s].subs \ {t}
    BY <1>1, RemoveType DEF Session
  <2> QED BY <2>1, <2>2
<1>5. \A r \in Slot : Carries(db.ctx[r], db'.ctx[r])
  BY <1>3, CarriesFacts DEF SameLines
<1>6. AllFresh(db')
  BY <1>5 DEF AllFresh, SettledInv, Carries
<1>7. StillComes
  <2> SUFFICES ASSUME NEW m \in Node, NEW x \in Topic, Subscribed(m, x)'
               PROVE  Subscribed(m, x)
                      /\ ToCome(db'.ctx[link'[m]]) = ToCome(db.ctx[link[m]])
    BY DEF StillComes
  <2>1. link[m] \in Slot
    BY <1>1 DEF Subscribed, TypeInv, Slot, NoSlot
  <2> QED BY <1>1, <1>2, <1>4, <1>5, <2>1 DEF Subscribed, Carries
<1>8. asked' \in [Node -> SUBSET Topic]
  BY <1>2 DEF SettledInv, Shown
<1> QED BY <1>2, <1>3, <1>6, <1>7, <1>8, SettledKept

\* A connection ends, with what was on its way: no other node is concerned.
LEMMA EndSettled ==
    ASSUME TypeInv, OrderInv, SettledInv, NEW s \in Slot, db' = do_disconnect(db, s),
           UNCHANGED <<published, shows, asked, missed>>,
           \A m \in Node : link'[m] # NoSlot => link'[m] = link[m] /\ link[m] # s
    PROVE  SettledInv'
<1> DEFINE k == Len(published)
<1>1. db \in Databases(k) /\ InLine(published, db.ctx[s]) /\ Even(sub_qos, db.ctx[s])
  BY DEF TypeInv, OrderInv, Ordered
<1> HIDE DEF k
<1>2. db'.retained = db.retained
  BY <1>1, EndedOrdered
<1>3. \A r \in Slot \ {s} : db'.ctx[r] = db.ctx[r]
  BY <1>1, DisconnectType
<1>4. db'.ctx[s].out = <<>> /\ db'.ctx[s].queued = db.ctx[s].queued
  BY <1>1 DEF do_disconnect, Databases, Context
<1>5. AllFresh(db')
  <2>1. Unsent(db'.ctx[s].out)
    BY <1>4 DEF Unsent
  <2>2. Unsent(db'.ctx[s].queued)
    BY <1>4 DEF SettledInv, AllFresh, Fresh
  <2> QED BY <1>3, <2>1, <2>2 DEF AllFresh, SettledInv, Fresh
<1>6. StillComes
  <2> SUFFICES ASSUME NEW m \in Node, NEW x \in Topic, Subscribed(m, x)'
               PROVE  Subscribed(m, x)
                      /\ ToCome(db'.ctx[link'[m]]) = ToCome(db.ctx[link[m]])
    BY DEF StillComes
  <2>1. link'[m] = link[m] /\ link[m] # s /\ link[m] \in Slot
    BY DEF Subscribed, TypeInv, Slot, NoSlot
  <2> QED BY <1>3, <2>1 DEF Subscribed
<1>7. asked' \in [Node -> SUBSET Topic]
  BY DEF SettledInv, Shown
<1> QED BY <1>2, <1>5, <1>6, <1>7, SettledKept

LEMMA FreedSettled ==
    ASSUME TypeInv, SessionInv, SettledInv, context__free_disused
    PROVE  SettledInv'
<1>1. FreedOnly(db, db', Disused) /\ UNCHANGED <<published, shows, asked, missed, link>>
  BY FreedDoes DEF context__free_disused
<1>2. AllFresh(db')
  <2>1. Fresh(NewContext)
    BY DEF NewContext, Fresh, Unsent
  <2> QED BY <1>1, <2>1 DEF FreedOnly, AllFresh, SettledInv
<1>3. StillComes
  <2> SUFFICES ASSUME NEW m \in Node, NEW x \in Topic, Subscribed(m, x)'
               PROVE  Subscribed(m, x)
                      /\ ToCome(db'.ctx[link'[m]]) = ToCome(db.ctx[link[m]])
    BY DEF StillComes
  <2>1. link'[m] = link[m] /\ link[m] \in Slot
    BY <1>1 DEF Subscribed, TypeInv, Slot, NoSlot
  <2>2. link[m] \notin Disused
    BY <1>1 DEF Subscribed, SessionInv, Linked, Disused
  <2>3. db'.ctx[link[m]] = db.ctx[link[m]]
    BY <1>1, <2>1, <2>2 DEF FreedOnly
  <2> QED BY <1>1, <2>1, <2>3 DEF Subscribed
<1>4. asked' \in [Node -> SUBSET Topic]
  BY <1>1 DEF SettledInv, Shown
<1> QED BY <1>1, <1>2, <1>3, <1>4, SettledKept DEF FreedOnly

LEMMA LostSettled ==
    ASSUME TypeInv, SettledInv, NEW n \in Node, LinkLost(n)
    PROVE  SettledInv'
<1>1. /\ UNCHANGED <<db, published, shows, asked, missed>>
      /\ link' = [link EXCEPT ![n] = NoSlot]
  BY DEF LinkLost
<1>2. \A m \in Node : link'[m] # NoSlot => link'[m] = link[m]
  BY <1>1 DEF TypeInv
<1>3. StillComes
  BY <1>1, <1>2 DEF StillComes, Subscribed
<1>4. AllFresh(db') /\ asked' \in [Node -> SUBSET Topic] /\ db'.retained = db.retained
  BY <1>1 DEF SettledInv, Shown
<1> QED BY <1>1, <1>3, <1>4, SettledKept

-----------------------------------------------------------------------------
(* A connection *)

LEMMA ResetFresh ==
    ASSUME NEW c \in Context, Fresh(c)
    PROVE  Fresh(db__message_reconnect_reset(c))
<1> DEFINE again == [i \in DOMAIN c.inflight |-> [c.inflight[i] EXCEPT !.state = "publish"]]
           used == Cardinality({i \in DOMAIN again : again[i].qos > 0})
           quota == IF used > InflightMax THEN 0 ELSE InflightMax - used
           one == [c EXCEPT !.inflight = again]
           two == [one EXCEPT !.quota = quota]
           N == Len(c.inflight)
<1>1. /\ c.inflight \in Seq(Item) /\ N \in Nat /\ DOMAIN c.inflight = 1..N /\ N \in 0..N
  BY LenProperties DEF Context
<1>2. again = Resent(c.inflight, N)
  BY <1>1 DEF Resent
<1>3. again \in Seq(Item)
  BY <1>1, <1>2, SplitLined
<1>4. used \in Nat
  <2>1. DOMAIN again = 1..N
    BY <1>1
  <2> HIDE DEF again
  <2>2. {i \in DOMAIN again : again[i].qos > 0} \subseteq 1..N /\ IsFiniteSet(1..N)
    BY <1>1, <2>1, FirstNumbers
  <2> QED BY <2>2, FS_Subset, FS_CardinalityType
<1>5. db__message_reconnect_reset(c) = db__message_write_queued_out(two)
  BY DEF db__message_reconnect_reset, Context
<1> HIDE DEF again, used
<1>6. quota \in 0..InflightMax
  BY <1>4, BrokerAssumption
<1> HIDE DEF quota
<1>7. one \in Context /\ one.queued = c.queued /\ one.out = c.out
  BY <1>3, ContextChanges DEF Context
<1> HIDE DEF one
<1>8. two \in Context /\ two.queued = c.queued /\ two.out = c.out
  BY <1>6, <1>7, ContextChanges DEF Context
<1> HIDE DEF two
<1>9. Carries(two, db__message_write_queued_out(two))
  BY <1>8, QueueCarries
<1> QED BY <1>5, <1>8, <1>9 DEF Carries, Fresh

LEMMA InheritedFresh ==
    ASSUME NEW c \in Context, NEW old \in Context, Blank(c), Fresh(old)
    PROVE  Fresh(Inherited(c, old))
<1> DEFINE listed == [c EXCEPT !.subs = old.subs]
           fresh == [listed EXCEPT !.last_mid = old.last_mid]
           half == [fresh EXCEPT !.inflight = old.inflight]
           full == [half EXCEPT !.queued = old.queued]
<1>1. /\ old.subs \in SUBSET Topic /\ old.last_mid \in Mid
      /\ old.inflight \in Seq(Item) /\ old.queued \in Seq(Item)
  BY DEF Context
<1>2. fresh = BookkeepingMoved(c, old)
  BY DEF BookkeepingMoved, Context
<1>3. listed \in Context /\ Blank(listed)
  BY <1>1, SessionChanges DEF Context, Blank
<1> HIDE DEF listed
<1>4. fresh \in Context /\ Blank(fresh)
  BY <1>1, <1>3, ContextChanges DEF Context, Blank
<1> HIDE DEF fresh
<1>5. half \in Context /\ half.out = <<>>
  BY <1>1, <1>4, ContextChanges DEF Context, Blank
<1>6. full = [fresh EXCEPT !.inflight = old.inflight, !.queued = old.queued]
  BY <1>4 DEF Context
<1> HIDE DEF half
<1>7. full \in Context /\ full.out = <<>> /\ full.queued = old.queued
  BY <1>1, <1>5, ContextChanges DEF Context
<1>8. Inherited(c, old) = IF old.inflight = <<>> /\ old.queued = <<>> THEN fresh
                          ELSE db__message_reconnect_reset(full)
  BY <1>2, <1>6 DEF Inherited
<1> HIDE DEF full
<1>9. Unsent(<<>>)
  BY DEF Unsent
<1>10. Fresh(full) /\ Fresh(fresh)
  BY <1>4, <1>7, <1>9 DEF Fresh, Blank
<1>11. Fresh(db__message_reconnect_reset(full))
  BY <1>7, <1>10, ResetFresh
<1> QED BY <1>8, <1>10, <1>11

LEMMA TakenOverFresh ==
    ASSUME NEW n, NEW d \in Databases(n), NEW s \in Slot, NEW f \in Slot, s # f,
           Blank(d.ctx[s]), Fresh(d.ctx[s]), Fresh(d.ctx[f])
    PROVE  Fresh(TakenOver(d, s, f).ctx[s]) /\ Fresh(TakenOver(d, s, f).ctx[f])
<1> DEFINE g == IF ~d.ctx[s].clean /\ ~d.ctx[f].clean THEN SessionMoved(d, s, f)
                ELSE IF d.ctx[s].clean THEN sub__clean_session(d, f) ELSE d
           ends == [g.ctx[f] EXCEPT !.clean = TRUE]
           h == [g EXCEPT !.ctx[f] = ends]
           e == TakenOver(d, s, f)
<1>1. d.ctx[s] \in Context /\ d.ctx[f] \in Context
  BY DEF Databases
<1>2. g \in Databases(n) /\ Fresh(g.ctx[s]) /\ Unsent(g.ctx[f].queued)
  <2>1. CASE ~d.ctx[s].clean /\ ~d.ctx[f].clean
    <3>1. g = SessionMoved(d, s, f)
      BY <2>1
    <3> HIDE DEF g
    <3>2. g \in Databases(n) /\ g.ctx = ContextMoved(d, s, f).ctx
      BY <3>1, SessionMovedType
    <3>3. g.ctx[s] = Inherited(d.ctx[s], d.ctx[f]) /\ g.ctx[f] = HandedOver(d.ctx[f])
      BY <3>2, MovedDoes
    <3>4. Fresh(Inherited(d.ctx[s], d.ctx[f]))
      BY <1>1, InheritedFresh
    <3>5. HandedOver(d.ctx[f]).queued = <<>> /\ Unsent(<<>>)
      BY <1>1 DEF HandedOver, Context, Unsent
    <3> QED BY <3>2, <3>3, <3>4, <3>5
  <2>2. CASE ~(~d.ctx[s].clean /\ ~d.ctx[f].clean) /\ d.ctx[s].clean
    <3>1. g = sub__clean_session(d, f)
      BY <2>2
    <3>2. sub__clean_session(d, f).ctx[f].queued = d.ctx[f].queued
      BY <1>1 DEF sub__clean_session, Databases, Context
    <3> HIDE DEF g
    <3>3. g \in Databases(n) /\ g.ctx[s] = d.ctx[s]
      BY <3>1, CleanType
    <3> QED BY <3>1, <3>2, <3>3 DEF Fresh
  <2>3. CASE ~(~d.ctx[s].clean /\ ~d.ctx[f].clean) /\ ~d.ctx[s].clean
    <3>1. g = d
      BY <2>3
    <3> HIDE DEF g
    <3> QED BY <3>1 DEF Fresh
  <2> HIDE DEF g
  <2> QED BY <2>1, <2>2, <2>3
<1>3. e = do_disconnect(h, f)
  <2>1. g \in Databases(n)
    BY <1>2
  <2>2. e = do_disconnect([g EXCEPT !.ctx[f].clean = TRUE], f)
    BY DEF TakenOver
  <2> HIDE DEF g, e
  <2>3. [g EXCEPT !.ctx[f].clean = TRUE] = h
    BY <2>1 DEF Databases, Context
  <2> QED BY <2>2, <2>3
<1> HIDE DEF g
<1>4. g.ctx[f] \in Context
  BY <1>2 DEF Databases
<1>5. ends \in Context /\ ends.queued = g.ctx[f].queued
  BY <1>4, SessionChanges DEF Context
<1> HIDE DEF ends
<1>6. h \in Databases(n) /\ h.ctx[f] = ends /\ h.ctx[s] = g.ctx[s]
  BY <1>2, <1>5, ContextReplaced
<1> HIDE DEF h
<1>7. do_disconnect(h, f).ctx[f].out = <<>> /\ do_disconnect(h, f).ctx[f].queued = h.ctx[f].queued
  BY <1>6 DEF do_disconnect, Databases, Context
<1>8. do_disconnect(h, f).ctx[s] = h.ctx[s]
  <2>1. s \in Slot \ {f}
    OBVIOUS
  <2>2. \A r \in Slot \ {f} : do_disconnect(h, f).ctx[r] = h.ctx[r]
    BY <1>6, DisconnectType
  <2> QED BY <2>1, <2>2
<1>9. Unsent(<<>>)
  BY DEF Unsent
<1> HIDE DEF e
<1> QED BY <1>2, <1>3, <1>5, <1>6, <1>7, <1>8, <1>9 DEF e, Fresh

LEMMA ConnectedFresh ==
    ASSUME NEW n, NEW d \in Databases(n), NEW s \in Slot, NEW m \in Node,
           Blank(d.ctx[s]), AllFresh(d)
    PROVE  AllFresh(connect__on_authorised(d, s, m))
<1> DEFINE e == Cleared(d, s, m)
           c == e.ctx[s]
           one == [c EXCEPT !.state = "active"]
           two == [one EXCEPT !.id = m]
           active == [e EXCEPT !.ctx[s] = two]
           moved == QueueOut(active, s)
           r == connect__on_authorised(d, s, m)
<1>1. /\ e \in Databases(n)
      /\ \A q \in Slot \ {s} : r.ctx[q] = e.ctx[q]
  BY ConnectedType, SMTT(30) DEF NowActive, Session
<1>2. AllFresh(e)
  <2>1. ASSUME NEW f \in Slot \ {s}, e = TakenOver(d, s, f) PROVE AllFresh(e)
    <3> HIDE DEF e
    <3>1. f \in Slot /\ s # f /\ Fresh(d.ctx[s]) /\ Fresh(d.ctx[f])
      BY DEF AllFresh
    <3>2. Fresh(e.ctx[s]) /\ Fresh(e.ctx[f])
      BY <2>1, <3>1, TakenOverFresh
    <3>3. GivenWay(d, e, s, f)
      BY <2>1, <3>1, TakenOverType
    <3>4. \A q \in Slot \ {s, f} : e.ctx[q] = d.ctx[q]
      BY <3>3 DEF GivenWay
    <3> QED BY <3>2, <3>4 DEF AllFresh
  <2>2. e = d \/ \E f \in Slot \ {s} : d.ctx[f].id = m /\ e = TakenOver(d, s, f)
    BY ClearedFacts
  <2> HIDE DEF e
  <2> QED BY <2>1, <2>2
<1>3. r = db__message_write_inflight_out_all(moved, s)
  <2>1. c \in Context
    BY <1>1 DEF Databases
  <2>2. [e EXCEPT !.ctx[s].state = "active", !.ctx[s].id = m] = active
    BY <1>1, <2>1 DEF Databases, Context
  <2> HIDE DEF active
  <2>3. r = db__message_write_inflight_out_all(
              QueueOut([e EXCEPT !.ctx[s].state = "active", !.ctx[s].id = m], s), s)
    BY DEF connect__on_authorised, Cleared, QueueOut
  <2> HIDE DEF r, e
  <2> QED BY <2>2, <2>3
<1> HIDE DEF e, r
<1>4. c \in Context /\ "active" \in ContextState /\ Fresh(c)
  BY <1>1, <1>2 DEF Databases, ContextState, AllFresh
<1> HIDE DEF c
<1>5. one \in Context
  BY <1>4, SessionChanges
<1>6. two \in Context
  BY <1>5, SessionChanges
<1>7. two.queued = c.queued /\ two.out = c.out
  BY <1>4 DEF Context
<1> HIDE DEF one, two
<1>8. active \in Databases(n) /\ active.ctx[s] = two /\ Fresh(two)
  BY <1>1, <1>4, <1>6, <1>7, ContextReplaced DEF Fresh
<1> HIDE DEF active
<1>9. moved \in Databases(n) /\ Carries(active.ctx[s], moved.ctx[s])
  BY <1>8, QueueBalance, QueueWrittenCarries
<1> HIDE DEF moved
<1>10. Carries(moved.ctx[s], r.ctx[s])
  BY <1>3, <1>9, WrittenCarries DEF db__message_write_inflight_out_all
<1>11. Fresh(r.ctx[s])
  BY <1>8, <1>9, <1>10 DEF Carries
<1> QED BY <1>1, <1>2, <1>11 DEF AllFresh, r

\* A connection that takes a session over has not subscribed on it yet.
LEMMA ConnectSettled ==
    ASSUME TypeInv, SessionInv, QuotaInv, OrderInv, SettledInv,
           NEW n \in Node, NEW clean \in BOOLEAN, handle__connect(n, clean)
    PROVE  SettledInv'
<1> DEFINE s == Min(FreeSlots)
           d == [db EXCEPT !.ctx[s].clean = clean]
           k == Len(published)
           r == connect__on_authorised(d, s, n)
           c == [db.ctx[s] EXCEPT !.clean = clean]
<1>1. /\ s \in Slot /\ db.ctx[s].state = "free"
      /\ d \in Databases(k) /\ db \in Databases(k)
      /\ \A q \in Slot \ {s} : d.ctx[q] = db.ctx[q]
      /\ db' = r /\ link' = [link EXCEPT ![n] = s]
  BY ConnectType DEF FreeSlots, TypeInv
<1>2. /\ UNCHANGED <<published, shows, missed>> /\ link[n] = NoSlot
      /\ asked' = [asked EXCEPT ![n] = {}]
  BY DEF handle__connect
<1>3. d.ctx[s] = c /\ d.retained = db.retained
  BY <1>1 DEF Databases
<1> HIDE DEF s, k
<1>4. db.ctx[s] \in Context
  BY <1>1 DEF Databases
<1>5. /\ c.inflight = db.ctx[s].inflight /\ c.queued = db.ctx[s].queued
      /\ c.out = db.ctx[s].out /\ c.quota = db.ctx[s].quota
  BY <1>4 DEF Context
<1> HIDE DEF c
<1>6. Blank(d.ctx[s])
  <2>1. Blank(db.ctx[s])
    BY <1>1 DEF QuotaInv, Sound, Blank
  <2> QED BY <1>3, <1>5, <2>1 DEF Blank
<1>7. AllFresh(d)
  <2>1. Unsent(<<>>)
    BY DEF Unsent
  <2>2. Fresh(d.ctx[s])
    BY <1>6, <2>1 DEF Blank, Fresh
  <2> QED BY <1>1, <2>2 DEF AllFresh, SettledInv
<1> HIDE DEF d
<1>8. AllFresh(db')
  BY <1>1, <1>6, <1>7, ConnectedFresh
<1>9. db'.retained = db.retained
  <2>1. Ordered(published, sub_qos, d.ctx[s])
    BY <1>6, BlankOrdered DEF Blank
  <2>2. AllOrdered(published, sub_qos, d)
    BY <1>1, <2>1 DEF AllOrdered, OrderInv
  <2>3. r.retained = d.retained
    BY <1>1, <1>6, <2>2, ConnectedLined
  <2> QED BY <1>1, <1>3, <2>3
<1>10. \A q \in Slot \ {s} : d.ctx[q].id # n => r.ctx[q] = d.ctx[q]
  <2> DEFINE e == Cleared(d, s, n)
  <2>1. \A q \in Slot \ {s} : r.ctx[q] = e.ctx[q]
    BY <1>1, ConnectedType DEF NowActive
  <2>2. ASSUME NEW f \in Slot \ {s}, d.ctx[f].id = n, e = TakenOver(d, s, f),
               NEW q \in Slot \ {s}, d.ctx[q].id # n
        PROVE  e.ctx[q] = d.ctx[q]
    <3> HIDE DEF e
    <3>1. f \in Slot /\ s # f /\ q \in Slot \ {s, f}
      BY <2>2
    <3>2. GivenWay(d, e, s, f)
      BY <1>1, <2>2, <3>1, TakenOverType
    <3> QED BY <3>1, <3>2 DEF GivenWay
  <2>3. e = d \/ \E f \in Slot \ {s} : d.ctx[f].id = n /\ e = TakenOver(d, s, f)
    BY <1>1, ClearedFacts
  <2> HIDE DEF e, r
  <2> QED BY <2>1, <2>2, <2>3
<1> HIDE DEF r
<1>11. StillComes
  <2> SUFFICES ASSUME NEW m \in Node, NEW x \in Topic, Subscribed(m, x)'
               PROVE  Subscribed(m, x)
                      /\ ToCome(db'.ctx[link'[m]]) = ToCome(db.ctx[link[m]])
    BY DEF StillComes
  <2>1. m # n
    BY <1>2 DEF Subscribed, SettledInv, Shown
  <2>2. link'[m] = link[m] /\ asked'[m] = asked[m] /\ link[m] # NoSlot /\ link[m] \in Slot
    BY <1>1, <1>2, <2>1 DEF Subscribed, TypeInv, SettledInv, Shown, Slot, NoSlot
  <2>3. db.ctx[link[m]].state = "active" /\ db.ctx[link[m]].id = m
    BY <2>2 DEF SessionInv, Linked
  <2>4. link[m] # s
    BY <1>1, <2>3
  <2>5. db'.ctx[link[m]] = db.ctx[link[m]]
    BY <1>1, <1>10, <2>1, <2>2, <2>3, <2>4
  <2> QED BY <1>2, <2>2, <2>5 DEF Subscribed
<1>12. asked' \in [Node -> SUBSET Topic]
  BY <1>2 DEF SettledInv, Shown
<1> QED BY <1>2, <1>8, <1>9, <1>11, <1>12, SettledKept

-----------------------------------------------------------------------------
(* A PUBACK, and what a node receives *)

\* A step that moves messages of context s on, and loses none
LEMMA MovedSettled ==
    ASSUME TypeInv, SettledInv, NEW s \in Slot, OnlyMessages(db, db', s),
           Carries(db.ctx[s], db'.ctx[s]), UNCHANGED <<published, link, shows, asked, missed>>
    PROVE  SettledInv'
<1>1. db'.retained = db.retained /\ \A r \in Slot : Carries(db.ctx[r], db'.ctx[r])
  BY CarriesFacts DEF OnlyMessages
<1>2. \A r \in Slot : db'.ctx[r].subs = db.ctx[r].subs
  BY SMTT(30) DEF OnlyMessages, Session
<1>3. AllFresh(db')
  BY <1>1 DEF AllFresh, SettledInv, Carries
<1>4. StillComes
  <2> SUFFICES ASSUME NEW m \in Node, NEW x \in Topic, Subscribed(m, x)'
               PROVE  Subscribed(m, x)
                      /\ ToCome(db'.ctx[link'[m]]) = ToCome(db.ctx[link[m]])
    BY DEF StillComes
  <2>1. link[m] \in Slot
    BY DEF Subscribed, TypeInv, Slot, NoSlot
  <2> QED BY <1>1, <1>2, <2>1 DEF Subscribed, Carries
<1>5. asked' \in [Node -> SUBSET Topic]
  BY DEF SettledInv, Shown
<1> QED BY <1>1, <1>3, <1>4, <1>5, SettledKept

LEMMA RemovedUnsent ==
    ASSUME NEW S, NEW q \in Seq(S), NEW k \in 1..Len(q), q[k].state = "wait"
    PROVE  UnsentMsgs(RemoveAt(q, k)) = UnsentMsgs(q)
<1> DEFINE r == RemoveAt(q, k)
           Due(m) == {x \in S : x.state # "wait" /\ x.msg = m}
<1>1. r \in Seq(S) /\ \A m : Count(q, Due(m)) = Count(r, Due(m)) + Bit(q[k] \in Due(m))
  BY CountRemoved
<1>2. \A m : Count(r, Due(m)) = Count(q, Due(m))
  <2> SUFFICES ASSUME NEW m PROVE Count(r, Due(m)) = Count(q, Due(m))
    OBVIOUS
  <2>1. q[k] \notin Due(m)
    OBVIOUS
  <2>2. Count(r, Due(m)) \in Nat
    BY <1>1, CountType
  <2> HIDE DEF Due, r
  <2> QED BY <1>1, <2>1, <2>2 DEF Bit
<1>3. ASSUME NEW l \in Seq(S), NEW m
      PROVE  m \in UnsentMsgs(l) <=> Count(l, Due(m)) # 0
  <2>1. \A i \in 1..Len(l) : l[i] \in S
    BY ElementOfSeq
  <2>2. Count(l, Due(m)) # 0 <=> \E i \in 1..Len(l) : l[i] \in Due(m)
    BY CountType
  <2> QED BY <2>1, <2>2 DEF UnsentMsgs
<1> HIDE DEF r, Due
<1>4. ASSUME NEW m PROVE m \in UnsentMsgs(r) <=> m \in UnsentMsgs(q)
  <2>1. m \in UnsentMsgs(r) <=> Count(r, Due(m)) # 0
    BY <1>1, <1>3
  <2>2. m \in UnsentMsgs(q) <=> Count(q, Due(m)) # 0
    BY <1>3
  <2> QED BY <1>2, <2>1, <2>2
<1> QED BY <1>4 DEF r

LEMMA PubackSettled ==
    ASSUME TypeInv, QuotaInv, OrderInv, SettledInv, NEW s \in Slot, handle__pubackcomp(s)
    PROVE  SettledInv'
<1> DEFINE c == db.ctx[s]
           quota == IF c.quota < InflightMax THEN c.quota + 1 ELSE c.quota
           x == [c EXCEPT !.quota = quota]
           d == [db EXCEPT !.ctx[s].quota = quota]
           k == Len(published)
           mid == Head(acks[s])
           e == WithoutMid(d, s, mid)
<1>1. /\ Connected(c) /\ UNCHANGED <<published, link, shows, asked, missed>> /\ acks[s] # <<>>
      /\ db' = db__message_delete_outgoing(d, s, mid)
  BY DEF handle__pubackcomp
<1>2. OnlyMessages(db, db', s)
  BY PubackType
<1>3. db \in Databases(k) /\ c \in Context /\ c.quota \in 0..InflightMax
  BY DEF TypeInv, Databases, Context
<1>4. quota \in 0..InflightMax
  BY <1>3, BrokerAssumption
<1>5. d = [db EXCEPT !.ctx[s] = x]
  BY <1>3 DEF Databases
<1>6. PICK j \in 1..Len(c.inflight) : c.inflight[j].mid = mid /\ c.inflight[j].state = "wait"
  BY <1>1, AwaitedWaits
<1>7. Behind(c.inflight) /\ Underway(c.inflight)
  BY <1>1 DEF OrderInv, Ordered, Lately, InLine, Connected
<1> HIDE DEF quota, k, mid, d
<1>8. /\ x \in Context /\ SameLine(c, x)
      /\ x.inflight = c.inflight /\ x.queued = c.queued /\ x.out = c.out
  BY <1>3, <1>4, ContextChanges DEF Context, SameLine
<1> HIDE DEF x
<1>9. d \in Databases(k) /\ d.ctx[s] = x
  BY <1>3, <1>5, <1>8, ContextReplaced
<1> HIDE DEF c
<1>10. FirstOut(x, j, e.ctx[s])
  BY <1>6, <1>8, <1>9, WithoutMidDoes
<1>11. PICK i \in 1..Len(x.inflight) :
          i <= j /\ e.ctx[s] = [x EXCEPT !.inflight = RemoveAt(x.inflight, i)]
  BY <1>10 DEF FirstOut
<1>12. x.inflight[i].state = "wait"
  <2>1. x.inflight[i] \in Item
    BY <1>8, <1>11, ElementOfSeq DEF Context
  <2>2. x.inflight[i].state # "queued"
    BY <1>7, <1>8 DEF Underway
  <2>3. x.inflight[i].state # "publish"
    <3>1. CASE i = j
      BY <1>6, <1>8, <3>1
    <3>2. CASE i < j
      BY <1>6, <1>7, <1>8, <3>2 DEF Behind
    <3> QED BY <1>11, <3>1, <3>2
  <2> QED BY <2>1, <2>2, <2>3 DEF Item
<1>13. /\ e.ctx[s].inflight = RemoveAt(x.inflight, i)
       /\ e.ctx[s].queued = x.queued /\ e.ctx[s].out = x.out
  BY <1>8, <1>11 DEF Context
<1>14. UnsentMsgs(RemoveAt(x.inflight, i)) = UnsentMsgs(x.inflight)
  <2>1. x.inflight \in Seq(Item)
    BY <1>8 DEF Context
  <2> QED BY <1>12, <2>1, RemovedUnsent
<1>15. e \in Databases(k)
  BY <1>9, WithoutMidType
<1> HIDE DEF e
<1>16. Carries(c, e.ctx[s])
  BY <1>8, <1>13, <1>14 DEF Carries, ToCome, Fresh
<1>17. Carries(e.ctx[s], db__message_delete_outgoing(d, s, mid).ctx[s])
  <2>1. db__message_delete_outgoing(d, s, mid)
          = db__message_write_inflight_out_latest(QueueOut(e, s), s)
    BY DEF db__message_delete_outgoing, QueueOut, e
  <2> QED BY <1>15, <2>1, FlushCarries
<1>18. Carries(c, db'.ctx[s])
  BY <1>1, <1>16, <1>17, CarriesFacts
<1> QED BY <1>1, <1>2, <1>18, MovedSettled DEF c

LEMMA HeadTaken ==
    ASSUME NEW S, NEW q \in Seq(S), q # <<>>
    PROVE  /\ Head(q) \in S /\ Tail(q) \in Seq(S)
           /\ Msgs(q) = {Head(q).msg} \cup Msgs(Tail(q))
           /\ Unsent(q) => Unsent(Tail(q))
           /\ \A p : Sorted(p, q) => Ahead(p, {Head(q).msg}, Msgs(Tail(q)))
<1> DEFINE r == Tail(q)
           N == Len(q)
<1>1. /\ N \in Nat /\ N # 0 /\ Head(q) = q[1] /\ r \in Seq(S) /\ Len(r) = N - 1
      /\ \A i \in 1..(N - 1) : r[i] = q[i + 1]
  BY HeadTailProperties, LenProperties, EmptySeq
<1>2. Head(q) \in S
  BY <1>1, ElementOfSeq
<1> HIDE DEF r
<1>3. \A i \in 1..Len(r) : i + 1 \in 1..N /\ r[i] = q[i + 1] /\ 1 < i + 1
  BY <1>1
<1>4. \A i \in 1..N : i = 1 \/ (i - 1 \in 1..Len(r) /\ r[i - 1] = q[i])
  <2> SUFFICES ASSUME NEW i \in 1..N, i # 1
               PROVE  i - 1 \in 1..Len(r) /\ r[i - 1] = q[i]
    OBVIOUS
  <2>1. i - 1 \in 1..(N - 1) /\ (i - 1) + 1 = i
    BY <1>1
  <2> QED BY <1>1, <2>1
<1>5. 1 \in 1..N
  BY <1>1
<1>6. Msgs(q) = {Head(q).msg} \cup Msgs(r)
  <2>1. Msgs(r) \subseteq Msgs(q)
    BY <1>3 DEF Msgs, N
  <2>2. Head(q).msg \in Msgs(q)
    BY <1>1, <1>5 DEF Msgs, N
  <2>3. \A i \in 1..N : q[i].msg \in {Head(q).msg} \cup Msgs(r)
    BY <1>1, <1>4 DEF Msgs
  <2> QED BY <2>1, <2>2, <2>3 DEF Msgs, N
<1>7. Unsent(q) => Unsent(r)
  BY <1>3 DEF Unsent, N
<1>8. \A p : Sorted(p, q) => Ahead(p, {Head(q).msg}, Msgs(r))
  <2> SUFFICES ASSUME NEW p, Sorted(p, q), NEW i \in 1..Len(r),
                      p[Head(q).msg] = p[r[i].msg]
               PROVE  Head(q).msg <= r[i].msg
    BY DEF Ahead, Msgs
  <2> DEFINE j == i + 1
  <2>1. j \in 1..N /\ r[i] = q[j] /\ 1 < j
    BY <1>3
  <2> HIDE DEF j
  <2> QED BY <1>1, <1>5, <2>1 DEF Sorted, N
<1> QED BY <1>1, <1>2, <1>6, <1>7, <1>8 DEF r

\* What is on its way to a client comes before all it has yet to see besides.
LEMMA ReceivedFirst ==
    ASSUME NEW p, NEW c \in Context, InLine(p, c), c.out # <<>>,
           NEW e \in Context, e = [c EXCEPT !.out = Tail(c.out)]
    PROVE  LET m == Head(c.out).msg IN
           /\ m \in 1..Len(p) /\ ToCome(c) = ToCome(e) \cup {m}
           /\ Fresh(c) => Fresh(e)
           /\ Ahead(p, {m}, ToCome(e))
<1> DEFINE m == Head(c.out).msg
           o == Tail(c.out)
<1>1. /\ e.out = o /\ e.inflight = c.inflight /\ e.queued = c.queued
      /\ c.out \in Seq(Item)
  BY DEF Context
<1>2. /\ Msgs(c.out) = {m} \cup Msgs(o)
      /\ Unsent(c.out) => Unsent(o)
      /\ Sorted(p, c.out) => Ahead(p, {m}, Msgs(o))
  BY <1>1, HeadTaken
<1> HIDE DEF m, o
<1>3. /\ Msgs(c.out) \subseteq 1..Len(p) /\ Sorted(p, c.out)
      /\ Ahead(p, Msgs(c.out), UnsentMsgs(c.inflight) \cup Msgs(c.queued))
  BY DEF InLine
<1>4. ToCome(c) = ToCome(e) \cup {m}
  BY <1>1, <1>2 DEF ToCome
<1>5. Fresh(c) => Fresh(e)
  BY <1>1, <1>2 DEF Fresh
<1>6. Ahead(p, {m}, ToCome(e))
  BY <1>1, <1>2, <1>3 DEF Ahead, ToCome
<1> QED BY <1>2, <1>3, <1>4, <1>5, <1>6 DEF m

LEMMA ReceivesSettled ==
    ASSUME TypeInv, SessionInv, OrderInv, SettledInv, NEW n \in Node, NodeReceives(n)
    PROVE  SettledInv'
<1> DEFINE s == link[n]
           p == published
           c == db.ctx[s]
           e == db'.ctx[s]
           m == Head(c.out).msg
           x == p[m]
<1>1. s \in Slot /\ OnlyMessages(db, db', s)
  BY ReceivesType
<1>2. /\ c.out # <<>> /\ db' = [db EXCEPT !.ctx[s].out = Tail(@)]
      /\ UNCHANGED <<published, link, asked, missed>>
      /\ shows' = [shows EXCEPT ![n][x] = m]
  BY DEF NodeReceives
<1>3. /\ db \in Databases(Len(p)) /\ c \in Context /\ InLine(p, c)
      /\ p \in Seq(Topic) /\ link \in [Node -> 0..Slots]
  BY <1>1 DEF TypeInv, Databases, OrderInv, Ordered
<1>4. e = [c EXCEPT !.out = Tail(c.out)]
  BY <1>1, <1>2 DEF TypeInv, Databases
<1>5. c.out \in Seq(Item)
  BY <1>3 DEF Context
<1>6. e \in Context
  <2>1. Tail(c.out) \in Seq(Item)
    BY <1>2, <1>5, HeadTaken
  <2> QED BY <1>3, <1>4, <2>1, ContextChanges
<1> HIDE DEF s, c, e
<1>7. /\ m \in 1..Len(p) /\ ToCome(c) = ToCome(e) \cup {m}
      /\ Fresh(c) => Fresh(e)
      /\ Ahead(p, {m}, ToCome(e))
  BY <1>2, <1>3, <1>4, <1>6, ReceivedFirst
<1>8. x \in Topic
  BY <1>3, <1>7, ElementOfSeq
<1> HIDE DEF m
<1>9. /\ \A r \in Slot \ {s} : db'.ctx[r] = db.ctx[r]
      /\ db'.retained = db.retained /\ e.subs = c.subs
  BY <1>1, SMTT(30) DEF OnlyMessages, Session, c, e
<1>10. AllFresh(db')
  BY <1>1, <1>7, <1>9 DEF AllFresh, SettledInv, c, e
<1>11. /\ shows \in [Node -> [Topic -> 0..Len(p)]]
       /\ \A q \in Node, t \in Topic : shows[q][t] # NoMessage => p[shows[q][t]] = t
       /\ asked \in [Node -> SUBSET Topic]
  BY DEF SettledInv, Shown
<1>12. /\ shows' \in [Node -> [Topic -> 0..Len(p)]]
       /\ \A q \in Node, t \in Topic : shows'[q][t] = IF q = n /\ t = x THEN m ELSE shows[q][t]
  <2>1. m \in 0..Len(p)
    BY <1>7
  <2> HIDE DEF p, x
  <2> QED BY <1>2, <1>8, <1>11, <2>1
<1>13. Shown'
  BY <1>2, <1>11, <1>12 DEF Shown
<1>14. ASSUME NEW q \in Node, NEW t \in Topic, Subscribed(q, t)'
       PROVE  Served(published, db.retained[t], shows[q][t], t, db.ctx[link[q]])'
  <2> DEFINE r == db.retained[t]
             v == shows[q][t]
             b == db.ctx[link[q]]
  <2>1. link'[q] = link[q] /\ link[q] \in Slot /\ link[q] # NoSlot
    BY <1>2, <1>3, <1>14 DEF Subscribed, Slot, NoSlot
  <2>2. Subscribed(q, t)
    <3>1. db'.ctx[link[q]].subs = db.ctx[link[q]].subs
      BY <1>9, <2>1 DEF c, e
    <3> QED BY <1>2, <1>14, <2>1, <3>1 DEF Subscribed
  <2>3. Served(p, r, v, t, b)
    BY <2>2 DEF SettledInv
  <2>4. CASE q # n
    <3>1. link[q] # s
      <4>1. db.ctx[link[q]].id = q
        BY <2>1 DEF SessionInv, Linked
      <4>2. db.ctx[s].id = n
        BY <1>1 DEF SessionInv, Linked, s, Slot, NoSlot
      <4> QED BY <2>4, <4>1, <4>2
    <3>2. db'.ctx[link[q]] = b
      BY <1>9, <2>1, <3>1
    <3>3. shows'[q][t] = v
      BY <1>12, <2>4
    <3> HIDE DEF v, b, r, p
    <3> QED BY <1>2, <1>9, <2>1, <2>3, <3>2, <3>3 DEF p, r
  <2>5. CASE q = n /\ t # x
    <3>1. b = c /\ db'.ctx[link'[q]] = e
      BY <2>1, <2>5 DEF s, c, e
    <3>2. r = m => p[r] = t
      <4>1. m # NoMessage
        BY <1>7 DEF NoMessage
      <4> QED BY <4>1 DEF OrderInv, Retains
    <3>3. r # m
      BY <2>5, <3>2
    <3>4. shows'[q][t] = v
      BY <1>12, <2>5
    <3>5. Served(p, r, v, t, e)
      BY <1>7, <2>3, <3>1, <3>3 DEF Served
    <3> HIDE DEF v, b, r, p, x
    <3> QED BY <1>2, <1>9, <3>1, <3>4, <3>5 DEF p, r
  <2>6. CASE q = n /\ t = x
    <3>1. b = c /\ db'.ctx[link'[q]] = e
      BY <2>1, <2>6 DEF s, c, e
    <3>2. shows'[q][t] = m
      BY <1>12, <2>6
    <3>3. CASE r \in ToCome(e)
      <4> HIDE DEF v, b, r, p, x
      <4> QED BY <1>2, <1>9, <3>1, <3>3 DEF p, r, Served
    <3>4. CASE r \notin ToCome(e)
      <4>1. r = m
        BY <1>7, <2>3, <2>6, <3>1, <3>4 DEF Served
      <4>2. ASSUME NEW y \in ToCome(e) PROVE p[y] # t
        <5> SUFFICES ASSUME p[y] = t PROVE FALSE
          OBVIOUS
        <5>1. y \in 1..Len(p)
          <6>1. ToCome(e) \subseteq Msgs(c.inflight) \cup Msgs(c.queued) \cup Msgs(c.out)
            <7>1. UnsentMsgs(c.inflight) \subseteq Msgs(c.inflight)
              BY DEF UnsentMsgs, Msgs
            <7> QED BY <1>7, <7>1 DEF ToCome
          <6> QED BY <1>3, <6>1 DEF InLine
        <5>2. m <= y
          BY <1>7, <2>6 DEF Ahead
        <5>3. y <= r
          BY <5>1 DEF OrderInv, Retains
        <5>4. y = r
          BY <1>7, <4>1, <5>1, <5>2, <5>3
        <5> QED BY <3>4, <5>4
      <4>3. Served(p, r, m, t, e)
        BY <4>1, <4>2 DEF Served
      <4> HIDE DEF v, b, r, p, x
      <4> QED BY <1>2, <1>9, <3>1, <3>2, <4>3 DEF p, r
    <3> QED BY <3>3, <3>4
  <2> QED BY <2>4, <2>5, <2>6
<1> QED BY <1>10, <1>13, <1>14 DEF SettledInv, AllFresh

-----------------------------------------------------------------------------
(* A SUBSCRIBE *)

\* One more message of another topic serves a client no worse.
LEMMA ServedStill ==
    /\ \A p, r, v, t, c, e : Served(p, r, v, t, c) /\ ToCome(e) = ToCome(c) => Served(p, r, v, t, e)
    /\ \A p, r, v, t, c, e, m :
        Served(p, r, v, t, c) /\ MayCome(c, e, m) /\ p[m] # t => Served(p, r, v, t, e)
BY DEF Served, MayCome

LEMMA AddSubs ==
    ASSUME NEW n, NEW d \in Databases(n), NEW s \in Slot, NEW t, NEW qos
    PROVE  sub__add(d, s, t, qos).ctx[s].subs \subseteq d.ctx[s].subs \cup {t}
<1> DEFINE e == sub__add(d, s, t, qos)
           more == [d.ctx[s] EXCEPT !.subs = @ \cup {t}]
<1>1. e.ctx = d.ctx \/ e.ctx = [d.ctx EXCEPT ![s] = more]
  BY DEF sub__add, Databases
<1>2. d.ctx \in [Slot -> Context] /\ d.ctx[s] \in Context
  BY DEF Databases
<1>3. more.subs = d.ctx[s].subs \cup {t}
  BY <1>2 DEF Context
<1> HIDE DEF e, more
<1>4. e.ctx[s] = d.ctx[s] \/ e.ctx[s] = more
  BY <1>1, <1>2
<1> QED BY <1>3, <1>4 DEF e

LEMMA ComingPublished ==
    ASSUME NEW p, NEW c, InLine(p, c)
    PROVE  ToCome(c) \subseteq 1..Len(p)
<1>1. UnsentMsgs(c.inflight) \subseteq Msgs(c.inflight)
  BY DEF UnsentMsgs, Msgs
<1> QED BY <1>1 DEF InLine, ToCome

\* The copy of the retained message, if there is one, comes unless it is dropped.
CopyComes(d, e, s, m, qos) ==
    /\ m = NoMessage => Carries(d.ctx[s], e.ctx[s])
    /\ m # NoMessage => MayCome(d.ctx[s], e.ctx[s], m)
    /\ m # NoMessage /\ Welcome(d, s, m, qos, TRUE) => m \in ToCome(e.ctx[s])

LEMMA RetainedComes ==
    ASSUME NEW n \in Nat, n <= MaxPublish, NEW d \in Databases(n), NEW s \in Slot,
           NEW t \in Topic, NEW qos \in {0, 1}
    PROVE  LET e == retain__process(d, s, t, qos) IN
           /\ CopyComes(d, e, s, d.retained[t], qos)
           /\ CopyComes(d, db__message_write_inflight_out_latest(QueueOut(e, s), s), s,
                        d.retained[t], qos)
<1> DEFINE m == d.retained[t]
           e == retain__process(d, s, t, qos)
           f == db__message_write_inflight_out_latest(QueueOut(e, s), s)
<1>1. e \in Databases(n)
  BY CopyType
<1>2. CopyComes(d, e, s, m, qos)
  <2>1. CASE m = NoMessage
    <3>1. e = d
      BY <2>1 DEF retain__process
    <3> HIDE DEF e
    <3> QED BY <2>1, <3>1, CarriesFacts DEF CopyComes
  <2>2. CASE m # NoMessage
    <3>1. m \in 1..MaxPublish
      BY <2>2, BrokerAssumption DEF Databases, NoMessage
    <3>2. e = Offered(d, s, m, qos, TRUE, FALSE) /\ TRUE \in BOOLEAN
      BY <2>2 DEF retain__process
    <3> HIDE DEF m, e
    <3>3. /\ MayCome(d.ctx[s], e.ctx[s], m)
          /\ Welcome(d, s, m, qos, TRUE) => m \in ToCome(e.ctx[s])
      BY <3>1, <3>2, OfferedComes
    <3> QED BY <2>2, <3>3 DEF CopyComes
  <2> QED BY <2>1, <2>2
<1> HIDE DEF e, m
<1>3. Carries(e.ctx[s], f.ctx[s])
  BY <1>1, FlushCarries
<1> HIDE DEF f
<1>4. CopyComes(d, f, s, m, qos)
  <2>1. m = NoMessage => Carries(d.ctx[s], f.ctx[s])
    BY <1>2, <1>3, CarriesFacts DEF CopyComes
  <2>2. m # NoMessage => MayCome(d.ctx[s], f.ctx[s], m)
    BY <1>2, <1>3, MayComeFacts DEF CopyComes
  <2>3. m # NoMessage /\ Welcome(d, s, m, qos, TRUE) => m \in ToCome(f.ctx[s])
    BY <1>2, <1>3 DEF CopyComes, Carries
  <2> QED BY <2>1, <2>2, <2>3 DEF CopyComes
<1> QED BY <1>2, <1>4 DEF e, m, f

\* Who was not served a message of topic t is missed; the rest is as before.
LEMMA MissedFacts ==
    ASSUME NEW d, NEW t, NEW L, NEW q, NEW y, <<q, y>> \notin MissedAfter(d, t, L)
    PROVE  /\ y # t \/ (\A l \in L : d.ctx[l.slot].id # q) => <<q, y>> \notin missed
           /\ \A l \in L : d.ctx[l.slot].id = q /\ y = t
                             => Fate(d.ctx[l.slot], l.qos) # "dropped"
<1> DEFINE all == {<<d.ctx[leaf.slot].id, t>> : leaf \in L}
           lost == {<<d.ctx[leaf.slot].id, t>> : leaf \in
                        {l \in L : Fate(d.ctx[l.slot], l.qos) = "dropped"}}
<1>1. <<q, y>> \notin lost /\ (<<q, y>> \in missed => <<q, y>> \in all)
  BY DEF MissedAfter
<1>2. <<q, y>> \in all => y = t /\ \E l \in L : d.ctx[l.slot].id = q
  OBVIOUS
<1>3. \A l \in L : d.ctx[l.slot].id = q /\ y = t /\ Fate(d.ctx[l.slot], l.qos) = "dropped"
                     => <<q, y>> \in lost
  OBVIOUS
<1> HIDE DEF all, lost
<1> QED BY <1>1, <1>2, <1>3

\* A SUBSCRIBE is answered with the retained message, if there is one: it comes,
\* or the node is among those that missed it.
LEMMA SubscribeSettled ==
    ASSUME TypeInv, SessionInv, OrderInv, SettledInv, NEW n \in Node, NEW t \in Topic,
           NEW taken \in BOOLEAN, handle__subscribe(n, t, taken)
    PROVE  SettledInv'
<1> DEFINE s == link[n]
           k == Len(published)
           p == published
           qos == sub_qos[n]
           d == sub__add(db, s, t, qos)
           m == d.retained[t]
           e == retain__process(d, s, t, qos)
           f == db__message_write_inflight_out_latest(QueueOut(e, s), s)
           copy == {leaf \in d.leaves : /\ leaf.topic = t /\ leaf.slot = s
                                        /\ db.retained[t] # NoMessage}
<1>1. /\ db \in Databases(k) /\ k \in Nat /\ k <= MaxPublish /\ p \in Seq(Topic)
      /\ s \in Slot /\ qos \in {0, 1} /\ d \in Databases(k) /\ OnlyMessages(d, db', s)
  BY SubscribeType, LenProperties DEF TypeInv
<1>2. /\ db' = e \/ db' = f
      /\ s # NoSlot /\ UNCHANGED <<published, link, shows>>
      /\ asked' = [asked EXCEPT ![n] = @ \cup {t}]
      /\ missed' = MissedAfter(d, t, copy)
  BY DEF handle__subscribe, Requests, QueueOut
<1>3. db.ctx[s].state = "active" /\ db.ctx[s].id = n /\ n # NoId
  BY <1>2, BrokerAssumption DEF SessionInv, Linked
<1>4. Alike(sub_qos, db) /\ Retains(p, db) /\ InLine(p, db.ctx[s])
  BY <1>1 DEF OrderInv, Ordered
<1>5. SameLines(db, d) /\ Alike(sub_qos, d) /\ d.retained = db.retained
  <2>1. db.ctx[s].id # NoId /\ qos = sub_qos[db.ctx[s].id]
    BY <1>3
  <2>2. Alike(sub_qos, db) /\ db \in Databases(k) /\ s \in Slot
    BY <1>1, <1>4
  <2> HIDE DEF s, k, qos, p, m, e, f, copy
  <2> QED BY <2>1, <2>2, AddOrder
<1>6. /\ Listed(d)
      /\ \A r \in Slot : d.ctx[r].id = db.ctx[r].id
      /\ \A r \in Slot \ {s} : d.ctx[r].subs = db.ctx[r].subs
  <2>1. Listed(db) /\ Named(db) /\ db.ctx[s].id # NoId
    BY <1>3 DEF SessionInv
  <2> HIDE DEF s, k, qos
  <2> QED BY <1>1, <2>1, AddListed
<1>7. d.ctx[s].subs \subseteq db.ctx[s].subs \cup {t}
  BY <1>1, AddSubs
<1>8. CopyComes(d, e, s, m, qos) /\ CopyComes(d, f, s, m, qos)
  <2> HIDE DEF d, s, k, qos, m
  <2> QED BY <1>1, RetainedComes DEF m
<1> HIDE DEF e, f
<1>9. CopyComes(d, db', s, m, qos)
  BY <1>2, <1>8
<1> HIDE DEF d, s, k, qos
<1>10. /\ db'.retained = db.retained
       /\ \A r \in Slot \ {s} : db'.ctx[r] = d.ctx[r]
       /\ \A r \in Slot : db'.ctx[r].subs = d.ctx[r].subs
  <2>1. db'.ctx[s].subs = d.ctx[s].subs
    BY <1>1, SMTT(30) DEF OnlyMessages, Session
  <2> QED BY <1>1, <1>5, <2>1 DEF OnlyMessages
<1>11. \A r \in Slot : Carries(db.ctx[r], d.ctx[r])
  BY <1>5, CarriesFacts DEF SameLines
<1>12. /\ m = NoMessage => Carries(db.ctx[s], db'.ctx[s])
       /\ m # NoMessage => MayCome(db.ctx[s], db'.ctx[s], m)
  BY <1>1, <1>9, <1>11, CarriesFacts, MayComeFacts DEF CopyComes
<1>13. AllFresh(db')
  <2>1. Fresh(db.ctx[s]) => Fresh(db'.ctx[s])
    BY <1>12 DEF Carries, MayCome
  <2>2. \A r \in Slot \ {s} : Fresh(db.ctx[r]) => Fresh(db'.ctx[r])
    BY <1>10, <1>11 DEF Carries
  <2> QED BY <2>1, <2>2 DEF AllFresh, SettledInv
<1>14. asked' \in [Node -> SUBSET Topic] /\ asked \in [Node -> SUBSET Topic]
  BY <1>2 DEF SettledInv, Shown
<1>15. Shown'
  BY <1>2, <1>14 DEF SettledInv, Shown
<1>16. m # NoMessage => p[m] = t
  BY <1>4, <1>5 DEF Retains
<1>17. ASSUME NEW q \in Node, NEW y \in Topic, Subscribed(q, y)'
       PROVE  Served(published, db.retained[y], shows[q][y], y, db.ctx[link[q]])'
  <2> DEFINE r == db.retained[y]
             v == shows[q][y]
             c == db.ctx[link[q]]
             g == db'.ctx[link[q]]
  <2>1. /\ link[q] \in Slot /\ link[q] # NoSlot /\ link'[q] = link[q]
        /\ y \in asked'[q] /\ y \in g.subs /\ <<q, y>> \notin MissedAfter(d, t, copy)
    BY <1>2, <1>17 DEF Subscribed, TypeInv, Slot, NoSlot
  <2> SUFFICES Served(p, r, v, y, g)
    BY <1>2, <1>10, <2>1
  <2> HIDE DEF copy
  <2>2. /\ \A l \in copy : l \in d.leaves /\ l.topic = t /\ l.slot = s /\ d.ctx[l.slot].id = n
        /\ \A l \in d.leaves : l.topic = t /\ l.slot = s /\ m # NoMessage => l \in copy
    BY <1>1, <1>3, <1>5, <1>6 DEF copy
  <2>3. q # n \/ y # t => <<q, y>> \notin missed
    BY <2>1, <2>2, MissedFacts
  <2>4. CASE q # n
    <3>1. link[q] # s
      <4>1. db.ctx[link[q]].id = q
        BY <2>1 DEF SessionInv, Linked
      <4> QED BY <1>3, <2>4, <4>1
    <3>2. g = d.ctx[link[q]] /\ g.subs = c.subs /\ ToCome(g) = ToCome(c)
      BY <1>6, <1>10, <1>11, <2>1, <3>1 DEF Carries
    <3>3. y \in asked[q]
      BY <1>2, <1>14, <2>1, <2>4
    <3>4. Subscribed(q, y)
      BY <2>1, <2>3, <2>4, <3>2, <3>3 DEF Subscribed
    <3>5. Served(p, r, v, y, c)
      BY <3>4 DEF SettledInv
    <3> QED BY <3>2, <3>5, ServedStill
  <2>5. CASE q = n /\ y # t
    <3>1. link[q] = s /\ g = db'.ctx[s] /\ c = db.ctx[s]
      BY <2>5 DEF s
    <3>2. y \in asked[q]
      BY <1>2, <1>14, <2>1, <2>5
    <3>3. y \in c.subs
      BY <1>1, <1>7, <1>10, <2>1, <2>5, <3>1
    <3>4. Subscribed(q, y)
      BY <2>1, <2>3, <2>5, <3>2, <3>3 DEF Subscribed
    <3>5. Served(p, r, v, y, c)
      BY <3>4 DEF SettledInv
    <3>6. CASE m = NoMessage
      BY <1>12, <3>1, <3>5, <3>6, ServedStill DEF Carries
    <3>7. CASE m # NoMessage
      <4>1. MayCome(c, g, m) /\ p[m] # y
        BY <1>12, <1>16, <2>5, <3>1, <3>7
      <4> HIDE DEF c, g, r, v, p, m
      <4> QED BY <3>5, <4>1, ServedStill
    <3> QED BY <3>6, <3>7
  <2>6. CASE q = n /\ y = t
    <3>1. link[q] = s /\ g = db'.ctx[s] /\ c = db.ctx[s] /\ r = m
      BY <1>5, <2>6 DEF s
    <3>2. CASE m = NoMessage
      <4>1. \A x \in 1..Len(p) : p[x] # t
        BY <1>4, <1>5, <3>2 DEF Retains, NoMessage
      <4>2. ToCome(g) \subseteq 1..Len(p)
        BY <1>4, <1>12, <3>1, <3>2, ComingPublished DEF Carries
      <4>3. v = NoMessage
        <5>1. v \in 0..Len(p) /\ (v # NoMessage => p[v] = y)
          BY DEF SettledInv, Shown
        <5>2. v # NoMessage => v \in 1..Len(p)
          BY <1>1, <5>1 DEF NoMessage, k
        <5> QED BY <2>6, <4>1, <5>1, <5>2
      <4> QED BY <2>6, <3>1, <3>2, <4>1, <4>2, <4>3 DEF Served
    <3>3. CASE m # NoMessage
      <4>1. PICK l \in d.leaves : l.topic = t /\ l.slot = s
        BY <1>1, <1>6, <1>10, <2>1, <2>6, <3>1 DEF Listed
      <4>2. l \in copy /\ d.ctx[l.slot].id = n
        BY <2>2, <3>3, <4>1
      <4>3. Fate(d.ctx[s], l.qos) # "dropped"
        BY <2>1, <2>6, <4>1, <4>2, MissedFacts
      <4>4. l.qos = qos
        BY <1>3, <1>5, <4>1, <4>2 DEF Alike, qos
      <4>5. Welcome(d, s, m, qos, TRUE)
        BY <1>3, <4>1, <4>2, <4>3, <4>4 DEF Welcome
      <4>6. m \in ToCome(g)
        BY <1>9, <3>1, <3>3, <4>5 DEF CopyComes
      <4> QED BY <3>1, <4>6 DEF Served
    <3> QED BY <3>2, <3>3
  <2> QED BY <2>4, <2>5, <2>6
<1> QED BY <1>13, <1>15, <1>17 DEF SettledInv, AllFresh

-----------------------------------------------------------------------------
(* A publication, and every other step *)

\* Whoever has room gets the new message, and whoever has not is among those that
\* missed it; the other topics are as before.
LEMMA PublishSettled ==
    ASSUME TypeInv, SessionInv, OrderInv, StoreInv, SettledInv,
           NEW t \in Topic, handle__publish(t)
    PROVE  SettledInv'
<1> DEFINE n == Len(published)
           k == n + 1
           p == published
           w == Append(p, t)
           L == Subscribers(db, t)
<1>1. /\ n < MaxPublish /\ published' = w /\ missed' = MissedAfter(db, t, L)
      /\ db' = sub__messages_queue(db__message_store(db, k), t, k)
      /\ UNCHANGED <<link, asked, shows>>
  BY DEF handle__publish
<1>2. /\ n \in Nat /\ p \in Seq(Topic) /\ db \in Databases(n) /\ IsFiniteSet(db.leaves)
      /\ link \in [Node -> 0..Slots]
  BY LenProperties DEF TypeInv
<1>3. k \in Message /\ k \in 1..k
  BY <1>1, <1>2, BrokerAssumption DEF Message
<1>4. /\ Len(w) = k /\ w[k] = t /\ \A m \in 1..n : w[m] = p[m] /\ m # k
  BY <1>2
<1> HIDE DEF L
<1>5. QueuedTo(db, db', t, k)
  <2>1. Counted(db) /\ Listed(db) /\ Named(db)
    BY DEF StoreInv, SessionInv
  <2> HIDE DEF n
  <2>2. QueuedTo(db, sub__messages_queue(db__message_store(db, n + 1), t, n + 1), t, n + 1)
    BY <1>2, <1>3, <2>1, QueuedComes
  <2> QED BY <1>1, <2>2
<1>6. \A s \in Slot : db'.ctx[s].subs = db.ctx[s].subs
  BY PublishType DEF SessionsStay, Session
<1>7. /\ db.retained \in [Topic -> 0..n] /\ db'.retained[t] = k
      /\ \A y \in Topic \ {t} : db'.retained[y] = db.retained[y]
  <2> DEFINE a == db__message_store(db, k)
  <2>1. a \in Databases(k) /\ a.leaves = db.leaves
    BY <1>2, StoreType
  <2>2. a.retained = db.retained /\ db.retained \in [Topic -> 0..n]
    BY <1>2 DEF db__message_store, Databases
  <2>3. k \in Nat /\ k <= MaxPublish
    BY <1>1, <1>2, BrokerAssumption
  <2> HIDE DEF a, k, n
  <2>4. sub__messages_queue(a, t, k).retained = [a.retained EXCEPT ![t] = k]
    BY <1>2, <1>3, <2>1, <2>3, QueuedRetains
  <2> QED BY <1>1, <2>2, <2>4 DEF a
<1> HIDE DEF n, k, p, w
<1>8. AllFresh(db')
  BY <1>5 DEF QueuedTo, MayCome, AllFresh, SettledInv
<1>9. Shown'
  <2>1. /\ asked' \in [Node -> SUBSET Topic]
        /\ shows' \in [Node -> [Topic -> 0..n]] /\ 0..n \subseteq 0..k
    BY <1>1, <1>2 DEF SettledInv, Shown, n, k
  <2>2. shows' \in [Node -> [Topic -> 0..Len(published')]]
    BY <1>1, <1>4, <2>1
  <2>3. ASSUME NEW q \in Node, NEW y \in Topic, shows'[q][y] # NoMessage
        PROVE  published'[shows'[q][y]] = y
    <3>1. shows[q][y] \in 0..n /\ p[shows[q][y]] = y
      BY <1>1, <2>3 DEF SettledInv, Shown, n, p
    <3>2. shows[q][y] \in 1..n
      BY <1>1, <1>2, <2>3, <3>1 DEF NoMessage
    <3> QED BY <1>1, <1>4, <3>1, <3>2
  <2> QED BY <2>1, <2>2, <2>3 DEF Shown
<1>10. ASSUME NEW q \in Node, NEW y \in Topic, Subscribed(q, y)'
       PROVE  Served(published, db.retained[y], shows[q][y], y, db.ctx[link[q]])'
  <2> DEFINE v == shows[q][y]
             s == link[q]
             c == db.ctx[s]
             g == db'.ctx[s]
  <2>1. s \in Slot /\ s # NoSlot /\ y \in asked[q] /\ y \in c.subs
        /\ <<q, y>> \notin MissedAfter(db, t, L)
    <3>1. s \in Slot /\ s # NoSlot
      BY <1>1, <1>2, <1>10 DEF Subscribed, Slot, NoSlot
    <3> QED BY <1>1, <1>6, <1>10, <3>1 DEF Subscribed
  <2>2. c.id = q /\ q # NoId
    BY <2>1, BrokerAssumption DEF SessionInv, Linked
  <2>3. MayCome(c, g, k)
    BY <1>5, <2>1 DEF QueuedTo
  <2> SUFFICES Served(w, db'.retained[y], v, y, g)
    BY <1>1
  <2>4. CASE y # t
    <3>1. Subscribed(q, y)
      <4>1. <<q, y>> \notin missed
        BY <2>1, <2>4, MissedFacts
      <4> QED BY <2>1, <4>1 DEF Subscribed
    <3>2. Served(p, db.retained[y], v, y, c)
      BY <3>1 DEF SettledInv, p
    <3>3. ToCome(c) \subseteq 1..n
      <4>1. InLine(p, c)
        BY <2>1 DEF OrderInv, Ordered, p
      <4> QED BY <4>1, ComingPublished DEF n, p
    <3>4. Served(w, db.retained[y], v, y, c)
      BY <1>4, <3>2, <3>3 DEF Served
    <3>5. w[k] # y
      BY <1>4, <2>4
    <3> HIDE DEF c, g, v
    <3>6. Served(w, db.retained[y], v, y, g)
      BY <2>3, <3>4, <3>5, ServedStill
    <3> QED BY <1>7, <2>4, <3>6
  <2>5. CASE y = t
    <3>1. PICK l \in db.leaves : l.topic = t /\ l.slot = s
      BY <2>1, <2>5 DEF SessionInv, Listed
    <3>2. l \in L
      BY <2>2, <3>1 DEF L, Subscribers
    <3>3. Fate(db.ctx[l.slot], l.qos) # "dropped"
      BY <2>1, <2>2, <2>5, <3>1, <3>2, MissedFacts
    <3>4. k \in ToCome(g)
      BY <1>5, <3>1, <3>2, <3>3 DEF QueuedTo, L
    <3> QED BY <1>7, <2>5, <3>4 DEF Served
  <2> QED BY <2>4, <2>5
<1> QED BY <1>8, <1>9, <1>10 DEF SettledInv, AllFresh

LEMMA SettledStep ==
    ASSUME TypeInv, SessionInv, QuotaInv, OrderInv, StoreInv, SettledInv, [BrokerNext]_vars
    PROVE  SettledInv'
<1>1. CASE context__free_disused
  BY <1>1, FreedSettled
<1>2. ASSUME NEW t \in Topic, handle__publish(t) PROVE SettledInv'
  BY <1>2, PublishSettled
<1>3. ASSUME NEW s \in Slot, handle__pubackcomp(s) PROVE SettledInv'
  BY <1>3, PubackSettled
<1>4. ASSUME NEW s \in Slot, keepalive__check(s) PROVE SettledInv'
  <2>1. db' = do_disconnect(db, s) /\ UNCHANGED <<published, shows, asked, missed, link>>
    BY <1>4 DEF keepalive__check
  <2>2. ASSUME NEW m \in Node, link'[m] # NoSlot PROVE link'[m] = link[m] /\ link[m] # s
    <3>1. link[db.ctx[s].id] # s
      BY <1>4 DEF keepalive__check
    <3>2. link'[m] = link[m] /\ db.ctx[link[m]].id = m
      BY <2>1, <2>2 DEF SessionInv, Linked
    <3> QED BY <3>1, <3>2
  <2> QED BY <2>1, <2>2, EndSettled
<1>5. ASSUME NEW n \in Node, NEW clean \in BOOLEAN, handle__connect(n, clean) PROVE SettledInv'
  BY <1>5, ConnectSettled
<1>6. ASSUME NEW n \in Node, NEW t \in Topic, NEW taken \in BOOLEAN,
             handle__subscribe(n, t, taken)
      PROVE  SettledInv'
  BY <1>6, SubscribeSettled
<1>7. ASSUME NEW n \in Node, NEW t \in Topic, handle__unsubscribe(n, t) PROVE SettledInv'
  BY <1>7, UnsubscribeSettled
<1>8. ASSUME NEW n \in Node, handle__disconnect(n) PROVE SettledInv'
  <2>1. /\ link[n] \in Slot /\ link[n] # NoSlot /\ db' = do_disconnect(db, link[n])
        /\ link' = [link EXCEPT ![n] = NoSlot] /\ link \in [Node -> 0..Slots]
        /\ UNCHANGED <<published, shows, asked, missed>>
    BY <1>8, DisconnectedType DEF handle__disconnect, Requests, TypeInv
  <2>2. ASSUME NEW m \in Node, link'[m] # NoSlot PROVE link'[m] = link[m] /\ link[m] # link[n]
    <3>1. m # n /\ link'[m] = link[m]
      BY <2>1, <2>2
    <3>2. db.ctx[link[m]].id = m /\ db.ctx[link[n]].id = n
      BY <2>1, <2>2, <3>1 DEF SessionInv, Linked
    <3> QED BY <3>1, <3>2
  <2> QED BY <2>1, <2>2, EndSettled
<1>9. ASSUME NEW n \in Node, NodeReceives(n) PROVE SettledInv'
  BY <1>9, ReceivesSettled
<1>10. ASSUME NEW n \in Node, LinkLost(n) PROVE SettledInv'
  BY <1>10, LostSettled
<1>11. CASE UNCHANGED vars
  BY <1>11 DEF vars, SettledInv, Shown, Subscribed
<1> QED BY <1>1, <1>2, <1>3, <1>4, <1>5, <1>6, <1>7, <1>8, <1>9, <1>10, <1>11 DEF BrokerNext

\* What is to come to a client has its place in the line.
LEMMA ComingInLine ==
    ASSUME NEW s \in Slot, db.ctx[s] \in Context, Fresh(db.ctx[s]),
           NEW m \in ToCome(db.ctx[s])
    PROVE  \E i \in DOMAIN Line(s) : Line(s)[i].state # "wait" /\ Line(s)[i].msg = m
<1> DEFINE c == db.ctx[s]
           a == c.out
           b == c.inflight
           q == c.queued
           w == a \o (b \o q)
           A == Len(a)
           B == Len(b)
           Q == Len(q)
<1>1. /\ a \in Seq(Item) /\ b \in Seq(Item) /\ q \in Seq(Item)
      /\ A \in Nat /\ B \in Nat /\ Q \in Nat
  BY LenProperties DEF Context
<1>2. Line(s) = w
  BY DEF Line, Pending
<1>3. /\ \A i \in 1..A : a[i].state # "wait"
      /\ \A i \in 1..Q : q[i].state # "wait"
  BY DEF Fresh, Unsent
<1>4. \/ \E i \in 1..A : a[i].msg = m
      \/ \E i \in 1..B : b[i].state # "wait" /\ b[i].msg = m
      \/ \E i \in 1..Q : q[i].msg = m
  BY DEF ToCome, Msgs, UnsentMsgs
<1> HIDE DEF a, b, q, A, B, Q
<1>5. b \o q \in Seq(Item) /\ Len(b \o q) = B + Q
  BY <1>1, ConcatProperties DEF B, Q
<1>6. DOMAIN w = 1..(A + (B + Q))
  BY <1>1, <1>5, ConcatProperties, LenProperties DEF A
<1>7. \A x \in 1..(B + Q) : (b \o q)[x] = IF x <= B THEN b[x] ELSE q[x - B]
  BY <1>1, ConcatProperties DEF B, Q
<1>8. \A x \in 1..(A + (B + Q)) : w[x] = IF x <= A THEN a[x] ELSE (b \o q)[x - A]
  BY <1>1, <1>5, ConcatProperties DEF A
<1> HIDE DEF w
<1>9. CASE \E i \in 1..A : a[i].msg = m
  <2>1. PICK i \in 1..A : a[i].msg = m
    BY <1>9
  <2>2. i \in DOMAIN w /\ w[i] = a[i]
    BY <1>1, <1>6, <1>8
  <2> QED BY <1>2, <1>3, <2>1, <2>2
<1>10. CASE \E i \in 1..B : b[i].state # "wait" /\ b[i].msg = m
  <2>1. PICK i \in 1..B : b[i].state # "wait" /\ b[i].msg = m
    BY <1>10
  <2>2. i + A \in DOMAIN w /\ ~(i + A <= A) /\ (i + A) - A = i /\ i \in 1..(B + Q) /\ i <= B
    BY <1>1, <1>6
  <2>3. w[i + A] = b[i]
    BY <1>6, <1>7, <1>8, <2>2
  <2> QED BY <1>2, <2>1, <2>2, <2>3
<1>11. CASE \E i \in 1..Q : q[i].msg = m
  <2>1. PICK i \in 1..Q : q[i].msg = m
    BY <1>11
  <2> DEFINE j == i + B
             k == j + A
  <2>2. k \in DOMAIN w /\ ~(k <= A) /\ k - A = j /\ j \in 1..(B + Q) /\ ~(j <= B) /\ j - B = i
    BY <1>1, <1>6
  <2> HIDE DEF j, k
  <2>3. w[k] = q[i]
    BY <1>6, <1>7, <1>8, <2>2
  <2> QED BY <1>2, <1>3, <2>1, <2>2, <2>3
<1> QED BY <1>4, <1>9, <1>10, <1>11

LEMMA SettledFacts == TypeInv /\ OrderInv /\ SettledInv => SettledNodesShowRetained
<1> SUFFICES ASSUME TypeInv, OrderInv, SettledInv, NEW n \in Node, NEW t \in Topic,
                    Subscribed(n, t), Coming(link[n], t) = {}
             PROVE  shows[n][t] = db.retained[t]
  BY DEF SettledNodesShowRetained
<1> DEFINE s == link[n]
           r == db.retained[t]
           c == db.ctx[s]
<1>1. s \in Slot /\ db \in Databases(Len(published))
  BY DEF Subscribed, TypeInv, Slot, NoSlot
<1>2. c \in Context /\ InLine(published, c) /\ Fresh(c) /\ Retains(published, db)
  BY <1>1 DEF Databases, OrderInv, Ordered, SettledInv, AllFresh
<1>3. Served(published, r, shows[n][t], t, c)
  BY DEF SettledInv
<1>4. r \notin ToCome(c)
  <2> SUFFICES ASSUME r \in ToCome(c) PROVE FALSE
    OBVIOUS
  <2>1. r \in 1..Len(published)
    BY <1>2, ComingPublished
  <2>2. published[r] = t
    BY <1>2, <2>1 DEF Retains, NoMessage
  <2> HIDE DEF s, r
  <2>3. PICK i \in DOMAIN Line(s) : Line(s)[i].state # "wait" /\ Line(s)[i].msg = r
    BY <1>1, <1>2, ComingInLine
  <2>4. i \in Coming(s, t)
    BY <2>2, <2>3 DEF Coming
  <2> QED BY <2>4 DEF s
<1> QED BY <1>3, <1>4 DEF Served

(* A node that has subscribed to a topic on its connection, was not dropped a
   message of it and to which nothing of it is on its way shows the message the
   broker retains: handle__subscribe queues the retained copy, subs__send offers
   each publication to the one leaf of the client and skips the client only if it
   was given the message already, db__message_insert puts it in flight or in the
   queue, the loops that write messages lose none of them, a PUBACK takes out only
   what has been sent, and what a new connection inherits is followed by what its
   own SUBSCRIBE is answered with. *)
THEOREM SettledNodesAlwaysShowRetained == BrokerSpec => []SettledNodesShowRetained
<1>1. BrokerInit => TypeInv /\ SessionInv /\ QuotaInv /\ OrderInv /\ StoreInv /\ SettledInv
  BY TypeInit, SessionInit, QuotaInit, OrderInit, StoreInit, SettledInit
<1>2. TypeInv /\ SessionInv /\ QuotaInv /\ OrderInv /\ StoreInv /\ SettledInv /\ [BrokerNext]_vars
        => TypeInv' /\ SessionInv' /\ QuotaInv' /\ OrderInv' /\ StoreInv' /\ SettledInv'
  BY TypeStep, SessionStep, QuotaStep, OrderStep, StoreStep, SettledStep
<1>3. TypeInv /\ OrderInv /\ SettledInv => SettledNodesShowRetained
  BY SettledFacts
<1> QED BY <1>1, <1>2, <1>3, PTL DEF BrokerSpec
================================================================================
