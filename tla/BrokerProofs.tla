----------------------------- MODULE BrokerProofs ------------------------------
(***************************************************************************)
(* Proofs about the broker, for every number of contexts and nodes and for *)
(* every setting of its limits: the types, the agreement between the       *)
(* subscription tree and the contexts' own lists of subscriptions, the     *)
(* agreement between a session's quota and what it has in flight, which    *)
(* rests on where the nodes' PUBACKs may come from, and that packet        *)
(* identifiers in use differ.                                              *)
(***************************************************************************)
EXTENDS Broker, SequenceTheorems, FiniteSetTheorems, WellFoundedInduction, TLAPS

Numbers == INSTANCE ScheduleTextProofs

-----------------------------------------------------------------------------
(* What the broker's state consists of, when n messages have been published *)

Leaf == [topic : Topic, slot : Slot, qos : {0, 1}]
ContextState == {"free", "active", "disconnected", "disused"}
Context == [state : ContextState, id : Node \cup {NoId}, clean : BOOLEAN,
            subs : SUBSET Topic, inflight : Seq(Item), queued : Seq(Item),
            quota : 0..InflightMax, last_mid : Mid, out : Seq(Item)]
StoredMessage == [ref : Int, dest : SUBSET (Node \cup {NoId})]
Stores(n) == UNION {[A -> StoredMessage] : A \in SUBSET (1..n)}
Databases(n) == [ctx : [Slot -> Context], leaves : SUBSET Leaf,
                 store : Stores(n), retained : [Topic -> 0..n]]

LEMMA MidFacts ==
    /\ 0 \in Mid
    /\ \A m \in Mid : mosquitto__mid_generate(m) \in Mid /\ mosquitto__mid_generate(m) # 0
<1>1. PICK N \in Nat : N = 65535
  OBVIOUS
<1>2. Mid = 0..N /\ N > 0
  BY <1>1 DEF Mid
<1>3. \A m : mosquitto__mid_generate(m) = IF m = N THEN 1 ELSE m + 1
  BY <1>1 DEF mosquitto__mid_generate
<1>4. \A m \in 0..N : m + 1 # 0 /\ (m # N => m + 1 \in 0..N)
  OBVIOUS
<1>5. 0 \in 0..N /\ 1 \in 0..N
  BY <1>2
<1> QED BY <1>2, <1>3, <1>4, <1>5

LEMMA ItemFacts ==
    /\ \A m \in 1..MaxPublish, mid \in Mid, qos \in {0, 1}, retain \in BOOLEAN,
          state \in {"publish", "queued"} :
            [msg |-> m, mid |-> mid, qos |-> qos, retain |-> retain, state |-> state] \in Item
    /\ \A item \in Item :
        /\ item.msg \in 1..MaxPublish /\ item.qos \in {0, 1}
        /\ [item EXCEPT !.state = "publish"] \in Item
        /\ [item EXCEPT !.state = "wait"] \in Item
  BY DEF Item

\* A context may be replaced by any other.
LEMMA ContextReplaced ==
    ASSUME NEW n, NEW d \in Databases(n), NEW s \in Slot, NEW c \in Context
    PROVE  /\ [d EXCEPT !.ctx[s] = c] \in Databases(n)
           /\ [d EXCEPT !.ctx[s] = c].ctx[s] = c
           /\ \A r \in Slot \ {s} : [d EXCEPT !.ctx[s] = c].ctx[r] = d.ctx[r]
           /\ [d EXCEPT !.ctx[s] = c].leaves = d.leaves
           /\ [d EXCEPT !.ctx[s] = c].store = d.store
           /\ [d EXCEPT !.ctx[s] = c].retained = d.retained
  BY DEF Databases

\* What a context is to its client, its messages apart
Session(c) == <<c.state, c.id, c.clean, c.subs>>

\* From d to e nothing has changed but messages, of context s only.
OnlyMessages(d, e, s) ==
    /\ e.leaves = d.leaves /\ e.retained = d.retained
    /\ \A r \in Slot \ {s} : e.ctx[r] = d.ctx[r]
    /\ Session(e.ctx[s]) = Session(d.ctx[s])

LEMMA OnlyMessagesTransitive ==
    ASSUME NEW d, NEW e, NEW f, NEW s, OnlyMessages(d, e, s), OnlyMessages(e, f, s)
    PROVE  OnlyMessages(d, f, s)
  BY DEF OnlyMessages

LEMMA OnlyMessagesReflexive == \A d, s : OnlyMessages(d, d, s)
  BY DEF OnlyMessages

LEMMA RefChanged ==
    ASSUME NEW n, NEW d \in Databases(n), NEW m
    PROVE  /\ [d.store EXCEPT ![m].ref = @ + 1] \in Stores(n)
           /\ [d.store EXCEPT ![m].ref = @ - 1] \in Stores(n)
<1>1. PICK A \in SUBSET (1..n) : d.store \in [A -> StoredMessage]
  BY DEF Databases, Stores
<1>2. \A x \in StoredMessage : [x EXCEPT !.ref = @ + 1] \in StoredMessage
                             /\ [x EXCEPT !.ref = @ - 1] \in StoredMessage
  BY DEF StoredMessage
<1> HIDE DEF StoredMessage
<1>3. /\ [d.store EXCEPT ![m].ref = @ + 1] \in [A -> StoredMessage]
      /\ [d.store EXCEPT ![m].ref = @ - 1] \in [A -> StoredMessage]
  BY <1>1, <1>2
<1> QED BY <1>1, <1>3 DEF Stores

\* Reference counting leaves the rest alone.
LEMMA RefInc ==
    ASSUME NEW n, NEW d \in Databases(n), NEW m
    PROVE  /\ db__msg_store_ref_inc(d, m) \in Databases(n)
           /\ db__msg_store_ref_inc(d, m).ctx = d.ctx
           /\ db__msg_store_ref_inc(d, m).leaves = d.leaves
           /\ db__msg_store_ref_inc(d, m).retained = d.retained
<1>1. [d.store EXCEPT ![m].ref = @ + 1] \in Stores(n)
  BY RefChanged
<1>2. db__msg_store_ref_inc(d, m) = [d EXCEPT !.store = [d.store EXCEPT ![m].ref = @ + 1]]
  BY DEF db__msg_store_ref_inc, Databases
<1> QED BY <1>1, <1>2 DEF Databases

LEMMA RefDec ==
    ASSUME NEW n, NEW d \in Databases(n), NEW m
    PROVE  /\ db__msg_store_ref_dec(d, m) \in Databases(n)
           /\ db__msg_store_ref_dec(d, m).ctx = d.ctx
           /\ db__msg_store_ref_dec(d, m).leaves = d.leaves
           /\ db__msg_store_ref_dec(d, m).retained = d.retained
<1>1. [k \in DOMAIN d.store \ {m} |-> d.store[k]] \in Stores(n)
  <2>1. PICK A \in SUBSET (1..n) : d.store \in [A -> StoredMessage]
    BY DEF Databases, Stores
  <2>2. [k \in DOMAIN d.store \ {m} |-> d.store[k]] \in [A \ {m} -> StoredMessage]
    BY <2>1
  <2> QED BY <2>2 DEF Stores
<1>2. [d.store EXCEPT ![m].ref = @ - 1] \in Stores(n)
  BY RefChanged
<1>3. \/ db__msg_store_ref_dec(d, m)
           = [d EXCEPT !.store = [k \in DOMAIN d.store \ {m} |-> d.store[k]]]
      \/ db__msg_store_ref_dec(d, m) = [d EXCEPT !.store = [d.store EXCEPT ![m].ref = @ - 1]]
  BY DEF db__msg_store_ref_dec, Databases
<1> QED BY <1>1, <1>2, <1>3 DEF Databases

-----------------------------------------------------------------------------
(* Messages in flight *)

LEMMA ContextChanges ==
    ASSUME NEW c \in Context
    PROVE  /\ \A o \in Seq(Item) :
               /\ [c EXCEPT !.out = o] \in Context
               /\ Session([c EXCEPT !.out = o]) = Session(c)
           /\ \A o \in Seq(Item) :
               /\ [c EXCEPT !.inflight = o] \in Context
               /\ Session([c EXCEPT !.inflight = o]) = Session(c)
           /\ \A o \in Seq(Item) :
               /\ [c EXCEPT !.queued = o] \in Context
               /\ Session([c EXCEPT !.queued = o]) = Session(c)
           /\ \A q \in 0..InflightMax :
               /\ [c EXCEPT !.quota = q] \in Context
               /\ Session([c EXCEPT !.quota = q]) = Session(c)
           /\ \A m \in Mid :
               /\ [c EXCEPT !.last_mid = m] \in Context
               /\ Session([c EXCEPT !.last_mid = m]) = Session(c)
  BY DEF Context, Session

\* Context s with its session as it was in d
LEMMA MessagesReplaced ==
    ASSUME NEW n, NEW d \in Databases(n), NEW s \in Slot, NEW c \in Context,
           Session(c) = Session(d.ctx[s])
    PROVE  /\ [d EXCEPT !.ctx[s] = c] \in Databases(n)
           /\ OnlyMessages(d, [d EXCEPT !.ctx[s] = c], s)
  BY ContextReplaced DEF OnlyMessages

LEMMA InflightAppended ==
    ASSUME NEW n, NEW d \in Databases(n), NEW s \in Slot, NEW item \in Item
    PROVE  /\ [d EXCEPT !.ctx[s].inflight = Append(@, item)] \in Databases(n)
           /\ OnlyMessages(d, [d EXCEPT !.ctx[s].inflight = Append(@, item)], s)
<1>1. d.ctx[s] \in Context
  BY DEF Databases
<1>2. Append(d.ctx[s].inflight, item) \in Seq(Item)
  BY <1>1, AppendProperties DEF Context
<1> QED BY <1>1, <1>2, ContextChanges, MessagesReplaced DEF Databases

LEMMA SentAppended ==
    ASSUME NEW n, NEW d \in Databases(n), NEW s \in Slot, NEW item \in Item
    PROVE  /\ [d EXCEPT !.ctx[s].out = Append(@, item)] \in Databases(n)
           /\ OnlyMessages(d, [d EXCEPT !.ctx[s].out = Append(@, item)], s)
<1>1. d.ctx[s] \in Context
  BY DEF Databases
<1>2. Append(d.ctx[s].out, item) \in Seq(Item)
  BY <1>1, AppendProperties DEF Context
<1> QED BY <1>1, <1>2, ContextChanges, MessagesReplaced DEF Databases

LEMMA SingleWritten ==
    ASSUME NEW n, NEW d \in Databases(n), NEW s \in Slot, NEW item \in Item
    PROVE  /\ db__message_write_inflight_out_single(d, s, item) \in Databases(n)
           /\ OnlyMessages(d, db__message_write_inflight_out_single(d, s, item), s)
<1> DEFINE e == db__message_write_inflight_out_single(d, s, item)
           sent == [d EXCEPT !.ctx[s].out = Append(@, item)]
           Keep(x, kept) == [x EXCEPT !.ctx[s].inflight = Append(@, kept)]
           waiting == [item EXCEPT !.state = "wait"]
<1> SUFFICES e \in Databases(n) /\ OnlyMessages(d, e, s)
  OBVIOUS
<1>1. sent \in Databases(n) /\ OnlyMessages(d, sent, s) /\ waiting \in Item
  BY SentAppended, ItemFacts
<1>2. e = Keep(d, item) \/ e = db__msg_store_ref_dec(sent, item.msg) \/ e = Keep(sent, waiting)
  BY DEF db__message_write_inflight_out_single
<1> HIDE DEF sent, e, waiting
<1>3. CASE e = Keep(d, item)
  BY <1>3, InflightAppended
<1>4. CASE e = db__msg_store_ref_dec(sent, item.msg)
  BY <1>1, <1>4, RefDec DEF OnlyMessages
<1>5. CASE e = Keep(sent, waiting)
  BY <1>1, <1>5, InflightAppended, OnlyMessagesTransitive
<1> QED BY <1>2, <1>3, <1>4, <1>5

\* What becomes of an item of the list of c, which is then e
Passed(c, item, e) ==
    /\ e \in Context /\ Session(e) = Session(c) /\ e.queued = c.queued /\ e.quota = c.quota
    /\ e.last_mid = c.last_mid
    /\ \/ e.inflight = Append(c.inflight, item) /\ e.out = c.out
       \/ /\ item.state = "publish" /\ item.qos = 0
          /\ e.inflight = c.inflight /\ e.out = Append(c.out, item)
       \/ /\ item.state = "publish" /\ item.qos # 0
          /\ e.inflight = Append(c.inflight, [item EXCEPT !.state = "wait"])
          /\ e.out = Append(c.out, item)

\* The pass of the loop over the list that looks at its k-th item
Pass(e, s, i, k, item) ==
    IF k < i THEN [e EXCEPT !.ctx[s].inflight = Append(@, item)]
    ELSE db__message_write_inflight_out_single(e, s, item)

Emptied(d, s) == [d EXCEPT !.ctx[s].inflight = <<>>]

LEMMA EmptiedType ==
    ASSUME NEW n, NEW d \in Databases(n), NEW s \in Slot
    PROVE  /\ Emptied(d, s) \in Databases(n) /\ OnlyMessages(d, Emptied(d, s), s)
           /\ Emptied(d, s).ctx[s] = [d.ctx[s] EXCEPT !.inflight = <<>>]
           /\ [d.ctx[s] EXCEPT !.inflight = <<>>] \in Context
<1>1. d.ctx[s] \in Context /\ <<>> \in Seq(Item)
  BY EmptySeq DEF Databases
<1>2. Emptied(d, s) = [d EXCEPT !.ctx[s] = [d.ctx[s] EXCEPT !.inflight = <<>>]]
  BY DEF Emptied, Databases
<1> HIDE DEF Emptied
<1>3. /\ [d.ctx[s] EXCEPT !.inflight = <<>>] \in Context
      /\ Session([d.ctx[s] EXCEPT !.inflight = <<>>]) = Session(d.ctx[s])
  BY <1>1, ContextChanges
<1> QED BY <1>2, <1>3, MessagesReplaced, ContextReplaced

LEMMA PassDoes ==
    ASSUME NEW n, NEW d \in Databases(n), NEW s \in Slot, NEW i, NEW k, NEW item \in Item
    PROVE  /\ Pass(d, s, i, k, item) \in Databases(n)
           /\ OnlyMessages(d, Pass(d, s, i, k, item), s)
           /\ Passed(d.ctx[s], item, Pass(d, s, i, k, item).ctx[s])
           /\ k < i \/ item.state # "publish"
              \/ Pass(d, s, i, k, item).ctx[s].out = Append(d.ctx[s].out, item)
<1> DEFINE c == d.ctx[s]
           e == Pass(d, s, i, k, item)
           one == [c EXCEPT !.inflight = Append(c.inflight, item)]
           kept == [d EXCEPT !.ctx[s] = one]
           given == [c EXCEPT !.out = Append(c.out, item)]
           sent == [d EXCEPT !.ctx[s] = given]
           w == [item EXCEPT !.state = "wait"]
           waits == [given EXCEPT !.inflight = Append(c.inflight, w)]
           held == [d EXCEPT !.ctx[s] = waits]
<1>1. c \in Context /\ w \in Item /\ item.qos \in {0, 1}
  BY ItemFacts DEF Databases
<1>2. /\ Append(c.inflight, item) \in Seq(Item) /\ Append(c.out, item) \in Seq(Item)
      /\ Append(c.inflight, w) \in Seq(Item)
  BY <1>1, AppendProperties DEF Context
<1>3. /\ one \in Context /\ Session(one) = Session(c)
      /\ one.queued = c.queued /\ one.quota = c.quota /\ one.last_mid = c.last_mid
      /\ one.out = c.out /\ one.inflight = Append(c.inflight, item)
  BY <1>1, <1>2, ContextChanges DEF Context
<1>4. /\ given \in Context /\ Session(given) = Session(c)
      /\ given.queued = c.queued /\ given.quota = c.quota /\ given.last_mid = c.last_mid
      /\ given.inflight = c.inflight /\ given.out = Append(c.out, item)
  BY <1>1, <1>2, ContextChanges DEF Context
<1>5. /\ waits \in Context /\ Session(waits) = Session(c)
      /\ waits.queued = c.queued /\ waits.quota = c.quota /\ waits.last_mid = c.last_mid
      /\ waits.inflight = Append(c.inflight, w) /\ waits.out = Append(c.out, item)
  <2> HIDE DEF given, c
  <2> QED BY <1>2, <1>4, ContextChanges DEF Context
<1>6. /\ [d EXCEPT !.ctx[s].inflight = Append(@, item)] = kept
      /\ [d EXCEPT !.ctx[s].out = Append(@, item)] = sent
      /\ [sent EXCEPT !.ctx[s].inflight = Append(@, w)] = held
  BY <1>1 DEF Databases, Context
<1>7. \/ e = kept /\ (k < i \/ item.state # "publish")
      \/ item.state = "publish" /\ item.qos = 0 /\ e = db__msg_store_ref_dec(sent, item.msg)
      \/ item.state = "publish" /\ item.qos # 0 /\ e = held
  <2> HIDE DEF kept, held, sent
  <2>1. CASE k < i
    BY <1>6, <2>1 DEF Pass
  <2>2. CASE ~(k < i) /\ item.state # "publish"
    BY <1>6, <2>2 DEF Pass, db__message_write_inflight_out_single
  <2>3. CASE ~(k < i) /\ item.state = "publish" /\ item.qos = 0
    BY <1>6, <2>3 DEF Pass, db__message_write_inflight_out_single
  <2>4. CASE ~(k < i) /\ item.state = "publish" /\ item.qos # 0
    BY <1>6, <2>4 DEF Pass, db__message_write_inflight_out_single
  <2> QED BY <2>1, <2>2, <2>3, <2>4
<1> HIDE DEF one, given, waits, e
<1>8. kept \in Databases(n) /\ OnlyMessages(d, kept, s) /\ kept.ctx[s] = one
  <2>1. kept \in Databases(n) /\ OnlyMessages(d, kept, s)
    BY <1>3, MessagesReplaced
  <2>2. kept \in Databases(n) /\ kept.ctx[s] = one
    BY <1>3, ContextReplaced
  <2> QED BY <2>1, <2>2
<1>9. sent \in Databases(n) /\ OnlyMessages(d, sent, s) /\ sent.ctx[s] = given
  <2>1. sent \in Databases(n) /\ OnlyMessages(d, sent, s)
    BY <1>4, MessagesReplaced
  <2>2. sent \in Databases(n) /\ sent.ctx[s] = given
    BY <1>4, ContextReplaced
  <2> QED BY <2>1, <2>2
<1>10. held \in Databases(n) /\ OnlyMessages(d, held, s) /\ held.ctx[s] = waits
  <2>1. held \in Databases(n) /\ OnlyMessages(d, held, s)
    BY <1>5, MessagesReplaced
  <2>2. held \in Databases(n) /\ held.ctx[s] = waits
    BY <1>5, ContextReplaced, SMTT(30)
  <2> QED BY <2>1, <2>2
<1> HIDE DEF kept, sent, held
<1>11. LET x == db__msg_store_ref_dec(sent, item.msg)
       IN  x \in Databases(n) /\ OnlyMessages(d, x, s) /\ x.ctx[s] = given
  BY <1>9, RefDec DEF OnlyMessages
<1>12. CASE e = kept /\ (k < i \/ item.state # "publish")
  BY <1>3, <1>8, <1>12 DEF e, Passed
<1>13. CASE item.state = "publish" /\ item.qos = 0 /\ e = db__msg_store_ref_dec(sent, item.msg)
  <2>1. e.ctx[s].out = Append(c.out, item)
    BY <1>4, <1>11, <1>13
  <2>2. Passed(c, item, e.ctx[s])
    BY <1>4, <1>11, <1>13, SMTT(30) DEF Passed
  <2> QED BY <1>11, <1>13, <2>1, <2>2 DEF e
<1>14. CASE item.state = "publish" /\ item.qos # 0 /\ e = held
  <2>1. e.ctx[s].out = Append(c.out, item)
    BY <1>5, <1>10, <1>14
  <2>2. Passed(c, item, e.ctx[s])
    BY <1>5, <1>10, <1>14 DEF Passed
  <2> QED BY <1>10, <1>14, <2>1, <2>2 DEF e
<1> QED BY <1>7, <1>12, <1>13, <1>14

\* The loop over the list, pass by pass
Passes(d, s, i, w) ==
    LET list == d.ctx[s].inflight
    IN  /\ w[0] = Emptied(d, s)
        /\ \A k \in 1..Len(list) : w[k] = Pass(w[k - 1], s, i, k, list[k])

LEMMA LoopPasses ==
    ASSUME NEW n, NEW d \in Databases(n), NEW s \in Slot, NEW i, Connected(d.ctx[s])
    PROVE  \E w : /\ w \in [0..Len(d.ctx[s].inflight) -> Databases(n)] /\ Passes(d, s, i, w)
                  /\ WrittenFrom(d, s, i) = w[Len(d.ctx[s].inflight)]
<1> DEFINE list == d.ctx[s].inflight
           N == Len(list)
           S == Databases(n)
           start == Emptied(d, s)
           Next(e, k) == Pass(e, s, i, k, list[k])
           Step(f, k) == IF k = 0 THEN start ELSE Next(f[k - 1], k)
           Is(f) == f = [k \in 0..N |-> Step(f, k)]
           written == CHOOSE f : Is(f)
<1>1. N \in Nat /\ \A k \in 1..N : list[k] \in Item
  BY LenProperties, ElementOfSeq DEF Databases, Context
<1>2. start \in S
  BY EmptiedType
<1>3. \A k \in 1..N : \A e \in S : Next(e, k) \in S
  BY <1>1, PassDoes
<1>4. WrittenFrom(d, s, i) = written[N]
  <2>1. \A f, k : Step(f, k) = IF k = 0 THEN [d EXCEPT !.ctx[s].inflight = <<>>]
                   ELSE IF k < i THEN [f[k - 1] EXCEPT !.ctx[s].inflight = Append(@, list[k])]
                   ELSE db__message_write_inflight_out_single(f[k - 1], s, list[k])
    BY DEF Emptied, Pass
  <2> QED BY DEF WrittenFrom, Emptied, Pass
<1> HIDE DEF start, Next, list, N
<1>5. \E f \in [0..N -> S] : Is(f)
  <2> HIDE DEF S
  <2> DEFINE step == [k \in 1..N |-> [e \in S |-> Next(e, k)]]
  <2>1. step \in [1..N -> [S -> S]] /\ N \in Nat
    BY <1>1, <1>3
  <2>2. \A k \in 1..N : \A e \in S : step[k][e] = Next(e, k)
    OBVIOUS
  <2> HIDE DEF step
  <2>3. PICK f : Numbers!Runs(S, N, start, step, f)
    BY <1>2, <2>1, Numbers!Recursion DEF Numbers!Steps
  <2>4. f[0] = start /\ \A k \in 1..N : f[k] = step[k][f[k - 1]] /\ f[k - 1] \in S
    BY <2>1, <2>3 DEF Numbers!Runs
  <2>5. \A k \in 0..N : f[k] = Step(f, k)
    BY <2>1, <2>2, <2>4
  <2>6. f \in [0..N -> S] /\ f = [k \in 0..N |-> f[k]]
    BY <2>3 DEF Numbers!Runs
  <2> HIDE DEF Step
  <2> QED BY <2>5, <2>6
<1>6. Is(written)
  BY <1>5, Zenon
<1> HIDE DEF written
<1>7. \A k \in 0..N : written[k] = Step(written, k)
  BY <1>6
<1>8. /\ written[0] = start
      /\ \A k \in 1..N : written[k] = Next(written[k - 1], k)
  BY <1>1, <1>7
<1>9. \A k \in 0..N : written[k] \in S
  <2>1. written[0] \in S
    BY <1>2, <1>8
  <2>2. \A k \in 1..N : written[k - 1] \in S => written[k] \in S
    BY <1>3, <1>8
  <2> HIDE DEF S
  <2> QED BY <1>1, <2>1, <2>2, Numbers!StaysInside
<1>10. written \in [0..N -> S]
  <2> HIDE DEF S
  <2>1. written = [k \in 0..N |-> Step(written, k)]
    BY <1>6
  <2> HIDE DEF Step
  <2>2. written = [k \in 0..N |-> written[k]]
    BY <2>1
  <2> QED BY <1>9, <2>2
<1> QED BY <1>4, <1>8, <1>10 DEF Passes, start, Next, list, N

LEMMA AllWritten ==
    ASSUME NEW n, NEW d \in Databases(n), NEW s \in Slot, NEW i
    PROVE  /\ WrittenFrom(d, s, i) \in Databases(n)
           /\ OnlyMessages(d, WrittenFrom(d, s, i), s)
<1> DEFINE list == d.ctx[s].inflight
           N == Len(list)
<1>1. CASE ~Connected(d.ctx[s])
  BY <1>1, OnlyMessagesReflexive DEF WrittenFrom
<1>2. CASE Connected(d.ctx[s])
  <2>1. PICK w : /\ w \in [0..N -> Databases(n)] /\ Passes(d, s, i, w)
                 /\ WrittenFrom(d, s, i) = w[N]
    BY <1>2, LoopPasses
  <2>2. N \in Nat /\ \A k \in 1..N : list[k] \in Item
    BY LenProperties, ElementOfSeq DEF Databases, Context
  <2> DEFINE S == {e \in Databases(n) : OnlyMessages(d, e, s)}
  <2>3. w[0] \in S
    <3>1. w[0] = Emptied(d, s)
      BY <2>1 DEF Passes
    <3>2. /\ Emptied(d, s) \in Databases(n)
          /\ OnlyMessages(d, Emptied(d, s), s)
      BY EmptiedType
    <3> HIDE DEF N, list
    <3> QED BY <3>1, <3>2
  <2>4. ASSUME NEW k \in 1..N, w[k - 1] \in S PROVE w[k] \in S
    <3>1. w[k] = Pass(w[k - 1], s, i, k, list[k]) /\ list[k] \in Item
      BY <2>1, <2>2 DEF Passes
    <3> QED BY <2>4, <3>1, PassDoes, OnlyMessagesTransitive
  <2> HIDE DEF S, N
  <2>5. \A k \in 0..N : w[k] \in S
    BY <2>2, <2>3, <2>4, Numbers!StaysInside
  <2>6. WrittenFrom(d, s, i) \in S
    BY <2>1, <2>2, <2>5
  <2> QED BY <2>6 DEF S
<1> QED BY <1>1, <1>2

LEMMA FirstNumbers == \A k \in Nat : IsFiniteSet(1..k)
<1> SUFFICES ASSUME NEW k \in Nat PROVE IsFiniteSet(1..k)
  OBVIOUS
<1>1. 1 \in Int /\ k \in Int
  OBVIOUS
<1> QED BY <1>1, FS_Interval

LEMMA SmallestExists ==
    ASSUME NEW A, A \subseteq Nat, A # {}
    PROVE  Min(A) \in A /\ \A x \in A : Min(A) <= x
<1>1. PICK m \in A : \A x \in A : ~ (<<x, m>> \in OpToRel(<, Nat))
  BY NatLessThanWellFounded, WFMin, Zenon
<1>2. \A x \in A : ~(x < m) /\ x \in Nat
  BY <1>1 DEF OpToRel
<1>3. m \in Nat /\ \A x \in A : m <= x
  BY <1>2
<1> QED BY <1>3 DEF Min

LEMMA MinOfTwo ==
    ASSUME NEW a \in Nat, NEW b \in Nat
    PROVE  Min({a, b}) \in Nat /\ Min({a, b}) <= a /\ Min({a, b}) <= b
                               /\ Min({a, b}) \in {a, b}
  BY DEF Min

LEMMA QueueMoves ==
    ASSUME NEW c \in Context
    PROVE  /\ db__message_write_queued_out(c) \in Context
           /\ Session(db__message_write_queued_out(c)) = Session(c)
<1> DEFINE n == Min({c.quota, Len(c.queued)})
           moved == [i \in 1..n |-> [c.queued[i] EXCEPT !.state = "publish"]]
           one == [c EXCEPT !.inflight = c.inflight \o moved]
           two == [one EXCEPT !.queued = SubSeq(c.queued, n + 1, Len(c.queued))]
           three == [two EXCEPT !.quota = c.quota - n]
<1>1. c.quota \in Nat /\ Len(c.queued) \in Nat /\ c.queued \in Seq(Item)
      /\ c.inflight \in Seq(Item) /\ c.quota <= InflightMax
  BY LenProperties, BrokerAssumption DEF Context
<1>2. n \in Nat /\ n <= c.quota /\ n <= Len(c.queued)
  BY <1>1, MinOfTwo
<1>3. db__message_write_queued_out(c) = three
  BY DEF db__message_write_queued_out, Context
<1> HIDE DEF n
<1>4. moved \in Seq(Item)
  <2>1. \A i \in 1..n : c.queued[i] \in Item
    BY <1>1, <1>2, ElementOfSeq
  <2>2. \A i \in 1..n : [c.queued[i] EXCEPT !.state = "publish"] \in Item
    BY <2>1, ItemFacts
  <2> QED BY <1>2, <2>2, SeqDef
<1> HIDE DEF moved
<1>5. one \in Context /\ Session(one) = Session(c)
  BY <1>1, <1>4, ConcatProperties, ContextChanges
<1>6. SubSeq(c.queued, n + 1, Len(c.queued)) \in Seq(Item)
  BY <1>1, <1>2, SubSeqProperties
<1> HIDE DEF one
<1>7. two \in Context /\ Session(two) = Session(c)
  BY <1>5, <1>6, ContextChanges
<1> HIDE DEF two
<1>8. c.quota - n \in 0..InflightMax
  BY <1>1, <1>2, BrokerAssumption
<1> QED BY <1>3, <1>7, <1>8, ContextChanges

LEMMA LatestWritten ==
    ASSUME NEW n, NEW d \in Databases(n), NEW s \in Slot
    PROVE  /\ db__message_write_inflight_out_latest(d, s) \in Databases(n)
           /\ OnlyMessages(d, db__message_write_inflight_out_latest(d, s), s)
<1>1. \E i : db__message_write_inflight_out_latest(d, s) = WrittenFrom(d, s, i)
  BY DEF db__message_write_inflight_out_latest
<1> QED BY <1>1, AllWritten

LEMMA QueueWritten ==
    ASSUME NEW n, NEW d \in Databases(n), NEW s \in Slot
    PROVE  /\ [d EXCEPT !.ctx[s] = db__message_write_queued_out(@)] \in Databases(n)
           /\ OnlyMessages(d, [d EXCEPT !.ctx[s] = db__message_write_queued_out(@)], s)
<1>1. d.ctx[s] \in Context
  BY DEF Databases
<1>2. [d EXCEPT !.ctx[s] = db__message_write_queued_out(@)]
        = [d EXCEPT !.ctx[s] = db__message_write_queued_out(d.ctx[s])]
  BY DEF Databases
<1> QED BY <1>1, <1>2, QueueMoves, MessagesReplaced

Changed(e, s, a, b, q, w) ==
    [e EXCEPT !.ctx[s].inflight = a, !.ctx[s].queued = b, !.ctx[s].quota = q, !.store = w]

Messages(c, a, b, q) ==
    [[[c EXCEPT !.inflight = a] EXCEPT !.queued = b] EXCEPT !.quota = q]
InContext(e, s, c, w) == [[e EXCEPT !.store = w] EXCEPT !.ctx[s] = c]

LEMMA FourChanges ==
    ASSUME NEW n, NEW e \in Databases(n), NEW s \in Slot, NEW a, NEW b, NEW q, NEW w
    PROVE  Changed(e, s, a, b, q, w) = InContext(e, s, Messages(e.ctx[s], a, b, q), w)
<1>1. e.ctx[s] \in Context
  BY DEF Databases
<1>2. [[[e.ctx[s] EXCEPT !.inflight = a] EXCEPT !.queued = b] EXCEPT !.quota = q]
        = [e.ctx[s] EXCEPT !.inflight = a, !.queued = b, !.quota = q]
  BY <1>1 DEF Context
<1>3. [e EXCEPT !.ctx[s].inflight = a, !.ctx[s].queued = b, !.ctx[s].quota = q, !.store = w]
        = [e EXCEPT !.ctx[s] = [e.ctx[s] EXCEPT !.inflight = a, !.queued = b, !.quota = q],
                    !.store = w]
  BY <1>1, ZenonT(60) DEF Databases, Context
<1> QED BY <1>2, <1>3 DEF Databases, Changed, InContext, Messages

\* Context c once it has been given item, in flight or in the queue
Given(c, item) ==
    Messages(c, IF item.state = "publish" THEN Append(c.inflight, item) ELSE c.inflight,
                IF item.state = "queued" THEN Append(c.queued, item) ELSE c.queued,
                IF item.state = "publish" /\ item.qos > 0 THEN c.quota - 1 ELSE c.quota)

NewItem(c, m, mid, qos, retain) ==
    [msg |-> m, mid |-> mid, qos |-> qos, retain |-> retain, state |-> Fate(c, qos)]

LEMMA HeldType ==
    ASSUME NEW n, NEW d \in Databases(n), NEW s \in Slot, NEW m \in 1..MaxPublish,
           NEW mid \in Mid, NEW qos \in {0, 1}, NEW retain \in BOOLEAN,
           Fate(d.ctx[s], qos) # "dropped"
    PROVE  /\ Held(d, s, m, mid, qos, retain) \in Databases(n)
           /\ OnlyMessages(d, Held(d, s, m, mid, qos, retain), s)
           /\ Held(d, s, m, mid, qos, retain).ctx[s]
                = Given(d.ctx[s], NewItem(d.ctx[s], m, mid, qos, retain))
<1> DEFINE c == d.ctx[s]
           fate == Fate(c, qos)
           item == [msg |-> m, mid |-> mid, qos |-> qos, retain |-> retain, state |-> fate]
           e == db__msg_store_ref_inc(d, m)
           inflight == IF fate = "publish" THEN Append(c.inflight, item) ELSE c.inflight
           queued == IF fate = "queued" THEN Append(c.queued, item) ELSE c.queued
           quota == IF fate = "publish" /\ qos > 0 THEN c.quota - 1 ELSE c.quota
           one == [c EXCEPT !.inflight = inflight]
           two == [one EXCEPT !.queued = queued]
           three == [two EXCEPT !.quota = quota]
           stored == [e EXCEPT !.store[m].dest = IF retain THEN @ ELSE @ \cup {c.id}]
<1>1. c \in Context
  BY DEF Databases
<1>2. fate \in {"publish", "queued"}
  BY DEF Fate
<1>3. quota \in 0..InflightMax
  <2>1. c.quota \in 0..InflightMax
    BY <1>1 DEF Context
  <2>2. ASSUME fate = "publish", qos > 0 PROVE c.quota > 0
    BY <2>2 DEF Fate, db__ready_for_flight, db__ready_for_queue
  <2> QED BY <2>1, <2>2, BrokerAssumption
<1>4. item \in Item
  BY <1>2, ItemFacts
<1>5. inflight \in Seq(Item) /\ queued \in Seq(Item)
  BY <1>1, <1>4, AppendProperties DEF Context
<1>6. stored \in Databases(n) /\ OnlyMessages(d, stored, s) /\ stored.ctx = d.ctx
  <2>1. e \in Databases(n) /\ OnlyMessages(d, e, s) /\ e.ctx = d.ctx
    BY RefInc DEF OnlyMessages
  <2> HIDE DEF e
  <2>2. PICK A \in SUBSET (1..n) : e.store \in [A -> StoredMessage]
    BY <2>1 DEF Databases, Stores
  <2>3. c.id \in Node \cup {NoId}
    BY <1>1 DEF Context
  <2>4. [e.store EXCEPT ![m].dest = IF retain THEN @ ELSE @ \cup {c.id}] \in [A -> StoredMessage]
    <3>1. \A x \in StoredMessage :
              [x EXCEPT !.dest = IF retain THEN @ ELSE @ \cup {c.id}] \in StoredMessage
      BY <2>3 DEF StoredMessage
    <3> HIDE DEF StoredMessage, c
    <3> QED BY <2>2, <3>1
  <2>5. stored = [e EXCEPT !.store = [e.store EXCEPT ![m].dest =
                                         IF retain THEN @ ELSE @ \cup {c.id}]]
    BY <2>1 DEF Databases
  <2>6. [e.store EXCEPT ![m].dest = IF retain THEN @ ELSE @ \cup {c.id}] \in Stores(n)
    BY <2>2, <2>4 DEF Stores
  <2> HIDE DEF stored, c
  <2> QED BY <2>1, <2>5, <2>6 DEF Databases, OnlyMessages
<1>7. Held(d, s, m, mid, qos, retain) = [stored EXCEPT !.ctx[s] = three]
  <2>1. e.ctx = d.ctx /\ e \in Databases(n)
    BY RefInc
  <2> HIDE DEF e, item, fate
  <2>2. Held(d, s, m, mid, qos, retain)
          = [e EXCEPT !.ctx[s].inflight = IF fate = "publish" THEN Append(@, item) ELSE @,
                      !.ctx[s].queued = IF fate = "queued" THEN Append(@, item) ELSE @,
                      !.ctx[s].quota = IF fate = "publish" /\ qos > 0 THEN @ - 1 ELSE @,
                      !.store[m].dest = IF retain THEN @ ELSE @ \cup {c.id}]
    BY Zenon DEF Held, e, item, fate
  <2> HIDE DEF c, inflight, queued, quota
  <2> DEFINE w == [e.store EXCEPT ![m].dest = IF retain THEN @ ELSE @ \cup {c.id}]
  <2>3. Held(d, s, m, mid, qos, retain) = Changed(e, s, inflight, queued, quota, w)
    BY <2>1, <2>2 DEF Databases, c, inflight, queued, quota, Changed
  <2>4. stored = [e EXCEPT !.store = w]
    BY <2>1 DEF Databases
  <2> HIDE DEF w
  <2>5. e.ctx[s] = c
    BY <2>1 DEF c
  <2>6. Changed(e, s, inflight, queued, quota, w)
          = InContext(e, s, Messages(e.ctx[s], inflight, queued, quota), w)
    BY <2>1, FourChanges
  <2> QED BY <2>3, <2>4, <2>5, <2>6 DEF InContext, Messages
<1>8. three \in Context /\ Session(three) = Session(c)
  <2> HIDE DEF inflight, queued, quota, c
  <2>1. one \in Context /\ Session(one) = Session(c)
    BY <1>1, <1>5, ContextChanges
  <2> HIDE DEF one
  <2>2. two \in Context /\ Session(two) = Session(c)
    BY <1>5, <2>1, ContextChanges
  <2> HIDE DEF two
  <2> QED BY <1>3, <2>2, ContextChanges
<1>9. three = Given(c, NewItem(c, m, mid, qos, retain))
  <2>1. NewItem(c, m, mid, qos, retain) = item /\ item.state = fate /\ item.qos = qos
    BY DEF NewItem
  <2> HIDE DEF c, item, fate
  <2> QED BY <2>1 DEF Given, Messages
<1> HIDE DEF three, stored, c
<1>10. /\ [stored EXCEPT !.ctx[s] = three] \in Databases(n)
       /\ OnlyMessages(stored, [stored EXCEPT !.ctx[s] = three], s)
  BY <1>6, <1>8, MessagesReplaced DEF c
<1>11. /\ [stored EXCEPT !.ctx[s] = three] \in Databases(n)
       /\ [stored EXCEPT !.ctx[s] = three].ctx[s] = three
  BY <1>6, <1>8, ContextReplaced
<1> QED BY <1>6, <1>7, <1>9, <1>10, <1>11, OnlyMessagesTransitive DEF c

LEMMA InsertType ==
    ASSUME NEW n, NEW d \in Databases(n), NEW s \in Slot, NEW m \in 1..MaxPublish,
           NEW mid \in Mid, NEW qos \in {0, 1}, NEW retain \in BOOLEAN, NEW update
    PROVE  /\ db__message_insert(d, s, m, mid, qos, retain, update) \in Databases(n)
           /\ OnlyMessages(d, db__message_insert(d, s, m, mid, qos, retain, update), s)
<1> DEFINE e == Held(d, s, m, mid, qos, retain)
           r == db__message_insert(d, s, m, mid, qos, retain, update)
<1> SUFFICES r \in Databases(n) /\ OnlyMessages(d, r, s)
  OBVIOUS
<1>1. \/ r = d
      \/ Fate(d.ctx[s], qos) # "dropped" /\ (r = e \/ r = Updated(e, s))
  BY DEF db__message_insert
<1>2. CASE r = d
  BY <1>2, OnlyMessagesReflexive
<1>3. CASE Fate(d.ctx[s], qos) # "dropped" /\ (r = e \/ r = Updated(e, s))
  <2>1. e \in Databases(n) /\ OnlyMessages(d, e, s)
    BY <1>3, HeldType
  <2> HIDE DEF e, r
  <2> DEFINE f == db__message_write_inflight_out_latest(e, s)
             g == [f EXCEPT !.ctx[s] = db__message_write_queued_out(@)]
  <2>2. f \in Databases(n) /\ OnlyMessages(e, f, s)
    BY <2>1, LatestWritten
  <2>3. Updated(e, s) = g \/ Updated(e, s) = f
    BY DEF Updated
  <2> HIDE DEF f
  <2>4. g \in Databases(n) /\ OnlyMessages(f, g, s)
    BY <2>2, QueueWritten
  <2> HIDE DEF g
  <2>5. OnlyMessages(d, f, s) /\ OnlyMessages(d, g, s)
    BY <2>1, <2>2, <2>4, OnlyMessagesTransitive
  <2> QED BY <1>3, <2>1, <2>2, <2>3, <2>4, <2>5
<1> QED BY <1>1, <1>2, <1>3

LEMMA OfferedType ==
    ASSUME NEW n, NEW d \in Databases(n), NEW s \in Slot, NEW m \in 1..MaxPublish,
           NEW qos \in {0, 1}, NEW retain \in BOOLEAN, NEW update
    PROVE  /\ Offered(d, s, m, qos, retain, update) \in Databases(n)
           /\ OnlyMessages(d, Offered(d, s, m, qos, retain, update), s)
<1> DEFINE mid == IF qos = 0 THEN 0 ELSE mosquitto__mid_generate(d.ctx[s].last_mid)
           numbered == [d EXCEPT !.ctx[s].last_mid = mid]
           e == IF qos = 0 THEN d ELSE numbered
<1>1. d.ctx[s] \in Context /\ d.ctx[s].last_mid \in Mid
  BY DEF Databases, Context
<1>2. mid \in Mid
  BY <1>1, MidFacts
<1>3. Offered(d, s, m, qos, retain, update) = db__message_insert(e, s, m, mid, qos, retain, update)
  BY DEF Offered
<1> HIDE DEF mid
<1>4. numbered \in Databases(n) /\ OnlyMessages(d, numbered, s)
  <2>1. numbered = [d EXCEPT !.ctx[s] = [d.ctx[s] EXCEPT !.last_mid = mid]]
    BY DEF Databases
  <2> QED BY <1>1, <1>2, <2>1, ContextChanges, MessagesReplaced
<1>5. e \in Databases(n) /\ OnlyMessages(d, e, s)
  BY <1>4, OnlyMessagesReflexive
<1> HIDE DEF e
<1> QED BY <1>2, <1>3, <1>5, InsertType, OnlyMessagesTransitive

\* From d to e nothing has changed but messages, and what is retained.
SessionsStay(d, e) ==
    /\ e.leaves = d.leaves
    /\ \A r \in Slot : Session(e.ctx[r]) = Session(d.ctx[r])

LEMMA SessionsStayFacts ==
    ASSUME NEW d
    PROVE  /\ SessionsStay(d, d)
           /\ \A e, f : SessionsStay(d, e) /\ SessionsStay(e, f) => SessionsStay(d, f)
           /\ \A e, s : s \in Slot /\ OnlyMessages(d, e, s) => SessionsStay(d, e)
           /\ \A e : e.ctx = d.ctx /\ e.leaves = d.leaves => SessionsStay(d, e)
  BY DEF SessionsStay, OnlyMessages

\* SetToSeq puts every subscriber of a topic in one place.
LEMMA SubscribersOrdered ==
    ASSUME NEW n, NEW d \in Databases(n), NEW t, IsFiniteSet(d.leaves)
    PROVE  LET S == Subscribers(d, t)
               N == Cardinality(S)
           IN  /\ IsFiniteSet(S) /\ N \in Nat /\ S \subseteq Leaf
               /\ SetToSeq(S) \in [1..N -> S] /\ IsInjective(SetToSeq(S))
               /\ SetToSeq(S) \in Seq(S) /\ Len(SetToSeq(S)) = N
<1> DEFINE S == Subscribers(d, t)
           N == Cardinality(S)
<1>1. S \subseteq d.leaves /\ S \subseteq Leaf
  BY DEF Subscribers, Databases
<1>2. IsFiniteSet(S) /\ N \in Nat
  BY <1>1, FS_Subset, FS_CardinalityType
<1>3. ExistsBijection(1..N, S)
  BY <1>2, FS_CardinalityType
<1>4. SetToSeq(S) = CHOOSE f \in [1..N -> S] : IsInjective(f)
  BY DEF SetToSeq
<1> HIDE DEF S, N
<1>5. \E f \in [1..N -> S] : IsInjective(f)
  BY <1>3, Zenon DEF ExistsBijection, Bijection, Injection, IsInjective, Surjection
<1>6. SetToSeq(S) \in [1..N -> S] /\ IsInjective(SetToSeq(S))
  BY <1>4, <1>5
<1>7. SetToSeq(S) \in Seq(S) /\ Len(SetToSeq(S)) = N
  BY <1>2, <1>6, SeqDef, LenProperties
<1> QED BY <1>1, <1>2, <1>6, <1>7 DEF S, N

LEMMA SubscribersListed ==
    ASSUME NEW n, NEW d \in Databases(n), NEW t, IsFiniteSet(d.leaves)
    PROVE  /\ SetToSeq(Subscribers(d, t)) \in Seq(Leaf)
           /\ \A k \in 1..Len(SetToSeq(Subscribers(d, t))) :
                SetToSeq(Subscribers(d, t))[k] \in Subscribers(d, t)
           /\ \A l \in Subscribers(d, t) : \E k \in 1..Len(SetToSeq(Subscribers(d, t))) :
                SetToSeq(Subscribers(d, t))[k] = l
<1> DEFINE S == Subscribers(d, t)
           N == Cardinality(S)
<1>1. /\ IsFiniteSet(S) /\ N \in Nat /\ S \subseteq Leaf
      /\ SetToSeq(S) \in [1..N -> S] /\ IsInjective(SetToSeq(S))
      /\ SetToSeq(S) \in Seq(S) /\ Len(SetToSeq(S)) = N
  BY SubscribersOrdered
<1> HIDE DEF S, N
<1>2. SetToSeq(S) \in Seq(Leaf)
  BY <1>1
<1>3. \A l \in S : \E k \in 1..N : SetToSeq(S)[k] = l
  <2> DEFINE f == SetToSeq(S)
  <2>1. f \in Injection(1..N, S)
    BY <1>1 DEF Injection, IsInjective
  <2>2. IsFiniteSet(1..N) /\ Cardinality(1..N) = N
    BY <1>1, FS_Interval
  <2> HIDE DEF f
  <2>3. f \in Surjection(1..N, S)
    BY <1>1, <2>1, <2>2, FS_Injection DEF N
  <2> QED BY <2>3 DEF Surjection, f
<1> QED BY <1>1, <1>2, <1>3 DEF S

\* What holds of d and what no subscriber's message ends holds when all have
\* been offered theirs.
\* One subscriber after the other is sent the message, and S is not left.
Sends(S, d, t, m, w) ==
    LET leaves == SetToSeq(Subscribers(d, t))
    IN  /\ w \in [0..Len(leaves) -> S] /\ w[0] = d
        /\ \A k \in 1..Len(leaves) : w[k] = subs__send(w[k - 1], leaves[k], m)
        /\ subs__process(d, t, m) = w[Len(leaves)]

LEMMA ProcessRuns ==
    ASSUME NEW n, NEW S, NEW d \in S, d \in Databases(n), NEW t, NEW m,
           IsFiniteSet(d.leaves),
           \A e \in S : \A leaf \in Subscribers(d, t) : subs__send(e, leaf, m) \in S
    PROVE  \E w : Sends(S, d, t, m, w)
<1> DEFINE leaves == SetToSeq(Subscribers(d, t))
           N == Len(leaves)
           Step(f, k) == IF k = 0 THEN d ELSE subs__send(f[k - 1], leaves[k], m)
           Is(f) == f = [k \in 0..N |-> Step(f, k)]
           sent == CHOOSE f : Is(f)
<1>1. N \in Nat /\ \A k \in 1..N : leaves[k] \in Subscribers(d, t)
  BY SubscribersListed, LenProperties
<1>2. subs__process(d, t, m) = sent[N]
  BY DEF subs__process
<1> HIDE DEF leaves, N
<1>3. \A k \in 1..N : \A e \in S : subs__send(e, leaves[k], m) \in S
  BY <1>1
<1>4. \E f \in [0..N -> S] : Is(f)
  <2> DEFINE step == [k \in 1..N |-> [e \in S |-> subs__send(e, leaves[k], m)]]
  <2>1. step \in [1..N -> [S -> S]] /\ N \in Nat
    BY <1>1, <1>3
  <2>2. \A k \in 1..N : \A e \in S : step[k][e] = subs__send(e, leaves[k], m)
    OBVIOUS
  <2> HIDE DEF step
  <2>3. PICK f : Numbers!Runs(S, N, d, step, f)
    BY <2>1, Numbers!Recursion DEF Numbers!Steps
  <2>4. f[0] = d /\ \A k \in 1..N : f[k] = step[k][f[k - 1]] /\ f[k - 1] \in S
    BY <2>1, <2>3 DEF Numbers!Runs
  <2>5. \A k \in 0..N : f[k] = Step(f, k)
    BY <2>1, <2>2, <2>4
  <2>6. f \in [0..N -> S] /\ f = [k \in 0..N |-> f[k]]
    BY <2>3 DEF Numbers!Runs
  <2> HIDE DEF Step
  <2> QED BY <2>5, <2>6
<1>5. Is(sent)
  BY <1>4, Zenon
<1> HIDE DEF sent
<1>6. \A k \in 0..N : sent[k] = Step(sent, k)
  BY <1>5
<1>7. sent[0] \in S
  BY <1>1, <1>6
<1>8. ASSUME NEW k \in 1..N, sent[k - 1] \in S PROVE sent[k] \in S
  <2>1. sent[k] = subs__send(sent[k - 1], leaves[k], m)
    BY <1>1, <1>6
  <2> QED BY <1>3, <1>8, <2>1
<1>9. \A k \in 0..N : sent[k] \in S
  BY <1>1, <1>7, <1>8, Numbers!StaysInside
<1>10. sent[0] = d /\ \A k \in 1..N : sent[k] = subs__send(sent[k - 1], leaves[k], m)
  BY <1>1, <1>6
<1>11. sent \in [0..N -> S]
  <2>1. sent = [k \in 0..N |-> sent[k]]
    BY <1>5, <1>6
  <2> HIDE DEF Is, Step
  <2> QED BY <1>9, <2>1
<1> HIDE DEF Is, Step
<1> QED BY <1>2, <1>10, <1>11 DEF Sends, leaves, N

LEMMA ProcessInside ==
    ASSUME NEW n, NEW S, NEW d \in S, d \in Databases(n), NEW t, NEW m,
           IsFiniteSet(d.leaves),
           \A e \in S : \A leaf \in Subscribers(d, t) : subs__send(e, leaf, m) \in S
    PROVE  subs__process(d, t, m) \in S
<1>1. PICK w : Sends(S, d, t, m, w)
  BY ProcessRuns
<1> DEFINE N == Len(SetToSeq(Subscribers(d, t)))
<1>2. N \in Nat
  BY SubscribersListed, LenProperties
<1>3. w \in [0..N -> S] /\ subs__process(d, t, m) = w[N]
  BY <1>1 DEF Sends
<1> QED BY <1>2, <1>3

LEMMA ProcessType ==
    ASSUME NEW n, NEW d \in Databases(n), NEW t, NEW m \in 1..MaxPublish, IsFiniteSet(d.leaves)
    PROVE  /\ subs__process(d, t, m) \in Databases(n)
           /\ SessionsStay(d, subs__process(d, t, m))
<1> DEFINE S == {e \in Databases(n) : SessionsStay(d, e)}
<1>1. d \in S
  BY SessionsStayFacts
<1>2. ASSUME NEW e \in S, NEW leaf \in Subscribers(d, t) PROVE subs__send(e, leaf, m) \in S
  <2>1. leaf.slot \in Slot /\ leaf.qos \in {0, 1}
    BY DEF Leaf, Subscribers, Databases
  <2>2. /\ subs__send(e, leaf, m) \in Databases(n)
        /\ OnlyMessages(e, subs__send(e, leaf, m), leaf.slot)
    BY <2>1, OfferedType DEF subs__send
  <2> QED BY <2>1, <2>2, SessionsStayFacts
<1>3. subs__process(d, t, m) \in S
  <2> HIDE DEF S
  <2> QED BY <1>1, <1>2, ProcessInside
<1> QED BY <1>3

LEMMA RetainType ==
    ASSUME NEW n \in Nat, NEW d \in Databases(n), NEW t, NEW m \in 1..n
    PROVE  /\ retain__store(d, t, m) \in Databases(n)
           /\ SessionsStay(d, retain__store(d, t, m))
<1> DEFINE e == IF d.retained[t] = NoMessage THEN d
                ELSE db__msg_store_ref_dec(d, d.retained[t])
           f == [e EXCEPT !.retained[t] = m]
<1>1. e \in Databases(n) /\ e.ctx = d.ctx /\ e.leaves = d.leaves
  BY RefDec
<1> HIDE DEF e
<1>2. f \in Databases(n) /\ f.ctx = e.ctx /\ f.leaves = e.leaves
  BY <1>1 DEF Databases
<1>3. retain__store(d, t, m) = db__msg_store_ref_inc(f, m)
  BY DEF retain__store, e
<1> HIDE DEF f
<1> QED BY <1>1, <1>2, <1>3, RefInc, SessionsStayFacts

LEMMA QueuedType ==
    ASSUME NEW n \in Nat, n <= MaxPublish, NEW d \in Databases(n), NEW t, NEW m \in 1..n,
           IsFiniteSet(d.leaves)
    PROVE  /\ sub__messages_queue(d, t, m) \in Databases(n)
           /\ SessionsStay(d, sub__messages_queue(d, t, m))
<1> DEFINE e == db__msg_store_ref_inc(d, m)
           f == subs__process(e, t, m)
           g == retain__store(f, t, m)
<1>1. m \in 1..MaxPublish
  BY BrokerAssumption
<1>2. e \in Databases(n) /\ SessionsStay(d, e) /\ IsFiniteSet(e.leaves)
  BY RefInc, SessionsStayFacts
<1> HIDE DEF e
<1>3. f \in Databases(n) /\ SessionsStay(e, f)
  BY <1>1, <1>2, ProcessType
<1> HIDE DEF f
<1>4. g \in Databases(n) /\ SessionsStay(f, g)
  BY <1>3, RetainType
<1>5. sub__messages_queue(d, t, m) = db__msg_store_ref_dec(g, m)
  BY DEF sub__messages_queue, e, f
<1> HIDE DEF g
<1>6. /\ sub__messages_queue(d, t, m) \in Databases(n)
      /\ SessionsStay(g, sub__messages_queue(d, t, m))
  BY <1>4, <1>5, RefDec, SessionsStayFacts
<1> QED BY <1>2, <1>3, <1>4, <1>6, SessionsStayFacts

LEMMA CopyType ==
    ASSUME NEW n \in Nat, n <= MaxPublish, NEW d \in Databases(n), NEW s \in Slot,
           NEW t \in Topic, NEW qos \in {0, 1}
    PROVE  /\ retain__process(d, s, t, qos) \in Databases(n)
           /\ OnlyMessages(d, retain__process(d, s, t, qos), s)
<1>1. CASE d.retained[t] = NoMessage
  BY <1>1, OnlyMessagesReflexive DEF retain__process
<1>2. CASE d.retained[t] # NoMessage
  <2>1. d.retained[t] \in 0..n
    BY DEF Databases
  <2>2. d.retained[t] \in 1..MaxPublish
    BY <1>2, <2>1, BrokerAssumption DEF NoMessage
  <2> QED BY <1>2, <2>2, OfferedType DEF retain__process
<1> QED BY <1>1, <1>2

LEMMA WithoutMidType ==
    ASSUME NEW n, NEW d \in Databases(n), NEW s \in Slot, NEW mid
    PROVE  /\ WithoutMid(d, s, mid) \in Databases(n)
           /\ OnlyMessages(d, WithoutMid(d, s, mid), s)
<1> DEFINE list == d.ctx[s].inflight
           found == {i \in DOMAIN list : list[i].mid = mid}
           i == Min(found)
           e == [d EXCEPT !.ctx[s].inflight = RemoveAt(@, i)]
<1>1. WithoutMid(d, s, mid) = IF found = {} THEN d ELSE db__msg_store_ref_dec(e, list[i].msg)
  BY DEF WithoutMid
<1>2. CASE found = {}
  BY <1>1, <1>2, OnlyMessagesReflexive
<1>3. CASE found # {}
  <2>1. list \in Seq(Item) /\ d.ctx[s] \in Context
    BY DEF Databases, Context
  <2>2. i \in DOMAIN list
    <3>1. found \subseteq Nat /\ found \subseteq DOMAIN list
      BY <2>1, LenProperties
    <3> HIDE DEF found
    <3> QED BY <1>3, <3>1, SmallestExists
  <2>3. RemoveAt(list, i) \in Seq(Item)
    <3>1. i \in 1..Len(list) /\ Len(list) \in Nat
      BY <2>1, <2>2, LenProperties
    <3> HIDE DEF i, list
    <3>2. SubSeq(list, 1, i - 1) \in Seq(Item) /\ SubSeq(list, i + 1, Len(list)) \in Seq(Item)
      BY <2>1, <3>1, SubSeqProperties
    <3> QED BY <3>2, ConcatProperties DEF RemoveAt
  <2>4. e = [d EXCEPT !.ctx[s] = [d.ctx[s] EXCEPT !.inflight = RemoveAt(list, i)]]
    BY DEF Databases
  <2> HIDE DEF i, list
  <2>5. e \in Databases(n) /\ OnlyMessages(d, e, s)
    BY <2>1, <2>3, <2>4, ContextChanges, MessagesReplaced
  <2> HIDE DEF e
  <2> QED BY <1>1, <1>3, <2>5, RefDec DEF OnlyMessages
<1> QED BY <1>2, <1>3

LEMMA DeletedType ==
    ASSUME NEW n, NEW d \in Databases(n), NEW s \in Slot, NEW mid
    PROVE  /\ db__message_delete_outgoing(d, s, mid) \in Databases(n)
           /\ OnlyMessages(d, db__message_delete_outgoing(d, s, mid), s)
<1> DEFINE e == WithoutMid(d, s, mid)
           f == [e EXCEPT !.ctx[s] = db__message_write_queued_out(@)]
<1>1. e \in Databases(n) /\ OnlyMessages(d, e, s)
  BY WithoutMidType
<1> HIDE DEF e
<1>2. f \in Databases(n) /\ OnlyMessages(e, f, s)
  BY <1>1, QueueWritten
<1>3. db__message_delete_outgoing(d, s, mid) = db__message_write_inflight_out_latest(f, s)
  BY DEF db__message_delete_outgoing, e
<1> HIDE DEF f
<1> QED BY <1>1, <1>2, <1>3, LatestWritten, OnlyMessagesTransitive

-----------------------------------------------------------------------------
(* Subscriptions and sessions *)

LEMMA SessionChanges ==
    ASSUME NEW c \in Context
    PROVE  /\ \A x \in SUBSET Topic :
               /\ [c EXCEPT !.subs = x] \in Context
               /\ Session([c EXCEPT !.subs = x]) = <<c.state, c.id, c.clean, x>>
           /\ \A x \in BOOLEAN :
               /\ [c EXCEPT !.clean = x] \in Context
               /\ Session([c EXCEPT !.clean = x]) = <<c.state, c.id, x, c.subs>>
           /\ \A x \in ContextState :
               /\ [c EXCEPT !.state = x] \in Context
               /\ Session([c EXCEPT !.state = x]) = <<x, c.id, c.clean, c.subs>>
           /\ \A x \in Node \cup {NoId} :
               /\ [c EXCEPT !.id = x] \in Context
               /\ Session([c EXCEPT !.id = x]) = <<c.state, x, c.clean, c.subs>>
  BY DEF Context, Session

LEMMA NewContextType == NewContext \in Context
<1>1. <<>> \in Seq(Item) /\ 0 \in Mid
  BY EmptySeq, MidFacts
<1>2. InflightMax \in 0..InflightMax
  BY BrokerAssumption
<1> QED BY <1>1, <1>2 DEF NewContext, Context, ContextState

LEMMA LeavesReplaced ==
    ASSUME NEW n, NEW d \in Databases(n), NEW L \in SUBSET Leaf
    PROVE  /\ [d EXCEPT !.leaves = L] \in Databases(n)
           /\ [d EXCEPT !.leaves = L].leaves = L
           /\ [d EXCEPT !.leaves = L].ctx = d.ctx
           /\ [d EXCEPT !.leaves = L].store = d.store
           /\ [d EXCEPT !.leaves = L].retained = d.retained
  BY DEF Databases

LEMMA ImageIsFinite ==
    ASSUME NEW S, IsFiniteSet(S), NEW f, DOMAIN f = S
    PROVE  IsFiniteSet({f[x] : x \in S})
<1> DEFINE T == {f[x] : x \in S}
           g == [x \in S |-> f[x]]
<1>1. g \in Surjection(S, T)
  BY DEF Surjection
<1> HIDE DEF g, T
<1>2. IsFiniteSet(T)
  BY <1>1, FS_Surjection
<1> QED BY <1>2 DEF T

(* What sub__add changes: the QoS of the leaf there is, or a leaf and the
   context's list *)
LEMMA AddType ==
    ASSUME NEW n, NEW d \in Databases(n), NEW s \in Slot, NEW t \in Topic, NEW qos \in {0, 1},
           IsFiniteSet(d.leaves)
    PROVE  /\ sub__add(d, s, t, qos) \in Databases(n)
           /\ IsFiniteSet(sub__add(d, s, t, qos).leaves)
<1> DEFINE same == {leaf \in d.leaves : leaf.topic = t /\ d.ctx[leaf.slot].id = d.ctx[s].id}
           f == [leaf \in same |-> [leaf EXCEPT !.qos = qos]]
           other == (d.leaves \ same) \cup {f[leaf] : leaf \in same}
           more == d.leaves \cup {[topic |-> t, slot |-> s, qos |-> qos]}
           listed == [d EXCEPT !.ctx[s] = [d.ctx[s] EXCEPT !.subs = @ \cup {t}]]
<1>1. d.leaves \in SUBSET Leaf /\ d.ctx[s] \in Context
  BY DEF Databases
<1>2. other \in SUBSET Leaf /\ more \in SUBSET Leaf
  <2>1. \A leaf \in Leaf : [leaf EXCEPT !.qos = qos] \in Leaf
    BY DEF Leaf
  <2>2. [topic |-> t, slot |-> s, qos |-> qos] \in Leaf
    BY DEF Leaf
  <2>3. same \subseteq Leaf /\ \A leaf \in same : f[leaf] \in Leaf
    BY <1>1, <2>1
  <2> HIDE DEF same, f
  <2> QED BY <1>1, <2>2, <2>3
<1>3. IsFiniteSet(other) /\ IsFiniteSet(more)
  <2>1. same \in SUBSET d.leaves /\ d.leaves \ same \in SUBSET d.leaves
    OBVIOUS
  <2> HIDE DEF same
  <2>2. IsFiniteSet(same) /\ IsFiniteSet(d.leaves \ same)
    BY <2>1, FS_Subset
  <2>3. IsFiniteSet({f[leaf] : leaf \in same})
    <3>1. DOMAIN f = same
      OBVIOUS
    <3> HIDE DEF f
    <3> QED BY <2>2, <3>1, ImageIsFinite
  <2> HIDE DEF f
  <2> QED BY <2>2, <2>3, FS_Union, FS_AddElement
<1>4. sub__add(d, s, t, qos) = IF same # {} THEN [d EXCEPT !.leaves = other]
                               ELSE [listed EXCEPT !.leaves = more]
  <2>1. {f[leaf] : leaf \in same} = {[leaf EXCEPT !.qos = qos] : leaf \in same}
    OBVIOUS
  <2>2. [d EXCEPT !.leaves = more, !.ctx[s].subs = @ \cup {t}] = [listed EXCEPT !.leaves = more]
    BY DEF Databases, Context
  <2> QED BY <2>1, <2>2 DEF sub__add
<1>5. listed \in Databases(n)
  <2>1. d.ctx[s].subs \cup {t} \in SUBSET Topic
    BY <1>1 DEF Context
  <2>2. [d.ctx[s] EXCEPT !.subs = @ \cup {t}] \in Context
    BY <1>1, <2>1, SessionChanges
  <2> QED BY <2>2, ContextReplaced
<1> HIDE DEF other, more, listed
<1> QED BY <1>2, <1>3, <1>4, <1>5, LeavesReplaced

\* The leaves without those of context s for the topics of its list, and the
\* leaves when those of context f for the topics of its list are now of s
Cleaned(leaves, subs, s) ==
    {leaf \in leaves : ~(leaf.topic \in subs /\ leaf.slot = s)}
Relinked(leaves, subs, s, f) ==
    {IF leaf.slot = f /\ leaf.topic \in subs THEN [leaf EXCEPT !.slot = s] ELSE leaf
        : leaf \in leaves}

LEMMA RemoveType ==
    ASSUME NEW n, NEW d \in Databases(n), NEW s \in Slot, NEW t
    PROVE  /\ sub__remove(d, s, t) \in Databases(n)
           /\ sub__remove(d, s, t).leaves
                = {leaf \in d.leaves : ~(leaf.topic = t /\ leaf.slot = s)}
           /\ \A r \in Slot \ {s} : sub__remove(d, s, t).ctx[r] = d.ctx[r]
           /\ Session(sub__remove(d, s, t).ctx[s])
                = <<d.ctx[s].state, d.ctx[s].id, d.ctx[s].clean, d.ctx[s].subs \ {t}>>
<1> DEFINE left == {leaf \in d.leaves : ~(leaf.topic = t /\ leaf.slot = s)}
           x == d.ctx[s].subs \ {t}
           c == [d.ctx[s] EXCEPT !.subs = x]
           e == [d EXCEPT !.ctx[s] = c]
<1>1. d.ctx[s] \in Context /\ x \in SUBSET Topic /\ left \in SUBSET Leaf
  BY DEF Databases, Context
<1>2. sub__remove(d, s, t) = [e EXCEPT !.leaves = left]
  BY DEF sub__remove, Databases, Context
<1> HIDE DEF x, left
<1>3. c \in Context /\ Session(c) = <<d.ctx[s].state, d.ctx[s].id, d.ctx[s].clean, x>>
  BY <1>1, SessionChanges
<1> HIDE DEF c
<1>4. e \in Databases(n) /\ e.ctx[s] = c /\ \A r \in Slot \ {s} : e.ctx[r] = d.ctx[r]
  BY <1>3, ContextReplaced
<1> HIDE DEF e
<1>5. /\ [e EXCEPT !.leaves = left] \in Databases(n)
      /\ [e EXCEPT !.leaves = left].leaves = left
      /\ [e EXCEPT !.leaves = left].ctx = e.ctx
  BY <1>1, <1>4, LeavesReplaced
<1> QED BY <1>2, <1>3, <1>4, <1>5 DEF x, left

LEMMA CleanType ==
    ASSUME NEW n, NEW d \in Databases(n), NEW s \in Slot
    PROVE  /\ sub__clean_session(d, s) \in Databases(n)
           /\ sub__clean_session(d, s).leaves = Cleaned(d.leaves, d.ctx[s].subs, s)
           /\ \A r \in Slot \ {s} : sub__clean_session(d, s).ctx[r] = d.ctx[r]
           /\ Session(sub__clean_session(d, s).ctx[s])
                = <<d.ctx[s].state, d.ctx[s].id, d.ctx[s].clean, {}>>
<1> DEFINE left == Cleaned(d.leaves, d.ctx[s].subs, s)
           c == [d.ctx[s] EXCEPT !.subs = {}]
           e == [d EXCEPT !.ctx[s] = c]
<1>1. d.ctx[s] \in Context /\ {} \in SUBSET Topic /\ left \in SUBSET Leaf
  BY DEF Databases, Cleaned
<1>2. sub__clean_session(d, s) = [e EXCEPT !.leaves = left]
  BY DEF sub__clean_session, Databases, Context, Cleaned
<1> HIDE DEF left
<1>3. c \in Context /\ Session(c) = <<d.ctx[s].state, d.ctx[s].id, d.ctx[s].clean, {}>>
  BY <1>1, SessionChanges
<1> HIDE DEF c
<1>4. e \in Databases(n) /\ e.ctx[s] = c /\ \A r \in Slot \ {s} : e.ctx[r] = d.ctx[r]
  BY <1>3, ContextReplaced
<1> HIDE DEF e
<1>5. /\ [e EXCEPT !.leaves = left] \in Databases(n)
      /\ [e EXCEPT !.leaves = left].leaves = left
      /\ [e EXCEPT !.leaves = left].ctx = e.ctx
  BY <1>1, <1>4, LeavesReplaced
<1> QED BY <1>2, <1>3, <1>4, <1>5 DEF left

LEMMA DisconnectType ==
    ASSUME NEW n, NEW d \in Databases(n), NEW s \in Slot
    PROVE  /\ do_disconnect(d, s) \in Databases(n)
           /\ do_disconnect(d, s).leaves = d.leaves
           /\ \A r \in Slot \ {s} : do_disconnect(d, s).ctx[r] = d.ctx[r]
           /\ Session(do_disconnect(d, s).ctx[s])
                = IF d.ctx[s].clean THEN <<"disused", NoId, TRUE, d.ctx[s].subs>>
                  ELSE <<"disconnected", d.ctx[s].id, FALSE, d.ctx[s].subs>>
<1> DEFINE c == d.ctx[s]
           state == IF c.clean THEN "disused" ELSE "disconnected"
           id == IF c.clean THEN NoId ELSE c.id
           one == [c EXCEPT !.out = <<>>]
           two == [one EXCEPT !.state = state]
           three == [two EXCEPT !.id = id]
<1>1. c \in Context /\ <<>> \in Seq(Item)
  BY EmptySeq DEF Databases
<1>2. state \in ContextState /\ id \in Node \cup {NoId}
  BY <1>1 DEF Context, ContextState
<1>3. do_disconnect(d, s) = [d EXCEPT !.ctx[s] = three]
  <2>1. three = [c EXCEPT !.out = <<>>, !.state = state, !.id = id]
    BY <1>1 DEF Context
  <2> HIDE DEF three
  <2>2. do_disconnect(d, s)
          = [d EXCEPT !.ctx[s] = [c EXCEPT !.out = <<>>, !.state = state, !.id = id]]
    BY <1>1, ZenonT(60) DEF do_disconnect, Databases, Context
  <2> QED BY <2>1, <2>2
<1>4. one \in Context /\ Session(one) = Session(c)
  BY <1>1, ContextChanges
<1>5. c.clean \in BOOLEAN
  BY <1>1 DEF Context
<1> HIDE DEF one, state, id
<1>6. two \in Context /\ Session(two) = <<state, one.id, one.clean, one.subs>>
  BY <1>2, <1>4, SessionChanges
<1> HIDE DEF two
<1>7. three \in Context /\ Session(three) = <<two.state, id, two.clean, two.subs>>
  BY <1>2, <1>6, SessionChanges
<1>8. Session(three) = <<state, id, c.clean, c.subs>>
  BY <1>4, <1>6, <1>7 DEF Session
<1> HIDE DEF three
<1> DEFINE e == do_disconnect(d, s)
<1>9. /\ e \in Databases(n) /\ e.leaves = d.leaves /\ e.ctx[s] = three
      /\ \A r \in Slot \ {s} : e.ctx[r] = d.ctx[r]
  BY <1>3, <1>7, ContextReplaced
<1>10. Session(three) = IF c.clean THEN <<"disused", NoId, TRUE, c.subs>>
                        ELSE <<"disconnected", c.id, FALSE, c.subs>>
  BY <1>5, <1>8 DEF state, id
<1> HIDE DEF e
<1> QED BY <1>9, <1>10 DEF e

LEMMA ResetType ==
    ASSUME NEW c \in Context
    PROVE  /\ db__message_reconnect_reset(c) \in Context
           /\ Session(db__message_reconnect_reset(c)) = Session(c)
<1> DEFINE again == [i \in DOMAIN c.inflight |-> [c.inflight[i] EXCEPT !.state = "publish"]]
           counted == {i \in DOMAIN again : again[i].qos > 0}
           used == Cardinality(counted)
           quota == IF used > InflightMax THEN 0 ELSE InflightMax - used
           one == [c EXCEPT !.inflight = again]
           two == [one EXCEPT !.quota = quota]
<1>1. c.inflight \in Seq(Item) /\ Len(c.inflight) \in Nat
      /\ DOMAIN c.inflight = 1..Len(c.inflight)
  BY LenProperties DEF Context
<1>2. again \in Seq(Item)
  <2>1. \A i \in 1..Len(c.inflight) : [c.inflight[i] EXCEPT !.state = "publish"] \in Item
    BY <1>1, ElementOfSeq, ItemFacts
  <2> QED BY <1>1, <2>1, SeqDef
<1>3. used \in Nat
  <2>1. counted \in SUBSET (1..Len(c.inflight))
    BY <1>1
  <2>2. IsFiniteSet(1..Len(c.inflight))
    BY <1>1, FirstNumbers
  <2> HIDE DEF counted
  <2> QED BY <2>1, <2>2, FS_Subset, FS_CardinalityType
<1>4. db__message_reconnect_reset(c) = db__message_write_queued_out(two)
  BY DEF db__message_reconnect_reset, Context
<1> HIDE DEF used
<1>5. quota \in 0..InflightMax
  BY <1>3, BrokerAssumption
<1> HIDE DEF again, quota
<1>6. one \in Context /\ Session(one) = Session(c)
  BY <1>2, ContextChanges
<1> HIDE DEF one
<1>7. two \in Context /\ Session(two) = Session(c)
  BY <1>5, <1>6, ContextChanges
<1> HIDE DEF two
<1> QED BY <1>4, <1>7, QueueMoves

\* The new context s has the subscriptions of context f, which has none left.
LEMMA MovedType ==
    ASSUME NEW n, NEW d \in Databases(n), NEW s \in Slot, NEW f \in Slot, s # f
    PROVE  /\ ContextMoved(d, s, f) \in Databases(n)
           /\ ContextMoved(d, s, f).leaves = d.leaves
           /\ \A r \in Slot \ {s, f} : ContextMoved(d, s, f).ctx[r] = d.ctx[r]
           /\ Session(ContextMoved(d, s, f).ctx[s])
                = <<d.ctx[s].state, d.ctx[s].id, d.ctx[s].clean, d.ctx[f].subs>>
           /\ Session(ContextMoved(d, s, f).ctx[f])
                = <<d.ctx[f].state, d.ctx[f].id, d.ctx[f].clean, {}>>
<1> DEFINE c == d.ctx[s]
           old == d.ctx[f]
           listed == [c EXCEPT !.subs = old.subs]
           fresh == [listed EXCEPT !.last_mid = old.last_mid]
           half == [fresh EXCEPT !.inflight = old.inflight]
           full == [half EXCEPT !.queued = old.queued]
           new == IF old.inflight = <<>> /\ old.queued = <<>> THEN fresh
                  ELSE db__message_reconnect_reset(full)
           sent == [old EXCEPT !.inflight = <<>>]
           empty == [sent EXCEPT !.queued = <<>>]
           none == [empty EXCEPT !.subs = {}]
           e == [d EXCEPT !.ctx[s] = new]
           g == [e EXCEPT !.ctx[f] = none]
<1>1. /\ c \in Context /\ old \in Context /\ <<>> \in Seq(Item) /\ {} \in SUBSET Topic
      /\ old.subs \in SUBSET Topic /\ old.last_mid \in Mid
      /\ old.inflight \in Seq(Item) /\ old.queued \in Seq(Item)
  BY EmptySeq DEF Databases, Context
<1>2. ContextMoved(d, s, f) = g
  <2>1. fresh = BookkeepingMoved(c, old)
    BY <1>1 DEF BookkeepingMoved, Context
  <2>2. full = [fresh EXCEPT !.inflight = old.inflight, !.queued = old.queued]
    BY <1>1 DEF Context
  <2>3. none = [old EXCEPT !.inflight = <<>>, !.queued = <<>>, !.subs = {}]
    BY <1>1 DEF Context
  <2>4. new = IF old.inflight = <<>> /\ old.queued = <<>> THEN BookkeepingMoved(c, old)
              ELSE db__message_reconnect_reset(
                      [BookkeepingMoved(c, old) EXCEPT !.inflight = old.inflight,
                                                       !.queued = old.queued])
    BY <2>1, <2>2
  <2> HIDE DEF new, none, listed, fresh, half, full, sent, empty
  <2>5. ContextMoved(d, s, f)
          = [d EXCEPT !.ctx[s] = new, !.ctx[f].inflight = <<>>,
                      !.ctx[f].queued = <<>>, !.ctx[f].subs = {}]
    BY <2>4 DEF ContextMoved
  <2>6. @ = [e EXCEPT !.ctx[f] = [old EXCEPT !.inflight = <<>>, !.queued = <<>>, !.subs = {}]]
    BY <1>1, ZenonT(60) DEF Databases, Context
  <2> QED BY <2>3, <2>5, <2>6
<1>3. new \in Context /\ Session(new) = <<c.state, c.id, c.clean, old.subs>>
  <2> HIDE DEF c, old
  <2>1. listed \in Context /\ Session(listed) = <<c.state, c.id, c.clean, old.subs>>
    BY <1>1, SessionChanges
  <2> HIDE DEF listed
  <2>2. fresh \in Context /\ Session(fresh) = Session(listed)
    BY <1>1, <2>1, ContextChanges
  <2> HIDE DEF fresh
  <2>3. half \in Context /\ Session(half) = Session(fresh)
    BY <1>1, <2>2, ContextChanges
  <2> HIDE DEF half
  <2>4. full \in Context /\ Session(full) = Session(half)
    BY <1>1, <2>3, ContextChanges
  <2> HIDE DEF full
  <2> QED BY <2>1, <2>2, <2>3, <2>4, ResetType
<1>4. none \in Context /\ Session(none) = <<old.state, old.id, old.clean, {}>>
  <2> HIDE DEF c, old
  <2>1. sent \in Context /\ Session(sent) = Session(old)
    BY <1>1, ContextChanges
  <2> HIDE DEF sent
  <2>2. empty \in Context /\ Session(empty) = Session(sent)
    BY <1>1, <2>1, ContextChanges
  <2> HIDE DEF empty
  <2>3. none \in Context /\ Session(none) = <<empty.state, empty.id, empty.clean, {}>>
    BY <1>1, <2>2, SessionChanges
  <2> HIDE DEF none
  <2> QED BY <2>1, <2>2, <2>3 DEF Session
<1> HIDE DEF new, none
<1>5. /\ e \in Databases(n) /\ e.leaves = d.leaves /\ e.ctx[s] = new
      /\ \A r \in Slot \ {s} : e.ctx[r] = d.ctx[r]
  BY <1>3, ContextReplaced
<1> HIDE DEF e
<1>6. /\ g \in Databases(n) /\ g.leaves = e.leaves /\ g.ctx[f] = none
      /\ \A r \in Slot \ {f} : g.ctx[r] = e.ctx[r]
  BY <1>4, <1>5, ContextReplaced
<1> HIDE DEF g
<1> QED BY <1>2, <1>3, <1>4, <1>5, <1>6

LEMMA SessionMovedType ==
    ASSUME NEW n, NEW d \in Databases(n), NEW s \in Slot, NEW f \in Slot, s # f
    PROVE  /\ SessionMoved(d, s, f) \in Databases(n)
           /\ SessionMoved(d, s, f).ctx = ContextMoved(d, s, f).ctx
           /\ SessionMoved(d, s, f).leaves = Relinked(d.leaves, d.ctx[f].subs, s, f)
<1> DEFINE e == ContextMoved(d, s, f)
           moved == Relinked(d.leaves, d.ctx[f].subs, s, f)
<1>1. e \in Databases(n) /\ e.leaves = d.leaves
  BY MovedType
<1>2. moved \in SUBSET Leaf
  <2>1. d.leaves \in SUBSET Leaf
    BY DEF Databases
  <2>2. \A leaf \in Leaf : [leaf EXCEPT !.slot = s] \in Leaf
    BY DEF Leaf
  <2> QED BY <2>1, <2>2 DEF Relinked
<1>3. SessionMoved(d, s, f) = [e EXCEPT !.leaves = moved]
  BY <1>1 DEF SessionMoved, Databases, Relinked
<1> HIDE DEF e, moved
<1>4. /\ SessionMoved(d, s, f) \in Databases(n)
      /\ SessionMoved(d, s, f).ctx = e.ctx
      /\ SessionMoved(d, s, f).leaves = moved
  BY <1>1, <1>2, <1>3, LeavesReplaced
<1> QED BY <1>4 DEF e, moved

\* From d to e context f has given way to context s, whose session it
\* hands over, or gives up, or leaves as it is until it is cleaned up.
GivenWay(d, e, s, f) ==
    LET was == d.ctx[s]
        subs == d.ctx[f].subs
    IN  /\ \A r \in Slot \ {s, f} : e.ctx[r] = d.ctx[r]
        /\ \/ /\ e.leaves = Relinked(d.leaves, subs, s, f)
              /\ Session(e.ctx[s]) = <<was.state, was.id, was.clean, subs>>
              /\ Session(e.ctx[f]) = <<"disused", NoId, TRUE, {}>>
           \/ /\ e.leaves = Cleaned(d.leaves, subs, f)
              /\ e.ctx[s] = was
              /\ Session(e.ctx[f]) = <<"disused", NoId, TRUE, {}>>
           \/ /\ e.leaves = d.leaves
              /\ e.ctx[s] = was
              /\ Session(e.ctx[f]) = <<"disused", NoId, TRUE, subs>>

LEMMA TakenOverType ==
    ASSUME NEW n, NEW d \in Databases(n), NEW s \in Slot, NEW f \in Slot, s # f
    PROVE  TakenOver(d, s, f) \in Databases(n) /\ GivenWay(d, TakenOver(d, s, f), s, f)
<1> DEFINE e == TakenOver(d, s, f)
           was == d.ctx[s]
           subs == d.ctx[f].subs
           relinked == Relinked(d.leaves, subs, s, f)
           cleaned == Cleaned(d.leaves, subs, f)
           g == IF ~was.clean /\ ~d.ctx[f].clean THEN SessionMoved(d, s, f)
                ELSE IF was.clean THEN sub__clean_session(d, f) ELSE d
           ends == [g.ctx[f] EXCEPT !.clean = TRUE]
           h == [g EXCEPT !.ctx[f] = ends]
           Gone(x) == Session(x) = <<"disused", NoId, TRUE, g.ctx[f].subs>>
<1>1. /\ g \in Databases(n)
      /\ \A r \in Slot \ {s, f} : g.ctx[r] = d.ctx[r]
      /\ \/ /\ g.leaves = relinked
            /\ Session(g.ctx[s]) = <<was.state, was.id, was.clean, subs>>
            /\ g.ctx[f].subs = {}
         \/ g.leaves = cleaned /\ g.ctx[s] = was /\ g.ctx[f].subs = {}
         \/ g.leaves = d.leaves /\ g.ctx[s] = was /\ g.ctx[f].subs = subs
  <2>1. CASE ~was.clean /\ ~d.ctx[f].clean
    <3>1. g = SessionMoved(d, s, f)
      BY <2>1
    <3> HIDE DEF g
    <3>2. /\ g \in Databases(n) /\ g.ctx = ContextMoved(d, s, f).ctx
          /\ g.leaves = relinked
      BY <3>1, SessionMovedType
    <3> QED BY <3>2, MovedType DEF Session
  <2>2. CASE ~(~was.clean /\ ~d.ctx[f].clean) /\ was.clean
    <3>1. g = sub__clean_session(d, f)
      BY <2>2
    <3> HIDE DEF g
    <3> QED BY <3>1, CleanType, SMTT(30) DEF Session
  <2>3. CASE ~(~was.clean /\ ~d.ctx[f].clean) /\ ~was.clean
    <3>1. g = d
      BY <2>3
    <3> HIDE DEF g
    <3> QED BY <3>1
  <2> QED BY <2>1, <2>2, <2>3
<1>2. e = do_disconnect(h, f)
  <2>1. g \in Databases(n)
    BY <1>1
  <2>2. e = do_disconnect([g EXCEPT !.ctx[f].clean = TRUE], f)
    BY DEF TakenOver
  <2> HIDE DEF g, e
  <2>3. [g EXCEPT !.ctx[f].clean = TRUE] = h
    BY <2>1 DEF Databases, Context
  <2> QED BY <2>2, <2>3
<1> HIDE DEF g, e, relinked, cleaned
<1>3. g.ctx[f] \in Context
  BY <1>1 DEF Databases
<1>4. ends \in Context /\ ends.subs = g.ctx[f].subs /\ ends.clean = TRUE
  BY <1>3, SessionChanges DEF Session
<1> HIDE DEF ends
<1>5. /\ h \in Databases(n) /\ h.leaves = g.leaves /\ h.ctx[f] = ends
      /\ \A r \in Slot \ {f} : h.ctx[r] = g.ctx[r]
  BY <1>1, <1>4, ContextReplaced
<1> HIDE DEF h
<1>6. /\ e \in Databases(n)
      /\ e.leaves = h.leaves
      /\ \A r \in Slot \ {f} : e.ctx[r] = h.ctx[r]
      /\ Session(e.ctx[f]) = IF h.ctx[f].clean THEN <<"disused", NoId, TRUE, h.ctx[f].subs>>
                             ELSE <<"disconnected", h.ctx[f].id, FALSE, h.ctx[f].subs>>
  BY <1>2, <1>5, DisconnectType, ZenonT(60)
<1>7. /\ e \in Databases(n) /\ e.leaves = g.leaves
      /\ \A r \in Slot \ {f} : e.ctx[r] = g.ctx[r]
      /\ Gone(e.ctx[f])
  BY <1>4, <1>5, <1>6
<1>8. /\ \A r \in Slot \ {s, f} : e.ctx[r] = d.ctx[r]
      /\ e.ctx[s] = g.ctx[s]
  BY <1>1, <1>7
<1> QED BY <1>1, <1>7, <1>8, SMTT(30) DEF e, relinked, cleaned, GivenWay

\* The items of a list are let go of one after another.
LEMMA ReleasedRuns ==
    ASSUME NEW n, NEW d \in Databases(n), NEW list \in Seq(Item)
    PROVE  \E w : /\ w \in [0..Len(list) -> Databases(n)] /\ w[0] = d
                  /\ \A k \in 1..Len(list) : w[k] = db__msg_store_ref_dec(w[k - 1], list[k].msg)
                  /\ Released(d, list) = w[Len(list)]
<1> DEFINE N == Len(list)
           S == Databases(n)
           Next(e, k) == db__msg_store_ref_dec(e, list[k].msg)
           Step(f, k) == IF k = 0 THEN d ELSE Next(f[k - 1], k)
           Is(f) == f = [k \in 0..N |-> Step(f, k)]
           left == CHOOSE f : Is(f)
<1>1. N \in Nat /\ d \in S
  BY LenProperties
<1>2. \A k \in 1..N : \A e \in S : Next(e, k) \in S
  BY RefDec
<1>3. Released(d, list) = left[N]
  BY DEF Released
<1> HIDE DEF N, Next
<1>4. \E f \in [0..N -> S] : Is(f)
  <2> HIDE DEF S
  <2> DEFINE step == [k \in 1..N |-> [e \in S |-> Next(e, k)]]
  <2>1. step \in [1..N -> [S -> S]]
    BY <1>2
  <2>2. \A k \in 1..N : \A e \in S : step[k][e] = Next(e, k)
    OBVIOUS
  <2> HIDE DEF step
  <2>3. PICK f : Numbers!Runs(S, N, d, step, f)
    BY <1>1, <2>1, Numbers!Recursion DEF Numbers!Steps
  <2>4. f[0] = d /\ \A k \in 1..N : f[k] = step[k][f[k - 1]] /\ f[k - 1] \in S
    BY <1>1, <2>3 DEF Numbers!Runs
  <2>5. \A k \in 0..N : f[k] = Step(f, k)
    BY <1>1, <2>2, <2>4
  <2>6. f \in [0..N -> S] /\ f = [k \in 0..N |-> f[k]]
    BY <2>3 DEF Numbers!Runs
  <2> HIDE DEF Step
  <2> QED BY <2>5, <2>6
<1>5. Is(left)
  BY <1>4, Zenon
<1> HIDE DEF left
<1>6. \A k \in 0..N : left[k] = Step(left, k)
  BY <1>5
<1>7. left[0] \in S
  BY <1>1, <1>6
<1>8. \A k \in 1..N : left[k - 1] \in S => left[k] \in S
  <2> HIDE DEF S
  <2> QED BY <1>1, <1>2, <1>6
<1>9. \A k \in 0..N : left[k] \in S
  <2> HIDE DEF S
  <2> QED BY <1>1, <1>7, <1>8, Numbers!StaysInside
<1>10. left \in [0..N -> S]
  <2> HIDE DEF S, Step
  <2> QED BY <1>5, <1>9
<1>11. left[0] = d /\ \A k \in 1..N : left[k] = Next(left[k - 1], k)
  BY <1>1, <1>6
<1> HIDE DEF S, Step, Is
<1> QED BY <1>3, <1>10, <1>11 DEF S, N, Next

\* The context's messages are let go of: its own context, whatever it is,
\* and all the others stay.
LEMMA ReleasedType ==
    ASSUME NEW n, NEW d \in Databases(n), NEW list \in Seq(Item)
    PROVE  /\ Released(d, list) \in Databases(n)
           /\ Released(d, list).ctx = d.ctx
           /\ Released(d, list).leaves = d.leaves
           /\ Released(d, list).retained = d.retained
<1> DEFINE N == Len(list)
           S == {e \in Databases(n) : /\ e.ctx = d.ctx /\ e.leaves = d.leaves
                                      /\ e.retained = d.retained}
<1>1. PICK w : /\ w \in [0..N -> Databases(n)] /\ w[0] = d
               /\ \A k \in 1..N : w[k] = db__msg_store_ref_dec(w[k - 1], list[k].msg)
               /\ Released(d, list) = w[N]
  BY ReleasedRuns
<1>2. N \in Nat
  BY LenProperties
<1>3. \A k \in 1..N : w[k - 1] \in S => w[k] \in S
  BY <1>1, RefDec
<1>4. w[0] \in S
  BY <1>1
<1> HIDE DEF N, S
<1>5. \A k \in 0..N : w[k] \in S
  BY <1>2, <1>3, <1>4, Numbers!StaysInside
<1>6. w[N] \in S
  BY <1>2, <1>5
<1> QED BY <1>1, <1>6 DEF S

LEMMA CleanupType ==
    ASSUME NEW n, NEW d \in Databases(n), NEW s \in Slot
    PROVE  /\ context__cleanup(d, s) \in Databases(n)
           /\ context__cleanup(d, s).leaves
                = Cleaned(d.leaves, d.ctx[s].subs, s)
           /\ \A r \in Slot \ {s} : context__cleanup(d, s).ctx[r] = d.ctx[r]
           /\ context__cleanup(d, s).ctx[s] = NewContext
<1> DEFINE e == sub__clean_session(d, s)
           f == [e EXCEPT !.ctx[s] = NewContext]
           list == d.ctx[s].inflight \o d.ctx[s].queued
           left == Cleaned(d.leaves, d.ctx[s].subs, s)
<1>1. e \in Databases(n) /\ e.leaves = left /\ \A r \in Slot \ {s} : e.ctx[r] = d.ctx[r]
  BY CleanType
<1>2. list \in Seq(Item)
  BY ConcatProperties DEF Databases, Context
<1>3. context__cleanup(d, s) = Released(f, list)
  BY DEF context__cleanup
<1> HIDE DEF e, list, left
<1>4. /\ f \in Databases(n) /\ f.leaves = e.leaves /\ f.ctx[s] = NewContext
      /\ \A r \in Slot \ {s} : f.ctx[r] = e.ctx[r]
  BY <1>1, NewContextType, ContextReplaced
<1> HIDE DEF f
<1>5. /\ Released(f, list) \in Databases(n)
      /\ Released(f, list).ctx = f.ctx /\ Released(f, list).leaves = f.leaves
  BY <1>2, <1>4, ReleasedType
<1> QED BY <1>1, <1>3, <1>4, <1>5 DEF left

\* The contexts of this client id have given way to context s.
Cleared(d, s, m) ==
    LET found == {f \in Slot \ {s} : d.ctx[f].id = m}
    IN  IF found = {} THEN d ELSE TakenOver(d, s, Min(found))

LEMMA ClearedFacts ==
    ASSUME NEW n, NEW d \in Databases(n), NEW s \in Slot, NEW m
    PROVE  \/ /\ Cleared(d, s, m) = d
              /\ \A f \in Slot \ {s} : d.ctx[f].id # m
           \/ \E f \in Slot \ {s} : d.ctx[f].id = m /\ Cleared(d, s, m) = TakenOver(d, s, f)
<1> DEFINE found == {f \in Slot \ {s} : d.ctx[f].id = m}
<1>1. CASE found = {}
  BY <1>1 DEF Cleared
<1>2. CASE found # {}
  <2>1. found \subseteq Nat
    BY DEF Slot
  <2>2. Min(found) \in found
    <3> HIDE DEF found
    <3> QED BY <1>2, <2>1, SmallestExists
  <2>3. Cleared(d, s, m) = TakenOver(d, s, Min(found))
    BY <1>2 DEF Cleared
  <2> QED BY <2>2, <2>3
<1> QED BY <1>1, <1>2

\* Context s has become m's active one: the rest of r is as in e.
NowActive(e, r, s, m) ==
    /\ r.leaves = e.leaves
    /\ \A q \in Slot \ {s} : r.ctx[q] = e.ctx[q]
    /\ Session(r.ctx[s]) = <<"active", m, e.ctx[s].clean, e.ctx[s].subs>>

LEMMA ConnectedType ==
    ASSUME NEW n, NEW d \in Databases(n), NEW s \in Slot, NEW m \in Node
    PROVE  /\ Cleared(d, s, m) \in Databases(n) /\ connect__on_authorised(d, s, m) \in Databases(n)
           /\ NowActive(Cleared(d, s, m), connect__on_authorised(d, s, m), s, m)
<1> DEFINE e == Cleared(d, s, m)
           c == e.ctx[s]
           one == [c EXCEPT !.state = "active"]
           two == [one EXCEPT !.id = m]
           active == [e EXCEPT !.ctx[s] = two]
           moved == [active EXCEPT !.ctx[s] = db__message_write_queued_out(@)]
           r == connect__on_authorised(d, s, m)
<1>1. e \in Databases(n)
  <2>1. e = d \/ \E f \in Slot \ {s} : e = TakenOver(d, s, f)
    BY ClearedFacts
  <2>2. \A f \in Slot \ {s} : TakenOver(d, s, f) \in Databases(n)
    BY TakenOverType
  <2> HIDE DEF e
  <2> QED BY <2>1, <2>2
<1>2. r = db__message_write_inflight_out_all(moved, s)
  <2>1. c \in Context
    BY <1>1 DEF Databases
  <2>2. [e EXCEPT !.ctx[s].state = "active", !.ctx[s].id = m] = active
    BY <1>1, <2>1 DEF Databases, Context
  <2> HIDE DEF active
  <2>3. r = db__message_write_inflight_out_all(
              [[e EXCEPT !.ctx[s].state = "active", !.ctx[s].id = m]
                  EXCEPT !.ctx[s] = db__message_write_queued_out(@)], s)
    BY DEF connect__on_authorised, Cleared
  <2> HIDE DEF r, e
  <2> QED BY <2>2, <2>3
<1> HIDE DEF e, r
<1>3. c \in Context /\ "active" \in ContextState
  BY <1>1 DEF Databases, ContextState
<1> HIDE DEF c
<1>4. one \in Context /\ Session(one) = <<"active", c.id, c.clean, c.subs>>
  BY <1>3, SessionChanges
<1> HIDE DEF one
<1>5. two \in Context /\ Session(two) = <<one.state, m, one.clean, one.subs>>
  BY <1>4, SessionChanges
<1>6. Session(two) = <<"active", m, c.clean, c.subs>>
  BY <1>4, <1>5 DEF Session
<1> HIDE DEF two
<1>7. /\ active \in Databases(n) /\ active.leaves = e.leaves /\ active.ctx[s] = two
      /\ \A q \in Slot \ {s} : active.ctx[q] = e.ctx[q]
  BY <1>1, <1>5, ContextReplaced
<1> HIDE DEF active
<1>8. moved \in Databases(n) /\ OnlyMessages(active, moved, s)
  BY <1>7, QueueWritten
<1> HIDE DEF moved
<1>9. r \in Databases(n) /\ OnlyMessages(moved, r, s)
  BY <1>2, <1>8, AllWritten DEF db__message_write_inflight_out_all
<1>10. OnlyMessages(active, r, s)
  BY <1>8, <1>9, OnlyMessagesTransitive
<1>11. /\ r.leaves = active.leaves
       /\ \A q \in Slot \ {s} : r.ctx[q] = active.ctx[q]
       /\ Session(r.ctx[s]) = Session(active.ctx[s])
  BY <1>10 DEF OnlyMessages
<1> QED BY <1>1, <1>6, <1>7, <1>9, <1>11 DEF e, r, c, NowActive

LEMMA FewLeaves ==
    ASSUME NEW leaves, NEW subs, NEW s, NEW f, IsFiniteSet(leaves)
    PROVE  IsFiniteSet(Cleaned(leaves, subs, s)) /\ IsFiniteSet(Relinked(leaves, subs, s, f))
<1>1. Cleaned(leaves, subs, s) \in SUBSET leaves
  BY DEF Cleaned
<1> DEFINE g == [leaf \in leaves |-> IF leaf.slot = f /\ leaf.topic \in subs
                                     THEN [leaf EXCEPT !.slot = s] ELSE leaf]
<1>2. Relinked(leaves, subs, s, f) = {g[leaf] : leaf \in leaves}
  BY DEF Relinked
<1>3. DOMAIN g = leaves
  OBVIOUS
<1> HIDE DEF g
<1> QED BY <1>1, <1>2, <1>3, FS_Subset, ImageIsFinite

(* The contexts of D, freed one after the other *)
Freed(d, D) ==
    LET freed[s \in 0..Slots] ==
            IF s = 0 THEN d
            ELSE IF s \in D THEN context__cleanup(freed[s - 1], s) ELSE freed[s - 1]
    IN  freed[Slots]

\* What holds of d and what no clean-up ends holds when all are freed.
LEMMA FreedInside ==
    ASSUME NEW S, NEW d \in S, NEW D,
           \A e \in S : \A s \in Slot \cap D : context__cleanup(e, s) \in S
    PROVE  Freed(d, D) \in S
<1> DEFINE N == Slots
           Next(e, k) == IF k \in D THEN context__cleanup(e, k) ELSE e
           Step(f, k) == IF k = 0 THEN d ELSE Next(f[k - 1], k)
           Is(f) == f = [k \in 0..N |-> Step(f, k)]
           freed == CHOOSE f : Is(f)
<1>1. N \in Nat /\ Slot = 1..N
  BY BrokerAssumption DEF Slot
<1>2. \A k \in 1..N : \A e \in S : Next(e, k) \in S
  BY <1>1
<1>3. Freed(d, D) = freed[N]
  <2>1. \A f, k : Step(f, k) = IF k = 0 THEN d
                               ELSE IF k \in D THEN context__cleanup(f[k - 1], k) ELSE f[k - 1]
    OBVIOUS
  <2> QED BY DEF Freed
<1> HIDE DEF N, Next
<1>4. \E f \in [0..N -> S] : Is(f)
  <2> DEFINE step == [k \in 1..N |-> [e \in S |-> Next(e, k)]]
  <2>1. step \in [1..N -> [S -> S]]
    BY <1>2
  <2>2. \A k \in 1..N : \A e \in S : step[k][e] = Next(e, k)
    OBVIOUS
  <2> HIDE DEF step
  <2>3. PICK f : Numbers!Runs(S, N, d, step, f)
    BY <1>1, <2>1, Numbers!Recursion DEF Numbers!Steps
  <2>4. f[0] = d /\ \A k \in 1..N : f[k] = step[k][f[k - 1]] /\ f[k - 1] \in S
    BY <1>1, <2>3 DEF Numbers!Runs
  <2>5. \A k \in 0..N : f[k] = Step(f, k)
    BY <1>1, <2>2, <2>4
  <2>6. f \in [0..N -> S] /\ f = [k \in 0..N |-> f[k]]
    BY <2>3 DEF Numbers!Runs
  <2> HIDE DEF Step
  <2> QED BY <2>5, <2>6
<1>5. Is(freed)
  BY <1>4, Zenon
<1> HIDE DEF freed
<1>6. \A k \in 0..N : freed[k] = Step(freed, k)
  BY <1>5
<1>7. freed[0] \in S
  BY <1>1, <1>6
<1>8. \A k \in 1..N : freed[k - 1] \in S => freed[k] \in S
  BY <1>1, <1>2, <1>6
<1>9. \A k \in 0..N : freed[k] \in S
  BY <1>1, <1>7, <1>8, Numbers!StaysInside
<1> QED BY <1>1, <1>3, <1>9

LEMMA StoreType ==
    ASSUME NEW n \in Nat, NEW d \in Databases(n)
    PROVE  /\ db__message_store(d, n + 1) \in Databases(n + 1)
           /\ db__message_store(d, n + 1).ctx = d.ctx
           /\ db__message_store(d, n + 1).leaves = d.leaves
<1> DEFINE m == n + 1
           w == [k \in DOMAIN d.store \cup {m} |->
                    IF k = m THEN [ref |-> 0, dest |-> {}] ELSE d.store[k]]
<1>1. PICK A \in SUBSET (1..n) : d.store \in [A -> StoredMessage]
  BY DEF Databases, Stores
<1>2. [ref |-> 0, dest |-> {}] \in StoredMessage
  BY DEF StoredMessage
<1>3. A \cup {m} \in SUBSET (1..m) /\ w \in [A \cup {m} -> StoredMessage]
  BY <1>1, <1>2
<1>4. w \in Stores(m)
  BY <1>3 DEF Stores
<1>5. d.retained \in [Topic -> 0..m]
  <2>1. d.retained \in [Topic -> 0..n] /\ 0..n \subseteq 0..m
    BY DEF Databases
  <2> QED BY <2>1
<1>6. db__message_store(d, m) = [d EXCEPT !.store = w]
  BY DEF db__message_store, Databases
<1> HIDE DEF m, w
<1> QED BY <1>4, <1>5, <1>6 DEF m, Databases

-----------------------------------------------------------------------------
(* The broker's state and what is left of its history *)

TypeInv ==
    /\ published \in Seq(Topic) /\ Len(published) <= MaxPublish
    /\ db \in Databases(Len(published)) /\ IsFiniteSet(db.leaves)
    /\ link \in [Node -> 0..Slots]
    /\ sub_qos \in [Node -> {0, 1}]

LEMMA TypeInit == BrokerInit => TypeInv
<1> SUFFICES ASSUME BrokerInit PROVE TypeInv
  OBVIOUS
<1>1. published \in Seq(Topic) /\ Len(published) = 0
  BY EmptySeq, LenProperties DEF BrokerInit
<1>2. <<>> \in Stores(0)
  <2>1. <<>> \in [{} -> StoredMessage] /\ {} \in SUBSET (1..0)
    OBVIOUS
  <2> QED BY <2>1, Zenon DEF Stores
<1>3. db \in Databases(0)
  BY <1>2, NewContextType DEF BrokerInit, Databases, NoMessage
<1>4. IsFiniteSet(db.leaves)
  BY FS_EmptySet DEF BrokerInit
<1>5. link \in [Node -> 0..Slots] /\ sub_qos \in [Node -> {0, 1}]
  BY BrokerAssumption DEF BrokerInit, NoSlot
<1> QED BY <1>1, <1>3, <1>4, <1>5, BrokerAssumption DEF TypeInv

\* The steps that only change the database, for the messages published so far
LEMMA TypeKept ==
    ASSUME TypeInv, db' \in Databases(Len(published)), IsFiniteSet(db'.leaves),
           link' \in [Node -> 0..Slots], UNCHANGED <<published, sub_qos>>
    PROVE  TypeInv'
  BY DEF TypeInv

LEMMA PublishType ==
    ASSUME TypeInv, NEW t \in Topic, handle__publish(t)
    PROVE  TypeInv' /\ SessionsStay(db, db')
<1> DEFINE n == Len(published) + 1
           stored == db__message_store(db, n)
<1>1. /\ published' = Append(published, t) /\ Len(published) < MaxPublish
      /\ db' = sub__messages_queue(stored, t, n)
      /\ link' = link /\ sub_qos' = sub_qos
  BY DEF handle__publish
<1>2. Len(published) \in Nat
  BY LenProperties DEF TypeInv
<1>3. published' \in Seq(Topic) /\ Len(published') = n /\ n <= MaxPublish /\ n \in 1..n
  BY <1>1, <1>2, AppendProperties, BrokerAssumption DEF TypeInv
<1>4. stored \in Databases(n) /\ stored.ctx = db.ctx /\ stored.leaves = db.leaves
  BY <1>2, StoreType DEF TypeInv
<1>5. IsFiniteSet(stored.leaves) /\ SessionsStay(db, stored)
  BY <1>4, SessionsStayFacts DEF TypeInv
<1> HIDE DEF n, stored
<1>6. n \in Nat
  BY <1>2 DEF n
<1>7. db' \in Databases(n) /\ SessionsStay(stored, db')
  BY <1>1, <1>3, <1>4, <1>5, <1>6, QueuedType
<1>8. SessionsStay(db, db') /\ db'.leaves = db.leaves
  BY <1>4, <1>5, <1>7, SessionsStayFacts DEF SessionsStay
<1> QED BY <1>1, <1>3, <1>7, <1>8 DEF TypeInv

LEMMA ConnectType ==
    ASSUME TypeInv, NEW n \in Node, NEW clean \in BOOLEAN, handle__connect(n, clean)
    PROVE  LET s == Min(FreeSlots)
               d == [db EXCEPT !.ctx[s].clean = clean]
           IN  /\ s \in FreeSlots /\ d \in Databases(Len(published)) /\ d.leaves = db.leaves
               /\ \A r \in Slot \ {s} : d.ctx[r] = db.ctx[r]
               /\ Session(d.ctx[s]) = <<"free", db.ctx[s].id, clean, db.ctx[s].subs>>
               /\ db' = connect__on_authorised(d, s, n)
               /\ link' = [link EXCEPT ![n] = s]
               /\ IsFiniteSet(Cleared(d, s, n).leaves)
               /\ TypeInv'
<1> DEFINE s == Min(FreeSlots)
           d == [db EXCEPT !.ctx[s].clean = clean]
           e == Cleared(d, s, n)
           p == Len(published)
<1>1. db \in Databases(p) /\ IsFiniteSet(db.leaves)
  BY DEF TypeInv
<1>2. s \in FreeSlots /\ s \in Slot /\ db.ctx[s].state = "free"
  <2>1. FreeSlots \subseteq Nat /\ FreeSlots # {}
    BY DEF FreeSlots, Slot, handle__connect
  <2>2. s \in FreeSlots
    BY <2>1, SmallestExists
  <2> HIDE DEF s
  <2> QED BY <2>2 DEF FreeSlots
<1>3. db' = connect__on_authorised(d, s, n)
  BY DEF handle__connect
<1>4. link' = [link EXCEPT ![n] = s]
  BY DEF handle__connect
<1>5. UNCHANGED <<published, sub_qos>>
  BY DEF handle__connect
<1> HIDE DEF s, p
<1>6. /\ d \in Databases(p) /\ d.leaves = db.leaves
      /\ \A r \in Slot \ {s} : d.ctx[r] = db.ctx[r]
      /\ Session(d.ctx[s]) = <<"free", db.ctx[s].id, clean, db.ctx[s].subs>>
  <2> DEFINE c == [db.ctx[s] EXCEPT !.clean = clean]
  <2>1. db.ctx[s] \in Context
    BY <1>1, <1>2 DEF Databases
  <2>2. c \in Context /\ Session(c) = <<"free", db.ctx[s].id, clean, db.ctx[s].subs>>
    BY <1>2, <2>1, SessionChanges
  <2>3. d = [db EXCEPT !.ctx[s] = c]
    BY <1>1, <1>2, <2>1 DEF Databases
  <2> HIDE DEF c, d
  <2> QED BY <1>1, <1>2, <2>2, <2>3, ContextReplaced
<1> HIDE DEF d
<1>7. IsFiniteSet(e.leaves)
  <2>1. e = d \/ \E f \in Slot \ {s} : e = TakenOver(d, s, f)
    BY <1>2, <1>6, ClearedFacts
  <2>2. ASSUME NEW f \in Slot \ {s}
        PROVE  \/ TakenOver(d, s, f).leaves = Relinked(d.leaves, d.ctx[f].subs, s, f)
               \/ TakenOver(d, s, f).leaves = Cleaned(d.leaves, d.ctx[f].subs, f)
               \/ TakenOver(d, s, f).leaves = d.leaves
    <3>1. f \in Slot /\ s # f /\ s \in Slot /\ d \in Databases(p)
      BY <1>2, <1>6
    <3>2. GivenWay(d, TakenOver(d, s, f), s, f)
      BY <3>1, TakenOverType
    <3> QED BY <3>2 DEF GivenWay
  <2>3. \A f \in Slot \ {s} : IsFiniteSet(TakenOver(d, s, f).leaves)
    BY <1>1, <1>6, <2>2, FewLeaves
  <2> HIDE DEF e
  <2> QED BY <1>1, <1>6, <2>1, <2>3
<1>8. db' \in Databases(p) /\ db'.leaves = e.leaves
  BY <1>2, <1>3, <1>6, ConnectedType DEF NowActive
<1>9. link' \in [Node -> 0..Slots]
  <2>1. s \in 0..Slots /\ link \in [Node -> 0..Slots]
    BY <1>2 DEF Slot, TypeInv
  <2> QED BY <1>4, <2>1
<1>10. TypeInv'
  BY <1>5, <1>7, <1>8, <1>9, TypeKept DEF p
<1> QED BY <1>2, <1>3, <1>4, <1>6, <1>7, <1>10 DEF s, d, p

LEMMA SubscribeType ==
    ASSUME TypeInv, NEW n \in Node, NEW t \in Topic, NEW taken \in BOOLEAN,
           handle__subscribe(n, t, taken)
    PROVE  LET d == sub__add(db, link[n], t, sub_qos[n])
           IN  /\ link[n] \in Slot
               /\ d \in Databases(Len(published)) /\ IsFiniteSet(d.leaves)
               /\ OnlyMessages(d, db', link[n])
               /\ TypeInv'
<1> DEFINE s == link[n]
           p == Len(published)
           d == sub__add(db, s, t, sub_qos[n])
           e == retain__process(d, s, t, sub_qos[n])
           moved == [e EXCEPT !.ctx[s] = db__message_write_queued_out(@)]
<1>1. /\ db \in Databases(p) /\ IsFiniteSet(db.leaves) /\ p \in Nat /\ p <= MaxPublish
      /\ sub_qos[n] \in {0, 1} /\ link \in [Node -> 0..Slots]
  BY LenProperties DEF TypeInv
<1>2. s \in Slot
  <2>1. s # 0
    BY DEF handle__subscribe, Requests, NoSlot
  <2> QED BY <1>1, <2>1, BrokerAssumption DEF Slot
<1>3. /\ db' = e \/ db' = db__message_write_inflight_out_latest(moved, s)
      /\ UNCHANGED <<published, link, sub_qos>>
  BY DEF handle__subscribe
<1> HIDE DEF s, p
<1>4. d \in Databases(p) /\ IsFiniteSet(d.leaves)
  BY <1>1, <1>2, AddType
<1> HIDE DEF d
<1>5. e \in Databases(p) /\ OnlyMessages(d, e, s)
  BY <1>1, <1>2, <1>4, CopyType
<1> HIDE DEF e
<1>6. moved \in Databases(p) /\ OnlyMessages(e, moved, s)
  BY <1>2, <1>5, QueueWritten
<1> HIDE DEF moved
<1>7. /\ db__message_write_inflight_out_latest(moved, s) \in Databases(p)
      /\ OnlyMessages(moved, db__message_write_inflight_out_latest(moved, s), s)
  BY <1>2, <1>6, LatestWritten
<1>8. db' \in Databases(p) /\ OnlyMessages(d, db', s)
  BY <1>3, <1>5, <1>6, <1>7, OnlyMessagesTransitive
<1>9. IsFiniteSet(db'.leaves)
  BY <1>4, <1>8 DEF OnlyMessages
<1>10. TypeInv'
  BY <1>1, <1>3, <1>8, <1>9, TypeKept DEF p
<1> QED BY <1>2, <1>4, <1>8, <1>10 DEF s, p, d

LEMMA UnsubscribeType ==
    ASSUME TypeInv, NEW n \in Node, NEW t \in Topic, handle__unsubscribe(n, t)
    PROVE  link[n] \in Slot /\ db' = sub__remove(db, link[n], t) /\ link' = link /\ TypeInv'
<1>1. link[n] \in Slot
  <2>1. link[n] # 0 /\ link[n] \in 0..Slots
    BY DEF handle__unsubscribe, Requests, NoSlot, TypeInv
  <2> QED BY <2>1, BrokerAssumption DEF Slot
<1>2. db' = sub__remove(db, link[n], t) /\ UNCHANGED <<published, link, sub_qos>>
  BY DEF handle__unsubscribe
<1>3. db \in Databases(Len(published)) /\ IsFiniteSet(db.leaves)
  BY DEF TypeInv
<1>4. db' \in Databases(Len(published)) /\ db'.leaves \in SUBSET db.leaves
  BY <1>1, <1>2, <1>3, RemoveType
<1>5. TypeInv'
  BY <1>2, <1>3, <1>4, FS_Subset, TypeKept DEF TypeInv
<1> QED BY <1>1, <1>2, <1>5

LEMMA PubackType ==
    ASSUME TypeInv, NEW s \in Slot, handle__pubackcomp(s)
    PROVE  TypeInv' /\ OnlyMessages(db, db', s) /\ link' = link
<1> DEFINE c == db.ctx[s]
           quota == IF c.quota < InflightMax THEN c.quota + 1 ELSE c.quota
           d == [db EXCEPT !.ctx[s].quota = quota]
           p == Len(published)
<1>1. db \in Databases(p) /\ IsFiniteSet(db.leaves) /\ c \in Context
  BY DEF TypeInv, Databases
<1>2. quota \in 0..InflightMax
  <2>1. c.quota \in 0..InflightMax
    BY <1>1 DEF Context
  <2> QED BY <2>1, BrokerAssumption
<1>3. /\ db' = db__message_delete_outgoing(d, s, Head(acks[s]))
      /\ UNCHANGED <<published, link, sub_qos>>
  BY DEF handle__pubackcomp
<1> HIDE DEF quota, p
<1>4. d \in Databases(p) /\ OnlyMessages(db, d, s)
  <2>1. d = [db EXCEPT !.ctx[s] = [db.ctx[s] EXCEPT !.quota = quota]]
    BY <1>1 DEF Databases
  <2> QED BY <1>1, <1>2, <2>1, ContextChanges, MessagesReplaced
<1> HIDE DEF d
<1>5. db' \in Databases(p) /\ OnlyMessages(d, db', s)
  BY <1>3, <1>4, DeletedType
<1>6. OnlyMessages(db, db', s) /\ IsFiniteSet(db'.leaves)
  BY <1>1, <1>4, <1>5, OnlyMessagesTransitive DEF OnlyMessages
<1>7. TypeInv'
  BY <1>3, <1>5, <1>6, TypeKept DEF p, TypeInv
<1> QED BY <1>3, <1>6, <1>7

\* The end of the connection of context s, which one or the other side asks for
LEMMA EndType ==
    ASSUME TypeInv, NEW s \in Slot, db' = do_disconnect(db, s),
           link' \in [Node -> 0..Slots], UNCHANGED <<published, sub_qos>>
    PROVE  TypeInv'
<1>1. db \in Databases(Len(published)) /\ IsFiniteSet(db.leaves)
  BY DEF TypeInv
<1>2. db' \in Databases(Len(published)) /\ db'.leaves = db.leaves
  BY <1>1, DisconnectType
<1> QED BY <1>1, <1>2, TypeKept

LEMMA DisconnectedType ==
    ASSUME TypeInv, NEW n \in Node, handle__disconnect(n)
    PROVE  /\ link[n] \in Slot /\ db' = do_disconnect(db, link[n])
           /\ link' = [link EXCEPT ![n] = NoSlot] /\ TypeInv'
<1>1. link[n] \in Slot /\ link \in [Node -> 0..Slots]
  <2>1. link[n] # 0 /\ link \in [Node -> 0..Slots]
    BY DEF handle__disconnect, Requests, NoSlot, TypeInv
  <2> QED BY <2>1, BrokerAssumption DEF Slot
<1>2. /\ db' = do_disconnect(db, link[n]) /\ UNCHANGED <<published, sub_qos>>
      /\ link' = [link EXCEPT ![n] = NoSlot]
  BY DEF handle__disconnect
<1>3. link' \in [Node -> 0..Slots]
  BY <1>1, <1>2, BrokerAssumption DEF NoSlot
<1>4. TypeInv'
  BY <1>1, <1>2, <1>3, EndType
<1> QED BY <1>1, <1>2, <1>4

LEMMA FreedType ==
    ASSUME TypeInv, context__free_disused
    PROVE  db' = Freed(db, Disused) /\ link' = link /\ TypeInv'
<1> DEFINE p == Len(published)
           S == {e \in Databases(p) : IsFiniteSet(e.leaves)}
<1>1. db \in S
  BY DEF TypeInv
<1>2. \A e \in S : \A s \in Slot \cap Disused : context__cleanup(e, s) \in S
  <2>1. \A leaves, subs, s : IsFiniteSet(leaves) => IsFiniteSet(Cleaned(leaves, subs, s))
    BY FewLeaves
  <2> QED BY <2>1, CleanupType
<1>3. db' = Freed(db, Disused) /\ UNCHANGED <<published, link, sub_qos>>
  BY DEF context__free_disused, Freed
<1>4. db' \in S
  <2> HIDE DEF S
  <2> QED BY <1>1, <1>2, <1>3, FreedInside
<1>5. TypeInv'
  BY <1>3, <1>4, TypeKept DEF TypeInv
<1> QED BY <1>3, <1>5

LEMMA ReceivesType ==
    ASSUME TypeInv, NEW n \in Node, NodeReceives(n)
    PROVE  link[n] \in Slot /\ OnlyMessages(db, db', link[n]) /\ link' = link /\ TypeInv'
<1> DEFINE s == link[n]
           p == Len(published)
           o == Tail(db.ctx[s].out)
<1>1. db \in Databases(p) /\ IsFiniteSet(db.leaves) /\ link \in [Node -> 0..Slots]
  BY DEF TypeInv
<1>2. s \in Slot /\ db.ctx[s].out # <<>>
  <2>1. s # 0 /\ db.ctx[s].out # <<>>
    BY DEF NodeReceives, NoSlot
  <2> QED BY <1>1, <2>1, BrokerAssumption DEF Slot
<1>3. db.ctx[s] \in Context /\ o \in Seq(Item)
  <2>1. db.ctx[s] \in Context
    BY <1>1, <1>2 DEF Databases
  <2> QED BY <1>2, <2>1, HeadTailProperties DEF Context
<1>4. db' = [db EXCEPT !.ctx[s].out = Tail(@)] /\ UNCHANGED <<published, link, sub_qos>>
  BY DEF NodeReceives
<1>5. db' = [db EXCEPT !.ctx[s] = [db.ctx[s] EXCEPT !.out = o]]
  BY <1>1, <1>2, <1>4 DEF Databases
<1> HIDE DEF s, p, o
<1>6. db' \in Databases(p) /\ OnlyMessages(db, db', s)
  BY <1>1, <1>2, <1>3, <1>5, ContextChanges, MessagesReplaced
<1>7. IsFiniteSet(db'.leaves)
  BY <1>1, <1>6 DEF OnlyMessages
<1>8. TypeInv'
  BY <1>1, <1>4, <1>6, <1>7, TypeKept DEF p
<1> QED BY <1>2, <1>4, <1>6, <1>8 DEF s

LEMMA TypeStep ==
    ASSUME TypeInv, [BrokerNext]_vars
    PROVE  TypeInv'
<1>1. CASE context__free_disused
  BY <1>1, FreedType
<1>2. CASE \E t \in Topic : handle__publish(t)
  BY <1>2, PublishType
<1>3. CASE \E s \in Slot : handle__pubackcomp(s)
  BY <1>3, PubackType
<1>4. CASE \E s \in Slot : keepalive__check(s)
  BY <1>4, EndType DEF keepalive__check, TypeInv
<1>5. CASE \E n \in Node, clean \in BOOLEAN : handle__connect(n, clean)
  BY <1>5, ConnectType
<1>6. CASE \E n \in Node, t \in Topic, taken \in BOOLEAN : handle__subscribe(n, t, taken)
  BY <1>6, SubscribeType
<1>7. CASE \E n \in Node, t \in Topic : handle__unsubscribe(n, t)
  BY <1>7, UnsubscribeType
<1>8. CASE \E n \in Node : handle__disconnect(n)
  BY <1>8, DisconnectedType
<1>9. CASE \E n \in Node : NodeReceives(n)
  BY <1>9, ReceivesType
<1>10. CASE \E n \in Node : LinkLost(n)
  <2>1. /\ link' \in [Node -> 0..Slots]
        /\ UNCHANGED <<db, published, sub_qos>>
    BY <1>10, BrokerAssumption DEF LinkLost, NoSlot, TypeInv
  <2> QED BY <2>1 DEF TypeInv
<1>11. CASE UNCHANGED vars
  BY <1>11 DEF vars, TypeInv
<1> QED BY <1>1, <1>2, <1>3, <1>4, <1>5, <1>6, <1>7, <1>8, <1>9, <1>10, <1>11 DEF BrokerNext

(* Type correctness: whatever the nodes, the connections and the main loop do,
   in whatever order, the broker's contexts, subscriptions, message store and
   retained messages are well formed.  Says so of src/database.c, src/subs.c,
   src/context.c and the packet handlers; the quotas never leave their range,
   packet identifiers wrap, and nothing retained was never published. *)
THEOREM BrokerTypeCorrect == BrokerSpec => []TypeOK
<1>1. TypeInv => TypeOK
  <2> SUFFICES ASSUME TypeInv PROVE TypeOK
    OBVIOUS
  <2>1. db \in Databases(Len(published))
    BY DEF TypeInv
  <2>2. ASSUME NEW s \in Slot
        PROVE  LET c == db.ctx[s] IN
               /\ c.state \in {"free", "active", "disconnected", "disused"}
               /\ c.id \in Node \cup {NoId} /\ c.subs \subseteq Topic
               /\ c.quota \in 0..InflightMax /\ c.last_mid \in Mid
               /\ Range(c.inflight) \cup Range(c.queued) \cup Range(c.out) \subseteq Item
    <3> DEFINE c == db.ctx[s]
    <3>1. c \in Context
      BY <2>1 DEF Databases
    <3>2. \A list \in Seq(Item) : Range(list) \subseteq Item
      BY ElementOfSeq, LenProperties DEF Range
    <3>3. Range(c.inflight) \cup Range(c.queued) \cup Range(c.out) \subseteq Item
      BY <3>1, <3>2 DEF Context
    <3>4. /\ c.state \in {"free", "active", "disconnected", "disused"}
          /\ c.id \in Node \cup {NoId} /\ c.subs \subseteq Topic
          /\ c.quota \in 0..InflightMax /\ c.last_mid \in Mid
      BY <3>1 DEF Context, ContextState
    <3> HIDE DEF c
    <3> QED BY <3>3, <3>4 DEF c
  <2>3. db.leaves \subseteq [topic : Topic, slot : Slot, qos : {0, 1}]
    BY <2>1 DEF Databases, Leaf
  <2>4. DOMAIN db.store \subseteq DOMAIN published
    <3>1. DOMAIN published = 1..Len(published)
      BY LenProperties DEF TypeInv
    <3>2. DOMAIN db.store \subseteq 1..Len(published)
      BY <2>1 DEF Databases, Stores
    <3> QED BY <3>1, <3>2
  <2>5. \A t \in Topic : db.retained[t] \in 0..Len(published)
    BY <2>1 DEF Databases
  <2>6. link \in [Node -> 0..Slots]
    BY DEF TypeInv
  <2> QED BY <2>2, <2>3, <2>4, <2>5, <2>6, Zenon DEF TypeOK
<1>2. BrokerInit => TypeInv
  BY TypeInit
<1>3. TypeInv /\ [BrokerNext]_vars => TypeInv'
  BY TypeStep
<1> QED BY <1>1, <1>2, <1>3, PTL DEF BrokerSpec

-----------------------------------------------------------------------------
(* The subscription tree, the contexts' own lists and the client ids *)

\* Leaves and lists agree: one leaf for each topic of a list, and no other.
Listed(d) ==
    /\ \A l, m \in d.leaves : l.topic = m.topic /\ l.slot = m.slot => l = m
    /\ \A l \in d.leaves : l.topic \in d.ctx[l.slot].subs
    /\ \A s \in Slot : \A t \in d.ctx[s].subs :
        \E l \in d.leaves : l.topic = t /\ l.slot = s

\* A context that is free or given up has no id, a free one no subscription
\* either, and no id has two contexts.
Named(d) ==
    /\ \A s \in Slot : d.ctx[s].state = "free" => d.ctx[s].subs = {}
    /\ \A s \in Slot : d.ctx[s].state \in {"free", "disused"} => d.ctx[s].id = NoId
    /\ \A r, s \in Slot : d.ctx[r].id = d.ctx[s].id /\ d.ctx[r].id # NoId => r = s

\* A node's end of a connection belongs to the active context of its id.
Linked(d, l) ==
    \A n \in Node : l[n] # NoSlot => d.ctx[l[n]].state = "active" /\ d.ctx[l[n]].id = n

SessionInv == Listed(db) /\ Named(db) /\ Linked(db, link)

LEMMA SessionInit == BrokerInit => SessionInv
<1> SUFFICES ASSUME BrokerInit PROVE SessionInv
  OBVIOUS
<1>1. /\ db.leaves = {} /\ \A n \in Node : link[n] = NoSlot
      /\ \A s \in Slot : db.ctx[s] = NewContext
  BY DEF BrokerInit
<1>2. NewContext.state = "free" /\ NewContext.id = NoId /\ NewContext.subs = {}
  BY DEF NewContext
<1> QED BY <1>1, <1>2 DEF SessionInv, Listed, Named, Linked

\* Messages come and go: the sessions stay as they are.
LEMMA SessionsKept ==
    ASSUME NEW d, NEW e, NEW n, NEW m, NEW l \in [Node -> 0..Slots],
           d \in Databases(n), e \in Databases(m), SessionsStay(d, e)
    PROVE  /\ Listed(d) => Listed(e)
           /\ Named(d) => Named(e)
           /\ Linked(d, l) => Linked(e, l)
<1>1. /\ e.leaves = d.leaves
      /\ \A s \in Slot : /\ e.ctx[s].state = d.ctx[s].state
                         /\ e.ctx[s].id = d.ctx[s].id
                         /\ e.ctx[s].subs = d.ctx[s].subs
  BY DEF SessionsStay, Session
<1>2. \A leaf \in d.leaves : leaf.slot \in Slot
  BY DEF Databases, Leaf
<1>3. \A n_1 \in Node : l[n_1] # NoSlot => l[n_1] \in Slot
  BY BrokerAssumption DEF Slot, NoSlot
<1>4. Listed(d) => Listed(e)
  BY <1>1, <1>2 DEF Listed
<1>5. Named(d) => Named(e)
  BY <1>1 DEF Named
<1>6. Linked(d, l) => Linked(e, l)
  BY <1>1, <1>3 DEF Linked
<1> QED BY <1>4, <1>5, <1>6

\* From d to e the leaves are changed one by one, as g says, and stay apart;
\* the lists change with them.
Image(g, S) == {g[x] : x \in S}
Changes(g, d, e) ==
    /\ e.leaves = Image(g, d.leaves)
    /\ \A l, m \in d.leaves : g[l].topic = g[m].topic /\ g[l].slot = g[m].slot => l = m
    /\ \A l \in d.leaves : g[l].topic \in e.ctx[g[l].slot].subs
    /\ \A s \in Slot : \A t \in e.ctx[s].subs :
        \E l \in d.leaves : g[l].topic = t /\ g[l].slot = s

LEMMA ListedMapped ==
    ASSUME NEW d, NEW e, NEW g, Listed(d), Changes(g, d, e)
    PROVE  Listed(e)
  BY DEF Listed, Image, Changes

LEMMA AddListed ==
    ASSUME NEW n, NEW d \in Databases(n), NEW s \in Slot, NEW t \in Topic, NEW qos \in {0, 1},
           Listed(d), Named(d), d.ctx[s].id # NoId
    PROVE  LET e == sub__add(d, s, t, qos)
           IN  /\ Listed(e)
               /\ \A r \in Slot : e.ctx[r].state = d.ctx[r].state /\ e.ctx[r].id = d.ctx[r].id
               /\ \A r \in Slot \ {s} : e.ctx[r].subs = d.ctx[r].subs
<1> DEFINE e == sub__add(d, s, t, qos)
           same == {leaf \in d.leaves : leaf.topic = t /\ d.ctx[leaf.slot].id = d.ctx[s].id}
           g == [leaf \in d.leaves |-> IF leaf \in same THEN [leaf EXCEPT !.qos = qos] ELSE leaf]
           new == [topic |-> t, slot |-> s, qos |-> qos]
<1>1. d.leaves \in SUBSET Leaf /\ d.ctx[s] \in Context /\ d.ctx \in [Slot -> Context]
  BY DEF Databases
<1>2. CASE same # {}
  <2>1. /\ e.leaves = (d.leaves \ same) \cup {[leaf EXCEPT !.qos = qos] : leaf \in same}
        /\ e.ctx = d.ctx
    BY <1>2 DEF sub__add, Databases
  <2>2. e.leaves = Image(g, d.leaves)
    BY <2>1 DEF Image
  <2>3. \A l \in d.leaves : g[l].topic = l.topic /\ g[l].slot = l.slot
    BY <1>1 DEF Leaf
  <2> HIDE DEF g, e
  <2>4. \A l, m \in d.leaves : g[l].topic = g[m].topic /\ g[l].slot = g[m].slot => l = m
    BY <2>3 DEF Listed
  <2>5. \A l \in d.leaves : g[l].topic \in e.ctx[g[l].slot].subs
    BY <2>1, <2>3 DEF Listed
  <2>6. \A r \in Slot : \A x \in e.ctx[r].subs :
            \E l \in d.leaves : g[l].topic = x /\ g[l].slot = r
    BY <2>1, <2>3 DEF Listed
  <2>7. Listed(e)
    <3>1. Changes(g, d, e)
      BY <2>2, <2>4, <2>5, <2>6 DEF Changes
    <3> QED BY <3>1, ListedMapped
  <2> QED BY <2>1, <2>7 DEF e
<1>3. CASE same = {}
  <2>1. /\ e.leaves = d.leaves \cup {new}
        /\ e.ctx[s] = [d.ctx[s] EXCEPT !.subs = @ \cup {t}]
        /\ \A r \in Slot \ {s} : e.ctx[r] = d.ctx[r]
    BY <1>1, <1>3 DEF sub__add, Databases
  <2>2. /\ e.ctx[s].subs = d.ctx[s].subs \cup {t}
        /\ e.ctx[s].state = d.ctx[s].state /\ e.ctx[s].id = d.ctx[s].id
    BY <1>1, <2>1 DEF Context
  <2>3. \A l \in d.leaves : ~(l.topic = t /\ l.slot = s)
    BY <1>3
  <2>4. new.topic = t /\ new.slot = s
    OBVIOUS
  <2>5. \A l \in d.leaves : l.slot \in Slot
    BY <1>1 DEF Leaf
  <2> HIDE DEF e, new, same
  <2>6. \A l, m \in e.leaves : l.topic = m.topic /\ l.slot = m.slot => l = m
    BY <2>1, <2>3, <2>4 DEF Listed
  <2>7. \A l \in e.leaves : l.topic \in e.ctx[l.slot].subs
    BY <2>1, <2>2, <2>4, <2>5 DEF Listed
  <2>8. ASSUME NEW r \in Slot, NEW x \in e.ctx[r].subs
        PROVE  \E l \in e.leaves : l.topic = x /\ l.slot = r
    <3>1. CASE x \in d.ctx[r].subs
      <4>1. PICK l \in d.leaves : l.topic = x /\ l.slot = r
        BY <3>1 DEF Listed
      <4> QED BY <2>1, <4>1
    <3>2. CASE x \notin d.ctx[r].subs
      <4>1. r = s /\ x = t
        BY <2>1, <2>2, <3>2
      <4> QED BY <2>1, <2>4, <4>1
    <3> QED BY <3>1, <3>2
  <2>9. Listed(e)
    BY <2>6, <2>7, <2>8 DEF Listed
  <2> QED BY <2>1, <2>2, <2>9 DEF e
<1> QED BY <1>2, <1>3

\* The leaves of a context that is cleaned are gone, its list is empty.
LEMMA CleanListed ==
    ASSUME NEW n, NEW d \in Databases(n), NEW s \in Slot, NEW e,
           Listed(d), e.leaves = Cleaned(d.leaves, d.ctx[s].subs, s),
           \A r \in Slot \ {s} : e.ctx[r].subs = d.ctx[r].subs, e.ctx[s].subs = {}
    PROVE  Listed(e)
<1>1. \A l \in d.leaves : l.slot \in Slot
  BY DEF Databases, Leaf
<1>2. \A l \in d.leaves : l.slot = s => l.topic \in d.ctx[s].subs
  BY DEF Listed
<1>3. e.leaves = {l \in d.leaves : l.slot # s}
  BY <1>2 DEF Cleaned
<1> QED BY <1>1, <1>3 DEF Listed

\* The leaves of context f are now those of s, which had none.
LEMMA RelinkListed ==
    ASSUME NEW n, NEW d \in Databases(n), NEW s \in Slot, NEW f \in Slot, s # f, NEW e,
           Listed(d), d.ctx[s].subs = {},
           e.leaves = Relinked(d.leaves, d.ctx[f].subs, s, f),
           \A r \in Slot \ {s, f} : e.ctx[r].subs = d.ctx[r].subs,
           e.ctx[s].subs = d.ctx[f].subs, e.ctx[f].subs = {}
    PROVE  Listed(e)
<1> DEFINE g == [leaf \in d.leaves |-> IF leaf.slot = f /\ leaf.topic \in d.ctx[f].subs
                                       THEN [leaf EXCEPT !.slot = s] ELSE leaf]
<1>1. e.leaves = Image(g, d.leaves)
  BY DEF Relinked, Image
<1>2. \A l \in d.leaves : /\ l.slot \in Slot /\ l.slot # s
                          /\ l.slot = f => l.topic \in d.ctx[f].subs
  BY DEF Databases, Leaf, Listed
<1>3. \A l \in d.leaves : /\ g[l].topic = l.topic
                          /\ g[l].slot = IF l.slot = f THEN s ELSE l.slot
  <2>1. d.leaves \in SUBSET Leaf
    BY DEF Databases
  <2> QED BY <1>2, <2>1 DEF Leaf
<1> HIDE DEF g
<1>4. \A l, m \in d.leaves : g[l].topic = g[m].topic /\ g[l].slot = g[m].slot => l = m
  BY <1>2, <1>3 DEF Listed
<1>5. \A l \in d.leaves : g[l].topic \in e.ctx[g[l].slot].subs
  BY <1>2, <1>3 DEF Listed
<1>6. ASSUME NEW r \in Slot, NEW t \in e.ctx[r].subs
      PROVE  \E l \in d.leaves : g[l].topic = t /\ g[l].slot = r
  <2>1. CASE r = s
    <3>1. PICK l \in d.leaves : l.topic = t /\ l.slot = f
      BY <2>1 DEF Listed
    <3> QED BY <1>3, <2>1, <3>1
  <2>2. CASE r # s
    <3>1. r # f /\ t \in d.ctx[r].subs
      BY <2>2
    <3>2. PICK l \in d.leaves : l.topic = t /\ l.slot = r
      BY <3>1 DEF Listed
    <3> QED BY <1>3, <3>1, <3>2
  <2> QED BY <2>1, <2>2
<1>7. Changes(g, d, e)
  BY <1>1, <1>4, <1>5, <1>6 DEF Changes
<1> QED BY <1>7, ListedMapped

\* A context of the client's id has given way, and the new one is active.
LEMMA ConnectKeeps ==
    ASSUME TypeInv, SessionInv, NEW n \in Node, NEW clean \in BOOLEAN,
           handle__connect(n, clean)
    PROVE  SessionInv'
<1> DEFINE p == Len(published)
           s == Min(FreeSlots)
           d == [db EXCEPT !.ctx[s].clean = clean]
           e == Cleared(d, s, n)
<1>1. /\ s \in Slot /\ db.ctx[s].state = "free"
      /\ db \in Databases(p) /\ d \in Databases(p) /\ d.leaves = db.leaves
      /\ \A r \in Slot \ {s} : d.ctx[r] = db.ctx[r]
      /\ Session(d.ctx[s]) = <<"free", db.ctx[s].id, clean, db.ctx[s].subs>>
      /\ db' = connect__on_authorised(d, s, n)
      /\ link' = [link EXCEPT ![n] = s]
  BY ConnectType DEF FreeSlots, TypeInv
<1>2. link[n] = NoSlot /\ link \in [Node -> 0..Slots]
  BY DEF handle__connect, TypeInv
<1> HIDE DEF s, p
<1>3. \A r \in Slot : /\ d.ctx[r].state = db.ctx[r].state
                      /\ d.ctx[r].id = db.ctx[r].id /\ d.ctx[r].subs = db.ctx[r].subs
  BY <1>1 DEF Session
<1>4. \A l \in db.leaves : l.slot \in Slot
  BY <1>1 DEF Databases, Leaf
<1> HIDE DEF d
<1>5. Listed(d)
  BY <1>1, <1>3, <1>4 DEF Listed, SessionInv
<1>6. /\ d.ctx[s].subs = {}
      /\ \A r, q \in Slot : d.ctx[r].id = d.ctx[q].id /\ d.ctx[r].id # NoId => r = q
      /\ \A r \in Slot \ {s} : /\ d.ctx[r].state = "free" => d.ctx[r].subs = {}
                               /\ d.ctx[r].state \in {"free", "disused"} => d.ctx[r].id = NoId
  BY <1>1, <1>3 DEF Named, SessionInv
<1>7. n # NoId
  BY BrokerAssumption
<1>8. /\ e \in Databases(p) /\ db'.leaves = e.leaves
      /\ \A q \in Slot \ {s} : db'.ctx[q] = e.ctx[q]
      /\ Session(db'.ctx[s]) = <<"active", n, e.ctx[s].clean, e.ctx[s].subs>>
  <2>1. /\ Cleared(d, s, n) \in Databases(p)
        /\ NowActive(Cleared(d, s, n), connect__on_authorised(d, s, n), s, n)
    BY <1>1, ConnectedType
  <2> QED BY <1>1, <2>1 DEF NowActive
<1>9. Listed(e) /\ \A q \in Slot \ {s} :
                      \/ /\ e.ctx[q] = d.ctx[q] /\ d.ctx[q].id # n
                      \/ /\ d.ctx[q].id = n
                         /\ e.ctx[q].state = "disused" /\ e.ctx[q].id = NoId
  <2>1. CASE e = d /\ \A f \in Slot \ {s} : d.ctx[f].id # n
    BY <1>5, <2>1
  <2>2. ASSUME NEW f \in Slot \ {s}, d.ctx[f].id = n, e = TakenOver(d, s, f)
        PROVE  Listed(e) /\ \A q \in Slot \ {s} :
                      \/ /\ e.ctx[q] = d.ctx[q] /\ d.ctx[q].id # n
                      \/ /\ d.ctx[q].id = n
                         /\ e.ctx[q].state = "disused" /\ e.ctx[q].id = NoId
    <3> HIDE DEF e
    <3>1. f \in Slot /\ f # s
      OBVIOUS
    <3>2. GivenWay(d, e, s, f)
      BY <1>1, <2>2, <3>1, TakenOverType
    <3>3. /\ \A r \in Slot \ {s, f} : e.ctx[r] = d.ctx[r]
          /\ e.ctx[f].state = "disused" /\ e.ctx[f].id = NoId
      BY <3>2 DEF GivenWay, Session
    <3>4. \/ /\ e.leaves = Relinked(d.leaves, d.ctx[f].subs, s, f)
             /\ e.ctx[s].subs = d.ctx[f].subs /\ e.ctx[f].subs = {}
          \/ /\ e.leaves = Cleaned(d.leaves, d.ctx[f].subs, f)
             /\ e.ctx[s] = d.ctx[s] /\ e.ctx[f].subs = {}
          \/ /\ e.leaves = d.leaves
             /\ e.ctx[s] = d.ctx[s] /\ e.ctx[f].subs = d.ctx[f].subs
      BY <3>2 DEF GivenWay, Session
    <3>5. \A q \in Slot \ {s, f} : d.ctx[q].id # n
      BY <1>6, <1>7, <2>2
    <3>6. Listed(e)
      <4>1. CASE /\ e.leaves = Relinked(d.leaves, d.ctx[f].subs, s, f)
                 /\ e.ctx[s].subs = d.ctx[f].subs /\ e.ctx[f].subs = {}
        <5>1. \A r \in Slot \ {s, f} : e.ctx[r].subs = d.ctx[r].subs
          BY <3>3
        <5> QED BY <1>1, <1>5, <1>6, <3>1, <4>1, <5>1, RelinkListed
      <4>2. CASE /\ e.leaves = Cleaned(d.leaves, d.ctx[f].subs, f)
                 /\ e.ctx[s] = d.ctx[s] /\ e.ctx[f].subs = {}
        <5>1. \A r \in Slot \ {f} : e.ctx[r].subs = d.ctx[r].subs
          BY <3>3, <4>2
        <5> QED BY <1>1, <1>5, <3>1, <4>2, <5>1, CleanListed
      <4>3. CASE /\ e.leaves = d.leaves
                 /\ e.ctx[s] = d.ctx[s] /\ e.ctx[f].subs = d.ctx[f].subs
        <5>1. \A r \in Slot : e.ctx[r].subs = d.ctx[r].subs
          BY <3>3, <4>3
        <5>2. \A l \in d.leaves : l.slot \in Slot
          BY <1>1, <1>4
        <5> QED BY <1>5, <4>3, <5>1, <5>2 DEF Listed
      <4> QED BY <3>4, <4>1, <4>2, <4>3
    <3> QED BY <2>2, <3>3, <3>5, <3>6
  <2>3. \/ e = d /\ \A f \in Slot \ {s} : d.ctx[f].id # n
        \/ \E f \in Slot \ {s} : d.ctx[f].id = n /\ e = TakenOver(d, s, f)
    BY <1>1, ClearedFacts
  <2> HIDE DEF e
  <2> QED BY <2>1, <2>2, <2>3
<1> HIDE DEF e
<1>10. /\ db'.ctx[s].state = "active" /\ db'.ctx[s].id = n
       /\ db'.ctx[s].subs = e.ctx[s].subs
  BY <1>8 DEF Session
<1>11. Listed(db')
  <2>1. \A r \in Slot : db'.ctx[r].subs = e.ctx[r].subs
    BY <1>8, <1>10
  <2>2. \A l \in e.leaves : l.slot \in Slot
    BY <1>8 DEF Databases, Leaf
  <2> QED BY <1>8, <1>9, <2>1, <2>2 DEF Listed
<1>12. \A q \in Slot \ {s} :
          \/ db'.ctx[q] = d.ctx[q] /\ d.ctx[q].id # n
          \/ /\ d.ctx[q].id = n
             /\ db'.ctx[q].state = "disused" /\ db'.ctx[q].id = NoId
  BY <1>8, <1>9
<1>13. Named(db')
  BY <1>6, <1>7, <1>10, <1>12 DEF Named
<1>14. Linked(db', link')
  <2> SUFFICES ASSUME NEW m \in Node, link'[m] # NoSlot
               PROVE  db'.ctx[link'[m]].state = "active" /\ db'.ctx[link'[m]].id = m
    BY DEF Linked
  <2>1. CASE m = n
    BY <1>1, <1>2, <1>10, <2>1
  <2>2. CASE m # n
    <3> DEFINE q == link[m]
    <3>1. link'[m] = q /\ q \in Slot
      <4>1. link'[m] = q /\ q # 0 /\ q \in 0..Slots
        BY <1>1, <1>2, <2>2 DEF NoSlot
      <4> QED BY <4>1, BrokerAssumption DEF Slot
    <3>2. db.ctx[q].state = "active" /\ db.ctx[q].id = m
      BY <3>1 DEF SessionInv, Linked
    <3> HIDE DEF q
    <3>3. q # s /\ d.ctx[q].id # n /\ d.ctx[q] = db.ctx[q]
      BY <1>1, <1>3, <2>2, <3>1, <3>2
    <3> QED BY <1>12, <3>1, <3>2, <3>3
  <2> QED BY <2>1, <2>2
<1> QED BY <1>11, <1>13, <1>14 DEF SessionInv

LEMMA SubscribeKeeps ==
    ASSUME TypeInv, SessionInv, NEW n \in Node, NEW t \in Topic, NEW taken \in BOOLEAN,
           handle__subscribe(n, t, taken)
    PROVE  SessionInv'
<1> DEFINE p == Len(published)
           s == link[n]
           d == sub__add(db, s, t, sub_qos[n])
<1>1. /\ s \in Slot /\ db \in Databases(p) /\ d \in Databases(p)
      /\ OnlyMessages(d, db', s) /\ db' \in Databases(Len(published'))
      /\ link \in [Node -> 0..Slots] /\ sub_qos[n] \in {0, 1} /\ link' = link
  BY SubscribeType DEF TypeInv, handle__subscribe
<1>2. s # NoSlot
  BY DEF handle__subscribe, Requests
<1>3. db.ctx[s].state = "active" /\ db.ctx[s].id = n /\ n # NoId
  BY <1>2, BrokerAssumption DEF SessionInv, Linked
<1> HIDE DEF s, p
<1>4. /\ Listed(d)
      /\ \A r \in Slot : d.ctx[r].state = db.ctx[r].state /\ d.ctx[r].id = db.ctx[r].id
      /\ \A r \in Slot \ {s} : d.ctx[r].subs = db.ctx[r].subs
  BY <1>1, <1>3, AddListed DEF SessionInv
<1> HIDE DEF d
<1>5. Named(d)
  BY <1>3, <1>4 DEF Named, SessionInv
<1>6. Linked(d, link)
  <2>1. \A m \in Node : link[m] # NoSlot => link[m] \in Slot
    BY <1>1, BrokerAssumption DEF Slot, NoSlot
  <2> QED BY <1>4, <2>1 DEF SessionInv, Linked
<1>7. SessionsStay(d, db')
  BY <1>1, SessionsStayFacts
<1> QED BY <1>1, <1>4, <1>5, <1>6, <1>7, SessionsKept DEF SessionInv

LEMMA UnsubscribeKeeps ==
    ASSUME TypeInv, SessionInv, NEW n \in Node, NEW t \in Topic, handle__unsubscribe(n, t)
    PROVE  SessionInv'
<1> DEFINE s == link[n]
           p == Len(published)
<1>1. /\ s \in Slot /\ db \in Databases(p) /\ link' = link
      /\ db' = sub__remove(db, s, t) /\ link \in [Node -> 0..Slots]
  BY UnsubscribeType DEF TypeInv
<1>2. \A l \in db.leaves : l.slot \in Slot
  BY <1>1 DEF Databases, Leaf
<1> HIDE DEF s, p
<1>3. /\ db'.leaves = {leaf \in db.leaves : ~(leaf.topic = t /\ leaf.slot = s)}
      /\ \A r \in Slot \ {s} : db'.ctx[r] = db.ctx[r]
      /\ Session(db'.ctx[s])
           = <<db.ctx[s].state, db.ctx[s].id, db.ctx[s].clean, db.ctx[s].subs \ {t}>>
  BY <1>1, RemoveType
<1>4. /\ \A r \in Slot : db'.ctx[r].state = db.ctx[r].state /\ db'.ctx[r].id = db.ctx[r].id
      /\ \A r \in Slot \ {s} : db'.ctx[r].subs = db.ctx[r].subs
      /\ db'.ctx[s].subs = db.ctx[s].subs \ {t}
  BY <1>3 DEF Session
<1>5. Listed(db')
  <2>1. \A l, m \in db'.leaves : l.topic = m.topic /\ l.slot = m.slot => l = m
    BY <1>3 DEF Listed, SessionInv
  <2>2. \A l \in db'.leaves : l.topic \in db'.ctx[l.slot].subs
    <3> SUFFICES ASSUME NEW l \in db'.leaves PROVE l.topic \in db'.ctx[l.slot].subs
      OBVIOUS
    <3>1. /\ l \in db.leaves /\ l.slot \in Slot /\ l.topic \in db.ctx[l.slot].subs
          /\ ~(l.topic = t /\ l.slot = s)
      BY <1>2, <1>3 DEF Listed, SessionInv
    <3>2. CASE l.slot = s
      BY <1>4, <3>1, <3>2
    <3>3. CASE l.slot # s
      BY <1>4, <3>1, <3>3
    <3> QED BY <3>2, <3>3
  <2>3. ASSUME NEW r \in Slot, NEW x \in db'.ctx[r].subs
        PROVE  \E l \in db'.leaves : l.topic = x /\ l.slot = r
    <3>1. x \in db.ctx[r].subs /\ ~(x = t /\ r = s)
      BY <1>4
    <3>2. PICK l \in db.leaves : l.topic = x /\ l.slot = r
      BY <3>1 DEF Listed, SessionInv
    <3> QED BY <1>3, <3>1, <3>2
  <2> QED BY <2>1, <2>2, <2>3 DEF Listed
<1>6. Named(db')
  BY <1>4 DEF Named, SessionInv
<1>7. Linked(db', link')
  <2>1. \A m \in Node : link[m] # NoSlot => link[m] \in Slot
    BY <1>1, BrokerAssumption DEF Slot, NoSlot
  <2> QED BY <1>1, <1>4, <2>1 DEF SessionInv, Linked
<1> QED BY <1>5, <1>6, <1>7 DEF SessionInv

\* The end of the connection of an active context that is no node's any more
LEMMA EndKeeps ==
    ASSUME TypeInv, SessionInv, NEW s \in Slot, db.ctx[s].state = "active",
           db' = do_disconnect(db, s),
           \A m \in Node : link'[m] # NoSlot => link'[m] = link[m] /\ link[m] # s
    PROVE  SessionInv'
<1> DEFINE p == Len(published)
<1>1. db \in Databases(p) /\ link \in [Node -> 0..Slots]
  BY DEF TypeInv
<1> HIDE DEF p
<1>2. /\ db'.leaves = db.leaves
      /\ \A r \in Slot \ {s} : db'.ctx[r] = db.ctx[r]
      /\ db'.ctx[s].subs = db.ctx[s].subs
      /\ \/ db'.ctx[s].state = "disused" /\ db'.ctx[s].id = NoId
         \/ db'.ctx[s].state = "disconnected" /\ db'.ctx[s].id = db.ctx[s].id
  BY <1>1, DisconnectType, ZenonT(60) DEF Session
<1>3. \A l \in db.leaves : l.slot \in Slot
  BY <1>1 DEF Databases, Leaf
<1>4. Listed(db')
  <2>1. \A r \in Slot : db'.ctx[r].subs = db.ctx[r].subs
    BY <1>2
  <2> QED BY <1>2, <1>3, <2>1 DEF Listed, SessionInv
<1>5. Named(db')
  BY <1>2 DEF Named, SessionInv
<1>6. Linked(db', link')
  <2>1. \A m \in Node : link[m] # NoSlot => link[m] \in Slot
    BY <1>1, BrokerAssumption DEF Slot, NoSlot
  <2> QED BY <1>2, <2>1 DEF SessionInv, Linked
<1> QED BY <1>4, <1>5, <1>6 DEF SessionInv

LEMMA FreedKeeps ==
    ASSUME TypeInv, SessionInv, context__free_disused
    PROVE  SessionInv'
<1> DEFINE p == Len(published)
           Used == {s \in Slot : \E n \in Node : link[n] = s}
           S == {e \in Databases(p) : /\ Listed(e) /\ Named(e)
                                      /\ \A s \in Used : e.ctx[s] = db.ctx[s]}
<1>1. db' = Freed(db, Disused) /\ link' = link /\ link \in [Node -> 0..Slots]
  BY FreedType DEF TypeInv
<1>2. db \in S
  BY DEF TypeInv, SessionInv
<1>3. ASSUME NEW e \in S, NEW s \in Slot \cap Disused
      PROVE  context__cleanup(e, s) \in S
  <2> DEFINE f == context__cleanup(e, s)
  <2>1. s \in Slot /\ db.ctx[s].state = "disused" /\ e \in Databases(p)
    BY DEF Disused
  <2>2. s \notin Used
    <3>1. \A n \in Node : link[n] = s => db.ctx[s].state = "active"
      BY <2>1, BrokerAssumption DEF SessionInv, Linked, NoSlot, Slot
    <3> QED BY <2>1, <3>1
  <2>3. /\ f \in Databases(p)
        /\ f.leaves = Cleaned(e.leaves, e.ctx[s].subs, s)
        /\ \A r \in Slot \ {s} : f.ctx[r] = e.ctx[r]
        /\ f.ctx[s] = NewContext
    BY <2>1, CleanupType
  <2>4. f.ctx[s].state = "free" /\ f.ctx[s].id = NoId /\ f.ctx[s].subs = {}
    BY <2>3 DEF NewContext
  <2> HIDE DEF f, p
  <2>5. Listed(f)
    <3>1. \A r \in Slot \ {s} : f.ctx[r].subs = e.ctx[r].subs
      BY <2>3
    <3> QED BY <2>1, <2>3, <2>4, <3>1, CleanListed
  <2>6. Named(f)
    BY <2>3, <2>4 DEF Named
  <2>7. \A r \in Used : f.ctx[r] = db.ctx[r]
    BY <2>2, <2>3
  <2> QED BY <2>3, <2>5, <2>6, <2>7 DEF f
<1>4. db' \in S
  <2> HIDE DEF S
  <2> QED BY <1>1, <1>2, <1>3, FreedInside
<1>5. Linked(db', link')
  <2>1. \A m \in Node : link[m] # NoSlot => link[m] \in Used
    BY <1>1, BrokerAssumption DEF Slot, NoSlot
  <2> QED BY <1>1, <1>4, <2>1 DEF Linked, SessionInv
<1> QED BY <1>4, <1>5 DEF SessionInv

\* Steps that only move messages
LEMMA MessagesKeep ==
    ASSUME TypeInv, TypeInv', SessionInv, SessionsStay(db, db'), link' = link
    PROVE  SessionInv'
<1>1. /\ db \in Databases(Len(published)) /\ db' \in Databases(Len(published'))
      /\ link \in [Node -> 0..Slots]
  BY DEF TypeInv
<1> QED BY <1>1, SessionsKept DEF SessionInv

LEMMA SessionStep ==
    ASSUME TypeInv, SessionInv, [BrokerNext]_vars
    PROVE  SessionInv'
<1>1. CASE context__free_disused
  BY <1>1, FreedKeeps
<1>2. CASE \E t \in Topic : handle__publish(t)
  <2>1. PICK t \in Topic : handle__publish(t)
    BY <1>2
  <2>2. SessionsStay(db, db') /\ TypeInv'
    BY <2>1, PublishType
  <2>3. link' = link
    BY <2>1 DEF handle__publish
  <2> QED BY <2>2, <2>3, MessagesKeep
<1>3. CASE \E s \in Slot : handle__pubackcomp(s)
  <2>1. PICK s \in Slot : handle__pubackcomp(s)
    BY <1>3
  <2>2. OnlyMessages(db, db', s) /\ link' = link /\ TypeInv'
    BY <2>1, PubackType
  <2> QED BY <2>2, SessionsStayFacts, MessagesKeep
<1>4. CASE \E s \in Slot : keepalive__check(s)
  <2>1. PICK s \in Slot : keepalive__check(s)
    BY <1>4
  <2>2. /\ db.ctx[s].state = "active" /\ link[db.ctx[s].id] # s
        /\ db' = do_disconnect(db, s) /\ link' = link
    BY <2>1 DEF keepalive__check, Connected
  <2>3. \A m \in Node : link[m] # NoSlot => link[m] # s
    BY <2>2 DEF SessionInv, Linked
  <2> QED BY <2>2, <2>3, EndKeeps
<1>5. CASE \E n \in Node, clean \in BOOLEAN : handle__connect(n, clean)
  BY <1>5, ConnectKeeps
<1>6. CASE \E n \in Node, t \in Topic, taken \in BOOLEAN : handle__subscribe(n, t, taken)
  BY <1>6, SubscribeKeeps
<1>7. CASE \E n \in Node, t \in Topic : handle__unsubscribe(n, t)
  BY <1>7, UnsubscribeKeeps
<1>8. CASE \E n \in Node : handle__disconnect(n)
  <2>1. PICK n \in Node : handle__disconnect(n)
    BY <1>8
  <2>2. /\ link[n] \in Slot /\ db' = do_disconnect(db, link[n])
        /\ link' = [link EXCEPT ![n] = NoSlot] /\ link \in [Node -> 0..Slots]
    BY <2>1, DisconnectedType DEF TypeInv
  <2>3. link[n] # NoSlot
    BY <2>1 DEF handle__disconnect, Requests
  <2>4. db.ctx[link[n]].state = "active" /\ db.ctx[link[n]].id = n
    BY <2>3 DEF SessionInv, Linked
  <2>5. \A m \in Node : link'[m] # NoSlot => link'[m] = link[m] /\ link[m] # link[n]
    BY <2>2, <2>4 DEF SessionInv, Linked
  <2> QED BY <2>2, <2>4, <2>5, EndKeeps
<1>9. CASE \E n \in Node : NodeReceives(n)
  <2>1. PICK n \in Node : NodeReceives(n)
    BY <1>9
  <2>2. link[n] \in Slot /\ OnlyMessages(db, db', link[n]) /\ link' = link /\ TypeInv'
    BY <2>1, ReceivesType
  <2> QED BY <2>2, SessionsStayFacts, MessagesKeep
<1>10. CASE \E n \in Node : LinkLost(n)
  <2>1. /\ db' = db /\ link \in [Node -> 0..Slots]
        /\ \E n \in Node : link' = [link EXCEPT ![n] = NoSlot]
    BY <1>10 DEF LinkLost, TypeInv
  <2>2. \A m \in Node : link'[m] # NoSlot => link'[m] = link[m]
    BY <2>1
  <2> QED BY <2>1, <2>2 DEF SessionInv, Listed, Named, Linked
<1>11. CASE UNCHANGED vars
  BY <1>11 DEF vars, SessionInv, Listed, Named, Linked
<1> QED BY <1>1, <1>2, <1>3, <1>4, <1>5, <1>6, <1>7, <1>8, <1>9, <1>10, <1>11 DEF BrokerNext

(* The subscription tree and the contexts' own lists of subscriptions agree,
   through every order of connects, takeovers of sessions, clean and unclean
   disconnects and frees: no leaf points at a freed context, a topic of a
   list has exactly one leaf, and no client id has two contexts.  Says so of
   sub__add, sub__remove and sub__clean_session of src/subs.c, of
   connect__on_authorised and do_disconnect, and of context__cleanup; it
   holds only because a taken-over session hands its leaves over, and because
   a client id is given up before the new context takes it. *)
THEOREM LeavesAlwaysListed == BrokerSpec => []LeavesAreListed
<1>1. TypeInv /\ SessionInv => LeavesAreListed
  <2> SUFFICES ASSUME TypeInv, SessionInv PROVE LeavesAreListed
    OBVIOUS
  <2>1. db.leaves \in SUBSET Leaf
    BY DEF TypeInv, Databases
  <2>2. \A leaf \in db.leaves : db.ctx[leaf.slot].state # "free"
    BY <2>1 DEF SessionInv, Listed, Named, Leaf
  <2>3. ASSUME NEW s \in Slot, NEW t \in Topic
        PROVE  t \in db.ctx[s].subs <=>
               Cardinality({leaf \in db.leaves : leaf.topic = t /\ leaf.slot = s}) = 1
    <3> DEFINE found == {leaf \in db.leaves : leaf.topic = t /\ leaf.slot = s}
    <3>1. CASE t \in db.ctx[s].subs
      <4>1. PICK l \in db.leaves : l.topic = t /\ l.slot = s
        BY <3>1 DEF SessionInv, Listed
      <4>2. found = {l}
        BY <4>1 DEF SessionInv, Listed
      <4> HIDE DEF found
      <4>3. Cardinality(found) = 1
        BY <4>2, FS_Singleton
      <4> QED BY <3>1, <4>3 DEF found
    <3>2. CASE t \notin db.ctx[s].subs
      <4>1. found = {}
        BY <3>2 DEF SessionInv, Listed
      <4> HIDE DEF found
      <4>2. Cardinality(found) = 0
        BY <4>1, FS_EmptySet
      <4> QED BY <3>2, <4>2 DEF found
    <3> QED BY <3>1, <3>2
  <2>4. ASSUME NEW n \in Node
        PROVE  Cardinality({s \in Slot : db.ctx[s].id = n}) <= 1
    <3> DEFINE own == {s \in Slot : db.ctx[s].id = n}
    <3>1. n # NoId
      BY BrokerAssumption
    <3>2. \A r, s \in own : r = s
      BY <3>1 DEF SessionInv, Named
    <3>3. own = {} \/ \E s : own = {s}
      BY <3>2
    <3> HIDE DEF own
    <3>4. Cardinality(own) <= 1
      <4>1. \A s : Cardinality({s}) = 1
        BY FS_Singleton
      <4>2. Cardinality({}) = 0
        BY FS_EmptySet
      <4>3. CASE own = {}
        BY <4>2, <4>3
      <4>4. CASE \E s : own = {s}
        <5>1. Cardinality(own) = 1
          BY <4>1, <4>4, Zenon
        <5> QED BY <5>1
      <4> QED BY <3>3, <4>3, <4>4
    <3> QED BY <3>4 DEF own
  <2> QED BY <2>2, <2>3, <2>4, Zenon DEF LeavesAreListed
<1>2. BrokerInit => TypeInv /\ SessionInv
  BY TypeInit, SessionInit
<1>3. TypeInv /\ SessionInv /\ [BrokerNext]_vars => TypeInv' /\ SessionInv'
  BY TypeStep, SessionStep
<1> QED BY <1>1, <1>2, <1>3, PTL DEF BrokerSpec

-----------------------------------------------------------------------------
(* How many elements of a list are in P *)
Places(q, P) == {i \in DOMAIN q : q[i] \in P}
Count(q, P) == Cardinality(Places(q, P))
Bit(b) == IF b THEN 1 ELSE 0

LEMMA CountType ==
    ASSUME NEW S, NEW q \in Seq(S), NEW P
    PROVE  /\ Count(q, P) \in Nat /\ IsFiniteSet(Places(q, P))
           /\ Count(q, P) = 0 <=> \A i \in 1..Len(q) : q[i] \notin P
<1>1. Len(q) \in Nat /\ DOMAIN q = 1..Len(q)
  BY LenProperties
<1>2. Places(q, P) \in SUBSET (1..Len(q))
  BY <1>1 DEF Places
<1>3. IsFiniteSet(Places(q, P))
  <2>1. IsFiniteSet(1..Len(q))
    BY <1>1, FS_Interval
  <2> QED BY <1>2, <2>1, FS_Subset
<1>4. Count(q, P) = 0 <=> Places(q, P) = {}
  BY <1>3, FS_EmptySet DEF Count
<1> QED BY <1>1, <1>3, <1>4, FS_CardinalityType DEF Count, Places

LEMMA CountEmpty == \A P : Count(<<>>, P) = 0
<1> SUFFICES ASSUME NEW P PROVE Count(<<>>, P) = 0
  OBVIOUS
<1>1. Places(<<>>, P) = {}
  BY DEF Places
<1> QED BY <1>1, FS_EmptySet DEF Count

LEMMA CountOne ==
    ASSUME NEW S, NEW x \in S, NEW P
    PROVE  Count(<<x>>, P) = Bit(x \in P)
<1>1. DOMAIN <<x>> = {1} /\ <<x>>[1] = x
  OBVIOUS
<1>2. Places(<<x>>, P) = IF x \in P THEN {1} ELSE {}
  BY <1>1 DEF Places
<1>3. Cardinality({1}) = 1 /\ Cardinality({}) = 0
  BY FS_Singleton, FS_EmptySet
<1> QED BY <1>2, <1>3 DEF Count, Bit

LEMMA CountConcat ==
    ASSUME NEW S, NEW a \in Seq(S), NEW b \in Seq(S), NEW P
    PROVE  Count(a \o b, P) = Count(a, P) + Count(b, P)
<1> DEFINE A == Places(a, P)
           B == Places(b, P)
           C == Places(a \o b, P)
           n == Len(a)
           f == [i \in B |-> i + n]
           D == {f[i] : i \in B}
<1>1. /\ Len(a) \in Nat /\ DOMAIN a = 1..Len(a) /\ Len(b) \in Nat /\ DOMAIN b = 1..Len(b)
      /\ a \o b \in Seq(S) /\ DOMAIN (a \o b) = 1..(Len(a) + Len(b))
      /\ \A i \in 1..(Len(a) + Len(b)) : (a \o b)[i] = IF i <= Len(a) THEN a[i] ELSE b[i - Len(a)]
  BY LenProperties, ConcatProperties
<1>2. IsFiniteSet(A) /\ IsFiniteSet(B)
  BY CountType
<1>3. f \in Bijection(B, D)
  <2>1. \A i, j \in B : f[i] = f[j] => i = j
    BY <1>1 DEF Places
  <2> HIDE DEF f
  <2>2. f \in [B -> D]
    BY DEF f
  <2> QED BY <2>1, <2>2 DEF Bijection, Injection, Surjection, IsInjective
<1>4. IsFiniteSet(D) /\ Cardinality(D) = Cardinality(B)
  <2> HIDE DEF B, D, f
  <2> QED BY <1>2, <1>3, FS_Bijection DEF ExistsBijection
<1>5. C = A \cup D /\ A \cap D = {}
  <2>1. \A i \in D : i \in Int /\ i - n \in B /\ i > n /\ i <= n + Len(b)
    <3> SUFFICES ASSUME NEW j \in B
                 PROVE  f[j] \in Int /\ f[j] - n \in B /\ f[j] > n /\ f[j] <= n + Len(b)
      OBVIOUS
    <3>1. j \in 1..Len(b)
      BY <1>1 DEF Places
    <3>2. f[j] = j + n /\ f[j] - n = j
      BY <1>1, <3>1
    <3> QED BY <1>1, <3>1, <3>2
  <2>2. \A i \in C : i > n => i - n \in B
    BY <1>1 DEF Places
  <2>3. \A i \in Int : i - n \in B => i \in D
    BY <1>1
  <2>4. C \subseteq A \cup D
    BY <1>1, <2>2, <2>3 DEF Places
  <2>5. A \subseteq C
    BY <1>1 DEF Places
  <2>6. D \subseteq C
    <3> SUFFICES ASSUME NEW i \in D PROVE i \in C
      OBVIOUS
    <3>1. i \in Int /\ i - n \in B /\ i > n /\ i <= n + Len(b)
      BY <2>1
    <3>2. b[i - n] \in P
      BY <3>1 DEF Places
    <3> HIDE DEF B, D, A
    <3>3. i \in 1..(n + Len(b)) /\ ~(i <= n)
      BY <1>1, <3>1
    <3> QED BY <1>1, <3>2, <3>3 DEF Places
  <2>7. A \cap D = {}
    <3>1. \A i \in A : i <= n /\ i \in Int
      BY <1>1 DEF Places
    <3> HIDE DEF A, B, D
    <3> QED BY <1>1, <2>1, <3>1
  <2> QED BY <2>4, <2>5, <2>6, <2>7
<1> HIDE DEF A, B, C, D, f
<1>6. Cardinality(C) = Cardinality(A) + Cardinality(D) - Cardinality({})
  BY <1>2, <1>4, <1>5, FS_Union
<1>7. Cardinality({}) = 0 /\ Cardinality(A) \in Nat /\ Cardinality(B) \in Nat
  BY <1>2, FS_EmptySet, FS_CardinalityType
<1> QED BY <1>4, <1>6, <1>7 DEF Count, A, B, C

LEMMA CountAppend ==
    ASSUME NEW S, NEW q \in Seq(S), NEW x \in S, NEW P
    PROVE  Count(Append(q, x), P) = Count(q, P) + Bit(x \in P)
<1>1. Append(q, x) = q \o <<x>> /\ <<x>> \in Seq(S)
  BY AppendIsConcat
<1>2. Count(q \o <<x>>, P) = Count(q, P) + Count(<<x>>, P)
  BY <1>1, CountConcat
<1>3. Count(<<x>>, P) = Bit(x \in P)
  BY CountOne
<1> QED BY <1>1, <1>2, <1>3

\* One element taken out of a list
LEMMA CountRemoved ==
    ASSUME NEW S, NEW q \in Seq(S), NEW i \in 1..Len(q), NEW P
    PROVE  /\ RemoveAt(q, i) \in Seq(S)
           /\ Count(q, P) = Count(RemoveAt(q, i), P) + Bit(q[i] \in P)
<1> DEFINE a == SubSeq(q, 1, i - 1)
           b == SubSeq(q, i + 1, Len(q))
           h == a \o <<q[i]>>
<1>1. Len(q) \in Nat /\ i \in Nat /\ q[i] \in S
  BY LenProperties, ElementOfSeq
<1>2. a \in Seq(S) /\ b \in Seq(S) /\ <<q[i]>> \in Seq(S)
  BY <1>1, SubSeqProperties
<1>3. h = SubSeq(q, 1, i)
  <2>1. <<q[i]>> = SubSeq(q, i, i)
    BY <1>1
  <2>2. SubSeq(q, 1, i - 1) \o SubSeq(q, (i - 1) + 1, i) = SubSeq(q, 1, i)
    BY <1>1, ConcatAdjacentSubSeq, SMTT(30)
  <2> QED BY <1>1, <2>1, <2>2
<1>4. q = h \o b
  <2>1. SubSeq(q, 1, i) \o SubSeq(q, i + 1, Len(q)) = SubSeq(q, 1, Len(q))
    BY <1>1, ConcatAdjacentSubSeq
  <2>2. SubSeq(q, 1, Len(q)) = q
    BY SubSeqFull
  <2> QED BY <1>3, <2>1, <2>2, ZenonT(60)
<1>5. RemoveAt(q, i) = a \o b
  BY DEF RemoveAt
<1>6. h \in Seq(S) /\ a \o b \in Seq(S)
  BY <1>2, ConcatProperties
<1> HIDE DEF a, b, h
<1>7. Count(q, P) = Count(h, P) + Count(b, P)
  BY <1>2, <1>4, <1>6, CountConcat
<1>8. Count(h, P) = Count(a, P) + Count(<<q[i]>>, P)
  BY <1>2, CountConcat DEF h
<1>9. Count(a \o b, P) = Count(a, P) + Count(b, P)
  BY <1>2, CountConcat
<1>10. Count(<<q[i]>>, P) = Bit(q[i] \in P)
  BY <1>1, CountOne
<1>11. Count(a, P) \in Nat /\ Count(b, P) \in Nat /\ Bit(q[i] \in P) \in Nat
  BY <1>2, CountType DEF Bit
<1> QED BY <1>5, <1>6, <1>7, <1>8, <1>9, <1>10, <1>11

\* One list after the other, and the first element of a list
LEMMA CountTail ==
    ASSUME NEW S, NEW q \in Seq(S), q # <<>>, NEW P
    PROVE  /\ Head(q) \in S /\ Tail(q) \in Seq(S)
           /\ Count(q, P) = Count(Tail(q), P) + Bit(Head(q) \in P)
<1>1. Len(q) \in Nat /\ Len(q) # 0 /\ 1 \in 1..Len(q)
  BY LenProperties, EmptySeq
<1>2. Tail(q) = RemoveAt(q, 1)
  <2>1. Tail(q) = SubSeq(q, 2, Len(q))
    BY TailIsSubSeq
  <2>2. SubSeq(q, 1, 0) = <<>>
    BY SubSeqEmpty
  <2>3. SubSeq(q, 2, Len(q)) \in Seq(S)
    BY <1>1, SubSeqProperties
  <2>4. <<>> \o SubSeq(q, 2, Len(q)) = SubSeq(q, 2, Len(q))
    BY <2>3, ConcatEmptySeq
  <2> QED BY <1>1, <2>1, <2>2, <2>4 DEF RemoveAt
<1>3. Head(q) = q[1] /\ q[1] \in S
  BY <1>1, HeadTailProperties, ElementOfSeq
<1> QED BY <1>1, <1>2, <1>3, CountRemoved

\* Only what is in P where matters.
LEMMA CountSame ==
    ASSUME NEW S, NEW q \in Seq(S), NEW r \in Seq(S), Len(q) = Len(r), NEW P, NEW R,
           \A i \in 1..Len(q) : q[i] \in P <=> r[i] \in R
    PROVE  Count(q, P) = Count(r, R)
<1>1. DOMAIN q = 1..Len(q) /\ DOMAIN r = 1..Len(q)
  BY LenProperties
<1>2. Places(q, P) = Places(r, R)
  BY <1>1 DEF Places
<1> QED BY <1>2 DEF Count

LEMMA CountAll ==
    ASSUME NEW S, NEW q \in Seq(S), NEW P, \A i \in 1..Len(q) : q[i] \in P
    PROVE  Count(q, P) = Len(q)
<1>1. DOMAIN q = 1..Len(q) /\ Len(q) \in Nat
  BY LenProperties
<1>2. Places(q, P) = 1..Len(q)
  BY <1>1 DEF Places
<1>3. Cardinality(1..Len(q)) = Len(q)
  BY <1>1, FS_Interval
<1> QED BY <1>2, <1>3 DEF Count

-----------------------------------------------------------------------------
(* What makes a context of the broker sound: its quota and its PUBACKs *)

Certain == {x \in Item : x.qos > 0}
Numbered == {x \in Item : x.qos > 0 <=> x.mid # 0}
Sent(m) == {x \in Item : x.qos > 0 /\ x.mid = m}
Waiting(m) == {x \in Sent(m) : x.state = "wait"}

(* The PUBACKs with identifier m that a context may still ask for: the items
   that wait for one without those the node has not been given yet *)
Slack(c, m) == Count(c.inflight, Waiting(m)) - Count(c.out, Sent(m))

MidUsed == Mid \ {0}

(* The messages of a context, its quota apart *)
Orderly(c) ==
    /\ c.inflight \in Seq(Numbered) /\ c.out \in Seq(Numbered)
    /\ c.queued \in Seq(Numbered \cap Certain)

Exact(c) == c.quota = InflightMax - Count(c.inflight, Certain)

Sound(c) ==
    /\ Orderly(c)
    /\ Count(c.inflight, Certain) <= InflightMax
    /\ c.state = "active" => Exact(c) /\ (c.queued # <<>> => c.quota = 0)
    /\ c.state = "free" => /\ c.id = NoId /\ c.quota = InflightMax
                           /\ c.inflight = <<>> /\ c.queued = <<>> /\ c.out = <<>>

(* A sound context stays sound, and no PUBACK too many may come. *)
Better(c, e) == Sound(c) => Sound(e) /\ \A m \in MidUsed : Slack(c, m) <= Slack(e, m)

LEMMA Counts ==
    ASSUME NEW c, Orderly(c)
    PROVE  /\ Count(c.inflight, Certain) \in Nat
           /\ \A m : /\ Count(c.inflight, Waiting(m)) \in Nat
                     /\ Count(c.out, Sent(m)) \in Nat /\ Slack(c, m) \in Int
<1>1. c.inflight \in Seq(Numbered) /\ c.out \in Seq(Numbered)
  BY DEF Orderly
<1>2. Count(c.inflight, Certain) \in Nat
  BY <1>1, CountType
<1>3. \A m : Count(c.inflight, Waiting(m)) \in Nat /\ Count(c.out, Sent(m)) \in Nat
  BY <1>1, CountType
<1> QED BY <1>2, <1>3 DEF Slack

LEMMA BetterTransitive ==
    ASSUME NEW c, NEW e, NEW f, Better(c, e), Better(e, f)
    PROVE  Better(c, f)
<1> SUFFICES ASSUME Sound(c) PROVE Sound(f) /\ \A m \in MidUsed : Slack(c, m) <= Slack(f, m)
  BY DEF Better
<1>1. Sound(e) /\ Sound(f)
  BY DEF Better
<1>2. \A m : Slack(c, m) \in Int /\ Slack(e, m) \in Int /\ Slack(f, m) \in Int
  BY <1>1, Counts DEF Sound
<1>3. \A m \in MidUsed : Slack(c, m) <= Slack(e, m) /\ Slack(e, m) <= Slack(f, m)
  BY <1>1 DEF Better
<1> QED BY <1>1, <1>2, <1>3

\* Only the messages, the quota and whether the context is in use matter.
LEMMA SameMessages ==
    ASSUME NEW c, NEW e, e.inflight = c.inflight, e.queued = c.queued, e.out = c.out,
           e.quota = c.quota,
           e.state = c.state /\ e.id = c.id
    PROVE  Better(c, e)
<1> SUFFICES ASSUME Sound(c) PROVE Sound(e) /\ \A m \in MidUsed : Slack(c, m) <= Slack(e, m)
  BY DEF Better
<1>1. Sound(e)
  BY DEF Sound, Orderly, Exact
<1>2. \A m : Slack(c, m) = Slack(e, m) /\ Slack(c, m) \in Int
  BY Counts DEF Sound, Slack
<1> QED BY <1>1, <1>2

-----------------------------------------------------------------------------
(* One item of the list after the other *)

\* The items of list have been looked at: e is what has become of c.
Written(c, list, e) ==
    /\ e \in Context /\ Session(e) = Session(c) /\ e.queued = c.queued /\ e.quota = c.quota
    /\ e.inflight \in Seq(Numbered) /\ e.out \in Seq(Numbered)
    /\ Count(e.inflight, Certain) = Count(list, Certain)
    /\ \A m \in MidUsed : Count(e.inflight, Waiting(m)) - Count(e.out, Sent(m))
                           = Count(list, Waiting(m)) - Count(c.out, Sent(m))

LEMMA NumberedFacts ==
    ASSUME NEW item \in Numbered
    PROVE  /\ item \in Item
           /\ [item EXCEPT !.state = "wait"] \in Numbered
           /\ item.qos \in {0, 1}
           /\ item \in Certain <=> item.qos # 0
           /\ [item EXCEPT !.state = "wait"] \in Certain <=> item.qos # 0
           /\ \A m : /\ item \in Waiting(m) <=> item.qos # 0 /\ item.mid = m /\ item.state = "wait"
                     /\ item \in Sent(m) <=> item.qos # 0 /\ item.mid = m
                     /\ [item EXCEPT !.state = "wait"] \in Waiting(m)
                           <=> item.qos # 0 /\ item.mid = m
<1>1. item \in Item /\ [item EXCEPT !.state = "wait"] \in Item
  BY ItemFacts DEF Numbered
<1>2. item.qos \in {0, 1}
  BY <1>1 DEF Item
<1>3. /\ [item EXCEPT !.state = "wait"].qos = item.qos
      /\ [item EXCEPT !.state = "wait"].mid = item.mid
      /\ [item EXCEPT !.state = "wait"].state = "wait"
  BY <1>1 DEF Item
<1> DEFINE w == [item EXCEPT !.state = "wait"]
<1> HIDE DEF w
<1>4. w \in Item /\ w.qos = item.qos /\ w.mid = item.mid /\ w.state = "wait"
  BY <1>1, <1>3 DEF w
<1>5. item.qos > 0 <=> item.qos # 0
  BY <1>2
<1>6. w \in Numbered
  BY <1>4 DEF Numbered
<1>7. (item \in Certain <=> item.qos # 0) /\ (w \in Certain <=> item.qos # 0)
  BY <1>1, <1>4, <1>5 DEF Certain
<1>8. \A m : /\ item \in Sent(m) <=> item.qos # 0 /\ item.mid = m
             /\ w \in Sent(m) <=> item.qos # 0 /\ item.mid = m
  BY <1>1, <1>4, <1>5 DEF Sent
<1>9. \A m : /\ item \in Waiting(m) <=> item.qos # 0 /\ item.mid = m /\ item.state = "wait"
             /\ w \in Waiting(m) <=> item.qos # 0 /\ item.mid = m
  BY <1>4, <1>8 DEF Waiting
<1> QED BY <1>1, <1>2, <1>6, <1>7, <1>8, <1>9 DEF w

LEMMA PassedWritten ==
    ASSUME NEW c \in Context, NEW list \in Seq(Numbered), NEW item \in Numbered,
           NEW e, Written(c, list, e), NEW f, Passed(e, item, f), c.out \in Seq(Numbered)
    PROVE  Written(c, Append(list, item), f)
<1> DEFINE w == [item EXCEPT !.state = "wait"]
<1>1. /\ f \in Context /\ Session(f) = Session(c) /\ f.queued = c.queued /\ f.quota = c.quota
  BY DEF Written, Passed
<1>2. w \in Numbered
  BY NumberedFacts
<1>3. e.inflight \in Seq(Numbered) /\ e.out \in Seq(Numbered)
  BY DEF Written
<1>4. \A P : Count(Append(list, item), P) = Count(list, P) + Bit(item \in P)
  BY CountAppend
<1>5. \A P : /\ Count(Append(e.inflight, item), P) = Count(e.inflight, P) + Bit(item \in P)
             /\ Count(Append(e.inflight, w), P) = Count(e.inflight, P) + Bit(w \in P)
             /\ Count(Append(e.out, item), P) = Count(e.out, P) + Bit(item \in P)
  BY <1>2, <1>3, CountAppend
<1>6. \A P : Count(list, P) \in Nat /\ Count(e.inflight, P) \in Nat /\ Count(e.out, P) \in Nat
             /\ Count(c.out, P) \in Nat
  BY <1>3, CountType
<1>7. f.inflight \in Seq(Numbered) /\ f.out \in Seq(Numbered)
  <2>1. /\ Append(e.inflight, item) \in Seq(Numbered) /\ Append(e.inflight, w) \in Seq(Numbered)
        /\ Append(e.out, item) \in Seq(Numbered)
    BY <1>2, <1>3, AppendProperties
  <2> QED BY <1>3, <2>1 DEF Passed
<1>8. /\ item \in Certain <=> item.qos # 0
      /\ w \in Certain <=> item.qos # 0
      /\ \A m : /\ item \in Waiting(m) <=> item.qos # 0 /\ item.mid = m /\ item.state = "wait"
                /\ item \in Sent(m) <=> item.qos # 0 /\ item.mid = m
                /\ w \in Waiting(m) <=> item.qos # 0 /\ item.mid = m
  BY NumberedFacts
<1>9. \/ f.inflight = Append(e.inflight, item) /\ f.out = e.out
      \/ /\ item.state = "publish" /\ item.qos = 0
         /\ f.inflight = e.inflight /\ f.out = Append(e.out, item)
      \/ /\ item.state = "publish" /\ item.qos # 0
         /\ f.inflight = Append(e.inflight, w) /\ f.out = Append(e.out, item)
  BY DEF Passed
<1> HIDE DEF w
<1>10. Count(f.inflight, Certain) = Count(Append(list, item), Certain)
  <2>1. Count(e.inflight, Certain) = Count(list, Certain)
    BY DEF Written
  <2>2. Count(Append(list, item), Certain) = Count(list, Certain) + Bit(item \in Certain)
    BY <1>4
  <2>3. \/ Count(f.inflight, Certain) = Count(e.inflight, Certain) + Bit(item \in Certain)
        \/ Count(f.inflight, Certain) = Count(e.inflight, Certain) /\ item \notin Certain
        \/ /\ Count(f.inflight, Certain) = Count(e.inflight, Certain) + Bit(w \in Certain)
           /\ item \in Certain /\ w \in Certain
    BY <1>5, <1>8, <1>9
  <2>4. Count(list, Certain) \in Nat
    BY <1>6
  <2> QED BY <2>1, <2>2, <2>3, <2>4 DEF Bit
<1>11. ASSUME NEW m \in MidUsed
       PROVE  Count(f.inflight, Waiting(m)) - Count(f.out, Sent(m))
                = Count(Append(list, item), Waiting(m)) - Count(c.out, Sent(m))
  <2> DEFINE A == Waiting(m)
             B == Sent(m)
  <2>1. Count(e.inflight, A) - Count(e.out, B) = Count(list, A) - Count(c.out, B)
    BY DEF Written
  <2>2. /\ item \in A <=> item.qos # 0 /\ item.mid = m /\ item.state = "wait"
        /\ item \in B <=> item.qos # 0 /\ item.mid = m
        /\ w \in A <=> item.qos # 0 /\ item.mid = m
    BY <1>8
  <2> HIDE DEF A, B
  <2>3. /\ Count(list, A) \in Nat /\ Count(e.inflight, A) \in Nat
        /\ Count(e.out, B) \in Nat /\ Count(c.out, B) \in Nat
    BY <1>6
  <2>4. Count(Append(list, item), A) = Count(list, A) + Bit(item \in A)
    BY <1>4
  <2>5. CASE f.inflight = Append(e.inflight, item) /\ f.out = e.out
    <3>1. Count(f.inflight, A) = Count(e.inflight, A) + Bit(item \in A)
      BY <1>5, <2>5
    <3>2. Count(f.out, B) = Count(e.out, B)
      BY <2>5
    <3> QED BY <2>1, <2>3, <2>4, <3>1, <3>2 DEF A, B, Bit
  <2>6. CASE /\ item.state = "publish" /\ item.qos = 0
             /\ f.inflight = e.inflight /\ f.out = Append(e.out, item)
    <3>1. item \notin A /\ item \notin B
      BY <2>2, <2>6
    <3>2. Count(f.out, B) = Count(e.out, B) + Bit(item \in B)
      BY <1>5, <2>6
    <3>3. Count(f.inflight, A) = Count(e.inflight, A)
      BY <2>6
    <3> QED BY <2>1, <2>3, <2>4, <3>1, <3>2, <3>3 DEF A, B, Bit
  <2>7. CASE /\ item.state = "publish" /\ item.qos # 0
             /\ f.inflight = Append(e.inflight, w) /\ f.out = Append(e.out, item)
    <3>1. item \notin A /\ (w \in A <=> item \in B)
      BY <2>2, <2>7
    <3>2. Count(f.out, B) = Count(e.out, B) + Bit(item \in B)
      BY <1>5, <2>7
    <3>3. Count(f.inflight, A) = Count(e.inflight, A) + Bit(w \in A)
      BY <1>5, <2>7
    <3> QED BY <2>1, <2>3, <2>4, <3>1, <3>2, <3>3 DEF A, B, Bit
  <2> QED BY <1>9, <2>5, <2>6, <2>7
<1> QED BY <1>1, <1>7, <1>10, <1>11 DEF Written

\* A context whose whole list has been looked at
LEMMA WrittenBetter ==
    ASSUME NEW c \in Context, NEW e, Written(c, c.inflight, e), c.state # "free"
    PROVE  Better(c, e) /\ (Orderly(c) => Orderly(e)) /\ (Exact(c) => Exact(e))
           /\ e.quota = c.quota
<1>1. /\ e.state = c.state /\ e.queued = c.queued /\ e.quota = c.quota
      /\ e.inflight \in Seq(Numbered) /\ e.out \in Seq(Numbered)
      /\ Count(e.inflight, Certain) = Count(c.inflight, Certain)
  BY DEF Written, Session
<1>2. Sound(c) => Sound(e)
  BY <1>1 DEF Sound, Orderly, Exact
<1>3. ASSUME Sound(c), NEW m \in MidUsed PROVE Slack(c, m) <= Slack(e, m)
  <2>1. Slack(c, m) = Slack(e, m) /\ Slack(c, m) \in Int
    BY <1>3, Counts DEF Written, Slack, Sound
  <2> QED BY <2>1
<1> QED BY <1>1, <1>2, <1>3 DEF Better, Orderly, Exact

LEMMA AllWrittenBetter ==
    ASSUME NEW n, NEW d \in Databases(n), NEW s \in Slot, NEW i, Orderly(d.ctx[s]),
           Connected(d.ctx[s])
    PROVE  Written(d.ctx[s], d.ctx[s].inflight, WrittenFrom(d, s, i).ctx[s])
<1> DEFINE c == d.ctx[s]
           list == c.inflight
           N == Len(list)
           Seen(k) == SubSeq(list, 1, k)
<1>1. PICK w : /\ w \in [0..N -> Databases(n)] /\ Passes(d, s, i, w)
               /\ WrittenFrom(d, s, i) = w[N]
  BY LoopPasses
<1>2. c \in Context /\ list \in Seq(Numbered) /\ c.out \in Seq(Numbered) /\ N \in Nat
  BY LenProperties DEF Databases, Orderly
<1> DEFINE T == {k \in 0..N : Written(c, Seen(k), w[k].ctx[s])}
<1>3. 0 \in T
  <2>1. Seen(0) = <<>> /\ <<>> \in Seq(Numbered)
    BY <1>2, SubSeqEmpty, EmptySeq
  <2> DEFINE e == [c EXCEPT !.inflight = <<>>]
  <2>2. w[0].ctx[s] = e /\ e \in Context
    BY <1>1, EmptiedType DEF Passes
  <2>3. /\ Session(e) = Session(c) /\ e.queued = c.queued /\ e.quota = c.quota
        /\ e.out = c.out /\ e.inflight = <<>>
    BY <1>2 DEF Session, Context
  <2> HIDE DEF e, c, Seen
  <2>4. Written(c, <<>>, e)
    BY <1>2, <2>1, <2>2, <2>3 DEF Written
  <2> QED BY <1>2, <2>1, <2>2, <2>4
<1>4. ASSUME NEW k \in 0..(N - 1), k \in T PROVE k + 1 \in T
  <2>1. k + 1 \in 1..N /\ k + 1 \in 0..N /\ (k + 1) - 1 = k /\ k \in 0..N
    BY <1>2
  <2>2. w[k + 1] = Pass(w[k], s, i, k + 1, list[k + 1])
    BY <1>1, <2>1 DEF Passes
  <2>3. list[k + 1] \in Numbered /\ list[k + 1] \in Item /\ w[k] \in Databases(n)
    BY <1>1, <1>2, <2>1, ElementOfSeq DEF Numbered
  <2>4. Passed(w[k].ctx[s], list[k + 1], w[k + 1].ctx[s])
    BY <2>2, <2>3, PassDoes
  <2>5. Seen(k) \in Seq(Numbered) /\ Seen(k + 1) = Append(Seen(k), list[k + 1])
    <3> HIDE DEF list
    <3>1. Seen(k) \in Seq(Numbered)
      BY <1>2, <2>1, SubSeqProperties DEF N
    <3>2. Seen(k + 1) = Append(Seen(k), list[k + 1])
      BY <1>2, <2>1, SubSeqProperties
    <3> QED BY <3>1, <3>2
  <2> HIDE DEF c, list, Seen
  <2>6. Written(c, Append(Seen(k), list[k + 1]), w[k + 1].ctx[s])
    BY <1>2, <1>4, <2>3, <2>4, <2>5, PassedWritten
  <2> QED BY <2>1, <2>5, <2>6
<1>5. N \in T
  <2> HIDE DEF T, N
  <2>1. \A k \in 0..N : k \in T
    BY <1>2, <1>3, <1>4, Numbers!UpTo
  <2> QED BY <1>2, <2>1
<1>6. Seen(N) = list
  BY <1>2, SubSeqFull
<1> QED BY <1>1, <1>5, <1>6

-----------------------------------------------------------------------------
(* The queue moves on *)

LEMMA ResentNumbered ==
    ASSUME NEW item \in Numbered
    PROVE  /\ [item EXCEPT !.state = "publish"] \in Numbered
           /\ [item EXCEPT !.state = "publish"] \in Certain <=> item \in Certain
           /\ \A m : [item EXCEPT !.state = "publish"] \notin Waiting(m)
<1> DEFINE w == [item EXCEPT !.state = "publish"]
<1>1. item \in Item /\ w \in Item
  BY ItemFacts DEF Numbered
<1>2. w.qos = item.qos /\ w.mid = item.mid /\ w.state = "publish"
  BY <1>1 DEF Item
<1> HIDE DEF w
<1>3. w \in Numbered /\ (w \in Certain <=> item \in Certain) /\ \A m : w \notin Waiting(m)
  BY <1>1, <1>2 DEF Numbered, Certain, Waiting
<1> QED BY <1>3 DEF w

\* A list that is sent again: nothing of it waits for a PUBACK.
Resent(list, n) == [i \in 1..n |-> [list[i] EXCEPT !.state = "publish"]]

LEMMA ResentFacts ==
    ASSUME NEW list \in Seq(Numbered), NEW n \in 0..Len(list)
    PROVE  /\ Resent(list, n) \in Seq(Numbered) /\ Len(Resent(list, n)) = n
           /\ \A i \in 1..n : Resent(list, n)[i] \in Certain <=> list[i] \in Certain
           /\ \A m : Count(Resent(list, n), Waiting(m)) = 0
<1> DEFINE r == Resent(list, n)
<1>1. n \in Nat /\ Len(list) \in Nat /\ \A i \in 1..n : list[i] \in Numbered
  BY LenProperties, ElementOfSeq
<1>2. \A i \in 1..n : /\ r[i] \in Numbered
                      /\ r[i] \in Certain <=> list[i] \in Certain
                      /\ \A m : r[i] \notin Waiting(m)
  <2> SUFFICES ASSUME NEW i \in 1..n
               PROVE  /\ r[i] \in Numbered
                      /\ r[i] \in Certain <=> list[i] \in Certain
                      /\ \A m : r[i] \notin Waiting(m)
    OBVIOUS
  <2>1. r[i] = [list[i] EXCEPT !.state = "publish"] /\ list[i] \in Numbered
    BY <1>1 DEF Resent
  <2> HIDE DEF r
  <2> QED BY <2>1, ResentNumbered
<1>3. r \in [1..n -> Numbered]
  <2>1. r = [i \in 1..n |-> r[i]]
    BY DEF Resent
  <2> HIDE DEF r
  <2> QED BY <1>2, <2>1
<1> HIDE DEF r
<1>4. r \in Seq(Numbered) /\ Len(r) = n
  BY <1>1, <1>3, SeqDef, LenProperties
<1>5. \A m : Count(r, Waiting(m)) = 0
  BY <1>2, <1>4, CountType
<1> QED BY <1>2, <1>4, <1>5 DEF r

LEMMA QueueDrains ==
    ASSUME NEW c \in Context, Orderly(c), Exact(c)
    PROVE  LET e == db__message_write_queued_out(c) IN
           /\ e \in Context /\ Session(e) = Session(c)
           /\ Orderly(e) /\ Exact(e) /\ (e.queued # <<>> => e.quota = 0)
           /\ Count(e.inflight, Certain) <= InflightMax
           /\ \A m : Slack(e, m) = Slack(c, m)
<1> DEFINE n == Min({c.quota, Len(c.queued)})
           moved == Resent(c.queued, n)
           rest == SubSeq(c.queued, n + 1, Len(c.queued))
           e == db__message_write_queued_out(c)
<1>1. e \in Context /\ Session(e) = Session(c)
  BY QueueMoves
<1>2. /\ c.quota \in Nat /\ Len(c.queued) \in Nat /\ c.quota <= InflightMax /\ InflightMax \in Nat
      /\ c.queued \in Seq(Numbered \cap Certain) /\ c.queued \in Seq(Numbered)
      /\ c.inflight \in Seq(Numbered) /\ c.out \in Seq(Numbered)
  BY LenProperties, BrokerAssumption DEF Context, Orderly
<1>3. n \in Nat /\ n <= c.quota /\ n <= Len(c.queued) /\ n \in {c.quota, Len(c.queued)}
  BY <1>2, MinOfTwo
<1>4. /\ e.inflight = c.inflight \o moved /\ e.queued = rest /\ e.quota = c.quota - n
      /\ e.out = c.out
  BY DEF db__message_write_queued_out, Context, Resent
<1> HIDE DEF n, e
<1>5. n \in 0..Len(c.queued) /\ \A i \in 1..n : c.queued[i] \in Certain
  <2>1. \A i \in 1..Len(c.queued) : c.queued[i] \in Numbered \cap Certain
    BY <1>2, ElementOfSeq
  <2> QED BY <1>2, <1>3, <2>1
<1>6. /\ moved \in Seq(Numbered) /\ Len(moved) = n
      /\ \A i \in 1..n : moved[i] \in Certain
      /\ \A m : Count(moved, Waiting(m)) = 0
  BY <1>2, <1>5, ResentFacts
<1> HIDE DEF moved
<1>7. Count(moved, Certain) = n
  BY <1>6, CountAll
<1>8. rest \in Seq(Numbered \cap Certain) /\ (rest # <<>> => n < Len(c.queued))
  <2>1. \A i \in (n + 1)..Len(c.queued) : c.queued[i] \in Numbered \cap Certain
    BY <1>2, <1>3, ElementOfSeq
  <2>2. rest \in Seq(Numbered \cap Certain)
    BY <1>2, <1>3, <2>1, SubSeqProperties
  <2>3. n = Len(c.queued) => rest = <<>>
    BY <1>2, <1>3, SubSeqEmpty
  <2> QED BY <1>2, <1>3, <2>2, <2>3
<1> HIDE DEF rest
<1>9. \A P : Count(e.inflight, P) = Count(c.inflight, P) + Count(moved, P)
  BY <1>2, <1>4, <1>6, CountConcat
<1>10. e.inflight \in Seq(Numbered)
  BY <1>2, <1>4, <1>6, ConcatProperties
<1>11. Orderly(e)
  BY <1>2, <1>4, <1>8, <1>10 DEF Orderly
<1>12. Count(c.inflight, Certain) \in Nat /\ Count(e.inflight, Certain) \in Nat
  BY <1>11, Counts
<1>13. Exact(e)
  BY <1>2, <1>3, <1>4, <1>7, <1>9, <1>12 DEF Exact
<1>14. e.queued # <<>> => e.quota = 0
  BY <1>2, <1>3, <1>4, <1>8
<1>15. Count(e.inflight, Certain) <= InflightMax
  <2>1. e.quota \in Nat
    BY <1>2, <1>3, <1>4
  <2> QED BY <1>2, <1>12, <1>13, <2>1 DEF Exact
<1>16. \A m : Slack(e, m) = Slack(c, m)
  <2> SUFFICES ASSUME NEW m PROVE Slack(e, m) = Slack(c, m)
    OBVIOUS
  <2>1. Count(e.inflight, Waiting(m)) = Count(c.inflight, Waiting(m)) + 0
    BY <1>6, <1>9
  <2>2. Count(c.inflight, Waiting(m)) \in Nat
    BY Counts
  <2> QED BY <1>4, <2>1, <2>2 DEF Slack
<1> QED BY <1>1, <1>11, <1>13, <1>14, <1>15, <1>16 DEF e

\* One context of a database for another that is as good
LEMMA QueueWrittenDrains ==
    ASSUME NEW n, NEW d \in Databases(n), NEW s \in Slot, Connected(d.ctx[s]),
           Orderly(d.ctx[s]), Exact(d.ctx[s])
    PROVE  LET e == [d EXCEPT !.ctx[s] = db__message_write_queued_out(@)] IN
           /\ e \in Databases(n) /\ OnlyMessages(d, e, s) /\ Connected(e.ctx[s])
           /\ Sound(e.ctx[s]) /\ \A m \in MidUsed : Slack(e.ctx[s], m) = Slack(d.ctx[s], m)
<1> DEFINE e == [d EXCEPT !.ctx[s] = db__message_write_queued_out(@)]
           f == db__message_write_queued_out(d.ctx[s])
<1>1. e \in Databases(n) /\ OnlyMessages(d, e, s)
  BY QueueWritten
<1>2. d.ctx[s] \in Context /\ e.ctx[s] = f
  BY DEF Databases
<1>3. /\ f \in Context /\ Session(f) = Session(d.ctx[s])
      /\ Orderly(f) /\ Exact(f) /\ (f.queued # <<>> => f.quota = 0)
      /\ Count(f.inflight, Certain) <= InflightMax
      /\ \A m : Slack(f, m) = Slack(d.ctx[s], m)
  BY <1>2, QueueDrains
<1> HIDE DEF e, f
<1>4. f.state = "active"
  BY <1>3 DEF Session, Connected
<1>5. Sound(f)
  BY <1>3, <1>4 DEF Sound
<1> QED BY <1>1, <1>2, <1>3, <1>4, <1>5 DEF e, Connected

LEMMA LatestBetter ==
    ASSUME NEW n, NEW d \in Databases(n), NEW s \in Slot, Sound(d.ctx[s])
    PROVE  Better(d.ctx[s], db__message_write_inflight_out_latest(d, s).ctx[s])
<1>1. PICK i : db__message_write_inflight_out_latest(d, s) = WrittenFrom(d, s, i)
  BY DEF db__message_write_inflight_out_latest
<1>2. d.ctx[s] \in Context
  BY DEF Databases
<1>3. CASE Connected(d.ctx[s])
  <2>1. Written(d.ctx[s], d.ctx[s].inflight, WrittenFrom(d, s, i).ctx[s])
    BY <1>3, AllWrittenBetter DEF Sound
  <2> QED BY <1>1, <1>2, <1>3, <2>1, WrittenBetter DEF Connected
<1>4. CASE ~Connected(d.ctx[s])
  <2>1. WrittenFrom(d, s, i) = d
    BY <1>4 DEF WrittenFrom
  <2> QED BY <1>1, <2>1, SameMessages
<1> QED BY <1>3, <1>4

LEMMA UpdatedBetter ==
    ASSUME NEW n, NEW d \in Databases(n), NEW s \in Slot
    PROVE  Better(d.ctx[s], Updated(d, s).ctx[s])
<1> SUFFICES ASSUME Sound(d.ctx[s]) PROVE Better(d.ctx[s], Updated(d, s).ctx[s])
  BY DEF Better
<1> DEFINE e == db__message_write_inflight_out_latest(d, s)
           f == [e EXCEPT !.ctx[s] = db__message_write_queued_out(@)]
<1>1. e \in Databases(n) /\ Better(d.ctx[s], e.ctx[s])
  BY LatestWritten, LatestBetter
<1>2. Updated(d, s) = IF Connected(e.ctx[s]) THEN f ELSE e
  BY DEF Updated
<1> HIDE DEF e
<1>3. CASE Connected(e.ctx[s])
  <2>1. Sound(e.ctx[s])
    BY <1>1 DEF Better
  <2>2. Orderly(e.ctx[s]) /\ Exact(e.ctx[s])
    BY <1>3, <2>1 DEF Sound, Connected
  <2>3. Sound(f.ctx[s]) /\ \A m \in MidUsed : Slack(f.ctx[s], m) = Slack(e.ctx[s], m)
    BY <1>1, <1>3, <2>2, QueueWrittenDrains
  <2>4. \A m : Slack(e.ctx[s], m) \in Int
    BY <2>2, Counts
  <2> HIDE DEF f
  <2>5. Better(e.ctx[s], f.ctx[s])
    BY <2>3, <2>4 DEF Better
  <2> QED BY <1>1, <1>2, <1>3, <2>5, BetterTransitive
<1>4. CASE ~Connected(e.ctx[s])
  BY <1>1, <1>2, <1>4
<1> QED BY <1>3, <1>4

-----------------------------------------------------------------------------
(* Messages are put in flight and queued *)

LEMMA HeldBetter ==
    ASSUME NEW n, NEW d \in Databases(n), NEW s \in Slot, NEW m \in 1..MaxPublish,
           NEW mid \in Mid, NEW qos \in {0, 1}, NEW retain \in BOOLEAN, qos > 0 <=> mid # 0,
           Fate(d.ctx[s], qos) # "dropped", d.ctx[s].id # NoId
    PROVE  Better(d.ctx[s], Held(d, s, m, mid, qos, retain).ctx[s])
<1> DEFINE c == d.ctx[s]
           item == NewItem(c, m, mid, qos, retain)
           e == Held(d, s, m, mid, qos, retain).ctx[s]
<1> SUFFICES ASSUME Sound(c) PROVE Sound(e) /\ \A x \in MidUsed : Slack(c, x) <= Slack(e, x)
  BY DEF Better
<1>1. e = Given(c, item)
  BY HeldType
<1>2. c \in Context /\ c.state # "free" /\ Session(e) = Session(c)
  BY HeldType DEF Databases, Sound, OnlyMessages
<1>3. /\ item.state = Fate(c, qos) /\ item.qos = qos /\ item.mid = mid
      /\ item.state \in {"publish", "queued"}
  BY DEF NewItem, Fate
<1>4. item \in Numbered /\ (item \in Certain <=> qos > 0)
  <2>1. item \in Item
    BY <1>3, ItemFacts DEF NewItem
  <2> QED BY <1>3, <2>1 DEF Numbered, Certain
<1>5. item.state = "publish" => Connected(c) /\ (qos = 0 \/ c.quota > 0)
  BY <1>3 DEF Fate, db__ready_for_flight
<1>6. item.state = "queued" => qos > 0 /\ (Connected(c) => ~(c.quota > 0))
  BY <1>3 DEF Fate, db__ready_for_flight, db__ready_for_queue
<1> HIDE DEF item, e, c
<1>7. /\ e.inflight = IF item.state = "publish" THEN Append(c.inflight, item) ELSE c.inflight
      /\ e.queued = IF item.state = "queued" THEN Append(c.queued, item) ELSE c.queued
      /\ e.quota = IF item.state = "publish" /\ item.qos > 0 THEN c.quota - 1 ELSE c.quota
      /\ e.out = c.out
  BY <1>1, <1>2 DEF Given, Messages, Context
<1>8. e.state = c.state /\ (Connected(c) <=> c.state = "active")
  BY <1>2 DEF Session, Connected
<1>9. /\ c.inflight \in Seq(Numbered) /\ c.out \in Seq(Numbered)
      /\ c.queued \in Seq(Numbered \cap Certain) /\ c.quota \in Nat
      /\ InflightMax \in Nat
  BY <1>2, BrokerAssumption DEF Sound, Orderly, Context
<1>10. /\ Append(c.inflight, item) \in Seq(Numbered)
       /\ \A P : Count(Append(c.inflight, item), P) = Count(c.inflight, P) + Bit(item \in P)
       /\ \A P : Count(c.inflight, P) \in Nat
  BY <1>4, <1>9, AppendProperties, CountAppend, CountType
<1>11. item \in Certain => Append(c.queued, item) \in Seq(Numbered \cap Certain)
  BY <1>4, <1>9, AppendProperties
<1>12. Orderly(e)
  BY <1>3, <1>4, <1>6, <1>7, <1>9, <1>10, <1>11 DEF Orderly
<1>13. CASE item.state = "publish"
  <2>1. /\ e.inflight = Append(c.inflight, item) /\ e.queued = c.queued
        /\ e.quota = IF qos > 0 THEN c.quota - 1 ELSE c.quota
    BY <1>3, <1>7, <1>13
  <2>2. c.state = "active" /\ Exact(c) /\ (c.queued # <<>> => c.quota = 0)
    BY <1>5, <1>8, <1>13 DEF Sound
  <2>3. qos = 0 \/ c.quota > 0
    BY <1>5, <1>13
  <2>4. Count(e.inflight, Certain) = Count(c.inflight, Certain) + Bit(qos > 0)
    BY <1>4, <1>10, <2>1 DEF Bit
  <2>5. Exact(e) /\ Count(e.inflight, Certain) <= InflightMax
    <3>1. Count(c.inflight, Certain) \in Nat
      BY <1>10
    <3>2. c.quota = InflightMax - Count(c.inflight, Certain)
      BY <2>2 DEF Exact
    <3>3. CASE qos = 0
      BY <1>9, <2>1, <2>4, <3>1, <3>2, <3>3 DEF Exact, Bit
    <3>4. CASE qos = 1
      BY <1>9, <2>1, <2>3, <2>4, <3>1, <3>2, <3>4 DEF Exact, Bit
    <3> QED BY <3>3, <3>4
  <2>6. e.queued # <<>> => e.quota = 0
    <3>1. ASSUME c.queued # <<>> PROVE qos = 0 /\ c.quota = 0
      BY <2>2, <2>3, <3>1
    <3> QED BY <2>1, <3>1
  <2>7. Sound(e)
    BY <1>2, <1>8, <1>12, <2>5, <2>6 DEF Sound
  <2>8. ASSUME NEW x \in MidUsed PROVE Slack(c, x) <= Slack(e, x)
    <3>1. Count(e.inflight, Waiting(x)) = Count(c.inflight, Waiting(x)) + Bit(item \in Waiting(x))
      BY <1>10, <2>1
    <3>2. item \notin Waiting(x)
      BY <1>13 DEF Waiting
    <3>3. Count(e.inflight, Waiting(x)) = Count(c.inflight, Waiting(x))
      BY <1>10, <3>1, <3>2 DEF Bit
    <3>4. Slack(e, x) = Slack(c, x) /\ Slack(e, x) \in Int
      BY <1>7, <1>12, <3>3, Counts DEF Slack
    <3> QED BY <3>4
  <2> QED BY <2>7, <2>8
<1>14. CASE item.state = "queued"
  <2>1. e.inflight = c.inflight /\ e.quota = c.quota
    BY <1>7, <1>14
  <2>2. Sound(e)
    <3>1. c.state = "active" => c.quota = 0
      BY <1>6, <1>8, <1>9, <1>14
    <3> QED BY <1>2, <1>8, <1>12, <2>1, <3>1 DEF Sound, Exact
  <2>3. \A x : Slack(e, x) = Slack(c, x) /\ Slack(e, x) \in Int
    BY <1>7, <1>12, <2>1, Counts DEF Slack
  <2> QED BY <2>2, <2>3
<1> QED BY <1>3, <1>13, <1>14 DEF c

LEMMA InsertBetter ==
    ASSUME NEW n, NEW d \in Databases(n), NEW s \in Slot, NEW m \in 1..MaxPublish,
           NEW mid \in Mid, NEW qos \in {0, 1}, NEW retain \in BOOLEAN, NEW update,
           qos > 0 <=> mid # 0
    PROVE  Better(d.ctx[s], db__message_insert(d, s, m, mid, qos, retain, update).ctx[s])
<1> DEFINE e == Held(d, s, m, mid, qos, retain)
           r == db__message_insert(d, s, m, mid, qos, retain, update)
<1>1. \/ r = d
      \/ /\ Fate(d.ctx[s], qos) # "dropped" /\ d.ctx[s].id # NoId
         /\ r = e \/ r = Updated(e, s)
  BY DEF db__message_insert
<1>2. CASE r = d
  <2> HIDE DEF r
  <2>1. Better(d.ctx[s], d.ctx[s])
    BY SameMessages
  <2> QED BY <1>2, <2>1 DEF r
<1>3. CASE /\ Fate(d.ctx[s], qos) # "dropped" /\ d.ctx[s].id # NoId
           /\ r = e \/ r = Updated(e, s)
  <2>1. e \in Databases(n) /\ Better(d.ctx[s], e.ctx[s])
    BY <1>3, HeldType, HeldBetter
  <2> HIDE DEF e, r
  <2>2. Better(e.ctx[s], Updated(e, s).ctx[s])
    BY <2>1, UpdatedBetter
  <2>3. Better(d.ctx[s], Updated(e, s).ctx[s])
    BY <2>1, <2>2, BetterTransitive
  <2> QED BY <1>3, <2>1, <2>3 DEF r
<1> QED BY <1>1, <1>2, <1>3

LEMMA OfferedBetter ==
    ASSUME NEW n, NEW d \in Databases(n), NEW s \in Slot, NEW m \in 1..MaxPublish,
           NEW qos \in {0, 1}, NEW retain \in BOOLEAN, NEW update
    PROVE  Better(d.ctx[s], Offered(d, s, m, qos, retain, update).ctx[s])
<1> DEFINE mid == IF qos = 0 THEN 0 ELSE mosquitto__mid_generate(d.ctx[s].last_mid)
           c == [d.ctx[s] EXCEPT !.last_mid = mid]
           numbered == [d EXCEPT !.ctx[s].last_mid = mid]
           e == IF qos = 0 THEN d ELSE numbered
<1>1. d.ctx[s] \in Context /\ d.ctx[s].last_mid \in Mid
  BY DEF Databases, Context
<1>2. mid \in Mid /\ (qos > 0 <=> mid # 0)
  BY <1>1, MidFacts
<1>3. Offered(d, s, m, qos, retain, update) = db__message_insert(e, s, m, mid, qos, retain, update)
  BY DEF Offered
<1> HIDE DEF mid
<1>4. c \in Context
  BY <1>1, <1>2, ContextChanges
<1>5. /\ c.inflight = d.ctx[s].inflight /\ c.queued = d.ctx[s].queued /\ c.out = d.ctx[s].out
      /\ c.quota = d.ctx[s].quota /\ c.state = d.ctx[s].state /\ c.id = d.ctx[s].id
  BY <1>1 DEF Context
<1>6. numbered = [d EXCEPT !.ctx[s] = c]
  BY DEF Databases
<1> HIDE DEF c, numbered
<1>7. numbered \in Databases(n) /\ numbered.ctx[s] = c
  BY <1>4, <1>6, ContextReplaced
<1>8. Better(d.ctx[s], c)
  BY <1>5, SameMessages
<1>9. Better(d.ctx[s], d.ctx[s])
  BY SameMessages
<1>10. e \in Databases(n) /\ Better(d.ctx[s], e.ctx[s])
  BY <1>7, <1>8, <1>9
<1> HIDE DEF e
<1>11. Better(e.ctx[s], db__message_insert(e, s, m, mid, qos, retain, update).ctx[s])
  BY <1>2, <1>10, InsertBetter
<1> QED BY <1>3, <1>10, <1>11, BetterTransitive

-----------------------------------------------------------------------------
(* Every context at once *)

AllBetter(d, e) == \A s \in Slot : Better(d.ctx[s], e.ctx[s])

LEMMA AllBetterFacts ==
    ASSUME NEW d
    PROVE  /\ AllBetter(d, d)
           /\ \A e, f : AllBetter(d, e) /\ AllBetter(e, f) => AllBetter(d, f)
           /\ \A e, s : s \in Slot /\ OnlyMessages(d, e, s) /\ Better(d.ctx[s], e.ctx[s])
                          => AllBetter(d, e)
           /\ \A e : e.ctx = d.ctx => AllBetter(d, e)
<1>1. \A c : Better(c, c)
  BY SameMessages
<1>2. ASSUME NEW e, NEW f, AllBetter(d, e), AllBetter(e, f) PROVE AllBetter(d, f)
  <2> SUFFICES ASSUME NEW s \in Slot PROVE Better(d.ctx[s], f.ctx[s])
    BY DEF AllBetter
  <2> QED BY <1>2, BetterTransitive DEF AllBetter
<1>3. \A e, s : s \in Slot /\ OnlyMessages(d, e, s) /\ Better(d.ctx[s], e.ctx[s])
                    => AllBetter(d, e)
  BY <1>1 DEF OnlyMessages, AllBetter
<1>4. AllBetter(d, d) /\ \A e : e.ctx = d.ctx => AllBetter(d, e)
  BY <1>1 DEF AllBetter
<1> QED BY <1>2, <1>3, <1>4

LEMMA ProcessBetter ==
    ASSUME NEW n, NEW d \in Databases(n), NEW t, NEW m \in 1..MaxPublish, IsFiniteSet(d.leaves)
    PROVE  AllBetter(d, subs__process(d, t, m))
<1> DEFINE S == {e \in Databases(n) : AllBetter(d, e)}
<1>1. d \in S
  BY AllBetterFacts
<1>2. ASSUME NEW e \in S, NEW leaf \in Subscribers(d, t) PROVE subs__send(e, leaf, m) \in S
  <2>1. leaf.slot \in Slot /\ leaf.qos \in {0, 1} /\ FALSE \in BOOLEAN
    BY DEF Leaf, Subscribers, Databases
  <2> DEFINE f == subs__send(e, leaf, m)
  <2>2. f \in Databases(n) /\ OnlyMessages(e, f, leaf.slot)
    BY <2>1, OfferedType DEF subs__send
  <2>3. Better(e.ctx[leaf.slot], f.ctx[leaf.slot])
    BY <2>1, OfferedBetter DEF subs__send
  <2> HIDE DEF f
  <2>4. AllBetter(d, f)
    BY <2>1, <2>2, <2>3, AllBetterFacts
  <2> QED BY <2>2, <2>4 DEF f
<1>3. subs__process(d, t, m) \in S
  <2> HIDE DEF S
  <2> QED BY <1>1, <1>2, ProcessInside
<1> QED BY <1>3

LEMMA RetainBetter ==
    ASSUME NEW n \in Nat, NEW d \in Databases(n), NEW t, NEW m \in 1..n
    PROVE  retain__store(d, t, m).ctx = d.ctx
<1> DEFINE e == IF d.retained[t] = NoMessage THEN d
                ELSE db__msg_store_ref_dec(d, d.retained[t])
           f == [e EXCEPT !.retained[t] = m]
<1>1. e \in Databases(n) /\ e.ctx = d.ctx
  BY RefDec
<1> HIDE DEF e
<1>2. f \in Databases(n) /\ f.ctx = e.ctx
  BY <1>1 DEF Databases
<1>3. retain__store(d, t, m) = db__msg_store_ref_inc(f, m)
  BY DEF retain__store, e
<1> HIDE DEF f
<1> QED BY <1>1, <1>2, <1>3, RefInc

LEMMA QueuedBetter ==
    ASSUME NEW n \in Nat, n <= MaxPublish, NEW d \in Databases(n), NEW t, NEW m \in 1..n,
           IsFiniteSet(d.leaves)
    PROVE  AllBetter(d, sub__messages_queue(d, t, m))
<1> DEFINE e == db__msg_store_ref_inc(d, m)
           f == subs__process(e, t, m)
           g == retain__store(f, t, m)
<1>1. m \in 1..MaxPublish
  BY BrokerAssumption
<1>2. e \in Databases(n) /\ e.ctx = d.ctx /\ IsFiniteSet(e.leaves)
  BY RefInc
<1> HIDE DEF e
<1>3. f \in Databases(n) /\ AllBetter(e, f)
  BY <1>1, <1>2, ProcessType, ProcessBetter
<1> HIDE DEF f
<1>4. g \in Databases(n) /\ g.ctx = f.ctx
  BY <1>3, RetainType, RetainBetter
<1>5. sub__messages_queue(d, t, m) = db__msg_store_ref_dec(g, m)
  BY DEF sub__messages_queue, e, f
<1> HIDE DEF g
<1>6. sub__messages_queue(d, t, m).ctx = f.ctx
  BY <1>4, <1>5, RefDec
<1>7. AllBetter(d, e) /\ AllBetter(f, sub__messages_queue(d, t, m))
  BY <1>2, <1>6, AllBetterFacts
<1> QED BY <1>3, <1>7, AllBetterFacts

-----------------------------------------------------------------------------
(* A PUBACK *)

\* Context c without its i-th item in flight, whose quota has been given back
Without(c, i) == [[c EXCEPT !.quota = c.quota + 1] EXCEPT !.inflight = RemoveAt(c.inflight, i)]

LEMMA WithoutSound ==
    ASSUME NEW c \in Context, Sound(c), Connected(c), NEW i \in 1..Len(c.inflight),
           c.inflight[i].mid \in MidUsed
    PROVE  LET e == Without(c, i) IN
           /\ e \in Context /\ Session(e) = Session(c) /\ c.quota < InflightMax
           /\ Orderly(e) /\ Exact(e)
           /\ \A m \in MidUsed : Slack(c, m) - Bit(m = c.inflight[i].mid) <= Slack(e, m)
<1> DEFINE e == Without(c, i)
           list == c.inflight
           left == RemoveAt(list, i)
           one == [c EXCEPT !.quota = c.quota + 1]
<1>1. /\ list \in Seq(Numbered) /\ c.out \in Seq(Numbered)
      /\ c.queued \in Seq(Numbered \cap Certain) /\ c.queued \in Seq(Item)
      /\ c.quota \in 0..InflightMax /\ InflightMax \in Nat
  BY BrokerAssumption DEF Sound, Orderly, Context
<1>2. list[i] \in Numbered /\ list[i].mid # 0
  BY <1>1, ElementOfSeq DEF MidUsed
<1>3. list[i] \in Item /\ list[i].qos > 0
  BY <1>2 DEF Numbered
<1>4. list[i] \in Certain /\ \A m : list[i] \in Waiting(m) => m = list[i].mid
  BY <1>3 DEF Certain, Waiting, Sent
<1>5. left \in Seq(Numbered) /\ \A P : Count(list, P) = Count(left, P) + Bit(list[i] \in P)
  BY <1>1, CountRemoved
<1>6. \A P : Count(list, P) \in Nat /\ Count(left, P) \in Nat
  BY <1>1, <1>5, CountType
<1>7. c.quota = InflightMax - Count(list, Certain)
  BY DEF Sound, Exact, Connected
<1>8. Count(list, Certain) = Count(left, Certain) + 1
  BY <1>4, <1>5 DEF Bit
<1>9. c.quota < InflightMax /\ c.quota + 1 \in 0..InflightMax
      /\ c.quota + 1 = InflightMax - Count(left, Certain)
  BY <1>1, <1>6, <1>7, <1>8
<1>10. left \in Seq(Item)
  <2>1. Numbered \subseteq Item
    BY DEF Numbered
  <2> QED BY <1>5, <2>1
<1> HIDE DEF left, list
<1>11. one \in Context /\ Session(one) = Session(c)
  BY <1>9, ContextChanges
<1>12. e = [one EXCEPT !.inflight = left]
  BY DEF Without, left, list
<1>13. /\ e.inflight = left /\ e.queued = c.queued /\ e.out = c.out /\ e.quota = c.quota + 1
  BY <1>12 DEF Context
<1> HIDE DEF one, e
<1>14. e \in Context /\ Session(e) = Session(c)
  BY <1>10, <1>11, <1>12, ContextChanges
<1>15. Orderly(e) /\ Exact(e)
  BY <1>1, <1>5, <1>9, <1>13 DEF Orderly, Exact
<1>16. ASSUME NEW m \in MidUsed PROVE Slack(c, m) - Bit(m = list[i].mid) <= Slack(e, m)
  <2> DEFINE W == Waiting(m)
  <2>1. Count(list, W) = Count(left, W) + Bit(list[i] \in W)
    BY <1>5
  <2>2. list[i] \in W => m = list[i].mid
    BY <1>4
  <2>3. Slack(c, m) = Count(list, W) - Count(c.out, Sent(m))
    BY DEF Slack, list
  <2>4. Slack(e, m) = Count(left, W) - Count(c.out, Sent(m))
    BY <1>13 DEF Slack
  <2>5. Count(list, W) \in Nat /\ Count(left, W) \in Nat /\ Count(c.out, Sent(m)) \in Nat
    BY <1>1, <1>6, CountType
  <2> HIDE DEF W
  <2> QED BY <2>1, <2>2, <2>3, <2>4, <2>5 DEF Bit
<1> QED BY <1>9, <1>14, <1>15, <1>16 DEF e, list

\* The context is c without one item of identifier mid.
TakenOut(c, mid, e) ==
    \E i \in 1..Len(c.inflight) :
        /\ c.inflight[i].mid = mid
        /\ e = [c EXCEPT !.inflight = RemoveAt(c.inflight, i)]

\* The PUBACK of an item that is in flight
\* Of the items with an identifier it is the first one that is taken out.
FirstOut(c, j, e) ==
    \E i \in 1..Len(c.inflight) :
        /\ i <= j /\ e = [c EXCEPT !.inflight = RemoveAt(c.inflight, i)]

LEMMA WithoutMidDoes ==
    ASSUME NEW n, NEW d \in Databases(n), NEW s \in Slot, NEW mid,
           NEW j \in 1..Len(d.ctx[s].inflight), d.ctx[s].inflight[j].mid = mid
    PROVE  /\ TakenOut(d.ctx[s], mid, WithoutMid(d, s, mid).ctx[s])
           /\ FirstOut(d.ctx[s], j, WithoutMid(d, s, mid).ctx[s])
<1> DEFINE list == d.ctx[s].inflight
           found == {i \in DOMAIN list : list[i].mid = mid}
           i == Min(found)
           e == [d EXCEPT !.ctx[s].inflight = RemoveAt(@, i)]
           c == [d.ctx[s] EXCEPT !.inflight = RemoveAt(list, i)]
<1>1. list \in Seq(Item) /\ d.ctx[s] \in Context /\ DOMAIN list = 1..Len(list)
  BY LenProperties DEF Databases, Context
<1>2. j \in found /\ found \subseteq Nat
  BY <1>1
<1>3. WithoutMid(d, s, mid) = db__msg_store_ref_dec(e, list[i].msg)
  BY <1>2, SMTT(30) DEF WithoutMid
<1>4. i \in 1..Len(list) /\ list[i].mid = mid /\ i <= j
  <2>1. i \in found /\ i <= j
    <3> HIDE DEF found
    <3> QED BY <1>2, SmallestExists
  <2> QED BY <1>1, <2>1
<1>5. e = [d EXCEPT !.ctx[s] = c]
  BY DEF Databases
<1> HIDE DEF i, found
<1>6. RemoveAt(list, i) \in Seq(Item)
  <2> HIDE DEF list
  <2> QED BY <1>1, <1>4, CountRemoved
<1>7. c \in Context
  BY <1>1, <1>6, ContextChanges
<1> HIDE DEF c, e, list
<1>8. e \in Databases(n) /\ e.ctx[s] = c
  BY <1>5, <1>7, ContextReplaced
<1>9. WithoutMid(d, s, mid).ctx[s] = c
  BY <1>3, <1>8, RefDec
<1> QED BY <1>4, <1>9 DEF c, list, TakenOut, FirstOut

LEMMA DeletedSound ==
    ASSUME NEW n, NEW d \in Databases(n), NEW s \in Slot, NEW c \in Context,
           Sound(c), Connected(c), NEW mid \in MidUsed,
           NEW j \in 1..Len(c.inflight), c.inflight[j].mid = mid, c.quota < InflightMax,
           d.ctx[s] = [c EXCEPT !.quota = c.quota + 1]
    PROVE  /\ Sound(db__message_delete_outgoing(d, s, mid).ctx[s])
           /\ \A m \in MidUsed : Slack(c, m) - Bit(m = mid)
                                  <= Slack(db__message_delete_outgoing(d, s, mid).ctx[s], m)
<1> DEFINE e == WithoutMid(d, s, mid)
           f == [e EXCEPT !.ctx[s] = db__message_write_queued_out(@)]
           g == db__message_write_inflight_out_latest(f, s)
<1>1. d.ctx[s].inflight = c.inflight /\ Session(d.ctx[s]) = Session(c)
  BY DEF Session, Context
<1>2. PICK i \in 1..Len(c.inflight) :
          /\ c.inflight[i].mid = mid
          /\ e.ctx[s] = [d.ctx[s] EXCEPT !.inflight = RemoveAt(c.inflight, i)]
  <2>1. TakenOut(d.ctx[s], mid, e.ctx[s])
    BY <1>1, WithoutMidDoes
  <2> HIDE DEF e
  <2> QED BY <1>1, <2>1 DEF TakenOut
<1>3. e.ctx[s] = Without(c, i)
  BY <1>2 DEF Without
<1> DEFINE x == Without(c, i)
<1>4. /\ x \in Context /\ Session(x) = Session(c)
      /\ Orderly(x) /\ Exact(x)
      /\ \A m \in MidUsed : Slack(c, m) - Bit(m = mid) <= Slack(x, m)
  BY <1>2, WithoutSound
<1> HIDE DEF x
<1>5. e \in Databases(n) /\ e.ctx[s] = x
  BY <1>3, WithoutMidType DEF x
<1> HIDE DEF e
<1>6. Connected(x)
  BY <1>4 DEF Session, Connected
<1>7. /\ f \in Databases(n) /\ Sound(f.ctx[s])
      /\ \A m \in MidUsed : Slack(f.ctx[s], m) = Slack(x, m)
  BY <1>4, <1>5, <1>6, QueueWrittenDrains
<1> HIDE DEF f
<1>8. Better(f.ctx[s], g.ctx[s])
  BY <1>7, LatestBetter
<1>9. db__message_delete_outgoing(d, s, mid) = g
  BY DEF db__message_delete_outgoing, e, f
<1> HIDE DEF g
<1>10. Sound(g.ctx[s]) /\ \A m \in MidUsed : Slack(f.ctx[s], m) <= Slack(g.ctx[s], m)
  BY <1>7, <1>8 DEF Better
<1>11. ASSUME NEW m \in MidUsed PROVE Slack(c, m) - Bit(m = mid) <= Slack(g.ctx[s], m)
  <2>1. Slack(c, m) \in Int /\ Slack(x, m) \in Int /\ Slack(g.ctx[s], m) \in Int
    BY <1>4, <1>10, Counts DEF Sound
  <2>2. /\ Slack(c, m) - Bit(m = mid) <= Slack(x, m)
        /\ Slack(x, m) <= Slack(g.ctx[s], m)
    BY <1>4, <1>7, <1>10
  <2> QED BY <2>1, <2>2 DEF Bit
<1> QED BY <1>9, <1>10, <1>11

-----------------------------------------------------------------------------
(* The ends and the takeovers of sessions *)

\* A sound context that nothing is asked of too often
Fine(c) == Sound(c) /\ \A m \in MidUsed : 0 <= Slack(c, m)

\* Nothing on its way to the node: all that waits may be acknowledged.
LEMMA NothingOut ==
    ASSUME NEW c, Orderly(c), c.out = <<>>
    PROVE  \A m \in MidUsed : 0 <= Slack(c, m)
<1>1. \A P : Count(c.out, P) = 0
  BY CountEmpty
<1>2. \A m : Count(c.inflight, Waiting(m)) \in Nat
  BY Counts
<1> QED BY <1>1, <1>2 DEF Slack

LEMMA DisconnectFine ==
    ASSUME NEW n, NEW d \in Databases(n), NEW s \in Slot,
           Orderly(d.ctx[s]), Count(d.ctx[s].inflight, Certain) <= InflightMax
    PROVE  Fine(do_disconnect(d, s).ctx[s])
<1> DEFINE c == d.ctx[s]
           e == do_disconnect(d, s).ctx[s]
<1>1. c \in Context
  BY DEF Databases
<1>2. /\ e.inflight = c.inflight /\ e.queued = c.queued /\ e.out = <<>>
      /\ e.state \in {"disused", "disconnected"}
  BY DEF do_disconnect, Databases, Context
<1> HIDE DEF c, e
<1>3. <<>> \in Seq(Numbered)
  BY EmptySeq
<1>4. Orderly(e)
  BY <1>2, <1>3 DEF Orderly, c
<1>5. Sound(e)
  BY <1>2, <1>4 DEF Sound, c
<1> QED BY <1>2, <1>4, <1>5, NothingOut DEF Fine, e

\* What the new context is given, and what is left to the old one
Inherited(c, old) ==
    IF old.inflight = <<>> /\ old.queued = <<>> THEN BookkeepingMoved(c, old)
    ELSE db__message_reconnect_reset(
            [BookkeepingMoved(c, old) EXCEPT !.inflight = old.inflight, !.queued = old.queued])
HandedOver(old) == [old EXCEPT !.inflight = <<>>, !.queued = <<>>, !.subs = {}]

LEMMA MovedDoes ==
    ASSUME NEW n, NEW d \in Databases(n), NEW s \in Slot, NEW f \in Slot, s # f
    PROVE  /\ ContextMoved(d, s, f).ctx[s] = Inherited(d.ctx[s], d.ctx[f])
           /\ ContextMoved(d, s, f).ctx[f] = HandedOver(d.ctx[f])
<1> DEFINE new == Inherited(d.ctx[s], d.ctx[f])
<1>1. ContextMoved(d, s, f)
        = [d EXCEPT !.ctx[s] = new, !.ctx[f].inflight = <<>>,
                    !.ctx[f].queued = <<>>, !.ctx[f].subs = {}]
  BY DEF ContextMoved, Inherited
<1> HIDE DEF new
<1> DEFINE old == d.ctx[f]
           e == [d EXCEPT !.ctx[s] = new]
<1>2. old \in Context
  BY DEF Databases
<1>3. ContextMoved(d, s, f) = [e EXCEPT !.ctx[f] = HandedOver(old)]
  <2>1. [d EXCEPT !.ctx[s] = new, !.ctx[f].inflight = <<>>,
                  !.ctx[f].queued = <<>>, !.ctx[f].subs = {}]
          = [e EXCEPT !.ctx[f] = [old EXCEPT !.inflight = <<>>, !.queued = <<>>, !.subs = {}]]
    BY <1>2, ZenonT(60) DEF Databases, Context
  <2> QED BY <1>1, <2>1 DEF HandedOver
<1> HIDE DEF old
<1>4. /\ ContextMoved(d, s, f).ctx[s] = new
      /\ ContextMoved(d, s, f).ctx[f] = HandedOver(old)
  BY <1>3 DEF Databases
<1> QED BY <1>4 DEF new, old

\* Everything in flight is sent again, within the quota there was.
LEMMA ResetExact ==
    ASSUME NEW c \in Context, Orderly(c), Count(c.inflight, Certain) <= InflightMax
    PROVE  LET e == db__message_reconnect_reset(c) IN
           e \in Context /\ Orderly(e) /\ Exact(e) /\ e.out = c.out
<1> DEFINE again == [i \in DOMAIN c.inflight |-> [c.inflight[i] EXCEPT !.state = "publish"]]
           counted == {i \in DOMAIN again : again[i].qos > 0}
           used == Cardinality(counted)
           quota == IF used > InflightMax THEN 0 ELSE InflightMax - used
           one == [c EXCEPT !.inflight = again]
           two == [one EXCEPT !.quota = quota]
           N == Len(c.inflight)
<1>1. /\ c.inflight \in Seq(Numbered) /\ N \in Nat /\ DOMAIN c.inflight = 1..N
      /\ N \in 0..N
  BY LenProperties DEF Orderly
<1>2. again = Resent(c.inflight, N)
  BY <1>1 DEF Resent
<1>3. /\ again \in Seq(Numbered) /\ Len(again) = N
      /\ \A i \in 1..N : again[i] \in Certain <=> c.inflight[i] \in Certain
  <2> HIDE DEF again
  <2> QED BY <1>1, <1>2, ResentFacts
<1>4. db__message_reconnect_reset(c) = db__message_write_queued_out(two)
  BY DEF db__message_reconnect_reset, Context
<1> HIDE DEF again
<1>5. counted = Places(again, Certain)
  <2>1. DOMAIN again = 1..Len(again) /\ \A i \in 1..Len(again) : again[i] \in Item
    BY <1>3, LenProperties, ElementOfSeq DEF Numbered
  <2> QED BY <2>1 DEF Places, Certain
<1>6. used = Count(c.inflight, Certain)
  <2>1. Count(again, Certain) = Count(c.inflight, Certain)
    BY <1>1, <1>3, CountSame
  <2> QED BY <1>5, <2>1 DEF Count
<1>7. used \in Nat /\ used <= InflightMax
  BY <1>6, Counts
<1> HIDE DEF used, counted
<1>8. quota = InflightMax - used /\ quota \in 0..InflightMax
  BY <1>7, BrokerAssumption
<1> HIDE DEF quota
<1>9. again \in Seq(Item)
  <2>1. Numbered \subseteq Item
    BY DEF Numbered
  <2> QED BY <1>3, <2>1
<1>10. one \in Context /\ one.queued = c.queued /\ one.out = c.out /\ one.inflight = again
  BY <1>9, ContextChanges DEF Context
<1> HIDE DEF one
<1>11. two \in Context /\ two.queued = c.queued /\ two.out = c.out /\ two.inflight = again
       /\ two.quota = quota
  BY <1>8, <1>10, ContextChanges DEF Context
<1> HIDE DEF two
<1>12. Orderly(two)
  BY <1>3, <1>11 DEF Orderly
<1>13. Exact(two)
  <2>1. Count(again, Certain) = used
    BY <1>1, <1>3, <1>6, CountSame
  <2> QED BY <1>8, <1>11, <2>1 DEF Exact
<1> DEFINE e == db__message_write_queued_out(two)
<1>14. e.out = two.out
  BY <1>11 DEF db__message_write_queued_out, Context
<1>15. e \in Context /\ Orderly(e) /\ Exact(e)
  BY <1>11, <1>12, <1>13, QueueDrains
<1> QED BY <1>4, <1>11, <1>14, <1>15

\* A context that has had no messages yet
Blank(c) ==
    /\ c.inflight = <<>> /\ c.queued = <<>> /\ c.out = <<>> /\ c.quota = InflightMax

\* A context that may be given to a client
Ready(c) == Orderly(c) /\ Exact(c) /\ c.out = <<>>

LEMMA BlankReady == \A c : Blank(c) => Ready(c)
<1> SUFFICES ASSUME NEW c, Blank(c) PROVE Ready(c)
  OBVIOUS
<1>1. <<>> \in Seq(Numbered) /\ <<>> \in Seq(Numbered \cap Certain)
  BY EmptySeq
<1>2. Count(<<>>, Certain) = 0
  BY CountEmpty
<1>3. Orderly(c)
  BY <1>1 DEF Orderly, Blank
<1>4. Exact(c)
  BY <1>2, BrokerAssumption DEF Exact, Blank
<1> QED BY <1>3, <1>4 DEF Ready, Blank

LEMMA NewContextFine == Fine(NewContext)
<1>1. Blank(NewContext) /\ NewContext.state = "free" /\ NewContext.id = NoId
  BY DEF NewContext, Blank
<1>2. Ready(NewContext)
  BY <1>1, BlankReady
<1>3. Count(<<>>, Certain) = 0 /\ 0 <= InflightMax
  BY CountEmpty, BrokerAssumption
<1>4. Sound(NewContext)
  BY <1>1, <1>2, <1>3 DEF Sound, Ready, Blank
<1> QED BY <1>2, <1>4, NothingOut DEF Fine, Ready

LEMMA InheritedReady ==
    ASSUME NEW c \in Context, NEW old \in Context, Blank(c),
           Orderly(old), Count(old.inflight, Certain) <= InflightMax
    PROVE  Ready(Inherited(c, old))
<1> DEFINE listed == [c EXCEPT !.subs = old.subs]
           fresh == [listed EXCEPT !.last_mid = old.last_mid]
           half == [fresh EXCEPT !.inflight = old.inflight]
           full == [half EXCEPT !.queued = old.queued]
<1>1. /\ old.subs \in SUBSET Topic /\ old.last_mid \in Mid
      /\ old.inflight \in Seq(Item) /\ old.queued \in Seq(Item)
  BY DEF Context
<1>2. fresh = BookkeepingMoved(c, old)
  BY DEF BookkeepingMoved, Context
<1>3. listed \in Context /\ Blank(listed)
  BY <1>1, SessionChanges DEF Context, Blank
<1> HIDE DEF listed
<1>4. fresh \in Context /\ Blank(fresh)
  BY <1>1, <1>3, ContextChanges DEF Context, Blank
<1> HIDE DEF fresh
<1>5. half \in Context /\ half.inflight = old.inflight /\ half.out = <<>>
  BY <1>1, <1>4, ContextChanges DEF Context, Blank
<1>6. full = [fresh EXCEPT !.inflight = old.inflight, !.queued = old.queued]
  BY <1>4 DEF Context
<1> HIDE DEF half
<1>7. /\ full \in Context /\ full.inflight = old.inflight /\ full.out = <<>>
      /\ full.queued = old.queued
  BY <1>1, <1>5, ContextChanges DEF Context
<1>8. Inherited(c, old) = IF old.inflight = <<>> /\ old.queued = <<>> THEN fresh
                          ELSE db__message_reconnect_reset(full)
  BY <1>2, <1>6 DEF Inherited
<1> HIDE DEF full
<1>9. Orderly(full)
  <2>1. <<>> \in Seq(Numbered)
    BY EmptySeq
  <2> QED BY <1>7, <2>1 DEF Orderly
<1>10. Ready(db__message_reconnect_reset(full))
  <2>1. Count(full.inflight, Certain) <= InflightMax
    BY <1>7
  <2> QED BY <1>7, <1>9, <2>1, ResetExact DEF Ready
<1>11. Ready(fresh)
  BY <1>4, BlankReady
<1> QED BY <1>8, <1>10, <1>11

LEMMA TakenOverFine ==
    ASSUME NEW n, NEW d \in Databases(n), NEW s \in Slot, NEW f \in Slot, s # f,
           Blank(d.ctx[s]), Sound(d.ctx[f])
    PROVE  Ready(TakenOver(d, s, f).ctx[s]) /\ Fine(TakenOver(d, s, f).ctx[f])
<1> DEFINE g == IF ~d.ctx[s].clean /\ ~d.ctx[f].clean THEN SessionMoved(d, s, f)
                ELSE IF d.ctx[s].clean THEN sub__clean_session(d, f) ELSE d
           ends == [g.ctx[f] EXCEPT !.clean = TRUE]
           h == [g EXCEPT !.ctx[f] = ends]
           Ended(c) == Orderly(c) /\ Count(c.inflight, Certain) <= InflightMax
<1>1. d.ctx[s] \in Context /\ d.ctx[f] \in Context
  BY DEF Databases
<1>2. Ready(d.ctx[s]) /\ Ended(d.ctx[f])
  BY BlankReady DEF Sound
<1>3. g \in Databases(n) /\ Ready(g.ctx[s]) /\ Ended(g.ctx[f])
  <2>1. CASE ~d.ctx[s].clean /\ ~d.ctx[f].clean
    <3>1. g = SessionMoved(d, s, f)
      BY <2>1
    <3> HIDE DEF g
    <3>2. g \in Databases(n) /\ g.ctx = ContextMoved(d, s, f).ctx
      BY <3>1, SessionMovedType
    <3>3. g.ctx[s] = Inherited(d.ctx[s], d.ctx[f]) /\ g.ctx[f] = HandedOver(d.ctx[f])
      BY <3>2, MovedDoes
    <3>4. Ready(Inherited(d.ctx[s], d.ctx[f]))
      BY <1>1, <1>2, InheritedReady
    <3>5. Ended(HandedOver(d.ctx[f]))
      <4> DEFINE c == HandedOver(d.ctx[f])
      <4>1. c.inflight = <<>> /\ c.queued = <<>> /\ c.out = d.ctx[f].out
        BY <1>1 DEF HandedOver, Context
      <4>2. <<>> \in Seq(Numbered) /\ <<>> \in Seq(Numbered \cap Certain)
        BY EmptySeq
      <4>3. Count(<<>>, Certain) = 0 /\ 0 <= InflightMax
        BY CountEmpty, BrokerAssumption
      <4> HIDE DEF c
      <4> QED BY <1>2, <4>1, <4>2, <4>3 DEF Orderly, c
    <3> QED BY <3>2, <3>3, <3>4, <3>5
  <2>2. CASE ~(~d.ctx[s].clean /\ ~d.ctx[f].clean) /\ d.ctx[s].clean
    <3>1. g = sub__clean_session(d, f)
      BY <2>2
    <3>2. /\ sub__clean_session(d, f).ctx[f].inflight = d.ctx[f].inflight
          /\ sub__clean_session(d, f).ctx[f].queued = d.ctx[f].queued
          /\ sub__clean_session(d, f).ctx[f].out = d.ctx[f].out
      BY <1>1 DEF sub__clean_session, Databases, Context
    <3> HIDE DEF g
    <3>3. g \in Databases(n) /\ g.ctx[s] = d.ctx[s]
      BY <3>1, CleanType
    <3> QED BY <1>2, <3>1, <3>2, <3>3 DEF Orderly
  <2>3. CASE ~(~d.ctx[s].clean /\ ~d.ctx[f].clean) /\ ~d.ctx[s].clean
    <3>1. g = d
      BY <2>3
    <3> HIDE DEF g
    <3> QED BY <1>2, <3>1
  <2> HIDE DEF g
  <2> QED BY <2>1, <2>2, <2>3
<1>4. TakenOver(d, s, f) = do_disconnect(h, f)
  <2>1. g \in Databases(n)
    BY <1>3
  <2>2. TakenOver(d, s, f) = do_disconnect([g EXCEPT !.ctx[f].clean = TRUE], f)
    BY DEF TakenOver
  <2> HIDE DEF g
  <2>3. [g EXCEPT !.ctx[f].clean = TRUE] = h
    BY <2>1 DEF Databases, Context
  <2> QED BY <2>2, <2>3
<1> HIDE DEF g
<1>5. g.ctx[f] \in Context
  BY <1>3 DEF Databases
<1>6. ends \in Context /\ Ended(ends)
  <2>1. /\ ends.inflight = g.ctx[f].inflight /\ ends.queued = g.ctx[f].queued
        /\ ends.out = g.ctx[f].out
    BY <1>5 DEF Context
  <2>2. ends \in Context
    BY <1>5, SessionChanges
  <2> HIDE DEF ends
  <2> QED BY <1>3, <2>1, <2>2 DEF Orderly
<1> HIDE DEF ends
<1>7. h \in Databases(n) /\ h.ctx[f] = ends /\ h.ctx[s] = g.ctx[s]
  BY <1>3, <1>6, ContextReplaced
<1> HIDE DEF h
<1>8. Fine(do_disconnect(h, f).ctx[f])
  BY <1>6, <1>7, DisconnectFine
<1>9. do_disconnect(h, f).ctx[s] = h.ctx[s]
  <2>1. s \in Slot \ {f}
    OBVIOUS
  <2>2. \A r \in Slot \ {f} : do_disconnect(h, f).ctx[r] = h.ctx[r]
    BY <1>7, DisconnectType
  <2> QED BY <2>1, <2>2
<1> QED BY <1>3, <1>4, <1>7, <1>8, <1>9

\* The new context is active with a right quota; all others are as they were
\* or have given way.
LEMMA ConnectedFine ==
    ASSUME NEW n, NEW d \in Databases(n), NEW s \in Slot, NEW m \in Node,
           Blank(d.ctx[s]), \A r \in Slot \ {s} : Sound(d.ctx[r])
    PROVE  /\ Fine(connect__on_authorised(d, s, m).ctx[s])
           /\ \A r \in Slot \ {s} :
                \/ connect__on_authorised(d, s, m).ctx[r] = d.ctx[r]
                \/ /\ d.ctx[r].id = m
                   /\ Fine(connect__on_authorised(d, s, m).ctx[r])
<1> DEFINE e == Cleared(d, s, m)
           c == e.ctx[s]
           one == [c EXCEPT !.state = "active"]
           two == [one EXCEPT !.id = m]
           active == [e EXCEPT !.ctx[s] = two]
           moved == [active EXCEPT !.ctx[s] = db__message_write_queued_out(@)]
           r == connect__on_authorised(d, s, m)
<1>1. /\ e \in Databases(n)
      /\ \A q \in Slot \ {s} : r.ctx[q] = e.ctx[q]
  BY ConnectedType DEF NowActive
<1>2. Ready(c) /\ \A q \in Slot \ {s} : \/ e.ctx[q] = d.ctx[q]
                                        \/ d.ctx[q].id = m /\ Fine(e.ctx[q])
  <2>1. CASE e = d
    <3> HIDE DEF e
    <3> QED BY <2>1, BlankReady
  <2>2. ASSUME NEW f \in Slot \ {s}, d.ctx[f].id = m, e = TakenOver(d, s, f)
        PROVE  Ready(c) /\ \A q \in Slot \ {s} : \/ e.ctx[q] = d.ctx[q]
                                                 \/ d.ctx[q].id = m /\ Fine(e.ctx[q])
    <3> HIDE DEF e
    <3>1. f \in Slot /\ s # f
      OBVIOUS
    <3>2. Ready(e.ctx[s]) /\ Fine(e.ctx[f])
      BY <2>2, <3>1, TakenOverFine
    <3>3. GivenWay(d, e, s, f)
      BY <2>2, <3>1, TakenOverType
    <3>4. \A q \in Slot \ {s, f} : e.ctx[q] = d.ctx[q]
      BY <3>3 DEF GivenWay
    <3> QED BY <2>2, <3>2, <3>4
  <2>3. e = d \/ \E f \in Slot \ {s} : d.ctx[f].id = m /\ e = TakenOver(d, s, f)
    BY ClearedFacts
  <2> HIDE DEF e
  <2> QED BY <2>1, <2>2, <2>3
<1>3. r = db__message_write_inflight_out_all(moved, s)
  <2>1. c \in Context
    BY <1>1 DEF Databases
  <2>2. [e EXCEPT !.ctx[s].state = "active", !.ctx[s].id = m] = active
    BY <1>1, <2>1 DEF Databases, Context
  <2> HIDE DEF active
  <2>3. r = db__message_write_inflight_out_all(
              [[e EXCEPT !.ctx[s].state = "active", !.ctx[s].id = m]
                  EXCEPT !.ctx[s] = db__message_write_queued_out(@)], s)
    BY DEF connect__on_authorised, Cleared
  <2> HIDE DEF r, e
  <2> QED BY <2>2, <2>3
<1> HIDE DEF e, r
<1>4. c \in Context /\ "active" \in ContextState
  BY <1>1 DEF Databases, ContextState
<1> HIDE DEF c
<1>5. one \in Context /\ one.state = "active"
  BY <1>4, SessionChanges DEF Context
<1>6. two \in Context
  BY <1>5, SessionChanges
<1>7. /\ two.inflight = c.inflight /\ two.queued = c.queued /\ two.out = c.out
      /\ two.quota = c.quota /\ two.state = "active"
  BY <1>4, <1>5 DEF Context
<1> HIDE DEF one, two
<1>8. Ready(two) /\ Connected(two)
  BY <1>2, <1>7 DEF Ready, Orderly, Exact, Connected
<1>9. active \in Databases(n) /\ active.ctx[s] = two
  BY <1>1, <1>6, ContextReplaced
<1> HIDE DEF active
<1>10. /\ moved \in Databases(n) /\ Connected(moved.ctx[s]) /\ Sound(moved.ctx[s])
       /\ \A x \in MidUsed : Slack(moved.ctx[s], x) = Slack(two, x)
  BY <1>8, <1>9, QueueWrittenDrains DEF Ready
<1> HIDE DEF moved
<1>11. Better(moved.ctx[s], r.ctx[s])
  <2>1. moved.ctx[s] \in Context
    BY <1>10 DEF Databases
  <2>2. Written(moved.ctx[s], moved.ctx[s].inflight, r.ctx[s])
    BY <1>3, <1>10, AllWrittenBetter DEF Sound, db__message_write_inflight_out_all
  <2> QED BY <1>10, <2>1, <2>2, WrittenBetter DEF Connected
<1>12. \A x \in MidUsed : 0 <= Slack(two, x)
  BY <1>8, NothingOut DEF Ready
<1>13. Sound(r.ctx[s]) /\ \A x \in MidUsed : Slack(moved.ctx[s], x) <= Slack(r.ctx[s], x)
  BY <1>10, <1>11 DEF Better
<1>14. Fine(r.ctx[s])
  <2>1. \A x : Slack(r.ctx[s], x) \in Int /\ Slack(two, x) \in Int
    BY <1>8, <1>13, Counts DEF Sound, Ready
  <2> QED BY <1>10, <1>12, <1>13, <2>1 DEF Fine
<1>15. \A q \in Slot \ {s} : r.ctx[q] = d.ctx[q] \/ (d.ctx[q].id = m /\ Fine(r.ctx[q]))
  BY <1>1, <1>2 DEF r
<1> QED BY <1>14, <1>15 DEF r

-----------------------------------------------------------------------------
(* The quota and the PUBACKs on their way *)

\* Every context is sound; for every PUBACK on its way there is an item that
\* waits for it, beyond those the node has still to be given; PUBACKs are only
\* on their way to the context of a node that has its connection.
QuotaInv ==
    /\ \A s \in Slot : Sound(db.ctx[s])
    /\ acks \in [Slot -> Seq(MidUsed)]
    /\ \A s \in Slot : \A m \in MidUsed : Count(acks[s], {m}) <= Slack(db.ctx[s], m)
    /\ \A s \in Slot : acks[s] # <<>> => \E n \in Node : link[n] = s

LEMMA QuotaInit == BrokerInit => QuotaInv
<1> SUFFICES ASSUME BrokerInit PROVE QuotaInv
  OBVIOUS
<1>1. \A s \in Slot : db.ctx[s] = NewContext
  BY DEF BrokerInit
<1>2. acks = [s \in Slot |-> <<>>] /\ <<>> \in Seq(MidUsed)
  BY EmptySeq DEF BrokerInit
<1>3. Fine(NewContext)
  BY NewContextFine
<1>4. \A s \in Slot : acks[s] = <<>>
  BY <1>2
<1>5. \A m : Count(<<>>, {m}) = 0
  BY CountEmpty
<1> QED BY <1>1, <1>2, <1>3, <1>4, <1>5 DEF QuotaInv, Fine

\* The steps that leave the PUBACKs on their way alone
LEMMA QuotaKept ==
    ASSUME QuotaInv, UNCHANGED acks,
           \A s \in Slot : \/ Better(db.ctx[s], db'.ctx[s])
                           \/ acks[s] = <<>> /\ Fine(db'.ctx[s]),
           \A s \in Slot : acks[s] # <<>> => \E n \in Node : link'[n] = s
    PROVE  QuotaInv'
<1>1. \A s \in Slot : Sound(db'.ctx[s])
  BY DEF QuotaInv, Better, Fine
<1>2. ASSUME NEW s \in Slot, NEW m \in MidUsed
      PROVE  Count(acks[s], {m}) <= Slack(db'.ctx[s], m)
  <2>1. acks[s] \in Seq(MidUsed)
    BY DEF QuotaInv
  <2>2. Count(acks[s], {m}) \in Nat
    BY <2>1, CountType
  <2>3. Slack(db.ctx[s], m) \in Int /\ Slack(db'.ctx[s], m) \in Int
    BY <1>1, Counts DEF QuotaInv, Sound
  <2>4. CASE Better(db.ctx[s], db'.ctx[s])
    <3>1. /\ Count(acks[s], {m}) <= Slack(db.ctx[s], m)
          /\ Slack(db.ctx[s], m) <= Slack(db'.ctx[s], m)
      BY <2>4 DEF QuotaInv, Better
    <3> QED BY <2>2, <2>3, <3>1
  <2>5. CASE acks[s] = <<>> /\ Fine(db'.ctx[s])
    <3>1. Count(<<>>, {m}) = 0
      BY CountEmpty
    <3>2. 0 <= Slack(db'.ctx[s], m)
      BY <2>5 DEF Fine
    <3> QED BY <2>5, <3>1, <3>2
  <2> QED BY <2>4, <2>5
<1> QED BY <1>1, <1>2 DEF QuotaInv

\* PUBACKs are on their way only to an active context.
LEMMA AwaitedActive ==
    ASSUME TypeInv, SessionInv, QuotaInv, NEW s \in Slot, acks[s] # <<>>
    PROVE  \E n \in Node : link[n] = s /\ db.ctx[s].state = "active" /\ db.ctx[s].id = n
<1>1. PICK n \in Node : link[n] = s
  BY DEF QuotaInv
<1>2. s # NoSlot
  BY BrokerAssumption DEF Slot, NoSlot
<1> QED BY <1>1, <1>2 DEF SessionInv, Linked

LEMMA PublishQuota ==
    ASSUME TypeInv, QuotaInv, NEW t \in Topic, handle__publish(t)
    PROVE  QuotaInv'
<1> DEFINE n == Len(published) + 1
           stored == db__message_store(db, n)
<1>1. /\ Len(published) < MaxPublish /\ db' = sub__messages_queue(stored, t, n)
      /\ link' = link /\ acks' = acks
  BY DEF handle__publish
<1>2. Len(published) \in Nat
  BY LenProperties DEF TypeInv
<1>3. n \in Nat /\ n <= MaxPublish /\ n \in 1..n
  BY <1>1, <1>2, BrokerAssumption
<1>4. stored \in Databases(n) /\ stored.ctx = db.ctx /\ IsFiniteSet(stored.leaves)
  BY <1>2, StoreType DEF TypeInv
<1> HIDE DEF n, stored
<1>5. AllBetter(stored, db')
  BY <1>1, <1>3, <1>4, QueuedBetter
<1>6. \A s \in Slot : Better(db.ctx[s], db'.ctx[s])
  BY <1>4, <1>5 DEF AllBetter
<1>7. \A s \in Slot : acks[s] # <<>> => \E m \in Node : link'[m] = s
  BY <1>1 DEF QuotaInv
<1> QED BY <1>1, <1>6, <1>7, QuotaKept

LEMMA ConnectQuota ==
    ASSUME TypeInv, SessionInv, QuotaInv, NEW n \in Node, NEW clean \in BOOLEAN,
           handle__connect(n, clean)
    PROVE  QuotaInv'
<1> DEFINE s == Min(FreeSlots)
           d == [db EXCEPT !.ctx[s].clean = clean]
           p == Len(published)
<1>1. /\ s \in Slot /\ db.ctx[s].state = "free"
      /\ d \in Databases(p) /\ db \in Databases(p)
      /\ \A r \in Slot \ {s} : d.ctx[r] = db.ctx[r]
      /\ db' = connect__on_authorised(d, s, n)
      /\ link' = [link EXCEPT ![n] = s]
  BY ConnectType DEF FreeSlots, TypeInv
<1>2. link[n] = NoSlot /\ link \in [Node -> 0..Slots] /\ acks' = acks
  BY DEF handle__connect, TypeInv
<1> HIDE DEF s, p
<1>3. Blank(d.ctx[s])
  <2>1. Blank(db.ctx[s])
    BY <1>1 DEF QuotaInv, Sound, Blank
  <2>2. d.ctx[s] = [db.ctx[s] EXCEPT !.clean = clean] /\ db.ctx[s] \in Context
    BY <1>1 DEF Databases
  <2> HIDE DEF d
  <2> QED BY <2>1, <2>2 DEF Blank, Context
<1> HIDE DEF d
<1>4. \A r \in Slot \ {s} : Sound(d.ctx[r])
  BY <1>1 DEF QuotaInv
<1>5. /\ Fine(db'.ctx[s])
      /\ \A r \in Slot \ {s} : \/ db'.ctx[r] = d.ctx[r]
                               \/ d.ctx[r].id = n /\ Fine(db'.ctx[r])
  BY <1>1, <1>3, <1>4, ConnectedFine
<1>6. acks[s] = <<>> /\ \A r \in Slot : db.ctx[r].id = n => acks[r] = <<>>
  <2>1. ASSUME NEW r \in Slot, acks[r] # <<>>
        PROVE  \E m \in Node : link[m] = r /\ db.ctx[r].state = "active" /\ db.ctx[r].id = m
    BY <2>1, AwaitedActive
  <2>2. \A r \in Slot : r # NoSlot
    BY BrokerAssumption DEF Slot, NoSlot
  <2> QED BY <1>1, <1>2, <2>1, <2>2
<1>7. \A r \in Slot : \/ Better(db.ctx[r], db'.ctx[r])
                      \/ acks[r] = <<>> /\ Fine(db'.ctx[r])
  <2> SUFFICES ASSUME NEW r \in Slot
               PROVE  \/ Better(db.ctx[r], db'.ctx[r])
                      \/ acks[r] = <<>> /\ Fine(db'.ctx[r])
    OBVIOUS
  <2>1. Better(db.ctx[r], db.ctx[r])
    BY SameMessages
  <2>2. CASE r = s
    BY <1>5, <1>6, <2>2
  <2>3. CASE r # s
    <3>1. d.ctx[r] = db.ctx[r]
      BY <1>1, <2>3
    <3>2. db'.ctx[r] = d.ctx[r] \/ (d.ctx[r].id = n /\ Fine(db'.ctx[r]))
      BY <1>5, <2>3
    <3> QED BY <1>6, <2>1, <3>1, <3>2
  <2> QED BY <2>2, <2>3
<1>8. \A r \in Slot : acks[r] # <<>> => \E m \in Node : link'[m] = r
  <2> SUFFICES ASSUME NEW r \in Slot, acks[r] # <<>> PROVE \E m \in Node : link'[m] = r
    OBVIOUS
  <2>1. PICK m \in Node : link[m] = r
    BY DEF QuotaInv
  <2>2. m # n
    BY <1>2, <2>1, BrokerAssumption DEF Slot, NoSlot
  <2>3. link'[m] = r
    BY <1>1, <1>2, <2>1, <2>2
  <2> QED BY <2>3
<1> QED BY <1>2, <1>7, <1>8, QuotaKept

\* Only the list of subscriptions of context s has changed.
LEMMA ListChanged ==
    ASSUME NEW n, NEW d \in Databases(n), NEW s \in Slot, NEW x, NEW e,
           \/ e.ctx = d.ctx
           \/ e.ctx = [d.ctx EXCEPT ![s] = [d.ctx[s] EXCEPT !.subs = x]]
    PROVE  AllBetter(d, e)
<1> DEFINE c == [d.ctx[s] EXCEPT !.subs = x]
<1>1. d.ctx \in [Slot -> Context] /\ d.ctx[s] \in Context
  BY DEF Databases
<1>2. Better(d.ctx[s], c)
  <2>1. /\ c.inflight = d.ctx[s].inflight /\ c.queued = d.ctx[s].queued
        /\ c.out = d.ctx[s].out /\ c.quota = d.ctx[s].quota
        /\ c.state = d.ctx[s].state /\ c.id = d.ctx[s].id
    BY <1>1 DEF Context
  <2> HIDE DEF c
  <2> QED BY <2>1, SameMessages
<1>3. e.ctx = d.ctx \/ e.ctx = [d.ctx EXCEPT ![s] = c]
  OBVIOUS
<1> HIDE DEF c
<1>4. \A r \in Slot : e.ctx[r] = d.ctx[r] \/ (r = s /\ e.ctx[r] = c)
  BY <1>1, <1>3
<1>5. \A r \in Slot : Better(d.ctx[r], d.ctx[r])
  BY SameMessages
<1> QED BY <1>2, <1>4, <1>5 DEF AllBetter

LEMMA AddBetter ==
    ASSUME NEW n, NEW d \in Databases(n), NEW s \in Slot, NEW t, NEW qos
    PROVE  AllBetter(d, sub__add(d, s, t, qos))
<1> DEFINE e == sub__add(d, s, t, qos)
<1>1. \/ e.ctx = d.ctx
      \/ e.ctx = [d.ctx EXCEPT ![s] = [d.ctx[s] EXCEPT !.subs = d.ctx[s].subs \cup {t}]]
  <2> DEFINE same == {leaf \in d.leaves : leaf.topic = t /\ d.ctx[leaf.slot].id = d.ctx[s].id}
             other == (d.leaves \ same) \cup {[leaf EXCEPT !.qos = qos] : leaf \in same}
             more == d.leaves \cup {[topic |-> t, slot |-> s, qos |-> qos]}
  <2>1. e = IF same # {} THEN [d EXCEPT !.leaves = other]
            ELSE [d EXCEPT !.leaves = more, !.ctx[s].subs = @ \cup {t}]
    BY DEF sub__add
  <2> HIDE DEF e, same, other, more
  <2> QED BY <2>1 DEF Databases
<1> HIDE DEF e
<1>2. AllBetter(d, e)
  BY <1>1, ListChanged
<1> QED BY <1>2 DEF e

LEMMA RemoveBetter ==
    ASSUME NEW n, NEW d \in Databases(n), NEW s \in Slot, NEW t
    PROVE  AllBetter(d, sub__remove(d, s, t))
<1> DEFINE e == sub__remove(d, s, t)
<1>1. e.ctx = [d.ctx EXCEPT ![s] = [d.ctx[s] EXCEPT !.subs = d.ctx[s].subs \ {t}]]
  BY DEF sub__remove, Databases
<1> HIDE DEF e
<1>2. AllBetter(d, e)
  BY <1>1, ListChanged
<1> QED BY <1>2 DEF e

LEMMA CopyBetter ==
    ASSUME NEW n \in Nat, n <= MaxPublish, NEW d \in Databases(n), NEW s \in Slot,
           NEW t \in Topic, NEW qos \in {0, 1}
    PROVE  AllBetter(d, retain__process(d, s, t, qos))
<1>1. CASE d.retained[t] = NoMessage
  BY <1>1, AllBetterFacts DEF retain__process
<1>2. CASE d.retained[t] # NoMessage
  <2>1. d.retained[t] \in 0..n
    BY DEF Databases
  <2>2. d.retained[t] \in 1..MaxPublish /\ TRUE \in BOOLEAN
    BY <1>2, <2>1, BrokerAssumption DEF NoMessage
  <2> DEFINE e == Offered(d, s, d.retained[t], qos, TRUE, FALSE)
  <2>3. OnlyMessages(d, e, s) /\ Better(d.ctx[s], e.ctx[s])
    BY <2>2, OfferedType, OfferedBetter
  <2>4. retain__process(d, s, t, qos) = e
    BY <1>2 DEF retain__process
  <2> HIDE DEF e
  <2> QED BY <2>3, <2>4, AllBetterFacts
<1> QED BY <1>1, <1>2

LEMMA SubscribeQuota ==
    ASSUME TypeInv, SessionInv, QuotaInv, NEW n \in Node, NEW t \in Topic,
           NEW taken \in BOOLEAN, handle__subscribe(n, t, taken)
    PROVE  QuotaInv'
<1> DEFINE s == link[n]
           p == Len(published)
           d == sub__add(db, s, t, sub_qos[n])
           e == retain__process(d, s, t, sub_qos[n])
           moved == [e EXCEPT !.ctx[s] = db__message_write_queued_out(@)]
           latest == db__message_write_inflight_out_latest(moved, s)
<1>1. /\ db \in Databases(p) /\ p \in Nat /\ p <= MaxPublish
      /\ s \in Slot /\ sub_qos[n] \in {0, 1} /\ d \in Databases(p)
  BY SubscribeType, LenProperties DEF TypeInv
<1>2. /\ db' = e \/ db' = latest
      /\ link' = link /\ acks' = acks /\ s # NoSlot
  BY DEF handle__subscribe, Requests
<1>3. db.ctx[s].state = "active" /\ db.ctx[s].id # NoId
  BY <1>2, BrokerAssumption DEF SessionInv, Linked
<1> HIDE DEF s, p
<1>4. d.ctx[s].state = "active"
  BY <1>1, <1>3, AddListed DEF SessionInv
<1>5. AllBetter(db, d)
  BY <1>1, AddBetter
<1> HIDE DEF d
<1>6. e \in Databases(p) /\ OnlyMessages(d, e, s)
  BY <1>1, CopyType
<1>7. AllBetter(d, e)
  BY <1>1, CopyBetter
<1> HIDE DEF e
<1>8. AllBetter(db, e)
  BY <1>5, <1>7, AllBetterFacts
<1>9. Sound(e.ctx[s]) /\ Connected(e.ctx[s])
  BY <1>1, <1>4, <1>6, <1>8 DEF AllBetter, Better, QuotaInv, OnlyMessages, Session, Connected
<1>10. Orderly(e.ctx[s]) /\ Exact(e.ctx[s])
  BY <1>9 DEF Sound, Connected
<1>11. /\ moved \in Databases(p) /\ OnlyMessages(e, moved, s) /\ Sound(moved.ctx[s])
       /\ \A m \in MidUsed : Slack(moved.ctx[s], m) = Slack(e.ctx[s], m)
  BY <1>1, <1>6, <1>9, <1>10, QueueWrittenDrains
<1> HIDE DEF moved
<1>12. \A m : Slack(e.ctx[s], m) \in Int
  BY <1>10, Counts
<1>13. AllBetter(e, moved)
  <2>1. Better(e.ctx[s], moved.ctx[s])
    BY <1>11, <1>12 DEF Better
  <2> QED BY <1>1, <1>11, <2>1, AllBetterFacts
<1>14. AllBetter(moved, latest)
  <2>1. OnlyMessages(moved, latest, s) /\ Better(moved.ctx[s], latest.ctx[s])
    BY <1>1, <1>11, LatestWritten, LatestBetter
  <2> HIDE DEF latest
  <2> QED BY <1>1, <2>1, AllBetterFacts
<1> HIDE DEF latest
<1>15. AllBetter(db, db')
  <2>1. AllBetter(db, moved)
    BY <1>8, <1>13, AllBetterFacts
  <2>2. AllBetter(db, latest)
    BY <1>14, <2>1, AllBetterFacts
  <2> QED BY <1>2, <1>8, <2>2
<1>16. \A r \in Slot : Better(db.ctx[r], db'.ctx[r])
  BY <1>15 DEF AllBetter
<1>17. \A r \in Slot : acks[r] # <<>> => \E m \in Node : link'[m] = r
  BY <1>2 DEF QuotaInv
<1> QED BY <1>2, <1>16, <1>17, QuotaKept

LEMMA UnsubscribeQuota ==
    ASSUME TypeInv, QuotaInv, NEW n \in Node, NEW t \in Topic, handle__unsubscribe(n, t)
    PROVE  QuotaInv'
<1>1. /\ link[n] \in Slot /\ db' = sub__remove(db, link[n], t) /\ link' = link
      /\ acks' = acks /\ db \in Databases(Len(published))
  BY UnsubscribeType DEF handle__unsubscribe, TypeInv
<1>2. AllBetter(db, db')
  BY <1>1, RemoveBetter
<1>3. \A r \in Slot : Better(db.ctx[r], db'.ctx[r])
  BY <1>2 DEF AllBetter
<1>4. \A r \in Slot : acks[r] # <<>> => \E m \in Node : link'[m] = r
  BY <1>1 DEF QuotaInv
<1> QED BY <1>1, <1>3, <1>4, QuotaKept

\* The end of the connection of a context nothing is on its way to
LEMMA EndQuota ==
    ASSUME TypeInv, QuotaInv, NEW s \in Slot, acks[s] = <<>>,
           db' = do_disconnect(db, s), acks' = acks,
           \A n \in Node : link[n] # s => link'[n] = link[n]
    PROVE  QuotaInv'
<1>1. db \in Databases(Len(published))
  BY DEF TypeInv
<1>2. Orderly(db.ctx[s]) /\ Count(db.ctx[s].inflight, Certain) <= InflightMax
  BY DEF QuotaInv, Sound
<1>3. Fine(db'.ctx[s])
  BY <1>1, <1>2, DisconnectFine
<1>4. \A r \in Slot \ {s} : db'.ctx[r] = db.ctx[r]
  BY <1>1, DisconnectType
<1>5. \A r \in Slot : Better(db.ctx[r], db.ctx[r])
  BY SameMessages
<1>6. \A r \in Slot : \/ Better(db.ctx[r], db'.ctx[r])
                      \/ acks[r] = <<>> /\ Fine(db'.ctx[r])
  <2> SUFFICES ASSUME NEW r \in Slot
               PROVE  \/ Better(db.ctx[r], db'.ctx[r])
                      \/ acks[r] = <<>> /\ Fine(db'.ctx[r])
    OBVIOUS
  <2>1. CASE r = s
    BY <1>3, <2>1
  <2>2. CASE r # s
    BY <1>4, <1>5, <2>2
  <2> QED BY <2>1, <2>2
<1>7. \A r \in Slot : acks[r] # <<>> => \E m \in Node : link'[m] = r
  BY DEF QuotaInv
<1> QED BY <1>6, <1>7, QuotaKept

LEMMA FreedQuota ==
    ASSUME TypeInv, SessionInv, QuotaInv, context__free_disused
    PROVE  QuotaInv'
<1> DEFINE p == Len(published)
           S == {e \in Databases(p) : \A r \in Slot :
                    \/ e.ctx[r] = db.ctx[r]
                    \/ r \in Disused /\ e.ctx[r] = NewContext}
<1>1. db' = Freed(db, Disused) /\ link' = link /\ acks' = acks
  BY FreedType DEF context__free_disused
<1>2. db \in S
  BY DEF TypeInv
<1>3. \A e \in S : \A s \in Slot \cap Disused : context__cleanup(e, s) \in S
  <2> SUFFICES ASSUME NEW e \in S, NEW s \in Slot \cap Disused
               PROVE  context__cleanup(e, s) \in S
    OBVIOUS
  <2> DEFINE f == context__cleanup(e, s)
  <2>1. s \in Slot /\ s \in Disused /\ e \in Databases(p)
    OBVIOUS
  <2>2. /\ f \in Databases(p) /\ f.ctx[s] = NewContext
        /\ \A r \in Slot \ {s} : f.ctx[r] = e.ctx[r]
    BY <2>1, CleanupType
  <2> HIDE DEF f
  <2> QED BY <2>1, <2>2 DEF f
<1>4. db' \in S
  <2> HIDE DEF S
  <2> QED BY <1>1, <1>2, <1>3, FreedInside
<1>5. \A r \in Slot : acks[r] # <<>> => db.ctx[r].state = "active"
  BY AwaitedActive
<1>6. Fine(NewContext)
  BY NewContextFine
<1>7. \A r \in Slot : Better(db.ctx[r], db.ctx[r])
  BY SameMessages
<1>8. ASSUME NEW r \in Slot
      PROVE  Better(db.ctx[r], db'.ctx[r]) \/ (acks[r] = <<>> /\ Fine(db'.ctx[r]))
  <2>1. db'.ctx[r] = db.ctx[r] \/ (r \in Disused /\ db'.ctx[r] = NewContext)
    BY <1>4
  <2>2. r \in Disused => acks[r] = <<>>
    BY <1>5 DEF Disused
  <2> QED BY <1>6, <1>7, <2>1, <2>2
<1>9. \A r \in Slot : acks[r] # <<>> => \E m \in Node : link'[m] = r
  BY <1>1 DEF QuotaInv
<1> QED BY <1>1, <1>8, <1>9, QuotaKept

LEMMA LostQuota ==
    ASSUME TypeInv, SessionInv, QuotaInv, NEW n \in Node, LinkLost(n)
    PROVE  QuotaInv'
<1>1. /\ link[n] \in Slot /\ link \in [Node -> 0..Slots]
      /\ db' = db /\ acks' = [acks EXCEPT ![link[n]] = <<>>]
      /\ link' = [link EXCEPT ![n] = NoSlot]
  <2>1. link[n] # 0 /\ link \in [Node -> 0..Slots]
    BY DEF LinkLost, NoSlot, TypeInv
  <2>2. link[n] \in Slot
    BY <2>1, BrokerAssumption DEF Slot
  <2> QED BY <2>1, <2>2 DEF LinkLost
<1> DEFINE s == link[n]
<1>2. acks \in [Slot -> Seq(MidUsed)] /\ <<>> \in Seq(MidUsed)
  BY EmptySeq DEF QuotaInv
<1>3. acks' \in [Slot -> Seq(MidUsed)]
  BY <1>1, <1>2
<1>4. acks'[s] = <<>> /\ \A r \in Slot \ {s} : acks'[r] = acks[r]
  BY <1>1, <1>2
<1> HIDE DEF s
<1>5. ASSUME NEW r \in Slot, NEW m \in MidUsed
      PROVE  Count(acks'[r], {m}) <= Slack(db.ctx[r], m)
  <2>1. Count(acks[r], {m}) <= Slack(db.ctx[r], m)
    BY DEF QuotaInv
  <2>2. acks[r] \in Seq(MidUsed)
    BY <1>2
  <2>3. Count(acks[r], {m}) \in Nat /\ Slack(db.ctx[r], m) \in Int
    BY <2>2, CountType, Counts DEF QuotaInv, Sound
  <2>4. Count(<<>>, {m}) = 0
    BY CountEmpty
  <2>5. Count(acks'[r], {m}) = Count(acks[r], {m}) \/ Count(acks'[r], {m}) = 0
    BY <1>4, <2>4
  <2> QED BY <2>1, <2>3, <2>5
<1>6. ASSUME NEW r \in Slot, acks'[r] # <<>>
      PROVE  \E m \in Node : link'[m] = r
  <2>1. r # s /\ acks[r] # <<>>
    BY <1>4, <1>6
  <2>2. PICK m \in Node : link[m] = r
    BY <2>1 DEF QuotaInv
  <2>3. m # n
    BY <2>1, <2>2 DEF s
  <2>4. link'[m] = r
    BY <1>1, <2>2, <2>3
  <2> QED BY <2>4
<1> QED BY <1>1, <1>3, <1>5, <1>6 DEF QuotaInv

\* One context and the PUBACKs on their way to it change, both in step.
LEMMA QuotaMoved ==
    ASSUME QuotaInv, NEW s \in Slot, OnlyMessages(db, db', s), link' = link,
           Sound(db'.ctx[s]), NEW left \in Seq(MidUsed), acks' = [acks EXCEPT ![s] = left],
           left # <<>> => \E n \in Node : link[n] = s,
           \A m \in MidUsed : Count(left, {m}) <= Slack(db'.ctx[s], m)
    PROVE  QuotaInv'
<1>1. /\ acks \in [Slot -> Seq(MidUsed)] /\ acks' \in [Slot -> Seq(MidUsed)]
      /\ acks'[s] = left /\ \A r \in Slot \ {s} : acks'[r] = acks[r]
  BY DEF QuotaInv
<1>2. \A r \in Slot \ {s} : db'.ctx[r] = db.ctx[r]
  BY DEF OnlyMessages
<1>3. ASSUME NEW r \in Slot
      PROVE  /\ Sound(db'.ctx[r])
             /\ \A m \in MidUsed : Count(acks'[r], {m}) <= Slack(db'.ctx[r], m)
             /\ acks'[r] # <<>> => \E n \in Node : link[n] = r
  <2>1. CASE r = s
    BY <1>1, <2>1
  <2>2. CASE r # s
    BY <1>1, <1>2, <2>2 DEF QuotaInv
  <2> QED BY <2>1, <2>2
<1> QED BY <1>1, <1>3 DEF QuotaInv

LEMMA ReceivesQuota ==
    ASSUME TypeInv, SessionInv, QuotaInv, NEW n \in Node, NodeReceives(n)
    PROVE  QuotaInv'
<1> DEFINE s == link[n]
           c == db.ctx[s]
           packet == Head(c.out)
           e == db'.ctx[s]
           left == IF packet.qos = 0 THEN acks[s] ELSE Append(acks[s], packet.mid)
<1>1. s \in Slot /\ OnlyMessages(db, db', s) /\ link' = link
  BY ReceivesType
<1>2. /\ c.out # <<>> /\ db' = [db EXCEPT !.ctx[s].out = Tail(@)]
      /\ acks' = IF packet.qos = 0 THEN acks ELSE [acks EXCEPT ![s] = Append(@, packet.mid)]
  BY DEF NodeReceives
<1>3. c \in Context /\ db.ctx \in [Slot -> Context] /\ acks \in [Slot -> Seq(MidUsed)]
  BY <1>1 DEF TypeInv, Databases, QuotaInv
<1>4. e = [c EXCEPT !.out = Tail(c.out)]
  BY <1>1, <1>2 DEF TypeInv, Databases
<1>5. acks' = [acks EXCEPT ![s] = left]
  BY <1>1, <1>2, <1>3
<1>6. Sound(c) /\ \A m \in MidUsed : Count(acks[s], {m}) <= Slack(c, m)
  BY <1>1 DEF QuotaInv
<1> HIDE DEF s, c, e
<1>7. /\ e.inflight = c.inflight /\ e.queued = c.queued /\ e.quota = c.quota
      /\ e.state = c.state /\ e.id = c.id /\ e.out = Tail(c.out)
  BY <1>3, <1>4 DEF Context
<1>8. c.out \in Seq(Numbered)
  BY <1>6 DEF Sound, Orderly
<1>9. /\ packet \in Numbered /\ Tail(c.out) \in Seq(Numbered)
      /\ \A P : Count(c.out, P) = Count(Tail(c.out), P) + Bit(packet \in P)
  BY <1>2, <1>8, CountTail
<1> HIDE DEF packet
<1>10. packet \in Item /\ packet.qos \in {0, 1} /\ packet.mid \in Mid
  BY <1>9 DEF Numbered, Item
<1>11. packet.qos = 0 \/ packet.mid \in MidUsed
  BY <1>9, <1>10 DEF Numbered, MidUsed
<1>12. c.state # "free"
  BY <1>2, <1>6 DEF Sound
<1>13. Sound(e)
  BY <1>6, <1>7, <1>9, <1>12 DEF Sound, Orderly, Exact
<1>14. acks[s] \in Seq(MidUsed) /\ left \in Seq(MidUsed)
  <2>1. acks[s] \in Seq(MidUsed)
    BY <1>1, <1>3
  <2> QED BY <1>11, <2>1, AppendProperties
<1>15. ASSUME NEW m \in MidUsed PROVE Count(left, {m}) <= Slack(e, m)
  <2> DEFINE given == Bit(packet \in Sent(m))
  <2>1. packet \in Sent(m) <=> packet.qos = 1 /\ packet.mid = m
    BY <1>10 DEF Sent
  <2>2. Slack(e, m) = Slack(c, m) + given
    <3>1. Count(c.out, Sent(m)) = Count(Tail(c.out), Sent(m)) + given
      BY <1>9
    <3>2. Count(c.inflight, Waiting(m)) \in Nat
      BY <1>6, Counts DEF Sound
    <3>3. Count(Tail(c.out), Sent(m)) \in Nat /\ given \in Nat
      BY <1>9, CountType DEF Bit
    <3> HIDE DEF given
    <3> QED BY <1>7, <3>1, <3>2, <3>3 DEF Slack
  <2>3. Count(left, {m}) = Count(acks[s], {m}) + given
    <3>1. CASE packet.qos = 0
      <4>1. left = acks[s] /\ given = 0
        BY <2>1, <3>1 DEF Bit
      <4>2. Count(acks[s], {m}) \in Nat
        BY <1>14, CountType
      <4> HIDE DEF left, given
      <4> QED BY <4>1, <4>2
    <3>2. CASE packet.qos # 0
      <4>1. left = Append(acks[s], packet.mid) /\ packet.mid \in MidUsed
        BY <1>11, <3>2
      <4>2. given = Bit(packet.mid \in {m})
        BY <1>10, <2>1, <3>2 DEF Bit
      <4> HIDE DEF left, given
      <4> QED BY <1>14, <4>1, <4>2, CountAppend
    <3> QED BY <3>1, <3>2
  <2>4. Count(acks[s], {m}) \in Nat /\ Slack(c, m) \in Int /\ given \in Nat
    BY <1>6, <1>14, CountType, Counts DEF Sound, Bit
  <2>5. Count(acks[s], {m}) <= Slack(c, m)
    BY <1>6
  <2> HIDE DEF given, left
  <2> QED BY <2>2, <2>3, <2>4, <2>5
<1>16. \E k \in Node : link[k] = s
  BY DEF s
<1> HIDE DEF left
<1> QED BY <1>1, <1>5, <1>13, <1>14, <1>15, <1>16, QuotaMoved DEF e

\* A PUBACK on its way is for a message that waits for it.
LEMMA AwaitedWaits ==
    ASSUME QuotaInv, NEW s \in Slot, acks[s] # <<>>
    PROVE  \E j \in 1..Len(db.ctx[s].inflight) :
            /\ db.ctx[s].inflight[j].mid = Head(acks[s])
            /\ db.ctx[s].inflight[j].state = "wait"
<1> DEFINE c == db.ctx[s]
           mid == Head(acks[s])
           left == Tail(acks[s])
<1>1. acks[s] \in Seq(MidUsed)
  BY DEF QuotaInv
<1>2. Sound(c) /\ \A m \in MidUsed : Count(acks[s], {m}) <= Slack(c, m)
  BY DEF QuotaInv
<1>3. /\ mid \in MidUsed /\ left \in Seq(MidUsed)
      /\ \A P : Count(acks[s], P) = Count(left, P) + Bit(mid \in P)
  BY <1>1, CountTail
<1> HIDE DEF c, mid, left
<1>4. Count(acks[s], {mid}) = Count(left, {mid}) + 1
  BY <1>3 DEF Bit
<1>5. Count(left, {mid}) \in Nat
  BY <1>3, CountType
<1>6. Count(c.inflight, Waiting(mid)) \in Nat /\ Count(c.out, Sent(mid)) \in Nat
  BY <1>2, Counts DEF Sound
<1>7. Count(acks[s], {mid}) <= Slack(c, mid)
  BY <1>2, <1>3
<1>8. Count(c.inflight, Waiting(mid)) # 0
  BY <1>4, <1>5, <1>6, <1>7 DEF Slack
<1>9. c.inflight \in Seq(Numbered)
  BY <1>2 DEF Sound, Orderly
<1>10. \E j \in 1..Len(c.inflight) : c.inflight[j] \in Waiting(mid)
  BY <1>8, <1>9, CountType
<1> QED BY <1>10 DEF Waiting, Sent, c, mid

LEMMA PubackQuota ==
    ASSUME TypeInv, SessionInv, QuotaInv, NEW s \in Slot, handle__pubackcomp(s)
    PROVE  QuotaInv'
<1> DEFINE c == db.ctx[s]
           quota == IF c.quota < InflightMax THEN c.quota + 1 ELSE c.quota
           d == [db EXCEPT !.ctx[s].quota = quota]
           p == Len(published)
           mid == Head(acks[s])
           left == Tail(acks[s])
           e == db'.ctx[s]
<1>1. /\ Connected(c) /\ acks[s] # <<>>
      /\ db' = db__message_delete_outgoing(d, s, mid)
      /\ acks' = [acks EXCEPT ![s] = left]
  BY DEF handle__pubackcomp, QuotaInv
<1>2. OnlyMessages(db, db', s) /\ link' = link
  BY PubackType
<1>3. db \in Databases(p) /\ c \in Context /\ acks[s] \in Seq(MidUsed)
  BY DEF TypeInv, Databases, QuotaInv
<1>4. Sound(c) /\ \A m \in MidUsed : Count(acks[s], {m}) <= Slack(c, m)
  BY DEF QuotaInv
<1>5. /\ mid \in MidUsed /\ left \in Seq(MidUsed)
      /\ \A P : Count(acks[s], P) = Count(left, P) + Bit(mid \in P)
  BY <1>1, <1>3, CountTail
<1> HIDE DEF c, mid, left, p
<1>6. PICK j \in 1..Len(c.inflight) : c.inflight[j].mid = mid
  BY <1>1, AwaitedWaits DEF c, mid
<1>7. c.quota < InflightMax
  <2>1. c.inflight[j].mid \in MidUsed
    BY <1>5, <1>6
  <2> QED BY <1>1, <1>3, <1>4, <2>1, WithoutSound
<1>8. d \in Databases(p) /\ d.ctx[s] = [c EXCEPT !.quota = c.quota + 1]
  <2> DEFINE x == [c EXCEPT !.quota = c.quota + 1]
  <2>1. quota = c.quota + 1 /\ c.quota \in 0..InflightMax
    BY <1>3, <1>7 DEF Context
  <2>2. c.quota + 1 \in 0..InflightMax
    BY <1>7, <2>1, BrokerAssumption
  <2>3. x \in Context
    BY <1>3, <2>2, ContextChanges
  <2>4. d = [db EXCEPT !.ctx[s] = x]
    BY <1>3, <2>1 DEF Databases, c
  <2> HIDE DEF x, d
  <2>5. d \in Databases(p) /\ d.ctx[s] = x
    BY <1>3, <2>3, <2>4, ContextReplaced
  <2> QED BY <2>5 DEF x
<1> HIDE DEF d
<1>9. /\ Sound(e)
      /\ \A m \in MidUsed : Slack(c, m) - Bit(m = mid) <= Slack(e, m)
  BY <1>1, <1>3, <1>4, <1>5, <1>6, <1>7, <1>8, DeletedSound
<1> HIDE DEF e
<1>10. ASSUME NEW m \in MidUsed PROVE Count(left, {m}) <= Slack(e, m)
  <2>1. Count(acks[s], {m}) = Count(left, {m}) + Bit(mid \in {m})
    BY <1>5
  <2>2. Bit(mid \in {m}) = Bit(m = mid) /\ Bit(m = mid) \in Nat
    BY DEF Bit
  <2>3. Count(left, {m}) \in Nat /\ Slack(c, m) \in Int /\ Slack(e, m) \in Int
    BY <1>4, <1>5, <1>9, CountType, Counts DEF Sound
  <2>4. Count(acks[s], {m}) <= Slack(c, m) /\ Slack(c, m) - Bit(m = mid) <= Slack(e, m)
    BY <1>4, <1>9
  <2> QED BY <2>1, <2>2, <2>3, <2>4
<1>11. \E n \in Node : link[n] = s
  BY <1>1 DEF QuotaInv
<1> QED BY <1>1, <1>2, <1>5, <1>9, <1>10, <1>11, QuotaMoved DEF e

LEMMA QuotaStep ==
    ASSUME TypeInv, SessionInv, QuotaInv, [BrokerNext]_vars
    PROVE  QuotaInv'
<1>1. CASE context__free_disused
  BY <1>1, FreedQuota
<1>2. CASE \E t \in Topic : handle__publish(t)
  BY <1>2, PublishQuota
<1>3. CASE \E s \in Slot : handle__pubackcomp(s)
  BY <1>3, PubackQuota
<1>4. CASE \E s \in Slot : keepalive__check(s)
  <2>1. PICK s \in Slot : keepalive__check(s)
    BY <1>4
  <2>2. /\ db' = do_disconnect(db, s) /\ link' = link /\ acks' = acks
        /\ link[db.ctx[s].id] # s
    BY <2>1 DEF keepalive__check
  <2>3. acks[s] = <<>>
    BY <2>2, AwaitedActive
  <2> QED BY <2>2, <2>3, EndQuota
<1>5. CASE \E n \in Node, clean \in BOOLEAN : handle__connect(n, clean)
  BY <1>5, ConnectQuota
<1>6. CASE \E n \in Node, t \in Topic, taken \in BOOLEAN : handle__subscribe(n, t, taken)
  BY <1>6, SubscribeQuota
<1>7. CASE \E n \in Node, t \in Topic : handle__unsubscribe(n, t)
  BY <1>7, UnsubscribeQuota
<1>8. CASE \E n \in Node : handle__disconnect(n)
  <2>1. PICK n \in Node : handle__disconnect(n)
    BY <1>8
  <2>2. /\ link[n] \in Slot /\ db' = do_disconnect(db, link[n])
        /\ link' = [link EXCEPT ![n] = NoSlot] /\ link \in [Node -> 0..Slots]
    BY <2>1, DisconnectedType DEF TypeInv
  <2>3. acks[link[n]] = <<>> /\ acks' = acks
    BY <2>1 DEF handle__disconnect, Requests
  <2>4. \A m \in Node : link[m] # link[n] => link'[m] = link[m]
    BY <2>2
  <2> QED BY <2>2, <2>3, <2>4, EndQuota
<1>9. CASE \E n \in Node : NodeReceives(n)
  BY <1>9, ReceivesQuota
<1>10. CASE \E n \in Node : LinkLost(n)
  BY <1>10, LostQuota
<1>11. CASE UNCHANGED vars
  <2>1. db' = db /\ acks' = acks /\ link' = link
    BY <1>11 DEF vars
  <2> QED BY <2>1 DEF QuotaInv
<1> QED BY <1>1, <1>2, <1>3, <1>4, <1>5, <1>6, <1>7, <1>8, <1>9, <1>10, <1>11 DEF BrokerNext

(* The quota of a connected client is max_inflight_messages without the QoS 1
   messages in flight to it, and its queue waits only for quota, through every
   order of publications, PUBACKs, lost connections and takeovers of sessions.
   Says so of db__message_insert, db__message_write_queued_out,
   db__message_delete_outgoing and db__message_reconnect_reset of
   src/database.c and of the quota handle__pubackcomp gives back; it holds only
   because a PUBACK never comes for what is not in flight. *)
THEOREM QuotaAlwaysExact == BrokerSpec => []QuotaIsExact
<1>1. TypeInv /\ QuotaInv => QuotaIsExact
  <2> SUFFICES ASSUME TypeInv, QuotaInv PROVE QuotaIsExact
    OBVIOUS
  <2>1. ASSUME NEW s \in Slot, Connected(db.ctx[s])
        PROVE  /\ db.ctx[s].quota = InflightMax
                    - Cardinality({i \in DOMAIN db.ctx[s].inflight :
                                        db.ctx[s].inflight[i].qos > 0})
               /\ db.ctx[s].queued # <<>> => db.ctx[s].quota = 0
    <3> DEFINE list == db.ctx[s].inflight
               counted == {i \in DOMAIN list : list[i].qos > 0}
    <3>1. Sound(db.ctx[s]) /\ db.ctx[s].state = "active"
      BY <2>1 DEF QuotaInv, Connected
    <3>2. list \in Seq(Item)
      BY DEF TypeInv, Databases, Context
    <3>3. counted = Places(list, Certain)
      <4>1. DOMAIN list = 1..Len(list) /\ \A i \in 1..Len(list) : list[i] \in Item
        BY <3>2, LenProperties, ElementOfSeq
      <4> HIDE DEF list
      <4> QED BY <4>1 DEF Places, Certain
    <3>4. db.ctx[s].quota = InflightMax - Cardinality(Places(list, Certain))
      BY <3>1 DEF Sound, Exact, Count
    <3>5. db.ctx[s].queued # <<>> => db.ctx[s].quota = 0
      BY <3>1 DEF Sound
    <3> HIDE DEF counted, list
    <3> QED BY <3>3, <3>4, <3>5 DEF counted, list
  <2> QED BY <2>1 DEF QuotaIsExact
<1>2. BrokerInit => TypeInv /\ SessionInv /\ QuotaInv
  BY TypeInit, SessionInit, QuotaInit
<1>3. TypeInv /\ SessionInv /\ QuotaInv /\ [BrokerNext]_vars
        => TypeInv' /\ SessionInv' /\ QuotaInv'
  BY TypeStep, SessionStep, QuotaStep
<1> QED BY <1>1, <1>2, <1>3, PTL DEF BrokerSpec
-----------------------------------------------------------------------------
(* The packet identifiers that are in use *)

\* How many QoS 1 messages of a context, in flight and queued, have identifier m
Ids(c, m) == Count(c.inflight, Sent(m)) + Count(c.queued, Sent(m))

\* No identifier is in use twice, and none beyond the last one given out.
Distinct(c) ==
    \A m \in MidUsed : Ids(c, m) <= 1 /\ (m > c.last_mid => Ids(c, m) = 0)

\* From c to e no identifier has come into use ...
NoMoreIds(c, e) ==
    e.last_mid = c.last_mid /\ \A m \in MidUsed : Ids(e, m) <= Ids(c, m)

\* ... or at most one has, which is the next one.
OneMoreId(c, e) ==
    /\ e.last_mid = mosquitto__mid_generate(c.last_mid)
    /\ \A m \in MidUsed : Ids(e, m) <= Ids(c, m) + Bit(m = e.last_mid)

MaybeNewId(c, e) == NoMoreIds(c, e) \/ OneMoreId(c, e)

\* The identifiers of a context have not come to their end.
MidLeft(c) == c.last_mid # 65535

LEMMA MidsAreNumbers ==
    /\ \A m \in Mid : m \in Nat
    /\ \A c : MidLeft(c) => mosquitto__mid_generate(c.last_mid) = c.last_mid + 1
<1>1. PICK N \in Nat : N = 65535
  OBVIOUS
<1>2. Mid = 0..N
  BY <1>1 DEF Mid
<1>3. \A m \in 0..N : m \in Nat
  OBVIOUS
<1>4. \A c : MidLeft(c) => c.last_mid # N
  BY <1>1 DEF MidLeft
<1>5. \A m : m # N => mosquitto__mid_generate(m) = m + 1
  BY <1>1 DEF mosquitto__mid_generate
<1> QED BY <1>2, <1>3, <1>4, <1>5

LEMMA IdsType ==
    ASSUME NEW c \in Context
    PROVE  \A m : /\ Ids(c, m) \in Nat
                  /\ Count(c.inflight, Sent(m)) \in Nat /\ Count(c.queued, Sent(m)) \in Nat
<1>1. c.inflight \in Seq(Item) /\ c.queued \in Seq(Item)
  BY DEF Context
<1>2. \A m : Count(c.inflight, Sent(m)) \in Nat /\ Count(c.queued, Sent(m)) \in Nat
  BY <1>1, CountType
<1> QED BY <1>2 DEF Ids

LEMMA SameIds ==
    ASSUME NEW c \in Context, NEW e \in Context, e.inflight = c.inflight, e.queued = c.queued,
           e.last_mid = c.last_mid
    PROVE  NoMoreIds(c, e)
<1>1. \A m : Ids(e, m) = Ids(c, m) /\ Ids(c, m) \in Nat
  BY IdsType DEF Ids
<1> QED BY <1>1 DEF NoMoreIds

LEMMA IdsTransitive ==
    ASSUME NEW c \in Context, NEW e \in Context, NEW f \in Context
    PROVE  /\ NoMoreIds(c, e) /\ NoMoreIds(e, f) => NoMoreIds(c, f)
           /\ NoMoreIds(c, e) /\ MaybeNewId(e, f) => MaybeNewId(c, f)
           /\ MaybeNewId(c, e) /\ NoMoreIds(e, f) => MaybeNewId(c, f)
<1>1. \A m : Ids(c, m) \in Nat /\ Ids(e, m) \in Nat /\ Ids(f, m) \in Nat
  BY IdsType
<1>2. \A b : Bit(b) \in Nat
  BY DEF Bit
<1>3. NoMoreIds(c, e) /\ NoMoreIds(e, f) => NoMoreIds(c, f)
  BY <1>1 DEF NoMoreIds
<1>4. NoMoreIds(c, e) /\ OneMoreId(e, f) => OneMoreId(c, f)
  <2> SUFFICES ASSUME NoMoreIds(c, e), OneMoreId(e, f) PROVE OneMoreId(c, f)
    OBVIOUS
  <2>1. f.last_mid = mosquitto__mid_generate(c.last_mid)
    BY DEF NoMoreIds, OneMoreId
  <2>2. ASSUME NEW m \in MidUsed PROVE Ids(f, m) <= Ids(c, m) + Bit(m = f.last_mid)
    <3>1. Ids(f, m) <= Ids(e, m) + Bit(m = f.last_mid) /\ Ids(e, m) <= Ids(c, m)
      BY DEF NoMoreIds, OneMoreId
    <3> QED BY <1>1, <1>2, <3>1
  <2> QED BY <2>1, <2>2 DEF OneMoreId
<1>5. OneMoreId(c, e) /\ NoMoreIds(e, f) => OneMoreId(c, f)
  <2> SUFFICES ASSUME OneMoreId(c, e), NoMoreIds(e, f) PROVE OneMoreId(c, f)
    OBVIOUS
  <2>1. f.last_mid = e.last_mid /\ f.last_mid = mosquitto__mid_generate(c.last_mid)
    BY DEF NoMoreIds, OneMoreId
  <2>2. ASSUME NEW m \in MidUsed PROVE Ids(f, m) <= Ids(c, m) + Bit(m = f.last_mid)
    <3>1. Ids(f, m) <= Ids(e, m) /\ Ids(e, m) <= Ids(c, m) + Bit(m = f.last_mid)
      BY <2>1 DEF NoMoreIds, OneMoreId
    <3> QED BY <1>1, <1>2, <3>1
  <2> QED BY <2>1, <2>2 DEF OneMoreId
<1> QED BY <1>3, <1>4, <1>5 DEF MaybeNewId

\* While the identifiers have not come to their end, the next one is not in use.
LEMMA NextIdIsNew ==
    ASSUME NEW c \in Context, NEW e \in Context, Distinct(c), MidLeft(c),
           MaybeNewId(c, e)
    PROVE  Distinct(e)
<1>1. c.last_mid \in Nat /\ e.last_mid \in Nat /\ \A m \in MidUsed : m \in Nat
  <2>1. c.last_mid \in Mid /\ e.last_mid \in Mid
    BY DEF Context
  <2> QED BY <2>1, MidsAreNumbers DEF MidUsed
<1>2. \A m : Ids(c, m) \in Nat /\ Ids(e, m) \in Nat
  BY IdsType
<1>3. CASE NoMoreIds(c, e)
  BY <1>2, <1>3 DEF NoMoreIds, Distinct
<1>4. CASE OneMoreId(c, e)
  <2>1. e.last_mid = c.last_mid + 1
    BY <1>4, MidsAreNumbers DEF OneMoreId
  <2>2. ASSUME NEW m \in MidUsed
        PROVE  Ids(e, m) <= 1 /\ (m > e.last_mid => Ids(e, m) = 0)
    <3>1. Ids(e, m) <= Ids(c, m) + Bit(m = e.last_mid) /\ m \in Nat
      BY <1>1, <1>4 DEF OneMoreId
    <3>2. Ids(c, m) <= 1 /\ (m > c.last_mid => Ids(c, m) = 0)
      BY DEF Distinct
    <3>3. CASE m = e.last_mid
      <4>1. m > c.last_mid /\ Bit(m = e.last_mid) = 1
        BY <1>1, <2>1, <3>3 DEF Bit
      <4>2. Ids(c, m) = 0
        BY <3>2, <4>1
      <4> QED BY <1>1, <1>2, <3>1, <3>3, <4>1, <4>2
    <3>4. CASE m # e.last_mid
      <4>1. Bit(m = e.last_mid) = 0 /\ (m > e.last_mid => m > c.last_mid)
        BY <1>1, <2>1, <3>1, <3>4 DEF Bit
      <4> QED BY <1>1, <1>2, <3>1, <3>2, <4>1
    <3> QED BY <3>3, <3>4
  <2> QED BY <2>2 DEF Distinct
<1> QED BY <1>3, <1>4 DEF MaybeNewId

LEMMA NoMoreDistinct ==
    ASSUME NEW c \in Context, NEW e \in Context, Distinct(c), NoMoreIds(c, e)
    PROVE  Distinct(e)
<1>1. \A m : Ids(c, m) \in Nat /\ Ids(e, m) \in Nat
  BY IdsType
<1> QED BY <1>1 DEF NoMoreIds, Distinct

-----------------------------------------------------------------------------
(* Messages are sent, and the queue moves on: with the identifiers they have *)

\* The items of list have been looked at: e is what has become of c.
KeptIds(c, list, e) ==
    /\ e \in Context /\ e.queued = c.queued /\ e.last_mid = c.last_mid
    /\ \A m : Count(e.inflight, Sent(m)) = Count(list, Sent(m))

LEMMA PassedIds ==
    ASSUME NEW c \in Context, NEW list \in Seq(Item), NEW item \in Item,
           NEW e, KeptIds(c, list, e), NEW f, Passed(e, item, f)
    PROVE  KeptIds(c, Append(list, item), f)
<1> DEFINE w == [item EXCEPT !.state = "wait"]
<1>1. /\ f \in Context /\ f.queued = c.queued /\ f.last_mid = c.last_mid
      /\ e \in Context /\ \A m : Count(e.inflight, Sent(m)) = Count(list, Sent(m))
  BY DEF KeptIds, Passed
<1>2. w \in Item /\ w.qos = item.qos /\ w.mid = item.mid
  BY ItemFacts DEF Item
<1>3. e.inflight \in Seq(Item)
  BY <1>1 DEF Context
<1>4. \/ f.inflight = Append(e.inflight, item)
      \/ item.qos = 0 /\ f.inflight = e.inflight
      \/ f.inflight = Append(e.inflight, w)
  BY DEF Passed
<1> HIDE DEF w
<1>5. \A P : /\ Count(Append(e.inflight, item), P) = Count(e.inflight, P) + Bit(item \in P)
             /\ Count(Append(e.inflight, w), P) = Count(e.inflight, P) + Bit(w \in P)
             /\ Count(Append(list, item), P) = Count(list, P) + Bit(item \in P)
             /\ Count(list, P) \in Nat
  BY <1>2, <1>3, CountAppend, CountType
<1>6. \A m : (w \in Sent(m) <=> item \in Sent(m)) /\ (item.qos = 0 => item \notin Sent(m))
  BY <1>2 DEF Sent
<1>7. ASSUME NEW m PROVE Count(f.inflight, Sent(m)) = Count(Append(list, item), Sent(m))
  <2>1. Bit(w \in Sent(m)) = Bit(item \in Sent(m))
    BY <1>6 DEF Bit
  <2>2. item.qos = 0 => Bit(item \in Sent(m)) = 0
    BY <1>6 DEF Bit
  <2>3. Count(e.inflight, Sent(m)) = Count(list, Sent(m)) /\ Count(list, Sent(m)) \in Nat
    BY <1>1, <1>5
  <2> DEFINE P == Sent(m)
  <2>4. /\ Count(Append(e.inflight, item), P) = Count(e.inflight, P) + Bit(item \in P)
        /\ Count(Append(e.inflight, w), P) = Count(e.inflight, P) + Bit(w \in P)
        /\ Count(Append(list, item), P) = Count(list, P) + Bit(item \in P)
    BY <1>5
  <2>5. item.qos = 0 => Count(e.inflight, P) = Count(e.inflight, P) + Bit(item \in P)
    BY <2>2, <2>3
  <2> HIDE DEF P
  <2> QED BY <1>4, <2>1, <2>3, <2>4, <2>5 DEF P
<1> QED BY <1>1, <1>7 DEF KeptIds

LEMMA WrittenIds ==
    ASSUME NEW n, NEW d \in Databases(n), NEW s \in Slot, NEW i
    PROVE  NoMoreIds(d.ctx[s], WrittenFrom(d, s, i).ctx[s])
<1>1. d.ctx[s] \in Context
  BY DEF Databases
<1>2. CASE ~Connected(d.ctx[s])
  <2>1. WrittenFrom(d, s, i) = d
    BY <1>2 DEF WrittenFrom
  <2> QED BY <1>1, <2>1, SameIds
<1>3. CASE Connected(d.ctx[s])
  <2> DEFINE c == d.ctx[s]
             list == c.inflight
             N == Len(list)
             Seen(k) == SubSeq(list, 1, k)
  <2>1. PICK w : /\ w \in [0..N -> Databases(n)] /\ Passes(d, s, i, w)
                 /\ WrittenFrom(d, s, i) = w[N]
    BY <1>3, LoopPasses
  <2>2. c \in Context /\ list \in Seq(Item) /\ N \in Nat
    BY <1>1, LenProperties DEF Context
  <2> DEFINE T == {k \in 0..N : KeptIds(c, Seen(k), w[k].ctx[s])}
  <2>3. 0 \in T
    <3>1. Seen(0) = <<>>
      BY <2>2, SubSeqEmpty
    <3> DEFINE e == [c EXCEPT !.inflight = <<>>]
    <3>2. w[0].ctx[s] = e /\ e \in Context
      BY <2>1, EmptiedType DEF Passes
    <3>3. e.queued = c.queued /\ e.last_mid = c.last_mid /\ e.inflight = <<>>
      BY <2>2 DEF Context
    <3> HIDE DEF e, c, Seen
    <3>4. KeptIds(c, <<>>, e)
      BY <3>2, <3>3 DEF KeptIds
    <3> QED BY <2>2, <3>1, <3>2, <3>4
  <2>4. ASSUME NEW k \in 0..(N - 1), k \in T PROVE k + 1 \in T
    <3>1. k + 1 \in 1..N /\ k + 1 \in 0..N /\ (k + 1) - 1 = k /\ k \in 0..N
      BY <2>2
    <3>2. w[k + 1] = Pass(w[k], s, i, k + 1, list[k + 1])
      BY <2>1, <3>1 DEF Passes
    <3>3. list[k + 1] \in Item /\ w[k] \in Databases(n)
      BY <2>1, <2>2, <3>1, ElementOfSeq
    <3>4. Passed(w[k].ctx[s], list[k + 1], w[k + 1].ctx[s])
      BY <3>2, <3>3, PassDoes
    <3>5. Seen(k) \in Seq(Item) /\ Seen(k + 1) = Append(Seen(k), list[k + 1])
      <4> HIDE DEF list
      <4>1. Seen(k) \in Seq(Item)
        BY <2>2, <3>1, SubSeqProperties DEF N
      <4>2. Seen(k + 1) = Append(Seen(k), list[k + 1])
        BY <2>2, <3>1, SubSeqProperties
      <4> QED BY <4>1, <4>2
    <3> HIDE DEF c, list, Seen
    <3>6. KeptIds(c, Append(Seen(k), list[k + 1]), w[k + 1].ctx[s])
      BY <2>2, <2>4, <3>3, <3>4, <3>5, PassedIds
    <3> QED BY <3>1, <3>5, <3>6
  <2>5. N \in T
    <3> HIDE DEF T, N
    <3>1. \A k \in 0..N : k \in T
      BY <2>2, <2>3, <2>4, Numbers!UpTo
    <3> QED BY <2>2, <3>1
  <2>6. Seen(N) = list
    BY <2>2, SubSeqFull
  <2>7. KeptIds(c, list, w[N].ctx[s])
    BY <2>5, <2>6
  <2> HIDE DEF c, list, N
  <2>8. \A m : Ids(w[N].ctx[s], m) = Ids(c, m) /\ Ids(c, m) \in Nat
    BY <2>2, <2>7, IdsType DEF KeptIds, Ids, list
  <2>9. NoMoreIds(c, w[N].ctx[s])
    BY <2>7, <2>8 DEF NoMoreIds, KeptIds
  <2> QED BY <2>1, <2>9 DEF c
<1> QED BY <1>2, <1>3

LEMMA LatestIds ==
    ASSUME NEW n, NEW d \in Databases(n), NEW s \in Slot
    PROVE  NoMoreIds(d.ctx[s], db__message_write_inflight_out_latest(d, s).ctx[s])
  BY WrittenIds DEF db__message_write_inflight_out_latest

LEMMA ResentIds ==
    ASSUME NEW list \in Seq(Item), NEW n \in 0..Len(list)
    PROVE  /\ Resent(list, n) \in Seq(Item)
           /\ \A m : Count(Resent(list, n), Sent(m)) = Count(SubSeq(list, 1, n), Sent(m))
<1> DEFINE r == Resent(list, n)
           a == SubSeq(list, 1, n)
<1>1. n \in Nat /\ Len(list) \in Nat /\ \A i \in 1..n : list[i] \in Item
  BY LenProperties, ElementOfSeq
<1>2. a \in Seq(Item) /\ Len(a) = n /\ \A i \in 1..n : a[i] = list[i]
  BY <1>1, SubSeqProperties
<1> HIDE DEF a
<1>3. \A i \in 1..n : r[i] \in Item /\ \A m : r[i] \in Sent(m) <=> a[i] \in Sent(m)
  <2> SUFFICES ASSUME NEW i \in 1..n
               PROVE  r[i] \in Item /\ \A m : r[i] \in Sent(m) <=> a[i] \in Sent(m)
    OBVIOUS
  <2>1. r[i] = [list[i] EXCEPT !.state = "publish"] /\ list[i] \in Item /\ a[i] = list[i]
    BY <1>1, <1>2 DEF Resent
  <2> DEFINE x == [list[i] EXCEPT !.state = "publish"]
  <2>2. x \in Item /\ x.qos = list[i].qos /\ x.mid = list[i].mid
    BY <2>1, ItemFacts DEF Item
  <2>3. r[i] = x
    BY <2>1
  <2> HIDE DEF r, x
  <2> QED BY <2>1, <2>2, <2>3 DEF Sent
<1>4. r \in Seq(Item) /\ Len(r) = n
  <2>1. r = [i \in 1..n |-> r[i]]
    BY DEF Resent
  <2> HIDE DEF r
  <2>2. r \in [1..n -> Item]
    BY <1>3, <2>1
  <2> QED BY <1>1, <2>2, SeqDef, LenProperties
<1> HIDE DEF r
<1>5. \A m : Count(r, Sent(m)) = Count(a, Sent(m))
  BY <1>2, <1>3, <1>4, CountSame
<1> QED BY <1>4, <1>5 DEF r, a

LEMMA SplitInTwo ==
    ASSUME NEW S, NEW q \in Seq(S), NEW n \in 0..Len(q)
    PROVE  /\ SubSeq(q, 1, n) \in Seq(S) /\ SubSeq(q, n + 1, Len(q)) \in Seq(S)
           /\ q = SubSeq(q, 1, n) \o SubSeq(q, n + 1, Len(q))
<1>1. Len(q) \in Nat /\ n \in Nat /\ \A i \in 1..Len(q) : q[i] \in S
  BY LenProperties, ElementOfSeq
<1>2. SubSeq(q, 1, n) \in Seq(S) /\ SubSeq(q, n + 1, Len(q)) \in Seq(S)
  BY <1>1, SubSeqProperties
<1>3. SubSeq(q, 1, Len(q)) = q
  BY SubSeqFull
<1>4. CASE n = 0
  <2>1. SubSeq(q, 1, n) = <<>> /\ n + 1 = 1
    BY <1>4, SubSeqEmpty
  <2>2. <<>> \o q = q
    BY ConcatEmptySeq
  <2>3. SubSeq(q, 1, n) \o SubSeq(q, n + 1, Len(q)) = q
    BY <1>3, <2>1, <2>2, Zenon
  <2> QED BY <1>2, <2>3, Zenon
<1>5. CASE n # 0
  <2>1. n \in 1..Len(q)
    BY <1>1, <1>5
  <2>2. SubSeq(q, 1, n) \o SubSeq(q, n + 1, Len(q)) = SubSeq(q, 1, Len(q))
    BY <1>1, <2>1, ConcatAdjacentSubSeq
  <2> QED BY <1>2, <1>3, <2>2, Zenon
<1> QED BY <1>4, <1>5

LEMMA QueueIds ==
    ASSUME NEW c \in Context
    PROVE  NoMoreIds(c, db__message_write_queued_out(c))
<1> DEFINE n == Min({c.quota, Len(c.queued)})
           q == c.queued
           moved == Resent(q, n)
           first == SubSeq(q, 1, n)
           rest == SubSeq(q, n + 1, Len(q))
           e == db__message_write_queued_out(c)
<1>1. e \in Context
  BY QueueMoves
<1>2. /\ c.quota \in Nat /\ Len(q) \in Nat /\ q \in Seq(Item) /\ c.inflight \in Seq(Item)
  BY LenProperties, BrokerAssumption DEF Context
<1>3. n \in Nat /\ n <= Len(q) /\ n \in 0..Len(q)
  <2>1. n \in Nat /\ n <= Len(q)
    BY <1>2, MinOfTwo
  <2> HIDE DEF n, q
  <2> QED BY <1>2, <2>1
<1>4. e.inflight = c.inflight \o moved /\ e.queued = rest /\ e.last_mid = c.last_mid
  BY DEF db__message_write_queued_out, Context, Resent
<1> HIDE DEF n, e
<1>5. moved \in Seq(Item) /\ \A m : Count(moved, Sent(m)) = Count(first, Sent(m))
  <2> HIDE DEF q
  <2> QED BY <1>2, <1>3, ResentIds
<1>6. first \in Seq(Item) /\ rest \in Seq(Item) /\ q = first \o rest
  <2> HIDE DEF q
  <2> QED BY <1>2, <1>3, SplitInTwo
<1>7. e.queued = rest /\ c.queued = q
  BY <1>4
<1> HIDE DEF moved, first, rest, q
<1>8. ASSUME NEW m PROVE Ids(e, m) = Ids(c, m) /\ Ids(c, m) \in Nat
  <2>1. Count(e.inflight, Sent(m)) = Count(c.inflight, Sent(m)) + Count(moved, Sent(m))
    BY <1>2, <1>4, <1>5, CountConcat
  <2>2. Count(q, Sent(m)) = Count(first, Sent(m)) + Count(rest, Sent(m))
    BY <1>6, CountConcat
  <2>3. /\ Count(c.inflight, Sent(m)) \in Nat /\ Count(first, Sent(m)) \in Nat
        /\ Count(rest, Sent(m)) \in Nat
    BY <1>2, <1>6, CountType
  <2>4. Count(moved, Sent(m)) = Count(first, Sent(m))
    BY <1>5
  <2> QED BY <1>7, <2>1, <2>2, <2>3, <2>4 DEF Ids
<1> QED BY <1>4, <1>8 DEF NoMoreIds, e

LEMMA QueueWrittenIds ==
    ASSUME NEW n, NEW d \in Databases(n), NEW s \in Slot, NEW e,
           e = [d EXCEPT !.ctx[s] = db__message_write_queued_out(@)]
    PROVE  NoMoreIds(d.ctx[s], e.ctx[s])
<1>1. d.ctx[s] \in Context /\ e.ctx[s] = db__message_write_queued_out(d.ctx[s])
  BY DEF Databases
<1> QED BY <1>1, QueueIds

LEMMA UpdatedIds ==
    ASSUME NEW n, NEW d \in Databases(n), NEW s \in Slot
    PROVE  Updated(d, s) \in Databases(n) /\ NoMoreIds(d.ctx[s], Updated(d, s).ctx[s])
<1> DEFINE e == db__message_write_inflight_out_latest(d, s)
           f == [e EXCEPT !.ctx[s] = db__message_write_queued_out(@)]
<1>1. e \in Databases(n) /\ NoMoreIds(d.ctx[s], e.ctx[s])
  BY LatestWritten, LatestIds
<1>2. Updated(d, s) = f \/ Updated(d, s) = e
  BY DEF Updated
<1> HIDE DEF e
<1>3. f \in Databases(n) /\ NoMoreIds(e.ctx[s], f.ctx[s])
  BY <1>1, QueueWritten, QueueWrittenIds
<1> HIDE DEF f
<1>4. d.ctx[s] \in Context /\ e.ctx[s] \in Context /\ f.ctx[s] \in Context
  BY <1>1, <1>3 DEF Databases
<1>5. NoMoreIds(d.ctx[s], f.ctx[s])
  BY <1>1, <1>3, <1>4, IdsTransitive
<1> QED BY <1>1, <1>2, <1>3, <1>5

-----------------------------------------------------------------------------
(* A QoS 1 message takes the next identifier *)

\* No identifier but mid, if anything, has come into use.
OnlyNewId(c, e, mid, qos) ==
    /\ e.last_mid = c.last_mid
    /\ \A m \in MidUsed : Ids(e, m) <= Ids(c, m) + Bit(qos > 0 /\ m = mid)

LEMMA HeldIds ==
    ASSUME NEW n, NEW d \in Databases(n), NEW s \in Slot, NEW m \in 1..MaxPublish,
           NEW mid \in Mid, NEW qos \in {0, 1}, NEW retain \in BOOLEAN,
           Fate(d.ctx[s], qos) # "dropped"
    PROVE  OnlyNewId(d.ctx[s], Held(d, s, m, mid, qos, retain).ctx[s], mid, qos)
<1> DEFINE c == d.ctx[s]
           item == NewItem(c, m, mid, qos, retain)
           e == Held(d, s, m, mid, qos, retain).ctx[s]
<1>1. e = Given(c, item)
  BY HeldType
<1>2. c \in Context
  BY DEF Databases
<1>3. item.qos = qos /\ item.mid = mid /\ item.state \in {"publish", "queued"}
  BY DEF NewItem, Fate
<1>4. item \in Item
  BY <1>3, ItemFacts DEF NewItem
<1> HIDE DEF item, e, c
<1>5. /\ e.inflight = IF item.state = "publish" THEN Append(c.inflight, item) ELSE c.inflight
      /\ e.queued = IF item.state = "queued" THEN Append(c.queued, item) ELSE c.queued
      /\ e.last_mid = c.last_mid
  BY <1>1, <1>2 DEF Given, Messages, Context
<1>6. c.inflight \in Seq(Item) /\ c.queued \in Seq(Item)
  BY <1>2 DEF Context
<1>7. ASSUME NEW x \in MidUsed
      PROVE  Ids(e, x) <= Ids(c, x) + Bit(qos > 0 /\ x = mid)
  <2> DEFINE P == Sent(x)
             b == Bit(item \in P)
  <2>1. /\ Count(Append(c.inflight, item), P) = Count(c.inflight, P) + b
        /\ Count(Append(c.queued, item), P) = Count(c.queued, P) + b
        /\ Count(c.inflight, P) \in Nat /\ Count(c.queued, P) \in Nat /\ b \in Nat
    BY <1>4, <1>6, CountAppend, CountType DEF Bit
  <2>2. b = Bit(qos > 0 /\ x = mid)
    BY <1>3, <1>4 DEF Sent, Bit
  <2> HIDE DEF P, b
  <2>3. \/ e.inflight = Append(c.inflight, item) /\ e.queued = c.queued
        \/ e.inflight = c.inflight /\ e.queued = Append(c.queued, item)
    BY <1>3, <1>5
  <2>4. Count(e.inflight, P) + Count(e.queued, P) = Count(c.inflight, P) + Count(c.queued, P) + b
    <3>1. CASE e.inflight = Append(c.inflight, item) /\ e.queued = c.queued
      <4>1. Count(e.inflight, P) = Count(c.inflight, P) + b /\ e.queued = c.queued
        BY <2>1, <3>1
      <4> QED BY <2>1, <4>1
    <3>2. CASE e.inflight = c.inflight /\ e.queued = Append(c.queued, item)
      <4>1. Count(e.queued, P) = Count(c.queued, P) + b /\ e.inflight = c.inflight
        BY <2>1, <3>2
      <4> QED BY <2>1, <4>1
    <3> QED BY <2>3, <3>1, <3>2
  <2> QED BY <2>1, <2>2, <2>4 DEF Ids, P
<1> QED BY <1>5, <1>7 DEF OnlyNewId, e, c

LEMMA InsertIds ==
    ASSUME NEW n, NEW d \in Databases(n), NEW s \in Slot, NEW m \in 1..MaxPublish,
           NEW mid \in Mid, NEW qos \in {0, 1}, NEW retain \in BOOLEAN, NEW update
    PROVE  OnlyNewId(d.ctx[s],
                     db__message_insert(d, s, m, mid, qos, retain, update).ctx[s], mid, qos)
<1> DEFINE c == d.ctx[s]
           e == Held(d, s, m, mid, qos, retain)
           f == Updated(e, s)
           r == db__message_insert(d, s, m, mid, qos, retain, update)
<1>1. r = d \/ (Fate(c, qos) # "dropped" /\ (r = e \/ r = f))
  BY DEF db__message_insert
<1>2. c \in Context
  BY DEF Databases
<1>3. \A x : Ids(c, x) \in Nat
  BY <1>2, IdsType
<1>4. \A b : Bit(b) \in Nat
  BY DEF Bit
<1>5. CASE r = d
  <2> HIDE DEF r
  <2> QED BY <1>3, <1>4, <1>5 DEF OnlyNewId, r
<1>6. CASE Fate(c, qos) # "dropped" /\ (r = e \/ r = f)
  <2>1. e \in Databases(n) /\ OnlyNewId(c, e.ctx[s], mid, qos)
    BY <1>6, HeldType, HeldIds
  <2> HIDE DEF e, r
  <2>2. f \in Databases(n) /\ NoMoreIds(e.ctx[s], f.ctx[s])
    BY <2>1, UpdatedIds
  <2> HIDE DEF f, c
  <2>3. \A x : Ids(e.ctx[s], x) \in Nat /\ Ids(f.ctx[s], x) \in Nat
    BY <2>1, <2>2, IdsType DEF Databases
  <2>4. ASSUME NEW x \in MidUsed
        PROVE  Ids(f.ctx[s], x) <= Ids(c, x) + Bit(qos > 0 /\ x = mid)
    <3>1. /\ Ids(f.ctx[s], x) <= Ids(e.ctx[s], x)
          /\ Ids(e.ctx[s], x) <= Ids(c, x) + Bit(qos > 0 /\ x = mid)
      BY <2>1, <2>2 DEF NoMoreIds, OnlyNewId
    <3>2. Bit(qos > 0 /\ x = mid) \in Nat
      BY <1>4
    <3> QED BY <1>3, <2>3, <3>1, <3>2
  <2>5. f.ctx[s].last_mid = c.last_mid
    BY <2>1, <2>2 DEF NoMoreIds, OnlyNewId
  <2>6. OnlyNewId(c, f.ctx[s], mid, qos)
    BY <2>4, <2>5 DEF OnlyNewId
  <2> QED BY <1>6, <2>1, <2>6 DEF c, r
<1> QED BY <1>1, <1>5, <1>6

LEMMA OfferedIds ==
    ASSUME NEW n, NEW d \in Databases(n), NEW s \in Slot, NEW m \in 1..MaxPublish,
           NEW qos \in {0, 1}, NEW retain \in BOOLEAN, NEW update
    PROVE  MaybeNewId(d.ctx[s], Offered(d, s, m, qos, retain, update).ctx[s])
<1> DEFINE old == d.ctx[s]
           mid == IF qos = 0 THEN 0 ELSE mosquitto__mid_generate(old.last_mid)
           c == [old EXCEPT !.last_mid = mid]
           numbered == [d EXCEPT !.ctx[s].last_mid = mid]
           e == IF qos = 0 THEN d ELSE numbered
           f == db__message_insert(e, s, m, mid, qos, retain, update)
<1>1. old \in Context /\ old.last_mid \in Mid
  BY DEF Databases, Context
<1>2. mid \in Mid
  BY <1>1, MidFacts
<1>3. Offered(d, s, m, qos, retain, update) = f
  BY DEF Offered
<1>4. qos = 1 => mid = mosquitto__mid_generate(old.last_mid)
  OBVIOUS
<1> HIDE DEF mid
<1>5. /\ c \in Context /\ c.inflight = old.inflight /\ c.queued = old.queued
      /\ c.last_mid = mid
  BY <1>1, <1>2, ContextChanges DEF Context
<1>6. numbered = [d EXCEPT !.ctx[s] = c]
  BY DEF Databases
<1> HIDE DEF c, numbered, old
<1>7. numbered \in Databases(n) /\ numbered.ctx[s] = c
  BY <1>5, <1>6, ContextReplaced
<1>8. e \in Databases(n) /\ e.ctx[s] = IF qos = 0 THEN old ELSE c
  BY <1>7 DEF old
<1> HIDE DEF e
<1>9. OnlyNewId(e.ctx[s], f.ctx[s], mid, qos)
  BY <1>2, <1>8, InsertIds
<1> HIDE DEF f
<1>10. CASE qos = 0
  <2>1. OnlyNewId(old, f.ctx[s], mid, 0)
    BY <1>8, <1>9, <1>10
  <2>2. \A x : Bit(0 > 0 /\ x = mid) = 0 /\ Ids(old, x) \in Nat
    BY <1>1, IdsType DEF Bit
  <2>3. NoMoreIds(old, f.ctx[s])
    BY <2>1, <2>2 DEF OnlyNewId, NoMoreIds
  <2> QED BY <1>3, <2>3 DEF MaybeNewId, old
<1>11. CASE qos = 1
  <2>1. OnlyNewId(c, f.ctx[s], mid, 1)
    BY <1>8, <1>9, <1>11
  <2>2. \A x : Bit(1 > 0 /\ x = mid) = Bit(x = mid) /\ Ids(c, x) = Ids(old, x)
    BY <1>5 DEF Bit, Ids
  <2>3. f.ctx[s].last_mid = mid
    BY <1>5, <2>1 DEF OnlyNewId
  <2>4. \A x \in MidUsed : Ids(f.ctx[s], x) <= Ids(old, x) + Bit(x = mid)
    BY <2>1, <2>2 DEF OnlyNewId
  <2>5. OneMoreId(old, f.ctx[s])
    BY <1>4, <1>11, <2>3, <2>4 DEF OneMoreId
  <2> QED BY <1>3, <2>5 DEF MaybeNewId, old
<1> QED BY <1>10, <1>11

\* Clients of different subscribers of a topic are different.
LEMMA SubscribersDiffer ==
    ASSUME NEW n, NEW d \in Databases(n), Listed(d), Named(d), NEW t,
           NEW l \in Subscribers(d, t), NEW k \in Subscribers(d, t), k # l
    PROVE  k.slot # l.slot /\ d.ctx[k.slot].id # d.ctx[l.slot].id
<1>1. /\ k \in d.leaves /\ l \in d.leaves /\ k.topic = t /\ l.topic = t
      /\ k.slot \in Slot /\ l.slot \in Slot
      /\ d.ctx[l.slot].id # NoId /\ d.ctx[k.slot].id # NoId
  BY DEF Subscribers, Databases, Leaf
<1>2. k.slot # l.slot
  BY <1>1 DEF Listed
<1> QED BY <1>1, <1>2 DEF Named

LEMMA SubscribersOnce ==
    ASSUME NEW n, NEW d \in Databases(n), NEW t, IsFiniteSet(d.leaves)
    PROVE  \A j, k \in 1..Len(SetToSeq(Subscribers(d, t))) :
                SetToSeq(Subscribers(d, t))[j] = SetToSeq(Subscribers(d, t))[k] => j = k
<1> DEFINE S == Subscribers(d, t)
           N == Cardinality(S)
<1>1. SetToSeq(S) \in [1..N -> S] /\ IsInjective(SetToSeq(S)) /\ Len(SetToSeq(S)) = N
  BY SubscribersOrdered
<1> HIDE DEF S, N
<1>2. \A j, k \in 1..N : SetToSeq(S)[j] = SetToSeq(S)[k] => j = k
  BY <1>1 DEF IsInjective
<1> QED BY <1>1, <1>2 DEF S

\* The first k leaves have been sent the message: e is what has become of d.
NoneTwice(d, leaves, k, e) ==
    \A r \in Slot : /\ MaybeNewId(d.ctx[r], e.ctx[r])
                    /\ (\A j \in 1..k : leaves[j].slot # r) => e.ctx[r] = d.ctx[r]

LEMMA SentIds ==
    ASSUME NEW n, NEW d \in Databases(n), NEW e \in Databases(n), NEW m \in 1..MaxPublish,
           NEW leaves, NEW k \in Nat, NEW leaf, leaf = leaves[k + 1],
           leaf.slot \in Slot, leaf.qos \in {0, 1},
           \A j \in 1..k : leaves[j].slot # leaf.slot,
           NoneTwice(d, leaves, k, e)
    PROVE  NoneTwice(d, leaves, k + 1, subs__send(e, leaf, m))
<1> DEFINE s == leaf.slot
           f == subs__send(e, leaf, m)
<1>1. OnlyMessages(e, f, s) /\ MaybeNewId(e.ctx[s], f.ctx[s])
  BY OfferedType, OfferedIds DEF subs__send
<1>2. e.ctx[s] = d.ctx[s]
  BY DEF NoneTwice
<1> HIDE DEF f
<1>3. MaybeNewId(d.ctx[s], f.ctx[s])
  BY <1>1, <1>2
<1>4. \A r \in Slot \ {s} : f.ctx[r] = e.ctx[r]
  BY <1>1 DEF OnlyMessages
<1>5. k + 1 \in 1..(k + 1) /\ \A j \in 1..k : j \in 1..(k + 1)
  OBVIOUS
<1>6. ASSUME NEW r \in Slot
      PROVE  /\ MaybeNewId(d.ctx[r], f.ctx[r])
             /\ (\A j \in 1..(k + 1) : leaves[j].slot # r) => f.ctx[r] = d.ctx[r]
  <2>1. CASE r = s
    BY <1>3, <1>5, <2>1
  <2>2. CASE r # s
    <3>1. f.ctx[r] = e.ctx[r]
      BY <1>4, <2>2
    <3>2. MaybeNewId(d.ctx[r], e.ctx[r])
      BY DEF NoneTwice
    <3>3. ASSUME \A j \in 1..(k + 1) : leaves[j].slot # r PROVE e.ctx[r] = d.ctx[r]
      <4>1. \A j \in 1..k : leaves[j].slot # r
        BY <1>5, <3>3
      <4> QED BY <4>1 DEF NoneTwice
    <3> QED BY <3>1, <3>2, <3>3
  <2> QED BY <2>1, <2>2
<1> QED BY <1>6 DEF NoneTwice, f

\* No context is offered a message twice, so it takes one identifier at most.
LEMMA ProcessIds ==
    ASSUME NEW n, NEW d \in Databases(n), NEW t, NEW m \in 1..MaxPublish,
           IsFiniteSet(d.leaves), Listed(d), Named(d)
    PROVE  \A r \in Slot : MaybeNewId(d.ctx[r], subs__process(d, t, m).ctx[r])
<1> DEFINE leaves == SetToSeq(Subscribers(d, t))
           N == Len(leaves)
<1>1. /\ N \in Nat
      /\ \A k \in 1..N : leaves[k] \in Subscribers(d, t)
      /\ \A j, k \in 1..N : leaves[j] = leaves[k] => j = k
  BY SubscribersListed, SubscribersOnce, LenProperties
<1>2. \A leaf \in Subscribers(d, t) : leaf.slot \in Slot /\ leaf.qos \in {0, 1}
  BY DEF Leaf, Subscribers, Databases
<1>3. \A e \in Databases(n) : \A leaf \in Subscribers(d, t) : subs__send(e, leaf, m) \in Databases(n)
  BY <1>2, OfferedType DEF subs__send
<1>4. PICK w : Sends(Databases(n), d, t, m, w)
  BY <1>3, ProcessRuns
<1>5. /\ w \in [0..N -> Databases(n)] /\ w[0] = d
      /\ \A k \in 1..N : w[k] = subs__send(w[k - 1], leaves[k], m)
      /\ subs__process(d, t, m) = w[N]
  BY <1>4 DEF Sends
<1>6. \A j, k \in 1..N : j # k => leaves[j].slot # leaves[k].slot
  <2> HIDE DEF leaves, N
  <2> SUFFICES ASSUME NEW j \in 1..N, NEW k \in 1..N, j # k PROVE leaves[j].slot # leaves[k].slot
    OBVIOUS
  <2>1. leaves[j] \in Subscribers(d, t) /\ leaves[k] \in Subscribers(d, t) /\ leaves[j] # leaves[k]
    BY <1>1
  <2> QED BY <2>1, SubscribersDiffer
<1> HIDE DEF leaves, N
<1> DEFINE T == {k \in 0..N : NoneTwice(d, leaves, k, w[k])}
<1>7. 0 \in T
  <2>1. \A r \in Slot : NoMoreIds(d.ctx[r], d.ctx[r])
    BY SameIds DEF Databases
  <2>2. NoneTwice(d, leaves, 0, w[0])
    BY <1>5, <2>1 DEF NoneTwice, MaybeNewId
  <2> QED BY <1>1, <2>2
<1>8. ASSUME NEW k \in 0..(N - 1), k \in T PROVE k + 1 \in T
  <2>1. /\ k \in Nat /\ k + 1 \in 1..N /\ k + 1 \in 0..N /\ (k + 1) - 1 = k /\ k \in 0..N
        /\ \A j \in 1..k : j \in 1..N /\ j # k + 1
    BY <1>1
  <2>2. w[k + 1] = subs__send(w[k], leaves[k + 1], m) /\ w[k] \in Databases(n)
    BY <1>5, <2>1
  <2>3. /\ leaves[k + 1].slot \in Slot /\ leaves[k + 1].qos \in {0, 1}
        /\ \A j \in 1..k : leaves[j].slot # leaves[k + 1].slot
    BY <1>1, <1>2, <1>6, <2>1
  <2>4. NoneTwice(d, leaves, k, w[k])
    BY <1>8
  <2>5. NoneTwice(d, leaves, k + 1, w[k + 1])
    BY <2>1, <2>2, <2>3, <2>4, SentIds
  <2> QED BY <2>1, <2>5
<1>9. N \in T
  <2> HIDE DEF T
  <2>1. \A k \in 0..N : k \in T
    BY <1>1, <1>7, <1>8, Numbers!UpTo
  <2> QED BY <1>1, <2>1
<1> QED BY <1>5, <1>9 DEF NoneTwice

LEMMA QueuedIds ==
    ASSUME NEW n \in Nat, n <= MaxPublish, NEW d \in Databases(n), NEW t, NEW m \in 1..n,
           IsFiniteSet(d.leaves), Listed(d), Named(d)
    PROVE  \A r \in Slot : MaybeNewId(d.ctx[r], sub__messages_queue(d, t, m).ctx[r])
<1> DEFINE e == db__msg_store_ref_inc(d, m)
           f == subs__process(e, t, m)
           g == retain__store(f, t, m)
<1>1. m \in 1..MaxPublish
  BY BrokerAssumption
<1>2. /\ e \in Databases(n) /\ e.ctx = d.ctx /\ e.leaves = d.leaves /\ IsFiniteSet(e.leaves)
  BY RefInc
<1>3. sub__messages_queue(d, t, m) = db__msg_store_ref_dec(g, m)
  BY DEF sub__messages_queue
<1> HIDE DEF e
<1>4. Listed(e) /\ Named(e)
  BY <1>2 DEF Listed, Named
<1>5. f \in Databases(n) /\ \A r \in Slot : MaybeNewId(e.ctx[r], f.ctx[r])
  BY <1>1, <1>2, <1>4, ProcessType, ProcessIds
<1> HIDE DEF f
<1>6. g \in Databases(n) /\ g.ctx = f.ctx
  BY <1>5, RetainType, RetainBetter
<1> HIDE DEF g
<1>7. sub__messages_queue(d, t, m).ctx = f.ctx
  BY <1>3, <1>6, RefDec
<1> QED BY <1>2, <1>5, <1>7

LEMMA CopyIds ==
    ASSUME NEW n \in Nat, n <= MaxPublish, NEW d \in Databases(n), NEW s \in Slot,
           NEW t \in Topic, NEW qos \in {0, 1}
    PROVE  MaybeNewId(d.ctx[s], retain__process(d, s, t, qos).ctx[s])
<1>1. CASE d.retained[t] = NoMessage
  <2>1. NoMoreIds(d.ctx[s], d.ctx[s])
    BY SameIds DEF Databases
  <2> QED BY <1>1, <2>1 DEF retain__process, MaybeNewId
<1>2. CASE d.retained[t] # NoMessage
  <2>1. d.retained[t] \in 0..n
    BY DEF Databases
  <2>2. d.retained[t] \in 1..MaxPublish /\ TRUE \in BOOLEAN
    BY <1>2, <2>1, BrokerAssumption DEF NoMessage
  <2> QED BY <1>2, <2>2, OfferedIds DEF retain__process
<1> QED BY <1>1, <1>2

-----------------------------------------------------------------------------
(* What is acknowledged gives its identifier up *)

LEMMA WithoutMidIds ==
    ASSUME NEW n, NEW d \in Databases(n), NEW s \in Slot, NEW mid
    PROVE  NoMoreIds(d.ctx[s], WithoutMid(d, s, mid).ctx[s])
<1> DEFINE c == d.ctx[s]
           e == WithoutMid(d, s, mid).ctx[s]
<1>1. c \in Context /\ e \in Context /\ c.inflight \in Seq(Item)
  <2>1. WithoutMid(d, s, mid) \in Databases(n)
    BY WithoutMidType
  <2> QED BY <2>1 DEF Databases, Context
<1>2. DOMAIN c.inflight = 1..Len(c.inflight)
  BY <1>1, LenProperties
<1>3. CASE \A j \in DOMAIN c.inflight : c.inflight[j].mid # mid
  <2>1. {i \in DOMAIN c.inflight : c.inflight[i].mid = mid} = {}
    BY <1>3
  <2>2. WithoutMid(d, s, mid) = d
    BY <2>1 DEF WithoutMid
  <2>3. e = c
    BY <2>2
  <2> HIDE DEF c, e
  <2>4. NoMoreIds(c, e)
    BY <1>1, <2>3, SameIds
  <2> QED BY <2>4 DEF c, e
<1>4. ASSUME NEW j \in DOMAIN c.inflight, c.inflight[j].mid = mid
      PROVE  NoMoreIds(c, e)
  <2>1. TakenOut(c, mid, e)
    BY <1>2, <1>4, WithoutMidDoes
  <2> HIDE DEF c, e
  <2>2. PICK i \in 1..Len(c.inflight) : e = [c EXCEPT !.inflight = RemoveAt(c.inflight, i)]
    BY <2>1 DEF TakenOut
  <2>3. /\ e.inflight = RemoveAt(c.inflight, i) /\ e.queued = c.queued
        /\ e.last_mid = c.last_mid
    BY <1>1, <2>2 DEF Context
  <2>4. ASSUME NEW m \in MidUsed PROVE Ids(e, m) <= Ids(c, m)
    <3>1. Count(c.inflight, Sent(m)) = Count(e.inflight, Sent(m)) + Bit(c.inflight[i] \in Sent(m))
      BY <1>1, <2>3, CountRemoved
    <3>2. /\ Count(e.inflight, Sent(m)) \in Nat /\ Count(c.queued, Sent(m)) \in Nat
          /\ Bit(c.inflight[i] \in Sent(m)) \in Nat
      BY <1>1, IdsType DEF Bit
    <3> QED BY <2>3, <3>1, <3>2 DEF Ids
  <2> QED BY <2>3, <2>4 DEF NoMoreIds
<1> QED BY <1>3, <1>4

LEMMA DeletedIds ==
    ASSUME NEW n, NEW d \in Databases(n), NEW s \in Slot, NEW mid
    PROVE  NoMoreIds(d.ctx[s], db__message_delete_outgoing(d, s, mid).ctx[s])
<1> DEFINE e == WithoutMid(d, s, mid)
           f == [e EXCEPT !.ctx[s] = db__message_write_queued_out(@)]
           g == db__message_write_inflight_out_latest(f, s)
<1>1. e \in Databases(n) /\ NoMoreIds(d.ctx[s], e.ctx[s])
  BY WithoutMidType, WithoutMidIds
<1>2. db__message_delete_outgoing(d, s, mid) = g
  BY DEF db__message_delete_outgoing
<1> HIDE DEF e
<1>3. f \in Databases(n) /\ NoMoreIds(e.ctx[s], f.ctx[s])
  BY <1>1, QueueWritten, QueueWrittenIds
<1> HIDE DEF f
<1>4. g \in Databases(n) /\ NoMoreIds(f.ctx[s], g.ctx[s])
  BY <1>3, LatestWritten, LatestIds
<1> HIDE DEF g
<1>5. /\ d.ctx[s] \in Context /\ e.ctx[s] \in Context
      /\ f.ctx[s] \in Context /\ g.ctx[s] \in Context
  BY <1>1, <1>3, <1>4 DEF Databases
<1>6. NoMoreIds(d.ctx[s], f.ctx[s])
  BY <1>1, <1>3, <1>5, IdsTransitive
<1>7. NoMoreIds(d.ctx[s], g.ctx[s])
  BY <1>4, <1>5, <1>6, IdsTransitive
<1> QED BY <1>2, <1>7

-----------------------------------------------------------------------------
(* The identifiers of a session, from one context to the next *)

LEMMA EmptyDistinct ==
    ASSUME NEW c, c.inflight = <<>>, c.queued = <<>>
    PROVE  Distinct(c) /\ \A m : Ids(c, m) = 0
<1>1. \A m : Ids(c, m) = 0
  BY CountEmpty DEF Ids
<1> QED BY <1>1 DEF Distinct

LEMMA DisconnectIds ==
    ASSUME NEW n, NEW d \in Databases(n), NEW s \in Slot
    PROVE  NoMoreIds(d.ctx[s], do_disconnect(d, s).ctx[s])
<1> DEFINE e == do_disconnect(d, s).ctx[s]
<1>1. d.ctx[s] \in Context /\ e \in Context
  <2>1. do_disconnect(d, s) \in Databases(n)
    BY DisconnectType
  <2> QED BY <2>1 DEF Databases
<1>2. /\ e.inflight = d.ctx[s].inflight /\ e.queued = d.ctx[s].queued
      /\ e.last_mid = d.ctx[s].last_mid
  BY DEF do_disconnect, Databases, Context
<1> HIDE DEF e
<1>3. NoMoreIds(d.ctx[s], e)
  BY <1>1, <1>2, SameIds
<1> QED BY <1>3 DEF e

LEMMA ResetIds ==
    ASSUME NEW c \in Context
    PROVE  NoMoreIds(c, db__message_reconnect_reset(c))
<1> DEFINE again == [i \in DOMAIN c.inflight |-> [c.inflight[i] EXCEPT !.state = "publish"]]
           counted == {i \in DOMAIN again : again[i].qos > 0}
           used == Cardinality(counted)
           quota == IF used > InflightMax THEN 0 ELSE InflightMax - used
           one == [c EXCEPT !.inflight = again]
           two == [one EXCEPT !.quota = quota]
           N == Len(c.inflight)
           e == db__message_reconnect_reset(c)
<1>1. c.inflight \in Seq(Item) /\ N \in Nat /\ DOMAIN c.inflight = 1..N /\ N \in 0..N
  BY LenProperties DEF Context
<1>2. again = Resent(c.inflight, N)
  BY <1>1 DEF Resent
<1>3. e = db__message_write_queued_out(two)
  BY DEF db__message_reconnect_reset, Context
<1>4. used \in Nat
  <2>1. counted \in SUBSET (1..N)
    BY <1>1
  <2>2. IsFiniteSet(1..N)
    BY <1>1, FirstNumbers
  <2> HIDE DEF counted
  <2> QED BY <2>1, <2>2, FS_Subset, FS_CardinalityType
<1> HIDE DEF used
<1>5. quota \in 0..InflightMax
  BY <1>4, BrokerAssumption
<1> HIDE DEF quota, again
<1>6. /\ again \in Seq(Item)
      /\ \A m : Count(again, Sent(m)) = Count(c.inflight, Sent(m))
  <2>1. SubSeq(c.inflight, 1, N) = c.inflight
    BY <1>1, SubSeqFull
  <2>2. /\ Resent(c.inflight, N) \in Seq(Item)
        /\ \A m : Count(Resent(c.inflight, N), Sent(m)) = Count(SubSeq(c.inflight, 1, N), Sent(m))
    BY <1>1, ResentIds
  <2> QED BY <1>2, <2>1, <2>2
<1>7. /\ one \in Context /\ one.inflight = again /\ one.queued = c.queued
      /\ one.last_mid = c.last_mid
  BY <1>6, ContextChanges DEF Context
<1> HIDE DEF one
<1>8. /\ two \in Context /\ two.inflight = again /\ two.queued = c.queued
      /\ two.last_mid = c.last_mid
  BY <1>5, <1>7, ContextChanges DEF Context
<1> HIDE DEF two, e
<1>9. NoMoreIds(c, two)
  <2>1. \A m : Ids(two, m) = Ids(c, m) /\ Ids(c, m) \in Nat
    BY <1>6, <1>8, IdsType DEF Ids
  <2> QED BY <1>8, <2>1 DEF NoMoreIds
<1>10. e \in Context /\ NoMoreIds(two, e)
  BY <1>3, <1>8, QueueMoves, QueueIds
<1>11. NoMoreIds(c, e)
  BY <1>8, <1>9, <1>10, IdsTransitive
<1> QED BY <1>11 DEF e

LEMMA InheritedIds ==
    ASSUME NEW c \in Context, NEW old \in Context, Blank(c)
    PROVE  Inherited(c, old) \in Context /\ NoMoreIds(old, Inherited(c, old))
<1> DEFINE listed == [c EXCEPT !.subs = old.subs]
           fresh == [listed EXCEPT !.last_mid = old.last_mid]
           half == [fresh EXCEPT !.inflight = old.inflight]
           full == [half EXCEPT !.queued = old.queued]
<1>1. /\ old.subs \in SUBSET Topic /\ old.last_mid \in Mid
      /\ old.inflight \in Seq(Item) /\ old.queued \in Seq(Item)
  BY DEF Context
<1>2. fresh = BookkeepingMoved(c, old)
  BY DEF BookkeepingMoved, Context
<1>3. listed \in Context /\ listed.inflight = <<>> /\ listed.queued = <<>>
  BY <1>1, SessionChanges DEF Context, Blank
<1> HIDE DEF listed
<1>4. /\ fresh \in Context /\ fresh.inflight = <<>> /\ fresh.queued = <<>>
      /\ fresh.last_mid = old.last_mid
  BY <1>1, <1>3, ContextChanges DEF Context
<1> HIDE DEF fresh
<1>5. half \in Context /\ half.inflight = old.inflight /\ half.last_mid = old.last_mid
  BY <1>1, <1>4, ContextChanges DEF Context
<1>6. full = [fresh EXCEPT !.inflight = old.inflight, !.queued = old.queued]
  BY <1>4 DEF Context
<1> HIDE DEF half
<1>7. /\ full \in Context /\ full.inflight = old.inflight /\ full.queued = old.queued
      /\ full.last_mid = old.last_mid
  BY <1>1, <1>5, ContextChanges DEF Context
<1>8. Inherited(c, old) = IF old.inflight = <<>> /\ old.queued = <<>> THEN fresh
                          ELSE db__message_reconnect_reset(full)
  BY <1>2, <1>6 DEF Inherited
<1> HIDE DEF full
<1> DEFINE e == db__message_reconnect_reset(full)
<1>9. e \in Context /\ NoMoreIds(full, e) /\ NoMoreIds(old, full)
  BY <1>7, ResetType, ResetIds, SameIds
<1> HIDE DEF e
<1>10. NoMoreIds(old, e)
  BY <1>7, <1>9, IdsTransitive
<1>11. old.inflight = <<>> /\ old.queued = <<>> => NoMoreIds(old, fresh)
  BY <1>4, SameIds
<1> QED BY <1>4, <1>8, <1>9, <1>10, <1>11 DEF e

LEMMA TakenOverIds ==
    ASSUME NEW n, NEW d \in Databases(n), NEW s \in Slot, NEW f \in Slot, s # f,
           Blank(d.ctx[s]), Distinct(d.ctx[s]), Distinct(d.ctx[f])
    PROVE  Distinct(TakenOver(d, s, f).ctx[s]) /\ Distinct(TakenOver(d, s, f).ctx[f])
<1> DEFINE g == IF ~d.ctx[s].clean /\ ~d.ctx[f].clean THEN SessionMoved(d, s, f)
                ELSE IF d.ctx[s].clean THEN sub__clean_session(d, f) ELSE d
           ends == [g.ctx[f] EXCEPT !.clean = TRUE]
           h == [g EXCEPT !.ctx[f] = ends]
<1>1. d.ctx[s] \in Context /\ d.ctx[f] \in Context
  BY DEF Databases
<1>2. g \in Databases(n) /\ Distinct(g.ctx[s]) /\ Distinct(g.ctx[f])
  <2>1. CASE ~d.ctx[s].clean /\ ~d.ctx[f].clean
    <3>1. g = SessionMoved(d, s, f)
      BY <2>1
    <3> HIDE DEF g
    <3>2. g \in Databases(n) /\ g.ctx = ContextMoved(d, s, f).ctx
      BY <3>1, SessionMovedType
    <3>3. g.ctx[s] = Inherited(d.ctx[s], d.ctx[f]) /\ g.ctx[f] = HandedOver(d.ctx[f])
      BY <3>2, MovedDoes
    <3>4. Distinct(Inherited(d.ctx[s], d.ctx[f]))
      BY <1>1, InheritedIds, NoMoreDistinct
    <3>5. Distinct(HandedOver(d.ctx[f]))
      <4> DEFINE c == HandedOver(d.ctx[f])
      <4>1. c.inflight = <<>> /\ c.queued = <<>>
        BY <1>1 DEF HandedOver, Context
      <4> HIDE DEF c
      <4>2. Distinct(c)
        BY <4>1, EmptyDistinct
      <4> QED BY <4>2 DEF c
    <3> QED BY <3>2, <3>3, <3>4, <3>5
  <2>2. CASE ~(~d.ctx[s].clean /\ ~d.ctx[f].clean) /\ d.ctx[s].clean
    <3>1. g = sub__clean_session(d, f)
      BY <2>2
    <3>2. /\ sub__clean_session(d, f).ctx[f].inflight = d.ctx[f].inflight
          /\ sub__clean_session(d, f).ctx[f].queued = d.ctx[f].queued
          /\ sub__clean_session(d, f).ctx[f].last_mid = d.ctx[f].last_mid
      BY <1>1 DEF sub__clean_session, Databases, Context
    <3> HIDE DEF g
    <3>3. g \in Databases(n) /\ g.ctx[s] = d.ctx[s]
      BY <3>1, CleanType
    <3>4. g.ctx[f] \in Context
      BY <3>3 DEF Databases
    <3>5. NoMoreIds(d.ctx[f], g.ctx[f])
      BY <1>1, <3>1, <3>2, <3>4, SameIds
    <3>6. Distinct(g.ctx[f])
      BY <1>1, <3>4, <3>5, NoMoreDistinct
    <3> QED BY <3>3, <3>6
  <2>3. CASE ~(~d.ctx[s].clean /\ ~d.ctx[f].clean) /\ ~d.ctx[s].clean
    <3>1. g = d
      BY <2>3
    <3> HIDE DEF g
    <3> QED BY <3>1
  <2> HIDE DEF g
  <2> QED BY <2>1, <2>2, <2>3
<1>3. TakenOver(d, s, f) = do_disconnect(h, f)
  <2>1. g \in Databases(n)
    BY <1>2
  <2>2. TakenOver(d, s, f) = do_disconnect([g EXCEPT !.ctx[f].clean = TRUE], f)
    BY DEF TakenOver
  <2> HIDE DEF g
  <2>3. [g EXCEPT !.ctx[f].clean = TRUE] = h
    BY <2>1 DEF Databases, Context
  <2> QED BY <2>2, <2>3
<1> HIDE DEF g
<1>4. g.ctx[f] \in Context
  BY <1>2 DEF Databases
<1>5. ends \in Context /\ Distinct(ends)
  <2>1. /\ ends.inflight = g.ctx[f].inflight /\ ends.queued = g.ctx[f].queued
        /\ ends.last_mid = g.ctx[f].last_mid
    BY <1>4 DEF Context
  <2>2. ends \in Context
    BY <1>4, SessionChanges
  <2> HIDE DEF ends
  <2>3. NoMoreIds(g.ctx[f], ends)
    BY <1>4, <2>1, <2>2, SameIds
  <2> QED BY <1>2, <1>4, <2>2, <2>3, NoMoreDistinct
<1> HIDE DEF ends
<1>6. h \in Databases(n) /\ h.ctx[f] = ends /\ h.ctx[s] = g.ctx[s]
  BY <1>2, <1>5, ContextReplaced
<1> HIDE DEF h
<1> DEFINE x == do_disconnect(h, f)
<1>7. /\ x \in Databases(n) /\ NoMoreIds(h.ctx[f], x.ctx[f])
      /\ \A r \in Slot \ {f} : x.ctx[r] = h.ctx[r]
  BY <1>6, DisconnectType, DisconnectIds
<1> HIDE DEF x
<1>8. x.ctx[f] \in Context
  BY <1>7 DEF Databases
<1>9. Distinct(x.ctx[f])
  BY <1>5, <1>6, <1>7, <1>8, NoMoreDistinct
<1> QED BY <1>2, <1>3, <1>6, <1>7, <1>9 DEF x

LEMMA ConnectedIds ==
    ASSUME NEW n, NEW d \in Databases(n), NEW s \in Slot, NEW m \in Node,
           Blank(d.ctx[s]), \A r \in Slot : Distinct(d.ctx[r])
    PROVE  \A r \in Slot : Distinct(connect__on_authorised(d, s, m).ctx[r])
<1> DEFINE e == Cleared(d, s, m)
           c == e.ctx[s]
           one == [c EXCEPT !.state = "active"]
           two == [one EXCEPT !.id = m]
           active == [e EXCEPT !.ctx[s] = two]
           moved == [active EXCEPT !.ctx[s] = db__message_write_queued_out(@)]
           r == connect__on_authorised(d, s, m)
<1>1. /\ e \in Databases(n)
      /\ \A q \in Slot \ {s} : r.ctx[q] = e.ctx[q]
  BY ConnectedType DEF NowActive
<1>2. \A q \in Slot : Distinct(e.ctx[q])
  <2>1. CASE e = d
    <3> HIDE DEF e
    <3> QED BY <2>1
  <2>2. ASSUME NEW f \in Slot \ {s}, e = TakenOver(d, s, f)
        PROVE  \A q \in Slot : Distinct(e.ctx[q])
    <3> HIDE DEF e
    <3>1. f \in Slot /\ s # f
      OBVIOUS
    <3>2. Distinct(e.ctx[s]) /\ Distinct(e.ctx[f])
      BY <2>2, <3>1, TakenOverIds
    <3>3. GivenWay(d, e, s, f)
      BY <2>2, <3>1, TakenOverType
    <3>4. \A q \in Slot \ {s, f} : e.ctx[q] = d.ctx[q]
      BY <3>3 DEF GivenWay
    <3> QED BY <3>2, <3>4
  <2>3. e = d \/ \E f \in Slot \ {s} : e = TakenOver(d, s, f)
    BY ClearedFacts
  <2> HIDE DEF e
  <2> QED BY <2>1, <2>2, <2>3
<1>3. r = db__message_write_inflight_out_all(moved, s)
  <2>1. c \in Context
    BY <1>1 DEF Databases
  <2>2. [e EXCEPT !.ctx[s].state = "active", !.ctx[s].id = m] = active
    BY <1>1, <2>1 DEF Databases, Context
  <2> HIDE DEF active
  <2>3. r = db__message_write_inflight_out_all(
              [[e EXCEPT !.ctx[s].state = "active", !.ctx[s].id = m]
                  EXCEPT !.ctx[s] = db__message_write_queued_out(@)], s)
    BY DEF connect__on_authorised, Cleared
  <2> HIDE DEF r, e
  <2> QED BY <2>2, <2>3
<1> HIDE DEF e, r
<1>4. c \in Context /\ "active" \in ContextState
  BY <1>1 DEF Databases, ContextState
<1> HIDE DEF c
<1>5. /\ one \in Context /\ one.inflight = c.inflight /\ one.queued = c.queued
      /\ one.last_mid = c.last_mid
  BY <1>4, SessionChanges DEF Context
<1> HIDE DEF one
<1>6. /\ two \in Context /\ two.inflight = c.inflight /\ two.queued = c.queued
      /\ two.last_mid = c.last_mid
  BY <1>5, SessionChanges DEF Context
<1> HIDE DEF two
<1>7. active \in Databases(n) /\ active.ctx[s] = two
  BY <1>1, <1>6, ContextReplaced
<1> HIDE DEF active
<1>8. moved \in Databases(n) /\ NoMoreIds(active.ctx[s], moved.ctx[s])
  BY <1>7, QueueWritten, QueueWrittenIds
<1> HIDE DEF moved
<1>9. r \in Databases(n) /\ NoMoreIds(moved.ctx[s], r.ctx[s])
  BY <1>3, <1>8, WrittenIds, ConnectedType DEF db__message_write_inflight_out_all, r
<1>10. moved.ctx[s] \in Context /\ r.ctx[s] \in Context
  BY <1>8, <1>9 DEF Databases
<1>11. NoMoreIds(c, two)
  BY <1>4, <1>6, SameIds
<1>12. Distinct(two)
  BY <1>2, <1>4, <1>6, <1>11, NoMoreDistinct DEF c
<1>13. Distinct(moved.ctx[s])
  BY <1>6, <1>7, <1>8, <1>10, <1>12, NoMoreDistinct
<1>14. Distinct(r.ctx[s])
  BY <1>9, <1>10, <1>13, NoMoreDistinct
<1>15. \A q \in Slot \ {s} : Distinct(r.ctx[q])
  BY <1>1, <1>2
<1> QED BY <1>14, <1>15 DEF r

-----------------------------------------------------------------------------
(* The identifiers of every context *)

MidsInv == \A s \in Slot : Distinct(db.ctx[s])

\* No context has come to the end of the identifiers.
MidsLeft == \A s \in Slot : MidLeft(db.ctx[s])

LEMMA MidsInit == BrokerInit => MidsInv
<1> SUFFICES ASSUME BrokerInit, NEW s \in Slot PROVE Distinct(db.ctx[s])
  BY DEF MidsInv
<1>1. db.ctx[s].inflight = <<>> /\ db.ctx[s].queued = <<>>
  BY DEF BrokerInit, NewContext
<1> QED BY <1>1, EmptyDistinct

LEMMA MidsKept ==
    ASSUME TypeInv, TypeInv', MidsLeft, MidsInv,
           \A s \in Slot : MaybeNewId(db.ctx[s], db'.ctx[s])
    PROVE  MidsInv'
<1> SUFFICES ASSUME NEW s \in Slot PROVE Distinct(db'.ctx[s])
  BY DEF MidsInv
<1>1. db.ctx[s] \in Context /\ db'.ctx[s] \in Context
  BY DEF TypeInv, Databases
<1> QED BY <1>1, NextIdIsNew DEF MidsInv, MidsLeft

\* Only context s has changed.
LEMMA OneChanged ==
    ASSUME NEW n, NEW d \in Databases(n), NEW e, NEW s \in Slot,
           \A r \in Slot \ {s} : e.ctx[r] = d.ctx[r], MaybeNewId(d.ctx[s], e.ctx[s])
    PROVE  \A r \in Slot : MaybeNewId(d.ctx[r], e.ctx[r])
<1>1. \A r \in Slot : NoMoreIds(d.ctx[r], d.ctx[r])
  BY SameIds DEF Databases
<1> QED BY <1>1 DEF MaybeNewId

LEMMA ListIds ==
    ASSUME NEW n, NEW d \in Databases(n), NEW s \in Slot, NEW x, NEW e \in Databases(n),
           \/ e.ctx = d.ctx
           \/ e.ctx = [d.ctx EXCEPT ![s] = [d.ctx[s] EXCEPT !.subs = x]]
    PROVE  \A r \in Slot : NoMoreIds(d.ctx[r], e.ctx[r])
<1> SUFFICES ASSUME NEW r \in Slot PROVE NoMoreIds(d.ctx[r], e.ctx[r])
  OBVIOUS
<1>1. d.ctx \in [Slot -> Context] /\ d.ctx[r] \in Context /\ e.ctx[r] \in Context
  BY DEF Databases
<1>2. /\ e.ctx[r].inflight = d.ctx[r].inflight /\ e.ctx[r].queued = d.ctx[r].queued
      /\ e.ctx[r].last_mid = d.ctx[r].last_mid
  <2>1. CASE e.ctx = d.ctx
    BY <2>1
  <2>2. CASE /\ e.ctx = [d.ctx EXCEPT ![s] = [d.ctx[s] EXCEPT !.subs = x]]
             /\ r # s
    <3>1. e.ctx[r] = d.ctx[r]
      BY <1>1, <2>2
    <3> QED BY <3>1
  <2>3. CASE /\ e.ctx = [d.ctx EXCEPT ![s] = [d.ctx[s] EXCEPT !.subs = x]]
             /\ r = s
    <3> DEFINE c == d.ctx[r]
               f == e.ctx[r]
    <3>1. f = [c EXCEPT !.subs = x] /\ c \in Context
      BY <1>1, <2>3
    <3> HIDE DEF c, f
    <3>2. f.inflight = c.inflight /\ f.queued = c.queued /\ f.last_mid = c.last_mid
      BY <3>1 DEF Context
    <3> QED BY <3>2 DEF c, f
  <2> QED BY <2>1, <2>2, <2>3
<1> QED BY <1>1, <1>2, SameIds

LEMMA PublishIds ==
    ASSUME TypeInv, SessionInv, NEW t \in Topic, handle__publish(t)
    PROVE  \A s \in Slot : MaybeNewId(db.ctx[s], db'.ctx[s])
<1> DEFINE n == Len(published) + 1
           stored == db__message_store(db, n)
<1>1. Len(published) < MaxPublish /\ db' = sub__messages_queue(stored, t, n)
  BY DEF handle__publish
<1>2. Len(published) \in Nat
  BY LenProperties DEF TypeInv
<1>3. n \in Nat /\ n <= MaxPublish /\ n \in 1..n
  BY <1>1, <1>2, BrokerAssumption
<1>4. /\ stored \in Databases(n) /\ stored.ctx = db.ctx /\ stored.leaves = db.leaves
      /\ IsFiniteSet(stored.leaves)
  BY <1>2, StoreType DEF TypeInv
<1> HIDE DEF n, stored
<1>5. Listed(stored) /\ Named(stored)
  BY <1>4 DEF SessionInv, Listed, Named
<1> QED BY <1>1, <1>3, <1>4, <1>5, QueuedIds

LEMMA ConnectIds ==
    ASSUME TypeInv, QuotaInv, MidsInv, NEW n \in Node, NEW clean \in BOOLEAN,
           handle__connect(n, clean)
    PROVE  MidsInv'
<1> DEFINE s == Min(FreeSlots)
           d == [db EXCEPT !.ctx[s].clean = clean]
           p == Len(published)
<1>1. /\ s \in Slot /\ db.ctx[s].state = "free"
      /\ d \in Databases(p) /\ db \in Databases(p)
      /\ \A r \in Slot \ {s} : d.ctx[r] = db.ctx[r]
      /\ db' = connect__on_authorised(d, s, n)
  BY ConnectType DEF FreeSlots, TypeInv
<1> HIDE DEF s, p
<1>2. Blank(d.ctx[s])
  <2>1. Blank(db.ctx[s])
    BY <1>1 DEF QuotaInv, Sound, Blank
  <2>2. d.ctx[s] = [db.ctx[s] EXCEPT !.clean = clean] /\ db.ctx[s] \in Context
    BY <1>1 DEF Databases
  <2> HIDE DEF d
  <2> QED BY <2>1, <2>2 DEF Blank, Context
<1> HIDE DEF d
<1>3. Distinct(d.ctx[s])
  BY <1>2, EmptyDistinct DEF Blank
<1>4. \A r \in Slot : Distinct(d.ctx[r])
  BY <1>1, <1>3 DEF MidsInv
<1>5. \A r \in Slot : Distinct(db'.ctx[r])
  BY <1>1, <1>2, <1>4, ConnectedIds
<1> QED BY <1>5 DEF MidsInv

LEMMA SubscribeIds ==
    ASSUME TypeInv, NEW n \in Node, NEW t \in Topic,
           NEW taken \in BOOLEAN, handle__subscribe(n, t, taken)
    PROVE  \A r \in Slot : MaybeNewId(db.ctx[r], db'.ctx[r])
<1> DEFINE s == link[n]
           p == Len(published)
           d == sub__add(db, s, t, sub_qos[n])
           e == retain__process(d, s, t, sub_qos[n])
           moved == [e EXCEPT !.ctx[s] = db__message_write_queued_out(@)]
           latest == db__message_write_inflight_out_latest(moved, s)
<1>1. /\ db \in Databases(p) /\ p \in Nat /\ p <= MaxPublish
      /\ s \in Slot /\ sub_qos[n] \in {0, 1} /\ d \in Databases(p)
  BY SubscribeType, LenProperties DEF TypeInv
<1>2. db' = e \/ db' = latest
  BY DEF handle__subscribe
<1> HIDE DEF s, p
<1>3. \A r \in Slot : NoMoreIds(db.ctx[r], d.ctx[r])
  <2>1. \/ d.ctx = db.ctx
        \/ d.ctx = [db.ctx EXCEPT ![s] = [db.ctx[s] EXCEPT !.subs = db.ctx[s].subs \cup {t}]]
    <3> DEFINE same == {leaf \in db.leaves : /\ leaf.topic = t
                                             /\ db.ctx[leaf.slot].id = db.ctx[s].id}
               other == (db.leaves \ same) \cup {[leaf EXCEPT !.qos = sub_qos[n]] : leaf \in same}
               more == db.leaves \cup {[topic |-> t, slot |-> s, qos |-> sub_qos[n]]}
    <3>1. d = IF same # {} THEN [db EXCEPT !.leaves = other]
              ELSE [db EXCEPT !.leaves = more, !.ctx[s].subs = @ \cup {t}]
      BY DEF sub__add
    <3> HIDE DEF d, same, other, more
    <3> QED BY <1>1, <3>1 DEF Databases
  <2> HIDE DEF d
  <2> QED BY <1>1, <2>1, ListIds
<1> HIDE DEF d
<1>4. e \in Databases(p) /\ OnlyMessages(d, e, s) /\ MaybeNewId(d.ctx[s], e.ctx[s])
  BY <1>1, CopyType, CopyIds
<1> HIDE DEF e
<1>5. moved \in Databases(p) /\ OnlyMessages(e, moved, s) /\ NoMoreIds(e.ctx[s], moved.ctx[s])
  BY <1>1, <1>4, QueueWritten, QueueWrittenIds
<1> HIDE DEF moved
<1>6. /\ latest \in Databases(p) /\ OnlyMessages(moved, latest, s)
      /\ NoMoreIds(moved.ctx[s], latest.ctx[s])
  BY <1>1, <1>5, LatestWritten, LatestIds
<1> HIDE DEF latest
<1>7. /\ d.ctx[s] \in Context /\ e.ctx[s] \in Context /\ moved.ctx[s] \in Context
      /\ latest.ctx[s] \in Context
      /\ \A r \in Slot : db.ctx[r] \in Context /\ d.ctx[r] \in Context
  BY <1>1, <1>4, <1>5, <1>6 DEF Databases
<1>8. MaybeNewId(d.ctx[s], moved.ctx[s])
  BY <1>4, <1>5, <1>7, IdsTransitive
<1>9. MaybeNewId(d.ctx[s], latest.ctx[s])
  BY <1>6, <1>7, <1>8, IdsTransitive
<1>10. MaybeNewId(d.ctx[s], db'.ctx[s])
  BY <1>2, <1>4, <1>9
<1>11. \A r \in Slot \ {s} : db'.ctx[r] = d.ctx[r]
  BY <1>2, <1>4, <1>5, <1>6 DEF OnlyMessages
<1>12. db'.ctx[s] \in Context
  BY <1>2, <1>7
<1>13. MaybeNewId(db.ctx[s], db'.ctx[s])
  BY <1>1, <1>3, <1>7, <1>10, <1>12, IdsTransitive
<1>14. \A r \in Slot : NoMoreIds(db.ctx[r], d.ctx[r])
  BY <1>3
<1> QED BY <1>1, <1>11, <1>13, <1>14 DEF MaybeNewId

LEMMA UnsubscribeIds ==
    ASSUME TypeInv, TypeInv', NEW n \in Node, NEW t \in Topic, handle__unsubscribe(n, t)
    PROVE  \A r \in Slot : MaybeNewId(db.ctx[r], db'.ctx[r])
<1> DEFINE p == Len(published)
           x == db.ctx[link[n]].subs \ {t}
<1>1. /\ link[n] \in Slot /\ db' = sub__remove(db, link[n], t)
      /\ db \in Databases(p) /\ published' = published
  BY UnsubscribeType DEF handle__unsubscribe, TypeInv
<1>2. db' \in Databases(p)
  BY <1>1 DEF TypeInv
<1>3. db'.ctx = [db.ctx EXCEPT ![link[n]] = [db.ctx[link[n]] EXCEPT !.subs = x]]
  BY <1>1 DEF sub__remove, Databases
<1> DEFINE s == link[n]
           e == db'
<1>4. s \in Slot /\ e \in Databases(p) /\ db \in Databases(p)
  BY <1>1, <1>2
<1>5. e.ctx = [db.ctx EXCEPT ![s] = [db.ctx[s] EXCEPT !.subs = x]]
  BY <1>3
<1> HIDE DEF p, x, s, e
<1>6. \A r \in Slot : NoMoreIds(db.ctx[r], e.ctx[r])
  BY <1>4, <1>5, ListIds
<1> QED BY <1>6 DEF MaybeNewId, e

LEMMA EndIds ==
    ASSUME TypeInv, NEW s \in Slot, db' = do_disconnect(db, s)
    PROVE  \A r \in Slot : MaybeNewId(db.ctx[r], db'.ctx[r])
<1>1. db \in Databases(Len(published))
  BY DEF TypeInv
<1>2. /\ \A r \in Slot \ {s} : db'.ctx[r] = db.ctx[r]
      /\ MaybeNewId(db.ctx[s], db'.ctx[s])
  BY <1>1, DisconnectType, DisconnectIds DEF MaybeNewId
<1> QED BY <1>1, <1>2, OneChanged

LEMMA PubackIds ==
    ASSUME TypeInv, NEW s \in Slot, handle__pubackcomp(s)
    PROVE  \A r \in Slot : MaybeNewId(db.ctx[r], db'.ctx[r])
<1> DEFINE c == db.ctx[s]
           quota == IF c.quota < InflightMax THEN c.quota + 1 ELSE c.quota
           d == [db EXCEPT !.ctx[s].quota = quota]
           f == [c EXCEPT !.quota = quota]
           p == Len(published)
<1>1. /\ db \in Databases(p) /\ c \in Context
      /\ db' = db__message_delete_outgoing(d, s, Head(acks[s]))
      /\ OnlyMessages(db, db', s)
  BY PubackType DEF TypeInv, Databases, handle__pubackcomp
<1>2. quota \in 0..InflightMax
  <2>1. c.quota \in 0..InflightMax
    BY <1>1 DEF Context
  <2> QED BY <2>1, BrokerAssumption
<1>3. d = [db EXCEPT !.ctx[s] = f]
  BY <1>1 DEF Databases
<1> HIDE DEF quota, c, p
<1>4. /\ f \in Context /\ f.inflight = c.inflight /\ f.queued = c.queued
      /\ f.last_mid = c.last_mid
  BY <1>1, <1>2, ContextChanges DEF Context
<1> HIDE DEF d, f
<1>5. d \in Databases(p) /\ d.ctx[s] = f
  BY <1>1, <1>3, <1>4, ContextReplaced
<1>6. NoMoreIds(c, f)
  BY <1>1, <1>4, SameIds
<1>7. NoMoreIds(f, db'.ctx[s])
  BY <1>1, <1>5, DeletedIds
<1>8. db'.ctx[s] \in Context
  BY <1>1, <1>5, DeletedType DEF Databases
<1>9. NoMoreIds(c, db'.ctx[s])
  BY <1>1, <1>4, <1>6, <1>7, <1>8, IdsTransitive
<1>10. \A r \in Slot \ {s} : db'.ctx[r] = db.ctx[r]
  BY <1>1 DEF OnlyMessages
<1> QED BY <1>1, <1>9, <1>10, OneChanged DEF MaybeNewId, c

\* What is freed is as new; the rest is as before.
FreedOnly(d, e, D) ==
    /\ e.retained = d.retained /\ e.leaves \subseteq d.leaves
    /\ \A r \in Slot : e.ctx[r] = d.ctx[r] \/ (r \in D /\ e.ctx[r] = NewContext)

LEMMA FreedDoes ==
    ASSUME TypeInv, context__free_disused
    PROVE  FreedOnly(db, db', Disused)
<1> DEFINE p == Len(published)
           S == {e \in Databases(p) : FreedOnly(db, e, Disused)}
<1>1. db' = Freed(db, Disused) /\ db \in Databases(p)
  BY FreedType DEF TypeInv
<1>2. db \in S
  BY <1>1 DEF FreedOnly
<1>3. \A e \in S : \A s \in Slot \cap Disused : context__cleanup(e, s) \in S
  <2> SUFFICES ASSUME NEW e \in S, NEW s \in Slot \cap Disused
               PROVE  context__cleanup(e, s) \in S
    OBVIOUS
  <2> DEFINE f == context__cleanup(e, s)
             g == [sub__clean_session(e, s) EXCEPT !.ctx[s] = NewContext]
             list == e.ctx[s].inflight \o e.ctx[s].queued
  <2>1. s \in Slot /\ s \in Disused /\ e \in Databases(p) /\ FreedOnly(db, e, Disused)
    OBVIOUS
  <2>2. /\ f \in Databases(p) /\ f.ctx[s] = NewContext
        /\ f.leaves = Cleaned(e.leaves, e.ctx[s].subs, s)
        /\ \A r \in Slot \ {s} : f.ctx[r] = e.ctx[r]
    BY <2>1, CleanupType
  <2>3. sub__clean_session(e, s).retained = e.retained
    BY <2>1 DEF sub__clean_session, Databases
  <2>4. g \in Databases(p) /\ g.retained = sub__clean_session(e, s).retained
    BY <2>1, CleanType, NewContextType, ContextReplaced
  <2>5. list \in Seq(Item)
    BY <2>1, ConcatProperties DEF Databases, Context
  <2>6. f = Released(g, list)
    BY DEF context__cleanup
  <2> HIDE DEF f, g, list
  <2>7. f.retained = g.retained
    BY <2>4, <2>5, <2>6, ReleasedType
  <2>8. f.leaves \subseteq e.leaves
    BY <2>2 DEF Cleaned
  <2>9. FreedOnly(db, f, Disused)
    BY <2>1, <2>2, <2>3, <2>4, <2>7, <2>8 DEF FreedOnly
  <2> QED BY <2>2, <2>9 DEF f
<1>4. db' \in S
  <2> HIDE DEF S
  <2> QED BY <1>1, <1>2, <1>3, FreedInside
<1> QED BY <1>4

LEMMA FreedIds ==
    ASSUME TypeInv, MidsInv, context__free_disused
    PROVE  MidsInv'
<1>1. \A r \in Slot : db'.ctx[r] = db.ctx[r] \/ db'.ctx[r] = NewContext
  BY FreedDoes DEF FreedOnly
<1>2. Distinct(NewContext)
  BY EmptyDistinct DEF NewContext
<1> QED BY <1>1, <1>2 DEF MidsInv

LEMMA ReceivesIds ==
    ASSUME TypeInv, TypeInv', NEW n \in Node, NodeReceives(n)
    PROVE  \A r \in Slot : MaybeNewId(db.ctx[r], db'.ctx[r])
<1> DEFINE s == link[n]
<1>1. s \in Slot /\ OnlyMessages(db, db', s)
  BY ReceivesType
<1>2. db' = [db EXCEPT !.ctx[s].out = Tail(@)]
  BY DEF NodeReceives
<1>3. db \in Databases(Len(published)) /\ db' \in Databases(Len(published'))
  BY DEF TypeInv
<1> HIDE DEF s
<1>4. db.ctx[s] \in Context /\ db'.ctx[s] \in Context
  BY <1>1, <1>3 DEF Databases
<1>5. /\ db'.ctx[s].inflight = db.ctx[s].inflight /\ db'.ctx[s].queued = db.ctx[s].queued
      /\ db'.ctx[s].last_mid = db.ctx[s].last_mid
  BY <1>1, <1>2, <1>3, <1>4 DEF Databases, Context
<1>6. MaybeNewId(db.ctx[s], db'.ctx[s])
  BY <1>4, <1>5, SameIds DEF MaybeNewId
<1>7. \A r \in Slot \ {s} : db'.ctx[r] = db.ctx[r]
  BY <1>1 DEF OnlyMessages
<1> QED BY <1>1, <1>3, <1>6, <1>7, OneChanged

LEMMA MidsStep ==
    ASSUME TypeInv, TypeInv', SessionInv, QuotaInv, MidsLeft, MidsInv, [BrokerNext]_vars
    PROVE  MidsInv'
<1>1. CASE context__free_disused
  BY <1>1, FreedIds
<1>2. CASE \E t \in Topic : handle__publish(t)
  BY <1>2, PublishIds, MidsKept
<1>3. CASE \E s \in Slot : handle__pubackcomp(s)
  BY <1>3, PubackIds, MidsKept
<1>4. CASE \E s \in Slot : keepalive__check(s)
  BY <1>4, EndIds, MidsKept DEF keepalive__check
<1>5. CASE \E n \in Node, clean \in BOOLEAN : handle__connect(n, clean)
  BY <1>5, ConnectIds
<1>6. CASE \E n \in Node, t \in Topic, taken \in BOOLEAN : handle__subscribe(n, t, taken)
  BY <1>6, SubscribeIds, MidsKept
<1>7. CASE \E n \in Node, t \in Topic : handle__unsubscribe(n, t)
  BY <1>7, UnsubscribeIds, MidsKept
<1>8. CASE \E n \in Node : handle__disconnect(n)
  <2>1. PICK n \in Node : handle__disconnect(n)
    BY <1>8
  <2>2. link[n] \in Slot /\ db' = do_disconnect(db, link[n])
    BY <2>1, DisconnectedType
  <2> QED BY <2>2, EndIds, MidsKept
<1>9. CASE \E n \in Node : NodeReceives(n)
  BY <1>9, ReceivesIds, MidsKept
<1>10. CASE UNCHANGED vars \/ \E n \in Node : LinkLost(n)
  <2>1. db' = db
    BY <1>10 DEF vars, LinkLost
  <2> QED BY <2>1 DEF MidsInv
<1> QED BY <1>1, <1>2, <1>3, <1>4, <1>5, <1>6, <1>7, <1>8, <1>9, <1>10 DEF BrokerNext

\* Two places of a list whose elements are in P
LEMMA CountTwo ==
    ASSUME NEW S, NEW q \in Seq(S), NEW P, NEW i \in DOMAIN q, NEW j \in DOMAIN q,
           i # j, q[i] \in P, q[j] \in P
    PROVE  Count(q, P) >= 2
<1>1. IsFiniteSet(Places(q, P)) /\ {i, j} \subseteq Places(q, P)
  BY CountType DEF Places
<1>2. Cardinality({i, j}) = 2
  <2> DEFINE one == {i}
  <2>1. IsFiniteSet(one) /\ Cardinality(one) = 1
    BY FS_Singleton
  <2>2. j \notin one
    OBVIOUS
  <2>3. {i, j} = one \cup {j}
    OBVIOUS
  <2> HIDE DEF one
  <2>4. Cardinality(one \cup {j}) = Cardinality(one) + 1
    BY <2>1, <2>2, FS_AddElement
  <2>5. Cardinality(one \cup {j}) = 2
    BY <2>1, <2>4
  <2> QED BY <2>3, <2>5
<1>3. Cardinality({i, j}) <= Cardinality(Places(q, P))
  BY <1>1, FS_Subset
<1> QED BY <1>2, <1>3 DEF Count

LEMMA MidsDiffer ==
    ASSUME TypeInv, QuotaInv, MidsInv
    PROVE  MidsAreDistinct
<1> SUFFICES ASSUME NEW s \in Slot, NEW i \in DOMAIN Pending(s), NEW j \in DOMAIN Pending(s),
                    i # j, Pending(s)[i].qos > 0, Pending(s)[j].qos > 0,
                    Pending(s)[i].mid = Pending(s)[j].mid
             PROVE  FALSE
  BY DEF MidsAreDistinct
<1> DEFINE c == db.ctx[s]
           q == Pending(s)
           m == q[i].mid
<1>1. c \in Context /\ Orderly(c)
  BY DEF TypeInv, Databases, QuotaInv, Sound
<1>2. /\ c.inflight \in Seq(Numbered) /\ c.queued \in Seq(Numbered)
      /\ q = c.inflight \o c.queued
  BY <1>1 DEF Orderly, Pending
<1> HIDE DEF c, q
<1>3. q \in Seq(Numbered) /\ q[i] \in Numbered /\ q[j] \in Numbered
  <2>1. q \in Seq(Numbered) /\ DOMAIN q = 1..Len(q)
    BY <1>2, ConcatProperties, LenProperties
  <2> QED BY <2>1, ElementOfSeq DEF q
<1>4. q[i] \in Sent(m) /\ q[j] \in Sent(m) /\ m \in MidUsed
  <2>1. q[i] \in Item /\ q[j] \in Item /\ m # 0 /\ q[i].qos > 0 /\ q[j].qos > 0 /\ q[j].mid = m
    BY <1>3 DEF Numbered, q
  <2>2. m \in Mid
    BY <2>1 DEF Item
  <2> QED BY <2>1, <2>2 DEF Sent, MidUsed
<1> HIDE DEF m
<1>5. Count(q, Sent(m)) >= 2
  BY <1>3, <1>4, CountTwo DEF q
<1>6. Count(q, Sent(m)) = Ids(c, m)
  BY <1>2, CountConcat DEF Ids
<1>7. Ids(c, m) <= 1 /\ Ids(c, m) \in Nat
  BY <1>1, <1>4, IdsType DEF MidsInv, Distinct, c
<1> QED BY <1>5, <1>6, <1>7

(* Two QoS 1 messages of a client that are not yet acknowledged never share a
   packet identifier, in flight, queued or sent again by a new context that
   carries on an old session, as long as no context has come to the last of
   the 65535 identifiers: there they start again, whoever still waits.  Says
   so of mosquitto__mid_generate of lib/util_mosq.c and of the last_mid that
   connect__on_authorised of src/handle_connect.c hands on. *)
THEOREM MidsDistinctUntilUsedUp == BrokerSpec /\ []MidsLeft => []MidsAreDistinct
<1>1. TypeInv /\ QuotaInv /\ MidsInv => MidsAreDistinct
  BY MidsDiffer
<1>2. BrokerInit => TypeInv /\ SessionInv /\ QuotaInv /\ MidsInv
  BY TypeInit, SessionInit, QuotaInit, MidsInit
<1>3. TypeInv /\ SessionInv /\ QuotaInv /\ MidsInv /\ MidsLeft /\ [BrokerNext]_vars
        => TypeInv' /\ SessionInv' /\ QuotaInv' /\ MidsInv'
  BY TypeStep, SessionStep, QuotaStep, MidsStep
<1> QED BY <1>1, <1>2, <1>3, PTL DEF BrokerSpec
================================================================================
