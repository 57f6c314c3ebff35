-------------------------- MODULE ActuatorLinkProofs ---------------------------
(***************************************************************************)
(* With a single publisher, publish_state and everything behind it take    *)
(* only steps that SettingLink allows, for every set of settings and every *)
(* bound of the outbox.  When publications are dropped or refused and the  *)
(* center restarts, last_* stays with the settings, and the nodes differ   *)
(* from them only where a message was lost.                                *)
(***************************************************************************)
EXTENDS ActuatorLinkRefinement, ActuatorFaults, ActuatorPublishProofs

-----------------------------------------------------------------------------
(* What is pending *)

LEMMA PendingAtType ==
    ASSUME NEW q \in Progress, NEW l \in Setting, NEW k \in 1..4
    PROVE  PendingAt(q, l, k) \in Seq(OutboxMessage)
<1> DEFINE x == TopicOrder[k]
           m == MessageOf(x, q.snap[x])
<1>1. x \in Topic
  BY TopicOrderFacts
<1>2. m \in OutboxMessage
  BY <1>1 DEF MessageOf, OutboxMessage, Payload
<1>3. CASE q.stage \in {"compare", "send"} /\ q.k <= k /\ q.snap[x] # l[x]
  <2>1. PendingAt(q, l, k) = <<m>>
    BY <1>3 DEF PendingAt
  <2> HIDE DEF m
  <2> QED BY <1>2, <2>1
<1>4. CASE ~(q.stage \in {"compare", "send"} /\ q.k <= k /\ q.snap[x] # l[x])
  <2>1. PendingAt(q, l, k) = <<>>
    BY <1>4 DEF PendingAt
  <2> QED BY <2>1, EmptySeq
<1> QED BY <1>3, <1>4

LEMMA PendingType ==
    ASSUME NEW q \in Progress, NEW l \in Setting
    PROVE  Pending(q, l) \in Seq(OutboxMessage)
<1>1. \A k \in 1..4 : PendingAt(q, l, k) \in Seq(OutboxMessage)
  BY PendingAtType
<1> QED BY <1>1, ConcatProperties DEF Pending

\* A task that compares nothing any more has nothing pending.
LEMMA NothingPending ==
    ASSUME NEW q, NEW l, q.stage \notin {"compare", "send"}
    PROVE  Pending(q, l) = <<>>
<1>1. \A k \in 1..4 : PendingAt(q, l, k) = <<>>
  BY DEF PendingAt
<1>2. <<>> \o <<>> = <<>>
  BY EmptySeq, ConcatEmptySeq
<1> QED BY <1>1, <1>2 DEF Pending

\* Of what is pending, the topic a task is at comes first; the rest is what
\* is pending after it.
LEMMA PendingFirst ==
    ASSUME NEW q \in Progress, NEW l \in Setting, q.k # 0, q.stage \in {"compare", "send"}
    PROVE  Pending(q, l) = PendingAt(q, l, q.k) \o Pending(AfterTopic(q), l)
<1> DEFINE r == AfterTopic(q)
<1>1. r \in Progress /\ q.k \in 1..4
  BY AfterTopicType, TopicOrderFacts DEF Progress
<1>2. \A j \in 1..4 : /\ PendingAt(q, l, j) \in Seq(OutboxMessage)
                      /\ PendingAt(r, l, j) \in Seq(OutboxMessage)
  BY <1>1, PendingAtType
<1>3. \A j \in 1..4 : j <= q.k => PendingAt(r, l, j) = <<>>
  <2>1. r.stage = "record" \/ r.k = q.k + 1
    BY <1>1, TopicOrderFacts DEF AfterTopic
  <2> QED BY <1>1, <2>1 DEF PendingAt
<1>4. \A j \in 1..4 : j > q.k => PendingAt(r, l, j) = PendingAt(q, l, j)
  <2>1. CASE q.k < 4
    <3>1. r.stage = "compare" /\ r.k = q.k + 1 /\ r.snap = q.snap
      BY <2>1, TopicOrderFacts DEF AfterTopic
    <3> QED BY <1>1, <3>1 DEF PendingAt
  <2>2. CASE q.k = 4
    BY <2>2
  <2> QED BY <1>1, <2>1, <2>2
<1>5. \A j \in 1..4 : j < q.k => PendingAt(q, l, j) = <<>>
  BY <1>1 DEF PendingAt
<1> DEFINE Q(j) == PendingAt(q, l, j)
           R(j) == PendingAt(r, l, j)
           three == Q(3) \o Q(4)
           two == Q(2) \o three
<1>6. Q(4) \in Seq(OutboxMessage) /\ three \in Seq(OutboxMessage)
      /\ two \in Seq(OutboxMessage)
  BY <1>2, ConcatProperties
<1>7. /\ <<>> \o Q(4) = Q(4) /\ Q(4) \o <<>> = Q(4) /\ <<>> \o <<>> = <<>>
      /\ <<>> \o three = three /\ <<>> \o two = two
  BY <1>6, ConcatEmptySeq, EmptySeq
<1>8. /\ Pending(q, l) = Q(1) \o (Q(2) \o (Q(3) \o Q(4)))
      /\ Pending(r, l) = R(1) \o (R(2) \o (R(3) \o R(4)))
  BY DEF Pending
<1> SUFFICES Pending(q, l) = Q(q.k) \o Pending(r, l)
  OBVIOUS
<1>9. CASE q.k = 1
  <2>1. R(1) = <<>> /\ R(2) = Q(2) /\ R(3) = Q(3) /\ R(4) = Q(4)
    BY <1>3, <1>4, <1>9
  <2> HIDE DEF Q, R
  <2> QED BY <1>7, <1>8, <1>9, <2>1, Zenon
<1>10. CASE q.k = 2
  <2>1. R(1) = <<>> /\ R(2) = <<>> /\ R(3) = Q(3) /\ R(4) = Q(4)
    BY <1>3, <1>4, <1>10
  <2>2. Q(1) = <<>>
    BY <1>5, <1>10
  <2> HIDE DEF Q, R
  <2> QED BY <1>7, <1>8, <1>10, <2>1, <2>2, Zenon
<1>11. CASE q.k = 3
  <2>1. R(1) = <<>> /\ R(2) = <<>> /\ R(3) = <<>> /\ R(4) = Q(4)
    BY <1>3, <1>4, <1>11
  <2>2. Q(1) = <<>> /\ Q(2) = <<>>
    BY <1>5, <1>11
  <2> HIDE DEF Q, R
  <2> QED BY <1>7, <1>8, <1>11, <2>1, <2>2, Zenon
<1>12. CASE q.k = 4
  <2>1. R(1) = <<>> /\ R(2) = <<>> /\ R(3) = <<>> /\ R(4) = <<>>
    BY <1>3, <1>12
  <2>2. Q(1) = <<>> /\ Q(2) = <<>> /\ Q(3) = <<>>
    BY <1>5, <1>12
  <2> HIDE DEF Q, R
  <2> QED BY <1>7, <1>8, <1>12, <2>1, <2>2, Zenon
<1> QED BY <1>1, <1>9, <1>10, <1>11, <1>12

\* A decision makes pending what SettingLink says is due.
LEMMA DecisionPending ==
    ASSUME NEW s \in Setting, NEW l \in Setting
    PROVE  Pending([stage |-> "compare", k |-> 1, snap |-> s], l) = Promise!Changes(l, s)
<1> DEFINE q == [stage |-> "compare", k |-> 1, snap |-> s]
<1>1. \A k \in 1..4 : PendingAt(q, l, k) = Promise!Due(l, s, TopicOrder[k])
  BY DEF PendingAt, MessageOf, Payload, Promise!Due, Promise!Value
<1>2. /\ TopicOrder[1] = "window" /\ TopicOrder[2] = "fan"
      /\ TopicOrder[3] = "door" /\ TopicOrder[4] = "absorber"
  BY DEF TopicOrder
<1> HIDE DEF q
<1>3. /\ PendingAt(q, l, 1) = Promise!Due(l, s, "window")
      /\ PendingAt(q, l, 2) = Promise!Due(l, s, "fan")
      /\ PendingAt(q, l, 3) = Promise!Due(l, s, "door")
      /\ PendingAt(q, l, 4) = Promise!Due(l, s, "absorber")
  BY <1>1, <1>2
<1>4. Pending(q, l) = Promise!Changes(l, s)
  BY <1>3, Zenon DEF Pending, Promise!Changes
<1> QED BY <1>4 DEF q

-----------------------------------------------------------------------------
(* The steps *)

\* The tasks that are not inside publish_state owe nothing.
LEMMA OneOwes ==
    ASSUME NEW p \in Task, NEW f \in [Task -> Progress], NEW l \in Setting,
           \A t \in Task : t # p => f[t].stage = "idle"
    PROVE  Pending(f["system_task"], l) \o Pending(f["httpd"], l) = Pending(f[p], l)
<1>1. \A t \in Task : t # p => Pending(f[t], l) = <<>>
  BY NothingPending
<1>2. Pending(f[p], l) \in Seq(OutboxMessage)
  BY PendingType
<1>3. <<>> \o Pending(f[p], l) = Pending(f[p], l) /\ Pending(f[p], l) \o <<>> = Pending(f[p], l)
  BY <1>2, ConcatEmptySeq
<1>4. CASE p = "system_task"
  <2>1. Pending(f["httpd"], l) = <<>>
    BY <1>1, <1>4 DEF Task
  <2> QED BY <1>3, <1>4, <2>1, Zenon
<1>5. CASE p = "httpd"
  <2>1. Pending(f["system_task"], l) = <<>>
    BY <1>1, <1>5 DEF Task
  <2> QED BY <1>3, <1>5, <2>1, Zenon
<1> QED BY <1>4, <1>5 DEF Task

\* What p is about to send differs from what it last recorded.
SendInv(p) ==
    publish[p].stage = "send" => publish[p].snap[CurrentTopic(p)] # last[CurrentTopic(p)]

\* A task sends only after it has compared.
LEMMA SendInvStep ==
    ASSUME NEW p \in Task, Publisher = {p},
           ActuatorTypeOK, LastInv(p), SendInv(p), [ActuatorNext]_actuator_vars
    PROVE  SendInv(p)'
<1> USE DEF SendInv, CurrentTopic
<1>0. publish \in [Task -> Progress]
  BY DEF ActuatorTypeOK
<1>1. ASSUME NEW t \in Publisher, NEW s \in Decisions, Decide(t, s)
      PROVE  SendInv(p)'
  BY <1>0, <1>1 DEF Decide, StartPublish
<1>2. ASSUME NEW t \in Task, Compare(t)
      PROVE  SendInv(p)'
  <2>1. t = p /\ publish[p].k # 0 /\ last' = last
    BY <1>2 DEF Compare, ActuatorTypeOK, LastInv, Publishes, Idle
  <2>2. CASE publish[p].snap[CurrentTopic(p)] # last[CurrentTopic(p)]
    <3>1. publish'[p].snap = publish[p].snap /\ publish'[p].k = publish[p].k
      BY <1>0, <1>2, <2>1, <2>2 DEF Compare, Progress
    <3> QED BY <2>1, <2>2, <3>1
  <2>3. CASE publish[p].snap[CurrentTopic(p)] = last[CurrentTopic(p)]
    <3>1. publish'[p] = AfterTopic(publish[p])
      BY <1>0, <1>2, <2>1, <2>3 DEF Compare
    <3>2. publish'[p].stage \in {"compare", "record"}
      BY <1>0, <2>1, <3>1, AfterTopicType
    <3> QED BY <3>2
  <2> QED BY <2>2, <2>3
<1>3. ASSUME NEW t \in Task, Send(t)
      PROVE  SendInv(p)'
  <2>1. t = p /\ publish[p].k # 0
    BY <1>3 DEF Send, ActuatorTypeOK, LastInv, Publishes, Idle
  <2>2. publish'[p] = AfterTopic(publish[p])
    BY <1>0, <1>3, <2>1 DEF Send
  <2>3. publish'[p].stage \in {"compare", "record"}
    BY <1>0, <2>1, <2>2, AfterTopicType
  <2> QED BY <2>3
<1>4. ASSUME NEW t \in Task, Record(t)
      PROVE  SendInv(p)'
  <2>1. t = p /\ publish[p].stage = "record"
    BY <1>4 DEF Record, LastInv, Publishes, Idle
  <2>2. publish'[p] = AfterRecord(publish[p])
    BY <1>0, <1>4, <2>1 DEF Record
  <2>3. publish'[p].stage \in {"record", "idle"}
    BY <1>0, <2>1, <2>2 DEF AfterRecord, NotPublishing, Progress
  <2> QED BY <2>3
<1>5. CASE LinkNext \/ UNCHANGED actuator_vars
  <2>1. UNCHANGED <<last, publish>>
    BY <1>5 DEF LinkNext, BeforeConnect, Connected, Disconnected, Deliver,
                DeliverUnacknowledged, publish_vars, actuator_vars
  <2> QED BY <2>1
<1> QED BY <1>1, <1>2, <1>3, <1>4, <1>5 DEF ActuatorNext, PublishStep

\* What is at the head of a queue stays there when something is appended.
LEMMA HeadTailConcat ==
    ASSUME NEW S, NEW s \in Seq(S), s # <<>>, NEW t \in Seq(S)
    PROVE  /\ s \o t # <<>>
           /\ Head(s \o t) = Head(s)
           /\ Tail(s \o t) = Tail(s) \o t
<1>1. /\ Len(s) \in Nat /\ Len(s) # 0 /\ Len(t) \in Nat
      /\ Tail(s) \in Seq(S) /\ Len(Tail(s)) = Len(s) - 1
      /\ \A i \in 1..Len(Tail(s)) : Tail(s)[i] = s[i + 1]
      /\ Head(s) = s[1]
  BY HeadTailProperties, LenProperties, EmptySeq
<1>2. /\ s \o t \in Seq(S) /\ Len(s \o t) = Len(s) + Len(t)
      /\ \A i \in 1..(Len(s) + Len(t)) :
            (s \o t)[i] = IF i <= Len(s) THEN s[i] ELSE t[i - Len(s)]
  BY ConcatProperties
<1>3. s \o t # <<>>
  BY <1>1, <1>2, EmptySeq
<1>4. /\ Head(s \o t) = (s \o t)[1]
      /\ Tail(s \o t) \in Seq(S) /\ Len(Tail(s \o t)) = Len(s) + Len(t) - 1
      /\ \A i \in 1..(Len(s) + Len(t) - 1) : Tail(s \o t)[i] = (s \o t)[i + 1]
  BY <1>2, <1>3, HeadTailProperties
<1>5. Head(s \o t) = Head(s)
  BY <1>1, <1>2, <1>4
<1>6. /\ Tail(s) \o t \in Seq(S) /\ Len(Tail(s) \o t) = Len(s) - 1 + Len(t)
      /\ \A i \in 1..(Len(s) - 1 + Len(t)) :
            (Tail(s) \o t)[i] = IF i <= Len(s) - 1 THEN Tail(s)[i] ELSE t[i - (Len(s) - 1)]
  BY <1>1, ConcatProperties
<1>7. ASSUME NEW i \in 1..(Len(s) + Len(t) - 1)
      PROVE  Tail(s \o t)[i] = (Tail(s) \o t)[i]
  <2>1. Tail(s \o t)[i] = (s \o t)[i + 1] /\ i + 1 \in 1..(Len(s) + Len(t))
    BY <1>1, <1>4
  <2>2. CASE i <= Len(s) - 1
    BY <1>1, <1>2, <1>6, <2>1, <2>2
  <2>3. CASE i > Len(s) - 1
    <3>1. (s \o t)[i + 1] = t[(i + 1) - Len(s)]
      BY <1>1, <1>2, <2>1, <2>3
    <3>2. (Tail(s) \o t)[i] = t[i - (Len(s) - 1)]
      BY <1>1, <1>6, <2>3
    <3>3. (i + 1) - Len(s) = i - (Len(s) - 1)
      BY <1>1
    <3> QED BY <2>1, <3>1, <3>2, <3>3
  <2> QED BY <1>1, <2>2, <2>3
<1>8. Tail(s \o t) = Tail(s) \o t
  BY <1>1, <1>4, <1>6, <1>7, SeqEqual
<1> QED BY <1>3, <1>5, <1>8

\* Each step of the code is a step of SettingLink or changes nothing it sees.
LEMMA LinkSimulates ==
    ASSUME NEW p \in Task, Publisher = {p}, AwaitConnected,
           ActuatorTypeOK, LastInv(p), LinkInv(p), SendInv(p),
           ActuatorTypeOK', LastInv(p)', [ActuatorNext]_actuator_vars
    PROVE  [Promise!SettingLinkNext]_(Promise!setting_link_vars)
<1> DEFINE q == publish[p]
           P == Pending(q, last)
<1>1. /\ publish \in [Task -> Progress] /\ last \in Setting /\ act \in Setting
      /\ outbox \in Seq(OutboxMessage) /\ q \in Progress
      /\ publish' \in [Task -> Progress] /\ last' \in Setting
      /\ outbox' \in Seq(OutboxMessage)
  BY DEF ActuatorTypeOK
<1>2. Owed = outbox \o P
  BY <1>1, OneOwes DEF Owed, LastInv, Publishes, Idle
<1>3. Owed' = outbox' \o Pending(publish'[p], last')
  BY <1>1, OneOwes DEF Owed, LastInv, Publishes, Idle
<1>4. P \in Seq(OutboxMessage)
  BY <1>1, PendingType
<1> DEFINE Stutter == act' = act /\ Owed' = Owed /\ told' = told
<1>5. Stutter => UNCHANGED Promise!setting_link_vars
  BY DEF Promise!setting_link_vars
<1>6. ASSUME NEW t \in Publisher, NEW s \in Decisions, Decide(t, s)
      PROVE  Promise!SettingLinkNext
  <2>1. /\ t = p /\ q.stage = "idle" /\ last = act /\ s \in Setting
        /\ act' = s /\ outbox' = outbox /\ told' = told /\ last' = last
    BY <1>6, PublishAssumption DEF Decide, Idle, LastInv, Publishes, link_vars, Setting
  <2>2. publish'[p] = [stage |-> "compare", k |-> 1, snap |-> s]
    BY <1>1, <1>6, <2>1 DEF Decide, StartPublish
  <2>3. Pending(publish'[p], last') = Promise!Changes(act, s)
    BY <1>1, <2>1, <2>2, DecisionPending
  <2>4. Owed = outbox
    <3>1. P = <<>>
      BY <2>1, NothingPending
    <3> QED BY <1>1, <1>2, <3>1, ConcatEmptySeq
  <2>5. Promise!DecideOn(s)
    BY <1>3, <2>1, <2>3, <2>4 DEF Promise!DecideOn
  <2> QED BY <2>5 DEF Promise!SettingLinkNext
<1>7. ASSUME NEW t \in Task, Compare(t)
      PROVE  Stutter
  <2>1. /\ t = p /\ q.stage = "compare" /\ q.k # 0
        /\ act' = act /\ outbox' = outbox /\ told' = told /\ last' = last
    BY <1>7 DEF Compare, ActuatorTypeOK, LastInv, Publishes, Idle, link_vars
  <2>2. CASE q.snap[CurrentTopic(p)] # last[CurrentTopic(p)]
    <3>1. publish'[p] = [q EXCEPT !.stage = "send"]
      BY <1>1, <1>7, <2>1, <2>2 DEF Compare
    <3>2. publish'[p].stage = "send" /\ publish'[p].k = q.k /\ publish'[p].snap = q.snap
      BY <1>1, <3>1 DEF Progress
    <3>3. \A k \in 1..4 : PendingAt(publish'[p], last, k) = PendingAt(q, last, k)
      BY <2>1, <3>2 DEF PendingAt
    <3>4. /\ PendingAt(publish'[p], last, 1) = PendingAt(q, last, 1)
          /\ PendingAt(publish'[p], last, 2) = PendingAt(q, last, 2)
          /\ PendingAt(publish'[p], last, 3) = PendingAt(q, last, 3)
          /\ PendingAt(publish'[p], last, 4) = PendingAt(q, last, 4)
      BY <3>3
    <3>5. Pending(publish'[p], last) = P
      BY <3>4, Zenon DEF Pending
    <3> QED BY <1>2, <1>3, <2>1, <3>5
  <2>3. CASE q.snap[CurrentTopic(p)] = last[CurrentTopic(p)]
    <3>1. publish'[p] = AfterTopic(q)
      BY <1>1, <1>7, <2>1, <2>3 DEF Compare
    <3>2. PendingAt(q, last, q.k) = <<>>
      BY <2>3 DEF PendingAt, CurrentTopic
    <3>3. P = <<>> \o Pending(publish'[p], last)
      BY <1>1, <2>1, <3>1, <3>2, PendingFirst
    <3>4. P = Pending(publish'[p], last)
      BY <1>1, <2>1, <3>3, PendingType, ConcatEmptySeq
    <3> QED BY <1>2, <1>3, <2>1, <3>4
  <2> QED BY <2>2, <2>3
<1>8. ASSUME NEW t \in Task, Send(t)
      PROVE  Stutter
  <2>1. /\ t = p /\ q.stage = "send" /\ q.k # 0 /\ global_client
        /\ act' = act /\ told' = told /\ last' = last
    BY <1>8 DEF Send, ActuatorTypeOK, LastInv, Publishes, LinkInv, Links, Idle
  <2> DEFINE m == MessageOf(CurrentTopic(p), q.snap[CurrentTopic(p)])
             rest == Pending(publish'[p], last)
  <2>2. publish'[p] = AfterTopic(q)
    BY <1>1, <1>8, <2>1 DEF Send
  <2>3. PendingAt(q, last, q.k) = <<m>>
    <3>1. q.k \in Nat
      BY <1>1, TopicOrderFacts DEF Progress
    <3> QED BY <2>1, <3>1 DEF PendingAt, CurrentTopic, SendInv
  <2>4. PendingAt(q, last, q.k) \in Seq(OutboxMessage) /\ rest \in Seq(OutboxMessage)
    <3>1. q.k \in 1..4
      BY <1>1, <2>1, TopicOrderFacts DEF Progress
    <3> QED BY <1>1, <2>1, <3>1, PendingAtType, PendingType
  <2>5. m \in OutboxMessage
    <3>1. CurrentTopic(p) \in Topic
      BY <1>1, <2>1, TopicOrderFacts DEF CurrentTopic, Progress
    <3> QED BY <3>1 DEF MessageOf, OutboxMessage, Payload
  <2>6. outbox' = Append(outbox, m)
    BY <1>8, <2>1 DEF Send, MessageOf
  <2>7. P = <<m>> \o rest
    BY <1>1, <2>1, <2>2, <2>3, PendingFirst
  <2> HIDE DEF m, rest, P
  <2>8. outbox' = outbox \o <<m>>
    BY <1>1, <2>5, <2>6, AppendIsConcat
  <2>9. (outbox \o <<m>>) \o rest = outbox \o (<<m>> \o rest)
    BY <1>1, <2>3, <2>4, ConcatAssociative
  <2>10. Owed' = Owed
    BY <1>2, <1>3, <2>1, <2>7, <2>8, <2>9 DEF rest
  <2> QED BY <2>1, <2>10
<1>9. ASSUME NEW t \in Task, Record(t)
      PROVE  Stutter
  <2>1. /\ t = p /\ q.stage = "record"
        /\ act' = act /\ outbox' = outbox /\ told' = told
    BY <1>9 DEF Record, LastInv, Publishes, Idle, link_vars
  <2>2. publish'[p] = AfterRecord(q)
    BY <1>1, <1>9, <2>1 DEF Record
  <2>3. publish'[p].stage \in {"record", "idle"}
    BY <1>1, <2>1, <2>2 DEF AfterRecord, NotPublishing, Progress
  <2>4. P = <<>> /\ Pending(publish'[p], last') = <<>>
    BY <2>1, <2>3, NothingPending
  <2> QED BY <1>2, <1>3, <2>1, <2>4
<1>10. CASE BeforeConnect \/ Connected \/ Disconnected \/ UNCHANGED actuator_vars
  <2>1. UNCHANGED <<act, last, publish, outbox, told>>
    BY <1>10 DEF BeforeConnect, Connected, Disconnected, publish_vars, actuator_vars
  <2>2. Stutter
    BY <1>2, <1>3, <2>1
  <2> QED BY <1>5, <2>2
<1>11. CASE Deliver \/ DeliverUnacknowledged
  <2>1. /\ outbox # <<>> /\ act' = act /\ last' = last /\ publish' = publish
        /\ told' = [told EXCEPT ![Head(outbox).topic] = Head(outbox).value]
    BY <1>11 DEF Deliver, DeliverUnacknowledged, HeadIsStored, publish_vars
  <2> HIDE DEF P
  <2>2. /\ outbox \o P # <<>>
        /\ Head(outbox \o P) = Head(outbox)
        /\ Tail(outbox \o P) = Tail(outbox) \o P
    BY <1>1, <1>4, <2>1, HeadTailConcat
  <2>3. Promise!OldestIsTold
    BY <1>2, <2>1, <2>2 DEF Promise!OldestIsTold
  <2>4. Owed' = outbox' \o P
    BY <1>3, <2>1 DEF P
  <2>5. CASE Deliver
    <3>1. outbox' = Tail(outbox)
      BY <2>5 DEF Deliver
    <3>2. Promise!Tell
      BY <1>2, <2>1, <2>2, <2>3, <2>4, <3>1 DEF Promise!Tell
    <3> QED BY <3>2 DEF Promise!SettingLinkNext
  <2>6. CASE DeliverUnacknowledged
    <3>1. outbox' = outbox
      BY <2>6 DEF DeliverUnacknowledged
    <3>2. Promise!TellAgain
      BY <1>2, <2>1, <2>3, <2>4, <3>1 DEF Promise!TellAgain
    <3> QED BY <3>2 DEF Promise!SettingLinkNext
  <2> QED BY <1>11, <2>5, <2>6
<1> QED BY <1>5, <1>6, <1>7, <1>8, <1>9, <1>10, <1>11
        DEF ActuatorNext, PublishStep, LinkNext

\* With one publisher that waits for the client, the code's way of a setting
\* to the nodes is one that SettingLink allows: the nodes are told every
\* change, in the order of publish_state, and nothing else.
THEOREM LinkKeepsItsPromise ==
    ASSUME NEW p \in Task, Publisher = {p}, AwaitConnected
    PROVE  ActuatorSpec => Promise!SettingLinkSafety
<1> DEFINE Inv == ActuatorTypeOK /\ LastInv(p) /\ LinkInv(p) /\ SendInv(p)
<1>1. ActuatorInit => Inv
  <2>1. ActuatorInit => LastInv(p) /\ SendInv(p)
    BY DEF ActuatorInit, LastInv, Publishes, SendInv, Idle, NotPublishing
  <2> QED BY <2>1, LinkInvInit, ActuatorInitType
<1>2. Inv /\ [ActuatorNext]_actuator_vars => Inv'
  BY ActuatorStepType, LastInvStep, LinkInvStep, SendInvStep
<1>3. ActuatorInit => Promise!SettingLinkInit
  <2> SUFFICES ASSUME ActuatorInit PROVE Promise!SettingLinkInit
    OBVIOUS
  <2>1. outbox = <<>> /\ \A t \in Task : publish[t].stage = "idle"
    BY DEF ActuatorInit, NotPublishing
  <2>2. Pending(publish["system_task"], last) = <<>> /\ Pending(publish["httpd"], last) = <<>>
    BY <2>1, NothingPending DEF Task
  <2>3. <<>> \o <<>> = <<>>
    BY EmptySeq, ConcatEmptySeq
  <2>4. Owed = <<>>
    BY <2>1, <2>2, <2>3, Zenon DEF Owed
  <2> QED BY <2>4 DEF ActuatorInit, Promise!SettingLinkInit, Promise!AllOff,
                     Promise!Settings, Promise!Topic, AllOff, Settings, Topic
<1>4. Inv /\ Inv' /\ [ActuatorNext]_actuator_vars
      => [Promise!SettingLinkNext]_(Promise!setting_link_vars)
  BY LinkSimulates
<1> HIDE DEF Inv
<1> QED BY <1>1, <1>2, <1>3, <1>4, PTL DEF ActuatorSpec, Promise!SettingLinkSafety

-----------------------------------------------------------------------------
(* What faults cost, with one publisher p that need not wait for the        *)
(* client: messages are dropped and refused, and the center restarts.       *)

FaultsTypeOK ==
    /\ ActuatorTypeOK
    /\ node \in [Topic -> {"none", "0", "1"}]

LEMMA FaultsInitType == FaultsInit => FaultsTypeOK
  BY ActuatorInitType DEF FaultsInit, FaultsTypeOK

\* What Send does of the rest when the client accepts the message, and when
\* there is no client.
LEMMA AcceptedOrDropped ==
    ASSUME NEW t \in Task, Send(t)
    PROVE  /\ SendsOn(t) /\ UNCHANGED <<act, global_client, connected, told>>
           /\ global_client =>
                  /\ Len(outbox) < OutboxBound
                  /\ outbox' = Append(outbox, [topic |-> CurrentTopic(t),
                                               value |-> Payload(publish[t].snap[CurrentTopic(t)])])
           /\ ~global_client => outbox' = outbox
  BY DEF Send, SendsOn

\* The settings a restart leaves are those the program starts with.
LEMMA RestartType ==
    ASSUME Restart
    PROVE  ActuatorTypeOK'
<1>1. NotPublishing \in Progress
  BY SettingsAreSettings, TopicOrderFacts DEF NotPublishing, Progress
<1>2. /\ act' = AllOff /\ last' = AllOff
      /\ publish' = [t \in Task |-> NotPublishing]
      /\ \A t \in Task : publish'[t].stage = "idle" /\ publish'[t].k = 0
      /\ global_client' = FALSE /\ connected' = FALSE
      /\ told' \in [Topic -> {"none", "0", "1"}]
  BY DEF Restart, NotPublishing
<1>3. outbox' \in Seq(OutboxMessage) /\ Len(outbox') <= OutboxBound
  BY PublishAssumption DEF Restart
<1> QED BY <1>1, <1>2, <1>3, SettingsAreSettings DEF ActuatorTypeOK, Idle

LEMMA FaultsStepType ==
    ASSUME FaultsTypeOK, [FaultsNext]_all_vars
    PROVE  FaultsTypeOK'
<1> USE DEF FaultsTypeOK
<1>1. CASE UNCHANGED all_vars
  BY <1>1, ActuatorStepType DEF all_vars, fault_vars
<1>2. ASSUME NEW t \in Publisher, NEW s \in Decisions, Decide(t, s), UNCHANGED fault_vars
      PROVE  FaultsTypeOK'
  <2>1. ActuatorNext
    BY <1>2, Zenon DEF ActuatorNext
  <2> QED BY <1>2, <2>1, ActuatorStepType DEF fault_vars
<1>3. ASSUME NEW t \in Task, Compare(t) \/ Record(t), UNCHANGED fault_vars
      PROVE  FaultsTypeOK'
  BY <1>3, PublishStepType DEF PublishStep, fault_vars
<1>4. ASSUME NEW t \in Task, SendAccepted(t) \/ SendDropped(t)
      PROVE  FaultsTypeOK'
  BY <1>4, PublishStepType DEF SendAccepted, SendDropped, PublishStep
<1>5. ASSUME NEW t \in Task, SendRefused(t)
      PROVE  FaultsTypeOK'
  <2>1. publish[t] \in Progress /\ publish[t].k # 0
    BY <1>5 DEF SendRefused, ActuatorTypeOK, Idle
  <2>2. /\ AfterTopic(publish[t]) \in Progress
        /\ AfterTopic(publish[t]).k # 0 /\ AfterTopic(publish[t]).stage # "idle"
    BY <2>1, AfterTopicType
  <2>3. publish' = [publish EXCEPT ![t] = AfterTopic(publish[t])]
    BY <1>5 DEF SendRefused
  <2>4. /\ publish' \in [Task -> Progress]
        /\ \A u \in Task : publish'[u].stage = "idle" <=> publish'[u].k = 0
    BY <2>2, <2>3, ProgressStep DEF ActuatorTypeOK, Idle
  <2> QED BY <1>5, <2>4 DEF SendRefused, ActuatorTypeOK, Idle, link_vars
<1>6. ASSUME LinkNext, NodesFollow
      PROVE  FaultsTypeOK'
  <2>1. ActuatorTypeOK'
    BY <1>6, LinkStepType
  <2>2. \A x \in Topic : node[x] \in {"none", "0", "1"} /\ told'[x] \in {"none", "0", "1"}
    BY <2>1 DEF ActuatorTypeOK
  <2>3. node' \in [Topic -> {"none", "0", "1"}]
    BY <1>6, <2>2 DEF NodesFollow
  <2> QED BY <2>1, <2>3
<1>7. CASE Restart
  <2>1. ActuatorTypeOK'
    BY <1>7, RestartType
  <2> QED BY <1>7, <2>1 DEF Restart
<1> QED BY <1>1, <1>2, <1>3, <1>4, <1>5, <1>6, <1>7 DEF FaultsNext

\* A step of the fault model is one of the fault-free one, a message that
\* does not reach the outbox, or a restart.
LEMMA FaultsDecides ==
    ASSUME NEW p \in Task, Publisher = {p}, [FaultsNext]_all_vars
    PROVE  \/ OnePublisherStep(p, act, act')
           \/ \E t \in Task : SendRefused(t)
           \/ Restart
<1>1. ASSUME UNCHANGED all_vars
      PROVE  [ActuatorNext]_actuator_vars
  BY <1>1 DEF all_vars
<1>2. ASSUME NEW t \in Task, SendAccepted(t) \/ SendDropped(t)
      PROVE  [ActuatorNext]_actuator_vars
  BY <1>2 DEF SendAccepted, SendDropped, ActuatorNext, PublishStep
<1>3. ASSUME NEW t \in Task, Compare(t) \/ Record(t)
      PROVE  [ActuatorNext]_actuator_vars
  BY <1>3 DEF ActuatorNext, PublishStep
<1>4. ASSUME NEW t \in Publisher, NEW s \in Decisions, Decide(t, s)
      PROVE  [ActuatorNext]_actuator_vars
  BY <1>4 DEF ActuatorNext
<1>5. [ActuatorNext]_actuator_vars \/ (\E t \in Task : SendRefused(t)) \/ Restart
  BY <1>1, <1>2, <1>3, <1>4 DEF FaultsNext, ActuatorNext
<1> QED BY <1>5, OneDecides

LEMMA FaultsLastStep ==
    ASSUME NEW p \in Task, Publisher = {p}, FaultsTypeOK, FaultsTypeOK', LastInv(p),
           [FaultsNext]_all_vars
    PROVE  LastInv(p)'
<1>1. ActuatorTypeOK /\ ActuatorTypeOK'
  BY DEF FaultsTypeOK
<1> SUFFICES ASSUME NEW b \in Setting, b = act'
             PROVE  LastInv(p)'
  BY <1>1 DEF ActuatorTypeOK
<1>2. PICK a \in Setting : a = act
  BY <1>1 DEF ActuatorTypeOK
<1>3. CASE OnePublisherStep(p, act, act')
  <2>1. Publishes(p, b)'
    BY <1>1, <1>2, <1>3, PublishesStep DEF LastInv
  <2> QED BY <2>1 DEF LastInv, Publishes
<1>4. ASSUME NEW t \in Task, SendRefused(t)
      PROVE  LastInv(p)'
  <2>1. SendsOn(t) /\ a = b
    BY <1>2, <1>4 DEF SendRefused, SendsOn
  <2>2. Publishes(p, b)'
    BY <1>1, <1>2, <2>1, SendsOnPublishes DEF LastInv
  <2> QED BY <2>2 DEF LastInv, Publishes
<1>5. CASE Restart
  BY <1>5 DEF Restart, LastInv, Publishes, Idle, NotPublishing
<1> QED BY <1>3, <1>4, <1>5, FaultsDecides

\* The invariant behind OnlyLostChangesDiffer: the nodes know what the broker
\* retains, and a topic that has not lost its last change ends, once the
\* outbox has been delivered to them, where p has sent it.
FaultInv(p) ==
    /\ \A x \in Topic : told[x] # "none" => node[x] = told[x]
    /\ \A x \in Topic \ lost : Ends(outbox, node, x, SentFor(p, act, x))

LEMMA FaultInvInit ==
    ASSUME NEW p \in Task, FaultsInit
    PROVE  FaultInv(p)
<1>1. LinkInv(p) /\ node = told
  <2>1. LinkInv(p)
    BY LinkInvInit DEF FaultsInit
  <2> QED BY <2>1 DEF FaultsInit, ActuatorInit
<1> QED BY <1>1 DEF LinkInv, Links, FaultInv

\* A task deals with a topic: the others stay as they were, and this one is
\* lost or has its message in the outbox.
LEMMA SentOrLost ==
    ASSUME NEW p \in Task, FaultsTypeOK, LastInv(p), FaultInv(p),
           NEW t \in Task, SendAccepted(t) \/ SendDropped(t) \/ SendRefused(t)
    PROVE  FaultInv(p)'
<1> DEFINE y == CurrentTopic(p)
<1>1. SendsOn(t) /\ UNCHANGED <<act, told, node>>
  BY AcceptedOrDropped DEF SendAccepted, SendDropped, SendRefused, SendsOn, link_vars
<1>2. t = p /\ publish[p].stage = "send" /\ publish[p].snap = act
  BY <1>1 DEF SendsOn, LastInv, Publishes, Idle
<1>3. /\ ActuatorTypeOK /\ act \in Setting /\ outbox \in Seq(OutboxMessage)
      /\ publish[p].k \in 1..4 /\ y \in Topic
  BY <1>2, TopicOrderFacts DEF FaultsTypeOK, ActuatorTypeOK, Progress, CurrentTopic, Idle
<1>4. ASSUME NEW x \in Topic
      PROVE  SentFor(p, act, x)' = IF x = y THEN act[x] ELSE SentFor(p, act, x)
  <2>1. PICK a \in Setting : a = act
    BY <1>3
  <2>2. SentFor(p, a, x)' = IF x = y THEN a[x] ELSE SentFor(p, a, x)
    BY <1>1, <1>2, <1>3, AfterTopicSent DEF SendsOn
  <2> QED BY <1>1, <2>1, <2>2 DEF SentFor
<1> HIDE DEF y
<1>5. CASE SendAccepted(t)
  <2>1. outbox' = Append(outbox, [topic |-> y, value |-> Payload(act[y])]) /\ lost' = lost \ {y}
    BY <1>2, <1>5, AcceptedOrDropped DEF SendAccepted, Accepted, y
  <2>2. ASSUME NEW x \in Topic \ lost'
        PROVE  Ends(outbox', node', x, SentFor(p, act, x)')
    <3>1. act[y] \in BOOLEAN /\ act[x] \in BOOLEAN /\ SentFor(p, act, x) \in BOOLEAN
      BY <1>3, SentForType DEF Setting
    <3>2. CASE x = y
      BY <1>1, <1>3, <1>4, <2>1, <3>1, <3>2, EndsAppend
    <3>3. CASE x # y
      <4>1. Ends(outbox, node, x, SentFor(p, act, x))
        BY <2>1, <2>2, <3>3 DEF FaultInv
      <4> QED BY <1>1, <1>3, <1>4, <2>1, <3>1, <3>3, <4>1, EndsAppend
    <3> QED BY <3>2, <3>3
  <2> QED BY <1>1, <2>2 DEF FaultInv
<1>6. CASE SendDropped(t) \/ SendRefused(t)
  <2>1. outbox' = outbox /\ lost' = lost \cup {y}
    BY <1>2, <1>6, AcceptedOrDropped DEF SendDropped, SendRefused, NotAccepted, link_vars, y
  <2>2. ASSUME NEW x \in Topic \ lost'
        PROVE  Ends(outbox', node', x, SentFor(p, act, x)')
    <3>1. x # y /\ Ends(outbox, node, x, SentFor(p, act, x))
      BY <2>1, <2>2 DEF FaultInv
    <3> QED BY <1>1, <1>4, <2>1, <3>1
  <2> QED BY <1>1, <2>2 DEF FaultInv
<1> QED BY <1>5, <1>6

LEMMA FaultInvStep ==
    ASSUME NEW p \in Task, Publisher = {p}, FaultsTypeOK, LastInv(p), FaultInv(p),
           [FaultsNext]_all_vars
    PROVE  FaultInv(p)'
<1>0. /\ publish \in [Task -> Progress] /\ last \in Setting /\ act \in Setting
      /\ outbox \in Seq(OutboxMessage) /\ told \in [Topic -> {"none", "0", "1"}]
      /\ node \in [Topic -> {"none", "0", "1"}] /\ ActuatorTypeOK
  BY DEF FaultsTypeOK, ActuatorTypeOK
<1> DEFINE SameSent == \A x \in Topic : SentFor(p, act, x)' = SentFor(p, act, x)
<1>1. CASE UNCHANGED all_vars
  BY <1>1 DEF all_vars, actuator_vars, fault_vars, FaultInv, SentFor
<1>2. ASSUME NEW t \in Publisher, NEW s \in Decisions, Decide(t, s), UNCHANGED fault_vars
      PROVE  FaultInv(p)'
  <2>1. t = p /\ publish[p].stage = "idle" /\ last = act /\ last' = last
    BY <1>2 DEF Decide, Idle, LastInv, Publishes
  <2>2. publish'[p].stage = "compare" /\ publish'[p].k = 1
    BY <1>0, <1>2, <2>1 DEF Decide, StartPublish
  <2>3. SameSent
    <3>1. SUFFICES ASSUME NEW x \in Topic
                   PROVE  SentFor(p, act, x)' = SentFor(p, act, x)
      OBVIOUS
    <3>2. \E i \in 1..4 : i >= 1 /\ TopicOrder[i] = x
      BY TopicOrderFacts
    <3> QED BY <2>1, <2>2, <3>2 DEF SentFor
  <2> QED BY <1>2, <2>3 DEF FaultInv, Decide, link_vars, fault_vars
<1>3. ASSUME NEW t \in Task, Compare(t), UNCHANGED fault_vars
      PROVE  FaultInv(p)'
  <2>1. t = p /\ publish[p].stage = "compare" /\ publish[p].snap = act
    BY <1>3 DEF Compare, LastInv, Publishes, Idle
  <2>2. UNCHANGED <<act, last, outbox, told, node, lost>>
    BY <1>3 DEF Compare, link_vars, fault_vars
  <2>3. CASE act[CurrentTopic(p)] # last[CurrentTopic(p)]
    <3>1. publish'[p].stage = "send" /\ publish'[p].k = publish[p].k
      BY <1>0, <1>3, <2>1, <2>3 DEF Compare, Progress
    <3>2. SameSent
      BY <2>1, <2>2, <3>1 DEF SentFor
    <3> QED BY <2>2, <3>2 DEF FaultInv
  <2>4. CASE act[CurrentTopic(p)] = last[CurrentTopic(p)]
    <3>1. publish' = [publish EXCEPT ![p] = AfterTopic(publish[p])]
      BY <1>3, <2>1, <2>4 DEF Compare
    <3>2. PICK a \in Setting : a = act
      BY <1>0
    <3>3. \A x \in Topic : SentFor(p, a, x)' = IF x = CurrentTopic(p) THEN a[x] ELSE SentFor(p, a, x)
      BY <1>0, <2>1, <2>2, <3>1, AfterTopicSent
    <3>4. \A x \in Topic : SentFor(p, a, x) \in {last[x], a[x]}
      BY DEF SentFor
    <3>5. \A x \in Topic : SentFor(p, a, x)' = SentFor(p, a, x)
      BY <2>4, <3>2, <3>3, <3>4
    <3>6. SameSent
      BY <2>2, <3>2, <3>5 DEF SentFor
    <3> QED BY <2>2, <3>6 DEF FaultInv
  <2> QED BY <2>3, <2>4
<1>4. ASSUME NEW t \in Task, Record(t), UNCHANGED fault_vars
      PROVE  FaultInv(p)'
  <2>1. t = p /\ publish[p].stage = "record"
    BY <1>4 DEF Record, LastInv, Publishes, Idle
  <2>2. publish'[p].stage \in {"idle", "record"}
    <3>1. publish'[p] = AfterRecord(publish[p]) /\ publish[p] \in Progress
      BY <1>0, <1>4, <2>1 DEF Record
    <3> QED BY <2>1, <3>1 DEF AfterRecord, NotPublishing, Progress
  <2>3. SameSent
    BY <1>4, <2>1, <2>2 DEF SentFor, Record
  <2> QED BY <1>4, <2>3 DEF FaultInv, Record, link_vars, fault_vars
<1>5. ASSUME NEW t \in Task, SendAccepted(t) \/ SendDropped(t) \/ SendRefused(t)
      PROVE  FaultInv(p)'
  BY <1>5, SentOrLost
<1>6. ASSUME LinkNext, NodesFollow
      PROVE  FaultInv(p)'
  <2>1. SameSent
    BY <1>6 DEF LinkNext, BeforeConnect, Connected, Disconnected, Deliver,
                DeliverUnacknowledged, publish_vars, SentFor
  <2>2. act' = act /\ lost' = lost
    BY <1>6 DEF LinkNext, BeforeConnect, Connected, Disconnected, Deliver,
                DeliverUnacknowledged, NodesFollow
  <2>3. CASE BeforeConnect \/ Connected \/ Disconnected
    <3>1. outbox' = outbox /\ told' = told
      BY <2>3 DEF BeforeConnect, Connected, Disconnected
    <3>2. node' = node
      <4>1. \A x \in Topic : (IF told'[x] = "none" THEN node[x] ELSE told'[x]) = node[x]
        BY <3>1 DEF FaultInv
      <4> QED BY <1>0, <1>6, <4>1 DEF NodesFollow
    <3> QED BY <2>1, <2>2, <3>1, <3>2 DEF FaultInv
  <2>4. CASE Deliver \/ DeliverUnacknowledged
    <3>1. /\ outbox # <<>> /\ outbox' \in {outbox, Tail(outbox)}
          /\ told' = [told EXCEPT ![Head(outbox).topic] = Head(outbox).value]
      BY <2>4 DEF Deliver, DeliverUnacknowledged, HeadIsStored
    <3>2. Head(outbox).topic \in Topic /\ Head(outbox).value \in {"0", "1"}
      <4>1. Head(outbox) \in OutboxMessage
        BY <1>0, <3>1, HeadTailProperties
      <4> QED BY <4>1 DEF OutboxMessage
    <3>3. node' = [node EXCEPT ![Head(outbox).topic] = Head(outbox).value]
      <4>1. \A x \in Topic : (IF told'[x] = "none" THEN node[x] ELSE told'[x])
                = IF x = Head(outbox).topic THEN Head(outbox).value ELSE node[x]
        BY <1>0, <3>1, <3>2 DEF FaultInv
      <4> QED BY <1>0, <1>6, <3>2, <4>1 DEF NodesFollow
    <3>4. \A x \in Topic : told'[x] # "none" => node'[x] = told'[x]
      BY <1>0, <3>1, <3>2, <3>3 DEF FaultInv
    <3>5. ASSUME NEW x \in Topic \ lost
          PROVE  Ends(outbox', node', x, SentFor(p, act, x))
      <4>1. PICK on \in BOOLEAN : on = SentFor(p, act, x)
        BY <1>0, SentForType
      <4>2. x \in Topic /\ Ends(outbox, node, x, on)
        BY <4>1 DEF FaultInv
      <4>3. LET td2 == [node EXCEPT ![Head(outbox).topic] = Head(outbox).value]
            IN  Ends(outbox, td2, x, on) /\ Ends(Tail(outbox), td2, x, on)
        <5>1. /\ outbox \in Seq(OutboxMessage) /\ outbox # <<>>
              /\ node \in [Topic -> {"none", "0", "1"}]
          BY <1>0, <3>1
        <5> QED BY <4>1, <4>2, <5>1, EndsDelivered
      <4>4. Ends(outbox, node', x, on) /\ Ends(Tail(outbox), node', x, on)
        BY <3>3, <4>3, Zenon
      <4> QED BY <3>1, <4>1, <4>4
    <3> QED BY <2>1, <2>2, <3>4, <3>5 DEF FaultInv
  <2> QED BY <1>6, <2>3, <2>4 DEF LinkNext
<1>7. CASE Restart
  <2>1. /\ publish'[p].stage = "idle" /\ Len(outbox') = 0 /\ node' = node
        /\ \A x \in Topic : told'[x] = "none" /\ act'[x] = FALSE
        /\ \A x \in Topic \ lost' : node[x] # "1"
    BY <1>7 DEF Restart, NotPublishing, AllOff, Settings, Topic
  <2>2. \A x \in Topic : SentFor(p, act, x)' = FALSE
    BY <2>1 DEF SentFor
  <2> QED BY <2>1, <2>2 DEF FaultInv, Ends
<1> QED BY <1>1, <1>2, <1>3, <1>4, <1>5, <1>6, <1>7 DEF FaultsNext

\* Neither a message that is dropped or refused nor a restart of the center
\* lets change detection compare with anything but the settings decided last.
THEOREM LastStaysCurrent ==
    ASSUME NEW p \in Task, Publisher = {p}
    PROVE  FaultsSpec => []LastIsCurrent
<1> DEFINE Inv == FaultsTypeOK /\ LastInv(p)
<1>1. FaultsInit => Inv
  <2>1. FaultsInit => LastInv(p)
    BY DEF FaultsInit, ActuatorInit, LastInv, Publishes, Idle, NotPublishing
  <2> QED BY <2>1, FaultsInitType
<1>2. Inv /\ [FaultsNext]_all_vars => Inv'
  BY FaultsStepType, FaultsLastStep
<1>3. Inv => LastIsCurrent
  BY DEF LastInv, Publishes, LastIsCurrent
<1> QED BY <1>1, <1>2, <1>3, PTL DEF FaultsSpec

\* With one publisher, a node that disagrees with the settings once things
\* have settled belongs to an actuator whose own last change was dropped or
\* refused or that a restart left on, whenever and however often that
\* happens and whatever the other topics went through.
THEOREM OnlyLostTopicsDiffer ==
    ASSUME NEW p \in Task, Publisher = {p}
    PROVE  FaultsSpec => []OnlyLostChangesDiffer
<1> DEFINE Inv == FaultsTypeOK /\ LastInv(p) /\ FaultInv(p)
<1>1. FaultsInit => Inv
  <2>1. FaultsInit => LastInv(p)
    BY DEF FaultsInit, ActuatorInit, LastInv, Publishes, Idle, NotPublishing
  <2> QED BY <2>1, FaultsInitType, FaultInvInit
<1>2. Inv /\ [FaultsNext]_all_vars => Inv'
  BY FaultsStepType, FaultsLastStep, FaultInvStep
<1>3. Inv => OnlyLostChangesDiffer
  <2> SUFFICES ASSUME Inv, Settled, NEW x \in Topic, x \notin lost
               PROVE  NodeOn(x) = act[x]
    BY DEF OnlyLostChangesDiffer
  <2>1. publish[p].stage = "idle" /\ Len(outbox) = 0
    BY DEF Settled, Idle
  <2>2. SentFor(p, act, x) = act[x] /\ act[x] \in BOOLEAN
    BY <2>1 DEF SentFor, FaultsTypeOK, ActuatorTypeOK, Setting
  <2>3. NodeOn(x) <=> act[x]
    BY <2>1, <2>2 DEF FaultInv, Ends, NodeOn
  <2> QED BY <2>2, <2>3 DEF NodeOn
<1> QED BY <1>1, <1>2, <1>3, PTL DEF FaultsSpec
=============================================================================
