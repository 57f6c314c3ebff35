------------------------ MODULE ActuatorPublishProofs ------------------------
(***************************************************************************)
(* publish_state with a single publisher, for every set of settings, every *)
(* bound of the outbox and whatever the connection does.                   *)
(***************************************************************************)
EXTENDS ActuatorPublish, SequenceTheorems, TLAPS

LEMMA SettingsAreSettings == AllOff \in Setting
  BY DEF AllOff, Settings, Setting, Topic

LEMMA TopicOrderFacts ==
    /\ Len(TopicOrder) = 4
    /\ \A k \in 1..4 : TopicOrder[k] \in Topic
    /\ \A x \in Topic : \E k \in 1..4 : TopicOrder[k] = x
    /\ \A j, k \in 1..4 : TopicOrder[j] = TopicOrder[k] => j = k
<1>1. /\ Len(TopicOrder) = 4
      /\ TopicOrder[1] = "window" /\ TopicOrder[2] = "fan"
      /\ TopicOrder[3] = "door" /\ TopicOrder[4] = "absorber"
  BY DEF TopicOrder
<1>2. \A k \in 1..4 : k = 1 \/ k = 2 \/ k = 3 \/ k = 4
  OBVIOUS
<1> QED BY <1>1, <1>2 DEF Topic

LEMMA ActuatorInitType == ActuatorInit => ActuatorTypeOK
<1> SUFFICES ASSUME ActuatorInit
             PROVE  ActuatorTypeOK
  OBVIOUS
<1>1. NotPublishing \in Progress
  BY SettingsAreSettings, TopicOrderFacts DEF NotPublishing, Progress
<1>2. \A t \in Task : Idle(t) /\ publish[t].k = 0
  BY DEF ActuatorInit, Idle, NotPublishing
<1>3. outbox \in Seq(OutboxMessage) /\ Len(outbox) <= OutboxBound
  BY PublishAssumption DEF ActuatorInit
<1> QED BY <1>1, <1>2, <1>3, SettingsAreSettings DEF ActuatorInit, ActuatorTypeOK

\* Where the operators of publish_state leave a task.
LEMMA AfterTopicType ==
    ASSUME NEW q \in Progress, q.k # 0
    PROVE  /\ AfterTopic(q) \in Progress
           /\ AfterTopic(q).k # 0
           /\ AfterTopic(q).stage \in {"compare", "record"}
           /\ AfterTopic(q).snap = q.snap
  BY TopicOrderFacts DEF AfterTopic, Progress

LEMMA AfterRecordType ==
    ASSUME NEW q \in Progress, q.k # 0, q.stage = "record"
    PROVE  /\ AfterRecord(q) \in Progress
           /\ AfterRecord(q).stage = "idle" <=> AfterRecord(q).k = 0
  BY TopicOrderFacts, SettingsAreSettings DEF AfterRecord, NotPublishing, Progress

\* A task that moves on leaves the other task's progress in shape.
LEMMA ProgressStep ==
    ASSUME NEW t \in Task, NEW q \in Progress,
           publish \in [Task -> Progress],
           \A u \in Task : publish[u].stage = "idle" <=> publish[u].k = 0,
           q.stage = "idle" <=> q.k = 0,
           publish' = [publish EXCEPT ![t] = q]
    PROVE  /\ publish' \in [Task -> Progress]
           /\ \A u \in Task : publish'[u].stage = "idle" <=> publish'[u].k = 0
  OBVIOUS

\* A task that enters publish_state, whoever decided on the settings.
LEMMA StartPublishType ==
    ASSUME ActuatorTypeOK, NEW t \in Task, NEW s \in Setting,
           StartPublish(t, s), act' \in Setting, UNCHANGED <<last, link_vars>>
    PROVE  ActuatorTypeOK'
<1> USE DEF ActuatorTypeOK, Idle
<1> DEFINE q == [stage |-> "compare", k |-> 1, snap |-> s]
<1>1. q \in Progress /\ q.k # 0 /\ q.stage # "idle"
  BY TopicOrderFacts DEF Progress
<1>2. publish' = [publish EXCEPT ![t] = q]
  BY DEF StartPublish
<1> HIDE DEF q
<1> QED BY <1>1, <1>2, ProgressStep DEF link_vars

LEMMA PublishStepType ==
    ASSUME ActuatorTypeOK, NEW t \in Task, PublishStep(t)
    PROVE  ActuatorTypeOK'
<1> USE DEF ActuatorTypeOK, Idle
<1>1. CASE Compare(t)
  <2>1. publish[t].k # 0
    BY <1>1 DEF Compare
  <2> DEFINE sending == [publish[t] EXCEPT !.stage = "send"]
  <2>2. sending \in Progress /\ sending.k # 0 /\ sending.stage = "send"
    BY <2>1 DEF Progress
  <2>3. PICK q \in {sending, AfterTopic(publish[t])} : publish' = [publish EXCEPT ![t] = q]
    BY <1>1 DEF Compare
  <2>4. q \in Progress /\ q.k # 0 /\ q.stage # "idle"
    BY <2>1, <2>2, <2>3, AfterTopicType
  <2> HIDE DEF sending
  <2> QED BY <1>1, <2>3, <2>4, ProgressStep DEF Compare, link_vars
<1>2. CASE Send(t)
  <2>1. publish[t].k \in 1..4
    BY <1>2, TopicOrderFacts DEF Send, Progress
  <2>2. CurrentTopic(t) \in Topic
    BY <2>1, TopicOrderFacts DEF CurrentTopic
  <2>3. \A v : Payload(v) \in {"0", "1"}
    BY DEF Payload
  <2> DEFINE m == [topic |-> CurrentTopic(t), value |-> Payload(publish[t].snap[CurrentTopic(t)])]
  <2>4. m \in OutboxMessage
    BY <2>2, <2>3 DEF OutboxMessage
  <2>5. outbox' = outbox \/ (Len(outbox) < OutboxBound /\ outbox' = Append(outbox, m))
    BY <1>2 DEF Send
  <2>6. outbox' \in Seq(OutboxMessage) /\ Len(outbox') <= OutboxBound
    <3> HIDE DEF m
    <3>1. CASE outbox' = outbox
      BY <3>1
    <3>2. CASE Len(outbox) < OutboxBound /\ outbox' = Append(outbox, m)
      <4>1. outbox \in Seq(OutboxMessage) /\ Len(outbox) \in Nat /\ OutboxBound \in Nat
        BY LenProperties, PublishAssumption
      <4>2. Append(outbox, m) \in Seq(OutboxMessage) /\ Len(Append(outbox, m)) = Len(outbox) + 1
        BY <2>4, <4>1, AppendProperties
      <4> QED BY <3>2, <4>1, <4>2
    <3> QED BY <2>5, <3>1, <3>2
  <2>7. /\ AfterTopic(publish[t]) \in Progress
        /\ AfterTopic(publish[t]).k # 0 /\ AfterTopic(publish[t]).stage # "idle"
    BY <2>1, AfterTopicType
  <2>8. publish' = [publish EXCEPT ![t] = AfterTopic(publish[t])]
    BY <1>2 DEF Send
  <2> QED BY <1>2, <2>6, <2>7, <2>8, ProgressStep DEF Send
<1>3. CASE Record(t)
  <2>1. publish[t].k # 0
    BY <1>3 DEF Record
  <2>2. last' \in Setting
    BY <1>3 DEF Record, Setting, Progress
  <2>3. /\ AfterRecord(publish[t]) \in Progress
        /\ AfterRecord(publish[t]).stage = "idle" <=> AfterRecord(publish[t]).k = 0
    BY <1>3, <2>1, AfterRecordType DEF Record
  <2>4. publish' = [publish EXCEPT ![t] = AfterRecord(publish[t])]
    BY <1>3 DEF Record
  <2> QED BY <1>3, <2>2, <2>3, <2>4, ProgressStep DEF Record, link_vars
<1> QED BY <1>1, <1>2, <1>3 DEF PublishStep

LEMMA LinkStepType ==
    ASSUME ActuatorTypeOK, LinkNext
    PROVE  ActuatorTypeOK'
<1> USE DEF ActuatorTypeOK, Idle
<1>1. CASE BeforeConnect \/ Connected \/ Disconnected
  BY <1>1 DEF BeforeConnect, Connected, Disconnected, publish_vars
<1>2. CASE Deliver \/ DeliverUnacknowledged
  <2>1. Head(outbox) \in OutboxMessage
    BY <1>2, HeadTailProperties DEF Deliver, DeliverUnacknowledged
  <2>2. told' \in [Topic -> {"none", "0", "1"}]
    BY <1>2, <2>1 DEF Deliver, DeliverUnacknowledged, HeadIsStored, OutboxMessage
  <2>3. /\ outbox' \in Seq(OutboxMessage)
        /\ Len(outbox') <= OutboxBound
    BY <1>2, HeadTailProperties, LenProperties, PublishAssumption DEF Deliver, DeliverUnacknowledged
  <2> QED BY <1>2, <2>2, <2>3 DEF Deliver, DeliverUnacknowledged, publish_vars
<1> QED BY <1>1, <1>2 DEF LinkNext

LEMMA ActuatorStepType ==
    ASSUME ActuatorTypeOK, [ActuatorNext]_actuator_vars
    PROVE  ActuatorTypeOK'
<1>1. ASSUME NEW t \in Publisher, NEW s \in Decisions, Decide(t, s)
      PROVE  ActuatorTypeOK'
  <2>1. t \in Task /\ s \in Setting
    BY PublishAssumption DEF Setting
  <2> QED BY <1>1, <2>1, StartPublishType DEF Decide
<1>2. CASE UNCHANGED actuator_vars
  BY <1>2 DEF ActuatorTypeOK, Idle, actuator_vars
<1> QED BY <1>1, <1>2, PublishStepType, LinkStepType DEF ActuatorNext

\* The variables hold values the program can hold, with any number of
\* publishers.
THEOREM ActuatorTypeCorrect == ActuatorSpec => []ActuatorTypeOK
<1>1. ActuatorTypeOK /\ [ActuatorNext]_actuator_vars => ActuatorTypeOK'
  BY ActuatorStepType
<1> QED BY <1>1, ActuatorInitType, PTL DEF ActuatorSpec

-----------------------------------------------------------------------------
(* Change detection, with one publisher p. *)

\* The strengthening: p publishes the settings a, and has stored those
\* of the topics it has been through.
Publishes(p, a) ==
    /\ \A t \in Task : t # p => Idle(t)
    /\ Idle(p) => last = a
    /\ ~Idle(p) => publish[p].snap = a
    /\ publish[p].stage = "record" =>
           \A i \in 1..4 : i < publish[p].k => last[TopicOrder[i]] = a[TopicOrder[i]]

LastInv(p) == Publishes(p, act)

\* What the steps of a system do whose only publisher is p, when the settings
\* it publishes change from a to b.
StartsWith(p, b) == Idle(p) /\ Ready /\ StartPublish(p, b) /\ UNCHANGED <<last, link_vars>>
Moves == (\E t \in Task : PublishStep(t)) \/ LinkNext \/ UNCHANGED <<last, publish, link_vars>>
OnePublisherStep(p, a, b) == StartsWith(p, b) \/ (b = a /\ Moves)

LEMMA OneDecides ==
    ASSUME NEW p \in Task, Publisher = {p}, [ActuatorNext]_actuator_vars
    PROVE  OnePublisherStep(p, act, act')
<1>1. ASSUME NEW t \in Publisher, NEW s \in Decisions, Decide(t, s)
      PROVE  StartsWith(p, act')
  BY <1>1 DEF Decide, StartsWith
<1>2. ASSUME NEW t \in Task, PublishStep(t)
      PROVE  act' = act /\ Moves
  BY <1>2 DEF PublishStep, Compare, Send, Record, Moves
<1>3. ASSUME LinkNext
      PROVE  act' = act /\ Moves
  BY <1>3 DEF LinkNext, BeforeConnect, Connected, Disconnected, Deliver,
              DeliverUnacknowledged, Moves
<1>4. ASSUME UNCHANGED actuator_vars
      PROVE  act' = act /\ Moves
  BY <1>4 DEF actuator_vars, link_vars, Moves
<1> QED BY <1>1, <1>2, <1>3, <1>4 DEF ActuatorNext, OnePublisherStep

\* Two settings that agree along the order of publish_state are equal.
LEMMA SettingsEqual ==
    ASSUME NEW s1 \in Setting, NEW s2 \in Setting,
           \A i \in 1..4 : s1[TopicOrder[i]] = s2[TopicOrder[i]]
    PROVE  s1 = s2
<1>1. \A x \in Topic : s1[x] = s2[x]
  BY TopicOrderFacts
<1> QED BY <1>1 DEF Setting

\* A task deals with the topic it has a message about.
SendsOn(t) ==
    /\ publish[t].stage = "send"
    /\ publish' = [publish EXCEPT ![t] = AfterTopic(publish[t])]
    /\ UNCHANGED last

\* Whatever becomes of the message.
LEMMA SendsOnPublishes ==
    ASSUME NEW p \in Task, NEW a \in Setting, NEW t \in Task,
           ActuatorTypeOK, Publishes(p, a), SendsOn(t)
    PROVE  Publishes(p, a)'
<1> USE DEF Publishes, Idle
<1>0. publish \in [Task -> Progress]
  BY DEF ActuatorTypeOK
<1>1. t = p /\ publish[p].k # 0
  BY DEF SendsOn, ActuatorTypeOK
<1>2. \/ publish'[p].stage = "compare"
      \/ publish'[p].stage = "record" /\ publish'[p].k = 1
  BY <1>0, <1>1 DEF SendsOn, AfterTopic
<1>3. publish'[p].snap = publish[p].snap
  BY <1>0, <1>1, AfterTopicType DEF SendsOn
<1>4. \A u \in Task : u # p => publish'[u] = publish[u]
  BY <1>0, <1>1 DEF SendsOn
<1> QED BY <1>1, <1>2, <1>3, <1>4 DEF SendsOn

LEMMA PublishesStep ==
    ASSUME NEW p \in Task, NEW a \in Setting, NEW b \in Setting,
           ActuatorTypeOK, Publishes(p, a), OnePublisherStep(p, a, b)
    PROVE  Publishes(p, b)'
<1> USE DEF Publishes, Idle
<1>0. publish \in [Task -> Progress] /\ last \in Setting
  BY DEF ActuatorTypeOK
<1>1. CASE StartsWith(p, b)
  BY <1>0, <1>1 DEF StartsWith, StartPublish
<1>2. ASSUME NEW t \in Task, Compare(t)
      PROVE  Publishes(p, a)'
  <2>1. t = p /\ publish[p].k # 0
    BY <1>2 DEF Compare, ActuatorTypeOK
  <2>2. \/ publish'[p].stage \in {"compare", "send"}
        \/ publish'[p].stage = "record" /\ publish'[p].k = 1
    BY <1>0, <1>2, <2>1 DEF Compare, AfterTopic
  <2>3. publish'[p].snap = publish[p].snap
    BY <1>0, <1>2, <2>1, AfterTopicType DEF Compare, Progress
  <2>4. \A u \in Task : u # p => publish'[u] = publish[u]
    BY <1>0, <1>2, <2>1 DEF Compare
  <2> QED BY <1>2, <2>1, <2>2, <2>3, <2>4 DEF Compare
<1>3. ASSUME NEW t \in Task, Send(t)
      PROVE  Publishes(p, a)'
  <2>1. SendsOn(t)
    BY <1>3 DEF Send, SendsOn
  <2> QED BY <2>1, SendsOnPublishes
<1>4. ASSUME NEW t \in Task, Record(t)
      PROVE  Publishes(p, a)'
  <2> DEFINE k == publish[p].k
  <2>1. t = p /\ k \in 1..4 /\ publish[p].snap = a
    BY <1>4, TopicOrderFacts DEF Record, ActuatorTypeOK, Progress
  <2>2. last' = [last EXCEPT ![TopicOrder[k]] = a[TopicOrder[k]]]
    BY <1>4, <2>1 DEF Record, CurrentTopic
  <2>3. \A i \in 1..4 : i <= k => last'[TopicOrder[i]] = a[TopicOrder[i]]
    BY <1>0, <1>4, <2>1, <2>2, TopicOrderFacts DEF Record, Setting
  <2>4. publish' = [publish EXCEPT ![p] = AfterRecord(publish[p])]
    BY <1>4, <2>1 DEF Record
  <2>5. last' \in Setting
    <3>1. TopicOrder[k] \in Topic
      BY <2>1, TopicOrderFacts
    <3>2. a[TopicOrder[k]] \in BOOLEAN
      BY <1>0, <3>1 DEF Setting
    <3> HIDE DEF k
    <3> QED BY <1>0, <1>4, <2>2, <3>1, <3>2 DEF Record, Setting
  <2>6. CASE k < 4
    <3>1. AfterRecord(publish[p]) = [publish[p] EXCEPT !.k = k + 1]
      BY <2>6, TopicOrderFacts DEF AfterRecord
    <3>2. /\ publish'[p].k = k + 1 /\ publish'[p].snap = a
          /\ publish'[p].stage = "record"
      BY <1>0, <1>4, <2>1, <2>4, <3>1 DEF Record, Progress
    <3> QED BY <1>0, <2>1, <2>3, <2>4, <2>5, <3>2
  <2>7. CASE k = 4
    <3>1. AfterRecord(publish[p]) = NotPublishing
      BY <2>7, TopicOrderFacts DEF AfterRecord
    <3>2. last' = a
      BY <1>0, <2>3, <2>5, <2>7, SettingsEqual
    <3>3. publish'[p].stage = "idle"
      BY <1>0, <2>4, <3>1 DEF NotPublishing
    <3> QED BY <1>0, <2>1, <2>4, <2>5, <3>2, <3>3
  <2> QED BY <2>1, <2>6, <2>7
<1>5. ASSUME LinkNext
      PROVE  Publishes(p, a)'
  BY <1>5 DEF LinkNext, BeforeConnect, Connected, Disconnected, Deliver,
              DeliverUnacknowledged, publish_vars
<1>6. ASSUME UNCHANGED <<last, publish, link_vars>>
      PROVE  Publishes(p, a)'
  BY <1>6
<1> HIDE DEF Publishes
<1>7. Moves => Publishes(p, a)'
  BY <1>2, <1>3, <1>4, <1>5, <1>6 DEF Moves, PublishStep
<1> QED BY <1>1, <1>7 DEF OnePublisherStep

LEMMA LastInvStep ==
    ASSUME NEW p \in Task, Publisher = {p},
           ActuatorTypeOK, ActuatorTypeOK', LastInv(p), [ActuatorNext]_actuator_vars
    PROVE  LastInv(p)'
<1> SUFFICES ASSUME NEW b \in Setting, b = act'
             PROVE  LastInv(p)'
  BY DEF ActuatorTypeOK
<1>1. PICK a \in Setting : a = act
  BY DEF ActuatorTypeOK
<1>2. OnePublisherStep(p, a, b)
  BY <1>1, OneDecides
<1>3. Publishes(p, b)'
  BY <1>1, <1>2, PublishesStep DEF LastInv
<1> QED BY <1>3 DEF LastInv, Publishes

\* With one publisher, last_* are the settings in force whenever it is not
\* inside publish_state: change detection compares with what was decided last.
THEOREM LastIsAlwaysCurrent ==
    ASSUME NEW p \in Task, Publisher = {p}
    PROVE  ActuatorSpec => []LastIsCurrent
<1>1. ActuatorInit => LastInv(p)
  BY DEF ActuatorInit, LastInv, Publishes, Idle, NotPublishing
<1>2. ActuatorTypeOK /\ ActuatorTypeOK' /\ LastInv(p) /\ [ActuatorNext]_actuator_vars => LastInv(p)'
  BY LastInvStep
<1>3. LastInv(p) => LastIsCurrent
  BY DEF LastInv, Publishes, LastIsCurrent
<1> QED BY <1>1, <1>2, <1>3, ActuatorTypeCorrect, PTL DEF ActuatorSpec

-----------------------------------------------------------------------------
(* What the nodes end up with, with one publisher p. *)

\* Once the outbox ob has been delivered to a broker that retains td, topic x
\* is on exactly if on holds: the last message about x says so or, without
\* one, the retained value does.
Ends(ob, td, x, on) ==
    /\ (\A i \in 1..Len(ob) : ob[i].topic # x) => ((td[x] = "1") <=> on)
    /\ \A i \in 1..Len(ob) :
           ob[i].topic = x /\ (\A j \in 1..Len(ob) : j > i => ob[j].topic # x)
               => ob[i].value = Payload(on)

\* A message for topic y decides where y ends and leaves the others alone.
LEMMA EndsAppend ==
    ASSUME NEW ob \in Seq(OutboxMessage), NEW td, NEW y \in Topic, NEW v \in BOOLEAN,
           NEW x \in Topic, NEW on \in BOOLEAN,
           x = y => on = v, x # y => Ends(ob, td, x, on)
    PROVE  Ends(Append(ob, [topic |-> y, value |-> Payload(v)]), td, x, on)
<1> DEFINE m == [topic |-> y, value |-> Payload(v)]
           ob2 == Append(ob, m)
<1>1. m \in OutboxMessage /\ m.topic = y /\ m.value = Payload(v)
  BY DEF OutboxMessage, Payload
<1> HIDE DEF m
<1>2. /\ Len(ob) \in Nat /\ Len(ob2) = Len(ob) + 1
      /\ \A i \in 1..Len(ob) : ob2[i] = ob[i]
      /\ ob2[Len(ob) + 1] = m
  BY <1>1, AppendProperties, LenProperties
<1> HIDE DEF ob2
<1>3. ASSUME x = y
      PROVE  Ends(ob2, td, x, on)
  <2>1. Len(ob2) \in 1..Len(ob2) /\ ob2[Len(ob2)].topic = x /\ ob2[Len(ob2)].value = Payload(on)
    BY <1>1, <1>2, <1>3
  <2>2. ASSUME NEW i \in 1..Len(ob2), \A j \in 1..Len(ob2) : j > i => ob2[j].topic # x
        PROVE  i = Len(ob2)
    BY <1>2, <2>1, <2>2
  <2> QED BY <2>1, <2>2 DEF Ends
<1>4. ASSUME x # y
      PROVE  Ends(ob2, td, x, on)
  <2>1. Ends(ob, td, x, on)
    BY <1>4
  <2>2. \A i \in 1..Len(ob2) : ob2[i].topic = x => i \in 1..Len(ob)
    BY <1>1, <1>2, <1>4
  <2>3. (\A i \in 1..Len(ob2) : ob2[i].topic # x) => (\A i \in 1..Len(ob) : ob[i].topic # x)
    BY <1>2
  <2>4. ASSUME NEW i \in 1..Len(ob2), ob2[i].topic = x,
               \A j \in 1..Len(ob2) : j > i => ob2[j].topic # x
        PROVE  ob2[i].value = Payload(on)
    <3>1. i \in 1..Len(ob) /\ ob[i] = ob2[i]
      BY <1>2, <2>2, <2>4
    <3>2. \A j \in 1..Len(ob) : j > i => ob[j].topic # x
      BY <1>2, <2>4
    <3> QED BY <2>1, <2>4, <3>1, <3>2 DEF Ends
  <2> QED BY <2>1, <2>3, <2>4 DEF Ends
<1> QED BY <1>3, <1>4 DEF ob2, m

\* A delivery does not change where a topic ends, whether or not the broker's
\* acknowledgement comes through.
LEMMA EndsDelivered ==
    ASSUME NEW ob \in Seq(OutboxMessage), ob # <<>>, NEW td \in [Topic -> {"none", "0", "1"}],
           NEW x \in Topic, NEW on \in BOOLEAN, Ends(ob, td, x, on)
    PROVE  LET td2 == [td EXCEPT ![Head(ob).topic] = Head(ob).value]
           IN  Ends(ob, td2, x, on) /\ Ends(Tail(ob), td2, x, on)
<1> DEFINE td2 == [td EXCEPT ![Head(ob).topic] = Head(ob).value]
           tl == Tail(ob)
<1>1. /\ Len(ob) \in Nat \ {0} /\ Len(tl) = Len(ob) - 1
      /\ \A i \in 1..Len(tl) : tl[i] = ob[i + 1]
  BY HeadTailProperties, EmptySeq
<1>2. Head(ob) = ob[1] /\ ob[1] \in OutboxMessage /\ ob[1].topic \in Topic
  <2>1. Head(ob) = ob[1]
    OBVIOUS
  <2>2. ob[1] \in OutboxMessage
    BY <1>1, ElementOfSeq
  <2> QED BY <2>1, <2>2 DEF OutboxMessage
<1>3. td2[x] = IF x = ob[1].topic THEN ob[1].value ELSE td[x]
  BY <1>2
<1> HIDE DEF td2, tl
<1>4. Ends(ob, td2, x, on)
  <2>1. ASSUME \A i \in 1..Len(ob) : ob[i].topic # x
        PROVE  (td2[x] = "1") <=> on
    <3>1. td2[x] = td[x]
      BY <1>1, <1>3, <2>1
    <3> QED BY <2>1, <3>1 DEF Ends
  <2>2. ASSUME NEW i \in 1..Len(ob), ob[i].topic = x,
               \A j \in 1..Len(ob) : j > i => ob[j].topic # x
        PROVE  ob[i].value = Payload(on)
    BY <2>2 DEF Ends
  <2> QED BY <2>1, <2>2 DEF Ends
<1>5. ASSUME \A i \in 1..Len(tl) : tl[i].topic # x
      PROVE  (td2[x] = "1") <=> on
  <2>1. \A j \in 1..Len(ob) : j > 1 => ob[j].topic # x
    <3>1. SUFFICES ASSUME NEW j \in 1..Len(ob), j > 1
                   PROVE  ob[j].topic # x
      OBVIOUS
    <3>2. j - 1 \in 1..Len(tl) /\ tl[j - 1] = ob[j]
      BY <1>1, <3>1
    <3> QED BY <1>5, <3>2
  <2>2. CASE ob[1].topic = x
    <3>1. ob[1].value = Payload(on)
      BY <1>1, <2>1, <2>2 DEF Ends
    <3> QED BY <1>3, <2>2, <3>1 DEF Payload
  <2>3. CASE ob[1].topic # x
    <3>1. \A j \in 1..Len(ob) : ob[j].topic # x
      BY <1>1, <2>1, <2>3
    <3> QED BY <1>3, <2>3, <3>1 DEF Ends
  <2> QED BY <2>2, <2>3
<1>6. ASSUME NEW i \in 1..Len(tl), tl[i].topic = x,
             \A j \in 1..Len(tl) : j > i => tl[j].topic # x
      PROVE  tl[i].value = Payload(on)
  <2>1. i + 1 \in 1..Len(ob) /\ ob[i + 1] = tl[i]
    BY <1>1
  <2>2. ASSUME NEW j \in 1..Len(ob), j > i + 1
        PROVE  ob[j].topic # x
    <3>1. j - 1 \in 1..Len(tl) /\ j - 1 > i /\ tl[j - 1] = ob[j]
      BY <1>1, <2>2
    <3> QED BY <1>6, <3>1
  <2> QED BY <1>6, <2>1, <2>2 DEF Ends
<1>7. Ends(tl, td2, x, on)
  BY <1>5, <1>6 DEF Ends
<1> QED BY <1>4, <1>7 DEF td2, tl

\* Where topic x ends is what p has sent for it: the settings a for the
\* topics p has dealt with, the stored ones for those still to come.
SentFor(p, a, x) ==
    IF /\ publish[p].stage \in {"compare", "send"}
       /\ \E i \in 1..4 : i >= publish[p].k /\ TopicOrder[i] = x
    THEN last[x] ELSE a[x]

Links(p, a) ==
    /\ ~Idle(p) => global_client
    /\ \A x \in Topic : Ends(outbox, told, x, SentFor(p, a, x))

LinkInv(p) == Links(p, act)

LEMMA SentForType ==
    ASSUME NEW p \in Task, NEW a \in Setting, NEW x \in Topic, ActuatorTypeOK
    PROVE  SentFor(p, a, x) \in BOOLEAN
  BY DEF SentFor, ActuatorTypeOK, Setting

\* Moving on from topic k changes what is expected of that topic only.
LEMMA AfterTopicSent ==
    ASSUME NEW p \in Task, NEW a \in Setting, ActuatorTypeOK,
           publish[p].stage \in {"compare", "send"},
           publish' = [publish EXCEPT ![p] = AfterTopic(publish[p])],
           last' = last,
           NEW x \in Topic
    PROVE  SentFor(p, a, x)' = IF x = CurrentTopic(p) THEN a[x] ELSE SentFor(p, a, x)
<1> DEFINE k == publish[p].k
<1>1. k \in 1..4
  BY TopicOrderFacts DEF ActuatorTypeOK, Progress, Idle
<1>2. PICK n \in 1..4 : TopicOrder[n] = x
  BY TopicOrderFacts
<1>3. \A i \in 1..4 : TopicOrder[i] = x => i = n
  BY <1>2, TopicOrderFacts
<1>4. CurrentTopic(p) = x <=> n = k
  BY <1>1, <1>2, <1>3 DEF CurrentTopic
<1>5. SentFor(p, a, x) = IF n >= k THEN last[x] ELSE a[x]
  BY <1>1, <1>2, <1>3 DEF SentFor
<1>6. CASE k < 4
  <2>1. publish'[p].stage = "compare" /\ publish'[p].k = k + 1
    BY <1>6, TopicOrderFacts DEF AfterTopic, ActuatorTypeOK
  <2>2. SentFor(p, a, x)' = IF n >= k + 1 THEN last[x] ELSE a[x]
    BY <1>1, <1>2, <1>3, <2>1 DEF SentFor
  <2> QED BY <1>1, <1>4, <1>5, <2>2
<1>7. CASE k = 4
  <2>1. publish'[p].stage = "record"
    BY <1>7, TopicOrderFacts DEF AfterTopic, ActuatorTypeOK
  <2>2. SentFor(p, a, x)' = a[x]
    BY <2>1 DEF SentFor
  <2> QED BY <1>1, <1>4, <1>5, <1>7, <2>2
<1> QED BY <1>1, <1>6, <1>7

LEMMA LinksStep ==
    ASSUME NEW p \in Task, NEW a \in Setting, NEW b \in Setting,
           AwaitConnected, ActuatorTypeOK, Publishes(p, a), Links(p, a),
           OnePublisherStep(p, a, b)
    PROVE  Links(p, b)'
<1> USE DEF Links, Idle
<1>0. /\ publish \in [Task -> Progress] /\ last \in Setting
      /\ outbox \in Seq(OutboxMessage) /\ told \in [Topic -> {"none", "0", "1"}]
  BY DEF ActuatorTypeOK
<1>1. CASE StartsWith(p, b)
  <2>1. global_client
    BY <1>1 DEF StartsWith, Ready
  <2>2. publish[p].stage = "idle" /\ last = a
    BY <1>1 DEF StartsWith, Publishes
  <2>3. publish'[p].stage = "compare" /\ publish'[p].k = 1 /\ last' = last
    BY <1>0, <1>1 DEF StartsWith, StartPublish
  <2>4. \A x \in Topic : SentFor(p, b, x)' = SentFor(p, a, x)
    <3>1. SUFFICES ASSUME NEW x \in Topic
                   PROVE  SentFor(p, b, x)' = SentFor(p, a, x)
      OBVIOUS
    <3>2. \E i \in 1..4 : i >= 1 /\ TopicOrder[i] = x
      BY TopicOrderFacts
    <3> QED BY <2>2, <2>3, <3>2 DEF SentFor
  <2>5. outbox' = outbox /\ told' = told /\ global_client' = global_client
    BY <1>1 DEF StartsWith, link_vars
  <2> QED BY <2>1, <2>4, <2>5
<1>2. ASSUME NEW t \in Task, Compare(t)
      PROVE  Links(p, a)'
  <2>1. t = p /\ publish[p].stage = "compare" /\ publish[p].snap = a
    BY <1>2 DEF Compare, Publishes
  <2>2. /\ last' = last
        /\ outbox' = outbox /\ told' = told /\ global_client' = global_client
    BY <1>2 DEF Compare, link_vars
  <2>3. CASE a[CurrentTopic(p)] # last[CurrentTopic(p)]
    <3>1. publish'[p].stage = "send" /\ publish'[p].k = publish[p].k
      BY <1>0, <1>2, <2>1, <2>3 DEF Compare, Progress
    <3>2. \A x \in Topic : SentFor(p, a, x)' = SentFor(p, a, x)
      BY <2>1, <2>2, <3>1 DEF SentFor
    <3> QED BY <2>1, <2>2, <3>2
  <2>4. CASE a[CurrentTopic(p)] = last[CurrentTopic(p)]
    <3>1. publish' = [publish EXCEPT ![p] = AfterTopic(publish[p])]
      BY <1>2, <2>1, <2>4 DEF Compare
    <3>2. \A x \in Topic : SentFor(p, a, x)' = SentFor(p, a, x)
      <4>1. \A x \in Topic : SentFor(p, a, x) \in {last[x], a[x]}
        BY DEF SentFor
      <4> QED BY <2>1, <2>2, <2>4, <3>1, <4>1, AfterTopicSent
    <3> QED BY <2>1, <2>2, <3>2
  <2> QED BY <2>3, <2>4
<1>3. ASSUME NEW t \in Task, Send(t)
      PROVE  Links(p, a)'
  <2>1. t = p /\ publish[p].stage = "send" /\ publish[p].snap = a
    BY <1>3 DEF Send, Publishes
  <2> DEFINE y == CurrentTopic(p)
  <2>2. publish[p].k \in 1..4 /\ y \in Topic
    BY <1>0, <2>1, TopicOrderFacts DEF ActuatorTypeOK, Progress, CurrentTopic
  <2>3. /\ last' = last /\ told' = told /\ global_client' = global_client
        /\ publish' = [publish EXCEPT ![p] = AfterTopic(publish[p])]
    BY <1>3, <2>1 DEF Send
  <2>4. outbox' = Append(outbox, [topic |-> y, value |-> Payload(a[y])])
    BY <1>3, <2>1 DEF Send
  <2>5. ASSUME NEW x \in Topic
        PROVE  Ends(outbox', told', x, SentFor(p, a, x)')
    <3>1. SentFor(p, a, x)' = IF x = y THEN a[x] ELSE SentFor(p, a, x)
      BY <2>1, <2>3, AfterTopicSent
    <3>2. a[y] \in BOOLEAN /\ a[x] \in BOOLEAN /\ SentFor(p, a, x) \in BOOLEAN
      BY <2>2, SentForType DEF Setting
    <3>3. Ends(outbox, told, x, SentFor(p, a, x))
      OBVIOUS
    <3> HIDE DEF y
    <3>4. CASE x = y
      BY <1>0, <2>2, <2>3, <2>4, <3>1, <3>2, <3>4, EndsAppend
    <3>5. CASE x # y
      BY <1>0, <2>2, <2>3, <2>4, <3>1, <3>2, <3>3, <3>5, EndsAppend
    <3> QED BY <3>4, <3>5
  <2> QED BY <2>1, <2>3, <2>5
<1>4. ASSUME NEW t \in Task, Record(t)
      PROVE  Links(p, a)'
  <2>1. t = p /\ publish[p].stage = "record"
    BY <1>4 DEF Record, Publishes
  <2>2. publish'[p].stage \in {"idle", "record"}
    <3>1. publish'[p] = AfterRecord(publish[p])
      BY <1>0, <1>4, <2>1 DEF Record
    <3>2. publish[p] \in Progress
      BY <1>0
    <3> QED BY <2>1, <3>1, <3>2 DEF AfterRecord, NotPublishing, Progress
  <2>3. \A x \in Topic : SentFor(p, a, x)' = SentFor(p, a, x)
    BY <1>4, <2>1, <2>2 DEF SentFor, Record
  <2> QED BY <1>4, <2>1, <2>3 DEF Record, link_vars
<1>5. ASSUME BeforeConnect \/ Connected \/ Disconnected
      PROVE  Links(p, a)'
  <2>1. /\ outbox' = outbox /\ told' = told /\ UNCHANGED publish_vars
        /\ global_client => global_client'
    BY <1>5 DEF BeforeConnect, Connected, Disconnected
  <2>2. \A x \in Topic : SentFor(p, a, x)' = SentFor(p, a, x)
    BY <2>1 DEF SentFor, publish_vars
  <2> QED BY <2>1, <2>2 DEF publish_vars
<1>6. ASSUME Deliver \/ DeliverUnacknowledged
      PROVE  Links(p, a)'
  <2>1. /\ outbox # <<>> /\ outbox' \in {outbox, Tail(outbox)}
        /\ told' = [told EXCEPT ![Head(outbox).topic] = Head(outbox).value]
        /\ UNCHANGED <<publish_vars, global_client>>
    BY <1>6 DEF Deliver, DeliverUnacknowledged, HeadIsStored
  <2>2. \A x \in Topic : SentFor(p, a, x)' = SentFor(p, a, x)
    BY <2>1 DEF SentFor, publish_vars
  <2>3. \A x \in Topic : Ends(outbox', told', x, SentFor(p, a, x))
    BY <1>0, <2>1, SentForType, EndsDelivered
  <2> QED BY <2>1, <2>2, <2>3 DEF publish_vars
<1>7. ASSUME UNCHANGED <<last, publish, link_vars>>
      PROVE  Links(p, a)'
  <2>1. \A x \in Topic : SentFor(p, a, x)' = SentFor(p, a, x)
    BY <1>7 DEF SentFor
  <2> QED BY <1>7, <2>1 DEF link_vars
<1> HIDE DEF Links
<1>8. Moves => Links(p, a)'
  BY <1>2, <1>3, <1>4, <1>5, <1>6, <1>7 DEF Moves, PublishStep, LinkNext
<1> QED BY <1>1, <1>8 DEF OnePublisherStep

LEMMA LinkInvStep ==
    ASSUME NEW p \in Task, Publisher = {p}, AwaitConnected,
           ActuatorTypeOK, ActuatorTypeOK', LastInv(p), LinkInv(p),
           [ActuatorNext]_actuator_vars
    PROVE  LinkInv(p)'
<1> SUFFICES ASSUME NEW b \in Setting, b = act'
             PROVE  LinkInv(p)'
  BY DEF ActuatorTypeOK
<1>1. PICK a \in Setting : a = act
  BY DEF ActuatorTypeOK
<1>2. OnePublisherStep(p, a, b)
  BY <1>1, OneDecides
<1>3. Links(p, b)'
  BY <1>1, <1>2, LinksStep DEF LastInv, LinkInv
<1> QED BY <1>3 DEF LinkInv, Links, SentFor

LEMMA LinkInvInit ==
    ASSUME NEW p \in Task, ActuatorInit
    PROVE  LinkInv(p)
<1>1. /\ publish[p].stage = "idle" /\ Len(outbox) = 0
      /\ \A x \in Topic : told[x] = "none" /\ act[x] = FALSE
  BY DEF ActuatorInit, NotPublishing, AllOff, Settings, Topic
<1>2. \A x \in Topic : SentFor(p, act, x) = FALSE
  BY <1>1 DEF SentFor
<1> QED BY <1>1, <1>2 DEF LinkInv, Links, Ends, Idle

\* Once p is done and nothing is on its way, the nodes know a.
LEMMA LinksSettle ==
    ASSUME NEW p \in Task, NEW a \in Setting, NEW x \in Topic, Links(p, a), Settled
    PROVE  ToldOn(x) <=> a[x]
<1>1. publish[p].stage = "idle" /\ Len(outbox) = 0
  BY DEF Settled, Idle
<1>2. SentFor(p, a, x) = a[x]
  BY <1>1 DEF SentFor
<1> QED BY <1>1, <1>2 DEF Links, Ends, ToldOn

\* With one publisher that waits for the client, as the README's startup
\* order has it, the nodes have been told the settings in force whenever
\* publish_state has returned and the outbox is empty: no loss of the
\* connection and no repeated delivery leaves them with anything else.
THEOREM SettledNodesAgree ==
    ASSUME NEW p \in Task, Publisher = {p}, AwaitConnected
    PROVE  ActuatorSpec => []SettledAgreement
<1> DEFINE Inv == LastInv(p) /\ LinkInv(p)
<1>1. ActuatorInit => Inv
  <2>1. ActuatorInit => LastInv(p)
    BY DEF ActuatorInit, LastInv, Publishes, Idle, NotPublishing
  <2> QED BY <2>1, LinkInvInit
<1>2. ActuatorTypeOK /\ ActuatorTypeOK' /\ Inv /\ [ActuatorNext]_actuator_vars => Inv'
  BY LastInvStep, LinkInvStep
<1>3. ActuatorTypeOK /\ Inv => SettledAgreement
  BY LinksSettle DEF LinkInv, SettledAgreement, ActuatorTypeOK
<1> QED BY <1>1, <1>2, <1>3, ActuatorTypeCorrect, PTL DEF ActuatorSpec
=============================================================================
