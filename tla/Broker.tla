------------------------------ MODULE Broker ------------------------------
(***************************************************************************)
(* The mosquitto broker that runs inside the firmware, between the         *)
(* center's own MQTT client and the actuator nodes: the message store, the *)
(* retained messages, the subscriptions and the sessions of the nodes.     *)
(* The broker is one task, so a packet is handled in one step; the steps   *)
(* of the nodes, of their connections and of the main loop interleave.     *)
(* Modelled: MQTT 3.1.1, the center publishing retained with QoS 1, the    *)
(* nodes subscribing with QoS 0 or 1, port/config.c's settings.  A message *)
(* is the number of its publication.                                       *)
(***************************************************************************)
EXTENDS Integers, Sequences, FiniteSets, SequencesExt

CONSTANTS Node,          \* client ids of the nodes
          Topic,
          Slots,         \* contexts that can exist at once (allocation order)
          InflightMax,   \* max_inflight_messages
          QueuedMax,     \* max_queued_messages
          MaxPublish,    \* bound on the publications
          MaxConnects,   \* bound on the connections
          SocketStalls   \* may a send be left unfinished (EAGAIN)?

NoId == "no_id"

ASSUME BrokerAssumption ==
    /\ Slots \in Nat \ {0} /\ InflightMax \in Nat \ {0} /\ QueuedMax \in Nat
    /\ MaxPublish \in Nat /\ MaxConnects \in Nat
    /\ SocketStalls \in BOOLEAN
    /\ NoId \notin Node

VARIABLES
    db,          \* the broker's global state
    published,   \* the topics of the publications so far
    connects,    \* connections so far
    link,        \* the context a node's own end of the connection belongs to
    acks,        \* PUBACKs on their way to a context
    sub_qos,     \* the QoS each node's firmware subscribes with
    asked,       \* topics a node has subscribed to on this connection
    shows,       \* the message each node acts on
    missed       \* <<node, topic>>: the newest message was dropped

vars == <<db, published, connects, link, acks, sub_qos, asked, shows, missed>>

Slot == 1..Slots
NoSlot == 0
NoMessage == 0

(* struct mosquitto, as far as the nodes' sessions need it *)
NewContext ==
    [state |-> "free", id |-> NoId, clean |-> TRUE, subs |-> {},
     inflight |-> <<>>, queued |-> <<>>, quota |-> InflightMax,
     last_mid |-> 0, out |-> <<>>]

Connected(c) == c.state = "active"

BrokerInit ==
    /\ db = [ctx |-> [s \in Slot |-> NewContext], leaves |-> {},
             store |-> <<>>, retained |-> [t \in Topic |-> NoMessage]]
    /\ published = <<>>
    /\ connects = 0
    /\ link = [n \in Node |-> NoSlot]
    /\ acks = [s \in Slot |-> <<>>]
    /\ sub_qos \in [Node -> {0, 1}]
    /\ asked = [n \in Node |-> {}]
    /\ shows = [n \in Node |-> [t \in Topic |-> NoMessage]]
    /\ missed = {}

-----------------------------------------------------------------------------
(* The message store: reference counts *)

db__message_store(d, n) ==
    [d EXCEPT !.store = [m \in DOMAIN @ \cup {n} |->
        IF m = n THEN [ref |-> 0, dest |-> {}] ELSE @[m]]]

db__msg_store_ref_inc(d, n) == [d EXCEPT !.store[n].ref = @ + 1]

db__msg_store_ref_dec(d, n) ==
    IF d.store[n].ref = 1
    THEN [d EXCEPT !.store = [m \in DOMAIN @ \ {n} |-> @[m]]]
    ELSE [d EXCEPT !.store[n].ref = @ - 1]

(* The messages of a list of client messages are let go of. *)
Released(d, list) ==
    LET left[k \in 0..Len(list)] ==
            IF k = 0 THEN d ELSE db__msg_store_ref_dec(left[k - 1], list[k].msg)
    IN  left[Len(list)]

-----------------------------------------------------------------------------
(* Messages in flight to a client, and behind them the queue *)

mosquitto__mid_generate(last) == IF last = 65535 THEN 1 ELSE last + 1

db__ready_for_flight(c, qos) == qos = 0 \/ c.quota > 0

db__ready_for_queue(c, qos) ==
    /\ qos > 0
    /\ Len(c.queued) - (IF Connected(c) THEN InflightMax ELSE 0) < QueuedMax

(* What becomes of a message for this client? *)
Fate(c, qos) ==
    IF Connected(c) /\ db__ready_for_flight(c, qos) THEN "publish"
    ELSE IF db__ready_for_queue(c, qos) THEN "queued" ELSE "dropped"

(* Items of the queue go in flight while the quota lasts. *)
db__message_write_queued_out(c) ==
    LET n == Min({c.quota, Len(c.queued)})
        moved == [i \in 1..n |-> [c.queued[i] EXCEPT !.state = "publish"]]
    IN  [c EXCEPT !.inflight = @ \o moved,
                  !.queued = SubSeq(@, n + 1, Len(@)),
                  !.quota = @ - n]

(* The next item of the list: one that is still to be sent is sent; with QoS 0
   it is done with, with QoS 1 it waits for the PUBACK. *)
db__message_write_inflight_out_single(d, s, item) ==
    LET sent == [d EXCEPT !.ctx[s].out = Append(@, item)]
        Keep(e, kept) == [e EXCEPT !.ctx[s].inflight = Append(@, kept)]
    IN  CASE item.state # "publish" -> Keep(d, item)
          [] item.state = "publish" /\ item.qos = 0 ->
                db__msg_store_ref_dec(sent, item.msg)
          [] OTHER -> Keep(sent, [item EXCEPT !.state = "wait"])

(* The items in flight from place i on are written, those before it stay. *)
WrittenFrom(d, s, i) ==
    LET list == d.ctx[s].inflight
        written[k \in 0..Len(list)] ==
            IF k = 0 THEN [d EXCEPT !.ctx[s].inflight = <<>>]
            ELSE IF k < i THEN [written[k - 1] EXCEPT
                                    !.ctx[s].inflight = Append(@, list[k])]
            ELSE db__message_write_inflight_out_single(written[k - 1], s, list[k])
    IN  IF Connected(d.ctx[s]) THEN written[Len(list)] ELSE d

db__message_write_inflight_out_all(d, s) == WrittenFrom(d, s, 1)

(* From the first of the unsent items at the end of the list; the head of the
   list is always looked at. *)
db__message_write_inflight_out_latest(d, s) ==
    LET list == d.ctx[s].inflight
        waiting == {i \in 2..Len(list) : list[i].state # "publish"}
    IN  WrittenFrom(d, s, IF waiting = {} THEN 1 ELSE Max(waiting) + 1)

(* Its item in flight or in the queue, unless the message is dropped or (for
   one that is not a retained copy) this client was already given it. *)
Held(d, s, n, mid, qos, retain) ==
    LET fate == Fate(d.ctx[s], qos)
        item == [msg |-> n, mid |-> mid, qos |-> qos, retain |-> retain,
                 state |-> fate]
        e == db__msg_store_ref_inc(d, n)
    IN  [e EXCEPT
            !.ctx[s].inflight = IF fate = "publish" THEN Append(@, item) ELSE @,
            !.ctx[s].queued = IF fate = "queued" THEN Append(@, item) ELSE @,
            !.ctx[s].quota = IF fate = "publish" /\ qos > 0 THEN @ - 1 ELSE @,
            !.store[n].dest = IF retain THEN @ ELSE @ \cup {d.ctx[s].id}]

Updated(d, s) ==
    LET e == db__message_write_inflight_out_latest(d, s)
    IN  IF Connected(e.ctx[s])
        THEN [e EXCEPT !.ctx[s] = db__message_write_queued_out(@)] ELSE e

(* Mutant: a client is not given a retained copy of what it was sent before. *)
InsertOnce(d, s, n, mid, qos, retain, update) ==
    LET c == d.ctx[s]
        refused == \/ c.id = NoId
                   \/ c.id \in d.store[n].dest
                   \/ Fate(c, qos) = "dropped"
        e == Held(d, s, n, mid, qos, retain)
    IN  IF refused THEN d ELSE IF update THEN Updated(e, s) ELSE e

db__message_insert(d, s, n, mid, qos, retain, update) ==
    LET c == d.ctx[s]
        refused == \/ c.id = NoId
                   \/ ~retain /\ c.id \in d.store[n].dest
                   \/ Fate(c, qos) = "dropped"
        e == Held(d, s, n, mid, qos, retain)
    IN  IF refused THEN d ELSE IF update THEN Updated(e, s) ELSE e

(* A QoS 1 message takes a new packet identifier, used up even when the
   message is then dropped. *)
Offered(d, s, n, qos, retain, update) ==
    LET mid == IF qos = 0 THEN 0
               ELSE mosquitto__mid_generate(d.ctx[s].last_mid)
        e == IF qos = 0 THEN d ELSE [d EXCEPT !.ctx[s].last_mid = mid]
    IN  db__message_insert(e, s, n, mid, qos, retain, update)

subs__send(d, leaf, n) == Offered(d, leaf.slot, n, leaf.qos, FALSE, TRUE)

(* The leaves of a topic whose context still has its id *)
Subscribers(d, t) ==
    {leaf \in d.leaves : leaf.topic = t /\ d.ctx[leaf.slot].id # NoId}

subs__process(d, t, n) ==
    LET leaves == SetToSeq(Subscribers(d, t))
        sent[k \in 0..Len(leaves)] ==
            IF k = 0 THEN d ELSE subs__send(sent[k - 1], leaves[k], n)
    IN  sent[Len(leaves)]

(* Mutant: the old copy is not let go of. *)
RetainKeepsOld(d, t, n) ==
    db__msg_store_ref_inc([d EXCEPT !.retained[t] = n], n)

retain__store(d, t, n) ==
    LET e == IF d.retained[t] = NoMessage THEN d
             ELSE db__msg_store_ref_dec(d, d.retained[t])
    IN  db__msg_store_ref_inc([e EXCEPT !.retained[t] = n], n)

(* The message is protected while it is being sent, then let go of. *)
sub__messages_queue(d, t, n) ==
    db__msg_store_ref_dec(
        retain__store(subs__process(db__msg_store_ref_inc(d, n), t, n), t, n), n)

retain__process(d, s, t, qos) ==
    IF d.retained[t] = NoMessage THEN d
    ELSE Offered(d, s, d.retained[t], qos, TRUE, FALSE)

(* db__message_remove_from_inflight for the item of this packet identifier *)
WithoutMid(d, s, mid) ==
    LET list == d.ctx[s].inflight
        found == {i \in DOMAIN list : list[i].mid = mid}
        i == Min(found)
    IN  IF found = {} THEN d
        ELSE db__msg_store_ref_dec(
                [d EXCEPT !.ctx[s].inflight = RemoveAt(@, i)], list[i].msg)

(* Mutant: the queue does not move on. *)
DeleteLeavesQueue(d, s, mid) ==
    db__message_write_inflight_out_latest(WithoutMid(d, s, mid), s)

(* Mutant: what moves on from the queue is not sent. *)
DeleteSendsNothing(d, s, mid) ==
    [WithoutMid(d, s, mid) EXCEPT !.ctx[s] = db__message_write_queued_out(@)]

(* Mutant: the quota that handle__pubackcomp has given back is given back
   once more. *)
DeleteGivesQuota(d, s, mid) ==
    LET e == [WithoutMid(d, s, mid) EXCEPT !.ctx[s].quota = @ + 1]
    IN  db__message_write_inflight_out_latest(
            [e EXCEPT !.ctx[s] = db__message_write_queued_out(@)], s)

db__message_delete_outgoing(d, s, mid) ==
    db__message_write_inflight_out_latest(
        [WithoutMid(d, s, mid) EXCEPT !.ctx[s] = db__message_write_queued_out(@)], s)

-----------------------------------------------------------------------------
(* Subscriptions and sessions *)

(* A second subscription of the same client to a topic only sets its QoS. *)
sub__add(d, s, t, qos) ==
    LET same == {leaf \in d.leaves : /\ leaf.topic = t
                                     /\ d.ctx[leaf.slot].id = d.ctx[s].id}
    IN  IF same # {}
        THEN [d EXCEPT !.leaves = (@ \ same) \cup
                                  {[leaf EXCEPT !.qos = qos] : leaf \in same}]
        ELSE [d EXCEPT !.leaves = @ \cup {[topic |-> t, slot |-> s, qos |-> qos]},
                       !.ctx[s].subs = @ \cup {t}]

sub__remove(d, s, t) ==
    [d EXCEPT !.leaves = {leaf \in @ : ~(leaf.topic = t /\ leaf.slot = s)},
              !.ctx[s].subs = @ \ {t}]

(* It goes by the context's own list of subscriptions. *)
sub__clean_session(d, s) ==
    [d EXCEPT !.leaves = {leaf \in @ : ~(/\ leaf.topic \in d.ctx[s].subs
                                         /\ leaf.slot = s)},
              !.ctx[s].subs = {}]

(* The session of a client that asked for a clean one ends here: its id is
   given up and the context is freed by the main loop. *)
do_disconnect(d, s) ==
    [d EXCEPT !.ctx[s].out = <<>>,
              !.ctx[s].state = IF d.ctx[s].clean THEN "disused" ELSE "disconnected",
              !.ctx[s].id = IF d.ctx[s].clean THEN NoId ELSE @]

(* Mutant: what is in flight is not counted. *)
ResetForgetsInflight(c) ==
    LET again == [i \in DOMAIN c.inflight |->
                    [c.inflight[i] EXCEPT !.state = "publish"]]
    IN  db__message_write_queued_out(
            [c EXCEPT !.inflight = again, !.quota = InflightMax])

(* Everything in flight is sent again, and the quota lets the queue move on. *)
db__message_reconnect_reset(c) ==
    LET again == [i \in DOMAIN c.inflight |->
                    [c.inflight[i] EXCEPT !.state = "publish"]]
        used == Cardinality({i \in DOMAIN again : again[i].qos > 0})
        quota == IF used > InflightMax THEN 0 ELSE InflightMax - used
    IN  db__message_write_queued_out([c EXCEPT !.inflight = again, !.quota = quota])

(* Mutant: last_mid starts again. *)
SubscriptionsMoved(c, old) == [c EXCEPT !.subs = old.subs]

BookkeepingMoved(c, old) == [c EXCEPT !.subs = old.subs, !.last_mid = old.last_mid]

(* The new context s carries on the session of context f ... *)
ContextMoved(d, s, f) ==
    LET old == d.ctx[f]
        fresh == BookkeepingMoved(d.ctx[s], old)
        full == [fresh EXCEPT !.inflight = old.inflight, !.queued = old.queued]
        none == old.inflight = <<>> /\ old.queued = <<>>
    IN  [d EXCEPT
            !.ctx[s] = IF none THEN fresh ELSE db__message_reconnect_reset(full),
            !.ctx[f].inflight = <<>>, !.ctx[f].queued = <<>>, !.ctx[f].subs = {}]

(* Mutant: the leaves are not relinked. *)
SessionMovedOldLeaves(d, s, f) == ContextMoved(d, s, f)

(* ... and its leaves are relinked to it. *)
SessionMoved(d, s, f) ==
    [ContextMoved(d, s, f) EXCEPT
        !.leaves = {IF leaf.slot = f /\ leaf.topic \in d.ctx[f].subs
                    THEN [leaf EXCEPT !.slot = s] ELSE leaf : leaf \in @}]

(* A context of this id, connected or not, gives way to the new one. *)
TakenOver(d, s, f) ==
    LET clean == d.ctx[s].clean
        e == IF ~clean /\ ~d.ctx[f].clean THEN SessionMoved(d, s, f)
             ELSE IF clean THEN sub__clean_session(d, f) ELSE d
    IN  do_disconnect([e EXCEPT !.ctx[f].clean = TRUE], f)

connect__on_authorised(d, s, n) ==
    LET found == {f \in Slot \ {s} : d.ctx[f].id = n}
        e == IF found = {} THEN d ELSE TakenOver(d, s, Min(found))
        active == [e EXCEPT !.ctx[s].state = "active", !.ctx[s].id = n]
    IN  db__message_write_inflight_out_all(
            [active EXCEPT !.ctx[s] = db__message_write_queued_out(@)], s)

(* context__cleanup with force_free: subscriptions, then messages *)
context__cleanup(d, s) ==
    LET e == sub__clean_session(d, s)
        c == d.ctx[s]
    IN  Released([e EXCEPT !.ctx[s] = NewContext], c.inflight \o c.queued)

-----------------------------------------------------------------------------
(* The main loop and what it handles *)

FreeSlots == {s \in Slot : db.ctx[s].state = "free"}
Disused == {s \in Slot : db.ctx[s].state = "disused"}

(* For the properties: which messages were not kept for which client *)
MissedAfter(d, t, offered) ==
    LET all == {<<d.ctx[leaf.slot].id, t>> : leaf \in offered}
        lost == {<<d.ctx[leaf.slot].id, t>> : leaf \in
                    {l \in offered : Fate(d.ctx[l.slot], l.qos) = "dropped"}}
    IN  (missed \ all) \cup lost

(* The center publishes a setting: retained, QoS 1. *)
handle__publish(t) ==
    LET n == Len(published) + 1 IN
    /\ Len(published) < MaxPublish
    /\ published' = Append(published, t)
    /\ db' = sub__messages_queue(db__message_store(db, n), t, n)
    /\ missed' = MissedAfter(db, t, Subscribers(db, t))
    /\ UNCHANGED <<connects, link, acks, sub_qos, asked, shows>>

handle__connect(n, clean) ==
    LET s == Min(FreeSlots) IN
    /\ connects < MaxConnects
    /\ FreeSlots # {}
    /\ link[n] = NoSlot
    /\ db' = connect__on_authorised([db EXCEPT !.ctx[s].clean = clean], s, n)
    /\ link' = [link EXCEPT ![n] = s]
    /\ connects' = connects + 1
    /\ asked' = [asked EXCEPT ![n] = {}]
    /\ UNCHANGED <<published, acks, sub_qos, shows, missed>>

(* A node's request reaches the broker after its earlier PUBACKs. *)
Requests(n) == link[n] # NoSlot /\ acks[link[n]] = <<>>

(* The retained message is put in flight, and sent only if the socket took
   the SUBACK at once (packet__write left nothing over). *)
handle__subscribe(n, t, taken) ==
    LET s == link[n]
        added == sub__add(db, s, t, sub_qos[n])
        e == retain__process(added, s, t, sub_qos[n])
        copy == {leaf \in added.leaves : /\ leaf.topic = t /\ leaf.slot = s
                                         /\ db.retained[t] # NoMessage}
    IN
    /\ Requests(n)
    /\ t \notin asked[n]
    /\ SocketStalls \/ taken
    /\ db' = IF taken
             THEN db__message_write_inflight_out_latest(
                    [e EXCEPT !.ctx[s] = db__message_write_queued_out(@)], s)
             ELSE e
    /\ asked' = [asked EXCEPT ![n] = @ \cup {t}]
    /\ missed' = MissedAfter(added, t, copy)
    /\ UNCHANGED <<published, connects, link, acks, sub_qos, shows>>

handle__unsubscribe(n, t) ==
    /\ Requests(n)
    /\ t \in db.ctx[link[n]].subs
    /\ db' = sub__remove(db, link[n], t)
    /\ UNCHANGED <<published, connects, link, acks, sub_qos, asked, shows, missed>>

handle__pubackcomp(s) ==
    LET c == db.ctx[s]
        quota == IF c.quota < InflightMax THEN c.quota + 1 ELSE c.quota
    IN
    /\ Connected(c)
    /\ acks[s] # <<>>
    /\ db' = db__message_delete_outgoing([db EXCEPT !.ctx[s].quota = quota],
                                         s, Head(acks[s]))
    /\ acks' = [acks EXCEPT ![s] = Tail(@)]
    /\ UNCHANGED <<published, connects, link, sub_qos, asked, shows, missed>>

handle__disconnect(n) ==
    /\ Requests(n)
    /\ db' = do_disconnect(db, link[n])
    /\ link' = [link EXCEPT ![n] = NoSlot]
    /\ UNCHANGED <<published, connects, acks, sub_qos, asked, shows, missed>>

(* The keep-alive of a connection the node no longer has runs out, or reading
   or writing on its socket fails. *)
keepalive__check(s) ==
    /\ Connected(db.ctx[s])
    /\ link[db.ctx[s].id] # s
    /\ db' = do_disconnect(db, s)
    /\ UNCHANGED <<published, connects, link, acks, sub_qos, asked, shows, missed>>

context__free_disused ==
    /\ Disused # {}
    /\ LET freed[s \in 0..Slots] ==
               IF s = 0 THEN db
               ELSE IF s \in Disused THEN context__cleanup(freed[s - 1], s)
                                     ELSE freed[s - 1]
       IN  db' = freed[Slots]
    /\ UNCHANGED <<published, connects, link, acks, sub_qos, asked, shows, missed>>

(* The nodes, outside the firmware: they act on what they receive, and may
   lose their connection without a word. *)
NodeReceives(n) ==
    LET s == link[n]
        packet == Head(db.ctx[s].out)
    IN
    /\ s # NoSlot
    /\ db.ctx[s].out # <<>>
    /\ shows' = [shows EXCEPT ![n][published[packet.msg]] = packet.msg]
    /\ db' = [db EXCEPT !.ctx[s].out = Tail(@)]
    /\ acks' = IF packet.qos = 0 THEN acks
               ELSE [acks EXCEPT ![s] = Append(@, packet.mid)]
    /\ UNCHANGED <<published, connects, link, sub_qos, asked, missed>>

LinkLost(n) ==
    /\ link[n] # NoSlot
    /\ acks' = [acks EXCEPT ![link[n]] = <<>>]
    /\ link' = [link EXCEPT ![n] = NoSlot]
    /\ UNCHANGED <<db, published, connects, sub_qos, asked, shows, missed>>

BrokerNext ==
    \/ context__free_disused
    \/ \E t \in Topic : handle__publish(t)
    \/ \E s \in Slot : handle__pubackcomp(s) \/ keepalive__check(s)
    \/ \E n \in Node :
        \/ \E clean \in BOOLEAN : handle__connect(n, clean)
        \/ \E t \in Topic, taken \in BOOLEAN : handle__subscribe(n, t, taken)
        \/ \E t \in Topic : handle__unsubscribe(n, t)
        \/ handle__disconnect(n)
        \/ NodeReceives(n)
        \/ LinkLost(n)

(* The main loop keeps running and a connected node reads its socket; nobody
   has to publish, to connect, to subscribe or to lose the connection. *)
BrokerFairness ==
    /\ WF_vars(context__free_disused)
    /\ \A s \in Slot : WF_vars(handle__pubackcomp(s)) /\ WF_vars(keepalive__check(s))
    /\ \A n \in Node : WF_vars(NodeReceives(n))

BrokerSpec == BrokerInit /\ [][BrokerNext]_vars /\ BrokerFairness

-----------------------------------------------------------------------------
Mid == 0..65535
Item == [msg : 1..MaxPublish, mid : Mid, qos : {0, 1}, retain : BOOLEAN,
         state : {"publish", "wait", "queued"}]

(* Type correctness: the contexts of the broker, its subscriptions, message
   store and retained messages, and the nodes' ends of the connections *)
TypeOK ==
    /\ \A s \in Slot :
        LET c == db.ctx[s] IN
        /\ c.state \in {"free", "active", "disconnected", "disused"}
        /\ c.id \in Node \cup {NoId} /\ c.subs \subseteq Topic
        /\ c.quota \in 0..InflightMax /\ c.last_mid \in Mid
        /\ Range(c.inflight) \cup Range(c.queued) \cup Range(c.out) \subseteq Item
    /\ db.leaves \subseteq [topic : Topic, slot : Slot, qos : {0, 1}]
    /\ DOMAIN db.store \subseteq DOMAIN published
    /\ \A t \in Topic : db.retained[t] \in 0..Len(published)
    /\ link \in [Node -> 0..Slots]

(* Everything the broker still has to deliver to a context, oldest first *)
Pending(s) == db.ctx[s].inflight \o db.ctx[s].queued

References(n) ==
    Cardinality({t \in Topic : db.retained[t] = n})
    + Cardinality(UNION {{<<s, i>> : i \in {j \in DOMAIN Pending(s) :
                                            Pending(s)[j].msg = n}} : s \in Slot})

(* Between two packets a stored message counts exactly the references to it
   (retained copies, items in flight and queued of every context), and it is
   freed once there are none: never earlier, never left behind. *)
StoreIsExact ==
    \A n \in DOMAIN published :
        IF References(n) = 0 THEN n \notin DOMAIN db.store
        ELSE n \in DOMAIN db.store /\ db.store[n].ref = References(n)

(* The subscription tree and the contexts' own lists agree through takeovers
   of sessions, disconnects and frees: a leaf points at a context that still
   exists and lists the topic, every listed topic has its leaf, and no client
   id has two contexts. *)
LeavesAreListed ==
    /\ \A leaf \in db.leaves : db.ctx[leaf.slot].state # "free"
    /\ \A s \in Slot, t \in Topic :
        t \in db.ctx[s].subs <=>
        Cardinality({leaf \in db.leaves : leaf.topic = t /\ leaf.slot = s}) = 1
    /\ \A n \in Node : Cardinality({s \in Slot : db.ctx[s].id = n}) <= 1

(* The quota of a connected client is what max_inflight_messages leaves over
   the QoS 1 messages in flight, and its queue waits only for quota: so a
   newer message never goes in flight past an older one in the queue. *)
QuotaIsExact ==
    \A s \in Slot : LET c == db.ctx[s] IN Connected(c) =>
        /\ c.quota = InflightMax
                     - Cardinality({i \in DOMAIN c.inflight : c.inflight[i].qos > 0})
        /\ c.queued # <<>> => c.quota = 0

(* Two QoS 1 messages of a client that are not yet acknowledged never share a
   packet identifier, also when a new context carries on an old session. *)
MidsAreDistinct ==
    \A s \in Slot : \A i, j \in DOMAIN Pending(s) :
        /\ i # j
        /\ Pending(s)[i].qos > 0
        /\ Pending(s)[j].qos > 0
        => Pending(s)[i].mid # Pending(s)[j].mid

(* What is on its way to a node and, behind it, what the broker still has to
   deliver; the items that wait for a PUBACK have been sent. *)
Line(s) == db.ctx[s].out \o Pending(s)

(* The places of what a connected node has yet to see of a topic, in the order
   in which it will see it *)
Coming(s, t) == {i \in DOMAIN Line(s) : /\ Line(s)[i].state # "wait"
                                        /\ published[Line(s)[i].msg] = t}

(* On one connection a node is sent the settings of a topic in the order in
   which they were published, whatever was retained, queued, in flight and
   resent before. *)
SentInOrder ==
    \A s \in Slot, t \in Topic : Connected(db.ctx[s]) =>
        \A i, j \in Coming(s, t) : i < j => Line(s)[i].msg <= Line(s)[j].msg

(* A message in flight that has not been sent is a retained copy: a live
   change of a setting is never held back in flight. *)
OnlyCopiesAreHeldBack ==
    \A s \in Slot : Connected(db.ctx[s]) =>
        \A i \in DOMAIN db.ctx[s].inflight :
            db.ctx[s].inflight[i].state = "publish" => db.ctx[s].inflight[i].retain

(* A node that has subscribed to a topic on its connection, whose newest
   message was not dropped and for which nothing is on its way *)
Subscribed(n, t) ==
    /\ link[n] # NoSlot
    /\ t \in asked[n] \cap db.ctx[link[n]].subs
    /\ <<n, t>> \notin missed

(* Once nothing of the topic is on its way to a node that has subscribed on
   its connection and was not dropped a message, the node shows the setting
   the broker retains: no loss of the connection, takeover of a session or
   full queue before leaves it behind. *)
SettledNodesShowRetained ==
    \A n \in Node, t \in Topic :
        Subscribed(n, t) /\ Coming(link[n], t) = {} => shows[n][t] = db.retained[t]

(* A message in flight to a node was left unsent by its SUBSCRIBE, whose
   answer the socket did not take at once. *)
HeldBack(n) ==
    link[n] # NoSlot /\ \E i \in DOMAIN db.ctx[link[n]].inflight :
                            db.ctx[link[n]].inflight[i].state = "publish"

(* A node that has subscribed to a topic on its connection and keeps the
   connection shows the newest setting in the end, unless a message stays
   held back: only the broker's next message to the node would send that. *)
SubscribedNodesCatchUp ==
    \A n \in Node, t \in Topic :
        []<>(Subscribed(n, t) /\ ~HeldBack(n) => shows[n][t] = db.retained[t])
=============================================================================
