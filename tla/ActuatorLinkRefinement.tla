------------------------ MODULE ActuatorLinkRefinement -------------------------
(***************************************************************************)
(* ActuatorPublish with a single publisher implements SettingLink.  Owed   *)
(* are the messages in the outbox, and behind them what publish_state is   *)
(* still going to send: the topics it has not compared yet and whose       *)
(* setting differs from last_*.                                            *)
(***************************************************************************)
EXTENDS ActuatorPublish

MessageOf(x, on) == [topic |-> x, value |-> Payload(on)]

\* What a task at stage q of publish_state will send of the k-th topic, when
\* l is what was recorded.
PendingAt(q, l, k) ==
    LET x == TopicOrder[k]
    IN  IF q.stage \in {"compare", "send"} /\ q.k <= k /\ q.snap[x] # l[x]
        THEN <<MessageOf(x, q.snap[x])>>
        ELSE <<>>

Pending(q, l) ==
    PendingAt(q, l, 1) \o (PendingAt(q, l, 2) \o (PendingAt(q, l, 3) \o PendingAt(q, l, 4)))

\* With one publisher at most one task is inside publish_state.
Owed == outbox \o (Pending(publish["system_task"], last) \o Pending(publish["httpd"], last))

Promise == INSTANCE SettingLink WITH setting <- act, owed <- Owed

\* Every step of publish_state, of the client and of the broker is a step of
\* SettingLink or none, and what is owed is told, whatever the connection does.
ImplementsSettingLink == Promise!SettingLinkSpec
=============================================================================
