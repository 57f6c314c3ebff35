--------------------------- MODULE MCBrokerClaims ---------------------------
EXTENDS MCBroker

(* A node that subscribes, again or for the first time, is sent the retained
   message: "mqttv311/mqttv5 requires retained messages are resent on
   resubscribe" (subs.c, sub__add_normal). *)
RetainedAreResent ==
    \A n \in Node, t \in Topic :
        []<>(Subscribed(n, t) => shows[n][t] = db.retained[t])
=============================================================================
