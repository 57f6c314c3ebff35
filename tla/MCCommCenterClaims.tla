------------------------- MODULE MCCommCenterClaims -------------------------
(***************************************************************************)
(* What the documentation says of the system and the code does not do.     *)
(***************************************************************************)
EXTENDS MCCommCenter

\* api.md:551 "MQTT and HTTP can be used at the same time - they do not
\* interfere": settings reach the nodes as the status endpoint reports them,
\* also when system_task is still publishing its own while a user takes over.
TakeoverReachesNodes == StatusMatchesNodes

MCTakeoverRequests ==
    { PostMode(MODE_AUTO_BEST), PostMode(MODE_MANUAL), PostActuators(AllOff) }
=============================================================================
