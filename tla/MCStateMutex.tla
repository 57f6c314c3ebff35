---------------------------- MODULE MCStateMutex ----------------------------
EXTENDS StateMutex

\* The least: a second message waits for the broker to read the first.
MCWireBound == 1
=============================================================================
