------------------------------ MODULE MCBroker ------------------------------
EXTENDS Broker

CONSTANTS n1, fan
=============================================================================
