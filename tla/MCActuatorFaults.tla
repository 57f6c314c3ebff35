--------------------------- MODULE MCActuatorFaults ----------------------------
EXTENDS ActuatorFaults

\* A combined change of the first and the last topic, forth and back.
MCDecisions == { AllOff, Settings(TRUE, FALSE, FALSE, TRUE) }

MCHttpd == {"httpd"}
=============================================================================
