------------------------- MODULE MCActuatorPublish -------------------------
EXTENDS ActuatorLinkRefinement

\* Everything closed, an open window, an open window with the fan and the
\* absorber: each pair differs in a topic before and after the fan's.
MCDecisions == { AllOff,
                 Settings(TRUE, FALSE, TRUE, FALSE),
                 Settings(TRUE, TRUE, TRUE, TRUE) }

MCSystemTask == {"system_task"}
=============================================================================
