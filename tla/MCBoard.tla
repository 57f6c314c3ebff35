------------------------------- MODULE MCBoard --------------------------------
EXTENDS Board

MCAddresses == {1, 2}
=============================================================================
