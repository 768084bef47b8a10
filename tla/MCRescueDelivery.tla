-------------------------- MODULE MCRescueDelivery --------------------------
EXTENDS RescueDelivery

CONSTANTS r1, r2, p1, p2
=============================================================================
