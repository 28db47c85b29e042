----------------------------- MODULE MCUringRing -----------------------------
EXTENDS UringRing, TLC

CONSTANTS o1, o2, o3
=============================================================================
