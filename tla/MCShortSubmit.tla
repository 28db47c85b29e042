---------------------------- MODULE MCShortSubmit ----------------------------
EXTENDS ShortSubmit

CONSTANTS r1, r2, r3, r4
=============================================================================
