---------------------------- MODULE MCAsyncQueue ----------------------------
EXTENDS AsyncQueue, TLC

CONSTANTS r1, r2, c1, c2
=============================================================================
