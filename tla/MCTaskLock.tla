----------------------------- MODULE MCTaskLock -----------------------------
EXTENDS TaskLock, TLC

CONSTANTS r1, r2, r3
=============================================================================
