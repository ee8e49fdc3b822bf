----------------------------- MODULE MCWatchdog -----------------------------
EXTENDS Watchdog

CONSTANTS w1, w2, w3
=============================================================================
