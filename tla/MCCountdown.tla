----------------------------- MODULE MCCountdown -----------------------------
EXTENDS CountdownLabel
CONSTANTS a, v1, r1, r2
=============================================================================
