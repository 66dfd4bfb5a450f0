------------------------------ MODULE MCGestures ------------------------------
\* The keys are strings (their order is that of buttons[] in main.c), so that a cfg
\* chooses which of them the user plays with.
EXTENDS Gestures
=============================================================================
