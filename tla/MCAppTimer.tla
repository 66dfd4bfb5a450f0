------------------------------ MODULE MCAppTimer ------------------------------
\* The timers of the key handling, one of each mode, as model values.
EXTENDS AppTimer
CONSTANTS poll, hour, search
=============================================================================
