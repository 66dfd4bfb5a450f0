------------------------------ MODULE MCAntSearch ------------------------------
\* Both channels, few restarts and a narrow counter, so that it wraps in the run.
EXTENDS AntSearch
=============================================================================
