----------------------------- MODULE MCKeyMessages -----------------------------
(* One feature at a time: the two channels share nothing but the reset.  Four   *)
(* levels, a sequence number that wraps after four, and a stray mode close to   *)
(* the end of the byte.                                                          *)
EXTENDS KeyMessages
=============================================================================
