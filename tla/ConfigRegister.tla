--------------------------- MODULE ConfigRegister ---------------------------
(***************************************************************************)
(* What eeprom.c promises to main.c: one stored configuration.  Requests   *)
(* to save are numbered 1, 2, ... in the order they are accepted; number 0 *)
(* stands for the factory defaults.  The configuration a boot would load   *)
(* only ever moves forward along that order: a save may be lost, but it is *)
(* never torn and never undone by an older one.                            *)
(***************************************************************************)
EXTENDS Naturals

VARIABLES
  accepted,   \* how many saves were accepted so far
  stored      \* which of them a boot would load now

vars == <<accepted, stored>>

Init == accepted = 0 /\ stored = 0

(* A save is accepted; it may or may not be stored later. *)
Accept == accepted' = accepted + 1 /\ UNCHANGED stored

(* The store switches to a later accepted save. *)
Switch == /\ stored' \in (stored + 1)..accepted
          /\ UNCHANGED accepted

Next == Accept \/ Switch

Spec == Init /\ [][Next]_vars
=============================================================================
