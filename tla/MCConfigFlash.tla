--------------------------- MODULE MCConfigFlash ---------------------------
(* Instances of ConfigFlash for TLC; the constants are set in the .cfg files. *)
EXTENDS ConfigFlash
=============================================================================
