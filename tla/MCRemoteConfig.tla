--------------------------- MODULE MCRemoteConfig ---------------------------
(* Instances of RemoteConfig for TLC; the constants are set in the .cfg files. *)
EXTENDS RemoteConfig
=============================================================================
