------------------------------- MODULE MCBleLink -------------------------------
(* A link with the three requests of MAX_CONN_PARAMS_UPDATE_COUNT.              *)
EXTENDS BleLink
=============================================================================
