--------------------------- MODULE MCMediaRuntime ---------------------------
(***************************************************************************)
(* MediaRuntime with the principal and one teammate.                         *)
(***************************************************************************)
EXTENDS MediaRuntime

TwoHumans == {"principal", "teammate_1"}
OneTask == {"task"}
=============================================================================
