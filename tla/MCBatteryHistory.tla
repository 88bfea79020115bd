-------------------------- MODULE MCBatteryHistory --------------------------
(* One manual and one automatic request beside the commissioning test; a     *)
(* failed STOP is retried after one time unit.                               *)
EXTENDS BatteryHistory
OneStep == <<1>>
=============================================================================
