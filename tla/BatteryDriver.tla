---------------------------- MODULE BatteryDriver ----------------------------
(***************************************************************************)
(* What an inverter driver promises the battery runtime: the inverter       *)
(* begins to follow a session only during a call that drives it, only the   *)
(* session that is due, and once AUTO was verified it follows none.         *)
(***************************************************************************)
CONSTANTS Sessions, Free

VARIABLES
  inv,   \* the session the inverter follows, or Free
  due,   \* the session driven since the last verified AUTO, or Free
  call   \* the call being made: "none", "drive" or "auto"

Init == inv = Free /\ due = Free /\ call = "none"

Drive(s) ==
  /\ call = "none" /\ due \in {Free, s}
  /\ due' = s /\ call' = "drive" /\ UNCHANGED inv

StopCall == call = "none" /\ call' = "auto" /\ UNCHANGED <<inv, due>>

Follow == call = "drive" /\ inv' = due /\ UNCHANGED <<due, call>>

\* The driver's doing, or the inverter's own watchdog.
LetGo == inv' = Free /\ UNCHANGED <<due, call>>

\* The call ended in any other way than by verifying AUTO.
Return == call' = "none" /\ inv' \in {inv, Free} /\ UNCHANGED due

Verified ==
  /\ call = "auto" /\ inv = Free
  /\ due' = Free /\ call' = "none" /\ UNCHANGED inv

Next ==
  \/ \E s \in Sessions : Drive(s)
  \/ StopCall \/ Follow \/ LetGo \/ Return \/ Verified

Spec == Init /\ [][Next]_<<inv, due, call>>
=============================================================================
