------------------------------ MODULE MCBattery ------------------------------
(* The local battery owner at three bounds; "part" names the one a behaviour *)
(* has.  "faults": one manual and one automatic request beside the           *)
(* commissioning test; the process, the disk, the driver, the inverter's      *)
(* watchdog and the clock may fail.  "ownership": two manual requests, so     *)
(* that sessions follow one another.  "sessions": one manual request, but     *)
(* time for its session to be renewed and to end, and a configuration that    *)
(* changes.  A failed STOP is retried after one time unit.  The properties    *)
(* are stated over the union of the three.                                    *)
EXTENDS BatteryHistory

CONSTANTS
  FaultSigs, FaultManual, FaultLatch, FaultFaults,    \* of "faults"
  TwoSigs, TwoFaults,                                 \* of "ownership"
  OneSigs, LongFaults,                                \* of "sessions"
  ShortTime                                           \* of all but "sessions"

VARIABLE part

F == INSTANCE BatteryRuntime WITH
       Sigs <- FaultSigs, ManualSigs <- FaultManual, LatchCap <- FaultLatch,
       MaxTime <- ShortTime, Faults <- FaultFaults
O2 == INSTANCE BatteryHistory WITH
       Sigs <- TwoSigs, ManualSigs <- TwoSigs, MaxTime <- ShortTime, Faults <- TwoFaults
S == INSTANCE BatteryHistory WITH
       Sigs <- OneSigs, ManualSigs <- OneSigs, Faults <- LongFaults

BatteryInit ==
  /\ HInit
  /\ part \in {"faults", "ownership", "sessions"}

\* The history is not kept here: a clock that may be set back measures no session.
Faulty == part = "faults" /\ F!Next /\ UNCHANGED <<part, live, ended, since, lastStop>>
Ownership == part = "ownership" /\ O2!HNext /\ UNCHANGED part
Sessions == part = "sessions" /\ S!HNext /\ UNCHANGED part

BatterySpec == BatteryInit /\ [][Faulty \/ Ownership \/ Sessions]_<<part, hvars>>

OneStep == <<1>>
=============================================================================
