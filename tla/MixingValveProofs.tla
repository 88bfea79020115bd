-------------------------- MODULE MixingValveProofs --------------------------
(***************************************************************************)
(* Machine-checked proofs about the mixing valve of model 00013.           *)
(*                                                                         *)
(* The local loop: for any setpoints, temperatures, reports, pulse budget  *)
(* and faults, as long as setpoint commands do not overlap a cycle whose   *)
(* outcome is unsaved; with that overlap two of the promises fail, as the  *)
(* run MixerResume shows of NeverResumes.                                  *)
(*                                                                         *)
(* The supervised pulses: for any number of faults, as long as no command  *)
(* begins while the watchdog of an earlier one waits.                      *)
(***************************************************************************)
EXTENDS MCMixingValve, FiniteSetTheorems, TLAPS

NoOverlap == "overlap" \notin Faults

\* A behaviour of the composition is one of each of its parts.
LEMMA PartsRun == ValveSpec => Spec /\ S!Spec
<1>1. ValveInit => Init /\ S!Init
  BY DEF ValveInit
<1>2. [Local \/ Servo]_<<part, vars, servo>> => [Next]_vars
  BY DEF Local, Servo
<1>3. [Local \/ Servo]_<<part, vars, servo>> => [S!Next]_(S!vars)
  BY DEF Local, Servo, servo, S!vars
<1> QED
  BY <1>1, <1>2, <1>3, PTL DEF ValveSpec, Spec, S!Spec

-----------------------------------------------------------------------------
(* The local loop: its inductive invariant. *)

\* The states of the status file from which no process starts a pulse.
Marked == {"pulse_active", "locked"}

Pulsing == pc \in {"off", "prove", "book"}

HistoryOK == /\ moved \in [Reports -> [Directions -> Nat]]
             /\ broken \in BOOLEAN

\* Before it is enabled, the mixer has done nothing.
Unarmed == ~armed => pc = "look" /\ saw = "idle" /\ status \in {"none", "armed"}

\* One relay at most is on or may still come on.
OneWay == \E d \in Directions : relays \subseteq {d} /\ pending \in {"none", d}

\* A relay that is on, or may still come on, is one the status file warns of.
Warned == relays # {} \/ pending # "none" => status \in Marked

\* What the status and the relays are at each place of the loop.
AtPlace ==
  /\ pc \in {"cycle", "mark", "hold"} => status \notin Marked
  /\ pc = "on" \/ Pulsing => status = "pulse_active"
  /\ pc \in {"on", "book", "done"} => relays = {} /\ pending = "none"
  /\ pc = "done" => status # "locked"
  /\ pc \in {"off", "prove"} /\ sound => pending = "none"

\* A setpoint command that holds the lock has seen the present status.
CommandInHand == saw # "idle" => pc = "sleep" /\ saw = status /\ status # "pulse_active"

\* After an interrupted pulse the loop gets no further than looking at the status.
Ended == broken => status \in Marked /\ pc \in {"look", "sleep"}

\* What the ledger says of the pulses made on a report.
Counted(r, d) == IF r = ledger.at /\ d = ledger.dir THEN ledger.n ELSE 0

\* The ledger is right about its own report and all later ones ...
Exact == \A r \in Reports, d \in Directions : r >= ledger.at => moved[r][d] = Counted(r, d)

\* ... or one pulse behind, the one being made.
Behind == \A r \in Reports, d \in Directions :
  r >= ledger.at =>
    moved[r][d] = Counted(r, d) + (IF r = sample.at /\ d = dir THEN 1 ELSE 0)

\* The pulse being made is within the budget, in the direction of those before it.
Budgeted ==
  pc \in {"mark", "on"} \/ Pulsing =>
    /\ dir \in Directions /\ sample.at >= ledger.at
    /\ ledger.at = sample.at => ledger.dir = dir /\ ledger.n < MaxPulses

LedgerRight ==
  /\ status \notin Marked \/ pc \in {"on", "done"} => Exact
  /\ Pulsing => Behind

Drives == OneWay /\ Warned /\ AtPlace
Consistent == Unarmed /\ CommandInHand /\ Ended /\ Drives
Travels == Budgeted /\ LedgerRight /\ BoundedTravel

IInv == TypeOK /\ HistoryOK /\ Consistent /\ Travels

-----------------------------------------------------------------------------
(* Every step keeps it. *)

USE DEF Fault, Go, Directions, Reports, loop, plant, config, history

\* Switching off leaves nothing on that was off.
LEMMA OffBothTurnsOff == OffBoth => relays' \subseteq relays
<1>1. OffBoth => relays' \in SUBSET relays \/ relays' = {}
  BY DEF OffBoth
<1> QED
  BY <1>1

\* Every step keeps the types.
LEMMA TypesKeep ==
  ASSUME IInv, Next
  PROVE  (TypeOK /\ HistoryOK)'
<1>1. CASE Enable
  <2>1. armed' \in BOOLEAN
    BY <1>1 DEF Enable
  <2> QED
    BY <1>1, <2>1 DEF Enable, IInv, TypeOK, HistoryOK
<1>2. CASE SetTarget
  BY <1>2 DEF SetTarget, IInv, TypeOK, HistoryOK
<1>3. CASE SetTargetDone
  BY <1>3 DEF SetTargetDone, KeepOrHold, IInv, TypeOK, HistoryOK
<1>4. CASE Look
  <2>1. relays' \subseteq Directions
    BY <1>4, OffBothTurnsOff DEF Look, IInv, TypeOK
  <2>2. /\ status' \in {status, "locked", "local_running"} /\ pc' \in {"sleep", "cycle"}
        /\ active' \in BOOLEAN
    BY <1>4 DEF Look, IInv, TypeOK
  <2>3. UNCHANGED <<config, ledger, pending, sample, pump, dir, sound, saw, history>>
    BY <1>4 DEF Look
  <2> QED
    BY <2>1, <2>2, <2>3 DEF IInv, TypeOK, HistoryOK
<1>5. CASE Sleep
  BY <1>5 DEF Sleep, IInv, TypeOK, HistoryOK
<1>6. CASE Cycle
  BY <1>6 DEF Cycle, Wanted, IInv, TypeOK, HistoryOK
<1>7. CASE Mark
  BY <1>7 DEF Mark, IInv, TypeOK, HistoryOK
<1>8. CASE On
  <2>1. dir \in Directions /\ sample.at \in Reports
    BY <1>8 DEF On, IInv, TypeOK, Travels, Budgeted
  <2>2. HistoryOK'
    BY <1>8, <2>1 DEF On, IInv, HistoryOK
  <2>3. relays' \subseteq Directions
    BY <1>8, <2>1 DEF On, IInv, TypeOK
  <2>4. sound' \in BOOLEAN /\ pending' \in Directions \cup {"none"}
    BY <1>8 DEF On, IInv, TypeOK
  <2> QED
    BY <1>8, <2>2, <2>3, <2>4 DEF On, IInv, TypeOK
<1>9. CASE Off
  <2>1. relays' \subseteq Directions
    BY <1>9 DEF Off, IInv, TypeOK
  <2>2. sound' \in BOOLEAN /\ pc' = "prove"
    BY <1>9 DEF Off, IInv, TypeOK
  <2>3. UNCHANGED <<config, status, ledger, pending, sample, pump, active, dir, saw, history>>
    BY <1>9 DEF Off
  <2> QED
    BY <2>1, <2>2, <2>3 DEF IInv, TypeOK, HistoryOK
<1>10. CASE Watchdog
  <2>1. relays' \subseteq Directions
    BY <1>10, OffBothTurnsOff DEF Watchdog, IInv, TypeOK
  <2>2. sound' \in BOOLEAN
    BY <1>10 DEF Watchdog, IInv, TypeOK
  <2>3. UNCHANGED <<config, status, ledger, pending, sample, pump, pc, active, dir, saw,
                   history>>
    BY <1>10 DEF Watchdog
  <2> QED
    BY <2>1, <2>2, <2>3 DEF IInv, TypeOK, HistoryOK
<1>11. CASE Prove
  BY <1>11 DEF Prove, IInv, TypeOK, HistoryOK
<1>12. CASE Book
  BY <1>12, ConstantsAssumption
  DEF Book, Spent, IInv, TypeOK, HistoryOK, Travels, Budgeted, Pulsing
<1>13. CASE Done
  BY <1>13 DEF Done, IInv, TypeOK, HistoryOK
<1>14. CASE Hold
  BY <1>14 DEF Hold, IInv, TypeOK, HistoryOK
<1>15. CASE Failed
  <2>1. relays' \subseteq Directions
    BY <1>15, OffBothTurnsOff DEF Failed, IInv, TypeOK
  <2> QED
    BY <1>15, <2>1 DEF Failed, IInv, TypeOK, HistoryOK
<1>16. CASE Crash
  BY <1>16 DEF Crash, IInv, TypeOK, HistoryOK
<1>17. CASE LateOn
  BY <1>17 DEF LateOn, IInv, TypeOK, HistoryOK
<1>18. CASE NewReport
  BY <1>18 DEF NewReport, IInv, TypeOK, HistoryOK
<1>19. CASE Ages
  BY <1>19 DEF Ages, IInv, TypeOK, HistoryOK
<1>20. CASE PumpSwitches
  BY <1>20 DEF PumpSwitches, IInv, TypeOK, HistoryOK
<1> QED
  BY <1>1, <1>2, <1>3, <1>4, <1>5, <1>6, <1>7, <1>8, <1>9, <1>10, <1>11, <1>12, <1>13,
     <1>14, <1>15, <1>16, <1>17, <1>18, <1>19, <1>20 DEF Next, Worker, Loop, Environment

\* Every step keeps what ties the relays, the status file and the commands together; the
\* absence of overlaps matters when a setpoint command begins and when the loop wakes up.
LEMMA ConsistentKeeps ==
  ASSUME IInv, Next, NoOverlap
  PROVE  Consistent'
<1>1. CASE Enable
  BY <1>1
  DEF Enable, IInv, Consistent, Unarmed, CommandInHand, Ended, Drives, OneWay, Warned,
      AtPlace, Marked, Pulsing
<1>2. CASE SetTarget
  BY <1>2
  DEF SetTarget, MayCommand, IInv, Consistent, Unarmed, CommandInHand, Ended, Drives, OneWay,
      Warned, AtPlace, Pulsing, NoOverlap
<1>3. CASE SetTargetDone
  BY <1>3
  DEF SetTargetDone, KeepOrHold, IInv, Consistent, Unarmed, CommandInHand, Ended, Drives,
      OneWay, Warned, AtPlace, Marked, Pulsing
<1>4. CASE Look
  BY <1>4
  DEF Look, OffBoth, IInv, Consistent, Unarmed, CommandInHand, Ended, Drives, OneWay, Warned,
      AtPlace, Marked, Pulsing
<1>5. CASE Sleep
  BY <1>5
  DEF Sleep, IInv, Consistent, Unarmed, CommandInHand, Ended, Drives, OneWay, Warned,
      AtPlace, Pulsing, NoOverlap
<1>6. CASE Cycle
  BY <1>6
  DEF Cycle, IInv, Consistent, Unarmed, CommandInHand, Ended, Drives, OneWay, Warned,
      AtPlace, Marked, Pulsing
<1>7. CASE Mark
  BY <1>7
  DEF Mark, IInv, Consistent, Unarmed, CommandInHand, Ended, Drives, OneWay, Warned, AtPlace,
      Pulsing
<1>8. CASE On
  <2>1. /\ dir \in Directions
        /\ status = "pulse_active" /\ relays = {} /\ pending = "none"
    BY <1>8 DEF On, IInv, Travels, Budgeted, Consistent, Drives, AtPlace
  <2>2. OneWay'
    <3>1. relays' \subseteq {dir} /\ pending' \in {"none", dir}
      BY <1>8, <2>1 DEF On
    <3> QED
      BY <2>1, <3>1 DEF OneWay
  <2>3. Warned' /\ AtPlace'
    BY <1>8, <2>1 DEF On, Warned, AtPlace, Marked
  <2>4. (Unarmed /\ CommandInHand /\ Ended)'
    BY <1>8 DEF On, IInv, Consistent, Unarmed, CommandInHand, Ended
  <2> QED
    BY <2>2, <2>3, <2>4 DEF Consistent, Drives
<1>9. CASE Off
  <2>1. OneWay'
    BY <1>9 DEF Off, IInv, Consistent, Drives, OneWay
  <2>2. Warned' /\ AtPlace'
    BY <1>9 DEF Off, IInv, Consistent, Drives, Warned, AtPlace, Marked, Pulsing
  <2>3. (Unarmed /\ CommandInHand /\ Ended)'
    BY <1>9 DEF Off, IInv, Consistent, Unarmed, CommandInHand, Ended
  <2> QED
    BY <2>1, <2>2, <2>3 DEF Consistent, Drives
<1>10. CASE Watchdog
  BY <1>10
  DEF Watchdog, OffBoth, IInv, Consistent, Unarmed, CommandInHand, Ended, Drives, OneWay,
      Warned, AtPlace, Pulsing
<1>11. CASE Prove
  BY <1>11
  DEF Prove, IInv, Consistent, Unarmed, CommandInHand, Ended, Drives, OneWay, Warned,
      AtPlace, Pulsing
<1>12. CASE Book
  BY <1>12
  DEF Book, IInv, Consistent, Unarmed, CommandInHand, Ended, Drives, OneWay, Warned, AtPlace,
      Pulsing
<1>13. CASE Done
  BY <1>13
  DEF Done, IInv, Consistent, Unarmed, CommandInHand, Ended, Drives, OneWay, Warned, AtPlace,
      Pulsing
<1>14. CASE Hold
  BY <1>14
  DEF Hold, IInv, Consistent, Unarmed, CommandInHand, Ended, Drives, OneWay, Warned, AtPlace,
      Pulsing
<1>15. CASE Failed
  BY <1>15
  DEF Failed, OffBoth, IInv, Consistent, Unarmed, CommandInHand, Ended, Drives, OneWay,
      Warned, AtPlace, Marked, Pulsing
<1>16. CASE Crash
  BY <1>16
  DEF Crash, IInv, Consistent, Unarmed, CommandInHand, Ended, Drives, OneWay, Warned,
      AtPlace, Marked, Pulsing
<1>17. CASE LateOn
  BY <1>17
  DEF LateOn, IInv, Consistent, Unarmed, CommandInHand, Ended, Drives, OneWay, Warned,
      AtPlace, Pulsing
<1>18. CASE NewReport
  BY <1>18
  DEF NewReport, IInv, Consistent, Unarmed, CommandInHand, Ended, Drives, OneWay, Warned,
      AtPlace, Pulsing
<1>19. CASE Ages
  BY <1>19
  DEF Ages, IInv, Consistent, Unarmed, CommandInHand, Ended, Drives, OneWay, Warned, AtPlace,
      Pulsing
<1>20. CASE PumpSwitches
  BY <1>20
  DEF PumpSwitches, IInv, Consistent, Unarmed, CommandInHand, Ended, Drives, OneWay, Warned,
      AtPlace, Pulsing
<1> QED
  BY <1>1, <1>2, <1>3, <1>4, <1>5, <1>6, <1>7, <1>8, <1>9, <1>10, <1>11, <1>12, <1>13,
     <1>14, <1>15, <1>16, <1>17, <1>18, <1>19, <1>20 DEF Next, Worker, Loop, Environment

\* Every step keeps the ledger in line with the pulses it is to count.
LEMMA TravelsKeep ==
  ASSUME IInv, Next
  PROVE  Travels'
<1>1. CASE Enable
  <2>1. status \notin Marked
    BY <1>1 DEF Enable, IInv, Consistent, Unarmed, Marked
  <2> QED
    BY <1>1, <2>1
    DEF Enable, IInv, Consistent, Unarmed, Pulsing, Travels, Budgeted, LedgerRight, Exact,
        Counted, BoundedTravel
<1>2. CASE SetTarget
  BY <1>2
  DEF SetTarget, LoopHoldsLock, IInv, Pulsing, Travels, Budgeted, LedgerRight, Exact,
      Counted, BoundedTravel
<1>3. CASE SetTargetDone
  <2>1. saw = status /\ pc = "sleep" /\ status # "pulse_active"
    BY <1>3 DEF SetTargetDone, IInv, Consistent, CommandInHand
  <2>2. status' \notin Marked => status \notin Marked
    BY <1>3, <2>1 DEF SetTargetDone, KeepOrHold, Marked
  <2> QED
    BY <1>3, <2>1, <2>2
    DEF SetTargetDone, IInv, Pulsing, Travels, Budgeted, LedgerRight, Exact, Counted,
        BoundedTravel
<1>4. CASE Look
  BY <1>4
  DEF Look, IInv, Marked, Pulsing, Travels, Budgeted, LedgerRight, Exact, Counted,
      BoundedTravel
<1>5. CASE Sleep
  BY <1>5
  DEF Sleep, IInv, Pulsing, Travels, Budgeted, LedgerRight, Exact, Counted, BoundedTravel
<1>6. CASE Cycle
  BY <1>6
  DEF Cycle, MayPulse, Usable, Spent, Wanted, IInv, Consistent, Drives, AtPlace, Pulsing,
      Travels, Budgeted, LedgerRight, Exact, Counted, BoundedTravel
<1>7. CASE Mark
  BY <1>7
  DEF Mark, IInv, Consistent, Drives, AtPlace, Pulsing, Travels, Budgeted, LedgerRight,
      Exact, Counted, BoundedTravel
<1>8. CASE On
  <2>1. dir \in Directions /\ sample.at \in Reports /\ sample.at \in Nat
        /\ ledger.at \in Nat /\ ledger.n \in Nat /\ MaxPulses \in Nat \ {0}
    BY <1>8, ConstantsAssumption DEF On, IInv, TypeOK, Travels, Budgeted
  <2>2. Exact /\ BoundedTravel /\ Budgeted
    BY <1>8 DEF On, IInv, Travels, LedgerRight
  <2>3. \A r \in Reports, d \in Directions :
          /\ moved[r][d] \in Nat
          /\ moved'[r][d] = moved[r][d] + (IF r = sample.at /\ d = dir THEN 1 ELSE 0)
    BY <1>8 DEF On, IInv, HistoryOK
  <2>4. Behind'
    BY <1>8, <2>2, <2>3 DEF On, Exact, Behind, Counted
  <2>5. \A d \in Directions : moved[sample.at][d] = Counted(sample.at, d)
    BY <1>8, <2>1, <2>2 DEF On, Exact, Budgeted
  <2>6. BoundedTravel'
    <3> SUFFICES ASSUME NEW r \in Reports
                 PROVE  /\ \A d \in Directions : moved'[r][d] <= MaxPulses
                        /\ moved'[r]["open"] = 0 \/ moved'[r]["close"] = 0
      BY DEF BoundedTravel
    <3>1. CASE r = sample.at
      BY <1>8, <2>1, <2>2, <2>5, <3>1 DEF On, Counted, Budgeted
    <3>2. CASE r # sample.at
      BY <2>2, <2>3, <3>2 DEF BoundedTravel
    <3> QED
      BY <3>1, <3>2
  <2> QED
    BY <1>8, <2>4, <2>6
    DEF On, Travels, Budgeted, LedgerRight, Marked, IInv, Consistent, Drives, AtPlace
<1>9. CASE Off
  BY <1>9
  DEF Off, IInv, Consistent, Drives, AtPlace, Marked, Pulsing, Travels, Budgeted,
      LedgerRight, Behind, Counted, BoundedTravel
<1>10. CASE Watchdog
  BY <1>10
  DEF Watchdog, IInv, Consistent, Drives, AtPlace, Marked, Pulsing, Travels, Budgeted,
      LedgerRight, Behind, Counted, BoundedTravel
<1>11. CASE Prove
  BY <1>11
  DEF Prove, IInv, Consistent, Drives, AtPlace, Marked, Pulsing, Travels, Budgeted,
      LedgerRight, Behind, Counted, BoundedTravel
<1>12. CASE Book
  <2>1. dir \in Directions /\ sample.at \in Reports /\ sample.at \in Nat
        /\ ledger.at \in Nat /\ ledger.n \in Nat
    BY <1>12 DEF Book, IInv, TypeOK, Travels, Budgeted, Pulsing
  <2>2. Behind /\ BoundedTravel /\ sample.at >= ledger.at
        /\ (ledger.at = sample.at => ledger.dir = dir)
    BY <1>12 DEF Book, IInv, Travels, LedgerRight, Budgeted, Pulsing
  <2>3. BoundedTravel'
    BY <1>12, <2>2 DEF Book, BoundedTravel
  <2>4. status = "pulse_active"
    BY <1>12 DEF Book, IInv, Consistent, Drives, AtPlace, Pulsing
  <2>5. CASE pc' = "failed"
    BY <1>12, <2>3, <2>4, <2>5 DEF Book, Travels, Budgeted, LedgerRight, Pulsing, Marked
  <2>6. CASE pc' = "done"
    <3>1. ledger' = [at |-> sample.at, dir |-> dir, n |-> Spent + 1] /\ moved' = moved
      BY <1>12, <2>6 DEF Book
    <3>2. \A r \in Reports : r \in Nat
      BY ConstantsAssumption
    <3>3. Exact'
      BY <2>1, <2>2, <3>1 DEF Exact, Behind, Counted, Spent
    <3> QED
      BY <2>3, <2>6, <3>3 DEF Travels, Budgeted, LedgerRight, Pulsing
  <2> QED
    BY <1>12, <2>5, <2>6 DEF Book
<1>13. CASE Done
  BY <1>13
  DEF Done, IInv, Pulsing, Travels, Budgeted, LedgerRight, Exact, Counted, BoundedTravel
<1>14. CASE Hold
  BY <1>14
  DEF Hold, IInv, Consistent, Drives, AtPlace, Pulsing, Travels, Budgeted, LedgerRight,
      Exact, Counted, BoundedTravel
<1>15. CASE Failed
  BY <1>15
  DEF Failed, IInv, Marked, Pulsing, Travels, Budgeted, LedgerRight, Exact, Counted,
      BoundedTravel
<1>16. CASE Crash
  BY <1>16
  DEF Crash, IInv, Pulsing, Travels, Budgeted, LedgerRight, Exact, Counted, BoundedTravel
<1>17. CASE LateOn
  BY <1>17
  DEF LateOn, IInv, Pulsing, Travels, Budgeted, LedgerRight, Exact, Behind, Counted,
      BoundedTravel
<1>18. CASE NewReport
  BY <1>18
  DEF NewReport, LoopHoldsLock, IInv, Pulsing, Travels, Budgeted, LedgerRight, Exact,
      Counted, BoundedTravel
<1>19. CASE Ages
  BY <1>19
  DEF Ages, IInv, Pulsing, Travels, Budgeted, LedgerRight, Exact, Behind, Counted,
      BoundedTravel
<1>20. CASE PumpSwitches
  BY <1>20
  DEF PumpSwitches, IInv, Pulsing, Travels, Budgeted, LedgerRight, Exact, Behind, Counted,
      BoundedTravel
<1> QED
  BY <1>1, <1>2, <1>3, <1>4, <1>5, <1>6, <1>7, <1>8, <1>9, <1>10, <1>11, <1>12, <1>13,
     <1>14, <1>15, <1>16, <1>17, <1>18, <1>19, <1>20 DEF Next, Worker, Loop, Environment

-----------------------------------------------------------------------------
(* The theorems about the local loop. *)

\* The invariant holds when the loop starts.
LEMMA InitIInv == Init => IInv
<1> SUFFICES ASSUME Init PROVE IInv
  OBVIOUS
<1>1. /\ moved \in [Reports -> [Directions -> Nat]]
      /\ \A r \in Reports, d \in Directions : moved[r][d] = 0
  BY DEF Init
<1>2. TypeOK /\ HistoryOK
  <2>1. ledger \in [at : 0..MaxReport, dir : Directions \cup {"none"}, n : 0..MaxPulses]
    BY ConstantsAssumption DEF Init
  <2>2. sample \in [at : Reports, temp : Temps, age : {"fresh", "old", "stale"}]
    BY ConstantsAssumption DEF Init
  <2>3. HistoryOK
    BY <1>1 DEF Init, HistoryOK
  <2> QED
    BY <2>1, <2>2, <2>3 DEF Init, TypeOK
<1>3. Consistent
  BY DEF Init, Consistent, Unarmed, CommandInHand, Ended, Drives, OneWay, Warned, AtPlace,
         Pulsing
<1>4. Travels
  BY ConstantsAssumption
  DEF Init, Travels, Budgeted, LedgerRight, Exact, Counted, Pulsing, BoundedTravel
<1> QED
  BY <1>2, <1>3, <1>4 DEF IInv

\* Every step of the loop, a command or a fault keeps it.
LEMMA NextKeeps ==
  ASSUME NoOverlap
  PROVE  IInv /\ [Next]_vars => IInv'
<1> SUFFICES ASSUME IInv, [Next]_vars PROVE IInv'
  OBVIOUS
<1>1. CASE Next
  BY <1>1, TypesKeep, ConsistentKeeps, TravelsKeep DEF IInv
<1>2. CASE UNCHANGED vars
  <2>1. (TypeOK /\ HistoryOK)'
    BY <1>2 DEF vars, IInv, TypeOK, HistoryOK
  <2>2. Consistent'
    BY <1>2
    DEF vars, IInv, Consistent, Unarmed, CommandInHand, Ended, Drives, OneWay, Warned,
        AtPlace, Pulsing
  <2>3. Travels'
    BY <1>2
    DEF vars, IInv, Travels, Budgeted, LedgerRight, Exact, Behind, Counted, Pulsing,
        BoundedTravel
  <2> QED
    BY <2>1, <2>2, <2>3 DEF IInv
<1> QED
  BY <1>1, <1>2

\* The inductive invariant holds in every reachable state.
THEOREM Invariance ==
  ASSUME NoOverlap
  PROVE  ValveSpec => []IInv
BY InitIInv, NextKeeps, PartsRun, PTL DEF Spec

\* Every variable has its type; the saved ledger never counts more than the budget.
THEOREM TypeCorrect ==
  ASSUME NoOverlap
  PROVE  ValveSpec => []TypeOK
BY Invariance, PTL DEF IInv

\* The valve motor is never driven in both directions at once.
THEOREM MotorInterlock ==
  ASSUME NoOverlap
  PROVE  ValveSpec => []Interlock
<1>1. IInv => Interlock
  <2> SUFFICES ASSUME IInv PROVE Cardinality(relays) <= 1
    BY DEF Interlock
  <2>1. PICK d \in Directions : relays \subseteq {d}
    BY DEF IInv, Consistent, Drives, OneWay
  <2>2. relays = {} \/ relays = {d}
    BY <2>1
  <2>3. Cardinality({}) = 0 /\ Cardinality({d}) = 1
    BY FS_EmptySet, FS_Singleton
  <2> QED
    BY <2>2, <2>3
<1> QED
  BY <1>1, Invariance, PTL

\* The status file warns of every relay that is on.
THEOREM OnIsAlwaysMarked ==
  ASSUME NoOverlap
  PROVE  ValveSpec => []OnIsMarked
<1>1. IInv => OnIsMarked
  BY DEF IInv, Consistent, Drives, Warned, Marked, OnIsMarked
<1> QED
  BY <1>1, Invariance, PTL

\* The pulses made on one temperature report stay within the budget and one direction.
THEOREM TravelIsBounded ==
  ASSUME NoOverlap
  PROVE  ValveSpec => []BoundedTravel
BY Invariance, PTL DEF IInv, Travels

\* No process goes on with a movement that a restart has interrupted.
THEOREM InterruptedNeverResumes ==
  ASSUME NoOverlap
  PROVE  ValveSpec => []NeverResumes
<1>1. IInv => NeverResumes
  BY DEF IInv, Consistent, Ended, NeverResumes
<1> QED
  BY <1>1, Invariance, PTL

\* A locked mixer stays locked.
THEOREM LockLasts ==
  ASSUME NoOverlap
  PROVE  ValveSpec => LockSticks
<1>1. ASSUME IInv, [Next]_vars PROVE [status = "locked" => status' = "locked"]_vars
  <2> SUFFICES ASSUME Next, status = "locked" PROVE status' = "locked"
    BY <1>1
  <2>1. CASE SetTargetDone
    BY <1>1, <2>1 DEF IInv, Consistent, CommandInHand, SetTargetDone, KeepOrHold
  <2>2. CASE Enable
    BY <1>1, <2>2 DEF IInv, Consistent, Unarmed, Enable
  <2>3. CASE Mark \/ Done \/ Hold
    BY <1>1, <2>3 DEF IInv, Consistent, Drives, AtPlace, Marked, Mark, Done, Hold
  <2>4. CASE Look \/ Failed
    BY <2>4 DEF Look, Failed
  <2>5. CASE SetTarget \/ Sleep \/ Cycle \/ On \/ Off \/ Watchdog \/ Prove \/ Book
    BY <2>5 DEF SetTarget, Sleep, Cycle, On, Off, Watchdog, Prove, Book
  <2>6. CASE Environment
    BY <2>6 DEF Environment, Crash, LateOn, NewReport, Ages, PumpSwitches
  <2> QED
    BY <2>1, <2>2, <2>3, <2>4, <2>5, <2>6 DEF Next, Worker, Loop
<1> QED
  BY <1>1, Invariance, PartsRun, PTL DEF Spec, LockSticks

-----------------------------------------------------------------------------
(* The supervised pulses.                                                    *)

Observed == [failure : BOOLEAN, errors : BOOLEAN, proven : BOOLEAN, fired : BOOLEAN,
             on : BOOLEAN, selfOff : BOOLEAN, stray : BOOLEAN]

Order == [kind : S!Kinds \cup {"none"}, commission : BOOLEAN, dir : S!Directions \cup {"none"}]

ServoTypes ==
  /\ sPc \in {"idle", "check", "on", "moving", "off", "readback", "join", "mark"}
  /\ op \in Order
  /\ dog \in {"none", "armed", "fired", "again", "done"} /\ old \in {"none", "armed", "fired", "again"}
  /\ seen \in Observed /\ commissioned \in [S!Gated -> {"none", "fresh", "expired"}]
  /\ timer \in BOOLEAN /\ firmware \in BOOLEAN /\ died \in BOOLEAN /\ faults \in Nat

(* One command at a time: no watchdog of an earlier one waits, nothing has  *)
(* been reported, and its own watchdog is there from before the ON until it *)
(* is joined.                                                               *)
OneCommand ==
  /\ sPc # "idle" => old = "none" /\ sResult = "none"
  /\ dog = "none" <=> sPc \in {"idle", "check", "mark"}
  /\ dog \in {"fired", "again"} => seen.fired
  /\ sPc = "mark" => S!Succeeded

\* An ON on its way is known to the command, as a failure of its own or from before it,
\* and nothing else can undo an OFF that was read back.
OffStays ==
  /\ sPc # "idle" /\ ~seen.failure /\ ~seen.stray => late = {}
  /\ seen.proven => sPc \in {"idle", "join", "mark"}
  /\ sPc \in {"join", "mark"} /\ seen.proven /\ ~seen.failure /\ ~seen.stray => sRelays = {}

\* Only the device itself switches a timed pulse off before the backup says that it does.
SelfOff ==
  /\ timer => firmware
  /\ seen.selfOff => firmware
  /\ sPc = "moving" /\ op.kind = "timed" /\ ~seen.fired /\ ~firmware => op.dir \in sRelays

(* An ON on its way costs two faults, and so does an early watchdog with a  *)
(* lost OFF.  After at most one, whatever is on has a watchdog that has not *)
(* yet made its first OFF, until the command's own OFF is sent.             *)
OneFault ==
  /\ late # {} => faults >= 2
  /\ sPc \in {"on", "moving", "off"} /\ dog # "armed" => faults >= 1
  /\ ~died /\ faults <= 1 /\ sRelays # {} =>
       /\ sPc \in {"idle", "check", "mark"} => faults = 1 /\ old \in {"armed", "fired"}
       /\ sPc \in {"readback", "join"} => faults = 1 /\ dog \in {"armed", "fired"}

ServoInv == ServoTypes /\ OneCommand /\ OffStays /\ SelfOff /\ OneFault /\ ValveOff /\ NativeWitness

\* What an OFF to both outputs does.
LEMMA ServoOff ==
  ASSUME S!OffBoth, ServoTypes
  PROVE  /\ sRelays' \subseteq sRelays /\ UNCHANGED <<late, firmware>>
         /\ timer' \in BOOLEAN /\ (timer' => timer)
         /\ faults' \in Nat /\ faults' >= faults
         /\ sRelays' # {} => faults' = faults + 1
<1>1. PICK lost \in SUBSET sRelays :
        /\ sRelays' = lost /\ timer' = (timer /\ lost # {})
        /\ IF lost = {} THEN UNCHANGED faults ELSE S!Fault(1)
        /\ UNCHANGED <<late, firmware>>
  BY DEF S!OffBoth
<1>2. timer' \in BOOLEAN /\ (timer' => timer)
  BY <1>1, Zenon
<1>3. sRelays' # {} => faults' = faults + 1
  BY <1>1 DEF S!Fault
<1>4. faults' \in Nat /\ faults' >= faults
  BY <1>1 DEF S!Fault, ServoTypes
<1> QED
  BY <1>1, <1>2, <1>3, <1>4

\* The invariant of the supervised pulses holds at first.
LEMMA ServoStarts == S!Init => ServoInv
<1> SUFFICES ASSUME S!Init PROVE ServoInv
  OBVIOUS
<1>1. ServoTypes
  BY DEF S!Init, S!Nothing, S!NoOp, S!Gated, S!Kinds, ServoTypes, Observed, Order
<1>2. OneCommand /\ OffStays /\ SelfOff /\ OneFault
  BY DEF S!Init, S!Nothing, OneCommand, OffStays, SelfOff, OneFault
<1>3. ValveOff /\ NativeWitness
  BY DEF S!Init, ValveOff, NativeWitness, S!OffProven, S!SingleFault, S!NativeWitness, S!Gated
<1> QED
  BY <1>1, <1>2, <1>3 DEF ServoInv

\* Every step keeps the types.
LEMMA ServoTypesKeep ==
  ASSUME ServoTypes, [S!Next]_(S!vars)
  PROVE  ServoTypes'
<1> USE DEF ServoTypes, Order, S!radio, S!Gated, S!Report, S!NoOp
<1>1. ASSUME NEW kind \in S!Kinds, NEW commission \in BOOLEAN, S!Begin(kind, commission) PROVE ServoTypes'
  BY <1>1 DEF S!Begin, S!Nothing, Observed
<1>2. CASE S!Reject
  BY <1>2 DEF S!Reject
<1>3. CASE S!Hold
  BY <1>3 DEF S!Hold
<1>4. ASSUME NEW dir1 \in S!Directions, S!Arm(dir1) PROVE ServoTypes'
  BY <1>4 DEF S!Arm
<1>5. CASE S!SwitchOn
  BY <1>5 DEF S!SwitchOn
<1>6. CASE S!SwitchOnFails
  <2>1. faults' \in Nat /\ sPc' = "off"
        /\ seen' = [seen EXCEPT !.failure = TRUE] /\ UNCHANGED <<op, firmware, dog, old, commissioned, died>>
    BY <1>6 DEF S!SwitchOnFails, S!Fault
  <2>2. timer' = timer \/ timer' = (op.kind = "timed" /\ firmware)
    BY <1>6 DEF S!SwitchOnFails
  <2>3. timer' \in BOOLEAN
    <3>1. CASE timer' = timer
      BY <3>1
    <3>2. CASE timer' = (op.kind = "timed" /\ firmware)
      BY <3>2, Zenon
    <3> QED
      BY <2>2, <3>1, <3>2
  <2> QED
    BY <2>1, <2>3 DEF Observed
<1>7. CASE S!MoveEnds
  BY <1>7 DEF S!MoveEnds
<1>8. CASE S!Unsafe
  BY <1>8 DEF S!Unsafe, Observed
<1>9. CASE S!Look
  <2>1. /\ sPc' \in {"moving", "off"} /\ UNCHANGED <<op, timer, firmware, dog, old, commissioned, faults, died>>
        /\ \/ seen' = [seen EXCEPT !.failure = TRUE]
           \/ seen' = [seen EXCEPT !.on = TRUE]
           \/ seen' = [seen EXCEPT !.selfOff = TRUE]
    BY <1>9 DEF S!Look
  <2>2. seen' \in Observed
    BY <2>1 DEF Observed
  <2> QED
    BY <2>1, <2>2
<1>10. CASE S!MainOff
  BY <1>10, ServoOff DEF S!MainOff, Observed
<1>11. CASE S!Proven
  BY <1>11 DEF S!Proven, Observed
<1>12. CASE S!Unproven
  BY <1>12 DEF S!Unproven
<1>13. CASE S!Join
  <2>1. /\ sPc' \in {"idle", "mark"} /\ (op' = op \/ op' = S!NoOp) /\ dog' = "none"
        /\ old' \in {"none", "armed", "fired", "again"}
        /\ UNCHANGED <<timer, firmware, seen, commissioned, faults, died>>
    BY <1>13 DEF S!Join
  <2>2. op' \in Order
    <3>1. S!NoOp \in Order
      OBVIOUS
    <3> HIDE DEF S!NoOp
    <3> QED
      BY <2>1, <3>1
  <2> QED
    BY <2>1, <2>2
<1>14. CASE S!Commission
  <2>1. /\ sPc' = "idle" /\ op' = S!NoOp /\ UNCHANGED <<timer, firmware, dog, old, seen, faults, died>>
        /\ commissioned' \in {commissioned, [commissioned EXCEPT ![op.kind] = "fresh"]}
    BY <1>14 DEF S!Commission
  <2> QED
    BY <2>1
<1>15. CASE S!Fire
  <2>1. /\ dog' = "fired" /\ seen' = [seen EXCEPT !.fired = TRUE] /\ (faults' = faults \/ faults' = faults + 1)
        /\ UNCHANGED <<sPc, op, timer, firmware, old, commissioned, died>>
    BY <1>15 DEF S!Fire, S!Fault
  <2>2. seen' \in Observed
    BY <2>1 DEF Observed
  <2>3. faults' \in Nat
    BY <2>1
  <2> QED
    BY <2>1, <2>2, <2>3
<1>16. CASE S!DogOff
  BY <1>16, ServoOff DEF S!DogOff, S!AfterOff, Observed
<1>17. CASE S!OldFires
  BY <1>17 DEF S!OldFires
<1>18. CASE S!OldOff
  BY <1>18, ServoOff DEF S!OldOff
<1>19. CASE S!NativeOff
  BY <1>19 DEF S!NativeOff
<1>20. CASE S!LateOn
  BY <1>20 DEF S!LateOn
<1>21. CASE S!Prepare
  BY <1>21 DEF S!Prepare
<1>22. CASE S!UserOff
  BY <1>22 DEF S!UserOff
<1>23. CASE S!Crash
  BY <1>23 DEF S!Crash, S!Nothing, Observed
<1>24. ASSUME NEW g \in S!Gated, S!Expires(g) PROVE ServoTypes'
  BY <1>24 DEF S!Expires
<1>25. CASE UNCHANGED S!vars
  BY <1>25 DEF S!vars
<1> QED
  BY <1>1, <1>2, <1>3, <1>4, <1>5, <1>6, <1>7, <1>8, <1>9, <1>10, <1>11, <1>12, <1>13, <1>14, <1>15,
     <1>16, <1>17, <1>18, <1>19, <1>20, <1>21, <1>22, <1>23, <1>24, <1>25 DEF S!Next, S!Main

\* Every step of a command, its watchdogs, the relays and the process keeps it.
LEMMA ServoKeeps ==
  ASSUME Overlap = FALSE
  PROVE  ServoInv /\ [S!Next]_(S!vars) => ServoInv'
<1> SUFFICES ASSUME ServoInv, [S!Next]_(S!vars) PROVE ServoInv'
  OBVIOUS
<1> DEFINE Kept == OneCommand /\ OffStays /\ SelfOff /\ OneFault /\ ValveOff /\ NativeWitness
<1> USE DEF ServoInv, ServoTypes, OneCommand, OffStays, SelfOff, OneFault, ValveOff, NativeWitness, Observed, Order,
            S!OffProven, S!SingleFault, S!NativeWitness, S!Succeeded, S!radio, S!Gated, S!Report, S!NoOp
<1>1. ASSUME NEW kind \in S!Kinds, NEW commission \in BOOLEAN, S!Begin(kind, commission) PROVE Kept'
  BY <1>1 DEF S!Begin, S!Nothing
<1>2. ASSUME S!Reject PROVE Kept'
  BY <1>2 DEF S!Reject
<1>3. ASSUME S!Hold PROVE Kept'
  BY <1>3 DEF S!Hold
<1>4. ASSUME NEW dir1 \in S!Directions, S!Arm(dir1) PROVE Kept'
  BY <1>4 DEF S!Arm
<1>5. ASSUME S!SwitchOn PROVE Kept'
  BY <1>5 DEF S!SwitchOn
<1>6. ASSUME S!SwitchOnFails PROVE Kept'
  <2>1. /\ sPc = "on" /\ sPc' = "off" /\ faults' \in Nat /\ faults' > faults /\ (late' = late \/ faults' >= 2)
        /\ seen' = [seen EXCEPT !.failure = TRUE]
        /\ UNCHANGED <<op, firmware, dog, old, commissioned, sResult, died>>
    BY <1>6 DEF S!SwitchOnFails, S!Fault
  <2>2. timer' = timer \/ timer' = (op.kind = "timed" /\ firmware)
    BY <1>6 DEF S!SwitchOnFails
  <2>3. timer' => firmware
    <3>1. CASE timer' = timer
      BY <3>1
    <3>2. CASE timer' = (op.kind = "timed" /\ firmware)
      BY <3>2, Zenon
    <3> QED
      BY <2>2, <3>1, <3>2
  <2>4. (OneCommand /\ OffStays /\ SelfOff)'
    BY <2>1, <2>3
  <2>5. OneFault'
    BY <2>1
  <2>6. ValveOff' /\ NativeWitness'
    BY <2>1
  <2> QED
    BY <2>4, <2>5, <2>6
<1>7. ASSUME S!MoveEnds PROVE Kept'
  BY <1>7 DEF S!MoveEnds
<1>8. ASSUME S!Unsafe PROVE Kept'
  BY <1>8 DEF S!Unsafe
<1>9. ASSUME S!Look PROVE Kept'
  <2>1. /\ UNCHANGED <<op, sRelays, late, timer, firmware, dog, old, commissioned, sResult, faults, died>>
        /\ sPc = "moving" /\ op.kind = "timed" /\ sPc' \in {"moving", "off"}
        /\ \/ seen' = [seen EXCEPT !.failure = TRUE]
           \/ seen' = [seen EXCEPT !.on = TRUE]
           \/ seen' = [seen EXCEPT !.selfOff = TRUE] /\ sRelays = {} /\ ~seen.fired
    BY <1>9 DEF S!Look
  <2>2. (OneCommand /\ OffStays /\ SelfOff)'
    BY <2>1
  <2>3. (OneFault /\ ValveOff /\ NativeWitness)'
    BY <2>1
  <2> QED
    BY <2>2, <2>3
<1>10. ASSUME S!MainOff PROVE Kept'
  BY <1>10, ServoOff DEF S!MainOff
<1>11. ASSUME S!Proven PROVE Kept'
  <2>1. (OneCommand /\ OffStays /\ SelfOff)'
    BY <1>11 DEF S!Proven
  <2>2. (OneFault /\ ValveOff /\ NativeWitness)'
    BY <1>11 DEF S!Proven
  <2> QED
    BY <2>1, <2>2
<1>12. ASSUME S!Unproven PROVE Kept'
  BY <1>12 DEF S!Unproven
<1>13. ASSUME S!Join PROVE Kept'
  <2>1. (OneCommand /\ OffStays /\ SelfOff)'
    BY <1>13 DEF S!Join
  <2>2. (OneFault /\ ValveOff /\ NativeWitness)'
    BY <1>13 DEF S!Join
  <2> QED
    BY <2>1, <2>2
<1>14. ASSUME S!Commission PROVE Kept'
  <2>1. (OneCommand /\ OffStays /\ SelfOff)'
    BY <1>14 DEF S!Commission
  <2>2. (OneFault /\ ValveOff /\ NativeWitness)'
    BY <1>14 DEF S!Commission
  <2> QED
    BY <2>1, <2>2
<1>15. ASSUME S!Fire PROVE Kept'
  <2>1. (OneCommand /\ OffStays /\ SelfOff)'
    BY <1>15 DEF S!Fire, S!Fault
  <2>2. (OneFault /\ ValveOff /\ NativeWitness)'
    BY <1>15 DEF S!Fire, S!Fault
  <2> QED
    BY <2>1, <2>2
<1>16. ASSUME S!DogOff PROVE Kept'
  BY <1>16, ServoOff DEF S!DogOff, S!AfterOff
<1>17. ASSUME S!OldFires PROVE Kept'
  BY <1>17 DEF S!OldFires
<1>18. ASSUME S!OldOff PROVE Kept'
  BY <1>18, ServoOff DEF S!OldOff
<1>19. ASSUME S!NativeOff PROVE Kept'
  <2>1. (OneCommand /\ OffStays /\ SelfOff)'
    BY <1>19 DEF S!NativeOff
  <2>2. (OneFault /\ ValveOff /\ NativeWitness)'
    BY <1>19 DEF S!NativeOff
  <2> QED
    BY <2>1, <2>2
<1>20. ASSUME S!LateOn PROVE Kept'
  BY <1>20 DEF S!LateOn
<1>21. ASSUME S!Prepare PROVE Kept'
  BY <1>21 DEF S!Prepare
<1>22. ASSUME S!UserOff PROVE Kept'
  <2>1. (OneCommand /\ OffStays /\ SelfOff)'
    BY <1>22 DEF S!UserOff
  <2>2. (OneFault /\ ValveOff /\ NativeWitness)'
    BY <1>22 DEF S!UserOff
  <2> QED
    BY <2>1, <2>2
<1>23. ASSUME S!Crash PROVE Kept'
  BY <1>23 DEF S!Crash, S!Nothing
<1>24. ASSUME NEW g \in S!Gated, S!Expires(g) PROVE Kept'
  BY <1>24 DEF S!Expires
<1>25. ASSUME UNCHANGED S!vars PROVE Kept'
  BY <1>25 DEF S!vars
<1>26. Kept'
  BY <1>1, <1>2, <1>3, <1>4, <1>5, <1>6, <1>7, <1>8, <1>9, <1>10, <1>11, <1>12, <1>13, <1>14, <1>15,
     <1>16, <1>17, <1>18, <1>19, <1>20, <1>21, <1>22, <1>23, <1>24, <1>25 DEF S!Next, S!Main
<1> QED
  BY <1>26, ServoTypesKeep

\* The invariant of the pulses holds in every reachable state.
LEMMA ServoHolds ==
  ASSUME Overlap = FALSE
  PROVE  ValveSpec => []ServoInv
BY ServoStarts, ServoKeeps, PartsRun, PTL DEF S!Spec

\* A movement is reported only with both outputs proven off and no ON on its way, and one
\* fault of switching or timing never leaves an output on.
THEOREM ReportedIsOff ==
  ASSUME Overlap = FALSE
  PROVE  ValveSpec => []ValveOff
BY ServoHolds, PTL DEF ServoInv

\* A device is commissioned for timed pulses only if it ends them itself.
THEOREM WitnessIsNative ==
  ASSUME Overlap = FALSE
  PROVE  ValveSpec => []NativeWitness
BY ServoHolds, PTL DEF ServoInv
=============================================================================
