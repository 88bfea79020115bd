------------------------ MODULE BatteryRuntimeProofs ------------------------
(***************************************************************************)
(* Machine-checked proofs about BatteryRuntime and its history, for any     *)
(* requests, routes, time bound, session cap, backoff, latch and faults.    *)
(***************************************************************************)
EXTENDS BatteryHistory, SequenceTheorems, FiniteSetTheorems, TLAPS

-----------------------------------------------------------------------------
(* The inductive invariant.  DurableOwner and HonestStatus hold before and   *)
(* after every operation; between its steps they depend on what the running  *)
(* operation has in hand, which the parts below state for each place.        *)

\* Only a STOP, pending or done, is ever kept in memory in place of the file.
EmergencyIsStop == mem.st \in {"none", "stop_pending", "stopped"}

\* What is followed is what the next operation will load, with its signature.
LoadsOwner == inv # AUTO => Load.st \in ActiveStates /\ Load.sig = inv

DrivingHasSession == disk.st \in Driving => disk.sig \in Sigs

StopInHand ==
  /\ pc \in {"stop_save", "stop_auto", "stop_failed"} =>
       cur.st = "stop_pending" /\ (inv # AUTO => cur.sig = inv)
  /\ pc = "stop_done" => cur.st = "stopped" /\ inv = AUTO
  /\ pc \notin {"stop_save", "stop_auto", "stop_failed", "stop_done"} => after = "idle"

StartInHand ==
  /\ pc = "start" \/ after = "start" => req \in Requests /\ req.sig \in Sigs
  /\ pc = "start" => Load.st \in {"none", "stopped"} \/ SameSession(Load)
  /\ pc = "prepare_save" =>
       /\ cur.st = "preparing" /\ cur.sig \in Sigs
       /\ inv # AUTO => cur.sig = inv
       /\ mem.st # "stop_pending"

\* While the driver runs, the file already names the session it is driving.
DriveInHand ==
  pc \in {"drive", "active_save"} =>
    /\ cur.st \in Driving /\ cur.sig \in Sigs
    /\ disk.st \in Driving /\ disk.sig = cur.sig /\ mem.st = "none"
    /\ inv \in {AUTO, cur.sig}

CanaryInHand ==
  /\ pc \in {"canary_save", "canary_run"} =>
       cur.st = "preparing" /\ cur.sig = CanarySig /\ inv = AUTO
  /\ pc = "canary_run" => disk.st = "preparing" /\ disk.sig = CanarySig /\ mem.st = "none"

Consistent ==
  /\ EmergencyIsStop /\ DurableOwner /\ LoadsOwner /\ DrivingHasSession
  /\ StopInHand /\ StartInHand /\ DriveInHand /\ CanaryInHand

IInv == TypeOK /\ Consistent

-----------------------------------------------------------------------------
(* Records and the operations on them. *)

\* Remembering a signature keeps a sequence of signatures (the latch is trimmed at
\* its front when it is full).
LEMMA LatchType ==
  ASSUME NEW q \in Seq(Sigs), NEW sig \in Sigs
  PROVE  Latch(q, sig) \in Seq(Sigs)
<1>1. CASE \E i \in 1..Len(q) : q[i] = sig
  BY <1>1 DEF Latch
<1>2. CASE ~(\E i \in 1..Len(q) : q[i] = sig) /\ Len(q) < LatchCap
  BY <1>2 DEF Latch
<1>3. CASE ~(\E i \in 1..Len(q) : q[i] = sig) /\ ~(Len(q) < LatchCap)
  <2>1. Len(q) \in Nat /\ LatchCap \in Nat /\ LatchCap # 0
    BY ConstantsAssumption
  <2> DEFINE a == Len(q) - LatchCap + 2
  <2>2. a \in 1..(Len(q) + 1)
    BY <1>3, <2>1
  <2>3. SubSeq(q, a, Len(q)) \in Seq(Sigs)
    BY <2>1, <2>2, SubSeqProperties
  <2>4. Append(SubSeq(q, a, Len(q)), sig) \in Seq(Sigs)
    BY <2>3, AppendProperties
  <2> QED
    BY <1>3, <2>4 DEF Latch
<1> QED
  BY <1>1, <1>2, <1>3

\* The absent record is a record.
LEMMA NoRecordType == NoRecord \in Record /\ NoRecord.st = "none" /\ NoRecord.sig = NoSig
BY ConstantsAssumption DEF NoRecord, Record, Steps

\* Stamping changes nothing but the stamp.
LEMMA StampedType ==
  ASSUME NEW s \in Record, now \in Time
  PROVE  Stamped(s) \in Record /\ Stamped(s).st = s.st /\ Stamped(s).sig = s.sig
<1>1. now \in 0..MaxTime
  BY ConstantsAssumption DEF Time
<1> DEFINE r == [s EXCEPT !.upd = now]
<1>2. r \in Record /\ r.st = s.st /\ r.sig = s.sig
  BY <1>1 DEF Record
<1> HIDE DEF r
<1>3. Stamped(s) = IF Fault("rollback") THEN r ELSE s
  BY DEF Stamped, r
<1> QED
  BY <1>2, <1>3

\* What is loaded is one of the two copies.
LEMMA LoadType ==
  ASSUME TypeOK
  PROVE  Load \in Record
BY DEF Load, TypeOK

\* The effect of a save that succeeds, and of one that fails.
LEMMA SaveOkEffect ==
  ASSUME NEW s \in Record, now \in Time, SaveOk(s)
  PROVE  /\ disk' \in Record /\ disk'.st = s.st /\ disk'.sig = s.sig
         /\ mem' \in Record /\ mem'.st = "none"
BY StampedType, NoRecordType DEF SaveOk

\* A save that fails leaves the old file, or the new one, with the session it names.
LEMMA SaveFailsEffect ==
  ASSUME NEW s \in Record, now \in Time, disk \in Record, SaveFails(s)
  PROVE  /\ disk' \in Record
         /\ disk' = disk \/ (disk'.st = s.st /\ disk'.sig = s.sig)
BY StampedType DEF SaveFails

\* The emergency state is a record of the same session.
LEMMA KeepInMemoryEffect ==
  ASSUME NEW s \in Record, now \in Time, KeepInMemory(s)
  PROVE  mem' \in Record /\ mem'.st = s.st /\ mem'.sig = s.sig
BY StampedType DEF KeepInMemory

\* A stopped record is a record of a stopped battery.
LEMMA StoppedRecordType ==
  ASSUME cur \in Record
  PROVE  StoppedRecord \in Record /\ StoppedRecord.st = "stopped"
<1>1. IsManual(cur.sig) => cur.sig \in Sigs
  BY ConstantsAssumption DEF IsManual
<1>2. IsManual(cur.sig) => Latch(cur.latched, cur.sig) \in Seq(Sigs)
  BY <1>1, LatchType DEF Record
<1>3. << >> \in Seq(Sigs)
  OBVIOUS
<1>4. 0 \in 0..MaxTime /\ 0 \in 0..Steps
  BY ConstantsAssumption DEF Steps
<1> QED
  BY <1>1, <1>2, <1>3, <1>4 DEF StoppedRecord, Record

\* Entering _stop keeps the session and marks it stop_pending.
LEMMA EnterStopEffect ==
  ASSUME NEW s \in Record, NEW then, NEW clr, EnterStop(s, then, clr)
  PROVE  /\ cur' \in Record /\ cur'.st = "stop_pending" /\ cur'.sig = s.sig
         /\ pc' = "stop_save" /\ after' = then /\ clear' = clr
BY DEF EnterStop, Record, ActiveStates

\* When the lock is released nothing is in hand.
LEMMA ReleaseEffect ==
  ASSUME Release
  PROVE  /\ cur' \in Record /\ pc' = "idle" /\ after' = "idle" /\ clear' = FALSE
         /\ req' = NoOp
BY NoRecordType DEF Release

-----------------------------------------------------------------------------
(* The invariant holds initially and every step keeps it. *)

\* The empty state file and an inverter under its own control satisfy it.
LEMMA InitIInv == Init => IInv
<1> SUFFICES ASSUME Init PROVE IInv
  OBVIOUS
<1>1. TypeOK
  <2>1. now \in Time
    BY ConstantsAssumption DEF Init, Time
  <2> QED
    BY <2>1, NoRecordType DEF Init, TypeOK
<1>2. Consistent
  BY NoRecordType
  DEF Init, Consistent, EmergencyIsStop, DurableOwner, LoadsOwner, DrivingHasSession,
      StopInHand, StartInHand, DriveInHand, CanaryInHand, Driving
<1> QED
  BY <1>1, <1>2 DEF IInv

\* A return that touches neither copy of the state keeps the invariant.
LEMMA QuitKeeps ==
  ASSUME IInv, Quit
  PROVE  IInv'
<1>1. TypeOK'
  BY ReleaseEffect DEF IInv, TypeOK, Quit, fileVars, envVars
<1>2. Consistent'
  BY ReleaseEffect
  DEF IInv, Quit, fileVars, envVars, Consistent, EmergencyIsStop, DurableOwner, LoadsOwner,
      Load, DrivingHasSession, StopInHand, StartInHand, DriveInHand, CanaryInHand
<1> QED
  BY <1>1, <1>2 DEF IInv

\* Entering _stop with what was loaded, or with what is in hand, keeps it.
LEMMA EnterStopKeeps ==
  ASSUME IInv, NEW s \in Record, NEW then \in {"idle", "body", "start"},
         NEW clr \in BOOLEAN, EnterStop(s, then, clr),
         inv # AUTO => s.sig = inv,
         then = "start" => req \in Requests /\ req.sig \in Sigs,
         UNCHANGED <<fileVars, inv, envVars, req>>, recovered' \in BOOLEAN
  PROVE  IInv'
<1>1. TypeOK'
  BY EnterStopEffect DEF IInv, TypeOK, fileVars, envVars
<1>2. Consistent'
  BY EnterStopEffect
  DEF IInv, fileVars, envVars, Consistent, EmergencyIsStop, DurableOwner, LoadsOwner,
      Load, DrivingHasSession, StopInHand, StartInHand, DriveInHand, CanaryInHand
<1> QED
  BY <1>1, <1>2 DEF IInv

\* The environment: nothing but the inverter, the clock and the configuration.
LEMMA EnvironmentKeeps ==
  ASSUME IInv, Environment
  PROVE  IInv'
<1>1. inv' \in {inv, AUTO} /\ now' \in Time /\ cfg' \in Routes \cup {NoRoute}
  BY ConstantsAssumption
  DEF IInv, TypeOK, Environment, ClockAdvances, ClockMovedBack, ConfigChanges,
      InverterTimeout, envVars, Time
<1>2. UNCHANGED <<disk, mem, recovered, pc, cur, req, after, clear>>
  BY DEF Environment, ClockAdvances, ClockMovedBack, ConfigChanges, InverterTimeout,
         fileVars, opVars
<1>3. TypeOK'
  BY <1>1, <1>2 DEF IInv, TypeOK
<1>4. Consistent'
  BY <1>1, <1>2
  DEF IInv, Consistent, EmergencyIsStop, DurableOwner, LoadsOwner, Load, DrivingHasSession,
      StopInHand, StartInHand, SameSession, DriveLive, DriveInHand, CanaryInHand
<1> QED
  BY <1>3, <1>4 DEF IInv

\* A crash forgets the emergency state, which held nothing the file does not.
LEMMA CrashKeeps ==
  ASSUME IInv, Crash
  PROVE  IInv'
<1>1. TypeOK'
  BY ReleaseEffect, NoRecordType DEF IInv, TypeOK, Crash, envVars
<1>2. Consistent'
  BY ReleaseEffect, NoRecordType
  DEF IInv, Crash, envVars, Consistent, EmergencyIsStop, DurableOwner, LoadsOwner, Load,
      DrivingHasSession, StopInHand, StartInHand, DriveInHand, CanaryInHand
<1> QED
  BY <1>1, <1>2 DEF IInv

\* An operation begins: only pc and the request change.
LEMMA BeginKeeps ==
  ASSUME IInv, BeginSome
  PROVE  IInv'
<1>1. /\ pc = "idle" /\ pc' = "recover" /\ after' = after
      /\ UNCHANGED <<disk, mem, recovered, inv, now, cfg, cur, clear>>
  BY DEF BeginSome, BeginSubmit, Begin, fileVars, envVars
<1>2. req' \in Requests \cup {Tick, Canary}
  <2>1. CASE Begin(Tick) \/ Begin(Canary)
    BY <2>1 DEF Begin
  <2>2. CASE \E manual \in BOOLEAN, sig \in Sigs \cup {NoSig}, until, end \in 1..MaxTime,
               route \in Routes : BeginSubmit(manual, sig, until, end, route)
    BY <2>2 DEF BeginSubmit, Requests, IInv, TypeOK, Time
  <2> QED
    BY <2>1, <2>2 DEF BeginSome
<1>3. after = "idle"
  BY <1>1 DEF IInv, Consistent, StopInHand
<1>4. TypeOK'
  BY <1>1, <1>2 DEF IInv, TypeOK
<1>5. Consistent'
  BY <1>1, <1>3
  DEF IInv, Consistent, EmergencyIsStop, DurableOwner, LoadsOwner, Load, DrivingHasSession,
      StopInHand, StartInHand, DriveInHand, CanaryInHand
<1> QED
  BY <1>4, <1>5 DEF IInv

\* _recover.
LEMMA RecoverKeeps ==
  ASSUME IInv, Recover
  PROVE  IInv'
<1>1. CASE ~recovered /\ Load.st \in ActiveStates
  <2> DEFINE s == [Load EXCEPT !.retry = 0]
  <2>0. \A l \in Record : /\ [l EXCEPT !.retry = 0] \in Record
                           /\ [l EXCEPT !.retry = 0].sig = l.sig
    <3>1. 0 \in 0..MaxTime
      BY ConstantsAssumption
    <3> QED
      BY <3>1 DEF Record
  <2>1. s \in Record /\ s.sig = Load.sig
    BY <2>0, LoadType DEF IInv
  <2>2. EnterStop(s, "body", FALSE)
    BY <1>1 DEF Recover
  <2> HIDE DEF s
  <2>3. inv # AUTO => s.sig = inv
    BY <2>1 DEF IInv, Consistent, LoadsOwner
  <2>4. UNCHANGED <<fileVars, inv, envVars, req>> /\ recovered' \in BOOLEAN
    BY DEF Recover
  <2> QED
    BY <2>1, <2>2, <2>3, <2>4, EnterStopKeeps
<1>2. CASE ~(~recovered /\ Load.st \in ActiveStates)
  <2>1. /\ pc' = "body" /\ recovered' = TRUE
        /\ UNCHANGED <<disk, mem, inv, now, cfg, req, cur, after, clear>>
    BY <1>2 DEF Recover, fileVars, envVars
  <2>2. TypeOK'
    BY <2>1 DEF IInv, TypeOK
  <2>3. after = "idle"
    BY DEF Recover, IInv, Consistent, StopInHand
  <2>4. Consistent'
    BY <2>1, <2>3
    DEF IInv, Consistent, EmergencyIsStop, DurableOwner, LoadsOwner, Load, DrivingHasSession,
        StopInHand, StartInHand, DriveInHand, CanaryInHand
  <2> QED
    BY <2>2, <2>4 DEF IInv
<1> QED
  BY <1>1, <1>2

-----------------------------------------------------------------------------
(* _stop. *)

\* Every step of _stop keeps it: the file says stop_pending before AUTO is commanded.
LEMMA StopKeeps ==
  ASSUME IInv, Stop
  PROVE  IInv'
<1>0. cur \in Record /\ disk \in Record /\ mem \in Record /\ now \in Time
  BY DEF IInv, TypeOK
<1>1. CASE StopSave
  <2>1. /\ pc = "stop_save" /\ pc' = "stop_auto"
        /\ UNCHANGED <<recovered, inv, now, cfg, req, cur, after, clear>>
    BY <1>1 DEF StopSave, envVars, opVars
  <2>2. cur.st = "stop_pending" /\ (inv # AUTO => cur.sig = inv)
    BY <2>1 DEF IInv, Consistent, StopInHand
  <2>3. /\ disk' \in Record /\ mem' \in Record
        /\ disk' = disk \/ (disk'.st = cur.st /\ disk'.sig = cur.sig)
        /\ \/ mem'.st = "none" /\ disk'.st = cur.st /\ disk'.sig = cur.sig
           \/ mem'.st = cur.st /\ mem'.sig = cur.sig
    BY <1>0, <1>1, SaveOkEffect, SaveFailsEffect, KeepInMemoryEffect DEF StopSave
  <2>4. TypeOK'
    BY <2>1, <2>3 DEF IInv, TypeOK
  <2>5. Consistent'
    BY <2>1, <2>2, <2>3
    DEF IInv, Consistent, EmergencyIsStop, DurableOwner, LoadsOwner, Load, DrivingHasSession,
        Driving, ActiveStates, StopInHand, StartInHand, DriveInHand, CanaryInHand
  <2> QED
    BY <2>4, <2>5 DEF IInv
<1>2. CASE StopAutoOk
  <2>1. /\ pc = "stop_auto" /\ pc' = "stop_done" /\ inv' = AUTO /\ cur' = StoppedRecord
        /\ UNCHANGED <<disk, mem, recovered, now, cfg, req, after, clear>>
    BY <1>2 DEF StopAutoOk, fileVars, envVars, opVars
  <2>2. cur' \in Record /\ cur'.st = "stopped"
    BY <1>0, <2>1, StoppedRecordType
  <2>3. TypeOK'
    BY <2>1, <2>2 DEF IInv, TypeOK
  <2>4. Consistent'
    BY <2>1, <2>2
    DEF IInv, Consistent, EmergencyIsStop, DurableOwner, LoadsOwner, Load, DrivingHasSession,
        StopInHand, StartInHand, DriveInHand, CanaryInHand
  <2> QED
    BY <2>3, <2>4 DEF IInv
<1>3. CASE StopAutoFails
  <2>1. /\ pc = "stop_auto" /\ pc' = "stop_failed" /\ inv' \in {inv, AUTO}
        /\ UNCHANGED <<disk, mem, recovered, now, cfg, req, after, clear>>
    BY <1>3 DEF StopAutoFails, fileVars, envVars, opVars
  <2>2. cur' \in Record /\ cur'.st = cur.st /\ cur'.sig = cur.sig
    <3> DEFINE n == Earlier(cur.attempts + 1, Steps)
               r == Cut(now + BackoffOf[n])
    <3>1. n \in 1..Steps /\ BackoffOf[n] \in Nat
      <4>1. cur.attempts \in 0..Steps
        BY <1>0 DEF Record
      <4>2. Steps \in Nat /\ Steps >= 1 /\ Steps = Len(BackoffOf)
        BY ConstantsAssumption DEF Steps
      <4>3. n \in 1..Steps
        BY <4>1, <4>2 DEF Earlier
      <4> HIDE DEF n
      <4>4. BackoffOf[n] \in Nat \ {0}
        BY <4>2, <4>3, ConstantsAssumption
      <4> QED
        BY <4>3, <4>4
    <3> HIDE DEF n
    <3>2. r \in 0..MaxTime
      BY <1>0, <3>1, ConstantsAssumption DEF Cut, Time
    <3> HIDE DEF r
    <3>3. n \in 0..Steps
      BY <3>1, ConstantsAssumption DEF Steps
    <3>4. cur' = [cur EXCEPT !.attempts = n, !.retry = r]
      BY <1>3 DEF StopAutoFails, n, r
    <3> QED
      BY <1>0, <3>2, <3>3, <3>4 DEF Record
  <2>3. TypeOK'
    BY <2>1, <2>2 DEF IInv, TypeOK
  <2>4. Consistent'
    BY <2>1, <2>2
    DEF IInv, Consistent, EmergencyIsStop, DurableOwner, LoadsOwner, Load, DrivingHasSession,
        StopInHand, StartInHand, DriveInHand, CanaryInHand
  <2> QED
    BY <2>3, <2>4 DEF IInv
<1>4. CASE StopFailedSave
  <2>1. /\ pc = "stop_failed" /\ Release
        /\ UNCHANGED <<recovered, inv, now, cfg>>
    BY <1>4 DEF StopFailedSave, envVars
  <2>2. cur.st = "stop_pending" /\ (inv # AUTO => cur.sig = inv)
    BY <2>1 DEF IInv, Consistent, StopInHand
  <2>3. /\ disk' \in Record /\ mem' \in Record
        /\ disk' = disk \/ (disk'.st = cur.st /\ disk'.sig = cur.sig)
        /\ \/ mem'.st = "none" /\ disk'.st = cur.st /\ disk'.sig = cur.sig
           \/ mem'.st = cur.st /\ mem'.sig = cur.sig
    BY <1>0, <1>4, SaveOkEffect, SaveFailsEffect, KeepInMemoryEffect DEF StopFailedSave
  <2>4. TypeOK'
    BY <2>1, <2>3, ReleaseEffect DEF IInv, TypeOK
  <2>5. Consistent'
    BY <2>1, <2>2, <2>3, ReleaseEffect
    DEF IInv, Consistent, EmergencyIsStop, DurableOwner, LoadsOwner, Load, DrivingHasSession,
        Driving, ActiveStates, StopInHand, StartInHand, DriveInHand, CanaryInHand
  <2> QED
    BY <2>4, <2>5 DEF IInv
<1>5. CASE StopDoneSaved
  <2>1. pc = "stop_done" /\ inv = AUTO /\ inv' = AUTO /\ UNCHANGED <<recovered, now, cfg>>
    BY <1>5 DEF StopDoneSaved, envVars, IInv, Consistent, StopInHand
  <2>2. /\ disk' \in Record /\ disk'.st = "stopped"
        /\ mem' \in Record /\ mem'.st = "none"
    BY <1>0, <1>5, SaveOkEffect DEF StopDoneSaved, IInv, Consistent, StopInHand
  <2>3. \/ after = "idle" /\ pc' = "idle" /\ req' = NoOp
        \/ after \in {"body", "start"} /\ pc' = after /\ req' = req
    BY <1>5, ReleaseEffect DEF StopDoneSaved, IInv, TypeOK
  <2>4. after' = "idle" /\ clear' = FALSE /\ cur' \in Record
    BY <1>5, ReleaseEffect, NoRecordType DEF StopDoneSaved
  <2>5. TypeOK'
    BY <2>1, <2>2, <2>3, <2>4 DEF IInv, TypeOK
  <2>6. Consistent'
    BY <2>1, <2>2, <2>3, <2>4
    DEF IInv, Consistent, EmergencyIsStop, DurableOwner, LoadsOwner, Load, DrivingHasSession,
        Driving, StopInHand, StartInHand, DriveInHand, CanaryInHand
  <2> QED
    BY <2>5, <2>6 DEF IInv
<1>6. CASE StopDoneUnsaved
  <2>1. /\ pc = "stop_done" /\ inv = AUTO /\ inv' = AUTO /\ Release
        /\ UNCHANGED <<recovered, now, cfg>>
    BY <1>6 DEF StopDoneUnsaved, envVars, IInv, Consistent, StopInHand
  <2>2. /\ disk' \in Record /\ (disk' = disk \/ disk'.st = "stopped")
        /\ mem' \in Record /\ mem'.st = "stopped"
    BY <1>0, <1>6, SaveFailsEffect, KeepInMemoryEffect
    DEF StopDoneUnsaved, IInv, Consistent, StopInHand
  <2>3. TypeOK'
    BY <2>1, <2>2, ReleaseEffect DEF IInv, TypeOK
  <2>4. Consistent'
    BY <2>1, <2>2, ReleaseEffect
    DEF IInv, Consistent, EmergencyIsStop, DurableOwner, LoadsOwner, Load, DrivingHasSession,
        Driving, StopInHand, StartInHand, DriveInHand, CanaryInHand
  <2> QED
    BY <2>3, <2>4 DEF IInv
<1> QED
  BY <1>1, <1>2, <1>3, <1>4, <1>5, <1>6 DEF Stop

-----------------------------------------------------------------------------
(* submit. *)

\* The facts every action that loads the state starts from.
LEMMA LoadedFacts ==
  ASSUME IInv
  PROVE  /\ Load \in Record
         /\ inv # AUTO => Load.st \in ActiveStates /\ Load.sig = inv
         /\ Load.st \in Driving => Load = disk /\ mem.st = "none" /\ Load.sig \in Sigs
         /\ pc \in {"recover", "body", "start"} => after = "idle"
<1>1. Load \in Record
  BY LoadType DEF IInv
<1> QED
  BY <1>1 DEF IInv, Consistent, LoadsOwner, DrivingHasSession, EmergencyIsStop, StopInHand,
              Load, Driving

\* A submit in its body carries a request; a start carries a session's signature.
LEMMA SubmitRequest ==
  ASSUME TypeOK, InBody("submit")
  PROVE  req \in Requests /\ pc = "body"
BY DEF TypeOK, InBody, Tick, Canary, NoOp

\* submit when it stops something, or refuses because a STOP is pending.
LEMMA SubmitStopKeeps ==
  ASSUME IInv, SubmitPendingStop \/ SubmitExpired \/ SubmitAuto \/ SubmitReplace
  PROVE  IInv'
<1>0. /\ Load \in Record /\ recovered \in BOOLEAN
      /\ inv # AUTO => Load.sig = inv
  BY LoadedFacts DEF IInv, TypeOK
<1>1. CASE SubmitPendingStop
  <2>1. CASE Quit
    BY <2>1, QuitKeeps
  <2>2. CASE ~Quit
    <3>1. /\ EnterStop(Load, "body", FALSE)
          /\ UNCHANGED <<fileVars, recovered, inv, envVars, req>>
      BY <1>1, <2>2 DEF SubmitPendingStop
    <3> QED
      BY <1>0, <3>1, EnterStopKeeps
  <2> QED
    BY <2>1, <2>2
<1>2. CASE SubmitExpired
  BY <1>0, <1>2, EnterStopKeeps DEF SubmitExpired
<1>3. CASE SubmitAuto
  <2> DEFINE s == [Load EXCEPT !.route = IF DriveLive(Load) THEN @ ELSE req.route,
                               !.barrier = IF req.manual THEN req.until ELSE @]
  <2>1. EnterStop(s, "idle", req.manual) /\ InBody("submit")
        /\ UNCHANGED <<fileVars, recovered, inv, envVars, req>>
    BY <1>3 DEF SubmitAuto
  <2>2. req \in Requests
    BY <2>1, SubmitRequest DEF IInv
  <2>3. req.route \in Routes /\ req.until \in 0..MaxTime /\ req.manual \in BOOLEAN
    BY <2>2, ConstantsAssumption DEF Requests, Time
  <2>4. \A l \in Record, r \in Routes \cup {NoRoute}, b \in 0..MaxTime :
          /\ [l EXCEPT !.route = r, !.barrier = b] \in Record
          /\ [l EXCEPT !.route = r, !.barrier = b].sig = l.sig
    BY DEF Record
  <2> DEFINE r == IF DriveLive(Load) THEN Load.route ELSE req.route
             b == IF req.manual THEN req.until ELSE Load.barrier
  <2>5. r \in Routes \cup {NoRoute} /\ b \in 0..MaxTime
    BY <1>0, <2>3 DEF Record
  <2>6. s = [Load EXCEPT !.route = r, !.barrier = b]
    OBVIOUS
  <2> HIDE DEF s, r, b
  <2>7. s \in Record /\ s.sig = Load.sig
    BY <1>0, <2>4, <2>5, <2>6
  <2> QED
    BY <1>0, <2>1, <2>3, <2>7, EnterStopKeeps
<1>4. CASE SubmitReplace
  <2>1. /\ EnterStop(Load, "start", FALSE) /\ InBody("submit") /\ req.sig # NoSig
        /\ UNCHANGED <<fileVars, recovered, inv, envVars, req>>
    BY <1>4 DEF SubmitReplace, Starting
  <2>2. req \in Requests /\ req.sig \in Sigs
    BY <2>1, SubmitRequest DEF IInv, Requests
  <2> QED
    BY <1>0, <2>1, <2>2, EnterStopKeeps
<1> QED
  BY <1>1, <1>2, <1>3, <1>4

\* submit when it starts, replaces or refuses a session.
LEMMA SubmitStartKeeps ==
  ASSUME IInv, SubmitProceed \/ SubmitPrepare
  PROVE  IInv'
<1>0. TypeOK /\ Load \in Record /\ (inv # AUTO => Load.st \in ActiveStates /\ Load.sig = inv)
  BY LoadedFacts DEF IInv
<1>1. CASE SubmitProceed
  <2>1. /\ InBody("submit") /\ req.sig # NoSig /\ pc' = "start"
        /\ Load.st \in {"none", "stopped"} \/ SameSession(Load)
        /\ UNCHANGED <<disk, mem, recovered, inv, now, cfg, req, cur, after, clear>>
    BY <1>1 DEF SubmitProceed, Starting, fileVars, envVars, opVars
  <2>2. req \in Requests /\ req.sig \in Sigs /\ pc = "body"
    BY <1>0, <2>1, SubmitRequest DEF Requests
  <2>3. (Load.st \in {"none", "stopped"} \/ SameSession(Load))'
    BY <2>1 DEF Load, SameSession, DriveLive
  <2>4. TypeOK'
    BY <1>0, <2>1 DEF TypeOK
  <2>5. after' = "idle"
    BY <2>1, <2>2, LoadedFacts
  <2>6. Consistent'
    BY <2>1, <2>2, <2>3, <2>5
    DEF IInv, Consistent, EmergencyIsStop, DurableOwner, LoadsOwner, Load, DrivingHasSession,
        StopInHand, StartInHand, DriveInHand, CanaryInHand
  <2> QED
    BY <2>4, <2>6 DEF IInv
<1>2. CASE SubmitPrepare
  <2>1. CASE Quit
    BY <2>1, QuitKeeps
  <2>2. CASE ~Quit
    <3>1. /\ pc = "start" /\ pc' = "prepare_save"
          /\ UNCHANGED <<disk, mem, recovered, inv, now, cfg, req, after, clear>>
      BY <1>2, <2>2 DEF SubmitPrepare, fileVars, envVars, opVars
    <3>2. /\ req \in Requests /\ req.sig \in Sigs
          /\ Load.st \in {"none", "stopped"} \/ SameSession(Load)
      BY <3>1 DEF IInv, Consistent, StartInHand
    <3> DEFINE same == SameSession(Load)
               started == IF same THEN Load.started ELSE req.at
               deadline == Earlier(req.end, Cut(started + SessionCap))
    <3>3. cur' = [Load EXCEPT !.st = "preparing", !.sig = req.sig, !.route = req.route,
                              !.started = started, !.expires = deadline, !.blocked = NoSig]
      BY <1>2, <2>2 DEF SubmitPrepare
    <3>4. started \in 0..MaxTime /\ deadline \in 0..MaxTime
      <4>1. req.at \in 0..MaxTime /\ req.end \in 0..MaxTime /\ Load.started \in 0..MaxTime
        BY <1>0, <3>2, ConstantsAssumption DEF Requests, Record, Time
      <4>2. started \in 0..MaxTime
        BY <4>1
      <4> HIDE DEF started
      <4>3. Cut(started + SessionCap) \in 0..MaxTime
        BY <4>2, ConstantsAssumption DEF Cut
      <4>4. deadline \in 0..MaxTime
        BY <4>1, <4>3 DEF Earlier
      <4> QED
        BY <4>2, <4>4
    <3> HIDE DEF started, deadline
    <3>5. cur' \in Record /\ cur'.st = "preparing" /\ cur'.sig = req.sig
      <4>1. req.route \in Routes /\ req.sig \in Sigs
        BY <3>2 DEF Requests
      <4> QED
        BY <1>0, <3>3, <3>4, <4>1 DEF Record, ActiveStates
    <3>6. inv # AUTO => cur'.sig = inv
      <4>1. SUFFICES ASSUME inv # AUTO PROVE cur'.sig = inv
        OBVIOUS
      <4>2. SameSession(Load)
        BY <1>0, <3>2, <4>1 DEF ActiveStates
      <4> QED
        BY <1>0, <3>5, <4>1, <4>2 DEF SameSession
    <3>7. mem.st # "stop_pending"
      BY <3>2 DEF Load, SameSession, DriveLive, Driving
    <3>8. TypeOK'
      BY <1>0, <3>1, <3>5 DEF TypeOK
    <3>9. after' = "idle"
      BY <3>1, LoadedFacts
    <3>10. Consistent'
      BY <3>1, <3>2, <3>5, <3>6, <3>7, <3>9
      DEF IInv, Consistent, EmergencyIsStop, DurableOwner, LoadsOwner, Load,
          DrivingHasSession, StopInHand, StartInHand, DriveInHand, CanaryInHand
    <3> QED
      BY <3>8, <3>10 DEF IInv
  <2> QED
    BY <2>1, <2>2
<1> QED
  BY <1>1, <1>2

\* submit when it saves the new owner, before the inverter is driven.
LEMMA PrepareKeeps ==
  ASSUME IInv, PrepareSaved \/ PrepareUnsaved
  PROVE  IInv'
<1>0. /\ cur \in Record /\ disk \in Record /\ now \in Time
      /\ pc = "prepare_save" /\ after = "idle"
      /\ cur.st = "preparing" /\ cur.sig \in Sigs /\ (inv # AUTO => cur.sig = inv)
      /\ mem.st \in {"none", "stopped"}
  BY DEF IInv, TypeOK, Consistent, StopInHand, StartInHand, EmergencyIsStop,
         PrepareSaved, PrepareUnsaved
<1>1. CASE PrepareSaved
  <2>1. /\ pc' = "drive"
        /\ UNCHANGED <<recovered, inv, now, cfg, req, cur, after, clear>>
    BY <1>1 DEF PrepareSaved, envVars, opVars
  <2>2. /\ disk' \in Record /\ disk'.st = "preparing" /\ disk'.sig = cur.sig
        /\ mem' \in Record /\ mem'.st = "none"
    BY <1>0, <1>1, SaveOkEffect DEF PrepareSaved
  <2>3. TypeOK'
    BY <2>1, <2>2 DEF IInv, TypeOK
  <2>4. inv \in {AUTO, cur.sig}
    BY <1>0
  <2>5. Consistent'
    BY <1>0, <2>1, <2>2, <2>4
    DEF IInv, Consistent, EmergencyIsStop, DurableOwner, LoadsOwner, Load, DrivingHasSession,
        Driving, ActiveStates, StopInHand, StartInHand, DriveInHand, CanaryInHand
  <2> QED
    BY <2>3, <2>5 DEF IInv
<1>2. CASE PrepareUnsaved
  <2>1. Release /\ UNCHANGED <<mem, recovered, inv, now, cfg>>
    BY <1>2 DEF PrepareUnsaved, envVars
  <2>2. /\ disk' \in Record
        /\ disk' = disk \/ (disk'.st = "preparing" /\ disk'.sig = cur.sig)
    BY <1>0, <1>2, SaveFailsEffect DEF PrepareUnsaved
  <2>3. TypeOK'
    BY <2>1, <2>2, ReleaseEffect DEF IInv, TypeOK
  <2>4. Consistent'
    BY <1>0, <2>1, <2>2, ReleaseEffect
    DEF IInv, Consistent, EmergencyIsStop, DurableOwner, LoadsOwner, Load, DrivingHasSession,
        Driving, ActiveStates, StopInHand, StartInHand, DriveInHand, CanaryInHand
  <2> QED
    BY <2>3, <2>4 DEF IInv
<1> QED
  BY <1>1, <1>2

-----------------------------------------------------------------------------
(* _activate. *)

\* _activate: the inverter follows only the session that was saved.
LEMMA ActivateKeeps ==
  ASSUME IInv, Activate
  PROVE  IInv'
<1>0. /\ cur \in Record /\ disk \in Record /\ now \in Time /\ recovered \in BOOLEAN
      /\ pc \in {"drive", "active_save"} /\ after = "idle"
      /\ cur.st \in Driving /\ cur.sig \in Sigs
      /\ disk.st \in Driving /\ disk.sig = cur.sig /\ mem.st = "none"
      /\ inv \in {AUTO, cur.sig}
  BY DEF IInv, TypeOK, Consistent, StopInHand, DriveInHand,
         Activate, DriveOk, DriveFails, ActiveSaved, ActiveUnsaved
<1>1. CASE DriveOk
  <2>1. /\ pc' = "active_save" /\ inv' = cur.sig /\ cur' = [cur EXCEPT !.st = "active"]
        /\ UNCHANGED <<disk, mem, recovered, now, cfg, req, after, clear>>
    BY <1>1 DEF DriveOk, fileVars, envVars, opVars
  <2>2. cur' \in Record /\ cur'.st = "active" /\ cur'.sig = cur.sig
    BY <1>0, <2>1 DEF Record, ActiveStates
  <2>3. TypeOK'
    BY <1>0, <2>1, <2>2 DEF IInv, TypeOK
  <2>4. Consistent'
    BY <1>0, <2>1, <2>2
    DEF IInv, Consistent, EmergencyIsStop, DurableOwner, LoadsOwner, Load, DrivingHasSession,
        Driving, ActiveStates, StopInHand, StartInHand, DriveInHand, CanaryInHand
  <2> QED
    BY <2>3, <2>4 DEF IInv
<1>2. CASE DriveFails
  <2>1. /\ inv' \in {AUTO, cur.sig} /\ pc' = "stop_save" /\ after' = "idle" /\ clear' = FALSE
        /\ cur' \in Record /\ cur'.st = "stop_pending" /\ cur'.sig = cur.sig
        /\ UNCHANGED <<disk, mem, recovered, now, cfg, req>>
    BY <1>0, <1>2, EnterStopEffect DEF DriveFails, fileVars, envVars
  <2>2. TypeOK'
    BY <1>0, <2>1 DEF IInv, TypeOK
  <2>3. Consistent'
    BY <1>0, <2>1
    DEF IInv, Consistent, EmergencyIsStop, DurableOwner, LoadsOwner, Load, DrivingHasSession,
        Driving, ActiveStates, StopInHand, StartInHand, DriveInHand, CanaryInHand
  <2> QED
    BY <2>2, <2>3 DEF IInv
<1>3. CASE ActiveSaved
  <2>1. Release /\ UNCHANGED <<recovered, inv, now, cfg>>
    BY <1>3 DEF ActiveSaved, envVars
  <2>2. /\ disk' \in Record /\ disk'.st = cur.st /\ disk'.sig = cur.sig
        /\ mem' \in Record /\ mem'.st = "none"
    BY <1>0, <1>3, SaveOkEffect DEF ActiveSaved
  <2>3. TypeOK'
    BY <2>1, <2>2, ReleaseEffect DEF IInv, TypeOK
  <2>4. Consistent'
    BY <1>0, <2>1, <2>2, ReleaseEffect
    DEF IInv, Consistent, EmergencyIsStop, DurableOwner, LoadsOwner, Load, DrivingHasSession,
        Driving, ActiveStates, StopInHand, StartInHand, DriveInHand, CanaryInHand
  <2> QED
    BY <2>3, <2>4 DEF IInv
<1>4. CASE ActiveUnsaved
  <2>1. /\ pc' = "stop_save" /\ after' = "idle" /\ clear' = FALSE
        /\ cur' \in Record /\ cur'.st = "stop_pending" /\ cur'.sig = cur.sig
        /\ UNCHANGED <<mem, recovered, inv, now, cfg, req>>
    BY <1>0, <1>4, EnterStopEffect DEF ActiveUnsaved, envVars
  <2>2. /\ disk' \in Record
        /\ disk' = disk \/ (disk'.st = cur.st /\ disk'.sig = cur.sig)
    BY <1>0, <1>4, SaveFailsEffect DEF ActiveUnsaved
  <2>3. TypeOK'
    BY <2>1, <2>2 DEF IInv, TypeOK
  <2>4. Consistent'
    BY <1>0, <2>1, <2>2
    DEF IInv, Consistent, EmergencyIsStop, DurableOwner, LoadsOwner, Load, DrivingHasSession,
        Driving, ActiveStates, StopInHand, StartInHand, DriveInHand, CanaryInHand
  <2> QED
    BY <2>3, <2>4 DEF IInv
<1> QED
  BY <1>1, <1>2, <1>3, <1>4 DEF Activate

-----------------------------------------------------------------------------
(* tick and canary. *)

\* tick: it stops or renews the session that was loaded.
LEMMA TickKeeps ==
  ASSUME IInv, TickBody
  PROVE  IInv'
<1>1. CASE TickIdle
  BY <1>1, QuitKeeps DEF TickIdle
<1>2. CASE TickStop
  <2>1. /\ Load \in Record /\ recovered \in BOOLEAN
        /\ inv # AUTO => Load.sig = inv
    BY LoadedFacts DEF IInv, TypeOK
  <2> QED
    BY <1>2, <2>1, EnterStopKeeps DEF TickStop
<1>3. CASE TickRenew
  <2>1. /\ pc = "body" /\ Load.st \in Driving /\ cur' = Load /\ pc' = "drive"
        /\ UNCHANGED <<disk, mem, recovered, inv, now, cfg, req, after, clear>>
    BY <1>3 DEF TickRenew, InBody, fileVars, envVars, opVars
  <2>2. /\ Load \in Record /\ Load = disk /\ mem.st = "none" /\ Load.sig \in Sigs
        /\ inv # AUTO => Load.sig = inv
        /\ after = "idle"
    BY <2>1, LoadedFacts
  <2>3. TypeOK'
    BY <2>1, <2>2 DEF IInv, TypeOK
  <2>4. /\ cur'.st \in Driving /\ cur'.sig \in Sigs
        /\ disk'.st \in Driving /\ disk'.sig = cur'.sig /\ mem'.st = "none"
        /\ inv' \in {AUTO, cur'.sig} /\ after' = "idle"
    BY <2>1, <2>2
  <2>5. EmergencyIsStop' /\ DurableOwner' /\ LoadsOwner' /\ DrivingHasSession'
    BY <2>1
    DEF IInv, Consistent, EmergencyIsStop, DurableOwner, LoadsOwner, Load, DrivingHasSession
  <2>6. Consistent'
    BY <2>1, <2>4, <2>5
    DEF Consistent, StopInHand, StartInHand, DriveInHand, CanaryInHand
  <2> QED
    BY <2>3, <2>6 DEF IInv
<1> QED
  BY <1>1, <1>2, <1>3 DEF TickBody

\* canary: it is an owner like any other.
LEMMA CanaryKeeps ==
  ASSUME IInv, CanaryBody
  PROVE  IInv'
<1>0. /\ cur \in Record /\ disk \in Record /\ now \in Time /\ recovered \in BOOLEAN
      /\ CanarySig \in Sigs
  BY ConstantsAssumption DEF IInv, TypeOK
<1>1. CASE CanaryRefused
  BY <1>1, QuitKeeps DEF CanaryRefused
<1>2. CASE CanaryPrepare
  <2>1. /\ pc = "body" /\ Load.st \notin ActiveStates /\ pc' = "canary_save"
        /\ UNCHANGED <<disk, mem, recovered, inv, now, cfg, req, after, clear>>
    BY <1>2 DEF CanaryPrepare, InBody, fileVars, envVars, opVars
  <2>2. PICK route \in Routes :
          cur' = [Load EXCEPT !.st = "preparing", !.sig = CanarySig, !.route = route,
                              !.started = now, !.expires = Cut(now + 1)]
    BY <1>2 DEF CanaryPrepare
  <2>3. now \in 0..MaxTime /\ Cut(now + 1) \in 0..MaxTime
    BY <1>0, ConstantsAssumption DEF Time, Cut
  <2>4. Load \in Record /\ inv = AUTO /\ after = "idle"
    BY <2>1, LoadedFacts
  <2>5. cur' \in Record /\ cur'.st = "preparing" /\ cur'.sig = CanarySig
    BY <1>0, <2>2, <2>3, <2>4 DEF Record, ActiveStates
  <2>6. TypeOK'
    BY <2>1, <2>5 DEF IInv, TypeOK
  <2>7. Consistent'
    BY <2>1, <2>4, <2>5
    DEF IInv, Consistent, EmergencyIsStop, DurableOwner, LoadsOwner, Load, DrivingHasSession,
        Driving, ActiveStates, StopInHand, StartInHand, DriveInHand, CanaryInHand
  <2> QED
    BY <2>6, <2>7 DEF IInv
<1>3. CASE CanarySave
  <2>1. /\ pc = "canary_save" /\ after = "idle" /\ inv = AUTO
        /\ cur.st = "preparing" /\ cur.sig = CanarySig
        /\ UNCHANGED <<recovered, inv, now, cfg>>
    BY <1>3 DEF CanarySave, envVars, IInv, Consistent, StopInHand, CanaryInHand
  <2>2. CASE SaveOk(cur) /\ pc' = "canary_run" /\ UNCHANGED <<cur, opVars>>
    <3>1. /\ disk' \in Record /\ disk'.st = "preparing" /\ disk'.sig = CanarySig
          /\ mem' \in Record /\ mem'.st = "none"
      BY <1>0, <2>1, <2>2, SaveOkEffect
    <3>2. TypeOK'
      BY <2>1, <2>2, <3>1 DEF IInv, TypeOK, opVars
    <3>3. Consistent'
      BY <1>0, <2>1, <2>2, <3>1
      DEF opVars, IInv, Consistent, EmergencyIsStop, DurableOwner, LoadsOwner, Load, DrivingHasSession,
        Driving, ActiveStates, StopInHand, StartInHand, DriveInHand, CanaryInHand
    <3> QED
      BY <3>2, <3>3 DEF IInv
  <2>3. CASE SaveFails(cur) /\ UNCHANGED mem /\ Release
    <3>1. /\ disk' \in Record
          /\ disk' = disk \/ (disk'.st = "preparing" /\ disk'.sig = CanarySig)
      BY <1>0, <2>1, <2>3, SaveFailsEffect
    <3>2. TypeOK'
      BY <2>1, <2>3, <3>1, ReleaseEffect DEF IInv, TypeOK
    <3>3. Consistent'
      BY <1>0, <2>1, <2>3, <3>1, ReleaseEffect
      DEF IInv, Consistent, EmergencyIsStop, DurableOwner, LoadsOwner, Load, DrivingHasSession,
        Driving, ActiveStates, StopInHand, StartInHand, DriveInHand, CanaryInHand
    <3> QED
      BY <3>2, <3>3 DEF IInv
  <2> QED
    BY <1>3, <2>2, <2>3 DEF CanarySave
<1>4. CASE CanaryRun
  <2>1. /\ pc = "canary_run" /\ after = "idle"
        /\ cur.sig = CanarySig /\ disk.st = "preparing" /\ disk.sig = CanarySig
        /\ mem.st = "none"
    BY <1>4 DEF CanaryRun, IInv, Consistent, StopInHand, CanaryInHand
  <2>2. /\ inv' \in {CanarySig, AUTO}
        /\ pc' = "stop_save" /\ after' = "idle" /\ clear' = FALSE
        /\ cur' \in Record /\ cur'.st = "stop_pending" /\ cur'.sig = CanarySig
        /\ UNCHANGED <<disk, mem, recovered, now, cfg, req>>
    BY <1>0, <1>4, <2>1, EnterStopEffect DEF CanaryRun, fileVars, envVars
  <2>3. TypeOK'
    BY <1>0, <2>2 DEF IInv, TypeOK
  <2>4. Consistent'
    BY <1>0, <2>1, <2>2
    DEF IInv, Consistent, EmergencyIsStop, DurableOwner, LoadsOwner, Load, DrivingHasSession,
        Driving, ActiveStates, StopInHand, StartInHand, DriveInHand, CanaryInHand
  <2> QED
    BY <2>3, <2>4 DEF IInv
<1> QED
  BY <1>1, <1>2, <1>3, <1>4 DEF CanaryBody

\* A step that changes nothing keeps it.
LEMMA StutterKeeps ==
  ASSUME IInv, UNCHANGED vars
  PROVE  IInv'
<1>1. TypeOK'
  BY DEF IInv, TypeOK, vars
<1>2. Consistent'
  BY DEF vars, SameSession, DriveLive, IInv, Consistent, EmergencyIsStop, DurableOwner, LoadsOwner, Load, DrivingHasSession,
        Driving, ActiveStates, StopInHand, StartInHand, DriveInHand, CanaryInHand
<1> QED
  BY <1>1, <1>2 DEF IInv

\* Every step keeps the inductive invariant.
LEMMA NextKeeps == IInv /\ [Next]_vars => IInv'
<1> SUFFICES ASSUME IInv, [Next]_vars PROVE IInv'
  OBVIOUS
<1>1. CASE Submit
  BY <1>1, SubmitStopKeeps, SubmitStartKeeps, PrepareKeeps, QuitKeeps
  DEF Submit, SubmitPreserved, SubmitStale, SubmitEnded, SubmitUnsupported
<1>2. CASE Running
  BY <1>1, <1>2, RecoverKeeps, StopKeeps, ActivateKeeps, TickKeeps, CanaryKeeps DEF Running
<1> QED
  BY <1>2, BeginKeeps, CrashKeeps, EnvironmentKeeps, StutterKeeps DEF Next

-----------------------------------------------------------------------------
(* The results. *)

\* The inductive invariant holds in every reachable state.
THEOREM Invariance == Spec => []IInv
BY InitIInv, NextKeeps, PTL DEF Spec

\* Every variable of the runtime has its type.
THEOREM TypeCorrect == Spec => []TypeOK
BY Invariance, PTL DEF IInv

\* Whatever fails, and wherever the process dies, an inverter that may follow a
\* remote setpoint is named by the state file of manual_battery_runtime as a session
\* that the next process stops.
THEOREM OwnerIsDurable == Spec => []DurableOwner
<1>1. IInv => DurableOwner
  BY DEF IInv, Consistent
<1> QED
  BY <1>1, Invariance, PTL

\* The runtime never takes the inverter for stopped while it may follow a setpoint.
THEOREM StatusIsHonest == Spec => []HonestStatus
<1>1. IInv => HonestStatus
  BY DEF IInv, Consistent, LoadsOwner, HonestStatus
<1> QED
  BY <1>1, Invariance, PTL

\* Between the setpoints of two sessions the inverter passes through AUTO.
THEOREM NoDirectTakeover == Spec => NoTakeover
<1>1. IInv /\ [Next]_vars => [inv' # inv => inv = AUTO \/ inv' = AUTO]_vars
  <2> SUFFICES ASSUME IInv, Next, inv' # inv PROVE inv = AUTO \/ inv' = AUTO
    OBVIOUS
  <2>1. CASE DriveOk \/ DriveFails
    BY <2>1 DEF DriveOk, DriveFails, IInv, Consistent, DriveInHand
  <2>2. CASE CanaryRun
    BY <2>2 DEF CanaryRun, IInv, Consistent, CanaryInHand
  <2>3. CASE StopAutoOk \/ StopAutoFails
    BY <2>3 DEF StopAutoOk, StopAutoFails
  <2>4. CASE Environment
    BY <2>4 DEF Environment, ClockAdvances, ClockMovedBack, ConfigChanges, InverterTimeout
  <2>5. CASE BeginSome \/ Crash
    BY <2>5 DEF BeginSome, BeginSubmit, Begin, Crash
  <2>6. CASE Recover \/ StopSave \/ StopFailedSave \/ StopDoneSaved \/ StopDoneUnsaved
    BY <2>6 DEF Recover, StopSave, StopFailedSave, StopDoneSaved, StopDoneUnsaved
  <2>7. CASE Submit
    BY <2>7
    DEF Submit, SubmitPendingStop, SubmitExpired, SubmitPreserved, SubmitAuto, SubmitStale,
        SubmitEnded, SubmitUnsupported, SubmitReplace, SubmitProceed, SubmitPrepare,
        PrepareSaved, PrepareUnsaved, Quit
  <2>8. CASE ActiveSaved \/ ActiveUnsaved \/ TickBody \/ CanaryRefused \/ CanaryPrepare
              \/ CanarySave
    BY <2>8
    DEF ActiveSaved, ActiveUnsaved, TickBody, TickIdle, TickStop, TickRenew, CanaryRefused,
        CanaryPrepare, CanarySave, Quit
  <2> QED
    BY <2>1, <2>2, <2>3, <2>4, <2>5, <2>6, <2>7, <2>8
    DEF Next, Running, Stop, Activate, CanaryBody
<1> QED
  BY <1>1, Invariance, PTL DEF Spec, NoTakeover

-----------------------------------------------------------------------------
(* The history.  What it says of the record depends, like IInv, on the place the *)
(* running operation has reached.                                                *)

\* The sessions whose end the latch remembers.
Users == ManualSigs \ {CanarySig}
Stopping == {"stop_save", "stop_auto", "stop_failed"}

\* The histories hold what their comments say.
HistoryTypes ==
  /\ live \in Sigs \cup {NoSig} /\ ended \subseteq Users
  /\ since \in 0..MaxTime /\ lastStop \in 0..MaxTime

\* A request names a session of its own kind, and never the commissioning test.
RequestNames ==
  req \in Requests => req.sig # CanarySig /\ (req.sig \in Sigs => req.manual = IsManual(req.sig))

\* Only a process that has recovered goes on to the body of an operation.
HasRecovered == pc \notin {"idle", "recover"} => recovered

\* The latch is cleared for the user's STOP only.
ClearedByUser ==
  clear => pc \in Stopping \cup {"stop_done"} /\ req \in Requests /\ ExplicitStop

\* The session last commanded is the one in the file and in what is loaded.
LiveIsNamed ==
  /\ inv # AUTO => live = inv
  /\ live # NoSig => /\ disk.st \in ActiveStates /\ disk.sig = live
                     /\ Load.st \in ActiveStates /\ Load.sig = live
  /\ pc \in Stopping \cup {"prepare_save"} /\ live # NoSig => cur.sig = live
  /\ pc \in {"stop_done", "canary_save"} => live = NoSig
  /\ pc = "canary_run" => live = CanarySig
  /\ pc = "active_save" => live = cur.sig
  /\ pc \in {"prepare_save", "drive", "active_save"} /\ req.kind = "submit" => cur.sig = req.sig

\* The inductive invariant of the history, beside IInv.
Named == HistoryTypes /\ RequestNames /\ HasRecovered /\ ClearedByUser /\ LiveIsNamed

-----------------------------------------------------------------------------
(* What a step does to the record, the operation and the history. *)

\* A record of the same session with the same deadlines, latch and barrier.
SameRecord(r, s) ==
  /\ r.sig = s.sig /\ r.latched = s.latched /\ r.barrier = s.barrier
  /\ r.started = s.started /\ r.expires = s.expires

\* The step adds nothing to the history.
Quiet == UNCHANGED <<live, ended, since, lastStop>>

\* The history moves only where its definitions say.
LEMMA QuietStep ==
  ASSUME HNext,
         \/ pc \notin {"drive", "stop_auto", "prepare_save", "canary_save", "stop_done"}
         \/ pc' = pc
         \/ pc = "stop_auto" /\ pc' = "stop_failed"
         \/ pc \in {"prepare_save", "canary_save"} /\ pc' = "idle"
         \/ pc = "stop_done" /\ (pc' # "idle" \/ ~clear \/ mem'.st # "none")
         \/ ~recovered' /\ pc' = "idle"
  PROVE  Quiet
BY DEF HNext, Owned, Commanded, VerifiedStop, ReportedStop, Quiet

\* A saved record differs from the one in hand by its stamp only.
LEMMA StampedSame ==
  ASSUME NEW s \in Record
  PROVE  SameRecord(Stamped(s), s)
<1> DEFINE r == [s EXCEPT !.upd = now]
<1>1. SameRecord(r, s) /\ SameRecord(s, s)
  BY DEF SameRecord, Record
<1> HIDE DEF r
<1>2. Stamped(s) = IF Fault("rollback") THEN r ELSE s
  BY DEF Stamped, r
<1> QED
  BY <1>1, <1>2

\* The three ways a save ends.
LEMMA SaveOkSame ==
  ASSUME NEW s \in Record, now \in Time, SaveOk(s)
  PROVE  /\ disk' \in Record /\ disk'.st = s.st /\ SameRecord(disk', s)
         /\ mem' = NoRecord /\ mem'.st = "none"
BY StampedType, StampedSame, NoRecordType DEF SaveOk

\* A save that fails leaves the old file or the new one (rename done, sync failed).
LEMMA SaveFailsSame ==
  ASSUME NEW s \in Record, now \in Time, disk \in Record, SaveFails(s)
  PROVE  /\ disk' \in Record
         /\ disk' = disk \/ (disk'.st = s.st /\ SameRecord(disk', s))
BY StampedType, StampedSame DEF SaveFails

\* The copy kept when a save fails is the record that could not be saved.
LEMMA KeepInMemorySame ==
  ASSUME NEW s \in Record, now \in Time, KeepInMemory(s)
  PROVE  mem' \in Record /\ mem'.st = s.st /\ SameRecord(mem', s)
BY StampedType, StampedSame DEF KeepInMemory

\* Entering _stop with the state s: only its status changes.
LEMMA EnterStopSame ==
  ASSUME NEW s \in Record, NEW then, NEW clr, EnterStop(s, then, clr)
  PROVE  /\ cur' \in Record /\ cur'.st = "stop_pending" /\ SameRecord(cur', s)
         /\ pc' = "stop_save" /\ after' = then /\ clear' = clr
BY EnterStopEffect DEF EnterStop, Record, SameRecord

-----------------------------------------------------------------------------
(* The steps that begin a _stop with the state they loaded. *)

\* recover, a pending or expired session, an AUTO request, a replacement, and tick.
Halting ==
  \/ Recover /\ pc' = "stop_save"
  \/ SubmitPendingStop /\ pc' = "stop_save"
  \/ SubmitExpired \/ SubmitAuto \/ SubmitReplace \/ TickStop

\* Such a step changes neither copy of the record, nor the inverter or the operation.
Untouched == UNCHANGED <<disk, mem, inv, now, req>>

\* They take the session that was loaded; only an AUTO request moves the barrier, to
\* its own validity if it is the user's STOP, which also asks for the latch to be
\* cleared; and only a replacement goes on to a start.
LEMMA HaltingEffect ==
  ASSUME IInv, HNext, Halting
  PROVE  /\ Untouched /\ Quiet /\ pc \in {"recover", "body"}
         /\ recovered' = TRUE \/ recovered' = recovered
         /\ pc = "recover" => recovered'
         /\ pc' = "stop_save" /\ cur' \in Record /\ cur'.st = "stop_pending"
         /\ cur'.sig = Load.sig /\ cur'.latched = Load.latched
         /\ \/ cur'.barrier = Load.barrier /\ ~clear'
            \/ InBody("submit") /\ ExplicitStop /\ cur'.barrier = req.until /\ clear'
         /\ after' \in {"idle", "body", "start"}
         /\ after' = "start" => SubmitReplace
<1>1. /\ Load \in Record /\ TypeOK
      /\ pc \in {"recover", "body"} => after = "idle"
  BY LoadedFacts DEF IInv
<1>2. CASE Recover /\ pc' = "stop_save"
  <2> DEFINE s == [Load EXCEPT !.retry = 0]
  <2>1. EnterStop(s, "body", FALSE) /\ pc = "recover" /\ recovered' = TRUE /\ Untouched
    BY <1>2 DEF Recover, Untouched, fileVars, envVars
  <2>2. \A l \in Record : /\ [l EXCEPT !.retry = 0] \in Record
                          /\ SameRecord([l EXCEPT !.retry = 0], l)
    <3>1. 0 \in 0..MaxTime
      BY ConstantsAssumption
    <3> QED
      BY <3>1 DEF Record, SameRecord
  <2>3. s \in Record /\ SameRecord(s, Load)
    BY <1>1, <2>2
  <2> HIDE DEF s
  <2>4. Quiet
    BY <2>1, QuietStep
  <2>5. /\ cur' \in Record /\ cur'.st = "stop_pending" /\ SameRecord(cur', Load)
        /\ pc' = "stop_save" /\ after' = "body" /\ ~clear'
    BY <2>1, <2>3, EnterStopSame DEF SameRecord
  <2> QED
    BY <2>1, <2>4, <2>5 DEF SameRecord
<1>3. CASE SubmitPendingStop /\ pc' = "stop_save"
  <2>1. EnterStop(Load, "body", FALSE) /\ pc = "body" /\ UNCHANGED recovered /\ Untouched
    BY <1>3 DEF SubmitPendingStop, InBody, Quit, Release, Untouched, fileVars, envVars
  <2>2. Quiet
    BY <2>1, QuietStep
  <2>3. /\ cur' \in Record /\ cur'.st = "stop_pending" /\ SameRecord(cur', Load)
        /\ pc' = "stop_save" /\ after' = "body" /\ ~clear'
    BY <1>1, <2>1, EnterStopSame
  <2> QED
    BY <2>1, <2>2, <2>3 DEF SameRecord
<1>4. CASE SubmitExpired
  <2>1. EnterStop(Load, "body", FALSE) /\ pc = "body" /\ UNCHANGED recovered /\ Untouched
    BY <1>4 DEF SubmitExpired, InBody, Untouched, fileVars, envVars
  <2>2. Quiet
    BY <2>1, QuietStep
  <2>3. /\ cur' \in Record /\ cur'.st = "stop_pending" /\ SameRecord(cur', Load)
        /\ pc' = "stop_save" /\ after' = "body" /\ ~clear'
    BY <1>1, <2>1, EnterStopSame
  <2> QED
    BY <2>1, <2>2, <2>3 DEF SameRecord
<1>5. CASE TickStop
  <2>1. EnterStop(Load, "idle", FALSE) /\ pc = "body" /\ UNCHANGED recovered /\ Untouched
    BY <1>5 DEF TickStop, InBody, Untouched, fileVars, envVars
  <2>2. Quiet
    BY <2>1, QuietStep
  <2> QED
    BY <1>1, <2>1, <2>2, EnterStopSame DEF SameRecord
<1>6. CASE SubmitReplace
  <2>1. EnterStop(Load, "start", FALSE) /\ pc = "body" /\ UNCHANGED recovered /\ Untouched
    BY <1>6 DEF SubmitReplace, Starting, InBody, Untouched, fileVars, envVars
  <2>2. Quiet
    BY <2>1, QuietStep
  <2> QED
    BY <1>1, <1>6, <2>1, <2>2, EnterStopSame DEF SameRecord
<1>7. CASE SubmitAuto
  <2> DEFINE s == [Load EXCEPT !.route = IF DriveLive(Load) THEN @ ELSE req.route,
                               !.barrier = IF req.manual THEN req.until ELSE @]
  <2>1. /\ EnterStop(s, "idle", req.manual) /\ InBody("submit") /\ req.sig = NoSig
        /\ UNCHANGED recovered /\ Untouched
    BY <1>7 DEF SubmitAuto, Untouched, fileVars, envVars
  <2>2. req \in Requests
    BY <1>1, <2>1, SubmitRequest
  <2>3. req.route \in Routes /\ req.until \in 0..MaxTime /\ req.manual \in BOOLEAN
    BY <2>2, ConstantsAssumption DEF Requests, Time
  <2> DEFINE r == IF DriveLive(Load) THEN Load.route ELSE req.route
             b == IF req.manual THEN req.until ELSE Load.barrier
  <2>5. r \in Routes \cup {NoRoute} /\ b \in 0..MaxTime
    BY <1>1, <2>3 DEF Record
  <2>6. s = [Load EXCEPT !.route = r, !.barrier = b]
    OBVIOUS
  <2> HIDE DEF s, r, b
  <2>7. /\ s \in Record /\ s.sig = Load.sig /\ s.latched = Load.latched /\ s.barrier = b
    <3> DEFINE e == [Load EXCEPT !.route = r, !.barrier = b]
    <3>1. /\ e \in Record /\ e.sig = Load.sig /\ e.latched = Load.latched /\ e.barrier = b
      <4>1. ASSUME NEW l \in Record
            PROVE  /\ [l EXCEPT !.route = r, !.barrier = b].sig = l.sig
                   /\ [l EXCEPT !.route = r, !.barrier = b].latched = l.latched
                   /\ [l EXCEPT !.route = r, !.barrier = b].barrier = b
                   /\ [l EXCEPT !.route = r, !.barrier = b] \in Record
        BY <2>5 DEF Record
      <4> QED
        BY <1>1, <4>1
    <3>2. s = e
      BY <2>6
    <3> HIDE DEF e
    <3> QED
      BY <3>1, <3>2
  <2>8. Quiet /\ pc = "body"
    BY <2>1, QuietStep DEF InBody
  <2>9. /\ cur' \in Record /\ cur'.st = "stop_pending" /\ SameRecord(cur', s)
        /\ pc' = "stop_save" /\ after' = "idle" /\ clear' = req.manual
    BY <2>1, <2>7, EnterStopSame
  <2>10. \/ cur'.barrier = Load.barrier /\ ~clear'
         \/ InBody("submit") /\ ExplicitStop /\ cur'.barrier = req.until /\ clear'
    BY <2>1, <2>3, <2>7, <2>9 DEF SameRecord, ExplicitStop, b
  <2> QED
    BY <2>1, <2>7, <2>8, <2>9, <2>10 DEF SameRecord
<1> QED
  BY <1>2, <1>3, <1>4, <1>5, <1>6, <1>7 DEF Halting

-----------------------------------------------------------------------------
(* The history names what the record says. *)

\* A _stop that begins has in hand the session that is live.
LEMMA NamedWhenHalting ==
  ASSUME IInv, Named, HNext, Halting
  PROVE  Named'
<1>1. /\ Untouched /\ Quiet /\ pc \in {"recover", "body"}
      /\ recovered'
      /\ pc' = "stop_save" /\ cur'.sig = Load.sig
  BY HaltingEffect DEF Named, HasRecovered
<1>2. Load' = Load
  BY <1>1 DEF Load, Untouched
<1>3. HistoryTypes' /\ RequestNames' /\ HasRecovered'
  BY <1>1 DEF Named, HistoryTypes, RequestNames, HasRecovered, Quiet, Untouched
<1>4. LiveIsNamed'
  BY <1>1, <1>2 DEF Named, LiveIsNamed, Quiet, Untouched, Stopping
<1>5. ~clear' \/ (InBody("submit") /\ ExplicitStop)
  BY HaltingEffect
<1>6. ClearedByUser'
  <2>1. InBody("submit") => req \in Requests
    BY SubmitRequest DEF IInv
  <2> QED
    BY <1>1, <1>5, <2>1 DEF ClearedByUser, ExplicitStop, Untouched, Stopping
<1> QED
  BY <1>3, <1>4, <1>6 DEF Named

\* _stop names the session that is live until AUTO is verified; then none is.
LEMMA NamedWhenStopping ==
  ASSUME IInv, Named, HNext, Stop
  PROVE  Named'
<1>0. /\ cur \in Record /\ disk \in Record /\ mem \in Record /\ now \in Time
      /\ after \in {"idle", "body", "start"}
  BY DEF IInv, TypeOK
<1>a. NoSig \notin Sigs /\ 0 \in 0..MaxTime
  BY ConstantsAssumption
<1>1. CASE StopSave
  <2>1. /\ pc = "stop_save" /\ pc' = "stop_auto" /\ Quiet
        /\ UNCHANGED <<recovered, inv, req, cur, clear>>
    BY <1>1, QuietStep DEF StopSave, envVars, opVars
  <2>2. cur.st = "stop_pending" /\ recovered /\ (live # NoSig => cur.sig = live)
    BY <2>1 DEF IInv, Consistent, StopInHand, Named, HasRecovered, LiveIsNamed, Stopping
  <2>3. /\ disk' = disk \/ (disk'.st = cur.st /\ disk'.sig = cur.sig)
        /\ \/ mem'.st = "none" /\ disk'.st = cur.st /\ disk'.sig = cur.sig
           \/ mem'.st = cur.st /\ mem'.sig = cur.sig
    BY <1>0, <1>1, SaveOkEffect, SaveFailsEffect, KeepInMemoryEffect DEF StopSave
  <2>4. HistoryTypes' /\ RequestNames' /\ HasRecovered' /\ ClearedByUser'
    BY <2>1, <2>2 DEF Named, HistoryTypes, RequestNames, HasRecovered, ClearedByUser, ExplicitStop, Stopping, Quiet
  <2>5. LiveIsNamed'
    BY <2>1, <2>2, <2>3 DEF Named, LiveIsNamed, Load, Quiet, Stopping, ActiveStates
  <2> QED
    BY <2>4, <2>5 DEF Named
<1>2. CASE StopAutoOk
  <2>1. /\ pc = "stop_auto" /\ pc' = "stop_done" /\ inv' = AUTO
        /\ UNCHANGED <<disk, mem, recovered, req, clear>>
    BY <1>2 DEF StopAutoOk, fileVars, envVars, opVars
  <2>2. /\ live' = NoSig /\ since' = 0 /\ lastStop' = lastStop
        /\ ended' \subseteq ended \cup Users
    BY <2>1 DEF HNext, Owned, Commanded, VerifiedStop, ReportedStop, Users
  <2>3. HistoryTypes' /\ RequestNames' /\ HasRecovered' /\ ClearedByUser'
    BY <1>a, <2>1, <2>2 DEF Named, HistoryTypes, RequestNames, HasRecovered, ClearedByUser, ExplicitStop, Stopping
  <2>4. LiveIsNamed'
    BY <2>1, <2>2 DEF LiveIsNamed, Stopping
  <2> QED
    BY <2>3, <2>4 DEF Named
<1>3. CASE StopAutoFails
  <2>1. /\ pc = "stop_auto" /\ pc' = "stop_failed" /\ inv' \in {inv, AUTO} /\ Quiet
        /\ cur'.sig = cur.sig
        /\ UNCHANGED <<disk, mem, recovered, req, clear>>
    BY <1>0, <1>3, QuietStep DEF StopAutoFails, fileVars, envVars, opVars, Record
  <2>2. HistoryTypes' /\ RequestNames' /\ HasRecovered' /\ ClearedByUser'
    BY <2>1 DEF Named, HistoryTypes, RequestNames, HasRecovered, ClearedByUser, ExplicitStop, Stopping, Quiet
  <2>3. LiveIsNamed'
    BY <2>1 DEF Named, LiveIsNamed, Load, Quiet, Stopping
  <2> QED
    BY <2>2, <2>3 DEF Named
<1>4. CASE StopFailedSave
  <2>1. /\ pc = "stop_failed" /\ pc' = "idle" /\ req' = NoOp /\ ~clear' /\ Quiet
        /\ UNCHANGED <<recovered, inv>>
    BY <1>4, QuietStep DEF StopFailedSave, Release, envVars
  <2>2. cur.st = "stop_pending" /\ (live # NoSig => cur.sig = live)
    BY <2>1 DEF IInv, Consistent, StopInHand, Named, LiveIsNamed, Stopping
  <2>3. /\ disk' = disk \/ (disk'.st = cur.st /\ disk'.sig = cur.sig)
        /\ \/ mem'.st = "none" /\ disk'.st = cur.st /\ disk'.sig = cur.sig
           \/ mem'.st = cur.st /\ mem'.sig = cur.sig
    BY <1>0, <1>4, SaveOkEffect, SaveFailsEffect, KeepInMemoryEffect DEF StopFailedSave
  <2>4. HistoryTypes' /\ RequestNames' /\ HasRecovered' /\ ClearedByUser'
    BY <2>1 DEF Named, HistoryTypes, RequestNames, HasRecovered, ClearedByUser, ExplicitStop, Stopping, Quiet, Requests, NoOp
  <2>5. LiveIsNamed'
    BY <2>1, <2>2, <2>3 DEF Named, LiveIsNamed, Load, Quiet, Stopping, ActiveStates
  <2> QED
    BY <2>4, <2>5 DEF Named
<1>5. CASE StopDoneSaved \/ StopDoneUnsaved
  <2>1. pc = "stop_done" /\ inv' = AUTO /\ ~clear' /\ UNCHANGED recovered
    BY <1>5 DEF StopDoneSaved, StopDoneUnsaved, Release, envVars, IInv, Consistent, StopInHand
  <2>2. \/ pc' = "idle" /\ req' = NoOp
        \/ pc' \in {"body", "start"} /\ req' = req
    BY <1>0, <1>5 DEF StopDoneSaved, StopDoneUnsaved, Release
  <2>3. /\ live' = NoSig /\ since' = since /\ ended' = ended
        /\ lastStop' = lastStop \/ (lastStop' = req.until /\ req.until \in 0..MaxTime)
    <3>1. live = NoSig /\ recovered
      BY <2>1 DEF Named, LiveIsNamed, HasRecovered
    <3>2. /\ live' = live /\ since' = since /\ ended' = ended
          /\ lastStop' = IF ReportedStop /\ req.until > lastStop THEN req.until ELSE lastStop
      BY <2>1, <2>2 DEF HNext, Owned, Commanded, VerifiedStop
    <3>3. ReportedStop => req.until \in 0..MaxTime
      BY ConstantsAssumption DEF ReportedStop, Named, ClearedByUser, Requests, Time
    <3> QED
      BY <3>1, <3>2, <3>3
  <2>4. HistoryTypes' /\ RequestNames' /\ HasRecovered' /\ ClearedByUser'
    BY <2>1, <2>2, <2>3
    DEF Named, HistoryTypes, RequestNames, HasRecovered, ClearedByUser, ExplicitStop, Stopping, Requests, NoOp
  <2>5. LiveIsNamed'
    BY <2>1, <2>2, <2>3 DEF LiveIsNamed, Stopping
  <2> QED
    BY <2>4, <2>5 DEF Named
<1> QED
  BY <1>1, <1>2, <1>3, <1>4, <1>5 DEF Stop

\* The steps that touch neither copy of the record nor what is in hand: an operation
\* begins, goes on or returns at once, the process dies, the environment moves.
LEMMA NamedWhenPassing ==
  ASSUME IInv, Named, HNext,
         \/ Quit /\ pc \in {"body", "start"}
         \/ BeginSome \/ Crash \/ Environment \/ SubmitProceed
         \/ Recover /\ pc' # "stop_save"
  PROVE  Named'
<1>0. NoRecord.st = "none" /\ TypeOK
  BY NoRecordType DEF IInv
<1>1. CASE Quit /\ pc \in {"body", "start"}
  <2>1. /\ pc' = "idle" /\ req' = NoOp /\ ~clear' /\ Quiet
        /\ UNCHANGED <<disk, mem, recovered, inv>>
    BY <1>1, QuietStep DEF Quit, Release, fileVars, envVars
  <2> QED
    BY <2>1 DEF Named, HistoryTypes, RequestNames, HasRecovered, ClearedByUser, LiveIsNamed,
                Load, Quiet, Requests, NoOp, Stopping
<1>2. CASE BeginSome
  <2>1. /\ pc = "idle" /\ pc' = "recover"
        /\ UNCHANGED <<disk, mem, recovered, inv, clear>>
    BY <1>2 DEF BeginSome, BeginSubmit, Begin, fileVars, envVars
  <2>2. Quiet /\ ~clear
    BY <2>1, QuietStep DEF Named, ClearedByUser, Stopping
  <2>3. RequestNames'
    <3>1. CASE Begin(Tick) \/ Begin(Canary)
      BY <3>1 DEF Begin, RequestNames, Requests, Tick, Canary
    <3>2. CASE \E manual \in BOOLEAN, sig \in Sigs \cup {NoSig}, until, end \in 1..MaxTime,
                 route \in Routes : BeginSubmit(manual, sig, until, end, route)
      BY <3>2 DEF BeginSubmit, RequestNames
    <3> QED
      BY <1>2, <3>1, <3>2 DEF BeginSome
  <2>4. HistoryTypes' /\ HasRecovered' /\ ClearedByUser' /\ LiveIsNamed'
    BY <2>1, <2>2
    DEF Named, HistoryTypes, HasRecovered, ClearedByUser, LiveIsNamed, Load, Quiet, Stopping
  <2> QED
    BY <2>3, <2>4 DEF Named
<1>3. CASE Crash
  <2>1. /\ pc' = "idle" /\ req' = NoOp /\ ~clear' /\ ~recovered' /\ mem' = NoRecord
        /\ UNCHANGED <<disk, inv>>
    BY <1>3 DEF Crash, Release, envVars
  <2>2. Quiet
    BY <2>1, QuietStep
  <2> QED
    BY <1>0, <2>1, <2>2
    DEF Named, HistoryTypes, RequestNames, HasRecovered, ClearedByUser, LiveIsNamed,
        Load, Quiet, Requests, NoOp, Stopping
<1>4. CASE Environment
  <2>1. /\ inv' \in {inv, AUTO}
        /\ UNCHANGED <<disk, mem, recovered, pc, cur, req, after, clear>>
    BY <1>4 DEF Environment, ClockAdvances, ClockMovedBack, ConfigChanges, InverterTimeout,
                envVars, fileVars, opVars
  <2>2. Quiet
    BY <2>1, QuietStep
  <2> QED
    BY <2>1, <2>2
    DEF Named, HistoryTypes, RequestNames, HasRecovered, ClearedByUser, LiveIsNamed,
        Load, Quiet, ExplicitStop
<1>5. CASE SubmitProceed
  <2>1. /\ pc = "body" /\ pc' = "start"
        /\ UNCHANGED <<disk, mem, recovered, inv, req, cur, clear>>
    BY <1>5 DEF SubmitProceed, Starting, InBody, fileVars, opVars
  <2>2. Quiet
    BY <2>1, QuietStep
  <2> QED
    BY <2>1, <2>2
    DEF Named, HistoryTypes, RequestNames, HasRecovered, ClearedByUser, LiveIsNamed,
        Load, Quiet, Stopping
<1>6. CASE Recover /\ pc' # "stop_save"
  <2>1. /\ pc = "recover" /\ pc' = "body" /\ recovered'
        /\ UNCHANGED <<disk, mem, inv, req, cur, clear>>
    BY <1>6 DEF Recover, EnterStop, fileVars
  <2>2. Quiet
    BY <2>1, QuietStep
  <2> QED
    BY <2>1, <2>2
    DEF Named, HistoryTypes, RequestNames, HasRecovered, ClearedByUser, LiveIsNamed,
        Load, Quiet, Stopping
<1> QED
  BY <1>1, <1>2, <1>3, <1>4, <1>5, <1>6

\* The new record of a start: a renewal keeps its session, its start and its latch; a
\* new session begins now.
LEMMA PrepareEffect ==
  ASSUME IInv, HNext, SubmitPrepare, ~Quit
  PROVE  /\ pc = "start" /\ pc' = "prepare_save" /\ Quiet
         /\ UNCHANGED <<disk, mem, recovered, inv, now, req, after, clear>>
         /\ req \in Requests /\ req.sig \in Sigs
         /\ cur' \in Record /\ cur'.st = "preparing" /\ cur'.sig = req.sig
         /\ cur'.latched = Load.latched /\ cur'.barrier = Load.barrier
         /\ \/ /\ SameSession(Load) /\ Load = disk /\ Load.st \in Driving
               /\ Load.sig = req.sig /\ cur'.started = Load.started
            \/ Load.st \in {"none", "stopped"} /\ cur'.started = req.at
         /\ cur'.expires <= Cut(cur'.started + SessionCap)
<1>1. /\ pc = "start" /\ pc' = "prepare_save"
      /\ UNCHANGED <<disk, mem, recovered, inv, now, req, after, clear>>
  BY DEF SubmitPrepare, fileVars, envVars, opVars
<1>2. Quiet
  BY <1>1, QuietStep
<1>3. /\ req \in Requests /\ req.sig \in Sigs /\ Load \in Record
      /\ Load.st \in {"none", "stopped"} \/ SameSession(Load)
  BY <1>1, LoadedFacts DEF IInv, Consistent, StartInHand
<1>4. SameSession(Load) => Load.st \in Driving /\ Load.sig = req.sig
  BY DEF SameSession, DriveLive
<1>5. Load.st \in Driving => Load = disk
  BY LoadedFacts
<1> DEFINE same == SameSession(Load)
           started == IF same THEN Load.started ELSE req.at
           deadline == Earlier(req.end, Cut(started + SessionCap))
<1>6. cur' = [Load EXCEPT !.st = "preparing", !.sig = req.sig, !.route = req.route,
                          !.started = started, !.expires = deadline, !.blocked = NoSig]
  BY DEF SubmitPrepare
<1>7. started \in 0..MaxTime /\ req.end \in 0..MaxTime
  BY <1>3, ConstantsAssumption DEF Requests, Record, Time
<1>8. same => started = Load.started
  OBVIOUS
<1>9. ~same => started = req.at
  OBVIOUS
<1> HIDE DEF started
<1>10. Cut(started + SessionCap) \in 0..MaxTime
  BY <1>7, ConstantsAssumption DEF Cut
<1>11. deadline <= Cut(started + SessionCap) /\ deadline \in 0..MaxTime
  BY <1>7, <1>10 DEF Earlier
<1> HIDE DEF deadline
<1>12. /\ cur' \in Record /\ cur'.st = "preparing" /\ cur'.sig = req.sig
       /\ cur'.latched = Load.latched /\ cur'.barrier = Load.barrier
       /\ cur'.started = started /\ cur'.expires = deadline
  <2>1. req.route \in Routes
    BY <1>3 DEF Requests
  <2> QED
    BY <1>3, <1>6, <1>7, <1>11, <2>1 DEF Record, ActiveStates
<1> QED
  BY <1>1, <1>2, <1>3, <1>4, <1>5, <1>8, <1>9, <1>11, <1>12

\* The steps of a start.
LEMMA NamedWhenStarting ==
  ASSUME IInv, Named, HNext, (SubmitPrepare /\ ~Quit) \/ PrepareSaved \/ PrepareUnsaved
  PROVE  Named'
<1>0. cur \in Record /\ disk \in Record /\ now \in Time
  BY DEF IInv, TypeOK
<1>1. CASE SubmitPrepare /\ ~Quit
  <2>1. /\ pc = "start" /\ pc' = "prepare_save" /\ Quiet
        /\ UNCHANGED <<disk, mem, recovered, inv, req, clear>>
        /\ cur'.sig = req.sig
        /\ Load.sig = req.sig \/ Load.st \in {"none", "stopped"}
    BY <1>1, PrepareEffect
  <2>2. HistoryTypes' /\ RequestNames' /\ HasRecovered' /\ ClearedByUser'
    BY <2>1 DEF Named, HistoryTypes, RequestNames, HasRecovered, ClearedByUser, Quiet, Stopping
  <2>3. LiveIsNamed'
    BY <2>1 DEF Named, LiveIsNamed, Load, Quiet, Stopping, ActiveStates
  <2> QED
    BY <2>2, <2>3 DEF Named
<1>2. CASE PrepareSaved
  <2>1. /\ pc = "prepare_save" /\ pc' = "drive"
        /\ UNCHANGED <<recovered, inv, req, cur, clear>>
    BY <1>2 DEF PrepareSaved, opVars
  <2>2. /\ live' = cur.sig /\ since' = since /\ ended' = ended /\ lastStop' = lastStop
    BY <2>1 DEF HNext, Owned, Commanded, VerifiedStop, ReportedStop
  <2>3. cur.st = "preparing" /\ cur.sig \in Sigs /\ (inv # AUTO => cur.sig = inv)
    BY <2>1 DEF IInv, Consistent, StartInHand
  <2>4. disk'.st = cur.st /\ disk'.sig = cur.sig /\ mem'.st = "none"
    BY <1>0, <1>2, SaveOkEffect DEF PrepareSaved
  <2>5. HistoryTypes' /\ RequestNames' /\ HasRecovered' /\ ClearedByUser'
    BY <2>1, <2>2, <2>3
    DEF Named, HistoryTypes, RequestNames, HasRecovered, ClearedByUser, Stopping
  <2>6. LiveIsNamed'
    BY <2>1, <2>2, <2>3, <2>4 DEF Named, LiveIsNamed, Load, Stopping, ActiveStates
  <2> QED
    BY <2>5, <2>6 DEF Named
<1>3. CASE PrepareUnsaved
  <2>1. /\ pc = "prepare_save" /\ pc' = "idle" /\ req' = NoOp /\ ~clear'
        /\ UNCHANGED <<mem, recovered, inv>>
    BY <1>3 DEF PrepareUnsaved, Release
  <2>2. Quiet
    BY <2>1, QuietStep
  <2>3. cur.st = "preparing" /\ (live # NoSig => cur.sig = live)
    BY <2>1 DEF IInv, Consistent, StartInHand, Named, LiveIsNamed
  <2>4. disk' = disk \/ (disk'.st = cur.st /\ disk'.sig = cur.sig)
    BY <1>0, <1>3, SaveFailsEffect DEF PrepareUnsaved
  <2>5. HistoryTypes' /\ RequestNames' /\ HasRecovered' /\ ClearedByUser'
    BY <2>1, <2>2
    DEF Named, HistoryTypes, RequestNames, HasRecovered, ClearedByUser, Quiet, Requests, NoOp
  <2>6. LiveIsNamed'
    BY <2>1, <2>2, <2>3, <2>4
    DEF Named, LiveIsNamed, Load, Quiet, Stopping, ActiveStates
  <2> QED
    BY <2>5, <2>6 DEF Named
<1> QED
  BY <1>1, <1>2, <1>3

\* The steps that drive the inverter: what is followed is what is live.
LEMMA NamedWhenDriving ==
  ASSUME IInv, Named, HNext, Activate \/ TickRenew
  PROVE  Named'
<1>0. cur \in Record /\ disk \in Record /\ now \in Time /\ MaxTime \in Nat
  BY ConstantsAssumption DEF IInv, TypeOK
<1>1. CASE DriveOk \/ DriveFails
  <2>1. /\ pc = "drive" /\ pc' \in {"active_save", "stop_save"}
        /\ inv' \in {inv, cur.sig, AUTO} /\ cur'.sig = cur.sig
        /\ UNCHANGED <<disk, mem, recovered, req>>
        /\ clear' = clear \/ clear' = FALSE
    BY <1>0, <1>1 DEF DriveOk, DriveFails, EnterStop, fileVars, opVars, Record
  <2>2. /\ live' = cur.sig /\ ended' = ended /\ lastStop' = lastStop
        /\ since' \in {now, since}
    BY <2>1 DEF HNext, Owned, Commanded, VerifiedStop, ReportedStop
  <2>3. /\ cur.sig \in Sigs /\ disk.st \in Driving /\ disk.sig = cur.sig /\ mem.st = "none"
        /\ inv \in {AUTO, cur.sig}
    BY <2>1 DEF IInv, Consistent, DriveInHand
  <2>4. now \in 0..MaxTime
    BY <1>0 DEF Time
  <2>7. ~clear'
    BY <2>1 DEF Named, ClearedByUser, Stopping
  <2>5. HistoryTypes' /\ RequestNames' /\ HasRecovered' /\ ClearedByUser'
    BY <2>1, <2>2, <2>3, <2>4, <2>7
    DEF Named, HistoryTypes, RequestNames, HasRecovered, ClearedByUser
  <2>6. LiveIsNamed'
    BY <2>1, <2>2, <2>3
    DEF Named, LiveIsNamed, Load, Stopping, Driving, ActiveStates
  <2> QED
    BY <2>5, <2>6 DEF Named
<1>2. CASE ActiveSaved
  <2>1. /\ pc = "active_save" /\ pc' = "idle" /\ req' = NoOp /\ ~clear'
        /\ UNCHANGED <<recovered, inv>>
    BY <1>2 DEF ActiveSaved, Release
  <2>2. Quiet
    BY <2>1, QuietStep
  <2>3. cur.st \in Driving /\ live = cur.sig
    BY <2>1 DEF IInv, Consistent, DriveInHand, Named, LiveIsNamed
  <2>4. disk'.st = cur.st /\ disk'.sig = cur.sig /\ mem'.st = "none"
    BY <1>0, <1>2, SaveOkEffect DEF ActiveSaved
  <2>5. HistoryTypes' /\ RequestNames' /\ HasRecovered' /\ ClearedByUser'
    BY <2>1, <2>2
    DEF Named, HistoryTypes, RequestNames, HasRecovered, ClearedByUser, Quiet, Requests, NoOp
  <2>6. LiveIsNamed'
    BY <2>1, <2>2, <2>3, <2>4
    DEF Named, LiveIsNamed, Load, Quiet, Stopping, Driving, ActiveStates
  <2> QED
    BY <2>5, <2>6 DEF Named
<1>3. CASE ActiveUnsaved
  <2>1. /\ pc = "active_save" /\ pc' = "stop_save" /\ ~clear' /\ cur'.sig = cur.sig
        /\ UNCHANGED <<mem, recovered, inv, req>>
    BY <1>0, <1>3 DEF ActiveUnsaved, EnterStop, Record
  <2>2. Quiet
    BY <2>1, QuietStep
  <2>3. cur.st \in Driving /\ live = cur.sig
    BY <2>1 DEF IInv, Consistent, DriveInHand, Named, LiveIsNamed
  <2>4. disk' = disk \/ (disk'.st = cur.st /\ disk'.sig = cur.sig)
    BY <1>0, <1>3, SaveFailsEffect DEF ActiveUnsaved
  <2>5. HistoryTypes' /\ RequestNames' /\ HasRecovered' /\ ClearedByUser'
    BY <2>1, <2>2
    DEF Named, HistoryTypes, RequestNames, HasRecovered, ClearedByUser, Quiet
  <2>6. LiveIsNamed'
    BY <2>1, <2>2, <2>3, <2>4
    DEF Named, LiveIsNamed, Load, Quiet, Stopping, Driving, ActiveStates
  <2> QED
    BY <2>5, <2>6 DEF Named
<1>4. CASE TickRenew
  <2>1. /\ pc = "body" /\ pc' = "drive" /\ req.kind = "tick"
        /\ UNCHANGED <<disk, mem, recovered, inv, req, clear>>
    BY <1>4 DEF TickRenew, InBody, fileVars, opVars
  <2>2. Quiet
    BY <2>1, QuietStep
  <2>3. HistoryTypes' /\ RequestNames' /\ HasRecovered' /\ ClearedByUser'
    BY <2>1, <2>2
    DEF Named, HistoryTypes, RequestNames, HasRecovered, ClearedByUser, Quiet, Stopping
  <2>4. LiveIsNamed'
    BY <2>1, <2>2 DEF Named, LiveIsNamed, Load, Quiet, Stopping
  <2> QED
    BY <2>3, <2>4 DEF Named
<1> QED
  BY <1>1, <1>2, <1>3, <1>4 DEF Activate

\* The record of the commissioning test.
LEMMA CanaryEffect ==
  ASSUME IInv, HNext, CanaryPrepare
  PROVE  /\ pc = "body" /\ pc' = "canary_save" /\ Quiet
         /\ req.kind = "canary"
         /\ UNCHANGED <<disk, mem, recovered, inv, now, req, after, clear>>
         /\ Load.st \notin ActiveStates
         /\ cur' \in Record /\ cur'.st = "preparing" /\ cur'.sig = CanarySig
         /\ cur'.latched = Load.latched /\ cur'.barrier = Load.barrier
         /\ cur'.started = now /\ cur'.expires = Cut(now + 1)
<1>1. /\ pc = "body" /\ pc' = "canary_save" /\ req.kind = "canary"
      /\ Load.st \notin ActiveStates
      /\ UNCHANGED <<disk, mem, recovered, inv, now, req, after, clear>>
  BY DEF CanaryPrepare, InBody, fileVars, envVars, opVars
<1>2. PICK route \in Routes :
        cur' = [Load EXCEPT !.st = "preparing", !.sig = CanarySig, !.route = route,
                            !.started = now, !.expires = Cut(now + 1)]
  BY DEF CanaryPrepare
<1>3. now \in 0..MaxTime /\ Cut(now + 1) \in 0..MaxTime /\ CanarySig \in Sigs
  BY ConstantsAssumption DEF Time, Cut, IInv, TypeOK
<1>4. Load \in Record
  BY LoadedFacts
<1>5. Quiet
  BY <1>1, QuietStep
<1>6. /\ cur' \in Record /\ cur'.st = "preparing" /\ cur'.sig = CanarySig
      /\ cur'.latched = Load.latched /\ cur'.barrier = Load.barrier
      /\ cur'.started = now /\ cur'.expires = Cut(now + 1)
  BY <1>2, <1>3, <1>4 DEF Record, ActiveStates
<1> QED
  BY <1>1, <1>5, <1>6

\* The commissioning test is a session like any other.
LEMMA NamedWhenTesting ==
  ASSUME IInv, Named, HNext, CanaryPrepare \/ CanarySave \/ CanaryRun
  PROVE  Named'
<1>0. /\ cur \in Record /\ disk \in Record /\ now \in Time
      /\ CanarySig \in Sigs
  BY ConstantsAssumption DEF IInv, TypeOK
<1>1. CASE CanaryPrepare
  <2>1. /\ pc = "body" /\ pc' = "canary_save" /\ Quiet
        /\ UNCHANGED <<disk, mem, recovered, inv, req, clear>>
        /\ Load.st \notin ActiveStates
    BY <1>1, CanaryEffect
  <2>2. HistoryTypes' /\ RequestNames' /\ HasRecovered' /\ ClearedByUser'
    BY <2>1 DEF Named, HistoryTypes, RequestNames, HasRecovered, ClearedByUser, Quiet, Stopping
  <2>3. LiveIsNamed'
    BY <2>1 DEF Named, LiveIsNamed, Load, Quiet, Stopping
  <2> QED
    BY <2>2, <2>3 DEF Named
<1>2. CASE CanarySave
  <2>1. /\ pc = "canary_save" /\ inv' = inv /\ recovered' = recovered
        /\ live = NoSig /\ inv = AUTO
        /\ cur.st = "preparing" /\ cur.sig = CanarySig
    BY <1>2 DEF CanarySave, Named, LiveIsNamed, IInv, Consistent, CanaryInHand
  <2>2. CASE SaveOk(cur) /\ pc' = "canary_run" /\ UNCHANGED <<cur, opVars>>
    <3>1. disk'.st = cur.st /\ disk'.sig = cur.sig /\ mem'.st = "none"
      BY <1>0, <2>2, SaveOkEffect
    <3>2. /\ live' = cur.sig /\ since' = since /\ ended' = ended /\ lastStop' = lastStop
      BY <2>1, <2>2 DEF HNext, Owned, Commanded, VerifiedStop, ReportedStop
    <3>3. HistoryTypes' /\ RequestNames' /\ HasRecovered' /\ ClearedByUser'
      BY <1>0, <2>1, <2>2, <3>2
      DEF Named, HistoryTypes, RequestNames, HasRecovered, ClearedByUser, Stopping, opVars
    <3>4. LiveIsNamed'
      BY <2>1, <2>2, <3>1, <3>2 DEF LiveIsNamed, Load, Stopping, ActiveStates
    <3> QED
      BY <3>3, <3>4 DEF Named
  <2>3. CASE SaveFails(cur) /\ UNCHANGED mem /\ Release
    <3>1. pc' = "idle" /\ req' = NoOp /\ ~clear' /\ mem' = mem
      BY <2>3 DEF Release
    <3>2. Quiet
      BY <2>1, <3>1, QuietStep
    <3>3. HistoryTypes' /\ RequestNames' /\ HasRecovered' /\ ClearedByUser'
      BY <2>1, <3>1, <3>2
      DEF Named, HistoryTypes, RequestNames, HasRecovered, ClearedByUser, Quiet, Requests, NoOp
    <3>4. LiveIsNamed'
      BY <2>1, <3>1, <3>2 DEF LiveIsNamed, Quiet, Stopping
    <3> QED
      BY <3>3, <3>4 DEF Named
  <2> QED
    BY <1>2, <2>2, <2>3 DEF CanarySave
<1>3. CASE CanaryRun
  <2>1. /\ pc = "canary_run" /\ pc' = "stop_save" /\ inv' \in {CanarySig, AUTO} /\ ~clear'
        /\ cur'.sig = cur.sig /\ UNCHANGED <<disk, mem, recovered, req>>
    BY <1>0, <1>3 DEF CanaryRun, EnterStop, fileVars, Record
  <2>2. Quiet
    BY <2>1, QuietStep
  <2>3. /\ cur.sig = CanarySig /\ live = CanarySig
    BY <2>1 DEF Named, LiveIsNamed, IInv, Consistent, CanaryInHand
  <2>4. HistoryTypes' /\ RequestNames' /\ HasRecovered' /\ ClearedByUser'
    BY <2>1, <2>2
    DEF Named, HistoryTypes, RequestNames, HasRecovered, ClearedByUser, Quiet
  <2>5. LiveIsNamed'
    BY <2>1, <2>2, <2>3 DEF Named, LiveIsNamed, Load, Quiet, Stopping
  <2> QED
    BY <2>4, <2>5 DEF Named
<1> QED
  BY <1>1, <1>2, <1>3

\* The cases of a step, as the history sees them.
Passing ==
  \/ Quit /\ pc \in {"body", "start"}
  \/ BeginSome \/ Crash \/ Environment \/ SubmitProceed
  \/ Recover /\ pc' # "stop_save"

\* The steps of a start up to the driver, and those of the commissioning test.
Starts == (SubmitPrepare /\ ~Quit) \/ PrepareSaved \/ PrepareUnsaved
Tests == CanaryPrepare \/ CanarySave \/ CanaryRun

\* Every step of the runtime is of one of these kinds.
LEMMA StepCases ==
  ASSUME Next
  PROVE  Halting \/ Stop \/ Passing \/ Starts \/ Activate \/ TickRenew \/ Tests
<1>1. CASE Submit
  <2>1. SubmitPreserved \/ SubmitStale \/ SubmitEnded \/ SubmitUnsupported => Passing
    BY DEF SubmitPreserved, SubmitStale, SubmitEnded, SubmitUnsupported, Starting, InBody, Passing
  <2>2. SubmitPendingStop => Halting \/ Passing
    BY DEF SubmitPendingStop, InBody, EnterStop, Halting, Passing
  <2>3. SubmitPrepare => Starts \/ Passing
    BY DEF SubmitPrepare, Starts, Passing
  <2> QED
    BY <1>1, <2>1, <2>2, <2>3 DEF Submit, Halting, Passing, Starts
<1>2. CASE TickBody \/ CanaryBody
  BY <1>2 DEF TickBody, TickIdle, CanaryBody, CanaryRefused, InBody, Halting, Passing, Tests
<1> QED
  BY <1>1, <1>2 DEF Next, Running, Halting, Passing

\* It holds when the process starts for the first time.
LEMMA NamedInit == HInit => Named
BY ConstantsAssumption, NoRecordType
DEF HInit, Init, Named, HistoryTypes, RequestNames, HasRecovered, ClearedByUser, LiveIsNamed,
    Requests, NoOp, Stopping

\* And every step keeps it.
LEMMA NamedKeeps == IInv /\ Named /\ [HNext]_hvars => Named'
<1> SUFFICES ASSUME IInv, Named, [HNext]_hvars PROVE Named'
  OBVIOUS
<1>1. CASE HNext
  <2>1. Next
    BY <1>1 DEF HNext
  <2> QED
    BY <1>1, <2>1, StepCases, NamedWhenHalting, NamedWhenStopping, NamedWhenPassing,
       NamedWhenStarting, NamedWhenDriving, NamedWhenTesting DEF Passing, Starts, Tests
<1>2. CASE UNCHANGED hvars
  BY <1>2
  DEF hvars, vars, Named, HistoryTypes, RequestNames, HasRecovered, ClearedByUser, LiveIsNamed,
      Load, ExplicitStop
<1> QED
  BY <1>1, <1>2
-----------------------------------------------------------------------------
(* The cap on a session. *)

\* A record that began in the past and is authorized for no longer than the cap.
InTime(s) == s.started <= now /\ s.expires <= Cut(s.started + SessionCap)

\* It began before the session was first commanded.
BeforeCommand(s) == since # 0 => s.started <= since

\* What is loaded and what is in hand is authorized for no longer than the cap, counted
\* from the first command of its session.
CapKept ==
  /\ since <= now /\ (since # 0 => live # NoSig)
  /\ req \in Requests => req.at <= now
  /\ disk.st \in Driving => InTime(disk) /\ BeforeCommand(disk)
  /\ pc \in {"prepare_save", "drive", "active_save", "canary_save", "canary_run"} =>
       InTime(cur) /\ BeforeCommand(cur)

\* The clock does not move back, and the times of a record are numbers.
LEMMA Times ==
  ASSUME IInv, IInv', Named, Named'
  PROVE  /\ MaxTime \in Nat /\ SessionCap \in Nat /\ SessionCap >= 1
         /\ now \in Nat /\ now' \in Nat /\ since \in Nat /\ since' \in Nat
         /\ disk.started \in Nat /\ disk.expires \in Nat
         /\ cur.started \in Nat /\ cur.expires \in Nat
         /\ disk'.started \in Nat /\ disk'.expires \in Nat
         /\ cur'.started \in Nat /\ cur'.expires \in Nat
<1>1. MaxTime \in Nat /\ SessionCap \in Nat /\ SessionCap >= 1
  BY ConstantsAssumption
<1>2. now \in Nat /\ now' \in Nat /\ since \in Nat /\ since' \in Nat
  BY <1>1 DEF IInv, TypeOK, Time, Named, HistoryTypes
<1>3. disk \in Record /\ cur \in Record /\ disk' \in Record /\ cur' \in Record
  BY DEF IInv, TypeOK
<1>4. \A s \in Record : s.started \in Nat /\ s.expires \in Nat
  BY <1>1 DEF Record
<1> QED
  BY <1>1, <1>2, <1>3, <1>4

\* A save leaves the file as it was, or with the record that was saved.
LEMMA CapInFile ==
  ASSUME IInv, IInv', Named, Named', CapKept, "rollback" \notin Faults,
         \/ disk' = disk
         \/ disk'.st \notin Driving
         \/ SameRecord(disk', cur) /\ InTime(cur) /\ BeforeCommand(cur),
         now' >= now, since' = since \/ since' = 0
  PROVE  disk'.st \in Driving => InTime(disk)' /\ BeforeCommand(disk)'
BY Times DEF CapKept, InTime, BeforeCommand, SameRecord

\* Every step keeps it, unless the clock moves back.
LEMMA CapKeeps ==
  ASSUME IInv, IInv', Named, Named', CapKept, HNext, "rollback" \notin Faults
  PROVE  CapKept'
<1>0. cur \in Record /\ disk \in Record /\ now \in Time
  BY DEF IInv, TypeOK
<1>a. NoOp \notin Requests
  BY DEF NoOp, Requests
<1>1. CASE Halting
  <2>1. UNCHANGED <<disk, now, req>> /\ Quiet /\ pc' = "stop_save"
    BY <1>1, HaltingEffect DEF Untouched
  <2> QED
    BY <2>1 DEF CapKept, InTime, BeforeCommand, Quiet
<1>2. CASE Stop
  <2>1. now' = now /\ (req' = req \/ req' = NoOp)
    BY <1>2 DEF Stop, StopSave, StopAutoOk, StopAutoFails, StopFailedSave, StopDoneSaved,
                StopDoneUnsaved, envVars, opVars, Release
  <2>2. pc' \in {"stop_auto", "stop_done", "stop_failed", "idle", "body", "start"}
    BY <1>2 DEF Stop, StopSave, StopAutoOk, StopAutoFails, StopFailedSave, StopDoneSaved,
                StopDoneUnsaved, Release, IInv, TypeOK
  <2>3. disk' = disk \/ disk'.st \notin Driving
    <3>1. CASE StopAutoOk \/ StopAutoFails
      BY <3>1 DEF StopAutoOk, StopAutoFails, fileVars
    <3>2. CASE StopSave \/ StopFailedSave \/ StopDoneSaved \/ StopDoneUnsaved
      <4>1. cur.st \in {"stop_pending", "stopped"}
        BY <3>2 DEF StopSave, StopFailedSave, StopDoneSaved, StopDoneUnsaved, IInv, Consistent,
                    StopInHand
      <4>2. SaveOk(cur) \/ SaveFails(cur)
        BY <3>2 DEF StopSave, StopFailedSave, StopDoneSaved, StopDoneUnsaved
      <4> QED
        BY <1>0, <4>1, <4>2, SaveOkEffect, SaveFailsEffect DEF Driving
    <3> QED
      BY <1>2, <3>1, <3>2 DEF Stop
  <2>4. (live' = live /\ since' = since) \/ since' = 0
    BY <1>2
    DEF HNext, Owned, Commanded, VerifiedStop, Stop, StopSave, StopAutoOk, StopAutoFails,
        StopFailedSave, StopDoneSaved, StopDoneUnsaved
  <2>5. disk'.st \in Driving => InTime(disk)' /\ BeforeCommand(disk)'
    BY <2>1, <2>3, <2>4, CapInFile, Times
  <2>6. since' <= now' /\ (since' # 0 => live' # NoSig)
    BY <2>1, <2>4, Times DEF CapKept
  <2> QED
    BY <1>a, <2>1, <2>2, <2>5, <2>6 DEF CapKept
<1>3. CASE Passing
  <2>1. CASE Environment
    <3>1. /\ now' >= now
          /\ UNCHANGED <<disk, pc, cur, req>>
      BY <2>1, Times DEF Environment, ClockAdvances, ClockMovedBack, Fault, ConfigChanges,
                InverterTimeout, envVars, fileVars, opVars
    <3>2. Quiet
      BY <3>1, QuietStep
    <3>3. /\ InTime(disk) => InTime(disk)'
          /\ InTime(cur) => InTime(cur)'
          /\ BeforeCommand(disk) => BeforeCommand(disk)'
          /\ BeforeCommand(cur) => BeforeCommand(cur)'
      BY <3>1, <3>2, Times DEF InTime, BeforeCommand, Quiet
    <3>4. req \in Requests => req.at \in Nat
      BY DEF Requests, Time
    <3>5. since' <= now' /\ (since' # 0 => live' # NoSig)
      BY <3>1, <3>2, Times DEF CapKept, Quiet
    <3>6. req' \in Requests => req'.at <= now'
      BY <3>1, <3>4, Times DEF CapKept
    <3> QED
      BY <3>1, <3>3, <3>5, <3>6 DEF CapKept
  <2>2. CASE BeginSome
    <3>1. /\ pc = "idle" /\ pc' = "recover"
          /\ UNCHANGED <<disk, now, cur>>
          /\ req' = Tick \/ req' = Canary \/ req'.at = now
      BY <2>2 DEF BeginSome, BeginSubmit, Begin, fileVars, envVars
    <3>2. Quiet
      BY <3>1, QuietStep
    <3>3. Tick \notin Requests /\ Canary \notin Requests
      BY DEF Tick, Canary, Requests
    <3> QED
      BY <3>1, <3>2, <3>3, Times DEF CapKept, InTime, BeforeCommand, Quiet
  <2>3. CASE ~Environment /\ ~BeginSome
    <3>1. /\ pc' \in {"idle", "start", "body"}
          /\ UNCHANGED <<disk, now>> /\ (req' = req \/ req' = NoOp)
      BY <1>3, <2>3
      DEF Passing, Quit, Release, Crash, SubmitProceed, Recover, EnterStop, fileVars, envVars,
          opVars
    <3>2. Quiet
      <4>1. CASE Crash
        BY <4>1, QuietStep DEF Crash, Release
      <4>2. CASE ~Crash
        <5>1. pc \in {"body", "start", "recover"}
          BY <1>3, <2>3, <4>2 DEF Passing, SubmitProceed, Starting, InBody, Recover
        <5> QED
          BY <5>1, QuietStep
      <4> QED
        BY <4>1, <4>2
    <3> QED
      BY <1>a, <3>1, <3>2 DEF CapKept, InTime, BeforeCommand, Quiet
  <2> QED
    BY <2>1, <2>2, <2>3
<1>4. CASE SubmitPrepare /\ ~Quit
  <2>1. /\ pc' = "prepare_save" /\ UNCHANGED <<disk, now, req>> /\ Quiet
        /\ req \in Requests
        /\ \/ Load = disk /\ Load.st \in Driving /\ cur'.started = Load.started
           \/ Load.st \in {"none", "stopped"} /\ cur'.started = req.at
        /\ cur'.expires <= Cut(cur'.started + SessionCap)
    BY <1>4, PrepareEffect
  <2>2. Load.st \in {"none", "stopped"} => live = NoSig
    BY DEF Named, LiveIsNamed, ActiveStates
  <2>3. InTime(cur)' /\ BeforeCommand(cur)'
    BY <2>1, <2>2, Times DEF CapKept, InTime, BeforeCommand, Quiet, Cut
  <2> QED
    BY <2>1, <2>3 DEF CapKept, InTime, BeforeCommand, Quiet
<1>5. CASE PrepareSaved \/ PrepareUnsaved \/ ActiveSaved \/ ActiveUnsaved \/ CanarySave
  <2>1. /\ pc \in {"prepare_save", "active_save", "canary_save"}
        /\ now' = now /\ (req' = req \/ req' = NoOp)
        /\ pc' \in {"idle", "stop_save"} \/ (pc' \in {"drive", "canary_run"} /\ cur' = cur)
    BY <1>5 DEF PrepareSaved, PrepareUnsaved, ActiveSaved, ActiveUnsaved, CanarySave, Release,
                EnterStop, envVars, opVars
  <2>2. InTime(cur) /\ BeforeCommand(cur)
    BY <2>1 DEF CapKept
  <2>3. disk' = disk \/ SameRecord(disk', cur)
    BY <1>0, <1>5, SaveOkSame, SaveFailsSame
    DEF PrepareSaved, PrepareUnsaved, ActiveSaved, ActiveUnsaved, CanarySave
  <2>4. since' = since /\ (live' = live \/ live' = cur.sig)
    BY <2>1 DEF HNext, Owned, Commanded, VerifiedStop
  <2>5. cur.sig \in Sigs
    BY <2>1, ConstantsAssumption
    DEF IInv, Consistent, StartInHand, DriveInHand, CanaryInHand
  <2>6. disk'.st \in Driving => InTime(disk)' /\ BeforeCommand(disk)'
    BY <2>1, <2>2, <2>3, <2>4, CapInFile, Times
  <2>7. since' <= now' /\ (since' # 0 => live' # NoSig)
    BY <2>1, <2>4, <2>5, ConstantsAssumption DEF CapKept
  <2>8. pc' \in {"drive", "canary_run"} => InTime(cur)' /\ BeforeCommand(cur)'
    BY <2>1, <2>2, <2>4 DEF InTime, BeforeCommand
  <2> QED
    BY <1>a, <2>1, <2>6, <2>7, <2>8 DEF CapKept
<1>6. CASE DriveOk \/ DriveFails
  <2>1. /\ pc = "drive" /\ UNCHANGED <<disk, now, req>>
        /\ pc' \in {"active_save", "stop_save"}
        /\ cur'.started = cur.started /\ cur'.expires = cur.expires
    BY <1>0, <1>6 DEF DriveOk, DriveFails, EnterStop, fileVars, envVars, opVars, Record
  <2>2. InTime(cur) /\ BeforeCommand(cur) /\ cur.sig \in Sigs
    BY <2>1 DEF CapKept, IInv, Consistent, DriveInHand
  <2>3. live' = cur.sig /\ since' = IF since = 0 THEN now ELSE since
    BY <2>1 DEF HNext, Owned, Commanded, VerifiedStop
  <2>4. InTime(cur)' /\ BeforeCommand(cur)'
    BY <2>1, <2>2, <2>3, Times DEF InTime, BeforeCommand
  <2>5. disk'.st \in Driving => InTime(disk)' /\ BeforeCommand(disk)'
    BY <2>1, <2>3, Times DEF CapKept, InTime, BeforeCommand
  <2>6. since' <= now' /\ (since' # 0 => live' # NoSig)
    BY <2>1, <2>2, <2>3, ConstantsAssumption, Times DEF CapKept
  <2> QED
    BY <2>1, <2>4, <2>5, <2>6 DEF CapKept
<1>7. CASE TickRenew
  <2>1. /\ pc = "body" /\ pc' = "drive" /\ Load.st \in Driving /\ cur' = Load
        /\ UNCHANGED <<disk, now, req>>
    BY <1>7 DEF TickRenew, InBody, fileVars, envVars, opVars
  <2>2. Load = disk /\ Quiet
    BY <2>1, LoadedFacts, QuietStep
  <2> QED
    BY <2>1, <2>2 DEF CapKept, InTime, BeforeCommand, Quiet
<1>8. CASE CanaryPrepare
  <2>1. /\ pc' = "canary_save" /\ UNCHANGED <<disk, now, req>> /\ Quiet
        /\ Load.st \notin ActiveStates
        /\ cur'.started = now /\ cur'.expires = Cut(now + 1)
    BY <1>8, CanaryEffect
  <2>2. since = 0
    BY <2>1 DEF CapKept, Named, LiveIsNamed
  <2>3. InTime(cur)' /\ BeforeCommand(cur)'
    BY <2>1, <2>2, Times DEF InTime, BeforeCommand, Quiet, Cut
  <2> QED
    BY <2>1, <2>3 DEF CapKept, InTime, BeforeCommand, Quiet
<1>9. CASE CanaryRun
  <2>1. /\ pc = "canary_run" /\ pc' = "stop_save" /\ UNCHANGED <<disk, now, req>>
    BY <1>9 DEF CanaryRun, EnterStop, fileVars, envVars
  <2>2. Quiet
    BY <2>1, QuietStep
  <2> QED
    BY <2>1, <2>2 DEF CapKept, InTime, BeforeCommand, Quiet
<1> QED
  BY <1>1, <1>2, <1>3, <1>4, <1>5, <1>6, <1>7, <1>8, <1>9, StepCases
  DEF HNext, Starts, Activate, Tests

\* IInv and Named along a behaviour with its history.
THEOREM HistoryIsNamed == HSpec => [](IInv /\ Named)
<1>1. HInit => IInv /\ Named
  BY InitIInv, NamedInit DEF HInit
<1>2. IInv /\ Named /\ [HNext]_hvars => (IInv /\ Named)'
  <2>1. [HNext]_hvars => [Next]_vars
    BY DEF HNext, hvars
  <2> QED
    BY <2>1, NextKeeps, NamedKeeps
<1> QED
  BY <1>1, <1>2, PTL DEF HSpec

\* Renewing a session does not prolong it (submit, lines 300-312): from its first command
\* to the next verified AUTO it is never authorized for more than MAX_SESSION_SECONDS,
\* unless the clock is set back, across renewals, crashes, failed saves and retries.
THEOREM SessionsAreCapped ==
  ASSUME "rollback" \notin Faults
  PROVE  HSpec => []SessionCapped
<1>1. HInit => CapKept
  BY NoRecordType, ConstantsAssumption
  DEF HInit, Init, CapKept, Driving, Requests, NoOp
<1>2. IInv /\ Named /\ IInv' /\ Named' /\ CapKept /\ [HNext]_hvars => CapKept'
  <2>1. CapKept /\ UNCHANGED hvars => CapKept'
    BY DEF hvars, vars, CapKept, InTime, BeforeCommand
  <2> QED
    BY <2>1, CapKeeps
<1>3. IInv /\ Named /\ CapKept => SessionCapped
  <2> SUFFICES ASSUME IInv, Named, CapKept, pc = "drive", since # 0
               PROVE  cur.expires <= Cut(since + SessionCap)
    BY DEF SessionCapped
  <2>1. cur.started <= since /\ cur.expires <= Cut(cur.started + SessionCap)
    BY DEF CapKept, InTime, BeforeCommand
  <2>2. /\ cur.started \in Nat /\ cur.expires \in Nat /\ since \in Nat
        /\ MaxTime \in Nat /\ SessionCap \in Nat
    BY ConstantsAssumption DEF IInv, TypeOK, Record, Named, HistoryTypes
  <2> QED
    BY <2>1, <2>2 DEF Cut
<1> QED
  BY <1>1, <1>2, <1>3, HistoryIsNamed, PTL DEF HSpec
-----------------------------------------------------------------------------
(* The barrier: no start issued before a reported STOP. *)

\* Where an operation holds a record that it will save or drive.
InHand == Stopping \cup {"stop_done", "prepare_save", "drive", "active_save", "canary_save",
                         "canary_run"}

\* Every copy of the record that may still be loaded or saved is as new as the last
\* reported STOP, and so is the request that is being served.
BarrierKept ==
  /\ disk.barrier >= lastStop /\ (mem.st # "none" => mem.barrier >= lastStop)
  /\ pc \in InHand => cur.barrier >= lastStop
  /\ req \in Requests /\ ExplicitStop => req.until >= lastStop
  /\ clear => cur.barrier = req.until
  /\ pc \in {"start", "prepare_save", "drive"} \/ after = "start" =>
       (req \in Requests /\ req.manual => req.until > lastStop)

\* The outcome of a _stop keeps its session and its barrier.
LEMMA StoppedSame ==
  ASSUME cur \in Record
  PROVE  StoppedRecord.sig = cur.sig /\ StoppedRecord.barrier = cur.barrier
<1> DEFINE s == [cur EXCEPT !.st = "stopped", !.retry = 0, !.attempts = 0,
                            !.started = 0, !.expires = 0]
<1>1. s.sig = cur.sig /\ s.barrier = cur.barrier
  BY DEF Record
<1>2. ASSUME NEW q
      PROVE  [s EXCEPT !.blocked = q].sig = s.sig /\ [s EXCEPT !.blocked = q].barrier = s.barrier
  BY DEF Record
<1>3. ASSUME NEW q, NEW l
      PROVE  /\ [s EXCEPT !.blocked = q, !.latched = l].sig = s.sig
             /\ [s EXCEPT !.blocked = q, !.latched = l].barrier = s.barrier
  BY DEF Record
<1> HIDE DEF s
<1>4. StoppedRecord = IF clear THEN [s EXCEPT !.blocked = NoSig, !.latched = << >>]
                      ELSE IF IsManual(cur.sig)
                           THEN [s EXCEPT !.blocked = cur.sig,
                                          !.latched = Latch(cur.latched, cur.sig)]
                           ELSE s
  BY DEF StoppedRecord, s
<1> QED
  BY <1>1, <1>3, <1>4

\* The barriers are numbers.
LEMMA BarrierNumbers ==
  ASSUME IInv, Named
  PROVE  /\ disk.barrier \in Nat /\ mem.barrier \in Nat /\ cur.barrier \in Nat
         /\ Load.barrier \in Nat /\ lastStop \in Nat
         /\ req \in Requests => req.until \in Nat /\ req.until # 0
<1>1. MaxTime \in Nat /\ Load \in Record
  BY ConstantsAssumption, LoadType DEF IInv
<1>2. \A s \in Record : s.barrier \in Nat
  BY <1>1 DEF Record
<1> QED
  BY <1>1, <1>2 DEF IInv, TypeOK, Named, HistoryTypes, Requests, Time

\* What is loaded is as new as the last reported STOP.
LEMMA LoadedBarrier ==
  ASSUME BarrierKept
  PROVE  Load.barrier >= lastStop
BY DEF BarrierKept, Load

\* A start that passes the barrier was issued after the last reported STOP.
LEMMA PassesBarrier ==
  ASSUME IInv, Named, BarrierKept, InBody("submit"), ~StaleStart(Load)
  PROVE  req \in Requests /\ req.manual => req.until > lastStop
BY BarrierNumbers, LoadedBarrier DEF StaleStart

\* _stop saves what it loaded: the barrier of a user's STOP is in the file, or in
\* memory, before the STOP is reported as done.
LEMMA BarrierWhenStopping ==
  ASSUME IInv, IInv', Named, Named', BarrierKept, HNext, Stop
  PROVE  BarrierKept'
<1>0. cur \in Record /\ disk \in Record /\ mem \in Record /\ now \in Time
  BY DEF IInv, TypeOK
<1>a. NoOp \notin Requests
  BY DEF NoOp, Requests
<1>1. CASE StopSave
  <2>1. /\ pc = "stop_save" /\ pc' = "stop_auto" /\ Quiet
        /\ UNCHANGED <<req, cur, after, clear>>
    BY <1>1, QuietStep DEF StopSave, opVars
  <2>2. /\ disk' = disk \/ SameRecord(disk', cur)
        /\ mem'.st = "none" \/ SameRecord(mem', cur)
    BY <1>0, <1>1, SaveOkSame, SaveFailsSame, KeepInMemorySame DEF StopSave
  <2> QED
    BY <2>1, <2>2 DEF BarrierKept, SameRecord, Quiet, InHand, Stopping, ExplicitStop
<1>2. CASE StopAutoOk
  <2>1. /\ pc = "stop_auto" /\ pc' = "stop_done" /\ cur' = StoppedRecord
        /\ UNCHANGED <<disk, mem, req, after, clear>>
    BY <1>2 DEF StopAutoOk, fileVars, opVars
  <2>2. lastStop' = lastStop
    BY <2>1 DEF HNext, ReportedStop
  <2>3. cur'.barrier = cur.barrier
    BY <1>0, <2>1, StoppedSame
  <2> QED
    BY <2>1, <2>2, <2>3 DEF BarrierKept, InHand, Stopping, ExplicitStop
<1>3. CASE StopAutoFails
  <2>1. /\ pc = "stop_auto" /\ pc' = "stop_failed" /\ Quiet /\ cur'.barrier = cur.barrier
        /\ UNCHANGED <<disk, mem, req, after, clear>>
    BY <1>0, <1>3, QuietStep DEF StopAutoFails, fileVars, opVars, Record
  <2> QED
    BY <2>1 DEF BarrierKept, Quiet, InHand, Stopping, ExplicitStop
<1>4. CASE StopFailedSave \/ StopDoneUnsaved
  <2>1. /\ pc \in {"stop_failed", "stop_done"} /\ pc' = "idle" /\ req' = NoOp /\ ~clear'
        /\ after' = "idle"
    BY <1>4 DEF StopFailedSave, StopDoneUnsaved, Release
  <2>2. /\ disk' = disk \/ SameRecord(disk', cur)
        /\ mem'.st = "none" \/ SameRecord(mem', cur)
    BY <1>0, <1>4, SaveOkSame, SaveFailsSame, KeepInMemorySame DEF StopFailedSave, StopDoneUnsaved
  <2>3. Quiet
    <3>1. CASE StopFailedSave
      BY <3>1, QuietStep DEF StopFailedSave, Release
    <3>2. CASE StopDoneUnsaved
      <4>1. mem'.st = "stopped" /\ pc = "stop_done"
        BY <1>0, <3>2, KeepInMemorySame DEF StopDoneUnsaved, IInv, Consistent, StopInHand
      <4> QED
        BY <4>1, QuietStep
    <3> QED
      BY <1>4, <3>1, <3>2
  <2> QED
    BY <1>a, <2>1, <2>2, <2>3 DEF BarrierKept, SameRecord, Quiet, InHand, Stopping
<1>5. CASE StopDoneSaved
  <2>1. /\ pc = "stop_done" /\ after' = "idle" /\ ~clear'
        /\ \/ pc' = "idle" /\ req' = NoOp
           \/ pc' \in {"body", "start"} /\ pc' = after /\ req' = req
    BY <1>5 DEF StopDoneSaved, Release, IInv, TypeOK
  <2>2. SameRecord(disk', cur) /\ mem'.st = "none"
    BY <1>0, <1>5, SaveOkSame DEF StopDoneSaved
  <2>3. CASE lastStop' = lastStop
    BY <1>a, <2>1, <2>2, <2>3 DEF BarrierKept, SameRecord, InHand, Stopping, ExplicitStop
  <2>4. CASE lastStop' # lastStop
    <3>1. ReportedStop /\ lastStop' = req.until
      BY <2>4 DEF HNext
    <3>2. pc' = "idle" /\ req' = NoOp /\ clear
      BY <2>1, <3>1 DEF ReportedStop
    <3>3. disk'.barrier = req.until
      BY <2>2, <3>2 DEF BarrierKept, SameRecord
    <3>4. req.until \in Nat
      BY <3>2, BarrierNumbers DEF Named, ClearedByUser
    <3> QED
      BY <1>a, <2>1, <2>2, <3>1, <3>2, <3>3, <3>4 DEF BarrierKept, InHand, Stopping
  <2> QED
    BY <2>3, <2>4
<1> QED
  BY <1>1, <1>2, <1>3, <1>4, <1>5 DEF Stop

\* Every step keeps it when explicit STOPs arrive in the order they were issued.
LEMMA BarrierKeeps ==
  ASSUME IInv, IInv', Named, Named', BarrierKept, HNext, "reorder" \notin Faults
  PROVE  BarrierKept'
<1>0. /\ cur \in Record /\ disk \in Record /\ now \in Time
      /\ NoRecord.st = "none"
  BY NoRecordType DEF IInv, TypeOK
<1>a. NoOp \notin Requests
  BY DEF NoOp, Requests
<1>1. CASE Halting
  <2>1. /\ UNCHANGED <<disk, mem, req>> /\ Quiet /\ pc' = "stop_save"
        /\ \/ cur'.barrier = Load.barrier /\ ~clear'
           \/ InBody("submit") /\ ExplicitStop /\ cur'.barrier = req.until /\ clear'
        /\ after' = "start" => SubmitReplace
    BY <1>1, HaltingEffect DEF Untouched
  <2>2. cur'.barrier >= lastStop /\ (clear' => cur'.barrier = req.until)
    <3>1. InBody("submit") => req \in Requests
      BY SubmitRequest DEF IInv
    <3> QED
      BY <2>1, <3>1, LoadedBarrier DEF BarrierKept
  <2>3. SubmitReplace => (req \in Requests /\ req.manual => req.until > lastStop)
    BY PassesBarrier DEF SubmitReplace, Starting
  <2> QED
    BY <2>1, <2>2, <2>3 DEF BarrierKept, Quiet, InHand, ExplicitStop
<1>2. CASE Stop
  BY <1>2, BarrierWhenStopping
<1>3. CASE Passing
  <2>1. CASE Environment
    <3>1. UNCHANGED <<disk, mem, pc, cur, req, after, clear>>
      BY <2>1 DEF Environment, ClockAdvances, ClockMovedBack, ConfigChanges,
                InverterTimeout, fileVars, opVars
    <3>2. Quiet
      BY <3>1, QuietStep
    <3> QED
      BY <3>1, <3>2 DEF BarrierKept, Quiet, ExplicitStop
  <2>2. CASE BeginSome
    <3>1. /\ pc = "idle" /\ pc' = "recover" /\ UNCHANGED <<disk, mem, cur, after, clear>>
      BY <2>2 DEF BeginSome, BeginSubmit, Begin, fileVars
    <3>2. Quiet
      BY <3>1, QuietStep
    <3>3. req' \in Requests /\ ExplicitStop' => req'.until >= Load.barrier
      <4>1. CASE Begin(Tick) \/ Begin(Canary)
        BY <4>1 DEF Begin, Tick, Canary, Requests
      <4>2. CASE \E manual \in BOOLEAN, sig \in Sigs \cup {NoSig}, until, end \in 1..MaxTime,
                   route \in Routes : BeginSubmit(manual, sig, until, end, route)
        BY <4>2 DEF BeginSubmit, ExplicitStop, Fault
      <4> QED
        BY <2>2, <4>1, <4>2 DEF BeginSome
    <3>4. after # "start" /\ ~clear
      BY <3>1 DEF IInv, Consistent, StopInHand, Named, ClearedByUser, Stopping
    <3>5. req' \in Requests /\ ExplicitStop' => req'.until >= lastStop
      <4>1. req' \in Requests => req'.until \in Nat
        BY DEF Requests, Time
      <4> QED
        BY <3>3, <4>1, LoadedBarrier, BarrierNumbers
    <3> QED
      BY <3>1, <3>2, <3>4, <3>5 DEF BarrierKept, Quiet, InHand, Stopping
  <2>3. CASE SubmitProceed
    <3>1. /\ pc = "body" /\ pc' = "start" /\ InBody("submit") /\ ~StaleStart(Load)
          /\ UNCHANGED <<disk, mem, req, cur, after, clear>>
      BY <2>3 DEF SubmitProceed, Starting, InBody, fileVars, opVars
    <3>2. Quiet
      BY <3>1, QuietStep
    <3>3. req \in Requests /\ req.manual => req.until > lastStop
      BY <3>1, PassesBarrier
    <3> QED
      BY <3>1, <3>2, <3>3 DEF BarrierKept, Quiet, InHand, Stopping, ExplicitStop
  <2>4. CASE ~Environment /\ ~BeginSome /\ ~SubmitProceed
    <3>1. /\ \/ pc' = "idle" /\ req' = NoOp
             \/ pc' = "body" /\ req' = req
          /\ UNCHANGED disk /\ (mem' = mem \/ mem' = NoRecord)
      BY <1>3, <2>4
      DEF Passing, Quit, Release, Crash, Recover, EnterStop, fileVars
    <3>2. Quiet
      <4>1. CASE Crash
        BY <4>1, QuietStep DEF Crash, Release
      <4>2. CASE ~Crash
        <5>1. pc \in {"body", "start", "recover"}
          BY <1>3, <2>4, <4>2 DEF Passing, Recover
        <5> QED
          BY <5>1, QuietStep
      <4> QED
        BY <4>1, <4>2
    <3>3. ~clear' /\ after' # "start"
      BY <3>1 DEF Named, ClearedByUser, IInv, Consistent, StopInHand, Stopping
    <3> QED
      BY <1>0, <1>a, <3>1, <3>2, <3>3 DEF BarrierKept, Quiet, InHand, Stopping, ExplicitStop
  <2> QED
    BY <2>1, <2>2, <2>3, <2>4
<1>4. CASE SubmitPrepare /\ ~Quit
  <2>1. /\ pc = "start" /\ pc' = "prepare_save" /\ UNCHANGED <<disk, mem, req, after, clear>> /\ Quiet
        /\ cur'.barrier = Load.barrier
    BY <1>4, PrepareEffect
  <2>2. ~clear
    BY <2>1 DEF Named, ClearedByUser, Stopping
  <2> QED
    BY <2>1, <2>2, LoadedBarrier DEF BarrierKept, Quiet, ExplicitStop
<1>5. CASE PrepareSaved \/ PrepareUnsaved \/ ActiveSaved \/ ActiveUnsaved \/ CanarySave
  <2>1. /\ pc \in {"prepare_save", "active_save", "canary_save"}
        /\ \/ pc' = "idle" /\ req' = NoOp
           \/ pc' = "stop_save" /\ req' = req /\ cur'.barrier = cur.barrier
           \/ /\ (pc = "prepare_save" /\ pc' = "drive") \/ pc' = "canary_run"
              /\ req' = req /\ cur' = cur
        /\ after' = "idle" \/ after' = after
        /\ mem' = mem \/ mem' = NoRecord
    BY <1>0, <1>5 DEF PrepareSaved, PrepareUnsaved, ActiveSaved, ActiveUnsaved, CanarySave, Release,
                EnterStop, envVars, opVars, SaveOk, Record
  <2>2. disk' = disk \/ SameRecord(disk', cur)
    BY <1>0, <1>5, SaveOkSame, SaveFailsSame
    DEF PrepareSaved, PrepareUnsaved, ActiveSaved, ActiveUnsaved, CanarySave
  <2>3. lastStop' = lastStop
    BY <2>1 DEF HNext, ReportedStop
  <2>4. ~clear' /\ after' # "start"
    <3>1. ~clear /\ after = "idle"
      BY <2>1 DEF Named, ClearedByUser, IInv, Consistent, StopInHand, Stopping
    <3>2. clear' = clear \/ clear' = FALSE
      BY <1>5 DEF PrepareSaved, PrepareUnsaved, ActiveSaved, ActiveUnsaved, CanarySave, Release,
                  EnterStop, opVars
    <3> QED
      BY <2>1, <3>1, <3>2
  <2> QED
    BY <1>0, <1>a, <2>1, <2>2, <2>3, <2>4
    DEF BarrierKept, SameRecord, InHand, Stopping, ExplicitStop
<1>6. CASE DriveOk \/ DriveFails \/ CanaryRun
  <2>1. /\ pc \in {"drive", "canary_run"} /\ UNCHANGED <<disk, mem, req>>
        /\ pc' \in {"active_save", "stop_save"} /\ cur'.barrier = cur.barrier
        /\ after' = "idle" \/ after' = after
        /\ clear' = clear \/ clear' = FALSE
    BY <1>0, <1>6 DEF DriveOk, DriveFails, CanaryRun, EnterStop, fileVars, opVars, Record
  <2>2. lastStop' = lastStop
    BY <2>1 DEF HNext, ReportedStop
  <2>3. ~clear' /\ after' # "start"
    BY <2>1 DEF Named, ClearedByUser, IInv, Consistent, StopInHand, Stopping
  <2> QED
    BY <2>1, <2>2, <2>3 DEF BarrierKept, InHand, Stopping, ExplicitStop
<1>7. CASE TickRenew
  <2>1. /\ pc = "body" /\ pc' = "drive" /\ req.kind = "tick" /\ cur' = Load
        /\ UNCHANGED <<disk, mem, req, after, clear>>
    BY <1>7 DEF TickRenew, InBody, fileVars, opVars
  <2>2. Quiet /\ ~clear
    BY <2>1, QuietStep DEF Named, ClearedByUser, Stopping
  <2>3. req \notin Requests
    BY <2>1 DEF Requests
  <2> QED
    BY <2>1, <2>2, <2>3, LoadedBarrier DEF BarrierKept, Quiet
<1>8. CASE CanaryPrepare
  <2>1. /\ pc = "body" /\ pc' = "canary_save" /\ UNCHANGED <<disk, mem, req, after, clear>>
        /\ Quiet /\ cur'.barrier = Load.barrier
    BY <1>8, CanaryEffect
  <2>2. ~clear
    BY <2>1 DEF Named, ClearedByUser, Stopping
  <2> QED
    BY <2>1, <2>2, LoadedBarrier DEF BarrierKept, Quiet, ExplicitStop
<1> QED
  BY <1>1, <1>2, <1>3, <1>4, <1>5, <1>6, <1>7, <1>8, StepCases
  DEF HNext, Starts, Activate, Tests

\* Once a user's STOP was reported as done, no manual request issued before it is driven
\* (the manual_barrier of submit), across restarts and failed saves, if the user's STOPs
\* arrive in the order they were issued.
THEOREM StaleStartsRefused ==
  ASSUME "reorder" \notin Faults
  PROVE  HSpec => StaleStartRefused
<1>1. HInit => BarrierKept
  BY NoRecordType, ConstantsAssumption
  DEF HInit, Init, BarrierKept, NoRecord, InHand, Stopping, Requests, NoOp
<1>2. IInv /\ Named /\ IInv' /\ Named' /\ BarrierKept /\ [HNext]_hvars => BarrierKept'
  <2>1. BarrierKept /\ UNCHANGED hvars => BarrierKept'
    BY DEF hvars, vars, BarrierKept, ExplicitStop
  <2> QED
    BY <2>1, BarrierKeeps
<1>3. IInv /\ Named /\ BarrierKept /\ [HNext]_hvars
        => [Commanded /\ req.kind = "submit" /\ IsManual(cur.sig) => req.until > lastStop]_hvars
  <2> SUFFICES ASSUME IInv, Named, BarrierKept, Commanded, req.kind = "submit", IsManual(cur.sig)
               PROVE  req.until > lastStop
    OBVIOUS
  <2>1. pc = "drive" /\ cur.sig = req.sig /\ cur.sig \in Sigs
    BY DEF Commanded, Named, LiveIsNamed, IInv, Consistent, DriveInHand
  <2>2. req \in Requests
    BY DEF IInv, TypeOK, Tick, Canary, NoOp
  <2>3. req.manual
    BY <2>1, <2>2 DEF Named, RequestNames
  <2> QED
    BY <2>1, <2>2, <2>3 DEF BarrierKept
<1> QED
  BY <1>1, <1>2, <1>3, HistoryIsNamed, PTL DEF HSpec, StaleStartRefused
-----------------------------------------------------------------------------
(* Ended sessions stay ended: the latch. *)

\* The latch q holds the signature.
Remembers(q, sig) == \E i \in 1..Len(q) : q[i] = sig

\* A latch holds manual signatures, each of them once.
Sound(q) ==
  /\ q \in Seq(Sigs)
  /\ \A i \in 1..Len(q) : q[i] \in ManualSigs
  /\ \A i, j \in 1..Len(q) : q[i] = q[j] => i = j

\* A record in which the session is latched, or which a STOP will latch.
Carries(s, sig) == Remembers(s.latched, sig) \/ (s.st \in ActiveStates /\ s.sig = sig)

\* The latch has room for every manual session there is.
Roomy == IsFiniteSet(ManualSigs) /\ Cardinality(ManualSigs) <= LatchCap

\* As long as there is room, a signature is added and none is lost.
LEMMA LatchAdds ==
  ASSUME Roomy, NEW q, Sound(q), NEW sig \in ManualSigs
  PROVE  /\ Sound(Latch(q, sig)) /\ Remembers(Latch(q, sig), sig)
         /\ \A e : Remembers(q, e) => Remembers(Latch(q, sig), e)
<1>1. CASE Remembers(q, sig)
  <2>1. Latch(q, sig) = q
    BY <1>1 DEF Latch, Remembers
  <2> QED
    BY <1>1, <2>1
<1>2. CASE ~Remembers(q, sig)
  <2>1. q \in Seq(Sigs) /\ Len(q) \in Nat /\ DOMAIN q = 1..Len(q) /\ sig \in Sigs
    BY ConstantsAssumption DEF Sound
  <2>2. Len(q) < LatchCap
    <3> DEFINE T == ManualSigs \ {sig}
    <3>1. IsFiniteSet(T) /\ Cardinality(T) = Cardinality(ManualSigs) - 1
      BY FS_RemoveElement DEF Roomy
    <3>2. q \in [1..Len(q) -> T]
      <4>1. \A i \in 1..Len(q) : q[i] \in T
        BY <1>2 DEF Sound, Remembers
      <4>2. q = [i \in 1..Len(q) |-> q[i]]
        BY <2>1
      <4> QED
        BY <4>1, <4>2
    <3>3. q \in Injection(1..Len(q), T)
      BY <2>1, <3>2 DEF Injection, IsInjective, Sound
    <3>4. Cardinality(1..Len(q)) <= Cardinality(T)
      BY <3>1, <3>3, FS_Injection
    <3>5. Cardinality(1..Len(q)) = Len(q)
      BY <2>1, FS_Interval
    <3>6. Cardinality(ManualSigs) \in Nat /\ LatchCap \in Nat
      BY FS_CardinalityType, ConstantsAssumption DEF Roomy
    <3> QED
      BY <2>1, <3>1, <3>4, <3>5, <3>6 DEF Roomy
  <2>3. Latch(q, sig) = Append(q, sig)
    BY <1>2, <2>2 DEF Latch, Remembers
  <2> DEFINE a == Append(q, sig)
  <2>4. /\ a \in Seq(Sigs) /\ Len(a) = Len(q) + 1
        /\ \A i \in 1..Len(q) : a[i] = q[i]
        /\ a[Len(q) + 1] = sig
    BY <2>1, AppendProperties
  <2> HIDE DEF a
  <2>5. Remembers(a, sig)
    BY <2>1, <2>4 DEF Remembers
  <2>6. \A e : Remembers(q, e) => Remembers(a, e)
    BY <2>1, <2>4 DEF Remembers
  <2>7. Sound(a)
    <3>1. \A i \in 1..Len(a) : i \in 1..Len(q) \/ i = Len(q) + 1
      BY <2>1, <2>4
    <3>2. \A i \in 1..Len(a) : a[i] \in ManualSigs
      BY <2>4, <3>1 DEF Sound
    <3>3. \A i \in 1..Len(q) : a[i] # sig
      BY <1>2, <2>4 DEF Remembers
    <3>4. \A i, j \in 1..Len(a) : a[i] = a[j] => i = j
      BY <2>1, <2>4, <3>1, <3>3 DEF Sound
    <3> QED
      BY <2>4, <3>2, <3>4 DEF Sound
  <2> QED
    BY <2>3, <2>5, <2>6, <2>7 DEF a
<1> QED
  BY <1>1, <1>2

\* Wherever the record is, it carries every ended session.
EndedKept ==
  /\ Sound(disk.latched) /\ Sound(mem.latched) /\ Sound(cur.latched)
  /\ \A e \in ended :
       /\ Carries(disk, e) /\ (mem.st # "none" => Carries(mem, e))
       /\ pc \in Stopping => Remembers(cur.latched, e) \/ cur.sig = e
       /\ pc \in InHand \ Stopping => Remembers(cur.latched, e)

\* A file that still names an ended session as running is not acted upon before the
\* session is stopped again; and a start in hand is not of an ended session.
NotRevived ==
  /\ disk.st \in Driving /\ disk.sig \in ended
       => mem.st # "none" \/ ~recovered \/ pc = "stop_save"
  /\ pc \in {"stop_auto", "stop_failed", "stop_done"} => disk.st \notin Driving \/ mem.st # "none"
  /\ pc = "start" \/ after = "start" => req.sig \notin ended
  /\ pc \in {"prepare_save", "drive", "active_save"} => cur.sig \notin ended

\* What is loaded carries the ended sessions too.
LEMMA LoadedCarries ==
  ASSUME EndedKept
  PROVE  Sound(Load.latched) /\ (\A e \in ended : Carries(Load, e))
BY DEF EndedKept, Load

\* A record of the same session carries what the record in hand carries.
LEMMA SameCarries ==
  ASSUME NEW r, NEW s, SameRecord(r, s)
  PROVE  /\ Sound(s.latched) => Sound(r.latched)
         /\ \A e : Remembers(s.latched, e) => Carries(r, e)
         /\ r.st \in ActiveStates => (\A e : s.sig = e => Carries(r, e))
BY DEF SameRecord, Carries

\* A running session that is loaded has not ended.
LEMMA RunningIsNotEnded ==
  ASSUME IInv, Named, NotRevived, pc \in {"body", "start"}, Load.st \in Driving
  PROVE  Load = disk /\ Load.sig \notin ended
BY LoadedFacts DEF NotRevived, Named, HasRecovered

\* A start that passes the latch is not of an ended session.
LEMMA PassesLatch ==
  ASSUME IInv, Named, EndedKept, NotRevived, InBody("submit"), ~EndedStart(Load),
         Load.st \in {"none", "stopped"} \/ DriveLive(Load)
  PROVE  req.sig \notin ended
<1> SUFFICES ASSUME req.sig \in ended PROVE FALSE
  OBVIOUS
<1>1. ~Remembers(Load.latched, req.sig)
  BY DEF EndedStart, Latched, Remembers
<1>2. Load.st \in ActiveStates /\ Load.sig = req.sig
  BY <1>1, LoadedCarries DEF Carries
<1>3. Load.st \in Driving /\ pc = "body"
  BY <1>2 DEF DriveLive, InBody, ActiveStates
<1> QED
  BY <1>2, <1>3, RunningIsNotEnded

\* With no file there is nothing to remember.
LEMMA NoRecordSound == Sound(NoRecord.latched) /\ NoRecord.st = "none"
BY NoRecordType DEF NoRecord, Sound

\* The inductive invariant of the ended sessions.
EndedInv == EndedKept /\ NotRevived

\* A _stop that begins has in hand all that was loaded.
LEMMA EndedWhenHalting ==
  ASSUME IInv, Named, EndedInv, HNext, Halting
  PROVE  EndedInv'
<1>1. /\ UNCHANGED <<disk, mem, req>> /\ Quiet /\ pc' = "stop_save"
      /\ cur'.sig = Load.sig /\ cur'.latched = Load.latched
      /\ after' = "start" => SubmitReplace
  BY HaltingEffect DEF Untouched
<1>2. EndedKept'
  BY <1>1, LoadedCarries DEF EndedInv, EndedKept, Carries, Quiet, InHand, Stopping
<1>3. SubmitReplace => req.sig \notin ended
  BY PassesLatch DEF SubmitReplace, Starting, EndedInv
<1>4. NotRevived'
  BY <1>1, <1>3 DEF EndedInv, NotRevived, Quiet
<1> QED
  BY <1>2, <1>4 DEF EndedInv

\* The session that ends is latched in the file or in memory before the STOP returns.
LEMMA EndedWhenStopping ==
  ASSUME Roomy, IInv, Named, EndedInv, HNext, Stop
  PROVE  EndedInv'
<1>0. /\ cur \in Record /\ disk \in Record /\ mem \in Record /\ now \in Time
  BY DEF IInv, TypeOK
<1>1. CASE StopSave \/ StopFailedSave
  <2>1. \/ pc = "stop_save" /\ pc' = "stop_auto" /\ UNCHANGED <<req, cur, after>>
        \/ pc = "stop_failed" /\ pc' = "idle" /\ after' = "idle" /\ cur' = NoRecord
    BY <1>1 DEF StopSave, StopFailedSave, Release, opVars
  <2>2. Quiet
    BY <2>1, QuietStep
  <2>3. cur.st = "stop_pending"
    BY <2>1 DEF IInv, Consistent, StopInHand
  <2>4. /\ disk' = disk \/ (disk'.st = "stop_pending" /\ SameRecord(disk', cur))
        /\ \/ mem'.st = "none" /\ mem' = NoRecord /\ disk'.st = "stop_pending"
           \/ mem'.st = "stop_pending" /\ SameRecord(mem', cur)
    BY <1>0, <1>1, <2>3, SaveOkSame, SaveFailsSame, KeepInMemorySame DEF StopSave, StopFailedSave
  <2>5. \A e \in ended : Remembers(cur.latched, e) \/ cur.sig = e
    BY <2>1 DEF EndedInv, EndedKept, Stopping
  <2>6. /\ Sound(disk.latched)' /\ Sound(mem.latched)' /\ Sound(cur.latched)'
        /\ \A e \in ended : Carries(disk', e) /\ (mem'.st # "none" => Carries(mem', e))
    BY <2>1, <2>4, <2>5, SameCarries, NoRecordSound DEF EndedInv, EndedKept, ActiveStates
  <2>7. EndedKept'
    BY <2>1, <2>2, <2>5, <2>6 DEF EndedKept, Quiet, InHand, Stopping
  <2>8. NotRevived'
    BY <2>1, <2>2, <2>4 DEF EndedInv, NotRevived, Quiet, Driving
  <2> QED
    BY <2>7, <2>8 DEF EndedInv
<1>2. CASE StopAutoOk
  <2>1. /\ pc = "stop_auto" /\ pc' = "stop_done" /\ cur' = StoppedRecord
        /\ UNCHANGED <<disk, mem, recovered, req, after>>
    BY <1>2 DEF StopAutoOk, fileVars, opVars
  <2>2. ended' = IF clear THEN {}
                 ELSE IF Moved THEN ended
                 ELSE ended \cup ({live} \cap Users)
    BY <2>1 DEF HNext, VerifiedStop, Users
  <2>3. live \in Users => live # NoSig /\ cur.sig = live
    BY <2>1, ConstantsAssumption DEF Named, LiveIsNamed, Users, Stopping
  <2>4. cur'.latched = IF clear THEN << >>
                       ELSE IF IsManual(cur.sig) THEN Latch(cur.latched, cur.sig)
                       ELSE cur.latched
    <3> DEFINE s == [cur EXCEPT !.st = "stopped", !.retry = 0, !.attempts = 0,
                                !.started = 0, !.expires = 0]
    <3>1. s.latched = cur.latched /\ s \in Record
      <4>1. 0 \in 0..MaxTime /\ 0 \in 0..Steps
        BY ConstantsAssumption DEF Steps
      <4> QED
        BY <1>0, <4>1 DEF Record
    <3>2. ASSUME NEW q, NEW l
          PROVE  [s EXCEPT !.blocked = q, !.latched = l].latched = l
      BY <1>0 DEF Record
    <3> HIDE DEF s
    <3>3. StoppedRecord = IF clear THEN [s EXCEPT !.blocked = NoSig, !.latched = << >>]
                          ELSE IF IsManual(cur.sig)
                               THEN [s EXCEPT !.blocked = cur.sig,
                                              !.latched = Latch(cur.latched, cur.sig)]
                               ELSE s
      BY DEF StoppedRecord, s
    <3> QED
      BY <2>1, <3>1, <3>2, <3>3
  <2>5. \A e \in ended : Remembers(cur.latched, e) \/ cur.sig = e
    BY <2>1 DEF EndedInv, EndedKept, Stopping
  <2>6. Sound(cur.latched)
    BY DEF EndedInv, EndedKept
  <2>7. Sound(cur'.latched)
    BY <2>4, <2>6, LatchAdds, NoRecordSound DEF IsManual, NoRecord
  <2>8. \A e \in ended' : Remembers(cur'.latched, e)
    <3> SUFFICES ASSUME NEW e \in ended' PROVE Remembers(cur'.latched, e)
      OBVIOUS
    <3>1. ~clear /\ (e \in ended \/ (e = live /\ live \in Users))
      BY <2>2
    <3>2. e \in Users
      BY <3>1 DEF Named, HistoryTypes
    <3>3. Remembers(cur.latched, e) \/ cur.sig = e
      BY <2>3, <2>5, <3>1
    <3>4. CASE IsManual(cur.sig)
      BY <2>4, <2>6, <3>1, <3>3, <3>4, LatchAdds DEF IsManual
    <3>5. CASE ~IsManual(cur.sig)
      BY <2>4, <3>1, <3>2, <3>3, <3>5 DEF IsManual, Users
    <3> QED
      BY <3>4, <3>5
  <2>9. \A e \in ended' : Carries(disk, e) /\ (mem.st # "none" => Carries(mem, e))
    <3>1. live # NoSig => Carries(disk, live) /\ (mem.st # "none" => Carries(mem, live))
      BY DEF Named, LiveIsNamed, Load, Carries
    <3>2. \A e \in ended' : e \in ended \/ (e = live /\ live \in Users)
      BY <2>2
    <3> QED
      BY <2>3, <3>1, <3>2 DEF EndedInv, EndedKept
  <2>10. EndedKept'
    BY <2>1, <2>7, <2>8, <2>9 DEF EndedInv, EndedKept, InHand, Stopping
  <2>11. NotRevived'
    <3>1. after = "start" => req.sig \notin ended'
      BY <2>2 DEF EndedInv, NotRevived, Moved
    <3> QED
      BY <2>1, <3>1 DEF EndedInv, NotRevived
  <2> QED
    BY <2>10, <2>11 DEF EndedInv
<1>3. CASE StopAutoFails
  <2>1. /\ pc = "stop_auto" /\ pc' = "stop_failed" /\ Quiet
        /\ cur'.latched = cur.latched /\ cur'.sig = cur.sig
        /\ UNCHANGED <<disk, mem, recovered, req, after>>
    BY <1>0, <1>3, QuietStep DEF StopAutoFails, fileVars, opVars, Record
  <2>2. EndedKept'
    BY <2>1 DEF EndedInv, EndedKept, Quiet, InHand, Stopping
  <2>3. NotRevived'
    BY <2>1 DEF EndedInv, NotRevived, Quiet
  <2> QED
    BY <2>2, <2>3 DEF EndedInv
<1>4. CASE StopDoneSaved \/ StopDoneUnsaved
  <2>1. /\ pc = "stop_done" /\ after' = "idle" /\ cur' = NoRecord
        /\ pc' \in {"idle", "body"} \/ (pc' = "start" /\ after = "start" /\ req' = req)
    BY <1>4 DEF StopDoneSaved, StopDoneUnsaved, Release, IInv, TypeOK
  <2>2. ended' = ended
    BY <2>1 DEF HNext, VerifiedStop
  <2>3. /\ disk' = disk \/ (disk'.st = "stopped" /\ SameRecord(disk', cur))
        /\ \/ mem'.st = "none" /\ mem' = NoRecord /\ disk'.st = "stopped"
           \/ mem'.st = "stopped" /\ SameRecord(mem', cur)
    BY <1>0, <1>4, SaveOkSame, SaveFailsSame, KeepInMemorySame
    DEF StopDoneSaved, StopDoneUnsaved, IInv, Consistent, StopInHand
  <2>4. \A e \in ended : Remembers(cur.latched, e)
    BY <2>1 DEF EndedInv, EndedKept, InHand, Stopping
  <2>5. /\ Sound(disk.latched)' /\ Sound(mem.latched)' /\ Sound(cur.latched)'
        /\ \A e \in ended : Carries(disk', e) /\ (mem'.st # "none" => Carries(mem', e))
    BY <2>1, <2>3, <2>4, SameCarries, NoRecordSound DEF EndedInv, EndedKept
  <2>6. EndedKept'
    BY <2>1, <2>2, <2>5 DEF EndedKept, InHand, Stopping
  <2>7. NotRevived'
    BY <2>1, <2>2, <2>3 DEF EndedInv, NotRevived, Driving
  <2> QED
    BY <2>6, <2>7 DEF EndedInv
<1> QED
  BY <1>1, <1>2, <1>3, <1>4 DEF Stop

\* The steps that touch no record lose no ended session, a crash included.
LEMMA EndedWhenPassing ==
  ASSUME IInv, Named, EndedInv, HNext, Passing
  PROVE  EndedInv'
<1>1. CASE Environment
  <2>1. UNCHANGED <<disk, mem, recovered, pc, cur, req, after>>
    BY <1>1 DEF Environment, ClockAdvances, ClockMovedBack, ConfigChanges,
              InverterTimeout, fileVars, opVars
  <2>2. Quiet
    BY <2>1, QuietStep
  <2> QED
    BY <2>1, <2>2 DEF EndedInv, EndedKept, NotRevived, Carries, Quiet
<1>2. CASE BeginSome
  <2>1. /\ pc = "idle" /\ pc' = "recover"
        /\ UNCHANGED <<disk, mem, recovered, cur, after>>
    BY <1>2 DEF BeginSome, BeginSubmit, Begin, fileVars
  <2>2. Quiet /\ after = "idle"
    BY <2>1, QuietStep DEF IInv, Consistent, StopInHand
  <2>3. EndedKept'
    BY <2>1, <2>2 DEF EndedInv, EndedKept, Carries, Quiet, InHand, Stopping
  <2>4. NotRevived'
    BY <2>1, <2>2 DEF EndedInv, NotRevived, Quiet
  <2> QED
    BY <2>3, <2>4 DEF EndedInv
<1>3. CASE Crash
  <2>1. /\ pc' = "idle" /\ ~recovered' /\ mem' = NoRecord /\ cur' = NoRecord /\ disk' = disk
        /\ after' = "idle"
    BY <1>3 DEF Crash, Release
  <2>2. Quiet
    BY <2>1, QuietStep
  <2>3. EndedKept'
    BY <2>1, <2>2, NoRecordSound
    DEF EndedInv, EndedKept, Carries, Quiet, InHand, Stopping
  <2>4. NotRevived'
    BY <2>1, <2>2 DEF NotRevived
  <2> QED
    BY <2>3, <2>4 DEF EndedInv
<1>4. CASE Quit /\ pc \in {"body", "start"}
  <2>1. /\ pc' = "idle" /\ cur' = NoRecord /\ after' = "idle"
        /\ UNCHANGED <<disk, mem, recovered>>
    BY <1>4 DEF Quit, Release, fileVars
  <2>2. Quiet
    BY <1>4, QuietStep
  <2>3. EndedKept'
    BY <2>1, <2>2, NoRecordSound
    DEF EndedInv, EndedKept, Carries, Quiet, InHand, Stopping
  <2>4. NotRevived'
    BY <1>4, <2>1, <2>2 DEF EndedInv, NotRevived, Quiet
  <2> QED
    BY <2>3, <2>4 DEF EndedInv
<1>5. CASE SubmitProceed
  <2>1. /\ pc = "body" /\ pc' = "start" /\ InBody("submit") /\ ~EndedStart(Load)
        /\ Load.st \in {"none", "stopped"} \/ DriveLive(Load)
        /\ UNCHANGED <<disk, mem, recovered, req, cur, after>>
    BY <1>5 DEF SubmitProceed, Starting, InBody, fileVars, opVars
  <2>2. Quiet /\ req.sig \notin ended
    BY <2>1, QuietStep, PassesLatch DEF EndedInv
  <2>3. EndedKept'
    BY <2>1, <2>2 DEF EndedInv, EndedKept, Carries, Quiet, InHand, Stopping
  <2>4. NotRevived'
    BY <2>1, <2>2 DEF EndedInv, NotRevived, Quiet
  <2> QED
    BY <2>3, <2>4 DEF EndedInv
<1>6. CASE Recover /\ pc' # "stop_save"
  <2>1. /\ pc = "recover" /\ pc' = "body"
        /\ recovered \/ Load.st \notin ActiveStates
        /\ UNCHANGED <<disk, mem, req, cur, after>>
    BY <1>6 DEF Recover, EnterStop, fileVars
  <2>2. Quiet
    BY <2>1, QuietStep
  <2>3. EndedKept'
    BY <2>1, <2>2 DEF EndedInv, EndedKept, Carries, Quiet, InHand, Stopping
  <2>4. disk.st \in Driving /\ mem.st = "none" => recovered
    BY <2>1 DEF Load, Driving, ActiveStates
  <2>5. NotRevived'
    BY <2>1, <2>2, <2>4 DEF EndedInv, NotRevived, Quiet
  <2> QED
    BY <2>3, <2>5 DEF EndedInv
<1> QED
  BY <1>1, <1>2, <1>3, <1>4, <1>5, <1>6 DEF Passing

\* A start takes the latch over and is of no ended session.
LEMMA EndedWhenStarting ==
  ASSUME IInv, Named, EndedInv, HNext, Starts
  PROVE  EndedInv'
<1>0. /\ cur \in Record /\ disk \in Record /\ now \in Time
  BY DEF IInv, TypeOK
<1>1. CASE SubmitPrepare /\ ~Quit
  <2>1. /\ pc = "start" /\ pc' = "prepare_save" /\ Quiet
        /\ UNCHANGED <<disk, mem, recovered, req, after>>
        /\ cur'.sig = req.sig /\ cur'.latched = Load.latched
        /\ Load.sig = req.sig \/ Load.st \in {"none", "stopped"}
    BY <1>1, PrepareEffect
  <2>2. req.sig \notin ended
    BY <2>1 DEF EndedInv, NotRevived
  <2>3. \A e \in ended : Remembers(Load.latched, e)
    BY <2>1, <2>2, LoadedCarries DEF EndedInv, Carries, ActiveStates
  <2>4. EndedKept'
    BY <2>1, <2>3, LoadedCarries DEF EndedInv, EndedKept, Carries, Quiet, InHand, Stopping
  <2>5. NotRevived'
    BY <2>1, <2>2 DEF EndedInv, NotRevived, Quiet
  <2> QED
    BY <2>4, <2>5 DEF EndedInv
<1>2. CASE PrepareSaved
  <2>1. /\ pc = "prepare_save" /\ pc' = "drive" /\ UNCHANGED <<recovered, req, cur, after>>
    BY <1>2 DEF PrepareSaved, opVars
  <2>2. ended' = ended
    BY <2>1 DEF HNext, VerifiedStop
  <2>3. SameRecord(disk', cur) /\ mem' = NoRecord
    BY <1>0, <1>2, SaveOkSame DEF PrepareSaved
  <2>4. /\ \A e \in ended : Remembers(cur.latched, e)
        /\ cur.sig \notin ended /\ Sound(cur.latched) /\ after = "idle"
    BY <2>1 DEF EndedInv, EndedKept, NotRevived, InHand, Stopping, IInv, Consistent, StopInHand
  <2>5. EndedKept'
    BY <2>1, <2>2, <2>3, <2>4, SameCarries, NoRecordSound DEF EndedKept, Stopping
  <2>6. NotRevived'
    BY <2>1, <2>2, <2>3, <2>4 DEF NotRevived, SameRecord
  <2> QED
    BY <2>5, <2>6 DEF EndedInv
<1>3. CASE PrepareUnsaved
  <2>1. /\ pc = "prepare_save" /\ pc' = "idle" /\ cur' = NoRecord /\ after' = "idle"
        /\ UNCHANGED <<recovered, mem>>
    BY <1>3 DEF PrepareUnsaved, Release
  <2>2. Quiet
    BY <2>1, QuietStep
  <2>3. disk' = disk \/ SameRecord(disk', cur)
    BY <1>0, <1>3, SaveFailsSame DEF PrepareUnsaved
  <2>4. /\ \A e \in ended : Remembers(cur.latched, e)
        /\ cur.sig \notin ended /\ Sound(cur.latched)
    BY <2>1 DEF EndedInv, EndedKept, NotRevived, InHand, Stopping
  <2>5. Sound(disk'.latched) /\ (\A e \in ended : Carries(disk', e))
    BY <2>3, <2>4, SameCarries DEF EndedInv, EndedKept
  <2>6. EndedKept'
    BY <2>1, <2>2, <2>5, NoRecordSound
    DEF EndedInv, EndedKept, Carries, Quiet, InHand, Stopping
  <2>7. NotRevived'
    BY <2>1, <2>2, <2>3, <2>4 DEF EndedInv, NotRevived, SameRecord, Quiet
  <2> QED
    BY <2>6, <2>7 DEF EndedInv
<1> QED
  BY <1>1, <1>2, <1>3 DEF Starts

\* What is driven and renewed is of no ended session.
LEMMA EndedWhenDriving ==
  ASSUME IInv, Named, EndedInv, HNext, Activate \/ TickRenew
  PROVE  EndedInv'
<1>0. /\ cur \in Record /\ disk \in Record /\ now \in Time
  BY DEF IInv, TypeOK
<1>1. CASE DriveOk \/ DriveFails
  <2>1. /\ pc = "drive" /\ pc' \in {"active_save", "stop_save"}
        /\ cur'.sig = cur.sig /\ cur'.latched = cur.latched
        /\ UNCHANGED <<disk, mem, recovered, req>>
        /\ after' = after \/ after' = "idle"
    BY <1>0, <1>1 DEF DriveOk, DriveFails, EnterStop, fileVars, opVars, Record
  <2>2. ended' = ended
    BY <2>1 DEF HNext, VerifiedStop
  <2>3. EndedKept'
    BY <2>1, <2>2 DEF EndedInv, EndedKept, Carries, InHand, Stopping
  <2>4. NotRevived'
    BY <2>1, <2>2 DEF EndedInv, NotRevived
  <2> QED
    BY <2>3, <2>4 DEF EndedInv
<1>2. CASE ActiveSaved \/ ActiveUnsaved
  <2>1. /\ pc = "active_save" /\ after' = "idle"
        /\ \/ pc' = "idle" /\ cur' = NoRecord
           \/ pc' = "stop_save" /\ cur'.latched = cur.latched /\ cur'.sig = cur.sig
        /\ recovered' = recovered /\ (mem' = mem \/ mem' = NoRecord)
    BY <1>0, <1>2 DEF ActiveSaved, ActiveUnsaved, Release, EnterStop, SaveOk, Record
  <2>2. Quiet
    BY <2>1, QuietStep
  <2>3. disk' = disk \/ SameRecord(disk', cur)
    BY <1>0, <1>2, SaveOkSame, SaveFailsSame DEF ActiveSaved, ActiveUnsaved
  <2>4. /\ \A e \in ended : Remembers(cur.latched, e)
        /\ cur.sig \notin ended /\ Sound(cur.latched)
    BY <2>1 DEF EndedInv, EndedKept, NotRevived, InHand, Stopping
  <2>5. Sound(disk'.latched) /\ (\A e \in ended : Carries(disk', e))
    BY <2>3, <2>4, SameCarries DEF EndedInv, EndedKept
  <2>6. EndedKept'
    BY <2>1, <2>2, <2>4, <2>5, NoRecordSound
    DEF EndedInv, EndedKept, Carries, Quiet, InHand, Stopping
  <2>7. disk.sig = cur.sig
    BY <2>1 DEF IInv, Consistent, DriveInHand
  <2>8. NotRevived'
    BY <2>1, <2>2, <2>3, <2>4, <2>7 DEF EndedInv, NotRevived, SameRecord, Quiet
  <2> QED
    BY <2>6, <2>8 DEF EndedInv
<1>3. CASE TickRenew
  <2>1. /\ pc = "body" /\ pc' = "drive" /\ Load.st \in Driving /\ cur' = Load
        /\ UNCHANGED <<disk, mem, recovered, req, after>>
    BY <1>3 DEF TickRenew, InBody, fileVars, opVars
  <2>2. Quiet /\ Load = disk /\ Load.sig \notin ended
    BY <2>1, QuietStep, RunningIsNotEnded DEF EndedInv
  <2>3. \A e \in ended : Remembers(Load.latched, e)
    BY <2>2, LoadedCarries DEF EndedInv, Carries
  <2>4. EndedKept'
    BY <2>1, <2>2, <2>3, LoadedCarries DEF EndedInv, EndedKept, Carries, Quiet, InHand, Stopping
  <2>5. NotRevived'
    BY <2>1, <2>2 DEF EndedInv, NotRevived, Quiet
  <2> QED
    BY <2>4, <2>5 DEF EndedInv
<1> QED
  BY <1>1, <1>2, <1>3 DEF Activate

\* The commissioning test takes the latch over too.
LEMMA EndedWhenTesting ==
  ASSUME IInv, Named, EndedInv, HNext, Tests
  PROVE  EndedInv'
<1>0. /\ cur \in Record /\ disk \in Record /\ now \in Time /\ CanarySig \notin ended
  BY DEF IInv, TypeOK, Named, HistoryTypes, Users
<1>1. CASE CanaryPrepare
  <2>1. /\ pc = "body" /\ pc' = "canary_save" /\ UNCHANGED <<disk, mem, recovered, req, after>>
        /\ Quiet /\ Load.st \notin ActiveStates /\ cur'.latched = Load.latched
    BY <1>1, CanaryEffect
  <2>2. \A e \in ended : Remembers(Load.latched, e)
    BY <2>1, LoadedCarries DEF EndedInv, Carries
  <2>3. EndedKept'
    BY <2>1, <2>2, LoadedCarries DEF EndedInv, EndedKept, Carries, Quiet, InHand, Stopping
  <2>4. NotRevived'
    BY <2>1 DEF EndedInv, NotRevived, Quiet
  <2> QED
    BY <2>3, <2>4 DEF EndedInv
<1>2. CASE CanarySave
  <2>1. /\ pc = "canary_save" /\ after = "idle" /\ after' = "idle"
        /\ \/ pc' = "idle" /\ cur' = NoRecord /\ mem' = mem
           \/ pc' = "canary_run" /\ cur' = cur /\ mem' = NoRecord
        /\ recovered' = recovered
    BY <1>2 DEF CanarySave, Release, opVars, SaveOk, IInv, Consistent, StopInHand
  <2>2. ended' = ended
    BY <2>1 DEF HNext, VerifiedStop
  <2>3. (disk' = disk /\ mem' = mem) \/ SameRecord(disk', cur)
    BY <1>0, <1>2, SaveOkSame, SaveFailsSame DEF CanarySave
  <2>4. /\ \A e \in ended : Remembers(cur.latched, e)
        /\ cur.sig \notin ended /\ Sound(cur.latched)
    BY <1>0, <2>1 DEF EndedInv, EndedKept, InHand, Stopping, IInv, Consistent, CanaryInHand
  <2>5. Sound(disk'.latched) /\ (\A e \in ended : Carries(disk', e))
    BY <2>3, <2>4, SameCarries DEF EndedInv, EndedKept
  <2>6. EndedKept'
    BY <2>1, <2>2, <2>4, <2>5, NoRecordSound
    DEF EndedInv, EndedKept, Carries, InHand, Stopping
  <2>7. NotRevived'
    BY <2>1, <2>2, <2>3, <2>4 DEF EndedInv, NotRevived, SameRecord
  <2> QED
    BY <2>6, <2>7 DEF EndedInv
<1>3. CASE CanaryRun
  <2>1. /\ pc = "canary_run" /\ pc' = "stop_save" /\ after' = "idle"
        /\ cur'.latched = cur.latched
        /\ UNCHANGED <<disk, mem, recovered, req>>
    BY <1>0, <1>3 DEF CanaryRun, EnterStop, fileVars, Record
  <2>2. Quiet
    BY <2>1, QuietStep
  <2>3. EndedKept'
    BY <2>1, <2>2 DEF EndedInv, EndedKept, Carries, Quiet, InHand, Stopping
  <2>4. NotRevived'
    BY <2>1, <2>2 DEF EndedInv, NotRevived, Quiet
  <2> QED
    BY <2>3, <2>4 DEF EndedInv
<1> QED
  BY <1>1, <1>2, <1>3 DEF Tests

\* Every step keeps it while the latch has room.
LEMMA EndedKeeps == Roomy /\ IInv /\ Named /\ EndedInv /\ [HNext]_hvars => EndedInv'
<1> SUFFICES ASSUME Roomy, IInv, Named, EndedInv, [HNext]_hvars PROVE EndedInv'
  OBVIOUS
<1>1. CASE HNext
  <2>1. Next
    BY <1>1 DEF HNext
  <2> QED
    BY <1>1, <2>1, StepCases, EndedWhenHalting, EndedWhenStopping, EndedWhenPassing,
       EndedWhenStarting, EndedWhenDriving, EndedWhenTesting
<1>2. CASE UNCHANGED hvars
  BY <1>2 DEF hvars, vars, EndedInv, EndedKept, NotRevived, Carries
<1> QED
  BY <1>1, <1>2

\* One step of the runtime is a step of the abstract owner, or none.
LEMMA OwnerStep ==
  ASSUME IInv, Named, EndedInv, HNext
  PROVE  O!Next \/ UNCHANGED <<inv, ended>>
<1>1. ended' # ended => pc = "stop_auto" /\ pc' = "stop_done"
  BY DEF HNext, VerifiedStop
<1>2. CASE pc = "stop_auto" /\ pc' = "stop_done"
  <2>1. StopAutoOk \/ Passing
    BY <1>2, StepCases
    DEF HNext, Halting, Stop, StopSave, StopAutoFails, StopFailedSave, StopDoneSaved,
        StopDoneUnsaved, Starts, Tests, Activate, SubmitPrepare, PrepareSaved, PrepareUnsaved,
        Recover, SubmitPendingStop, SubmitExpired, SubmitAuto, SubmitReplace, Starting, InBody,
        TickStop, TickRenew, DriveOk, DriveFails, ActiveSaved, ActiveUnsaved, CanaryPrepare,
        CanarySave, CanaryRun
  <2>2. inv' = AUTO
    BY <1>2, <2>1
    DEF StopAutoOk, Passing, Quit, Release, BeginSome, Begin, BeginSubmit, Crash, Environment,
        ClockAdvances, ClockMovedBack, ConfigChanges, InverterTimeout, SubmitProceed, Recover,
        Starting, InBody
  <2>3. ended' = IF clear THEN {}
                 ELSE IF Moved THEN ended
                 ELSE ended \cup ({live} \cap Users)
    BY <1>2 DEF HNext, VerifiedStop, Users
  <2>4. CASE clear
    BY <2>2, <2>3, <2>4 DEF O!Next, O!ExplicitStop
  <2>5. CASE ~clear /\ (Moved \/ live \notin Users)
    <3>1. ended' = ended
      BY <2>3, <2>5
    <3> QED
      BY <2>2, <3>1 DEF O!Next, O!Drop
  <2>6. CASE ~clear /\ ~Moved /\ live \in Users
    <3>1. live \in Sigs /\ live # NoSig
      BY <2>6, ConstantsAssumption DEF Users
    <3>2. inv \in {AUTO, live}
      BY DEF Named, LiveIsNamed
    <3>3. ended' = ended \cup ({live} \cap (ManualSigs \ {CanarySig}))
      BY <2>3, <2>6 DEF Users
    <3>4. O!Finish(live)
      BY <2>2, <3>2, <3>3 DEF O!Finish
    <3> QED
      BY <3>1, <3>4 DEF O!Next
  <2> QED
    BY <2>4, <2>5, <2>6
<1>3. CASE ended' = ended /\ inv' = AUTO
  BY <1>3 DEF O!Next, O!Drop
<1>4. CASE ended' = ended /\ inv' # AUTO /\ inv' # inv
  <2>1. DriveOk \/ DriveFails \/ CanaryRun
    <3>1. Halting => inv' = inv
      BY HaltingEffect DEF Untouched
    <3>2. Stop => inv' = inv \/ inv' = AUTO
      BY DEF Stop, StopSave, StopAutoOk, StopAutoFails, StopFailedSave, StopDoneSaved,
             StopDoneUnsaved
    <3>3. Passing => inv' = inv \/ inv' = AUTO
      <4>1. Quit \/ Crash \/ SubmitProceed \/ Recover => inv' = inv
        BY DEF Quit, Crash, SubmitProceed, Recover
      <4>2. BeginSome => inv' = inv
        BY DEF BeginSome, Begin, BeginSubmit
      <4>3. Environment => inv' = inv \/ inv' = AUTO
        BY DEF Environment, ClockAdvances, ClockMovedBack, ConfigChanges, InverterTimeout
      <4> QED
        BY <4>1, <4>2, <4>3 DEF Passing
    <3>4. Starts \/ TickRenew \/ ActiveSaved \/ ActiveUnsaved \/ CanaryPrepare \/ CanarySave
            => inv' = inv
      BY DEF Starts, SubmitPrepare, PrepareSaved, PrepareUnsaved, TickRenew, ActiveSaved,
             ActiveUnsaved, CanaryPrepare, CanarySave
    <3> QED
      BY <1>4, <3>1, <3>2, <3>3, <3>4, StepCases DEF HNext, Activate, Tests
  <2>2. /\ inv' = cur.sig /\ inv = AUTO
        /\ cur.sig \in Sigs /\ cur.sig \notin ended
    <3>1. CASE DriveOk \/ DriveFails
      BY <1>4, <3>1
      DEF DriveOk, DriveFails, IInv, Consistent, DriveInHand, EndedInv, NotRevived
    <3>2. CASE CanaryRun
      BY <1>4, <3>2, ConstantsAssumption
      DEF CanaryRun, IInv, Consistent, CanaryInHand, Named, HistoryTypes, Users
    <3> QED
      BY <2>1, <3>1, <3>2
  <2>3. O!Begin(cur.sig)
    BY <1>4, <2>2 DEF O!Begin
  <2> QED
    BY <2>2, <2>3 DEF O!Next
<1> QED
  BY <1>1, <1>2, <1>3, <1>4

\* The runtime implements the abstract owner of BatteryOwner: a manual session that ended
\* is not driven again by a late or repeated command, a tick or a restart, even when saves
\* fail, as long as the latch has room for every manual session (64 in the code).
THEOREM KeepsOwnerPromise ==
  ASSUME Roomy
  PROVE  HSpec => OwnerPromise
<1>1. HInit => EndedInv
  BY NoRecordSound, NoRecordType
  DEF HInit, Init, EndedInv, EndedKept, NotRevived, Driving, Stopping, InHand
<1>2. IInv /\ Named /\ EndedInv /\ [HNext]_hvars => EndedInv'
  BY EndedKeeps
<1>3. HInit => O!Init
  BY DEF HInit, Init, O!Init
<1>4. IInv /\ Named /\ EndedInv /\ [HNext]_hvars => [O!Next]_<<inv, ended>>
  BY OwnerStep DEF hvars, vars
<1> QED
  BY <1>1, <1>2, <1>3, <1>4, HistoryIsNamed, PTL DEF HSpec, OwnerPromise, O!Spec
=============================================================================
