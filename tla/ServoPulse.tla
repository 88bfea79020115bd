------------------------------ MODULE ServoPulse ------------------------------
(***************************************************************************)
(* The supervised servo commands of model 00013 (servo_*.py and their      *)
(* executors in command_worker.py): the worker validates a command, starts *)
(* a watchdog thread, switches one direction of the valve ON, waits, and   *)
(* switches both directions OFF until their readback is off.  The relays   *)
(* are two Zigbee outputs behind Home Assistant; a switch may be lost, may *)
(* raise although it was done, and an ON may arrive late.  The watchdog    *)
(* of a command whose OFF was not proven outlives it.                      *)
(*                                                                         *)
(* The kinds differ in who chooses the direction, in what they read while  *)
(* the valve moves, and in how often their watchdog tries:                 *)
(*   full     full close (120 s, 240 s)                                    *)
(*   feedback the 10 s close that waits for the temperature afterwards     *)
(*   open     full open, which reads the floor temperature every 2 s       *)
(*   standard the one-second pulse of an ordinary ON and OFF               *)
(*   timed    the one-second pulse that the device itself ends             *)
(* standard and timed are allowed after a commissioning pulse of their own.*)
(***************************************************************************)
EXTENDS Naturals, FiniteSets

CONSTANTS Overlap,    \* may a command begin while an earlier watchdog waits
          MaxFaults   \* bound: switching faults of one command

VARIABLES pc,         \* where the command is
          op,         \* the command: [kind, commission, dir]
          relays,     \* outputs that are on
          late,       \* ON requests the radio still delivers
          timer,      \* the device ends the pulse by itself
          firmware,   \* does the device honour a timed ON
          dog,        \* the watchdog thread of the command
          old,        \* the watchdog thread of an earlier command
          seen,       \* what the command has observed and caught; stray is
                      \* history: an earlier ON was on its way when it began
          marker,     \* the commissioning files
          result,     \* the last report
          faults,     \* history: switching faults since the outputs were idle
          died        \* history: the process died while an output was on

vars == <<pc, op, relays, late, timer, firmware, dog, old, seen, marker, result, faults, died>>
radio == <<relays, late, timer, firmware>>

Kinds == {"full", "feedback", "open", "standard", "timed"}
Gated == {"standard", "timed"}
Directions == {"open", "close"}
Supervised == {"full", "feedback", "open"}
NoOp == [kind |-> "none", commission |-> FALSE, dir |-> "none"]
Nothing == [failure |-> FALSE, errors |-> FALSE, proven |-> FALSE,
            fired |-> FALSE, on |-> FALSE, selfOff |-> FALSE, stray |-> FALSE]

TypeOK ==
  /\ pc \in {"idle", "check", "on", "moving", "off", "readback", "join", "mark"}
  /\ op = NoOp \/ op \in [kind : Kinds, commission : BOOLEAN, dir : Directions \cup {"none"}]
  /\ relays \in SUBSET Directions /\ late \in SUBSET Directions
  /\ timer \in BOOLEAN /\ firmware \in BOOLEAN
  /\ dog \in {"none", "armed", "fired", "again", "done"}
  /\ old \in {"none", "armed", "fired", "again"}
  /\ seen \in [DOMAIN Nothing -> BOOLEAN]
  /\ marker \in [Gated -> {"none", "fresh", "expired"}]
  /\ result \in {"none", "failed", "held", "moved"}
  /\ faults \in Nat /\ died \in BOOLEAN

Init ==
  /\ pc = "idle" /\ op = NoOp
  /\ relays = {} /\ late = {} /\ timer = FALSE /\ firmware \in BOOLEAN
  /\ dog = "none" /\ old = "none" /\ seen = Nothing
  /\ marker = [g \in Gated |-> "none"]
  /\ result = "none" /\ faults = 0 /\ died = FALSE

-----------------------------------------------------------------------------
(* Validation.  Identity, payload, registry and inventory either fit or not. *)

\* A command is claimed, unless the local mixing loop owns the outputs.  A run
\* needs a fresh commissioning mark, and the commissioning pulse is made once.
Begin(kind, commission) ==
  /\ pc = "idle"
  /\ Overlap \/ old = "none"
  /\ IF kind \in Gated THEN commission = (marker[kind] # "fresh") ELSE ~commission
  /\ pc' = "check"
  /\ op' = [kind |-> kind, commission |-> commission, dir |-> "none"]
  /\ seen' = [Nothing EXCEPT !.stray = late # {}] /\ result' = "none"
  /\ UNCHANGED <<radio, dog, old, marker, faults, died>>

Report(outcome) == pc' = "idle" /\ op' = NoOp /\ result' = outcome

\* Any precondition that is not met: nothing was switched.
Reject ==
  /\ pc = "check" /\ Report("failed")
  /\ UNCHANGED <<radio, dog, old, seen, marker, faults, died>>

\* What a command may read: the floor against the setpoint and its limit, the
\* age of Home Assistant's value, a direct reading of the sensor, the pump.
Readings == [floor : {"low", "near", "high", "hot"}, fresh : BOOLEAN,
             direct : BOOLEAN, pump : BOOLEAN]

\* servo_floor_fresh: a value too old is replaced by a direct reading.
FloorFresh(r) == r.fresh \/ r.direct

Demand(r) ==
  CASE r.floor = "high" -> "close" [] r.floor = "low" -> "open" [] OTHER -> "hold"

\* While it opens, and before: a floor below its limit, a fresh sensor, the pump on.
FloorSafe(r) == r.floor # "hot" /\ r.fresh /\ r.pump

\* The preconditions of each kind beyond both outputs being off.
FullClose(dir) == dir = "close"
FeedbackClose(r, dir) == dir = "close" /\ r.floor = "high" /\ r.fresh /\ r.pump
FullOpen(r, dir) == dir = "open" /\ FloorSafe(r)
StandardPulse(r, dir) ==
  FloorFresh(r) /\ r.floor # "hot" /\ dir = Demand(r) /\ (dir = "open" => r.pump)
TimedPulse(r, dir) ==
  r.fresh /\ r.floor # "hot" /\ dir = Demand(r) /\ (dir = "open" => r.pump)

MayDrive(r, dir) ==
  CASE op.kind = "full"     -> FullClose(dir)
    [] op.kind = "feedback" -> FeedbackClose(r, dir)
    [] op.kind = "open"     -> FullOpen(r, dir)
    [] op.kind = "standard" -> StandardPulse(r, dir)
    [] op.kind = "timed"    -> TimedPulse(r, dir)

\* Without a fresh temperature a standard run holds.
HoldStale(r) == op.kind = "standard" /\ ~op.commission /\ ~FloorFresh(r)

\* A pulse that is not due: the floor is where it should be, or the pump is
\* off and the valve would open.  A standard commissioning then fails.
NotDue(r) ==
  /\ op.kind \in Gated /\ ~op.commission
  /\ r.fresh \/ (op.kind = "standard" /\ r.direct)
  /\ Demand(r) = "hold" \/ (Demand(r) = "open" /\ ~r.pump)
  /\ r.floor # "hot"

Hold ==
  /\ pc = "check" /\ relays = {}
  /\ \E r \in Readings : HoldStale(r) \/ NotDue(r)
  /\ Report("held")
  /\ UNCHANGED <<radio, dog, old, seen, marker, faults, died>>

\* Both outputs read off: the watchdog is started before the one ON.
Arm(dir) ==
  /\ pc = "check" /\ relays = {}
  /\ \E r \in Readings : MayDrive(r, dir)
  /\ op' = [op EXCEPT !.dir = dir]
  /\ pc' = "on" /\ dog' = "armed"
  /\ faults' = IF late = {} /\ old = "none" THEN 0 ELSE faults
  /\ UNCHANGED <<radio, old, seen, marker, result, died>>

-----------------------------------------------------------------------------
(* Switching.                                                              *)

Fault(n) == faults + n <= MaxFaults /\ faults' = faults + n

\* The ON is done and acknowledged.  A timed ON ends by itself where the
\* firmware honours it.
SwitchOn ==
  /\ pc = "on" /\ pc' = "moving"
  /\ relays' = relays \cup {op.dir}
  /\ timer' = (op.kind = "timed" /\ firmware)
  /\ UNCHANGED <<op, late, firmware, dog, old, seen, marker, result, faults, died>>

\* The ON raises: not done, done all the same, or still on its way.
SwitchOnFails ==
  /\ pc = "on" /\ pc' = "off"
  /\ seen' = [seen EXCEPT !.failure = TRUE]
  /\ \/ Fault(1) /\ UNCHANGED radio
     \/ /\ Fault(1) /\ relays' = relays \cup {op.dir}
        /\ timer' = (op.kind = "timed" /\ firmware) /\ UNCHANGED <<late, firmware>>
     \/ Fault(2) /\ late' = late \cup {op.dir} /\ UNCHANGED <<relays, timer, firmware>>
  /\ UNCHANGED <<op, dog, old, marker, result, died>>

\* Both outputs are switched off; what is lost stays on.  A call may raise
\* whether or not it was done.
OffBoth ==
  \E lost \in SUBSET relays :
    /\ relays' = lost /\ timer' = (timer /\ lost # {})
    /\ IF lost = {} THEN UNCHANGED faults ELSE Fault(1)
    /\ UNCHANGED <<late, firmware>>

\* The time is over.
MoveEnds ==
  /\ pc = "moving" /\ pc' = "off"
  /\ UNCHANGED <<op, radio, dog, old, seen, marker, result, faults, died>>

\* While the valve opens: the floor is too hot, its sensor stale or the pump off.
Unsafe ==
  /\ pc = "moving" /\ op.kind = "open" /\ pc' = "off"
  /\ \E r \in Readings : ~FloorSafe(r)
  /\ seen' = [seen EXCEPT !.failure = TRUE]
  /\ UNCHANGED <<op, radio, dog, old, marker, result, faults, died>>

\* The witness of a timed pulse: it has to see the relay on, then off before
\* the backup, or anybody else of this command, switches it off.
Look ==
  /\ pc = "moving" /\ op.kind = "timed"
  /\ \/ /\ relays \ {op.dir} # {}
        /\ seen' = [seen EXCEPT !.failure = TRUE] /\ pc' = "off"
     \/ /\ relays = {op.dir} /\ ~seen.on
        /\ seen' = [seen EXCEPT !.on = TRUE] /\ UNCHANGED pc
     \/ /\ relays = {} /\ seen.on /\ ~seen.fired
        /\ seen' = [seen EXCEPT !.selfOff = TRUE] /\ pc' = "off"
  /\ UNCHANGED <<op, radio, dog, old, marker, result, faults, died>>

MainOff ==
  /\ pc = "off" /\ pc' = "readback"
  /\ OffBoth
  /\ \E raised \in BOOLEAN : seen' = [seen EXCEPT !.errors = @ \/ raised]
  /\ UNCHANGED <<op, dog, old, marker, result, died>>

\* Both read off within the time: only then is the watchdog stopped.
Proven ==
  /\ pc = "readback" /\ relays = {} /\ pc' = "join"
  /\ seen' = [seen EXCEPT !.proven = TRUE]
  /\ dog' = IF dog \in {"armed", "again"} THEN "done" ELSE dog
  /\ UNCHANGED <<op, radio, old, marker, result, faults, died>>

\* Mutant: The watchdog is stopped whether or not OFF was proven.
Unproven_Stops ==
  /\ pc = "readback" /\ pc' = "join"
  /\ dog' = IF dog \in {"armed", "again"} THEN "done" ELSE dog
  /\ UNCHANGED <<op, radio, old, seen, marker, result, faults, died>>

\* The readback fails, or still shows an output on, until the time is over.
Unproven ==
  /\ pc = "readback" /\ pc' = "join"
  /\ UNCHANGED <<op, radio, dog, old, seen, marker, result, faults, died>>

\* What the command requires of its observations before it claims success.
Succeeded ==
  /\ ~seen.failure /\ ~seen.errors /\ seen.proven /\ ~seen.fired
  /\ op.kind = "timed" => seen.on /\ seen.selfOff

\* The watchdog has ended, or the time to join it has: that of a supervised
\* command, which waits for minutes, then goes on alone.
Join ==
  /\ pc = "join"
  /\ \/ dog = "done" /\ UNCHANGED old
     \/ op.kind \in Supervised /\ ~seen.proven /\ dog # "done" /\ old = "none" /\ old' = dog
  /\ dog' = "none"
  /\ IF Succeeded /\ op.commission
       THEN pc' = "mark" /\ UNCHANGED <<op, result>>
       ELSE Report(IF Succeeded THEN "moved" ELSE "failed")
  /\ UNCHANGED <<radio, seen, marker, faults, died>>

\* A commissioning pulse that was seen to work allows runs for 30 days.
Commission ==
  /\ pc = "mark"
  /\ \/ marker' = [marker EXCEPT ![op.kind] = "fresh"] /\ Report("moved")
     \/ UNCHANGED marker /\ Report("failed")
  /\ UNCHANGED <<radio, dog, old, seen, faults, died>>

-----------------------------------------------------------------------------
(* The watchdog thread.                                                    *)

\* Mutant: The backup switches off before it says that it does.
Fire_Silent ==
  /\ dog = "armed" /\ dog' = "fired"
  /\ IF pc \in {"on", "moving", "off"} THEN Fault(1) ELSE UNCHANGED faults
  /\ UNCHANGED <<pc, op, radio, old, seen, marker, result, died>>

\* Its time is over.  It is a fault of the main thread's timing when that has
\* not yet come to its own OFF.
Fire ==
  /\ dog = "armed" /\ dog' = "fired"
  /\ seen' = [seen EXCEPT !.fired = TRUE]
  /\ IF pc \in {"on", "moving", "off"} THEN Fault(1) ELSE UNCHANGED faults
  /\ UNCHANGED <<pc, op, radio, old, marker, result, died>>

AfterOff(kind, w) == IF w = "fired" /\ kind \in Supervised THEN "again" ELSE "done"

DogOff ==
  /\ dog \in {"fired", "again"}
  /\ OffBoth
  /\ \E raised \in BOOLEAN : seen' = [seen EXCEPT !.errors = @ \/ raised]
  /\ dog' = AfterOff(op.kind, dog)
  /\ UNCHANGED <<pc, op, old, marker, result, died>>

OldFires ==
  /\ old = "armed" /\ old' = "fired"
  /\ UNCHANGED <<pc, op, radio, dog, seen, marker, result, faults, died>>

OldOff ==
  /\ old \in {"fired", "again"}
  /\ OffBoth
  /\ old' = IF old = "fired" THEN "again" ELSE "none"
  /\ UNCHANGED <<pc, op, dog, seen, marker, result, died>>

-----------------------------------------------------------------------------
(* The device, the radio, the user and the process.                        *)

NativeOff ==
  /\ timer /\ timer' = FALSE /\ relays' = {}
  /\ UNCHANGED <<pc, op, late, firmware, dog, old, seen, marker, result, faults, died>>

LateOn ==
  /\ late # {} /\ relays' = relays \cup late /\ late' = {}
  /\ UNCHANGED <<pc, op, timer, firmware, dog, old, seen, marker, result, faults, died>>

\* Native inching is configured, which the device may or may not take.
Prepare ==
  /\ pc = "idle" /\ relays = {} /\ ~firmware
  /\ firmware' = TRUE
  /\ UNCHANGED <<pc, op, relays, late, timer, dog, old, seen, marker, result, faults, died>>

Expires(g) ==
  /\ marker[g] = "fresh" /\ marker' = [marker EXCEPT ![g] = "expired"]
  /\ UNCHANGED <<pc, op, radio, dog, old, seen, result, faults, died>>

\* The installer switches off by hand what a failed command left on.
UserOff ==
  /\ pc = "idle" /\ old = "none" /\ relays # {} /\ late = {}
  /\ relays' = {} /\ timer' = FALSE /\ faults' = 0 /\ died' = FALSE
  /\ UNCHANGED <<pc, op, late, firmware, dog, old, seen, marker, result>>

Crash ==
  /\ pc # "idle" \/ old # "none"
  /\ pc' = "idle" /\ op' = NoOp /\ dog' = "none" /\ old' = "none"
  /\ seen' = Nothing /\ result' = "none"
  /\ died' = (died \/ relays # {} \/ late # {})
  /\ UNCHANGED <<radio, marker, faults>>

Main ==
  \/ \E kind \in Kinds, commission \in BOOLEAN : Begin(kind, commission)
  \/ Reject \/ Hold \/ \E dir \in Directions : Arm(dir)
  \/ SwitchOn \/ SwitchOnFails \/ MoveEnds \/ Unsafe \/ Look
  \/ MainOff \/ Proven \/ Unproven \/ Join \/ Commission

Next ==
  \/ Main
  \/ Fire \/ DogOff \/ OldFires \/ OldOff
  \/ NativeOff \/ LateOn \/ Prepare \/ UserOff \/ Crash
  \/ \E g \in Gated : Expires(g)

Spec == Init /\ [][Next]_vars

-----------------------------------------------------------------------------
(* A command that reports a movement has both outputs off, with no ON of   *)
(* its own on its way: whatever the watchdog, the device and lost or late  *)
(* switching did meanwhile ("software_off_readback_verified").             *)
OffProven == result = "moved" /\ ~seen.stray => relays = {} /\ late = {}

(* One fault of switching or timing never leaves an output on: main thread *)
(* and watchdog together switch it off, the watchdog after the command has *)
(* been reported, if need be.  Two faults can, and so can the death of the *)
(* process, as the sources say.                                            *)
SingleFault ==
  (pc = "idle" /\ old = "none" /\ faults <= 1 /\ ~died) => relays = {}

(* A device is commissioned for timed pulses only if it ends them itself:  *)
(* an OFF sent by a watchdog is not taken for its own.                     *)
NativeWitness == marker["timed"] = "fresh" => firmware
=============================================================================
