----------------------------- MODULE LocalMixer -----------------------------
(***************************************************************************)
(* f47_local_mixer_00013: the thread that moves the mixing valve of a floor *)
(* heating by 5 s pulses on two relays, and set_local_target, with which    *)
(* the command worker changes its setpoint.  The status file is the only    *)
(* memory that survives a restart; "locked" is meant to end all movement.   *)
(* cycle and set_local_target exclude each other (MODEL_LOCK); what         *)
(* run_forever reads and writes around a cycle is outside that lock.        *)
(***************************************************************************)
EXTENDS Integers, FiniteSets

CONSTANTS
  Targets,     \* setpoints, a set of integers; the dead band is equality
  Temps,       \* floor temperatures that can be reported
  MaxFloor,    \* MAX_FLOOR_C: readings from here on are refused
  MaxReport,   \* bound: number of sensor reports in a behaviour
  MaxPulses,   \* MAX_PULSES_PER_READING
  Faults       \* "crash", "switch", "late", "disk", "regress", "retarget", "overlap"

ASSUME ConstantsAssumption ==
  /\ Targets \subseteq Int /\ Temps \subseteq Int /\ MaxFloor \in Int
  /\ MaxReport \in Nat \ {0} /\ MaxPulses \in Nat \ {0}
  /\ Faults \subseteq {"crash", "switch", "late", "disk", "regress", "retarget", "overlap"}

Directions == {"open", "close"}
Reports == 1..MaxReport

VARIABLES
  armed,     \* the local configuration exists
  target,    \* its target_c
  status,    \* the status file
  ledger,    \* the last-pulse file: report, direction, pulses; at = 0 when absent
  relays,    \* the relays that are on
  pending,   \* a switch-on the radio still has to deliver, or "none"
  sample,    \* last sensor report: its number, temperature and age class
  pump,      \* the floor pump runs
  pc,        \* place of run_forever
  active,    \* its local flag
  dir,       \* direction of the pulse being made
  sound,     \* no error so far in that pulse
  saw,       \* status read by a set_local_target that holds the lock, or "idle"
  moved,     \* history: switch-ons based on each report, by direction
  broken     \* history: a pulse was interrupted by a restart

loop == <<pc, active, dir, sound>>
plant == <<relays, pending, sample, pump>>
config == <<armed, target>>
history == <<moved, broken>>
vars == <<armed, target, status, ledger, relays, pending, sample, pump, pc, active, dir, sound,
          saw, moved, broken>>

Fault(f) == f \in Faults
Go(place) == pc' = place

-----------------------------------------------------------------------------
Init ==
  /\ armed = FALSE /\ target \in Targets /\ status = "none"
  /\ ledger = [at |-> 0, dir |-> "none", n |-> 0]
  /\ relays = {} /\ pending = "none"
  /\ sample \in [at : {1}, temp : Temps, age : {"fresh"}] /\ pump = TRUE
  /\ pc = "look" /\ active = FALSE /\ dir = "none" /\ sound = TRUE /\ saw = "idle"
  /\ moved = [r \in Reports |-> [d \in Directions |-> 0]] /\ broken = FALSE

\* The reading is refused: stale, invalid or too hot.
Refused == sample.age = "stale" \/ sample.temp >= MaxFloor

\* Both switch-offs are sent; each is done, or fails.
OffBoth == IF Fault("switch") THEN relays' \in SUBSET relays ELSE relays' = {}

-----------------------------------------------------------------------------
(* Commands of the worker. *)

\* enable: after a read-only check, the status and then the configuration.
Enable ==
  /\ ~armed /\ relays = {} /\ ~Refused /\ pump
  /\ status' = "armed"
  /\ armed' \in IF Fault("disk") \/ Fault("crash") THEN BOOLEAN ELSE {TRUE}
  /\ UNCHANGED <<target, ledger, plant, loop, saw, history>>

\* Without "overlap", commands begin and end while the loop sleeps, the outcome of its
\* cycle saved.
MayCommand == Fault("overlap") \/ (pc = "sleep" /\ status # "pulse_active")

LoopHoldsLock == pc \in {"mark", "on", "off", "prove", "book"}

\* set_local_target up to reading the status ...
SetTarget ==
  /\ Fault("retarget") /\ MayCommand
  /\ armed /\ saw = "idle" /\ ~LoopHoldsLock /\ relays = {}
  /\ target' \in Targets
  /\ saw' = status
  /\ UNCHANGED <<armed, status, ledger, plant, loop, history>>

\* ... and from there: a lock it has seen is kept, otherwise the status is "hold".
\* Mutant: the lock is not kept.
KeepOrHold_Forgets(seen) == "hold"

KeepOrHold(seen) == IF seen = "locked" THEN seen ELSE "hold"

SetTargetDone ==
  /\ saw # "idle"
  /\ \/ status' = KeepOrHold(saw)
     \/ Fault("disk") /\ UNCHANGED status
  /\ saw' = "idle"
  /\ UNCHANGED <<config, ledger, plant, loop, history>>

-----------------------------------------------------------------------------
(* run_forever: one look at the status before every cycle. *)

\* Mutant: only a lock stops the loop, not a pulse that was interrupted.
Look_Resumes ==
  /\ pc = "look" /\ armed
  /\ IF status = "locked" THEN Go("sleep") ELSE Go("cycle")
  /\ active' = TRUE
  /\ UNCHANGED <<config, status, ledger, plant, dir, sound, saw, history>>

Look ==
  /\ pc = "look" /\ armed
  /\ \/ /\ status = "locked"
        /\ Go("sleep") /\ UNCHANGED <<status, relays, active>>
     \/ \* a pulse an earlier process did not finish
        /\ status = "pulse_active"
        /\ OffBoth
        /\ \/ status' = "locked"
           \/ Fault("disk") /\ UNCHANGED status
        /\ Go("sleep") /\ UNCHANGED active
     \/ /\ status \notin {"locked", "pulse_active"}
        /\ \/ active /\ UNCHANGED status /\ Go("cycle") /\ UNCHANGED active
           \/ ~active /\ status' = "local_running" /\ Go("cycle") /\ active' = TRUE
           \/ ~active /\ Fault("disk") /\ UNCHANGED status /\ Go("sleep") /\ UNCHANGED active
        /\ UNCHANGED relays
  /\ UNCHANGED <<config, ledger, pending, sample, pump, dir, sound, saw, history>>

\* PAUSE_SECONDS, or the 15 s of a locked or failed supervisor.
Sleep ==
  /\ pc = "sleep" /\ Go("look")
  /\ saw = "idle" \/ Fault("overlap")
  /\ UNCHANGED <<config, status, ledger, plant, active, dir, sound, saw, history>>

-----------------------------------------------------------------------------
(* cycle, under MODEL_LOCK: the decision. *)

Wanted == IF sample.temp > target THEN "close" ELSE "open"

\* Pulses the ledger counts for the current report.
Spent == IF ledger.at = sample.at THEN ledger.n ELSE 0

\* Mutant: a changed setpoint reverses the valve on the same report.
Usable_AnyDirection == sample.at >= ledger.at

\* A report that is not older than the ledger, nor used in the other direction.
Usable == /\ sample.at >= ledger.at
          /\ ledger.at = sample.at => ledger.dir = Wanted

MayPulse == /\ pump /\ sample.temp # target /\ sample.age = "fresh"
            /\ Usable /\ Spent < MaxPulses

Cycle ==
  /\ pc = "cycle" /\ saw = "idle"
  /\ \/ \* the relays, the registry or an entity is not as required
        /\ relays # {} \/ Fault("switch")
        /\ Go("failed") /\ UNCHANGED dir
     \/ relays = {} /\ Refused /\ Go("hold") /\ UNCHANGED dir
     \/ relays = {} /\ ~Refused /\ ~MayPulse /\ Go("done") /\ UNCHANGED dir
     \/ relays = {} /\ ~Refused /\ MayPulse /\ Go("mark") /\ dir' = Wanted
  /\ sound' = TRUE
  /\ UNCHANGED <<config, status, ledger, plant, active, saw, history>>

-----------------------------------------------------------------------------
(* _pulse and the ledger, still under MODEL_LOCK. *)

\* Mutant: the relay is switched before the status says so.
Mark_Unsaved ==
  /\ pc = "mark" /\ Go("on")
  /\ UNCHANGED <<config, status, ledger, plant, active, dir, sound, saw, history>>

Mark ==
  /\ pc = "mark"
  /\ \/ relays = {} /\ status' = "pulse_active" /\ Go("on")
     \/ /\ relays # {} \/ Fault("disk")
        /\ UNCHANGED status /\ Go("failed")
  /\ UNCHANGED <<config, ledger, plant, active, dir, sound, saw, history>>

On ==
  /\ pc = "on" /\ Go("off")
  /\ \/ relays' = relays \cup {dir} /\ UNCHANGED <<sound, pending>>
     \/ Fault("switch") /\ relays' \in {relays, relays \cup {dir}} /\ sound' = FALSE
        /\ UNCHANGED pending
     \/ Fault("late") /\ pending' = dir /\ sound' = FALSE /\ UNCHANGED relays
  /\ moved' = [moved EXCEPT ![sample.at][dir] = @ + 1]
  /\ UNCHANGED <<config, status, ledger, sample, pump, active, dir, saw, broken>>

\* Switch-off of both; an exception of either is remembered.
Off ==
  /\ pc = "off" /\ Go("prove")
  /\ \/ relays' = {} /\ UNCHANGED sound
     \/ Fault("switch") /\ relays' \in SUBSET relays /\ sound' = FALSE
  /\ UNCHANGED <<config, status, ledger, pending, sample, pump, active, dir, saw, history>>

\* The guard thread, when the switch-off is not proven in time.
Watchdog ==
  /\ pc = "prove" /\ sound /\ Fault("switch")
  /\ OffBoth /\ sound' = FALSE
  /\ UNCHANGED <<config, status, ledger, pending, sample, pump, pc, active, dir, saw, history>>

Prove ==
  /\ pc = "prove"
  /\ \/ relays = {} /\ sound /\ Go("book")
     \/ (relays # {} \/ ~sound) /\ Go("failed")
  /\ UNCHANGED <<config, status, ledger, plant, active, dir, sound, saw, history>>

Book ==
  /\ pc = "book"
  /\ \/ ledger' = [at |-> sample.at, dir |-> dir, n |-> Spent + 1] /\ Go("done")
     \/ Fault("disk") /\ UNCHANGED ledger /\ Go("failed")
  /\ UNCHANGED <<config, status, plant, active, dir, sound, saw, history>>

-----------------------------------------------------------------------------
(* run_forever after the cycle: the lock is free, the outcome not yet saved. *)

Done ==
  /\ pc = "done"
  /\ \/ status' = "local_running" /\ Go("sleep")
     \/ Fault("disk") /\ UNCHANGED status /\ Go("failed")
  /\ UNCHANGED <<config, ledger, plant, active, dir, sound, saw, history>>

\* A refused reading is a hold only when both relays are verified off.
Hold ==
  /\ pc = "hold"
  /\ \/ relays = {} /\ status' = "hold" /\ Go("sleep")
     \/ /\ relays # {} \/ Fault("disk") \/ Fault("switch")
        /\ UNCHANGED status /\ Go("failed")
  /\ UNCHANGED <<config, ledger, plant, active, dir, sound, saw, history>>

\* Mutant: a motor failure is a hold like any other.
Failed_Holds ==
  /\ pc = "failed" /\ Go("sleep")
  /\ OffBoth /\ status' = "hold"
  /\ UNCHANGED <<config, ledger, pending, sample, pump, active, dir, sound, saw, history>>

Failed ==
  /\ pc = "failed" /\ Go("sleep")
  /\ OffBoth
  /\ \/ status' = "locked"
     \/ Fault("disk") /\ UNCHANGED status
  /\ UNCHANGED <<config, ledger, pending, sample, pump, active, dir, sound, saw, history>>

-----------------------------------------------------------------------------
(* The environment. *)

Crash ==
  /\ Fault("crash")
  /\ pc' = "look" /\ active' = FALSE /\ sound' = TRUE /\ dir' = "none" /\ saw' = "idle"
  /\ broken' = (broken \/ pc \in {"off", "prove"})
  /\ UNCHANGED <<config, status, ledger, plant, moved>>

LateOn ==
  /\ pending # "none" /\ pending' = "none"
  /\ relays' = relays \cup {pending}
  /\ UNCHANGED <<config, status, ledger, sample, pump, loop, saw, history>>

\* A report is used for the whole of a pulse, so it changes between cycles.
NewReport ==
  /\ ~LoopHoldsLock
  /\ sample' \in [at : Reports, temp : Temps, age : {"fresh"}]
  /\ sample'.at = sample.at + 1 \/ (Fault("regress") /\ sample'.at < sample.at)
  /\ UNCHANGED <<config, status, ledger, relays, pending, pump, loop, saw, history>>

Ages ==
  /\ sample.age # "stale"
  /\ sample' = [sample EXCEPT !.age = IF @ = "fresh" THEN "old" ELSE "stale"]
  /\ UNCHANGED <<config, status, ledger, relays, pending, pump, loop, saw, history>>

PumpSwitches ==
  /\ pump' = ~pump
  /\ UNCHANGED <<config, status, ledger, relays, pending, sample, loop, saw, history>>

-----------------------------------------------------------------------------
Worker == Enable \/ SetTarget \/ SetTargetDone
Loop == \/ Look \/ Sleep \/ Cycle \/ Mark \/ On \/ Off \/ Watchdog \/ Prove \/ Book
        \/ Done \/ Hold \/ Failed
Environment == Crash \/ LateOn \/ NewReport \/ Ages \/ PumpSwitches

Next == Worker \/ Loop \/ Environment

Spec == Init /\ [][Next]_vars

-----------------------------------------------------------------------------
\* Every variable has its type; the saved ledger never counts more than MaxPulses
\* (line 257 refuses a file that does).
TypeOK ==
  /\ armed \in BOOLEAN /\ target \in Targets
  /\ status \in {"none", "armed", "local_running", "hold", "pulse_active", "locked"}
  /\ ledger \in [at : 0..MaxReport, dir : Directions \cup {"none"}, n : 0..MaxPulses]
  /\ relays \subseteq Directions /\ pending \in Directions \cup {"none"}
  /\ sample \in [at : Reports, temp : Temps, age : {"fresh", "old", "stale"}]
  /\ pump \in BOOLEAN /\ active \in BOOLEAN /\ sound \in BOOLEAN
  /\ pc \in {"look", "sleep", "cycle", "mark", "on", "off", "prove", "book", "done", "hold",
             "failed"}
  /\ dir \in Directions \cup {"none"}
  /\ saw \in {"idle", "armed", "local_running", "hold", "pulse_active", "locked", "none"}

\* The valve motor is never driven in both directions at once, not even when a
\* switch-off was lost or a switch-on arrives late.
Interlock == Cardinality(relays) <= 1

\* A relay that is on is one the status file warns of, so that whatever process runs
\* next switches it off and moves no more.
OnIsMarked == relays # {} => status \in {"pulse_active", "locked"}

\* Stale feedback moves the valve only so far: the pulses on one report all go one way
\* and are at most MaxPulses, also over restarts, failures and changed setpoints.
BoundedTravel ==
  \A r \in Reports :
    /\ \A d \in Directions : moved[r][d] <= MaxPulses
    /\ moved[r]["open"] = 0 \/ moved[r]["close"] = 0

\* "Setpoint updates must never unlock a motor failure", and nothing else does.
LockSticks == [][status = "locked" => status' = "locked"]_vars

\* "An interrupted ON must NEVER resume after Agent restart."
NeverResumes == broken => pc # "on"
=============================================================================
