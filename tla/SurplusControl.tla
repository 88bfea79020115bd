--------------------------- MODULE SurplusControl ---------------------------
(***************************************************************************)
(* Loads switched by PV surplus.  Two threads of one process switch the      *)
(* same relays of Home Assistant and share nothing but two files: the cloud  *)
(* configuration, written by a third thread, and the store of intents.       *)
(*                                                                           *)
(* telemetry (telemetrie_modulu): in each cycle decides from the battery and *)
(*   the temperatures which loads should run, then drives them one by one;   *)
(*   an intent that is valid at that moment takes the place of the decision. *)
(* worker (command_worker): switches the outputs of expired intents off,     *)
(*   then executes one command: a target intent, which is stored and driven  *)
(*   at once; a boiler intent, which is only stored; or a plain switch       *)
(*   command, the way the weekly thermostat of the cloud acts.               *)
(*                                                                           *)
(* Wall and monotonic clock are one: both threads compare times of their own *)
(* kind only.                                                                *)
(***************************************************************************)
EXTENDS Integers, Sequences, SequencesExt, FiniteSets

CONSTANTS
  Targets, Outputs, None,
  Order,        \* the targets by priority
  Configs,      \* configurations of the cloud: see ConstantsAssumption
  Confirm,      \* confirmation_seconds
  Grace,        \* PV_SURPLUS_TELEMETRY_GRACE_SECONDS
  MaxIntents,   \* MAX_TARGET_INTENTS
  Lifetimes,    \* valid_until of an intent, counted from its arrival
  EnableSoc, DisableSoc, MinPv, MaxImport,   \* battery_soc of the configuration
  Observed,     \* snapshots of the inverter: see ConstantsAssumption
  AtRest,       \* the snapshot of the end
  Temperatures, \* what a sensor may say: a subset of {"cold", "band", "hot", "bad"}
  Faults,       \* "ha", "disk", "crash", "user"
  MaxTime,      \* bound: the last moment, when the battery is as in AtRest
  MaxEvents     \* bound: commands, changes of the configuration and faults

ASSUME ConstantsAssumption ==
  /\ None \notin Targets \cup Outputs
  /\ Order \in Seq(Targets) /\ \A t \in Targets : \E i \in DOMAIN Order : Order[i] = t
  /\ \A c \in Configs :
       /\ DOMAIN c = {"bind", "kind", "weekly", "act"}
       /\ c.bind \in [Targets -> Outputs \cup {None}]      \* None: not enabled or not verified
       /\ c.kind \in [Targets -> {"generic_load", "domestic_hot_water"}]
       /\ c.weekly \subseteq Targets /\ c.act \in BOOLEAN  \* thermostat programs; actuation_enabled
  /\ Configs # {}
  /\ Confirm \in Nat /\ Grace \in Nat /\ MaxIntents \in Nat
  /\ MaxTime \in Nat /\ MaxEvents \in Nat
  /\ Lifetimes \subseteq Nat \ {0}
  /\ DisableSoc \in 0..100 /\ EnableSoc \in DisableSoc..100 /\ MinPv \in Nat /\ MaxImport \in Nat
  /\ \A s \in Observed \cup {AtRest} :       \* None: missing, or not of quality good
       /\ DOMAIN s = {"soc", "total", "strings", "meter", "sign"}
       /\ s.soc \in 0..100 \cup {None} /\ s.total \in Nat \cup {None}
       /\ s.strings \in Seq(Nat \cup {None}) /\ s.meter \in Int \cup {None}
       /\ s.sign \in {"import negative", "import positive"}
  /\ Temperatures \subseteq {"cold", "band", "hot", "bad"}
  /\ Faults \subseteq {"ha", "disk", "crash", "user"}

VARIABLES
  now, cfg,     \* the time; the cached configuration
  relay,        \* outputs that are on
  store, spot,  \* the stored target intents; the boiler intent
  energy,       \* _pv_surplus_dry_run_state
  plan,         \* telemetry: the results still to be driven
  pc, w,        \* worker: its place, and the locals of the call it is in
  lastBad,      \* history: last evaluation against a surplus, or the process's start
  left          \* events that may still happen

world == <<now, cfg>>
vars == <<now, cfg, relay, store, spot, energy, plan, pc, w, lastBad, left>>

\* One event from outside; none.
Event == left > 0 /\ left' = left - 1
Calm == UNCHANGED left
Fault(f) == f \in Faults /\ Event
Idle == [at |-> 0, cfg |-> CHOOSE c \in Configs : TRUE, todo |-> {}, gone |-> {}, cmd |-> None]
Asleep == [st |-> "OFF", since |-> 0, fault |-> -1, grace |-> FALSE]
Intents == [out : Outputs, on : BOOLEAN, until : Nat]
Energies == [st : {"OFF", "FAULT", "BLOCKED", "CONFIRMING", "ACTIVE"}, since : Nat, fault : Int, grace : BOOLEAN]
Ordered == [t : Targets, out : Outputs, on : BOOLEAN]
Locals == [at : 0..MaxTime, cfg : Configs, todo : SUBSET Targets, gone : SUBSET Targets,
           cmd : Ordered \cup {None}]

Init ==
  /\ now = 0 /\ cfg \in Configs
  /\ relay = {} /\ store = [t \in Targets |-> None] /\ spot = None
  /\ energy = Asleep /\ plan = {} /\ pc = "idle" /\ w = Idle /\ lastBad = 0
  /\ left = MaxEvents

-----------------------------------------------------------------------------
(* What both threads ask of the files.                                       *)

\* _find_generic_target_binding: the output a target intent may drive.
Binding(c, t) == IF c.kind[t] = "generic_load" THEN c.bind[t] ELSE None

\* is_verified_weekly_owner: no other enabled target may name the output.
WeeklyOwner(c, t, o) ==
  /\ t \in c.weekly /\ Binding(c, t) = o
  /\ \A u \in Targets \ {t} : c.bind[u] # o

Valid(intent, at) == intent # None /\ intent.until > at

-----------------------------------------------------------------------------
(* The decision.                                                             *)

\* nacti_pv_vykon_w: a total, else the sum of the strings if none is missing.
PvPower(s) ==
  IF s.total # None THEN s.total
  ELSE IF s.strings = <<>> \/ None \in Range(s.strings) THEN None
  ELSE FoldSeq(+, 0, s.strings)

\* nacti_sitovy_vykon_w: what is taken from the grid.
Import(s) ==
  IF s.meter = None THEN None ELSE IF s.sign = "import positive" THEN s.meter ELSE -s.meter

\* vyhodnotit_battery_soc_source up to the hysteresis: does a needed value miss;
\* is there too little PV power, or too much import.
Missing(s) == s.soc = None \/ (MinPv > 0 /\ PvPower(s) = None) \/ Import(s) = None
Blocked(s) == (MinPv > 0 /\ PvPower(s) < MinPv) \/ Import(s) > MaxImport

\* The hysteresis depends on the state before.
Permits(prev, s) ==
  IF prev \in {"ACTIVE", "CONFIRMING"} THEN s.soc > DisableSoc ELSE s.soc >= EnableSoc

Instant(prev, s) ==
  CASE Missing(s) -> "FAULT"
    [] ~Missing(s) /\ Blocked(s) -> "BLOCKED"
    [] OTHER -> IF Permits(prev, s) THEN "CONFIRMING" ELSE "OFF"

\* Mutant: the confirmation goes on from where an earlier one was broken off.
Confirming_Resumed(e, at) == e.since

\* The start of the confirmation that is running.
Confirming(e, at) == IF e.st = "CONFIRMING" THEN e.since ELSE at

\* vyhodnotit_stav_prebytku
Evaluated(e, s, at) ==
  LET i == Instant(e.st, s)
      done == e.st = "ACTIVE" \/ at - Confirming(e, at) >= Confirm
  IN  CASE i # "CONFIRMING" -> [st |-> i, since |-> 0]
        [] i = "CONFIRMING" /\ done -> [st |-> "ACTIVE", since |-> 0]
        [] OTHER -> [st |-> "CONFIRMING", since |-> Confirming(e, at)]

\* aplikovat_pv_surplus_telemetry_grace: missing data keep what is on running.
Graced(e, s, at, anyOn) ==
  LET r == Evaluated(e, s, at)
      bridged == r.st = "FAULT" /\ e.st = "ACTIVE" /\ anyOn
      start == IF e.fault = -1 THEN at ELSE e.fault
      hold == bridged /\ at - start < Grace
  IN  [st |-> IF hold THEN "ACTIVE" ELSE r.st, since |-> r.since,
       fault |-> IF bridged THEN start ELSE -1, grace |-> hold]

\* vyhodnotit_teplotu_cile: the load needs heat; `was` is its output.
HeatDemand(c, was) == c = "cold" \/ (c = "band" /\ was)

\* vyhodnotit_cil_prebytku, with the guard R3R20R6.
ShouldRun(e, c, was) == e.st = "ACTIVE" /\ HeatDemand(c, was) /\ (e.grace => was)

\* _r3r11_read_target_context: verified, and sensor and output can be read.
Readable(t, temp) == cfg.bind[t] # None /\ temp[t] # "bad"

\* The first of the targets that name one output drives it.
First(t, temp) ==
  \A i, j \in DOMAIN Order :
     Order[j] = t /\ i < j /\ Readable(Order[i], temp) => cfg.bind[Order[i]] # cfg.bind[t]

Driven(t, temp) ==
  Readable(t, temp) /\ First(t, temp) /\ ~WeeklyOwner(cfg, t, cfg.bind[t])

\* The result of one target, as vyhodnotit_pv_surplus_targets_dry_run lists it;
\* `known`: not decided on missing data.
Result(t, e, temp, known) ==
  LET was == cfg.bind[t] \in relay
  IN  [t |-> t, out |-> cfg.bind[t], kind |-> cfg.kind[t], was |-> was,
       on |-> ShouldRun(e, temp[t], was), known |-> known]

\* odeslat_telemetrii_jednou up to the first output it drives.  Configuration,
\* outputs and temperatures are read here, once for the cycle; a cycle whose
\* inverter cannot be read at all ends before and decides nothing.
EvaluateAs(seen, temp) ==
  LET on == \E t \in Targets : Readable(t, temp) /\ cfg.bind[t] \in relay
      e == Graced(energy, seen, now, on)
      driven == {t \in Targets : Driven(t, temp)}
  IN  /\ energy' = e
      /\ plan' = IF cfg.act THEN {Result(t, e, temp, ~Missing(seen)) : t \in driven} ELSE {}
      /\ lastBad' = IF Instant(energy.st, seen) \in {"OFF", "BLOCKED"} THEN now ELSE lastBad

Evaluate ==
  /\ plan = {} /\ \E t \in Targets : cfg.bind[t] # None
  /\ \/ /\ now < MaxTime
        /\ \E seen \in Observed, temp \in [Targets -> Temperatures] : EvaluateAs(seen, temp)
     \/ /\ now = MaxTime
        /\ \E temp \in [Targets -> Temperatures \ {"bad"}] : EvaluateAs(AtRest, temp)
  /\ UNCHANGED <<world, relay, store, spot, pc, w, left>>

\* load_pv_surplus_target_intent: a valid intent for this very output.
HasIntent(r) == Valid(store[r.t], now) /\ store[r.t].out = r.out

\* load_spot_boiler_intent, combine_boiler_requests
BoilerOn(r) == r.on \/ (Valid(spot, now) /\ spot.out = r.out /\ spot.on)

\* Mutant: an output with a valid intent is left to the worker.
Desired_LeftToWorker(r) ==
  CASE r.kind = "domestic_hot_water" -> BoilerOn(r)
    [] r.kind = "generic_load" -> IF HasIntent(r) THEN r.was ELSE r.on

\* vyhodnotit_pv_surplus_control_jednou: what one result asks for by now.
Desired(r) ==
  CASE r.kind = "domestic_hot_water" -> BoilerOn(r)
    [] r.kind = "generic_load" -> IF HasIntent(r) THEN store[r.t].on ELSE r.on

\* Home Assistant is asked to switch: the relay follows, or the call or the
\* readback fails, with or without an effect.
Put(o, on) == relay' = IF on THEN relay \cup {o} ELSE relay \ {o}
Switched(o, on) == Put(o, on) /\ Calm
NotConfirmed(o, on) == Fault("ha") /\ (Put(o, on) \/ UNCHANGED relay)

\* The results are driven by priority.
Foremost(r) ==
  \E i \in DOMAIN Order :
     Order[i] = r.t /\ \A j \in DOMAIN Order, q \in plan : j < i => Order[j] # q.t

\* provest_pv_surplus_action: compared with the output as read in Evaluate.
Drive ==
  /\ \E r \in plan :
       /\ Foremost(r) /\ plan' = plan \ {r}
       /\ IF Desired(r) = r.was THEN UNCHANGED relay /\ Calm
          ELSE Switched(r.out, Desired(r)) \/ NotConfirmed(r.out, Desired(r))
  /\ UNCHANGED <<world, store, spot, energy, pc, w, lastBad>>

-----------------------------------------------------------------------------
(* The worker.                                                               *)

Goto(place, locals) == pc' = place /\ w' = locals

\* reconcile_expired_pv_surplus_target_intents: time, store and configuration
\* are read once.
Reconcile ==
  LET expired == {t \in Targets : store[t] # None /\ store[t].until <= now}
  IN  /\ pc = "idle"
      /\ IF expired = {} THEN Goto("claim", Idle)
         ELSE Goto("expire", [Idle EXCEPT !.at = now, !.cfg = cfg, !.todo = expired])
      /\ UNCHANGED <<world, relay, store, spot, energy, plan, lastBad, left>>

Retire(t) == w' = [w EXCEPT !.todo = @ \ {t}, !.gone = @ \cup {t}]
Keep(t) == w' = [w EXCEPT !.todo = @ \ {t}]

\* One expired intent; a binding that has changed since is an error.
Expire(t) ==
  LET o == Binding(w.cfg, t)
  IN  /\ pc = "expire" /\ t \in w.todo /\ UNCHANGED pc
      /\ \/ o # store[t].out /\ Keep(t) /\ UNCHANGED relay /\ Calm
         \/ o = store[t].out /\ WeeklyOwner(w.cfg, t, o) /\ Retire(t) /\ UNCHANGED relay /\ Calm
         \/ /\ o = store[t].out /\ ~WeeklyOwner(w.cfg, t, o)
            /\ \/ Switched(o, FALSE) /\ Retire(t)
               \/ NotConfirmed(o, FALSE) /\ Keep(t)
      /\ UNCHANGED <<world, store, spot, energy, plan, lastBad>>

\* _write_store: one write for all; when it fails the round ends.
Reconciled ==
  /\ pc = "expire" /\ w.todo = {}
  /\ \/ /\ store' = [t \in Targets |-> IF t \in w.gone THEN None ELSE store[t]]
        /\ Goto("claim", Idle) /\ Calm
     \/ Fault("disk") /\ w.gone # {} /\ Goto("idle", Idle) /\ UNCHANGED store
  /\ UNCHANGED <<world, relay, spot, energy, plan, lastBad>>

\* No command, one of another kind, or one that is refused.
ClaimNothing ==
  /\ pc = "claim" /\ Goto("idle", Idle)
  /\ UNCHANGED <<world, relay, store, spot, energy, plan, lastBad, left>>

Active(at) == {t \in Targets : Valid(store[t], at)}

\* Mutant: the owner of an output is not looked for.
Accepted_Shared(c, t, o, on) ==
  /\ Binding(c, t) = o /\ ~WeeklyOwner(c, t, o) /\ (on => c.act)

\* apply_pv_surplus_target_intent up to the switching: the binding, the weekly
\* owner, the permission to switch on, one active owner per output, the maximum.
Accepted(c, t, o, on) ==
  /\ Binding(c, t) = o /\ ~WeeklyOwner(c, t, o) /\ (on => c.act)
  /\ \A u \in Active(now) \ {t} : store[u].out # o
  /\ t \in Active(now) \/ Cardinality(Active(now)) < MaxIntents

\* save_pv_surplus_target_intent: what is no longer valid leaves the store.
AcceptIntent ==
  /\ pc = "claim" /\ Event
  /\ \E t \in Targets, o \in Outputs, on \in BOOLEAN, life \in Lifetimes :
       LET intent == [out |-> o, on |-> on, until |-> now + life]
       IN  /\ Accepted(cfg, t, o, on)
           /\ store' = [u \in Targets |-> IF u = t THEN intent
                          ELSE IF u \in Active(now) THEN store[u] ELSE None]
           /\ Goto("switch", [Idle EXCEPT !.cmd = [t |-> t, out |-> o, on |-> on]])
  /\ UNCHANGED <<world, relay, spot, energy, plan, lastBad>>

SwitchIntent ==
  /\ pc = "switch"
  /\ \/ Switched(w.cmd.out, w.cmd.on) /\ Goto("idle", Idle)
     \/ NotConfirmed(w.cmd.out, w.cmd.on) /\ pc' = "remove" /\ UNCHANGED w
  /\ UNCHANGED <<world, store, spot, energy, plan, lastBad>>

\* _remove_intent
RemoveIntent ==
  /\ pc = "remove" /\ Goto("idle", Idle)
  /\ \/ store' = [store EXCEPT ![w.cmd.t] = None] /\ Calm
     \/ Fault("disk") /\ UNCHANGED store
  /\ UNCHANGED <<world, relay, spot, energy, plan, lastBad>>

\* save_spot_boiler_intent
BoilerIntents == [out : Outputs, on : BOOLEAN, until : {now + life : life \in Lifetimes}]

\* execute_spot_boiler_intent: stored for telemetry, nothing is switched.
StoreBoilerIntent ==
  /\ pc = "claim" /\ Event /\ Goto("idle", Idle) /\ spot' \in BoilerIntents
  /\ UNCHANGED <<world, relay, store, energy, plan, lastBad>>

\* execute_zigbee_switch_set: any output, whoever drives it.  After a time-out
\* of an OFF the state is only read again.
SwitchCommand ==
  /\ pc = "claim" /\ Event /\ Goto("idle", Idle)
  /\ \E o \in Outputs, on \in BOOLEAN : Put(o, on) \/ ("ha" \in Faults /\ UNCHANGED relay)
  /\ UNCHANGED <<world, store, spot, energy, plan, lastBad>>

Worker ==
  \/ Reconcile \/ (\E t \in Targets : Expire(t)) \/ Reconciled \/ ClaimNothing
  \/ SwitchIntent \/ RemoveIntent

Commands == AcceptIntent \/ StoreBoilerIntent \/ SwitchCommand

-----------------------------------------------------------------------------
(* The environment.                                                          *)

Tick ==
  /\ now < MaxTime /\ now' = now + 1
  /\ UNCHANGED <<cfg, relay, store, spot, energy, plan, pc, w, lastBad, left>>

\* device_config.sync_once replaces the cached configuration.
Sync ==
  /\ Event /\ cfg' \in Configs \ {cfg}
  /\ UNCHANGED <<now, relay, store, spot, energy, plan, pc, w, lastBad>>

UserSwitches ==
  /\ Fault("user") /\ \E o \in Outputs, on \in BOOLEAN : Put(o, on)
  /\ UNCHANGED <<world, store, spot, energy, plan, pc, w, lastBad>>

\* The process is restarted: files and relays stay.
Restart ==
  /\ Fault("crash")
  /\ energy' = Asleep /\ plan' = {} /\ Goto("idle", Idle) /\ lastBad' = now
  /\ UNCHANGED <<world, relay, store, spot>>

Next ==
  \/ Evaluate \/ Drive \/ Worker \/ Commands
  \/ Tick \/ Sync \/ UserSwitches \/ Restart

\* Both threads run for ever, and so does time up to its bound.
Fairness ==
  /\ WF_vars(Evaluate) /\ WF_vars(Drive) /\ WF_vars(Worker) /\ WF_vars(Tick)

Spec == Init /\ [][Next]_vars /\ Fairness

-----------------------------------------------------------------------------
(* Properties.                                                               *)

TypeOK ==
  /\ now \in 0..MaxTime /\ cfg \in Configs /\ relay \subseteq Outputs
  /\ store \in [Targets -> Intents \cup {None}] /\ spot \in Intents \cup {None}
  /\ energy \in Energies /\ \A r \in plan : r.out \in Outputs
  /\ pc \in {"idle", "expire", "claim", "switch", "remove"} /\ w \in Locals
  /\ pc \in {"switch", "remove"} => w.cmd \in Ordered
  /\ lastBad \in 0..now /\ left \in 0..MaxEvents

\* The worker's fail-safe OFF of an expired intent never switches off an output
\* that a valid intent, of the same or of another target, holds on.
HeldOutput ==
  [][\A o \in relay \ relay' :
        pc = "expire" /\ w' # w =>
          \A t \in Targets : Valid(store[t], now) /\ store[t].out = o => ~store[t].on]_vars

\* Surplus alone starts a load only after a full confirmation time in which no
\* evaluation spoke against it, and never on missing data: R3R20R6, "A different
\* OFF target must never start merely because another target keeps the shared
\* energy state in grace".
ConfirmedStart ==
  \A r \in plan : r.on /\ ~r.was => r.known /\ now - lastBad >= Confirm

\* F43: "legacy PV/SOC intents (including OFF) must never override an active
\* verified cloud weekly thermostat": neither thread switches such an output
\* but for a command of the cloud.
WeeklyExclusive ==
  [][\A o \in (relay \ relay') \cup (relay' \ relay) :
        plan' # plan \/ (pc \in {"expire", "switch"} /\ w' # w) =>
          \A t \in Targets : ~WeeklyOwner(cfg, t, o)]_vars

\* An output that telemetry drives ends as its valid intent says, and off where
\* neither an intent nor the battery gives it a reason.
Settled(t) ==
  LET o == cfg.bind[t]
  IN  IF cfg.kind[t] = "generic_load" /\ Valid(store[t], now) /\ store[t].out = o
      THEN o \in relay <=> store[t].on
      ELSE cfg.kind[t] = "generic_load" \/ ~Valid(spot, now) => o \notin relay

\* When the world rests all outputs settle, whatever the two threads, failures,
\* restarts and commands have done to each other before.
Settles ==
  <>[](cfg.act => \A t \in Targets :
         Driven(t, [u \in Targets |-> "hot"]) => Settled(t))
=============================================================================
