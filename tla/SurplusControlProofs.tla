------------------------ MODULE SurplusControlProofs ------------------------
(***************************************************************************)
(* Machine-checked proofs about SurplusControl, for any targets, outputs,   *)
(* configurations, snapshots, thresholds, delays and lifetimes.             *)
(***************************************************************************)
EXTENDS SurplusControl, TLAPS

-----------------------------------------------------------------------------
(* The inductive invariant.                                                  *)

\* The confirmation that is running, and the one a running surplus has had, began
\* after the last evaluation against it.
Confirmed ==
  /\ energy.st = "CONFIRMING" => lastBad <= energy.since
  /\ energy.st = "ACTIVE" => now - lastBad >= Confirm

\* No two intents in the store are for one output: a new one is accepted only where
\* no valid one holds the output, and drops those that are no longer valid.
OneOwner ==
  \A t, u \in Targets :
    t # u /\ store[t] # None /\ store[u] # None => store[t].out # store[u].out

\* What is being expired has expired, and is still in the store.
Expiring ==
  pc = "expire" => w.at <= now /\ \A t \in w.todo : store[t] # None /\ store[t].until <= w.at

IInv == TypeOK /\ Confirmed /\ ConfirmedStart /\ OneOwner /\ Expiring

USE DEF world, Event, Calm, Fault, Goto

\* The bounds, delays and lifetimes are numbers.
LEMMA Bounds == /\ MaxTime \in Nat /\ MaxEvents \in Nat /\ Confirm \in Nat /\ Grace \in Nat
                /\ \A life \in Lifetimes : life \in Nat
BY ConstantsAssumption

\* A configuration binds each target to an output or to none.
LEMMA Bindings == \A c \in Configs : c.bind \in [Targets -> Outputs \cup {None}]
BY ConstantsAssumption

\* Events are only used up.
LEMMA EventsLeft ==
  ASSUME left \in 0..MaxEvents, UNCHANGED left \/ Event
  PROVE  left' \in 0..MaxEvents
BY Bounds

-----------------------------------------------------------------------------
(* The decision.                                                             *)

\* Whatever it reads, the decision has a state, and it is ACTIVE only where the
\* surplus has been confirmed or missing data are bridged.
LEMMA Decision ==
  ASSUME TypeOK, Confirmed, NEW s, NEW anyOn \in BOOLEAN,
         NEW bad, bad = (IF Instant(energy.st, s) \in {"OFF", "BLOCKED"} THEN now ELSE lastBad)
  PROVE  LET e == Graced(energy, s, now, anyOn)
         IN  /\ e \in Energies
             /\ e.st = "CONFIRMING" => bad <= e.since
             /\ e.st = "ACTIVE" => now - bad >= Confirm
             /\ e.st = "ACTIVE" /\ ~e.grace => ~Missing(s)
<1> DEFINE i == Instant(energy.st, s)
           r == Evaluated(energy, s, now)
           e == Graced(energy, s, now, anyOn)
<1>1. i \in {"FAULT", "BLOCKED", "CONFIRMING", "OFF"} /\ (i = "CONFIRMING" => ~Missing(s))
  <2>1. CASE Missing(s)
    BY <2>1 DEF Instant
  <2>2. CASE ~Missing(s) /\ Blocked(s)
    BY <2>2 DEF Instant
  <2>3. CASE ~Missing(s) /\ ~Blocked(s)
    BY <2>3 DEF Instant
  <2> QED
    BY <2>1, <2>2, <2>3
<1>2. energy \in Energies /\ now \in Nat /\ lastBad \in 0..now
  BY Bounds DEF TypeOK
<1>3. Confirming(energy, now) \in Nat /\ lastBad <= Confirming(energy, now)
  BY <1>2 DEF Confirming, Energies, Confirmed
<1>4. bad = IF i \in {"OFF", "BLOCKED"} THEN now ELSE lastBad
  OBVIOUS
<1>5. CASE i # "CONFIRMING"
  <2>1. r = [st |-> i, since |-> 0]
    BY <1>5 DEF Evaluated
  <2>2. /\ e.st \in {i, "ACTIVE"} /\ e.since = 0 /\ e.fault \in Int /\ e.grace \in BOOLEAN
        /\ e.st = "ACTIVE" => e.grace /\ i = "FAULT" /\ energy.st = "ACTIVE"
    BY <1>1, <1>2, <1>5, <2>1 DEF Graced, Energies
  <2>3. e \in Energies
    BY <1>1, <1>5, <2>2 DEF Graced, Energies
  <2> HIDE DEF e, i
  <2> QED
    BY <1>1, <1>2, <1>4, <1>5, <2>2, <2>3 DEF Confirmed, e
<1>6. CASE i = "CONFIRMING"
  <2>1. \/ /\ r = [st |-> "ACTIVE", since |-> 0]
           /\ energy.st = "ACTIVE" \/ now - Confirming(energy, now) >= Confirm
        \/ r = [st |-> "CONFIRMING", since |-> Confirming(energy, now)]
    BY <1>6 DEF Evaluated
  <2>2. r.st # "FAULT" /\ r.st \in {"ACTIVE", "CONFIRMING"} /\ r.since \in Nat
    BY <1>3, <2>1
  <2>3. e = [st |-> r.st, since |-> r.since, fault |-> -1, grace |-> FALSE]
    BY <2>2 DEF Graced
  <2> QED
    BY <1>1, <1>2, <1>3, <1>4, <1>6, <2>1, <2>2, <2>3, Bounds DEF Energies, Confirmed
<1> QED
  BY <1>5, <1>6

\* An evaluation starts a load only after its confirmation.
LEMMA EvaluateKeeps ==
  ASSUME IInv, Evaluate
  PROVE  IInv'
<1>1. PICK s, temp : EvaluateAs(s, temp)
  BY DEF Evaluate
<1> DEFINE on == \E t \in Targets : Readable(t, temp) /\ cfg.bind[t] \in relay
           e == Graced(energy, s, now, on)
<1>2. /\ energy' = e
      /\ lastBad' = IF Instant(energy.st, s) \in {"OFF", "BLOCKED"} THEN now ELSE lastBad
      /\ plan' = {} \/ plan' = {Result(t, e, temp, ~Missing(s)) : t \in {u \in Targets : Driven(u, temp)}}
  BY <1>1 DEF EvaluateAs
<1>3. UNCHANGED <<now, cfg, relay, store, spot, pc, w, left>>
  BY DEF Evaluate
<1>4. on \in BOOLEAN
  OBVIOUS
<1> HIDE DEF on
<1>5. /\ e \in Energies
      /\ e.st = "CONFIRMING" => lastBad' <= e.since
      /\ e.st = "ACTIVE" => now - lastBad' >= Confirm
      /\ e.st = "ACTIVE" /\ ~e.grace => ~Missing(s)
  BY <1>2, <1>4, Decision DEF IInv
<1> HIDE DEF e
<1>6. now \in Nat /\ lastBad' \in 0..now
  BY <1>2, Bounds DEF IInv, TypeOK
<1>7. \A t \in Targets : Driven(t, temp) => cfg.bind[t] \in Outputs
  BY Bindings DEF Driven, Readable, IInv, TypeOK
<1>8. \A r \in plan' : r.out \in Outputs /\ (r.on /\ ~r.was => r.known /\ e.st = "ACTIVE")
  <2>1. SUFFICES ASSUME NEW t \in Targets, Driven(t, temp), NEW r, r = Result(t, e, temp, ~Missing(s))
                 PROVE  r.out \in Outputs /\ (r.on /\ ~r.was => r.known /\ e.st = "ACTIVE")
    BY <1>2
  <2>2. r.out = cfg.bind[t] /\ r.on = ShouldRun(e, temp[t], r.was) /\ r.known = ~Missing(s)
    BY <2>1 DEF Result
  <2>3. r.on /\ ~r.was => e.st = "ACTIVE" /\ ~e.grace
    BY <2>2 DEF ShouldRun
  <2>4. r.on /\ ~r.was => r.known
    BY <1>5, <2>2, <2>3
  <2> QED
    BY <1>7, <2>1, <2>2, <2>3, <2>4
<1>9. TypeOK'
  BY <1>2, <1>3, <1>5, <1>6, <1>8 DEF IInv, TypeOK
<1>10. Confirmed' /\ ConfirmedStart'
  BY <1>2, <1>3, <1>5, <1>8 DEF Confirmed, ConfirmedStart
<1>11. OneOwner' /\ Expiring'
  BY <1>3 DEF IInv, OneOwner, Expiring
<1> QED
  BY <1>9, <1>10, <1>11 DEF IInv

-----------------------------------------------------------------------------
(* Telemetry drives what it has decided, and nothing is decided anew.        *)

\* Switching an output changes that output.
LEMMA PutTyped ==
  ASSUME relay \subseteq Outputs, NEW o \in Outputs, NEW on, Put(o, on) \/ UNCHANGED relay
  PROVE  relay' \subseteq Outputs
BY DEF Put

\* Driving a result that was decided takes it off the plan.
LEMMA DriveKeeps ==
  ASSUME IInv, Drive
  PROVE  IInv'
<1>1. PICK r \in plan :
        /\ plan' = plan \ {r}
        /\ Put(r.out, Desired(r)) \/ UNCHANGED relay
        /\ UNCHANGED left \/ Event
  BY DEF Drive, Switched, NotConfirmed
<1>2. UNCHANGED <<now, cfg, store, spot, energy, pc, w, lastBad>>
  BY DEF Drive
<1>3. relay' \subseteq Outputs /\ left' \in 0..MaxEvents
  BY <1>1, PutTyped, EventsLeft DEF IInv, TypeOK
<1>4. TypeOK'
  BY <1>1, <1>2, <1>3 DEF IInv, TypeOK
<1>5. Confirmed' /\ ConfirmedStart' /\ OneOwner' /\ Expiring'
  BY <1>1, <1>2 DEF IInv, Confirmed, ConfirmedStart, OneOwner, Expiring
<1> QED
  BY <1>4, <1>5 DEF IInv

-----------------------------------------------------------------------------
(* The worker.                                                               *)

\* The locals of a worker at rest hold nothing.
LEMMA IdleTyped == Idle \in Locals /\ Idle.todo = {} /\ Idle.at = 0
<1>1. (CHOOSE c \in Configs : TRUE) \in Configs
  BY ConstantsAssumption
<1> QED
  BY <1>1, Bounds DEF Idle, Locals

\* What a reconciliation sets out to expire has expired.
LEMMA ReconcileKeeps ==
  ASSUME IInv, Reconcile
  PROVE  IInv'
<1>1. UNCHANGED <<now, cfg, relay, store, spot, energy, plan, lastBad, left>>
  BY DEF Reconcile
<1> DEFINE expired == {t \in Targets : store[t] # None /\ store[t].until <= now}
<1>2. CASE pc' = "claim" /\ w' = Idle
  BY <1>1, <1>2, IdleTyped DEF IInv, TypeOK, Confirmed, ConfirmedStart, OneOwner, Expiring
<1>3. CASE pc' = "expire" /\ w' = [Idle EXCEPT !.at = now, !.cfg = cfg, !.todo = expired]
  <2>1. w' \in Locals /\ w'.at = now /\ w'.todo = expired
    BY <1>3, IdleTyped DEF IInv, TypeOK, Locals
  <2>2. TypeOK'
    BY <1>1, <1>3, <2>1 DEF IInv, TypeOK
  <2>3. Expiring'
    BY <1>1, <2>1 DEF IInv, TypeOK, Expiring
  <2> QED
    BY <1>1, <2>2, <2>3 DEF IInv, Confirmed, ConfirmedStart, OneOwner
<1> QED
  BY <1>2, <1>3 DEF Reconcile

\* Expiring one intent leaves the others to be expired.
LEMMA ExpireKeeps ==
  ASSUME IInv, NEW t \in Targets, Expire(t)
  PROVE  IInv'
<1>1. UNCHANGED <<now, cfg, store, spot, energy, plan, pc, lastBad>> /\ pc = "expire" /\ t \in w.todo
  BY DEF Expire
<1>2. w \in Locals
  BY DEF IInv, TypeOK
<1>3. w' \in Locals /\ w'.at = w.at /\ w'.todo \subseteq w.todo
  <2>1. w' = [w EXCEPT !.todo = @ \ {t}, !.gone = @ \cup {t}] \/ w' = [w EXCEPT !.todo = @ \ {t}]
    BY DEF Expire, Retire, Keep
  <2> QED
    BY <1>2, <2>1 DEF Locals
<1>4. store[t].out \in Outputs
  BY <1>1, Bounds DEF IInv, TypeOK, Expiring, Intents
<1>5. (Put(store[t].out, FALSE) \/ UNCHANGED relay) /\ (UNCHANGED left \/ Event)
  BY DEF Expire, Switched, NotConfirmed
<1>6. relay' \subseteq Outputs /\ left' \in 0..MaxEvents
  BY <1>4, <1>5, PutTyped, EventsLeft DEF IInv, TypeOK
<1>7. TypeOK'
  BY <1>1, <1>3, <1>6 DEF IInv, TypeOK
<1>8. Expiring'
  BY <1>1, <1>3 DEF IInv, Expiring
<1> QED
  BY <1>1, <1>7, <1>8 DEF IInv, Confirmed, ConfirmedStart, OneOwner

\* The end of a reconciliation drops what it has expired, and creates no owner.
LEMMA ReconciledKeeps ==
  ASSUME IInv, Reconciled
  PROVE  IInv'
<1>1. UNCHANGED <<now, cfg, relay, spot, energy, plan, lastBad>> /\ (UNCHANGED left \/ Event)
  BY DEF Reconciled
<1>2. pc' \in {"claim", "idle"} /\ w' = Idle
  BY DEF Reconciled
<1>3. store' \in [Targets -> Intents \cup {None}] /\ \A t \in Targets : store'[t] \in {store[t], None}
  BY DEF Reconciled, IInv, TypeOK
<1>4. left' \in 0..MaxEvents
  BY <1>1, EventsLeft DEF IInv, TypeOK
<1>5. TypeOK'
  BY <1>1, <1>2, <1>3, <1>4, IdleTyped DEF IInv, TypeOK
<1>6. OneOwner'
  BY <1>3 DEF IInv, OneOwner
<1> QED
  BY <1>1, <1>2, <1>5, <1>6 DEF IInv, Confirmed, ConfirmedStart, Expiring

\* An accepted intent is the only one of its output.
LEMMA AcceptIntentKeeps ==
  ASSUME IInv, AcceptIntent
  PROVE  IInv'
<1>1. PICK t \in Targets, o \in Outputs, on \in BOOLEAN, life \in Lifetimes :
        /\ Accepted(cfg, t, o, on)
        /\ store' = [u \in Targets |-> IF u = t THEN [out |-> o, on |-> on, until |-> now + life]
                                      ELSE IF u \in Active(now) THEN store[u] ELSE None]
        /\ pc' = "switch" /\ w' = [Idle EXCEPT !.cmd = [t |-> t, out |-> o, on |-> on]]
  BY DEF AcceptIntent
<1>2. UNCHANGED <<now, cfg, relay, spot, energy, plan, lastBad>> /\ Event
  BY DEF AcceptIntent
<1> DEFINE intent == [out |-> o, on |-> on, until |-> now + life]
<1>3. intent \in Intents /\ intent.out = o
  BY Bounds DEF IInv, TypeOK, Intents
<1>4. store' \in [Targets -> Intents \cup {None}]
  BY <1>1, <1>3 DEF IInv, TypeOK
<1>5. w' \in Locals /\ w'.cmd \in Ordered
  <2> DEFINE command == [t |-> t, out |-> o, on |-> on]
  <2>1. command \in Ordered
    BY DEF Ordered
  <2> HIDE DEF command
  <2>2. w' = [Idle EXCEPT !.cmd = command]
    BY <1>1 DEF command
  <2> QED
    BY <2>1, <2>2, IdleTyped DEF Locals
<1>6. left' \in 0..MaxEvents
  BY <1>2, EventsLeft DEF IInv, TypeOK
<1>7. TypeOK'
  BY <1>1, <1>2, <1>4, <1>5, <1>6 DEF IInv, TypeOK
<1>8. OneOwner'
  <2>1. \A u \in Active(now) \ {t} : store[u] # None /\ store[u].out # o
    BY <1>1 DEF Accepted, Active, Valid
  <2>2. \A u \in Targets \ {t} : store'[u] # None => store'[u] = store[u] /\ u \in Active(now)
    BY <1>1
  <2>3. store'[t].out = o
    BY <1>1, <1>3
  <2> QED
    BY <2>1, <2>2, <2>3 DEF IInv, OneOwner
<1> QED
  BY <1>1, <1>2, <1>7, <1>8 DEF IInv, Confirmed, ConfirmedStart, Expiring

\* Switching for an intent, and taking it back when it was not confirmed, adds none.
LEMMA SwitchIntentKeeps ==
  ASSUME IInv, SwitchIntent \/ RemoveIntent
  PROVE  IInv'
<1>1. UNCHANGED <<now, cfg, spot, energy, plan, lastBad>> /\ (UNCHANGED left \/ Event)
  BY DEF SwitchIntent, RemoveIntent, Switched, NotConfirmed
<1>2. w.cmd \in Ordered
  BY DEF SwitchIntent, RemoveIntent, IInv, TypeOK
<1>3. Put(w.cmd.out, w.cmd.on) \/ UNCHANGED relay
  BY DEF SwitchIntent, RemoveIntent, Switched, NotConfirmed
<1>4. relay' \subseteq Outputs /\ left' \in 0..MaxEvents
  <2>1. w.cmd.out \in Outputs
    BY <1>2 DEF Ordered
  <2> QED
    BY <1>1, <1>3, <2>1, PutTyped, EventsLeft DEF IInv, TypeOK
<1>5. (pc' = "idle" /\ w' = Idle) \/ (pc' = "remove" /\ UNCHANGED w)
  BY DEF SwitchIntent, RemoveIntent
<1>6. store' \in [Targets -> Intents \cup {None}] /\ \A t \in Targets : store'[t] \in {store[t], None}
  BY DEF SwitchIntent, RemoveIntent, IInv, TypeOK
<1>7. TypeOK'
  BY <1>1, <1>2, <1>4, <1>5, <1>6, IdleTyped DEF IInv, TypeOK
<1>8. OneOwner'
  BY <1>6 DEF IInv, OneOwner
<1> QED
  BY <1>1, <1>5, <1>7, <1>8 DEF IInv, Confirmed, ConfirmedStart, Expiring

\* The other commands, and what claims nothing.
LEMMA PlainKeeps ==
  ASSUME IInv, ClaimNothing \/ StoreBoilerIntent \/ SwitchCommand
  PROVE  IInv'
<1>1. UNCHANGED <<now, cfg, store, energy, plan, lastBad>> /\ (UNCHANGED left \/ Event)
  BY DEF ClaimNothing, StoreBoilerIntent, SwitchCommand
<1>2. pc' = "idle" /\ w' = Idle
  BY DEF ClaimNothing, StoreBoilerIntent, SwitchCommand
<1>3. relay' \subseteq Outputs
  <2>1. CASE SwitchCommand
    <3>1. PICK o \in Outputs, on \in BOOLEAN : Put(o, on) \/ UNCHANGED relay
      BY <2>1 DEF SwitchCommand
    <3> QED
      BY <3>1, PutTyped DEF IInv, TypeOK
  <2>2. CASE ClaimNothing \/ StoreBoilerIntent
    BY <2>2 DEF ClaimNothing, StoreBoilerIntent, IInv, TypeOK
  <2> QED
    BY <2>1, <2>2
<1>4. spot' \in Intents \cup {None}
  <2>1. \A life \in Lifetimes : now + life \in Nat
    BY Bounds DEF IInv, TypeOK
  <2>2. BoilerIntents \subseteq Intents
    BY <2>1 DEF BoilerIntents, Intents
  <2> QED
    BY <2>2 DEF ClaimNothing, StoreBoilerIntent, SwitchCommand, IInv, TypeOK
<1>5. left' \in 0..MaxEvents
  BY <1>1, EventsLeft DEF IInv, TypeOK
<1>6. TypeOK'
  BY <1>1, <1>2, <1>3, <1>4, <1>5, IdleTyped DEF IInv, TypeOK
<1> QED
  BY <1>1, <1>2, <1>6 DEF IInv, Confirmed, ConfirmedStart, OneOwner, Expiring

-----------------------------------------------------------------------------
(* The environment.                                                          *)

\* Time only goes on.
LEMMA TickKeeps ==
  ASSUME IInv, Tick
  PROVE  IInv'
<1>1. now' = now + 1 /\ now' \in 0..MaxTime /\ now \in Nat /\ lastBad \in 0..now
  BY Bounds DEF Tick, IInv, TypeOK
<1>2. UNCHANGED <<cfg, relay, store, spot, energy, plan, pc, w, lastBad, left>>
  BY DEF Tick
<1>3. TypeOK'
  BY <1>1, <1>2 DEF IInv, TypeOK
<1>4. Confirmed' /\ ConfirmedStart'
  BY <1>1, <1>2, Bounds DEF IInv, Confirmed, ConfirmedStart
<1>5. OneOwner' /\ Expiring'
  <2>1. w.at \in Nat
    BY Bounds DEF IInv, TypeOK, Locals
  <2> QED
    BY <1>1, <1>2, <2>1 DEF IInv, OneOwner, Expiring
<1> QED
  BY <1>3, <1>4, <1>5 DEF IInv

\* A new configuration or a switching user touches neither store nor decisions.
LEMMA OutsideKeeps ==
  ASSUME IInv, Sync \/ UserSwitches
  PROVE  IInv'
<1>1. UNCHANGED <<now, store, spot, energy, plan, pc, w, lastBad>> /\ Event
  BY DEF Sync, UserSwitches
<1>2. cfg' \in Configs
  BY DEF Sync, UserSwitches, IInv, TypeOK
<1>3. relay' \subseteq Outputs
  <2>1. UNCHANGED relay \/ \E o \in Outputs, on \in BOOLEAN : Put(o, on)
    BY DEF Sync, UserSwitches
  <2> QED
    BY <2>1, PutTyped DEF IInv, TypeOK
<1>4. left' \in 0..MaxEvents
  BY <1>1, EventsLeft DEF IInv, TypeOK
<1>5. TypeOK'
  BY <1>1, <1>2, <1>3, <1>4 DEF IInv, TypeOK
<1> QED
  BY <1>1, <1>5 DEF IInv, Confirmed, ConfirmedStart, OneOwner, Expiring

\* A restart forgets what was to be driven, and begins every confirmation anew.
LEMMA RestartKeeps ==
  ASSUME IInv, Restart
  PROVE  IInv'
<1>1. /\ UNCHANGED <<now, cfg, relay, store, spot>> /\ Event
      /\ energy' = Asleep /\ plan' = {} /\ pc' = "idle" /\ w' = Idle /\ lastBad' = now
  BY DEF Restart
<1>2. Asleep \in Energies /\ Asleep.st = "OFF"
  BY DEF Asleep, Energies
<1>3. left' \in 0..MaxEvents /\ now \in Nat
  BY <1>1, EventsLeft, Bounds DEF IInv, TypeOK
<1>4. TypeOK'
  BY <1>1, <1>2, <1>3, IdleTyped DEF IInv, TypeOK
<1> QED
  BY <1>1, <1>2, <1>4 DEF IInv, Confirmed, ConfirmedStart, OneOwner, Expiring

\* Every step keeps the invariant.
LEMMA NextKeeps ==
  ASSUME IInv, [Next]_vars
  PROVE  IInv'
<1>1. CASE Worker \/ Commands
  BY <1>1, ReconcileKeeps, ExpireKeeps, ReconciledKeeps, AcceptIntentKeeps, SwitchIntentKeeps, PlainKeeps
  DEF Worker, Commands
<1>2. CASE UNCHANGED vars
  <2>1. TypeOK'
    BY <1>2 DEF vars, IInv, TypeOK
  <2> QED
    BY <1>2, <2>1 DEF vars, IInv, Confirmed, ConfirmedStart, OneOwner, Expiring
<1> QED
  BY <1>1, <1>2, EvaluateKeeps, DriveKeeps, TickKeeps, OutsideKeeps, RestartKeeps DEF Next

\* The invariant holds in every reachable state.
LEMMA Invariance == Spec => []IInv
<1>1. ASSUME Init PROVE IInv
  <2>1. Asleep \in Energies /\ Asleep.st = "OFF"
    BY DEF Asleep, Energies
  <2>2. TypeOK
    BY <1>1, <2>1, IdleTyped, Bounds DEF Init, TypeOK
  <2> QED
    BY <1>1, <2>1, <2>2 DEF Init, IInv, Confirmed, ConfirmedStart, OneOwner, Expiring
<1> QED
  BY <1>1, NextKeeps, PTL DEF Spec

-----------------------------------------------------------------------------
\* Every state is of its type: intents, the state of the surplus and the locals of
\* the worker.
THEOREM TypeCorrect == Spec => []TypeOK
BY Invariance, PTL DEF IInv

\* No load starts on surplus that has not been confirmed, or on missing data, for any
\* confirmation time, thresholds and sensors.
THEOREM StartsAreConfirmed == Spec => []ConfirmedStart
BY Invariance, PTL DEF IInv

\* The fail-safe OFF of an expired intent spares what a valid one holds on.
THEOREM HeldOutputsStay == Spec => HeldOutput
<1> DEFINE Held == \A o \in relay \ relay' :
                     pc = "expire" /\ w' # w =>
                       \A t \in Targets : Valid(store[t], now) /\ store[t].out = o => ~store[t].on
<1>1. ASSUME IInv, [Next]_vars PROVE [Held]_vars
  <2>1. SUFFICES ASSUME NEW o \in relay \ relay', pc = "expire", w' # w, Next
                 PROVE  \A t \in Targets : Valid(store[t], now) => store[t].out # o
    BY <1>1 DEF Valid
  <2>2. PICK t \in Targets : Expire(t)
    BY <2>1
    DEF Next, Evaluate, Drive, Worker, Reconcile, Reconciled, ClaimNothing, SwitchIntent, RemoveIntent,
        Commands, AcceptIntent, StoreBoilerIntent, SwitchCommand, Tick, Sync, UserSwitches, Restart
  <2>3. store[t].out = o /\ t \in w.todo
    BY <2>1, <2>2 DEF Expire, Switched, NotConfirmed, Put
  <2>4. store[t] # None /\ ~Valid(store[t], now)
    <3>1. store[t] # None /\ store[t] \in Intents /\ store[t].until <= w.at /\ w.at <= now
      BY <1>1, <2>1, <2>3 DEF IInv, TypeOK, Expiring
    <3>2. w.at \in Nat /\ now \in Nat
      BY <1>1, Bounds DEF IInv, TypeOK, Locals
    <3> QED
      BY <3>1, <3>2 DEF Valid, Intents
  <2> QED
    BY <1>1, <2>3, <2>4 DEF IInv, OneOwner, Valid
<1> QED
  BY <1>1, Invariance, PTL DEF Spec, HeldOutput
=============================================================================
