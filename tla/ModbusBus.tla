------------------------------ MODULE ModbusBus ------------------------------
(***************************************************************************)
(* The threads of the agent that talk to the inverter and the battery.     *)
(* Each serial port is used by one thread at a time, under a lock of its   *)
(* path that may not be taken twice (modbus_bus_lock.py; a file lock for   *)
(* the console of a Pylontech battery); the local battery runtime keeps a  *)
(* lock of its own, which its thread may take again, around whole          *)
(* operations, and reaches for the bus inside it.  Locks are given back on *)
(* every way out, also when the port cannot be opened, an answer is        *)
(* missing or a write fails.                                               *)
(***************************************************************************)
EXTENDS Naturals, Sequences

CONSTANTS Blocks,     \* transfers of one use of a port
          MaxWrites   \* bound: register writes in a behaviour

VARIABLES job,        \* thread -> what it is doing, or "rest"
          at,         \* thread -> step of its program
          done,       \* thread -> transfers of the current use of a port
          failed,     \* thread -> has the current use of a port raised
          runtime,    \* who holds the lock of the battery runtime
          port,       \* port -> who holds its lock
          open,       \* port -> threads with an open client
          writes,     \* history: register writes made so far
          seen        \* thread -> history: states of the registers it has read

vars == <<job, at, done, failed, runtime, port, open, writes, seen>>

Threads == {"telemetry", "worker", "supervisor"}
Ports == {"rtu", "console"}
Nobody == "nobody"

\* What each thread may be asked to do.  The heartbeat thread, too, takes the lock of
\* the runtime, to read its status, but never a port with it.
Jobs(t) ==
  CASE t = "telemetry"  -> {"snapshot"}
    [] t = "worker"     -> {"probe", "console", "intent", "canary", "release"}
    [] t = "supervisor" -> {"tick"}

Op(what, on) == [what |-> what, on |-> on]

\* One use of a port: readers only read, a driver reads, writes and reads back.
Read(p) == <<Op("acquire", p), Op("read", p), Op("release", p)>>
Drive == <<Op("acquire", "rtu"), Op("drive", "rtu"), Op("release", "rtu")>>
Owned(body) == <<Op("lock", "runtime")>> \o body \o <<Op("unlock", "runtime")>>

\* Telemetry reads the inverter and then the battery.
ReadInverter == Read("rtu")
ReadBattery == Read("console")

\* Mutant: the probe does not take the lock of the port.
Probe_Unlocked == <<Op("read", "rtu")>>

\* probe_inverter_modbus and the surveys read identity and registers.
Probe == Read("rtu")

\* An intent stops one session and starts the next; a canary is followed by STOP.
DriveTwice == Owned(Drive \o Drive)

\* Mutant: the release of a remote control commands AUTO while it has the bus.
ReleaseRemote_Nested ==
  Owned(<<Op("acquire", "rtu"), Op("drive", "rtu")>> \o Drive \o <<Op("release", "rtu")>> \o Probe)

\* The release is followed by a normal AUTO and a probe.
ReleaseRemote == Owned(Drive \o Drive \o Probe)

Program(what) ==
  CASE what = "snapshot" -> ReadInverter \o ReadBattery
    [] what = "probe"    -> Probe
    [] what = "console"  -> ReadBattery
    [] what = "tick"     -> Owned(Drive)
    [] what = "release"  -> ReleaseRemote
    [] OTHER             -> DriveTwice

TypeOK ==
  /\ \A t \in Threads : job[t] \in Jobs(t) \cup {"rest"}
  /\ at \in [Threads -> Nat] /\ done \in [Threads -> 0..Blocks] /\ failed \in [Threads -> BOOLEAN]
  /\ runtime \in Threads \cup {Nobody} /\ port \in [Ports -> Threads \cup {Nobody}]
  /\ open \in [Ports -> SUBSET Threads]
  /\ writes \in 0..MaxWrites /\ seen \in [Threads -> SUBSET (0..MaxWrites)]

Init ==
  /\ job = [t \in Threads |-> "rest"] /\ at = [t \in Threads |-> 1]
  /\ done = [t \in Threads |-> 0] /\ failed = [t \in Threads |-> FALSE]
  /\ runtime = Nobody /\ port = [p \in Ports |-> Nobody] /\ open = [p \in Ports |-> {}]
  /\ writes = 0 /\ seen = [t \in Threads |-> {}]

Begin(t, what) ==
  /\ job[t] = "rest" /\ what \in Jobs(t)
  /\ job' = [job EXCEPT ![t] = what] /\ at' = [at EXCEPT ![t] = 1]
  /\ UNCHANGED <<done, failed, runtime, port, open, writes, seen>>

-----------------------------------------------------------------------------
Now(t) == IF job[t] = "rest" THEN Op("rest", "") ELSE Program(job[t])[at[t]]

\* The next step of the program, or its end.
GoOn(t, n) ==
  IF n <= Len(Program(job[t]))
    THEN at' = [at EXCEPT ![t] = n] /\ UNCHANGED job
    ELSE at' = [at EXCEPT ![t] = 1] /\ job' = [job EXCEPT ![t] = "rest"]

\* Where a caller goes on when a use of a port has raised: with what follows (STOP
\* after a failed canary, the battery after the inverter), or out of the operation.
WayOut(t) == {at[t] + 1, IF job[t] \in {"tick", "intent", "canary", "release"}
                           THEN Len(Program(job[t])) ELSE Len(Program(job[t])) + 1}

Lock(t) ==
  /\ Now(t).what = "lock" /\ runtime \in {Nobody, t} /\ runtime' = t
  /\ GoOn(t, at[t] + 1)
  /\ UNCHANGED <<done, failed, port, open, writes, seen>>

Unlock(t) ==
  /\ Now(t).what = "unlock" /\ runtime' = Nobody
  /\ GoOn(t, at[t] + 1)
  /\ UNCHANGED <<done, failed, port, open, writes, seen>>

Acquire(t) ==
  /\ Now(t).what = "acquire" /\ port[Now(t).on] = Nobody
  /\ port' = [port EXCEPT ![Now(t).on] = t]
  /\ GoOn(t, at[t] + 1)
  /\ UNCHANGED <<done, failed, runtime, open, writes, seen>>

\* The client is opened ...
Connect(t) ==
  /\ Now(t).what \in {"read", "drive"} /\ t \notin open[Now(t).on] /\ done[t] = 0 /\ ~failed[t]
  /\ open' = [open EXCEPT ![Now(t).on] = @ \cup {t}] /\ seen' = [seen EXCEPT ![t] = {}]
  /\ UNCHANGED <<job, at, done, failed, runtime, port, writes>>

\* ... or cannot be; later an answer may be missing, wrong, or an error.
Fails(t) ==
  /\ Now(t).what \in {"read", "drive"} /\ done[t] < Blocks /\ ~failed[t]
  /\ failed' = [failed EXCEPT ![t] = TRUE]
  /\ UNCHANGED <<job, at, done, runtime, port, open, writes, seen>>

Transfer(t) ==
  /\ Now(t).what \in {"read", "drive"} /\ t \in open[Now(t).on] /\ done[t] < Blocks /\ ~failed[t]
  /\ done' = [done EXCEPT ![t] = @ + 1]
  /\ seen' = [seen EXCEPT ![t] = @ \cup {writes}]
  /\ IF Now(t).what = "drive" /\ writes < MaxWrites
       THEN writes' = writes + 1
       ELSE UNCHANGED writes
  /\ UNCHANGED <<job, at, failed, runtime, port, open>>

\* The client is closed on every way out.
Close(t) ==
  /\ Now(t).what \in {"read", "drive"} /\ (done[t] = Blocks \/ failed[t])
  /\ open' = [open EXCEPT ![Now(t).on] = @ \ {t}]
  /\ GoOn(t, at[t] + 1)
  /\ done' = [done EXCEPT ![t] = 0]
  /\ UNCHANGED <<failed, runtime, port, writes, seen>>

Release(t) ==
  /\ Now(t).what = "release"
  /\ port' = [port EXCEPT ![Now(t).on] = Nobody]
  /\ \E n \in IF failed[t] THEN WayOut(t) ELSE {at[t] + 1} : GoOn(t, n)
  /\ failed' = [failed EXCEPT ![t] = FALSE]
  /\ UNCHANGED <<done, runtime, open, writes, seen>>

Next ==
  \E t \in Threads :
    \/ \E what \in Jobs(t) : Begin(t, what)
    \/ Lock(t) \/ Acquire(t) \/ Connect(t) \/ Fails(t) \/ Transfer(t) \/ Close(t) \/ Release(t) \/ Unlock(t)

Spec == Init /\ [][Next]_vars

-----------------------------------------------------------------------------
(* While a thread reads, no other writes registers or opens the port: a    *)
(* snapshot is of one state of the inverter, and what a driver checks      *)
(* before it writes still holds when it does.                              *)
OneMoment ==
  /\ \A p \in Ports : \A t, u \in open[p] : t = u
  /\ \A t \in Threads : Now(t) = Op("read", "rtu") /\ done[t] > 0 => seen[t] \subseteq {writes}

(* Nobody waits in a circle, and nobody for himself: the locks are taken   *)
(* in one order, the bus is given back before an operation that takes it   *)
(* again, and what has failed keeps none of them.                          *)
WaitsFor(t) ==
  CASE Now(t).what = "lock" /\ runtime # t -> runtime
    [] Now(t).what = "acquire" -> port[Now(t).on]
    [] OTHER -> Nobody

NoCircularWait ==
  /\ \A S \in (SUBSET Threads) \ {{}} : \E t \in S : WaitsFor(t) \notin S
  /\ \A t \in Threads : job[t] = "rest" => runtime # t /\ \A p \in Ports : port[p] # t
=============================================================================
