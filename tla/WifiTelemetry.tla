---------------------------- MODULE WifiTelemetry ----------------------------
(***************************************************************************)
(* Telemetry of the registered Wi-Fi devices (wifi_runtime_telemetry.py).  *)
(* In every cycle of the heartbeat thread the registered devices are       *)
(* polled by few workers until a deadline, in an order that rotates from   *)
(* cycle to cycle.  A poll first asks the stored address for the hardware  *)
(* that answers there, then for its values; what was not read before the   *)
(* deadline is reported as unavailable, and a read that ends later is      *)
(* dropped.  Meanwhile devices change, DHCP moves them, and discovery      *)
(* brings the stored addresses up to date.                                 *)
(***************************************************************************)
EXTENDS Naturals, Sequences, FiniteSets, SequencesExt

CONSTANTS DeviceCount,  \* devices 1 .. DeviceCount, in the order of their registry keys
          Workers,      \* MAX_WORKERS
          Silent,       \* devices that may answer nothing until the deadline
          MaxMoves,     \* addresses that DHCP gives anew
          MaxChanges,   \* changes of a value
          MaxLate       \* polls that outlive their cycle

Polled == 1..DeviceCount

VARIABLES address,      \* where each device is now
          value,        \* what each device would answer now
          stored,       \* registered device -> address in the registry
          cycle,        \* "rest" or "poll"
          rotation,     \* _rotation
          queue,        \* polls submitted and not begun, in order
          asked,        \* devices whose worker waits for the hardware's answer
          known,        \* devices whose hardware was identified in this poll
          late,         \* devices whose poll has outlived its cycle
          report,       \* device -> value of the cycle, or "none"
          there,        \* history: devices that were at their stored address in this cycle
          heard,        \* history: values to be read there in this cycle
          moves, changes, lates

world == <<address, value, stored, moves, changes>>
vars == <<world, cycle, rotation, queue, asked, known, late, report, there, heard, lates>>

Values == {"old", "new"}
Leases == 1..DeviceCount + 1

TypeOK ==
    /\ address \in [Polled -> Leases] /\ value \in [Polled -> Values]
    /\ DOMAIN stored \subseteq Polled /\ \A d \in DOMAIN stored : stored[d] \in Leases
    /\ cycle \in {"rest", "poll"} /\ rotation \in Nat /\ queue \in Seq(Polled)
    /\ asked \subseteq Polled /\ known \subseteq Polled /\ late \subseteq Polled
    /\ report \in [Polled -> Values \cup {"none"}]
    /\ there \subseteq Polled /\ heard \in [Polled -> SUBSET Values]

Unread == [d \in Polled |-> "none"]

Init ==
    /\ address = [d \in Polled |-> d] /\ value = [d \in Polled |-> "old"]
    /\ stored = [d \in {} |-> 1] /\ moves = 0 /\ changes = 0 /\ lates = 0
    /\ cycle = "rest" /\ rotation = 0 /\ queue = <<>> /\ asked = {} /\ known = {} /\ late = {}
    /\ report = Unread /\ there = {} /\ heard = [d \in Polled |-> {}]

\* what can be read at the stored address of d
Answering(d, at, val) == {val[e] : e \in {f \in Polled : at[f] = stored[d]}}

\* d is registered, and at its stored address
AtStored(d, at) == d \in DOMAIN stored /\ at[d] = stored[d]

Observe(at, val) ==
    /\ there' = there \cup {d \in Polled : AtStored(d, at)}
    /\ heard' = [d \in Polled |-> IF d \in DOMAIN stored THEN heard[d] \cup Answering(d, at, val) ELSE {}]

\* _rotation, modulo a multiple of every number of devices
Period == 6

\* Mutant: every cycle begins with the same device.
Advance_Never == UNCHANGED rotation
Advance == rotation' = (rotation + Workers) % Period

\* the registered devices, those of this cycle's turn first
Rotated ==
    LET entries == SetToSortSeq(DOMAIN stored, <)
        shift == rotation % Len(entries)
    IN  SubSeq(entries, shift + 1, Len(entries)) \o SubSeq(entries, 1, shift)

Blank == report' = Unread

\* The registry is read once; a poll of an earlier cycle is not joined by another.
Begin ==
    /\ cycle = "rest" /\ cycle' = "poll" /\ DOMAIN stored # {}
    /\ queue' = SelectSeq(Rotated, LAMBDA d : d \notin late)
    /\ Advance /\ Blank
    /\ there' = {d \in Polled : AtStored(d, address)}
    /\ heard' = [d \in Polled |-> IF d \in DOMAIN stored THEN Answering(d, address, value) ELSE {}]
    /\ UNCHANGED <<world, asked, known, late, lates>>

Busy == asked \cup known \cup late

\* a free worker takes the next poll
Take ==
    /\ queue # <<>> /\ Cardinality(Busy) < Workers
    /\ asked' = asked \cup {Head(queue)} /\ queue' = Tail(queue)
    /\ UNCHANGED <<world, cycle, rotation, known, late, report, there, heard, lates>>

\* Mutant: whoever answers is taken for the device.
Identify_Any(d) ==
    /\ d \in asked /\ \E e \in Polled : address[e] = stored[d]
    /\ asked' = asked \ {d} /\ known' = known \cup {d}
    /\ UNCHANGED <<world, cycle, rotation, queue, late, report, there, heard, lates>>

Identify(d) ==
    /\ d \in asked /\ AtStored(d, address)
    /\ asked' = asked \ {d} /\ known' = known \cup {d}
    /\ UNCHANGED <<world, cycle, rotation, queue, late, report, there, heard, lates>>

Read(d) ==
    /\ d \in known /\ known' = known \ {d}
    /\ \E v \in Answering(d, address, value) : report' = [report EXCEPT ![d] = v]
    /\ UNCHANGED <<world, cycle, rotation, queue, asked, late, there, heard, lates>>

\* Nobody or another device answers, or the answer is an error.
Fail(d) ==
    /\ d \in asked \cup known /\ (d \in Silent \/ ~AtStored(d, address))
    /\ asked' = asked \ {d} /\ known' = known \ {d}
    /\ UNCHANGED <<world, cycle, rotation, queue, late, report, there, heard, lates>>

(* All polls are done, or the deadline has come: then polls not begun are  *)
(* cancelled, and those that run end soon, some of them after the next     *)
(* cycle has begun.                                                        *)
Deadline ==
    /\ cycle = "poll" /\ cycle' = "rest"
    /\ asked \cup known \subseteq Silent /\ (queue = <<>> \/ Cardinality(Busy) = Workers)
    /\ \E some \in SUBSET (asked \cup known) :
          /\ lates + Cardinality(some) <= MaxLate
          /\ late' = late \cup some /\ lates' = lates + Cardinality(some)
    /\ queue' = <<>> /\ asked' = {} /\ known' = {}
    /\ UNCHANGED <<world, rotation, report, there, heard>>

LateEnd(d) ==
    /\ d \in late /\ late' = late \ {d}
    /\ UNCHANGED <<world, cycle, rotation, queue, asked, known, report, there, heard, lates>>

\* The worker thread registers a device or finds it anew: seen by the next cycle.
Rewrite(d) ==
    /\ cycle = "rest"
    /\ stored' = [e \in DOMAIN stored \cup {d} |-> IF e = d THEN address[d] ELSE stored[e]]
    /\ UNCHANGED <<address, value, moves, changes, cycle, rotation, queue, asked, known, late, report, there, heard, lates>>

Move(d) ==
    /\ moves < MaxMoves /\ moves' = moves + 1
    /\ \E a \in Leases :
          (\A e \in Polled : address[e] # a) /\ address' = [address EXCEPT ![d] = a]
    /\ Observe(address', value)
    /\ UNCHANGED <<value, stored, changes, cycle, rotation, queue, asked, known, late, report, lates>>

Change(d) ==
    /\ changes < MaxChanges /\ changes' = changes + 1
    /\ value' = [value EXCEPT ![d] = IF @ = "old" THEN "new" ELSE "old"]
    /\ Observe(address, value')
    /\ UNCHANGED <<address, stored, moves, cycle, rotation, queue, asked, known, late, report, lates>>

Poll(d) == Identify(d) \/ Read(d) \/ Fail(d)

Next ==
    \/ Begin \/ Take \/ Deadline
    \/ \E d \in Polled : Identify(d) \/ Read(d) \/ Fail(d) \/ LateEnd(d) \/ Rewrite(d) \/ Move(d) \/ Change(d)

\* The heartbeat goes on; a device that is not silent is answered by in time.
Fairness ==
    /\ WF_vars(Begin) /\ WF_vars(Take) /\ WF_vars(Deadline)
    /\ \A d \in Polled : WF_vars(LateEnd(d))
    /\ \A d \in Polled \ Silent : WF_vars(Poll(d))

Spec == Init /\ [][Next]_vars /\ Fairness

(* A reported value was to be read at the stored address in this cycle,    *)
(* and the registered hardware was there in this cycle: no value outlives  *)
(* its cycle, none comes from a poll that was late, and none is read from  *)
(* an address that DHCP had given to another device before.                *)
TrueReport ==
    \A d \in Polled : report[d] # "none" => d \in there /\ report[d] \in heard[d]

(* A registered device that stays at its stored address and answers is     *)
(* read again and again, although as many silent devices as there are      *)
(* workers hold a worker each until every deadline.                        *)
Served ==
    \A d \in Polled \ Silent :
        <>[]AtStored(d, address) => []<>(report[d] # "none")

=============================================================================
