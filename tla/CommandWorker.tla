---------------------------- MODULE CommandWorker ----------------------------
(***************************************************************************)
(* command_worker.process_once: one thread that takes commands of the cloud *)
(* one by one.  Two kinds outlive their execution and are finished by later *)
(* rounds, even of another process: an update of this very add-on, which    *)
(* ends the process, and the reconfiguration of a Zigbee device that has to *)
(* wake up first.  Each has one marker file, which a round looks at before  *)
(* it claims the next command.                                              *)
(*                                                                           *)
(* agent_updater is part of the model; Home Assistant, its update entity,    *)
(* the Zigbee network and the cloud are the environment.  The first call of  *)
(* a round, to the PV surplus targets, touches none of this state.           *)
(***************************************************************************)
EXTENDS Integers, FiniteSets

CONSTANTS
  Updates, Reconfs, Plain,  \* commands: agent_update, device_reconfigure, all others
  NoCmd,                    \* no command
  Target,                   \* target_version of each update
  MaxVersion,               \* bound: versions that get published
  UpdateTimeout,            \* AGENT_UPDATE_TIMEOUT_SECONDS, in steps of ageing
  WakeTimeout,              \* ZIGBEE_RECONFIGURE_WAIT_SECONDS, likewise
  Faults                    \* "crash", "network", "disk", "ha", "zigbee", "user"

Commands == Updates \cup Reconfs \cup Plain
Versions == 1..MaxVersion

ASSUME ConstantsAssumption ==
  /\ NoCmd \notin Commands
  /\ Updates \cap Reconfs = {} /\ Updates \cap Plain = {} /\ Reconfs \cap Plain = {}
  /\ MaxVersion \in Nat \ {0} /\ Target \in [Updates -> Versions]
  /\ UpdateTimeout \in Nat \ {0} /\ WakeTimeout \in Nat \ {0}
  /\ Faults \subseteq {"crash", "network", "disk", "ha", "zigbee", "user"}

VARIABLES
  queue,      \* commands the cloud has not handed out
  told,       \* results the cloud has recorded of updates and reconfigurations
  version,    \* installed version of the add-on
  latest,     \* newest version Home Assistant knows
  installing, \* version being installed, or 0
  by,         \* the command that asked for it, NoCmd for the user
  marker,     \* pending update and its age
  zmarker,    \* pending reconfiguration and its age
  awake,      \* the Zigbee device answers
  due,        \* the next check of a pending reconfiguration is due
  pc,         \* place in process_once
  hand        \* command being executed or resumed

files == <<marker, zmarker>>
addon == <<version, latest, installing, by>>
vars == <<queue, told, version, latest, installing, by, marker, zmarker, awake, due, pc, hand>>

Fault(f) == f \in Faults
None == [cmd |-> NoCmd, age |-> 0]
Final == {"succeeded", "failed"}

Init ==
  /\ queue = Commands /\ told = [c \in Updates \cup Reconfs |-> {}]
  /\ version = 1 /\ latest = 1 /\ installing = 0 /\ by = NoCmd
  /\ marker = None /\ zmarker = None
  /\ awake = FALSE /\ due = TRUE /\ pc = "idle" /\ hand = NoCmd

\* process_once returns, or main logs its exception: the next round begins.
Leave == pc' = "idle" /\ hand' = NoCmd

Go(place) == pc' = place /\ UNCHANGED hand

\* submit_command_result returns.
Recorded(c, result) == told' = [told EXCEPT ![c] = @ \cup {result}]

\* It raises, whether or not the cloud has recorded the result.
Lost(c, result) ==
  /\ Fault("network")
  /\ told' \in {told, [told EXCEPT ![c] = @ \cup {result}]}

-----------------------------------------------------------------------------
(* reconcile_pending_agent_update: a round begins.                           *)

AtHome == pc = "idle"

NoUpdatePending ==
  /\ AtHome /\ marker = None /\ Go("zigbee")
  /\ UNCHANGED <<queue, told, addon, files, awake, due>>

\* Mutant: an update counts as done as soon as Home Assistant is no longer busy.
Confirmed_Idle == installing = 0

\* The process that runs has the version the marker names.
Confirmed == version = Target[marker.cmd]

UpdateConfirmed ==
  /\ AtHome /\ marker # None /\ Confirmed
  /\ \/ Recorded(marker.cmd, "succeeded") /\ Go("clear")
     \/ Lost(marker.cmd, "succeeded") /\ Leave
  /\ UNCHANGED <<queue, addon, files, awake, due>>

\* Mutant: without an answer the update is waited for without end.
UpdateTimesOut_Never == FALSE

\* Anything else but these ends the round without claiming a command.
UpdateTimesOut ==
  /\ AtHome /\ marker # None /\ ~Confirmed /\ marker.age = UpdateTimeout
  /\ \/ Recorded(marker.cmd, "failed") /\ Go("clear")
     \/ Lost(marker.cmd, "failed") /\ Leave
  /\ UNCHANGED <<queue, addon, files, awake, due>>

ClearUpdate ==
  /\ pc = "clear" /\ marker' = None /\ Leave
  /\ UNCHANGED <<queue, told, addon, zmarker, awake, due>>

-----------------------------------------------------------------------------
(* reconcile_pending_zigbee_reconfigure.                                     *)

\* Nothing pending, not due, or the device still sleeps: a command is claimed.
NothingToResume ==
  /\ pc = "zigbee"
  /\ \/ zmarker = None \/ ~due
     \/ zmarker.age < WakeTimeout /\ ~awake
  /\ due' = (due /\ zmarker = None)
  /\ Go("claim")
  /\ UNCHANGED <<queue, told, addon, files, awake>>

ZhaUnreachable ==
  /\ Fault("zigbee") /\ pc = "zigbee" /\ zmarker # None /\ due
  /\ zmarker.age < WakeTimeout
  /\ due' = FALSE /\ Leave
  /\ UNCHANGED <<queue, told, addon, files, awake>>

WakeTimesOut ==
  /\ pc = "zigbee" /\ zmarker # None /\ due /\ zmarker.age = WakeTimeout
  /\ due' = FALSE
  /\ \/ Recorded(zmarker.cmd, "failed") /\ Go("zclear")
     \/ Lost(zmarker.cmd, "failed") /\ Leave
  /\ UNCHANGED <<queue, addon, files, awake>>

Resume ==
  /\ pc = "zigbee" /\ zmarker # None /\ due /\ zmarker.age < WakeTimeout /\ awake
  /\ due' = FALSE
  /\ pc' = "resume" /\ hand' = zmarker.cmd
  /\ UNCHANGED <<queue, told, addon, files, awake>>

-----------------------------------------------------------------------------
\* claim_command: the cloud hands out each command once; its answer may get lost.
Claim ==
  /\ pc = "claim"
  /\ \/ queue = {} /\ Leave /\ UNCHANGED queue
     \/ \E c \in queue :
          /\ queue' = queue \ {c}
          /\ \/ pc' = "execute" /\ hand' = c
             \/ Fault("network") /\ Leave
     \/ Fault("network") /\ Leave /\ UNCHANGED queue
  /\ UNCHANGED <<told, addon, files, awake, due>>

Executing(kind) == pc = "execute" /\ hand \in kind

\* A command that is over when its executor returns or raises; its result, recorded or
\* lost, is not followed.
ExecutePlain ==
  /\ Executing(Plain) /\ Leave
  /\ UNCHANGED <<queue, told, addon, files, awake, due>>

-----------------------------------------------------------------------------
(* execute_agent_update. *)

\* The newest version is the target or a stage on the way to it, and nothing is
\* being installed.
Installable == version < latest /\ latest <= Target[hand] /\ installing = 0

AlreadyCurrent ==
  /\ Executing(Updates) /\ version = Target[hand]
  /\ Recorded(hand, "succeeded") \/ Lost(hand, "succeeded")
  /\ Leave /\ UNCHANGED <<queue, addon, files, awake, due>>

RefuseUpdate ==
  /\ Executing(Updates) /\ version # Target[hand]
  /\ ~Installable \/ Fault("ha")
  /\ Recorded(hand, "failed") \/ Lost(hand, "failed")
  /\ Leave /\ UNCHANGED <<queue, addon, files, awake, due>>

\* Mutant: the update is asked for before its marker is written.
AcceptUpdate_Unmarked ==
  /\ Executing(Updates) /\ Installable /\ Go("trigger")
  /\ UNCHANGED <<queue, told, addon, files, awake, due>>

\* Validated; "running" is reported, and without an answer the command is dropped.
AcceptUpdate ==
  /\ Executing(Updates) /\ Installable
  /\ Go("save") \/ (Fault("network") /\ Leave)
  /\ UNCHANGED <<queue, told, addon, files, awake, due>>

\* "The marker MUST exist before update.install is called."
SaveUpdate ==
  /\ pc = "save"
  /\ \/ marker' = [cmd |-> hand, age |-> 0] /\ Go("trigger")
     \/ Fault("disk") /\ Leave /\ UNCHANGED marker
  /\ UNCHANGED <<queue, told, addon, zmarker, awake, due>>

\* update.install; whatever it answers, the marker stays and "running" is reported.
TriggerUpdate ==
  /\ pc = "trigger"
  /\ \/ /\ installing = 0 /\ version < latest
        /\ installing' = latest /\ by' = hand
     \/ /\ installing # 0 \/ version = latest \/ Fault("ha")
        /\ UNCHANGED <<installing, by>>
  /\ Leave
  /\ UNCHANGED <<queue, told, version, latest, files, awake, due>>

-----------------------------------------------------------------------------
(* execute_zigbee_device_reconfigure and _run_zigbee_device_reconfigure.     *)

\* The device is not found, or not the one expected: the except clause.
RefuseReconf ==
  /\ Executing(Reconfs) /\ Fault("zigbee") /\ Go("refuse")
  /\ UNCHANGED <<queue, told, addon, files, awake, due>>

\* The marker of this command, in place of whatever was pending.
SaveReconf ==
  /\ Executing(Reconfs)
  /\ \/ zmarker' = [cmd |-> hand, age |-> 0] /\ Go(IF awake THEN "reconf" ELSE "announce")
     \/ Fault("disk") /\ UNCHANGED zmarker /\ Go("refuse")
  /\ UNCHANGED <<queue, told, addon, marker, awake, due>>

\* "waiting_for_wake"
Announce ==
  /\ pc = "announce"
  /\ \/ Recorded(hand, "waiting") /\ Leave
     \/ Lost(hand, "waiting") /\ Go("refuse")
  /\ UNCHANGED <<queue, addon, files, awake, due>>

Reconfigured ==
  /\ pc \in {"reconf", "resume"}
  /\ Recorded(hand, "succeeded") /\ Go("zclear")
  /\ UNCHANGED <<queue, addon, files, awake, due>>

\* The device fails, or the report that it did not: both count as a failure.
ReconfFails ==
  /\ pc \in {"reconf", "resume"}
  /\ \/ Fault("zigbee") /\ UNCHANGED told
     \/ Lost(hand, "succeeded")
  /\ Go(IF pc = "reconf" THEN "reconf_failed" ELSE "resume_failed")
  /\ UNCHANGED <<queue, addon, files, awake, due>>

ReportReconfFailed ==
  /\ pc \in {"reconf_failed", "resume_failed"}
  /\ \/ Recorded(hand, "failed") /\ Go("zclear")
     \/ Lost(hand, "failed") /\ pc = "reconf_failed" /\ Go("refuse")
     \/ Lost(hand, "failed") /\ pc = "resume_failed" /\ Leave
  /\ UNCHANGED <<queue, addon, files, awake, due>>

ClearReconf ==
  /\ pc = "zclear" /\ zmarker' = None /\ Leave
  /\ UNCHANGED <<queue, told, addon, marker, awake, due>>

\* The except clause clears whatever marker there is, then reports.
Refuse ==
  /\ pc = "refuse" /\ zmarker' = None /\ Go("refused")
  /\ UNCHANGED <<queue, told, addon, marker, awake, due>>

ReportRefused ==
  /\ pc = "refused"
  /\ Recorded(hand, "failed") \/ Lost(hand, "failed")
  /\ Leave /\ UNCHANGED <<queue, addon, files, awake, due>>

-----------------------------------------------------------------------------
(* The environment. *)

Restarted == Leave /\ due' = TRUE

Crash ==
  /\ Fault("crash") /\ (pc # "idle" \/ ~due)
  /\ Restarted /\ UNCHANGED <<queue, told, addon, files, awake>>

\* The new version replaces the process, wherever it is.
Installed ==
  /\ installing # 0
  /\ version' = installing /\ installing' = 0 /\ by' = NoCmd
  /\ Restarted /\ UNCHANGED <<queue, told, latest, files, awake>>

InstallFails ==
  /\ Fault("ha") /\ installing # 0
  /\ installing' = 0 /\ by' = NoCmd
  /\ UNCHANGED <<queue, told, version, latest, files, awake, due, pc, hand>>

UserInstalls ==
  /\ Fault("user") /\ installing = 0 /\ version < latest
  /\ installing' = latest
  /\ UNCHANGED <<queue, told, version, latest, by, files, awake, due, pc, hand>>

Publish ==
  /\ latest < MaxVersion /\ latest' = latest + 1
  /\ UNCHANGED <<queue, told, version, installing, by, files, awake, due, pc, hand>>

DeviceWakesOrSleeps ==
  /\ awake' = ~awake
  /\ UNCHANGED <<queue, told, addon, files, due, pc, hand>>

UpdateAges ==
  /\ marker # None /\ marker.age < UpdateTimeout
  /\ marker' = [marker EXCEPT !.age = @ + 1]
  /\ UNCHANGED <<queue, told, addon, zmarker, awake, due, pc, hand>>

WaitAges ==
  /\ zmarker # None /\ zmarker.age < WakeTimeout
  /\ zmarker' = [zmarker EXCEPT !.age = @ + 1]
  /\ UNCHANGED <<queue, told, addon, marker, awake, due, pc, hand>>

PollDue ==
  /\ ~due /\ due' = TRUE
  /\ UNCHANGED <<queue, told, addon, files, awake, pc, hand>>

-----------------------------------------------------------------------------
Reconcile == \/ NoUpdatePending \/ UpdateConfirmed \/ UpdateTimesOut \/ ClearUpdate
             \/ NothingToResume \/ ZhaUnreachable \/ WakeTimesOut \/ Resume

Update == AlreadyCurrent \/ RefuseUpdate \/ AcceptUpdate \/ SaveUpdate \/ TriggerUpdate

Reconf == \/ RefuseReconf \/ SaveReconf \/ Announce \/ Reconfigured \/ ReconfFails
          \/ ReportReconfFailed \/ ClearReconf \/ Refuse \/ ReportRefused

Worker == Reconcile \/ Claim \/ ExecutePlain \/ Update \/ Reconf

Ageing == UpdateAges \/ WaitAges \/ PollDue

Environment == \/ Crash \/ Installed \/ InstallFails \/ UserInstalls \/ Publish
               \/ DeviceWakesOrSleeps

Next == Worker \/ Ageing \/ Environment

Spec == Init /\ [][Next]_vars

\* A result that ends a wait reaches the cloud, and its marker is removed.
Answered == \/ (UpdateConfirmed \/ UpdateTimesOut) /\ pc' = "clear"
            \/ WakeTimesOut /\ pc' = "zclear"
Cleared == ClearUpdate \/ ClearReconf

\* The thread runs on and time passes; the cloud is not always unreachable, nor the
\* process always killed, when a wait has come to its end.
Fairness ==
  /\ WF_vars(Worker)
  /\ WF_vars(UpdateAges) /\ WF_vars(WaitAges) /\ WF_vars(PollDue)
  /\ SF_vars(Answered) /\ SF_vars(Cleared)

FairSpec == Spec /\ Fairness

-----------------------------------------------------------------------------
Places == {"idle", "clear", "zigbee", "zclear", "resume", "claim", "execute", "save", "trigger",
           "announce", "reconf", "reconf_failed", "resume_failed", "refuse", "refused"}

\* Every variable has its type; the version never runs ahead of what was published.
TypeOK ==
  /\ queue \subseteq Commands /\ told \in [Updates \cup Reconfs -> SUBSET (Final \cup {"waiting"})]
  /\ version \in Versions /\ latest \in version..MaxVersion
  /\ installing \in {0} \cup (version + 1)..latest
  /\ by \in Updates \cup {NoCmd}
  /\ marker \in [cmd : Updates \cup {NoCmd}, age : 0..UpdateTimeout]
  /\ zmarker \in [cmd : Reconfs \cup {NoCmd}, age : 0..WakeTimeout]
  /\ awake \in BOOLEAN /\ due \in BOOLEAN
  /\ pc \in Places /\ hand \in Commands \cup {NoCmd}

Settled(c) == told[c] \cap Final # {}

\* The cloud hears of a successful update only when the add-on is at its target, over
\* restarts in the middle, staged versions and installations by the user.
UpdateHonest ==
  \A c \in Updates : "succeeded" \in told[c] => version >= Target[c]

\* An installation the worker has asked for is one that a later process, of whatever
\* version, knows of and answers for: its marker is there, or its result was given.
InstallAccounted == by # NoCmd => marker.cmd = by \/ Settled(by)

\* The add-on is not replaced by its own update in the middle of another command.
UpdateAlone == by # NoCmd /\ ~Settled(by) => hand \in {NoCmd, by}

\* What waits for a restart or a device waits no longer than its time: the worker gets
\* back to claiming commands, and both markers are removed in the end.
MarkersClear ==
  /\ marker # None ~> marker = None
  /\ zmarker # None ~> zmarker = None

\* "Waits for the device to wake up": a reconfiguration the cloud was told is waiting
\* is pending until it has got its result.
WaitingKept ==
  \A c \in Reconfs : "waiting" \in told[c] /\ ~Settled(c) => zmarker.cmd = c
=============================================================================
