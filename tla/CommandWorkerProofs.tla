------------------------ MODULE CommandWorkerProofs ------------------------
(***************************************************************************)
(* Machine-checked proofs about CommandWorker, for any commands, targets,   *)
(* waiting times and faults.                                                *)
(***************************************************************************)
EXTENDS CommandWorker, TLAPS

-----------------------------------------------------------------------------
(* The inductive invariant.                                                  *)

\* Beyond the first step of a round no update is pending, except the one that is just
\* being triggered; one that is about to be cleared has its result.
OnePending ==
  /\ pc \notin {"idle", "clear", "trigger"} => marker = None
  /\ pc = "trigger" => marker.cmd = hand
  /\ pc = "clear" => marker.cmd # NoCmd /\ Settled(marker.cmd)
  /\ marker.cmd = NoCmd => marker.age = 0

\* What is in hand fits the place.
InHand ==
  /\ pc \in {"idle", "clear"} => hand = NoCmd
  /\ pc \in {"save", "trigger"} => hand \in Updates
  /\ pc \in {"resume", "announce", "reconf", "reconf_failed", "resume_failed", "refuse",
             "refused"} => hand \in Reconfs

\* A pending reconfiguration is told from none by its command.
ZPending == zmarker.cmd = NoCmd => zmarker.age = 0

IInv == TypeOK /\ OnePending /\ InHand /\ ZPending /\ UpdateHonest /\ InstallAccounted

Told == [Updates \cup Reconfs -> SUBSET (Final \cup {"waiting"})]

-----------------------------------------------------------------------------
(* Facts about what the cloud has recorded.                                  *)

\* Whether it is recorded or lost, a result only adds to those of its own command.
LEMMA ResultEffect ==
  ASSUME told \in Told, NEW c \in Updates \cup Reconfs, NEW r \in Final \cup {"waiting"},
         Recorded(c, r) \/ Lost(c, r)
  PROVE  /\ told' \in Told
         /\ \A d \in Updates \cup Reconfs : told[d] \subseteq told'[d]
         /\ \A d \in Updates \cup Reconfs : d # c => told'[d] = told[d]
         /\ told'[c] \subseteq told[c] \cup {r}
         /\ Recorded(c, r) => r \in told'[c]
<1>1. told' \in {told, [told EXCEPT ![c] = @ \cup {r}]}
  BY DEF Recorded, Lost
<1>2. CASE told' = told
  BY <1>2 DEF Recorded, Told
<1>3. CASE told' = [told EXCEPT ![c] = @ \cup {r}]
  BY <1>3 DEF Told
<1> QED
  BY <1>1, <1>2, <1>3

\* What has been settled stays settled, and an honest success stays one while the
\* version does not fall.
LEMMA SettledStays ==
  ASSUME \A d \in Updates \cup Reconfs : told[d] \subseteq told'[d],
         NEW c \in Updates \cup Reconfs, Settled(c)
  PROVE  Settled(c)'
BY DEF Settled

-----------------------------------------------------------------------------
(* Steps that record no result and leave the add-on alone.                   *)

USE DEF Leave, Go, None, Commands, Places, files, addon, Executing, AtHome, Final

Poll == NoUpdatePending \/ ClearUpdate \/ NothingToResume \/ ZhaUnreachable \/ Resume

\* Looking at the markers.
LEMMA PollKeeps ==
  ASSUME IInv, Poll
  PROVE  IInv'
<1>1. CASE NoUpdatePending
  BY <1>1
  DEF NoUpdatePending, IInv, TypeOK, OnePending, InHand, ZPending, UpdateHonest,
      InstallAccounted, Settled
<1>2. CASE ClearUpdate
  BY <1>2, ConstantsAssumption
  DEF ClearUpdate, IInv, TypeOK, OnePending, InHand, ZPending, UpdateHonest,
      InstallAccounted, Settled
<1>3. CASE NothingToResume
  BY <1>3
  DEF NothingToResume, IInv, TypeOK, OnePending, InHand, ZPending, UpdateHonest,
      InstallAccounted, Settled
<1>4. CASE ZhaUnreachable
  BY <1>4
  DEF ZhaUnreachable, IInv, TypeOK, OnePending, InHand, ZPending, UpdateHonest,
      InstallAccounted, Settled
<1>5. CASE Resume
  BY <1>5
  DEF Resume, IInv, TypeOK, OnePending, InHand, ZPending, UpdateHonest, InstallAccounted,
      Settled
<1> QED
  BY <1>1, <1>2, <1>3, <1>4, <1>5 DEF Poll

Take == \/ Claim \/ ExecutePlain \/ AcceptUpdate \/ SaveUpdate \/ RefuseReconf
        \/ SaveReconf \/ ClearReconf \/ Refuse

\* Claiming, executing, and writing the markers.
LEMMA TakeKeeps ==
  ASSUME IInv, Take
  PROVE  IInv'
<1>1. CASE Claim
  BY <1>1
  DEF Claim, IInv, TypeOK, OnePending, InHand, ZPending, UpdateHonest, InstallAccounted,
      Settled
<1>2. CASE ExecutePlain
  BY <1>2
  DEF ExecutePlain, IInv, TypeOK, OnePending, InHand, ZPending, UpdateHonest,
      InstallAccounted, Settled
<1>3. CASE AcceptUpdate
  BY <1>3
  DEF AcceptUpdate, IInv, TypeOK, OnePending, InHand, ZPending, UpdateHonest,
      InstallAccounted, Settled
<1>4. CASE SaveUpdate
  BY <1>4
  DEF SaveUpdate, IInv, TypeOK, OnePending, InHand, ZPending, UpdateHonest, InstallAccounted,
      Settled
<1>5. CASE RefuseReconf
  BY <1>5
  DEF RefuseReconf, IInv, TypeOK, OnePending, InHand, ZPending, UpdateHonest,
      InstallAccounted, Settled
<1>6. CASE SaveReconf
  BY <1>6, ConstantsAssumption
  DEF SaveReconf, IInv, TypeOK, OnePending, InHand, ZPending, UpdateHonest, InstallAccounted,
      Settled
<1>7. CASE ClearReconf
  BY <1>7, ConstantsAssumption
  DEF ClearReconf, IInv, TypeOK, OnePending, InHand, ZPending, UpdateHonest,
      InstallAccounted, Settled
<1>8. CASE Refuse
  BY <1>8, ConstantsAssumption
  DEF Refuse, IInv, TypeOK, OnePending, InHand, ZPending, UpdateHonest, InstallAccounted,
      Settled
<1> QED
  BY <1>1, <1>2, <1>3, <1>4, <1>5, <1>6, <1>7, <1>8 DEF Take

Quiet == Crash \/ DeviceWakesOrSleeps \/ Ageing

\* Restarts, the device, and time.
LEMMA QuietKeeps ==
  ASSUME IInv, Quiet
  PROVE  IInv'
<1>1. CASE Crash
  BY <1>1
  DEF Crash, IInv, TypeOK, OnePending, InHand, ZPending, UpdateHonest, InstallAccounted,
      Settled, Restarted
<1>2. CASE DeviceWakesOrSleeps
  BY <1>2
  DEF DeviceWakesOrSleeps, IInv, TypeOK, OnePending, InHand, ZPending, UpdateHonest,
      InstallAccounted, Settled
<1>3. CASE UpdateAges
  <2>1. marker'.cmd = marker.cmd /\ marker.cmd # NoCmd /\ marker'.age \in 0..UpdateTimeout
        /\ marker' = [cmd |-> marker.cmd, age |-> marker.age + 1]
    BY <1>3, ConstantsAssumption DEF UpdateAges, IInv, TypeOK, OnePending, ZPending
  <2> QED
    BY <1>3, <2>1
    DEF UpdateAges, IInv, TypeOK, OnePending, InHand, ZPending, UpdateHonest,
        InstallAccounted, Settled
<1>4. CASE WaitAges
  <2>1. zmarker'.cmd = zmarker.cmd /\ zmarker.cmd # NoCmd /\ zmarker'.age \in 0..WakeTimeout
        /\ zmarker' = [cmd |-> zmarker.cmd, age |-> zmarker.age + 1]
    BY <1>4, ConstantsAssumption DEF WaitAges, IInv, TypeOK, OnePending, ZPending
  <2> QED
    BY <1>4, <2>1
    DEF WaitAges, IInv, TypeOK, OnePending, InHand, ZPending, UpdateHonest, InstallAccounted,
        Settled
<1>5. CASE PollDue
  BY <1>5
  DEF PollDue, IInv, TypeOK, OnePending, InHand, ZPending, UpdateHonest, InstallAccounted,
      Settled
<1> QED
  BY <1>1, <1>2, <1>3, <1>4, <1>5 DEF Quiet, Ageing

-----------------------------------------------------------------------------
(* Steps that report a result. *)

\* What every reporting step has in common: it records r of c, or tries to.
LEMMA ReportKeeps ==
  ASSUME IInv, NEW c \in Updates \cup Reconfs, NEW r \in Final \cup {"waiting"},
         Recorded(c, r) \/ Lost(c, r),
         r = "succeeded" /\ c \in Updates => version >= Target[c],
         UNCHANGED addon, UNCHANGED marker
  PROVE  /\ told' \in Told
         /\ UpdateHonest' /\ InstallAccounted'
         /\ marker.cmd # NoCmd /\ Settled(marker.cmd) => Settled(marker.cmd)'
         /\ Recorded(c, r) /\ r \in Final => Settled(c)'
<1>1. told \in Told
  BY DEF IInv, TypeOK, Told
<1>2. /\ told' \in Told
      /\ \A d \in Updates \cup Reconfs : told[d] \subseteq told'[d]
      /\ \A d \in Updates \cup Reconfs : d # c => told'[d] = told[d]
      /\ told'[c] \subseteq told[c] \cup {r}
      /\ Recorded(c, r) => r \in told'[c]
  BY <1>1, ResultEffect
<1>3. UpdateHonest'
  BY <1>2 DEF IInv, UpdateHonest
<1>4. InstallAccounted'
  BY <1>2 DEF IInv, TypeOK, InstallAccounted, Settled
<1>5. marker.cmd # NoCmd /\ Settled(marker.cmd) => Settled(marker.cmd)'
  BY <1>2 DEF IInv, TypeOK, Settled
<1> QED
  BY <1>2, <1>3, <1>4, <1>5 DEF Settled

Report == \/ UpdateConfirmed \/ UpdateTimesOut \/ WakeTimesOut \/ AlreadyCurrent
          \/ RefuseUpdate \/ Announce \/ Reconfigured \/ ReconfFails
          \/ ReportReconfFailed \/ ReportRefused

\* Every result the worker reports.
LEMMA ReportsKeep ==
  ASSUME IInv, Report
  PROVE  IInv'
<1>1. CASE UpdateConfirmed
  <2>1. marker.cmd \in Updates /\ version >= Target[marker.cmd]
    BY <1>1 DEF UpdateConfirmed, Confirmed, IInv, TypeOK, OnePending, Versions
  <2>2. /\ told' \in Told /\ UpdateHonest' /\ InstallAccounted'
        /\ marker.cmd # NoCmd /\ Settled(marker.cmd) => Settled(marker.cmd)'
        /\ Recorded(marker.cmd, "succeeded") /\ "succeeded" \in Final => Settled(marker.cmd)'
    BY <1>1, <2>1, ReportKeeps DEF UpdateConfirmed
  <2> QED
    BY <1>1, <2>2 DEF UpdateConfirmed, IInv, TypeOK, OnePending, InHand, ZPending, Told
<1>2. CASE UpdateTimesOut
  <2>1. marker.cmd \in Updates
    BY <1>2 DEF UpdateTimesOut, IInv, TypeOK, OnePending
  <2>2. /\ told' \in Told /\ UpdateHonest' /\ InstallAccounted'
        /\ marker.cmd # NoCmd /\ Settled(marker.cmd) => Settled(marker.cmd)'
        /\ Recorded(marker.cmd, "failed") /\ "failed" \in Final => Settled(marker.cmd)'
    BY <1>2, <2>1, ReportKeeps DEF UpdateTimesOut
  <2> QED
    BY <1>2, <2>2 DEF UpdateTimesOut, IInv, TypeOK, OnePending, InHand, ZPending, Told
<1>3. CASE WakeTimesOut
  <2>1. zmarker.cmd \in Reconfs /\ zmarker.cmd \notin Updates
    BY <1>3, ConstantsAssumption DEF WakeTimesOut, IInv, TypeOK, ZPending
  <2>2. /\ told' \in Told /\ UpdateHonest' /\ InstallAccounted'
        /\ marker.cmd # NoCmd /\ Settled(marker.cmd) => Settled(marker.cmd)'
    BY <1>3, <2>1, ReportKeeps DEF WakeTimesOut
  <2> QED
    BY <1>3, <2>2 DEF WakeTimesOut, IInv, TypeOK, OnePending, InHand, ZPending, Told
<1>4. CASE AlreadyCurrent
  <2>1. hand \in Updates /\ version >= Target[hand]
    BY <1>4, ConstantsAssumption DEF AlreadyCurrent, Versions
  <2>2. /\ told' \in Told /\ UpdateHonest' /\ InstallAccounted'
        /\ marker.cmd # NoCmd /\ Settled(marker.cmd) => Settled(marker.cmd)'
    BY <1>4, <2>1, ReportKeeps DEF AlreadyCurrent
  <2> QED
    BY <1>4, <2>2 DEF AlreadyCurrent, IInv, TypeOK, OnePending, InHand, ZPending, Told
<1>5. CASE RefuseUpdate
  <2>1. hand \in Updates
    BY <1>5 DEF RefuseUpdate
  <2>2. /\ told' \in Told /\ UpdateHonest' /\ InstallAccounted'
        /\ marker.cmd # NoCmd /\ Settled(marker.cmd) => Settled(marker.cmd)'
    BY <1>5, <2>1, ReportKeeps DEF RefuseUpdate
  <2> QED
    BY <1>5, <2>2 DEF RefuseUpdate, IInv, TypeOK, OnePending, InHand, ZPending, Told
<1>6. CASE Announce
  <2>1. hand \in Reconfs /\ hand \notin Updates
    BY <1>6, ConstantsAssumption DEF Announce, IInv, InHand
  <2>2. /\ told' \in Told /\ UpdateHonest' /\ InstallAccounted'
        /\ marker.cmd # NoCmd /\ Settled(marker.cmd) => Settled(marker.cmd)'
    BY <1>6, <2>1, ReportKeeps DEF Announce
  <2> QED
    BY <1>6, <2>2 DEF Announce, IInv, TypeOK, OnePending, InHand, ZPending, Told
<1>7. CASE Reconfigured
  <2>1. hand \in Reconfs /\ hand \notin Updates
    BY <1>7, ConstantsAssumption DEF Reconfigured, IInv, InHand
  <2>2. /\ told' \in Told /\ UpdateHonest' /\ InstallAccounted'
        /\ marker.cmd # NoCmd /\ Settled(marker.cmd) => Settled(marker.cmd)'
    BY <1>7, <2>1, ReportKeeps DEF Reconfigured
  <2> QED
    BY <1>7, <2>2 DEF Reconfigured, IInv, TypeOK, OnePending, InHand, ZPending, Told
<1>8. CASE ReconfFails
  <2>1. CASE UNCHANGED told
    BY <1>8, <2>1
    DEF ReconfFails, IInv, TypeOK, OnePending, InHand, ZPending, UpdateHonest,
        InstallAccounted, Settled
  <2>2. CASE Lost(hand, "succeeded")
    <3>1. hand \in Reconfs /\ hand \notin Updates
      BY <1>8, ConstantsAssumption DEF ReconfFails, IInv, InHand
    <3>2. /\ told' \in Told /\ UpdateHonest' /\ InstallAccounted'
          /\ marker.cmd # NoCmd /\ Settled(marker.cmd) => Settled(marker.cmd)'
      BY <1>8, <2>2, <3>1, ReportKeeps DEF ReconfFails
    <3> QED
      BY <1>8, <3>2 DEF ReconfFails, IInv, TypeOK, OnePending, InHand, ZPending, Told
  <2> QED
    BY <1>8, <2>1, <2>2 DEF ReconfFails
<1>9. CASE ReportReconfFailed
  <2>1. hand \in Reconfs /\ hand \notin Updates
    BY <1>9, ConstantsAssumption DEF ReportReconfFailed, IInv, InHand
  <2>2. /\ told' \in Told /\ UpdateHonest' /\ InstallAccounted'
        /\ marker.cmd # NoCmd /\ Settled(marker.cmd) => Settled(marker.cmd)'
    BY <1>9, <2>1, ReportKeeps DEF ReportReconfFailed
  <2> QED
    BY <1>9, <2>2 DEF ReportReconfFailed, IInv, TypeOK, OnePending, InHand, ZPending, Told
<1>10. CASE ReportRefused
  <2>1. hand \in Reconfs /\ hand \notin Updates
    BY <1>10, ConstantsAssumption DEF ReportRefused, IInv, InHand
  <2>2. /\ told' \in Told /\ UpdateHonest' /\ InstallAccounted'
        /\ marker.cmd # NoCmd /\ Settled(marker.cmd) => Settled(marker.cmd)'
    BY <1>10, <2>1, ReportKeeps DEF ReportRefused
  <2> QED
    BY <1>10, <2>2 DEF ReportRefused, IInv, TypeOK, OnePending, InHand, ZPending, Told
<1> QED
  BY <1>1, <1>2, <1>3, <1>4, <1>5, <1>6, <1>7, <1>8, <1>9, <1>10 DEF Report

-----------------------------------------------------------------------------
(* The add-on and its versions. *)

Versioning == TriggerUpdate \/ Installed \/ InstallFails \/ UserInstalls \/ Publish

\* Installations and publications.
LEMMA VersioningKeeps ==
  ASSUME IInv, Versioning
  PROVE  IInv'
<1>1. CASE TriggerUpdate
  BY <1>1
  DEF TriggerUpdate, IInv, TypeOK, OnePending, InHand, ZPending, UpdateHonest,
      InstallAccounted, Settled, Versions
<1>2. CASE Installed
  BY <1>2, ConstantsAssumption
  DEF Installed, IInv, TypeOK, OnePending, InHand, ZPending, UpdateHonest, InstallAccounted,
      Versions, Restarted
<1>3. CASE InstallFails
  BY <1>3
  DEF InstallFails, IInv, TypeOK, OnePending, InHand, ZPending, UpdateHonest,
      InstallAccounted, Settled
<1>4. CASE UserInstalls
  BY <1>4
  DEF UserInstalls, IInv, TypeOK, OnePending, InHand, ZPending, UpdateHonest,
      InstallAccounted, Settled, Versions
<1>5. CASE Publish
  BY <1>5, ConstantsAssumption
  DEF Publish, IInv, TypeOK, OnePending, InHand, ZPending, UpdateHonest, InstallAccounted,
      Settled, Versions
<1> QED
  BY <1>1, <1>2, <1>3, <1>4, <1>5 DEF Versioning

-----------------------------------------------------------------------------
(* The theorems. *)

\* The invariant holds at the start of the worker.
LEMMA InitIInv == Init => IInv
<1> SUFFICES ASSUME Init PROVE IInv
  OBVIOUS
<1>1. \A c \in Updates \cup Reconfs : told[c] = {}
  BY DEF Init
<1>2. TypeOK
  <2>1. MaxVersion \in Nat /\ MaxVersion >= 1
    BY ConstantsAssumption
  <2>2. told \in [Updates \cup Reconfs -> SUBSET (Final \cup {"waiting"})]
    BY DEF Init
  <2>3. /\ marker \in [cmd : Updates \cup {NoCmd}, age : 0..UpdateTimeout]
        /\ zmarker \in [cmd : Reconfs \cup {NoCmd}, age : 0..WakeTimeout]
    BY ConstantsAssumption DEF Init
  <2>4. version \in Versions /\ latest \in version..MaxVersion
        /\ installing \in {0} \cup (version + 1)..latest
    BY <2>1 DEF Init, Versions
  <2> QED
    BY <2>2, <2>3, <2>4 DEF Init, TypeOK
<1>3. OnePending /\ InHand /\ ZPending
  BY ConstantsAssumption DEF Init, OnePending, InHand, ZPending
<1>4. UpdateHonest /\ InstallAccounted
  BY <1>1 DEF Init, UpdateHonest, InstallAccounted
<1> QED
  BY <1>2, <1>3, <1>4 DEF IInv

\* Every step of the worker, the installers and the environment keeps it.
LEMMA NextKeeps == IInv /\ [Next]_vars => IInv'
<1> SUFFICES ASSUME IInv, [Next]_vars PROVE IInv'
  OBVIOUS
<1>1. CASE Next
  <2>1. Poll \/ Take \/ Quiet \/ Report \/ Versioning
    BY <1>1
    DEF Next, Worker, Reconcile, Update, Reconf, Environment, Poll, Take, Quiet, Report,
        Versioning
  <2> QED
    BY <2>1, PollKeeps, TakeKeeps, QuietKeeps, ReportsKeep, VersioningKeeps
<1>2. CASE UNCHANGED vars
  BY <1>2
  DEF vars, IInv, TypeOK, OnePending, InHand, ZPending, UpdateHonest, InstallAccounted,
      Settled
<1> QED
  BY <1>1, <1>2

\* The inductive invariant holds in every reachable state.
THEOREM Invariance == Spec => []IInv
BY InitIInv, NextKeeps, PTL DEF Spec

\* Every variable of the worker, its markers and the add-on has its type.
THEOREM TypeCorrect == Spec => []TypeOK
BY Invariance, PTL DEF IInv

\* A success reported for an update means that the add-on is at its target.
THEOREM UpdateIsHonest == Spec => []UpdateHonest
BY Invariance, PTL DEF IInv

\* An installation the worker asked for has its marker, or its result was given.
THEOREM InstallIsAccounted == Spec => []InstallAccounted
BY Invariance, PTL DEF IInv

\* While its own update is under way, the worker has no other command in hand.
THEOREM UpdateIsAlone == Spec => []UpdateAlone
<1>1. IInv => UpdateAlone
  BY DEF IInv, TypeOK, OnePending, InHand, InstallAccounted, UpdateAlone
<1> QED
  BY <1>1, Invariance, PTL
=============================================================================
