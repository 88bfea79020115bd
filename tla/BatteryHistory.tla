--------------------------- MODULE BatteryHistory ---------------------------
(***************************************************************************)
(* BatteryRuntime with the history its users can observe, and the promises  *)
(* that need it.  The history only watches: it restricts no step.           *)
(***************************************************************************)
EXTENDS BatteryRuntime

VARIABLES
  live,      \* session commanded since the last verified AUTO, or NoSig
  ended,     \* manual sessions ended since the last verified explicit STOP
  since,     \* when that session was first commanded, 0 with none
  lastStop   \* latest valid_until of an explicit STOP reported as done, or 0

hvars == <<vars, live, ended, since, lastStop>>

VerifiedStop == pc = "stop_auto" /\ pc' = "stop_done"
Commanded == pc = "drive" /\ pc' \in {"active_save", "stop_save"}
Owned == \/ Commanded
         \/ pc = "prepare_save" /\ pc' = "drive"
         \/ pc = "canary_save" /\ pc' = "canary_run"
ReportedStop == pc = "stop_done" /\ pc' = "idle" /\ clear /\ mem'.st = "none" /\ recovered'

\* A replacement by the same request is the same session on another route.
Moved == after = "start" /\ req.sig = live

HInit == Init /\ live = NoSig /\ ended = {} /\ since = 0 /\ lastStop = 0

HNext ==
  /\ Next
  /\ live' = IF Owned THEN cur.sig ELSE IF VerifiedStop THEN NoSig ELSE live
  /\ ended' = IF VerifiedStop
              THEN IF clear THEN {}
                   ELSE IF Moved THEN ended
                   ELSE ended \cup ({live} \cap (ManualSigs \ {CanarySig}))
              ELSE ended
  /\ since' = IF Commanded /\ since = 0 THEN now
              ELSE IF VerifiedStop THEN 0 ELSE since
  /\ lastStop' = IF ReportedStop /\ req.until > lastStop THEN req.until ELSE lastStop

HSpec == HInit /\ [][HNext]_hvars

\* The runtime implements the abstract owner: an ended manual session is not driven
\* again by a late or repeated command, a tick or a restart, even when saves fail.
O == INSTANCE BatteryOwner WITH
       owner <- inv, Sessions <- Sigs, Manual <- ManualSigs \ {CanarySig}, Free <- AUTO
OwnerPromise == O!Spec

\* Once an explicit STOP was reported as done, no manual request issued before it
\* (valid no longer than it) is ever driven, across restarts and failed saves.
StaleStartRefused ==
  [][Commanded /\ req.kind = "submit" /\ IsManual(cur.sig) => req.until > lastStop]_hvars

\* Renewing a session does not prolong it: from its first command to the next verified
\* AUTO it is never authorized for more than SessionCap (MAX_SESSION_SECONDS, 12 h).
SessionCapped ==
  pc = "drive" /\ since # 0 => cur.expires <= Cut(since + SessionCap)

\* A start refused by the latch of ended sessions.
RefusedAsEnded ==
  Starting(Load) /\ ~StaleStart(Load) /\ EndedStart(Load)

\* A request is refused as already ended only when that session did end after the
\* last explicit STOP: "explicit STOP rearms a new user request".
RefusedOnlyIfEnded == RefusedAsEnded => req.sig \in ended
=============================================================================
