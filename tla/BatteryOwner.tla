---------------------------- MODULE BatteryOwner ----------------------------
(***************************************************************************)
(* What the local battery owner promises its users: the inverter follows    *)
(* one session at a time, it passes through AUTO between two of them, and a *)
(* manual session that has ended does not begin again until the user has    *)
(* explicitly stopped the battery.                                          *)
(***************************************************************************)
CONSTANTS Sessions, Manual, Free

VARIABLES
  owner,   \* the session the inverter follows, or Free
  ended    \* manual sessions ended since the last explicit STOP

Init == owner = Free /\ ended = {}

Begin(s) ==
  /\ owner = Free /\ s \notin ended
  /\ owner' = s /\ UNCHANGED ended

\* The session is over, whether or not its setpoint was still (or ever) followed.
Finish(s) ==
  /\ owner \in {Free, s}
  /\ owner' = Free /\ ended' = ended \cup ({s} \cap Manual)

\* A STOP that ends no manual session: background AUTO, a move to another route,
\* or the inverter dropping a stale setpoint.
Drop == owner' = Free /\ UNCHANGED ended

\* The user's STOP: whatever ended before may be asked for again.
ExplicitStop == owner' = Free /\ ended' = {}

Next ==
  \/ \E s \in Sessions : Begin(s) \/ Finish(s)
  \/ Drop \/ ExplicitStop

Spec == Init /\ [][Next]_<<owner, ended>>
=============================================================================
