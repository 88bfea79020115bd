--------------------------- MODULE HostOnboarding ---------------------------
(***************************************************************************)
(* The onboarding behind the Host API (host/setup_manager.py): a request   *)
(* starts a thread that connects the Wi-Fi, waits for the internet,        *)
(* registers the device and saves its identity, and a status tells how far *)
(* it is.  Each request is served by a thread of its own.  The status is   *)
(* locked for one access at a time, not from the check of a start to the   *)
(* status it sets, and a reset does not stop the thread.                   *)
(***************************************************************************)
CONSTANT Runs

VARIABLES status,    \* state of get_status
          place,     \* of every run
          saved      \* is an identity stored

vars == <<status, place, saved>>

States == {"idle", "connecting_wifi", "waiting_for_network", "registering", "heartbeat", "error"}
Running == {"connecting", "network", "registering", "saving", "saved"}

TypeOK ==
  /\ status \in States
  /\ place \in [Runs -> {"none", "checked"} \cup Running]
  /\ saved \in BOOLEAN

Init ==
  /\ status = "idle" /\ place = [r \in Runs |-> "none"]
  /\ saved = FALSE

Move(r, from, to, state) ==
  /\ place[r] = from /\ place' = [place EXCEPT ![r] = to]
  /\ status' = state

\* start: under the lock, is another onboarding under way?
Check(r) ==
  /\ status \in {"idle", "error"}
  /\ Move(r, "none", "checked", status) /\ UNCHANGED saved

\* ... and then, with the lock taken again, the status and the thread.
Begin(r) == Move(r, "checked", "connecting", "connecting_wifi") /\ UNCHANGED saved

Connected(r) == Move(r, "connecting", "network", "waiting_for_network") /\ UNCHANGED saved
NetworkUp(r) == Move(r, "network", "registering", "registering") /\ UNCHANGED saved

\* The cloud has registered; the identity replaces the stored one.
Accepted(r) == Move(r, "registering", "saving", status) /\ UNCHANGED saved
Save(r) == Move(r, "saving", "saved", status) /\ saved' = TRUE

\* The first heartbeat is prepared; the thread ends.
Prepared(r) == Move(r, "saved", "none", "heartbeat") /\ UNCHANGED saved

\* Mutant: an internet that stays away is not reported.
Fails_Unreported(r) ==
  /\ place[r] \in Running \ {"saved"}
  /\ Move(r, place[r], "none", IF place[r] = "network" THEN status ELSE "error")
  /\ UNCHANGED saved

\* Every exception of a phase ends the run.
Fails(r) ==
  /\ place[r] \in Running \ {"saved"}
  /\ Move(r, place[r], "none", "error") /\ UNCHANGED saved

Reset == status' = "idle" /\ UNCHANGED <<place, saved>>

Next ==
  \/ \E r \in Runs : \/ Check(r) \/ Begin(r) \/ Connected(r) \/ NetworkUp(r)
                     \/ Accepted(r) \/ Save(r) \/ Prepared(r) \/ Fails(r)
  \/ Reset

Spec == Init /\ [][Next]_vars

(* A status that says that something is under way is true: some run is at  *)
(* work that will replace it, whatever other runs and resets have done, so *)
(* a started onboarding never hangs in the eyes of the user.               *)
UnderWay ==
  status \in {"connecting_wifi", "waiting_for_network", "registering"} =>
    \E r \in Runs : place[r] \in Running
=============================================================================
