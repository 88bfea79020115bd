-------------------------- MODULE ShellyOnboarding --------------------------
(***************************************************************************)
(* A new Shelly is given the Wi-Fi of the house: the agent leaves that     *)
(* network, joins the setup access point of the device, writes the         *)
(* configuration into it and comes back (wifi_native_onboarding.py).       *)
(* Before it leaves it starts a detached shell that sleeps and then brings *)
(* the recorded connection up if the marker file of this attempt is still  *)
(* there; the shell outlives the process of the agent.                     *)
(***************************************************************************)
EXTENDS Naturals

CONSTANTS Attempts,     \* commands the worker executes, 1 .. n
          MaxFaults     \* crashes, shells that wake too early, ways back out of time

VARIABLES pc,           \* where the worker is in its current attempt
          attempt,      \* number of the current or last attempt, 0: none yet
          wlan,         \* network of the wireless interface
          origin,       \* connection recorded by each attempt
          marker,       \* attempts whose marker file exists
          asleep,       \* attempts whose shell still sleeps
          configured,   \* the device has the Wi-Fi of the house
          ok,           \* nothing of this attempt has failed so far
          refused,      \* history: a recorded connection could not be brought up
          faults

vars == <<pc, attempt, wlan, origin, marker, asleep, configured, ok, refused, faults>>

Networks == {"house", "setup", "none"}
Places == {"idle", "find", "mark", "arm", "forget", "join", "joinAgain", "talk", "configure",
           "reboot", "reconnect", "unmark", "tidy"}

TypeOK ==
    /\ pc \in Places /\ attempt \in Nat /\ wlan \in Networks
    /\ origin \in [Attempts -> Networks]
    /\ marker \subseteq Attempts /\ asleep \subseteq Attempts
    /\ configured \in BOOLEAN /\ ok \in BOOLEAN /\ refused \in BOOLEAN /\ faults \in Nat

Init ==
    /\ pc = "idle" /\ attempt = 0 /\ wlan = "house"
    /\ origin = [a \in Attempts |-> "none"]
    /\ marker = {} /\ asleep = {}
    /\ configured = FALSE /\ ok = TRUE /\ refused = FALSE /\ faults = 0

Go(p) == pc' = p

\* an exception inside try: the finally block still runs
Raise == Go("reconnect") /\ ok' = FALSE

Start ==
    /\ pc = "idle" /\ attempt + 1 \in Attempts
    /\ attempt' = attempt + 1 /\ ok' = TRUE /\ Go("find")
    /\ UNCHANGED <<wlan, origin, marker, asleep, configured, refused, faults>>

\* A dry run, or a command without both names and the password, changes nothing.
Decline ==
    /\ pc = "find" /\ Go("idle")
    /\ UNCHANGED <<attempt, wlan, origin, marker, asleep, configured, ok, refused, faults>>

\* the active wireless connection, whichever it is, becomes the one to return to
Find ==
    /\ pc = "find"
    /\ origin' = [origin EXCEPT ![attempt] = wlan]
    /\ IF wlan = "none" THEN Raise ELSE Go("mark") /\ UNCHANGED ok
    /\ UNCHANGED <<attempt, wlan, marker, asleep, configured, refused, faults>>

\* Mutant: the marker is not written.
Mark_Later ==
    /\ pc = "mark" /\ Go("arm")
    /\ UNCHANGED <<attempt, wlan, origin, marker, asleep, configured, ok, refused, faults>>

Mark ==
    /\ pc = "mark" /\ marker' = marker \cup {attempt} /\ Go("arm")
    /\ UNCHANGED <<attempt, wlan, origin, asleep, configured, ok, refused, faults>>

Arm ==
    /\ pc = "arm" /\ asleep' = asleep \cup {attempt} /\ Go("forget")
    /\ UNCHANGED <<attempt, wlan, origin, marker, configured, ok, refused, faults>>

\* deleting the profile of the setup network takes the interface off it
WithoutProfile == IF wlan = "setup" THEN "none" ELSE wlan

ForgetStale ==
    /\ pc = "forget" /\ wlan' = WithoutProfile /\ Go("join")
    /\ UNCHANGED <<attempt, origin, marker, asleep, configured, ok, refused, faults>>

\* One command of nmcli to join the setup network: done, answered with an error
\* (the network it came from may be lost already), or out of time.
Join ==
    /\ pc \in {"join", "joinAgain"}
    /\ \/ wlan' = "setup" /\ Go("talk") /\ UNCHANGED ok
       \/ wlan' \in {wlan, "none"} /\ (IF pc = "join" THEN Go("joinAgain") /\ UNCHANGED ok ELSE Raise)
       \/ wlan' \in {wlan, "none"} /\ Raise
    /\ UNCHANGED <<attempt, origin, marker, asleep, configured, refused, faults>>

Talk ==
    /\ pc = "talk"
    /\ \/ wlan = "setup" /\ Go("configure") /\ UNCHANGED ok
       \/ Raise
    /\ UNCHANGED <<attempt, wlan, origin, marker, asleep, configured, refused, faults>>

\* both spellings of WiFi.SetConfig; the device may obey although no answer came
SetConfig ==
    /\ pc = "configure"
    /\ \/ wlan = "setup" /\ configured' = TRUE /\ Go("reboot") /\ UNCHANGED ok
       \/ configured' \in {configured, configured \/ wlan = "setup"} /\ Raise
    /\ UNCHANGED <<attempt, wlan, origin, marker, asleep, refused, faults>>

\* the answer is not looked at; the setup network goes away with the device
Reboot ==
    /\ pc = "reboot" /\ wlan' \in {wlan, WithoutProfile} /\ Go("reconnect")
    /\ UNCHANGED <<attempt, origin, marker, asleep, configured, ok, refused, faults>>

\* `nmcli connection up` of a recorded connection: a setup profile is gone by then
Up(a) ==
    \/ origin[a] = "house" /\ wlan' = "house" /\ UNCHANGED refused
    \/ wlan' \in {wlan, "none"} /\ refused' = TRUE

\* The finally block. Out of time, the command raises past the rest of it.
Reconnect ==
    /\ pc = "reconnect"
    /\ \/ origin[attempt] = "none" /\ Go("unmark") /\ UNCHANGED <<wlan, ok, refused, faults>>
       \/ origin[attempt] # "none" /\ Up(attempt) /\ Go("unmark") /\ ok' = (ok /\ ~refused') /\ UNCHANGED faults
       \/ /\ origin[attempt] # "none" /\ faults < MaxFaults /\ faults' = faults + 1
          /\ wlan' \in {wlan, "none"} /\ Go("idle") /\ ok' = FALSE /\ UNCHANGED refused
    /\ UNCHANGED <<attempt, origin, marker, asleep, configured>>

Unmark ==
    /\ pc = "unmark" /\ marker' = marker \ {attempt} /\ Go("tidy")
    /\ UNCHANGED <<attempt, wlan, origin, asleep, configured, ok, refused, faults>>

Tidy ==
    /\ pc = "tidy" /\ wlan' = WithoutProfile /\ Go("idle")
    /\ UNCHANGED <<attempt, origin, marker, asleep, configured, ok, refused, faults>>

\* The shell of attempt a wakes: while its attempt is still on the way only if
\* the commands were slow, which counts as a fault.
Wake(a) ==
    /\ a \in asleep /\ asleep' = asleep \ {a}
    /\ IF a = attempt /\ pc # "idle" THEN faults < MaxFaults /\ faults' = faults + 1 ELSE UNCHANGED faults
    /\ IF a \in marker THEN Up(a) ELSE UNCHANGED <<wlan, refused>>
    /\ UNCHANGED <<pc, attempt, origin, marker, configured, ok>>

\* the process of the agent dies; files and the shell remain
Crash ==
    /\ pc # "idle" /\ faults < MaxFaults /\ faults' = faults + 1 /\ Go("idle")
    /\ UNCHANGED <<attempt, wlan, origin, marker, asleep, configured, ok, refused>>

Work == \/ Start \/ Decline \/ Find \/ Mark \/ Arm \/ ForgetStale \/ Join \/ Talk \/ SetConfig
        \/ Reboot \/ Reconnect \/ Unmark \/ Tidy

Next == Work \/ Crash \/ \E a \in Attempts : Wake(a)

\* the worker goes on while it lives, and a sleeping shell wakes
Fairness ==
    /\ WF_vars(Work /\ pc # "idle")
    /\ \A a \in Attempts : WF_vars(Wake(a))

Spec == Init /\ [][Next]_vars /\ Fairness

\* The agent comes back to the network of the house after every attempt, also
\* when one thing goes wrong: the process dies at any step, the way back runs
\* out of time or the shell wakes too early.  Unless bringing a recorded connection up is
\* answered with an error (then the marker is removed all the same and nobody
\* tries again).
ReturnsHome == (wlan # "house") ~> (wlan = "house" \/ refused)

=============================================================================
