-------------------------------- MODULE ResetOs --------------------------------
(***************************************************************************)
(* Reset OS (reset_os.py): the worker restarts Home Assistant Core once    *)
(* per command and at most once in ten minutes.  The cloud may repeat a    *)
(* command at any time, the wall clock may be corrected, the process may   *)
(* die anywhere, and the answer to the restart may be lost.  The file      *)
(* keeps the last attempt only.  The unit of time is the validity of a     *)
(* command, three minutes.                                                 *)
(***************************************************************************)
EXTENDS Integers, FiniteSets

CONSTANTS Commands, None,   \* None: no command
          Cooldown,   \* ten minutes, more than the validity of a command
          MaxTime     \* bound of the wall clock

VARIABLES clock,      \* the wall clock of the device
          expires,    \* the expiry in the payload of each command
          pc, hand,   \* the place in execute_reset_os and its command
          now,        \* the time it has read: the request and the cooldown are
                      \* checked within the same moment
          file,       \* reset_os_last_attempt.json: [cmd, at]
          core,       \* Home Assistant Core: "started" or "restarting"
          restarts    \* history: the restarts each command has caused

vars == <<clock, expires, pc, hand, now, file, core, restarts>>

NoAttempt == [cmd |-> None, at |-> 0]

TypeOK ==
  /\ clock \in 0..MaxTime /\ expires \in [Commands -> 1..MaxTime]
  /\ pc \in {"idle", "checked", "allowed", "recorded"}
  /\ hand \in Commands \cup {None} /\ now \in 0..MaxTime
  /\ file \in [cmd : Commands \cup {None}, at : 0..MaxTime]
  /\ core \in {"started", "restarting"}
  /\ restarts \in [Commands -> Nat]

Init ==
  /\ clock = 0 /\ expires \in [Commands -> 1..MaxTime]
  /\ pc = "idle" /\ hand = None /\ now = 0 /\ file = NoAttempt
  /\ core = "started" /\ restarts = [c \in Commands |-> 0]

\* check_request: 0 < remaining <= 180 s.  The rest of the payload fits or not.
Current(c) == clock = expires[c] - 1

Claim(c) ==
  /\ pc = "idle" /\ Current(c)
  /\ pc' = "checked" /\ hand' = c /\ now' = clock
  /\ UNCHANGED <<clock, expires, file, core, restarts>>

Refuse ==
  /\ pc # "idle" /\ pc' = "idle" /\ hand' = None
  /\ UNCHANGED <<clock, expires, now, file, core, restarts>>

\* Mutant: an attempt in the future is taken for an old one.
CooldownOver_Future(c) ==
  \/ file = NoAttempt
  \/ file.cmd # c /\ (file.at > now \/ now - file.at >= Cooldown)

\* check_cooldown: another command, an attempt that is not in the future and
\* ten minutes old.
CooldownOver(c) ==
  file = NoAttempt \/ (file.cmd # c /\ now - file.at >= Cooldown)

\* Under the lock file: the cooldown, then the state of Core.
Allow ==
  /\ pc = "checked" /\ CooldownOver(hand) /\ core = "started"
  /\ pc' = "allowed"
  /\ UNCHANGED <<clock, expires, hand, now, file, core, restarts>>

\* The attempt is on disk before the restart is asked for, with the time that
\* was read before Core was asked for its state.
Record ==
  /\ pc = "allowed" /\ pc' = "recorded"
  /\ file' = [cmd |-> hand, at |-> now]
  /\ UNCHANGED <<clock, expires, hand, now, core, restarts>>

\* Supervisor takes the restart, or refuses it; either answer may be lost.
Restart ==
  /\ pc = "recorded" /\ pc' = "idle" /\ hand' = None
  /\ \/ core' = "restarting" /\ restarts' = [restarts EXCEPT ![hand] = @ + 1]
     \/ UNCHANGED <<core, restarts>>
  /\ UNCHANGED <<clock, expires, now, file>>

CoreStarts ==
  /\ core = "restarting" /\ core' = "started"
  /\ UNCHANGED <<clock, expires, pc, hand, now, file, restarts>>

Tick ==
  /\ clock < MaxTime /\ clock' = clock + 1
  /\ UNCHANGED <<expires, pc, hand, now, file, core, restarts>>

Corrected(t) ==
  /\ clock' = t
  /\ UNCHANGED <<expires, pc, hand, now, file, core, restarts>>

Crash ==
  /\ pc # "idle" /\ pc' = "idle" /\ hand' = None
  /\ UNCHANGED <<clock, expires, now, file, core, restarts>>

Next ==
  \/ \E c \in Commands : Claim(c)
  \/ Refuse \/ Allow \/ Record \/ Restart
  \/ CoreStarts \/ Tick \/ Crash
  \/ \E t \in 0..MaxTime : Corrected(t)

Spec == Init /\ [][Next]_vars

(* However often the cloud repeats a command, whatever the clock is set to *)
(* and wherever the process dies, it restarts Core at most once ("Tento    *)
(* reset uz byl jednou vyvolan"), although only the last attempt is kept.  *)
OncePerCommand == \A c \in Commands : restarts[c] <= 1
=============================================================================
