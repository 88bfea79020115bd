------------------------------ MODULE ConfigSync ------------------------------
(***************************************************************************)
(* How a change of the cloud configuration reaches the device.  Two threads *)
(* share an event and a file: the heartbeat learns the current version from *)
(* the answer of the cloud, compares it with the file and sets the event;   *)
(* the synchronisation fetches, replaces the file and waits for the event   *)
(* or for its interval, which is short (ERROR_RETRY_INTERVAL_SECONDS) after *)
(* a failure.                                                               *)
(***************************************************************************)
EXTENDS Naturals

CONSTANT MaxVersion   \* bound: versions the cloud publishes, at least one

VARIABLES published,  \* config_version of the cloud
          cached,     \* that of the file, 0 without one
          event,      \* config_sync_requested
          sync,       \* synchronisation: "fetch", "save", "wait" or "woken"
          got,        \* the version it has fetched
          short,      \* its wait is the short one after a failure
          beat,       \* heartbeat: "rest", "compare" or "ask"
          told,       \* the version its answer named
          asked       \* history: the newest version it has asked for

vars == <<published, cached, event, sync, got, short, beat, told, asked>>
heartbeat == <<beat, told, asked>>

TypeOK ==
  /\ published \in 1..MaxVersion /\ {cached, got, told, asked} \subseteq 0..MaxVersion
  /\ event \in BOOLEAN /\ short \in BOOLEAN
  /\ sync \in {"fetch", "save", "wait", "woken"} /\ beat \in {"rest", "compare", "ask"}

Init ==
  /\ published = 1 /\ cached = 0 /\ event = FALSE /\ sync = "fetch" /\ got = 0 /\ short = FALSE
  /\ beat = "rest" /\ told = 0 /\ asked = 0

Publish ==
  /\ published < MaxVersion /\ published' = published + 1
  /\ UNCHANGED <<cached, event, sync, got, short, heartbeat>>

-----------------------------------------------------------------------------
(* device_config.main                                                        *)

Fetch ==
  /\ sync = "fetch" /\ sync' = "save" /\ got' = published
  /\ UNCHANGED <<published, cached, event, short, heartbeat>>

\* No answer, an error, or the configuration of another device.
FetchFails ==
  /\ sync = "fetch" /\ sync' = "wait" /\ short' = TRUE
  /\ UNCHANGED <<published, cached, event, got, heartbeat>>

\* Mutant: a request that came while the configuration was fetched is forgotten
\* when the wait begins.
Save_Forgets ==
  /\ sync = "save" /\ sync' = "wait" /\ cached' = got /\ short' = FALSE /\ event' = FALSE
  /\ UNCHANGED <<published, got, heartbeat>>

Save ==
  /\ sync = "save" /\ sync' = "wait" /\ cached' = got /\ short' = FALSE
  /\ UNCHANGED <<published, event, got, heartbeat>>

\* The file is replaced as a whole or not at all.
SaveFails ==
  /\ sync = "save" /\ sync' = "wait" /\ short' = TRUE
  /\ UNCHANGED <<published, cached, event, got, heartbeat>>

\* wait_for_config_sync: the event, or the interval is over; then the event is
\* cleared, in a step of its own.
Wake ==
  /\ sync = "wait" /\ sync' = (IF event THEN "woken" ELSE "fetch")
  /\ UNCHANGED <<published, cached, event, got, short, heartbeat>>

Clear ==
  /\ sync = "woken" /\ sync' = "fetch" /\ event' = FALSE
  /\ UNCHANGED <<published, cached, got, short, heartbeat>>

-----------------------------------------------------------------------------
(* heartbeat.main                                                            *)

\* The cloud answers; the answer takes its time, in which versions may follow.
Answered ==
  /\ beat = "rest" /\ beat' = "compare" /\ told' = published
  /\ UNCHANGED <<published, cached, event, sync, got, short, asked>>

\* process_config_version: a version other than that of the file ...
Compare ==
  /\ beat = "compare" /\ beat' = (IF cached = told THEN "rest" ELSE "ask")
  /\ UNCHANGED <<published, cached, event, sync, got, short, told, asked>>

\* ... is asked for.
Ask ==
  /\ beat = "ask" /\ beat' = "rest" /\ event' = TRUE
  /\ asked' = IF told > asked THEN told ELSE asked
  /\ UNCHANGED <<published, cached, sync, got, short, told>>

\* The process is restarted; what stays is the file.
Restart ==
  /\ event' = FALSE /\ sync' = "fetch" /\ got' = 0 /\ short' = FALSE /\ beat' = "rest" /\ told' = 0
  /\ UNCHANGED <<published, cached, asked>>

Next ==
  \/ Publish
  \/ Fetch \/ FetchFails \/ Save \/ SaveFails \/ Wake \/ Clear
  \/ Answered \/ Compare \/ Ask \/ Restart

Spec == Init /\ [][Next]_vars

-----------------------------------------------------------------------------
(* A version the heartbeat has asked for is not waited for a whole interval: *)
(* the file has it or a newer one, or the request still stands, or a fetch   *)
(* that will see it is under way, or the wait is the short one.              *)
Noticed ==
  cached < asked =>
    event \/ sync \in {"woken", "fetch"} \/ (sync = "save" /\ got >= asked) \/ (sync = "wait" /\ short)
=============================================================================
