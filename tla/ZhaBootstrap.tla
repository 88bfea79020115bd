---------------------------- MODULE ZhaBootstrap ----------------------------
(***************************************************************************)
(* The thread that creates the Zigbee network of a new installation once   *)
(* (zha_bootstrap.py): if Home Assistant has no ZHA entry and exactly one  *)
(* coordinator is ready, it walks through a config flow of Home Assistant  *)
(* and waits until the network runs.  Whatever happens, the thread then    *)
(* parks until the agent is restarted.  Answers can be lost after Home     *)
(* Assistant has acted on them, the user can add ZHA by hand, and a flow   *)
(* that a dead process has left goes on by itself.                         *)
(***************************************************************************)
EXTENDS Naturals

CONSTANTS MaxCrashes, MaxUserEntries

VARIABLES pc,         \* of the thread
          form,       \* step of the thread's flow in Home Assistant, "none": no flow
          orphan,     \* a flow nobody attends is forming a network
          entries,    \* ZHA entries of Home Assistant
          ready,      \* coordinators ready on a stable path
          begun,      \* history: flows begun by this process
          wasEmpty,   \* history: no entry existed when this process looked
          crashes, byUser

vars == <<pc, form, orphan, entries, ready, begun, wasEmpty, crashes, byUser>>

\* the steps of the flow, in order; "forming" is a progress that Home Assistant ends
Forms == <<"choose_serial_port", "verify_radio", "choose_setup_strategy", "forming", "create_entry">>
NoForm == 0

TypeOK ==
    /\ pc \in {"look", "coordinators", "begin", "flow", "abort", "runtime", "parked"}
    /\ form \in 0..5 /\ orphan \in BOOLEAN /\ entries \in Nat /\ ready \in 0..2
    /\ begun \in Nat /\ wasEmpty \in BOOLEAN

Init ==
    /\ pc = "look" /\ form = NoForm /\ orphan = FALSE
    /\ entries \in 0..1 /\ ready \in 0..2
    /\ begun = 0 /\ wasEmpty = FALSE /\ crashes = 0 /\ byUser = 0

Go(p) == pc' = p

Look ==
    /\ pc = "look"
    /\ \/ entries = 0 /\ Go("coordinators") /\ wasEmpty' = TRUE
       \/ entries # 0 /\ Go("parked") /\ UNCHANGED wasEmpty
       \/ UNCHANGED <<pc, wasEmpty>>        \* Home Assistant does not answer yet
    /\ UNCHANGED <<form, orphan, entries, ready, begun, crashes, byUser>>

Coordinators ==
    /\ pc = "coordinators"
    /\ \/ Go(CASE ready = 0 -> "look" [] ready = 1 -> "begin" [] OTHER -> "parked")
       \/ Go("parked")                      \* the state is unreadable or a path unstable
    /\ UNCHANGED <<form, orphan, entries, ready, begun, wasEmpty, crashes, byUser>>

Park == Go("parked")

BeginFlow ==
    /\ pc = "begin" /\ begun' = begun + 1
    /\ \/ form' = 1 /\ Go("flow")
       \/ form' \in {NoForm, 1} /\ Park     \* no answer: its flow, if any, stays open
    /\ UNCHANGED <<orphan, entries, ready, wasEmpty, crashes, byUser>>

\* Home Assistant offers to migrate where an entry exists by then
Offered == Forms[form] = "choose_setup_strategy" => entries = 0

\* One answer to the current form; with no good answer Home Assistant may have
\* gone on all the same.
Step ==
    /\ pc = "flow" /\ Forms[form] # "create_entry" /\ Offered
    /\ \/ form' = form + 1 /\ UNCHANGED pc
          /\ entries' = IF Forms[form + 1] = "create_entry" THEN entries + 1 ELSE entries
       \/ form' \in {form, form + 1} /\ Go("abort")
          /\ entries' = IF form' # form /\ Forms[form'] = "create_entry" THEN entries + 1 ELSE entries
    /\ UNCHANGED <<orphan, ready, begun, wasEmpty, crashes, byUser>>

\* another form, another menu, an abort by Home Assistant, or out of time
Refused ==
    /\ pc = "flow" /\ Forms[form] # "create_entry" /\ Go("abort")
    /\ UNCHANGED <<form, orphan, entries, ready, begun, wasEmpty, crashes, byUser>>

Created ==
    /\ pc = "flow" /\ Forms[form] = "create_entry" /\ form' = NoForm /\ Go("runtime")
    /\ UNCHANGED <<orphan, entries, ready, begun, wasEmpty, crashes, byUser>>

\* the flow is deleted if Home Assistant answers
AbortFlow ==
    /\ pc = "abort" /\ Park /\ form' \in {form, NoForm}
    /\ UNCHANGED <<orphan, entries, ready, begun, wasEmpty, crashes, byUser>>

\* exactly one entry and a coordinator that runs, or out of time: then nothing more
Runtime ==
    /\ pc = "runtime" /\ Park
    /\ UNCHANGED <<form, orphan, entries, ready, begun, wasEmpty, crashes, byUser>>

\* a new process; a network being formed goes on without it
Crash ==
    /\ crashes < MaxCrashes /\ crashes' = crashes + 1
    /\ Go("look") /\ begun' = 0 /\ wasEmpty' = FALSE /\ form' = NoForm
    /\ orphan' = (orphan \/ (form # NoForm /\ Forms[form] = "forming"))
    /\ UNCHANGED <<entries, ready, byUser>>

OrphanEnds ==
    /\ orphan /\ orphan' = FALSE /\ entries' = entries + 1
    /\ UNCHANGED <<pc, form, ready, begun, wasEmpty, crashes, byUser>>

UserAdds ==
    /\ byUser < MaxUserEntries /\ byUser' = byUser + 1 /\ entries' = entries + 1
    /\ UNCHANGED <<pc, form, orphan, ready, begun, wasEmpty, crashes>>

Plug ==
    /\ ready' \in 0..2
    /\ UNCHANGED <<pc, form, orphan, entries, begun, wasEmpty, crashes, byUser>>

Next == \/ Look \/ Coordinators \/ BeginFlow \/ Step \/ Refused \/ Created \/ AbortFlow \/ Runtime
        \/ Crash \/ OrphanEnds \/ UserAdds \/ Plug

Spec == Init /\ [][Next]_vars

\* "No further automatic attempt until the agent is restarted": a process begins
\* at most one flow, and only where it has seen no network, whichever answer was
\* lost, whichever step failed and whatever the user added meanwhile.
OneAttempt == begun <= 1 /\ (begun = 1 => wasEmpty)

=============================================================================
