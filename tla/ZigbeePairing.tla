---------------------------- MODULE ZigbeePairing ----------------------------
(***************************************************************************)
(* The command that pairs a Zigbee device (execute_zigbee_permit_join with *)
(* wait_for_new_device).  A room sensor that is there already is taken;    *)
(* otherwise the worker takes a picture of all entities and of the ZHA     *)
(* inventory, opens the network and looks, in turns, for a ZHA device that *)
(* is new or has come back and for an entity that is new.  Home Assistant  *)
(* is never still: devices join, fall silent, come back under another      *)
(* network address, and their entities appear one after the other, also    *)
(* those of other integrations.                                            *)
(***************************************************************************)
EXTENDS Naturals

CONSTANTS Zigbee,      \* devices that ZHA can know
          Foreign,     \* devices of other integrations
          Old,         \* the device a replacement names as current_device_id
          MaxEvents    \* events of Home Assistant in a behaviour

VARIABLES zha,                        \* the ZHA inventory
          entities,                   \* <<device, class>> of the entities of Home Assistant
          pc, mode,                   \* of the command
          zhaBefore, entitiesBefore,  \* the picture
          found,                      \* the device detected, as a set of at most one
          result,                     \* "none", "failed" or the device reported
          touched,                    \* history: devices with an event since the picture
          events

world == <<zha, entities, touched, events>>
picture == <<zhaBefore, entitiesBefore>>
vars == <<world, pc, mode, picture, found, result>>

Everyone == Zigbee \cup Foreign
Modes == {"building", "replacement", "infrastructure", "water_temperature", "output_switch"}
Classes == {"temperature", "output"}
Device == [available : BOOLEAN, nwk : {1, 2}]

TypeOK ==
    /\ DOMAIN zha \subseteq Zigbee /\ \A d \in DOMAIN zha : zha[d] \in Device
    /\ entities \subseteq Everyone \X Classes /\ entitiesBefore \subseteq Everyone \X Classes
    /\ pc \in {"idle", "existing", "entities", "inventory", "permit", "primary", "fallback", "verify"}
    /\ mode \in Modes /\ found \subseteq Everyone /\ result \in {"none", "failed"} \cup Everyone

Nothing == [d \in {} |-> d]

Init ==
    /\ zha \in [{Old} -> [available : BOOLEAN, nwk : {1}]] /\ entities = {<<Old, "temperature">>}
    /\ pc = "idle" /\ mode = "building" /\ zhaBefore = Nothing /\ entitiesBefore = {}
    /\ found = {} /\ result = "none" /\ touched = {} /\ events = 0

Go(p) == pc' = p /\ UNCHANGED <<world, mode, picture, found, result>>

\* the contexts a command may have, after its own checks
Start ==
    /\ pc = "idle" /\ mode' \in Modes /\ found' = {} /\ result' = "none"
    /\ pc' = IF mode' = "building" THEN "existing" ELSE "entities"
    /\ UNCHANGED <<world, picture>>

End(outcome) == pc' = "idle" /\ result' = outcome /\ UNCHANGED <<world, mode, picture, found>>

\* Home Assistant does not answer, or the time is over: reported as failed
Fail == pc # "idle" /\ End("failed")

\* a device whose temperature can be read now
Reads(d) == <<d, "temperature">> \in entities /\ (d \in Zigbee => d \in DOMAIN zha /\ zha[d].available)

Existing ==
    /\ pc = "existing" /\ UNCHANGED <<world, mode, picture, result>>
    /\ LET candidates == {d \in Zigbee : Reads(d)}
       IN \/ candidates = {} /\ pc' = "entities" /\ UNCHANGED found
          \/ \E d \in candidates : candidates = {d} /\ found' = {d} /\ pc' = "verify"

PictureEntities ==
    /\ pc = "entities" /\ pc' = "inventory" /\ entitiesBefore' = entities /\ touched' = {}
    /\ UNCHANGED <<zha, entities, events, mode, zhaBefore, found, result>>

PictureInventory ==
    /\ pc = "inventory" /\ pc' = "permit" /\ zhaBefore' = zha
    /\ UNCHANGED <<world, mode, entitiesBefore, found, result>>

Permit == pc = "permit" /\ Go("primary")

Excluded == IF mode = "replacement" THEN {Old} ELSE {}

Detect(some) ==
    /\ \E d \in some : found' = {d}
    /\ pc' = "verify" /\ UNCHANGED <<world, mode, picture, result>>

Rejoined(d) == zha[d].available /\ (~zhaBefore[d].available \/ zha[d].nwk # zhaBefore[d].nwk)

\* Mutant: the device to replace is left out of one of the two ways only.
Returned_All == {d \in DOMAIN zha : d \notin DOMAIN zhaBefore \/ Rejoined(d)}
Returned == {d \in DOMAIN zha \ Excluded : d \notin DOMAIN zhaBefore \/ Rejoined(d)}

Primary ==
    /\ pc = "primary"
    /\ IF Returned = {} THEN Go("fallback") ELSE Detect(Returned)

Appeared == {d \in Everyone \ Excluded : \E c \in Classes : <<d, c>> \in entities \ entitiesBefore}

Fallback ==
    /\ pc = "fallback"
    /\ IF Appeared = {} THEN Go("primary") ELSE Detect(Appeared)

\* what the context asks of the device, three seconds later
Suits(d) ==
    CASE mode = "infrastructure" -> d \in DOMAIN zha
      [] mode = "output_switch" -> <<d, "output">> \in entities
      [] OTHER -> Reads(d)

Verify == pc = "verify" /\ \E d \in found : End(IF Suits(d) THEN d ELSE "failed")

Event(d) ==
    /\ events < MaxEvents /\ events' = events + 1 /\ touched' = touched \cup {d}
    /\ UNCHANGED <<pc, mode, picture, found, result>>

\* a device joins, again or for the first time, under some network address
Join(d) ==
    /\ Event(d) /\ UNCHANGED entities
    /\ \E n \in {1, 2} : zha' = [x \in DOMAIN zha \cup {d} |->
                                   IF x = d THEN [available |-> TRUE, nwk |-> n] ELSE zha[x]]

Silence(d) ==
    /\ d \in DOMAIN zha /\ Event(d) /\ UNCHANGED entities
    /\ zha' = [zha EXCEPT ![d].available = FALSE]

\* only what has joined has entities
Appear(d, c) ==
    /\ d \in DOMAIN zha \cup Foreign /\ Event(d) /\ UNCHANGED zha
    /\ entities' = entities \cup {<<d, c>>}

Next ==
    \/ Start \/ Fail \/ Existing \/ PictureEntities \/ PictureInventory \/ Permit \/ Primary
    \/ Fallback \/ Verify
    \/ \E d \in Zigbee : Join(d) \/ Silence(d)
    \/ \E d \in Everyone, c \in Classes : Appear(d, c)

Spec == Init /\ [][Next]_vars

\* "Waits for a new ZHA device or one that has come back": what is reported as
\* newly paired is a device to which something has happened since the picture,
\* whichever of the two ways has found it; in a replacement it is never the device
\* to be replaced, even where that one comes back too; and the network's own
\* devices are in the ZHA inventory.
PairedRight ==
    result \in Everyone =>
      /\ mode # "building" => result \in touched
      /\ mode = "replacement" => result # Old
      /\ mode = "infrastructure" => result \in Zigbee

=============================================================================
