---------------------------- MODULE NetworkProofs ----------------------------
(***************************************************************************)
(* Machine-checked proofs about the parts MCNetwork runs: the registry of  *)
(* the Wi-Fi devices and their telemetry, the onboarding behind the Host   *)
(* API, the creation of the Zigbee network and the pairing of devices,     *)
(* Reset OS, and the synchronisation of the configuration; for any         *)
(* devices, addresses, commands, runs and versions.                        *)
(***************************************************************************)
EXTENDS MCNetwork, TLAPS

\* A behaviour of the composition is one of each of its parts.
LEMMA PartsRun ==
  NetworkSpec => /\ Spec /\ B!Spec /\ H!Spec /\ Z!Spec /\ R!Spec /\ F!Spec
                 /\ T!Init /\ [][T!Next]_(T!vars)
<1> DEFINE Step == Registry \/ Shelly \/ Telemetry \/ Bootstrap \/ Host \/ Pairing \/ Reset \/ Config
<1>1. NetworkInit => Init /\ T!Init /\ B!Init /\ H!Init /\ Z!Init /\ R!Init /\ F!Init
  BY DEF NetworkInit
<1> USE DEF Registry, Shelly, Telemetry, Bootstrap, Host, Pairing, Reset, Config, all
<1>2. [Step]_all => [Next]_vars
  BY DEF vars
<1>3. [Step]_all => [T!Next]_(T!vars)
  BY DEF telemetry, T!vars, T!world
<1>4. [Step]_all => [B!Next]_(B!vars)
  BY DEF bootstrap, B!vars
<1>5. [Step]_all => [H!Next]_(H!vars)
  BY DEF host, H!vars
<1>6. [Step]_all => [Z!Next]_(Z!vars)
  BY DEF pairing, Z!vars, Z!world, Z!picture
<1>7. [Step]_all => [R!Next]_(R!vars)
  BY DEF reset, R!vars
<1>8. [Step]_all => [F!Next]_(F!vars)
  BY DEF config, F!vars, F!heartbeat
<1> QED
  BY <1>1, <1>2, <1>3, <1>4, <1>5, <1>6, <1>7, <1>8, PTL
  DEF NetworkSpec, Spec, B!Spec, H!Spec, Z!Spec, R!Spec, F!Spec

-----------------------------------------------------------------------------
(* The registry of Wi-Fi devices.                                            *)

(* The names are safe in the file, and in the copy of it that a switch     *)
(* command is about to save: nothing registers a device in between.        *)
HasNames(r) == \A d \in named : d \in DOMAIN r /\ r[d].named

RegistryInv ==
    /\ TypeOK
    /\ HasNames(registry)
    /\ worker = "set" => HasNames(copy)

\* What one layer of a discovery does to an entry.
LEMMA SeenKeeps ==
  ASSUME TypeOK, NEW d \in DOMAIN found
  PROVE  Seen(d) \in Entry /\ (d \in DOMAIN registry /\ registry[d].named => Seen(d).named)
<1>1. d \in Devices /\ found[d] \in Addresses
  BY DEF TypeOK
<1>2. Known(d) \in Entry
  BY <1>1 DEF TypeOK, Known, Entry, Profiles
<1>3. d \in DOMAIN registry => Known(d) = registry[d]
  BY DEF Known
<1> QED
  BY <1>1, <1>2, <1>3 DEF Seen, Entry, Profiles

\* The base layer rebuilds the entries it has found, and keeps the names.
LEMMA BaseKeeps ==
  ASSUME RegistryInv, Base
  PROVE  RegistryInv'
<1> DEFINE New(d) == IF d \in DOMAIN found THEN Seen(d) ELSE registry[d]
<1>1. registry' = [d \in DOMAIN registry \cup DOMAIN found |-> New(d)]
  BY DEF Base, Replace
<1>2. \A d \in DOMAIN registry \cup DOMAIN found : New(d) \in Entry
  BY SeenKeeps DEF RegistryInv, TypeOK
<1>3. \A d \in DOMAIN registry : registry[d].named => New(d).named
  BY SeenKeeps DEF RegistryInv
<1>4. DOMAIN registry' = DOMAIN registry \cup DOMAIN found
  BY <1>1
<1> HIDE DEF New
<1>5. \A d \in DOMAIN registry' : registry'[d] = New(d)
  BY <1>1, <1>4
<1> QED
  BY <1>2, <1>3, <1>4, <1>5 DEF RegistryInv, TypeOK, HasNames, Base, Jobs

\* The layers after it change an entry but for its name.
LEMMA EnrichedKeeps ==
  ASSUME RegistryInv, Entities \/ EnrichMeters
  PROVE  RegistryInv'
<1>1. /\ DOMAIN registry' = DOMAIN registry
      /\ \A d \in DOMAIN registry : registry'[d] \in Entry /\ registry'[d].named = registry[d].named
  <2>1. CASE Entities
    <3>1. PICK some \in SUBSET (DOMAIN found \cap DOMAIN registry) :
            registry' = [d \in DOMAIN registry |-> [registry[d] EXCEPT !.catalog = @ \/ d \in some]]
      BY <2>1 DEF Entities, Replace
    <3> QED
      BY <3>1 DEF RegistryInv, TypeOK, Entry
  <2>2. CASE EnrichMeters
    <3>1. PICK some \in SUBSET (Meters \cap listed \cap DOMAIN registry) :
            registry' = [d \in DOMAIN registry |->
              IF d \in some THEN [registry[d] EXCEPT !.profile = "meter", !.catalog = TRUE] ELSE registry[d]]
      BY <2>2 DEF EnrichMeters, Replace
    <3> QED
      BY <3>1 DEF RegistryInv, TypeOK, Entry, Profiles
  <2> QED
    BY <2>1, <2>2
<1>2. UNCHANGED <<address, listed, copy, named, moves>> /\ worker' \in {"merge", "idle"} /\ found' \in {found, Nothing}
  BY DEF Entities, EnrichMeters
<1> QED
  BY <1>1, <1>2 DEF RegistryInv, TypeOK, HasNames, Jobs, Nothing

\* A registration names an entry that is in the file.
LEMMA RegisterKeeps ==
  ASSUME RegistryInv, NEW d \in Devices, Register(d)
  PROVE  RegistryInv'
<1>1. registry' = [registry EXCEPT ![d].named = TRUE] /\ d \in DOMAIN registry
  BY DEF Register, Replace
<1>2. \A e \in DOMAIN registry : registry'[e] \in Entry /\ (registry[e].named => registry'[e].named)
  BY <1>1 DEF RegistryInv, TypeOK, Entry
<1>3. registry'[d].named
  BY <1>1 DEF RegistryInv, TypeOK, Entry
<1> QED
  BY <1>1, <1>2, <1>3 DEF RegistryInv, TypeOK, HasNames, Register, Jobs

\* Every step of the registry keeps types and names.
LEMMA RegistryKeeps ==
  ASSUME RegistryInv, [Next]_vars
  PROVE  RegistryInv'
<1>1. CASE Probe
  <2>1. PICK some \in SUBSET {d \in Devices : address[d] # "away"} : found' = [d \in some |-> address[d]]
    BY <1>1 DEF Probe
  <2> QED
    BY <1>1, <2>1 DEF Probe, RegistryInv, TypeOK, HasNames, Jobs
<1>2. CASE Layers
  <2>1. CASE Merge
    BY <2>1 DEF Merge, RegistryInv, TypeOK, HasNames, Jobs
  <2> QED
    BY <1>2, <2>1, BaseKeeps, EnrichedKeeps DEF Layers
<1>3. CASE ReadBack
  BY <1>3 DEF ReadBack, Replace, Nothing, RegistryInv, TypeOK, HasNames, Jobs
<1>4. CASE Raised \/ Crash
  BY <1>4 DEF Raised, Crash, Nothing, RegistryInv, TypeOK, HasNames, Jobs
<1>5. CASE \E d \in Devices : Register(d)
  BY <1>5, RegisterKeeps
<1>6. CASE \E d \in Devices : SetSwitch(d)
  BY <1>6 DEF SetSwitch, RegistryInv, TypeOK, HasNames, Jobs
<1>7. CASE \E d \in Devices : Move(d)
  BY <1>7 DEF Move, RegistryInv, TypeOK, HasNames
<1>8. CASE UNCHANGED vars
  BY <1>8 DEF vars, RegistryInv, TypeOK, HasNames
<1> QED
  BY <1>1, <1>2, <1>3, <1>4, <1>5, <1>6, <1>7, <1>8 DEF Next

\* So they hold along every behaviour.
LEMMA RegistryHolds == NetworkSpec => []RegistryInv
<1>1. Init => RegistryInv
  BY DEF Init, RegistryInv, TypeOK, HasNames, Nothing, Jobs
<1> QED
  BY <1>1, RegistryKeeps, PartsRun, PTL DEF Spec

\* Every state of the registry is of its type: an entry is whole, whatever layer or
\* command wrote it last.
THEOREM EntriesAreWhole == NetworkSpec => []TypeOK
BY RegistryHolds, PTL DEF RegistryInv

\* A device whose registration was reported keeps it.
THEOREM NamesAreKept == NetworkSpec => []NamesLast
<1>1. RegistryInv => NamesLast
  BY DEF RegistryInv, HasNames, NamesLast
<1> QED
  BY <1>1, RegistryHolds, PTL

-----------------------------------------------------------------------------
(* Telemetry and the onboarding of the host.                                 *)

TelemetryTypes ==
  /\ DOMAIN stored \subseteq T!Polled /\ cycle \in {"rest", "poll"}
  /\ report \in [T!Polled -> T!Values \cup {"none"}] /\ value \in [T!Polled -> T!Values]
  /\ heard \in [T!Polled -> SUBSET T!Values]

(* Between two cycles nothing is polled.  In a cycle the histories have all *)
(* that can be read now, and hardware once identified was there: so a read  *)
(* finds only what the cycle has heard, even if it ends after a move.       *)
ReadsAreHeard ==
  /\ cycle = "rest" => queue = <<>> /\ asked = {} /\ known = {}
  /\ cycle = "poll" => \A d \in DOMAIN stored :
       T!Answering(d, tAddress, value) \subseteq heard[d] /\ (T!AtStored(d, tAddress) => d \in there)
  /\ \A d \in known : d \in DOMAIN stored /\ d \in there
  /\ \A d \in T!Polled : report[d] # "none" => d \in DOMAIN stored /\ d \in there /\ report[d] \in heard[d]

TelemetryInv == TelemetryTypes /\ ReadsAreHeard

\* What can be read are values.
LEMMA AnswersAreValues ==
  ASSUME TelemetryTypes, NEW d \in T!Polled
  PROVE  T!Answering(d, tAddress, value) \in SUBSET T!Values
BY DEF TelemetryTypes, T!Answering

\* Nothing is reported before the first cycle.
LEMMA TelemetryStarts == T!Init => TelemetryInv
BY DEF T!Init, T!Unread, T!Values, TelemetryInv, TelemetryTypes, ReadsAreHeard

\* What a change of the devices in the world does.
LEMMA ObserveKeeps ==
  ASSUME TelemetryInv, NEW at, NEW val \in [T!Polled -> T!Values], T!Observe(at, val),
         tAddress' = at, value' = val,
         UNCHANGED <<stored, cycle, queue, asked, known, report>>
  PROVE  TelemetryInv'
<1>1. \A d \in DOMAIN stored : T!Answering(d, at, val) \in SUBSET T!Values
  BY DEF TelemetryInv, TelemetryTypes, T!Answering
<1>2. \A d \in DOMAIN stored : heard'[d] = heard[d] \cup T!Answering(d, at, val)
  BY DEF T!Observe, TelemetryInv, TelemetryTypes
<1>3. \A d \in DOMAIN stored : T!Answering(d, tAddress, value)' = T!Answering(d, at, val)
  BY DEF T!Answering
<1>4. \A d \in T!Polled : d \in there' <=> (d \in there \/ T!AtStored(d, at))
  BY DEF T!Observe
<1>5. \A d \in DOMAIN stored : T!AtStored(d, tAddress)' <=> T!AtStored(d, at)
  BY DEF T!AtStored
<1>6. TelemetryTypes'
  BY <1>1 DEF T!Observe, TelemetryInv, TelemetryTypes
<1>7. ReadsAreHeard'
  BY <1>2, <1>3, <1>4, <1>5 DEF TelemetryInv, TelemetryTypes, ReadsAreHeard
<1> QED
  BY <1>6, <1>7 DEF TelemetryInv

\* Every step of a cycle, and every late answer, keeps it.
LEMMA TelemetryKeeps == TelemetryInv /\ [T!Next]_(T!vars) => TelemetryInv'
<1> SUFFICES ASSUME TelemetryInv, [T!Next]_(T!vars) PROVE TelemetryInv'
  OBVIOUS
<1> USE DEF TelemetryInv, TelemetryTypes, ReadsAreHeard, T!world
<1>1. CASE T!Begin
  <2>1. \A d \in DOMAIN stored : T!Answering(d, tAddress, value) \in SUBSET T!Values
    BY DEF T!Answering
  <2>2. /\ stored' = stored /\ value' = value /\ cycle' = "poll" /\ cycle = "rest" /\ known' = {}
        /\ report' = T!Unread
        /\ \A d \in DOMAIN stored : heard'[d] = T!Answering(d, tAddress, value)
        /\ \A d \in T!Polled : d \in there' <=> T!AtStored(d, tAddress)
        /\ heard' \in [T!Polled -> SUBSET T!Values]
    BY <1>1, <2>1 DEF T!Begin, T!Blank
  <2>3. \A d : /\ T!Answering(d, tAddress, value)' = T!Answering(d, tAddress, value)
               /\ T!AtStored(d, tAddress)' <=> T!AtStored(d, tAddress)
    BY <1>1 DEF T!Begin, T!Answering, T!AtStored
  <2> QED
    BY <2>2, <2>3 DEF T!Unread, T!Values
<1>2. CASE T!Take
  BY <1>2 DEF T!Take, T!Answering, T!AtStored
<1>3. CASE T!Deadline
  BY <1>3 DEF T!Deadline
<1>4. ASSUME NEW d \in T!Polled, T!Identify(d) \/ T!Fail(d) \/ T!LateEnd(d) PROVE TelemetryInv'
  BY <1>4 DEF T!Identify, T!Fail, T!LateEnd, T!Answering, T!AtStored
<1>5. ASSUME NEW d \in T!Polled, T!Read(d) PROVE TelemetryInv'
  <2>1. PICK v \in T!Answering(d, tAddress, value) : report' = [report EXCEPT ![d] = v]
    BY <1>5 DEF T!Read
  <2>2. v \in heard[d] /\ v \in T!Values
    BY <1>5, <2>1, AnswersAreValues DEF T!Read
  <2> QED
    BY <1>5, <2>1, <2>2 DEF T!Read, T!Answering, T!AtStored
<1>6. ASSUME NEW d \in T!Polled, T!Rewrite(d) PROVE TelemetryInv'
  BY <1>6 DEF T!Rewrite
<1>7. ASSUME NEW d \in T!Polled, T!Move(d) \/ T!Change(d) PROVE TelemetryInv'
  <2>1. CASE T!Move(d)
    BY <2>1, ObserveKeeps DEF T!Move
  <2>2. CASE T!Change(d)
    <3>1. value' \in [T!Polled -> T!Values]
      BY <2>2 DEF T!Change, T!Values
    <3> QED
      BY <2>2, <3>1, ObserveKeeps DEF T!Change
  <2> QED
    BY <1>7, <2>1, <2>2
<1>8. CASE UNCHANGED T!vars
  BY <1>8 DEF T!vars, T!Answering, T!AtStored
<1> QED
  BY <1>1, <1>2, <1>3, <1>4, <1>5, <1>6, <1>7, <1>8 DEF T!Next

\* A run of the onboarding is somewhere, and a status that says that one is under way is true.
HostInv == place \in [Runs -> {"none", "checked"} \cup H!Running] /\ H!UnderWay

\* No onboarding runs at first.
LEMMA HostStarts == H!Init => HostInv
BY DEF H!Init, HostInv, H!UnderWay

\* Every step of a run of the onboarding keeps it.
LEMMA HostKeeps == HostInv /\ [H!Next]_(H!vars) => HostInv'
<1> SUFFICES ASSUME HostInv, [H!Next]_(H!vars) PROVE HostInv'
  OBVIOUS
<1> USE DEF HostInv, H!UnderWay, H!Running
<1>1. ASSUME NEW r \in Runs, H!Check(r) PROVE HostInv'
  BY <1>1 DEF H!Check, H!Move
<1>2. ASSUME NEW r \in Runs, H!Begin(r) \/ H!Connected(r) \/ H!NetworkUp(r) PROVE HostInv'
  BY <1>2 DEF H!Begin, H!Connected, H!NetworkUp, H!Move
<1>3. ASSUME NEW r \in Runs, H!Accepted(r) \/ H!Save(r) PROVE HostInv'
  BY <1>3 DEF H!Accepted, H!Save, H!Move
<1>4. ASSUME NEW r \in Runs, H!Prepared(r) \/ H!Fails(r) PROVE HostInv'
  BY <1>4 DEF H!Prepared, H!Fails, H!Move
<1>5. CASE H!Reset \/ UNCHANGED H!vars
  BY <1>5 DEF H!Reset, H!vars
<1> QED
  BY <1>1, <1>2, <1>3, <1>4, <1>5 DEF H!Next

\* A reported value was to be read, in this cycle, at the stored address of its device,
\* which was there; and no status hangs.
THEOREM ReportsAreTrue == NetworkSpec => []TrueReports
<1>1. TelemetryInv /\ HostInv => TrueReports
  BY DEF TelemetryInv, ReadsAreHeard, HostInv, TrueReports, T!TrueReport
<1> QED
  BY <1>1, TelemetryStarts, TelemetryKeeps, HostStarts, HostKeeps, PartsRun, PTL DEF H!Spec

-----------------------------------------------------------------------------
(* Zigbee.                                                                   *)

\* The thread begins a flow once at most: before it has, it has looked.
BootstrapInv ==
  /\ begun \in 0..1 /\ (begun = 1 => wasEmpty = TRUE)
  /\ bPc \in {"look", "coordinators", "begin"} => begun = 0
  /\ bPc \in {"coordinators", "begin"} => wasEmpty = TRUE

\* No flow has begun at first.
LEMMA BootstrapStarts == B!Init => BootstrapInv
BY DEF B!Init, BootstrapInv

\* Every step of the thread and of Home Assistant keeps it.
LEMMA BootstrapKeeps == BootstrapInv /\ [B!Next]_(B!vars) => BootstrapInv'
<1> SUFFICES ASSUME BootstrapInv, [B!Next]_(B!vars) PROVE BootstrapInv'
  OBVIOUS
<1> USE DEF BootstrapInv, B!Go, B!Park
<1>1. CASE B!Look \/ B!BeginFlow
  BY <1>1 DEF B!Look, B!BeginFlow
<1>2. CASE B!Coordinators
  <2>1. bPc = "coordinators" /\ UNCHANGED <<begun, wasEmpty>>
    BY <1>2 DEF B!Coordinators
  <2> QED
    BY <2>1
<1>3. CASE B!Step \/ B!Refused
  <2>1. bPc = "flow" /\ bPc' \in {"flow", "abort"} /\ UNCHANGED <<begun, wasEmpty>>
    BY <1>3 DEF B!Step, B!Refused
  <2> QED
    BY <2>1
<1>4. CASE B!Created \/ B!AbortFlow \/ B!Runtime
  <2>1. bPc' \in {"runtime", "parked"} /\ UNCHANGED <<begun, wasEmpty>>
    BY <1>4 DEF B!Created, B!AbortFlow, B!Runtime
  <2> QED
    BY <2>1
<1>5. CASE B!Crash
  <2>1. bPc' = "look" /\ begun' = 0 /\ wasEmpty' = FALSE
    BY <1>5 DEF B!Crash
  <2> QED
    BY <2>1
<1>6. CASE B!OrphanEnds \/ B!UserAdds \/ B!Plug \/ UNCHANGED B!vars
  <2>1. UNCHANGED <<bPc, begun, wasEmpty>>
    BY <1>6 DEF B!OrphanEnds, B!UserAdds, B!Plug, B!vars
  <2> QED
    BY <2>1
<1> QED
  BY <1>1, <1>2, <1>3, <1>4, <1>5, <1>6 DEF B!Next

\* The places of a command between its picture of the inventory and a device detected.
Looking == {"permit", "primary", "fallback"}

(* What the picture is worth: whatever differs from it has been touched     *)
(* since it was begun.  A device detected is one of those, unless the       *)
(* command takes a sensor that is there already.                            *)
PictureSays ==
  /\ DOMAIN zha \subseteq Zigbee
  /\ zPc \in Looking =>
       \A d \in DOMAIN zha : d \notin touched => d \in DOMAIN zhaBefore /\ zha[d] = zhaBefore[d]
  /\ zPc \in Looking \cup {"inventory"} =>
       \A d, c : <<d, c>> \in entities /\ <<d, c>> \notin entitiesBefore => d \in touched

DetectedSays ==
  zPc = "verify" =>
    /\ mode # "building" => detected \subseteq touched
    /\ mode = "replacement" => OldDevice \notin detected

PairingInv ==
  /\ zPc = "existing" => mode = "building"
  /\ zPc # "idle" => result = "none"
  /\ PictureSays /\ DetectedSays /\ Z!PairedRight

\* Nothing is paired at first.
LEMMA PairingStarts == Z!Init => PairingInv
BY PairingAssumption
DEF Z!Init, PairingInv, PictureSays, DetectedSays, Z!PairedRight, Looking, Z!Everyone

\* A device that has come back is another than the picture shows.
LEMMA FoundWasTouched ==
  ASSUME PictureSays, zPc \in {"primary", "fallback"}
  PROVE  /\ Z!Returned \subseteq touched \ Z!Excluded
         /\ Z!Appeared \subseteq touched \ Z!Excluded
<1>1. ASSUME NEW d \in Z!Returned PROVE d \in touched /\ d \notin Z!Excluded
  BY <1>1 DEF Z!Returned, Z!Rejoined, PictureSays, Looking
<1>2. ASSUME NEW d \in Z!Appeared PROVE d \in touched /\ d \notin Z!Excluded
  BY <1>2 DEF Z!Appeared, PictureSays, Looking
<1> QED
  BY <1>1, <1>2

\* What Home Assistant does meanwhile.
LEMMA EventKeeps ==
  ASSUME PairingInv,
         (\E d \in Zigbee : Z!Join(d) \/ Z!Silence(d)) \/ (\E d \in Z!Everyone, c \in Z!Classes : Z!Appear(d, c))
  PROVE  PairingInv'
<1>1. UNCHANGED <<zPc, mode, zhaBefore, entitiesBefore, detected, result>> /\ touched \subseteq touched'
  BY DEF Z!Join, Z!Silence, Z!Appear, Z!Event, Z!picture
<1>2. /\ DOMAIN zha' \subseteq Zigbee
      /\ \A d \in DOMAIN zha' : d \notin touched' => d \in DOMAIN zha /\ zha'[d] = zha[d]
  BY DEF PairingInv, PictureSays, Z!Join, Z!Silence, Z!Appear, Z!Event
<1>3. \A d, c : <<d, c>> \in entities' /\ <<d, c>> \notin entities => d \in touched'
  <2>1. CASE \E d \in Zigbee : Z!Join(d) \/ Z!Silence(d)
    BY <2>1 DEF Z!Join, Z!Silence
  <2>2. ASSUME NEW d \in Z!Everyone, NEW c \in Z!Classes, Z!Appear(d, c)
        PROVE  \A e, k : <<e, k>> \in entities' /\ <<e, k>> \notin entities => e \in touched'
    BY <2>2 DEF Z!Appear, Z!Event
  <2> QED
    BY <2>1, <2>2
<1>4. PictureSays'
  BY <1>1, <1>2, <1>3 DEF PairingInv, PictureSays
<1>5. DetectedSays' /\ Z!PairedRight'
  BY <1>1 DEF PairingInv, DetectedSays, Z!PairedRight
<1> QED
  BY <1>1, <1>4, <1>5 DEF PairingInv

\* Every step of a pairing and of the house keeps it.
LEMMA PairingKeeps == PairingInv /\ [Z!Next]_(Z!vars) => PairingInv'
<1> SUFFICES ASSUME PairingInv, [Z!Next]_(Z!vars) PROVE PairingInv'
  OBVIOUS
<1> USE DEF Z!world, Z!picture
<1>1. CASE Z!Start
  <2>1. /\ zPc' \in {"existing", "entities"} /\ (zPc' = "existing" => mode' = "building")
        /\ result' = "none" /\ zha' = zha
    BY <1>1 DEF Z!Start
  <2> QED
    BY <2>1, PairingAssumption DEF PairingInv, PictureSays, DetectedSays, Looking, Z!PairedRight, Z!Everyone
<1>2. CASE Z!Fail
  <2>1. zPc' = "idle" /\ result' = "failed" /\ zha' = zha
    BY <1>2 DEF Z!Fail, Z!End
  <2> QED
    BY <2>1, PairingAssumption DEF PairingInv, PictureSays, DetectedSays, Looking, Z!PairedRight, Z!Everyone
<1>3. CASE Z!Existing
  <2>1. zPc = "existing" /\ zPc' \in {"entities", "verify"} /\ UNCHANGED <<zha, mode, result>>
    BY <1>3 DEF Z!Existing
  <2> QED
    BY <2>1, PairingAssumption DEF PairingInv, PictureSays, DetectedSays, Looking, Z!PairedRight, Z!Everyone
<1>4. CASE Z!PictureEntities
  BY <1>4, PairingAssumption
  DEF Z!PictureEntities, PairingInv, PictureSays, DetectedSays, Looking, Z!PairedRight, Z!Everyone
<1>5. CASE Z!PictureInventory
  BY <1>5, PairingAssumption
  DEF Z!PictureInventory, PairingInv, PictureSays, DetectedSays, Looking, Z!PairedRight, Z!Everyone
<1>6. CASE Z!Permit
  BY <1>6 DEF Z!Permit, Z!Go, PairingInv, PictureSays, DetectedSays, Looking, Z!PairedRight
<1>7. CASE Z!Primary \/ Z!Fallback
  <2>1. zPc \in {"primary", "fallback"} /\ UNCHANGED <<zha, entities, touched, mode, zhaBefore, entitiesBefore, result>>
    BY <1>7 DEF Z!Primary, Z!Fallback, Z!Go, Z!Detect
  <2>2. \/ zPc' \in {"primary", "fallback"}
        \/ zPc' = "verify" /\ \E d \in Z!Returned \cup Z!Appeared : detected' = {d}
    BY <1>7 DEF Z!Primary, Z!Fallback, Z!Go, Z!Detect
  <2>3. zPc' = "verify" => detected' \subseteq touched \ Z!Excluded
    BY <2>1, <2>2, FoundWasTouched DEF PairingInv
  <2>4. DetectedSays'
    BY <2>1, <2>3 DEF DetectedSays, Z!Excluded
  <2> QED
    BY <2>1, <2>2, <2>4 DEF PairingInv, PictureSays, Looking, Z!PairedRight
<1>8. CASE Z!Verify
  <2>1. PICK d \in detected : zPc = "verify" /\ Z!End(IF Z!Suits(d) THEN d ELSE "failed")
    BY <1>8 DEF Z!Verify
  <2>2. zPc' = "idle" /\ UNCHANGED <<zha, entities, touched, mode>>
    BY <2>1 DEF Z!End
  <2>3. CASE Z!Suits(d)
    <3>1. result' = d
      BY <2>1, <2>3 DEF Z!End
    <3>2. mode = "infrastructure" => d \in DOMAIN zha
      BY <2>3, Zenon DEF Z!Suits
    <3>3. Z!PairedRight'
      BY <2>1, <2>2, <3>1, <3>2 DEF PairingInv, PictureSays, DetectedSays, Z!PairedRight
    <3> QED
      BY <2>2, <3>3 DEF PairingInv, PictureSays, DetectedSays, Looking
  <2>4. CASE ~Z!Suits(d)
    <3>1. result' = "failed"
      BY <2>1, <2>4 DEF Z!End
    <3> QED
      BY <2>2, <3>1, PairingAssumption
      DEF PairingInv, PictureSays, DetectedSays, Looking, Z!PairedRight, Z!Everyone
  <2> QED
    BY <2>3, <2>4
<1>9. CASE UNCHANGED Z!vars
  BY <1>9 DEF Z!vars, PairingInv, PictureSays, DetectedSays, Z!PairedRight
<1> QED
  BY <1>1, <1>2, <1>3, <1>4, <1>5, <1>6, <1>7, <1>8, <1>9, EventKeeps DEF Z!Next

\* A process attempts to create the Zigbee network once, where it has seen none; and
\* what a command reports as paired is a device to which something has happened since
\* its picture, never the one to be replaced.
THEOREM ZigbeeIsRight == NetworkSpec => []ZigbeeOnce
<1>1. BootstrapInv /\ PairingInv => ZigbeeOnce
  BY DEF BootstrapInv, B!OneAttempt, PairingInv, ZigbeeOnce
<1> QED
  BY <1>1, BootstrapStarts, BootstrapKeeps, PairingStarts, PairingKeeps, PartsRun, PTL DEF B!Spec, Z!Spec

-----------------------------------------------------------------------------
(* What the cloud asks for.                                                  *)

ResetTypes ==
  /\ expires \in [Commands -> 1..MaxTime] /\ hand \in Commands \cup {None} /\ now \in Int
  /\ file \in [cmd : Commands \cup {None}, at : Int] /\ restarts \in [Commands -> Nat]

(* The file names the last attempt only, yet no attempt is made twice: the  *)
(* time of an attempt lies in the validity of its command, the times in the *)
(* file grow by the cooldown at least, and that is longer than a validity.  *)
AttemptsAreOrdered ==
  /\ rPc # "idle" => hand \in Commands /\ now = expires[hand] - 1
  /\ rPc = "allowed" => R!CooldownOver(hand)
  /\ rPc = "recorded" => file = [cmd |-> hand, at |-> now] /\ restarts[hand] = 0
  /\ \A c \in Commands : restarts[c] >= 1 => file # R!NoAttempt /\ file.at >= expires[c] - 1

ResetInv == ResetTypes /\ AttemptsAreOrdered /\ R!OncePerCommand

\* No command has restarted the system at first.
LEMMA ResetStarts == R!Init => ResetInv
BY DEF R!Init, R!NoAttempt, ResetInv, ResetTypes, AttemptsAreOrdered, R!OncePerCommand

\* Every step of the worker, and of a clock set at will, keeps it.
LEMMA ResetKeeps == ResetInv /\ [R!Next]_(R!vars) => ResetInv'
<1> SUFFICES ASSUME ResetInv, [R!Next]_(R!vars) PROVE ResetInv'
  OBVIOUS
<1> USE DEF ResetInv, ResetTypes, AttemptsAreOrdered, R!OncePerCommand
<1>1. ASSUME NEW c \in Commands, R!Claim(c) PROVE ResetInv'
  BY <1>1, ResetAssumption DEF R!Claim, R!Current
<1>2. CASE R!Refuse \/ R!Crash
  BY <1>2 DEF R!Refuse, R!Crash
<1>3. CASE R!Allow
  BY <1>3 DEF R!Allow, R!CooldownOver
<1>4. CASE R!Record
  \* The command has not restarted anything: an attempt of its own would be in the file,
  \* or one that came at least the cooldown after it.
  <2>1. hand \in Commands /\ now = expires[hand] - 1 /\ R!CooldownOver(hand)
    BY <1>4 DEF R!Record
  <2>2. \A c \in Commands : restarts[c] >= 1 => file.at >= expires[c] - 1 /\ now - file.at >= Cooldown
    BY <2>1 DEF R!CooldownOver
  <2>3. restarts[hand] = 0
    BY <2>1, <2>2, ResetAssumption
  <2>4. file'.at = now /\ file' # R!NoAttempt /\ file' \in [cmd : Commands \cup {None}, at : Int]
    BY <1>4, <2>1, ResetAssumption DEF R!Record, R!NoAttempt
  <2>5. \A c \in Commands : restarts[c] >= 1 => now >= expires[c] - 1
    BY <2>2, ResetAssumption
  <2> QED
    BY <1>4, <2>1, <2>3, <2>4, <2>5 DEF R!Record
<1>5. CASE R!Restart
  <2>1. file # R!NoAttempt /\ file.at = expires[hand] - 1 /\ hand \in Commands /\ restarts[hand] = 0
    BY <1>5, ResetAssumption DEF R!Restart, R!NoAttempt
  <2>2. /\ \A c \in Commands : restarts'[c] = restarts[c] \/ (c = hand /\ restarts'[c] = 1)
        /\ restarts' \in [Commands -> Nat]
    BY <1>5, <2>1 DEF R!Restart
  <2> QED
    BY <1>5, <2>1, <2>2 DEF R!Restart
<1>6. CASE R!CoreStarts \/ R!Tick \/ (\E t \in 0..MaxTime : R!Corrected(t)) \/ UNCHANGED R!vars
  BY <1>6 DEF R!CoreStarts, R!Tick, R!Corrected, R!vars, R!CooldownOver
<1> QED
  BY <1>1, <1>2, <1>3, <1>4, <1>5, <1>6 DEF R!Next

\* Nobody knows a version the cloud has not published, and what is fetched and not
\* yet saved is not older than the file: one thread fetches and saves.
VersionsKnown ==
  /\ published \in Nat /\ cached \in 0..published /\ got \in 0..published
  /\ told \in 0..published /\ wanted \in 0..published
  /\ sync = "save" => got >= cached

SyncPlaces == sync \in {"fetch", "save", "wait", "woken"} /\ event \in BOOLEAN /\ short \in BOOLEAN

ConfigInv == VersionsKnown /\ SyncPlaces /\ F!Noticed

\* Every step of heartbeat and synchronisation keeps it.
LEMMA ConfigKeeps ==
  ASSUME ConfigInv, [F!Next]_(F!vars)
  PROVE  ConfigInv'
<1> USE DEF F!heartbeat
<1>1. CASE F!Publish
  BY <1>1 DEF F!Publish, ConfigInv, VersionsKnown, SyncPlaces, F!Noticed
<1>2. CASE F!Fetch
  BY <1>2 DEF F!Fetch, ConfigInv, VersionsKnown, SyncPlaces, F!Noticed
<1>3. CASE F!FetchFails
  BY <1>3 DEF F!FetchFails, ConfigInv, VersionsKnown, SyncPlaces, F!Noticed
<1>4. CASE F!Save
  \* What was wanted for and not fetched is still requested.
  <2>1. VersionsKnown' /\ SyncPlaces'
    BY <1>4 DEF F!Save, ConfigInv, VersionsKnown, SyncPlaces
  <2>2. got >= wanted \/ event
    BY <1>4 DEF F!Save, ConfigInv, VersionsKnown, F!Noticed
  <2>3. F!Noticed'
    BY <1>4, <2>2 DEF F!Save, ConfigInv, VersionsKnown, F!Noticed
  <2> QED
    BY <2>1, <2>3 DEF ConfigInv
<1>5. CASE F!SaveFails
  BY <1>5 DEF F!SaveFails, ConfigInv, VersionsKnown, SyncPlaces, F!Noticed
<1>6. CASE F!Wake
  BY <1>6 DEF F!Wake, ConfigInv, VersionsKnown, SyncPlaces, F!Noticed
<1>7. CASE F!Clear
  BY <1>7 DEF F!Clear, ConfigInv, VersionsKnown, SyncPlaces, F!Noticed
<1>8. CASE F!Answered \/ F!Compare
  BY <1>8 DEF F!Answered, F!Compare, ConfigInv, VersionsKnown, SyncPlaces, F!Noticed
<1>9. CASE F!Ask
  BY <1>9 DEF F!Ask, ConfigInv, VersionsKnown, SyncPlaces, F!Noticed
<1>10. CASE F!Restart
  <2>1. VersionsKnown'
    BY <1>10 DEF F!Restart, ConfigInv, VersionsKnown
  <2>2. SyncPlaces' /\ F!Noticed'
    BY <1>10 DEF F!Restart, SyncPlaces, F!Noticed
  <2> QED
    BY <2>1, <2>2 DEF ConfigInv
<1>11. CASE UNCHANGED F!vars
  BY <1>11 DEF F!vars, ConfigInv, VersionsKnown, SyncPlaces, F!Noticed
<1> QED
  BY <1>1, <1>2, <1>3, <1>4, <1>5, <1>6, <1>7, <1>8, <1>9, <1>10, <1>11 DEF F!Next

\* At first one version is published and none is cached.
LEMMA ConfigStarts == F!Init => ConfigInv
<1>1. F!Init => VersionsKnown
  BY DEF F!Init, VersionsKnown
<1>2. F!Init => SyncPlaces /\ F!Noticed
  BY DEF F!Init, SyncPlaces, F!Noticed
<1> QED
  BY <1>1, <1>2 DEF ConfigInv

\* So it holds along every behaviour.
LEMMA ConfigHolds == NetworkSpec => []ConfigInv
BY ConfigStarts, ConfigKeeps, PartsRun, PTL DEF F!Spec

\* A command restarts the system once at most, although the file keeps only the last
\* attempt; and a version the heartbeat has asked for is not left to the regular interval.
THEOREM CloudIsHeard == NetworkSpec => []CloudHeard
<1>1. ResetInv /\ ConfigInv => CloudHeard
  BY DEF ResetInv, ConfigInv, CloudHeard
<1> QED
  BY <1>1, ResetStarts, ResetKeeps, ConfigHolds, PartsRun, PTL DEF R!Spec

\* The version of the cached configuration only grows.
NeverBack == [][cached' >= cached]_all

\* A configuration is never replaced by an older one, whatever requests, fetches and
\* failed saves of the synchronisation meet.
THEOREM FileNeverGoesBack == NetworkSpec => NeverBack
<1>1. ASSUME ConfigInv, [F!Next]_(F!vars) PROVE cached' >= cached
  BY <1>1
  DEF ConfigInv, VersionsKnown, F!vars, F!Next, F!Publish, F!Fetch, F!FetchFails, F!Save, F!SaveFails,
      F!Wake, F!Clear, F!Answered, F!Compare, F!Ask, F!Restart, F!heartbeat
<1> QED
  BY <1>1, ConfigHolds, PartsRun, PTL DEF F!Spec, NeverBack
=============================================================================
