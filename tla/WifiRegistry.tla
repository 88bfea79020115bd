---------------------------- MODULE WifiRegistry ----------------------------
(***************************************************************************)
(* The Wi-Fi devices an installation knows (wifi_native_onboarding.py):    *)
(* one file, written only by the worker thread.  Discovery probes the      *)
(* neighbours and then works in layers, each of which loads the file, adds *)
(* what it has learned and replaces it; a registration adds the name the   *)
(* user gave; a switch command loads the file, asks whoever has the stored *)
(* address and saves what it has loaded with the state it reads back (the  *)
(* state itself is left out here).                                         *)
(***************************************************************************)
EXTENDS Naturals, Functions, FiniteSets

CONSTANTS Devices,      \* hardware addresses: the keys of the registry
          Meters,       \* the Pro 3EM meters among them, the others switch
          Addresses,
          MaxMoves      \* addresses that DHCP gives anew

ASSUME RegistryAssumption == Meters \subseteq Devices /\ MaxMoves \in Nat

VARIABLES address,      \* address of each device, or "away"
          registry,     \* the file: device -> entry
          worker,       \* what the worker is doing
          found,        \* device -> address, of the discovery under way
          listed,       \* devices of the last result of a discovery
          copy,         \* the file as a switch command has loaded it
          named,        \* history: devices whose registration was reported
          moves

vars == <<address, registry, worker, found, listed, copy, named, moves>>

Profiles == {"switch", "meter"}
Entry == [at : Addresses, named : BOOLEAN, profile : Profiles, catalog : BOOLEAN]
Jobs == {"idle", "base", "entities", "merge", "meters", "set"}

TypeOK ==
    /\ address \in [Devices -> Addresses \cup {"away"}]
    /\ DOMAIN registry \subseteq Devices /\ \A d \in DOMAIN registry : registry[d] \in Entry
    /\ worker \in Jobs /\ listed \subseteq Devices /\ named \subseteq Devices /\ moves \in Nat
    /\ DOMAIN found \subseteq Devices /\ \A d \in DOMAIN found : found[d] \in Addresses
    /\ DOMAIN copy \subseteq Devices /\ \A d \in DOMAIN copy : copy[d] \in Entry

Nothing == [d \in {} |-> d]

Init ==
    /\ address \in [Devices -> Addresses] /\ IsInjective(address)
    /\ registry = Nothing /\ worker = "idle" /\ found = Nothing /\ listed = {}
    /\ copy = Nothing /\ named = {} /\ moves = 0

At(a) == {d \in Devices : address[d] = a}

\* load, change, save: the file is replaced as a whole
Replace(r) == registry' = r

(* The neighbour table and the probe of its addresses: of the devices that *)
(* are there any part answers.                                             *)
Probe ==
    /\ worker = "idle" /\ worker' = "base"
    /\ \E some \in SUBSET {d \in Devices : address[d] # "away"} : found' = [d \in some |-> address[d]]
    /\ UNCHANGED <<address, registry, listed, copy, named, moves>>

\* the entry a device found keeps, or a new one
Known(d) == IF d \in DOMAIN registry THEN registry[d]
          ELSE [at |-> found[d], named |-> FALSE, profile |-> "switch", catalog |-> FALSE]

Seen(d) == [Known(d) EXCEPT !.at = found[d], !.profile = "switch"]

Base ==
    /\ worker = "base" /\ worker' = "entities"
    /\ Replace([d \in DOMAIN registry \cup DOMAIN found |-> IF d \in DOMAIN found THEN Seen(d) ELSE registry[d]])
    /\ UNCHANGED <<address, found, listed, copy, named, moves>>

\* The catalogue of entities of those that answer once more.
Entities ==
    /\ worker = "entities" /\ worker' = "merge"
    /\ \E some \in SUBSET (DOMAIN found \cap DOMAIN registry) :
          Replace([d \in DOMAIN registry |-> [registry[d] EXCEPT !.catalog = @ \/ d \in some]])
    /\ UNCHANGED <<address, found, listed, copy, named, moves>>

\* The result also lists what is registered and did not answer now.
Merge ==
    /\ worker = "merge" /\ worker' = "meters"
    /\ listed' = DOMAIN found \cup {d \in DOMAIN registry : registry[d].named}
    /\ UNCHANGED <<address, registry, found, copy, named, moves>>

\* Mutant: only what was found now is kept.
EnrichMeters_Found ==
    /\ worker = "meters" /\ worker' = "idle" /\ found' = Nothing
    /\ Replace(Restrict(registry, DOMAIN found))
    /\ UNCHANGED <<address, listed, copy, named, moves>>

EnrichMeters ==
    /\ worker = "meters" /\ worker' = "idle" /\ found' = Nothing
    /\ \E some \in SUBSET (Meters \cap listed \cap DOMAIN registry) :
          Replace([d \in DOMAIN registry |->
                     IF d \in some THEN [registry[d] EXCEPT !.profile = "meter", !.catalog = TRUE] ELSE registry[d]])
    /\ UNCHANGED <<address, listed, copy, named, moves>>

\* register_wifi_device: what no discovery has found is refused
Register(d) ==
    /\ worker = "idle" /\ d \in DOMAIN registry
    /\ Replace([registry EXCEPT ![d].named = TRUE]) /\ named' = named \cup {d}
    /\ UNCHANGED <<address, worker, found, listed, copy, moves>>

(* set_wifi_switch_state: the file is loaded, the address is commanded and *)
(* read back, and only then the file is saved.                             *)
SetSwitch(d) ==
    /\ worker = "idle" /\ d \in DOMAIN registry /\ registry[d].profile = "switch"
    /\ worker' = "set" /\ copy' = registry
    /\ UNCHANGED <<address, registry, found, listed, named, moves>>

ReadBack ==
    /\ worker = "set" /\ worker' = "idle" /\ copy' = Nothing
    /\ Replace(copy) \/ UNCHANGED registry
    /\ UNCHANGED <<address, found, listed, named, moves>>

\* An exception ends the job: what the layers before it have saved remains.
Raised ==
    /\ worker \in {"base", "entities", "merge", "meters"} /\ worker' = "idle" /\ found' = Nothing
    /\ UNCHANGED <<address, registry, listed, copy, named, moves>>

Crash ==
    /\ worker' = "idle" /\ found' = Nothing /\ copy' = Nothing /\ listed' = {}
    /\ UNCHANGED <<address, registry, named, moves>>

\* DHCP gives a device another address that is free, or it leaves or returns.
Move(d) ==
    /\ moves < MaxMoves /\ moves' = moves + 1
    /\ \E a \in Addresses \cup {"away"} :
          (a = "away" \/ At(a) = {}) /\ address' = [address EXCEPT ![d] = a]
    /\ UNCHANGED <<registry, worker, found, listed, copy, named>>

Layers == Base \/ Entities \/ Merge \/ EnrichMeters

Next ==
    \/ Probe \/ Layers \/ ReadBack \/ Raised \/ Crash
    \/ \E d \in Devices : Register(d) \/ SetSwitch(d) \/ Move(d)

Spec == Init /\ [][Next]_vars

(* A device whose registration was reported keeps it, through discoveries  *)
(* that do not find it or find it elsewhere, jobs that fail half way, and  *)
(* crashes between the layers that replace the file.                       *)
NamesLast == \A d \in named : d \in DOMAIN registry /\ registry[d].named

=============================================================================
