------------------------- MODULE InstallationProofs -------------------------
(***************************************************************************)
(* Machine-checked proofs about the identity of a device in Installation,  *)
(* for any number of concurrent requests, lost answers, failed saves and   *)
(* crashes.                                                                *)
(***************************************************************************)
EXTENDS Installation, TLAPS

\* The claim of the identity on disk, and the places of a provisioning.
OnDisk == [pid |-> boot, token |-> cred]
Claiming == {"claim", "ident", "publish identity"}

-----------------------------------------------------------------------------
(* The inductive invariant: what each request knows agrees with the files. *)

\* A request works for the provisioning id on disk, and from its claim on with
\* the credential on disk, whoever drew them.
WorksForDisk ==
  \A h \in Handlers :
    /\ at[h].pc \in {"look", "put"} \cup Claiming => boot # None /\ at[h].pid = boot
    /\ at[h].pc = "put" => at[h].tok # None
    /\ at[h].pc \in Claiming => cred # None /\ at[h].tok = cred

\* It finalises only what the cloud has given, registers only an identity that
\* is there, and publishes only what is registered.
InOrder ==
  \A h \in Handlers :
    /\ at[h].pc \in {"ident", "publish identity"} => OnDisk \in claims
    /\ at[h].pc \in {"register", "publish"} => ident # None
    /\ at[h].pc = "publish" => ident \in registered

\* The identity is the one of the provisioning id.
IdentityOfDisk == ident # None => ident = boot /\ OnDisk \in claims

IInv == TypeOK /\ WorksForDisk /\ InOrder /\ IdentityOfDisk /\ OneClaim /\ BackedByCloud

\* What the connections and the access point share of a step.
KeepsIdentity == UNCHANGED <<disk, cloud>>

USE DEF disk, cloud, wlan, net, Fault, OnDisk, Claiming

-----------------------------------------------------------------------------
(* The steps of a request that do not touch the identity: they go to places *)
(* that know nothing of it.                                                *)

Elsewhere == Places \ ({"look", "put", "register", "publish"} \cup Claiming)

\* A request that only moves on, outside the places the invariant speaks of, keeps it.
LEMMA MovesElsewhere ==
  ASSUME IInv, KeepsIdentity, NEW h \in Handlers,
         at' = [at EXCEPT ![h] = at'[h]], at'[h].pc \in Elsewhere
  PROVE  WorksForDisk' /\ InOrder' /\ IdentityOfDisk' /\ OneClaim' /\ BackedByCloud'
<1>1. \A g \in Handlers : g # h => at'[g] = at[g]
  BY DEF IInv, TypeOK
<1> QED
  BY <1>1 DEF IInv, KeepsIdentity, Elsewhere, WorksForDisk, InOrder, IdentityOfDisk, OneClaim, BackedByCloud

-----------------------------------------------------------------------------
(* Types.  A request moves within its places; everything else by cases.     *)

\* A request that goes on to a place is there.
LEMMA GotoTyped ==
  ASSUME TypeOK, NEW h \in Handlers, NEW place \in Places, Goto(h, place)
  PROVE  /\ at' \in [Handlers -> Handling]
         /\ at'[h].pc = place
         /\ place # "idle" => at'[h].pid = at[h].pid /\ at'[h].tok = at[h].tok
         /\ at' = [at EXCEPT ![h] = at'[h]]
<1>1. at \in [Handlers -> Handling]
  BY DEF TypeOK
<1>2. DEFINE new == IF place = "idle" THEN Idle ELSE [at[h] EXCEPT !.pc = place]
<1>3. new \in Handling /\ new.pc = place /\ (place # "idle" => new.pid = at[h].pid /\ new.tok = at[h].tok)
  BY <1>1 DEF Idle, Handling, Places
<1>4. at' = [at EXCEPT ![h] = new]
  BY DEF Goto
<1> QED
  BY <1>1, <1>3, <1>4

\* A request of the portal, and the steps of one that do not touch the identity.
Connection(h) ==
  \/ ApplyWired(h) \/ ApplyWifi(h) \/ ChangeWifi(h)
  \/ Release(h) \/ WaitStopped(h) \/ Connect(h) \/ Finish(h) \/ RestoreAccessPoint(h)

\* Connecting to a network moves one request, and never into provisioning.
LEMMA ConnectionMoves ==
  ASSUME TypeOK, NEW h \in Handlers, Connection(h)
  PROVE  at' \in [Handlers -> Handling] /\ at' = [at EXCEPT ![h] = at'[h]] /\ at'[h].pc \in Elsewhere
<1>1. at \in [Handlers -> Handling]
  BY DEF TypeOK
<1>2. CASE ApplyWired(h) \/ ApplyWifi(h) \/ ChangeWifi(h)
  <2>1. PICK kind \in {"wired", "wifi", "change"}, place \in {"factory", "queued"} :
          at' = [at EXCEPT ![h] = [Idle EXCEPT !.kind = kind, !.pc = place]]
    BY <1>2 DEF ApplyWired, ApplyWifi, ChangeWifi, Post
  <2> DEFINE new == [Idle EXCEPT !.kind = kind, !.pc = place]
  <2>2. new \in Handling /\ new.pc \in Elsewhere
    BY DEF Idle, Handling, Places, Elsewhere
  <2> QED
    BY <1>1, <2>1, <2>2
<1>3. CASE ~(ApplyWired(h) \/ ApplyWifi(h) \/ ChangeWifi(h))
  <2>1. \E place \in {"idle", "waiting", "failed", "connect", "factory"} : Goto(h, place)
    BY <1>3 DEF Connection, Release, WaitStopped, Connect, Joined, Finish, RestoreAccessPoint
  <2>2. PICK place \in {"idle", "waiting", "failed", "connect", "factory"} : Goto(h, place)
    BY <2>1
  <2>3. place \in Places /\ place \in Elsewhere
    BY DEF Places, Elsewhere
  <2> QED
    BY <2>2, <2>3, GotoTyped
<1> QED
  BY <1>2, <1>3

\* It keeps the types and touches neither identity nor cloud.
LEMMA ConnectionTyped ==
  ASSUME TypeOK, NEW h \in Handlers, Connection(h)
  PROVE  TypeOK' /\ KeepsIdentity
<1>1. KeepsIdentity /\ UNCHANGED <<mgr, applied, wired, main>>
  BY DEF Connection, ApplyWired, ApplyWifi, ChangeWifi, Post, Release, WaitStopped, Connect,
         Finish, RestoreAccessPoint, KeepsIdentity
<1>2. request' \in Requests /\ ap' \in BOOLEAN /\ client' \in BOOLEAN /\ profile' \in {"none", "good", "bad"}
  BY DEF Connection, ApplyWired, ApplyWifi, ChangeWifi, Post, Release, WaitStopped, Connect,
         Finish, RestoreAccessPoint, TypeOK, Requests
<1>3. lost' \in BOOLEAN
  BY DEF Connection, ApplyWired, ApplyWifi, ChangeWifi, Post, Release, WaitStopped, Connect,
         Finish, RestoreAccessPoint, TypeOK
<1>4. UNCHANGED faults \/ Fault
  BY DEF Connection, ApplyWired, ApplyWifi, ChangeWifi, Post, Release, WaitStopped, Connect,
         Finish, RestoreAccessPoint
<1>5. faults' \in 0..MaxFaults
  BY <1>4, InstallationAssumption DEF TypeOK
<1> QED
  BY <1>1, <1>2, <1>3, <1>5, ConnectionMoves DEF TypeOK, KeepsIdentity

\* So it keeps the invariant.
LEMMA ConnectionKeeps ==
  ASSUME IInv, NEW h \in Handlers, Connection(h)
  PROVE  IInv'
BY ConnectionTyped, ConnectionMoves, MovesElsewhere DEF IInv

-----------------------------------------------------------------------------
(* The steps that draw, claim and publish the identity.                      *)

Provisioning(h) ==
  \/ Factory(h) \/ LookCredential(h) \/ PutCredential(h) \/ Claim(h)
  \/ LookIdentity(h) \/ PublishIdentity(h) \/ Register(h) \/ PublishDevice(h)

\* Provisioning leaves the network alone and counts its faults.
LEMMA ProvisioningFaults ==
  ASSUME TypeOK, NEW h \in Handlers, Provisioning(h)
  PROVE  UNCHANGED <<net, main, lost>> /\ faults' \in 0..MaxFaults
<1>1. UNCHANGED <<net, main, lost>>
  BY DEF Provisioning, Factory, LookCredential, PutCredential, Claim, LookIdentity,
         PublishIdentity, Register, PublishDevice
<1>2. UNCHANGED faults \/ Fault
  BY DEF Provisioning, Factory, LookCredential, PutCredential, Claim, LookIdentity,
         PublishIdentity, Register, PublishDevice, NotCalled, Call
<1> QED
  BY <1>1, <1>2, InstallationAssumption DEF TypeOK

\* A request that gives up is outside provisioning.
LEMMA FailureIsElsewhere ==
  ASSUME NEW h PROVE Failure(h) \in Places /\ Failure(h) \in Elsewhere /\ Failure(h) \in {"idle", "failed"}
BY DEF Failure, Places, Elsewhere

\* The last conjuncts of TypeOK, for a step that has kept the others.
Rest == UNCHANGED <<net, main, lost>> /\ faults' \in 0..MaxFaults

\* Every step of the factory provisioning keeps the invariant.
LEMMA FactoryKeeps ==
  ASSUME IInv, NEW h \in Handlers, Factory(h)
  PROVE  IInv'
<1>0. Rest
  BY ProvisioningFaults DEF Provisioning, Rest, IInv
<1>1. at \in [Handlers -> Handling]
  BY DEF IInv, TypeOK
<1>2. CASE ident # None /\ Goto(h, "register") /\ UNCHANGED boot
  <2>1. /\ at' \in [Handlers -> Handling] /\ at'[h].pc = "register"
        /\ \A g \in Handlers : g # h => at'[g] = at[g]
    BY <1>1, <1>2, GotoTyped DEF IInv, Places
  <2>2. KeepsIdentity
    BY <1>2 DEF Factory, KeepsIdentity
  <2>3. TypeOK'
    BY <1>0, <2>1, <2>2 DEF Rest, IInv, TypeOK, KeepsIdentity
  <2>4. IdentityOfDisk' /\ OneClaim' /\ BackedByCloud'
    BY <2>2 DEF IInv, KeepsIdentity, IdentityOfDisk, OneClaim, BackedByCloud
  <2>5. WorksForDisk' /\ InOrder'
    BY <1>2, <2>1, <2>2 DEF IInv, KeepsIdentity, WorksForDisk, InOrder
  <2> QED
    BY <2>3, <2>4, <2>5 DEF IInv
<1>3. CASE ident = None /\ Bootstrap(h)
  <2>1. boot' \in Handlers /\ boot' # None /\ (boot # None => boot' = boot)
    BY <1>3, InstallationAssumption DEF Bootstrap, Once, IInv, TypeOK
  <2> DEFINE new == [at[h] EXCEPT !.pc = "look", !.pid = boot']
  <2>2. at' = [at EXCEPT ![h] = new]
    BY <1>1, <1>3 DEF Bootstrap, Handling
  <2>3. new \in Handling /\ new.pc = "look" /\ new.pid = boot'
    BY <1>1, <2>1 DEF Handling, Places
  <2>4. /\ at' \in [Handlers -> Handling] /\ at'[h] = new
        /\ \A g \in Handlers : g # h => at'[g] = at[g]
    BY <1>1, <2>2, <2>3
  <2>5. UNCHANGED <<cred, ident, device, claims, registered>>
    BY DEF Factory
  <2>6. boot = None => claims = {}
    BY InstallationAssumption DEF IInv, TypeOK, OneClaim
  <2>7. TypeOK' /\ BackedByCloud'
    BY <1>0, <2>1, <2>4, <2>5 DEF Rest, IInv, TypeOK, BackedByCloud
  <2>8. OneClaim' /\ IdentityOfDisk'
    BY <1>3, <2>1, <2>5, <2>6 DEF IInv, OneClaim, IdentityOfDisk
  <2> HIDE DEF new
  <2>9. WorksForDisk' /\ InOrder'
    BY <2>1, <2>3, <2>4, <2>5 DEF IInv, WorksForDisk, InOrder
  <2> QED
    BY <2>7, <2>8, <2>9 DEF IInv
<1>4. CASE Goto(h, Failure(h)) /\ UNCHANGED boot
  <2>1. at' \in [Handlers -> Handling] /\ at' = [at EXCEPT ![h] = at'[h]] /\ at'[h].pc \in Elsewhere
    BY <1>4, GotoTyped, FailureIsElsewhere DEF IInv
  <2>2. KeepsIdentity
    BY <1>4 DEF Factory, KeepsIdentity
  <2> QED
    BY <1>0, <2>1, <2>2, MovesElsewhere DEF Rest, IInv, TypeOK, KeepsIdentity
<1> QED
  BY <1>2, <1>3, <1>4 DEF Factory, NotCalled

\* What is on disk stays, what the cloud has given stays: so the other requests
\* keep what they know.
Grows ==
  /\ boot # None => boot' = boot
  /\ cred # None => cred' = cred
  /\ ident # None => ident' = ident
  /\ claims \subseteq claims' /\ registered \subseteq registered'

\* What request h itself has to know at its new place.
OwnPlace(h) ==
  /\ at[h].pc \in {"look", "put"} \cup Claiming => boot # None /\ at[h].pid = boot
  /\ at[h].pc = "put" => at[h].tok # None
  /\ at[h].pc \in Claiming => cred # None /\ at[h].tok = cred
  /\ at[h].pc \in {"ident", "publish identity"} => OnDisk \in claims
  /\ at[h].pc \in {"register", "publish"} => ident # None
  /\ at[h].pc = "publish" => ident \in registered

Moves(h) ==
  /\ at' \in [Handlers -> Handling]
  /\ \A g \in Handlers : g # h => at'[g] = at[g]

\* What one request does to files and cloud spoils nothing for the others.
LEMMA OthersKeep ==
  ASSUME IInv, NEW h \in Handlers, Moves(h), Grows, OwnPlace(h)'
  PROVE  WorksForDisk' /\ InOrder'
<1>1. ASSUME NEW g \in Handlers, g # h
      PROVE  /\ at[g].pc \in {"look", "put"} \cup Claiming => boot' # None /\ at[g].pid = boot'
             /\ at[g].pc = "put" => at[g].tok # None
             /\ at[g].pc \in Claiming => cred' # None /\ at[g].tok = cred'
             /\ at[g].pc \in {"ident", "publish identity"} => OnDisk' \in claims'
             /\ at[g].pc \in {"register", "publish"} => ident' # None
             /\ at[g].pc = "publish" => ident' \in registered'
  BY DEF IInv, WorksForDisk, InOrder, Grows
<1> QED
  BY <1>1 DEF Moves, OwnPlace, WorksForDisk, InOrder

\* Reading the credential back makes the request work for what is on disk.
LEMMA LookCredentialKeeps ==
  ASSUME IInv, NEW h \in Handlers, LookCredential(h)
  PROVE  IInv'
<1>0. Rest /\ KeepsIdentity
  BY ProvisioningFaults DEF Provisioning, Rest, IInv, LookCredential, KeepsIdentity
<1>1. at \in [Handlers -> Handling] /\ cred \in Handlers \cup {None}
  BY DEF IInv, TypeOK
<1> DEFINE new == [at[h] EXCEPT !.pc = IF cred # None THEN "claim" ELSE "put",
                                !.tok = IF cred # None THEN cred ELSE h]
<1>2. at' = [at EXCEPT ![h] = new]
  BY DEF LookCredential
<1>3. new \in Handling /\ new.pid = at[h].pid /\ new.pc \in {"claim", "put"}
      /\ (new.pc = "claim" => cred # None /\ new.tok = cred) /\ (new.pc = "put" => new.tok # None)
  BY <1>1, InstallationAssumption DEF Handling, Places
<1>4. Moves(h) /\ at'[h] = new
  BY <1>1, <1>2, <1>3 DEF Moves
<1> HIDE DEF new
<1>5. boot # None /\ at[h].pid = boot
  BY DEF LookCredential, At, IInv, WorksForDisk
<1>6. OwnPlace(h)'
  BY <1>0, <1>3, <1>4, <1>5 DEF OwnPlace, KeepsIdentity
<1>7. WorksForDisk' /\ InOrder'
  BY <1>0, <1>4, <1>6, OthersKeep DEF Grows, KeepsIdentity
<1>8. TypeOK' /\ IdentityOfDisk' /\ OneClaim' /\ BackedByCloud'
  BY <1>0, <1>4 DEF Rest, Moves, KeepsIdentity, IInv, TypeOK, IdentityOfDisk, OneClaim, BackedByCloud
<1> QED
  BY <1>7, <1>8 DEF IInv

\* Whoever links the credential first, all go on with the one on disk.
LEMMA PutCredentialKeeps ==
  ASSUME IInv, NEW h \in Handlers, PutCredential(h)
  PROVE  IInv'
<1>0. Rest /\ UNCHANGED <<boot, ident, device, claims, registered>>
  BY ProvisioningFaults DEF Provisioning, Rest, IInv, PutCredential
<1>1. at \in [Handlers -> Handling] /\ boot # None /\ at[h].pid = boot /\ at[h].tok # None
  BY DEF IInv, TypeOK, PutCredential, At, WorksForDisk
<1>2. at[h].tok \in Handlers /\ cred' = Once(cred, at[h].tok)
  BY <1>1 DEF Handling, PutCredential
<1>3. cred' \in Handlers /\ cred' # None /\ (cred # None => cred' = cred)
  BY <1>2, InstallationAssumption DEF Once, IInv, TypeOK
<1> DEFINE new == [at[h] EXCEPT !.pc = "claim", !.tok = cred']
<1>4. new \in Handling /\ new.pid = boot /\ new.pc = "claim" /\ new.tok = cred'
  BY <1>1, <1>3 DEF Handling, Places
<1>5. Moves(h) /\ at'[h] = new
  <2>1. at' = [at EXCEPT ![h] = new]
    BY DEF PutCredential
  <2> QED
    BY <1>1, <1>4, <2>1 DEF Moves
<1> HIDE DEF new
<1>6. cred = None => claims = {}
  BY InstallationAssumption DEF IInv, TypeOK, OneClaim
<1>7. OwnPlace(h)'
  BY <1>0, <1>1, <1>3, <1>4, <1>5 DEF OwnPlace
<1>8. WorksForDisk' /\ InOrder'
  BY <1>0, <1>3, <1>5, <1>7, OthersKeep DEF Grows
<1>9. TypeOK'
  BY <1>0, <1>3, <1>5 DEF Rest, Moves, IInv, TypeOK
<1>10. IdentityOfDisk' /\ OneClaim' /\ BackedByCloud'
  BY <1>0, <1>3, <1>6 DEF IInv, IdentityOfDisk, OneClaim, BackedByCloud
<1> QED
  BY <1>8, <1>9, <1>10 DEF IInv

\* A request that has only moved, to a place that knows nothing or to one whose
\* obligations are met.
LEMMA GotoMoves ==
  ASSUME IInv, NEW h \in Handlers, NEW place \in Places, Goto(h, place)
  PROVE  Moves(h) /\ at'[h].pc = place /\ (place # "idle" => at'[h].pid = at[h].pid /\ at'[h].tok = at[h].tok)
BY GotoTyped DEF Moves, IInv

\* Giving up keeps the invariant.
LEMMA FailureKeeps ==
  ASSUME IInv, NEW h \in Handlers, Goto(h, Failure(h)), KeepsIdentity, Rest
  PROVE  IInv'
<1>1. at' \in [Handlers -> Handling] /\ at' = [at EXCEPT ![h] = at'[h]] /\ at'[h].pc \in Elsewhere
  BY GotoTyped, FailureIsElsewhere DEF IInv
<1> QED
  BY <1>1, MovesElsewhere DEF Rest, IInv, TypeOK, KeepsIdentity

\* However often the cloud is asked, it is asked for what is on disk.
LEMMA ClaimKeeps ==
  ASSUME IInv, NEW h \in Handlers, Claim(h)
  PROVE  IInv'
<1>0. Rest /\ UNCHANGED <<boot, cred, ident, device, registered>>
  BY ProvisioningFaults DEF Provisioning, Rest, IInv, Claim
<1>1. boot # None /\ at[h].pid = boot /\ cred # None /\ at[h].tok = cred
  BY DEF IInv, Claim, At, WorksForDisk
<1>2. CASE UNCHANGED claims /\ Goto(h, Failure(h))
  BY <1>0, <1>2, FailureKeeps DEF KeepsIdentity
<1>3. CASE /\ claims' = claims \cup {OnDisk}
           /\ Goto(h, "ident") \/ Goto(h, Failure(h))
  <2>1. PICK place \in {"ident", "idle", "failed"} : Goto(h, place)
    BY <1>3, FailureIsElsewhere
  <2>2. Moves(h) /\ at'[h].pc = place /\ (place # "idle" => at'[h].pid = boot /\ at'[h].tok = cred)
    BY <1>1, <2>1, GotoMoves DEF Places
  <2>3. OwnPlace(h)'
    BY <1>0, <1>1, <1>3, <2>2 DEF OwnPlace
  <2>4. WorksForDisk' /\ InOrder'
    BY <1>0, <1>3, <2>2, <2>3, OthersKeep DEF Grows
  <2>5. OnDisk \in [pid : Handlers, token : Handlers]
    BY <1>1 DEF IInv, TypeOK
  <2>6. TypeOK'
    BY <1>0, <1>3, <2>2, <2>5 DEF Rest, Moves, IInv, TypeOK
  <2>7. OneClaim' /\ IdentityOfDisk'
    BY <1>0, <1>3 DEF IInv, OneClaim, IdentityOfDisk
  <2>8. BackedByCloud'
    BY <1>0, <1>3 DEF IInv, BackedByCloud
  <2> QED
    BY <2>4, <2>6, <2>7, <2>8 DEF IInv
<1>4. [pid |-> at[h].pid, token |-> at[h].tok] = OnDisk
  BY <1>1
<1> QED
  BY <1>2, <1>3, <1>4 DEF Claim, Call, NotCalled

\* A request that finds an identity goes on with that one.
LEMMA LookIdentityKeeps ==
  ASSUME IInv, NEW h \in Handlers, LookIdentity(h)
  PROVE  IInv'
<1>0. Rest /\ KeepsIdentity
  BY ProvisioningFaults DEF Provisioning, Rest, IInv, LookIdentity, KeepsIdentity
<1>1. /\ boot # None /\ at[h].pid = boot /\ cred # None /\ at[h].tok = cred /\ OnDisk \in claims
  BY DEF IInv, LookIdentity, At, WorksForDisk, InOrder
<1>2. CASE Goto(h, Failure(h))
  BY <1>0, <1>2, FailureKeeps
<1>3. CASE \/ ident # None /\ Goto(h, "register")
           \/ ident = None /\ Goto(h, "publish identity")
  <2>1. PICK place \in {"register", "publish identity"} : Goto(h, place) /\ (place = "register" => ident # None)
    BY <1>3
  <2>2. Moves(h) /\ at'[h].pc = place /\ at'[h].pid = boot /\ at'[h].tok = cred
    BY <1>1, <2>1, GotoMoves DEF Places
  <2>3. OwnPlace(h)'
    BY <1>0, <1>1, <2>1, <2>2 DEF OwnPlace, KeepsIdentity
  <2>4. WorksForDisk' /\ InOrder'
    BY <1>0, <2>2, <2>3, OthersKeep DEF Grows, KeepsIdentity
  <2>5. TypeOK'
    BY <1>0, <2>2 DEF Rest, Moves, KeepsIdentity, IInv, TypeOK
  <2>6. IdentityOfDisk' /\ OneClaim' /\ BackedByCloud'
    BY <1>0 DEF KeepsIdentity, IInv, IdentityOfDisk, OneClaim, BackedByCloud
  <2> QED
    BY <2>4, <2>5, <2>6 DEF IInv
<1> QED
  BY <1>2, <1>3 DEF LookIdentity, Compare

\* An identity is published create-once, and only as the cloud gave it.
LEMMA PublishIdentityKeeps ==
  ASSUME IInv, NEW h \in Handlers, PublishIdentity(h)
  PROVE  IInv'
<1>0. Rest /\ UNCHANGED <<boot, cred, device, claims, registered>>
  BY ProvisioningFaults DEF Provisioning, Rest, IInv, PublishIdentity
<1>1. /\ boot # None /\ at[h].pid = boot /\ OnDisk \in claims
  BY DEF IInv, PublishIdentity, At, WorksForDisk, InOrder
<1>2. ident' = boot /\ (ident # None => ident' = ident)
  BY <1>1 DEF PublishIdentity, Once, IInv, IdentityOfDisk
<1>3. PICK place \in {"register", "idle", "failed"} : Goto(h, place)
  BY FailureIsElsewhere DEF PublishIdentity, Compare
<1>4. Moves(h) /\ at'[h].pc = place
  BY <1>3, GotoMoves DEF Places
<1>5. OwnPlace(h)'
  BY <1>1, <1>2, <1>4 DEF OwnPlace
<1>6. WorksForDisk' /\ InOrder'
  BY <1>0, <1>2, <1>4, <1>5, OthersKeep DEF Grows
<1>7. TypeOK'
  BY <1>0, <1>2, <1>4 DEF Rest, Moves, IInv, TypeOK
<1>8. IdentityOfDisk' /\ OneClaim'
  BY <1>0, <1>1, <1>2 DEF IInv, IdentityOfDisk, OneClaim
<1>9. BackedByCloud'
  BY <1>0, <1>1, <1>2, InstallationAssumption DEF IInv, TypeOK, BackedByCloud
<1> QED
  BY <1>6, <1>7, <1>8, <1>9 DEF IInv

\* The cloud has acted before the device is published, whether or not an earlier
\* answer was lost.
LEMMA RegisterKeeps ==
  ASSUME IInv, NEW h \in Handlers, Register(h)
  PROVE  IInv'
<1>0. Rest /\ UNCHANGED <<boot, cred, ident, device, claims>>
  BY ProvisioningFaults DEF Provisioning, Rest, IInv, Register
<1>1. ident # None
  BY DEF IInv, Register, At, InOrder
<1>2. CASE Goto(h, Failure(h)) /\ UNCHANGED registered
  BY <1>0, <1>2, FailureKeeps DEF KeepsIdentity
<1>3. CASE /\ registered' \in {registered, registered \cup {ident}}
           /\ \/ Goto(h, "publish") /\ ident \in registered'
              \/ Goto(h, "finish") \/ Goto(h, Failure(h))
  <2>1. PICK place \in {"publish", "finish", "idle", "failed"} :
          Goto(h, place) /\ (place = "publish" => ident \in registered')
    BY <1>3, FailureIsElsewhere
  <2>2. Moves(h) /\ at'[h].pc = place
    BY <2>1, GotoMoves DEF Places
  <2>3. OwnPlace(h)'
    BY <1>0, <1>1, <2>1, <2>2 DEF OwnPlace
  <2>4. WorksForDisk' /\ InOrder'
    BY <1>0, <1>3, <2>2, <2>3, OthersKeep DEF Grows
  <2>5. registered' \subseteq Handlers
    BY <1>1, <1>3 DEF IInv, TypeOK
  <2>6. TypeOK'
    BY <1>0, <2>2, <2>5 DEF Rest, Moves, IInv, TypeOK
  <2>7. IdentityOfDisk' /\ OneClaim' /\ BackedByCloud'
    BY <1>0, <1>3 DEF IInv, IdentityOfDisk, OneClaim, BackedByCloud
  <2> QED
    BY <2>4, <2>6, <2>7 DEF IInv
<1> QED
  BY <1>2, <1>3 DEF Register, Call, NotCalled

\* A registration is published create-once, for the identity on disk.
LEMMA PublishDeviceKeeps ==
  ASSUME IInv, NEW h \in Handlers, PublishDevice(h)
  PROVE  IInv'
<1>0. Rest /\ UNCHANGED <<boot, cred, ident, claims, registered>>
  BY ProvisioningFaults DEF Provisioning, Rest, IInv, PublishDevice
<1>1. ident # None /\ ident \in registered
  BY DEF IInv, PublishDevice, At, InOrder
<1>2. device' = ident
  BY DEF PublishDevice, Once, IInv, BackedByCloud
<1>3. PICK place \in {"finish", "idle", "failed"} : Goto(h, place)
  BY FailureIsElsewhere DEF PublishDevice
<1>4. Moves(h) /\ at'[h].pc = place
  BY <1>3, GotoMoves DEF Places
<1>5. OwnPlace(h)'
  BY <1>4 DEF OwnPlace
<1>6. WorksForDisk' /\ InOrder'
  BY <1>0, <1>4, <1>5, OthersKeep DEF Grows
<1>7. TypeOK'
  BY <1>0, <1>2, <1>4 DEF Rest, Moves, IInv, TypeOK
<1>8. IdentityOfDisk' /\ OneClaim' /\ BackedByCloud'
  BY <1>0, <1>1, <1>2 DEF IInv, IdentityOfDisk, OneClaim, BackedByCloud
<1> QED
  BY <1>6, <1>7, <1>8 DEF IInv

-----------------------------------------------------------------------------
(* The manager, main and NetworkManager do not know the identity; a crash  *)
(* ends all requests.                                                      *)

NetTyped ==
  /\ request \in Requests /\ applied \in Requests
  /\ mgr \in (Requests \ {"none"}) \cup {None}
  /\ ap \in BOOLEAN /\ client \in BOOLEAN /\ wired \in BOOLEAN
  /\ profile \in {"none", "good", "bad"}
  /\ main \in {"start", "waiting", "ask", "fallback", "service", "running"}
  /\ lost \in BOOLEAN

Network == Manager \/ Main \/ AutoConnect

\* The manager, main and NetworkManager keep the types of the network.
LEMMA NetworkTyped ==
  ASSUME NetTyped, Network
  PROVE  NetTyped'
<1>1. CASE Reconcile
  BY <1>1 DEF Reconcile, NetTyped, Requests
<1>2. CASE BringUp \/ TakeDown
  <2>1. mgr' = None /\ applied' \in Requests
    BY <1>2 DEF BringUp, TakeDown, Carry, NetTyped, Requests
  <2>2. ap' \in BOOLEAN /\ client' \in BOOLEAN
    BY <1>2 DEF BringUp, TakeDown, Carry, NetTyped
  <2>3. UNCHANGED <<request, profile, wired, main, lost>>
    BY <1>2 DEF BringUp, TakeDown, Carry
  <2> QED
    BY <2>1, <2>2, <2>3 DEF NetTyped
<1>3. CASE Main
  <2>1. request' \in Requests /\ lost' \in BOOLEAN
    BY <1>3 DEF Main, Start, Registered, Ask, Fallback, AskService, NetTyped, Requests
  <2>2. main' \in {"start", "waiting", "ask", "fallback", "service", "running"}
    BY <1>3 DEF Main, Start, Registered, Ask, Fallback, AskService, NetTyped
  <2>3. UNCHANGED <<wlan, wired>>
    BY <1>3 DEF Main, Start, Registered, Ask, Fallback, AskService
  <2> QED
    BY <2>1, <2>2, <2>3 DEF NetTyped
<1>4. CASE AutoConnect
  BY <1>4 DEF AutoConnect, NetTyped
<1> QED
  BY <1>1, <1>2, <1>3, <1>4 DEF Network, Manager

\* They touch neither files nor cloud.
LEMMA NetworkKeeps ==
  ASSUME IInv, Network
  PROVE  IInv'
<1>1. KeepsIdentity /\ UNCHANGED at
  BY DEF Network, Manager, Reconcile, BringUp, TakeDown, Carry, Main, Start, Registered, Ask,
         Fallback, AskService, AutoConnect, KeepsIdentity
<1>2. UNCHANGED faults \/ Fault
  BY DEF Network, Manager, Reconcile, BringUp, TakeDown, Carry, Main, Start, Registered, Ask,
         Fallback, AskService, AutoConnect
<1>3. faults' \in 0..MaxFaults
  BY <1>2, InstallationAssumption DEF IInv, TypeOK
<1>4. NetTyped'
  BY NetworkTyped DEF IInv, TypeOK, NetTyped
<1>5. TypeOK'
  BY <1>1, <1>3, <1>4 DEF KeepsIdentity, IInv, TypeOK, NetTyped
<1>6. WorksForDisk' /\ InOrder'
  BY <1>1 DEF KeepsIdentity, IInv, WorksForDisk, InOrder
<1> QED
  BY <1>1, <1>5, <1>6 DEF KeepsIdentity, IInv, IdentityOfDisk, OneClaim, BackedByCloud

\* A crash loses the requests and no file.
LEMMA CrashKeeps ==
  ASSUME IInv, Crash
  PROVE  IInv'
<1>0. KeepsIdentity
  BY DEF Crash, KeepsIdentity
<1>1. \A h \in Handlers : at'[h] = Idle
  BY DEF Crash
<1>2. at' \in [Handlers -> Handling]
  <2>1. Idle \in Handling
    BY DEF Idle, Handling, Places
  <2> QED
    BY <2>1 DEF Crash
<1>3. faults' \in 0..MaxFaults
  BY InstallationAssumption DEF Crash, IInv, TypeOK
<1>4. NetTyped'
  BY DEF Crash, IInv, TypeOK, NetTyped, Requests
<1>5. TypeOK'
  BY <1>0, <1>2, <1>3, <1>4 DEF KeepsIdentity, IInv, TypeOK, NetTyped
<1>6. \A h \in Handlers : at'[h].pc = "idle"
  BY <1>1 DEF Idle
<1>7. WorksForDisk' /\ InOrder'
  BY <1>6 DEF WorksForDisk, InOrder
<1> QED
  BY <1>0, <1>5, <1>7 DEF KeepsIdentity, IInv, IdentityOfDisk, OneClaim, BackedByCloud

\* Every step keeps the invariant.
LEMMA NextKeeps ==
  ASSUME IInv, [Next]_vars
  PROVE  IInv'
<1>1. CASE \E h \in Handlers : ApplyWired(h) \/ ApplyWifi(h) \/ ChangeWifi(h) \/ Work(h)
  <2>1. PICK h \in Handlers : Connection(h) \/ Provisioning(h)
    BY <1>1 DEF Work, Connection, Provisioning
  <2> QED
    BY <2>1, ConnectionKeeps, FactoryKeeps, LookCredentialKeeps, PutCredentialKeeps, ClaimKeeps,
       LookIdentityKeeps, PublishIdentityKeeps, RegisterKeeps, PublishDeviceKeeps
    DEF Provisioning
<1>2. CASE Network
  BY <1>2, NetworkKeeps
<1>3. CASE Crash
  BY <1>3, CrashKeeps
<1>4. CASE UNCHANGED vars
  <2>1. TypeOK'
    BY <1>4 DEF vars, IInv, TypeOK
  <2>2. WorksForDisk' /\ InOrder'
    BY <1>4 DEF vars, IInv, WorksForDisk, InOrder
  <2> QED
    BY <1>4, <2>1, <2>2 DEF vars, IInv, IdentityOfDisk, OneClaim, BackedByCloud
<1> QED
  BY <1>1, <1>2, <1>3, <1>4 DEF Next, Network

\* The invariant holds in every reachable state.
LEMMA Invariance == Spec => []IInv
<1>1. ASSUME Init PROVE IInv
  <2>1. Idle \in Handling /\ Idle.pc = "idle"
    BY DEF Idle, Handling, Places
  <2>2. at \in [Handlers -> Handling]
    BY <1>1, <2>1 DEF Init
  <2>3. NetTyped
    BY <1>1 DEF Init, NetTyped, Requests
  <2>4. TypeOK
    BY <1>1, <2>2, <2>3, InstallationAssumption DEF Init, TypeOK, NetTyped
  <2>5. \A h \in Handlers : at[h].pc = "idle"
    BY <1>1, <2>1 DEF Init
  <2>6. WorksForDisk /\ InOrder
    BY <2>5 DEF WorksForDisk, InOrder
  <2> QED
    BY <1>1, <2>4, <2>6 DEF Init, IInv, IdentityOfDisk, OneClaim, BackedByCloud
<1> QED
  BY <1>1, NextKeeps, PTL DEF Spec

-----------------------------------------------------------------------------
\* Every state is of its type: places, files, requests and the access point.
THEOREM TypeCorrect == Spec => []TypeOK
BY Invariance, PTL DEF IInv

\* Whatever requests run at once, and whatever is lost between them and the cloud,
\* a device is given one serial number, with the credential it keeps.
THEOREM ClaimIsOne == Spec => []OneClaim
BY Invariance, PTL DEF IInv

\* An identity on disk is one the cloud has given, a device.json one it has registered.
THEOREM IdentityIsBacked == Spec => []BackedByCloud
BY Invariance, PTL DEF IInv
=============================================================================
