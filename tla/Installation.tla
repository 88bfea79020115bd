---------------------------- MODULE Installation ----------------------------
(***************************************************************************)
(* The first installation of a device (installer_v2): its provisioning id, *)
(* its serial number, its registration, and the change between the access  *)
(* point of the portal and the Wi-Fi of the customer.                      *)
(*                                                                         *)
(* handlers: requests of the portal, each on a thread of its own.  A       *)
(*   request over Ethernet runs at once, a change of the Wi-Fi waits for   *)
(*   NETWORK_CHANGE_LOCK; both then provision and register.                *)
(* manager: the thread that gives wlan0 the access point that is requested *)
(*   in a file.                                                            *)
(* main: asks for the access point until the device is registered, and at  *)
(*   a later start when the Wi-Fi of the customer is missing.              *)
(*                                                                         *)
(* The four files of the identity are linked into place, never replaced.   *)
(* A drawn value is named after the handler that drew it, a serial number  *)
(* and a cloud identity after the provisioning id they belong to.          *)
(***************************************************************************)
EXTENDS Naturals

CONSTANTS Handlers, None,
          MaxFaults   \* bound: lost answers, failed saves and starts, crashes

ASSUME InstallationAssumption == None \notin Handlers /\ MaxFaults \in Nat

VARIABLES
  boot, cred,       \* bootstrap_identity.json, bootstrap_credential.json
  ident, device,    \* device_identity.json, device.json
  claims,           \* cloud: serial numbers given, with the credential
  registered,       \* cloud: registered devices
  at,               \* handlers: place, request, provisioning id and credential
  request,          \* the request file of the access point
  applied, mgr,     \* manager: _last_request, and the request in work, or None
  ap, client,       \* wlan0: access point, or connected to a network
  profile,          \* the client profile: can it connect?
  wired,            \* is there a cable
  main,             \* the place of main
  lost,             \* history: a request for the access point was not written
  faults

disk == <<boot, cred, ident, device>>
cloud == <<claims, registered>>
wlan == <<applied, mgr, ap, client, profile>>
net == <<request, wlan, wired>>
vars == <<disk, cloud, at, net, main, lost, faults>>

Requests == {"none", "released", "install", "restore", "service"}
Places == {"idle", "queued", "waiting", "connect", "factory", "look", "put", "claim",
           "ident", "publish identity", "register", "publish", "finish", "failed"}
Handling == [pc : Places, kind : {"wired", "wifi", "change"},
             pid : Handlers \cup {None}, tok : Handlers \cup {None}]
Idle == [pc |-> "idle", kind |-> "wifi", pid |-> None, tok |-> None]

TypeOK ==
  /\ {boot, cred, ident, device} \subseteq Handlers \cup {None}
  /\ claims \subseteq [pid : Handlers, token : Handlers]
  /\ registered \subseteq Handlers
  /\ at \in [Handlers -> Handling]
  /\ request \in Requests /\ applied \in Requests
  /\ mgr \in (Requests \ {"none"}) \cup {None}
  /\ ap \in BOOLEAN /\ client \in BOOLEAN /\ wired \in BOOLEAN
  /\ profile \in {"none", "good", "bad"}
  /\ main \in {"start", "waiting", "ask", "fallback", "service", "running"}
  /\ lost \in BOOLEAN /\ faults \in 0..MaxFaults

Init ==
  /\ boot = None /\ cred = None /\ ident = None /\ device = None
  /\ claims = {} /\ registered = {}
  /\ at = [h \in Handlers |-> Idle]
  /\ request = "none" /\ applied = "none" /\ mgr = None
  /\ ap = FALSE /\ client = FALSE /\ profile = "none"
  /\ wired \in BOOLEAN
  /\ main = "start" /\ lost = FALSE /\ faults = 0

Fault == faults < MaxFaults /\ faults' = faults + 1
Online == wired \/ client

At(h, place) == at[h].pc = place
Goto(h, place) ==
  at' = [at EXCEPT ![h] = IF place = "idle" THEN Idle ELSE [@ EXCEPT !.pc = place]]

\* atomic_create_json_once, and what is read afterwards: a hard link, so that the
\* first one stays.
Once(file, value) == IF file = None THEN value ELSE file

\* A request over Ethernet answers with the error; the other threads try to
\* restore the access point.
Failure(h) == IF at[h].kind = "wired" THEN "idle" ELSE "failed"

\* A call that does not reach the cloud.
NotCalled(h) == Goto(h, Failure(h)) /\ (IF Online THEN Fault ELSE UNCHANGED faults)

\* A call of the cloud: without a connection it fails.  It may also fail
\* before the cloud has acted or, with its answer lost, after.
Call(h, next, acted, unacted) ==
  \/ Online /\ Goto(h, next) /\ acted /\ UNCHANGED faults
  \/ Online /\ Goto(h, Failure(h)) /\ acted /\ Fault
  \/ NotCalled(h) /\ unacted

-----------------------------------------------------------------------------
(* The requests.                                                             *)

\* The portal is opened on a network the device is on.
Post(h, k, place) ==
  /\ At(h, "idle") /\ main # "start" /\ (ap \/ client \/ wired)
  /\ at' = [at EXCEPT ![h] = [Idle EXCEPT !.kind = k, !.pc = place]]
  /\ UNCHANGED <<disk, cloud, net, main, lost, faults>>

\* /api/installer/apply refuses an installed device, and Ethernet without a cable.
ApplyWired(h) == device = None /\ wired /\ Post(h, "wired", "factory")
ApplyWifi(h) == device = None /\ Post(h, "wifi", "queued")

\* /api/wifi/change serves an installed device, on its access point.
ChangeWifi(h) == device # None /\ ap /\ Post(h, "change", "queued")

\* The thread that waits for the lock.  Whether the device was installed
\* meanwhile is not asked again; the access point is released.
Locked == \E h \in Handlers : at[h].kind # "wired" /\ at[h].pc \notin {"idle", "queued"}

Release(h) ==
  /\ At(h, "queued") /\ ~Locked
  /\ \/ request' = "released" /\ Goto(h, "waiting") /\ UNCHANGED faults
     \/ Fault /\ Goto(h, "failed") /\ UNCHANGED request
  /\ UNCHANGED <<disk, cloud, wlan, wired, main, lost>>

\* _wait_ap_stopped: ten seconds, the start of an access point is not seen.
WaitStopped(h) ==
  /\ At(h, "waiting")
  /\ \/ ~ap /\ Goto(h, "connect") /\ UNCHANGED faults
     \/ ap /\ Fault /\ Goto(h, "failed")
  /\ UNCHANGED <<disk, cloud, net, main, lost>>

\* A change of the Wi-Fi ends here, a first installation goes on.
Joined(h) == Goto(h, IF at[h].kind = "change" THEN "idle" ELSE "factory")

\* The profile of before is deleted first.  A wrong password makes one that
\* cannot connect; an access point that came up meanwhile is pushed aside.
Connect(h) ==
  /\ At(h, "connect")
  /\ \/ /\ profile' = "good" /\ client' = TRUE /\ ap' = FALSE
        /\ Joined(h)
     \/ profile' \in {"none", "bad"} /\ client' = FALSE /\ Goto(h, "failed") /\ UNCHANGED ap
  /\ UNCHANGED <<disk, cloud, request, applied, mgr, wired, main, lost, faults>>

\* Under _BOOTSTRAP_LOCK: the first identity stays.
Bootstrap(h) ==
  /\ boot' = Once(boot, h)
  /\ at' = [at EXCEPT ![h] = [@ EXCEPT !.pc = "look", !.pid = boot']]

\* _existing_manufacturing_serial, or the login of the administrator.
Factory(h) ==
  /\ At(h, "factory")
  /\ \/ ident # None /\ Goto(h, "register") /\ UNCHANGED <<boot, faults>>
     \/ ident = None /\ Online /\ Bootstrap(h) /\ UNCHANGED faults
     \/ ident = None /\ NotCalled(h) /\ UNCHANGED boot
  /\ UNCHANGED <<cred, ident, device, cloud, net, main, lost>>

\* ensure_bootstrap_credential takes no lock: it looks, draws, links, and
\* reads what is there then.
LookCredential(h) ==
  /\ At(h, "look")
  /\ at' = [at EXCEPT ![h] = [@ EXCEPT !.pc = IF cred # None THEN "claim" ELSE "put",
                                      !.tok = IF cred # None THEN cred ELSE h]]
  /\ UNCHANGED <<disk, cloud, net, main, lost, faults>>

\* Mutant: the drawn token is used, whoever came first.
PutCredential_Own(h) ==
  /\ At(h, "put")
  /\ cred' = Once(cred, at[h].tok)
  /\ Goto(h, "claim")
  /\ UNCHANGED <<boot, ident, device, cloud, net, main, lost, faults>>

PutCredential(h) ==
  /\ At(h, "put")
  /\ cred' = Once(cred, at[h].tok)
  /\ at' = [at EXCEPT ![h] = [@ EXCEPT !.pc = "claim", !.tok = cred']]
  /\ UNCHANGED <<boot, ident, device, cloud, net, main, lost, faults>>

\* The cloud gives a provisioning id one serial number, however often it asks.
Claim(h) ==
  /\ At(h, "claim")
  /\ Call(h, "ident", claims' = claims \cup {[pid |-> at[h].pid, token |-> at[h].tok]}, UNCHANGED claims)
  /\ UNCHANGED <<disk, registered, net, main, lost>>

\* finalize_manufacturing_identity: look, link, and compare.
Compare(h, there) == Goto(h, IF there = at[h].pid THEN "register" ELSE Failure(h))

LookIdentity(h) ==
  /\ At(h, "ident")
  /\ IF ident # None THEN Compare(h, ident) ELSE Goto(h, "publish identity")
  /\ UNCHANGED <<disk, cloud, net, main, lost, faults>>

PublishIdentity(h) ==
  /\ At(h, "publish identity")
  /\ ident' = Once(ident, at[h].pid)
  /\ Compare(h, ident')
  /\ UNCHANGED <<boot, cred, device, cloud, net, main, lost, faults>>

-----------------------------------------------------------------------------
(* The registration, from the files alone.                                   *)

\* Mutant: a registration whose answer is lost is published all the same.
Register_Unanswered(h) ==
  /\ At(h, "register")
  /\ IF device # None THEN Goto(h, "finish") /\ UNCHANGED <<registered, faults>>
     ELSE \/ Online /\ registered' = registered \cup {ident} /\ Goto(h, "publish") /\ UNCHANGED faults
          \/ Fault /\ Goto(h, "publish") /\ UNCHANGED registered
  /\ UNCHANGED <<disk, claims, net, main, lost>>

Register(h) ==
  /\ At(h, "register")
  /\ IF device # None THEN Goto(h, "finish") /\ UNCHANGED <<registered, faults>>
     ELSE Call(h, "publish", registered' = registered \cup {ident}, UNCHANGED registered)
  /\ UNCHANGED <<disk, claims, net, main, lost>>

PublishDevice(h) ==
  /\ At(h, "publish")
  /\ device' = Once(device, ident)
  /\ Goto(h, IF device' = ident THEN "finish" ELSE Failure(h))
  /\ UNCHANGED <<boot, cred, ident, cloud, net, main, lost, faults>>

\* Only the request over Ethernet has still to release the access point.
Finish(h) ==
  /\ At(h, "finish") /\ Goto(h, "idle")
  /\ \/ at[h].kind = "wired" /\ request' = "released" /\ UNCHANGED faults
     \/ at[h].kind = "wired" /\ Fault /\ UNCHANGED request
     \/ at[h].kind # "wired" /\ UNCHANGED <<request, faults>>
  /\ UNCHANGED <<disk, cloud, wlan, wired, main, lost>>

\* Mutant: the access point is left to the start of the agent.
RestoreAccessPoint_Never(h) ==
  /\ At(h, "failed") /\ Goto(h, "idle")
  /\ UNCHANGED <<disk, cloud, request, wlan, wired, main, lost, faults>>

RestoreAccessPoint(h) ==
  /\ At(h, "failed") /\ Goto(h, "idle")
  /\ \/ request' = "restore" /\ UNCHANGED <<lost, faults>>
     \/ Fault /\ lost' = TRUE /\ UNCHANGED request
  /\ UNCHANGED <<disk, cloud, wlan, wired, main>>

-----------------------------------------------------------------------------
(* The manager of the access point.                                          *)

\* reconcile compares the file with what NetworkManager says.  A start first
\* takes the old access point down.
Reconcile ==
  /\ mgr = None /\ main # "start" /\ request # "none"
  /\ CASE request # "released" /\ (~ap \/ request # applied) -> mgr' = request /\ ap' = FALSE /\ UNCHANGED applied
       [] request = "released" /\ ap -> mgr' = request /\ UNCHANGED <<ap, applied>>
       [] OTHER -> applied' = request /\ UNCHANGED <<ap, mgr>>
  /\ UNCHANGED <<disk, cloud, at, request, client, profile, wired, main, lost, faults>>

\* The request that was read is carried out, whatever the file says by now, and
\* remembered if that succeeded: a failure is tried again.
Carry(done) ==
  /\ mgr' = None
  /\ \/ done /\ applied' = mgr /\ UNCHANGED faults
     \/ Fault /\ UNCHANGED <<ap, client, applied>>
  /\ UNCHANGED <<disk, cloud, at, request, profile, wired, main, lost>>

BringUp == mgr \notin {None, "released"} /\ Carry(ap' = TRUE /\ client' = FALSE)
TakeDown == mgr = "released" /\ Carry(ap' = FALSE /\ UNCHANGED client)

\* NetworkManager connects a profile that works when wlan0 is free.
AutoConnect ==
  /\ profile = "good" /\ ~ap /\ ~client
  /\ client' = TRUE
  /\ UNCHANGED <<disk, cloud, at, request, applied, mgr, ap, profile, wired, main, lost, faults>>

-----------------------------------------------------------------------------
(* main.                                                                     *)

Start ==
  /\ main = "start"
  /\ \/ device # None /\ main' = "fallback" /\ request' = "released" /\ UNCHANGED faults
     \/ device # None /\ main' = "fallback" /\ Fault /\ UNCHANGED request
     \/ device = None /\ main' = "ask" /\ UNCHANGED <<request, faults>>
  /\ UNCHANGED <<disk, cloud, at, wlan, wired, lost>>

\* cekat_na_registraci_zarizeni looks for device.json every 30 seconds; it
\* asks for the access point once, again only if that could not be written.
Registered ==
  /\ main \in {"ask", "waiting"} /\ device # None
  /\ main' = "running"
  /\ UNCHANGED <<disk, cloud, at, net, lost, faults>>

Ask ==
  /\ main = "ask"
  /\ \/ request' = "install" /\ main' = "waiting" /\ UNCHANGED faults
     \/ Fault /\ UNCHANGED <<request, main>>
  /\ UNCHANGED <<disk, cloud, at, wlan, wired, lost>>

\* spustit_servisni_ap_pri_chybejici_wifi: the last look of 20 seconds, and
\* then the request.
Fallback ==
  /\ main = "fallback"
  /\ main' = (IF client THEN "running" ELSE "service")
  /\ UNCHANGED <<disk, cloud, at, net, lost, faults>>

AskService ==
  /\ main = "service" /\ main' = "running"
  /\ \/ request' = "service" /\ UNCHANGED <<lost, faults>>
     \/ Fault /\ lost' = TRUE /\ UNCHANGED request
  /\ UNCHANGED <<disk, cloud, at, wlan, wired>>

\* The agent dies and is started again.  NetworkManager keeps wlan0.
Crash ==
  /\ Fault
  /\ at' = [h \in Handlers |-> Idle] /\ main' = "start"
  /\ mgr' = None /\ applied' = "none" /\ lost' = FALSE
  /\ UNCHANGED <<disk, cloud, request, ap, client, profile, wired>>

Work(h) ==
  \/ Release(h) \/ WaitStopped(h) \/ Connect(h)
  \/ Factory(h) \/ LookCredential(h) \/ PutCredential(h) \/ Claim(h)
  \/ LookIdentity(h) \/ PublishIdentity(h)
  \/ Register(h) \/ PublishDevice(h) \/ Finish(h) \/ RestoreAccessPoint(h)

Manager == Reconcile \/ BringUp \/ TakeDown
Main == Start \/ Registered \/ Ask \/ Fallback \/ AskService

Next ==
  \/ \E h \in Handlers : ApplyWired(h) \/ ApplyWifi(h) \/ ChangeWifi(h) \/ Work(h)
  \/ Manager \/ Main \/ AutoConnect \/ Crash

\* Threads that are started run on: the requests, the manager's loop, main, and
\* NetworkManager.  Nobody has to send a request.
Fairness ==
  /\ \A h \in Handlers : WF_vars(Work(h))
  /\ WF_vars(Manager) /\ WF_vars(Main) /\ WF_vars(AutoConnect)

Spec == Init /\ [][Next]_vars /\ Fairness

-----------------------------------------------------------------------------
(* "A serial number is never allocated a second time": all claims the      *)
(* cloud has acted on, of concurrent requests, after lost answers and      *)
(* after crashes, are for the provisioning id and with the credential that *)
(* are on disk, so the serial number is unique and the token is the one    *)
(* the registration will be authorised with.                               *)
OneClaim == claims \subseteq {[pid |-> boot, token |-> cred]}

(* An identity on disk is backed by the cloud: the serial number was given *)
(* and, once device.json exists, the device is registered under it.        *)
BackedByCloud ==
  /\ ident # None => \E c \in claims : c.pid = ident
  /\ device # None => device = ident /\ device \in registered

(* The installer always gets to the device: again and again there comes a  *)
(* moment when the portal's access point, the Wi-Fi or a cable reaches it, *)
(* over failed changes of the Wi-Fi, overtaken releases and restarts;      *)
(* except where the request for the access point could itself not be       *)
(* written.                                                                *)
Reachable == []<>(ap \/ client \/ wired \/ lost)
=============================================================================
