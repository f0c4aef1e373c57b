------------------------------ MODULE Registry ------------------------------
(***************************************************************************)
(* The registry of devices, and the tasks that fill and empty it at the     *)
(* same time: the HID hot-plug monitor, a rediscovery (which tears devices  *)
(* down and scans for them again, under a time limit) and the reconciliation *)
(* of the children of a receiver.  All of them register devices by the same *)
(* steps, with an await after each.                                         *)
(*                                                                         *)
(* The HID keys are Keys, and the device of a key has its name.  One of     *)
(* them, Recv, is a receiver whose paired devices are Children; one of      *)
(* these, Air, is the device the key Wire is when its cable is plugged in.  *)
(***************************************************************************)
EXTENDS Naturals, SequencesExt

CONSTANTS
  Keys, Recv, Wire,              \* HID keys
  Children, Air,                 \* the paired devices of Recv
  Monitor, Scanner, Reconciler,  \* the tasks
  MaxInstances,                  \* bound on the objects of one device that exist at a time
  MaxEvents                      \* bound on the rediscoveries, connection events, changes of
                                 \* what is plugged in, failures and timeouts, together

ASSUME RegistryAssumption ==
  /\ Recv \in Keys /\ Wire \in Keys /\ Recv # Wire /\ Air \in Children
  /\ Keys \cap Children = {}
  /\ Monitor # Scanner /\ Monitor # Reconciler /\ Scanner # Reconciler
  /\ MaxInstances \in Nat \ {0} /\ MaxEvents \in Nat

VARIABLES
  devices,    \* device_registry: the registered objects
  before,     \* the order they are registered in
  claims,     \* device_registry.registrations
  owners,     \* device_registry.children
  tracked,    \* HidTracking: the objects of each key, none if it is not tracked
  up,         \* the objects that are initialized and not closed
  plugged,    \* what the OS enumerates, external
  live,       \* what the monitor enumerated last
  job,        \* where each task is, and its local variables
  events,     \* the number of these events so far
  lost        \* history: the names of objects that nobody will close, or claims that
              \* nobody will give up: what a scan was at when its time was up, what was
              \* displaced by name and was another object

registered == <<devices, before>>
vars == <<registered, claims, owners, tracked, up, plugged, live, job, events, lost>>

----------------------------------------------------------------------------
Ids == Keys \cup Children
Tasks == {Monitor, Scanner, Reconciler}
Kids(id) == IF id = Recv THEN Children ELSE {}
\* Two Arc<dyn Device> of one device are different objects.
Object == [id : Ids, no : 1..MaxInstances]
None == [id |-> Recv, no |-> 0]
IdsOf(S) == {d.id : d \in S}

Tracked == {k \in Keys : tracked[k] # {}}
\* identity::compare finds the same serial behind the cable and the radio.
Twins(d, e) == {d.id, e.id} = {Wire, Air}

\* The local variables of a task: the keys or ids it has left, the object it registers,
\* the root it serves, the children left, what it has collected, what it will close or
\* track.
Registering == {"claim", "init", "prefer", "displace", "orphan", "displacing", "push", "settle",
                "giveUp"}
Scanning == Registering \cup {"pick", "kids", "collect", "track"}
Places == Scanning \cup {"idle", "sweep", "disown", "detach", "sweeping", "unregister", "tear",
                         "tearing", "untrack", "scan", "leave", "leaving", "adopt"}
Idle == [pc |-> "idle", todo |-> {}, cur |-> None, root |-> None, kids |-> {}, got |-> {},
         batch |-> {}]
At(t, place) == job[t].pc = place

\* What the first discovery, which ends before the monitor starts, leaves: the device of
\* each key, and the paired device unless it sleeps or its cable is in.
First(id) == [id |-> id, no |-> 1]
Order(s) == {pair \in ToSet(s) \X ToSet(s) :
               \E i, j \in DOMAIN s : i < j /\ pair = <<s[i], s[j]>>}
Init ==
  /\ plugged \in SUBSET Keys
  /\ \E found \in SUBSET (IF Wire \in plugged THEN Kids(Recv) \ {Air} ELSE Kids(Recv)) :
       LET Group(k) == {First(k)} \cup IF k = Recv THEN {First(c) : c \in found} ELSE {}
       IN  /\ tracked = [k \in Keys |-> IF k \in plugged THEN Group(k) ELSE {}]
           /\ up = UNION {tracked[k] : k \in Keys}
           /\ devices = up
           /\ before \in {Order(s) : s \in SetToSeqs(devices)}
           /\ \A d, e \in devices : d.id = Recv /\ e.id \in Children => <<d, e>> \in before
  /\ owners = [k \in Keys |-> {}] /\ claims = {} /\ live = {} /\ lost = {}
  /\ job = [t \in Tasks |-> Idle] /\ events = 0

\* An object nobody holds: the least number that is free.
Held == UNION {{job[t].cur, job[t].root} \cup job[t].batch : t \in Tasks}
Referenced == devices \cup up \cup Held \cup UNION {tracked[k] : k \in Keys}
Free(d) == d \notin Referenced /\ \A n \in 1..(d.no - 1) : [id |-> d.id, no |-> n] \in Referenced

----------------------------------------------------------------------------
(* register_device.                                                         *)

Registry == <<registered, claims, owners, tracked, up>>
World == <<plugged, live, events, lost>>
Event == events < MaxEvents /\ events' = events + 1

\* What follows a registration that did not happen. DroppedLater keeps the object.
Resume(t) == IF job[t].cur.id \in Keys THEN "pick" ELSE "kids"
DroppedLater(t) == [job EXCEPT ![t].pc = Resume(t)]
Dropped(t) == [job EXCEPT ![t].pc = Resume(t), ![t].cur = None]

\* claim_registration, which holds the lock of the claims while it looks at the devices.
\* ClaimUnreserved looks at the devices only, ClaimUnlisted at the claims only.
ClaimIf(t, free) ==
  /\ At(t, "claim")
  /\ IF free
     THEN claims' = claims \cup {job[t].cur.id} /\ job' = [job EXCEPT ![t].pc = "init"]
     ELSE UNCHANGED claims /\ job' = Dropped(t)
  /\ UNCHANGED <<registered, owners, tracked, up, World>>
ClaimUnreserved(t) == ClaimIf(t, job[t].cur.id \notin IdsOf(devices))
ClaimUnlisted(t) == ClaimIf(t, job[t].cur.id \notin claims)
Claim(t) == ClaimIf(t, job[t].cur.id \notin claims \cup IdsOf(devices))

Initialize(t) ==
  /\ At(t, "init")
  /\ up' = up \cup {job[t].cur} /\ job' = [job EXCEPT ![t].pc = "prefer"]
  /\ UNCHANGED <<registered, claims, owners, tracked, World>>
InitFails(t) ==
  /\ At(t, "init") /\ Event
  /\ job' = [job EXCEPT ![t].pc = "giveUp"]
  /\ UNCHANGED <<Registry, plugged, live, lost>>

\* prefer_wired_transport: the wireless twin of a registered wired device is closed, the
\* wired twin of a wireless one displaces it. PreferAnyway closes the former and goes on.
PreferAnyway(t) ==
  /\ At(t, "prefer")
  /\ up' = IF job[t].cur.id = Air /\ Wire \in IdsOf(devices) THEN up \ {job[t].cur} ELSE up
  /\ job' = [job EXCEPT ![t].pc = "push"]
  /\ UNCHANGED <<registered, claims, owners, tracked, World>>
Prefer(t) ==
  LET cur == job[t].cur
      twins == {d \in devices : Twins(d, cur)}
  IN  /\ At(t, "prefer")
      /\ IF twins = {} THEN job' = [job EXCEPT ![t].pc = "push"] /\ UNCHANGED up
         ELSE IF cur.id = Air THEN up' = up \ {cur} /\ job' = [job EXCEPT ![t].pc = "giveUp"]
         ELSE job' = [job EXCEPT ![t].pc = "displace", ![t].batch = twins] /\ UNCHANGED up
      /\ UNCHANGED <<registered, claims, owners, tracked, World>>

Retain(S) == devices' = S /\ before' = before \cap (S \X S)
Without(ids) == {d \in devices : d.id \notin ids}
Displace(t) ==
  /\ At(t, "displace")
  /\ Retain(Without(IdsOf(job[t].batch))) /\ job' = [job EXCEPT ![t].pc = "orphan"]
  /\ lost' = lost \cup IdsOf({d \in devices \ job[t].batch : d.id \in IdsOf(job[t].batch)})
  /\ UNCHANGED <<claims, owners, tracked, up, plugged, live, events>>
Orphan(t) ==
  /\ At(t, "orphan")
  /\ owners' = [k \in Keys |-> owners[k] \ IdsOf(job[t].batch)]
  /\ job' = [job EXCEPT ![t].pc = "displacing"]
  /\ UNCHANGED <<registered, claims, tracked, up, World>>

\* close_device, of all that a task has taken out of the registry, children first.
AfterClosing == [sweeping |-> "sweep", tearing |-> "unregister", displacing |-> "push",
                 leaving |-> "adopt"]
CloseNext(t) ==
  /\ job[t].pc \in DOMAIN AfterClosing
  /\ IF job[t].batch = {}
     THEN job' = [job EXCEPT ![t].pc = AfterClosing[@]] /\ UNCHANGED up
     ELSE \E d \in job[t].batch :
            /\ d.id \in Children \/ IdsOf(job[t].batch) \cap Children = {}
            /\ up' = up \ {d} /\ job' = [job EXCEPT ![t].batch = @ \ {d}]
  /\ UNCHANGED <<registered, claims, owners, tracked, World>>

Push(t) ==
  /\ At(t, "push")
  /\ devices' = devices \cup {job[t].cur} /\ before' = before \cup (devices \X {job[t].cur})
  /\ job' = [job EXCEPT ![t].pc = "settle"]
  /\ UNCHANGED <<claims, owners, tracked, up, World>>

\* finish_registration of a registered device; a root goes on with discover_children.
Settle(t) ==
  LET cur == job[t].cur
  IN  /\ At(t, "settle")
      /\ claims' = claims \ {cur.id}
      /\ IF cur.id \in Keys
         THEN \E found \in SUBSET Kids(cur.id) :
                job' = [job EXCEPT ![t].pc = "kids", ![t].cur = None, ![t].root = cur,
                                   ![t].kids = found]
         ELSE job' = [job EXCEPT ![t].pc = "kids", ![t].cur = None,
                                 ![t].got = IF t = Reconciler THEN @ \cup {cur.id} ELSE @]
      /\ UNCHANGED <<registered, owners, tracked, up, World>>
\* finish_registration of a device that is not. GiveUpClaimed forgets it.
GiveUpClaimed(t) ==
  /\ At(t, "giveUp")
  /\ job' = Dropped(t)
  /\ UNCHANGED <<Registry, World>>
GiveUp(t) ==
  /\ At(t, "giveUp")
  /\ claims' = claims \ {job[t].cur.id} /\ job' = Dropped(t)
  /\ UNCHANGED <<registered, owners, tracked, up, World>>

Register(t) ==
  \/ Claim(t) \/ Initialize(t) \/ InitFails(t) \/ Prefer(t) \/ Displace(t) \/ Orphan(t) \/ CloseNext(t)
  \/ Push(t) \/ Settle(t) \/ GiveUp(t)

----------------------------------------------------------------------------
(* add_hid_device, by the monitor and the scanner.                          *)

Pick(t) ==
  /\ At(t, "pick")
  /\ \/ \E k \in job[t].todo, d \in Object :
          /\ d.id = k /\ Free(d)
          /\ job' = [job EXCEPT ![t] = [Idle EXCEPT !.pc = "claim", !.cur = d,
                                                    !.todo = job[t].todo \ {k}]]
     \/ job[t].todo = {} /\ job' = [job EXCEPT ![t] = Idle]
  /\ UNCHANGED <<Registry, World>>

NextKid(t) ==
  /\ At(t, "kids")
  /\ \/ \E c \in job[t].kids, d \in Object :
          /\ d.id = c /\ Free(d)
          /\ job' = [job EXCEPT ![t].pc = "claim", ![t].cur = d, ![t].kids = @ \ {c}]
     \/ /\ job[t].kids = {}
        /\ job' = [job EXCEPT ![t].pc = IF t = Reconciler THEN "leave" ELSE "collect"]
  /\ UNCHANGED <<Registry, World>>

Served(t) == [Idle EXCEPT !.pc = "pick", !.todo = job[t].todo]
\* The root, found by pointer, and all that was registered after it, whoever did.
Collect(t) ==
  /\ At(t, "collect")
  /\ IF job[t].root \notin devices THEN job' = [job EXCEPT ![t] = Served(t)]
     ELSE job' = [job EXCEPT ![t].pc = "track",
                             ![t].batch = {d \in devices : d = job[t].root \/ <<job[t].root, d>> \in before}]
  /\ UNCHANGED <<Registry, World>>
Track(t) ==
  /\ At(t, "track")
  /\ tracked' = [tracked EXCEPT ![job[t].root.id] = job[t].batch]
  /\ job' = [job EXCEPT ![t] = Served(t)]
  /\ UNCHANGED <<registered, claims, owners, up, World>>

Add(t) == Pick(t) \/ Collect(t) \/ Track(t)

----------------------------------------------------------------------------
(* hotplug_monitor, and handle_hid_key_removed.                             *)

Enumerate ==
  /\ At(Monitor, "idle")
  /\ live' = plugged
  /\ job' = [job EXCEPT ![Monitor].pc = "sweep", ![Monitor].todo = Tracked \ plugged]
  /\ UNCHANGED <<Registry, plugged, events, lost>>

\* The keys are read again before the new ones are added.
Sweep ==
  /\ At(Monitor, "sweep")
  /\ \/ \E k \in job[Monitor].todo :
          /\ tracked' = [tracked EXCEPT ![k] = {}]
          /\ job' = [job EXCEPT ![Monitor].pc = IF tracked[k] = {} THEN "sweep" ELSE "disown",
                                ![Monitor].batch = tracked[k], ![Monitor].todo = @ \ {k}]
     \/ /\ job[Monitor].todo = {} /\ UNCHANGED tracked
        /\ job' = [job EXCEPT ![Monitor].pc = "pick", ![Monitor].todo = live \ Tracked]
  /\ UNCHANGED <<registered, claims, owners, up, World>>

\* The children these own go with them, and nobody owns any of them any more.
Disown(ids) ==
  LET owned == UNION {owners[k] : k \in ids \cap Keys}
  IN  owners' = [k \in Keys |-> IF k \in ids THEN {} ELSE owners[k] \ (ids \cup owned)]
OwnedBy(ids) == UNION {owners[k] : k \in ids \cap Keys}
SweepOwned ==
  /\ At(Monitor, "disown")
  /\ Disown(IdsOf(job[Monitor].batch))
  /\ job' = [job EXCEPT ![Monitor].pc = "detach",
                        ![Monitor].got = OwnedBy(IdsOf(job[Monitor].batch))]
  /\ UNCHANGED <<registered, claims, tracked, up, World>>
\* Tracked objects by pointer, owned ones by id, and all of them are closed. DetachOwned
\* forgets the former, DetachUnclosed closes only the former.
Detaching(gone, closing) ==
  /\ At(Monitor, "detach")
  /\ Retain(devices \ gone)
  /\ job' = [job EXCEPT ![Monitor].pc = "sweeping", ![Monitor].got = {},
                        ![Monitor].batch = closing]
  /\ UNCHANGED <<claims, owners, tracked, up, World>>
TrackedHere == devices \cap job[Monitor].batch
OwnedHere == {d \in devices : d.id \in job[Monitor].got}
DetachOwned == Detaching(OwnedHere, OwnedHere)
DetachUnclosed == Detaching(TrackedHere \cup OwnedHere, TrackedHere)
Detach == Detaching(TrackedHere \cup OwnedHere, TrackedHere \cup OwnedHere)

MonitorStep == Enumerate \/ Sweep \/ SweepOwned \/ Detach

----------------------------------------------------------------------------
(* drain_rediscovery: reconcile_plugin_set and discover_devices.            *)

\* teardown_owned_devices, of every device of the plugin.
Rediscover ==
  /\ At(Scanner, "idle") /\ Event
  /\ job' = [job EXCEPT ![Scanner].pc = "unregister", ![Scanner].todo = IdsOf(devices)]
  /\ UNCHANGED <<Registry, plugged, live, lost>>

\* unregister_device_and_children; then untrack_devices, of the keys all of whose
\* objects are gone.
Unregister ==
  /\ At(Scanner, "unregister")
  /\ \/ \E id \in job[Scanner].todo :
          /\ Disown({id})
          /\ job' = [job EXCEPT ![Scanner].pc = "tear", ![Scanner].todo = @ \ {id},
                                ![Scanner].kids = {id} \cup OwnedBy({id})]
     \/ /\ job[Scanner].todo = {} /\ UNCHANGED owners
        /\ job' = [job EXCEPT
             ![Scanner].pc = "untrack", ![Scanner].got = {},
             ![Scanner].todo = {k \in Tracked : IdsOf(tracked[k]) \subseteq job[Scanner].got}]
  /\ UNCHANGED <<registered, claims, tracked, up, World>>
Tear ==
  LET torn == {d \in devices : d.id \in job[Scanner].kids}
  IN  /\ At(Scanner, "tear")
      /\ Retain(Without(job[Scanner].kids))
      /\ job' = [job EXCEPT ![Scanner].pc = "tearing", ![Scanner].kids = {},
                            ![Scanner].batch = torn, ![Scanner].got = @ \cup IdsOf(torn)]
      /\ UNCHANGED <<claims, owners, tracked, up, World>>
Untrack ==
  /\ At(Scanner, "untrack")
  /\ \/ \E k \in job[Scanner].todo :
          /\ tracked' = [tracked EXCEPT ![k] = {}]
          /\ job' = [job EXCEPT ![Scanner].todo = @ \ {k}]
     \/ /\ job[Scanner].todo = {} /\ UNCHANGED tracked
        /\ job' = [job EXCEPT ![Scanner].pc = "scan"]
  /\ UNCHANGED <<registered, claims, owners, up, World>>

\* discover: what is enumerated and not tracked.
Scan ==
  /\ At(Scanner, "scan")
  /\ job' = [job EXCEPT ![Scanner].pc = "pick", ![Scanner].todo = plugged \ Tracked]
  /\ UNCHANGED <<Registry, World>>

\* tokio::time::timeout drops the scan where it is: a claim stays, and the objects that
\* are neither registered nor tracked go without being closed.
ScanTimeout ==
  LET me == job[Scanner]
      mine == {me.cur, me.root} \cup me.batch
      kept == devices \cup UNION {tracked[k] : k \in Keys}
                \cup UNION {job[t].batch : t \in Tasks \ {Scanner}}
  IN  /\ me.pc \in Scanning /\ Event
      /\ up' = up \ (mine \ kept) /\ lost' = lost \cup IdsOf(mine \ {None})
      /\ job' = [job EXCEPT ![Scanner] = Idle]
      /\ UNCHANGED <<registered, claims, owners, tracked, plugged, live>>

ScannerStep == Rediscover \/ Unregister \/ Tear \/ Untrack \/ Scan \/ ScanTimeout

----------------------------------------------------------------------------
(* reconcile_owned_children, on a connection event of the receiver.         *)

Notice ==
  /\ At(Reconciler, "idle") /\ Event
  /\ \E r \in {d \in devices : d.id = Recv} :
     \E found \in SUBSET (Children \ owners[Recv]), gone \in SUBSET owners[Recv] :
       job' = [job EXCEPT ![Reconciler] = [Idle EXCEPT !.pc = "kids", !.root = r,
                                                          !.kids = found, !.todo = gone]]
  /\ UNCHANGED <<Registry, plugged, live, lost>>
Leave ==
  /\ At(Reconciler, "leave")
  /\ Retain(Without(job[Reconciler].todo))
  /\ job' = [job EXCEPT ![Reconciler].pc = "leaving",
                        ![Reconciler].batch = {d \in devices : d.id \in job[Reconciler].todo}]
  /\ UNCHANGED <<claims, owners, tracked, up, World>>
Adopt ==
  LET me == job[Reconciler]
  IN  /\ At(Reconciler, "adopt")
      /\ owners' = [owners EXCEPT ![me.root.id] = (@ \ me.todo) \cup me.got]
      /\ job' = [job EXCEPT ![Reconciler] = Idle]
      /\ UNCHANGED <<registered, claims, tracked, up, World>>

ReconcilerStep == Notice \/ Leave \/ Adopt

----------------------------------------------------------------------------
PlugOrUnplug(k) ==
  /\ Event
  /\ plugged' = IF k \in plugged THEN plugged \ {k} ELSE plugged \cup {k}
  /\ UNCHANGED <<Registry, live, job, lost>>

Step(t) == Register(t) \/ NextKid(t) \/ Add(t)
Next ==
  \/ \E t \in Tasks : Step(t)
  \/ MonitorStep \/ ScannerStep \/ ReconcilerStep
  \/ \E k \in Keys : PlugOrUnplug(k)

Spec == Init /\ [][Next]_vars

\* The monitor is polled for ever; every await of the others ends.
FairSpec ==
  /\ Spec
  /\ WF_vars(Step(Monitor) \/ MonitorStep)
  /\ WF_vars(Step(Scanner) \/ Unregister \/ Tear \/ Untrack \/ Scan)
  /\ WF_vars(Step(Reconciler) \/ Leave \/ Adopt)

----------------------------------------------------------------------------
(* Properties.                                                              *)

JobType == [pc : Places, todo : SUBSET Ids, cur : Object \cup {None}, root : Object \cup {None},
            kids : SUBSET Ids, got : SUBSET Ids, batch : SUBSET Object]
DevicesOK ==
  /\ devices \subseteq Object /\ before \subseteq devices \X devices
  /\ up \subseteq Object /\ claims \subseteq Ids /\ lost \subseteq Ids
  /\ owners \in [Keys -> SUBSET Children] /\ tracked \in [Keys -> SUBSET Object]
  /\ plugged \subseteq Keys /\ live \subseteq Keys /\ events \in 0..MaxEvents
JobsOK ==
  /\ job \in [Tasks -> JobType] /\ job[Reconciler].got \subseteq Children
  /\ job[Monitor].todo \subseteq Keys
  /\ \A t \in Tasks : job[t].cur # None <=> job[t].pc \in Registering
TypeOK == DevicesOK /\ JobsOK

\* However the scanners interleave, an id is registered once, "closing the check/insert
\* race between concurrent transport scanners".
UniqueIds == \A d, e \in devices : d.id = e.id => d = e

\* A claim lasts as long as the registration it is for: no id is reserved for nobody,
\* except those a scan was at when its time was up, which stay reserved for ever.
Claiming(t) == job[t].pc \in Registering \ {"claim"}
ClaimsAreHeld ==
  claims \subseteq {job[t].cur.id : t \in {t \in Tasks : Claiming(t)}} \cup lost

\* Closing comes after leaving the registry: what is registered is open.
RegisteredIsOpen == devices \subseteq up

\* An object that was initialized can be found by someone who will close it, unless a
\* scan was at it when its time was up.
OpenIsHeld == IdsOf(up \ (devices \cup Held)) \subseteq lost

\* Two objects of one device are never in use at once, "a rival listener corrupts HID++
\* messaging for both", except while the one that left the registry is being closed.
Leaving ==
  UNION {job[t].batch : t \in {t \in Tasks : job[t].pc \in {"orphan"} \cup DOMAIN AfterClosing}}
OneObjectEach == \A d, e \in up \ Leaving : (d.id = e.id /\ d.id \notin lost) => d = e

\* Once a tracked key is gone so are its devices, unless it comes back.
UnpluggedLeaves ==
  \A k \in Keys : (k \in Tracked /\ k \notin plugged) ~>
                    (k \in plugged \/ k \notin IdsOf(devices) \/ k \in lost)
=============================================================================
