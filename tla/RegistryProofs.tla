---------------------------- MODULE RegistryProofs ----------------------------
(* The registry, for any keys, children and bounds: its types, that an id is  *)
(* registered once though three tasks register devices at the same time, that *)
(* a claim lasts as long as the registration it is for, and that no task      *)
(* closes a registered device, leaves one open or opens a device twice.       *)
EXTENDS Registry, TLAPS

\* Tasks that claim different ids, ids of which none is registered before Push.
ClaimsApart ==
  \A t, u \in Tasks : (Claiming(t) /\ Claiming(u) /\ job[t].cur.id = job[u].cur.id) => t = u
ClaimInv ==
  /\ \A t \in Tasks : Claiming(t) => job[t].cur.id \in claims
  /\ ClaimsApart
  /\ \A t \in Tasks : (Claiming(t) /\ ~At(t, "settle")) => job[t].cur.id \notin IdsOf(devices)
  /\ UniqueIds /\ ClaimsAreHeld

----------------------------------------------------------------------------
LEMMA PlacesAre ==
  /\ Registering \subseteq Places
  /\ {"pick", "kids", "collect", "track", "idle", "sweep", "disown", "detach", "sweeping",
      "unregister", "tear", "tearing", "untrack", "scan", "leave", "leaving",
         "adopt"} \subseteq Places
  /\ Registering = {"claim", "init", "prefer", "displace", "orphan", "displacing", "push",
     "settle",
                    "giveUp"}
BY DEF Places, Scanning, Registering

LEMMA NoneIsNoObject == None \notin Object /\ None.id \in Ids /\ None.id \in Keys
BY RegistryAssumption DEF None, Object, Ids

LEMMA IdsOfObjects == ASSUME NEW S, S \subseteq Object PROVE IdsOf(S) \subseteq Ids
BY DEF IdsOf, Object

----------------------------------------------------------------------------
(* Most steps only move a task along: it has no claim, before or after.      *)

Moves(t) ==
  /\ ~Claiming(t)
  /\ \E r \in JobType : /\ job' = [job EXCEPT ![t] = r]
                        /\ r.cur # None <=> r.pc \in Registering
                        /\ t = Reconciler => r.got \subseteq Children
                        /\ t = Monitor => r.todo \subseteq Keys
                        /\ r.pc \notin Registering \ {"claim"}

LEMMA MovesIsTyped == ASSUME JobsOK, NEW t \in Tasks, Moves(t) PROVE JobsOK'
BY RegistryAssumption DEF Moves, JobsOK, Tasks

LEMMA MovesClaimsNothing ==
  ASSUME JobsOK, NEW t \in Tasks, Moves(t)
  PROVE  \A u \in Tasks :
           /\ Claiming(u)' <=> Claiming(u)
           /\ Claiming(u) => job'[u].cur = job[u].cur /\ (At(u, "settle")' <=> At(u, "settle"))
<1>1. PICK r \in JobType : job' = [job EXCEPT ![t] = r] /\ r.pc \notin Registering \ {"claim"}
  BY DEF Moves
<1>2. job'[t] = r /\ \A u \in Tasks \ {t} : job'[u] = job[u]
  BY <1>1 DEF JobsOK
<1> QED
  BY <1>1, <1>2 DEF Moves, Claiming, At

\* It is enough to name what the task has become.
LEMMA Becomes ==
  ASSUME JobsOK, NEW t \in Tasks, NEW r \in JobType, job' = [job EXCEPT ![t] = r],
         job[t].pc \notin Registering \ {"claim"}, r.pc \notin Registering \ {"claim"},
         r.cur # None <=> r.pc \in Registering,
         t = Reconciler => r.got \subseteq Children,
         t = Monitor => r.todo \subseteq Keys
  PROVE  Moves(t)
BY DEF Moves, Claiming

LEMMA IdleIsTyped ==
  Idle \in JobType /\ Idle.pc \notin Registering /\ Idle.cur = None /\ Idle.got = {} /\ Idle.todo = {}
BY PlacesAre DEF Idle, JobType

LEMMA JobFields ==
  ASSUME JobsOK, NEW t \in Tasks
  PROVE  /\ job[t].pc \in Places /\ job[t].todo \subseteq Ids /\ job[t].kids \subseteq Ids
         /\ job[t].got \subseteq Ids /\ job[t].batch \subseteq Object /\ job[t] \in JobType
         /\ job[t].root \in Object \cup {None} /\ job[t].cur \in Object \cup {None}
         /\ job[t].cur # None <=> job[t].pc \in Registering
BY DEF JobsOK, JobType

\* What the three tasks have in common.
LEMMA PickMoves == ASSUME TypeOK, NEW t \in Tasks, Pick(t) PROVE Moves(t)
<1> USE DEF TypeOK
<1>1. ASSUME NEW k \in job[t].todo, NEW d \in Object,
             job' = [job EXCEPT ![t] = [Idle EXCEPT !.pc = "claim", !.cur = d,
                                                    !.todo = job[t].todo \ {k}]]
      PROVE  Moves(t)
  <2> DEFINE r == [Idle EXCEPT !.pc = "claim", !.cur = d, !.todo = job[t].todo \ {k}]
  <2>1. r \in JobType /\ r.pc = "claim" /\ r.cur # None /\ r.got = {} /\ r.todo \subseteq job[t].todo
    BY JobFields, PlacesAre, NoneIsNoObject DEF Idle, JobType
  <2>2. job' = [job EXCEPT ![t] = r] /\ job[t].pc \notin Registering
    BY <1>1, PlacesAre, JobFields DEF Pick, At
  <2>3. t = Monitor => r.todo \subseteq Keys
    BY <2>1 DEF JobsOK
  <2> HIDE DEF r
  <2> QED
    BY <2>1, <2>2, <2>3, Becomes, PlacesAre
<1>2. CASE job' = [job EXCEPT ![t] = Idle]
  <2>1. job[t].pc \notin Registering
    BY PlacesAre DEF Pick, At
  <2> QED
    BY <1>2, <2>1, Becomes, IdleIsTyped
<1> QED
  BY <1>1, <1>2 DEF Pick

LEMMA NextKidMoves == ASSUME TypeOK, NEW t \in Tasks, NextKid(t) PROVE Moves(t)
<1> USE DEF TypeOK
<1>1. ASSUME NEW c \in job[t].kids, NEW d \in Object,
             job' = [job EXCEPT ![t].pc = "claim", ![t].cur = d, ![t].kids = @ \ {c}]
      PROVE  Moves(t)
  <2> DEFINE r == [job[t] EXCEPT !.pc = "claim", !.cur = d, !.kids = @ \ {c}]
  <2>1. r \in JobType /\ r.pc = "claim" /\ r.cur # None /\ r.got = job[t].got
        /\ r.todo = job[t].todo
    BY JobFields, PlacesAre, NoneIsNoObject DEF JobType
  <2>2. job' = [job EXCEPT ![t] = r] /\ job[t].pc \notin Registering
    BY <1>1, PlacesAre, JobFields DEF NextKid, At, JobsOK
  <2>3. (t = Reconciler => r.got \subseteq Children) /\ (t = Monitor => r.todo \subseteq Keys)
    BY <2>1 DEF JobsOK
  <2> HIDE DEF r
  <2> QED
    BY <2>1, <2>2, <2>3, Becomes, PlacesAre
<1>2. ASSUME NEW place \in {"leave", "collect"}, job' = [job EXCEPT ![t].pc = place]
      PROVE  Moves(t)
  <2> DEFINE r == [job[t] EXCEPT !.pc = place]
  <2>1. r \in JobType /\ r.pc = place /\ r.cur = job[t].cur /\ r.got = job[t].got
        /\ r.todo = job[t].todo
    BY JobFields, PlacesAre DEF JobType
  <2>2. job' = [job EXCEPT ![t] = r] /\ job[t].pc \notin Registering
    BY <1>2, PlacesAre, JobFields DEF NextKid, At, JobsOK
  <2>3. (t = Reconciler => r.got \subseteq Children) /\ (t = Monitor => r.todo \subseteq Keys)
    BY <2>1 DEF JobsOK
  <2>4. place \notin Registering /\ r.cur = None
    BY <2>1, <2>2, JobFields, PlacesAre
  <2> HIDE DEF r
  <2> QED
    BY <2>1, <2>2, <2>3, <2>4, Becomes
<1>3. (\E c \in job[t].kids, d \in Object :
         job' = [job EXCEPT ![t].pc = "claim", ![t].cur = d, ![t].kids = @ \ {c}])
      \/ job' = [job EXCEPT ![t].pc = "leave"] \/ job' = [job EXCEPT ![t].pc = "collect"]
  BY DEF NextKid
<1> QED
  BY <1>1, <1>2, <1>3

LEMMA CollectMoves == ASSUME TypeOK, NEW t \in Tasks, Collect(t) PROVE Moves(t)
<1> USE DEF TypeOK
<1>0. job[t].pc = "collect" /\ job[t].pc \notin Registering /\ job[t].cur = None
  BY JobFields, PlacesAre DEF Collect, At
<1>1. CASE job[t].root \notin devices
  <2>1. Served(t) \in JobType /\ Served(t).pc = "pick" /\ Served(t).cur = None
        /\ Served(t).got = {} /\ Served(t).todo = job[t].todo
    BY JobFields, PlacesAre DEF Served, Idle, JobType
  <2>2. job' = [job EXCEPT ![t] = Served(t)]
    BY <1>1 DEF Collect
  <2> QED
    BY <1>0, <2>1, <2>2, Becomes, PlacesAre DEF JobsOK
<1>2. CASE job[t].root \in devices
  <2> DEFINE after == {d \in devices : d = job[t].root \/ <<job[t].root, d>> \in before}
             r == [job[t] EXCEPT !.pc = "track", !.batch = after]
  <2>1. after \subseteq Object
    BY DEF DevicesOK
  <2>2. job' = [job EXCEPT ![t] = r]
    BY <1>2 DEF Collect, JobsOK
  <2>3. r \in JobType /\ r.pc = "track" /\ r.cur = job[t].cur /\ r.got = job[t].got
        /\ r.todo = job[t].todo
    <3> HIDE DEF after
    <3> QED
      BY <2>1, JobFields, PlacesAre DEF JobType
  <2>4. (t = Reconciler => r.got \subseteq Children) /\ (t = Monitor => r.todo \subseteq Keys)
    BY <2>3 DEF JobsOK
  <2> HIDE DEF r
  <2> QED
    BY <1>0, <2>2, <2>3, <2>4, Becomes, PlacesAre
<1> QED
  BY <1>1, <1>2

LEMMA EnumerateMoves == ASSUME TypeOK, Enumerate PROVE Moves(Monitor)
<1> USE RegistryAssumption DEF TypeOK, Tasks
<1>0. job[Monitor].pc \notin Registering /\ job[Monitor].cur = None
  BY JobFields, PlacesAre DEF Enumerate, At
<1>1. ASSUME job' = [job EXCEPT ![Monitor].pc = "sweep", ![Monitor].todo = Tracked \ plugged]
      PROVE  Moves(Monitor)
  <2> DEFINE r == [job[Monitor] EXCEPT !.pc = "sweep", !.todo = Tracked \ plugged]
  <2>1. Tracked \ plugged \subseteq Ids
    BY <1>1, JobFields, IdsOfObjects DEF Tracked, Ids
  <2>2. r \in JobType /\ r.pc = "sweep" /\ r.cur = None
    BY <2>1, <1>0, JobFields, IdleIsTyped, PlacesAre, NoneIsNoObject DEF JobType, Idle
  <2>3. job' = [job EXCEPT ![Monitor] = r]
    BY <1>1 DEF JobsOK
  <2>4. r.todo \subseteq Keys
    BY <2>2 DEF JobsOK, Tracked
  <2> HIDE DEF r
  <2> QED
    BY <1>0, <2>2, <2>3, <2>4, Becomes, PlacesAre
<1> QED
  BY <1>1 DEF Enumerate

LEMMA SweepMoves == ASSUME TypeOK, Sweep PROVE Moves(Monitor)
<1> USE RegistryAssumption DEF TypeOK, Tasks
<1>0. job[Monitor].pc \notin Registering /\ job[Monitor].cur = None
  BY JobFields, PlacesAre DEF Sweep, At
<1>1. ASSUME NEW k \in job[Monitor].todo, NEW place \in {"sweep", "disown"},
   job' = [job EXCEPT ![Monitor].pc = place,
                                           ![Monitor].batch = tracked[k],
                                              ![Monitor].todo = @ \ {k}],
             tracked[k] \subseteq Object
      PROVE  Moves(Monitor)
  <2> DEFINE r == [job[Monitor] EXCEPT !.pc = place, !.batch = tracked[k], !.todo = @ \ {k}]
  <2>1. tracked[k] \subseteq Object /\ job[Monitor].todo \ {k} \subseteq Ids /\ place \in Places \ Registering
    BY <1>1, JobFields, IdsOfObjects DEF Places, Scanning, Registering
  <2>2. r \in JobType /\ r.pc = place /\ r.cur = None
    BY <2>1, <1>0, JobFields, IdleIsTyped, PlacesAre, NoneIsNoObject DEF JobType, Idle
  <2>3. job' = [job EXCEPT ![Monitor] = r]
    BY <1>1 DEF JobsOK
  <2>4. r.todo \subseteq Keys
    BY <2>2 DEF JobsOK, DevicesOK
  <2> HIDE DEF r
  <2> QED
    BY <1>0, <2>2, <2>3, <2>4, Becomes, PlacesAre
<1>2. ASSUME job' = [job EXCEPT ![Monitor].pc = "pick", ![Monitor].todo = live \ Tracked]
      PROVE  Moves(Monitor)
  <2> DEFINE r == [job[Monitor] EXCEPT !.pc = "pick", !.todo = live \ Tracked]
  <2>1. live \ Tracked \subseteq Ids
    BY <1>2, JobFields, IdsOfObjects DEF DevicesOK, Ids
  <2>2. r \in JobType /\ r.pc = "pick" /\ r.cur = None
    BY <2>1, <1>0, JobFields, IdleIsTyped, PlacesAre, NoneIsNoObject DEF JobType, Idle
  <2>3. job' = [job EXCEPT ![Monitor] = r]
    BY <1>2 DEF JobsOK
  <2>4. r.todo \subseteq Keys
    BY <2>2 DEF JobsOK, DevicesOK
  <2> HIDE DEF r
  <2> QED
    BY <1>0, <2>2, <2>3, <2>4, Becomes, PlacesAre
<1>3. \A k \in job[Monitor].todo : tracked[k] \subseteq Object
  BY DEF JobsOK, DevicesOK
<1> QED
  BY <1>1, <1>2, <1>3 DEF Sweep

LEMMA SweepOwnedMoves == ASSUME TypeOK, SweepOwned PROVE Moves(Monitor)
<1> USE RegistryAssumption DEF TypeOK, Tasks
<1>0. job[Monitor].pc \notin Registering /\ job[Monitor].cur = None
  BY JobFields, PlacesAre DEF SweepOwned, At
<1>1. ASSUME job' = [job EXCEPT ![Monitor].pc = "detach",
                                    ![Monitor].got = OwnedBy(IdsOf(job[Monitor].batch))]
      PROVE  Moves(Monitor)
  <2> DEFINE r == [job[Monitor] EXCEPT !.pc = "detach",
     !.got = OwnedBy(IdsOf(job[Monitor].batch))]
  <2>1. OwnedBy(IdsOf(job[Monitor].batch)) \subseteq Ids
    BY <1>1, JobFields, IdsOfObjects DEF OwnedBy, DevicesOK, Ids
  <2>2. r \in JobType /\ r.pc = "detach" /\ r.cur = None
    BY <2>1, <1>0, JobFields, IdleIsTyped, PlacesAre, NoneIsNoObject DEF JobType, Idle
  <2>3. job' = [job EXCEPT ![Monitor] = r]
    BY <1>1 DEF JobsOK
  <2>4. r.todo \subseteq Keys
    BY <2>2 DEF JobsOK, Tracked
  <2> HIDE DEF r
  <2> QED
    BY <1>0, <2>2, <2>3, <2>4, Becomes, PlacesAre
<1> QED
  BY <1>1 DEF SweepOwned

LEMMA DetachMoves == ASSUME TypeOK, Detach PROVE Moves(Monitor)
<1> USE RegistryAssumption DEF TypeOK, Tasks
<1>0. job[Monitor].pc \notin Registering /\ job[Monitor].cur = None
  BY JobFields, PlacesAre DEF Detach, At, Detaching
<1>1. ASSUME job' = [job EXCEPT ![Monitor].pc = "sweeping", ![Monitor].got = {},
                                    ![Monitor].batch = TrackedHere \cup OwnedHere]
      PROVE  Moves(Monitor)
  <2> DEFINE r == [job[Monitor] EXCEPT !.pc = "sweeping", !.got = {},
     !.batch = TrackedHere \cup OwnedHere]
  <2>1. TrackedHere \cup OwnedHere \subseteq Object
    BY <1>1, JobFields, IdsOfObjects DEF TrackedHere, OwnedHere, DevicesOK
  <2>2. r \in JobType /\ r.pc = "sweeping" /\ r.cur = None
    BY <2>1, <1>0, JobFields, IdleIsTyped, PlacesAre, NoneIsNoObject DEF JobType, Idle
  <2>3. job' = [job EXCEPT ![Monitor] = r]
    BY <1>1 DEF JobsOK
  <2>4. r.todo \subseteq Keys
    BY <2>2 DEF JobsOK, Tracked
  <2> HIDE DEF r
  <2> QED
    BY <1>0, <2>2, <2>3, <2>4, Becomes, PlacesAre
<1> QED
  BY <1>1 DEF Detach, Detaching

LEMMA RediscoverMoves == ASSUME TypeOK, Rediscover PROVE Moves(Scanner)
<1> USE RegistryAssumption DEF TypeOK, Tasks
<1>0. job[Scanner].pc \notin Registering /\ job[Scanner].cur = None
  BY JobFields, PlacesAre DEF Rediscover, At
<1>1. ASSUME job' = [job EXCEPT ![Scanner].pc = "unregister", ![Scanner].todo = IdsOf(devices)]
      PROVE  Moves(Scanner)
  <2> DEFINE r == [job[Scanner] EXCEPT !.pc = "unregister", !.todo = IdsOf(devices)]
  <2>1. IdsOf(devices) \subseteq Ids
    BY <1>1, JobFields, IdsOfObjects DEF DevicesOK
  <2>2. r \in JobType /\ r.pc = "unregister" /\ r.cur = None
    BY <2>1, <1>0, JobFields, IdleIsTyped, PlacesAre, NoneIsNoObject DEF JobType, Idle
  <2>3. job' = [job EXCEPT ![Scanner] = r]
    BY <1>1 DEF JobsOK
  <2> HIDE DEF r
  <2> QED
    BY <1>0, <2>2, <2>3, Becomes, PlacesAre
<1> QED
  BY <1>1 DEF Rediscover

LEMMA UnregisterMoves == ASSUME TypeOK, Unregister PROVE Moves(Scanner)
<1> USE RegistryAssumption DEF TypeOK, Tasks
<1>0. job[Scanner].pc \notin Registering /\ job[Scanner].cur = None
  BY JobFields, PlacesAre DEF Unregister, At
<1>1. ASSUME NEW id \in job[Scanner].todo, job' = [job EXCEPT ![Scanner].pc = "tear",
   ![Scanner].todo = @ \ {id},
                                    ![Scanner].kids = {id} \cup OwnedBy({id})]
      PROVE  Moves(Scanner)
  <2> DEFINE r == [job[Scanner] EXCEPT !.pc = "tear", !.todo = @ \ {id},
     !.kids = {id} \cup OwnedBy({id})]
  <2>1. {id} \cup OwnedBy({id}) \subseteq Ids /\ job[Scanner].todo \ {id} \subseteq Ids
    BY <1>1, JobFields, IdsOfObjects DEF OwnedBy, DevicesOK, Ids
  <2>2. r \in JobType /\ r.pc = "tear" /\ r.cur = None
    BY <2>1, <1>0, JobFields, IdleIsTyped, PlacesAre, NoneIsNoObject DEF JobType, Idle
  <2>3. job' = [job EXCEPT ![Scanner] = r]
    BY <1>1 DEF JobsOK
  <2> HIDE DEF r
  <2> QED
    BY <1>0, <2>2, <2>3, Becomes, PlacesAre
<1>2. ASSUME job' = [job EXCEPT ![Scanner].pc = "untrack", ![Scanner].got = {},
              ![Scanner].todo = {k \in Tracked : IdsOf(tracked[k]) \subseteq job[Scanner].got}]
      PROVE  Moves(Scanner)
  <2> DEFINE r == [job[Scanner] EXCEPT !.pc = "untrack", !.got = {},
                !.todo = {k \in Tracked : IdsOf(tracked[k]) \subseteq job[Scanner].got}]
  <2>1. {k \in Tracked : IdsOf(tracked[k]) \subseteq job[Scanner].got} \subseteq Ids
    BY <1>2, JobFields, IdsOfObjects DEF Tracked, Ids
  <2>2. r \in JobType /\ r.pc = "untrack" /\ r.cur = None
    BY <2>1, <1>0, JobFields, IdleIsTyped, PlacesAre, NoneIsNoObject DEF JobType, Idle
  <2>3. job' = [job EXCEPT ![Scanner] = r]
    BY <1>2 DEF JobsOK
  <2> HIDE DEF r
  <2> QED
    BY <1>0, <2>2, <2>3, Becomes, PlacesAre
<1> QED
  BY <1>1, <1>2 DEF Unregister

LEMMA TearMoves == ASSUME TypeOK, Tear PROVE Moves(Scanner)
<1> USE RegistryAssumption DEF TypeOK, Tasks
<1>0. job[Scanner].pc \notin Registering /\ job[Scanner].cur = None
  BY JobFields, PlacesAre DEF Tear, At
<1>1. ASSUME job' = [job EXCEPT ![Scanner].pc = "tearing", ![Scanner].kids = {},
              ![Scanner].batch = {d \in devices : d.id \in job[Scanner].kids},
              ![Scanner].got = @ \cup IdsOf({d \in devices : d.id \in job[Scanner].kids})]
      PROVE  Moves(Scanner)
  <2> DEFINE r == [job[Scanner] EXCEPT !.pc = "tearing", !.kids = {},
                !.batch = {d \in devices : d.id \in job[Scanner].kids},
                !.got = @ \cup IdsOf({d \in devices : d.id \in job[Scanner].kids})]
  <2>1. /\ {d \in devices : d.id \in job[Scanner].kids} \subseteq Object
        /\ IdsOf({d \in devices : d.id \in job[Scanner].kids}) \subseteq Ids
    BY <1>1, JobFields, IdsOfObjects DEF DevicesOK, IdsOf, Object
  <2>2. r \in JobType /\ r.pc = "tearing" /\ r.cur = None
    BY <2>1, <1>0, JobFields, IdleIsTyped, PlacesAre, NoneIsNoObject DEF JobType, Idle
  <2>3. job' = [job EXCEPT ![Scanner] = r]
    BY <1>1 DEF JobsOK
  <2> HIDE DEF r
  <2> QED
    BY <1>0, <2>2, <2>3, Becomes, PlacesAre
<1> QED
  BY <1>1 DEF Tear

LEMMA ScanMoves == ASSUME TypeOK, Scan PROVE Moves(Scanner)
<1> USE RegistryAssumption DEF TypeOK, Tasks
<1>0. job[Scanner].pc \notin Registering /\ job[Scanner].cur = None
  BY JobFields, PlacesAre DEF Scan, At
<1>1. ASSUME job' = [job EXCEPT ![Scanner].pc = "pick", ![Scanner].todo = plugged \ Tracked]
      PROVE  Moves(Scanner)
  <2> DEFINE r == [job[Scanner] EXCEPT !.pc = "pick", !.todo = plugged \ Tracked]
  <2>1. plugged \ Tracked \subseteq Ids
    BY <1>1, JobFields, IdsOfObjects DEF DevicesOK, Ids
  <2>2. r \in JobType /\ r.pc = "pick" /\ r.cur = None
    BY <2>1, <1>0, JobFields, IdleIsTyped, PlacesAre, NoneIsNoObject DEF JobType, Idle
  <2>3. job' = [job EXCEPT ![Scanner] = r]
    BY <1>1 DEF JobsOK
  <2> HIDE DEF r
  <2> QED
    BY <1>0, <2>2, <2>3, Becomes, PlacesAre
<1> QED
  BY <1>1 DEF Scan

LEMMA NoticeMoves == ASSUME TypeOK, Notice PROVE Moves(Reconciler)
<1> USE RegistryAssumption DEF TypeOK, Tasks
<1>0. job[Reconciler].pc \notin Registering /\ job[Reconciler].cur = None
  BY JobFields, PlacesAre DEF Notice, At
<1>1. ASSUME NEW d \in devices, NEW found \in SUBSET Children, NEW gone \in SUBSET owners[Recv],
   job' = [job EXCEPT ![Reconciler] = [Idle EXCEPT !.pc = "kids", !.root = d,
                                                      !.kids = found, !.todo = gone]]
      PROVE  Moves(Reconciler)
  <2> DEFINE r == [Idle EXCEPT !.pc = "kids", !.root = d, !.kids = found, !.todo = gone]
  <2>1. d \in Object /\ found \subseteq Ids /\ gone \subseteq Ids
    BY <1>1, JobFields, IdsOfObjects DEF DevicesOK, Ids
  <2>2. r \in JobType /\ r.pc = "kids" /\ r.cur = None
    BY <2>1, <1>0, JobFields, IdleIsTyped, PlacesAre, NoneIsNoObject DEF JobType, Idle
  <2>3. job' = [job EXCEPT ![Reconciler] = r]
    BY <1>1 DEF JobsOK
  <2>4. r.got \subseteq Children
    BY JobFields DEF JobsOK, Idle
  <2> HIDE DEF r
  <2> QED
    BY <1>0, <2>2, <2>3, <2>4, Becomes, PlacesAre
<1> QED
  BY <1>1 DEF Notice

LEMMA LeaveMoves == ASSUME TypeOK, Leave PROVE Moves(Reconciler)
<1> USE RegistryAssumption DEF TypeOK, Tasks
<1>0. job[Reconciler].pc \notin Registering /\ job[Reconciler].cur = None
  BY JobFields, PlacesAre DEF Leave, At
<1>1. ASSUME job' = [job EXCEPT ![Reconciler].pc = "leaving",
              ![Reconciler].batch = {d \in devices : d.id \in job[Reconciler].todo}]
      PROVE  Moves(Reconciler)
  <2> DEFINE r == [job[Reconciler] EXCEPT !.pc = "leaving",
                !.batch = {d \in devices : d.id \in job[Reconciler].todo}]
  <2>1. {d \in devices : d.id \in job[Reconciler].todo} \subseteq Object
    BY <1>1, JobFields, IdsOfObjects DEF DevicesOK
  <2>2. r \in JobType /\ r.pc = "leaving" /\ r.cur = None
    BY <2>1, <1>0, JobFields, IdleIsTyped, PlacesAre, NoneIsNoObject DEF JobType, Idle
  <2>3. job' = [job EXCEPT ![Reconciler] = r]
    BY <1>1 DEF JobsOK
  <2>4. r.got \subseteq Children
    BY JobFields DEF JobsOK, Idle
  <2> HIDE DEF r
  <2> QED
    BY <1>0, <2>2, <2>3, <2>4, Becomes, PlacesAre
<1> QED
  BY <1>1 DEF Leave

LEMMA TypeStep == TypeOK /\ [Next]_vars => TypeOK'
<1> SUFFICES ASSUME TypeOK, [Next]_vars PROVE TypeOK'
  OBVIOUS
<1> USE DEF TypeOK
<1>1. ASSUME NEW t \in Tasks, Claim(t) PROVE TypeOK'
  <2>1. DevicesOK'
    <3>1. job[t].cur.id \in Ids
      BY <1>1, JobFields, PlacesAre DEF Claim, ClaimIf, At, Object
    <3>2. claims' \subseteq Ids
      BY <1>1, <3>1 DEF Claim, ClaimIf, DevicesOK
    <3> QED
      BY <1>1, <3>2 DEF DevicesOK, Claim, ClaimIf, registered, World
  <2>2. JobsOK'
    <3>1. job' \in [Tasks -> JobType]
      BY <1>1, RegistryAssumption, PlacesAre, NoneIsNoObject, IdsOfObjects
      DEF DevicesOK, JobsOK, JobType, Tasks, Ids, Claim, At, ClaimIf, Dropped, Resume, Registry,
         registered, World
    <3>2. job'[Reconciler].got \subseteq Children /\ job'[Monitor].todo \subseteq Keys
      BY <1>1, RegistryAssumption DEF JobsOK, JobType, Tasks, Ids, Claim, At, ClaimIf, Dropped,
         Resume, Registry, registered, World
    <3>3. \A u \in Tasks : job'[u].cur # None <=> job'[u].pc \in Registering
      BY <1>1, RegistryAssumption, NoneIsNoObject DEF JobsOK, JobType, Tasks, Registering,
         Claim, At, ClaimIf, Dropped, Resume, Registry, registered, World
    <3> QED
      BY <3>1, <3>2, <3>3 DEF JobsOK
  <2> QED
    BY <2>1, <2>2 DEF TypeOK
<1>2. ASSUME NEW t \in Tasks, Initialize(t) PROVE TypeOK'
  <2>1. DevicesOK'
    BY <1>2, RegistryAssumption, JobFields, PlacesAre, NoneIsNoObject,
       IdsOfObjects DEF DevicesOK, JobsOK, JobType, Initialize, At, Registry, registered, World
  <2>2. JobsOK'
    <3>1. job' \in [Tasks -> JobType]
      BY <1>2, RegistryAssumption, PlacesAre, NoneIsNoObject, IdsOfObjects
      DEF DevicesOK, JobsOK, JobType, Tasks, Ids, Initialize, At, Registry, registered, World
    <3>2. job'[Reconciler].got \subseteq Children /\ job'[Monitor].todo \subseteq Keys
      BY <1>2, RegistryAssumption DEF JobsOK, JobType, Tasks, Ids, Initialize, At, Registry,
         registered, World
    <3>3. \A u \in Tasks : job'[u].cur # None <=> job'[u].pc \in Registering
      BY <1>2, RegistryAssumption, NoneIsNoObject DEF JobsOK, JobType, Tasks, Registering,
         Initialize, At, Registry, registered, World
    <3> QED
      BY <3>1, <3>2, <3>3 DEF JobsOK
  <2> QED
    BY <2>1, <2>2 DEF TypeOK
<1>3. ASSUME NEW t \in Tasks, InitFails(t) PROVE TypeOK'
  <2>1. DevicesOK'
    BY <1>3, RegistryAssumption, IdsOfObjects DEF DevicesOK, JobsOK, JobType, InitFails, At,
       Event, Registry, registered, World
  <2>2. JobsOK'
    <3>1. job' \in [Tasks -> JobType]
      BY <1>3, RegistryAssumption, PlacesAre, NoneIsNoObject, IdsOfObjects
      DEF DevicesOK, JobsOK, JobType, Tasks, Ids, InitFails, At, Event, Registry, registered,
         World
    <3>2. job'[Reconciler].got \subseteq Children /\ job'[Monitor].todo \subseteq Keys
      BY <1>3, RegistryAssumption DEF JobsOK, JobType, Tasks, Ids, InitFails, At, Event,
         Registry, registered, World
    <3>3. \A u \in Tasks : job'[u].cur # None <=> job'[u].pc \in Registering
      BY <1>3, RegistryAssumption, NoneIsNoObject DEF JobsOK, JobType, Tasks, Registering,
         InitFails, At, Event, Registry, registered, World
    <3> QED
      BY <3>1, <3>2, <3>3 DEF JobsOK
  <2> QED
    BY <2>1, <2>2 DEF TypeOK
<1>4. ASSUME NEW t \in Tasks, Prefer(t) PROVE TypeOK'
  <2>1. DevicesOK'
    BY <1>4, RegistryAssumption, IdsOfObjects DEF DevicesOK, JobsOK, JobType, Prefer, At,
       Registry, registered, World
  <2>2. JobsOK'
    <3>1. job' \in [Tasks -> JobType]
      BY <1>4, RegistryAssumption, PlacesAre, NoneIsNoObject, IdsOfObjects
      DEF DevicesOK, JobsOK, JobType, Tasks, Ids, Prefer, At, Registry, registered, World
    <3>2. job'[Reconciler].got \subseteq Children /\ job'[Monitor].todo \subseteq Keys
      BY <1>4, RegistryAssumption DEF JobsOK, JobType, Tasks, Ids, Prefer, At, Registry,
         registered, World
    <3>3. \A u \in Tasks : job'[u].cur # None <=> job'[u].pc \in Registering
      BY <1>4, RegistryAssumption, NoneIsNoObject DEF JobsOK, JobType, Tasks, Registering,
         Prefer, At, Registry, registered, World
    <3> QED
      BY <3>1, <3>2, <3>3 DEF JobsOK
  <2> QED
    BY <2>1, <2>2 DEF TypeOK
<1>5. ASSUME NEW t \in Tasks, Displace(t) PROVE TypeOK'
  <2>1. DevicesOK'
    BY <1>5, RegistryAssumption, IdsOfObjects DEF DevicesOK, JobsOK, JobType, Displace, At,
       Retain, Without, Registry, registered, World
  <2>2. JobsOK'
    <3>1. job' \in [Tasks -> JobType]
      BY <1>5, RegistryAssumption, PlacesAre, NoneIsNoObject, IdsOfObjects
      DEF DevicesOK, JobsOK, JobType, Tasks, Ids, Displace, At, Retain, Without, Registry,
         registered, World
    <3>2. job'[Reconciler].got \subseteq Children /\ job'[Monitor].todo \subseteq Keys
      BY <1>5, RegistryAssumption DEF JobsOK, JobType, Tasks, Ids, Displace, At, Retain,
         Without, Registry, registered, World
    <3>3. \A u \in Tasks : job'[u].cur # None <=> job'[u].pc \in Registering
      BY <1>5, RegistryAssumption, NoneIsNoObject DEF JobsOK, JobType, Tasks, Registering,
         Displace, At, Retain, Without, Registry, registered, World
    <3> QED
      BY <3>1, <3>2, <3>3 DEF JobsOK
  <2> QED
    BY <2>1, <2>2 DEF TypeOK
<1>6. ASSUME NEW t \in Tasks, Orphan(t) PROVE TypeOK'
  <2>1. DevicesOK'
    BY <1>6, RegistryAssumption, IdsOfObjects DEF DevicesOK, JobsOK, JobType, Orphan, At,
       Registry, registered, World
  <2>2. JobsOK'
    <3>1. job' \in [Tasks -> JobType]
      BY <1>6, RegistryAssumption, PlacesAre, NoneIsNoObject, IdsOfObjects
      DEF DevicesOK, JobsOK, JobType, Tasks, Ids, Orphan, At, Registry, registered, World
    <3>2. job'[Reconciler].got \subseteq Children /\ job'[Monitor].todo \subseteq Keys
      BY <1>6, RegistryAssumption DEF JobsOK, JobType, Tasks, Ids, Orphan, At, Registry,
         registered, World
    <3>3. \A u \in Tasks : job'[u].cur # None <=> job'[u].pc \in Registering
      BY <1>6, RegistryAssumption, NoneIsNoObject DEF JobsOK, JobType, Tasks, Registering,
         Orphan, At, Registry, registered, World
    <3> QED
      BY <3>1, <3>2, <3>3 DEF JobsOK
  <2> QED
    BY <2>1, <2>2 DEF TypeOK
<1>7. ASSUME NEW t \in Tasks, CloseNext(t) PROVE TypeOK'
  <2>1. DevicesOK'
    BY <1>7, RegistryAssumption, IdsOfObjects DEF DevicesOK, JobsOK, JobType, CloseNext, At,
       AfterClosing, Registry, registered, World
  <2>2. JobsOK'
    <3>1. job' \in [Tasks -> JobType]
      BY <1>7, RegistryAssumption, PlacesAre, NoneIsNoObject, IdsOfObjects
      DEF DevicesOK, JobsOK, JobType, Tasks, Ids, CloseNext, At, AfterClosing, Registry,
         registered, World
    <3>2. job'[Reconciler].got \subseteq Children /\ job'[Monitor].todo \subseteq Keys
      BY <1>7, RegistryAssumption DEF JobsOK, JobType, Tasks, Ids, CloseNext, At, AfterClosing,
         Registry, registered, World
    <3>3. \A u \in Tasks : job'[u].cur # None <=> job'[u].pc \in Registering
      BY <1>7, RegistryAssumption, NoneIsNoObject DEF JobsOK, JobType, Tasks, Registering,
         CloseNext, At, AfterClosing, Registry, registered, World
    <3> QED
      BY <3>1, <3>2, <3>3 DEF JobsOK
  <2> QED
    BY <2>1, <2>2 DEF TypeOK
<1>8. ASSUME NEW t \in Tasks, Push(t) PROVE TypeOK'
  <2>1. DevicesOK'
    BY <1>8, RegistryAssumption, JobFields, PlacesAre, NoneIsNoObject,
       IdsOfObjects DEF DevicesOK, JobsOK, JobType, Push, At, Registry, registered, World
  <2>2. JobsOK'
    <3>1. job' \in [Tasks -> JobType]
      BY <1>8, RegistryAssumption, PlacesAre, NoneIsNoObject, IdsOfObjects
      DEF DevicesOK, JobsOK, JobType, Tasks, Ids, Push, At, Registry, registered, World
    <3>2. job'[Reconciler].got \subseteq Children /\ job'[Monitor].todo \subseteq Keys
      BY <1>8, RegistryAssumption DEF JobsOK, JobType, Tasks, Ids, Push, At, Registry,
         registered, World
    <3>3. \A u \in Tasks : job'[u].cur # None <=> job'[u].pc \in Registering
      BY <1>8, RegistryAssumption, NoneIsNoObject DEF JobsOK, JobType, Tasks, Registering, Push,
         At, Registry, registered, World
    <3> QED
      BY <3>1, <3>2, <3>3 DEF JobsOK
  <2> QED
    BY <2>1, <2>2 DEF TypeOK
<1>9. ASSUME NEW t \in Tasks, Settle(t) PROVE TypeOK'
  <2>1. DevicesOK'
    BY <1>9, RegistryAssumption, IdsOfObjects DEF DevicesOK, JobsOK, JobType, Settle, At, Kids,
       Registry, registered, World
  <2>2. JobsOK'
    <3>1. job' \in [Tasks -> JobType]
      BY <1>9, RegistryAssumption, PlacesAre, NoneIsNoObject, IdsOfObjects
      DEF DevicesOK, JobsOK, JobType, Tasks, Ids, Settle, At, Kids, Registry, registered, World
    <3>2. job'[Reconciler].got \subseteq Children /\ job'[Monitor].todo \subseteq Keys
      BY <1>9, RegistryAssumption DEF JobsOK, JobType, Tasks, Ids, Settle, At, Kids, Registry,
         registered, World
    <3>3. \A u \in Tasks : job'[u].cur # None <=> job'[u].pc \in Registering
      BY <1>9, RegistryAssumption, NoneIsNoObject DEF JobsOK, JobType, Tasks, Registering,
         Settle, At, Kids, Registry, registered, World
    <3> QED
      BY <3>1, <3>2, <3>3 DEF JobsOK
  <2> QED
    BY <2>1, <2>2 DEF TypeOK
<1>10. ASSUME NEW t \in Tasks, GiveUp(t) PROVE TypeOK'
  <2>1. DevicesOK'
    BY <1>10, RegistryAssumption, IdsOfObjects DEF DevicesOK, JobsOK, JobType, GiveUp, At,
       Dropped, Resume, Registry, registered, World
  <2>2. JobsOK'
    <3>1. job' \in [Tasks -> JobType]
      BY <1>10, RegistryAssumption, PlacesAre, NoneIsNoObject, IdsOfObjects
      DEF DevicesOK, JobsOK, JobType, Tasks, Ids, GiveUp, At, Dropped, Resume, Registry,
         registered, World
    <3>2. job'[Reconciler].got \subseteq Children /\ job'[Monitor].todo \subseteq Keys
      BY <1>10, RegistryAssumption DEF JobsOK, JobType, Tasks, Ids, GiveUp, At, Dropped, Resume,
         Registry, registered, World
    <3>3. \A u \in Tasks : job'[u].cur # None <=> job'[u].pc \in Registering
      BY <1>10, RegistryAssumption, NoneIsNoObject DEF JobsOK, JobType, Tasks, Registering,
         GiveUp, At, Dropped, Resume, Registry, registered, World
    <3> QED
      BY <3>1, <3>2, <3>3 DEF JobsOK
  <2> QED
    BY <2>1, <2>2 DEF TypeOK
<1>11. ASSUME NEW t \in Tasks, Pick(t) PROVE TypeOK'
  <2>1. DevicesOK'
    BY <1>11, RegistryAssumption DEF DevicesOK, Pick, At, Idle, Registry, registered, World
  <2> QED
    BY <1>11, <2>1, PickMoves, MovesIsTyped DEF Tasks
<1>12. ASSUME NEW t \in Tasks, NextKid(t) PROVE TypeOK'
  <2>1. DevicesOK'
    BY <1>12, RegistryAssumption DEF DevicesOK, NextKid, At, Registry, registered, World
  <2> QED
    BY <1>12, <2>1, NextKidMoves, MovesIsTyped DEF Tasks
<1>13. ASSUME NEW t \in Tasks, Collect(t) PROVE TypeOK'
  <2>1. DevicesOK'
    BY <1>13, RegistryAssumption DEF DevicesOK, Collect, At, Served, Idle, Registry, registered,
       World
  <2> QED
    BY <1>13, <2>1, CollectMoves, MovesIsTyped DEF Tasks
<1>14. ASSUME NEW t \in Tasks, Track(t) PROVE TypeOK'
  <2>1. DevicesOK'
    BY <1>14, RegistryAssumption, IdsOfObjects DEF DevicesOK, JobsOK, JobType, Track, At,
       Served, Idle, Registry, registered, World
  <2>2. JobsOK'
    <3>1. job' \in [Tasks -> JobType]
      BY <1>14, RegistryAssumption, PlacesAre, NoneIsNoObject, IdsOfObjects
      DEF DevicesOK, JobsOK, JobType, Tasks, Ids, Track, At, Served, Idle, Registry, registered,
         World
    <3>2. job'[Reconciler].got \subseteq Children /\ job'[Monitor].todo \subseteq Keys
      BY <1>14, RegistryAssumption DEF JobsOK, JobType, Tasks, Ids, Track, At, Served, Idle,
         Registry, registered, World
    <3>3. \A u \in Tasks : job'[u].cur # None <=> job'[u].pc \in Registering
      BY <1>14, RegistryAssumption, NoneIsNoObject DEF JobsOK, JobType, Tasks, Registering,
         Track, At, Served, Idle, Registry, registered, World
    <3> QED
      BY <3>1, <3>2, <3>3 DEF JobsOK
  <2> QED
    BY <2>1, <2>2 DEF TypeOK
<1>15. ASSUME Enumerate PROVE TypeOK'
  <2>1. DevicesOK'
    BY <1>15, RegistryAssumption DEF DevicesOK, Enumerate, At, Tracked, Registry, registered,
       World
  <2> QED
    BY <1>15, <2>1, EnumerateMoves, MovesIsTyped DEF Tasks
<1>16. ASSUME Sweep PROVE TypeOK'
  <2>1. DevicesOK'
    BY <1>16, RegistryAssumption DEF DevicesOK, Sweep, At, Tracked, Registry, registered, World
  <2> QED
    BY <1>16, <2>1, SweepMoves, MovesIsTyped DEF Tasks
<1>17. ASSUME SweepOwned PROVE TypeOK'
  <2>1. DevicesOK'
    BY <1>17, RegistryAssumption DEF DevicesOK, SweepOwned, At, Disown, OwnedBy, Registry,
       registered, World
  <2> QED
    BY <1>17, <2>1, SweepOwnedMoves, MovesIsTyped DEF Tasks
<1>18. ASSUME Detach PROVE TypeOK'
  <2>1. DevicesOK'
    BY <1>18, RegistryAssumption DEF DevicesOK, Detach, At, Detaching, TrackedHere, OwnedHere,
       Retain, Registry, registered, World
  <2> QED
    BY <1>18, <2>1, DetachMoves, MovesIsTyped DEF Tasks
<1>19. ASSUME Rediscover PROVE TypeOK'
  <2>1. DevicesOK'
    BY <1>19, RegistryAssumption DEF DevicesOK, Rediscover, At, Event, Registry, registered, World
  <2> QED
    BY <1>19, <2>1, RediscoverMoves, MovesIsTyped DEF Tasks
<1>20. ASSUME Unregister PROVE TypeOK'
  <2>1. owners' \in [Keys -> SUBSET Children]
    <3>1. \A ids : Disown(ids) => owners' \in [Keys -> SUBSET Children]
      BY DEF DevicesOK, Disown
    <3>2. (\E id \in job[Scanner].todo : Disown({id})) \/ UNCHANGED owners
      BY <1>20 DEF Unregister
    <3> QED
      BY <3>1, <3>2 DEF DevicesOK
  <2>2. UNCHANGED <<devices, before, claims, tracked, up, World>>
    BY <1>20 DEF Unregister, registered
  <2>3. DevicesOK'
    BY <2>1, <2>2 DEF DevicesOK, World
  <2> QED
    BY <1>20, <2>3, UnregisterMoves, MovesIsTyped DEF Tasks
<1>21. ASSUME Tear PROVE TypeOK'
  <2>1. DevicesOK'
    BY <1>21, RegistryAssumption DEF DevicesOK, Tear, At, Retain, Without, Registry, registered,
       World
  <2> QED
    BY <1>21, <2>1, TearMoves, MovesIsTyped DEF Tasks
<1>22. ASSUME Untrack PROVE TypeOK'
  <2>1. DevicesOK'
    BY <1>22, RegistryAssumption, IdsOfObjects DEF DevicesOK, JobsOK, JobType, Untrack, At,
       Registry, registered, World
  <2>2. JobsOK'
    <3>1. job' \in [Tasks -> JobType]
      BY <1>22, RegistryAssumption, PlacesAre, NoneIsNoObject, IdsOfObjects
      DEF DevicesOK, JobsOK, JobType, Tasks, Ids, Untrack, At, Registry, registered, World
    <3>2. job'[Reconciler].got \subseteq Children /\ job'[Monitor].todo \subseteq Keys
      BY <1>22, RegistryAssumption DEF JobsOK, JobType, Tasks, Ids, Untrack, At, Registry,
         registered, World
    <3>3. \A u \in Tasks : job'[u].cur # None <=> job'[u].pc \in Registering
      BY <1>22, RegistryAssumption, NoneIsNoObject DEF JobsOK, JobType, Tasks, Registering,
         Untrack, At, Registry, registered, World
    <3> QED
      BY <3>1, <3>2, <3>3 DEF JobsOK
  <2> QED
    BY <2>1, <2>2 DEF TypeOK
<1>23. ASSUME Scan PROVE TypeOK'
  <2>1. DevicesOK'
    BY <1>23, RegistryAssumption DEF DevicesOK, Scan, At, Tracked, Registry, registered, World
  <2> QED
    BY <1>23, <2>1, ScanMoves, MovesIsTyped DEF Tasks
<1>24. ASSUME ScanTimeout PROVE TypeOK'
  <2>1. DevicesOK'
    <3> DEFINE mine == {job[Scanner].cur, job[Scanner].root} \cup job[Scanner].batch
    <3>1. mine \ {None} \subseteq Object
      BY JobFields DEF Tasks
    <3>2. lost' = lost \cup IdsOf(mine \ {None})
      BY <1>24 DEF ScanTimeout
    <3>3. lost' \subseteq Ids
      BY <3>1, <3>2, IdsOfObjects DEF DevicesOK
    <3>4. up' \subseteq Object /\ events' \in 0..MaxEvents
      BY <1>24, RegistryAssumption DEF ScanTimeout, Event, DevicesOK
    <3> QED
      BY <1>24, <3>3, <3>4 DEF DevicesOK, ScanTimeout, registered
  <2>2. JobsOK'
    <3>1. job' \in [Tasks -> JobType]
      BY <1>24, RegistryAssumption, PlacesAre, NoneIsNoObject, IdsOfObjects
      DEF DevicesOK, JobsOK, JobType, Tasks, Ids, ScanTimeout, At, Event, Idle, Registry,
         registered, World
    <3>2. job'[Reconciler].got \subseteq Children /\ job'[Monitor].todo \subseteq Keys
      BY <1>24, RegistryAssumption DEF JobsOK, JobType, Tasks, Ids, ScanTimeout, At, Event,
         Idle, Registry, registered, World
    <3>3. \A u \in Tasks : job'[u].cur # None <=> job'[u].pc \in Registering
      BY <1>24, RegistryAssumption, NoneIsNoObject DEF JobsOK, JobType, Tasks, Registering,
         ScanTimeout, At, Event, Idle, Registry, registered, World
    <3> QED
      BY <3>1, <3>2, <3>3 DEF JobsOK
  <2> QED
    BY <2>1, <2>2 DEF TypeOK
<1>25. ASSUME Notice PROVE TypeOK'
  <2>1. DevicesOK'
    BY <1>25, RegistryAssumption DEF DevicesOK, Notice, At, Event, Idle, Registry, registered,
       World
  <2> QED
    BY <1>25, <2>1, NoticeMoves, MovesIsTyped DEF Tasks
<1>26. ASSUME Leave PROVE TypeOK'
  <2>1. DevicesOK'
    BY <1>26, RegistryAssumption DEF DevicesOK, Leave, At, Retain, Without, Registry,
       registered, World
  <2> QED
    BY <1>26, <2>1, LeaveMoves, MovesIsTyped DEF Tasks
<1>27. ASSUME Adopt PROVE TypeOK'
  <2>1. DevicesOK'
    BY <1>27, RegistryAssumption, IdsOfObjects DEF DevicesOK, JobsOK, JobType, Adopt, At, Idle,
       Registry, registered, World
  <2>2. JobsOK'
    <3>1. job' \in [Tasks -> JobType]
      BY <1>27, RegistryAssumption, PlacesAre, NoneIsNoObject, IdsOfObjects
      DEF DevicesOK, JobsOK, JobType, Tasks, Ids, Adopt, At, Idle, Registry, registered, World
    <3>2. job'[Reconciler].got \subseteq Children /\ job'[Monitor].todo \subseteq Keys
      BY <1>27, RegistryAssumption DEF JobsOK, JobType, Tasks, Ids, Adopt, At, Idle, Registry,
         registered, World
    <3>3. \A u \in Tasks : job'[u].cur # None <=> job'[u].pc \in Registering
      BY <1>27, RegistryAssumption, NoneIsNoObject DEF JobsOK, JobType, Tasks, Registering,
         Adopt, At, Idle, Registry, registered, World
    <3> QED
      BY <3>1, <3>2, <3>3 DEF JobsOK
  <2> QED
    BY <2>1, <2>2 DEF TypeOK
<1>28. ASSUME NEW k \in Keys, PlugOrUnplug(k) PROVE TypeOK'
  <2>1. DevicesOK'
    BY <1>28, RegistryAssumption, IdsOfObjects DEF DevicesOK, JobsOK, JobType, PlugOrUnplug, At,
       Event, Registry, registered, World
  <2>2. JobsOK'
    <3>1. job' \in [Tasks -> JobType]
      BY <1>28, RegistryAssumption, PlacesAre, NoneIsNoObject, IdsOfObjects
      DEF DevicesOK, JobsOK, JobType, Tasks, Ids, PlugOrUnplug, At, Event, Registry, registered,
         World
    <3>2. job'[Reconciler].got \subseteq Children /\ job'[Monitor].todo \subseteq Keys
      BY <1>28, RegistryAssumption DEF JobsOK, JobType, Tasks, Ids, PlugOrUnplug, At, Event,
         Registry, registered, World
    <3>3. \A u \in Tasks : job'[u].cur # None <=> job'[u].pc \in Registering
      BY <1>28, RegistryAssumption, NoneIsNoObject DEF JobsOK, JobType, Tasks, Registering,
         PlugOrUnplug, At, Event, Registry, registered, World
    <3> QED
      BY <3>1, <3>2, <3>3 DEF JobsOK
  <2> QED
    BY <2>1, <2>2 DEF TypeOK
<1>29. ASSUME UNCHANGED vars PROVE TypeOK'
  <2>1. DevicesOK'
    BY <1>29, RegistryAssumption, IdsOfObjects DEF DevicesOK, JobsOK, JobType, vars, At,
       Registry, registered, World
  <2>2. JobsOK'
    <3>1. job' \in [Tasks -> JobType]
      BY <1>29, RegistryAssumption, PlacesAre, NoneIsNoObject, IdsOfObjects
      DEF DevicesOK, JobsOK, JobType, Tasks, Ids, vars, At, Registry, registered, World
    <3>2. job'[Reconciler].got \subseteq Children /\ job'[Monitor].todo \subseteq Keys
      BY <1>29, RegistryAssumption DEF JobsOK, JobType, Tasks, Ids, vars, At, Registry,
         registered, World
    <3>3. \A u \in Tasks : job'[u].cur # None <=> job'[u].pc \in Registering
      BY <1>29, RegistryAssumption, NoneIsNoObject DEF JobsOK, JobType, Tasks, Registering,
         vars, At, Registry, registered, World
    <3> QED
      BY <3>1, <3>2, <3>3 DEF JobsOK
  <2> QED
    BY <2>1, <2>2 DEF TypeOK
<1> QED
  BY <1>1, <1>2, <1>3, <1>4, <1>5, <1>6, <1>7, <1>8, <1>9, <1>10, <1>11, <1>12, <1>13, <1>14,
     <1>15, <1>16, <1>17, <1>18, <1>19, <1>20, <1>21, <1>22, <1>23, <1>24, <1>25, <1>26, <1>27,
        <1>28, <1>29
     DEF Next, Step, Register, Add, MonitorStep, ScannerStep, ReconcilerStep

LEMMA QuietStep ==
  ASSUME ClaimInv, UNCHANGED claims, lost \subseteq lost', devices' \subseteq devices,
         \A t \in Tasks :
           /\ Claiming(t)' <=> Claiming(t)
           /\ Claiming(t) => job'[t].cur = job[t].cur /\ (At(t, "settle")' <=> At(t, "settle"))
  PROVE  ClaimInv'
<1>1. IdsOf(devices)' \subseteq IdsOf(devices)
  BY DEF IdsOf
<1>2. UniqueIds'
  BY DEF ClaimInv, UniqueIds
<1>3. ClaimsAreHeld'
  BY DEF ClaimInv, ClaimsAreHeld
<1>4. ClaimsApart'
  BY DEF ClaimInv, ClaimsApart
<1> QED
  BY <1>1, <1>2, <1>3, <1>4 DEF ClaimInv

LEMMA ClaimStep == TypeOK /\ ClaimInv /\ [Next]_vars => ClaimInv'
<1> SUFFICES ASSUME TypeOK, ClaimInv, [Next]_vars PROVE ClaimInv'
  OBVIOUS
<1> USE DEF TypeOK
<1>1. ASSUME NEW t \in Tasks, Claim(t) PROVE ClaimInv'
  <2> DEFINE id == job[t].cur.id
  <2>1. CASE id \in claims \cup IdsOf(devices)
    <3>1. UNCHANGED claims /\ lost \subseteq lost' /\ devices' \subseteq devices
      BY <1>1, <2>1 DEF Claim, At, ClaimIf, Dropped, Resume, Registry, registered, World
    <3>2. \A u \in Tasks :
            /\ Claiming(u)' <=> Claiming(u)
            /\ Claiming(u) => job'[u].cur = job[u].cur /\ (At(u, "settle")' <=> At(u, "settle"))
      BY <1>1, <2>1, RegistryAssumption DEF JobsOK, JobType, Tasks, Claiming, Registering,
         Claim, At, ClaimIf, Dropped, Resume, Registry, registered, World
    <3> QED
      BY <3>1, <3>2, QuietStep
  <2>2. CASE id \notin claims \cup IdsOf(devices)
    <3>1. claims' = claims \cup {id} /\ UNCHANGED <<devices, lost>>
      BY <1>1, <2>2 DEF Claim, ClaimIf, At, registered, World
    <3>2. Claiming(t)' /\ ~Claiming(t) /\ ~At(t, "settle")' /\ job'[t].cur = job[t].cur
      BY <1>1, <2>2 DEF Claim, ClaimIf, At, JobsOK, JobType, Claiming, Registering
    <3>3. \A u \in Tasks \ {t} : job'[u] = job[u]
      BY <1>1, <2>2 DEF Claim, ClaimIf, JobsOK
    <3>4. UniqueIds' /\ IdsOf(devices)' = IdsOf(devices)
      BY <3>1 DEF ClaimInv, UniqueIds, IdsOf
    <3>5. \A u \in Tasks \ {t} : (Claiming(u)' <=> Claiming(u)) /\ (At(u, "settle")' <=> At(u,
       "settle"))
      BY <3>3 DEF Claiming, At
    <3>6. ClaimsApart'
      BY <2>2, <3>2, <3>3, <3>5 DEF ClaimInv, ClaimsApart
    <3>7. ClaimsAreHeld'
      BY <1>1, <3>1, <3>2, <3>3, <3>5 DEF ClaimInv, ClaimsAreHeld
    <3> QED
      BY <2>2, <3>1, <3>2, <3>3, <3>4, <3>5, <3>6, <3>7 DEF ClaimInv
  <2> QED
    BY <2>1, <2>2
<1>2. ASSUME NEW t \in Tasks, Initialize(t) PROVE ClaimInv'
  <2>1. UNCHANGED claims /\ lost \subseteq lost' /\ devices' \subseteq devices
    BY <1>2 DEF Initialize, At, Registry, registered, World
  <2>2. \A u \in Tasks :
          /\ Claiming(u)' <=> Claiming(u)
          /\ Claiming(u) => job'[u].cur = job[u].cur /\ (At(u, "settle")' <=> At(u, "settle"))
    BY <1>2, RegistryAssumption DEF JobsOK, JobType, Tasks, Claiming, Registering, Initialize,
       At, Registry, registered, World
  <2> QED
    BY <2>1, <2>2, QuietStep
<1>3. ASSUME NEW t \in Tasks, InitFails(t) PROVE ClaimInv'
  <2>1. UNCHANGED claims /\ lost \subseteq lost' /\ devices' \subseteq devices
    BY <1>3 DEF InitFails, At, Event, Registry, registered, World
  <2>2. \A u \in Tasks :
          /\ Claiming(u)' <=> Claiming(u)
          /\ Claiming(u) => job'[u].cur = job[u].cur /\ (At(u, "settle")' <=> At(u, "settle"))
    BY <1>3, RegistryAssumption DEF JobsOK, JobType, Tasks, Claiming, Registering, InitFails,
       At, Event, Registry, registered, World
  <2> QED
    BY <2>1, <2>2, QuietStep
<1>4. ASSUME NEW t \in Tasks, Prefer(t) PROVE ClaimInv'
  <2>1. UNCHANGED claims /\ lost \subseteq lost' /\ devices' \subseteq devices
    BY <1>4 DEF Prefer, At, Registry, registered, World
  <2>2. \A u \in Tasks :
          /\ Claiming(u)' <=> Claiming(u)
          /\ Claiming(u) => job'[u].cur = job[u].cur /\ (At(u, "settle")' <=> At(u, "settle"))
    BY <1>4, RegistryAssumption DEF JobsOK, JobType, Tasks, Claiming, Registering, Prefer, At,
       Registry, registered, World
  <2> QED
    BY <2>1, <2>2, QuietStep
<1>5. ASSUME NEW t \in Tasks, Displace(t) PROVE ClaimInv'
  <2>1. UNCHANGED claims /\ lost \subseteq lost' /\ devices' \subseteq devices
    BY <1>5 DEF Displace, At, Retain, Without, Registry, registered, World
  <2>2. \A u \in Tasks :
          /\ Claiming(u)' <=> Claiming(u)
          /\ Claiming(u) => job'[u].cur = job[u].cur /\ (At(u, "settle")' <=> At(u, "settle"))
    BY <1>5, RegistryAssumption DEF JobsOK, JobType, Tasks, Claiming, Registering, Displace, At,
       Retain, Without, Registry, registered, World
  <2> QED
    BY <2>1, <2>2, QuietStep
<1>6. ASSUME NEW t \in Tasks, Orphan(t) PROVE ClaimInv'
  <2>1. UNCHANGED claims /\ lost \subseteq lost' /\ devices' \subseteq devices
    BY <1>6 DEF Orphan, At, Registry, registered, World
  <2>2. \A u \in Tasks :
          /\ Claiming(u)' <=> Claiming(u)
          /\ Claiming(u) => job'[u].cur = job[u].cur /\ (At(u, "settle")' <=> At(u, "settle"))
    BY <1>6, RegistryAssumption DEF JobsOK, JobType, Tasks, Claiming, Registering, Orphan, At,
       Registry, registered, World
  <2> QED
    BY <2>1, <2>2, QuietStep
<1>7. ASSUME NEW t \in Tasks, CloseNext(t) PROVE ClaimInv'
  <2>1. UNCHANGED claims /\ lost \subseteq lost' /\ devices' \subseteq devices
    BY <1>7 DEF CloseNext, At, AfterClosing, Registry, registered, World
  <2>2. \A u \in Tasks :
          /\ Claiming(u)' <=> Claiming(u)
          /\ Claiming(u) => job'[u].cur = job[u].cur /\ (At(u, "settle")' <=> At(u, "settle"))
    BY <1>7, RegistryAssumption DEF JobsOK, JobType, Tasks, Claiming, Registering, CloseNext,
       At, AfterClosing, Registry, registered, World
  <2> QED
    BY <2>1, <2>2, QuietStep
<1>8. ASSUME NEW t \in Tasks, Push(t) PROVE ClaimInv'
  <2>1. /\ UNCHANGED <<claims, lost>> /\ devices' = devices \cup {job[t].cur}
        /\ Claiming(t) /\ ~At(t, "settle")
    BY <1>8 DEF Push, At, World, Claiming, Registering
  <2>2. \A u \in Tasks : /\ Claiming(u)' <=> Claiming(u)
                         /\ job'[u].cur = job[u].cur
                         /\ u = t => At(u, "settle")'
                         /\ u # t => (At(u, "settle")' <=> At(u, "settle"))
    BY <1>8 DEF Push, At, JobsOK, JobType, Claiming, Registering
  <2>3. IdsOf(devices)' = IdsOf(devices) \cup {job[t].cur.id}
    BY <2>1 DEF IdsOf
  <2>4. UniqueIds'
    BY <1>8, <2>1 DEF ClaimInv, UniqueIds, IdsOf
  <2>5. ClaimsApart'
    BY <2>2 DEF ClaimInv, ClaimsApart
  <2>6. ClaimsAreHeld'
    BY <2>1, <2>2 DEF ClaimInv, ClaimsAreHeld
  <2>7. \A u \in Tasks : (Claiming(u)' /\ ~At(u,
     "settle")') => job'[u].cur.id \notin IdsOf(devices)'
    BY <1>8, <2>1, <2>2, <2>3 DEF ClaimInv, ClaimsApart
  <2> QED
    BY <2>1, <2>2, <2>4, <2>5, <2>6, <2>7 DEF ClaimInv
<1>9. ASSUME NEW t \in Tasks, Settle(t) PROVE ClaimInv'
  <2>1. claims' = claims \ {job[t].cur.id} /\ UNCHANGED <<devices,
     lost>> /\ Claiming(t) /\ ~Claiming(t)'
    BY <1>9 DEF JobsOK, JobType, Claiming, Registering, Settle, At, Kids, Registry, registered,
       World
  <2>2. \A u \in Tasks \ {t} : job'[u] = job[u]
    BY <1>9 DEF JobsOK, Settle
  <2>3. \A u \in Tasks : Claiming(u)' => u # t /\ Claiming(u) /\ (At(u, "settle")' <=> At(u,
     "settle"))
    BY <2>1, <2>2 DEF Claiming, At
  <2>4. UniqueIds' /\ IdsOf(devices)' = IdsOf(devices)
    BY <2>1 DEF ClaimInv, UniqueIds, IdsOf
  <2>5. ClaimsApart'
    BY <2>2, <2>3 DEF ClaimInv, ClaimsApart
  <2>6. \A u \in Tasks \ {t} : Claiming(u) => Claiming(u)' /\ job'[u].cur = job[u].cur
    BY <2>2 DEF Claiming
  <2>7. ClaimsAreHeld'
    BY <2>1, <2>6 DEF ClaimInv, ClaimsAreHeld
  <2>8. \A u \in Tasks : Claiming(u)' => job'[u].cur.id \in claims'
    BY <1>9, <2>1, <2>2, <2>3 DEF ClaimInv, ClaimsApart
  <2> QED
    BY <2>2, <2>3, <2>4, <2>5, <2>7, <2>8 DEF ClaimInv
<1>10. ASSUME NEW t \in Tasks, GiveUp(t) PROVE ClaimInv'
  <2>1. claims' = claims \ {job[t].cur.id} /\ UNCHANGED <<devices,
     lost>> /\ Claiming(t) /\ ~Claiming(t)'
    BY <1>10 DEF JobsOK, JobType, Claiming, Registering, GiveUp, At, Dropped, Resume, Registry,
       registered, World
  <2>2. \A u \in Tasks \ {t} : job'[u] = job[u]
    BY <1>10 DEF JobsOK, GiveUp, Dropped
  <2>3. \A u \in Tasks : Claiming(u)' => u # t /\ Claiming(u) /\ (At(u, "settle")' <=> At(u,
     "settle"))
    BY <2>1, <2>2 DEF Claiming, At
  <2>4. UniqueIds' /\ IdsOf(devices)' = IdsOf(devices)
    BY <2>1 DEF ClaimInv, UniqueIds, IdsOf
  <2>5. ClaimsApart'
    BY <2>2, <2>3 DEF ClaimInv, ClaimsApart
  <2>6. \A u \in Tasks \ {t} : Claiming(u) => Claiming(u)' /\ job'[u].cur = job[u].cur
    BY <2>2 DEF Claiming
  <2>7. ClaimsAreHeld'
    BY <2>1, <2>6 DEF ClaimInv, ClaimsAreHeld
  <2>8. \A u \in Tasks : Claiming(u)' => job'[u].cur.id \in claims'
    BY <1>10, <2>1, <2>2, <2>3 DEF ClaimInv, ClaimsApart
  <2> QED
    BY <2>2, <2>3, <2>4, <2>5, <2>7, <2>8 DEF ClaimInv
<1>11. ASSUME NEW t \in Tasks, Pick(t) PROVE ClaimInv'
  <2>1. UNCHANGED claims /\ lost \subseteq lost' /\ devices' \subseteq devices
    BY <1>11 DEF Pick, At, Idle, Registry, registered, World
  <2> QED
    BY <1>11, <2>1, RegistryAssumption, PickMoves, MovesClaimsNothing, QuietStep DEF Tasks
<1>12. ASSUME NEW t \in Tasks, NextKid(t) PROVE ClaimInv'
  <2>1. UNCHANGED claims /\ lost \subseteq lost' /\ devices' \subseteq devices
    BY <1>12 DEF NextKid, At, Registry, registered, World
  <2> QED
    BY <1>12, <2>1, RegistryAssumption, NextKidMoves, MovesClaimsNothing, QuietStep DEF Tasks
<1>13. ASSUME NEW t \in Tasks, Collect(t) PROVE ClaimInv'
  <2>1. UNCHANGED claims /\ lost \subseteq lost' /\ devices' \subseteq devices
    BY <1>13 DEF Collect, At, Served, Idle, Registry, registered, World
  <2> QED
    BY <1>13, <2>1, RegistryAssumption, CollectMoves, MovesClaimsNothing, QuietStep DEF Tasks
<1>14. ASSUME NEW t \in Tasks, Track(t) PROVE ClaimInv'
  <2>1. UNCHANGED claims /\ lost \subseteq lost' /\ devices' \subseteq devices
    BY <1>14 DEF Track, At, Served, Idle, Registry, registered, World
  <2>2. \A u \in Tasks :
          /\ Claiming(u)' <=> Claiming(u)
          /\ Claiming(u) => job'[u].cur = job[u].cur /\ (At(u, "settle")' <=> At(u, "settle"))
    BY <1>14, RegistryAssumption DEF JobsOK, JobType, Tasks, Claiming, Registering, Track, At,
       Served, Idle, Registry, registered, World
  <2> QED
    BY <2>1, <2>2, QuietStep
<1>15. ASSUME Enumerate PROVE ClaimInv'
  <2>1. UNCHANGED claims /\ lost \subseteq lost' /\ devices' \subseteq devices
    BY <1>15 DEF Enumerate, At, Tracked, Registry, registered, World
  <2> QED
    BY <1>15, <2>1, RegistryAssumption, EnumerateMoves, MovesClaimsNothing, QuietStep DEF Tasks
<1>16. ASSUME Sweep PROVE ClaimInv'
  <2>1. UNCHANGED claims /\ lost \subseteq lost' /\ devices' \subseteq devices
    BY <1>16 DEF Sweep, At, Tracked, Registry, registered, World
  <2> QED
    BY <1>16, <2>1, RegistryAssumption, SweepMoves, MovesClaimsNothing, QuietStep DEF Tasks
<1>17. ASSUME SweepOwned PROVE ClaimInv'
  <2>1. UNCHANGED claims /\ lost \subseteq lost' /\ devices' \subseteq devices
    BY <1>17 DEF SweepOwned, At, Disown, OwnedBy, Registry, registered, World
  <2> QED
    BY <1>17, <2>1, RegistryAssumption, SweepOwnedMoves, MovesClaimsNothing, QuietStep DEF Tasks
<1>18. ASSUME Detach PROVE ClaimInv'
  <2>1. UNCHANGED claims /\ lost \subseteq lost' /\ devices' \subseteq devices
    BY <1>18 DEF Detach, At, Detaching, TrackedHere, OwnedHere, Retain, Registry, registered,
       World
  <2> QED
    BY <1>18, <2>1, RegistryAssumption, DetachMoves, MovesClaimsNothing, QuietStep DEF Tasks
<1>19. ASSUME Rediscover PROVE ClaimInv'
  <2>1. UNCHANGED claims /\ lost \subseteq lost' /\ devices' \subseteq devices
    BY <1>19 DEF Rediscover, At, Event, Registry, registered, World
  <2> QED
    BY <1>19, <2>1, RegistryAssumption, RediscoverMoves, MovesClaimsNothing, QuietStep DEF Tasks
<1>20. ASSUME Unregister PROVE ClaimInv'
  <2>1. UNCHANGED claims /\ lost \subseteq lost' /\ devices' \subseteq devices
    BY <1>20 DEF Unregister, At, Disown, OwnedBy, Tracked, Registry, registered, World
  <2> QED
    BY <1>20, <2>1, RegistryAssumption, UnregisterMoves, MovesClaimsNothing, QuietStep DEF Tasks
<1>21. ASSUME Tear PROVE ClaimInv'
  <2>1. UNCHANGED claims /\ lost \subseteq lost' /\ devices' \subseteq devices
    BY <1>21 DEF Tear, At, Retain, Without, Registry, registered, World
  <2> QED
    BY <1>21, <2>1, RegistryAssumption, TearMoves, MovesClaimsNothing, QuietStep DEF Tasks
<1>22. ASSUME Untrack PROVE ClaimInv'
  <2>1. UNCHANGED claims /\ lost \subseteq lost' /\ devices' \subseteq devices
    BY <1>22 DEF Untrack, At, Registry, registered, World
  <2>2. \A u \in Tasks :
          /\ Claiming(u)' <=> Claiming(u)
          /\ Claiming(u) => job'[u].cur = job[u].cur /\ (At(u, "settle")' <=> At(u, "settle"))
    BY <1>22, RegistryAssumption DEF JobsOK, JobType, Tasks, Claiming, Registering, Untrack, At,
       Registry, registered, World
  <2> QED
    BY <2>1, <2>2, QuietStep
<1>23. ASSUME Scan PROVE ClaimInv'
  <2>1. UNCHANGED claims /\ lost \subseteq lost' /\ devices' \subseteq devices
    BY <1>23 DEF Scan, At, Tracked, Registry, registered, World
  <2> QED
    BY <1>23, <2>1, RegistryAssumption, ScanMoves, MovesClaimsNothing, QuietStep DEF Tasks
<1>24. ASSUME ScanTimeout PROVE ClaimInv'
  <2> DEFINE mine == {job[Scanner].cur, job[Scanner].root} \cup job[Scanner].batch
  <2>1. UNCHANGED <<claims,
     devices>> /\ job' = [job EXCEPT ![Scanner] = Idle] /\ lost' = lost \cup IdsOf(mine \ {None})
    BY <1>24 DEF ScanTimeout, registered
  <2>2. ~Claiming(Scanner)' /\ \A u \in Tasks \ {Scanner} : job'[u] = job[u]
    BY <2>1 DEF JobsOK, Claiming, Registering, Idle, Tasks
  <2>3. \A u \in Tasks : Claiming(u)' => u # Scanner /\ Claiming(u) /\ (At(u,
     "settle")' <=> At(u, "settle"))
    BY <2>2 DEF Claiming, At
  <2>4. UniqueIds' /\ IdsOf(devices)' = IdsOf(devices)
    BY <2>1 DEF ClaimInv, UniqueIds, IdsOf
  <2>5. ClaimsApart'
    BY <2>2, <2>3 DEF ClaimInv, ClaimsApart
  <2>6. \A u \in Tasks \ {Scanner} : Claiming(u) => Claiming(u)' /\ job'[u].cur = job[u].cur
    BY <2>2 DEF Claiming
  <2>7. Claiming(Scanner) => job[Scanner].cur.id \in lost'
    BY <2>1 DEF Claiming, JobsOK, Registering, IdsOf, Tasks
  <2>8. ClaimsAreHeld'
    BY <2>1, <2>6, <2>7 DEF ClaimInv, ClaimsAreHeld
  <2>9. \A u \in Tasks : Claiming(u)' => job'[u].cur.id \in claims'
    BY <2>1, <2>2, <2>3 DEF ClaimInv
  <2> QED
    BY <2>2, <2>3, <2>4, <2>5, <2>8, <2>9 DEF ClaimInv
<1>25. ASSUME Notice PROVE ClaimInv'
  <2>1. UNCHANGED claims /\ lost \subseteq lost' /\ devices' \subseteq devices
    BY <1>25 DEF Notice, At, Event, Idle, Registry, registered, World
  <2> QED
    BY <1>25, <2>1, RegistryAssumption, NoticeMoves, MovesClaimsNothing, QuietStep DEF Tasks
<1>26. ASSUME Leave PROVE ClaimInv'
  <2>1. UNCHANGED claims /\ lost \subseteq lost' /\ devices' \subseteq devices
    BY <1>26 DEF Leave, At, Retain, Without, Registry, registered, World
  <2> QED
    BY <1>26, <2>1, RegistryAssumption, LeaveMoves, MovesClaimsNothing, QuietStep DEF Tasks
<1>27. ASSUME Adopt PROVE ClaimInv'
  <2>1. UNCHANGED claims /\ lost \subseteq lost' /\ devices' \subseteq devices
    BY <1>27 DEF Adopt, At, Idle, Registry, registered, World
  <2>2. \A u \in Tasks :
          /\ Claiming(u)' <=> Claiming(u)
          /\ Claiming(u) => job'[u].cur = job[u].cur /\ (At(u, "settle")' <=> At(u, "settle"))
    BY <1>27, RegistryAssumption DEF JobsOK, JobType, Tasks, Claiming, Registering, Adopt, At,
       Idle, Registry, registered, World
  <2> QED
    BY <2>1, <2>2, QuietStep
<1>28. ASSUME NEW k \in Keys, PlugOrUnplug(k) PROVE ClaimInv'
  <2>1. UNCHANGED claims /\ lost \subseteq lost' /\ devices' \subseteq devices
    BY <1>28 DEF PlugOrUnplug, At, Event, Registry, registered, World
  <2>2. \A u \in Tasks :
          /\ Claiming(u)' <=> Claiming(u)
          /\ Claiming(u) => job'[u].cur = job[u].cur /\ (At(u, "settle")' <=> At(u, "settle"))
    BY <1>28, RegistryAssumption DEF JobsOK, JobType, Tasks, Claiming, Registering,
       PlugOrUnplug, At, Event, Registry, registered, World
  <2> QED
    BY <2>1, <2>2, QuietStep
<1>29. ASSUME UNCHANGED vars PROVE ClaimInv'
  <2>1. UNCHANGED claims /\ lost \subseteq lost' /\ devices' \subseteq devices
    BY <1>29 DEF vars, At, Registry, registered, World
  <2>2. \A u \in Tasks :
          /\ Claiming(u)' <=> Claiming(u)
          /\ Claiming(u) => job'[u].cur = job[u].cur /\ (At(u, "settle")' <=> At(u, "settle"))
    BY <1>29, RegistryAssumption DEF JobsOK, JobType, Tasks, Claiming, Registering, vars, At,
       Registry, registered, World
  <2> QED
    BY <2>1, <2>2, QuietStep
<1> QED
  BY <1>1, <1>2, <1>3, <1>4, <1>5, <1>6, <1>7, <1>8, <1>9, <1>10, <1>11, <1>12, <1>13, <1>14,
     <1>15, <1>16, <1>17, <1>18, <1>19, <1>20, <1>21, <1>22, <1>23, <1>24, <1>25, <1>26, <1>27,
        <1>28, <1>29
     DEF Next, Step, Register, Add, MonitorStep, ScannerStep, ReconcilerStep

----------------------------------------------------------------------------
Inv == TypeOK /\ ClaimInv

LEMMA InitInv == Init => Inv
<1> SUFFICES ASSUME Init PROVE Inv
  OBVIOUS
<1> USE RegistryAssumption
<1>1. \A id \in Ids : First(id) \in Object
  BY DEF First, Object
<1>2. tracked \in [Keys -> SUBSET Object]
  BY <1>1 DEF Init, Kids, Ids
<1>3. up \subseteq Object /\ devices = up
  BY <1>2 DEF Init
<1>4. before \subseteq devices \X devices
  <2>1. PICK s \in SetToSeqs(devices) : before = Order(s)
    BY DEF Init
  <2>2. ToSet(s) \subseteq devices
    BY <2>1 DEF SetToSeqs, ToSet
  <2> QED
    BY <2>1, <2>2 DEF Order
<1>5. DevicesOK
  BY <1>2, <1>3, <1>4 DEF Init, DevicesOK
<1>6. Idle \in JobType /\ Idle.cur = None /\ Idle.pc \notin Registering /\ Idle.got = {}
      /\ Idle.todo = {}
  BY DEF Idle, JobType, Places, Scanning, Registering
<1>7. JobsOK
  BY <1>6 DEF Init, JobsOK, Tasks
<1>8. \A t \in Tasks : ~Claiming(t)
  BY <1>6 DEF Init, Claiming
<1>9. \A d \in devices : d = First(d.id)
  BY DEF Init, First
<1>10. UniqueIds
  BY <1>9 DEF UniqueIds
<1>11. ClaimsAreHeld /\ ClaimsApart
  BY <1>8 DEF Init, ClaimsAreHeld, ClaimsApart
<1> QED
  BY <1>5, <1>7, <1>8, <1>10, <1>11 DEF Inv, TypeOK, ClaimInv

LEMMA StepInv == Inv /\ [Next]_vars => Inv'
BY TypeStep, ClaimStep DEF Inv

\* Every state of the registry and of the tasks is well typed.
THEOREM TypeCorrect == Spec => []TypeOK
<1>1. Inv => TypeOK
  BY DEF Inv
<1> QED
  BY InitInv, StepInv, <1>1, PTL DEF Spec

\* claim_registration closes the race between the check and the insertion: however the
\* tasks interleave, an id is registered once.
THEOREM IdsAreUnique == Spec => []UniqueIds
<1>1. Inv => UniqueIds
  BY DEF Inv, ClaimInv
<1> QED
  BY InitInv, StepInv, <1>1, PTL DEF Spec

\* No id stays claimed when its registration has ended, but for those a scan was at when
\* its time was up.
THEOREM ClaimsEnd == Spec => []ClaimsAreHeld
<1>1. Inv => ClaimsAreHeld
  BY DEF Inv, ClaimInv
<1> QED
  BY InitInv, StepInv, <1>1, PTL DEF Spec

----------------------------------------------------------------------------
(* Objects: who has them, and who will close them.                          *)

\* A task has an object to itself until it is pushed, and has it open from
\* initialization on.
Private(t) == job[t].pc \in Registering \ {"settle"}
Opened(t) == job[t].pc \in {"prefer", "displace", "orphan", "displacing", "push"}
\* A task has taken what it is about to close out of the registry.
Closing(t) == job[t].pc \in {"orphan"} \cup DOMAIN AfterClosing

PrivateCur(t) ==
  Private(t) =>
    /\ job[t].cur \notin devices /\ \A k \in Keys : job[t].cur \notin tracked[k]
    /\ \A u \in Tasks : job[t].cur \notin job[u].batch /\ job[t].cur # job[u].root
    /\ \A u \in Tasks \ {t} : job[t].cur # job[u].cur

ObjectInv ==
  /\ RegisteredIsOpen
  /\ \A t \in Tasks : /\ PrivateCur(t)
                      /\ Opened(t) => job[t].cur \in up
                      /\ Closing(t) => job[t].batch \cap devices = {}
  /\ \A d \in up : \/ d \in devices \/ d.id \in lost
                   \/ \E t \in Tasks : Closing(t) /\ d \in job[t].batch
                   \/ \E t \in Tasks : Opened(t) /\ d = job[t].cur


\* What a step of task t does to the objects: it takes what is new, what it holds, and
\* what is registered or tracked; what it takes out of the registry it will close, and
\* what it closes it had.
Takes(t) ==
  /\ \A u \in Tasks \ {t} : job'[u] = job[u]
  /\ \A k \in Keys : tracked'[k] \subseteq tracked[k] \cup job[t].batch
  /\ job'[t].batch \subseteq job[t].batch \cup devices \cup UNION {tracked[k] : k \in Keys}
  /\ \/ job'[t].root \in {None, job[t].root} \cup devices
     \/ job'[t].root = job[t].cur /\ ~Private(t)'
  /\ job'[t].cur \in {None, job[t].cur} \/ Free(job'[t].cur)
  /\ Private(t)' => \/ Private(t) /\ job'[t].cur = job[t].cur
                    \/ Free(job'[t].cur)
Keeps(t) ==
  /\ \A d \in devices' \ devices : d = job[t].cur /\ At(t, "push") /\ ~Private(t)'
  /\ \A d \in devices \ devices' : d.id \in lost' \/ (Closing(t)' /\ d \in job'[t].batch)
  /\ Closing(t)' => job'[t].batch \cap devices' = {}
  /\ \A d \in up \ up' : /\ d \notin devices'
                         /\ d \in job[t].batch \cup {job[t].cur, job[t].root}
  /\ \A d \in up' \ up : Opened(t)' /\ d = job'[t].cur
  /\ Opened(t)' => job'[t].cur \in up'
Covers(t) ==
  /\ lost \subseteq lost'
  /\ Closing(t) => \A d \in job[t].batch \cap up' :
                     d \in devices' \/ d.id \in lost' \/ (Closing(t)' /\ d \in job'[t].batch)
  /\ (Opened(t) /\ job[t].cur \in up') =>
       \/ job[t].cur \in devices' \/ job[t].cur.id \in lost'
       \/ Opened(t)' /\ job'[t].cur = job[t].cur
Handles(t) == Takes(t) /\ Keeps(t) /\ Covers(t)

LEMMA OpenedIsPrivate ==
  ASSUME JobsOK, NEW t \in Tasks
  PROVE  /\ Opened(t) => Private(t)
         /\ Private(t) => job[t].cur \in Object
         /\ At(t, "push") => Opened(t)
BY JobFields, NoneIsNoObject DEF Opened, Private, Registering, At

LEMMA HandlingKeeps ==
  ASSUME TypeOK, TypeOK', ObjectInv, NEW t \in Tasks, Handles(t)
  PROVE  ObjectInv'
<1> USE DEF TypeOK
<1> DEFINE Tr == UNION {tracked[k] : k \in Keys}
<1>1. RegisteredIsOpen'
  BY OpenedIsPrivate DEF ObjectInv, RegisteredIsOpen, Handles, Keeps
<1>2. ASSUME NEW u \in Tasks \ {t} PROVE PrivateCur(u)'
  <2> SUFFICES ASSUME Private(u) PROVE PrivateCur(u)'
    BY <1>2 DEF Handles, Takes, PrivateCur, Private
  <2>1. /\ job'[u] = job[u] /\ job[u].cur \in Object
        /\ job[u].cur \notin devices /\ job[u].cur \notin Tr
        /\ \A v \in Tasks : job[u].cur \notin job[v].batch /\ job[u].cur # job[v].root
        /\ \A v \in Tasks \ {u} : job[u].cur # job[v].cur
    BY <1>2, OpenedIsPrivate DEF Handles, Takes, ObjectInv, PrivateCur
  <2>2. job[u].cur \in Held /\ ~Free(job[u].cur)
    BY <1>2 DEF Held, Free, Referenced
  <2>3. job[u].cur \notin devices'
    BY <2>1 DEF Handles, Keeps
  <2>4. \A k \in Keys : job[u].cur \notin tracked'[k]
    BY <2>1 DEF Handles, Takes
  <2>5. job[u].cur \notin job'[t].batch /\ job[u].cur # job'[t].root
    BY <2>1, NoneIsNoObject DEF Handles, Takes
  <2>6. job[u].cur # job'[t].cur
    BY <2>1, <2>2, NoneIsNoObject DEF Handles, Takes
  <2>7. \A v \in Tasks \ {t} : job'[v] = job[v]
    BY DEF Handles, Takes
  <2> QED
    BY <1>2, <2>1, <2>3, <2>4, <2>5, <2>6, <2>7 DEF PrivateCur
<1>3. PrivateCur(t)'
  <2> SUFFICES ASSUME Private(t)' PROVE PrivateCur(t)'
    BY DEF PrivateCur
  <2> DEFINE c == job'[t].cur
  <2>0. c \in Object /\ (\A v \in Tasks \ {t} : job'[v] = job[v])
    BY OpenedIsPrivate, NoneIsNoObject, JobFields DEF Handles, Takes, JobsOK, JobType, Private
  <2>1. /\ c \notin devices /\ c \notin Tr
        /\ \A v \in Tasks : c \notin job[v].batch /\ c # job[v].root
        /\ \A v \in Tasks \ {t} : c # job[v].cur
    <3>1. CASE Private(t) /\ c = job[t].cur
      BY <3>1 DEF ObjectInv, PrivateCur
    <3>2. CASE Free(c)
      BY <3>2 DEF Free, Referenced, Held
    <3> QED
      BY <3>1, <3>2 DEF Handles, Takes
  <2>2. c \notin devices'
    BY <2>1 DEF Handles, Keeps
  <2>3. \A k \in Keys : c \notin tracked'[k]
    BY <2>1 DEF Handles, Takes
  <2>4. c \notin job'[t].batch /\ c # job'[t].root
    BY <2>0, <2>1, NoneIsNoObject DEF Handles, Takes
  <2> QED
    BY <2>0, <2>1, <2>2, <2>3, <2>4 DEF PrivateCur
<1>4. \A u \in Tasks : Opened(u)' => job'[u].cur \in up'
  <2>1. ASSUME NEW u \in Tasks \ {t}, Opened(u)' PROVE job'[u].cur \in up'
    <3>1. job'[u] = job[u] /\ Opened(u)
      BY <2>1 DEF Handles, Takes, Opened
    <3>2. job[u].cur \in up /\ Private(u) /\ PrivateCur(u)
      BY <3>1, OpenedIsPrivate DEF ObjectInv
    <3>3. job[u].cur \notin job[t].batch \cup {job[t].cur, job[t].root}
      BY <2>1, <3>2 DEF PrivateCur
    <3> QED
      BY <3>1, <3>2, <3>3 DEF Handles, Keeps
  <2> QED
    BY <2>1 DEF Handles, Keeps
<1>5. \A u \in Tasks : Closing(u)' => job'[u].batch \cap devices' = {}
  <2>1. ASSUME NEW u \in Tasks \ {t}, Closing(u)' PROVE job'[u].batch \cap devices' = {}
    <3>1. job'[u] = job[u] /\ Closing(u)
      BY <2>1 DEF Handles, Takes, Closing
    <3>2. job[u].batch \cap devices = {}
      BY <3>1 DEF ObjectInv
    <3>3. \A d \in devices' \ devices : d \notin job[u].batch
      BY OpenedIsPrivate DEF Handles, Keeps, ObjectInv, PrivateCur
    <3> QED
      BY <3>1, <3>2, <3>3
  <2> QED
    BY <2>1 DEF Handles, Keeps
<1>6. ASSUME NEW d \in up'
      PROVE  \/ d \in devices' \/ d.id \in lost'
             \/ \E u \in Tasks : Closing(u)' /\ d \in job'[u].batch
             \/ \E u \in Tasks : Opened(u)' /\ d = job'[u].cur
  <2>1. CASE d \notin up
    BY <1>6, <2>1 DEF Handles, Keeps
  <2>2. CASE d \in devices
    BY <2>2 DEF Handles, Keeps
  <2>3. CASE d.id \in lost
    BY <2>3 DEF Handles, Covers
  <2>4. ASSUME NEW u \in Tasks, Closing(u), d \in job[u].batch
        PROVE  \/ d \in devices' \/ d.id \in lost'
               \/ \E v \in Tasks : Closing(v)' /\ d \in job'[v].batch
    <3>1. CASE u = t
      BY <1>6, <2>4, <3>1 DEF Handles, Covers
    <3>2. CASE u # t
      BY <2>4, <3>2 DEF Handles, Takes, Closing
    <3> QED
      BY <3>1, <3>2
  <2>5. ASSUME NEW u \in Tasks, Opened(u), d = job[u].cur
        PROVE  \/ d \in devices' \/ d.id \in lost'
               \/ \E v \in Tasks : Opened(v)' /\ d = job'[v].cur
    <3>1. CASE u = t
      BY <1>6, <2>5, <3>1 DEF Handles, Covers
    <3>2. CASE u # t
      BY <2>5, <3>2 DEF Handles, Takes, Opened
    <3> QED
      BY <3>1, <3>2
  <2> QED
    BY <2>1, <2>2, <2>3, <2>4, <2>5 DEF ObjectInv
<1> QED
  BY <1>1, <1>2, <1>3, <1>4, <1>5, <1>6 DEF ObjectInv

----------------------------------------------------------------------------
(* Every step of a task handles objects like that.                           *)

LEMMA ClaimHandles == ASSUME Inv, ObjectInv, NEW t \in Tasks, Claim(t) PROVE Handles(t)
<1>1. /\ job[t].pc = "claim" /\ UNCHANGED <<devices, tracked, up, lost>>
      /\ \A u \in Tasks \ {t} : job'[u] = job[u]
      /\ job'[t].pc \in {"init", "pick", "kids"} /\ job'[t].cur \in {None, job[t].cur}
      /\ job'[t].pc = "init" => job'[t].cur = job[t].cur
      /\ job'[t].root = job[t].root /\ job'[t].batch = job[t].batch
  BY DEF Claim, ClaimIf, At, registered, World, Inv, TypeOK, JobsOK, JobType, Dropped, Resume
<1> QED
  BY <1>1 DEF Handles, Takes, Keeps, Covers, Private, Opened, Closing, AfterClosing,
     Registering, At

LEMMA InitializeHandles == ASSUME Inv, ObjectInv, NEW t \in Tasks, Initialize(t) PROVE Handles(t)
<1>1. /\ job[t].pc = "init" /\ UNCHANGED <<devices, tracked, lost>>
      /\ up' = up \cup {job[t].cur}
      /\ \A u \in Tasks \ {t} : job'[u] = job[u]
      /\ job'[t].pc = "prefer" /\ job'[t].cur = job[t].cur
      /\ job'[t].root = job[t].root /\ job'[t].batch = job[t].batch
  BY DEF Initialize, At, registered, World, Inv, TypeOK, JobsOK, JobType
<1> QED
  BY <1>1 DEF Handles, Takes, Keeps, Covers, Private, Opened, Closing, AfterClosing,
     Registering, At

LEMMA InitFailsHandles == ASSUME Inv, ObjectInv, NEW t \in Tasks, InitFails(t) PROVE Handles(t)
<1>1. /\ job[t].pc = "init" /\ UNCHANGED <<devices, tracked, up, lost>>
      /\ \A u \in Tasks \ {t} : job'[u] = job[u]
      /\ job'[t].pc = "giveUp" /\ job'[t].cur = job[t].cur
      /\ job'[t].root = job[t].root /\ job'[t].batch = job[t].batch
  BY DEF InitFails, At, Registry, registered, World, Inv, TypeOK, JobsOK, JobType
<1> QED
  BY <1>1 DEF Handles, Takes, Keeps, Covers, Private, Opened, Closing, AfterClosing,
     Registering, At

LEMMA PreferHandles == ASSUME Inv, ObjectInv, NEW t \in Tasks, Prefer(t) PROVE Handles(t)
<1> DEFINE twins == {d \in devices : Twins(d, job[t].cur)}
<1>1. /\ job[t].pc = "prefer" /\ UNCHANGED <<devices, tracked, lost>>
      /\ \A u \in Tasks \ {t} : job'[u] = job[u]
      /\ job'[t].cur = job[t].cur /\ job'[t].root = job[t].root
      /\ \/ job'[t].pc = "push" /\ job'[t].batch = job[t].batch /\ UNCHANGED up
         \/ job'[t].pc = "giveUp" /\ job'[t].batch = job[t].batch /\ up' = up \ {job[t].cur}
         \/ job'[t].pc = "displace" /\ job'[t].batch \subseteq devices /\ UNCHANGED up
  <2> HIDE DEF twins
  <2>1. twins \subseteq devices
    BY DEF twins
  <2> QED
    BY <2>1 DEF Prefer, twins, At, registered, World, Inv, TypeOK, JobsOK, JobType
<1>2. job[t].cur \notin devices /\ job[t].cur \in up
  BY <1>1 DEF ObjectInv, PrivateCur, Private, Opened, Registering
<1> QED
  BY <1>1, <1>2 DEF Handles, Takes, Keeps, Covers, Private, Opened, Closing, AfterClosing,
     Registering, At

LEMMA DisplaceHandles == ASSUME Inv, ObjectInv, NEW t \in Tasks, Displace(t) PROVE Handles(t)
<1>1. /\ job[t].pc = "displace" /\ UNCHANGED <<tracked, up>>
      /\ devices' = Without(IdsOf(job[t].batch))
      /\ lost' = lost \cup IdsOf({d \in devices \ job[t].batch : d.id \in IdsOf(job[t].batch)})
      /\ \A u \in Tasks \ {t} : job'[u] = job[u]
      /\ job'[t].pc = "orphan" /\ job'[t].cur = job[t].cur
      /\ job'[t].root = job[t].root /\ job'[t].batch = job[t].batch
  BY DEF Displace, Retain, At, Inv, TypeOK, JobsOK, JobType
<1>2. /\ devices' \subseteq devices /\ job[t].batch \cap devices' = {}
      /\ \A d \in devices \ devices' : d \in job[t].batch \/ d.id \in lost'
      /\ lost \subseteq lost'
  BY <1>1 DEF Without, IdsOf
<1>3. job[t].cur \notin devices /\ job[t].cur \in up
  BY <1>1 DEF ObjectInv, PrivateCur, Private, Opened, Registering
<1> QED
  BY <1>1, <1>2, <1>3 DEF Handles, Takes, Keeps, Covers, Private, Opened, Closing, AfterClosing,
     Registering, At

LEMMA OrphanHandles == ASSUME Inv, ObjectInv, NEW t \in Tasks, Orphan(t) PROVE Handles(t)
<1>1. /\ job[t].pc = "orphan" /\ UNCHANGED <<devices, tracked, up, lost>>
      /\ \A u \in Tasks \ {t} : job'[u] = job[u]
      /\ job'[t].pc = "displacing" /\ job'[t].cur = job[t].cur
      /\ job'[t].root = job[t].root /\ job'[t].batch = job[t].batch
  BY DEF Orphan, At, registered, World, Inv, TypeOK, JobsOK, JobType
<1>2. job[t].cur \in up /\ job[t].batch \cap devices = {}
  BY <1>1 DEF ObjectInv, Opened, Closing
<1> QED
  BY <1>1, <1>2 DEF Handles, Takes, Keeps, Covers, Private, Opened, Closing, AfterClosing,
     Registering, At

LEMMA CloseNextHandles == ASSUME Inv, ObjectInv, NEW t \in Tasks, CloseNext(t) PROVE Handles(t)
<1> USE DEF AfterClosing
<1>0. /\ job[t].pc \in {"sweeping", "tearing", "displacing", "leaving"}
      /\ UNCHANGED <<devices, tracked, lost>>
      /\ Closing(t)
  BY DEF CloseNext, registered, World, Closing
<1>1. job[t].batch \cap devices = {} /\ (Opened(t) => job[t].cur \in up)
  BY <1>0 DEF ObjectInv
<1>2. CASE job[t].batch = {}
  <2>1. /\ UNCHANGED up
        /\ \A u \in Tasks \ {t} : job'[u] = job[u]
        /\ job'[t].pc \in {"sweep", "unregister", "push", "adopt"}
        /\ job'[t].pc = "push" <=> job[t].pc = "displacing"
        /\ job'[t].cur = job[t].cur /\ job'[t].root = job[t].root /\ job'[t].batch = {}
    BY <1>0, <1>2 DEF CloseNext, Inv, TypeOK, JobsOK, JobType
  <2> QED
    BY <1>0, <1>1, <1>2, <2>1
       DEF Handles, Takes, Keeps, Covers, Private, Opened, Closing, Registering, At
<1>3. CASE job[t].batch # {}
  <2>1. PICK d \in job[t].batch :
          up' = up \ {d} /\ job' = [job EXCEPT ![t].batch = @ \ {d}]
    BY <1>3 DEF CloseNext
  <2>2. /\ \A u \in Tasks \ {t} : job'[u] = job[u]
        /\ job'[t].pc = job[t].pc /\ job'[t].cur = job[t].cur /\ job'[t].root = job[t].root
        /\ job'[t].batch = job[t].batch \ {d}
    BY <2>1 DEF Inv, TypeOK, JobsOK, JobType
  <2>3. Opened(t) => job[t].cur # d
    BY OpenedIsPrivate DEF ObjectInv, PrivateCur, Inv, TypeOK
  <2> QED
    BY <1>0, <1>1, <2>1, <2>2, <2>3
       DEF Handles, Takes, Keeps, Covers, Private, Opened, Closing, Registering, At
<1> QED
  BY <1>2, <1>3

LEMMA PushHandles == ASSUME Inv, ObjectInv, NEW t \in Tasks, Push(t) PROVE Handles(t)
<1>1. /\ job[t].pc = "push" /\ UNCHANGED <<tracked, up, lost>>
      /\ devices' = devices \cup {job[t].cur}
      /\ \A u \in Tasks \ {t} : job'[u] = job[u]
      /\ job'[t].pc = "settle" /\ job'[t].cur = job[t].cur
      /\ job'[t].root = job[t].root /\ job'[t].batch = job[t].batch
  BY DEF Push, At, World, Inv, TypeOK, JobsOK, JobType
<1> QED
  BY <1>1 DEF Handles, Takes, Keeps, Covers, Private, Opened, Closing, AfterClosing,
     Registering, At

LEMMA SettleHandles == ASSUME Inv, ObjectInv, NEW t \in Tasks, Settle(t) PROVE Handles(t)
<1>1. /\ job[t].pc = "settle" /\ UNCHANGED <<devices, tracked, up, lost>>
      /\ \A u \in Tasks \ {t} : job'[u] = job[u]
      /\ job'[t].pc = "kids" /\ job'[t].cur = None
      /\ job'[t].root \in {job[t].root, job[t].cur} /\ job'[t].batch = job[t].batch
  BY DEF Settle, At, registered, World, Inv, TypeOK, JobsOK, JobType
<1> QED
  BY <1>1 DEF Handles, Takes, Keeps, Covers, Private, Opened, Closing, AfterClosing,
     Registering, At

LEMMA GiveUpHandles == ASSUME Inv, ObjectInv, NEW t \in Tasks, GiveUp(t) PROVE Handles(t)
<1>1. /\ job[t].pc = "giveUp" /\ UNCHANGED <<devices, tracked, up, lost>>
      /\ \A u \in Tasks \ {t} : job'[u] = job[u]
      /\ job'[t].pc \in {"pick", "kids"} /\ job'[t].cur = None
      /\ job'[t].root = job[t].root /\ job'[t].batch = job[t].batch
  BY DEF GiveUp, At, registered, World, Inv, TypeOK, JobsOK, JobType, Dropped, Resume
<1> QED
  BY <1>1 DEF Handles, Takes, Keeps, Covers, Private, Opened, Closing, AfterClosing,
     Registering, At

LEMMA PickHandles == ASSUME Inv, ObjectInv, NEW t \in Tasks, Pick(t) PROVE Handles(t)
<1>1. /\ job[t].pc = "pick" /\ UNCHANGED <<devices, tracked, up, lost>>
      /\ \A u \in Tasks \ {t} : job'[u] = job[u]
      /\ job'[t].root = None /\ job'[t].batch = {}
      /\ \/ job'[t].pc = "claim" /\ Free(job'[t].cur)
         \/ job'[t].pc = "idle" /\ job'[t].cur = None
  <2>0. /\ job[t].pc = "pick" /\ UNCHANGED <<devices, tracked, up, lost>>
        /\ \A u \in Tasks \ {t} : job'[u] = job[u]
    BY DEF Pick, At, Registry, registered, World, Inv, TypeOK, JobsOK
  <2>1. ASSUME NEW k \in job[t].todo, NEW d \in Object, Free(d),
               job' = [job EXCEPT ![t] = [Idle EXCEPT !.pc = "claim", !.cur = d,
                                                      !.todo = job[t].todo \ {k}]]
        PROVE  /\ job'[t].root = None /\ job'[t].batch = {}
               /\ job'[t].pc = "claim" /\ job'[t].cur = d
    BY <2>1 DEF Idle, Inv, TypeOK, JobsOK
  <2>2. ASSUME job' = [job EXCEPT ![t] = Idle]
        PROVE  /\ job'[t].root = None /\ job'[t].batch = {}
               /\ job'[t].pc = "idle" /\ job'[t].cur = None
    BY <2>2 DEF Idle, Inv, TypeOK, JobsOK
  <2> QED
    BY <2>0, <2>1, <2>2 DEF Pick
<1> QED
  BY <1>1 DEF Handles, Takes, Keeps, Covers, Private, Opened, Closing, AfterClosing,
     Registering, At

LEMMA NextKidHandles == ASSUME Inv, ObjectInv, NEW t \in Tasks, NextKid(t) PROVE Handles(t)
<1>1. /\ job[t].pc = "kids" /\ UNCHANGED <<devices, tracked, up, lost>>
      /\ \A u \in Tasks \ {t} : job'[u] = job[u]
      /\ job'[t].root = job[t].root /\ job'[t].batch = job[t].batch
      /\ \/ job'[t].pc = "claim" /\ Free(job'[t].cur)
         \/ job'[t].pc \in {"leave", "collect"} /\ job'[t].cur = job[t].cur
  <2>0. /\ job[t].pc = "kids" /\ UNCHANGED <<devices, tracked, up, lost>>
        /\ \A u \in Tasks \ {t} : job'[u] = job[u]
    BY DEF NextKid, At, Registry, registered, World, Inv, TypeOK, JobsOK
  <2>1. ASSUME NEW c \in job[t].kids, NEW d \in Object, Free(d),
               job' = [job EXCEPT ![t].pc = "claim", ![t].cur = d, ![t].kids = @ \ {c}]
        PROVE  /\ job'[t].root = job[t].root /\ job'[t].batch = job[t].batch
               /\ job'[t].pc = "claim" /\ job'[t].cur = d
    BY <2>1 DEF Inv, TypeOK, JobsOK, JobType
  <2>2. ASSUME NEW place \in {"leave", "collect"}, job' = [job EXCEPT ![t].pc = place]
        PROVE  /\ job'[t].root = job[t].root /\ job'[t].batch = job[t].batch
               /\ job'[t].pc = place /\ job'[t].cur = job[t].cur
    BY <2>2 DEF Inv, TypeOK, JobsOK, JobType
  <2>3. \/ \E c \in job[t].kids, d \in Object :
             /\ Free(d)
             /\ job' = [job EXCEPT ![t].pc = "claim", ![t].cur = d, ![t].kids = @ \ {c}]
        \/ \E place \in {"leave", "collect"} : job' = [job EXCEPT ![t].pc = place]
    BY DEF NextKid
  <2> QED
    BY <2>0, <2>1, <2>2, <2>3
<1> QED
  BY <1>1 DEF Handles, Takes, Keeps, Covers, Private, Opened, Closing, AfterClosing,
     Registering, At

LEMMA CollectHandles == ASSUME Inv, ObjectInv, NEW t \in Tasks, Collect(t) PROVE Handles(t)
<1> DEFINE after == {d \in devices : d = job[t].root \/ <<job[t].root, d>> \in before}
<1>1. after \subseteq devices
  OBVIOUS
<1>2. /\ job[t].pc = "collect" /\ UNCHANGED <<devices, tracked, up, lost>>
      /\ \A u \in Tasks \ {t} : job'[u] = job[u]
      /\ job'[t].pc \in {"pick", "track"} /\ job'[t].cur \in {None, job[t].cur}
      /\ job'[t].root \in {None, job[t].root} /\ job'[t].batch \subseteq devices
  <2>0. /\ job[t].pc = "collect" /\ UNCHANGED <<devices, tracked, up, lost>>
        /\ \A u \in Tasks \ {t} : job'[u] = job[u]
    BY DEF Collect, At, Registry, registered, World, Inv, TypeOK, JobsOK
  <2>1. CASE job' = [job EXCEPT ![t] = Served(t)]
    BY <2>0, <2>1 DEF Served, Idle, Inv, TypeOK, JobsOK
  <2>2. CASE job' = [job EXCEPT ![t].pc = "track", ![t].batch = after]
    <3> HIDE DEF after
    <3> QED
      BY <1>1, <2>0, <2>2 DEF Inv, TypeOK, JobsOK, JobType
  <2> QED
    BY <2>1, <2>2 DEF Collect
<1> QED
  BY <1>2 DEF Handles, Takes, Keeps, Covers, Private, Opened, Closing, AfterClosing,
     Registering, At

LEMMA TrackHandles == ASSUME Inv, ObjectInv, NEW t \in Tasks, Track(t) PROVE Handles(t)
<1>1. /\ job[t].pc = "track" /\ UNCHANGED <<devices, up, lost>>
      /\ \A k \in Keys : tracked'[k] \in {tracked[k], job[t].batch}
      /\ \A u \in Tasks \ {t} : job'[u] = job[u]
      /\ job'[t].pc = "pick" /\ job'[t].cur = None /\ job'[t].root = None /\ job'[t].batch = {}
  BY DEF Track, Served, Idle, At, registered, World, Inv, TypeOK, JobsOK, DevicesOK
<1> QED
  BY <1>1 DEF Handles, Takes, Keeps, Covers, Private, Opened, Closing, AfterClosing,
     Registering, At

LEMMA EnumerateHandles == ASSUME Inv, ObjectInv, Enumerate PROVE Handles(Monitor)
<1>1. /\ job[Monitor].pc = "idle" /\ UNCHANGED <<devices, tracked, up, lost>>
      /\ \A u \in Tasks \ {Monitor} : job'[u] = job[u]
      /\ job'[Monitor].pc = "sweep" /\ job'[Monitor].cur = job[Monitor].cur
      /\ job'[Monitor].root = job[Monitor].root /\ job'[Monitor].batch = job[Monitor].batch
  BY DEF Enumerate, At, Registry, registered, Inv, TypeOK, JobsOK, JobType, Tasks
<1> QED
  BY <1>1 DEF Handles, Takes, Keeps, Covers, Private, Opened, Closing, AfterClosing,
     Registering, At

LEMMA SweepHandles == ASSUME Inv, ObjectInv, Sweep PROVE Handles(Monitor)
<1>1. /\ job[Monitor].pc = "sweep" /\ UNCHANGED <<devices, up, lost>>
      /\ \A k \in Keys : tracked'[k] \subseteq tracked[k]
      /\ \A u \in Tasks \ {Monitor} : job'[u] = job[u]
      /\ job'[Monitor].pc \in {"sweep", "disown", "pick"} /\ job'[Monitor].cur = job[Monitor].cur
      /\ job'[Monitor].root = job[Monitor].root
      /\ job'[Monitor].batch \in {job[Monitor].batch} \cup {tracked[k] : k \in Keys}
  <2>1. job[Monitor].todo \subseteq Keys
    BY DEF Inv, TypeOK, JobsOK
  <2>2. /\ job[Monitor].pc = "sweep" /\ UNCHANGED <<devices, up, lost>>
        /\ \A u \in Tasks \ {Monitor} : job'[u] = job[u]
    BY DEF Sweep, At, registered, World, Inv, TypeOK, JobsOK
  <2>3. ASSUME NEW k \in job[Monitor].todo, NEW place \in {"sweep", "disown"},
               tracked' = [tracked EXCEPT ![k] = {}],
               job' = [job EXCEPT ![Monitor].pc = place,
                                  ![Monitor].batch = tracked[k], ![Monitor].todo = @ \ {k}]
        PROVE  /\ \A j \in Keys : tracked'[j] \subseteq tracked[j]
               /\ job'[Monitor].pc = place /\ job'[Monitor].cur = job[Monitor].cur
               /\ job'[Monitor].root = job[Monitor].root /\ job'[Monitor].batch = tracked[k]
    BY <2>1, <2>3 DEF Inv, TypeOK, JobsOK, JobType, DevicesOK, Tasks
  <2>4. ASSUME UNCHANGED tracked,
               job' = [job EXCEPT ![Monitor].pc = "pick", ![Monitor].todo = live \ Tracked]
        PROVE  /\ \A j \in Keys : tracked'[j] \subseteq tracked[j]
               /\ job'[Monitor].pc = "pick" /\ job'[Monitor].cur = job[Monitor].cur
               /\ job'[Monitor].root = job[Monitor].root /\ job'[Monitor].batch = job[Monitor].batch
    BY <2>4 DEF Inv, TypeOK, JobsOK, JobType, Tasks
  <2> QED
    BY <2>1, <2>2, <2>3, <2>4 DEF Sweep
<1> QED
  BY <1>1 DEF Handles, Takes, Keeps, Covers, Private, Opened, Closing, AfterClosing,
     Registering, At

LEMMA SweepOwnedHandles == ASSUME Inv, ObjectInv, SweepOwned PROVE Handles(Monitor)
<1>1. /\ job[Monitor].pc = "disown" /\ UNCHANGED <<devices, tracked, up, lost>>
      /\ \A u \in Tasks \ {Monitor} : job'[u] = job[u]
      /\ job'[Monitor].pc = "detach" /\ job'[Monitor].cur = job[Monitor].cur
      /\ job'[Monitor].root = job[Monitor].root /\ job'[Monitor].batch = job[Monitor].batch
  BY DEF SweepOwned, At, registered, World, Inv, TypeOK, JobsOK, JobType, Tasks
<1> QED
  BY <1>1 DEF Handles, Takes, Keeps, Covers, Private, Opened, Closing, AfterClosing,
     Registering, At

LEMMA DetachHandles == ASSUME Inv, ObjectInv, Detach PROVE Handles(Monitor)
<1> DEFINE gone == TrackedHere \cup OwnedHere
<1>1. gone \subseteq devices
  BY DEF TrackedHere, OwnedHere
<1>2. /\ job[Monitor].pc = "detach" /\ UNCHANGED <<tracked, up, lost>>
      /\ devices' = devices \ gone
      /\ \A u \in Tasks \ {Monitor} : job'[u] = job[u]
      /\ job'[Monitor].pc = "sweeping" /\ job'[Monitor].cur = job[Monitor].cur
      /\ job'[Monitor].root = job[Monitor].root /\ job'[Monitor].batch = gone
  BY DEF Detach, Detaching, Retain, At, World, Inv, TypeOK, JobsOK, JobType, Tasks
<1> HIDE DEF gone
<1> QED
  BY <1>1, <1>2 DEF Handles, Takes, Keeps, Covers, Private, Opened, Closing, AfterClosing,
     Registering, At

LEMMA RediscoverHandles == ASSUME Inv, ObjectInv, Rediscover PROVE Handles(Scanner)
<1>1. /\ job[Scanner].pc = "idle" /\ UNCHANGED <<devices, tracked, up, lost>>
      /\ \A u \in Tasks \ {Scanner} : job'[u] = job[u]
      /\ job'[Scanner].pc = "unregister" /\ job'[Scanner].cur = job[Scanner].cur
      /\ job'[Scanner].root = job[Scanner].root /\ job'[Scanner].batch = job[Scanner].batch
  BY DEF Rediscover, At, Registry, registered, Inv, TypeOK, JobsOK, JobType, Tasks
<1> QED
  BY <1>1 DEF Handles, Takes, Keeps, Covers, Private, Opened, Closing, AfterClosing,
     Registering, At

LEMMA UnregisterHandles == ASSUME Inv, ObjectInv, Unregister PROVE Handles(Scanner)
<1>1. /\ job[Scanner].pc = "unregister" /\ UNCHANGED <<devices, tracked, up, lost>>
      /\ \A u \in Tasks \ {Scanner} : job'[u] = job[u]
      /\ job'[Scanner].pc \in {"tear", "untrack"} /\ job'[Scanner].cur = job[Scanner].cur
      /\ job'[Scanner].root = job[Scanner].root /\ job'[Scanner].batch = job[Scanner].batch
  <2>0. /\ job[Scanner].pc = "unregister" /\ UNCHANGED <<devices, tracked, up, lost>>
        /\ \A u \in Tasks \ {Scanner} : job'[u] = job[u]
    BY DEF Unregister, At, registered, World, Inv, TypeOK, JobsOK
  <2> DEFINE gone == {k \in Tracked : IdsOf(tracked[k]) \subseteq job[Scanner].got}
  <2>2. ASSUME NEW id \in job[Scanner].todo, NEW kids,
               job' = [job EXCEPT ![Scanner].pc = "tear", ![Scanner].todo = @ \ {id},
                                  ![Scanner].kids = kids]
        PROVE  /\ job'[Scanner].pc = "tear" /\ job'[Scanner].cur = job[Scanner].cur
               /\ job'[Scanner].root = job[Scanner].root /\ job'[Scanner].batch = job[Scanner].batch
    BY <2>2 DEF Inv, TypeOK, JobsOK, JobType, Tasks
  <2>3. ASSUME NEW todo, job' = [job EXCEPT ![Scanner].pc = "untrack", ![Scanner].got = {},
                                            ![Scanner].todo = todo]
        PROVE  /\ job'[Scanner].pc = "untrack" /\ job'[Scanner].cur = job[Scanner].cur
               /\ job'[Scanner].root = job[Scanner].root /\ job'[Scanner].batch = job[Scanner].batch
    BY <2>3 DEF Inv, TypeOK, JobsOK, JobType, Tasks
  <2>4. \/ \E id \in job[Scanner].todo :
             job' = [job EXCEPT ![Scanner].pc = "tear", ![Scanner].todo = @ \ {id},
                                ![Scanner].kids = {id} \cup OwnedBy({id})]
        \/ job' = [job EXCEPT ![Scanner].pc = "untrack", ![Scanner].got = {},
                              ![Scanner].todo = gone]
    BY DEF Unregister
  <2> HIDE DEF gone
  <2> QED
    BY <2>0, <2>2, <2>3, <2>4
<1> QED
  BY <1>1 DEF Handles, Takes, Keeps, Covers, Private, Opened, Closing, AfterClosing,
     Registering, At

LEMMA TearHandles == ASSUME Inv, ObjectInv, Tear PROVE Handles(Scanner)
<1> DEFINE torn == {d \in devices : d.id \in job[Scanner].kids}
<1>1. Without(job[Scanner].kids) = devices \ torn /\ torn \subseteq devices
  BY DEF Without
<1>2. /\ job[Scanner].pc = "tear" /\ UNCHANGED <<tracked, up, lost>>
      /\ devices' = devices \ torn
      /\ \A u \in Tasks \ {Scanner} : job'[u] = job[u]
      /\ job'[Scanner].pc = "tearing" /\ job'[Scanner].cur = job[Scanner].cur
      /\ job'[Scanner].root = job[Scanner].root /\ job'[Scanner].batch = torn
  BY <1>1 DEF Tear, Retain, At, World, Inv, TypeOK, JobsOK, JobType, Tasks
<1> HIDE DEF torn
<1> QED
  BY <1>1, <1>2 DEF Handles, Takes, Keeps, Covers, Private, Opened, Closing, AfterClosing,
     Registering, At

LEMMA UntrackHandles == ASSUME Inv, ObjectInv, Untrack PROVE Handles(Scanner)
<1>1. /\ job[Scanner].pc = "untrack" /\ UNCHANGED <<devices, up, lost>>
      /\ \A k \in Keys : tracked'[k] \subseteq tracked[k]
      /\ \A u \in Tasks \ {Scanner} : job'[u] = job[u]
      /\ job'[Scanner].pc \in {"untrack", "scan"} /\ job'[Scanner].cur = job[Scanner].cur
      /\ job'[Scanner].root = job[Scanner].root /\ job'[Scanner].batch = job[Scanner].batch
  BY DEF Untrack, At, registered, World, Inv, TypeOK, JobsOK, JobType, DevicesOK, Tasks
<1> QED
  BY <1>1 DEF Handles, Takes, Keeps, Covers, Private, Opened, Closing, AfterClosing,
     Registering, At

LEMMA ScanHandles == ASSUME Inv, ObjectInv, Scan PROVE Handles(Scanner)
<1>1. /\ job[Scanner].pc = "scan" /\ UNCHANGED <<devices, tracked, up, lost>>
      /\ \A u \in Tasks \ {Scanner} : job'[u] = job[u]
      /\ job'[Scanner].pc = "pick" /\ job'[Scanner].cur = job[Scanner].cur
      /\ job'[Scanner].root = job[Scanner].root /\ job'[Scanner].batch = job[Scanner].batch
  BY DEF Scan, At, Registry, registered, World, Inv, TypeOK, JobsOK, JobType, Tasks
<1> QED
  BY <1>1 DEF Handles, Takes, Keeps, Covers, Private, Opened, Closing, AfterClosing,
     Registering, At

LEMMA ScanTimeoutHandles == ASSUME Inv, ObjectInv, ScanTimeout PROVE Handles(Scanner)
<1> DEFINE mine == {job[Scanner].cur, job[Scanner].root} \cup job[Scanner].batch
<1>1. /\ UNCHANGED <<devices, tracked>>
      /\ up' \subseteq up /\ up \ up' \subseteq mine \ devices
      /\ lost' = lost \cup IdsOf(mine \ {None})
      /\ \A u \in Tasks \ {Scanner} : job'[u] = job[u]
      /\ job'[Scanner] = Idle
  BY DEF ScanTimeout, registered, Inv, TypeOK, JobsOK, Tasks
<1>2. job'[Scanner].pc = "idle" /\ job'[Scanner].cur = None /\ job'[Scanner].root = None
      /\ job'[Scanner].batch = {}
  BY <1>1 DEF Idle
<1>3. job[Scanner].batch \subseteq Object /\ (Opened(Scanner) => job[Scanner].cur \in Object)
  BY JobFields, OpenedIsPrivate DEF Inv, TypeOK, Tasks
<1>4. \A d \in mine \ {None} : d.id \in lost'
  BY <1>1 DEF IdsOf
<1> HIDE DEF mine
<1>5. /\ \A d \in job[Scanner].batch : d.id \in lost'
      /\ Opened(Scanner) => job[Scanner].cur.id \in lost'
  BY <1>3, <1>4, NoneIsNoObject DEF mine
<1> QED
  BY <1>1, <1>2, <1>5
     DEF mine, Handles, Takes, Keeps, Covers, Private, Opened, Closing, AfterClosing,
     Registering, At

LEMMA NoticeHandles == ASSUME Inv, ObjectInv, Notice PROVE Handles(Reconciler)
<1>1. /\ job[Reconciler].pc = "idle" /\ UNCHANGED <<devices, tracked, up, lost>>
      /\ \A u \in Tasks \ {Reconciler} : job'[u] = job[u]
      /\ job'[Reconciler].pc = "kids" /\ job'[Reconciler].cur = None
      /\ job'[Reconciler].root \in devices /\ job'[Reconciler].batch = {}
  BY DEF Notice, At, Registry, registered, Idle, Inv, TypeOK, JobsOK, Tasks
<1> QED
  BY <1>1 DEF Handles, Takes, Keeps, Covers, Private, Opened, Closing, AfterClosing,
     Registering, At

LEMMA LeaveHandles == ASSUME Inv, ObjectInv, Leave PROVE Handles(Reconciler)
<1> DEFINE left == {d \in devices : d.id \in job[Reconciler].todo}
<1>1. Without(job[Reconciler].todo) = devices \ left /\ left \subseteq devices
  BY DEF Without
<1>2. /\ job[Reconciler].pc = "leave" /\ UNCHANGED <<tracked, up, lost>>
      /\ devices' = devices \ left
      /\ \A u \in Tasks \ {Reconciler} : job'[u] = job[u]
      /\ job'[Reconciler].pc = "leaving" /\ job'[Reconciler].cur = job[Reconciler].cur
      /\ job'[Reconciler].root = job[Reconciler].root /\ job'[Reconciler].batch = left
  BY <1>1 DEF Leave, Retain, At, World, Inv, TypeOK, JobsOK, JobType, Tasks
<1> HIDE DEF left
<1> QED
  BY <1>1, <1>2 DEF Handles, Takes, Keeps, Covers, Private, Opened, Closing, AfterClosing,
     Registering, At

LEMMA AdoptHandles == ASSUME Inv, ObjectInv, Adopt PROVE Handles(Reconciler)
<1>1. /\ job[Reconciler].pc = "adopt" /\ UNCHANGED <<devices, tracked, up, lost>>
      /\ \A u \in Tasks \ {Reconciler} : job'[u] = job[u]
      /\ job'[Reconciler].pc = "idle" /\ job'[Reconciler].cur = None
      /\ job'[Reconciler].root = None /\ job'[Reconciler].batch = {}
  BY DEF Adopt, At, registered, World, Idle, Inv, TypeOK, JobsOK, Tasks
<1> QED
  BY <1>1 DEF Handles, Takes, Keeps, Covers, Private, Opened, Closing, AfterClosing,
     Registering, At

----------------------------------------------------------------------------
LEMMA ObjectStep == Inv /\ Inv' /\ ObjectInv /\ [Next]_vars => ObjectInv'
<1> SUFFICES ASSUME Inv, Inv', ObjectInv, [Next]_vars PROVE ObjectInv'
  OBVIOUS
<1> USE RegistryAssumption DEF Tasks
<1>1. ASSUME NEW t \in Tasks, Step(t) PROVE Handles(t)
  BY <1>1, ClaimHandles, InitializeHandles, InitFailsHandles, PreferHandles, DisplaceHandles,
     OrphanHandles, CloseNextHandles, PushHandles, SettleHandles, GiveUpHandles, PickHandles,
     NextKidHandles, CollectHandles, TrackHandles DEF Step, Register, Add
<1>2. MonitorStep => Handles(Monitor)
  BY EnumerateHandles, SweepHandles, SweepOwnedHandles, DetachHandles DEF MonitorStep
<1>3. ScannerStep => Handles(Scanner)
  BY RediscoverHandles, UnregisterHandles, TearHandles, UntrackHandles, ScanHandles,
     ScanTimeoutHandles DEF ScannerStep
<1>4. ReconcilerStep => Handles(Reconciler)
  BY NoticeHandles, LeaveHandles, AdoptHandles DEF ReconcilerStep
<1>5. ASSUME UNCHANGED <<devices, tracked, up, lost, job>> PROVE ObjectInv'
  BY <1>5 DEF ObjectInv, RegisteredIsOpen, PrivateCur, Private, Opened, Closing
<1>6. (\E k \in Keys : PlugOrUnplug(k)) \/ UNCHANGED vars
        => UNCHANGED <<devices, tracked, up, lost, job>>
  BY DEF PlugOrUnplug, vars, Registry, registered
<1>7. ASSUME NEW t \in Tasks, Handles(t) PROVE ObjectInv'
  BY <1>7, HandlingKeeps DEF Inv
<1> QED
  BY <1>1, <1>2, <1>3, <1>4, <1>5, <1>6, <1>7 DEF Next

LEMMA ObjectInit == Init => ObjectInv
<1> SUFFICES ASSUME Init PROVE ObjectInv
  OBVIOUS
<1>1. devices = up /\ \A t \in Tasks : job[t] = Idle
  BY DEF Init
<1>2. \A t \in Tasks : ~Private(t) /\ ~Opened(t) /\ ~Closing(t)
  BY <1>1 DEF Private, Opened, Closing, Idle, Registering, AfterClosing
<1> QED
  BY <1>1, <1>2 DEF ObjectInv, RegisteredIsOpen, PrivateCur

\* Closing comes after leaving the registry: a registered device is open, though each of
\* the three tasks closes devices while the others register theirs.
THEOREM RegisteredAreOpen == Spec => []RegisteredIsOpen
<1>1. Inv /\ ObjectInv => RegisteredIsOpen
  BY DEF ObjectInv
<1> QED
  BY InitInv, StepInv, ObjectInit, ObjectStep, <1>1, PTL DEF Spec

\* Whatever was initialized is registered or in the hands of a task that will close it,
\* but for what a scan was at when its time was up and what was displaced by name.
THEOREM OpenAreHeld == Spec => []OpenIsHeld
<1>1. Inv /\ ObjectInv => OpenIsHeld
  <2> SUFFICES ASSUME ObjectInv, NEW d \in up \ (devices \cup Held) PROVE d.id \in lost
    BY DEF OpenIsHeld, IdsOf
  <2> QED
    BY DEF ObjectInv, Held
<1> QED
  BY InitInv, StepInv, ObjectInit, ObjectStep, <1>1, PTL DEF Spec

\* Two objects of one device are never in use at once: an object that is being registered
\* has the claim of its id, and that id is not registered.
THEOREM OneObjectOfEach == Spec => []OneObjectEach
<1>1. Inv /\ ObjectInv => OneObjectEach
  <2> SUFFICES ASSUME Inv, ObjectInv, NEW d \in up \ Leaving, NEW e \in up \ Leaving,
                      d.id = e.id, d.id \notin lost
               PROVE  d = e
    BY DEF OneObjectEach
  <2>1. \A x \in {d, e} : x \in devices \/ \E t \in Tasks : Opened(t) /\ x = job[t].cur
    BY DEF ObjectInv, Leaving, Closing
  <2>2. \A t \in Tasks : Opened(t) => Claiming(t) /\ job[t].cur.id \notin IdsOf(devices)
    BY DEF Inv, ClaimInv, Opened, Claiming, Registering, At
  <2>3. \A x \in devices : x.id \in IdsOf(devices)
    BY DEF IdsOf
  <2> QED
    BY <2>1, <2>2, <2>3 DEF Inv, ClaimInv, ClaimsApart, UniqueIds
<1> QED
  BY InitInv, StepInv, ObjectInit, ObjectStep, <1>1, PTL DEF Spec
=============================================================================
