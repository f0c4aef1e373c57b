------------------------------ MODULE StateBus ------------------------------
(***************************************************************************)
(* The retained-state half of the daemon's bus: the coordinator that       *)
(* projects application state into topics and commits the difference, the  *)
(* data bus that stamps a commit with a revision and broadcasts it, the    *)
(* per-client relay that turns the broadcast into frames, and the GUI's    *)
(* TopicStore that replays the frames.                                     *)
(*                                                                         *)
(* A topic's value is a version number (Absent when the topic has no       *)
(* record); a payload is never looked into.  The socket is folded into the *)
(* client's outgoing queue: both are FIFO and both are lost together.      *)
(***************************************************************************)
EXTENDS Naturals, Sequences

CONSTANTS
  Topics,             \* keys of the retained state records
  DeviceTopics,       \* those under runtime.devices.
  Producers,          \* tasks that change application state and record it
  Boot,               \* the producer that records Change::Bootstrap at start-up
  Changes,            \* the changes a producer records: [topics, allDevices]
  Clients,
  Subscriptions,      \* the topic sets a client may subscribe to
  QueueCapacity,      \* CLIENT_QUEUE_CAPACITY
  BroadcastCapacity,  \* slots of the transaction broadcast channel
  MaxVersion,         \* bound on the values the application state goes through
  MaxRevision,        \* revision at which plugin data stops using up revisions
  MaxRestarts         \* bound on the number of daemon restarts

Absent == 0

ASSUME TopicsAssumption ==
  /\ DeviceTopics \subseteq Topics
  /\ Subscriptions \subseteq SUBSET Topics
  /\ Changes \subseteq [topics : SUBSET Topics, allDevices : BOOLEAN]

ASSUME ActorsAssumption ==
  /\ Boot \in Producers
  /\ "none" \notin Producers

ASSUME BoundsAssumption ==
  /\ QueueCapacity \in Nat \ {0, 1}
  /\ BroadcastCapacity \in Nat \ {0}
  /\ MaxVersion \in Nat /\ MaxRevision \in Nat /\ MaxRestarts \in Nat

VARIABLES
  truth,      \* application state each topic projects
  version,    \* the latest value any topic got, the source of fresh ones
  restarts,   \* number of daemon restarts so far
  pc,         \* where each producer is in record()
  change,     \* the change each producer is recording
  unread,     \* topics the producer's projection has not read yet
  projected,  \* what its projection read
  committer,  \* holder of EffectiveStatePublisher.commit_lock
  records,    \* DataBus.state_records
  revision,   \* DataBus.revision
  pending,    \* the transaction committed but not yet broadcast, per producer
  hist,       \* history: the records as of every revision
  conn,       \* "off", "subscribed" (receiver taken, nothing sent) or "on"
  sub,        \* topics the connection subscribed to
  rx,         \* the client's broadcast receiver
  lagged,     \* whether the receiver was overrun
  relay,      \* bus_forward_loop: "off", "run", "wait" (on capacity), "dead"
  held,       \* the frame the relay waits to enqueue
  outq,       \* frames queued for the client
  store,      \* the GUI's TopicStore
  connected   \* the GUI has applied a snapshot on this connection

appVars == <<truth, version>>
producerVars == <<pc, change, unread, projected, committer, pending>>
busVars == <<records, revision, hist>>
relayVars == <<conn, sub, rx, lagged, relay, held, outq>>
guiVars == <<store, connected>>
vars == <<appVars, restarts, producerVars, busVars, relayVars, guiVars>>

----------------------------------------------------------------------------
(* Messages. A transaction names the topics it carries; a snapshot carries *)
(* every subscribed topic; "other" stands for replies and event frames.    *)

View == [Topics -> Nat]
Frame == [type : {"snapshot", "transaction", "other"},
          rev : Nat, topics : SUBSET Topics, values : View]

NoRecords == [t \in Topics |-> Absent]
Only(values, topics) == [t \in Topics |-> IF t \in topics THEN values[t] ELSE Absent]

OtherFrame == [type |-> "other", rev |-> 0, topics |-> {}, values |-> NoRecords]
NoChange == [topics |-> {}, allDevices |-> FALSE]

Transaction(rev, topics, values) ==
  [type |-> "transaction", rev |-> rev, topics |-> topics,
   values |-> Only(values, topics)]

\* DataBus::state_snapshot for a client's prefixes.
Snapshot(topics) ==
  [type |-> "snapshot", rev |-> revision, topics |-> topics,
   values |-> Only(records, topics)]

\* filter_transaction: the part of a transaction the client subscribed to.
Filtered(txn, topics) ==
  Transaction(txn.rev, txn.topics \cap topics, txn.values)

\* TopicStore::replace_snapshot and ::apply_transaction; AppliedUnchecked is the
\* latter without its revision test.
Replaced(frame) == [rev |-> frame.rev, values |-> frame.values]
AppliedUnchecked(s, frame) ==
  [rev |-> frame.rev,
   values |-> [t \in Topics |-> IF t \in frame.topics THEN frame.values[t]
                                ELSE s.values[t]]]
Applied(s, frame) ==
  IF frame.rev <= s.rev THEN s ELSE AppliedUnchecked(s, frame)

\* coordinator::topics: a change that covers Topic::Devices projects them all.
TopicsOf(ch) == ch.topics \cup (IF ch.allDevices THEN DeviceTopics ELSE {})
BootChange == [topics |-> Topics \ DeviceTopics, allDevices |-> TRUE]

----------------------------------------------------------------------------
Init ==
  /\ truth = [t \in Topics |-> IF t \in DeviceTopics THEN Absent ELSE 1]
  /\ version = 1
  /\ restarts = 0
  /\ pc = [p \in Producers |-> IF p = Boot THEN "record" ELSE "idle"]
  /\ change = [p \in Producers |-> IF p = Boot THEN BootChange ELSE NoChange]
  /\ unread = [p \in Producers |-> {}]
  /\ projected = [p \in Producers |-> NoRecords]
  /\ committer = "none"
  /\ pending = [p \in Producers |-> OtherFrame]
  /\ records = NoRecords
  /\ revision = 0
  /\ hist = [r \in {0} |-> NoRecords]
  /\ conn = [c \in Clients |-> "off"]
  /\ sub = [c \in Clients |-> {}]
  /\ rx = [c \in Clients |-> <<>>]
  /\ lagged = [c \in Clients |-> FALSE]
  /\ relay = [c \in Clients |-> "off"]
  /\ held = [c \in Clients |-> OtherFrame]
  /\ outq = [c \in Clients |-> <<>>]
  /\ store = [c \in Clients |-> [rev |-> 0, values |-> NoRecords]]
  /\ connected = [c \in Clients |-> FALSE]

----------------------------------------------------------------------------
(* Producers: a use case mutates application state, then records a change. *)

\* A use case changes some of the topics its change covers. Only a change that
\* covers every device may add or remove one; a removal needs no fresh value.
Mutate(p, ch, touched) ==
  /\ pc[p] = "idle"
  /\ touched # {} /\ touched \subseteq TopicsOf(ch)
  /\ \E removed \in SUBSET {d \in touched \cap DeviceTopics : truth[d] # Absent} :
       /\ version < MaxVersion \/ touched = removed
       /\ ~ch.allDevices =>
            removed = {} /\ \A d \in touched \cap DeviceTopics : truth[d] # Absent
       /\ truth' = [t \in Topics |->
            IF t \in removed THEN Absent
            ELSE IF t \in touched THEN version + 1 ELSE truth[t]]
       /\ version' = IF touched = removed THEN version ELSE version + 1
  /\ pc' = [pc EXCEPT ![p] = "record"]
  /\ change' = [change EXCEPT ![p] = ch]
  /\ UNCHANGED <<restarts, unread, projected, committer, pending, busVars,
                 relayVars, guiVars>>

\* commit() without its lock, the fault commit_lock prevents, and with it.
AcquireUnlocked(p) ==
  /\ pc[p] = "record"
  /\ committer' = p
  /\ pc' = [pc EXCEPT ![p] = "produce"]
  /\ unread' = [unread EXCEPT ![p] = TopicsOf(change[p])]
  /\ UNCHANGED <<appVars, restarts, change, projected, pending, busVars,
                 relayVars, guiVars>>
Acquire(p) ==
  /\ committer = "none"
  /\ AcquireUnlocked(p)

\* projections::produce awaits between topics, so each is read in its own step.
Project(p, t) ==
  /\ pc[p] = "produce"
  /\ t \in unread[p]
  /\ unread' = [unread EXCEPT ![p] = @ \ {t}]
  /\ projected' = [projected EXCEPT ![p][t] = truth[t]]
  /\ UNCHANGED <<appVars, restarts, pc, change, committer, pending, busVars,
                 relayVars, guiVars>>

\* The upserts that differ from the retained record, and the tombstones: device
\* records the projection no longer produced, when the change covers them all.
\* A single device that is gone yields no record and no tombstone.
Upserts(p) ==
  {t \in TopicsOf(change[p]) : projected[p][t] # Absent /\ projected[p][t] # records[t]}
NoTombstones(p) == {}
Tombstones(p) ==
  IF change[p].allDevices
  THEN {t \in DeviceTopics : projected[p][t] = Absent /\ records[t] # Absent}
  ELSE {}

\* commit(), the tail: nothing to say, so the lock is released at once.
CommitNothing(p) ==
  /\ pc[p] = "produce" /\ unread[p] = {}
  /\ Upserts(p) \cup Tombstones(p) = {}
  /\ pc' = [pc EXCEPT ![p] = "idle"]
  /\ committer' = "none"
  /\ change' = [change EXCEPT ![p] = NoChange]
  /\ projected' = [projected EXCEPT ![p] = NoRecords]
  /\ UNCHANGED <<appVars, restarts, unread, pending, busVars, relayVars, guiVars>>

\* DataBus::commit_state under the bus mutex.
Commit(p) ==
  LET changed == Upserts(p) \cup Tombstones(p)
      after == [t \in Topics |-> IF t \in changed THEN projected[p][t] ELSE records[t]]
  IN /\ pc[p] = "produce" /\ unread[p] = {}
     /\ changed # {}
     /\ revision' = revision + 1
     /\ records' = after
     /\ hist' = [r \in 0..(revision + 1) |-> IF r = revision + 1 THEN after ELSE hist[r]]
     /\ pending' = [pending EXCEPT ![p] = Transaction(revision + 1, changed, after)]
     /\ pc' = [pc EXCEPT ![p] = "broadcast"]
     /\ change' = [change EXCEPT ![p] = NoChange]
     /\ projected' = [projected EXCEPT ![p] = NoRecords]
     /\ UNCHANGED <<appVars, restarts, unread, committer, relayVars, guiVars>>

\* commit_state after drop(inner): every live receiver gets the transaction, and
\* one that is full loses its oldest and will read Lagged.
Listening(c) == conn[c] # "off" /\ relay[c] # "dead"
NeverOverrun(c) == FALSE    \* a channel without a bound
Overrun(c) == Listening(c) /\ Len(rx[c]) = BroadcastCapacity
Received(c, txn) ==
  IF ~Listening(c) THEN rx[c]
  ELSE IF Overrun(c) THEN Append(Tail(rx[c]), txn)
  ELSE Append(rx[c], txn)

Broadcast(p) ==
  /\ pc[p] = "broadcast"
  /\ rx' = [c \in Clients |-> Received(c, pending[p])]
  /\ lagged' = [c \in Clients |-> lagged[c] \/ Overrun(c)]
  /\ pending' = [pending EXCEPT ![p] = OtherFrame]
  /\ pc' = [pc EXCEPT ![p] = "idle"]
  /\ committer' = "none"
  /\ UNCHANGED <<appVars, restarts, change, unread, projected, busVars, conn, sub,
                 relay, held, outq, guiVars>>

\* DataBus::publish, ::invalidate, ::remove and the stale task share the counter.
PluginDataRevision ==
  /\ revision < MaxRevision
  /\ revision' = revision + 1
  /\ hist' = [r \in 0..(revision + 1) |-> IF r = revision + 1 THEN records ELSE hist[r]]
  /\ UNCHANGED <<appVars, restarts, producerVars, records, relayVars, guiVars>>

----------------------------------------------------------------------------
(* One client connection: handle_client and bus_forward_loop.              *)

\* handle_client: the receiver is taken before the snapshot.
Connect(c, topics) ==
  /\ conn[c] = "off"
  /\ conn' = [conn EXCEPT ![c] = "subscribed"]
  /\ sub' = [sub EXCEPT ![c] = topics]
  /\ UNCHANGED <<appVars, restarts, producerVars, busVars, rx, lagged, relay, held,
                 outq, guiVars>>

\* handle_client: send_bus_snapshot and send_event_replay into the empty queue,
\* then spawn the relay.
InitialSnapshot(c) ==
  /\ conn[c] = "subscribed"
  /\ conn' = [conn EXCEPT ![c] = "on"]
  /\ outq' = [outq EXCEPT ![c] = @ \o <<Snapshot(sub[c]), OtherFrame>>]
  /\ relay' = [relay EXCEPT ![c] = "run"]
  /\ UNCHANGED <<appVars, restarts, producerVars, busVars, sub, rx, lagged, held,
                 guiVars>>

HasRoom(c) == Len(outq[c]) < QueueCapacity

\* A relay that lets go of what does not fit, the fault the snapshot prevents.
ForwardOrDrop(c) ==
  /\ relay[c] = "run" /\ ~lagged[c] /\ rx[c] # <<>>
  /\ rx' = [rx EXCEPT ![c] = Tail(@)]
  /\ LET frame == Filtered(Head(rx[c]), sub[c])
     IN outq' = IF frame.topics # {} /\ HasRoom(c)
                THEN [outq EXCEPT ![c] = Append(@, frame)] ELSE outq
  /\ UNCHANGED <<appVars, restarts, producerVars, busVars, conn, sub, lagged, relay,
                 held, guiVars>>

\* recv() = Ok: an empty filtered transaction is dropped, one that fits is
\* queued; one that does not fit is replaced by a snapshot to be queued later.
ForwardTransaction(c) ==
  /\ relay[c] = "run" /\ ~lagged[c] /\ rx[c] # <<>>
  /\ rx' = [rx EXCEPT ![c] = Tail(@)]
  /\ LET frame == Filtered(Head(rx[c]), sub[c])
     IN \/ /\ frame.topics = {}
           /\ UNCHANGED <<outq, relay, held>>
        \/ /\ frame.topics # {} /\ HasRoom(c)
           /\ outq' = [outq EXCEPT ![c] = Append(@, frame)]
           /\ UNCHANGED <<relay, held>>
        \/ /\ frame.topics # {} /\ ~HasRoom(c)
           /\ relay' = [relay EXCEPT ![c] = "wait"]
           /\ held' = [held EXCEPT ![c] = Snapshot(sub[c])]
           /\ UNCHANGED outq
  /\ UNCHANGED <<appVars, restarts, producerVars, busVars, conn, sub, lagged, guiVars>>

\* recv() = Lagged: resume from the oldest transaction still in the channel,
\* after a fresh snapshot. SkipLagged resumes without one, which loses a commit.
SkipLagged(c) ==
  /\ relay[c] = "run" /\ lagged[c]
  /\ lagged' = [lagged EXCEPT ![c] = FALSE]
  /\ UNCHANGED <<appVars, restarts, producerVars, busVars, conn, sub, rx, relay, held,
                 outq, guiVars>>
ForwardLagged(c) ==
  /\ relay[c] = "run" /\ lagged[c]
  /\ lagged' = [lagged EXCEPT ![c] = FALSE]
  /\ relay' = [relay EXCEPT ![c] = "wait"]
  /\ held' = [held EXCEPT ![c] = Snapshot(sub[c])]
  /\ UNCHANGED <<appVars, restarts, producerVars, busVars, conn, sub, rx, outq, guiVars>>

\* The relay's event branch found the queue full and waits with a replay.
ForwardEventBlocked(c) ==
  /\ relay[c] = "run" /\ ~HasRoom(c)
  /\ relay' = [relay EXCEPT ![c] = "wait"]
  /\ held' = [held EXCEPT ![c] = OtherFrame]
  /\ UNCHANGED <<appVars, restarts, producerVars, busVars, conn, sub, rx, lagged, outq,
                 guiVars>>

\* send_json_when_ready got a permit.
CapacityReady(c) ==
  /\ relay[c] = "wait" /\ HasRoom(c)
  /\ outq' = [outq EXCEPT ![c] = Append(@, held[c])]
  /\ relay' = [relay EXCEPT ![c] = "run"]
  /\ held' = [held EXCEPT ![c] = OtherFrame]
  /\ UNCHANGED <<appVars, restarts, producerVars, busVars, conn, sub, rx, lagged, guiVars>>

\* send_json_when_ready gave up after 10 s: the relay returns and its receiver is
\* dropped, while run_client_loop and the writer keep serving the connection.
CapacityTimeout(c) ==
  /\ relay[c] = "wait" /\ ~HasRoom(c)
  /\ relay' = [relay EXCEPT ![c] = "dead"]
  /\ held' = [held EXCEPT ![c] = OtherFrame]
  /\ rx' = [rx EXCEPT ![c] = <<>>]
  /\ lagged' = [lagged EXCEPT ![c] = FALSE]
  /\ UNCHANGED <<appVars, restarts, producerVars, busVars, conn, sub, outq, guiVars>>

\* A reply or an event frame takes a slot (try_send). A sender already waiting
\* owns the next free permit, so nothing overtakes it.
QueueOther(c) ==
  /\ conn[c] = "on" /\ relay[c] # "wait" /\ HasRoom(c)
  /\ outq' = [outq EXCEPT ![c] = Append(@, OtherFrame)]
  /\ UNCHANGED <<appVars, restarts, producerVars, busVars, conn, sub, rx, lagged, relay,
                 held, guiVars>>

----------------------------------------------------------------------------
(* The GUI and the connection's end.                                       *)

\* handle_json on the next frame.
GuiReceive(c) ==
  /\ conn[c] = "on" /\ outq[c] # <<>>
  /\ outq' = [outq EXCEPT ![c] = Tail(@)]
  /\ LET frame == Head(outq[c])
     IN \/ /\ frame.type = "snapshot"
           /\ store' = [store EXCEPT ![c] = Replaced(frame)]
           /\ connected' = [connected EXCEPT ![c] = TRUE]
        \/ /\ frame.type = "transaction"
           /\ store' = [store EXCEPT ![c] = Applied(@, frame)]
           /\ UNCHANGED connected
        \/ /\ frame.type = "other"
           /\ UNCHANGED guiVars
  /\ UNCHANGED <<appVars, restarts, producerVars, busVars, conn, sub, rx, lagged, relay,
                 held>>

\* Either end closes: ClientHandle::close aborts the relay, the queue is lost and
\* reconnect_loop clears `connected`; the TopicStore keeps its last content.
Disconnect(c) ==
  /\ conn[c] # "off"
  /\ conn' = [conn EXCEPT ![c] = "off"]
  /\ sub' = [sub EXCEPT ![c] = {}]
  /\ rx' = [rx EXCEPT ![c] = <<>>]
  /\ lagged' = [lagged EXCEPT ![c] = FALSE]
  /\ relay' = [relay EXCEPT ![c] = "off"]
  /\ held' = [held EXCEPT ![c] = OtherFrame]
  /\ outq' = [outq EXCEPT ![c] = <<>>]
  /\ connected' = [connected EXCEPT ![c] = FALSE]
  /\ UNCHANGED <<appVars, restarts, producerVars, busVars, store>>

\* The daemon stops and starts again: the bus is in memory only, so revisions
\* start from 0; devices are gone until discovery finds them; every client
\* connection breaks.
DaemonRestart ==
  /\ restarts < MaxRestarts
  /\ restarts' = restarts + 1
  /\ truth' = [t \in Topics |-> IF t \in DeviceTopics THEN Absent ELSE truth[t]]
  /\ pc' = [p \in Producers |-> IF p = Boot THEN "record" ELSE "idle"]
  /\ change' = [p \in Producers |-> IF p = Boot THEN BootChange ELSE NoChange]
  /\ unread' = [p \in Producers |-> {}]
  /\ projected' = [p \in Producers |-> NoRecords]
  /\ committer' = "none"
  /\ pending' = [p \in Producers |-> OtherFrame]
  /\ records' = NoRecords
  /\ revision' = 0
  /\ hist' = [r \in {0} |-> NoRecords]
  /\ conn' = [c \in Clients |-> "off"]
  /\ sub' = [c \in Clients |-> {}]
  /\ rx' = [c \in Clients |-> <<>>]
  /\ lagged' = [c \in Clients |-> FALSE]
  /\ relay' = [c \in Clients |-> "off"]
  /\ held' = [c \in Clients |-> OtherFrame]
  /\ outq' = [c \in Clients |-> <<>>]
  /\ connected' = [c \in Clients |-> FALSE]
  /\ UNCHANGED <<version, store>>

----------------------------------------------------------------------------
Record(p) ==
  \/ Acquire(p)
  \/ \E t \in Topics : Project(p, t)
  \/ CommitNothing(p)
  \/ Commit(p)
  \/ Broadcast(p)

Forward(c) == ForwardTransaction(c) \/ ForwardLagged(c)

Relay(c) == InitialSnapshot(c) \/ Forward(c) \/ CapacityReady(c)

Environment(c) ==
  \/ \E topics \in Subscriptions : Connect(c, topics)
  \/ ForwardEventBlocked(c)
  \/ CapacityTimeout(c)
  \/ QueueOther(c)
  \/ Disconnect(c)

Next ==
  \/ \E p \in Producers, ch \in Changes :
       \E touched \in SUBSET TopicsOf(ch) : Mutate(p, ch, touched)
  \/ \E p \in Producers : Record(p)
  \/ PluginDataRevision
  \/ \E c \in Clients : Relay(c) \/ GuiReceive(c) \/ Environment(c)
  \/ DaemonRestart

Spec == Init /\ [][Next]_vars

\* Tasks are polled by tokio's scheduler and the GUI's reader thread drains its
\* socket; nothing obliges a client to connect or a use case to run. The relay's
\* select! picks at random among its ready branches, so a transaction that is
\* ready again and again is not passed over for events for ever: strong fairness.
Fairness ==
  /\ \A p \in Producers : WF_vars(Record(p))
  /\ \A c \in Clients :
       /\ WF_vars(InitialSnapshot(c)) /\ WF_vars(CapacityReady(c))
       /\ SF_vars(Forward(c))
       /\ WF_vars(GuiReceive(c))

FairSpec == Spec /\ Fairness

----------------------------------------------------------------------------
(* Properties.                                                             *)

\* Types, and the two channel bounds: a broadcast receiver holds at most
\* BroadcastCapacity transactions and a client queue at most QueueCapacity frames.
TypeOK ==
  /\ truth \in View /\ version \in Nat /\ restarts \in Nat
  /\ pc \in [Producers -> {"idle", "record", "produce", "broadcast"}]
  /\ change \in [Producers -> [topics : SUBSET Topics, allDevices : BOOLEAN]]
  /\ unread \in [Producers -> SUBSET Topics]
  /\ projected \in [Producers -> View]
  /\ committer \in Producers \cup {"none"}
  /\ pending \in [Producers -> Frame]
  /\ records \in View /\ revision \in Nat
  /\ hist \in [0..revision -> View]
  /\ conn \in [Clients -> {"off", "subscribed", "on"}]
  /\ sub \in [Clients -> SUBSET Topics]
  /\ rx \in [Clients -> Seq(Frame)]
  /\ lagged \in [Clients -> BOOLEAN]
  /\ relay \in [Clients -> {"off", "run", "wait", "dead"}]
  /\ held \in [Clients -> Frame]
  /\ outq \in [Clients -> Seq(Frame)]
  /\ store \in [Clients -> [rev : Nat, values : View]]
  /\ connected \in [Clients -> BOOLEAN]
  /\ \A c \in Clients :
       Len(rx[c]) <= BroadcastCapacity /\ Len(outq[c]) <= QueueCapacity

\* What a connected GUI shows is exactly what the daemon's records were, on the
\* topics it subscribed to, at the revision its TopicStore claims: no commit is
\* skipped, applied twice or applied to the wrong base, through overflow of the
\* queue, lag of the receiver, reconnection and daemon restart.
ReplicaConsistent ==
  \A c \in Clients : connected[c] =>
    /\ store[c].rev <= revision
    /\ store[c].values = Only(hist[store[c].rev], sub[c])

\* The broadcast reaches every receiver in revision order, and a transaction that
\* is still to be broadcast is newer than all of them: the order on which
\* TopicStore::apply_transaction's revision test relies.
BroadcastInOrder ==
  \A c \in Clients :
    /\ \A i, j \in DOMAIN rx[c] : i < j => rx[c][i].rev < rx[c][j].rev
    /\ \A i \in DOMAIN rx[c], p \in Producers :
         pc[p] = "broadcast" => rx[c][i].rev < pending[p].rev

\* Once every change has been recorded, the retained records are the current
\* application state: no projection that was read early overwrote a later one,
\* and no removed device keeps its record.
QuiescentBusIsCurrent ==
  (\A p \in Producers : pc[p] = "idle") => records = truth

\* The whole stack implements RetainedReplica: within a connection a GUI steps
\* only forward from one revision's records to a later one's, and across a
\* disconnection or a daemon restart it vouches for nothing until a snapshot.
Replica == INSTANCE RetainedReplica
             WITH log <- hist, view <- store, live <- connected, interest <- sub
ImplementsReplica == Replica!Spec

\* A client that stays connected with a live relay ends up showing the daemon's
\* final records on the topics it subscribed to.
Current(c) == connected[c] /\ store[c].values = Only(records, sub[c])
RelayedConverges ==
  \A c \in Clients :
    <>[](conn[c] # "off" /\ relay[c] # "dead") => <>[]Current(c)
=============================================================================
