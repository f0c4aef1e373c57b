--------------------------- MODULE StateBusProofs ---------------------------
(***************************************************************************)
(* Proofs about StateBus, for every set of topics, producers and clients   *)
(* and every capacity: its types and bounds, that the records catch up     *)
(* with the application and are broadcast in order, and, in the second     *)
(* half, that StateBus implements RetainedReplica: what a connected client *)
(* shows is the record set of the revision it claims, and it only moves    *)
(* forward.                                                                *)
(***************************************************************************)
EXTENDS StateBus, SequenceTheorems, TLAPS

USE DEF vars, appVars, producerVars, busVars, relayVars, guiVars

----------------------------------------------------------------------------
(* Type correctness and the bounds of the channels.                        *)

\* Only the first snapshot is queued without asking for room: until it is, the
\* queue is empty and the relay has not been spawned.
QueueStartsEmpty ==
  \A c \in Clients : conn[c] # "on" => outq[c] = <<>> /\ relay[c] = "off"

TypeInv == TypeOK /\ QueueStartsEmpty

LEMMA FrameFacts ==
  /\ NoRecords \in View
  /\ OtherFrame \in Frame
  /\ NoChange \in [topics : SUBSET Topics, allDevices : BOOLEAN]
  /\ \A values \in View, topics \in SUBSET Topics : Only(values, topics) \in View
BY DEF NoRecords, Absent, View, OtherFrame, Frame, NoChange, Only

LEMMA TransactionType ==
  ASSUME NEW rev \in Nat, NEW topics \in SUBSET Topics, NEW values \in View
  PROVE  Transaction(rev, topics, values) \in Frame
<1>1. Only(values, topics) \in View
  BY FrameFacts
<1> QED BY <1>1 DEF Transaction, Frame

LEMMA SnapshotType ==
  ASSUME TypeOK, NEW c \in Clients
  PROVE  Snapshot(sub[c]) \in Frame
<1>1. records \in View /\ revision \in Nat /\ sub[c] \in SUBSET Topics
  BY DEF TypeOK
<1>2. Only(records, sub[c]) \in View
  BY <1>1, FrameFacts
<1> QED BY <1>1, <1>2 DEF Snapshot, Frame

LEMMA ChangeTopics ==
  ASSUME NEW ch \in [topics : SUBSET Topics, allDevices : BOOLEAN]
  PROVE  TopicsOf(ch) \subseteq Topics
BY TopicsAssumption DEF TopicsOf

\* Queueing a frame for a client that has room.
LEMMA EnqueueType ==
  ASSUME TypeInv, NEW c \in Clients, NEW frame \in Frame, HasRoom(c), conn[c] = "on",
         outq' = [outq EXCEPT ![c] = Append(@, frame)]
  PROVE  /\ outq' \in [Clients -> Seq(Frame)]
         /\ \A d \in Clients : Len(outq'[d]) <= QueueCapacity
         /\ \A d \in Clients : conn[d] # "on" => outq'[d] = <<>>
<1>1. /\ outq \in [Clients -> Seq(Frame)]
      /\ \A d \in Clients : Len(outq[d]) <= QueueCapacity
      /\ \A d \in Clients : conn[d] # "on" => outq[d] = <<>>
  BY DEF TypeInv, TypeOK, QueueStartsEmpty
<1>2. /\ Append(outq[c], frame) \in Seq(Frame)
      /\ Len(Append(outq[c], frame)) = Len(outq[c]) + 1
  BY <1>1
<1>3. Len(outq[c]) \in Nat /\ Len(outq[c]) < QueueCapacity
  BY <1>1 DEF HasRoom
<1>4. Len(outq[c]) + 1 <= QueueCapacity
  BY <1>3, BoundsAssumption
<1>5. \A d \in Clients : outq'[d] = IF d = c THEN Append(outq[c], frame) ELSE outq[d]
  BY <1>1
<1>6. outq' \in [Clients -> Seq(Frame)]
  BY <1>1, <1>2
<1> QED BY <1>1, <1>2, <1>4, <1>5, <1>6

LEMMA InitType == Init => TypeInv
<1> SUFFICES ASSUME Init PROVE TypeInv
  OBVIOUS
<1>1. BootChange \in [topics : SUBSET Topics, allDevices : BOOLEAN]
  BY DEF BootChange
<1>2. NoRecords \in View /\ OtherFrame \in Frame
      /\ NoChange \in [topics : SUBSET Topics, allDevices : BOOLEAN]
  BY FrameFacts
<1>3. truth \in View
  BY DEF Init, View, Absent
<1>4. hist \in [0..revision -> View]
  BY <1>2 DEF Init
<1>5. \A c \in Clients : Len(rx[c]) = 0 /\ Len(outq[c]) = 0
  BY DEF Init
<1>6. TypeOK
  BY <1>1, <1>2, <1>3, <1>4, <1>5, ActorsAssumption, BoundsAssumption DEF Init, TypeOK
<1>7. QueueStartsEmpty
  BY DEF Init, QueueStartsEmpty
<1> QED BY <1>6, <1>7 DEF TypeInv

LEMMA StepType == TypeInv /\ [Next]_vars => TypeInv'
<1> SUFFICES ASSUME TypeInv, [Next]_vars PROVE TypeInv'
  OBVIOUS
<1> USE DEF TypeInv
<1>0. /\ NoRecords \in View /\ OtherFrame \in Frame
      /\ NoChange \in [topics : SUBSET Topics, allDevices : BOOLEAN]
      /\ BootChange \in [topics : SUBSET Topics, allDevices : BOOLEAN]
  BY FrameFacts DEF BootChange
<1>1. ASSUME NEW p \in Producers, NEW ch \in Changes, NEW touched \in SUBSET TopicsOf(ch),
             Mutate(p, ch, touched)
      PROVE  TypeInv'
  <2>1. ch \in [topics : SUBSET Topics, allDevices : BOOLEAN]
    BY TopicsAssumption
  <2>2. truth' \in View
    BY <1>1 DEF Mutate, TypeOK, View, Absent
  <2> QED BY <1>1, <2>1, <2>2 DEF Mutate, TypeOK, QueueStartsEmpty
<1>2. ASSUME NEW p \in Producers, Acquire(p) PROVE TypeInv'
  <2>1. TopicsOf(change[p]) \in SUBSET Topics
    BY ChangeTopics DEF TypeOK
  <2> QED BY <1>2, <2>1 DEF Acquire, AcquireUnlocked, TypeOK, QueueStartsEmpty
<1>3. ASSUME NEW p \in Producers, NEW t \in Topics, Project(p, t) PROVE TypeInv'
  BY <1>3 DEF Project, TypeOK, QueueStartsEmpty, View
<1>4. ASSUME NEW p \in Producers, CommitNothing(p) PROVE TypeInv'
  BY <1>0, <1>4 DEF CommitNothing, TypeOK, QueueStartsEmpty
<1>5. ASSUME NEW p \in Producers, Commit(p) PROVE TypeInv'
  <2> DEFINE changed == Upserts(p) \cup Tombstones(p)
             after == [t \in Topics |-> IF t \in changed THEN projected[p][t] ELSE records[t]]
  <2>1. changed \in SUBSET Topics
    <3>1. change[p] \in [topics : SUBSET Topics, allDevices : BOOLEAN]
      BY DEF TypeOK
    <3>2. TopicsOf(change[p]) \subseteq Topics
      BY <3>1, ChangeTopics
    <3>3. Upserts(p) \subseteq Topics
      BY <3>2 DEF Upserts
    <3>4. Tombstones(p) \subseteq Topics
      BY TopicsAssumption DEF Tombstones
    <3> QED BY <3>3, <3>4
  <2>2. after \in View
    BY DEF TypeOK, View
  <2>3. revision + 1 \in Nat
    BY DEF TypeOK
  <2>4. Transaction(revision + 1, changed, after) \in Frame
    BY <2>1, <2>2, <2>3, TransactionType
  <2>5. /\ revision' = revision + 1 /\ records' = after
        /\ hist' = [r \in 0..(revision + 1) |-> IF r = revision + 1 THEN after ELSE hist[r]]
        /\ pending' = [pending EXCEPT ![p] = Transaction(revision + 1, changed, after)]
    BY <1>5 DEF Commit
  <2> HIDE DEF changed, after
  <2>6. hist' \in [0..revision' -> View]
    BY <2>2, <2>5 DEF TypeOK
  <2> QED BY <1>0, <1>5, <2>2, <2>3, <2>4, <2>5, <2>6 DEF Commit, TypeOK, QueueStartsEmpty
<1>6. ASSUME NEW p \in Producers, Broadcast(p) PROVE TypeInv'
  <2>1. ASSUME NEW c \in Clients
        PROVE  Received(c, pending[p]) \in Seq(Frame)
               /\ Len(Received(c, pending[p])) <= BroadcastCapacity
    BY BoundsAssumption DEF TypeOK, Received, Overrun
  <2>2. rx' \in [Clients -> Seq(Frame)] /\ \A c \in Clients : Len(rx'[c]) <= BroadcastCapacity
    BY <1>6, <2>1 DEF Broadcast
  <2>3. lagged' \in [Clients -> BOOLEAN]
    BY <1>6 DEF Broadcast
  <2> QED BY <1>0, <1>6, <2>2, <2>3 DEF Broadcast, TypeOK, QueueStartsEmpty
<1>7. ASSUME PluginDataRevision PROVE TypeInv'
  <2>1. hist' \in [0..revision' -> View]
    BY <1>7 DEF PluginDataRevision, TypeOK
  <2> QED BY <1>7, <2>1 DEF PluginDataRevision, TypeOK, QueueStartsEmpty
<1>8. ASSUME NEW c \in Clients, NEW topics \in Subscriptions, Connect(c, topics) PROVE TypeInv'
  BY <1>8, TopicsAssumption DEF Connect, TypeOK, QueueStartsEmpty
<1>9. ASSUME NEW c \in Clients, InitialSnapshot(c) PROVE TypeInv'
  <2>1. Snapshot(sub[c]) \in Frame
    BY SnapshotType
  <2>2. outq[c] = <<>>
    BY <1>9 DEF InitialSnapshot, QueueStartsEmpty
  <2>3. /\ outq[c] \o <<Snapshot(sub[c]), OtherFrame>> \in Seq(Frame)
        /\ Len(outq[c] \o <<Snapshot(sub[c]), OtherFrame>>) <= QueueCapacity
    BY <1>0, <2>1, <2>2, BoundsAssumption
  <2>4. /\ outq' \in [Clients -> Seq(Frame)]
        /\ \A d \in Clients : Len(outq'[d]) <= QueueCapacity
    BY <1>9, <2>3 DEF InitialSnapshot, TypeOK
  <2> QED BY <1>9, <2>4 DEF InitialSnapshot, TypeOK, QueueStartsEmpty
<1>10. ASSUME NEW c \in Clients, ForwardTransaction(c) PROVE TypeInv'
  <2> DEFINE frame == Filtered(Head(rx[c]), sub[c])
  <2>1. rx[c] \in Seq(Frame) /\ rx[c] # <<>> /\ sub[c] \in SUBSET Topics
    BY <1>10 DEF ForwardTransaction, TypeOK
  <2>2. Head(rx[c]) \in Frame
    BY <2>1
  <2>3. frame \in Frame
    BY <2>1, <2>2, TransactionType DEF Filtered, Frame
  <2>4. Tail(rx[c]) \in Seq(Frame) /\ Len(Tail(rx[c])) <= BroadcastCapacity
    BY <2>1, BoundsAssumption DEF TypeOK
  <2>5. Snapshot(sub[c]) \in Frame
    BY SnapshotType
  <2>6. /\ rx' \in [Clients -> Seq(Frame)]
        /\ \A d \in Clients : Len(rx'[d]) <= BroadcastCapacity
    BY <1>10, <2>4 DEF ForwardTransaction, TypeOK
  <2>7. /\ outq' \in [Clients -> Seq(Frame)] /\ held' \in [Clients -> Frame]
        /\ relay' \in [Clients -> {"off", "run", "wait", "dead"}]
        /\ \A d \in Clients : Len(outq'[d]) <= QueueCapacity
        /\ \A d \in Clients : conn[d] # "on" => outq'[d] = <<>> /\ relay'[d] = "off"
    <3>0. conn[c] = "on"
      BY <1>10 DEF ForwardTransaction, QueueStartsEmpty
    <3>1. CASE frame.topics = {} /\ UNCHANGED <<outq, relay, held>>
      BY <3>1 DEF TypeOK, QueueStartsEmpty
    <3>2. CASE HasRoom(c) /\ outq' = [outq EXCEPT ![c] = Append(@, frame)]
               /\ UNCHANGED <<relay, held>>
      BY <2>3, <3>0, <3>2, EnqueueType DEF TypeOK, QueueStartsEmpty
    <3>3. CASE relay' = [relay EXCEPT ![c] = "wait"]
               /\ held' = [held EXCEPT ![c] = Snapshot(sub[c])] /\ UNCHANGED outq
      BY <2>5, <3>0, <3>3 DEF TypeOK, QueueStartsEmpty
    <3> QED BY <1>10, <3>1, <3>2, <3>3 DEF ForwardTransaction
  <2> QED BY <1>10, <2>6, <2>7 DEF ForwardTransaction, TypeOK, QueueStartsEmpty
<1>11. ASSUME NEW c \in Clients, ForwardLagged(c) PROVE TypeInv'
  BY <1>11, SnapshotType DEF ForwardLagged, TypeOK, QueueStartsEmpty
<1>12. ASSUME NEW c \in Clients, ForwardEventBlocked(c) PROVE TypeInv'
  BY <1>0, <1>12 DEF ForwardEventBlocked, TypeOK, QueueStartsEmpty
<1>13. ASSUME NEW c \in Clients, CapacityReady(c) PROVE TypeInv'
  <2>1. conn[c] = "on" /\ HasRoom(c) /\ outq' = [outq EXCEPT ![c] = Append(@, held[c])]
    BY <1>13 DEF CapacityReady, QueueStartsEmpty
  <2>2. /\ outq' \in [Clients -> Seq(Frame)]
        /\ \A d \in Clients : Len(outq'[d]) <= QueueCapacity
        /\ \A d \in Clients : conn[d] # "on" => outq'[d] = <<>>
    <3>1. held[c] \in Frame
      BY DEF TypeOK
    <3> QED BY <2>1, <3>1, EnqueueType
  <2> QED BY <1>0, <1>13, <2>1, <2>2 DEF CapacityReady, TypeOK, QueueStartsEmpty
<1>14. ASSUME NEW c \in Clients, CapacityTimeout(c) PROVE TypeInv'
  BY <1>0, <1>14, BoundsAssumption DEF CapacityTimeout, TypeOK, QueueStartsEmpty
<1>15. ASSUME NEW c \in Clients, QueueOther(c) PROVE TypeInv'
  <2>1. conn[c] = "on" /\ HasRoom(c) /\ outq' = [outq EXCEPT ![c] = Append(@, OtherFrame)]
    BY <1>15 DEF QueueOther
  <2>2. /\ outq' \in [Clients -> Seq(Frame)]
        /\ \A d \in Clients : Len(outq'[d]) <= QueueCapacity
        /\ \A d \in Clients : conn[d] # "on" => outq'[d] = <<>>
    BY <1>0, <2>1, EnqueueType
  <2> QED BY <1>15, <2>2 DEF QueueOther, TypeOK, QueueStartsEmpty
<1>16. ASSUME NEW c \in Clients, GuiReceive(c) PROVE TypeInv'
  <2>1. Head(outq[c]) \in Frame /\ Tail(outq[c]) \in Seq(Frame)
        /\ Len(Tail(outq[c])) <= QueueCapacity
    BY <1>16, BoundsAssumption DEF GuiReceive, TypeOK
  <2>2. /\ Replaced(Head(outq[c])) \in [rev : Nat, values : View]
        /\ Applied(store[c], Head(outq[c])) \in [rev : Nat, values : View]
    BY <2>1 DEF TypeOK, Replaced, Applied, AppliedUnchecked, Frame, View
  <2>3. store' \in [Clients -> [rev : Nat, values : View]] /\ connected' \in [Clients -> BOOLEAN]
    <3>1. store \in [Clients -> [rev : Nat, values : View]] /\ connected \in [Clients -> BOOLEAN]
      BY DEF TypeOK
    <3>2. CASE store' = [store EXCEPT ![c] = Replaced(Head(outq[c]))]
               /\ connected' = [connected EXCEPT ![c] = TRUE]
      BY <2>2, <3>1, <3>2
    <3>3. CASE store' = [store EXCEPT ![c] = Applied(@, Head(outq[c]))] /\ UNCHANGED connected
      BY <2>2, <3>1, <3>3
    <3>4. CASE UNCHANGED guiVars
      BY <3>1, <3>4
    <3> QED BY <1>16, <3>2, <3>3, <3>4 DEF GuiReceive
  <2> QED BY <1>16, <2>1, <2>3 DEF GuiReceive, TypeOK, QueueStartsEmpty
<1>17. ASSUME NEW c \in Clients, Disconnect(c) PROVE TypeInv'
  BY <1>0, <1>17, BoundsAssumption DEF Disconnect, TypeOK, QueueStartsEmpty
<1>18. ASSUME DaemonRestart PROVE TypeInv'
  <2>1. truth' \in View
    BY <1>18 DEF DaemonRestart, TypeOK, View, Absent
  <2>2. hist' \in [0..revision' -> View] /\ records' \in View /\ revision' \in Nat
    BY <1>0, <1>18 DEF DaemonRestart
  <2>3. \A c \in Clients : Len(rx'[c]) <= BroadcastCapacity /\ Len(outq'[c]) <= QueueCapacity
    BY <1>18, BoundsAssumption DEF DaemonRestart
  <2> QED BY <1>0, <1>18, <2>1, <2>2, <2>3, ActorsAssumption
          DEF DaemonRestart, TypeOK, QueueStartsEmpty
<1>19. CASE UNCHANGED vars
  BY <1>19 DEF TypeOK, QueueStartsEmpty
<1> QED
  BY <1>1, <1>2, <1>3, <1>4, <1>5, <1>6, <1>7, <1>8, <1>9, <1>10, <1>11, <1>12, <1>13,
     <1>14, <1>15, <1>16, <1>17, <1>18, <1>19
  DEF Next, Record, Relay, Forward, Environment

\* Every state of the bus is well typed, a broadcast receiver never holds more
\* than the channel's slots, and a client queue never more than its capacity.
THEOREM TypeCorrect == Spec => []TypeOK
<1>1. TypeInv => TypeOK
  BY DEF TypeInv
<1> QED BY <1>1, InitType, StepType, PTL DEF Spec

----------------------------------------------------------------------------
(* The commit lock, and what it buys.                                      *)

\* The producer between Acquire and the end of its commit is the lock's holder.
CommitLockHeld ==
  \A p \in Producers : pc[p] \in {"produce", "broadcast"} <=> committer = p

\* Projecting t as it now is would make a record or a tombstone under change ch.
Expressible(ch, t) ==
  t \in TopicsOf(ch) /\ (truth[t] # Absent \/ (ch.allDevices /\ t \in DeviceTopics))

\* p has recorded a change that will bring t up to date, and has not begun.
Recorded(p, t) == pc[p] = "record" /\ Expressible(change[p], t)

\* p is producing, and what it has read of t, if it has, is still current.
Producing(p, t) ==
  /\ pc[p] = "produce" /\ Expressible(change[p], t)
  /\ t \in unread[p] \/ projected[p][t] = truth[t]

\* Only devices come and go.
PermanentTopics == \A t \in Topics \ DeviceTopics : truth[t] # Absent

\* A record that is behind has a change on its way to the bus.
BehindIsCovered ==
  \A t \in Topics : records[t] # truth[t] =>
    \E p \in Producers : Recorded(p, t) \/ Producing(p, t)

\* A projection that read a topic too early is followed by a change that has not
\* been projected at all.
EarlyReadIsCovered ==
  \A p \in Producers, t \in Topics :
    (/\ pc[p] = "produce" /\ t \in TopicsOf(change[p]) \ unread[p]
     /\ projected[p][t] # truth[t])
      => \E q \in Producers : Recorded(q, t)

CommitInv ==
  CommitLockHeld /\ PermanentTopics /\ BehindIsCovered /\ EarlyReadIsCovered

\* The relay, the clients and plugin data leave all of this alone.
LEMMA CommitElsewhere ==
  ASSUME CommitInv,
         UNCHANGED <<truth, pc, change, unread, projected, committer, records>>
  PROVE  CommitInv'
BY DEF CommitInv, CommitLockHeld, PermanentTopics, BehindIsCovered, EarlyReadIsCovered,
       Recorded, Producing, Expressible, TopicsOf

\* At start-up the boot producer covers every topic.
LEMMA BootCovers ==
  ASSUME NEW t \in Topics
  PROVE  t \in TopicsOf(BootChange) /\ (t \in DeviceTopics => BootChange.allDevices)
BY DEF TopicsOf, BootChange

LEMMA InitCommit == Init => CommitInv
<1> SUFFICES ASSUME Init PROVE CommitInv
  OBVIOUS
<1>1. /\ pc = [p \in Producers |-> IF p = Boot THEN "record" ELSE "idle"]
      /\ change = [p \in Producers |-> IF p = Boot THEN BootChange ELSE NoChange]
      /\ truth = [t \in Topics |-> IF t \in DeviceTopics THEN Absent ELSE 1]
      /\ committer = "none" /\ records = NoRecords
  BY DEF Init
<1>2. CommitLockHeld
  BY <1>1, ActorsAssumption DEF CommitLockHeld
<1>3. PermanentTopics
  <2> SUFFICES ASSUME NEW t \in Topics \ DeviceTopics PROVE truth[t] # Absent
    BY DEF PermanentTopics
  <2>1. truth[t] = 1
    BY <1>1
  <2> QED BY <2>1 DEF Absent
<1>4. BehindIsCovered
  <2> SUFFICES ASSUME NEW t \in Topics PROVE Recorded(Boot, t)
    BY ActorsAssumption DEF BehindIsCovered
  <2>1. Expressible(BootChange, t)
    BY <1>1, BootCovers DEF Expressible, Absent
  <2> QED BY <1>1, <2>1, ActorsAssumption DEF Recorded
<1>5. EarlyReadIsCovered
  BY <1>1 DEF EarlyReadIsCovered
<1> QED BY <1>2, <1>3, <1>4, <1>5 DEF CommitInv

\* What CommitNothing and Commit find about a topic their projection has right.
LEMMA NothingToSay ==
  ASSUME TypeOK, NEW p \in Producers, NEW t \in Topics, Producing(p, t), unread[p] = {},
         t \notin Upserts(p) \cup Tombstones(p)
  PROVE  records[t] = truth[t]
<1>1. projected[p][t] = truth[t] /\ t \in TopicsOf(change[p])
      /\ (truth[t] # Absent \/ (change[p].allDevices /\ t \in DeviceTopics))
  BY DEF Producing, Expressible
<1>2. CASE truth[t] # Absent
  BY <1>1, <1>2 DEF Upserts
<1>3. CASE truth[t] = Absent
  BY <1>1, <1>3 DEF Tombstones
<1> QED BY <1>2, <1>3

LEMMA StepCommit == TypeInv /\ CommitInv /\ [Next]_vars => CommitInv'
<1> SUFFICES ASSUME TypeInv, CommitInv, [Next]_vars PROVE CommitInv'
  OBVIOUS
<1>0. /\ TypeOK
      /\ CommitLockHeld /\ PermanentTopics /\ BehindIsCovered /\ EarlyReadIsCovered
  BY DEF TypeInv, CommitInv
<1>1. ASSUME NEW p \in Producers, NEW ch \in Changes, NEW touched \in SUBSET TopicsOf(ch),
             Mutate(p, ch, touched)
      PROVE  CommitInv'
  <2>1. PICK removed \in SUBSET (touched \cap DeviceTopics) :
          /\ ~ch.allDevices => \A d \in touched \cap DeviceTopics : d \notin removed
          /\ truth' = [t \in Topics |-> IF t \in removed THEN Absent
                       ELSE IF t \in touched THEN version + 1 ELSE truth[t]]
    BY <1>1 DEF Mutate
  <2>2. /\ pc[p] = "idle" /\ pc' = [pc EXCEPT ![p] = "record"]
        /\ change' = [change EXCEPT ![p] = ch]
        /\ UNCHANGED <<unread, projected, committer, records>>
    BY <1>1 DEF Mutate
  <2>3. version + 1 # Absent
    BY <1>0 DEF TypeOK, Absent
  <2>4. /\ pc'[p] = "record" /\ change'[p] = ch
        /\ \A q \in Producers \ {p} : pc'[q] = pc[q] /\ change'[q] = change[q]
    BY <1>0, <2>2 DEF TypeOK
  <2>5. ASSUME NEW t \in Topics, t \in touched PROVE Recorded(p, t)'
    BY <2>1, <2>3, <2>4, <2>5 DEF Recorded, Expressible, TopicsOf
  <2>6. ASSUME NEW t \in Topics, t \notin touched, NEW q \in Producers
        PROVE  /\ truth'[t] = truth[t]
               /\ Recorded(q, t) => Recorded(q, t)'
               /\ Producing(q, t) => Producing(q, t)'
    <3>1. truth'[t] = truth[t]
      BY <2>1, <2>6
    <3> QED BY <2>2, <2>4, <3>1 DEF Recorded, Producing, Expressible, TopicsOf
  <2>7. CommitLockHeld'
    BY <1>0, <2>2, <2>4 DEF CommitLockHeld
  <2>8. PermanentTopics'
    BY <1>0, <2>1, <2>3 DEF PermanentTopics
  <2>9. BehindIsCovered'
    <3> SUFFICES ASSUME NEW t \in Topics, records'[t] # truth'[t]
                 PROVE  \E q \in Producers : Recorded(q, t)' \/ Producing(q, t)'
      BY DEF BehindIsCovered
    <3>1. CASE t \in touched
      BY <2>5, <3>1
    <3>2. CASE t \notin touched
      <4>1. records[t] # truth[t]
        BY <2>2, <2>6, <3>2
      <4>2. PICK q \in Producers : Recorded(q, t) \/ Producing(q, t)
        BY <1>0, <4>1 DEF BehindIsCovered
      <4> QED BY <2>6, <3>2, <4>2
    <3> QED BY <3>1, <3>2
  <2>10. EarlyReadIsCovered'
    <3> SUFFICES ASSUME NEW r \in Producers, NEW t \in Topics,
                        pc'[r] = "produce", t \in TopicsOf(change[r])' \ unread'[r],
                        projected'[r][t] # truth'[t]
                 PROVE  \E q \in Producers : Recorded(q, t)'
      BY DEF EarlyReadIsCovered
    <3>1. CASE t \in touched
      BY <2>5, <3>1
    <3>2. CASE t \notin touched
      <4>1. r # p /\ pc[r] = "produce" /\ t \in TopicsOf(change[r]) \ unread[r]
            /\ projected[r][t] # truth[t]
        BY <2>2, <2>4, <2>6, <3>2 DEF TopicsOf
      <4>2. PICK q \in Producers : Recorded(q, t)
        BY <1>0, <4>1 DEF EarlyReadIsCovered
      <4> QED BY <2>6, <3>2, <4>2
    <3> QED BY <3>1, <3>2
  <2> QED BY <2>7, <2>8, <2>9, <2>10 DEF CommitInv
<1>2. ASSUME NEW p \in Producers, Acquire(p) PROVE CommitInv'
  <2>1. /\ committer = "none" /\ committer' = p
        /\ pc[p] = "record" /\ pc' = [pc EXCEPT ![p] = "produce"]
        /\ unread' = [unread EXCEPT ![p] = TopicsOf(change[p])]
        /\ UNCHANGED <<truth, change, projected, records>>
    BY <1>2 DEF Acquire, AcquireUnlocked
  <2>2. \A q \in Producers : pc[q] \notin {"produce", "broadcast"}
    BY <1>0, <2>1, ActorsAssumption DEF CommitLockHeld
  <2>3. /\ pc'[p] = "produce" /\ unread'[p] = TopicsOf(change[p])
        /\ \A q \in Producers \ {p} : pc'[q] = pc[q] /\ unread'[q] = unread[q]
    BY <1>0, <2>1 DEF TypeOK
  <2>4. CommitLockHeld'
    BY <2>1, <2>2, <2>3, ActorsAssumption DEF CommitLockHeld
  <2>5. ASSUME NEW t \in Topics, NEW q \in Producers, Recorded(q, t) \/ Producing(q, t)
        PROVE  Recorded(q, t)' \/ Producing(q, t)'
    BY <2>1, <2>2, <2>3, <2>5 DEF Recorded, Producing, Expressible, TopicsOf
  <2>6. BehindIsCovered'
    BY <1>0, <2>1, <2>5 DEF BehindIsCovered
  <2>7. EarlyReadIsCovered'
    <3> SUFFICES ASSUME NEW r \in Producers, NEW t \in Topics,
                        pc'[r] = "produce", t \in TopicsOf(change[r])' \ unread'[r]
                 PROVE  FALSE
      BY DEF EarlyReadIsCovered
    <3> QED BY <2>1, <2>2, <2>3 DEF TopicsOf
  <2> QED BY <1>0, <2>1, <2>4, <2>6, <2>7 DEF CommitInv, PermanentTopics
<1>3. ASSUME NEW p \in Producers, NEW s \in Topics, Project(p, s) PROVE CommitInv'
  <2>1. /\ pc[p] = "produce"
        /\ unread' = [unread EXCEPT ![p] = @ \ {s}]
        /\ projected' = [projected EXCEPT ![p][s] = truth[s]]
        /\ UNCHANGED <<truth, pc, change, committer, records>>
    BY <1>3 DEF Project
  <2>2. /\ unread'[p] = unread[p] \ {s}
        /\ projected'[p][s] = truth[s]
        /\ \A t \in Topics \ {s} : projected'[p][t] = projected[p][t]
        /\ \A q \in Producers \ {p} : unread'[q] = unread[q] /\ projected'[q] = projected[q]
    BY <1>0, <2>1 DEF TypeOK, View
  <2>3. ASSUME NEW t \in Topics, NEW q \in Producers, Producing(q, t) PROVE Producing(q, t)'
    BY <2>1, <2>2, <2>3 DEF Producing, Expressible, TopicsOf
  <2>4. ASSUME NEW t \in Topics, NEW q \in Producers PROVE Recorded(q, t)' <=> Recorded(q, t)
    BY <2>1 DEF Recorded, Expressible, TopicsOf
  <2>5. BehindIsCovered'
    BY <1>0, <2>1, <2>3, <2>4 DEF BehindIsCovered
  <2>6. EarlyReadIsCovered'
    <3> SUFFICES ASSUME NEW r \in Producers, NEW t \in Topics,
                        pc'[r] = "produce", t \in TopicsOf(change[r])' \ unread'[r],
                        projected'[r][t] # truth'[t]
                 PROVE  \E q \in Producers : Recorded(q, t)'
      BY DEF EarlyReadIsCovered
    <3>1. t # s \/ r # p
      BY <2>1, <2>2
    <3>2. pc[r] = "produce" /\ t \in TopicsOf(change[r]) \ unread[r]
          /\ projected[r][t] # truth[t]
      BY <2>1, <2>2, <3>1 DEF TopicsOf
    <3> QED BY <1>0, <2>4, <3>2 DEF EarlyReadIsCovered
  <2> QED BY <1>0, <2>1, <2>5, <2>6 DEF CommitInv, CommitLockHeld, PermanentTopics
<1>4. ASSUME NEW p \in Producers, CommitNothing(p) PROVE CommitInv'
  <2>1. /\ pc[p] = "produce" /\ unread[p] = {} /\ Upserts(p) \cup Tombstones(p) = {}
        /\ pc' = [pc EXCEPT ![p] = "idle"] /\ committer' = "none"
        /\ change' = [change EXCEPT ![p] = NoChange]
        /\ projected' = [projected EXCEPT ![p] = NoRecords]
        /\ UNCHANGED <<truth, unread, records>>
    BY <1>4 DEF CommitNothing
  <2>2. \A q \in Producers \ {p} : pc[q] \notin {"produce", "broadcast"}
    BY <1>0, <2>1 DEF CommitLockHeld
  <2>3. /\ pc'[p] = "idle"
        /\ \A q \in Producers \ {p} : pc'[q] = pc[q] /\ change'[q] = change[q]
    BY <1>0, <2>1 DEF TypeOK
  <2>4. CommitLockHeld'
    BY <2>1, <2>2, <2>3, ActorsAssumption DEF CommitLockHeld
  <2>5. ASSUME NEW t \in Topics, NEW q \in Producers, Recorded(q, t) PROVE Recorded(q, t)'
    BY <2>1, <2>3, <2>5 DEF Recorded, Expressible, TopicsOf
  <2>6. BehindIsCovered'
    <3> SUFFICES ASSUME NEW t \in Topics, records[t] # truth[t]
                 PROVE  \E q \in Producers : Recorded(q, t)'
      BY <2>1 DEF BehindIsCovered
    <3>1. PICK q \in Producers : Recorded(q, t) \/ Producing(q, t)
      BY <1>0 DEF BehindIsCovered
    <3>2. ~Producing(q, t)
      BY <1>0, <2>1, <2>2, NothingToSay DEF Producing
    <3> QED BY <2>5, <3>1, <3>2
  <2>7. EarlyReadIsCovered'
    BY <2>2, <2>3 DEF EarlyReadIsCovered
  <2> QED BY <1>0, <2>1, <2>4, <2>6, <2>7 DEF CommitInv, PermanentTopics
<1>5. ASSUME NEW p \in Producers, Commit(p) PROVE CommitInv'
  <2> DEFINE changed == Upserts(p) \cup Tombstones(p)
  <2>1. /\ pc[p] = "produce" /\ unread[p] = {}
        /\ pc' = [pc EXCEPT ![p] = "broadcast"]
        /\ change' = [change EXCEPT ![p] = NoChange]
        /\ records' = [t \in Topics |-> IF t \in changed THEN projected[p][t] ELSE records[t]]
        /\ UNCHANGED <<truth, unread, committer>>
    BY <1>5 DEF Commit
  <2>2. \A q \in Producers \ {p} : pc[q] \notin {"produce", "broadcast"}
    BY <1>0, <2>1 DEF CommitLockHeld
  <2>3. /\ pc'[p] = "broadcast"
        /\ \A q \in Producers \ {p} : pc'[q] = pc[q] /\ change'[q] = change[q]
    BY <1>0, <2>1 DEF TypeOK
  <2>4. CommitLockHeld'
    BY <1>0, <2>1, <2>3 DEF CommitLockHeld
  <2>5. ASSUME NEW t \in Topics, NEW q \in Producers, Recorded(q, t) PROVE Recorded(q, t)'
    BY <2>1, <2>3, <2>5 DEF Recorded, Expressible, TopicsOf
  <2>6. ASSUME NEW t \in Topics, t \in changed PROVE t \in TopicsOf(change[p])
    BY <2>6 DEF Upserts, Tombstones, TopicsOf
  <2>7. BehindIsCovered'
    <3> SUFFICES ASSUME NEW t \in Topics, records'[t] # truth[t]
                 PROVE  \E q \in Producers : Recorded(q, t)'
      BY <2>1 DEF BehindIsCovered
    <3>1. CASE t \in changed
      <4>1. projected[p][t] # truth[t] /\ t \in TopicsOf(change[p]) \ unread[p]
        BY <2>1, <2>6, <3>1
      <4>2. PICK q \in Producers : Recorded(q, t)
        BY <1>0, <2>1, <4>1 DEF EarlyReadIsCovered
      <4> QED BY <2>5, <4>2
    <3>2. CASE t \notin changed
      <4>1. records[t] # truth[t]
        BY <2>1, <3>2
      <4>2. PICK q \in Producers : Recorded(q, t) \/ Producing(q, t)
        BY <1>0, <4>1 DEF BehindIsCovered
      <4>3. ~Producing(q, t)
        BY <1>0, <2>1, <2>2, <3>2, <4>1, NothingToSay DEF Producing
      <4> QED BY <2>5, <4>2, <4>3
    <3> QED BY <3>1, <3>2
  <2>8. EarlyReadIsCovered'
    BY <2>2, <2>3 DEF EarlyReadIsCovered
  <2> QED BY <1>0, <2>1, <2>4, <2>7, <2>8 DEF CommitInv, PermanentTopics
<1>6. ASSUME NEW p \in Producers, Broadcast(p) PROVE CommitInv'
  <2>1. /\ pc[p] = "broadcast" /\ pc' = [pc EXCEPT ![p] = "idle"] /\ committer' = "none"
        /\ UNCHANGED <<truth, change, unread, projected, records>>
    BY <1>6 DEF Broadcast
  <2>2. \A q \in Producers \ {p} : pc[q] \notin {"produce", "broadcast"}
    BY <1>0, <2>1 DEF CommitLockHeld
  <2>3. pc'[p] = "idle" /\ \A q \in Producers \ {p} : pc'[q] = pc[q]
    BY <1>0, <2>1 DEF TypeOK
  <2>4. CommitLockHeld'
    BY <2>1, <2>2, <2>3, ActorsAssumption DEF CommitLockHeld
  <2>5. ASSUME NEW t \in Topics, NEW q \in Producers, Recorded(q, t) PROVE Recorded(q, t)'
    BY <2>1, <2>3, <2>5 DEF Recorded, Expressible, TopicsOf
  <2>6. \A t \in Topics, q \in Producers : ~Producing(q, t)
    BY <2>1, <2>2 DEF Producing
  <2>7. BehindIsCovered'
    BY <1>0, <2>1, <2>5, <2>6 DEF BehindIsCovered
  <2>8. EarlyReadIsCovered'
    BY <2>2, <2>3 DEF EarlyReadIsCovered
  <2> QED BY <1>0, <2>1, <2>4, <2>7, <2>8 DEF CommitInv, PermanentTopics
<1>7. CASE DaemonRestart
  <2>1. /\ pc' = [p \in Producers |-> IF p = Boot THEN "record" ELSE "idle"]
        /\ change' = [p \in Producers |-> IF p = Boot THEN BootChange ELSE NoChange]
        /\ truth' = [t \in Topics |-> IF t \in DeviceTopics THEN Absent ELSE truth[t]]
        /\ committer' = "none"
    BY <1>7 DEF DaemonRestart
  <2>2. CommitLockHeld'
    BY <2>1, ActorsAssumption DEF CommitLockHeld
  <2>3. PermanentTopics'
    BY <1>0, <2>1 DEF PermanentTopics
  <2>4. BehindIsCovered'
    <3> SUFFICES ASSUME NEW t \in Topics PROVE Recorded(Boot, t)'
      BY ActorsAssumption DEF BehindIsCovered
    <3>1. /\ t \in TopicsOf(BootChange)
          /\ truth'[t] # Absent \/ (BootChange.allDevices /\ t \in DeviceTopics)
      BY <1>0, <2>1, BootCovers DEF PermanentTopics
    <3>2. pc'[Boot] = "record" /\ change'[Boot] = BootChange
      BY <2>1, ActorsAssumption
    <3> QED BY <3>1, <3>2 DEF Recorded, Expressible, TopicsOf
  <2>5. EarlyReadIsCovered'
    BY <2>1 DEF EarlyReadIsCovered
  <2> QED BY <2>2, <2>3, <2>4, <2>5 DEF CommitInv
<1>8. CASE PluginDataRevision
  BY <1>8, CommitElsewhere DEF PluginDataRevision
<1>9. ASSUME NEW c \in Clients, Relay(c) \/ GuiReceive(c) \/ Environment(c) PROVE CommitInv'
  <2>1. UNCHANGED <<appVars, producerVars, busVars>>
    BY <1>9 DEF Relay, Forward, Environment, InitialSnapshot, ForwardTransaction,
                ForwardLagged, CapacityReady, GuiReceive, Connect, ForwardEventBlocked,
                CapacityTimeout, QueueOther, Disconnect
  <2> QED BY <2>1, CommitElsewhere
<1>10. CASE UNCHANGED vars
  BY <1>10, CommitElsewhere
<1> QED
  BY <1>1, <1>2, <1>3, <1>4, <1>5, <1>6, <1>7, <1>8, <1>9, <1>10 DEF Next, Record

\* Once every recorded change has been committed, the bus retains exactly the
\* current application state: no projection that was read early is the last word
\* and no device that left keeps its record.
THEOREM RecordsCatchUp == Spec => []QuiescentBusIsCurrent
<1>1. TypeInv /\ CommitInv => QuiescentBusIsCurrent
  <2> SUFFICES ASSUME TypeInv, CommitInv, \A p \in Producers : pc[p] = "idle"
               PROVE  records = truth
    BY DEF QuiescentBusIsCurrent
  <2>1. \A t \in Topics : records[t] = truth[t]
    BY DEF CommitInv, BehindIsCovered, Recorded, Producing
  <2> QED BY <2>1 DEF TypeInv, TypeOK, View
<1> QED BY <1>1, InitType, StepType, InitCommit, StepCommit, PTL DEF Spec

----------------------------------------------------------------------------
(* The order of delivery.                                                  *)

Increasing(s) == \A i, j \in DOMAIN s : i < j => s[i].rev < s[j].rev
UpTo(s, r) == \A i \in DOMAIN s : s[i].rev <= r
Before(s, r) == \A i \in DOMAIN s : s[i].rev < r

\* Nothing on its way to a client is newer than the bus, and a transaction still
\* to be broadcast is newer than all that were.
OrderInv ==
  /\ \A c \in Clients : Increasing(rx[c]) /\ UpTo(rx[c], revision)
  /\ \A p \in Producers : pc[p] = "broadcast" =>
       /\ pending[p].rev <= revision
       /\ \A c \in Clients : Before(rx[c], pending[p].rev)

LEMMA RevisionType ==
  ASSUME NEW s \in Seq(Frame)
  PROVE  \A i \in DOMAIN s : s[i].rev \in Nat
<1> SUFFICES ASSUME NEW i \in DOMAIN s PROVE s[i].rev \in Nat
  OBVIOUS
<1>1. s[i] \in Frame
  BY ElementOfSeq
<1> QED BY <1>1 DEF Frame

LEMMA TailOrder ==
  ASSUME NEW s \in Seq(Frame), s # <<>>, NEW r \in Nat
  PROVE  /\ Increasing(s) => Increasing(Tail(s))
         /\ UpTo(s, r) => UpTo(Tail(s), r)
         /\ Before(s, r) => Before(Tail(s), r)
<1>1. /\ Tail(s) \in Seq(Frame) /\ Len(Tail(s)) = Len(s) - 1
      /\ DOMAIN s = 1..Len(s) /\ DOMAIN Tail(s) = 1..(Len(s) - 1) /\ Len(s) \in Nat
  OBVIOUS
<1>2. \A i \in DOMAIN Tail(s) : i + 1 \in DOMAIN s /\ Tail(s)[i] = s[i + 1]
  BY <1>1
<1> QED BY <1>1, <1>2 DEF Increasing, UpTo, Before

LEMMA AppendOrder ==
  ASSUME NEW s \in Seq(Frame), NEW f \in Frame, Increasing(s), Before(s, f.rev)
  PROVE  /\ Increasing(Append(s, f))
         /\ \A i \in DOMAIN Append(s, f) : Append(s, f)[i].rev <= f.rev
<1>1. /\ Append(s, f) \in Seq(Frame) /\ Len(Append(s, f)) = Len(s) + 1 /\ Len(s) \in Nat
      /\ DOMAIN s = 1..Len(s) /\ DOMAIN Append(s, f) = 1..(Len(s) + 1)
  OBVIOUS
<1>2. /\ \A i \in DOMAIN s : Append(s, f)[i] = s[i]
      /\ Append(s, f)[Len(s) + 1] = f
  OBVIOUS
<1>3. f.rev \in Nat /\ \A i \in DOMAIN s : s[i].rev \in Nat
  BY RevisionType DEF Frame
<1> QED BY <1>1, <1>2, <1>3 DEF Increasing, Before

LEMMA ReceivedOrder ==
  ASSUME TypeOK, NEW c \in Clients, NEW txn \in Frame, Increasing(rx[c]),
         Before(rx[c], txn.rev)
  PROVE  /\ Increasing(Received(c, txn))
         /\ \A i \in DOMAIN Received(c, txn) : Received(c, txn)[i].rev <= txn.rev
<1>1. rx[c] \in Seq(Frame) /\ txn.rev \in Nat /\ BroadcastCapacity \in Nat \ {0}
  BY BoundsAssumption DEF TypeOK, Frame
<1>2. CASE ~Listening(c)
  <2>1. \A i \in DOMAIN rx[c] : rx[c][i].rev <= txn.rev
    BY <1>1, RevisionType DEF Before
  <2> QED BY <1>2, <2>1 DEF Received
<1>3. CASE Listening(c) /\ Overrun(c)
  <2>1. rx[c] # <<>>
    BY <1>1, <1>3 DEF Overrun
  <2>2. Tail(rx[c]) \in Seq(Frame) /\ Increasing(Tail(rx[c])) /\ Before(Tail(rx[c]), txn.rev)
    BY <1>1, <2>1, TailOrder
  <2>3. Received(c, txn) = Append(Tail(rx[c]), txn)
    BY <1>3 DEF Received
  <2> QED BY <2>2, <2>3, AppendOrder
<1>4. CASE Listening(c) /\ ~Overrun(c)
  <2>1. Received(c, txn) = Append(rx[c], txn)
    BY <1>4 DEF Received
  <2> QED BY <1>1, <2>1, AppendOrder
<1> QED BY <1>2, <1>3, <1>4

LEMMA OrderElsewhere ==
  ASSUME OrderInv, UNCHANGED <<rx, pc, pending, revision>>
  PROVE  OrderInv'
BY DEF OrderInv, Increasing, UpTo, Before

\* A step of one client that takes the oldest transaction, or drops them all.
LEMMA OrderShrinks ==
  ASSUME TypeOK, OrderInv, NEW c \in Clients, UNCHANGED <<pc, pending, revision>>,
         \/ rx[c] # <<>> /\ rx' = [rx EXCEPT ![c] = Tail(@)]
         \/ rx' = [rx EXCEPT ![c] = <<>>]
  PROVE  OrderInv'
<1>1. /\ rx \in [Clients -> Seq(Frame)] /\ revision \in Nat
      /\ \A p \in Producers : pending[p].rev \in Nat
  BY DEF TypeOK, Frame
<1>2. \A d \in Clients \ {c} : rx'[d] = rx[d]
  BY <1>1
<1>3. /\ Increasing(rx'[c]) /\ UpTo(rx'[c], revision)
      /\ \A r \in Nat : Before(rx[c], r) => Before(rx'[c], r)
  <2>1. CASE rx[c] # <<>> /\ rx'[c] = Tail(rx[c])
    BY <1>1, <2>1, TailOrder DEF OrderInv
  <2>2. CASE rx'[c] = <<>>
    BY <2>2 DEF Increasing, UpTo, Before
  <2> QED BY <1>1, <2>1, <2>2
<1>4. \A d \in Clients : Increasing(rx'[d]) /\ UpTo(rx'[d], revision)
  BY <1>2, <1>3 DEF OrderInv
<1>5. \A p \in Producers : pc[p] = "broadcast" =>
        \A d \in Clients : Before(rx'[d], pending[p].rev)
  BY <1>1, <1>2, <1>3 DEF OrderInv
<1> QED BY <1>4, <1>5 DEF OrderInv, Increasing, UpTo, Before

LEMMA InitOrder == Init => OrderInv
<1> SUFFICES ASSUME Init PROVE OrderInv
  OBVIOUS
<1>1. \A c \in Clients : rx[c] = <<>>
  BY DEF Init
<1>2. \A p \in Producers : pc[p] # "broadcast"
  BY DEF Init
<1> QED BY <1>1, <1>2 DEF OrderInv, Increasing, UpTo, Before

LEMMA StepOrder == TypeInv /\ CommitLockHeld /\ OrderInv /\ [Next]_vars => OrderInv'
<1> SUFFICES ASSUME TypeInv, CommitLockHeld, OrderInv, [Next]_vars PROVE OrderInv'
  OBVIOUS
<1>0. /\ TypeOK /\ revision \in Nat /\ pc \in [Producers -> {"idle", "record", "produce", "broadcast"}]
      /\ pending \in [Producers -> Frame] /\ rx \in [Clients -> Seq(Frame)]
  BY DEF TypeInv, TypeOK
<1>1. ASSUME NEW p \in Producers, UNCHANGED <<rx, pending, revision>>,
             NEW at \in {"idle", "record", "produce"}, pc' = [pc EXCEPT ![p] = at]
      PROVE  OrderInv'
  BY <1>0, <1>1 DEF OrderInv, Increasing, UpTo, Before
<1>2. ASSUME NEW p \in Producers, NEW ch \in Changes, NEW touched \in SUBSET TopicsOf(ch),
             Mutate(p, ch, touched)
      PROVE  OrderInv'
  BY <1>1, <1>2 DEF Mutate
<1>3. ASSUME NEW p \in Producers, Acquire(p) PROVE OrderInv'
  BY <1>1, <1>3 DEF Acquire, AcquireUnlocked
<1>4. ASSUME NEW p \in Producers, NEW t \in Topics, Project(p, t) PROVE OrderInv'
  BY <1>4, OrderElsewhere DEF Project
<1>5. ASSUME NEW p \in Producers, CommitNothing(p) PROVE OrderInv'
  BY <1>1, <1>5 DEF CommitNothing
<1>6. ASSUME NEW p \in Producers, Commit(p) PROVE OrderInv'
  <2>1. /\ pc[p] = "produce" /\ pc' = [pc EXCEPT ![p] = "broadcast"]
        /\ revision' = revision + 1 /\ rx' = rx
        /\ \E topics, values :
             pending' = [pending EXCEPT ![p] = Transaction(revision + 1, topics, values)]
    BY <1>6 DEF Commit
  <2>2. \A q \in Producers \ {p} : pc[q] # "broadcast"
    BY <2>1 DEF CommitLockHeld
  <2>3. pending'[p].rev = revision + 1
    BY <1>0, <2>1 DEF Transaction
  <2>4. \A c \in Clients : \A i \in DOMAIN rx[c] : rx[c][i].rev \in Nat
    BY <1>0, RevisionType
  <2>5. \A c \in Clients : UpTo(rx[c], revision + 1) /\ Before(rx[c], revision + 1)
    BY <1>0, <2>4 DEF OrderInv, UpTo, Before
  <2>6. \A q \in Producers : pc'[q] = "broadcast" => q = p
    BY <1>0, <2>1, <2>2
  <2>7. \A c \in Clients : Increasing(rx'[c]) /\ UpTo(rx'[c], revision')
    BY <2>1, <2>5 DEF OrderInv
  <2>8. \A q \in Producers : pc'[q] = "broadcast" =>
          pending'[q].rev <= revision' /\ \A c \in Clients : Before(rx'[c], pending'[q].rev)
    BY <1>0, <2>1, <2>3, <2>5, <2>6
  <2> QED BY <2>7, <2>8 DEF OrderInv, Increasing, UpTo, Before
<1>7. ASSUME NEW p \in Producers, Broadcast(p) PROVE OrderInv'
  <2>1. /\ pc[p] = "broadcast" /\ pc' = [pc EXCEPT ![p] = "idle"] /\ revision' = revision
        /\ rx' = [c \in Clients |-> Received(c, pending[p])]
    BY <1>7 DEF Broadcast
  <2>2. \A q \in Producers : pc'[q] # "broadcast"
    BY <1>0, <2>1 DEF CommitLockHeld
  <2>3. pending[p] \in Frame /\ pending[p].rev \in Nat /\ pending[p].rev <= revision
    BY <1>0, <2>1 DEF OrderInv, Frame
  <2>4. ASSUME NEW c \in Clients PROVE Increasing(rx'[c]) /\ UpTo(rx'[c], revision')
    <3>1. Increasing(rx[c]) /\ Before(rx[c], pending[p].rev)
      BY <2>1 DEF OrderInv
    <3>2. /\ Increasing(Received(c, pending[p]))
          /\ \A i \in DOMAIN Received(c, pending[p]) :
               Received(c, pending[p])[i].rev <= pending[p].rev
      BY <1>0, <2>3, <3>1, ReceivedOrder
    <3>3. Received(c, pending[p]) \in Seq(Frame)
      BY <1>0, <2>3, BoundsAssumption DEF Received, Overrun
    <3>4. \A i \in DOMAIN Received(c, pending[p]) : Received(c, pending[p])[i].rev \in Nat
      BY <3>3, RevisionType
    <3>5. UpTo(Received(c, pending[p]), revision)
      BY <1>0, <2>3, <3>2, <3>4 DEF UpTo
    <3> QED BY <2>1, <3>2, <3>5
  <2> QED BY <2>2, <2>4 DEF OrderInv, Increasing, UpTo, Before
<1>8. CASE PluginDataRevision
  <2>1. UNCHANGED <<rx, pc, pending>> /\ revision' = revision + 1
    BY <1>8 DEF PluginDataRevision
  <2>2. \A c \in Clients : \A i \in DOMAIN rx[c] : rx[c][i].rev \in Nat
    BY <1>0, RevisionType
  <2>3. \A p \in Producers : pending[p].rev \in Nat
    BY <1>0 DEF Frame
  <2> QED BY <1>0, <2>1, <2>2, <2>3 DEF OrderInv, Increasing, UpTo, Before
<1>9. ASSUME NEW c \in Clients, ForwardTransaction(c) PROVE OrderInv'
  BY <1>0, <1>9, OrderShrinks DEF ForwardTransaction
<1>10. ASSUME NEW c \in Clients, CapacityTimeout(c) \/ Disconnect(c) PROVE OrderInv'
  BY <1>0, <1>10, OrderShrinks DEF CapacityTimeout, Disconnect
<1>11. ASSUME NEW c \in Clients,
              \/ InitialSnapshot(c) \/ ForwardLagged(c) \/ CapacityReady(c) \/ GuiReceive(c)
              \/ (\E topics \in Subscriptions : Connect(c, topics))
              \/ ForwardEventBlocked(c) \/ QueueOther(c)
       PROVE  OrderInv'
  BY <1>11, OrderElsewhere
     DEF InitialSnapshot, ForwardLagged, CapacityReady, GuiReceive, Connect,
         ForwardEventBlocked, QueueOther
<1>12. CASE DaemonRestart
  <2>1. \A c \in Clients : rx'[c] = <<>>
    BY <1>12 DEF DaemonRestart
  <2>2. \A p \in Producers : pc'[p] # "broadcast"
    BY <1>12 DEF DaemonRestart
  <2> QED BY <2>1, <2>2 DEF OrderInv, Increasing, UpTo, Before
<1>13. CASE UNCHANGED vars
  BY <1>13, OrderElsewhere
<1> QED
  BY <1>2, <1>3, <1>4, <1>5, <1>6, <1>7, <1>8, <1>9, <1>10, <1>11, <1>12, <1>13
  DEF Next, Record, Relay, Forward, Environment

\* Transactions reach every receiver in the order of their revisions, although the
\* broadcast happens after the bus mutex is released: the commit lock orders it.
THEOREM DeliveredInOrder == Spec => []BroadcastInOrder
<1>1. OrderInv => BroadcastInOrder
  BY DEF OrderInv, BroadcastInOrder, Increasing, Before
<1>2. CommitInv => CommitLockHeld
  BY DEF CommitInv
<1> QED BY <1>1, <1>2, InitType, StepType, InitCommit, StepCommit, InitOrder, StepOrder,
           PTL DEF Spec

----------------------------------------------------------------------------
(* Frames say what was so.                                                 *)

\* A frame on its way to a client with these topics is true of its revision.
TrueOf(f, topics, log) ==
  /\ f.rev \in DOMAIN log
  /\ f.type = "snapshot" => f.values = Only(log[f.rev], topics)
  /\ f.type = "transaction" => \A t \in f.topics : f.values[t] = log[f.rev][t]

PendingFrames ==
  \A p \in Producers : pc[p] = "broadcast" =>
    pending[p].type = "transaction" /\ TrueOf(pending[p], Topics, hist)

ClientFrames(c) ==
  /\ \A i \in DOMAIN rx[c] :
       rx[c][i].type = "transaction" /\ TrueOf(rx[c][i], Topics, hist)
  /\ \A i \in DOMAIN outq[c] :
       /\ TrueOf(outq[c][i], sub[c], hist)
       /\ outq[c][i].type = "transaction" => outq[c][i].topics \subseteq sub[c]
  /\ TrueOf(held[c], sub[c], hist) /\ held[c].type # "transaction"
  /\ relay[c] # "wait" => held[c] = OtherFrame

BusFrames == hist[revision] = records /\ PendingFrames

----------------------------------------------------------------------------
(* Nothing is missing between what a client shows and what is on its way.  *)

Newer(f, b) == f.type # "other" /\ f.rev > b
NewerIn(q, n, b) == \E j \in 1..n : Newer(q[j], b)
CarriedIn(q, n, b, t) == \E j \in 1..n : t \in q[j].topics /\ q[j].rev > b

\* Frame f does not carry topic t, which was different at revision b.
Gap(f, b, t, log) ==
  b \in DOMAIN log /\ b <= f.rev /\ t \notin f.topics /\ log[b][t] # log[f.rev][t]

Shown(c, b) == connected[c] /\ store[c].rev > b

\* Before it comes to the receiver's transactions, c will be past revision b.
Ahead(c, b) ==
  \/ conn[c] = "subscribed" \/ lagged[c] \/ Shown(c, b) \/ Newer(held[c], b)
  \/ NewerIn(outq[c], Len(outq[c]), b)

QueueComplete(c) ==
  \A i \in DOMAIN outq[c], b \in DOMAIN hist, t \in sub[c] :
    outq[c][i].type = "transaction" /\ Gap(outq[c][i], b, t, hist) =>
      Shown(c, b) \/ NewerIn(outq[c], i - 1, b)

RxComplete(c) ==
  \A i \in DOMAIN rx[c], b \in DOMAIN hist, t \in sub[c] :
    Gap(rx[c][i], b, t, hist) => Ahead(c, b) \/ CarriedIn(rx[c], i - 1, b, t)

PendingComplete(c) ==
  Listening(c) => \A p \in Producers, b \in DOMAIN hist, t \in sub[c] :
    pc[p] = "broadcast" /\ Gap(pending[p], b, t, hist) =>
      Ahead(c, b) \/ CarriedIn(rx[c], Len(rx[c]), b, t)

BusComplete(c) ==
  Listening(c) => \A b \in DOMAIN hist, t \in sub[c] : hist[b][t] # records[t] =>
    \/ Ahead(c, b) \/ CarriedIn(rx[c], Len(rx[c]), b, t)
    \/ \E p \in Producers :
         pc[p] = "broadcast" /\ t \in pending[p].topics /\ pending[p].rev > b

\* A snapshot is newer than all that is before it, and comes first on a connection.
SnapshotsInOrder(c) ==
  /\ \A i \in DOMAIN outq[c] : outq[c][i].type = "snapshot" =>
       /\ connected[c] => store[c].rev <= outq[c][i].rev
       /\ \A j \in 1..(i - 1) : outq[c][j].rev <= outq[c][i].rev
  /\ held[c].type = "snapshot" =>
       /\ connected[c] => store[c].rev <= held[c].rev
       /\ \A j \in DOMAIN outq[c] : outq[c][j].rev <= held[c].rev
SnapshotFirst(c) ==
  /\ \A i \in DOMAIN outq[c] : outq[c][i].type = "transaction" =>
       connected[c] \/ \E j \in 1..(i - 1) : outq[c][j].type = "snapshot"
  /\ conn[c] = "on" => connected[c] \/ \E j \in DOMAIN outq[c] : outq[c][j].type = "snapshot"
  /\ connected[c] => conn[c] = "on"

Consistent(c) ==
  connected[c] => /\ store[c].rev \in DOMAIN hist
                  /\ store[c].values = Only(hist[store[c].rev], sub[c])

QueueChain(c) ==
  QueueComplete(c) /\ SnapshotsInOrder(c) /\ SnapshotFirst(c) /\ Consistent(c)
BusChain(c) == RxComplete(c) /\ PendingComplete(c) /\ BusComplete(c)

ClientInv(c) == ClientFrames(c) /\ QueueChain(c) /\ BusChain(c)
ReplicaInv ==
  TypeInv /\ CommitLockHeld /\ BusFrames /\ \A c \in Clients : ClientInv(c)

----------------------------------------------------------------------------
(* Facts about frames, queues and logs.                                    *)

\* The later log has everything the earlier one has.
Extends(log, later) == \A r \in DOMAIN log : r \in DOMAIN later /\ later[r] = log[r]

\* What holds of a frame in one log holds of it in a later one, and the other
\* way round for what it leaves out.
LEMMA TrueStays ==
  ASSUME NEW log, NEW later, Extends(log, later), NEW f, NEW topics, TrueOf(f, topics, log)
  PROVE  TrueOf(f, topics, later)
BY DEF TrueOf, Extends

LEMMA GapWasThere ==
  ASSUME NEW n \in Nat, NEW log, NEW later, DOMAIN log = 0..n, Extends(log, later),
         NEW f, f.rev \in DOMAIN log,
         NEW b \in DOMAIN later, b \in Nat, NEW t, Gap(f, b, t, later)
  PROVE  b \in DOMAIN log /\ Gap(f, b, t, log)
<1>1. b \in DOMAIN log
  BY DEF Gap
<1> QED BY <1>1 DEF Gap, Extends

\* Everything a frame queue is asked, when a frame joins it or leaves it.
LEMMA AppendNewer ==
  ASSUME NEW q \in Seq(Frame), NEW f \in Frame, NEW b
  PROVE  /\ \A n \in 0..Len(q) : NewerIn(Append(q, f), n, b) <=> NewerIn(q, n, b)
         /\ NewerIn(Append(q, f), Len(q) + 1, b) <=> NewerIn(q, Len(q), b) \/ Newer(f, b)
<1>1. /\ Len(q) \in Nat
      /\ \A i \in 1..Len(q) : Append(q, f)[i] = q[i]
      /\ Append(q, f)[Len(q) + 1] = f
  OBVIOUS
<1>2. \A n \in 0..Len(q) : \A i \in 1..n : i \in 1..Len(q)
  BY <1>1
<1>3. \A i : i \in 1..(Len(q) + 1) <=> i \in 1..Len(q) \/ i = Len(q) + 1
  BY <1>1
<1> QED BY <1>1, <1>2, <1>3 DEF NewerIn

LEMMA AppendCarried ==
  ASSUME NEW q \in Seq(Frame), NEW f \in Frame, NEW b, NEW t
  PROVE  /\ \A n \in 0..Len(q) : CarriedIn(Append(q, f), n, b, t) <=> CarriedIn(q, n, b, t)
         /\ CarriedIn(Append(q, f), Len(q) + 1, b, t)
              <=> CarriedIn(q, Len(q), b, t) \/ (t \in f.topics /\ f.rev > b)
<1>1. /\ Len(q) \in Nat
      /\ \A i \in 1..Len(q) : Append(q, f)[i] = q[i]
      /\ Append(q, f)[Len(q) + 1] = f
  OBVIOUS
<1>2. \A n \in 0..Len(q) : \A i \in 1..n : i \in 1..Len(q)
  BY <1>1
<1>3. \A i : i \in 1..(Len(q) + 1) <=> i \in 1..Len(q) \/ i = Len(q) + 1
  BY <1>1
<1> QED BY <1>1, <1>2, <1>3 DEF CarriedIn

LEMMA TailNewer ==
  ASSUME NEW q \in Seq(Frame), q # <<>>, NEW b, NEW n \in 0..Len(q), n # 0
  PROVE  NewerIn(q, n, b) <=> Newer(Head(q), b) \/ NewerIn(Tail(q), n - 1, b)
<1>1. /\ Len(q) \in Nat /\ Head(q) = q[1]
      /\ \A i \in 1..(Len(q) - 1) : Tail(q)[i] = q[i + 1]
  OBVIOUS
<1>2. \A i \in 1..n : i = 1 \/ (i - 1 \in 1..(n - 1) /\ (i - 1) + 1 = i)
  BY <1>1
<1>3. 1 \in 1..n /\ \A i \in 1..(n - 1) : i \in 1..(Len(q) - 1) /\ i + 1 \in 1..n
  BY <1>1
<1>4. \A i \in 1..n : i = 1 \/ (i - 1 \in 1..(n - 1) /\ Tail(q)[i - 1] = q[i])
  BY <1>1, <1>2, <1>3
<1> QED BY <1>1, <1>3, <1>4 DEF NewerIn

LEMMA TailCarried ==
  ASSUME NEW q \in Seq(Frame), q # <<>>, NEW b, NEW t, NEW n \in 0..Len(q), n # 0
  PROVE  CarriedIn(q, n, b, t)
           <=> \/ t \in Head(q).topics /\ Head(q).rev > b
               \/ CarriedIn(Tail(q), n - 1, b, t)
<1>1. /\ Len(q) \in Nat /\ Head(q) = q[1]
      /\ \A i \in 1..(Len(q) - 1) : Tail(q)[i] = q[i + 1]
  OBVIOUS
<1>2. \A i \in 1..n : i = 1 \/ (i - 1 \in 1..(n - 1) /\ (i - 1) + 1 = i)
  BY <1>1
<1>3. 1 \in 1..n /\ \A i \in 1..(n - 1) : i \in 1..(Len(q) - 1) /\ i + 1 \in 1..n
  BY <1>1
<1>4. \A i \in 1..n : i = 1 \/ (i - 1 \in 1..(n - 1) /\ Tail(q)[i - 1] = q[i])
  BY <1>1, <1>2, <1>3
<1> QED BY <1>1, <1>3, <1>4 DEF CarriedIn

LEMMA TailFacts ==
  ASSUME NEW q \in Seq(Frame), q # <<>>
  PROVE  /\ Tail(q) \in Seq(Frame) /\ Len(q) \in Nat /\ 1 \in DOMAIN q /\ Head(q) = q[1]
         /\ Len(Tail(q)) = Len(q) - 1
         /\ DOMAIN q = 1..Len(q) /\ DOMAIN Tail(q) = 1..(Len(q) - 1)
         /\ \A i \in DOMAIN Tail(q) : i \in Nat /\ i + 1 \in DOMAIN q /\ Tail(q)[i] = q[i + 1]
OBVIOUS

LEMMA AppendFacts ==
  ASSUME NEW q \in Seq(Frame), NEW f \in Frame
  PROVE  /\ Append(q, f) \in Seq(Frame) /\ Len(q) \in Nat
         /\ Len(Append(q, f)) = Len(q) + 1
         /\ DOMAIN q = 1..Len(q) /\ DOMAIN Append(q, f) = 1..(Len(q) + 1)
         /\ \A i \in DOMAIN q : i \in DOMAIN Append(q, f) /\ Append(q, f)[i] = q[i]
         /\ Append(q, f)[Len(q) + 1] = f
OBVIOUS

----------------------------------------------------------------------------
(* What the steps have in common.                                          *)

ClientTyped(c) ==
  /\ rx[c] \in Seq(Frame) /\ outq[c] \in Seq(Frame) /\ held[c] \in Frame
  /\ Len(rx[c]) \in Nat /\ Len(outq[c]) \in Nat
  /\ DOMAIN rx[c] = 1..Len(rx[c]) /\ DOMAIN outq[c] = 1..Len(outq[c])
  /\ \A i \in DOMAIN rx[c] : i \in Nat /\ rx[c][i] \in Frame /\ rx[c][i].rev \in Nat
  /\ \A i \in DOMAIN outq[c] : i \in Nat /\ outq[c][i] \in Frame /\ outq[c][i].rev \in Nat
  /\ store[c] \in [rev : Nat, values : View] /\ store[c].rev \in Nat
  /\ sub[c] \in SUBSET Topics /\ held[c].rev \in Nat /\ revision \in Nat
  /\ connected[c] \in BOOLEAN /\ lagged[c] \in BOOLEAN
  /\ DOMAIN hist = 0..revision /\ revision \in DOMAIN hist
  /\ \A b \in DOMAIN hist : b \in Nat /\ b <= revision

LEMMA ClientFacts == TypeInv => \A c \in Clients : ClientTyped(c)
<1> SUFFICES ASSUME TypeInv, NEW c \in Clients PROVE ClientTyped(c)
  OBVIOUS
<1>1. /\ rx[c] \in Seq(Frame) /\ outq[c] \in Seq(Frame) /\ held[c] \in Frame
      /\ store[c] \in [rev : Nat, values : View] /\ sub[c] \in SUBSET Topics /\ revision \in Nat
      /\ connected[c] \in BOOLEAN /\ lagged[c] \in BOOLEAN /\ hist \in [0..revision -> View]
  BY DEF TypeInv, TypeOK
<1>2. held[c].rev \in Nat /\ store[c].rev \in Nat
  BY <1>1 DEF Frame
<1>3. /\ \A i \in DOMAIN rx[c] : rx[c][i] \in Frame
      /\ \A i \in DOMAIN outq[c] : outq[c][i] \in Frame
  BY <1>1, ElementOfSeq
<1>4. /\ \A i \in DOMAIN rx[c] : rx[c][i].rev \in Nat
      /\ \A i \in DOMAIN outq[c] : outq[c][i].rev \in Nat
  BY <1>3 DEF Frame
<1>5. DOMAIN hist = 0..revision /\ revision \in DOMAIN hist
      /\ \A b \in DOMAIN hist : b \in Nat /\ b <= revision
  BY <1>1
<1> QED BY <1>1, <1>2, <1>3, <1>4, <1>5 DEF ClientTyped

HistGrows == Extends(hist, hist') /\ DOMAIN hist' = 0..revision' /\ revision' \in Nat
SameBus == UNCHANGED <<records, revision, hist>>
SameClient(c) ==
  /\ conn'[c] = conn[c] /\ sub'[c] = sub[c] /\ rx'[c] = rx[c] /\ lagged'[c] = lagged[c]
  /\ relay'[c] = relay[c] /\ held'[c] = held[c] /\ outq'[c] = outq[c]
  /\ store'[c] = store[c] /\ connected'[c] = connected[c]
SameBroadcasts ==
  \A p \in Producers : /\ pc'[p] = "broadcast" <=> pc[p] = "broadcast"
                       /\ pc[p] = "broadcast" => pending'[p] = pending[p]

LEMMA SameBusGrows == TypeInv /\ SameBus => HistGrows
BY DEF TypeInv, TypeOK, SameBus, HistGrows, Extends

\* A commit or a plugin data revision adds one record set to the log.
LEMMA CommitGrows ==
  ASSUME TypeInv, NEW after, revision' = revision + 1,
         hist' = [r \in 0..(revision + 1) |-> IF r = revision + 1 THEN after ELSE hist[r]]
  PROVE  HistGrows /\ hist'[revision'] = after
<1>1. revision \in Nat /\ DOMAIN hist = 0..revision
  BY DEF TypeInv, TypeOK
<1>2. \A r \in DOMAIN hist : r \in 0..(revision + 1) /\ r # revision + 1
  BY <1>1
<1>3. Extends(hist, hist')
  BY <1>2 DEF Extends
<1> QED BY <1>1, <1>3 DEF HistGrows

LEMMA GapStays ==
  ASSUME TypeInv, HistGrows, NEW f, f.rev \in DOMAIN hist, NEW b \in DOMAIN hist', NEW t,
         Gap(f, b, t, hist')
  PROVE  b \in DOMAIN hist /\ Gap(f, b, t, hist)
<1>1. revision \in Nat /\ DOMAIN hist = 0..revision
  BY DEF TypeInv, TypeOK
<1>2. b \in Nat /\ Extends(hist, hist')
  BY DEF HistGrows
<1> QED BY <1>1, <1>2, GapWasThere

\* What a client has of frames stays true while the log grows.
LEMMA QuietFrames ==
  ASSUME HistGrows, NEW c \in Clients, SameClient(c), ClientFrames(c)
  PROVE  ClientFrames(c)'
<1>1. \A f, topics : TrueOf(f, topics, hist) => TrueOf(f, topics, hist')
  BY TrueStays DEF HistGrows
<1> QED BY <1>1 DEF ClientFrames, SameClient

LEMMA SameAhead ==
  ASSUME NEW c \in Clients, SameClient(c), NEW b
  PROVE  (Shown(c, b)' <=> Shown(c, b)) /\ (Ahead(c, b)' <=> Ahead(c, b))
BY DEF SameClient, Shown, Ahead

\* The queue of a client that takes no step is as complete as it was.
LEMMA QuietQueue ==
  ASSUME TypeInv, HistGrows, NEW c \in Clients, SameClient(c), ClientFrames(c), QueueChain(c)
  PROVE  QueueChain(c)'
<1>f. ClientTyped(c) /\ \A i \in DOMAIN outq[c] : outq[c][i].rev \in DOMAIN hist
  BY ClientFacts DEF ClientFrames, TrueOf
<1>s. sub'[c] = sub[c] /\ outq'[c] = outq[c]
  BY DEF SameClient
<1>1. QueueComplete(c)'
  <2> SUFFICES ASSUME NEW i \in DOMAIN outq[c], NEW b \in DOMAIN hist', NEW t \in sub[c],
                      outq[c][i].type = "transaction", Gap(outq[c][i], b, t, hist')
               PROVE  Shown(c, b) \/ NewerIn(outq[c], i - 1, b)
    BY <1>s, SameAhead DEF QueueComplete
  <2>1. b \in DOMAIN hist /\ Gap(outq[c][i], b, t, hist)
    BY <1>f, GapStays
  <2> QED BY <2>1 DEF QueueChain, QueueComplete
<1>2. SnapshotsInOrder(c)' /\ SnapshotFirst(c)'
  BY DEF QueueChain, SnapshotsInOrder, SnapshotFirst, SameClient
<1>3. Consistent(c)'
  BY DEF QueueChain, Consistent, SameClient, HistGrows, Extends
<1> QED BY <1>1, <1>2, <1>3 DEF QueueChain

----------------------------------------------------------------------------
(* Frames and what is asked of a client, whichever step it takes.          *)

LEMMA OtherTrue ==
  ASSUME TypeInv, NEW topics
  PROVE  TrueOf(OtherFrame, topics, hist)
BY DEF TypeInv, TypeOK, TrueOf, OtherFrame

LEMMA SnapshotTrue ==
  ASSUME TypeInv, hist[revision] = records, NEW topics
  PROVE  TrueOf(Snapshot(topics), topics, hist)
BY DEF TypeInv, TypeOK, TrueOf, Snapshot

LEMMA FilteredTrue ==
  ASSUME NEW f \in Frame, NEW topics \in SUBSET Topics, f.type = "transaction",
         TrueOf(f, Topics, hist)
  PROVE  /\ Filtered(f, topics) \in Frame /\ TrueOf(Filtered(f, topics), topics, hist)
         /\ Filtered(f, topics).rev = f.rev /\ Filtered(f, topics).type = "transaction"
         /\ Filtered(f, topics).topics = f.topics \cap topics
<1>1. f.rev \in Nat /\ f.values \in View /\ f.topics \in SUBSET Topics
  BY DEF Frame
<1>2. Filtered(f, topics) \in Frame
  BY <1>1, TransactionType DEF Filtered
<1>3. Filtered(f, topics).rev = f.rev /\ Filtered(f, topics).type = "transaction"
      /\ Filtered(f, topics).topics = f.topics \cap topics
      /\ Filtered(f, topics).values = Only(f.values, f.topics \cap topics)
  BY DEF Filtered, Transaction
<1>4. \A t \in f.topics \cap topics : Only(f.values, f.topics \cap topics)[t] = f.values[t]
  BY <1>1 DEF Only
<1> QED BY <1>2, <1>3, <1>4 DEF TrueOf

\* What is still to be broadcast stays true.
LEMMA PendingStays ==
  ASSUME HistGrows, SameBroadcasts, PendingFrames
  PROVE  PendingFrames'
BY TrueStays DEF HistGrows, SameBroadcasts, PendingFrames

\* A client ahead of everything but the latest revision has nothing to miss.
Fresh(c) == \A b \in DOMAIN hist : b < revision => Ahead(c, b)

LEMMA FreshIsComplete ==
  \A c \in Clients :
    /\ ClientTyped(c) /\ ClientFrames(c) /\ BusFrames /\ Fresh(c)
    => BusChain(c)
<1> SUFFICES ASSUME NEW c \in Clients, ClientTyped(c), ClientFrames(c), BusFrames, Fresh(c)
             PROVE  BusChain(c)
  OBVIOUS
<1>0. /\ revision \in Nat /\ DOMAIN hist = 0..revision
      /\ hist[revision] = records /\ PendingFrames
  BY DEF ClientTyped, BusFrames
<1>1. ASSUME NEW f, f.rev \in DOMAIN hist, NEW b \in DOMAIN hist, NEW t, Gap(f, b, t, hist)
      PROVE  Ahead(c, b)
  <2>1. b < revision
    BY <1>0, <1>1 DEF Gap
  <2> QED BY <2>1 DEF Fresh
<1>2. RxComplete(c)
  BY <1>1 DEF RxComplete, ClientFrames, TrueOf
<1>3. PendingComplete(c)
  BY <1>0, <1>1 DEF PendingComplete, PendingFrames, TrueOf
<1>4. BusComplete(c)
  <2> SUFFICES ASSUME NEW b \in DOMAIN hist, NEW t \in sub[c], hist[b][t] # records[t]
               PROVE  Ahead(c, b)
    BY DEF BusComplete
  <2>1. b < revision
    BY <1>0
  <2> QED BY <2>1 DEF Fresh
<1> QED BY <1>2, <1>3, <1>4 DEF BusChain

LEMMA FreshIsCompleteNext ==
  (\A c \in Clients :
    /\ ClientTyped(c) /\ ClientFrames(c) /\ BusFrames /\ Fresh(c)
    => BusChain(c))'
BY FreshIsComplete, PTL

LEMMA ClientFactsNext == TypeInv' => \A c \in Clients : ClientTyped(c)'
<1>1. (TypeInv => \A c \in Clients : ClientTyped(c))'
  BY ClientFacts, PTL
<1> QED BY <1>1

\* A client that stays as far ahead as it was, with the bus and its receiver as
\* they were, misses nothing either.
LEMMA AheadIsComplete ==
  ASSUME NEW c \in Clients, SameBus, SameBroadcasts, sub'[c] = sub[c], rx'[c] = rx[c],
         Listening(c)' => Listening(c), \A b \in DOMAIN hist : Ahead(c, b) => Ahead(c, b)',
         BusChain(c)
  PROVE  BusChain(c)'
<1>0. UNCHANGED <<records, revision, hist>>
  BY DEF SameBus
<1>1. RxComplete(c)'
  BY <1>0 DEF BusChain, RxComplete
<1>2. PendingComplete(c)'
  <2> SUFFICES ASSUME Listening(c)', NEW p \in Producers, NEW b \in DOMAIN hist, NEW t \in sub[c],
                      pc'[p] = "broadcast", Gap(pending'[p], b, t, hist)
               PROVE  Ahead(c, b)' \/ CarriedIn(rx[c], Len(rx[c]), b, t)
    BY <1>0 DEF PendingComplete
  <2>1. pc[p] = "broadcast" /\ pending'[p] = pending[p]
    BY DEF SameBroadcasts
  <2> QED BY <2>1 DEF BusChain, PendingComplete
<1>3. BusComplete(c)'
  <2> SUFFICES ASSUME Listening(c)', NEW b \in DOMAIN hist, NEW t \in sub[c],
                      hist[b][t] # records[t]
               PROVE  \/ Ahead(c, b)' \/ CarriedIn(rx[c], Len(rx[c]), b, t)
                      \/ \E p \in Producers :
                           pc'[p] = "broadcast" /\ t \in pending'[p].topics /\ pending'[p].rev > b
    BY <1>0 DEF BusComplete
  <2>1. \/ Ahead(c, b) \/ CarriedIn(rx[c], Len(rx[c]), b, t)
        \/ \E p \in Producers :
             pc[p] = "broadcast" /\ t \in pending[p].topics /\ pending[p].rev > b
    BY DEF BusChain, BusComplete
  <2> QED BY <2>1 DEF SameBroadcasts
<1> QED BY <1>1, <1>2, <1>3 DEF BusChain

\* Nor does one whose relay has stopped and whose receiver is gone.
LEMMA DeafIsComplete ==
  ASSUME NEW c \in Clients, rx'[c] = <<>>, ~Listening(c)'
  PROVE  BusChain(c)'
BY DEF BusChain, RxComplete, PendingComplete, BusComplete

LEMMA FreshStep ==
  ASSUME TypeInv', BusFrames, SameBus, SameBroadcasts, HistGrows, NEW c \in Clients,
         ClientFrames(c)', \A b \in DOMAIN hist : b < revision => Ahead(c, b)'
  PROVE  BusChain(c)'
<1>1. BusFrames'
  BY PendingStays DEF BusFrames, SameBus
<1>2. Fresh(c)'
  BY DEF Fresh, SameBus
<1> QED BY <1>1, <1>2, ClientFactsNext, FreshIsCompleteNext

----------------------------------------------------------------------------
(* The steps of one client.                                                *)

\* They leave the bus and the other clients alone.
LEMMA ClientSteps ==
  ASSUME TypeInv, NEW d \in Clients, Relay(d) \/ GuiReceive(d) \/ Environment(d)
  PROVE  /\ SameBus /\ UNCHANGED producerVars
         /\ \A c \in Clients \ {d} : SameClient(c)
<1> USE DEF SameBus, SameClient
<1>0. /\ conn \in [Clients -> {"off", "subscribed", "on"}] /\ sub \in [Clients -> SUBSET Topics]
      /\ rx \in [Clients -> Seq(Frame)] /\ lagged \in [Clients -> BOOLEAN]
      /\ relay \in [Clients -> {"off", "run", "wait", "dead"}] /\ held \in [Clients -> Frame]
      /\ outq \in [Clients -> Seq(Frame)] /\ store \in [Clients -> [rev : Nat, values : View]]
      /\ connected \in [Clients -> BOOLEAN]
  BY DEF TypeInv, TypeOK
<1>1. CASE InitialSnapshot(d)
  BY <1>0, <1>1 DEF InitialSnapshot
<1>2. CASE ForwardTransaction(d)
  BY <1>0, <1>2 DEF ForwardTransaction
<1>3. CASE ForwardLagged(d)
  BY <1>0, <1>3 DEF ForwardLagged
<1>4. CASE CapacityReady(d)
  BY <1>0, <1>4 DEF CapacityReady
<1>5. CASE GuiReceive(d)
  BY <1>0, <1>5 DEF GuiReceive
<1>6. ASSUME NEW topics \in Subscriptions, Connect(d, topics)
      PROVE  SameBus /\ UNCHANGED producerVars /\ \A c \in Clients \ {d} : SameClient(c)
  BY <1>0, <1>6 DEF Connect
<1>7. CASE ForwardEventBlocked(d)
  BY <1>0, <1>7 DEF ForwardEventBlocked
<1>8. CASE CapacityTimeout(d)
  BY <1>0, <1>8 DEF CapacityTimeout
<1>9. CASE QueueOther(d)
  BY <1>0, <1>9 DEF QueueOther
<1>10. CASE Disconnect(d)
  BY <1>0, <1>10 DEF Disconnect
<1> QED BY <1>1, <1>2, <1>3, <1>4, <1>5, <1>6, <1>7, <1>8, <1>9, <1>10
        DEF Relay, Forward, Environment

LEMMA SameProducers == UNCHANGED producerVars => SameBroadcasts
BY DEF SameBroadcasts

\* A new connection has not been sent anything, and is due a snapshot.
LEMMA ConnectStep ==
  ASSUME ReplicaInv, TypeInv', SameBus, HistGrows, SameBroadcasts,
         NEW c \in Clients, NEW topics, Connect(c, topics)
  PROVE  ClientInv(c)'
<1>0. TypeInv /\ BusFrames /\ ClientInv(c)
  BY DEF ReplicaInv
<1>1. /\ conn[c] = "off" /\ conn'[c] = "subscribed" /\ rx'[c] = rx[c] /\ held'[c] = held[c]
      /\ outq'[c] = outq[c] /\ relay'[c] = relay[c] /\ connected'[c] = connected[c]
      /\ hist' = hist
  BY <1>0 DEF Connect, TypeInv, TypeOK, SameBus
<1>2. outq[c] = <<>> /\ relay[c] = "off" /\ held[c] = OtherFrame /\ ~connected[c]
  BY <1>0, <1>1 DEF TypeInv, QueueStartsEmpty, ClientInv, ClientFrames, QueueChain, SnapshotFirst
<1>3. OtherFrame.type = "other"
  BY DEF OtherFrame
<1>4. ClientFrames(c)'
  BY <1>0, <1>1, <1>2, <1>3, OtherTrue DEF ClientInv, ClientFrames
<1>5. QueueChain(c)'
  BY <1>1, <1>2, <1>3
     DEF QueueChain, QueueComplete, SnapshotsInOrder, SnapshotFirst, Consistent
<1>6. BusChain(c)'
  BY <1>0, <1>1, <1>4, FreshStep DEF Ahead
<1> QED BY <1>4, <1>5, <1>6 DEF ClientInv

\* An end of a connection, or of the relay, leaves nothing to be missed.
LEMMA DisconnectStep ==
  ASSUME ReplicaInv, NEW c \in Clients, Disconnect(c), SameBus
  PROVE  ClientInv(c)'
<1>0. TypeInv
  BY DEF ReplicaInv
<1>1. /\ conn'[c] = "off" /\ rx'[c] = <<>> /\ held'[c] = OtherFrame
      /\ outq'[c] = <<>> /\ relay'[c] = "off" /\ connected'[c] = FALSE /\ hist' = hist
  BY <1>0 DEF Disconnect, TypeInv, TypeOK, SameBus
<1>2. OtherFrame.type = "other"
  BY DEF OtherFrame
<1>3. ClientFrames(c)'
  BY <1>0, <1>1, <1>2, OtherTrue DEF ClientFrames
<1>4. QueueChain(c)'
  BY <1>1, <1>2
     DEF QueueChain, QueueComplete, SnapshotsInOrder, SnapshotFirst, Consistent
<1>5. BusChain(c)'
  BY <1>1, DeafIsComplete DEF Listening
<1> QED BY <1>3, <1>4, <1>5 DEF ClientInv

LEMMA CapacityTimeoutStep ==
  ASSUME ReplicaInv, NEW c \in Clients, CapacityTimeout(c), SameBus
  PROVE  ClientInv(c)'
<1>0. TypeInv /\ ClientInv(c)
  BY DEF ReplicaInv
<1>1. /\ conn'[c] = conn[c] /\ rx'[c] = <<>> /\ held'[c] = OtherFrame /\ sub'[c] = sub[c]
      /\ outq'[c] = outq[c] /\ relay'[c] = "dead" /\ connected'[c] = connected[c]
      /\ store'[c] = store[c] /\ hist' = hist
  BY <1>0 DEF CapacityTimeout, TypeInv, TypeOK, SameBus
<1>2. OtherFrame.type = "other"
  BY DEF OtherFrame
<1>3. ClientFrames(c)'
  BY <1>0, <1>1, <1>2, OtherTrue DEF ClientInv, ClientFrames
<1>4. QueueChain(c)'
  BY <1>0, <1>1, <1>2 DEF ClientInv, QueueChain, QueueComplete, Shown, SnapshotsInOrder,
                          SnapshotFirst, Consistent
<1>5. BusChain(c)'
  BY <1>1, DeafIsComplete DEF Listening
<1> QED BY <1>3, <1>4, <1>5 DEF ClientInv

\* The relay was not waiting, so what it holds was no snapshot.
LEMMA ForwardEventBlockedStep ==
  ASSUME ReplicaInv, NEW c \in Clients, ForwardEventBlocked(c), SameBus, SameBroadcasts
  PROVE  ClientInv(c)'
<1>0. TypeInv /\ ClientInv(c)
  BY DEF ReplicaInv
<1>1. /\ conn'[c] = conn[c] /\ rx'[c] = rx[c] /\ held'[c] = OtherFrame /\ sub'[c] = sub[c]
      /\ outq'[c] = outq[c] /\ relay[c] = "run" /\ relay'[c] = "wait"
      /\ connected'[c] = connected[c] /\ store'[c] = store[c] /\ lagged'[c] = lagged[c]
      /\ hist' = hist
  BY <1>0 DEF ForwardEventBlocked, TypeInv, TypeOK, SameBus
<1>2. OtherFrame.type = "other" /\ held[c] = OtherFrame
  BY <1>0, <1>1 DEF OtherFrame, ClientInv, ClientFrames
<1>3. ClientFrames(c)'
  BY <1>0, <1>1, <1>2 DEF ClientInv, ClientFrames
<1>4. QueueChain(c)'
  BY <1>0, <1>1, <1>2 DEF ClientInv, QueueChain, QueueComplete, Shown, SnapshotsInOrder,
                          SnapshotFirst, Consistent
<1>5. BusChain(c)'
  BY <1>0, <1>1, <1>2, AheadIsComplete DEF ClientInv, Listening, Ahead, Shown
<1> QED BY <1>3, <1>4, <1>5 DEF ClientInv

\* A frame joins the queue of a client whose relay is not waiting any more.
EnqueuedFrames(c) ==
  \A i \in DOMAIN outq[c] :
    /\ TrueOf(outq[c][i], sub[c], hist)
    /\ outq[c][i].type = "transaction" => outq[c][i].topics \subseteq sub[c]

LEMMA Enqueue ==
  ASSUME TypeInv, SameBus, NEW c \in Clients, ClientInv(c), NEW f \in Frame,
         outq'[c] = Append(outq[c], f), held'[c] = OtherFrame,
         sub'[c] = sub[c], conn[c] = "on", conn'[c] = "on", store'[c] = store[c],
         connected'[c] = connected[c],
         TrueOf(f, sub[c], hist),
         f.type = "transaction" =>
           /\ f.topics \subseteq sub[c]
           /\ \A b \in DOMAIN hist, t \in sub[c] : Gap(f, b, t, hist) =>
                Shown(c, b) \/ NewerIn(outq[c], Len(outq[c]), b),
         f.type = "snapshot" =>
           /\ connected[c] => store[c].rev <= f.rev
           /\ \A j \in DOMAIN outq[c] : outq[c][j].rev <= f.rev
  PROVE  QueueChain(c)' /\ EnqueuedFrames(c)'
<1> DEFINE q == outq[c]
           n == Len(outq[c])
<1>1. /\ outq[c] \in Seq(Frame) /\ n \in Nat /\ hist' = hist
      /\ DOMAIN q = 1..n /\ DOMAIN outq'[c] = 1..(n + 1)
      /\ \A i \in 1..n : outq'[c][i] = q[i]
      /\ outq'[c][n + 1] = f /\ OtherFrame.type = "other"
  BY ClientFacts, AppendFacts DEF ClientTyped, SameBus, OtherFrame
<1> HIDE DEF q, n
<1>2. ASSUME NEW i \in DOMAIN outq'[c], i # n + 1
      PROVE  i \in 1..n /\ i \in Nat /\ i - 1 \in 0..n /\ outq'[c][i] = q[i]
             /\ \A j \in 1..(i - 1) : j \in 1..n /\ outq'[c][j] = q[j]
  BY <1>1, <1>2
<1>3. EnqueuedFrames(c)'
  <2> SUFFICES ASSUME NEW i \in DOMAIN outq'[c]
               PROVE  /\ TrueOf(outq'[c][i], sub[c], hist)
                      /\ outq'[c][i].type = "transaction" => outq'[c][i].topics \subseteq sub[c]
    BY <1>1 DEF EnqueuedFrames
  <2>1. CASE i = n + 1
    BY <1>1, <2>1
  <2>2. CASE i # n + 1
    BY <1>1, <1>2, <2>2 DEF ClientInv, ClientFrames, q
  <2> QED BY <2>1, <2>2
<1>4. QueueComplete(c)'
  <2> SUFFICES ASSUME NEW i \in DOMAIN outq'[c], NEW b \in DOMAIN hist, NEW t \in sub[c],
                      outq'[c][i].type = "transaction", Gap(outq'[c][i], b, t, hist)
               PROVE  Shown(c, b) \/ NewerIn(outq'[c], i - 1, b)
    BY <1>1 DEF QueueComplete, Shown
  <2>1. \A m \in 0..n : NewerIn(outq'[c], m, b) <=> NewerIn(q, m, b)
    <3>1. \A m \in 0..Len(outq[c]) :
            NewerIn(Append(outq[c], f), m, b) <=> NewerIn(outq[c], m, b)
      BY <1>1, AppendNewer
    <3> QED BY <3>1 DEF q, n
  <2>2. CASE i = n + 1
    <3>1. Shown(c, b) \/ NewerIn(q, n, b)
      BY <1>1, <2>2 DEF q, n
    <3>2. i - 1 = n /\ n \in 0..n
      BY <1>1, <2>2
    <3> QED BY <2>1, <3>1, <3>2
  <2>3. CASE i # n + 1
    <3>1. Shown(c, b) \/ NewerIn(q, i - 1, b)
      BY <1>1, <1>2, <2>3 DEF ClientInv, QueueChain, QueueComplete, q
    <3> QED BY <1>2, <2>1, <2>3, <3>1
  <2> QED BY <2>2, <2>3
<1>5. SnapshotsInOrder(c)'
  <2> SUFFICES ASSUME NEW i \in DOMAIN outq'[c], outq'[c][i].type = "snapshot"
               PROVE  /\ connected[c] => store[c].rev <= outq'[c][i].rev
                      /\ \A j \in 1..(i - 1) : outq'[c][j].rev <= outq'[c][i].rev
    BY <1>1 DEF SnapshotsInOrder
  <2>1. CASE i = n + 1
    <3>1. \A j \in 1..(i - 1) : j \in DOMAIN q /\ outq'[c][j] = q[j]
      BY <1>1, <2>1
    <3> QED BY <1>1, <2>1, <3>1 DEF q
  <2>2. CASE i # n + 1
    BY <1>1, <1>2, <2>2 DEF ClientInv, QueueChain, SnapshotsInOrder, q
  <2> QED BY <2>1, <2>2
<1>6. SnapshotFirst(c)'
  <2>1. connected[c] \/ \E j \in 1..n : q[j].type = "snapshot"
    BY <1>1 DEF ClientInv, QueueChain, SnapshotFirst, q
  <2>2. connected[c] \/ \E j \in 1..n : j \in DOMAIN outq'[c] /\ outq'[c][j].type = "snapshot"
    BY <1>1, <2>1
  <2>3. ASSUME NEW i \in DOMAIN outq'[c], outq'[c][i].type = "transaction"
        PROVE  connected[c] \/ \E j \in 1..(i - 1) : outq'[c][j].type = "snapshot"
    <3>1. CASE i = n + 1
      <4>1. i - 1 = n
        BY <1>1, <3>1
      <4> QED BY <2>2, <4>1
    <3>2. CASE i # n + 1
      <4>1. connected[c] \/ \E j \in 1..(i - 1) : q[j].type = "snapshot"
        BY <1>1, <1>2, <2>3, <3>2 DEF ClientInv, QueueChain, SnapshotFirst, q
      <4> QED BY <1>2, <3>2, <4>1
    <3> QED BY <3>1, <3>2
  <2> QED BY <2>2, <2>3 DEF SnapshotFirst
<1>7. Consistent(c)'
  BY <1>1 DEF ClientInv, QueueChain, Consistent
<1> QED BY <1>3, <1>4, <1>5, <1>6, <1>7 DEF QueueChain

LEMMA QueueOtherStep ==
  ASSUME ReplicaInv, NEW c \in Clients, QueueOther(c), SameBus, SameBroadcasts
  PROVE  ClientInv(c)'
<1>0. TypeInv /\ ClientInv(c)
  BY DEF ReplicaInv
<1>1. /\ conn[c] = "on" /\ conn'[c] = "on" /\ rx'[c] = rx[c] /\ sub'[c] = sub[c]
      /\ outq'[c] = Append(outq[c], OtherFrame) /\ relay[c] # "wait" /\ relay'[c] = relay[c]
      /\ connected'[c] = connected[c] /\ store'[c] = store[c] /\ lagged'[c] = lagged[c]
      /\ held'[c] = held[c] /\ hist' = hist
  BY <1>0 DEF QueueOther, TypeInv, TypeOK, SameBus
<1>2. /\ OtherFrame \in Frame /\ OtherFrame.type = "other" /\ TrueOf(OtherFrame, sub[c], hist)
      /\ held[c] = OtherFrame
  BY <1>0, <1>1, FrameFacts, OtherTrue DEF OtherFrame, ClientInv, ClientFrames
<1>3. QueueChain(c)' /\ EnqueuedFrames(c)'
  BY <1>0, <1>1, <1>2, Enqueue
<1>4. ClientFrames(c)'
  BY <1>0, <1>1, <1>2, <1>3 DEF ClientInv, ClientFrames, EnqueuedFrames
<1>5. ASSUME NEW b \in DOMAIN hist, Ahead(c, b) PROVE Ahead(c, b)'
  <2>1. outq[c] \in Seq(Frame) /\ Len(outq'[c]) = Len(outq[c]) + 1
    BY <1>0, <1>1, <1>2, ClientFacts, AppendFacts DEF ClientTyped
  <2>2. NewerIn(outq[c], Len(outq[c]), b) => NewerIn(outq'[c], Len(outq'[c]), b)
    BY <1>1, <1>2, <2>1, AppendNewer
  <2> QED BY <1>1, <1>5, <2>2 DEF Ahead, Shown
<1>6. BusChain(c)'
  BY <1>0, <1>1, <1>5, AheadIsComplete DEF ClientInv, Listening
<1> QED BY <1>3, <1>4, <1>6 DEF ClientInv

\* The frame the relay held joins the queue, and c is as far ahead as before.
LEMMA CapacityReadyStep ==
  ASSUME ReplicaInv, NEW c \in Clients, CapacityReady(c), SameBus, SameBroadcasts
  PROVE  ClientInv(c)'
<1>0. TypeInv /\ ClientInv(c)
  BY DEF ReplicaInv
<1>1. /\ relay[c] = "wait" /\ relay'[c] = "run" /\ conn'[c] = conn[c] /\ rx'[c] = rx[c]
      /\ sub'[c] = sub[c] /\ outq'[c] = Append(outq[c], held[c]) /\ held'[c] = OtherFrame
      /\ connected'[c] = connected[c] /\ store'[c] = store[c] /\ lagged'[c] = lagged[c]
      /\ hist' = hist
  BY <1>0 DEF CapacityReady, TypeInv, TypeOK, SameBus
<1>2. conn[c] = "on"
  BY <1>0, <1>1 DEF TypeInv, QueueStartsEmpty
<1>3. /\ held[c] \in Frame /\ TrueOf(held[c], sub[c], hist) /\ held[c].type # "transaction"
      /\ OtherFrame.type = "other" /\ TrueOf(OtherFrame, sub[c], hist)
      /\ held[c].type = "snapshot" =>
           /\ connected[c] => store[c].rev <= held[c].rev
           /\ \A j \in DOMAIN outq[c] : outq[c][j].rev <= held[c].rev
  BY <1>0, ClientFacts, OtherTrue
     DEF ClientTyped, OtherFrame, ClientInv, ClientFrames, QueueChain, SnapshotsInOrder
<1>4. QueueChain(c)' /\ EnqueuedFrames(c)'
  BY <1>0, <1>1, <1>2, <1>3, Enqueue
<1>5. ClientFrames(c)'
  BY <1>0, <1>1, <1>3, <1>4 DEF ClientInv, ClientFrames, EnqueuedFrames
<1>6. ASSUME NEW b \in DOMAIN hist, Ahead(c, b) PROVE Ahead(c, b)'
  <2>1. outq[c] \in Seq(Frame) /\ Len(outq'[c]) = Len(outq[c]) + 1
    BY <1>0, <1>1, <1>3, ClientFacts, AppendFacts DEF ClientTyped
  <2>2. NewerIn(outq[c], Len(outq[c]), b) \/ Newer(held[c], b)
          => NewerIn(outq'[c], Len(outq'[c]), b)
    BY <1>1, <1>3, <2>1, AppendNewer
  <2> QED BY <1>1, <1>6, <2>2 DEF Ahead, Shown
<1>7. BusChain(c)'
  BY <1>0, <1>1, <1>6, AheadIsComplete DEF ClientInv, Listening
<1> QED BY <1>4, <1>5, <1>7 DEF ClientInv

\* The initial snapshot is the first frame of the connection, and puts the client
\* past every earlier revision.
LEMMA InitialSnapshotStep ==
  ASSUME ReplicaInv, TypeInv', NEW c \in Clients, InitialSnapshot(c), SameBus, HistGrows,
         SameBroadcasts
  PROVE  ClientInv(c)'
<1> DEFINE f == Snapshot(sub[c])
<1>0. TypeInv /\ BusFrames /\ ClientInv(c) /\ ClientTyped(c)
  BY ClientFacts DEF ReplicaInv
<1>1. /\ conn[c] = "subscribed" /\ conn'[c] = "on" /\ rx'[c] = rx[c] /\ sub'[c] = sub[c]
      /\ outq'[c] = outq[c] \o <<f, OtherFrame>>
      /\ relay'[c] = "run" /\ held'[c] = held[c]
      /\ connected'[c] = connected[c] /\ store'[c] = store[c] /\ hist' = hist
  BY <1>0 DEF InitialSnapshot, TypeInv, TypeOK, SameBus
<1>2. outq[c] = <<>> /\ relay[c] = "off" /\ ~connected[c]
  BY <1>0, <1>1 DEF TypeInv, QueueStartsEmpty, ClientInv, QueueChain, SnapshotFirst
<1>3. /\ held[c] = OtherFrame /\ OtherFrame.type = "other" /\ TrueOf(OtherFrame, sub[c], hist)
      /\ TrueOf(f, sub[c], hist) /\ f.type = "snapshot" /\ f.rev = revision
  BY <1>0, <1>2, OtherTrue, SnapshotTrue
     DEF OtherFrame, Snapshot, ClientInv, ClientFrames, BusFrames
<1> HIDE DEF f
<1>4. outq'[c] = <<f, OtherFrame>>
  BY <1>1, <1>2
<1>5. DOMAIN outq'[c] = {1, 2} /\ Len(outq'[c]) = 2
      /\ outq'[c][1] = f /\ outq'[c][2] = OtherFrame
  BY <1>4
<1>6. ClientFrames(c)'
  BY <1>0, <1>1, <1>3, <1>5 DEF ClientInv, ClientFrames
<1>7. QueueChain(c)'
  <2>1. QueueComplete(c)' /\ Consistent(c)'
    BY <1>1, <1>2, <1>3, <1>5 DEF QueueComplete, Consistent
  <2>2. SnapshotsInOrder(c)' /\ SnapshotFirst(c)'
    BY <1>1, <1>2, <1>3, <1>5 DEF SnapshotsInOrder, SnapshotFirst
  <2> QED BY <2>1, <2>2 DEF QueueChain
<1>8. ASSUME NEW b \in DOMAIN hist, b < revision PROVE Ahead(c, b)'
  <2>1. Newer(outq'[c][1], b) /\ 1 \in 1..2
    BY <1>0, <1>3, <1>5, <1>8 DEF Newer
  <2>2. NewerIn(outq'[c], Len(outq'[c]), b)
    BY <1>5, <2>1 DEF NewerIn
  <2> QED BY <2>2 DEF Ahead
<1>9. BusChain(c)'
  BY <1>0, <1>6, <1>8, FreshStep
<1> QED BY <1>6, <1>7, <1>9 DEF ClientInv

\* A relay that turns to a snapshot is past every earlier revision, whatever it
\* skips.
LEMMA HoldSnapshot ==
  ASSUME TypeInv, TypeInv', BusFrames, NEW c \in Clients, ClientInv(c), SameBus, HistGrows,
         SameBroadcasts,
         relay'[c] = "wait", held'[c] = Snapshot(sub[c]),
         conn'[c] = conn[c], sub'[c] = sub[c], outq'[c] = outq[c],
         store'[c] = store[c], connected'[c] = connected[c],
         \A i \in DOMAIN rx'[c] : \E j \in DOMAIN rx[c] : rx'[c][i] = rx[c][j]
  PROVE  ClientInv(c)'
<1>0. ClientTyped(c) /\ hist' = hist
  BY ClientFacts DEF SameBus
<1>1. /\ TrueOf(held'[c], sub[c], hist) /\ held'[c].type = "snapshot" /\ held'[c].rev = revision
  BY SnapshotTrue DEF Snapshot, BusFrames
<1>2. ClientFrames(c)'
  BY <1>0, <1>1 DEF ClientInv, ClientFrames
<1>3. /\ connected[c] => store[c].rev <= revision
      /\ \A j \in DOMAIN outq[c] : outq[c][j].rev <= revision
  BY <1>0 DEF ClientTyped, ClientInv, ClientFrames, TrueOf, QueueChain, Consistent
<1>4. QueueChain(c)'
  BY <1>0, <1>1, <1>3 DEF ClientInv, QueueChain, QueueComplete, Shown, SnapshotsInOrder,
                          SnapshotFirst, Consistent
<1>5. \A b \in DOMAIN hist : b < revision => Ahead(c, b)'
  BY <1>0, <1>1 DEF ClientTyped, Ahead, Newer
<1>6. BusChain(c)'
  BY <1>2, <1>5, FreshStep
<1> QED BY <1>2, <1>4, <1>6 DEF ClientInv

LEMMA ForwardLaggedStep ==
  ASSUME ReplicaInv, TypeInv', NEW c \in Clients, ForwardLagged(c), SameBus, HistGrows,
         SameBroadcasts
  PROVE  ClientInv(c)'
<1>0. TypeInv /\ BusFrames /\ ClientInv(c)
  BY DEF ReplicaInv
<1>1. /\ conn'[c] = conn[c] /\ rx'[c] = rx[c] /\ sub'[c] = sub[c] /\ outq'[c] = outq[c]
      /\ relay'[c] = "wait" /\ held'[c] = Snapshot(sub[c])
      /\ connected'[c] = connected[c] /\ store'[c] = store[c]
  BY <1>0 DEF ForwardLagged, TypeInv, TypeOK
<1> QED BY <1>0, <1>1, HoldSnapshot

\* What the oldest transaction of the receiver carries is carried by its frame.
LEMMA ForwardTransactionStep ==
  ASSUME ReplicaInv, TypeInv', NEW c \in Clients, ForwardTransaction(c), SameBus, HistGrows,
         SameBroadcasts
  PROVE  ClientInv(c)'
<1> DEFINE head == Head(rx[c])
           frame == Filtered(head, sub[c])
<1>0. TypeInv /\ BusFrames /\ ClientInv(c) /\ ClientTyped(c)
  BY ClientFacts DEF ReplicaInv
<1>1. /\ relay[c] = "run" /\ ~lagged[c] /\ rx[c] # <<>>
      /\ rx'[c] = Tail(rx[c]) /\ conn'[c] = conn[c] /\ sub'[c] = sub[c] /\ lagged'[c] = lagged[c]
      /\ connected'[c] = connected[c] /\ store'[c] = store[c]
      /\ hist' = hist /\ records' = records
  BY <1>0 DEF ForwardTransaction, TypeInv, TypeOK, SameBus
<1>2. \/ frame.topics = {} /\ outq'[c] = outq[c] /\ relay'[c] = relay[c] /\ held'[c] = held[c]
      \/ /\ outq'[c] = Append(outq[c], frame) /\ relay'[c] = relay[c] /\ held'[c] = held[c]
      \/ relay'[c] = "wait" /\ held'[c] = Snapshot(sub[c]) /\ outq'[c] = outq[c]
  BY <1>0 DEF ForwardTransaction, TypeInv, TypeOK
<1>3. conn[c] = "on" /\ held[c] = OtherFrame /\ OtherFrame.type = "other"
  BY <1>0, <1>1 DEF TypeInv, TypeOK, QueueStartsEmpty, ClientInv, ClientFrames, OtherFrame
<1>4. /\ rx[c] \in Seq(Frame) /\ Len(rx[c]) \in Nat /\ 1 \in DOMAIN rx[c] /\ head = rx[c][1]
      /\ head \in Frame /\ head.type = "transaction" /\ TrueOf(head, Topics, hist)
      /\ sub[c] \in SUBSET Topics /\ outq[c] \in Seq(Frame) /\ Len(outq[c]) \in Nat
  BY <1>0, <1>1, TailFacts DEF ClientTyped, ClientInv, ClientFrames
<1>5. /\ frame \in Frame /\ TrueOf(frame, sub[c], hist) /\ frame.rev = head.rev
      /\ frame.type = "transaction" /\ frame.topics = head.topics \cap sub[c]
  BY <1>4, FilteredTrue
<1>6. /\ \A i \in DOMAIN rx'[c] : i \in Nat /\ i + 1 \in DOMAIN rx[c] /\ rx'[c][i] = rx[c][i + 1]
      /\ Len(rx'[c]) = Len(rx[c]) - 1 /\ Len(rx[c]) # 0 /\ DOMAIN rx'[c] = 1..(Len(rx[c]) - 1)
  BY <1>1, <1>4, TailFacts
<1> HIDE DEF head, frame
<1>7. CASE relay'[c] = "wait" /\ held'[c] = Snapshot(sub[c]) /\ outq'[c] = outq[c]
  BY <1>0, <1>1, <1>6, <1>7, HoldSnapshot
<1>8. ASSUME /\ relay'[c] = relay[c] /\ held'[c] = held[c]
             /\ \A b \in DOMAIN hist : Ahead(c, b) => Ahead(c, b)'
             /\ \A b \in DOMAIN hist, t \in sub[c] :
                  t \in head.topics /\ head.rev > b => Ahead(c, b)'
      PROVE  BusChain(c)'
  <2>1. ASSUME NEW b \in DOMAIN hist, NEW t \in sub[c], NEW n \in 0..Len(rx[c]), n # 0,
               Ahead(c, b) \/ CarriedIn(rx[c], n, b, t)
        PROVE  Ahead(c, b)' \/ CarriedIn(rx'[c], n - 1, b, t)
    <3>1. CarriedIn(rx[c], n, b, t) <=>
            (t \in head.topics /\ head.rev > b) \/ CarriedIn(rx'[c], n - 1, b, t)
      <4>1. CarriedIn(rx[c], n, b, t) <=>
              \/ t \in Head(rx[c]).topics /\ Head(rx[c]).rev > b
              \/ CarriedIn(Tail(rx[c]), n - 1, b, t)
        BY <1>1, <1>4, <2>1, TailCarried
      <4> QED BY <1>1, <4>1 DEF head
    <3> QED BY <1>8, <2>1, <3>1
  <2>2. RxComplete(c)'
    <3> SUFFICES ASSUME NEW i \in DOMAIN rx'[c], NEW b \in DOMAIN hist, NEW t \in sub[c],
                        Gap(rx'[c][i], b, t, hist)
                 PROVE  Ahead(c, b)' \/ CarriedIn(rx'[c], i - 1, b, t)
      BY <1>1 DEF RxComplete
    <3>1. i + 1 \in DOMAIN rx[c] /\ Gap(rx[c][i + 1], b, t, hist) /\ (i + 1) - 1 = i
          /\ i \in 0..Len(rx[c]) /\ i # 0
      BY <1>4, <1>6
    <3>2. Ahead(c, b) \/ CarriedIn(rx[c], i, b, t)
      BY <1>0, <3>1 DEF ClientInv, BusChain, RxComplete
    <3> QED BY <2>1, <3>1, <3>2
  <2>3. Len(rx[c]) \in 0..Len(rx[c]) /\ (Listening(c)' => Listening(c))
    BY <1>1, <1>3, <1>4, <1>8 DEF Listening
  <2>4. PendingComplete(c)'
    <3> SUFFICES ASSUME Listening(c)', NEW p \in Producers, NEW b \in DOMAIN hist,
                        NEW t \in sub[c], pc'[p] = "broadcast", Gap(pending'[p], b, t, hist)
                 PROVE  Ahead(c, b)' \/ CarriedIn(rx'[c], Len(rx'[c]), b, t)
      BY <1>1 DEF PendingComplete
    <3>1. pc[p] = "broadcast" /\ pending'[p] = pending[p]
      BY DEF SameBroadcasts
    <3>2. Ahead(c, b) \/ CarriedIn(rx[c], Len(rx[c]), b, t)
      BY <1>0, <2>3, <3>1 DEF ClientInv, BusChain, PendingComplete
    <3> QED BY <1>6, <2>1, <2>3, <3>2
  <2>5. BusComplete(c)'
    <3> SUFFICES ASSUME Listening(c)', NEW b \in DOMAIN hist, NEW t \in sub[c],
                        hist[b][t] # records[t]
                 PROVE  \/ Ahead(c, b)' \/ CarriedIn(rx'[c], Len(rx'[c]), b, t)
                        \/ \E p \in Producers :
                             pc'[p] = "broadcast" /\ t \in pending'[p].topics /\ pending'[p].rev > b
      BY <1>1 DEF BusComplete
    <3>1. \/ Ahead(c, b) \/ CarriedIn(rx[c], Len(rx[c]), b, t)
          \/ \E p \in Producers :
               pc[p] = "broadcast" /\ t \in pending[p].topics /\ pending[p].rev > b
      BY <1>0, <2>3 DEF ClientInv, BusChain, BusComplete
    <3>2. CASE Ahead(c, b) \/ CarriedIn(rx[c], Len(rx[c]), b, t)
      BY <1>6, <2>1, <2>3, <3>2
    <3> QED BY <3>1, <3>2 DEF SameBroadcasts
  <2> QED BY <2>2, <2>4, <2>5 DEF BusChain
<1>9. CASE frame.topics = {} /\ outq'[c] = outq[c] /\ relay'[c] = relay[c] /\ held'[c] = held[c]
  <2>1. ClientFrames(c)'
    BY <1>0, <1>1, <1>6, <1>9 DEF ClientInv, ClientFrames
  <2>2. QueueChain(c)'
    BY <1>0, <1>1, <1>9 DEF ClientInv, QueueChain, QueueComplete, Shown, SnapshotsInOrder,
                            SnapshotFirst, Consistent
  <2>3. \A b \in DOMAIN hist : Ahead(c, b) => Ahead(c, b)'
    BY <1>1, <1>9 DEF Ahead, Shown
  <2>4. \A t \in sub[c] : t \notin head.topics
    BY <1>5, <1>9
  <2> QED BY <1>8, <1>9, <2>1, <2>2, <2>3, <2>4 DEF ClientInv
<1>10. CASE /\ outq'[c] = Append(outq[c], frame) /\ relay'[c] = relay[c] /\ held'[c] = held[c]
  <2>1. ASSUME NEW b \in DOMAIN hist, NEW t \in sub[c], Gap(frame, b, t, hist)
        PROVE  Shown(c, b) \/ NewerIn(outq[c], Len(outq[c]), b)
    <3>1. Gap(rx[c][1], b, t, hist)
      BY <1>4, <1>5, <2>1 DEF Gap
    <3>2. Ahead(c, b) \/ CarriedIn(rx[c], 1 - 1, b, t)
      BY <1>0, <1>4, <3>1 DEF ClientInv, BusChain, RxComplete
    <3>3. ~CarriedIn(rx[c], 1 - 1, b, t)
      BY DEF CarriedIn
    <3> QED BY <1>1, <1>3, <3>2, <3>3 DEF Ahead, Newer
  <2>2. frame.topics \subseteq sub[c]
    BY <1>5
  <2>3. QueueChain(c)' /\ EnqueuedFrames(c)'
    BY <1>0, <1>1, <1>3, <1>5, <1>10, <2>1, <2>2, Enqueue
  <2>4. ClientFrames(c)'
    BY <1>0, <1>1, <1>3, <1>6, <1>10, <2>3 DEF ClientInv, ClientFrames, EnqueuedFrames
  <2>5. ASSUME NEW b \in DOMAIN hist
        PROVE  NewerIn(outq[c], Len(outq[c]), b) \/ Newer(frame, b)
                 => NewerIn(outq'[c], Len(outq'[c]), b)
    <3>1. Len(outq'[c]) = Len(outq[c]) + 1
      BY <1>4, <1>5, <1>10, AppendFacts
    <3> QED BY <1>4, <1>5, <1>10, <3>1, AppendNewer
  <2>6. \A b \in DOMAIN hist : Ahead(c, b) => Ahead(c, b)'
    BY <1>1, <1>10, <2>5 DEF Ahead, Shown
  <2>7. ASSUME NEW b \in DOMAIN hist, head.rev > b PROVE Ahead(c, b)'
    <3>1. Newer(frame, b)
      BY <1>5, <2>7 DEF Newer
    <3> QED BY <2>5, <3>1 DEF Ahead
  <2> QED BY <1>8, <1>10, <2>3, <2>4, <2>6, <2>7 DEF ClientInv
<1> QED BY <1>2, <1>7, <1>9, <1>10

\* The next frame: nothing that a client is shown takes it back, and nothing it
\* is ahead of is taken from it.
LEMMA GuiReceiveStep ==
  ASSUME ReplicaInv, NEW c \in Clients, GuiReceive(c), SameBus, SameBroadcasts
  PROVE  ClientInv(c)'
<1> DEFINE q == outq[c]
           f == Head(q)
<1>0. TypeInv /\ BusFrames /\ ClientInv(c) /\ ClientTyped(c)
  BY ClientFacts DEF ReplicaInv
<1>1. /\ conn[c] = "on" /\ q # <<>> /\ outq'[c] = Tail(q)
      /\ relay'[c] = relay[c] /\ conn'[c] = conn[c] /\ rx'[c] = rx[c] /\ sub'[c] = sub[c]
      /\ held'[c] = held[c] /\ lagged'[c] = lagged[c] /\ hist' = hist
  BY <1>0 DEF GuiReceive, TypeInv, TypeOK, SameBus
<1>2. \/ /\ f.type = "snapshot"
         /\ store'[c] = [rev |-> f.rev, values |-> f.values] /\ connected'[c]
      \/ /\ f.type = "transaction"
         /\ store'[c] = Applied(store[c], f) /\ connected'[c] = connected[c]
      \/ /\ f.type = "other"
         /\ store'[c] = store[c] /\ connected'[c] = connected[c]
  BY <1>0 DEF GuiReceive, TypeInv, TypeOK, Replaced
<1>3. /\ q \in Seq(Frame) /\ Len(q) \in Nat /\ 1 \in DOMAIN q /\ f = q[1]
      /\ Len(Tail(q)) = Len(q) - 1 /\ DOMAIN q = 1..Len(q)
      /\ DOMAIN Tail(q) = 1..(Len(q) - 1)
      /\ \A i \in DOMAIN Tail(q) : i \in Nat /\ i + 1 \in DOMAIN q /\ Tail(q)[i] = q[i + 1]
      /\ \A i \in DOMAIN q : q[i].rev \in Nat
      /\ f \in Frame /\ f.rev \in Nat /\ store[c].rev \in Nat /\ held[c].rev \in Nat
  BY <1>0, <1>1, TailFacts DEF ClientTyped
<1>4. /\ TrueOf(f, sub[c], hist)
      /\ f.type = "transaction" => f.topics \subseteq sub[c] /\ connected[c]
      /\ f.type = "snapshot" => (connected[c] => store[c].rev <= f.rev)
  <2>1. ~ \E j \in 1..(1 - 1) : q[j].type = "snapshot"
    OBVIOUS
  <2> QED BY <1>0, <1>3, <2>1 DEF ClientInv, ClientFrames, QueueChain, SnapshotsInOrder,
                                 SnapshotFirst
\* The client is past what it was past, and past this frame.
<1>5. /\ connected[c] => connected'[c] /\ store[c].rev <= store'[c].rev
      /\ f.type # "other" => connected'[c] /\ store'[c].rev >= f.rev
      /\ connected'[c] => connected[c] \/ f.type = "snapshot"
      /\ connected'[c] => (connected[c] /\ store'[c].rev = store[c].rev) \/ store'[c].rev = f.rev
      /\ store'[c].rev \in Nat
  BY <1>2, <1>3, <1>4 DEF Applied, AppliedUnchecked
<1> HIDE DEF f
<1>6. ASSUME NEW b \in DOMAIN hist
      PROVE  (Shown(c, b) => Shown(c, b)') /\ (Newer(f, b) => Shown(c, b)')
  <2>1. b \in Nat
    BY <1>0 DEF ClientTyped
  <2> QED BY <1>3, <1>5, <2>1 DEF Shown, Newer
<1>7. ASSUME NEW b \in DOMAIN hist, NEW n \in 1..Len(q), NewerIn(q, n, b)
      PROVE  Shown(c, b)' \/ NewerIn(outq'[c], n - 1, b)
  <2>1. Newer(Head(q), b) \/ NewerIn(Tail(q), n - 1, b)
    BY <1>1, <1>3, <1>7, TailNewer
  <2> QED BY <1>1, <1>6, <2>1 DEF f
<1>8. ClientFrames(c)'
  BY <1>0, <1>1, <1>3 DEF ClientInv, ClientFrames
<1>9. QueueComplete(c)'
  <2> SUFFICES ASSUME NEW i \in DOMAIN outq'[c], NEW b \in DOMAIN hist, NEW t \in sub[c],
                      outq'[c][i].type = "transaction", Gap(outq'[c][i], b, t, hist)
               PROVE  Shown(c, b)' \/ NewerIn(outq'[c], i - 1, b)
    BY <1>1 DEF QueueComplete
  <2>1. i + 1 \in DOMAIN q /\ outq'[c][i] = q[i + 1] /\ (i + 1) - 1 = i /\ i \in 1..Len(q)
    BY <1>1, <1>3
  <2>2. Shown(c, b) \/ NewerIn(q, i, b)
    BY <1>0, <2>1 DEF ClientInv, QueueChain, QueueComplete
  <2> QED BY <1>6, <1>7, <2>1, <2>2
<1>10. SnapshotsInOrder(c)'
  <2>1. ASSUME NEW i \in DOMAIN outq'[c], outq'[c][i].type = "snapshot"
        PROVE  /\ connected'[c] => store'[c].rev <= outq'[c][i].rev
               /\ \A j \in 1..(i - 1) : outq'[c][j].rev <= outq'[c][i].rev
    <3>1. i + 1 \in DOMAIN q /\ outq'[c][i] = q[i + 1] /\ (i + 1) - 1 = i /\ 1 \in 1..i
          /\ \A j \in 1..(i - 1) : j + 1 \in 1..i /\ outq'[c][j] = q[j + 1]
      BY <1>1, <1>3, <2>1
    <3>2. /\ connected[c] => store[c].rev <= q[i + 1].rev
          /\ \A j \in 1..i : q[j].rev <= q[i + 1].rev
      BY <1>0, <2>1, <3>1 DEF ClientInv, QueueChain, SnapshotsInOrder
    <3>3. f.rev <= q[i + 1].rev
      BY <1>3, <3>1, <3>2
    <3> QED BY <1>5, <3>1, <3>2, <3>3
  <2>2. ASSUME held[c].type = "snapshot"
        PROVE  /\ connected'[c] => store'[c].rev <= held[c].rev
               /\ \A j \in DOMAIN outq'[c] : outq'[c][j].rev <= held[c].rev
    <3>1. /\ connected[c] => store[c].rev <= held[c].rev
          /\ \A j \in DOMAIN q : q[j].rev <= held[c].rev
      BY <1>0, <2>2 DEF ClientInv, QueueChain, SnapshotsInOrder
    <3> QED BY <1>1, <1>3, <1>5, <3>1
  <2> QED BY <1>1, <2>1, <2>2 DEF SnapshotsInOrder
<1>11. SnapshotFirst(c)'
  <2>1. ASSUME ~connected'[c]
        PROVE  ~connected[c] /\ f.type # "snapshot"
    BY <1>2, <1>5, <2>1
  <2>2. ASSUME NEW i \in DOMAIN outq'[c], outq'[c][i].type = "transaction", ~connected'[c]
        PROVE  \E j \in 1..(i - 1) : outq'[c][j].type = "snapshot"
    <3>1. i + 1 \in DOMAIN q /\ outq'[c][i] = q[i + 1] /\ (i + 1) - 1 = i
          /\ i \in Nat /\ i <= Len(q) - 1
      BY <1>1, <1>3
    <3>2. PICK j \in 1..i : q[j].type = "snapshot"
      BY <1>0, <2>1, <2>2, <3>1 DEF ClientInv, QueueChain, SnapshotFirst
    <3>3. j # 1
      BY <1>3, <2>1, <2>2, <3>2
    <3>4. j - 1 \in 1..(i - 1) /\ j - 1 \in 1..(Len(q) - 1) /\ (j - 1) + 1 = j
      BY <1>3, <3>1, <3>2, <3>3
    <3>5. outq'[c][j - 1] = q[j]
      BY <1>1, <1>3, <3>4
    <3> QED BY <3>2, <3>4, <3>5
  <2>3. ASSUME ~connected'[c]
        PROVE  \E j \in DOMAIN outq'[c] : outq'[c][j].type = "snapshot"
    <3>1. PICK j \in DOMAIN q : q[j].type = "snapshot"
      BY <1>0, <1>1, <2>1, <2>3 DEF ClientInv, QueueChain, SnapshotFirst
    <3>2. j # 1
      BY <1>3, <2>1, <2>3, <3>1
    <3>3. j - 1 \in DOMAIN Tail(q) /\ (j - 1) + 1 = j
      BY <1>3, <3>2
    <3>4. outq'[c][j - 1] = q[j]
      BY <1>1, <1>3, <3>3
    <3> QED BY <1>1, <3>1, <3>3, <3>4
  <2> QED BY <1>1, <2>2, <2>3 DEF SnapshotFirst
<1>12. Consistent(c)'
  <2>1. CASE f.type = "snapshot"
    <3>1. f.rev \in DOMAIN hist /\ f.values = Only(hist[f.rev], sub[c])
      BY <1>4, <2>1 DEF TrueOf
    <3>2. store'[c] = [rev |-> f.rev, values |-> f.values]
      BY <1>2, <2>1 DEF f
    <3> QED BY <1>1, <3>1, <3>2 DEF Consistent
  <2>2. CASE f.type = "other"
    BY <1>0, <1>1, <1>2, <2>2 DEF ClientInv, QueueChain, Consistent, f
  <2>3. CASE f.type = "transaction"
    <3>1. /\ connected[c] /\ store'[c] = Applied(store[c], f)
          /\ store[c].rev \in DOMAIN hist /\ store[c].values = Only(hist[store[c].rev], sub[c])
      BY <1>0, <1>2, <1>4, <2>3 DEF ClientInv, QueueChain, Consistent, f
    <3>2. CASE f.rev <= store[c].rev
      BY <1>1, <3>1, <3>2 DEF Applied, Consistent
    <3>3. CASE ~(f.rev <= store[c].rev)
      <4>1. store'[c] = [rev |-> f.rev,
                         values |-> [t \in Topics |-> IF t \in f.topics THEN f.values[t]
                                                      ELSE store[c].values[t]]]
        BY <3>1, <3>3 DEF Applied, AppliedUnchecked
      <4>2. /\ f.rev \in DOMAIN hist /\ f.topics \subseteq sub[c]
            /\ \A t \in f.topics : f.values[t] = hist[f.rev][t]
        BY <1>4, <2>3 DEF TrueOf
      <4>3. ASSUME NEW t \in sub[c], t \notin f.topics
            PROVE  hist[store[c].rev][t] = hist[f.rev][t]
        <5> SUFFICES ASSUME hist[store[c].rev][t] # hist[f.rev][t] PROVE FALSE
          OBVIOUS
        <5>1. Gap(q[1], store[c].rev, t, hist)
          BY <1>3, <3>1, <3>3, <4>3 DEF Gap
        <5>2. Shown(c, store[c].rev) \/ NewerIn(q, 1 - 1, store[c].rev)
          BY <1>0, <1>3, <2>3, <3>1, <5>1 DEF ClientInv, QueueChain, QueueComplete
        <5>3. ~NewerIn(q, 1 - 1, store[c].rev)
          BY DEF NewerIn
        <5> QED BY <1>3, <5>2, <5>3 DEF Shown
      <4>4. \A t \in Topics : store'[c].values[t] = Only(hist[f.rev], sub[c])[t]
        BY <3>1, <4>1, <4>2, <4>3 DEF Only
      <4>5. store'[c].values = Only(hist[f.rev], sub[c]) /\ store'[c].rev = f.rev
        BY <4>1, <4>4 DEF Only
      <4> QED BY <1>1, <4>2, <4>5 DEF Consistent
    <3> QED BY <3>2, <3>3
  <2> QED BY <1>2, <2>1, <2>2, <2>3 DEF f
<1>13. BusChain(c)'
  <2>1. ASSUME NEW b \in DOMAIN hist, Ahead(c, b) PROVE Ahead(c, b)'
    <3>1. CASE NewerIn(q, Len(q), b)
      <4>1. Len(q) \in 1..Len(q) /\ Len(outq'[c]) = Len(q) - 1
        BY <1>1, <1>3
      <4> QED BY <1>7, <3>1, <4>1 DEF Ahead
    <3>2. CASE Shown(c, b)
      BY <1>6, <3>2 DEF Ahead
    <3> QED BY <1>1, <2>1, <3>1, <3>2 DEF Ahead
  <2> QED BY <1>0, <1>1, <2>1, AheadIsComplete DEF ClientInv, Listening
<1> QED BY <1>8, <1>9, <1>10, <1>11, <1>12, <1>13 DEF ClientInv, QueueChain

----------------------------------------------------------------------------
(* The steps of the producers and of the bus.                              *)

\* A client that neither moves nor sees the bus move.
LEMMA QuietStep ==
  ASSUME ReplicaInv, SameBus, HistGrows, SameBroadcasts, NEW c \in Clients, SameClient(c)
  PROVE  ClientInv(c)'
<1>0. TypeInv /\ ClientInv(c)
  BY DEF ReplicaInv
<1>1. ClientFrames(c)' /\ QueueChain(c)'
  BY <1>0, QuietFrames, QuietQueue DEF ClientInv
<1>2. \A b \in DOMAIN hist : Ahead(c, b) => Ahead(c, b)'
  BY SameAhead
<1>3. BusChain(c)'
  BY <1>0, <1>2, AheadIsComplete DEF ClientInv, SameClient, Listening
<1> QED BY <1>1, <1>3 DEF ClientInv

LEMMA BusQuiet ==
  ASSUME ReplicaInv, SameBus, SameBroadcasts
  PROVE  HistGrows /\ BusFrames'
<1>1. HistGrows
  BY SameBusGrows DEF ReplicaInv
<1> QED BY <1>1, PendingStays DEF ReplicaInv, BusFrames, SameBus

\* A commit: what changed is in the transaction, and what a client missed before
\* is still on its way, since no other transaction was waiting to be broadcast.
LEMMA CommitStep ==
  ASSUME ReplicaInv, NEW p \in Producers, Commit(p)
  PROVE  BusFrames' /\ \A c \in Clients : ClientInv(c)'
<1> DEFINE changed == Upserts(p) \cup Tombstones(p)
           after == [t \in Topics |-> IF t \in changed THEN projected[p][t] ELSE records[t]]
           txn == Transaction(revision + 1, changed, after)
<1>0. TypeInv /\ BusFrames /\ CommitLockHeld
  BY DEF ReplicaInv
<1>1. /\ pc[p] = "produce" /\ revision' = revision + 1 /\ records' = after
      /\ hist' = [r \in 0..(revision + 1) |-> IF r = revision + 1 THEN after ELSE hist[r]]
      /\ pending' = [pending EXCEPT ![p] = txn] /\ pc' = [pc EXCEPT ![p] = "broadcast"]
      /\ UNCHANGED <<relayVars, guiVars>>
  BY DEF Commit
<1>2. /\ changed \subseteq Topics
      /\ \A t \in changed : after[t] = projected[p][t]
      /\ \A t \in Topics \ changed : after[t] = records[t]
  <2>1. change[p] \in [topics : SUBSET Topics, allDevices : BOOLEAN]
    BY <1>0 DEF TypeInv, TypeOK
  <2>2. TopicsOf(change[p]) \subseteq Topics /\ DeviceTopics \subseteq Topics
    BY <2>1, ChangeTopics, TopicsAssumption
  <2>3. changed \subseteq Topics
    BY <2>2 DEF Upserts, Tombstones
  <2> QED BY <2>3
<1> HIDE DEF changed, after
<1>3. HistGrows /\ hist'[revision'] = after /\ DOMAIN hist' = 0..(revision + 1)
      /\ revision \in Nat /\ DOMAIN hist = 0..revision
  BY <1>0, <1>1, CommitGrows DEF TypeInv, TypeOK
<1>4. /\ \A q \in Producers : pc[q] # "broadcast"
      /\ \A q \in Producers : pc'[q] = "broadcast" <=> q = p
      /\ pending'[p] = txn
  <2>1. \A q \in Producers \ {p} : pc[q] # "broadcast"
    BY <1>0, <1>1 DEF CommitLockHeld
  <2> QED BY <1>0, <1>1, <2>1 DEF TypeInv, TypeOK
<1>5. /\ txn.rev = revision + 1 /\ txn.type = "transaction" /\ txn.topics = changed
      /\ txn.values = Only(after, changed)
  BY DEF Transaction
<1> HIDE DEF txn
<1>6. BusFrames'
  <2>1. \A t \in changed : Only(after, changed)[t] = after[t]
    BY <1>2 DEF Only
  <2>2. TrueOf(txn, Topics, hist')
    BY <1>1, <1>3, <1>5, <2>1 DEF TrueOf
  <2>3. PendingFrames'
    BY <1>4, <1>5, <2>2 DEF PendingFrames
  <2> QED BY <1>1, <1>3, <2>3 DEF BusFrames
<1>7. ASSUME NEW c \in Clients PROVE ClientInv(c)'
  <2>0. ClientInv(c) /\ SameClient(c) /\ ClientTyped(c) /\ sub'[c] = sub[c] /\ rx'[c] = rx[c]
    BY <1>0, <1>1, ClientFacts DEF ReplicaInv, SameClient
  <2>1. ClientFrames(c)' /\ QueueChain(c)'
    BY <1>0, <1>3, <2>0, QuietFrames, QuietQueue DEF ClientInv
  <2>2. \A b : Ahead(c, b)' <=> Ahead(c, b)
    BY <2>0, SameAhead
  <2>3. RxComplete(c)'
    <3> SUFFICES ASSUME NEW i \in DOMAIN rx[c], NEW b \in DOMAIN hist', NEW t \in sub[c],
                        Gap(rx[c][i], b, t, hist')
                 PROVE  Ahead(c, b) \/ CarriedIn(rx[c], i - 1, b, t)
      BY <2>0, <2>2 DEF RxComplete
    <3>1. rx[c][i].rev \in DOMAIN hist
      BY <2>0 DEF ClientInv, ClientFrames, TrueOf
    <3>2. b \in DOMAIN hist /\ Gap(rx[c][i], b, t, hist)
      BY <1>0, <1>3, <3>1, GapStays
    <3> QED BY <2>0, <3>2 DEF ClientInv, BusChain, RxComplete
  <2>4. ASSUME Listening(c)', NEW b \in DOMAIN hist', NEW t \in sub[c], t \notin changed,
               hist'[b][t] # after[t]
        PROVE  Ahead(c, b) \/ CarriedIn(rx[c], Len(rx[c]), b, t)
    <3>1. b # revision + 1
      BY <1>1, <1>3, <2>4
    <3>2. b \in DOMAIN hist /\ hist'[b] = hist[b]
      BY <1>3, <3>1 DEF HistGrows, Extends
    <3>3. after[t] = records[t]
      BY <1>2, <2>0, <2>4 DEF ClientTyped
    <3>4. Listening(c)
      BY <2>0, <2>4 DEF SameClient, Listening
    <3> QED BY <1>4, <2>0, <2>4, <3>2, <3>3, <3>4 DEF ClientInv, BusChain, BusComplete
  <2>5. PendingComplete(c)'
    <3> SUFFICES ASSUME Listening(c)', NEW b \in DOMAIN hist', NEW t \in sub[c],
                        Gap(txn, b, t, hist')
                 PROVE  Ahead(c, b) \/ CarriedIn(rx[c], Len(rx[c]), b, t)
      BY <1>4, <2>0, <2>2 DEF PendingComplete
    <3>1. t \notin changed /\ hist'[b][t] # after[t]
      BY <1>1, <1>3, <1>5 DEF Gap
    <3> QED BY <2>4, <3>1
  <2>6. BusComplete(c)'
    <3> SUFFICES ASSUME Listening(c)', NEW b \in DOMAIN hist', NEW t \in sub[c],
                        hist'[b][t] # after[t]
                 PROVE  \/ Ahead(c, b) \/ CarriedIn(rx[c], Len(rx[c]), b, t)
                        \/ t \in txn.topics /\ txn.rev > b
      BY <1>1, <1>4, <2>0, <2>2 DEF BusComplete
    <3>1. CASE t \notin changed
      BY <2>4, <3>1
    <3>2. CASE t \in changed
      <4>1. b # revision + 1
        BY <1>1, <1>3
      <4> QED BY <1>3, <1>5, <3>2, <4>1
    <3> QED BY <3>1, <3>2
  <2> QED BY <2>1, <2>3, <2>5, <2>6 DEF ClientInv, BusChain
<1> QED BY <1>6, <1>7

\* Plugin data uses up a revision; the records stay as they were.
LEMMA PluginDataStep ==
  ASSUME ReplicaInv, PluginDataRevision
  PROVE  BusFrames' /\ \A c \in Clients : ClientInv(c)'
<1>0. TypeInv /\ BusFrames
  BY DEF ReplicaInv
<1>1. /\ revision' = revision + 1 /\ records' = records
      /\ hist' = [r \in 0..(revision + 1) |-> IF r = revision + 1 THEN records ELSE hist[r]]
      /\ UNCHANGED <<producerVars, relayVars, guiVars>>
  BY DEF PluginDataRevision
<1>2. HistGrows /\ hist'[revision'] = records /\ DOMAIN hist' = 0..(revision + 1)
      /\ revision \in Nat /\ DOMAIN hist = 0..revision
  BY <1>0, <1>1, CommitGrows DEF TypeInv, TypeOK
<1>3. SameBroadcasts
  BY <1>1, SameProducers
<1>4. BusFrames'
  BY <1>0, <1>1, <1>2, <1>3, PendingStays DEF BusFrames
<1>5. ASSUME NEW c \in Clients PROVE ClientInv(c)'
  <2>0. ClientInv(c) /\ SameClient(c) /\ sub'[c] = sub[c] /\ rx'[c] = rx[c]
    BY <1>1 DEF ReplicaInv, SameClient
  <2>1. ClientFrames(c)' /\ QueueChain(c)'
    BY <1>0, <1>2, <2>0, QuietFrames, QuietQueue DEF ClientInv
  <2>2. \A b : Ahead(c, b)' <=> Ahead(c, b)
    BY <2>0, SameAhead
  <2>3. ASSUME NEW f, f.rev \in DOMAIN hist, NEW b \in DOMAIN hist', NEW t, Gap(f, b, t, hist')
        PROVE  b \in DOMAIN hist /\ Gap(f, b, t, hist)
    BY <1>0, <1>2, <2>3, GapStays
  <2>4. RxComplete(c)'
    <3> SUFFICES ASSUME NEW i \in DOMAIN rx[c], NEW b \in DOMAIN hist', NEW t \in sub[c],
                        Gap(rx[c][i], b, t, hist')
                 PROVE  Ahead(c, b) \/ CarriedIn(rx[c], i - 1, b, t)
      BY <2>0, <2>2 DEF RxComplete
    <3>1. rx[c][i].rev \in DOMAIN hist
      BY <2>0 DEF ClientInv, ClientFrames, TrueOf
    <3> QED BY <2>0, <2>3, <3>1 DEF ClientInv, BusChain, RxComplete
  <2>5. PendingComplete(c)'
    <3> SUFFICES ASSUME Listening(c), NEW q \in Producers, pc[q] = "broadcast",
                        NEW b \in DOMAIN hist', NEW t \in sub[c], Gap(pending[q], b, t, hist')
                 PROVE  Ahead(c, b) \/ CarriedIn(rx[c], Len(rx[c]), b, t)
      BY <1>1, <2>0, <2>2 DEF PendingComplete, Listening
    <3>1. pending[q].rev \in DOMAIN hist
      BY <1>0 DEF BusFrames, PendingFrames, TrueOf
    <3> QED BY <2>0, <2>3, <3>1 DEF ClientInv, BusChain, PendingComplete
  <2>6. BusComplete(c)'
    <3> SUFFICES ASSUME Listening(c), NEW b \in DOMAIN hist', NEW t \in sub[c],
                        hist'[b][t] # records[t]
                 PROVE  \/ Ahead(c, b) \/ CarriedIn(rx[c], Len(rx[c]), b, t)
                        \/ \E q \in Producers :
                             pc[q] = "broadcast" /\ t \in pending[q].topics /\ pending[q].rev > b
      BY <1>1, <2>0, <2>2 DEF BusComplete, Listening
    <3>1. b # revision + 1
      BY <1>1, <1>2
    <3>2. b \in DOMAIN hist /\ hist'[b] = hist[b]
      BY <1>2, <3>1 DEF HistGrows, Extends
    <3> QED BY <2>0, <3>2 DEF ClientInv, BusChain, BusComplete
  <2> QED BY <2>1, <2>4, <2>5, <2>6 DEF ClientInv, BusChain
<1> QED BY <1>4, <1>5

\* The broadcast: the transaction goes from the producer to the end of every live
\* receiver, or a receiver that is full is marked as lagged.
LEMMA BroadcastStep ==
  ASSUME ReplicaInv, TypeInv', NEW p \in Producers, Broadcast(p)
  PROVE  BusFrames' /\ \A c \in Clients : ClientInv(c)'
<1>0. TypeInv /\ BusFrames /\ CommitLockHeld
  BY DEF ReplicaInv
<1>1. /\ pc[p] = "broadcast" /\ pc' = [pc EXCEPT ![p] = "idle"]
      /\ rx' = [c \in Clients |-> Received(c, pending[p])]
      /\ lagged' = [c \in Clients |-> lagged[c] \/ Overrun(c)]
      /\ UNCHANGED <<busVars, conn, sub, relay, held, outq, guiVars>>
  BY DEF Broadcast
<1>2. \A q \in Producers : pc'[q] # "broadcast" /\ (pc[q] = "broadcast" => q = p)
  <2>1. \A q \in Producers \ {p} : pc[q] # "broadcast"
    BY <1>0, <1>1 DEF CommitLockHeld
  <2> QED BY <1>0, <1>1, <2>1 DEF TypeInv, TypeOK
<1>3. BusFrames'
  BY <1>0, <1>1, <1>2 DEF BusFrames, PendingFrames
<1>4. /\ pending[p] \in Frame /\ pending[p].type = "transaction"
      /\ TrueOf(pending[p], Topics, hist)
  BY <1>0, <1>1 DEF TypeInv, TypeOK, BusFrames, PendingFrames
<1>5. ASSUME NEW c \in Clients PROVE ClientInv(c)'
  <2> DEFINE q == rx[c]
             n == Len(rx[c])
  <2>0. /\ ClientInv(c) /\ ClientTyped(c)
        /\ rx'[c] = Received(c, pending[p]) /\ lagged'[c] = (lagged[c] \/ Overrun(c))
        /\ conn'[c] = conn[c] /\ sub'[c] = sub[c] /\ relay'[c] = relay[c] /\ held'[c] = held[c]
        /\ outq'[c] = outq[c] /\ store'[c] = store[c] /\ connected'[c] = connected[c]
        /\ hist' = hist /\ records' = records
    BY <1>0, <1>1, ClientFacts DEF ReplicaInv
  <2>1. QueueChain(c)'
    BY <2>0 DEF ClientInv, QueueChain, QueueComplete, Shown, SnapshotsInOrder, SnapshotFirst,
                Consistent
  <2>2. ASSUME \A i \in DOMAIN rx'[c] : rx'[c][i] = pending[p] \/ \E j \in DOMAIN q : rx'[c][i] = q[j]
        PROVE  ClientFrames(c)'
    BY <1>4, <2>0, <2>2 DEF ClientInv, ClientFrames
  <2>3. \A b : Ahead(c, b) => Ahead(c, b)'
    BY <2>0 DEF Ahead, Shown
  <2>4. CASE ~Listening(c)
    <3>1. rx'[c] = rx[c] /\ ~Listening(c)' /\ ~Overrun(c)
      BY <2>0, <2>4 DEF Received, Listening, Overrun
    <3>2. RxComplete(c)'
      BY <2>0, <2>3, <3>1 DEF ClientInv, BusChain, RxComplete
    <3>3. BusChain(c)'
      BY <3>1, <3>2 DEF BusChain, PendingComplete, BusComplete
    <3> QED BY <2>1, <2>2, <3>1, <3>3 DEF ClientInv
  <2>5. CASE Listening(c) /\ Overrun(c)
    <3>1. rx[c] # <<>>
      BY <2>0, <2>5, BoundsAssumption DEF Overrun
    <3>2. Tail(q) \in Seq(Frame) /\ Len(Tail(q)) \in Nat
          /\ \A i \in DOMAIN Tail(q) : i + 1 \in DOMAIN q /\ Tail(q)[i] = q[i + 1]
      BY <2>0, <3>1, TailFacts DEF ClientTyped
    <3>3. rx'[c] = Append(Tail(q), pending[p])
      BY <2>0, <2>5 DEF Received
    <3>4. \A i \in DOMAIN rx'[c] : rx'[c][i] = pending[p] \/ \E j \in DOMAIN q : rx'[c][i] = q[j]
      <4> SUFFICES ASSUME NEW i \in DOMAIN rx'[c], rx'[c][i] # pending[p]
                   PROVE  \E j \in DOMAIN q : rx'[c][i] = q[j]
        OBVIOUS
      <4>1. i \in DOMAIN Tail(q) /\ rx'[c][i] = Tail(q)[i]
        BY <1>4, <3>2, <3>3, AppendFacts
      <4> QED BY <3>2, <4>1
    <3>5. ClientFrames(c)'
      BY <2>2, <3>4
    <3>6. \A b : Ahead(c, b)'
      BY <2>0, <2>5 DEF Ahead
    <3>7. BusChain(c)'
      BY <1>3, <3>5, <3>6, ClientFactsNext, FreshIsCompleteNext DEF Fresh
    <3> QED BY <2>1, <3>5, <3>7 DEF ClientInv
  <2>6. CASE Listening(c) /\ ~Overrun(c)
    <3>1. rx'[c] = Append(q, pending[p])
      BY <2>0, <2>6 DEF Received
    <3>2. /\ q \in Seq(Frame) /\ n \in Nat /\ DOMAIN q = 1..n /\ DOMAIN rx'[c] = 1..(n + 1)
          /\ Len(rx'[c]) = n + 1
          /\ \A i \in 1..n : rx'[c][i] = q[i]
          /\ rx'[c][n + 1] = pending[p]
      BY <1>4, <2>0, <3>1, AppendFacts DEF ClientTyped
    <3>3. \A i \in DOMAIN rx'[c] : i = n + 1 \/ (i \in 1..n /\ i - 1 \in 0..n)
      BY <3>2
    <3>4. ClientFrames(c)'
      BY <2>2, <3>2, <3>3
    <3>5. ASSUME NEW b, NEW t
          PROVE  /\ \A m \in 0..n : CarriedIn(rx'[c], m, b, t) <=> CarriedIn(q, m, b, t)
                 /\ CarriedIn(rx'[c], n + 1, b, t) <=>
                      CarriedIn(q, n, b, t) \/ (t \in pending[p].topics /\ pending[p].rev > b)
      <4>1. /\ \A m \in 0..n : CarriedIn(Append(q, pending[p]), m, b, t) <=> CarriedIn(q, m, b, t)
            /\ CarriedIn(Append(q, pending[p]), n + 1, b, t) <=>
                 CarriedIn(q, n, b, t) \/ (t \in pending[p].topics /\ pending[p].rev > b)
        BY <1>4, <3>2, AppendCarried
      <4> QED BY <3>1, <4>1
    <3>6. RxComplete(c)'
      <4> SUFFICES ASSUME NEW i \in DOMAIN rx'[c], NEW b \in DOMAIN hist, NEW t \in sub[c],
                          Gap(rx'[c][i], b, t, hist)
                   PROVE  Ahead(c, b) \/ CarriedIn(rx'[c], i - 1, b, t)
        BY <2>0, <2>3 DEF RxComplete
      <4>1. CASE i = n + 1
        <5>1. Ahead(c, b) \/ CarriedIn(q, n, b, t)
          BY <1>1, <2>0, <2>6, <3>2, <4>1 DEF ClientInv, BusChain, PendingComplete
        <5>2. i - 1 = n /\ n \in 0..n
          BY <3>2, <4>1
        <5> QED BY <3>5, <5>1, <5>2
      <4>2. CASE i # n + 1
        <5>1. Ahead(c, b) \/ CarriedIn(q, i - 1, b, t)
          BY <2>0, <3>2, <3>3, <4>2 DEF ClientInv, BusChain, RxComplete
        <5> QED BY <3>3, <3>5, <4>2, <5>1
      <4> QED BY <4>1, <4>2
    <3>7. PendingComplete(c)'
      BY <1>2 DEF PendingComplete
    <3>8. BusComplete(c)'
      <4> SUFFICES ASSUME NEW b \in DOMAIN hist, NEW t \in sub[c], hist[b][t] # records[t]
                   PROVE  Ahead(c, b) \/ CarriedIn(rx'[c], n + 1, b, t)
        BY <2>0, <2>3, <3>2 DEF BusComplete
      <4>1. \/ Ahead(c, b) \/ CarriedIn(q, n, b, t)
            \/ t \in pending[p].topics /\ pending[p].rev > b
        BY <1>2, <2>0, <2>6 DEF ClientInv, BusChain, BusComplete
      <4> QED BY <3>5, <4>1
    <3> QED BY <2>1, <3>4, <3>6, <3>7, <3>8 DEF ClientInv, BusChain
  <2> QED BY <2>4, <2>5, <2>6
<1> QED BY <1>3, <1>5

\* With nothing retained, nothing queued and nobody connected there is nothing to
\* be missed: at start-up, and when the daemon starts again.
Blank ==
  /\ hist = [r \in {0} |-> NoRecords] /\ revision = 0 /\ records = NoRecords
  /\ \A p \in Producers : pc[p] # "broadcast"
  /\ \A c \in Clients :
       /\ conn[c] = "off" /\ rx[c] = <<>> /\ outq[c] = <<>> /\ held[c] = OtherFrame
       /\ connected[c] = FALSE

LEMMA BlankIsConsistent == Blank => BusFrames /\ \A c \in Clients : ClientInv(c)
<1> SUFFICES ASSUME Blank PROVE BusFrames /\ \A c \in Clients : ClientInv(c)
  OBVIOUS
<1>1. DOMAIN hist = {0} /\ hist[0] = NoRecords /\ OtherFrame.rev = 0 /\ OtherFrame.type = "other"
  BY DEF Blank, OtherFrame
<1>2. BusFrames
  BY <1>1 DEF Blank, BusFrames, PendingFrames
<1>3. ASSUME NEW c \in Clients PROVE ClientInv(c)
  <2>1. ClientFrames(c)
    BY <1>1 DEF Blank, ClientFrames, TrueOf
  <2>2. QueueChain(c)
    BY <1>1 DEF Blank, QueueChain, QueueComplete, SnapshotsInOrder, SnapshotFirst, Consistent
  <2>3. BusChain(c)
    BY DEF Blank, BusChain, RxComplete, PendingComplete, BusComplete, Listening
  <2> QED BY <2>1, <2>2, <2>3 DEF ClientInv
<1> QED BY <1>2, <1>3

LEMMA BlankIsConsistentNext == (Blank => BusFrames /\ \A c \in Clients : ClientInv(c))'
BY BlankIsConsistent, PTL

LEMMA RestartStep ==
  ASSUME DaemonRestart
  PROVE  BusFrames' /\ \A c \in Clients : ClientInv(c)'
<1>1. Blank'
  BY DEF DaemonRestart, Blank
<1> QED BY <1>1, BlankIsConsistentNext

----------------------------------------------------------------------------
(* The invariant.                                                          *)

LEMMA InitReplica == Init => BusFrames /\ \A c \in Clients : ClientInv(c)
<1>1. Init => Blank
  BY DEF Init, Blank
<1> QED BY <1>1, BlankIsConsistent

LEMMA ClientStep ==
  ASSUME ReplicaInv, TypeInv', NEW d \in Clients, Relay(d) \/ GuiReceive(d) \/ Environment(d)
  PROVE  BusFrames' /\ \A c \in Clients : ClientInv(c)'
<1>0. /\ SameBus /\ SameBroadcasts
      /\ \A c \in Clients \ {d} : SameClient(c)
  BY ClientSteps, SameProducers DEF ReplicaInv
<1>1. HistGrows /\ BusFrames'
  BY <1>0, BusQuiet
<1>2. \A c \in Clients \ {d} : ClientInv(c)'
  BY <1>0, <1>1, QuietStep
<1>3. ClientInv(d)'
  <2>1. CASE InitialSnapshot(d)
    BY <1>0, <1>1, <2>1, InitialSnapshotStep
  <2>2. CASE ForwardTransaction(d)
    BY <1>0, <1>1, <2>2, ForwardTransactionStep
  <2>3. CASE ForwardLagged(d)
    BY <1>0, <1>1, <2>3, ForwardLaggedStep
  <2>4. CASE CapacityReady(d)
    BY <1>0, <2>4, CapacityReadyStep
  <2>5. CASE GuiReceive(d)
    BY <1>0, <2>5, GuiReceiveStep
  <2>6. ASSUME NEW topics \in Subscriptions, Connect(d, topics) PROVE ClientInv(d)'
    BY <1>0, <1>1, <2>6, ConnectStep
  <2>7. CASE ForwardEventBlocked(d)
    BY <1>0, <2>7, ForwardEventBlockedStep
  <2>8. CASE CapacityTimeout(d)
    BY <1>0, <2>8, CapacityTimeoutStep
  <2>9. CASE QueueOther(d)
    BY <1>0, <2>9, QueueOtherStep
  <2>10. CASE Disconnect(d)
    BY <1>0, <2>10, DisconnectStep
  <2> QED BY <2>1, <2>2, <2>3, <2>4, <2>5, <2>6, <2>7, <2>8, <2>9, <2>10
          DEF Relay, Forward, Environment
<1> QED BY <1>1, <1>2, <1>3

LEMMA StepReplica ==
  ReplicaInv /\ TypeInv' /\ [Next]_vars => BusFrames' /\ \A c \in Clients : ClientInv(c)'
<1> SUFFICES ASSUME ReplicaInv, TypeInv', [Next]_vars
             PROVE  BusFrames' /\ \A c \in Clients : ClientInv(c)'
  OBVIOUS
<1>1. ASSUME SameBus, SameBroadcasts, UNCHANGED <<relayVars, guiVars>>
      PROVE  BusFrames' /\ \A c \in Clients : ClientInv(c)'
  <2>1. \A c \in Clients : SameClient(c)
    BY <1>1 DEF SameClient
  <2> QED BY <1>1, <2>1, BusQuiet, QuietStep
<1>2. /\ TypeInv /\ pc \in [Producers -> {"idle", "record", "produce", "broadcast"}]
      /\ pending \in [Producers -> Frame]
  BY DEF ReplicaInv, TypeInv, TypeOK
<1>3. ASSUME NEW p \in Producers, NEW ch \in Changes, NEW touched \in SUBSET TopicsOf(ch),
             Mutate(p, ch, touched)
      PROVE  BusFrames' /\ \A c \in Clients : ClientInv(c)'
  BY <1>1, <1>2, <1>3 DEF Mutate, SameBus, SameBroadcasts
<1>4. ASSUME NEW p \in Producers, Acquire(p)
      PROVE  BusFrames' /\ \A c \in Clients : ClientInv(c)'
  BY <1>1, <1>2, <1>4 DEF Acquire, AcquireUnlocked, SameBus, SameBroadcasts
<1>5. ASSUME NEW p \in Producers, NEW t \in Topics, Project(p, t)
      PROVE  BusFrames' /\ \A c \in Clients : ClientInv(c)'
  BY <1>1, <1>2, <1>5 DEF Project, SameBus, SameBroadcasts
<1>6. ASSUME NEW p \in Producers, CommitNothing(p)
      PROVE  BusFrames' /\ \A c \in Clients : ClientInv(c)'
  BY <1>1, <1>2, <1>6 DEF CommitNothing, SameBus, SameBroadcasts
<1>7. CASE UNCHANGED vars
  BY <1>1, <1>7 DEF SameBus, SameBroadcasts
<1> QED
  BY <1>3, <1>4, <1>5, <1>6, <1>7, CommitStep, BroadcastStep, PluginDataStep, ClientStep,
     RestartStep
  DEF Next, Record

LEMMA ReplicaStarts == Init => ReplicaInv
BY InitType, InitCommit, InitReplica DEF ReplicaInv, CommitInv

LEMMA ReplicaKept == TypeInv /\ CommitInv /\ ReplicaInv /\ [Next]_vars => ReplicaInv'
BY StepType, StepCommit, StepReplica DEF ReplicaInv, CommitInv

\* What a connected client shows is what the bus retained at the revision it
\* claims, on the topics it asked for: through filtering, overflow of its queue,
\* overrun of its receiver, reconnection and restart of the daemon, no commit is
\* skipped, applied twice or applied to the wrong base.
THEOREM ReplicaIsConsistent == Spec => []ReplicaConsistent
<1>1. ReplicaInv => ReplicaConsistent
  <2> SUFFICES ASSUME ReplicaInv, NEW c \in Clients, connected[c]
               PROVE  /\ store[c].rev <= revision
                      /\ store[c].values = Only(hist[store[c].rev], sub[c])
    BY DEF ReplicaConsistent
  <2>1. store[c].rev \in DOMAIN hist /\ store[c].values = Only(hist[store[c].rev], sub[c])
    BY DEF ReplicaInv, ClientInv, QueueChain, Consistent
  <2> QED BY <2>1, ClientFacts DEF ReplicaInv, ClientTyped
<1> QED BY <1>1, ReplicaStarts, ReplicaKept, InitType, StepType, InitCommit, StepCommit, PTL
        DEF Spec

----------------------------------------------------------------------------
(* The refinement.                                                         *)

\* A frame only takes a client forward.
LEMMA ShownForward ==
  ASSUME ReplicaInv, NEW c \in Clients, GuiReceive(c),
         Head(outq[c]).type # "other"
  PROVE  /\ connected' = [connected EXCEPT ![c] = TRUE]
         /\ store' = [store EXCEPT ![c] = store'[c]]
         /\ connected[c] => store[c].rev <= store'[c].rev
<1> DEFINE f == Head(outq[c])
<1>0. TypeInv /\ ClientInv(c) /\ ClientTyped(c)
  BY ClientFacts DEF ReplicaInv
<1>1. /\ conn[c] = "on" /\ outq[c] # <<>>
      /\ \/ /\ f.type = "snapshot" /\ store' = [store EXCEPT ![c] = Replaced(f)]
            /\ connected' = [connected EXCEPT ![c] = TRUE]
         \/ /\ f.type = "transaction" /\ store' = [store EXCEPT ![c] = Applied(@, f)]
            /\ connected' = connected
  BY DEF GuiReceive
<1>2. /\ 1 \in DOMAIN outq[c] /\ f = outq[c][1] /\ f.rev \in Nat /\ store[c].rev \in Nat
      /\ connected \in [Clients -> BOOLEAN]
      /\ store \in [Clients -> [rev : Nat, values : View]]
  BY <1>0, <1>1, TailFacts DEF ClientTyped, TypeInv, TypeOK
<1>3. /\ f.type = "transaction" => connected[c]
      /\ f.type = "snapshot" => (connected[c] => store[c].rev <= f.rev)
  <2>1. ~ \E j \in 1..(1 - 1) : outq[c][j].type = "snapshot"
    OBVIOUS
  <2> QED BY <1>0, <1>2, <2>1 DEF ClientInv, QueueChain, SnapshotsInOrder, SnapshotFirst
<1> HIDE DEF f
<1>4. CASE f.type = "snapshot"
  BY <1>1, <1>2, <1>3, <1>4 DEF Replaced
<1>5. CASE f.type = "transaction"
  <2>1. connected' = connected /\ connected[c] /\ store' = [store EXCEPT ![c] = Applied(@, f)]
    BY <1>1, <1>3, <1>5
  <2>2. connected' = [connected EXCEPT ![c] = TRUE]
    BY <1>2, <2>1
  <2>3. store'[c] = Applied(store[c], f) /\ store' = [store EXCEPT ![c] = store'[c]]
    BY <1>2, <2>1
  <2>4. store[c].rev <= store'[c].rev
    BY <1>2, <2>3 DEF Applied, AppliedUnchecked
  <2> QED BY <2>2, <2>3, <2>4
<1> QED BY <1>1, <1>4, <1>5

LEMMA InitRefines == Init => Replica!Init
BY DEF Init, Replica!Init, Replica!NoRecords, NoRecords

LEMMA StepRefines ==
  ReplicaInv /\ ReplicaInv' /\ [Next]_vars => [Replica!Next]_(Replica!vars)
<1> SUFFICES ASSUME ReplicaInv, ReplicaInv', [Next]_vars
             PROVE  [Replica!Next]_(Replica!vars)
  OBVIOUS
<1> USE DEF Replica!vars
<1>0. /\ TypeInv /\ revision \in Nat /\ DOMAIN hist = 0..revision
      /\ connected \in [Clients -> BOOLEAN] /\ sub \in [Clients -> SUBSET Topics]
      /\ store \in [Clients -> [rev : Nat, values : View]]
      /\ store' \in [Clients -> [rev : Nat, values : View]]
  BY DEF ReplicaInv, TypeInv, TypeOK
<1>1. ASSUME NEW after, revision' = revision + 1, UNCHANGED <<store, connected, sub>>,
             hist' = [r \in 0..(revision + 1) |-> IF r = revision + 1 THEN after ELSE hist[r]]
      PROVE  Replica!Extend
  <2>1. /\ revision \in DOMAIN hist /\ \A r \in DOMAIN hist : r <= revision
        /\ DOMAIN hist' = 0..(revision + 1)
    BY <1>0, <1>1
  <2>2. \A r \in DOMAIN hist : hist'[r] = hist[r]
    BY <1>0, <1>1, CommitGrows DEF HistGrows, Extends
  <2> QED BY <1>1, <2>1, <2>2 DEF Replica!Extend
<1>2. ASSUME NEW p \in Producers, Commit(p) PROVE Replica!Extend
  <2> DEFINE changed == Upserts(p) \cup Tombstones(p)
  <2>1. /\ revision' = revision + 1 /\ UNCHANGED <<store, connected, sub>>
        /\ hist' = [r \in 0..(revision + 1) |->
             IF r = revision + 1
             THEN [t \in Topics |-> IF t \in changed THEN projected[p][t] ELSE records[t]]
             ELSE hist[r]]
    BY <1>2 DEF Commit
  <2> HIDE DEF changed
  <2> QED BY <1>1, <2>1
<1>3. CASE PluginDataRevision
  BY <1>1, <1>3 DEF PluginDataRevision, Replica!Next
<1>4. CASE DaemonRestart
  BY <1>4 DEF DaemonRestart, Replica!Next, Replica!StartOver, Replica!NoRecords, NoRecords
<1>5. ASSUME NEW c \in Clients, NEW topics \in Subscriptions, Connect(c, topics)
      PROVE  Replica!Lose(c)
  <2>1. connected[c] = FALSE
    BY <1>0, <1>5 DEF Connect, ReplicaInv, ClientInv, QueueChain, SnapshotFirst
  <2>2. connected' = [connected EXCEPT ![c] = FALSE]
    BY <1>0, <1>5, <2>1 DEF Connect
  <2> QED BY <1>0, <1>5, <2>2 DEF Connect, Replica!Lose
<1>6. ASSUME NEW c \in Clients, Disconnect(c) PROVE Replica!Lose(c)
  BY <1>0, <1>6 DEF Disconnect, Replica!Lose
<1>7. ASSUME NEW c \in Clients, GuiReceive(c) PROVE Replica!Show(c) \/ UNCHANGED Replica!vars
  <2>1. UNCHANGED <<hist, sub>>
    BY <1>7 DEF GuiReceive
  <2>2. CASE Head(outq[c]).type = "other"
    BY <1>7, <2>1, <2>2 DEF GuiReceive
  <2>3. CASE Head(outq[c]).type # "other"
    <3>1. /\ connected' = [connected EXCEPT ![c] = TRUE]
          /\ store' = [store EXCEPT ![c] = store'[c]]
          /\ connected[c] => store[c].rev <= store'[c].rev
      BY <1>7, <2>3, ShownForward
    <3>2. connected'[c]
      BY <1>0, <3>1
    <3>3. store'[c].rev \in DOMAIN hist /\ store'[c].values = Only(hist[store'[c].rev], sub[c])
      BY <2>1, <3>2 DEF ReplicaInv, ClientInv, QueueChain, Consistent
    <3>4. Only(hist[store'[c].rev], sub[c]) = Replica!Part(hist[store'[c].rev], sub[c])
      BY DEF Only, Replica!Part
    <3>5. store'[c] = [rev |-> store'[c].rev,
                       values |-> Replica!Part(hist[store'[c].rev], sub[c])]
      BY <1>0, <3>3, <3>4
    <3> DEFINE r == store'[c].rev
               shown == [rev |-> r, values |-> Replica!Part(hist[r], sub[c])]
    <3>6. r \in DOMAIN hist /\ (connected[c] => store[c].rev <= r)
          /\ store' = [store EXCEPT ![c] = shown]
      BY <3>1, <3>3, <3>5
    <3> QED BY <2>1, <3>1, <3>6 DEF Replica!Show
  <2> QED BY <2>2, <2>3
<1>8. ASSUME NEW c \in Clients,
             InitialSnapshot(c) \/ Forward(c) \/ CapacityReady(c) \/ ForwardEventBlocked(c)
               \/ CapacityTimeout(c) \/ QueueOther(c)
      PROVE  UNCHANGED Replica!vars
  BY <1>8 DEF InitialSnapshot, Forward, ForwardTransaction, ForwardLagged, CapacityReady,
              ForwardEventBlocked, CapacityTimeout, QueueOther
<1>9. ASSUME NEW p \in Producers, NEW ch \in Changes, NEW touched \in SUBSET TopicsOf(ch),
             Mutate(p, ch, touched)
      PROVE  UNCHANGED Replica!vars
  BY <1>9 DEF Mutate
<1>10. ASSUME NEW p \in Producers,
              Acquire(p) \/ (\E t \in Topics : Project(p, t)) \/ CommitNothing(p) \/ Broadcast(p)
       PROVE  UNCHANGED Replica!vars
  BY <1>10 DEF Acquire, AcquireUnlocked, Project, CommitNothing, Broadcast
<1>11. CASE UNCHANGED vars
  BY <1>11
<1>12. ASSUME NEW c \in Clients, Relay(c) \/ GuiReceive(c) \/ Environment(c)
       PROVE  [Replica!Next]_(Replica!vars)
  BY <1>5, <1>6, <1>7, <1>8, <1>12 DEF Relay, Environment, Replica!Next
<1>13. ASSUME NEW p \in Producers, Record(p) PROVE [Replica!Next]_(Replica!vars)
  BY <1>2, <1>10, <1>13 DEF Record, Replica!Next
<1> QED BY <1>3, <1>4, <1>9, <1>11, <1>12, <1>13 DEF Next

\* The state bus keeps RetainedReplica's promise: the host's log only grows, a
\* client that is live steps from one revision's records to a later one's, and
\* across a lost connection or a daemon restart it vouches for nothing until a
\* snapshot.
THEOREM ImplementsRetainedReplica == Spec => ImplementsReplica
<1>1. Spec => Replica!Spec
  BY ReplicaStarts, ReplicaKept, InitType, StepType, InitCommit, StepCommit, InitRefines,
     StepRefines, PTL
  DEF Spec, Replica!Spec
<1> QED BY <1>1 DEF ImplementsReplica

=============================================================================
