------------------------------ MODULE EventBus ------------------------------
(***************************************************************************)
(* The event half of the bus: notifications get an id and a slot in a      *)
(* bounded ring, are broadcast to the per-client relays, and reach the GUI *)
(* as single events or as replays of the ring; the GUI keeps the id of the *)
(* last event it handled and the daemon session that id belongs to, and    *)
(* offers both when it reconnects.  State frames share the client's queue. *)
(***************************************************************************)
EXTENDS Naturals, Sequences, SequencesExt

CONSTANTS
  Publishers,         \* tasks that call notifications::send
  Clients,            \* GUI processes
  RingCapacity,       \* EVENT_RING_CAPACITY, of the ring and of the broadcast
  QueueCapacity,      \* CLIENT_QUEUE_CAPACITY
  MaxEvents,          \* bound on the events of one daemon session
  MaxSessions         \* bound on the number of daemon sessions

ASSUME BoundsAssumption ==
  /\ RingCapacity \in Nat \ {0} /\ QueueCapacity \in Nat \ {0, 1}
  /\ MaxEvents \in Nat /\ MaxSessions \in Nat \ {0}

VARIABLES
  session,    \* event_session_id of the running daemon
  nextId,     \* next_event_id
  ring,       \* ids of the retained events, oldest first
  sending,    \* the id each publisher still has to broadcast, 0 for none
  highest,    \* history: the highest id broadcast so far
  overtaken,  \* history: ids broadcast after a higher one
  conn,       \* "off", "subscribed" or "on"
  rx,         \* the client's event receiver
  lagged,     \* whether that receiver was overrun
  relay,      \* bus_forward_loop: "off", "run", "wait", "dead"
  held,       \* the frame the relay waits to enqueue
  outq,       \* frames queued for the client
  cursor,     \* last_event_id of the GUI
  guiSession, \* event_session_id of the GUI
  shown       \* the notifications the GUI process has shown

daemonVars == <<session, nextId, ring, sending, highest, overtaken>>
relayVars == <<conn, rx, lagged, relay, held, outq>>
guiVars == <<cursor, guiSession, shown>>
vars == <<daemonVars, relayVars, guiVars>>

EventFrame(id) == [type |-> "event", session |-> 0, ids |-> <<id>>]
ReplayFrame(ids) == [type |-> "replay", session |-> session, ids |-> ids]
StateFrame == [type |-> "state", session |-> 0, ids |-> <<>>]

\* The ids above a cursor, in their order: a SelectSeq, as a recursive function.
Above(seq, id) ==
  LET kept[n \in 0..Len(seq)] ==
        IF n = 0 THEN <<>>
        ELSE IF seq[n] > id THEN Append(kept[n - 1], seq[n]) ELSE kept[n - 1]
  IN  kept[Len(seq)]

\* DataBus::replay_events: the retained events after a cursor.
ReplayAfter(id) == Above(ring, id)

----------------------------------------------------------------------------
Init ==
  /\ session = 1 /\ nextId = 0 /\ ring = <<>>
  /\ sending = [p \in Publishers |-> 0]
  /\ highest = 0 /\ overtaken = {}
  /\ conn = [c \in Clients |-> "off"]
  /\ rx = [c \in Clients |-> <<>>]
  /\ lagged = [c \in Clients |-> FALSE]
  /\ relay = [c \in Clients |-> "off"]
  /\ held = [c \in Clients |-> StateFrame]
  /\ outq = [c \in Clients |-> <<>>]
  /\ cursor = [c \in Clients |-> 0]
  /\ guiSession = [c \in Clients |-> 0]
  /\ shown = [c \in Clients |-> <<>>]

----------------------------------------------------------------------------
(* publish_event: id and ring slot under the mutex, the broadcast after it. *)

RetainedForEver(id) == Append(ring, id)    \* without the eviction
Retained(id) ==
  IF Len(ring) = RingCapacity THEN Append(Tail(ring), id) ELSE Append(ring, id)

TakeId(p) ==
  /\ sending[p] = 0
  /\ nextId < MaxEvents
  /\ nextId' = nextId + 1
  /\ ring' = Retained(nextId + 1)
  /\ sending' = [sending EXCEPT ![p] = nextId + 1]
  /\ UNCHANGED <<session, highest, overtaken, relayVars, guiVars>>

Listening(c) == conn[c] # "off" /\ relay[c] # "dead"
Overrun(c) == Listening(c) /\ Len(rx[c]) = RingCapacity

Broadcast(p) ==
  /\ sending[p] # 0
  /\ rx' = [c \in Clients |->
       IF ~Listening(c) THEN rx[c]
       ELSE IF Overrun(c) THEN Append(Tail(rx[c]), sending[p])
       ELSE Append(rx[c], sending[p])]
  /\ lagged' = [c \in Clients |-> lagged[c] \/ Overrun(c)]
  /\ highest' = IF sending[p] > highest THEN sending[p] ELSE highest
  /\ overtaken' = IF sending[p] > highest THEN overtaken
                  ELSE overtaken \cup {sending[p]}
  /\ sending' = [sending EXCEPT ![p] = 0]
  /\ UNCHANGED <<session, nextId, ring, conn, relay, held, outq, guiVars>>

----------------------------------------------------------------------------
(* One connection: handle_client, send_event_replay and bus_forward_loop.   *)

Connect(c) ==
  /\ conn[c] = "off"
  /\ conn' = [conn EXCEPT ![c] = "subscribed"]
  /\ UNCHANGED <<daemonVars, rx, lagged, relay, held, outq, guiVars>>

\* The GUI's cursor counts only if it belongs to this daemon session: TrustedCursor
\* is the reader that compares no sessions.
TrustedCursor(c) == cursor[c]
HonouredCursor(c) == IF guiSession[c] = session THEN cursor[c] ELSE 0

\* send_bus_snapshot and send_event_replay, then the relay is spawned.
InitialReplay(c) ==
  /\ conn[c] = "subscribed"
  /\ conn' = [conn EXCEPT ![c] = "on"]
  /\ outq' = [outq EXCEPT ![c] =
       @ \o <<StateFrame, ReplayFrame(ReplayAfter(HonouredCursor(c)))>>]
  /\ relay' = [relay EXCEPT ![c] = "run"]
  /\ UNCHANGED <<daemonVars, rx, lagged, held, guiVars>>

HasRoom(c) == Len(outq[c]) < QueueCapacity

\* An event that does not fit is replaced by a replay of the whole ring, not
\* dropped as in DropEventWhenFull.
DropEventWhenFull(c) ==
  /\ relay[c] = "run" /\ ~lagged[c] /\ rx[c] # <<>>
  /\ rx' = [rx EXCEPT ![c] = Tail(@)]
  /\ outq' = IF HasRoom(c) THEN [outq EXCEPT ![c] = Append(@, EventFrame(Head(rx[c])))]
             ELSE outq
  /\ UNCHANGED <<daemonVars, conn, lagged, relay, held, guiVars>>
ForwardEvent(c) ==
  /\ relay[c] = "run" /\ ~lagged[c] /\ rx[c] # <<>>
  /\ rx' = [rx EXCEPT ![c] = Tail(@)]
  /\ \/ /\ HasRoom(c)
        /\ outq' = [outq EXCEPT ![c] = Append(@, EventFrame(Head(rx[c])))]
        /\ UNCHANGED <<relay, held>>
     \/ /\ ~HasRoom(c)
        /\ relay' = [relay EXCEPT ![c] = "wait"]
        /\ held' = [held EXCEPT ![c] = ReplayFrame(ReplayAfter(0))]
        /\ UNCHANGED outq
  /\ UNCHANGED <<daemonVars, conn, lagged, guiVars>>

ForwardLagged(c) ==
  /\ relay[c] = "run" /\ lagged[c]
  /\ lagged' = [lagged EXCEPT ![c] = FALSE]
  /\ relay' = [relay EXCEPT ![c] = "wait"]
  /\ held' = [held EXCEPT ![c] = ReplayFrame(ReplayAfter(0))]
  /\ UNCHANGED <<daemonVars, conn, rx, outq, guiVars>>

\* The relay's transaction branch found the queue full and waits with a snapshot.
ForwardStateBlocked(c) ==
  /\ relay[c] = "run" /\ ~HasRoom(c)
  /\ relay' = [relay EXCEPT ![c] = "wait"]
  /\ held' = [held EXCEPT ![c] = StateFrame]
  /\ UNCHANGED <<daemonVars, conn, rx, lagged, outq, guiVars>>

CapacityReady(c) ==
  /\ relay[c] = "wait" /\ HasRoom(c)
  /\ outq' = [outq EXCEPT ![c] = Append(@, held[c])]
  /\ relay' = [relay EXCEPT ![c] = "run"]
  /\ held' = [held EXCEPT ![c] = StateFrame]
  /\ UNCHANGED <<daemonVars, conn, rx, lagged, guiVars>>

CapacityTimeout(c) ==
  /\ relay[c] = "wait" /\ ~HasRoom(c)
  /\ relay' = [relay EXCEPT ![c] = "dead"]
  /\ held' = [held EXCEPT ![c] = StateFrame]
  /\ rx' = [rx EXCEPT ![c] = <<>>]
  /\ lagged' = [lagged EXCEPT ![c] = FALSE]
  /\ UNCHANGED <<daemonVars, conn, outq, guiVars>>

\* Transactions and replies take slots of the same queue.
QueueState(c) ==
  /\ conn[c] = "on" /\ relay[c] # "wait" /\ HasRoom(c)
  /\ outq' = [outq EXCEPT ![c] = Append(@, StateFrame)]
  /\ UNCHANGED <<daemonVars, conn, rx, lagged, relay, held, guiVars>>

----------------------------------------------------------------------------
(* The GUI: handle_json, handle_bus_event and reconnect_loop.               *)

\* handle_bus_event over the events of a frame: an id at or below the cursor is
\* dropped (AfterInclusive is off by one), any other is shown and becomes the cursor.
AfterInclusive(seq, id) == SelectSeq(seq, LAMBDA e : e >= id)
After(seq, id) == Above(seq, id)
Highest(seq, id) == IF seq = <<>> THEN id ELSE Last(seq)
Handled(c, ids, from) ==
  /\ cursor' = [cursor EXCEPT ![c] = Highest(After(ids, from), from)]
  /\ shown' = [shown EXCEPT ![c] = @ \o [i \in DOMAIN After(ids, from) |->
                  [session |-> guiSession'[c], id |-> After(ids, from)[i]]]]

GuiReceive(c) ==
  /\ conn[c] = "on" /\ outq[c] # <<>>
  /\ outq' = [outq EXCEPT ![c] = Tail(@)]
  /\ LET frame == Head(outq[c])
     IN \/ /\ frame.type = "event"
           /\ guiSession' = guiSession
           /\ Handled(c, frame.ids, cursor[c])
        \/ /\ frame.type = "replay"
           /\ guiSession' = [guiSession EXCEPT ![c] = frame.session]
           /\ Handled(c, frame.ids,
                      IF guiSession[c] = frame.session THEN cursor[c] ELSE 0)
        \/ /\ frame.type = "state"
           /\ UNCHANGED guiVars
  /\ UNCHANGED <<daemonVars, conn, rx, lagged, relay, held>>

HangUp(c) ==
  /\ conn' = [conn EXCEPT ![c] = "off"]
  /\ rx' = [rx EXCEPT ![c] = <<>>]
  /\ lagged' = [lagged EXCEPT ![c] = FALSE]
  /\ relay' = [relay EXCEPT ![c] = "off"]
  /\ held' = [held EXCEPT ![c] = StateFrame]
  /\ outq' = [outq EXCEPT ![c] = <<>>]

\* The connection breaks; the GUI keeps its cursor for the next one.
Disconnect(c) ==
  /\ conn[c] # "off"
  /\ HangUp(c)
  /\ UNCHANGED <<daemonVars, guiVars>>

\* The GUI process is closed and started again; one that has shown nothing is as good
\* as a new one.
GuiRestart(c) ==
  /\ shown[c] # <<>>
  /\ HangUp(c)
  /\ cursor' = [cursor EXCEPT ![c] = 0]
  /\ guiSession' = [guiSession EXCEPT ![c] = 0]
  /\ shown' = [shown EXCEPT ![c] = <<>>]
  /\ UNCHANGED daemonVars

DaemonRestart ==
  /\ session < MaxSessions
  /\ session' = session + 1
  /\ nextId' = 0 /\ ring' = <<>> /\ highest' = 0 /\ overtaken' = {}
  /\ sending' = [p \in Publishers |-> 0]
  /\ conn' = [c \in Clients |-> "off"]
  /\ rx' = [c \in Clients |-> <<>>]
  /\ lagged' = [c \in Clients |-> FALSE]
  /\ relay' = [c \in Clients |-> "off"]
  /\ held' = [c \in Clients |-> StateFrame]
  /\ outq' = [c \in Clients |-> <<>>]
  /\ UNCHANGED guiVars

----------------------------------------------------------------------------
Forward(c) == ForwardEvent(c) \/ ForwardLagged(c)

Next ==
  \/ \E p \in Publishers : TakeId(p) \/ Broadcast(p)
  \/ \E c \in Clients :
       \/ Connect(c) \/ InitialReplay(c)
       \/ Forward(c) \/ ForwardStateBlocked(c)
       \/ CapacityReady(c) \/ CapacityTimeout(c) \/ QueueState(c)
       \/ GuiReceive(c) \/ Disconnect(c) \/ GuiRestart(c)
  \/ DaemonRestart

Spec == Init /\ [][Next]_vars

\* As in StateBus: tasks run, the GUI drains its socket, select! is fair.
Fairness ==
  /\ \A p \in Publishers : WF_vars(Broadcast(p))
  /\ \A c \in Clients :
       /\ WF_vars(InitialReplay(c)) /\ WF_vars(CapacityReady(c))
       /\ SF_vars(Forward(c))
       /\ WF_vars(GuiReceive(c))

FairSpec == Spec /\ Fairness

----------------------------------------------------------------------------
(* Properties.                                                              *)

FrameOK(f) == /\ f.type \in {"event", "replay", "state"}
              /\ f.session \in 0..MaxSessions
              /\ \A i \in DOMAIN f.ids : f.ids[i] \in 1..MaxEvents

\* Types, and the bounds of the ring, the receivers and the client queues.
TypeOK ==
  /\ session \in 1..MaxSessions /\ nextId \in 0..MaxEvents
  /\ sending \in [Publishers -> 0..MaxEvents]
  /\ Len(ring) <= RingCapacity /\ \A i \in DOMAIN ring : ring[i] \in 1..nextId
  /\ conn \in [Clients -> {"off", "subscribed", "on"}]
  /\ relay \in [Clients -> {"off", "run", "wait", "dead"}]
  /\ lagged \in [Clients -> BOOLEAN]
  /\ cursor \in [Clients -> 0..MaxEvents]
  /\ guiSession \in [Clients -> 0..MaxSessions]
  /\ \A c \in Clients :
       /\ Len(rx[c]) <= RingCapacity /\ Len(outq[c]) <= QueueCapacity
       /\ \A i \in DOMAIN outq[c] : FrameOK(outq[c][i])
       /\ FrameOK(held[c])

\* A GUI process shows each notification at most once, those of one daemon
\* session in the order of their ids, however often the ring is replayed.
ShownOnceInOrder ==
  \A c \in Clients : \A i, j \in DOMAIN shown[c] :
    (i < j /\ shown[c][i].session = shown[c][j].session)
      => shown[c][i].id < shown[c][j].id

Shown(c, id) == \E i \in DOMAIN shown[c] : shown[c][i] = [session |-> session, id |-> id]

\* A client that is caught up: nothing queued for it, nothing being sent.
CaughtUp(c) ==
  /\ conn[c] = "on" /\ relay[c] = "run" /\ ~lagged[c]
  /\ rx[c] = <<>> /\ outq[c] = <<>>
  /\ \A p \in Publishers : sending[p] = 0

\* A caught-up GUI has shown every retained notification, save those that a
\* concurrent publisher overtook between the ring and the broadcast.
RetainedShownUnlessOvertaken ==
  \A c \in Clients : CaughtUp(c) =>
    \A i \in DOMAIN ring : ring[i] \in overtaken \/ Shown(c, ring[i])

\* What nobody may count on being shown: overtaken, or about to be.
Late == overtaken \cup {id \in 1..highest : \E p \in Publishers : sending[p] = id}

\* The whole path implements NotificationFeed: whatever is replayed, overrun, lost with a
\* connection or queued twice, a GUI shows more of the notifications of the running
\* daemon, each once and in order, and nothing before what is retained from before it.
Feed == INSTANCE NotificationFeed
        WITH given <- nextId, retained <- ToSet(ring), late <- Late, seen <- shown
ImplementsFeed == Feed!Spec

\* A retained notification that is never overtaken is shown to every client that
\* stays connected with a live relay, unless the ring evicts it first.
EventuallyShown ==
  \A c \in Clients : \A id \in 1..MaxEvents :
    <>[](conn[c] # "off" /\ relay[c] # "dead") =>
      [](id \in ToSet(ring) ~> (id \in overtaken \/ id \notin ToSet(ring) \/ Shown(c, id)))
=============================================================================
