------------------------------ MODULE DataBus ------------------------------
(***************************************************************************)
(* The plugin-data half of the data bus: retained records that producers   *)
(* publish, refresh, invalidate and lose, under ownership, quotas and a    *)
(* rate limit; change announcements that are sent after the bus mutex is   *)
(* released, coalesced within a record's notify interval; the tasks that   *)
(* announce that a record has gone stale; and the observer that refreshes  *)
(* the plugin list the GUI shows.                                          *)
(*                                                                         *)
(* A value is its payload size in bytes.  Ages are saturating counts of    *)
(* ticks.  The delay of a timer is not kept: a stale task checks the age   *)
(* itself, a coalescing task may fire at any time after it is scheduled.   *)
(***************************************************************************)
EXTENDS Integers, Sequences, FiniteSets, Functions

CONSTANTS
  Keys, HostKeys,     \* record keys, and those under "host."
  Callers,            \* threads that call the bus
  Host, Plugins,      \* owners: the host itself and the plugins
  OwnerOf,            \* the owner a caller acts for
  Declared,           \* the keys a caller may publish (manifest provides)
  InRuntime,          \* callers that run inside the tokio runtime
  Values,             \* payload sizes
  KeyBytes, ReasonBytes,           \* retained_bytes: per record, per reason
  MaxOwnerRecords, MaxRecords, MaxOwnerBytes, MaxBytes,
  Word,               \* usize::MAX + 1
  PublishInterval,    \* MIN_PUBLISH_INTERVAL, in ticks
  NotifyInterval,     \* min_notify_interval, in ticks
  StaleAfter,         \* stale_after, in ticks
  MaxStamp            \* bound on the number of publications and invalidations

ASSUME DataAssumption ==
  /\ IsFiniteSet(Keys) /\ Keys # {} /\ HostKeys \subseteq Keys /\ Host \notin Plugins
  /\ OwnerOf \in [Callers -> Plugins \cup {Host}]
  /\ Declared \in [Callers -> SUBSET Keys]
  /\ InRuntime \subseteq Callers
  /\ Values \subseteq Nat \ {0} /\ KeyBytes \in Nat /\ ReasonBytes \in Nat
  /\ MaxRecords \in Nat /\ Word \in Nat \ {0} /\ MaxBytes \in 0..(Word - 1)
  /\ PublishInterval \in Nat /\ NotifyInterval \in Nat /\ StaleAfter \in Nat \ {0}

VARIABLES
  records,     \* key -> record, or None
  recordBytes, \* Inner.record_bytes
  ownerBytes,  \* Inner.owner_bytes, 0 for an owner without an entry
  revision,
  stamp,       \* number of publications so far: published_instant
  call,        \* what each caller still has to do in its current call
  timers,      \* sleeping stale tasks
  coalescing,  \* number of sleeping coalescing tasks of each key
  announcing,  \* announcements timers have yet to send
  due,         \* the observer has unread changes
  unread,      \* keys its projection has still to read
  summary      \* the record statuses the plugin list shows

vars == <<records, recordBytes, ownerBytes, revision, stamp, call, timers,
          coalescing, announcing, due, unread, summary>>

accounts == <<recordBytes, ownerBytes>>
observer == <<unread, summary>>

None == [owner |-> Host, value |-> 0, bytes |-> 0, rev |-> 0, stamp |-> 0, age |-> 0,
         told |-> 0, pending |-> FALSE, task |-> 0, stale |-> FALSE]
Exists(k) == records[k].rev # 0
Held == {k \in Keys : Exists(k)}
OwnedBy(o) == {k \in Held : records[k].owner = o}

NoCall == [todo |-> <<>>, key |-> CHOOSE k \in Keys : TRUE, rev |-> 0, stamp |-> 0,
           coalesce |-> FALSE, victims |-> {}, of |-> Host]
Idle(c) == call[c] = NoCall
Call(todo, k, rev, st, coalesce) ==
  IF todo = <<>> THEN NoCall
  ELSE [NoCall EXCEPT !.todo = todo, !.key = k, !.rev = rev, !.stamp = st,
                      !.coalesce = coalesce]

\* The victims invalidate_owner still has to remove; NoCall when there are none.
Removing(o, victims) ==
  IF victims = {} THEN NoCall ELSE [NoCall EXCEPT !.victims = victims, !.of = o]

\* The call of c after its next step.
Done(c) ==
  IF Len(call[c].todo) = 1 THEN Removing(call[c].of, call[c].victims)
  ELSE [call[c] EXCEPT !.todo = Tail(@)]

\* DataBus::read: staleness is a matter of age alone.
StatusOf(k) ==
  IF ~Exists(k) THEN "absent"
  ELSE IF records[k].value = 0 THEN "unavailable"
  ELSE IF records[k].age >= StaleAfter THEN "stale"
  ELSE "fresh"

\* usize subtraction as the release build does it.
Minus(a, b) == (a - b) % Word

\* AbortHandle::abort of a record's stale task. A task that is already past its
\* sleep finds another revision under the mutex and returns.
Without(task) == {t \in timers : t.stamp # task}

----------------------------------------------------------------------------
Init ==
  /\ records = [k \in Keys |-> None]
  /\ recordBytes = 0
  /\ ownerBytes = [o \in Plugins \cup {Host} |-> 0]
  /\ revision = 0 /\ stamp = 0
  /\ call = [c \in Callers |-> NoCall]
  /\ timers = {}
  /\ coalescing = [k \in Keys |-> 0]
  /\ announcing = {}
  /\ due = FALSE /\ unread = {}
  /\ summary = [k \in Keys |-> [status |-> "absent", rev |-> 0]]

----------------------------------------------------------------------------
(* publish, under the mutex.                                               *)

\* Ownership, the record counts, and the rate limit, which spares the host;
\* AdmittedUncounted leaves the counts out.
AdmittedUncounted(c, k) == Exists(k) => records[k].owner = OwnerOf[c]
Admitted(c, k) ==
  LET o == OwnerOf[c]
  IN /\ Exists(k) => records[k].owner = o
     /\ o # Host /\ ~Exists(k) => Cardinality(OwnedBy(o)) < MaxOwnerRecords
     /\ ~Exists(k) => Cardinality(Held) < MaxRecords
     /\ o # Host /\ Exists(k) /\ records[k].value # 0
          => records[k].age >= PublishInterval

Unchanged(k, v) == Exists(k) /\ records[k].value = v /\ records[k].age < StaleAfter

\* What install_stale_notification has to do: nothing outside the runtime.
ForgetInstall(c) == <<>>    \* a publication that leaves the task out
Install(c) == IF c \in InRuntime THEN <<"spawn", "install">> ELSE <<>>

\* The value a fresh record already has: same revision, no announcement.
Refresh(c, k, v) ==
  /\ Idle(c) /\ k \in Declared[c] /\ stamp < MaxStamp
  /\ Admitted(c, k) /\ Unchanged(k, v)
  /\ stamp' = stamp + 1
  /\ timers' = Without(records[k].task)
  /\ records' = [records EXCEPT ![k].stamp = stamp', ![k].age = 0, ![k].task = 0]
  /\ call' = [call EXCEPT ![c] = Call(Install(c), k, records[k].rev, stamp', FALSE)]
  /\ UNCHANGED <<accounts, revision, coalescing, announcing, due, observer>>

\* The quotas, with the accounting's checked subtractions.
WithinQuota(c, k, bytes) ==
  LET o == OwnerOf[c]
      old == records[k].bytes
  IN /\ ownerBytes[o] >= old
     /\ o # Host => ownerBytes[o] - old + bytes <= MaxOwnerBytes
     /\ recordBytes >= old
     /\ recordBytes - old + bytes <= MaxBytes

\* Announced at once when the last announcement is old enough, else left pending
\* on a coalescing task, which is scheduled unless one is.
MayNotify(k) == ~Exists(k) \/ records[k].told >= NotifyInterval

Publish(c, k, v) ==
  LET bytes == KeyBytes + v
      notify == MayNotify(k)
      coalesce == ~notify /\ ~records[k].pending
  IN /\ Idle(c) /\ k \in Declared[c] /\ stamp < MaxStamp
     /\ Admitted(c, k) /\ ~Unchanged(k, v) /\ WithinQuota(c, k, bytes)
     /\ revision' = revision + 1
     /\ stamp' = stamp + 1
     /\ timers' = Without(records[k].task)
     /\ recordBytes' = recordBytes - records[k].bytes + bytes
     /\ ownerBytes' = [ownerBytes EXCEPT ![OwnerOf[c]] = @ - records[k].bytes + bytes]
     /\ records' = [records EXCEPT ![k] =
          [owner |-> OwnerOf[c], value |-> v, bytes |-> bytes, rev |-> revision',
           stamp |-> stamp', age |-> 0, told |-> IF notify THEN 0 ELSE @.told,
           pending |-> ~notify, task |-> 0, stale |-> FALSE]]
     /\ call' = [call EXCEPT ![c] =
          Call((IF notify THEN <<"announce">> ELSE <<>>) \o Install(c), k,
               revision', stamp', coalesce)]
     /\ UNCHANGED <<coalescing, announcing, due, observer>>

\* invalidate: replaces or creates the record, touches no account and no throttle.
Invalidate(c, k) ==
  /\ Idle(c) /\ k \in Declared[c] /\ stamp < MaxStamp
  /\ Exists(k) => records[k].owner = OwnerOf[c]
  /\ ~Exists(k) => Cardinality(Held) < MaxRecords
  /\ revision' = revision + 1
  /\ stamp' = stamp + 1
  /\ timers' = Without(records[k].task)
  /\ records' = [records EXCEPT ![k] =
       [owner |-> OwnerOf[c], value |-> 0, bytes |-> KeyBytes + ReasonBytes,
        rev |-> revision', stamp |-> stamp', age |-> 0, told |-> 0,
        pending |-> FALSE, task |-> 0, stale |-> FALSE]]
  /\ call' = [call EXCEPT ![c] = Call(<<"announce">>, k, revision', stamp', FALSE)]
  /\ UNCHANGED <<accounts, coalescing, announcing, due, observer>>

\* invalidate_owner, for a plugin that is being disabled: the keys are collected
\* first, then removed one by one.
InvalidateOwner(c, o) ==
  /\ Idle(c) /\ OwnerOf[c] = Host /\ o \in Plugins /\ OwnedBy(o) # {}
  /\ call' = [call EXCEPT ![c] = Removing(o, OwnedBy(o))]
  /\ UNCHANGED <<records, accounts, revision, stamp, timers, coalescing, announcing,
                 due, observer>>

\* remove: a victim that is gone by now is passed over.
Remove(c, k) ==
  /\ call[c].todo = <<>> /\ k \in call[c].victims
  /\ LET r == records[k]
         o == call[c].of
         rest == call[c].victims \ {k}
     IN \/ /\ ~Exists(k) \/ r.owner # o
           /\ call' = [call EXCEPT ![c] = Removing(o, rest)]
           /\ UNCHANGED <<records, accounts, revision, timers>>
        \/ /\ Exists(k) /\ r.owner = o
           /\ records' = [records EXCEPT ![k] = None]
           /\ recordBytes' = Minus(recordBytes, r.bytes)
           /\ ownerBytes' = [ownerBytes EXCEPT ![o] =
                               IF @ = 0 THEN 0 ELSE Minus(@, r.bytes)]
           /\ timers' = Without(r.task)
           /\ revision' = revision + 1
           /\ call' = [call EXCEPT ![c] =
                [NoCall EXCEPT !.todo = <<"announce">>, !.key = k, !.rev = revision',
                               !.victims = rest, !.of = o]]
  /\ UNCHANGED <<stamp, coalescing, announcing, due, observer>>

----------------------------------------------------------------------------
(* The rest of a call, after the mutex is released.                        *)

Doing(c, step) == call[c].todo # <<>> /\ Head(call[c].todo) = step

\* The observer skips changes of host keys.
Heard(k) == due \/ k \notin HostKeys

Announce(c) ==
  /\ Doing(c, "announce")
  /\ due' = Heard(call[c].key)
  /\ call' = [call EXCEPT ![c] = Done(c)]
  /\ UNCHANGED <<records, accounts, revision, stamp, timers, coalescing, announcing,
                 observer>>

\* schedule_coalesced_notification and the spawn of the stale task.
Spawn(c) ==
  LET k == call[c].key
  IN /\ Doing(c, "spawn")
     /\ timers' = timers \cup {[key |-> k, rev |-> call[c].rev, stamp |-> call[c].stamp]}
     /\ coalescing' = [coalescing EXCEPT ![k] = IF call[c].coalesce THEN @ + 1 ELSE @]
     /\ call' = [call EXCEPT ![c] = Done(c)]
     /\ UNCHANGED <<records, accounts, revision, stamp, announcing, due, observer>>

\* install_stale_notification, back under the mutex: the task is the record's if
\* the publication still is, else it is aborted.
InstallTask(c) ==
  LET k == call[c].key
      mine == records[k].rev = call[c].rev /\ records[k].stamp = call[c].stamp
  IN /\ Doing(c, "install")
     /\ records' = IF mine THEN [records EXCEPT ![k].task = call[c].stamp] ELSE records
     /\ timers' = IF mine THEN timers ELSE Without(call[c].stamp)
     /\ call' = [call EXCEPT ![c] = Done(c)]
     /\ UNCHANGED <<accounts, revision, stamp, coalescing, announcing, due, observer>>

----------------------------------------------------------------------------
(* Timers, time and the observer.                                          *)

CoalesceFires(k) ==
  /\ coalescing[k] > 0
  /\ coalescing' = [coalescing EXCEPT ![k] = @ - 1]
  /\ \/ /\ ~records[k].pending
        /\ UNCHANGED <<records, announcing>>
     \/ /\ records[k].pending
        /\ records' = [records EXCEPT ![k].pending = FALSE, ![k].told = 0]
        /\ announcing' = announcing \cup
             {[key |-> k, rev |-> records[k].rev, by |-> "coalescing"]}
  /\ UNCHANGED <<accounts, revision, stamp, call, timers, due, observer>>

\* The sleep is over once the publication it was spawned for is old enough.
StaleFires(t) ==
  LET r == records[t.key]
      same == r.rev = t.rev /\ r.value # 0
  IN /\ t \in timers
     /\ same => r.age >= StaleAfter
     /\ timers' = timers \ {t}
     /\ \/ /\ ~same
           /\ UNCHANGED <<records, revision, announcing>>
        \/ /\ same
           /\ revision' = revision + 1
           /\ records' = [records EXCEPT ![t.key].rev = revision', ![t.key].task = 0,
                                         ![t.key].stale = TRUE]
           /\ announcing' = announcing \cup
                {[key |-> t.key, rev |-> revision', by |-> "stale"]}
     /\ UNCHANGED <<accounts, stamp, call, coalescing, due, observer>>

TimerAnnounces(a) ==
  /\ a \in announcing
  /\ announcing' = announcing \ {a}
  /\ due' = Heard(a.key)
  /\ UNCHANGED <<records, accounts, revision, stamp, call, timers, coalescing, observer>>

Older(age, limit) == IF age < limit THEN age + 1 ELSE age
Tick ==
  /\ records' = [k \in Keys |-> IF ~Exists(k) THEN None
       ELSE [records[k] EXCEPT !.age = Older(@, StaleAfter),
                               !.told = Older(@, NotifyInterval)]]
  /\ UNCHANGED <<accounts, revision, stamp, call, timers, coalescing, announcing, due,
                 observer>>

\* data_status::run: drain the channel, then project the plugin list, which reads
\* the records one by one.
Drain ==
  /\ due /\ unread = {}
  /\ due' = FALSE
  /\ unread' = Keys \ HostKeys
  /\ UNCHANGED <<records, accounts, revision, stamp, call, timers, coalescing,
                 announcing, summary>>

\* ReadThenDrain is the observer that drains after its projection.
ReadThenDrain(k) ==
  /\ k \in unread
  /\ unread' = unread \ {k}
  /\ summary' = [summary EXCEPT ![k] = [status |-> StatusOf(k), rev |-> records[k].rev]]
  /\ due' = FALSE
  /\ UNCHANGED <<records, accounts, revision, stamp, call, timers, coalescing,
                 announcing>>
ReadStatus(k) ==
  /\ k \in unread
  /\ unread' = unread \ {k}
  /\ summary' = [summary EXCEPT ![k] = [status |-> StatusOf(k), rev |-> records[k].rev]]
  /\ UNCHANGED <<records, accounts, revision, stamp, call, timers, coalescing,
                 announcing, due>>

----------------------------------------------------------------------------
Next ==
  \/ \E c \in Callers :
       \/ \E k \in Keys, v \in Values : Refresh(c, k, v) \/ Publish(c, k, v)
       \/ \E k \in Keys : Invalidate(c, k) \/ Remove(c, k)
       \/ \E o \in Plugins : InvalidateOwner(c, o)
       \/ Announce(c) \/ Spawn(c) \/ InstallTask(c)
  \/ \E k \in Keys : CoalesceFires(k) \/ ReadStatus(k)
  \/ \E t \in timers : StaleFires(t)
  \/ \E a \in announcing : TimerAnnounces(a)
  \/ Tick \/ Drain

Spec == Init /\ [][Next]_vars

----------------------------------------------------------------------------
(* Properties.                                                             *)

Steps == {"announce", "spawn", "install"}

Owners == Plugins \cup {Host}
Record ==
  [owner : Owners, value : Values \cup {0}, bytes : Nat, rev : 0..revision, stamp : 0..stamp,
   age : 0..StaleAfter, told : 0..NotifyInterval, pending : BOOLEAN, task : 0..stamp,
   stale : BOOLEAN]
AccountsOK ==
  /\ revision \in Nat /\ stamp \in Nat
  /\ recordBytes \in 0..(Word - 1) /\ ownerBytes \in [Owners -> Nat]
CallsOK ==
  call \in [Callers -> [todo : Seq(Steps), key : Keys, rev : 0..revision, stamp : 0..stamp,
                        coalesce : BOOLEAN, victims : SUBSET Keys, of : Owners]]
TimersOK ==
  /\ timers \subseteq [key : Keys, rev : 1..revision, stamp : 1..stamp]
  /\ coalescing \in [Keys -> Nat]
  /\ announcing \subseteq [key : Keys, rev : 1..revision, by : {"stale", "coalescing"}]
ObserverOK ==
  /\ due \in BOOLEAN /\ unread \subseteq Keys \ HostKeys
  /\ summary \in [Keys -> [status : {"absent", "unavailable", "stale", "fresh"},
                           rev : 0..revision]]

\* Types, and the bound on the number of retained records.
TypeOK ==
  /\ records \in [Keys -> Record] /\ Cardinality(Held) <= MaxRecords
  /\ AccountsOK /\ CallsOK /\ TimersOK /\ ObserverOK

\* Somebody is about to tell the observer that k changed.
Announcing(k) ==
  \/ \E c \in Callers : call[c].key = k /\ "announce" \in Range(call[c].todo)
  \/ \E a \in announcing : a.key = k

\* No change of a plugin's record is forgotten: if the plugin list is behind it,
\* the observer is about to read it, an announcement is on its way, or the record
\* is marked so that the publication that ends the interval announces it.
UnannouncedIsPending ==
  \A k \in Keys \ HostKeys : summary[k].rev # records[k].rev =>
    due \/ k \in unread \/ Announcing(k) \/ records[k].pending

\* A value the host published has a task that will announce its going stale, or
\* has been announced stale, through refreshes, races and late installations.
HostStaleGuarded ==
  \A k \in Keys : (records[k].value # 0 /\ records[k].owner = Host /\ ~records[k].stale) =>
    \/ \E t \in timers : t.key = k /\ t.rev = records[k].rev
    \/ \E c \in Callers : /\ call[c].key = k /\ call[c].stamp = records[k].stamp
                           /\ "spawn" \in Range(call[c].todo)

\* Nothing is on its way to the observer, and no timer will make it so.
Quiet ==
  /\ \A c \in Callers : Idle(c)
  /\ timers = {} /\ announcing = {} /\ \A k \in Keys : coalescing[k] = 0
  /\ ~due /\ unread = {}

\* When all is quiet the plugin list shows each record's freshness as it is, as
\* the observer's module doc has it.
QuietSummaryIsCurrent ==
  Quiet => \A k \in Keys \ HostKeys : summary[k].status = StatusOf(k)

\* What publish and remove rely on when they subtract a record's bytes, named in
\* the error texts of publish: the accounts cover every retained record.
RetainedBytesAccounted ==
  \A k \in Held : /\ records[k].bytes <= recordBytes
                  /\ records[k].bytes <= ownerBytes[records[k].owner]
=============================================================================
