--------------------------- MODULE DataBusProofs ---------------------------
(* What holds of the plugin data, for any keys, callers and limits: types and  *)
(* the number of records, that no change is forgotten, and, where the host's    *)
(* callers are all in the runtime, that its values are announced stale.         *)
EXTENDS DataBus, FiniteSetTheorems, SequenceTheorems, TLAPS

USE DEF DataAssumption

----------------------------------------------------------------------------
(* What a call can have left to do.                                          *)

Installing == {<<"spawn", "install">>, <<"announce", "spawn", "install">>}
Todos == {<<>>, <<"announce">>, <<"install">>} \cup Installing

LEMMA StepsIn ==
  /\ Range(<<>>) = {} /\ Range(<<"announce">>) = {"announce"}
  /\ Range(<<"install">>) = {"install"} /\ Range(<<"spawn", "install">>) = {"spawn", "install"}
  /\ Range(<<"announce", "spawn", "install">>) = {"announce", "spawn", "install"}
<1>1. Range(<<>>) = {}
  BY DEF Range
<1>2. Range(<<"announce">>) = {"announce"} /\ Range(<<"install">>) = {"install"}
  BY DEF Range
<1>3. Range(<<"spawn", "install">>) = {"spawn", "install"}
  BY DEF Range
<1>4. Range(<<"announce", "spawn", "install">>) = {"announce", "spawn", "install"}
  BY DEF Range
<1> QED
  BY <1>1, <1>2, <1>3, <1>4

LEMMA Joined ==
  /\ <<"announce">> \o <<"spawn", "install">> = <<"announce", "spawn", "install">>
  /\ <<>> \o <<"spawn", "install">> = <<"spawn", "install">>
  /\ <<"announce">> \o <<>> = <<"announce">> /\ <<>> \o <<>> = <<>>
<1>1. <<"announce">> \o <<"spawn", "install">> = <<"announce", "spawn", "install">>
  <2> DEFINE s == <<"announce">> \o <<"spawn", "install">>
             t == <<"announce", "spawn", "install">>
  <2>1. s \in Seq(Steps) /\ t \in Seq(Steps)
    BY DEF Steps
  <2>2. Len(s) = 3 /\ Len(t) = 3
    OBVIOUS
  <2>3. s[1] = t[1] /\ s[2] = t[2] /\ s[3] = t[3]
    OBVIOUS
  <2> HIDE DEF s, t
  <2>4. Len(s) = Len(t) /\ \A i \in 1..Len(s) : s[i] = t[i]
    BY <2>2, <2>3
  <2>5. s = t
    BY <2>1, <2>4, SeqEqual, Zenon
  <2> QED
    BY <2>5 DEF s, t
<1>2. <<>> \o <<"spawn", "install">> = <<"spawn", "install">>
  OBVIOUS
<1>3. <<"announce">> \o <<>> = <<"announce">>
  OBVIOUS
<1>4. <<>> \o <<>> = <<>>
  OBVIOUS
<1> QED
  BY <1>1, <1>2, <1>3, <1>4

LEMMA TodoFacts ==
  ASSUME NEW todo \in Todos
  PROVE  /\ todo \in Seq(Steps)
         /\ todo # <<>> => /\ Len(todo) = 1 <=> todo \in {<<"announce">>, <<"install">>}
                           /\ Len(todo) # 1 => Tail(todo) \in Todos \ {<<>>, <<"announce">>}
         /\ (todo # <<>> /\ Head(todo) = "announce" /\ Len(todo) # 1) =>
              todo \in Installing /\ Tail(todo) \in Installing
         /\ (todo # <<>> /\ Head(todo) = "announce") => todo # <<"install">>
         /\ (todo # <<>> /\ Head(todo) = "spawn") =>
              todo = <<"spawn", "install">> /\ Tail(todo) = <<"install">> /\ Len(todo) # 1
         /\ (todo # <<>> /\ Head(todo) = "install") => todo = <<"install">> /\ Len(todo) = 1
         /\ "announce" \in Range(todo) <=>
              todo \in {<<"announce">>, <<"announce", "spawn", "install">>}
         /\ "spawn" \in Range(todo) <=> todo \in Installing
<1> USE StepsIn DEF Todos, Installing, Steps
<1>1. CASE todo = <<>>
  BY <1>1
<1>2. CASE todo = <<"announce">>
  BY <1>2
<1>3. CASE todo = <<"install">>
  BY <1>3
<1>4. CASE todo = <<"spawn", "install">>
  BY <1>4
<1>5. CASE todo = <<"announce", "spawn", "install">>
  BY <1>5
<1> QED
  BY <1>1, <1>2, <1>3, <1>4, <1>5

----------------------------------------------------------------------------
(* Types.                                                                    *)

\* A call that has something to do is about a revision, and about a publication unless
\* it only announces.
Sound(n) == /\ n.todo \in Todos
            /\ n.todo # <<>> => n.rev # 0
            /\ n.todo \notin {<<>>, <<"announce">>} => n.stamp # 0
CallInv == \A c \in Callers : Sound(call[c])

AbsentIsNone == \A k \in Keys : records[k].rev = 0 => records[k] = None

TypeInv == TypeOK /\ CallInv /\ AbsentIsNone

LEMMA AccountsStep ==
  TypeOK /\ [Next]_vars => AccountsOK' /\ revision' >= revision /\ stamp' >= stamp
<1> SUFFICES ASSUME TypeOK, [Next]_vars
             PROVE  AccountsOK' /\ revision' >= revision /\ stamp' >= stamp
  OBVIOUS
<1> USE DEF AccountsOK
<1>t. /\ revision \in Nat /\ stamp \in Nat /\ recordBytes \in 0..(Word - 1)
      /\ ownerBytes \in [Owners -> Nat]
      /\ \A k \in Keys : records[k].bytes \in Nat
      /\ \A c \in Callers : call[c].of \in Owners /\ OwnerOf[c] \in Owners
  <2>1. \A k \in Keys : records[k] \in Record
    BY DEF TypeOK
  <2>2. \A k \in Keys : records[k].bytes \in Nat
    BY <2>1 DEF Record
  <2>3. \A c \in Callers : call[c].of \in Owners
    BY DEF TypeOK, CallsOK
  <2>4. \A c \in Callers : OwnerOf[c] \in Owners
    BY DataAssumption DEF Owners
  <2> QED
    BY <2>2, <2>3, <2>4 DEF TypeOK
<1>1. ASSUME NEW c \in Callers, NEW k \in Keys, NEW v \in Values, Refresh(c, k, v)
      PROVE  AccountsOK' /\ revision' >= revision /\ stamp' >= stamp
  BY <1>1, <1>t DEF Refresh, accounts
<1>2. ASSUME NEW c \in Callers, NEW k \in Keys, NEW v \in Values, Publish(c, k, v)
      PROVE  AccountsOK' /\ revision' >= revision /\ stamp' >= stamp
  <2>1. /\ recordBytes' = recordBytes - records[k].bytes + (KeyBytes + v)
        /\ recordBytes >= records[k].bytes /\ recordBytes' <= MaxBytes
        /\ ownerBytes' = [ownerBytes EXCEPT ![OwnerOf[c]] = @ - records[k].bytes + (KeyBytes + v)]
        /\ ownerBytes[OwnerOf[c]] >= records[k].bytes
        /\ revision' = revision + 1 /\ stamp' = stamp + 1
    BY <1>2 DEF Publish, WithinQuota
  <2>2. KeyBytes + v \in Nat
    BY DataAssumption
  <2>3. ownerBytes[OwnerOf[c]] - records[k].bytes + (KeyBytes + v) \in Nat
    BY <2>1, <2>2, <1>t
  <2>4. ownerBytes' \in [Owners -> Nat]
    BY <2>1, <2>3, <1>t
  <2>5. recordBytes' \in 0..(Word - 1)
    BY <2>1, <2>2, <1>t, DataAssumption
  <2> QED
    BY <2>1, <2>4, <2>5, <1>t
<1>3. ASSUME NEW c \in Callers, NEW k \in Keys, Invalidate(c, k)
      PROVE  AccountsOK' /\ revision' >= revision /\ stamp' >= stamp
  BY <1>3, <1>t DEF Invalidate, accounts
<1>4. ASSUME NEW c \in Callers, NEW k \in Keys, Remove(c, k)
      PROVE  AccountsOK' /\ revision' >= revision /\ stamp' >= stamp
  <2>w. recordBytes \in Nat /\ records[k].bytes \in Nat /\ ownerBytes[call[c].of] \in Nat
    BY <1>t, DataAssumption
  <2>1. \A a, b \in Nat : Minus(a, b) \in 0..(Word - 1)
    BY DataAssumption DEF Minus
  <2>2. CASE accounts' = accounts /\ revision' = revision /\ stamp' = stamp
    BY <2>2, <1>t DEF accounts
  <2>3. CASE /\ recordBytes' = Minus(recordBytes, records[k].bytes)
             /\ ownerBytes' = [ownerBytes EXCEPT ![call[c].of] =
                                 IF @ = 0 THEN 0 ELSE Minus(@, records[k].bytes)]
             /\ revision' = revision + 1 /\ stamp' = stamp
    <3>1. recordBytes' \in 0..(Word - 1)
      BY <2>1, <2>3, <2>w
    <3>2. (IF ownerBytes[call[c].of] = 0 THEN 0
           ELSE Minus(ownerBytes[call[c].of], records[k].bytes)) \in Nat
      <4>1. Minus(ownerBytes[call[c].of], records[k].bytes) \in 0..(Word - 1)
        BY <2>1, <2>w
      <4> QED
        BY <4>1, DataAssumption
    <3>3. ownerBytes' \in [Owners -> Nat]
      BY <2>3, <3>2, <1>t
    <3> QED
      BY <2>3, <3>1, <3>3, <1>t
  <2> QED
    BY <1>4, <2>2, <2>3 DEF Remove, accounts
<1>5. ASSUME NEW t \in timers, StaleFires(t)
      PROVE  AccountsOK' /\ revision' >= revision /\ stamp' >= stamp
  BY <1>5, <1>t DEF StaleFires, accounts
<1>6. ASSUME UNCHANGED <<accounts, revision, stamp>>
      PROVE  AccountsOK' /\ revision' >= revision /\ stamp' >= stamp
  BY <1>6, <1>t DEF accounts
<1>7. ASSUME NEW c \in Callers, \/ \E o \in Plugins : InvalidateOwner(c, o)
                                \/ Announce(c) \/ Spawn(c) \/ InstallTask(c)
      PROVE  UNCHANGED <<accounts, revision, stamp>>
  BY <1>7 DEF InvalidateOwner, Announce, Spawn, InstallTask
<1>8. ASSUME NEW k \in Keys, CoalesceFires(k) \/ ReadStatus(k)
      PROVE  UNCHANGED <<accounts, revision, stamp>>
  BY <1>8 DEF CoalesceFires, ReadStatus
<1>9. ASSUME Tick \/ Drain \/ (\E a \in announcing : TimerAnnounces(a)) \/ UNCHANGED vars
      PROVE  UNCHANGED <<accounts, revision, stamp>>
  BY <1>9 DEF Tick, Drain, TimerAnnounces, vars, accounts
<1> QED
  BY <1>1, <1>2, <1>3, <1>4, <1>5, <1>6, <1>7, <1>8, <1>9 DEF Next

\* What is well typed stays so as revisions and publications are counted on.
LEMMA Grows ==
  ASSUME AccountsOK, AccountsOK', revision' >= revision, stamp' >= stamp
  PROVE  /\ 0..revision \subseteq 0..revision' /\ 1..revision \subseteq 1..revision'
         /\ 0..stamp \subseteq 0..stamp' /\ 1..stamp \subseteq 1..stamp'
         /\ Record \subseteq Record'
<1>1. /\ 0..revision \subseteq 0..revision' /\ 1..revision \subseteq 1..revision'
      /\ 0..stamp \subseteq 0..stamp' /\ 1..stamp \subseteq 1..stamp'
  BY DEF AccountsOK
<1>2. Record \subseteq Record'
  BY <1>1 DEF Record, Owners
<1> QED
  BY <1>1, <1>2

RecordsOK == records \in [Keys -> Record] /\ AbsentIsNone

LEMMA RecordsStep == TypeInv /\ [Next]_vars => RecordsOK'
<1> SUFFICES ASSUME TypeInv, [Next]_vars PROVE RecordsOK'
  OBVIOUS
<1>g. /\ AccountsOK /\ AccountsOK' /\ revision' >= revision /\ stamp' >= stamp
      /\ revision \in Nat /\ stamp \in Nat /\ revision' \in Nat /\ stamp' \in Nat
  BY AccountsStep DEF TypeInv, TypeOK, AccountsOK
<1>r. Record \subseteq Record'
  BY <1>g, Grows
<1>t. /\ records \in [Keys -> Record] /\ records \in [Keys -> Record'] /\ AbsentIsNone
      /\ \A c \in Callers : /\ call[c].key \in Keys /\ call[c].stamp \in 0..stamp
                            /\ OwnerOf[c] \in Owners
      /\ \A t \in timers : t.key \in Keys /\ t.rev \in 1..revision
  <2>1. \A c \in Callers : call[c].key \in Keys /\ call[c].stamp \in 0..stamp
    BY DEF TypeInv, TypeOK, CallsOK
  <2>2. \A t \in timers : t.key \in Keys /\ t.rev \in 1..revision
    BY DEF TypeInv, TypeOK, TimersOK
  <2>3. records \in [Keys -> Record] /\ AbsentIsNone
    BY DEF TypeInv, TypeOK
  <2>4. \A c \in Callers : OwnerOf[c] \in Owners
    BY DataAssumption DEF Owners
  <2> QED
    BY <2>1, <2>2, <2>3, <2>4, <1>r
<1>n. /\ None \in Record' /\ NotifyInterval \in Nat /\ StaleAfter \in Nat /\ KeyBytes \in Nat
      /\ ReasonBytes \in Nat /\ Values \subseteq Nat
  BY <1>g, DataAssumption DEF None, Record, Owners
\* It is enough to look at the record that changes.
<1>o. ASSUME NEW k \in Keys, NEW r \in Record', records' = [records EXCEPT ![k] = r],
             r.rev # 0 \/ r = None
      PROVE  RecordsOK'
  BY <1>o, <1>t DEF RecordsOK, AbsentIsNone, None
<1>s. ASSUME records' = records PROVE RecordsOK'
  BY <1>s, <1>t DEF RecordsOK, AbsentIsNone, None
<1>1. ASSUME NEW c \in Callers, NEW k \in Keys, NEW v \in Values, Refresh(c, k, v)
      PROVE  RecordsOK'
  <2> DEFINE r == [records[k] EXCEPT !.stamp = stamp', !.age = 0, !.task = 0]
  <2>1. records' = [records EXCEPT ![k] = r] /\ records[k].rev # 0
    BY <1>1, <1>t DEF Refresh, Unchanged, Exists
  <2>2. r \in Record' /\ r.rev = records[k].rev
    <3>1. records[k] \in Record' /\ stamp' \in 0..stamp' /\ 0 \in 0..stamp'
          /\ 0 \in 0..StaleAfter /\ 0 \in 0..NotifyInterval
      BY <1>t, <1>g, <1>n
    <3> QED
      BY <3>1 DEF Record
  <2> HIDE DEF r
  <2> QED
    BY <2>1, <2>2, <1>o
<1>2. ASSUME NEW c \in Callers, NEW k \in Keys, NEW v \in Values, Publish(c, k, v)
      PROVE  RecordsOK'
  <2> DEFINE r == [owner |-> OwnerOf[c], value |-> v, bytes |-> KeyBytes + v, rev |-> revision',
                   stamp |-> stamp', age |-> 0, told |-> IF MayNotify(k) THEN 0 ELSE records[k].told,
                   pending |-> ~MayNotify(k), task |-> 0, stale |-> FALSE]
  <2>1. records' = [records EXCEPT ![k] = r] /\ revision' # 0
    BY <1>2, <1>t, <1>g DEF Publish
  <2>2. /\ v \in Nat /\ KeyBytes + v \in Nat /\ MayNotify(k) \in BOOLEAN
        /\ records[k].told \in 0..NotifyInterval
    BY <1>t, <1>n DEF Record, MayNotify, Exists
  <2>3. r \in Record' /\ r.rev = revision'
    BY <1>t, <1>g, <1>n, <2>2 DEF Record
  <2> HIDE DEF r
  <2> QED
    BY <2>1, <2>3, <1>o
<1>3. ASSUME NEW c \in Callers, NEW k \in Keys, Invalidate(c, k)
      PROVE  RecordsOK'
  <2> DEFINE r == [owner |-> OwnerOf[c], value |-> 0, bytes |-> KeyBytes + ReasonBytes,
                   rev |-> revision', stamp |-> stamp', age |-> 0, told |-> 0,
                   pending |-> FALSE, task |-> 0, stale |-> FALSE]
  <2>1. records' = [records EXCEPT ![k] = r] /\ revision' # 0
    BY <1>3, <1>t, <1>g DEF Invalidate
  <2>2. r \in Record' /\ r.rev = revision'
    BY <1>t, <1>g, <1>n DEF Record
  <2> HIDE DEF r
  <2> QED
    BY <2>1, <2>2, <1>o
<1>4. ASSUME NEW c \in Callers, NEW k \in Keys, Remove(c, k)
      PROVE  RecordsOK'
  <2>1. records' = [records EXCEPT ![k] = None] \/ records' = records
    BY <1>4 DEF Remove
  <2> QED
    BY <2>1, <1>o, <1>s, <1>n
<1>5. ASSUME NEW c \in Callers, InstallTask(c)
      PROVE  RecordsOK'
  <2> DEFINE k == call[c].key
             r == [records[k] EXCEPT !.task = call[c].stamp]
  <2>1. records' = [records EXCEPT ![k] = r] \/ records' = records
    BY <1>5, <1>t DEF InstallTask
  <2>2. r \in Record' /\ r.rev = records[k].rev
    <3>1. records[k] \in Record' /\ call[c].stamp \in 0..stamp'
      BY <1>t, <1>g
    <3> QED
      BY <3>1 DEF Record
  <2>3. CASE records[k].rev = 0
    <3>1. CallInv /\ call[c].todo # <<>>
      BY <1>5 DEF TypeInv, InstallTask, Doing
    <3>2. call[c].rev # 0
      BY <3>1 DEF CallInv, Sound
    <3> QED
      BY <3>2, <2>3, <1>5, <1>s DEF InstallTask
  <2> HIDE DEF r
  <2> QED
    BY <2>1, <2>2, <2>3, <1>o, <1>s, <1>t
<1>6. ASSUME NEW k \in Keys, CoalesceFires(k)
      PROVE  RecordsOK'
  <2> DEFINE r == [records[k] EXCEPT !.pending = FALSE, !.told = 0]
  <2>1. (records' = [records EXCEPT ![k] = r] /\ records[k].pending) \/ records' = records
    BY <1>6, <1>t DEF CoalesceFires
  <2>2. r \in Record' /\ r.rev = records[k].rev
    <3>1. records[k] \in Record' /\ stamp' \in 0..stamp' /\ 0 \in 0..stamp'
          /\ 0 \in 0..StaleAfter /\ 0 \in 0..NotifyInterval
      BY <1>t, <1>g, <1>n
    <3> QED
      BY <3>1 DEF Record
  <2>3. records[k].pending => records[k].rev # 0
    BY <1>t DEF AbsentIsNone, None
  <2> HIDE DEF r
  <2> QED
    BY <2>1, <2>2, <2>3, <1>o, <1>s
<1>7. ASSUME NEW t \in timers, StaleFires(t)
      PROVE  RecordsOK'
  <2> DEFINE k == t.key
             r == [records[k] EXCEPT !.rev = revision', !.task = 0, !.stale = TRUE]
  <2>1. (records' = [records EXCEPT ![k] = r] /\ revision' = revision + 1) \/ records' = records
    BY <1>7, <1>t DEF StaleFires
  <2>2. r \in Record' /\ r.rev = revision' /\ k \in Keys
    <3>1. records[k] \in Record' /\ revision' \in 0..revision' /\ 0 \in 0..stamp' /\ k \in Keys
      BY <1>t, <1>g
    <3> QED
      BY <3>1 DEF Record
  <2> HIDE DEF r, k
  <2> QED
    BY <2>1, <2>2, <1>o, <1>s, <1>g
<1>8. CASE Tick
  <2>1. ASSUME NEW k \in Keys, records[k].rev # 0
        PROVE  records'[k] \in Record' /\ records'[k].rev # 0
    <3>1. /\ records[k] \in Record' /\ records[k].age \in 0..StaleAfter
          /\ records[k].told \in 0..NotifyInterval
      BY <1>t DEF Record
    <3>2. Older(records[k].age, StaleAfter) \in 0..StaleAfter
          /\ Older(records[k].told, NotifyInterval) \in 0..NotifyInterval
      BY <3>1, <1>n DEF Older
    <3>3. records'[k] = [records[k] EXCEPT !.age = Older(@, StaleAfter),
                                           !.told = Older(@, NotifyInterval)]
      BY <1>8, <2>1 DEF Tick, Exists
    <3> QED
      BY <3>1, <3>2, <3>3, <2>1 DEF Record
  <2>2. ASSUME NEW k \in Keys, records[k].rev = 0 PROVE records'[k] = None
    BY <1>8, <2>2 DEF Tick, Exists
  <2>3. records' = [k \in Keys |-> records'[k]]
    BY <1>8 DEF Tick
  <2> QED
    BY <2>1, <2>2, <2>3, <1>n DEF RecordsOK, AbsentIsNone
<1>9. ASSUME NEW c \in Callers, \/ \E o \in Plugins : InvalidateOwner(c, o)
                                \/ Announce(c) \/ Spawn(c)
      PROVE  RecordsOK'
  BY <1>9, <1>s DEF InvalidateOwner, Announce, Spawn
<1>10. ASSUME Drain \/ (\E a \in announcing : TimerAnnounces(a)) \/ UNCHANGED vars
              \/ \E k \in Keys : ReadStatus(k)
       PROVE  RecordsOK'
  BY <1>10, <1>s DEF Drain, TimerAnnounces, vars, ReadStatus
<1> QED
  BY <1>1, <1>2, <1>3, <1>4, <1>5, <1>6, <1>7, <1>8, <1>9, <1>10 DEF Next

CallRecord ==
  [todo : Seq(Steps), key : Keys, rev : 0..revision, stamp : 0..stamp, coalesce : BOOLEAN,
   victims : SUBSET Keys, of : Owners]

LEMMA CallsStep == TypeInv /\ [Next]_vars => CallsOK' /\ CallInv'
<1> SUFFICES ASSUME TypeInv, [Next]_vars PROVE CallsOK' /\ CallInv'
  OBVIOUS
<1>g. /\ AccountsOK /\ AccountsOK' /\ revision' >= revision /\ stamp' >= stamp
      /\ revision \in Nat /\ stamp \in Nat /\ revision' \in Nat /\ stamp' \in Nat
  BY AccountsStep DEF TypeInv, TypeOK, AccountsOK
<1>r. CallRecord \subseteq CallRecord'
  BY <1>g, Grows DEF CallRecord, Owners
<1>t. /\ call \in [Callers -> CallRecord] /\ call \in [Callers -> CallRecord']
      /\ \A c \in Callers : Sound(call[c])
      /\ \A k \in Keys : records[k].rev \in 0..revision
  <2>1. \A k \in Keys : records[k] \in Record
    BY DEF TypeInv, TypeOK
  <2>2. \A k \in Keys : records[k].rev \in 0..revision
    BY <2>1 DEF Record
  <2>3. call \in [Callers -> CallRecord] /\ CallInv
    BY DEF TypeInv, TypeOK, CallsOK, CallRecord
  <2> QED
    BY <2>2, <2>3, <1>r DEF CallInv
\* It is enough to look at the call that changes.
<1>o. ASSUME NEW c \in Callers, NEW n \in CallRecord', Sound(n), call' = [call EXCEPT ![c] = n]
      PROVE  CallsOK' /\ CallInv'
  <2>1. call' \in [Callers -> CallRecord']
    BY <1>o, <1>t
  <2>2. \A d \in Callers : Sound(call'[d])
    BY <1>o, <1>t
  <2> QED
    BY <2>1, <2>2 DEF CallsOK, CallRecord, CallInv, Sound
<1>s. ASSUME call' = call PROVE CallsOK' /\ CallInv'
  <2>1. call' \in [Callers -> CallRecord']
    BY <1>s, <1>t
  <2>2. \A d \in Callers : Sound(call'[d])
    BY <1>s, <1>t
  <2> QED
    BY <2>1, <2>2 DEF CallsOK, CallRecord, CallInv, Sound
\* The calls an operation leaves behind.
<1>n. NoCall \in CallRecord' /\ Sound(NoCall)
  <2>1. NoCall.key \in Keys
    BY DataAssumption DEF NoCall
  <2>2. <<>> \in Seq(Steps) /\ <<>> \in Todos
    BY DEF Todos
  <2> QED
    BY <2>1, <2>2, <1>g DEF NoCall, CallRecord, Owners, Sound
<1>m. ASSUME NEW o \in Owners, NEW V \in SUBSET Keys
      PROVE  Removing(o, V) \in CallRecord' /\ Sound(Removing(o, V))
  BY <1>m, <1>n DEF Removing, CallRecord, Sound
<1>c. ASSUME NEW todo \in Todos, NEW k \in Keys, NEW rev \in 0..revision',
             NEW st \in 0..stamp', NEW coalesce \in BOOLEAN, rev # 0, st # 0
      PROVE  /\ Call(todo, k, rev, st, coalesce) \in CallRecord'
             /\ Sound(Call(todo, k, rev, st, coalesce))
  BY <1>c, <1>n, TodoFacts DEF Call, CallRecord, Sound
<1>d. ASSUME NEW c \in Callers, call[c].todo # <<>>
      PROVE  Done(c) \in CallRecord' /\ Sound(Done(c))
  <2>1. call[c] \in CallRecord' /\ Sound(call[c])
    BY <1>t
  <2>2. Removing(call[c].of, call[c].victims) \in CallRecord'
        /\ Sound(Removing(call[c].of, call[c].victims))
    BY <2>1, <1>m DEF CallRecord, Owners
  <2>3. ASSUME Len(call[c].todo) # 1
        PROVE  [call[c] EXCEPT !.todo = Tail(@)] \in CallRecord'
               /\ Sound([call[c] EXCEPT !.todo = Tail(@)])
    <3>1. Tail(call[c].todo) \in Todos \ {<<>>, <<"announce">>}
      BY <1>d, <2>1, <2>3, TodoFacts DEF Sound
    <3>2. call[c].todo \notin {<<>>, <<"announce">>}
      BY <1>d, <2>1, <2>3, TodoFacts DEF Sound
    <3>3. Tail(call[c].todo) \in Seq(Steps)
      BY <3>1, TodoFacts
    <3> QED
      BY <2>1, <3>1, <3>2, <3>3 DEF Sound, CallRecord
  <2>4. CASE Len(call[c].todo) = 1
    <3>1. Done(c) = Removing(call[c].of, call[c].victims)
      BY <2>4 DEF Done
    <3> QED
      BY <3>1, <2>2
  <2>5. CASE Len(call[c].todo) # 1
    <3>1. Done(c) = [call[c] EXCEPT !.todo = Tail(@)]
      BY <2>5 DEF Done
    <3> QED
      BY <3>1, <2>3, <2>5
  <2> QED
    BY <2>4, <2>5
<1>1. ASSUME NEW c \in Callers, NEW k \in Keys, NEW v \in Values, Refresh(c, k, v)
      PROVE  CallsOK' /\ CallInv'
  <2> DEFINE n == Call(Install(c), k, records[k].rev, stamp', FALSE)
  <2>1. call' = [call EXCEPT ![c] = n] /\ stamp' = stamp + 1 /\ records[k].rev # 0
    BY <1>1 DEF Refresh, Unchanged, Exists
  <2>2. Install(c) \in Todos
    BY DEF Install, Todos, Installing
  <2>3. n \in CallRecord' /\ Sound(n)
    <3>1. /\ records[k].rev \in 0..revision' /\ stamp' \in 0..stamp' /\ stamp' # 0
          /\ FALSE \in BOOLEAN
      BY <2>1, <1>t, <1>g
    <3> QED
      BY <3>1, <2>1, <2>2, <1>c
  <2> HIDE DEF n
  <2> QED
    BY <2>1, <2>3, <1>o
<1>2. ASSUME NEW c \in Callers, NEW k \in Keys, NEW v \in Values, Publish(c, k, v)
      PROVE  CallsOK' /\ CallInv'
  <2> DEFINE todo == (IF MayNotify(k) THEN <<"announce">> ELSE <<>>) \o Install(c)
             coalesce == ~MayNotify(k) /\ ~records[k].pending
             n == Call(todo, k, revision', stamp', coalesce)
  <2>1. /\ call' = [call EXCEPT ![c] = n]
        /\ stamp' = stamp + 1 /\ revision' = revision + 1
    BY <1>2 DEF Publish
  <2>2. todo \in Todos
    <3>1. /\ <<"announce">> \o <<"spawn", "install">> = <<"announce", "spawn", "install">>
          /\ <<>> \o <<"spawn", "install">> = <<"spawn", "install">>
          /\ <<"announce">> \o <<>> = <<"announce">> /\ <<>> \o <<>> = <<>>
      BY Joined
    <3> QED
      BY <3>1 DEF Install, Todos, Installing
  <2>3. coalesce \in BOOLEAN
    OBVIOUS
  <2>4. n \in CallRecord' /\ Sound(n)
    <3> HIDE DEF todo, coalesce
    <3> QED
      BY <2>1, <2>2, <2>3, <1>c, <1>g
  <2> HIDE DEF n
  <2> QED
    BY <2>1, <2>4, <1>o
<1>3. ASSUME NEW c \in Callers, NEW k \in Keys, Invalidate(c, k)
      PROVE  CallsOK' /\ CallInv'
  <2> DEFINE n == Call(<<"announce">>, k, revision', stamp', FALSE)
  <2>1. call' = [call EXCEPT ![c] = n] /\ stamp' = stamp + 1 /\ revision' = revision + 1
    BY <1>3 DEF Invalidate
  <2>2. n \in CallRecord' /\ Sound(n)
    <3>1. /\ revision' \in 0..revision' /\ stamp' \in 0..stamp' /\ revision' # 0 /\ stamp' # 0
          /\ FALSE \in BOOLEAN /\ <<"announce">> \in Todos
      BY <2>1, <1>g DEF Todos
    <3> QED
      BY <3>1, <1>c
  <2> HIDE DEF n
  <2> QED
    BY <2>1, <2>2, <1>o
<1>4. ASSUME NEW c \in Callers, NEW o \in Plugins, InvalidateOwner(c, o)
      PROVE  CallsOK' /\ CallInv'
  <2> DEFINE n == Removing(o, OwnedBy(o))
  <2>1. call' = [call EXCEPT ![c] = n]
    BY <1>4 DEF InvalidateOwner
  <2>2. n \in CallRecord' /\ Sound(n)
    BY <1>m DEF OwnedBy, Held, Owners
  <2> HIDE DEF n
  <2> QED
    BY <2>1, <2>2, <1>o
<1>5. ASSUME NEW c \in Callers, NEW k \in Keys, Remove(c, k)
      PROVE  CallsOK' /\ CallInv'
  <2> DEFINE rest == call[c].victims \ {k}
             n == Removing(call[c].of, rest)
             m == [NoCall EXCEPT !.todo = <<"announce">>, !.key = k, !.rev = revision',
                                 !.victims = rest, !.of = call[c].of]
  <2>1. \/ call' = [call EXCEPT ![c] = n]
        \/ call' = [call EXCEPT ![c] = m] /\ revision' = revision + 1
    BY <1>5 DEF Remove
  <2>2. call[c].of \in Owners /\ rest \in SUBSET Keys
    BY <1>t DEF CallRecord
  <2>3. n \in CallRecord' /\ Sound(n)
    BY <2>2, <1>m
  <2>4. revision' = revision + 1 => m \in CallRecord' /\ Sound(m)
    <3>1. NoCall \in CallRecord' /\ <<"announce">> \in Seq(Steps) /\ <<"announce">> \in Todos
          /\ Owners = Owners'
      BY <1>n DEF Todos, Steps, Owners
    <3>2. revision' = revision + 1 => revision' \in 0..revision' /\ revision' # 0
      BY <1>g
    <3>3. revision' = revision + 1 => m \in CallRecord'
      BY <3>1, <3>2, <2>2 DEF CallRecord
    <3>4. m.todo = <<"announce">> /\ m.rev = revision'
      BY <3>1 DEF CallRecord
    <3> HIDE DEF m
    <3> QED
      BY <3>1, <3>2, <3>3, <3>4 DEF Sound
  <2> HIDE DEF n, m
  <2> QED
    BY <2>1, <2>3, <2>4, <1>o
<1>6. ASSUME NEW c \in Callers, Announce(c) \/ Spawn(c) \/ InstallTask(c)
      PROVE  CallsOK' /\ CallInv'
  <2>1. call' = [call EXCEPT ![c] = Done(c)] /\ call[c].todo # <<>>
    BY <1>6 DEF Announce, Spawn, InstallTask, Doing
  <2> QED
    BY <2>1, <1>d, <1>o
<1>7. ASSUME NEW k \in Keys, CoalesceFires(k) \/ ReadStatus(k)
      PROVE  CallsOK' /\ CallInv'
  BY <1>7, <1>s DEF CoalesceFires, ReadStatus
<1>8. ASSUME NEW t \in timers, StaleFires(t)
      PROVE  CallsOK' /\ CallInv'
  BY <1>8, <1>s DEF StaleFires
<1>9. ASSUME Tick \/ Drain \/ (\E a \in announcing : TimerAnnounces(a)) \/ UNCHANGED vars
      PROVE  CallsOK' /\ CallInv'
  BY <1>9, <1>s DEF Tick, Drain, TimerAnnounces, vars
<1> QED
  BY <1>1, <1>2, <1>3, <1>4, <1>5, <1>6, <1>7, <1>8, <1>9 DEF Next

LEMMA TimersStep == TypeInv /\ [Next]_vars => TimersOK'
<1> SUFFICES ASSUME TypeInv, [Next]_vars PROVE TimersOK'
  OBVIOUS
<1> DEFINE Timer == [key : Keys, rev : 1..revision, stamp : 1..stamp]
           News == [key : Keys, rev : 1..revision, by : {"stale", "coalescing"}]
<1>g. /\ AccountsOK /\ AccountsOK' /\ revision' >= revision /\ stamp' >= stamp
      /\ revision \in Nat /\ stamp \in Nat /\ revision' \in Nat /\ stamp' \in Nat
  BY AccountsStep DEF TypeInv, TypeOK, AccountsOK
<1>r. Timer \subseteq Timer' /\ News \subseteq News'
  BY <1>g, Grows
<1>t. /\ timers \subseteq Timer /\ timers \subseteq Timer'
      /\ announcing \subseteq News /\ announcing \subseteq News'
      /\ coalescing \in [Keys -> Nat]
  BY <1>r DEF TypeInv, TypeOK, TimersOK
\* Timers and announcements that only go away.
<1>o. ASSUME timers' \subseteq timers, announcing' \subseteq announcing,
             coalescing' = coalescing
      PROVE  TimersOK'
  BY <1>o, <1>t DEF TimersOK
<1>w. \A task : Without(task) \subseteq timers
  BY DEF Without
<1>1. ASSUME NEW c \in Callers, NEW k \in Keys, NEW v \in Values,
             Refresh(c, k, v) \/ Publish(c, k, v)
      PROVE  TimersOK'
  BY <1>1, <1>o, <1>w DEF Refresh, Publish
<1>2. ASSUME NEW c \in Callers, Spawn(c)
      PROVE  TimersOK'
  <2> DEFINE t == [key |-> call[c].key, rev |-> call[c].rev, stamp |-> call[c].stamp]
  <2>1. /\ timers' = timers \cup {t} /\ announcing' = announcing
        /\ revision' = revision /\ stamp' = stamp
        /\ coalescing' = [coalescing EXCEPT ![call[c].key] =
                            IF call[c].coalesce THEN @ + 1 ELSE @]
    BY <1>2 DEF Spawn
  <2>2. call[c] \in CallRecord /\ Sound(call[c])
    BY DEF TypeInv, TypeOK, CallsOK, CallInv, CallRecord
  <2>3. call[c].todo = <<"spawn", "install">>
    BY <1>2, <2>2, TodoFacts DEF Spawn, Doing, Sound
  <2>4. call[c].rev # 0 /\ call[c].stamp # 0
    BY <2>2, <2>3 DEF Sound
  <2>5. call[c].key \in Keys /\ call[c].rev \in 0..revision /\ call[c].stamp \in 0..stamp
    BY <2>2 DEF CallRecord
  <2>6. t \in Timer
    BY <2>4, <2>5, <1>g
  <2>7. coalescing' \in [Keys -> Nat]
    BY <2>1, <2>5, <1>t
  <2> HIDE DEF t
  <2> QED
    BY <2>1, <2>6, <2>7, <1>t DEF TimersOK
<1>3. ASSUME NEW c \in Callers, InstallTask(c)
      PROVE  TimersOK'
  BY <1>3, <1>o, <1>w DEF InstallTask
<1>4. ASSUME NEW k \in Keys, CoalesceFires(k)
      PROVE  TimersOK'
  <2> DEFINE a == [key |-> k, rev |-> records[k].rev, by |-> "coalescing"]
  <2>1. /\ timers' = timers /\ coalescing' = [coalescing EXCEPT ![k] = @ - 1]
        /\ coalescing[k] > 0
        /\ \/ announcing' = announcing
           \/ announcing' = announcing \cup {a} /\ records[k].pending
    BY <1>4 DEF CoalesceFires
  <2>2. coalescing' \in [Keys -> Nat]
    BY <2>1, <1>t
  <2>3. records[k].pending => a \in News'
    <3>1. records[k] \in Record /\ AbsentIsNone
      BY DEF TypeInv, TypeOK
    <3>2. records[k].pending => records[k].rev # 0
      BY <3>1 DEF AbsentIsNone, None
    <3>3. records[k].rev \in 0..revision
      BY <3>1 DEF Record
    <3> QED
      BY <3>2, <3>3, <1>g
  <2> HIDE DEF a
  <2> QED
    BY <2>1, <2>2, <2>3, <1>t DEF TimersOK
<1>5. ASSUME NEW t \in timers, StaleFires(t)
      PROVE  TimersOK'
  <2> DEFINE a == [key |-> t.key, rev |-> revision', by |-> "stale"]
  <2>1. /\ timers' \subseteq timers /\ coalescing' = coalescing
        /\ \/ announcing' = announcing
           \/ announcing' = announcing \cup {a} /\ revision' = revision + 1
    BY <1>5 DEF StaleFires
  <2>2. revision' = revision + 1 => a \in News'
    BY <1>t, <1>g
  <2> HIDE DEF a
  <2> QED
    BY <2>1, <2>2, <1>t DEF TimersOK
<1>6. ASSUME NEW a \in announcing, TimerAnnounces(a)
      PROVE  TimersOK'
  BY <1>6, <1>o DEF TimerAnnounces
<1>7. ASSUME NEW c \in Callers, (\E o \in Plugins : InvalidateOwner(c, o)) \/ Announce(c)
      PROVE  TimersOK'
  BY <1>7, <1>o DEF InvalidateOwner, Announce
<1>8. ASSUME Tick \/ Drain \/ UNCHANGED vars \/ \E k \in Keys : ReadStatus(k)
      PROVE  TimersOK'
  BY <1>8, <1>o DEF Tick, Drain, ReadStatus, vars
<1>9. ASSUME NEW c \in Callers, NEW k \in Keys, Invalidate(c, k) \/ Remove(c, k)
      PROVE  TimersOK'
  BY <1>9, <1>o, <1>w DEF Invalidate, Remove
<1> QED
  BY <1>1, <1>2, <1>3, <1>4, <1>5, <1>6, <1>7, <1>8, <1>9 DEF Next

LEMMA ObserverStep == TypeInv /\ [Next]_vars => ObserverOK'
<1> SUFFICES ASSUME TypeInv, [Next]_vars PROVE ObserverOK'
  OBVIOUS
<1>g. /\ AccountsOK /\ AccountsOK' /\ revision' >= revision /\ stamp' >= stamp
  BY AccountsStep DEF TypeInv, TypeOK
<1>r. 0..revision \subseteq 0..revision'
  BY <1>g, Grows
<1>t. due \in BOOLEAN /\ unread \subseteq Keys \ HostKeys
      /\ summary \in [Keys -> [status : {"absent", "unavailable", "stale", "fresh"},
                               rev : 0..revision']]
  BY <1>r DEF TypeInv, TypeOK, ObserverOK
<1>1. ASSUME NEW k \in Keys, ReadStatus(k)
      PROVE  ObserverOK'
  <2>1. records[k] \in Record
    BY DEF TypeInv, TypeOK
  <2>2. records[k].rev \in 0..revision'
    BY <2>1, <1>r DEF Record
  <2>3. StatusOf(k) \in {"absent", "unavailable", "stale", "fresh"}
    BY DEF StatusOf
  <2> QED
    BY <1>1, <2>2, <2>3, <1>t DEF ReadStatus, ObserverOK
<1>2. ASSUME summary' = summary, due' \in BOOLEAN, unread' \subseteq Keys \ HostKeys
      PROVE  ObserverOK'
  BY <1>2, <1>t DEF ObserverOK
<1>3. ASSUME NEW c \in Callers, NEW k \in Keys, NEW v \in Values,
             Refresh(c, k, v) \/ Publish(c, k, v)
      PROVE  ObserverOK'
  BY <1>3, <1>2, <1>t DEF Refresh, Publish, observer
<1>4. ASSUME NEW c \in Callers, NEW k \in Keys, Invalidate(c, k) \/ Remove(c, k)
      PROVE  ObserverOK'
  BY <1>4, <1>2, <1>t DEF Invalidate, Remove, observer
<1>5. ASSUME NEW c \in Callers, \/ \E o \in Plugins : InvalidateOwner(c, o)
                                \/ Announce(c) \/ Spawn(c) \/ InstallTask(c)
      PROVE  ObserverOK'
  BY <1>5, <1>2, <1>t DEF InvalidateOwner, Announce, Heard, Spawn, InstallTask, observer
<1>6. ASSUME NEW k \in Keys, CoalesceFires(k)
      PROVE  ObserverOK'
  BY <1>6, <1>2, <1>t DEF CoalesceFires, observer
<1>7. ASSUME \/ \E t \in timers : StaleFires(t)
             \/ \E a \in announcing : TimerAnnounces(a)
      PROVE  ObserverOK'
  BY <1>7, <1>2, <1>t DEF StaleFires, TimerAnnounces, Heard, observer
<1>8. ASSUME Tick \/ Drain \/ UNCHANGED vars
      PROVE  ObserverOK'
  BY <1>8, <1>2, <1>t DEF Tick, Drain, vars, observer
<1> QED
  BY <1>1, <1>3, <1>4, <1>5, <1>6, <1>7, <1>8 DEF Next

\* The limit on records: only publish and invalidate add one, after they have counted.
LEMMA CountStep ==
  TypeInv /\ [Next]_vars => Cardinality(Held') <= MaxRecords
<1> SUFFICES ASSUME TypeInv, [Next]_vars PROVE Cardinality(Held') <= MaxRecords
  OBVIOUS
<1>t. /\ IsFiniteSet(Held) /\ Cardinality(Held) \in Nat /\ Cardinality(Held) <= MaxRecords
      /\ Held \subseteq Keys /\ MaxRecords \in Nat
  BY DataAssumption, FS_Subset, FS_CardinalityType DEF Held, TypeInv, TypeOK
<1>r. records \in [Keys -> Record] /\ records' \in [Keys -> Record']
  BY RecordsStep DEF TypeInv, TypeOK, RecordsOK
<1>d. \A k \in Keys : k \in Held' <=> records'[k].rev # 0
  BY DEF Held, Exists
<1>h. \A k \in Keys : k \in Held <=> records[k].rev # 0
  BY DEF Held, Exists
<1>o. ASSUME Held' \subseteq Held PROVE Cardinality(Held') <= MaxRecords
  BY <1>o, <1>t, FS_Subset, FS_CardinalityType
\* A record that is written over, or a new one that was counted.
<1>n. ASSUME NEW k \in Keys, NEW q, records' = [records EXCEPT ![k] = q],
             ~Exists(k) => Cardinality(Held) < MaxRecords
      PROVE  Cardinality(Held') <= MaxRecords
  <2>1. CASE Exists(k)
    <3>1. Held' \subseteq Held
      BY <1>n, <1>r, <2>1 DEF Held, Exists
    <3> QED
      BY <3>1, <1>o
  <2>2. CASE ~Exists(k)
    <3>1. Held' \subseteq Held \cup {k} /\ k \notin Held
      BY <1>n, <1>r, <2>2 DEF Held, Exists
    <3>2. IsFiniteSet(Held \cup {k}) /\ Cardinality(Held \cup {k}) = Cardinality(Held) + 1
      BY <3>1, <1>t, FS_AddElement
    <3>3. /\ IsFiniteSet(Held') /\ Cardinality(Held') <= Cardinality(Held \cup {k})
          /\ Cardinality(Held') \in Nat
      BY <3>1, <3>2, FS_Subset, FS_CardinalityType
    <3> QED
      BY <3>2, <3>3, <1>n, <2>2, <1>t
  <2> QED
    BY <2>1, <2>2
<1>s. ASSUME records' = records PROVE Cardinality(Held') <= MaxRecords
  BY <1>s, <1>o DEF Held, Exists
<1>1. ASSUME NEW c \in Callers, NEW k \in Keys, NEW v \in Values, Refresh(c, k, v)
      PROVE  Cardinality(Held') <= MaxRecords
  <2>1. \E q : records' = [records EXCEPT ![k] = q]
    BY <1>1 DEF Refresh
  <2> QED
    BY <1>1, <2>1, <1>n DEF Refresh, Unchanged
<1>2. ASSUME NEW c \in Callers, NEW k \in Keys, NEW v \in Values, Publish(c, k, v)
      PROVE  Cardinality(Held') <= MaxRecords
  <2>1. \E q : records' = [records EXCEPT ![k] = q]
    BY <1>2 DEF Publish
  <2> QED
    BY <1>2, <2>1, <1>n DEF Publish, Admitted
<1>3. ASSUME NEW c \in Callers, NEW k \in Keys, Invalidate(c, k)
      PROVE  Cardinality(Held') <= MaxRecords
  <2>1. \E q : records' = [records EXCEPT ![k] = q]
    BY <1>3 DEF Invalidate
  <2> QED
    BY <1>3, <2>1, <1>n DEF Invalidate
<1>4. ASSUME NEW c \in Callers, NEW k \in Keys, Remove(c, k)
      PROVE  Cardinality(Held') <= MaxRecords
  <2>1. CASE records' = [records EXCEPT ![k] = None] /\ Exists(k)
    BY <2>1, <1>n
  <2> QED
    BY <1>4, <2>1, <1>s DEF Remove
<1>5. ASSUME NEW c \in Callers, InstallTask(c)
      PROVE  Cardinality(Held') <= MaxRecords
  <2>1. call[c].key \in Keys
    BY DEF TypeInv, TypeOK, CallsOK
  <2>2. \A j \in Keys : records'[j].rev = records[j].rev
    <3>1. CASE records' = records
      BY <3>1
    <3>2. CASE records' = [records EXCEPT ![call[c].key].task = call[c].stamp]
      BY <3>2, <1>r, <2>1 DEF Record
    <3> QED
      BY <1>5, <3>1, <3>2 DEF InstallTask
  <2> QED
    BY <2>2, <1>o, <1>d, <1>h DEF Held
<1>6. ASSUME NEW k \in Keys, CoalesceFires(k)
      PROVE  Cardinality(Held') <= MaxRecords
  <2>1. \A j \in Keys : records'[j].rev = records[j].rev
    BY <1>6, <1>r DEF CoalesceFires, Record
  <2> QED
    BY <2>1, <1>o, <1>d, <1>h DEF Held
<1>7. ASSUME NEW t \in timers, StaleFires(t)
      PROVE  Cardinality(Held') <= MaxRecords
  <2>1. t.key \in Keys /\ t.rev \in 1..revision
    BY DEF TypeInv, TypeOK, TimersOK
  <2>2. records' = records \/ (records[t.key].rev = t.rev /\ \E q : records' = [records EXCEPT ![t.key] = q])
    BY <1>7 DEF StaleFires
  <2> QED
    BY <2>1, <2>2, <1>n, <1>s DEF Exists
<1>8. CASE Tick
  <2>1. \A j \in Keys : records[j].rev = 0 => records'[j].rev = 0
    BY <1>8 DEF Tick, Exists, None
  <2> QED
    BY <2>1, <1>o, <1>d, <1>h DEF Held
<1>9. ASSUME NEW c \in Callers, \/ \E o \in Plugins : InvalidateOwner(c, o)
                                \/ Announce(c) \/ Spawn(c)
      PROVE  Cardinality(Held') <= MaxRecords
  BY <1>9, <1>s DEF InvalidateOwner, Announce, Spawn
<1>10. ASSUME Drain \/ (\E a \in announcing : TimerAnnounces(a)) \/ UNCHANGED vars
              \/ \E k \in Keys : ReadStatus(k)
       PROVE  Cardinality(Held') <= MaxRecords
  BY <1>10, <1>s DEF Drain, TimerAnnounces, vars, ReadStatus
<1> QED
  BY <1>1, <1>2, <1>3, <1>4, <1>5, <1>6, <1>7, <1>8, <1>9, <1>10 DEF Next

LEMMA TypeStep == TypeInv /\ [Next]_vars => TypeInv'
<1> SUFFICES ASSUME TypeInv, [Next]_vars PROVE TypeInv'
  OBVIOUS
<1>1. AccountsOK' /\ CallsOK' /\ CallInv' /\ TimersOK' /\ ObserverOK'
  BY AccountsStep, CallsStep, TimersStep, ObserverStep DEF TypeInv
<1>2. RecordsOK' /\ Cardinality(Held') <= MaxRecords
  BY RecordsStep, CountStep
<1> QED
  BY <1>1, <1>2 DEF TypeInv, TypeOK, RecordsOK

LEMMA TypeInit == Init => TypeInv
<1> SUFFICES ASSUME Init PROVE TypeInv
  OBVIOUS
<1>1. None \in Record /\ None.rev = 0 /\ None.value = 0
  BY DataAssumption DEF Init, None, Record, Owners
<1>2. Held = {}
  BY <1>1 DEF Init, Held, Exists
<1>3. Cardinality(Held) <= MaxRecords
  BY <1>2, FS_EmptySet, DataAssumption
<1>4. AccountsOK
  BY DataAssumption DEF Init, AccountsOK, Owners
<1>5. NoCall.key \in Keys
  BY DataAssumption DEF NoCall
<1>6. CallsOK
  BY <1>5 DEF Init, CallsOK, NoCall, Owners
<1>7. CallInv
  BY DEF Init, CallInv, Sound, NoCall, Todos
<1>8. TimersOK /\ ObserverOK
  <2>1. TimersOK
    BY DEF Init, TimersOK
  <2>2. summary \in [Keys -> [status : {"absent", "unavailable", "stale", "fresh"},
                            rev : 0..revision]]
    BY DEF Init
  <2>3. due \in BOOLEAN /\ unread \subseteq Keys \ HostKeys
    BY DEF Init
  <2> QED
    BY <2>1, <2>2, <2>3 DEF ObserverOK
<1>9. records \in [Keys -> Record] /\ AbsentIsNone
  BY <1>1 DEF Init, AbsentIsNone
<1> QED
  BY <1>3, <1>4, <1>6, <1>7, <1>8, <1>9 DEF TypeInv, TypeOK

\* Every state of the bus, its callers, timers and observer is well typed, and there are
\* never more records than the limit.
THEOREM TypeCorrect == Spec => []TypeOK
<1>1. TypeInv => TypeOK
  BY DEF TypeInv
<1> QED
  BY TypeInit, TypeStep, <1>1, PTL DEF Spec

----------------------------------------------------------------------------
(* Changes and announcements.                                                *)

LEMMA PendingStep == TypeInv /\ UnannouncedIsPending /\ [Next]_vars => UnannouncedIsPending'
<1> SUFFICES ASSUME TypeInv, UnannouncedIsPending, [Next]_vars,
                    NEW j \in Keys \ HostKeys, summary'[j].rev # records'[j].rev
             PROVE  due' \/ j \in unread' \/ Announcing(j)' \/ records'[j].pending
  BY DEF UnannouncedIsPending
<1> DEFINE Told == due' \/ j \in unread' \/ Announcing(j)' \/ records'[j].pending
<1>t. /\ records \in [Keys -> Record] /\ AbsentIsNone
      /\ call \in [Callers -> CallRecord] /\ \A c \in Callers : Sound(call[c])
      /\ \A t \in timers : t.key \in Keys
      /\ summary \in [Keys -> [status : {"absent", "unavailable", "stale", "fresh"},
                               rev : 0..revision]]
  BY DEF TypeInv, TypeOK, CallsOK, CallInv, CallRecord, TimersOK, ObserverOK
\* What there was to say of j before the step.
<1>b. summary[j].rev # records[j].rev =>
        due \/ j \in unread \/ Announcing(j) \/ records[j].pending
  BY DEF UnannouncedIsPending
<1>a. Announcing(j) <=> \/ \E c \in Callers : call[c].key = j /\ "announce" \in Range(call[c].todo)
                        \/ \E a \in announcing : a.key = j
  BY DEF Announcing
<1>p. Announcing(j)' <=> \/ \E c \in Callers : call'[c].key = j /\ "announce" \in Range(call'[c].todo)
                         \/ \E a \in announcing' : a.key = j
  BY DEF Announcing
\* Steps that leave j's record and the observer alone, and no announcement out.
<1>s. ASSUME records'[j].rev = records[j].rev, summary' = summary, unread' = unread,
             due => due', records[j].pending => records'[j].pending \/ Announcing(j)',
             Announcing(j) => Announcing(j)'
      PROVE  Told
  BY <1>s, <1>b
<1>i. ASSUME NEW c \in Callers, call[c].todo = <<>>
      PROVE  "announce" \notin Range(call[c].todo)
  BY <1>i, StepsIn
\* Caller c begins a new call, or goes on to another part of one.
<1>c. ASSUME NEW c \in Callers, NEW n, call' = [call EXCEPT ![c] = n], announcing' = announcing,
             Announcing(j), ~(call[c].key = j /\ "announce" \in Range(call[c].todo))
      PROVE  Announcing(j)'
  BY <1>c, <1>a, <1>p, <1>t
<1>1. ASSUME NEW c \in Callers, NEW k \in Keys, NEW v \in Values, Refresh(c, k, v)
      PROVE  Told
  <2>1. /\ records'[j].rev = records[j].rev /\ records'[j].pending = records[j].pending
        /\ announcing' = announcing /\ due' = due /\ unread' = unread /\ summary' = summary
    BY <1>1, <1>t DEF Refresh, observer, Record
  <2>2. \E n : call' = [call EXCEPT ![c] = n]
    BY <1>1 DEF Refresh
  <2>3. call[c].todo = <<>>
    BY <1>1 DEF Refresh, Idle, NoCall
  <2> QED
    BY <2>1, <2>2, <2>3, <1>i, <1>c, <1>s
<1>2. ASSUME NEW c \in Callers, NEW k \in Keys, NEW v \in Values, Publish(c, k, v)
      PROVE  Told
  <2> DEFINE todo == (IF MayNotify(k) THEN <<"announce">> ELSE <<>>) \o Install(c)
  <2>1. /\ announcing' = announcing /\ due' = due /\ unread' = unread /\ summary' = summary
        /\ j # k => records'[j] = records[j]
        /\ records'[k].pending = ~MayNotify(k)
    BY <1>2, <1>t DEF Publish, observer
  <2>2. \E n : call' = [call EXCEPT ![c] = n]
    BY <1>2 DEF Publish
  <2>3. call[c].todo = <<>>
    BY <1>2 DEF Publish, Idle, NoCall
  <2>4. CASE j # k
    BY <2>1, <2>2, <2>3, <2>4, <1>i, <1>c, <1>s
  <2>5. CASE j = k /\ MayNotify(k)
    <3>1. todo \in {<<"announce">>, <<"announce", "spawn", "install">>}
      BY <2>5, Joined DEF Install
    <3>2. "announce" \in Range(todo) /\ todo # <<>>
      BY <3>1, StepsIn
    <3>3. \E co \in BOOLEAN : call'[c] = Call(todo, k, revision', stamp', co)
      BY <1>2, <1>t DEF Publish
    <3>4. call'[c].key = k /\ call'[c].todo = todo
      <4> HIDE DEF todo
      <4> QED
        BY <3>2, <3>3 DEF Call, NoCall
    <3> QED
      BY <3>2, <3>4, <2>5, <1>p
  <2>6. CASE j = k /\ ~MayNotify(k)
    <3>1. records'[j].pending = TRUE
      BY <1>2, <1>t, <2>6 DEF Publish
    <3> QED
      BY <3>1
  <2> QED
    BY <2>4, <2>5, <2>6
<1>3. ASSUME NEW c \in Callers, NEW k \in Keys, Invalidate(c, k)
      PROVE  Told
  <2>1. /\ announcing' = announcing /\ due' = due /\ unread' = unread /\ summary' = summary
        /\ j # k => records'[j] = records[j]
    BY <1>3, <1>t DEF Invalidate, observer
  <2>2. call' = [call EXCEPT ![c] = Call(<<"announce">>, k, revision', stamp', FALSE)]
    BY <1>3 DEF Invalidate
  <2>3. call[c].todo = <<>>
    BY <1>3 DEF Invalidate, Idle, NoCall
  <2>4. CASE j # k
    BY <2>1, <2>2, <2>3, <2>4, <1>i, <1>c, <1>s
  <2>5. CASE j = k
    <3>1. call'[c] = Call(<<"announce">>, k, revision', stamp', FALSE)
      BY <2>2, <1>t
    <3>2. call'[c].key = k /\ call'[c].todo = <<"announce">>
      BY <3>1 DEF Call, NoCall
    <3> QED
      BY <3>2, <2>5, <1>p, StepsIn
  <2> QED
    BY <2>4, <2>5
<1>4. ASSUME NEW c \in Callers, NEW o \in Plugins, InvalidateOwner(c, o)
      PROVE  Told
  <2>1. /\ announcing' = announcing /\ due' = due /\ unread' = unread /\ summary' = summary
        /\ records' = records /\ call' = [call EXCEPT ![c] = Removing(o, OwnedBy(o))]
    BY <1>4 DEF InvalidateOwner, observer
  <2>2. call[c].todo = <<>>
    BY <1>4 DEF InvalidateOwner, Idle, NoCall
  <2> QED
    BY <2>1, <2>2, <1>i, <1>c, <1>s
<1>5. ASSUME NEW c \in Callers, NEW k \in Keys, Remove(c, k)
      PROVE  Told
  <2> DEFINE m == [NoCall EXCEPT !.todo = <<"announce">>, !.key = k, !.rev = revision',
                                 !.victims = call[c].victims \ {k}, !.of = call[c].of]
  <2>1. /\ announcing' = announcing /\ due' = due /\ unread' = unread /\ summary' = summary
        /\ call[c].todo = <<>>
        /\ \/ records' = records
           \/ records' = [records EXCEPT ![k] = None] /\ call' = [call EXCEPT ![c] = m]
        /\ \E n : call' = [call EXCEPT ![c] = n]
    BY <1>5 DEF Remove, observer
  <2>2. CASE records'[j] = records[j]
    BY <2>1, <2>2, <1>i, <1>c, <1>s
  <2>3. CASE records'[j] # records[j]
    <3>1. j = k /\ call'[c] = m
      BY <2>1, <2>3, <1>t
    <3>2. m.key = k /\ m.todo = <<"announce">>
      BY DEF NoCall
    <3> QED
      BY <3>1, <3>2, <1>p, StepsIn
  <2> QED
    BY <2>2, <2>3
<1>6. ASSUME NEW c \in Callers, Announce(c)
      PROVE  Told
  <2>1. /\ records' = records /\ announcing' = announcing /\ unread' = unread /\ summary' = summary
        /\ due' = (due \/ call[c].key \notin HostKeys) /\ \E n : call' = [call EXCEPT ![c] = n]
    BY <1>6 DEF Announce, Heard, observer
  <2>2. CASE call[c].key = j
    BY <2>1, <2>2
  <2>3. CASE call[c].key # j
    BY <2>1, <2>3, <1>c, <1>s
  <2> QED
    BY <2>2, <2>3
<1>7. ASSUME NEW c \in Callers, Spawn(c) \/ InstallTask(c)
      PROVE  Told
  <2>1. /\ announcing' = announcing /\ due' = due /\ unread' = unread /\ summary' = summary
        /\ \E n : call' = [call EXCEPT ![c] = n]
        /\ call[c].todo # <<>> /\ Head(call[c].todo) \in {"spawn", "install"}
    BY <1>7 DEF Spawn, InstallTask, Doing, observer
  <2>2. /\ records'[j].rev = records[j].rev /\ records'[j].pending = records[j].pending
    <3>1. CASE records' = records
      BY <3>1
    <3>2. CASE records' = [records EXCEPT ![call[c].key].task = call[c].stamp]
      BY <3>2, <1>t DEF Record, CallRecord
    <3> QED
      BY <1>7, <3>1, <3>2 DEF Spawn, InstallTask
  <2>3. "announce" \notin Range(call[c].todo)
    <3>1. call[c].todo \in {<<"spawn", "install">>, <<"install">>}
      BY <2>1, <1>t, TodoFacts DEF Sound
    <3> QED
      BY <3>1, StepsIn
  <2> QED
    BY <2>1, <2>2, <2>3, <1>c, <1>s
<1>8. ASSUME NEW k \in Keys, CoalesceFires(k)
      PROVE  Told
  <2>1. /\ due' = due /\ unread' = unread /\ summary' = summary /\ call' = call
        /\ records'[j].rev = records[j].rev /\ announcing \subseteq announcing'
    BY <1>8, <1>t DEF CoalesceFires, observer, Record
  <2>2. Announcing(j) => Announcing(j)'
    BY <2>1, <1>a, <1>p
  <2>3. CASE records' = records
    BY <2>1, <2>2, <2>3, <1>s
  <2>4. CASE /\ records' = [records EXCEPT ![k].pending = FALSE, ![k].told = 0]
             /\ announcing' = announcing \cup
                  {[key |-> k, rev |-> records[k].rev, by |-> "coalescing"]}
    <3>1. CASE j = k
      <4> DEFINE a == [key |-> k, rev |-> records[k].rev, by |-> "coalescing"]
      <4>1. a \in announcing' /\ a.key = j
        BY <2>4, <3>1
      <4> QED
        BY <4>1, <1>p
    <3>2. CASE j # k
      BY <2>1, <2>2, <2>4, <3>2, <1>t, <1>s
    <3> QED
      BY <3>1, <3>2
  <2> QED
    BY <1>8, <2>3, <2>4 DEF CoalesceFires
<1>9. ASSUME NEW t \in timers, StaleFires(t)
      PROVE  Told
  <2>1. /\ due' = due /\ unread' = unread /\ summary' = summary /\ call' = call
        /\ announcing \subseteq announcing' /\ t.key \in Keys
    BY <1>9, <1>t DEF StaleFires, observer
  <2>2. Announcing(j) => Announcing(j)'
    BY <2>1, <1>a, <1>p
  <2>3. CASE records' = records
    BY <2>1, <2>2, <2>3, <1>s
  <2>4. CASE /\ records' = [records EXCEPT ![t.key].rev = revision', ![t.key].task = 0,
                                           ![t.key].stale = TRUE]
             /\ announcing' = announcing \cup
                  {[key |-> t.key, rev |-> revision', by |-> "stale"]}
    <3>1. CASE j = t.key
      <4> DEFINE a == [key |-> t.key, rev |-> revision', by |-> "stale"]
      <4>1. a \in announcing' /\ a.key = j
        BY <2>4, <3>1
      <4> QED
        BY <4>1, <1>p
    <3>2. CASE j # t.key
      <4>1. records'[j] = records[j]
        BY <2>1, <2>4, <3>2, <1>t
      <4> QED
        BY <2>1, <2>2, <4>1, <1>s
    <3> QED
      BY <3>1, <3>2
  <2> QED
    BY <1>9, <2>3, <2>4 DEF StaleFires
<1>10. ASSUME NEW a \in announcing, TimerAnnounces(a)
       PROVE  Told
  <2>1. /\ unread' = unread /\ summary' = summary /\ call' = call /\ records' = records
        /\ announcing' = announcing \ {a} /\ due' = (due \/ a.key \notin HostKeys)
    BY <1>10 DEF TimerAnnounces, Heard, observer
  <2>2. CASE a.key = j
    BY <2>1, <2>2
  <2>3. CASE a.key # j
    <3>1. Announcing(j) => Announcing(j)'
      BY <2>1, <2>3, <1>a, <1>p
    <3> QED
      BY <2>1, <3>1, <1>s
  <2> QED
    BY <2>2, <2>3
<1>11. CASE Tick
  <2>1. /\ due' = due /\ unread' = unread /\ summary' = summary /\ call' = call
        /\ announcing' = announcing
    BY <1>11 DEF Tick, observer
  <2>2. records'[j].rev = records[j].rev /\ (records[j].pending => records'[j].pending)
    <3>1. CASE Exists(j)
      BY <1>11, <1>t, <3>1 DEF Tick, Record
    <3>2. CASE ~Exists(j)
      BY <1>11, <1>t, <3>2 DEF Tick, Exists, AbsentIsNone
    <3> QED
      BY <3>1, <3>2
  <2> QED
    BY <2>1, <2>2, <1>a, <1>p, <1>s
<1>12. CASE Drain
  BY <1>12 DEF Drain
<1>13. ASSUME NEW k \in Keys, ReadStatus(k)
       PROVE  Told
  <2>1. /\ due' = due /\ unread' = unread \ {k} /\ records' = records /\ call' = call
        /\ announcing' = announcing
        /\ summary' = [summary EXCEPT ![k] = [status |-> StatusOf(k), rev |-> records[k].rev]]
    BY <1>13 DEF ReadStatus
  <2>2. j # k
    BY <2>1, <1>t
  <2>3. summary'[j] = summary[j]
    BY <2>1, <2>2, <1>t
  <2> QED
    BY <2>1, <2>2, <2>3, <1>a, <1>p, <1>b
<1>14. CASE UNCHANGED vars
  BY <1>14, <1>a, <1>p, <1>s DEF vars
<1> QED
  BY <1>1, <1>2, <1>3, <1>4, <1>5, <1>6, <1>7, <1>8, <1>9, <1>10, <1>11, <1>12, <1>13, <1>14
     DEF Next

\* No change of a plugin's record is forgotten, however publications, removals, timers and
\* the observer cross.
THEOREM ChangesAreTold == Spec => []UnannouncedIsPending
<1>1. Init => UnannouncedIsPending
  BY DEF Init, UnannouncedIsPending, None
<1> QED
  BY TypeInit, TypeStep, <1>1, PendingStep, PTL DEF Spec

----------------------------------------------------------------------------
(* The tasks that announce a value stale.                                    *)

\* Every caller that acts for the host runs inside the runtime.
HostInRuntime == \A c \in Callers : OwnerOf[c] = Host => c \in InRuntime

\* The tasks there are, and those that callers have not spawned yet or may still abort.
Late == {c \in Callers : call[c].todo \notin {<<>>, <<"announce">>}}
TaskOf(c) == [key |-> call[c].key, rev |-> call[c].rev, stamp |-> call[c].stamp]
Tasks == timers \cup {TaskOf(c) : c \in Late}

\* A publication has one task, which is about one record; so has the record's handle.
OneTaskEach ==
  /\ \A t, u \in Tasks : t.stamp = u.stamp => t = u
  /\ \A k \in Keys : records[k].task # 0 =>
       \A t \in Tasks : t.stamp = records[k].task => t.key = k

\* A value the host published, and may go stale without anybody having said so, has its
\* task, or a caller that will spawn it.
Mine(k, t) == t.key = k /\ t.rev = records[k].rev /\ t.stamp = records[k].stamp
Guarded(k) == \/ \E t \in timers : Mine(k, t)
              \/ \E c \in Callers : call[c].todo \in Installing /\ Mine(k, TaskOf(c))

Unsaid(k) == records[k].value # 0 /\ records[k].owner = Host /\ ~records[k].stale

GuardInv == OneTaskEach /\ \A k \in Keys : Unsaid(k) => Guarded(k)

\* What steps do to tasks and handles: tasks go, or get a stamp that nothing has yet;
\* handles go, or are given to the caller's own task.
LEMMA TasksStep == TypeInv /\ OneTaskEach /\ [Next]_vars => OneTaskEach'
<1> SUFFICES ASSUME TypeInv, OneTaskEach, [Next]_vars PROVE OneTaskEach'
  OBVIOUS
<1>t. /\ records \in [Keys -> Record] /\ AbsentIsNone
      /\ call \in [Callers -> CallRecord] /\ \A c \in Callers : Sound(call[c])
      /\ stamp \in Nat /\ timers \subseteq [key : Keys, rev : 1..revision, stamp : 1..stamp]
  BY DEF TypeInv, TypeOK, CallsOK, CallInv, CallRecord, TimersOK, AccountsOK
<1>l. \A c \in Late : call[c].stamp \in 1..stamp /\ TaskOf(c).stamp = call[c].stamp
  BY <1>t DEF Late, Sound, CallRecord, TaskOf
<1>m. \A t \in Tasks : t.stamp \in 1..stamp
  BY <1>t, <1>l DEF Tasks
\* Steps that start no task and hand none over.
<1>s. ASSUME Tasks' \subseteq Tasks,
             \A k \in Keys : records'[k].task \in {0, records[k].task}
      PROVE  OneTaskEach'
  BY <1>s DEF OneTaskEach
\* Steps that start one.
<1>n. ASSUME NEW c \in Callers, stamp' = stamp + 1, call' = [call EXCEPT ![c] = call'[c]],
             call[c].todo = <<>>, timers' \subseteq timers,
             c \in Late' => call'[c].stamp = stamp',
             \A k \in Keys : records'[k].task \in {0, records[k].task}
      PROVE  OneTaskEach'
  <2>1. \A d \in Callers \ {c} : call'[d] = call[d]
    BY <1>n, <1>t
  <2>2. \A d \in Late' : d # c => d \in Late /\ TaskOf(d)' = TaskOf(d)
    BY <2>1 DEF Late, TaskOf
  <2>3. Tasks' \subseteq Tasks \cup {TaskOf(c)'}
    BY <1>n, <2>2 DEF Tasks
  <2>4. c \in Late' => TaskOf(c)'.stamp = stamp + 1
    BY <1>n DEF TaskOf
  <2>5. \A t \in Tasks' : t \in Tasks \/ (t = TaskOf(c)' /\ t.stamp = stamp + 1)
    BY <1>n, <2>2, <2>4 DEF Tasks
  <2>6. \A k \in Keys : records[k].task \in 0..stamp
    BY <1>t DEF Record
  <2>7. ASSUME NEW t \in Tasks', NEW u \in Tasks', t.stamp = u.stamp PROVE t = u
    BY <2>5, <2>7, <1>m, <1>t DEF OneTaskEach
  <2>8. ASSUME NEW k \in Keys, records'[k].task # 0, NEW t \in Tasks', t.stamp = records'[k].task
        PROVE  t.key = k
    BY <2>5, <2>6, <2>8, <1>n, <1>t DEF OneTaskEach
  <2>9. \A t, u \in Tasks' : t.stamp = u.stamp => t = u
    BY <2>7
  <2>10. \A k \in Keys : records'[k].task # 0 =>
           \A t \in Tasks' : t.stamp = records'[k].task => t.key = k
    BY <2>8
  <2> QED
    BY <2>9, <2>10 DEF OneTaskEach
\* Steps that change a caller's call to n, and leave its task as it is or to none.
<1>k. ASSUME NEW c \in Callers, NEW n, call' = [call EXCEPT ![c] = n], timers' \subseteq Tasks,
             n.todo \notin {<<>>, <<"announce">>} =>
               c \in Late /\ n.key = call[c].key /\ n.rev = call[c].rev /\ n.stamp = call[c].stamp
      PROVE  Tasks' \subseteq Tasks
  <2>1. call'[c] = n /\ \A d \in Callers \ {c} : call'[d] = call[d]
    BY <1>k, <1>t
  <2>2. \A d \in Late' : d \in Late /\ TaskOf(d)' = TaskOf(d)
    BY <2>1, <1>k DEF Late, TaskOf
  <2> QED
    BY <1>k, <2>2 DEF Tasks
<1>e. ASSUME NEW c \in Callers, call[c].todo # <<>>, Done(c).todo \notin {<<>>, <<"announce">>}
      PROVE  /\ c \in Late /\ Done(c).key = call[c].key /\ Done(c).rev = call[c].rev
             /\ Done(c).stamp = call[c].stamp
  <2>1. Len(call[c].todo) # 1
    BY <1>e DEF Done, Removing, NoCall
  <2>2. Done(c) = [call[c] EXCEPT !.todo = Tail(@)]
    BY <2>1 DEF Done
  <2>3. call[c] \in CallRecord /\ Sound(call[c])
    BY <1>t
  <2>4. c \in Late
    BY <1>e, <2>1, <2>3, TodoFacts DEF Sound, Late
  <2> QED
    BY <2>2, <2>3, <2>4 DEF CallRecord
<1>w. \A task : Without(task) \subseteq timers
  BY DEF Without
<1>1. ASSUME NEW c \in Callers, NEW k \in Keys, NEW v \in Values, Refresh(c, k, v)
      PROVE  OneTaskEach'
  <2>1. /\ stamp' = stamp + 1 /\ call[c].todo = <<>> /\ timers' \subseteq timers
        /\ call' = [call EXCEPT ![c] = Call(Install(c), k, records[k].rev, stamp', FALSE)]
    BY <1>1, <1>w DEF Refresh, Idle, NoCall
  <2>2. c \in Late' => call'[c].stamp = stamp'
    BY <2>1, <1>t DEF Late, Call, NoCall
  <2>3. \A j \in Keys : records'[j].task \in {0, records[j].task}
    BY <1>1, <1>t DEF Refresh, Record
  <2> QED
    BY <2>1, <2>2, <2>3, <1>n, <1>t
<1>2. ASSUME NEW c \in Callers, NEW k \in Keys, NEW v \in Values, Publish(c, k, v)
      PROVE  OneTaskEach'
  <2> DEFINE todo == (IF MayNotify(k) THEN <<"announce">> ELSE <<>>) \o Install(c)
             n == Call(todo, k, revision', stamp', ~MayNotify(k) /\ ~records[k].pending)
  <2>1. /\ stamp' = stamp + 1 /\ call[c].todo = <<>> /\ timers' \subseteq timers
        /\ call' = [call EXCEPT ![c] = n]
    BY <1>2, <1>w DEF Publish, Idle, NoCall
  <2> HIDE DEF todo
  <2>2. c \in Late' => call'[c].stamp = stamp'
    BY <2>1, <1>t DEF Late, Call, NoCall
  <2>3. \A j \in Keys : records'[j].task \in {0, records[j].task}
    BY <1>2, <1>t DEF Publish
  <2>4. call' = [call EXCEPT ![c] = call'[c]]
    BY <2>1, <1>t
  <2> QED
    BY <2>1, <2>2, <2>3, <2>4, <1>n
<1>3. ASSUME NEW c \in Callers, NEW k \in Keys, Invalidate(c, k)
      PROVE  OneTaskEach'
  <2>1. /\ stamp' = stamp + 1 /\ call[c].todo = <<>> /\ timers' \subseteq timers
        /\ call' = [call EXCEPT ![c] = Call(<<"announce">>, k, revision', stamp', FALSE)]
    BY <1>3, <1>w DEF Invalidate, Idle, NoCall
  <2>2. c \in Late' => call'[c].stamp = stamp'
    BY <2>1, <1>t DEF Late, Call, NoCall
  <2>3. \A j \in Keys : records'[j].task \in {0, records[j].task}
    BY <1>3, <1>t DEF Invalidate
  <2> QED
    BY <2>1, <2>2, <2>3, <1>n, <1>t
<1>4. ASSUME NEW c \in Callers, NEW o \in Plugins, InvalidateOwner(c, o)
      PROVE  OneTaskEach'
  <2>1. /\ call' = [call EXCEPT ![c] = Removing(o, OwnedBy(o))] /\ timers' = timers
        /\ records' = records
    BY <1>4 DEF InvalidateOwner
  <2>2. Removing(o, OwnedBy(o)).todo = <<>> /\ timers \subseteq Tasks
    BY DEF Removing, NoCall, Tasks
  <2> QED
    BY <2>1, <2>2, <1>k, <1>s
<1>5. ASSUME NEW c \in Callers, NEW k \in Keys, Remove(c, k)
      PROVE  OneTaskEach'
  <2> DEFINE rest == call[c].victims \ {k}
             n == Removing(call[c].of, rest)
             m == [NoCall EXCEPT !.todo = <<"announce">>, !.key = k, !.rev = revision',
                                 !.victims = rest, !.of = call[c].of]
  <2>1. /\ timers' \subseteq timers
        /\ call' = [call EXCEPT ![c] = n] \/ call' = [call EXCEPT ![c] = m]
    BY <1>5, <1>w DEF Remove
  <2>2. /\ timers \subseteq Tasks
        /\ n.todo \in {<<>>, <<"announce">>} /\ m.todo \in {<<>>, <<"announce">>}
    BY DEF Tasks, Removing, NoCall
  <2> HIDE DEF n, m
  <2>3. \A j \in Keys : records'[j].task \in {0, records[j].task}
    BY <1>5, <1>t DEF Remove, None
  <2> QED
    BY <2>1, <2>2, <2>3, <1>k, <1>s
<1>6. ASSUME NEW c \in Callers, Announce(c)
      PROVE  OneTaskEach'
  <2>1. /\ timers' = timers /\ records' = records /\ call' = [call EXCEPT ![c] = Done(c)]
        /\ call[c].todo # <<>>
    BY <1>6 DEF Announce, Doing
  <2>2. timers \subseteq Tasks
    BY DEF Tasks
  <2> QED
    BY <2>1, <2>2, <1>e, <1>k, <1>s
<1>7. ASSUME NEW c \in Callers, Spawn(c)
      PROVE  OneTaskEach'
  <2>1. /\ timers' = timers \cup {TaskOf(c)} /\ records' = records
        /\ call' = [call EXCEPT ![c] = Done(c)]
        /\ call[c].todo # <<>> /\ Head(call[c].todo) = "spawn"
    BY <1>7 DEF Spawn, Doing, TaskOf
  <2>2. c \in Late
    BY <2>1, <1>t, TodoFacts DEF Late, Sound
  <2>3. timers' \subseteq Tasks
    BY <2>1, <2>2 DEF Tasks
  <2> QED
    BY <2>1, <2>3, <1>e, <1>k, <1>s
<1>8. ASSUME NEW c \in Callers, InstallTask(c)
      PROVE  OneTaskEach'
  <2>1. /\ timers' \subseteq timers /\ call' = [call EXCEPT ![c] = Done(c)]
        /\ call[c].todo # <<>> /\ Head(call[c].todo) = "install"
    BY <1>8, <1>w DEF InstallTask, Doing
  <2>2. Tasks' \subseteq Tasks
    BY <2>1, <1>e, <1>k DEF Tasks
  <2>3. c \in Late /\ call[c].key \in Keys
    BY <2>1, <1>t, TodoFacts DEF Late, Sound, CallRecord
  <2>4. CASE records' = records
    BY <2>2, <2>4, <1>s
  <2>5. CASE records' = [records EXCEPT ![call[c].key].task = call[c].stamp]
    <3>1. TaskOf(c) \in Tasks
      BY <2>3 DEF Tasks
    <3>2. ASSUME NEW t \in Tasks, t.stamp = call[c].stamp PROVE t.key = call[c].key
      BY <3>1, <3>2 DEF OneTaskEach, TaskOf
    <3>3. /\ records'[call[c].key].task = call[c].stamp
          /\ \A k \in Keys : k # call[c].key => records'[k].task = records[k].task
      BY <2>3, <2>5, <1>t DEF Record
    <3> QED
      BY <2>2, <3>2, <3>3 DEF OneTaskEach
  <2> QED
    BY <1>8, <2>4, <2>5 DEF InstallTask
<1>9. ASSUME UNCHANGED call, timers' \subseteq timers,
             \A k \in Keys : records'[k].task \in {0, records[k].task}
      PROVE  OneTaskEach'
  <2>1. Tasks' \subseteq Tasks
    BY <1>9 DEF Tasks, Late, TaskOf
  <2> QED
    BY <2>1, <1>9, <1>s
<1>10. ASSUME NEW k \in Keys, CoalesceFires(k)
       PROVE  OneTaskEach'
  <2>1. \A j \in Keys : records'[j].task = records[j].task
    BY <1>10, <1>t DEF CoalesceFires, Record
  <2> QED
    BY <2>1, <1>10, <1>9 DEF CoalesceFires
<1>11. ASSUME NEW t \in timers, StaleFires(t)
       PROVE  OneTaskEach'
  <2>1. \A j \in Keys : records'[j].task \in {0, records[j].task}
    BY <1>11, <1>t DEF StaleFires, Record
  <2> QED
    BY <2>1, <1>11, <1>9 DEF StaleFires
<1>12. CASE Tick
  <2>1. \A j \in Keys : records'[j].task \in {0, records[j].task}
    BY <1>12, <1>t DEF Tick, Record, None
  <2> QED
    BY <2>1, <1>12, <1>9 DEF Tick
<1>13. ASSUME Drain \/ (\E a \in announcing : TimerAnnounces(a)) \/ UNCHANGED vars
              \/ \E k \in Keys : ReadStatus(k)
       PROVE  OneTaskEach'
  BY <1>13, <1>9 DEF Drain, TimerAnnounces, vars, ReadStatus
<1> QED
  BY <1>1, <1>2, <1>3, <1>4, <1>5, <1>6, <1>7, <1>8, <1>10, <1>11, <1>12, <1>13 DEF Next

LEMMA GuardStep ==
  ASSUME HostInRuntime
  PROVE  TypeInv /\ GuardInv /\ [Next]_vars => GuardInv'
<1> SUFFICES ASSUME TypeInv, GuardInv, [Next]_vars, NEW j \in Keys, Unsaid(j)'
             PROVE  Guarded(j)'
  BY TasksStep DEF GuardInv
<1>t. /\ records \in [Keys -> Record] /\ AbsentIsNone
      /\ call \in [Callers -> CallRecord] /\ \A c \in Callers : Sound(call[c])
      /\ stamp \in Nat /\ timers \subseteq [key : Keys, rev : 1..revision, stamp : 1..stamp]
  BY DEF TypeInv, TypeOK, CallsOK, CallInv, CallRecord, TimersOK, AccountsOK
<1>b. OneTaskEach /\ (Unsaid(j) => Guarded(j)) /\ <<>> \notin Installing
  BY DEF GuardInv, Installing
<1>u. Unsaid(j)' <=> records'[j].value # 0 /\ records'[j].owner = Host /\ ~records'[j].stale
  BY DEF Unsaid
<1>p. /\ \A t : Mine(j, t)' <=> t.key = j /\ t.rev = records'[j].rev /\ t.stamp = records'[j].stamp
      /\ \A t : Mine(j, t) <=> t.key = j /\ t.rev = records[j].rev /\ t.stamp = records[j].stamp
  BY DEF Mine
\* Steps that leave j's publication alone, and its task with whoever has it or a timer.
<1>s. ASSUME records'[j].value = records[j].value, records'[j].owner = records[j].owner,
             records'[j].stale = records[j].stale, records'[j].rev = records[j].rev,
             records'[j].stamp = records[j].stamp,
             \A t \in timers : Mine(j, t) => t \in timers',
             \A c \in Callers : (call[c].todo \in Installing /\ Mine(j, TaskOf(c))) =>
               \/ call'[c].todo \in Installing /\ TaskOf(c)' = TaskOf(c)
               \/ TaskOf(c) \in timers'
      PROVE  Guarded(j)'
  <2>1. Unsaid(j)
    BY <1>s, <1>u DEF Unsaid
  <2>2. \A t : Mine(j, t) => Mine(j, t)'
    BY <1>s, <1>p
  <2>3. CASE \E t \in timers : Mine(j, t)
    BY <2>2, <2>3, <1>s DEF Guarded, Mine
  <2>4. CASE \E c \in Callers : call[c].todo \in Installing /\ Mine(j, TaskOf(c))
    <3>1. PICK c \in Callers : call[c].todo \in Installing /\ Mine(j, TaskOf(c))
      BY <2>4
    <3>2. CASE TaskOf(c) \in timers'
      BY <3>1, <3>2, <2>2, <1>p DEF Guarded, Mine
    <3>3. CASE call'[c].todo \in Installing /\ TaskOf(c)' = TaskOf(c)
      <4>1. TaskOf(c)'.key = j /\ TaskOf(c)'.rev = records'[j].rev
            /\ TaskOf(c)'.stamp = records'[j].stamp
        BY <3>1, <3>3, <2>2, <1>p
      <4> QED
        BY <3>3, <4>1 DEF Guarded, Mine
    <3> QED
      BY <3>1, <3>2, <3>3, <1>s
  <2> QED
    BY <2>1, <2>3, <2>4, <1>b DEF Guarded
\* Aborting another record's task does not touch j's.
<1>w. ASSUME NEW k \in Keys, j # k, NEW t \in timers, Mine(j, t)
      PROVE  t \in Without(records[k].task)
  <2>1. t.stamp \in 1..stamp /\ t \in Tasks /\ t.key = j
    BY <1>w, <1>t, <1>p DEF Tasks
  <2>2. t.stamp # records[k].task
    BY <2>1, <1>w, <1>b, <1>t DEF OneTaskEach
  <2> QED
    BY <2>2 DEF Without
\* Caller c, which has nothing to spawn, begins something.
<1>c. ASSUME NEW c \in Callers, NEW n, call' = [call EXCEPT ![c] = n], call[c].todo \notin Installing,
             NEW d \in Callers, call[d].todo \in Installing
      PROVE  call'[d].todo \in Installing /\ TaskOf(d)' = TaskOf(d)
  BY <1>c, <1>t DEF TaskOf
\* Caller c publishes a value for j and will install its task.
<1>n. ASSUME NEW c \in Callers, call'[c].todo \in Installing, call'[c].key = j,
             call'[c].rev = records'[j].rev, call'[c].stamp = records'[j].stamp
      PROVE  Guarded(j)'
  BY <1>n DEF Guarded, Mine, TaskOf
<1>1. ASSUME NEW c \in Callers, NEW k \in Keys, NEW v \in Values, Refresh(c, k, v)
      PROVE  Guarded(j)'
  <2> DEFINE n == Call(Install(c), k, records[k].rev, stamp', FALSE)
  <2>1. /\ call[c].todo = <<>> /\ timers' = Without(records[k].task)
        /\ call' = [call EXCEPT ![c] = n]
        /\ records' = [records EXCEPT ![k].stamp = stamp', ![k].age = 0, ![k].task = 0]
        /\ records[k].owner = OwnerOf[c]
    BY <1>1 DEF Refresh, Idle, NoCall, Admitted, Unchanged
  <2>2. CASE j # k
    <3>1. records'[j] = records[j]
      BY <2>1, <2>2, <1>t
    <3> HIDE DEF n
    <3> QED
      BY <2>1, <2>2, <3>1, <1>b, <1>c, <1>w, <1>s
  <2>3. CASE j = k
    <3>1. /\ records'[k].rev = records[k].rev /\ records'[k].owner = records[k].owner
          /\ records'[k].stamp = stamp'
      BY <2>1, <1>t DEF Record
    <3>2. c \in InRuntime
      BY <2>1, <2>3, <3>1, <1>u, HostInRuntime DEF HostInRuntime
    <3>3. Install(c) = <<"spawn", "install">> /\ Install(c) # <<>> /\ Install(c) \in Installing
      BY <3>2 DEF Install, Installing
    <3>4. call'[c] = n
      BY <2>1, <1>t
    <3>5. n.todo = Install(c) /\ n.key = k /\ n.rev = records[k].rev /\ n.stamp = stamp'
      BY <3>3 DEF Call, NoCall
    <3> QED
      BY <2>3, <3>1, <3>3, <3>4, <3>5, <1>n
  <2> QED
    BY <2>2, <2>3
<1>2. ASSUME NEW c \in Callers, NEW k \in Keys, NEW v \in Values, Publish(c, k, v)
      PROVE  Guarded(j)'
  <2> DEFINE todo == (IF MayNotify(k) THEN <<"announce">> ELSE <<>>) \o Install(c)
             n == Call(todo, k, revision', stamp', ~MayNotify(k) /\ ~records[k].pending)
  <2>1. /\ call[c].todo = <<>> /\ timers' = Without(records[k].task)
        /\ call' = [call EXCEPT ![c] = n]
        /\ j # k => records'[j] = records[j]
        /\ records'[k].owner = OwnerOf[c] /\ records'[k].rev = revision'
        /\ records'[k].stamp = stamp'
    BY <1>2, <1>t DEF Publish, Idle, NoCall
  <2>2. CASE j # k
    <3> HIDE DEF n
    <3> QED
      BY <2>1, <2>2, <1>b, <1>c, <1>w, <1>s
  <2>3. CASE j = k
    <3>1. c \in InRuntime
      BY <2>1, <2>3, <1>u, HostInRuntime DEF HostInRuntime
    <3>2. todo \in Installing /\ todo # <<>>
      <4>1. Install(c) = <<"spawn", "install">>
        BY <3>1 DEF Install
      <4>2. todo \in Installing
        BY <4>1, Joined DEF Installing
      <4> QED
        BY <4>2, <1>b
    <3>3. call'[c] = n
      BY <2>1, <1>t
    <3>4. n.todo = todo /\ n.key = k /\ n.rev = revision' /\ n.stamp = stamp'
      <4> HIDE DEF todo
      <4> QED
        BY <3>2 DEF Call, NoCall
    <3> HIDE DEF todo, n
    <3> QED
      BY <2>1, <2>3, <3>2, <3>3, <3>4, <1>n
  <2> QED
    BY <2>2, <2>3
<1>3. ASSUME NEW c \in Callers, NEW k \in Keys, Invalidate(c, k)
      PROVE  Guarded(j)'
  <2>1. /\ call[c].todo = <<>> /\ timers' = Without(records[k].task)
        /\ call' = [call EXCEPT ![c] = Call(<<"announce">>, k, revision', stamp', FALSE)]
        /\ j # k => records'[j] = records[j]
        /\ records'[k].value = 0
    BY <1>3, <1>t DEF Invalidate, Idle, NoCall
  <2> QED
    BY <2>1, <1>b, <1>c, <1>w, <1>s, <1>u
<1>4. ASSUME NEW c \in Callers, NEW o \in Plugins, InvalidateOwner(c, o)
      PROVE  Guarded(j)'
  <2>1. /\ call[c].todo = <<>> /\ timers' = timers /\ records' = records
        /\ call' = [call EXCEPT ![c] = Removing(o, OwnedBy(o))]
    BY <1>4 DEF InvalidateOwner, Idle, NoCall
  <2> QED
    BY <2>1, <1>b, <1>c, <1>s
<1>5. ASSUME NEW c \in Callers, NEW k \in Keys, Remove(c, k)
      PROVE  Guarded(j)'
  <2> DEFINE rest == call[c].victims \ {k}
             n == Removing(call[c].of, rest)
             m == [NoCall EXCEPT !.todo = <<"announce">>, !.key = k, !.rev = revision',
                                 !.victims = rest, !.of = call[c].of]
  <2>1. /\ call[c].todo = <<>>
        /\ call' = [call EXCEPT ![c] = n] \/ call' = [call EXCEPT ![c] = m]
        /\ \/ records' = records /\ timers' = timers
           \/ records' = [records EXCEPT ![k] = None] /\ timers' = Without(records[k].task)
    BY <1>5 DEF Remove
  <2> HIDE DEF n, m
  <2>2. \A d \in Callers : call[d].todo \in Installing =>
          call'[d].todo \in Installing /\ TaskOf(d)' = TaskOf(d)
    BY <2>1, <1>b, <1>c
  <2>3. CASE records' = records /\ timers' = timers
    BY <2>2, <2>3, <1>s
  <2>4. CASE records' = [records EXCEPT ![k] = None] /\ timers' = Without(records[k].task)
    <3>1. j # k
      BY <2>4, <1>u, <1>t DEF None
    <3>2. records'[j] = records[j]
      BY <3>1, <2>4, <1>t
    <3> QED
      BY <3>1, <3>2, <2>2, <2>4, <1>w, <1>s
  <2> QED
    BY <2>1, <2>3, <2>4
<1>d. ASSUME NEW c \in Callers, call[c].todo \in Installing, Head(call[c].todo) = "announce",
             call' = [call EXCEPT ![c] = Done(c)]
      PROVE  call'[c].todo \in Installing /\ TaskOf(c)' = TaskOf(c)
  <2>1. call[c].todo # <<>> /\ call[c].todo \in Todos /\ call[c] \in CallRecord
    BY <1>d, <1>b, <1>t DEF Sound
  <2>2. Len(call[c].todo) # 1 /\ Tail(call[c].todo) \in Installing
    <3>1. call[c].todo # <<"announce">> /\ call[c].todo # <<"install">>
      BY <1>d DEF Installing
    <3> QED
      BY <3>1, <2>1, <1>d, TodoFacts
  <2>3. call'[c] = [call[c] EXCEPT !.todo = Tail(@)]
    BY <2>2, <1>d, <1>t DEF Done
  <2> QED
    BY <2>1, <2>2, <2>3 DEF TaskOf, CallRecord
<1>6. ASSUME NEW c \in Callers, Announce(c)
      PROVE  Guarded(j)'
  <2>1. /\ timers' = timers /\ records' = records /\ call' = [call EXCEPT ![c] = Done(c)]
        /\ Head(call[c].todo) = "announce"
    BY <1>6 DEF Announce, Doing
  <2>2. \A d \in Callers : call[d].todo \in Installing =>
          call'[d].todo \in Installing /\ TaskOf(d)' = TaskOf(d)
    <3>1. \A d \in Callers \ {c} : call'[d] = call[d]
      BY <2>1, <1>t
    <3> QED
      BY <2>1, <3>1, <1>d DEF TaskOf
  <2> QED
    BY <2>1, <2>2, <1>s
<1>7. ASSUME NEW c \in Callers, Spawn(c)
      PROVE  Guarded(j)'
  <2>1. /\ timers' = timers \cup {TaskOf(c)} /\ records' = records
        /\ \A d \in Callers \ {c} : call'[d] = call[d]
    BY <1>7, <1>t DEF Spawn, TaskOf
  <2> QED
    BY <2>1, <1>s DEF TaskOf
<1>8. ASSUME NEW c \in Callers, InstallTask(c)
      PROVE  Guarded(j)'
  <2> DEFINE k == call[c].key
             mine == records[k].rev = call[c].rev /\ records[k].stamp = call[c].stamp
  <2>1. /\ call[c].todo # <<>> /\ Head(call[c].todo) = "install"
        /\ call' = [call EXCEPT ![c] = Done(c)]
        /\ records' = IF mine THEN [records EXCEPT ![k].task = call[c].stamp] ELSE records
        /\ timers' = IF mine THEN timers ELSE Without(call[c].stamp)
    BY <1>8 DEF InstallTask, Doing
  <2>2. call[c].todo = <<"install">> /\ k \in Keys
    BY <2>1, <1>t, TodoFacts DEF Sound, CallRecord
  <2>3. call[c].todo \notin Installing /\ c \in Late
    BY <2>2, StepsIn DEF Installing, Late
  <2>4. \A d \in Callers : call[d].todo \in Installing =>
          call'[d].todo \in Installing /\ TaskOf(d)' = TaskOf(d)
    BY <2>1, <2>3, <1>c
  <2>5. CASE mine
    <3>1. /\ records'[j].value = records[j].value /\ records'[j].owner = records[j].owner
          /\ records'[j].stale = records[j].stale /\ records'[j].rev = records[j].rev
          /\ records'[j].stamp = records[j].stamp
      BY <2>1, <2>2, <2>5, <1>t DEF Record
    <3> QED
      BY <3>1, <2>1, <2>4, <2>5, <1>s
  <2>6. CASE ~mine
    <3>1. ASSUME NEW t \in timers, Mine(j, t) PROVE t \in timers'
      <4>1. TaskOf(c) \in Tasks /\ t \in Tasks
        BY <2>3 DEF Tasks
      <4>2. t.stamp # call[c].stamp
        BY <4>1, <3>1, <2>6, <1>b, <1>p DEF OneTaskEach, TaskOf
      <4> QED
        BY <4>2, <2>1, <2>6 DEF Without
    <3> QED
      BY <3>1, <2>1, <2>4, <2>6, <1>s
  <2> QED
    BY <2>5, <2>6
<1>9. ASSUME NEW k \in Keys, CoalesceFires(k)
      PROVE  Guarded(j)'
  <2>1. call' = call /\ timers' = timers
    BY <1>9 DEF CoalesceFires
  <2>2. /\ records'[j].value = records[j].value /\ records'[j].owner = records[j].owner
        /\ records'[j].stale = records[j].stale /\ records'[j].rev = records[j].rev
        /\ records'[j].stamp = records[j].stamp
    BY <1>9, <1>t DEF CoalesceFires, Record
  <2> QED
    BY <2>1, <2>2, <1>s DEF TaskOf
<1>10. ASSUME NEW t \in timers, StaleFires(t)
       PROVE  Guarded(j)'
  <2> DEFINE same == records[t.key].rev = t.rev /\ records[t.key].value # 0
  <2>1. /\ call' = call /\ timers' = timers \ {t} /\ t.key \in Keys
        /\ \/ ~same /\ records' = records
           \/ same /\ records' = [records EXCEPT ![t.key].rev = revision', ![t.key].task = 0,
                                                 ![t.key].stale = TRUE]
    BY <1>10, <1>t DEF StaleFires
  <2>2. CASE same /\ j = t.key
    BY <2>1, <2>2, <1>t, <1>u DEF Record
  <2>3. CASE same /\ j # t.key
    <3>1. records'[j] = records[j]
      BY <2>1, <2>3, <1>t
    <3> QED
      BY <2>1, <2>3, <3>1, <1>p, <1>s DEF TaskOf
  <2>4. CASE ~same
    <3>1. records' = records
      BY <2>1, <2>4
    <3>2. ~Mine(j, t)
      BY <2>4, <3>1, <1>u, <1>p
    <3> QED
      BY <2>1, <3>1, <3>2, <1>s DEF TaskOf
  <2> QED
    BY <2>2, <2>3, <2>4
<1>11. CASE Tick
  <2>1. call' = call /\ timers' = timers
    BY <1>11 DEF Tick
  <2>2. CASE Exists(j)
    <3>1. /\ records'[j].value = records[j].value /\ records'[j].owner = records[j].owner
          /\ records'[j].stale = records[j].stale /\ records'[j].rev = records[j].rev
          /\ records'[j].stamp = records[j].stamp
      BY <1>11, <2>2, <1>t DEF Tick, Record
    <3> QED
      BY <2>1, <3>1, <1>s DEF TaskOf
  <2>3. CASE ~Exists(j)
    BY <1>11, <2>3, <1>u DEF Tick, None
  <2> QED
    BY <2>2, <2>3
<1>12. ASSUME Drain \/ (\E a \in announcing : TimerAnnounces(a)) \/ UNCHANGED vars
              \/ \E k \in Keys : ReadStatus(k)
       PROVE  Guarded(j)'
  <2>1. call' = call /\ timers' = timers /\ records' = records
    BY <1>12 DEF Drain, TimerAnnounces, vars, ReadStatus
  <2> QED
    BY <2>1, <1>s DEF TaskOf
<1> QED
  BY <1>1, <1>2, <1>3, <1>4, <1>5, <1>6, <1>7, <1>8, <1>9, <1>10, <1>11, <1>12 DEF Next

\* A value the host published is announced stale in time, or a task that will do so is on its
\* way, through refreshes, late installations and aborted tasks, if all its publishers run
\* inside the runtime.
THEOREM HostValuesAreGuarded ==
  ASSUME HostInRuntime
  PROVE  Spec => []HostStaleGuarded
<1>1. Init => GuardInv
  <2> SUFFICES ASSUME Init PROVE GuardInv
    OBVIOUS
  <2>1. Tasks = {} /\ \A k \in Keys : records[k].task = 0 /\ records[k].value = 0
    BY DEF Init, Tasks, Late, NoCall, None
  <2> QED
    BY <2>1 DEF GuardInv, OneTaskEach, Unsaid
<1>2. TypeInv /\ GuardInv => HostStaleGuarded
  <2> SUFFICES ASSUME TypeInv, GuardInv, NEW k \in Keys, Unsaid(k)
               PROVE  \/ \E t \in timers : t.key = k /\ t.rev = records[k].rev
                      \/ \E c \in Callers : /\ call[c].key = k /\ call[c].stamp = records[k].stamp
                                             /\ "spawn" \in Range(call[c].todo)
    BY DEF HostStaleGuarded, Unsaid
  <2>1. Guarded(k)
    BY DEF GuardInv
  <2>2. \A c \in Callers : call[c].todo \in Installing => "spawn" \in Range(call[c].todo)
    BY TodoFacts DEF Todos
  <2> QED
    BY <2>1, <2>2 DEF Guarded, Mine, TaskOf
<1>3. TypeInv /\ GuardInv /\ [Next]_vars => GuardInv'
  BY GuardStep
<1> QED
  BY TypeInit, TypeStep, <1>1, <1>2, <1>3, PTL DEF Spec
=============================================================================
