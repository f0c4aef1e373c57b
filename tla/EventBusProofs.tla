--------------------------- MODULE EventBusProofs ---------------------------
(***************************************************************************)
(* The event bus, for any publishers, clients, capacities and bounds: that *)
(* a GUI shows no notification twice or out of order, and that one that is *)
(* caught up has shown what the ring retains.                              *)
(***************************************************************************)
EXTENDS EventBus, WellFoundedInduction, SequenceTheorems, TLAPS

----------------------------------------------------------------------------
(* What Above keeps.  Its recursion is justified, and followed, by the least  *)
(* number for which a claim would fail.                                       *)

LEMMA LeastNatural ==
  ASSUME NEW T, T \subseteq Nat, T # {}
  PROVE  \E n \in T : \A m \in T : n <= m
<1>1. IsWellFoundedOn(OpToRel(<, Nat), Nat)
  BY NatLessThanWellFounded
<1>2. \A R, S : IsWellFoundedOn(R, S) =>
        \A Q : Q \subseteq S /\ Q # {} => \E x \in Q : \A y \in Q : ~(<<y, x>> \in R)
  BY WFMin
<1>3. PICK n \in T : \A m \in T : ~(<<m, n>> \in OpToRel(<, Nat))
  BY <1>1, <1>2
<1>4. \A m, k \in Nat : m < k => <<m, k>> \in OpToRel(<, Nat)
  BY DEF OpToRel
<1>5. \A m \in T : m \in Nat /\ n \in Nat
  OBVIOUS
<1>6. \A m \in T : ~(m < n)
  BY <1>3, <1>4, <1>5, Zenon
<1> QED
  BY <1>5, <1>6, SMT

\* Induction up to a bound, for a claim given as the set of the numbers it holds of.
LEMMA InductionUpTo ==
  ASSUME NEW L \in Nat, NEW P, 0 \in P,
         \A n \in 1..L : n - 1 \in P => n \in P
  PROVE  \A n \in 0..L : n \in P
<1> DEFINE T == (0..L) \ P
<1> SUFFICES ASSUME T # {} PROVE FALSE
  OBVIOUS
<1>1. T \subseteq Nat
  OBVIOUS
<1> HIDE DEF T
<1>2. PICK n \in T : \A m \in T : n <= m
  BY <1>1, LeastNatural
<1>3. n \in 1..L
  BY <1>2 DEF T
<1>4. n - 1 \in 0..L /\ n - 1 \in P
  BY <1>2, <1>3 DEF T
<1> QED
  BY <1>2, <1>3, <1>4 DEF T

\* What Above has kept of the first i elements, given what it has kept of i - 1.
KeepStep(seq, id, f, i) ==
  IF i = 0 THEN <<>>
  ELSE IF seq[i] > id THEN Append(f[i - 1], seq[i]) ELSE f[i - 1]

LEMMA KeepingExists ==
  ASSUME NEW seq \in Seq(Nat), NEW id \in Nat
  PROVE  \E f : f = [i \in 0..Len(seq) |-> KeepStep(seq, id, f, i)]
<1> DEFINE L == Len(seq)
           Keeps(f, n) == f \in [0..n -> Seq(Nat)] /\ \A i \in 0..n : f[i] = KeepStep(seq, id, f, i)
           P == {n \in 0..L : \E f \in [0..n -> Seq(Nat)] :
                                 \A i \in 0..n : f[i] = KeepStep(seq, id, f, i)}
<1>1. L \in Nat
  OBVIOUS
<1>2. 0 \in P
  <2> DEFINE f == [i \in 0..0 |-> <<>>]
  <2>1. f \in [0..0 -> Seq(Nat)] /\ \A i \in 0..0 : f[i] = KeepStep(seq, id, f, i)
    BY DEF KeepStep
  <2> HIDE DEF f
  <2> QED
    BY <1>1, <2>1
<1>3. ASSUME NEW n \in 1..L, n - 1 \in P PROVE n \in P
  <2>1. PICK f \in [0..(n - 1) -> Seq(Nat)] : \A i \in 0..(n - 1) : f[i] = KeepStep(seq, id, f, i)
    BY <1>3
  <2> DEFINE g == [i \in 0..n |-> IF i = n THEN KeepStep(seq, id, f, n) ELSE f[i]]
  <2>2. n \in Nat /\ n # 0 /\ n - 1 \in 0..(n - 1) /\ seq[n] \in Nat
    BY <1>3
  <2>3. f[n - 1] \in Seq(Nat)
    BY <2>1, <2>2
  <2>4. KeepStep(seq, id, f, n) \in Seq(Nat)
    BY <2>2, <2>3 DEF KeepStep
  <2>5. g \in [0..n -> Seq(Nat)]
    BY <2>1, <2>2, <2>4
  <2>6. \A i \in 0..n : g[i] = KeepStep(seq, id, g, i)
    <3>1. \A i \in 0..(n - 1) : g[i] = f[i]
      BY <2>2
    <3>2. g[n] = KeepStep(seq, id, f, n)
      BY <2>2
    <3> HIDE DEF g
    <3>3. KeepStep(seq, id, g, n) = KeepStep(seq, id, f, n)
      BY <2>2, <3>1 DEF KeepStep
    <3>4. ASSUME NEW i \in 0..(n - 1) PROVE g[i] = KeepStep(seq, id, g, i)
      <4>1. i # 0 => i - 1 \in 0..(n - 1)
        BY <2>2
      <4>2. KeepStep(seq, id, g, i) = KeepStep(seq, id, f, i)
        BY <2>2, <3>1, <4>1 DEF KeepStep
      <4> QED
        BY <2>1, <3>1, <4>2
    <3>5. \A i \in 0..n : i = n \/ i \in 0..(n - 1)
      BY <2>2
    <3> QED
      BY <3>2, <3>3, <3>4, <3>5
  <2> HIDE DEF g
  <2>7. n \in 0..L
    BY <1>3
  <2> QED
    BY <2>5, <2>6, <2>7
<1> HIDE DEF P
<1>4. L \in P
  <2>1. \A n \in 0..L : n \in P
    <3> HIDE DEF L
    <3> QED
      BY <1>1, <1>2, <1>3, InductionUpTo
  <2> QED
    BY <1>1, <2>1
<1>5. PICK f \in [0..L -> Seq(Nat)] : \A i \in 0..L : f[i] = KeepStep(seq, id, f, i)
  BY <1>4 DEF P
<1>6. f = [i \in 0..L |-> KeepStep(seq, id, f, i)]
  BY <1>5
<1> QED
  BY <1>6

LEMMA AboveIsKept ==
  ASSUME NEW seq \in Seq(Nat), NEW id \in Nat
  PROVE  \E f : /\ \A i \in 0..Len(seq) : f[i] = KeepStep(seq, id, f, i)
                /\ Above(seq, id) = f[Len(seq)]
<1> DEFINE f == CHOOSE f : f = [i \in 0..Len(seq) |-> KeepStep(seq, id, f, i)]
<1>1. f = [i \in 0..Len(seq) |-> KeepStep(seq, id, f, i)]
  BY KeepingExists, Zenon
<1>2. Above(seq, id) = f[Len(seq)]
  BY Zenon DEF Above, KeepStep
<1> HIDE DEF f
<1>3. \A i \in 0..Len(seq) : f[i] = KeepStep(seq, id, f, i)
  BY <1>1, Zenon
<1> QED
  BY <1>2, <1>3

Ascending(seq) == \A i, j \in DOMAIN seq : i < j => seq[i] < seq[j]

LEMMA AppendFacts ==
  ASSUME NEW S, NEW s \in Seq(S), NEW v \in S
  PROVE  /\ Append(s, v) \in Seq(S) /\ Len(s) \in Nat
         /\ Len(Append(s, v)) = Len(s) + 1
         /\ DOMAIN s = 1..Len(s) /\ DOMAIN Append(s, v) = 1..(Len(s) + 1)
         /\ \A k \in DOMAIN s : Append(s, v)[k] = s[k]
         /\ Append(s, v)[Len(s) + 1] = v
OBVIOUS

\* s is what is above id among the first n elements of seq.
KeptOf(seq, id, n, s) ==
  /\ s \in Seq(Nat) /\ Ascending(s)
  /\ \A k \in DOMAIN s : \E i \in 1..n : seq[i] = s[k] /\ seq[i] > id
  /\ \A i \in 1..n : seq[i] > id => \E k \in DOMAIN s : s[k] = seq[i]

LEMMA KeptGrows ==
  ASSUME NEW seq \in Seq(Nat), NEW id \in Nat, Ascending(seq),
         NEW n \in 1..Len(seq), NEW s, KeptOf(seq, id, n - 1, s)
  PROVE  KeptOf(seq, id, n, IF seq[n] > id THEN Append(s, seq[n]) ELSE s)
<1>1. /\ n \in Nat /\ n # 0 /\ n - 1 \in Nat /\ seq[n] \in Nat /\ n \in DOMAIN seq
      /\ \A i \in 1..(n - 1) : i \in 1..n /\ i \in DOMAIN seq /\ i < n
      /\ \A i \in 1..n : i = n \/ i \in 1..(n - 1)
  OBVIOUS
<1>2. CASE ~(seq[n] > id)
  BY <1>1, <1>2 DEF KeptOf
<1>3. CASE seq[n] > id
  <2> DEFINE t == Append(s, seq[n])
  <2>1. s \in Seq(Nat)
    BY DEF KeptOf
  <2>2. /\ t \in Seq(Nat) /\ Len(s) \in Nat
        /\ DOMAIN s = 1..Len(s) /\ DOMAIN t = 1..(Len(s) + 1)
        /\ \A k \in DOMAIN s : t[k] = s[k]
        /\ t[Len(s) + 1] = seq[n]
    BY <1>1, <2>1, AppendFacts
  <2> HIDE DEF t
  <2>3. \A k \in DOMAIN s : s[k] < seq[n]
    BY <1>1 DEF KeptOf, Ascending
  <2>4. Ascending(t)
    <3>1. \A k \in DOMAIN t : k \in DOMAIN s \/ k = Len(s) + 1
      BY <2>2
    <3>2. \A k, l \in DOMAIN s : k < l => s[k] < s[l]
      BY DEF KeptOf, Ascending
    <3>3. ASSUME NEW k \in DOMAIN t, NEW l \in DOMAIN t, k < l
          PROVE  t[k] < t[l]
      <4>1. k \in DOMAIN s
        BY <2>2, <3>1, <3>3
      <4>2. CASE l \in DOMAIN s
        BY <2>2, <3>2, <3>3, <4>1, <4>2
      <4>3. CASE l = Len(s) + 1
        BY <2>2, <2>3, <4>1, <4>3
      <4> QED
        BY <3>1, <4>2, <4>3
    <3> QED
      BY <3>3 DEF Ascending
  <2>5. ASSUME NEW k \in DOMAIN t PROVE \E i \in 1..n : seq[i] = t[k] /\ seq[i] > id
    <3>1. CASE k \in DOMAIN s
      <4>1. PICK i \in 1..(n - 1) : seq[i] = s[k] /\ seq[i] > id
        BY <3>1 DEF KeptOf
      <4> QED
        BY <1>1, <2>2, <3>1, <4>1
    <3>2. CASE k = Len(s) + 1
      BY <1>1, <1>3, <2>2, <3>2
    <3> QED
      BY <2>2, <3>1, <3>2
  <2>6. \A i \in 1..n : seq[i] > id => \E k \in DOMAIN t : t[k] = seq[i]
    <3>1. \A k \in DOMAIN s : k \in DOMAIN t
      BY <2>2
    <3>2. Len(s) + 1 \in DOMAIN t
      BY <2>2
    <3> QED
      BY <1>1, <2>2, <3>1, <3>2 DEF KeptOf
  <2>7. KeptOf(seq, id, n, t)
    BY <2>2, <2>4, <2>5, <2>6 DEF KeptOf
  <2> QED
    BY <1>3, <2>7 DEF t
<1> QED
  BY <1>2, <1>3

\* Of an ascending sequence Above keeps what is above the cursor, ascending.
LEMMA AboveFacts ==
  ASSUME NEW seq \in Seq(Nat), NEW id \in Nat, Ascending(seq)
  PROVE  /\ Above(seq, id) \in Seq(Nat) /\ Ascending(Above(seq, id))
         /\ \A v : v \in ToSet(Above(seq, id)) <=> v \in ToSet(seq) /\ v > id
<1>1. PICK f : /\ \A i \in 0..Len(seq) : f[i] = KeepStep(seq, id, f, i)
               /\ Above(seq, id) = f[Len(seq)]
  BY AboveIsKept
<1> DEFINE P == {n \in 0..Len(seq) : KeptOf(seq, id, n, f[n])}
<1>2. Len(seq) \in Nat /\ 0 \in 0..Len(seq) /\ Len(seq) \in 0..Len(seq) /\ DOMAIN seq = 1..Len(seq)
  OBVIOUS
<1>3. KeptOf(seq, id, 0, f[0])
  <2>1. f[0] = <<>>
    BY <1>1, <1>2 DEF KeepStep
  <2>2. KeptOf(seq, id, 0, <<>>)
    BY DEF KeptOf, Ascending
  <2> QED
    BY <2>1, <2>2
<1>4. ASSUME NEW n \in 1..Len(seq), KeptOf(seq, id, n - 1, f[n - 1])
      PROVE  KeptOf(seq, id, n, f[n])
  <2>1. n \in 0..Len(seq) /\ n # 0
    BY <1>2
  <2>2. f[n] = IF seq[n] > id THEN Append(f[n - 1], seq[n]) ELSE f[n - 1]
    BY <1>1, <2>1 DEF KeepStep
  <2>3. KeptOf(seq, id, n, IF seq[n] > id THEN Append(f[n - 1], seq[n]) ELSE f[n - 1])
    BY <1>4, KeptGrows
  <2> QED
    BY <2>2, <2>3
<1>5. Len(seq) \in P
  <2>1. 0 \in P /\ \A n \in 1..Len(seq) : n - 1 \in P => n \in P
    BY <1>2, <1>3, <1>4
  <2> HIDE DEF P
  <2> QED
    BY <1>2, <2>1, InductionUpTo
<1>6. KeptOf(seq, id, Len(seq), Above(seq, id))
  BY <1>1, <1>5
<1> HIDE DEF P
<1>7. ASSUME NEW v PROVE v \in ToSet(Above(seq, id)) <=> v \in ToSet(seq) /\ v > id
  <2>1. \A S : v \in ToSet(S) <=> \E k \in DOMAIN S : S[k] = v
    BY DEF ToSet
  <2> QED
    BY <1>2, <1>6, <2>1 DEF KeptOf
<1> QED
  BY <1>6, <1>7 DEF KeptOf

LEMMA SeqWidens ==
  ASSUME NEW S, NEW T, S \subseteq T, NEW s \in Seq(S)
  PROVE  s \in Seq(T)
OBVIOUS

LEMMA SeqNarrows ==
  ASSUME NEW S, NEW s \in Seq(Nat), \A k \in DOMAIN s : s[k] \in S
  PROVE  s \in Seq(S)
OBVIOUS

LEMMA TailFacts ==
  ASSUME NEW S, NEW s \in Seq(S), s # <<>>
  PROVE  /\ Tail(s) \in Seq(S) /\ Len(s) \in Nat \ {0} /\ Len(Tail(s)) = Len(s) - 1
         /\ Head(s) = s[1] /\ Head(s) \in S
         /\ DOMAIN s = 1..Len(s) /\ DOMAIN Tail(s) = 1..(Len(s) - 1)
         /\ \A k \in DOMAIN Tail(s) : k + 1 \in DOMAIN s /\ Tail(s)[k] = s[k + 1]
OBVIOUS

LEMMA AboveType ==
  ASSUME NEW m \in Nat, NEW id \in Nat, NEW seq \in Seq(1..m), Ascending(seq)
  PROVE  /\ Above(seq, id) \in Seq(1..m) /\ Ascending(Above(seq, id))
         /\ \A v : v \in ToSet(Above(seq, id)) <=> v \in ToSet(seq) /\ v > id
<1> DEFINE T == 1..m
           kept == Above(seq, id)
<1>1. seq \in Seq(Nat)
  <2>1. T \subseteq Nat /\ seq \in Seq(T)
    OBVIOUS
  <2> HIDE DEF T
  <2> QED
    BY <2>1, SeqWidens
<1>2. /\ kept \in Seq(Nat) /\ Ascending(kept)
      /\ \A v : v \in ToSet(kept) <=> v \in ToSet(seq) /\ v > id
  BY <1>1, AboveFacts
<1>3. \A k \in DOMAIN kept : kept[k] \in ToSet(kept)
  BY DEF ToSet
<1>4. \A v \in ToSet(seq) : v \in T
  BY DEF ToSet
<1>5. \A k \in DOMAIN kept : kept[k] \in T
  BY <1>2, <1>3, <1>4
<1>6. kept \in Seq(T)
  <2> HIDE DEF T, kept
  <2>1. kept \in Seq(Nat) /\ \A k \in DOMAIN kept : kept[k] \in T
    BY <1>2, <1>5
  <2> QED
    BY <2>1, SeqNarrows
<1> QED
  BY <1>2, <1>6

\* The last of an ascending sequence is the highest id it carries.
LEMMA HighestFacts ==
  ASSUME NEW m \in Nat, NEW from \in 0..m, NEW seq \in Seq(1..m), Ascending(seq),
         \A v \in ToSet(seq) : v > from
  PROVE  /\ Highest(seq, from) \in 0..m /\ Highest(seq, from) >= from
         /\ \A k \in DOMAIN seq : seq[k] > from /\ seq[k] <= Highest(seq, from)
         /\ Highest(seq, from) # from => Highest(seq, from) \in ToSet(seq)
<1>1. CASE seq = <<>>
  BY <1>1 DEF Highest
<1>2. CASE seq # <<>>
  <2>1. /\ Len(seq) \in DOMAIN seq /\ DOMAIN seq = 1..Len(seq) /\ Len(seq) \in Nat
        /\ Highest(seq, from) = seq[Len(seq)]
        /\ \A k \in DOMAIN seq : seq[k] \in 1..m /\ seq[k] \in ToSet(seq)
    BY <1>2 DEF Highest, Last, ToSet
  <2>2. \A k \in DOMAIN seq : seq[k] <= seq[Len(seq)]
    <3> SUFFICES ASSUME NEW k \in DOMAIN seq PROVE seq[k] <= seq[Len(seq)]
      OBVIOUS
    <3>1. CASE k = Len(seq)
      BY <2>1, <3>1
    <3>2. CASE k < Len(seq)
      BY <2>1, <3>2 DEF Ascending
    <3> QED
      BY <2>1, <3>1, <3>2
  <2> QED
    BY <2>1, <2>2
<1> QED
  BY <1>1, <1>2

----------------------------------------------------------------------------
(* Types.                                                                    *)

\* Frames of daemon session s with ids up to n.
Frames(s, n) ==
  {f \in [type : {"event", "replay", "state"}, session : 0..MaxSessions, ids : Seq(1..n)] :
     /\ Ascending(f.ids)
     /\ f.type = "replay" => f.session = s
     /\ f.type = "state" => f.ids = <<>>}
Note == [session : 0..MaxSessions, id : 1..MaxEvents]

BusTypes ==
  /\ session \in 1..MaxSessions /\ nextId \in 0..MaxEvents /\ highest \in Nat
  /\ ring \in Seq(1..nextId) /\ Len(ring) <= RingCapacity /\ Ascending(ring)
  /\ sending \in [Publishers -> 0..nextId]

RelayTypes ==
  /\ conn \in [Clients -> {"off", "subscribed", "on"}]
  /\ relay \in [Clients -> {"off", "run", "wait", "dead"}]
  /\ lagged \in [Clients -> BOOLEAN]
  /\ rx \in [Clients -> Seq(1..nextId)]
  /\ held \in [Clients -> Frames(session, nextId)]
  /\ outq \in [Clients -> Seq(Frames(session, nextId))]

GuiTypes ==
  /\ cursor \in [Clients -> 0..MaxEvents]
  /\ guiSession \in [Clients -> 0..MaxSessions]
  /\ shown \in [Clients -> Seq(Note)]

\* The queue and the receiver are bounded; nothing is queued before the relay runs, and
\* what the GUI remembers is no newer than the daemon.
ClientTypes(c) ==
  /\ Len(rx[c]) <= RingCapacity /\ Len(outq[c]) <= QueueCapacity
  /\ conn[c] # "on" => outq[c] = <<>> /\ relay[c] = "off"
  /\ guiSession[c] <= session /\ HonouredCursor(c) <= nextId

Types == BusTypes /\ RelayTypes /\ GuiTypes /\ \A c \in Clients : ClientTypes(c)

LEMMA IdsWiden ==
  ASSUME NEW n \in Nat, NEW m \in Nat, n <= m
  PROVE  Seq(1..n) \subseteq Seq(1..m)
<1> DEFINE S == 1..n
           T == 1..m
<1>1. S \subseteq T
  OBVIOUS
<1> HIDE DEF S, T
<1>2. Seq(S) \subseteq Seq(T)
  BY <1>1, SeqWidens
<1> QED
  BY <1>2 DEF S, T

LEMMA FramesWiden ==
  ASSUME NEW n \in Nat, NEW m \in Nat, n <= m, NEW s
  PROVE  Frames(s, n) \subseteq Frames(s, m)
<1>1. Seq(1..n) \subseteq Seq(1..m)
  BY IdsWiden
<1> QED
  BY <1>1 DEF Frames

LEMMA StateFrameType ==
  ASSUME NEW s, NEW n PROVE StateFrame \in Frames(s, n) /\ StateFrame.ids = <<>>
  BY BoundsAssumption DEF StateFrame, Frames, Ascending

LEMMA RetainedFacts ==
  ASSUME Types, NEW id \in Nat, id > nextId
  PROVE  /\ Retained(id) \in Seq(1..id) /\ Len(Retained(id)) <= RingCapacity
         /\ Ascending(Retained(id))
         /\ ToSet(Retained(id)) \subseteq ToSet(ring) \cup {id}
<1> DEFINE kept == IF Len(ring) = RingCapacity THEN Tail(ring) ELSE ring
           T == 1..id
<1>0. RingCapacity \in Nat \ {0} /\ nextId \in Nat
  BY BoundsAssumption DEF Types, BusTypes
<1>1. Retained(id) = Append(kept, id)
  BY DEF Retained
<1>2. ring \in Seq(T) /\ Len(ring) \in Nat /\ Len(ring) <= RingCapacity
  BY <1>0, IdsWiden DEF Types, BusTypes
<1>2a. Len(ring) = RingCapacity => ring # <<>>
  BY <1>0
<1>3. kept \in Seq(T) /\ Len(kept) + 1 <= RingCapacity
  <2>1. CASE Len(ring) = RingCapacity
    <3>1. Tail(ring) \in Seq(T) /\ Len(Tail(ring)) = Len(ring) - 1
      <4> HIDE DEF T
      <4> QED
        BY <1>2, <1>2a, <2>1, TailFacts
    <3> QED
      BY <1>0, <2>1, <3>1
  <2>2. CASE Len(ring) # RingCapacity
    BY <1>0, <1>2, <2>2
  <2> QED
    BY <2>1, <2>2
<1>4. \A k \in DOMAIN kept : kept[k] < id /\ kept[k] \in ToSet(ring)
  <2>1. \A k \in DOMAIN ring : ring[k] < id /\ ring[k] \in ToSet(ring)
    BY <1>0 DEF Types, BusTypes, ToSet
  <2>2. CASE Len(ring) = RingCapacity
    BY <1>2, <1>2a, <2>1, <2>2, TailFacts
  <2> QED
    BY <2>1, <2>2
<1>5. Ascending(kept)
  <2>1. CASE Len(ring) = RingCapacity
    <3>1. kept = Tail(ring) /\ ring # <<>> /\ Ascending(ring)
      BY <1>2a, <2>1 DEF Types, BusTypes
    <3>2. /\ DOMAIN ring = 1..Len(ring) /\ DOMAIN kept = 1..(Len(ring) - 1)
          /\ \A k \in DOMAIN kept : k + 1 \in DOMAIN ring /\ kept[k] = ring[k + 1]
      <4> HIDE DEF kept
      <4> QED
        BY <1>2, <3>1, TailFacts
    <3> HIDE DEF kept
    <3> QED
      BY <1>2, <3>1, <3>2 DEF Ascending
  <2> QED
    BY <2>1 DEF Types, BusTypes
<1> HIDE DEF kept
<1>6. /\ Append(kept, id) \in Seq(T) /\ Len(kept) \in Nat
      /\ Len(Append(kept, id)) = Len(kept) + 1
      /\ DOMAIN kept = 1..Len(kept) /\ DOMAIN Append(kept, id) = 1..(Len(kept) + 1)
      /\ \A k \in DOMAIN kept : Append(kept, id)[k] = kept[k]
      /\ Append(kept, id)[Len(kept) + 1] = id
  <2>1. id \in T
    BY <1>0
  <2> HIDE DEF T
  <2> QED
    BY <1>3, <2>1, AppendFacts
<1> DEFINE next == Append(kept, id)
<1>7. \A k \in DOMAIN next : k \in DOMAIN kept \/ k = Len(kept) + 1
  BY <1>6
<1>8. Ascending(next)
  <2>1. ASSUME NEW k \in DOMAIN next, NEW l \in DOMAIN next, k < l
        PROVE  next[k] < next[l]
    <3>1. k \in DOMAIN kept
      BY <1>6, <2>1
    <3> QED
      BY <1>4, <1>5, <1>6, <1>7, <2>1, <3>1 DEF Ascending
  <2> QED
    BY <2>1 DEF Ascending
<1>9. ToSet(next) \subseteq ToSet(ring) \cup {id}
  <2>1. \A v \in ToSet(next) : \E k \in DOMAIN next : next[k] = v
    BY DEF ToSet
  <2> QED
    BY <1>4, <1>6, <1>7, <2>1
<1> QED
  BY <1>1, <1>3, <1>6, <1>8, <1>9

\* What the GUI makes of a frame: whose events they are, after which cursor it takes
\* them, and which of them it shows.
SessionOf(c, f) == IF f.type = "event" THEN guiSession[c] ELSE session
From(c, f) == IF guiSession[c] = SessionOf(c, f) THEN cursor[c] ELSE 0
Fresh(c, f) == Above(f.ids, From(c, f))
Notes(s, ids) == [i \in DOMAIN ids |-> [session |-> s, id |-> ids[i]]]

LEMMA FrameFacts ==
  ASSUME Types, NEW c \in Clients, NEW f \in Frames(session, nextId)
  PROVE  /\ SessionOf(c, f) \in 0..session /\ From(c, f) \in 0..MaxEvents
         /\ nextId \in Nat /\ MaxEvents \in Nat /\ session \in Nat
         /\ Fresh(c, f) \in Seq(1..nextId) /\ Ascending(Fresh(c, f))
         /\ \A v : v \in ToSet(Fresh(c, f)) <=> v \in ToSet(f.ids) /\ v > From(c, f)
<1>1. /\ SessionOf(c, f) \in 0..session /\ From(c, f) \in 0..MaxEvents
      /\ nextId \in Nat /\ MaxEvents \in Nat /\ session \in Nat
  BY BoundsAssumption DEF Types, BusTypes, GuiTypes, ClientTypes, SessionOf, From
<1>2. f.ids \in Seq(1..nextId) /\ Ascending(f.ids)
  BY DEF Frames
<1>3. From(c, f) \in Nat
  BY <1>1
<1>4. /\ Fresh(c, f) \in Seq(1..nextId) /\ Ascending(Fresh(c, f))
      /\ \A v : v \in ToSet(Fresh(c, f)) <=> v \in ToSet(f.ids) /\ v > From(c, f)
  BY <1>1, <1>2, <1>3, AboveType DEF Fresh
<1> QED
  BY <1>1, <1>4

LEMMA GuiHandles ==
  ASSUME Types, NEW c \in Clients, GuiReceive(c), NEW f, f = Head(outq[c])
  PROVE  /\ conn[c] = "on" /\ outq[c] # <<>> /\ outq[c] \in Seq(Frames(session, nextId))
         /\ f \in Frames(session, nextId) /\ f = outq[c][1]
         /\ outq' = [outq EXCEPT ![c] = Tail(outq[c])]
         /\ UNCHANGED <<daemonVars, conn, rx, lagged, relay, held>>
         /\ f.type = "state" => UNCHANGED guiVars
         /\ f.type # "state" =>
              /\ guiSession' = [guiSession EXCEPT ![c] = SessionOf(c, f)]
              /\ cursor' = [cursor EXCEPT ![c] = Highest(Fresh(c, f), From(c, f))]
              /\ shown' = [shown EXCEPT ![c] = @ \o Notes(SessionOf(c, f), Fresh(c, f))]
<1>1. /\ conn[c] = "on" /\ outq[c] # <<>>
      /\ outq' = [outq EXCEPT ![c] = Tail(outq[c])]
      /\ UNCHANGED <<daemonVars, conn, rx, lagged, relay, held>>
  BY DEF GuiReceive
<1>2. outq[c] \in Seq(Frames(session, nextId)) /\ guiSession \in [Clients -> 0..MaxSessions]
  BY DEF Types, RelayTypes, GuiTypes
<1>3. f \in Frames(session, nextId) /\ f = outq[c][1]
  <2> DEFINE F == Frames(session, nextId)
             q == outq[c]
  <2>1. q \in Seq(F) /\ q # <<>> /\ f = Head(q)
    BY <1>1, <1>2
  <2>2. f \in F /\ f = q[1]
    <3> HIDE DEF F, q
    <3> QED
      BY <2>1
  <2> QED
    BY <2>2
<1>4. f.type = "state" => UNCHANGED guiVars
  BY DEF GuiReceive
<1>5. CASE f.type = "event"
  <2>1. guiSession' = guiSession /\ Handled(c, f.ids, cursor[c])
    BY <1>5 DEF GuiReceive
  <2>2. SessionOf(c, f) = guiSession[c] /\ From(c, f) = cursor[c]
    BY <1>5 DEF SessionOf, From
  <2>3. guiSession' = [guiSession EXCEPT ![c] = SessionOf(c, f)] /\ guiSession'[c] = SessionOf(c, f)
    BY <1>2, <2>1, <2>2
  <2>4. After(f.ids, cursor[c]) = Fresh(c, f)
    BY <2>2 DEF After, Fresh
  <2> QED
    BY <1>1, <1>2, <1>3, <1>5, <2>1, <2>2, <2>3, <2>4 DEF Handled, Notes
<1>6. CASE f.type = "replay"
  <2>0. f.session = session
    BY <1>3, <1>6 DEF Frames
  <2>1. /\ guiSession' = [guiSession EXCEPT ![c] = session]
        /\ Handled(c, f.ids, IF guiSession[c] = session THEN cursor[c] ELSE 0)
    BY <1>6, <2>0 DEF GuiReceive
  <2>2. SessionOf(c, f) = session /\ From(c, f) = IF guiSession[c] = session THEN cursor[c] ELSE 0
    BY <1>6 DEF SessionOf, From
  <2>3. guiSession' = [guiSession EXCEPT ![c] = SessionOf(c, f)] /\ guiSession'[c] = SessionOf(c, f)
    BY <1>2, <2>1, <2>2
  <2>4. Handled(c, f.ids, From(c, f)) /\ After(f.ids, From(c, f)) = Fresh(c, f)
    BY <2>1, <2>2 DEF After, Fresh
  <2> QED
    BY <1>1, <1>2, <1>3, <1>6, <2>2, <2>3, <2>4 DEF Handled, Notes
<1>7. CASE f.type = "state"
  BY <1>1, <1>2, <1>3, <1>4, <1>7
<1> QED
  BY <1>3, <1>5, <1>6, <1>7 DEF Frames

LEMMA JoinFacts ==
  ASSUME NEW S, NEW s \in Seq(S), NEW t \in Seq(S)
  PROVE  /\ s \o t \in Seq(S) /\ Len(s) \in Nat /\ Len(t) \in Nat
         /\ DOMAIN s = 1..Len(s) /\ DOMAIN t = 1..Len(t) /\ DOMAIN (s \o t) = 1..(Len(s) + Len(t))
         /\ \A i \in DOMAIN s : (s \o t)[i] = s[i]
         /\ \A i \in DOMAIN t : (s \o t)[Len(s) + i] = t[i]
         /\ \A i \in DOMAIN (s \o t) : i \in DOMAIN s \/ i - Len(s) \in DOMAIN t
OBVIOUS

LEMMA NotesFacts ==
  ASSUME Types, NEW s \in 0..session, NEW ids \in Seq(1..nextId)
  PROVE  /\ Notes(s, ids) \in Seq(Note) /\ DOMAIN Notes(s, ids) = DOMAIN ids
         /\ \A i \in DOMAIN ids : Notes(s, ids)[i] = [session |-> s, id |-> ids[i]]
<1>1. s \in 0..MaxSessions /\ \A i \in DOMAIN ids : ids[i] \in 1..MaxEvents
  BY BoundsAssumption DEF Types, BusTypes
<1>2. \A i \in DOMAIN ids : [session |-> s, id |-> ids[i]] \in Note
  BY <1>1 DEF Note
<1> QED
  BY <1>2 DEF Notes

LEMMA TypesInit == Init => Types
<1> SUFFICES ASSUME Init PROVE Types
  OBVIOUS
<1> USE BoundsAssumption
<1>1. BusTypes
  BY DEF Init, BusTypes, Ascending
<1>2. RelayTypes
  <2>1. StateFrame \in Frames(session, nextId)
    BY StateFrameType
  <2> QED
    BY <2>1 DEF Init, RelayTypes
<1>3. GuiTypes
  BY DEF Init, GuiTypes
<1>4. \A c \in Clients : ClientTypes(c)
  BY DEF Init, ClientTypes, HonouredCursor
<1> QED
  BY <1>1, <1>2, <1>3, <1>4 DEF Types

LEMMA TakeIdTypes ==
  ASSUME Types, NEW p \in Publishers, TakeId(p) PROVE Types'
<1>1. /\ nextId \in Nat /\ MaxEvents \in Nat /\ nextId' = nextId + 1 /\ nextId' \in 0..MaxEvents
      /\ ring' = Retained(nextId') /\ sending' = [sending EXCEPT ![p] = nextId']
      /\ UNCHANGED <<session, highest, relayVars, guiVars>>
  BY BoundsAssumption DEF TakeId, Types, BusTypes
<1>2. BusTypes'
  <2>1. /\ ring' \in Seq(1..nextId') /\ Len(ring') <= RingCapacity /\ Ascending(ring')
    BY <1>1, RetainedFacts
  <2>2. sending' \in [Publishers -> 0..nextId']
    BY <1>1 DEF Types, BusTypes
  <2> QED
    BY <1>1, <2>1, <2>2 DEF Types, BusTypes
<1>3. RelayTypes'
  <2> DEFINE Q == Seq(Frames(session, nextId))
             R == Seq(Frames(session, nextId'))
  <2>1. /\ Frames(session, nextId) \subseteq Frames(session, nextId')
        /\ Seq(1..nextId) \subseteq Seq(1..nextId')
    BY <1>1, FramesWiden, IdsWiden
  <2>2. Q \subseteq R
    <3> DEFINE S == Frames(session, nextId)
               T == Frames(session, nextId')
    <3>1. S \subseteq T
      BY <2>1
    <3> HIDE DEF S, T
    <3>2. Seq(S) \subseteq Seq(T)
      BY <3>1, SeqWidens
    <3> QED
      BY <3>2 DEF S, T
  <2>3. held' \in [Clients -> Frames(session, nextId')] /\ rx' \in [Clients -> Seq(1..nextId')]
    BY <1>1, <2>1 DEF Types, RelayTypes, relayVars
  <2>4. outq' \in [Clients -> R]
    <3>1. outq \in [Clients -> Q] /\ outq' = outq
      BY <1>1 DEF Types, RelayTypes, relayVars
    <3> HIDE DEF Q, R
    <3> QED
      BY <2>2, <3>1
  <2> QED
    BY <1>1, <2>3, <2>4 DEF Types, RelayTypes, relayVars
<1>4. GuiTypes'
  BY <1>1 DEF Types, GuiTypes, guiVars
<1>5. ASSUME NEW c \in Clients PROVE ClientTypes(c)'
  <2>1. HonouredCursor(c)' = HonouredCursor(c) /\ HonouredCursor(c) \in Nat
    BY <1>1 DEF HonouredCursor, guiVars, Types, GuiTypes
  <2> QED
    BY <1>1, <2>1 DEF Types, ClientTypes, relayVars, guiVars
<1> QED
  BY <1>2, <1>3, <1>4, <1>5 DEF Types

\* What a broadcast does to a receiver.
LEMMA BroadcastFacts ==
  ASSUME Types, NEW p \in Publishers, Broadcast(p), NEW c \in Clients
  PROVE  /\ lagged'[c] = (lagged[c] \/ Overrun(c))
         /\ ~Listening(c) => rx'[c] = rx[c]
         /\ Overrun(c) => rx'[c] = Append(Tail(rx[c]), sending[p]) /\ rx[c] # <<>> /\ Listening(c)
         /\ Listening(c) /\ ~Overrun(c) => rx'[c] = Append(rx[c], sending[p])
         /\ sending[p] \in 1..nextId /\ rx[c] \in Seq(1..nextId)
         /\ rx'[c] \in Seq(1..nextId) /\ Len(rx'[c]) <= RingCapacity
<1>1. sending[p] \in 1..nextId /\ rx[c] \in Seq(1..nextId) /\ Len(rx[c]) <= RingCapacity
      /\ RingCapacity \in Nat \ {0}
  BY BoundsAssumption DEF Broadcast, Types, BusTypes, RelayTypes, ClientTypes
<1>2. /\ lagged'[c] = (lagged[c] \/ Overrun(c))
      /\ rx'[c] = IF ~Listening(c) THEN rx[c]
                  ELSE IF Overrun(c) THEN Append(Tail(rx[c]), sending[p])
                  ELSE Append(rx[c], sending[p])
  BY DEF Broadcast
<1>3. Overrun(c) => Listening(c) /\ rx[c] # <<>> /\ Len(rx[c]) = RingCapacity
  BY <1>1 DEF Overrun
<1>4. CASE ~Listening(c)
  BY <1>1, <1>2, <1>3, <1>4
<1> DEFINE I == 1..nextId
           e == sending[p]
           r == rx[c]
<1>5. CASE Overrun(c)
  <2>1. e \in I /\ r \in Seq(I) /\ r # <<>> /\ rx'[c] = Append(Tail(r), e)
    BY <1>1, <1>2, <1>3, <1>5
  <2>2. Append(Tail(r), e) \in Seq(I) /\ Len(Append(Tail(r), e)) = Len(r)
    <3> HIDE DEF I, e, r
    <3> QED
      BY <2>1
  <2> QED
    BY <1>1, <1>2, <1>3, <1>5, <2>1, <2>2
<1>6. CASE Listening(c) /\ ~Overrun(c)
  <2>1. e \in I /\ r \in Seq(I) /\ rx'[c] = Append(r, e) /\ Len(r) < RingCapacity
    <3>1. Len(r) # RingCapacity
      BY <1>6 DEF Overrun
    <3> QED
      BY <1>1, <1>2, <1>6, <3>1
  <2>2. Append(r, e) \in Seq(I) /\ Len(Append(r, e)) = Len(r) + 1 /\ Len(r) \in Nat
    <3> HIDE DEF I, e, r
    <3> QED
      BY <2>1
  <2> QED
    BY <1>1, <1>2, <1>6, <2>1, <2>2
<1> QED
  BY <1>3, <1>4, <1>5, <1>6

LEMMA BroadcastTypes ==
  ASSUME Types, NEW p \in Publishers, Broadcast(p) PROVE Types'
<1>1. /\ sending[p] \in 0..nextId /\ sending' = [sending EXCEPT ![p] = 0]
      /\ highest' = IF sending[p] > highest THEN sending[p] ELSE highest
      /\ UNCHANGED <<session, nextId, ring, conn, relay, held, outq, guiVars>>
  BY DEF Broadcast, Types, BusTypes
<1>2. BusTypes'
  BY <1>1 DEF Types, BusTypes
<1>3. rx' \in [Clients -> Seq(1..nextId)]
  <2>1. \A c \in Clients : rx'[c] \in Seq(1..nextId)
    BY BroadcastFacts
  <2>2. rx' = [c \in Clients |-> rx'[c]]
    BY DEF Broadcast
  <2> QED
    BY <2>1, <2>2
<1>4. lagged' \in [Clients -> BOOLEAN]
  BY Zenon DEF Broadcast, Types, RelayTypes, Overrun, Listening
<1>5. RelayTypes'
  BY <1>1, <1>3, <1>4 DEF Types, RelayTypes
<1>6. GuiTypes'
  BY <1>1 DEF Types, GuiTypes, guiVars
<1>7. ASSUME NEW c \in Clients PROVE ClientTypes(c)'
  <2>1. Len(rx'[c]) <= RingCapacity
    BY BroadcastFacts
  <2>2. HonouredCursor(c)' = HonouredCursor(c)
    BY <1>1 DEF HonouredCursor, guiVars
  <2> QED
    BY <1>1, <2>1, <2>2 DEF Types, ClientTypes, guiVars
<1> QED
  BY <1>2, <1>5, <1>6, <1>7 DEF Types

\* The parts of a client after a step of its own.
RelayTyped(c) ==
  /\ conn' \in [Clients -> {"off", "subscribed", "on"}] /\ conn' = [conn EXCEPT ![c] = conn'[c]]
  /\ relay' \in [Clients -> {"off", "run", "wait", "dead"}]
  /\ relay' = [relay EXCEPT ![c] = relay'[c]]
  /\ lagged' \in [Clients -> BOOLEAN]
  /\ conn'[c] # "on" => outq'[c] = <<>> /\ relay'[c] = "off"
ReceiverTyped(c) ==
  /\ rx' = [rx EXCEPT ![c] = rx'[c]] /\ rx'[c] \in Seq(1..nextId) /\ Len(rx'[c]) <= RingCapacity
HeldTyped(c) == held' = [held EXCEPT ![c] = held'[c]] /\ held'[c] \in Frames(session, nextId)
QueueTyped(c) ==
  /\ outq' = [outq EXCEPT ![c] = outq'[c]] /\ outq'[c] \in Seq(Frames(session, nextId))
  /\ Len(outq'[c]) <= QueueCapacity
GuiTyped(c) ==
  /\ GuiTypes' /\ cursor' = [cursor EXCEPT ![c] = cursor'[c]]
  /\ guiSession' = [guiSession EXCEPT ![c] = guiSession'[c]]
  /\ guiSession'[c] <= session /\ (guiSession'[c] = session => cursor'[c] <= nextId)

LEMMA LeftAlone ==
  ASSUME Types, NEW c \in Clients
  PROVE  /\ rx' = rx => ReceiverTyped(c)
         /\ held' = held => HeldTyped(c)
         /\ outq' = outq => QueueTyped(c)
         /\ UNCHANGED guiVars => GuiTyped(c)
<1>1. rx' = rx => ReceiverTyped(c)
  BY DEF Types, RelayTypes, ClientTypes, ReceiverTyped
<1>2. held' = held => HeldTyped(c)
  BY DEF Types, RelayTypes, HeldTyped
<1>3. outq' = outq => QueueTyped(c)
  BY DEF Types, RelayTypes, ClientTypes, QueueTyped
<1>4. UNCHANGED guiVars => GuiTyped(c)
  BY DEF Types, GuiTypes, ClientTypes, GuiTyped, guiVars, HonouredCursor
<1> QED
  BY <1>1, <1>2, <1>3, <1>4

\* The steps of one connection and of its GUI leave the daemon's state alone.
LEMMA ClientStepTypes ==
  ASSUME Types, NEW c \in Clients, UNCHANGED daemonVars,
         RelayTyped(c), ReceiverTyped(c), HeldTyped(c), QueueTyped(c), GuiTyped(c)
  PROVE  Types'
<1> USE DEF RelayTyped, ReceiverTyped, HeldTyped, QueueTyped, GuiTyped
<1>1. BusTypes'
  BY DEF Types, BusTypes, daemonVars
<1>2. RelayTypes'
  <2>1. rx' \in [Clients -> Seq(1..nextId)]
    BY DEF Types, RelayTypes
  <2>2. held' \in [Clients -> Frames(session, nextId)]
    BY DEF Types, RelayTypes
  <2>3. outq' \in [Clients -> Seq(Frames(session, nextId))]
    BY DEF Types, RelayTypes
  <2> QED
    BY <2>1, <2>2, <2>3 DEF RelayTypes, daemonVars
<1>3. ASSUME NEW d \in Clients PROVE ClientTypes(d)'
  <2>1. CASE d = c
    <3>1. HonouredCursor(c)' <= nextId
      BY <1>1 DEF HonouredCursor, daemonVars, Types, BusTypes
    <3> QED
      BY <2>1, <3>1 DEF ClientTypes, daemonVars
  <2>2. CASE d # c
    <3>1. /\ rx'[d] = rx[d] /\ outq'[d] = outq[d] /\ conn'[d] = conn[d] /\ relay'[d] = relay[d]
          /\ cursor'[d] = cursor[d] /\ guiSession'[d] = guiSession[d]
      BY <2>2 DEF Types, RelayTypes, GuiTypes
    <3> QED
      BY <3>1 DEF Types, ClientTypes, HonouredCursor, daemonVars
  <2> QED
    BY <2>1, <2>2
<1> QED
  BY <1>1, <1>2, <1>3 DEF Types

\* What the queue and the receiver of a client can become.
LEMMA QueueGrows ==
  ASSUME Types, NEW c \in Clients, NEW f \in Frames(session, nextId), HasRoom(c)
  PROVE  /\ Append(outq[c], f) \in Seq(Frames(session, nextId))
         /\ Len(Append(outq[c], f)) <= QueueCapacity
<1> DEFINE F == Frames(session, nextId)
           q == outq[c]
<1>1. q \in Seq(F) /\ f \in F /\ Len(q) < QueueCapacity /\ QueueCapacity \in Nat
  BY BoundsAssumption DEF Types, RelayTypes, HasRoom
<1>2. Append(q, f) \in Seq(F) /\ Len(Append(q, f)) = Len(q) + 1 /\ Len(q) \in Nat
  <2> HIDE DEF F, q
  <2> QED
    BY <1>1
<1> QED
  BY <1>1, <1>2

LEMMA ReceiverShrinks ==
  ASSUME Types, NEW c \in Clients, rx[c] # <<>>
  PROVE  /\ Head(rx[c]) \in 1..nextId /\ Head(rx[c]) = rx[c][1]
         /\ Tail(rx[c]) \in Seq(1..nextId) /\ Len(Tail(rx[c])) <= RingCapacity
<1> DEFINE I == 1..nextId
           r == rx[c]
<1>1. r \in Seq(I) /\ r # <<>> /\ Len(r) <= RingCapacity /\ RingCapacity \in Nat
  BY BoundsAssumption DEF Types, RelayTypes, ClientTypes
<1>2. /\ Head(r) \in I /\ Head(r) = r[1] /\ Len(r) \in Nat
      /\ Tail(r) \in Seq(I) /\ Len(Tail(r)) = Len(r) - 1
  <2> HIDE DEF I, r
  <2> QED
    BY <1>1, TailFacts
<1> QED
  BY <1>1, <1>2

LEMMA QueueShrinks ==
  ASSUME Types, NEW c \in Clients, outq[c] # <<>>
  PROVE  /\ Tail(outq[c]) \in Seq(Frames(session, nextId)) /\ Len(Tail(outq[c])) <= QueueCapacity
<1> DEFINE F == Frames(session, nextId)
           q == outq[c]
<1>1. q \in Seq(F) /\ q # <<>> /\ Len(q) <= QueueCapacity /\ QueueCapacity \in Nat
  BY BoundsAssumption DEF Types, RelayTypes, ClientTypes
<1>2. Tail(q) \in Seq(F) /\ Len(Tail(q)) = Len(q) - 1 /\ Len(q) \in Nat
  <2> HIDE DEF F, q
  <2> QED
    BY <1>1, TailFacts
<1> QED
  BY <1>1, <1>2

\* A replay of what is above some cursor, and a single event, are frames.
LEMMA ReplayFacts ==
  ASSUME Types, NEW id \in Nat
  PROVE  /\ ReplayFrame(ReplayAfter(id)) \in Frames(session, nextId)
         /\ \A v : v \in ToSet(ReplayFrame(ReplayAfter(id)).ids) <=> v \in ToSet(ring) /\ v > id
<1>1. ring \in Seq(1..nextId) /\ nextId \in Nat /\ Ascending(ring) /\ session \in 0..MaxSessions
  BY BoundsAssumption DEF Types, BusTypes
<1>2. /\ ReplayAfter(id) \in Seq(1..nextId) /\ Ascending(ReplayAfter(id))
      /\ \A v : v \in ToSet(ReplayAfter(id)) <=> v \in ToSet(ring) /\ v > id
  BY <1>1, AboveType DEF ReplayAfter
<1> QED
  BY <1>1, <1>2 DEF ReplayFrame, Frames

LEMMA EventFacts ==
  ASSUME Types, NEW id \in 1..nextId
  PROVE  /\ EventFrame(id) \in Frames(session, nextId) /\ EventFrame(id).type = "event"
         /\ ToSet(EventFrame(id).ids) = {id}
<1>1. Ascending(<<id>>) /\ ToSet(<<id>>) = {id} /\ <<id>> \in Seq(1..nextId)
  BY DEF Ascending, ToSet
<1> QED
  BY <1>1, BoundsAssumption DEF EventFrame, Frames

\* Per client: what a step makes of it, and what that is worth.
LEMMA ReplayStepTypes ==
  ASSUME Types, NEW c \in Clients, InitialReplay(c) PROVE Types'
<1> DEFINE F == Frames(session, nextId)
           f == ReplayFrame(ReplayAfter(HonouredCursor(c)))
           q == outq'[c]
<1>1. /\ conn[c] = "subscribed" /\ conn' = [conn EXCEPT ![c] = "on"]
      /\ relay' = [relay EXCEPT ![c] = "run"]
      /\ outq' = [outq EXCEPT ![c] = outq[c] \o <<StateFrame, f>>] /\ outq[c] = <<>>
      /\ UNCHANGED <<daemonVars, rx, lagged, held, guiVars>>
  BY DEF InitialReplay, Types, ClientTypes
<1>2. HonouredCursor(c) \in Nat
  BY DEF Types, GuiTypes, HonouredCursor
<1>3. f \in F /\ StateFrame \in F
  BY <1>2, ReplayFacts, StateFrameType
<1>4. q = <<StateFrame, f>>
  <2>1. q = outq[c] \o <<StateFrame, f>>
    BY <1>1 DEF Types, RelayTypes
  <2> QED
    BY <1>1, <2>1
<1>5. q \in Seq(F) /\ Len(q) <= QueueCapacity
  <2>1. <<StateFrame, f>> \in Seq(F) /\ Len(<<StateFrame, f>>) = 2
    <3> HIDE DEF F, f
    <3> QED
      BY <1>3
  <2>2. QueueCapacity \in Nat \ {0, 1}
    BY BoundsAssumption
  <2> QED
    BY <1>4, <2>1, <2>2
<1> HIDE DEF f
<1>6. QueueTyped(c)
  BY <1>1, <1>5 DEF Types, RelayTypes, QueueTyped
<1>7. RelayTyped(c)
  BY <1>1 DEF Types, RelayTypes, RelayTyped
<1> QED
  BY <1>1, <1>6, <1>7, LeftAlone, ClientStepTypes

LEMMA ForwardEventTypes ==
  ASSUME Types, NEW c \in Clients, ForwardEvent(c) PROVE Types'
<1>1. /\ relay[c] = "run" /\ rx[c] # <<>> /\ rx' = [rx EXCEPT ![c] = Tail(rx[c])]
      /\ UNCHANGED <<daemonVars, conn, lagged, guiVars>>
  BY DEF ForwardEvent
<1>2. ReceiverTyped(c)
  BY <1>1, ReceiverShrinks DEF Types, RelayTypes, ReceiverTyped
<1>3. conn[c] = "on"
  BY <1>1 DEF Types, RelayTypes, ClientTypes
<1>4. CASE /\ HasRoom(c) /\ outq' = [outq EXCEPT ![c] = Append(@, EventFrame(Head(rx[c])))]
           /\ UNCHANGED <<relay, held>>
  <2>1. EventFrame(Head(rx[c])) \in Frames(session, nextId)
    BY <1>1, ReceiverShrinks, EventFacts
  <2>2. outq'[c] = Append(outq[c], EventFrame(Head(rx[c])))
    BY <1>4 DEF Types, RelayTypes
  <2>3. outq'[c] \in Seq(Frames(session, nextId)) /\ Len(outq'[c]) <= QueueCapacity
    BY <1>4, <2>1, <2>2, QueueGrows
  <2>4. QueueTyped(c)
    BY <1>4, <2>2, <2>3 DEF QueueTyped
  <2>5. RelayTyped(c)
    BY <1>1, <1>3, <1>4 DEF Types, RelayTypes, RelayTyped
  <2> QED
    BY <1>1, <1>2, <1>4, <2>4, <2>5, LeftAlone, ClientStepTypes
<1>5. CASE /\ relay' = [relay EXCEPT ![c] = "wait"]
           /\ held' = [held EXCEPT ![c] = ReplayFrame(ReplayAfter(0))] /\ UNCHANGED outq
  <2>1. ReplayFrame(ReplayAfter(0)) \in Frames(session, nextId)
    BY ReplayFacts
  <2>2. HeldTyped(c)
    BY <1>5, <2>1 DEF Types, RelayTypes, HeldTyped
  <2>3. RelayTyped(c)
    BY <1>1, <1>3, <1>5 DEF Types, RelayTypes, RelayTyped
  <2> QED
    BY <1>1, <1>2, <1>5, <2>2, <2>3, LeftAlone, ClientStepTypes
<1> QED
  BY <1>4, <1>5 DEF ForwardEvent

LEMMA RelayStepTypes ==
  ASSUME Types, NEW c \in Clients,
         Connect(c) \/ ForwardLagged(c) \/ ForwardStateBlocked(c) \/ CapacityTimeout(c)
  PROVE  Types'
<1>1. /\ ReplayFrame(ReplayAfter(0)) \in Frames(session, nextId)
      /\ StateFrame \in Frames(session, nextId)
  BY ReplayFacts, StateFrameType
<1>2. conn[c] # "on" => outq[c] = <<>> /\ relay[c] = "off"
  BY DEF Types, ClientTypes
<1>3. CASE Connect(c)
  <2>1. RelayTyped(c)
    BY <1>2, <1>3 DEF Connect, Types, RelayTypes, RelayTyped
  <2> QED
    BY <1>3, <2>1, LeftAlone, ClientStepTypes DEF Connect
<1>4. CASE ForwardLagged(c)
  <2>1. HeldTyped(c)
    BY <1>1, <1>4 DEF ForwardLagged, Types, RelayTypes, HeldTyped
  <2>2. RelayTyped(c)
    BY <1>2, <1>4 DEF ForwardLagged, Types, RelayTypes, RelayTyped
  <2> QED
    BY <1>4, <2>1, <2>2, LeftAlone, ClientStepTypes DEF ForwardLagged
<1>5. CASE ForwardStateBlocked(c)
  <2>1. HeldTyped(c)
    BY <1>1, <1>5 DEF ForwardStateBlocked, Types, RelayTypes, HeldTyped
  <2>2. RelayTyped(c)
    BY <1>2, <1>5 DEF ForwardStateBlocked, Types, RelayTypes, RelayTyped
  <2> QED
    BY <1>5, <2>1, <2>2, LeftAlone, ClientStepTypes DEF ForwardStateBlocked
<1>6. CASE CapacityTimeout(c)
  <2>1. HeldTyped(c)
    BY <1>1, <1>6 DEF CapacityTimeout, Types, RelayTypes, HeldTyped
  <2>2. ReceiverTyped(c)
    BY <1>6, BoundsAssumption DEF CapacityTimeout, Types, RelayTypes, ReceiverTyped
  <2>3. RelayTyped(c)
    BY <1>2, <1>6 DEF CapacityTimeout, Types, RelayTypes, RelayTyped
  <2> QED
    BY <1>6, <2>1, <2>2, <2>3, LeftAlone, ClientStepTypes DEF CapacityTimeout
<1> QED
  BY <1>3, <1>4, <1>5, <1>6

LEMMA QueueStepTypes ==
  ASSUME Types, NEW c \in Clients, CapacityReady(c) \/ QueueState(c)
  PROVE  Types'
<1>1. StateFrame \in Frames(session, nextId) /\ held[c] \in Frames(session, nextId)
  BY StateFrameType DEF Types, RelayTypes
<1>2. conn[c] # "on" => outq[c] = <<>> /\ relay[c] = "off"
  BY DEF Types, ClientTypes
<1>3. ASSUME NEW f \in Frames(session, nextId), HasRoom(c),
             outq' = [outq EXCEPT ![c] = Append(@, f)]
      PROVE  QueueTyped(c)
  <2>1. outq'[c] = Append(outq[c], f)
    BY <1>3 DEF Types, RelayTypes
  <2> QED
    BY <1>3, <2>1, QueueGrows DEF QueueTyped
<1>4. CASE CapacityReady(c)
  <2>1. HeldTyped(c)
    BY <1>1, <1>4 DEF CapacityReady, Types, RelayTypes, HeldTyped
  <2>2. QueueTyped(c)
    BY <1>1, <1>3, <1>4 DEF CapacityReady
  <2>3. RelayTyped(c)
    BY <1>2, <1>4 DEF CapacityReady, Types, RelayTypes, RelayTyped
  <2> QED
    BY <1>4, <2>1, <2>2, <2>3, LeftAlone, ClientStepTypes DEF CapacityReady
<1>5. CASE QueueState(c)
  <2>1. QueueTyped(c)
    BY <1>1, <1>3, <1>5 DEF QueueState
  <2>2. RelayTyped(c)
    BY <1>2, <1>5 DEF QueueState, Types, RelayTypes, RelayTyped
  <2> QED
    BY <1>5, <2>1, <2>2, LeftAlone, ClientStepTypes DEF QueueState
<1> QED
  BY <1>4, <1>5

LEMMA GuiReceiveTypes ==
  ASSUME Types, NEW c \in Clients, GuiReceive(c) PROVE Types'
<1> DEFINE f == Head(outq[c])
           fresh == Fresh(c, f)
           s == SessionOf(c, f)
           next == Highest(fresh, From(c, f))
<1>1. /\ conn[c] = "on" /\ outq[c] # <<>> /\ f \in Frames(session, nextId)
      /\ outq' = [outq EXCEPT ![c] = Tail(outq[c])]
      /\ UNCHANGED <<daemonVars, conn, rx, lagged, relay, held>>
      /\ f.type = "state" => UNCHANGED guiVars
      /\ f.type # "state" =>
           /\ guiSession' = [guiSession EXCEPT ![c] = s]
           /\ cursor' = [cursor EXCEPT ![c] = next]
           /\ shown' = [shown EXCEPT ![c] = @ \o Notes(s, fresh)]
  BY GuiHandles
<1>2. QueueTyped(c)
  <2>1. outq'[c] = Tail(outq[c])
    BY <1>1 DEF Types, RelayTypes
  <2> QED
    BY <1>1, <2>1, QueueShrinks DEF QueueTyped
<1>3. /\ s \in 0..session /\ From(c, f) \in 0..MaxEvents
      /\ nextId \in Nat /\ MaxEvents \in Nat /\ session \in Nat
      /\ fresh \in Seq(1..nextId) /\ Ascending(fresh)
      /\ \A v \in ToSet(fresh) : v > From(c, f)
  BY <1>1, FrameFacts
<1>4. nextId <= MaxEvents /\ session <= MaxSessions /\ MaxSessions \in Nat
  BY BoundsAssumption DEF Types, BusTypes
<1>5. next \in 0..MaxEvents
  <2>1. fresh \in Seq(1..MaxEvents)
    <3>1. Seq(1..nextId) \subseteq Seq(1..MaxEvents)
      BY <1>3, <1>4, IdsWiden
    <3> QED
      BY <1>3, <3>1
  <2> HIDE DEF fresh
  <2> QED
    BY <1>3, <2>1, HighestFacts
<1>6. s = session => next <= nextId
  <2> SUFFICES ASSUME s = session PROVE next <= nextId
    OBVIOUS
  <2>1. From(c, f) \in 0..nextId
    BY <1>3 DEF From, Types, ClientTypes, HonouredCursor
  <2> HIDE DEF fresh
  <2> QED
    BY <1>3, <2>1, HighestFacts
<1>7. shown[c] \o Notes(s, fresh) \in Seq(Note)
  <2>1. Notes(s, fresh) \in Seq(Note) /\ shown[c] \in Seq(Note)
    BY <1>3, NotesFacts DEF Types, GuiTypes
  <2> QED
    BY <2>1, JoinFacts
<1>8. f.type # "state" => guiSession'[c] = s /\ cursor'[c] = next
  BY <1>1 DEF Types, GuiTypes
<1> HIDE DEF f, fresh, s, next
<1>9. GuiTypes' /\ guiSession' = [guiSession EXCEPT ![c] = guiSession'[c]]
      /\ cursor' = [cursor EXCEPT ![c] = cursor'[c]]
  <2>1. CASE f.type = "state"
    BY <1>1, <2>1 DEF Types, GuiTypes, guiVars
  <2>2. CASE f.type # "state"
    <3>1. s \in 0..MaxSessions
      BY <1>3, <1>4
    <3> QED
      BY <1>1, <1>5, <1>7, <1>8, <2>2, <3>1 DEF Types, GuiTypes
  <2> QED
    BY <2>1, <2>2
<1>10. guiSession'[c] <= session /\ (guiSession'[c] = session => cursor'[c] <= nextId)
  <2>1. CASE f.type = "state"
    BY <1>1, <2>1 DEF Types, ClientTypes, HonouredCursor, guiVars
  <2>2. CASE f.type # "state"
    BY <1>3, <1>6, <1>8, <2>2
  <2> QED
    BY <2>1, <2>2
<1>11. GuiTyped(c)
  BY <1>9, <1>10 DEF GuiTyped
<1>12. RelayTyped(c)
  BY <1>1 DEF Types, RelayTypes, RelayTyped
<1> QED
  BY <1>1, <1>2, <1>11, <1>12, LeftAlone, ClientStepTypes

LEMMA HangUpTypes ==
  ASSUME Types, NEW c \in Clients, Disconnect(c) \/ GuiRestart(c) PROVE Types'
<1>1. /\ conn' = [conn EXCEPT ![c] = "off"] /\ rx' = [rx EXCEPT ![c] = <<>>]
      /\ lagged' = [lagged EXCEPT ![c] = FALSE] /\ relay' = [relay EXCEPT ![c] = "off"]
      /\ held' = [held EXCEPT ![c] = StateFrame] /\ outq' = [outq EXCEPT ![c] = <<>>]
      /\ UNCHANGED daemonVars
  BY DEF Disconnect, GuiRestart, HangUp
<1>2. StateFrame \in Frames(session, nextId) /\ RingCapacity \in Nat /\ QueueCapacity \in Nat
      /\ MaxEvents \in Nat /\ MaxSessions \in Nat /\ nextId \in Nat /\ session \in Nat \ {0}
  BY StateFrameType, BoundsAssumption DEF Types, BusTypes
<1>3. HeldTyped(c)
  BY <1>1, <1>2 DEF Types, RelayTypes, HeldTyped
<1>4. QueueTyped(c) /\ ReceiverTyped(c)
  BY <1>1, <1>2 DEF Types, RelayTypes, QueueTyped, ReceiverTyped
<1>5. GuiTyped(c)
  <2>1. CASE Disconnect(c)
    BY <2>1, LeftAlone DEF Disconnect
  <2>2. CASE GuiRestart(c)
    BY <1>2, <2>2 DEF GuiRestart, Types, GuiTypes, GuiTyped
  <2> QED
    BY <2>1, <2>2
<1>6. RelayTyped(c)
  BY <1>1 DEF Types, RelayTypes, RelayTyped
<1> QED
  BY <1>1, <1>3, <1>4, <1>5, <1>6, ClientStepTypes

LEMMA DaemonRestartTypes ==
  ASSUME Types, DaemonRestart PROVE Types'
<1>1. /\ session \in Nat /\ session' = session + 1 /\ session' \in 1..MaxSessions
      /\ nextId' = 0 /\ MaxEvents \in Nat /\ RingCapacity \in Nat /\ QueueCapacity \in Nat
  BY BoundsAssumption DEF DaemonRestart, Types, BusTypes
<1>2. BusTypes'
  BY <1>1 DEF DaemonRestart, BusTypes, Ascending
<1>3. RelayTypes'
  <2>1. StateFrame \in Frames(session', nextId')
    BY StateFrameType
  <2> QED
    BY <2>1 DEF DaemonRestart, RelayTypes
<1>4. GuiTypes'
  BY DEF DaemonRestart, guiVars, Types, GuiTypes
<1>5. ASSUME NEW c \in Clients PROVE ClientTypes(c)'
  <2>1. guiSession'[c] = guiSession[c] /\ guiSession[c] <= session /\ guiSession[c] \in Nat
    BY BoundsAssumption DEF DaemonRestart, guiVars, Types, GuiTypes, ClientTypes
  <2>2. rx'[c] = <<>> /\ outq'[c] = <<>> /\ relay'[c] = "off"
    BY DEF DaemonRestart
  <2> QED
    BY <1>1, <2>1, <2>2 DEF ClientTypes, HonouredCursor
<1> QED
  BY <1>2, <1>3, <1>4, <1>5 DEF Types

LEMMA TypesStep == Types /\ [Next]_vars => Types'
<1> SUFFICES ASSUME Types, [Next]_vars PROVE Types'
  OBVIOUS
<1>1. CASE \E p \in Publishers : TakeId(p) \/ Broadcast(p)
  BY <1>1, TakeIdTypes, BroadcastTypes
<1>2. ASSUME NEW c \in Clients,
             Connect(c) \/ Forward(c) \/ ForwardStateBlocked(c) \/ CapacityTimeout(c)
      PROVE  Types'
  BY <1>2, RelayStepTypes, ForwardEventTypes DEF Forward
<1>3. ASSUME NEW c \in Clients, CapacityReady(c) \/ QueueState(c) \/ InitialReplay(c)
      PROVE  Types'
  BY <1>3, QueueStepTypes, ReplayStepTypes
<1>4. ASSUME NEW c \in Clients, GuiReceive(c) \/ Disconnect(c) \/ GuiRestart(c) PROVE Types'
  BY <1>4, GuiReceiveTypes, HangUpTypes
<1>5. CASE UNCHANGED vars
  BY <1>5 DEF vars, daemonVars, relayVars, guiVars, Types, BusTypes, RelayTypes, GuiTypes,
              ClientTypes, HonouredCursor
<1> QED
  BY <1>1, <1>2, <1>3, <1>4, <1>5, DaemonRestartTypes DEF Next

LEMMA TypesHold == Spec => []Types
  BY TypesInit, TypesStep, PTL DEF Spec

\* The frames, ids and sessions of the event bus are what TypeOK says; the ring, the
\* receivers and the client queues are within their capacities.
THEOREM TypeCorrect == Spec => []TypeOK
<1>1. Types => TypeOK
  <2> SUFFICES ASSUME Types PROVE TypeOK
    OBVIOUS
  <2>1. nextId \in 0..MaxEvents /\ MaxEvents \in Nat
    BY BoundsAssumption DEF Types, BusTypes
  <2>2. ASSUME NEW f \in Frames(session, nextId) PROVE FrameOK(f)
    BY <2>1 DEF Frames, FrameOK
  <2>3. sending \in [Publishers -> 0..MaxEvents]
    BY <2>1 DEF Types, BusTypes
  <2>4. \A c \in Clients : FrameOK(held[c])
    BY <2>2 DEF Types, RelayTypes
  <2>5. ASSUME NEW c \in Clients, NEW i \in DOMAIN outq[c] PROVE FrameOK(outq[c][i])
    <3>1. outq[c] \in Seq(Frames(session, nextId))
      BY DEF Types, RelayTypes
    <3> QED
      BY <2>2, <3>1
  <2>6. \A i \in DOMAIN ring : ring[i] \in 1..nextId
    BY DEF Types, BusTypes
  <2> QED
    BY <2>1, <2>3, <2>4, <2>5, <2>6
       DEF Types, BusTypes, RelayTypes, GuiTypes, ClientTypes, TypeOK
<1> QED
  BY <1>1, TypesHold, PTL

----------------------------------------------------------------------------
(* Shown once, in order.                                                     *)

\* What has been shown is of no later session than the GUI's, nor beyond its cursor.
ShownBelow(c) ==
  \A i \in DOMAIN shown[c] :
    /\ shown[c][i].session <= guiSession[c]
    /\ shown[c][i].session = guiSession[c] => shown[c][i].id <= cursor[c]
ShownInOrder(c) ==
  \A i, j \in DOMAIN shown[c] :
    (i < j /\ shown[c][i].session = shown[c][j].session) => shown[c][i].id < shown[c][j].id

ShownInv == \A c \in Clients : ShownBelow(c) /\ ShownInOrder(c)

LEMMA ShownInit == Init => ShownInv
  BY DEF Init, ShownInv, ShownBelow, ShownInOrder

\* What a frame f shows that carries the fresh events of session s after a cursor, and
\* where the GUI's cursor is after it.
Shows(c, f, s, from, fresh) ==
  /\ s \in 0..session /\ session \in Nat /\ from \in 0..MaxEvents /\ guiSession'[c] = s
  /\ cursor'[c] = Highest(fresh, from) /\ cursor'[c] \in Nat /\ cursor'[c] >= from
  /\ cursor'[c] # from => cursor'[c] \in ToSet(fresh)
  /\ fresh \in Seq(1..nextId) /\ Ascending(fresh)
  /\ \A v : v \in ToSet(fresh) <=> v \in ToSet(f.ids) /\ v > from
  /\ \A k \in DOMAIN fresh : fresh[k] \in Nat /\ fresh[k] > from /\ fresh[k] <= cursor'[c]
  /\ shown[c] \in Seq(Note) /\ Len(shown[c]) \in Nat
  /\ \A i \in DOMAIN shown[c] : i \in DOMAIN shown'[c] /\ i \in Nat /\ shown'[c][i] = shown[c][i]
  /\ \A i \in DOMAIN fresh :
       /\ Len(shown[c]) + i \in DOMAIN shown'[c] /\ i \in Nat \ {0}
       /\ shown'[c][Len(shown[c]) + i] = [session |-> s, id |-> fresh[i]]
  /\ \A i \in DOMAIN shown'[c] :
       i \in DOMAIN shown[c] \/ \E k \in DOMAIN fresh : i = Len(shown[c]) + k
  /\ \A i \in DOMAIN shown[c] : i <= Len(shown[c])
  /\ \A d \in Clients \ {c} : /\ shown'[d] = shown[d] /\ cursor'[d] = cursor[d]
                              /\ guiSession'[d] = guiSession[d]

LEMMA GuiShows ==
  ASSUME Types, NEW c \in Clients, GuiReceive(c), NEW f, f = Head(outq[c]), f.type # "state"
  PROVE  Shows(c, f, SessionOf(c, f), From(c, f), Fresh(c, f))
<1> DEFINE s == SessionOf(c, f)
           from == From(c, f)
           fresh == Fresh(c, f)
<1>1. /\ f \in Frames(session, nextId)
      /\ guiSession' = [guiSession EXCEPT ![c] = s]
      /\ cursor' = [cursor EXCEPT ![c] = Highest(fresh, from)]
      /\ shown' = [shown EXCEPT ![c] = @ \o Notes(s, fresh)]
  BY GuiHandles
<1>2. /\ s \in 0..session /\ from \in 0..MaxEvents /\ nextId \in Nat /\ MaxEvents \in Nat
      /\ session \in Nat /\ fresh \in Seq(1..nextId) /\ Ascending(fresh)
      /\ \A v : v \in ToSet(fresh) <=> v \in ToSet(f.ids) /\ v > from
  BY <1>1, FrameFacts
<1>3. /\ guiSession'[c] = s /\ cursor'[c] = Highest(fresh, from)
      /\ shown'[c] = shown[c] \o Notes(s, fresh)
      /\ \A d \in Clients \ {c} : /\ shown'[d] = shown[d] /\ cursor'[d] = cursor[d]
                                  /\ guiSession'[d] = guiSession[d]
  BY <1>1 DEF Types, GuiTypes
<1>4. /\ Highest(fresh, from) \in Nat /\ Highest(fresh, from) >= from
      /\ \A k \in DOMAIN fresh : fresh[k] > from /\ fresh[k] <= Highest(fresh, from)
      /\ Highest(fresh, from) # from => Highest(fresh, from) \in ToSet(fresh)
  <2>1. nextId <= MaxEvents /\ \A v \in ToSet(fresh) : v > from
    BY <1>2 DEF Types, BusTypes
  <2>2. fresh \in Seq(1..MaxEvents)
    <3>1. Seq(1..nextId) \subseteq Seq(1..MaxEvents)
      BY <1>2, <2>1, IdsWiden
    <3> QED
      BY <1>2, <3>1
  <2> HIDE DEF s, from, fresh
  <2> QED
    BY <1>2, <2>1, <2>2, HighestFacts
<1>5. /\ Notes(s, fresh) \in Seq(Note) /\ DOMAIN Notes(s, fresh) = DOMAIN fresh
      /\ \A i \in DOMAIN fresh : Notes(s, fresh)[i] = [session |-> s, id |-> fresh[i]]
  BY <1>2, NotesFacts
<1>6. shown[c] \in Seq(Note)
  BY DEF Types, GuiTypes
<1> DEFINE old == shown[c]
           notes == Notes(s, fresh)
           all == old \o notes
<1>7. /\ Len(old) \in Nat /\ Len(notes) \in Nat
      /\ DOMAIN old = 1..Len(old) /\ DOMAIN notes = 1..Len(notes)
      /\ DOMAIN all = 1..(Len(old) + Len(notes))
      /\ \A i \in DOMAIN old : all[i] = old[i]
      /\ \A i \in DOMAIN notes : all[Len(old) + i] = notes[i]
      /\ \A i \in DOMAIN all : i \in DOMAIN old \/ i - Len(old) \in DOMAIN notes
  <2> HIDE DEF old, notes
  <2>1. old \in Seq(Note) /\ notes \in Seq(Note)
    BY <1>5, <1>6 DEF old, notes
  <2> QED
    BY <2>1, JoinFacts
<1>8. \A k \in DOMAIN fresh : fresh[k] \in Nat
  BY <1>2
<1>9. shown'[c] = all /\ DOMAIN fresh = 1..Len(notes)
  BY <1>3, <1>5, <1>7
<1>10. \A i \in DOMAIN fresh : notes[i] = [session |-> s, id |-> fresh[i]]
  BY <1>5
<1> HIDE DEF old, notes, all
<1>11. /\ \A i \in DOMAIN old : i \in DOMAIN all /\ i \in Nat /\ all[i] = old[i] /\ i <= Len(old)
       /\ \A i \in DOMAIN fresh : Len(old) + i \in DOMAIN all /\ i \in Nat \ {0}
                                  /\ all[Len(old) + i] = [session |-> s, id |-> fresh[i]]
  BY <1>7, <1>9, <1>10
<1>12. \A i \in DOMAIN all : i \in DOMAIN old \/ \E k \in DOMAIN fresh : i = Len(old) + k
  <2> SUFFICES ASSUME NEW i \in DOMAIN all, i \notin DOMAIN old
               PROVE  \E k \in DOMAIN fresh : i = Len(old) + k
    OBVIOUS
  <2>1. i - Len(old) \in DOMAIN fresh /\ i = Len(old) + (i - Len(old))
    BY <1>7, <1>9
  <2> QED
    BY <2>1
<1> QED
  BY <1>2, <1>3, <1>4, <1>6, <1>7, <1>8, <1>9, <1>11, <1>12 DEF old, Shows

LEMMA GuiReceiveShown ==
  ASSUME Types, ShownInv, NEW c \in Clients, GuiReceive(c) PROVE ShownInv'
<1> DEFINE f == Head(outq[c])
           s == SessionOf(c, f)
           from == From(c, f)
           fresh == Fresh(c, f)
<1>0. f = Head(outq[c]) /\ s = SessionOf(c, f) /\ from = From(c, f) /\ fresh = Fresh(c, f)
  OBVIOUS
<1> HIDE DEF f, s, from, fresh
<1>1. CASE f.type = "state"
  <2>1. UNCHANGED guiVars
    BY <1>0, <1>1, GuiHandles
  <2> QED
    BY <2>1 DEF guiVars, ShownInv, ShownBelow, ShownInOrder
<1>2. CASE f.type # "state"
  <2>0. Shows(c, f, s, from, fresh)
    BY <1>0, <1>2, GuiShows, Zenon
  <2>1. /\ s \in 0..session /\ session \in Nat /\ from \in 0..MaxEvents /\ guiSession'[c] = s
        /\ cursor'[c] \in Nat /\ cursor'[c] >= from
        /\ fresh \in Seq(1..nextId) /\ Ascending(fresh)
        /\ \A k \in DOMAIN fresh : fresh[k] \in Nat /\ fresh[k] > from /\ fresh[k] <= cursor'[c]
        /\ shown[c] \in Seq(Note) /\ Len(shown[c]) \in Nat
        /\ \A i \in DOMAIN shown[c] :
             i \in DOMAIN shown'[c] /\ i \in Nat /\ shown'[c][i] = shown[c][i]
        /\ \A i \in DOMAIN fresh :
             /\ Len(shown[c]) + i \in DOMAIN shown'[c] /\ i \in Nat \ {0}
             /\ shown'[c][Len(shown[c]) + i] = [session |-> s, id |-> fresh[i]]
        /\ \A i \in DOMAIN shown'[c] :
             i \in DOMAIN shown[c] \/ \E k \in DOMAIN fresh : i = Len(shown[c]) + k
        /\ \A i \in DOMAIN shown[c] : i <= Len(shown[c])
        /\ \A d \in Clients \ {c} : /\ shown'[d] = shown[d] /\ cursor'[d] = cursor[d]
                                    /\ guiSession'[d] = guiSession[d]
    BY <2>0 DEF Shows
  <2>2. /\ from = IF guiSession[c] = s THEN cursor[c] ELSE 0
        /\ guiSession[c] <= s /\ guiSession[c] \in Nat /\ cursor[c] \in Nat
    BY <1>0, BoundsAssumption DEF From, SessionOf, Types, GuiTypes, ClientTypes
  <2>3. \A i \in DOMAIN shown[c] : shown[c][i] \in Note
    BY <2>1
  <2>3a. \A i \in DOMAIN shown[c] : shown[c][i].session \in Nat /\ shown[c][i].id \in Nat
    BY <2>3, BoundsAssumption DEF Note
  \* What was shown before is of an earlier session or below the cursor.
  <2>4. \A i \in DOMAIN shown[c] :
          /\ shown[c][i].session <= s
          /\ shown[c][i].session = s => shown[c][i].id <= from
    <3> SUFFICES ASSUME NEW i \in DOMAIN shown[c]
                 PROVE  /\ shown[c][i].session <= s
                        /\ shown[c][i].session = s => shown[c][i].id <= from
      OBVIOUS
    <3>1. /\ shown[c][i].session <= guiSession[c]
          /\ shown[c][i].session = guiSession[c] => shown[c][i].id <= cursor[c]
      BY DEF ShownInv, ShownBelow
    <3> QED
      BY <2>1, <2>2, <2>3a, <3>1
  <2> DEFINE notes == shown'[c]
             n == Len(shown[c])
  <2>4a. \A k \in DOMAIN fresh : notes[n + k].session = s /\ notes[n + k].id = fresh[k]
    <3> SUFFICES ASSUME NEW k \in DOMAIN fresh
                 PROVE  notes[n + k].session = s /\ notes[n + k].id = fresh[k]
      OBVIOUS
    <3>1. notes[n + k] = [session |-> s, id |-> fresh[k]]
      BY <2>1
    <3> QED
      BY <3>1
  <2>5. ShownBelow(c)'
    <3>1. ASSUME NEW i \in DOMAIN notes
          PROVE  notes[i].session <= s /\ (notes[i].session = s => notes[i].id <= cursor'[c])
      <4>1. CASE i \in DOMAIN shown[c]
        BY <2>1, <2>3a, <2>4, <4>1
      <4>2. ASSUME NEW k \in DOMAIN fresh, i = n + k
            PROVE  notes[i].session = s /\ notes[i].id <= cursor'[c]
        BY <2>1, <2>4a, <4>2
      <4> QED
        BY <2>1, <4>1, <4>2
    <3> QED
      BY <2>1, <3>1 DEF ShownBelow
  <2>6. ShownInOrder(c)'
    <3>1. ASSUME NEW i \in DOMAIN notes, NEW j \in DOMAIN notes, i < j,
                 notes[i].session = notes[j].session
          PROVE  notes[i].id < notes[j].id
      <4>1. CASE j \in DOMAIN shown[c]
        <5>1. i \in DOMAIN shown[c]
          BY <2>1, <3>1, <4>1
        <5>2. notes[i] = shown[c][i] /\ notes[j] = shown[c][j]
          BY <2>1, <4>1, <5>1
        <5> QED
          BY <3>1, <4>1, <5>1, <5>2 DEF ShownInv, ShownInOrder
      <4>2. CASE j \notin DOMAIN shown[c]
        <5>1. PICK k \in DOMAIN fresh : j = n + k
          BY <2>1, <4>2
        <5>2. notes[j].session = s /\ notes[j].id = fresh[k] /\ fresh[k] > from /\ fresh[k] \in Nat
          BY <2>1, <2>4a, <5>1
        <5>3. CASE i \in DOMAIN shown[c]
          BY <2>1, <2>3a, <2>4, <3>1, <5>2, <5>3
        <5>4. ASSUME NEW l \in DOMAIN fresh, i = n + l PROVE notes[i].id < notes[j].id
          <6>1. l < k
            BY <2>1, <3>1, <5>1, <5>4
          <6>2. notes[i].id = fresh[l]
            BY <2>4a, <5>4
          <6> QED
            BY <2>1, <5>2, <6>1, <6>2 DEF Ascending
        <5> QED
          BY <2>1, <5>3, <5>4
      <4> QED
        BY <4>1, <4>2
    <3> QED
      BY <3>1 DEF ShownInOrder
  <2>7. ASSUME NEW d \in Clients, d # c PROVE ShownBelow(d)' /\ ShownInOrder(d)'
    BY <2>1, <2>7 DEF ShownInv, ShownBelow, ShownInOrder
  <2> QED
    BY <2>5, <2>6, <2>7 DEF ShownInv
<1> QED
  BY <1>1, <1>2

LEMMA ShownStep == Types /\ ShownInv /\ [Next]_vars => ShownInv'
<1> SUFFICES ASSUME Types, ShownInv, [Next]_vars PROVE ShownInv'
  OBVIOUS
<1>1. ASSUME NEW c \in Clients, GuiReceive(c) PROVE ShownInv'
  BY <1>1, GuiReceiveShown
<1>2. ASSUME NEW c \in Clients, GuiRestart(c) PROVE ShownInv'
  <2>1. /\ shown'[c] = <<>>
        /\ \A d \in Clients \ {c} : /\ shown'[d] = shown[d] /\ cursor'[d] = cursor[d]
                                    /\ guiSession'[d] = guiSession[d]
    BY <1>2 DEF GuiRestart, Types, GuiTypes
  <2> QED
    BY <2>1 DEF ShownInv, ShownBelow, ShownInOrder
<1>3. CASE UNCHANGED guiVars
  BY <1>3 DEF guiVars, ShownInv, ShownBelow, ShownInOrder
<1>4. CASE DaemonRestart \/ UNCHANGED vars \/ \E p \in Publishers : TakeId(p) \/ Broadcast(p)
  BY <1>3, <1>4 DEF DaemonRestart, TakeId, Broadcast, vars
<1>5. ASSUME NEW c \in Clients, Connect(c) \/ InitialReplay(c) \/ Forward(c) \/ Disconnect(c)
      PROVE  UNCHANGED guiVars
  BY <1>5 DEF Connect, InitialReplay, Forward, ForwardEvent, ForwardLagged, Disconnect
<1>6. ASSUME NEW c \in Clients,
             ForwardStateBlocked(c) \/ CapacityReady(c) \/ CapacityTimeout(c) \/ QueueState(c)
      PROVE  UNCHANGED guiVars
  BY <1>6 DEF ForwardStateBlocked, CapacityReady, CapacityTimeout, QueueState
<1> QED
  BY <1>1, <1>2, <1>3, <1>4, <1>5, <1>6 DEF Next

LEMMA ShownHolds == Spec => []ShownInv
  BY TypesHold, ShownInit, ShownStep, PTL DEF Spec

\* A GUI process shows no notification twice, and those of one daemon session in the
\* order of their ids, whatever is replayed to it over however many connections.
THEOREM ShownOnce == Spec => []ShownOnceInOrder
<1>1. ShownInv => ShownOnceInOrder
  BY DEF ShownInv, ShownInOrder, ShownOnceInOrder
<1> QED
  BY <1>1, ShownHolds, PTL

----------------------------------------------------------------------------
(* Nothing that is retained is passed over: on a client's way every id comes  *)
(* after the retained ids below it, unless they are settled.                  *)

\* The way of a client is its queue and its receiver, each as the id sets it carries.
IdSets(q) == [k \in DOMAIN q |-> ToSet(q[k].ids)]
Singles(r) == [k \in DOMAIN r |-> {r[k]}]

Carried(u, id) == \E k \in DOMAIN u : id \in u[k]
InOrder(u, R, S) ==
  \A n \in DOMAIN u, id \in R :
    (\E j \in u[n] : id < j) => id \in S \/ \E k \in 1..n : id \in u[k]

Ways == Seq(SUBSET Nat)

LEMMA WayGrows ==
  ASSUME NEW u \in Ways, NEW X \in SUBSET Nat, NEW R, NEW S, InOrder(u, R, S),
         \A id \in R : (\E j \in X : id < j) => id \in S \/ Carried(u, id) \/ id \in X
  PROVE  /\ InOrder(Append(u, X), R, S)
         /\ \A id : Carried(Append(u, X), id) <=> Carried(u, id) \/ id \in X
<1> DEFINE v == Append(u, X)
           L == Len(u)
<1>1. /\ L \in Nat /\ DOMAIN u = 1..L /\ DOMAIN v = 1..(L + 1)
      /\ \A k \in DOMAIN u : v[k] = u[k]
      /\ v[L + 1] = X
  BY AppendFacts DEF Ways
<1> HIDE DEF v, L
<1>2. /\ L + 1 \in DOMAIN v /\ \A k \in DOMAIN u : k \in DOMAIN v /\ k \in 1..(L + 1)
      /\ \A k \in DOMAIN v : k \in DOMAIN u \/ k = L + 1
      /\ \A n \in DOMAIN u : \A k \in 1..n : k \in DOMAIN u
      /\ L + 1 \in 1..(L + 1)
  BY <1>1
<1>3. ASSUME NEW id PROVE Carried(v, id) <=> Carried(u, id) \/ id \in X
  BY <1>1, <1>2 DEF Carried
<1>4. ASSUME NEW n \in DOMAIN v, NEW id \in R, \E j \in v[n] : id < j
      PROVE  id \in S \/ \E k \in 1..n : id \in v[k]
  <2>1. CASE n \in DOMAIN u
    <3>1. id \in S \/ \E k \in 1..n : id \in u[k]
      BY <1>1, <1>4, <2>1 DEF InOrder
    <3> QED
      BY <1>1, <1>2, <2>1, <3>1
  <2>2. CASE n = L + 1
    <3>1. id \in S \/ Carried(u, id) \/ id \in X
      BY <1>1, <1>4, <2>2
    <3> QED
      BY <1>1, <1>2, <2>2, <3>1 DEF Carried
  <2> QED
    BY <1>2, <2>1, <2>2
<1>5. InOrder(v, R, S)
  BY <1>4 DEF InOrder
<1> QED
  BY <1>3, <1>5 DEF v

LEMMA WayShrinks ==
  ASSUME NEW u \in Ways, u # <<>>, NEW R, NEW S, NEW T, InOrder(u, R, S),
         \A id \in R : id \in S \/ id \in u[1] => id \in T
  PROVE  /\ InOrder(Tail(u), R, T) /\ 1 \in DOMAIN u
         /\ \A id : Carried(u, id) <=> Carried(Tail(u), id) \/ id \in u[1]
<1> DEFINE v == Tail(u)
           L == Len(u)
<1>1. /\ L \in Nat \ {0} /\ DOMAIN u = 1..L /\ DOMAIN v = 1..(L - 1)
      /\ \A k \in DOMAIN v : k + 1 \in DOMAIN u /\ v[k] = u[k + 1]
  BY TailFacts DEF Ways
<1> HIDE DEF v, L
<1>2. /\ 1 \in DOMAIN u
      /\ \A k \in DOMAIN u : k = 1 \/ (k - 1 \in DOMAIN v /\ (k - 1) + 1 = k)
      /\ \A k \in DOMAIN v : k \in Nat
  BY <1>1
<1>3. ASSUME NEW id PROVE Carried(u, id) <=> Carried(v, id) \/ id \in u[1]
  <2>1. ASSUME NEW k \in DOMAIN u, id \in u[k], k # 1 PROVE \E l \in DOMAIN v : id \in v[l]
    <3>1. k - 1 \in DOMAIN v /\ v[k - 1] = u[k]
      BY <1>1, <1>2, <2>1
    <3> QED
      BY <2>1, <3>1
  <2> QED
    BY <1>1, <1>2, <2>1 DEF Carried
<1>4. ASSUME NEW n \in DOMAIN v, NEW id \in R, \E j \in v[n] : id < j
      PROVE  id \in T \/ \E k \in 1..n : id \in v[k]
  <2>1. id \in S \/ \E k \in 1..(n + 1) : id \in u[k]
    BY <1>1, <1>4 DEF InOrder
  <2>2. ASSUME NEW k \in 1..(n + 1), id \in u[k], k # 1 PROVE \E l \in 1..n : id \in v[l]
    <3>1. k - 1 \in 1..n /\ k - 1 \in DOMAIN v /\ v[k - 1] = u[k]
      BY <1>1, <1>2, <2>2
    <3> QED
      BY <2>2, <3>1
  <2> QED
    BY <2>1, <2>2
<1>5. InOrder(v, R, T)
  BY <1>4 DEF InOrder
<1> QED
  BY <1>2, <1>3, <1>5 DEF v

\* Order among other ids, towards another goal.
LEMMA WayStays ==
  ASSUME NEW u \in Ways, NEW R, NEW S, NEW Q, NEW T, InOrder(u, R, S),
         \A id \in Q : \/ id \in R /\ (id \in S => id \in T)
                       \/ \A n \in DOMAIN u : \A j \in u[n] : ~(id < j)
  PROVE  InOrder(u, Q, T)
  BY DEF InOrder

LEMMA IsAppend ==
  ASSUME NEW W, NEW u \in Seq(W), NEW v \in Seq(W), NEW x \in W, Len(v) = Len(u) + 1,
         \A k \in DOMAIN u : v[k] = u[k], v[Len(u) + 1] = x
  PROVE  v = Append(u, x)
<1> DEFINE w == Append(u, x)
<1>1. /\ w \in Seq(W) /\ Len(u) \in Nat /\ Len(w) = Len(u) + 1 /\ DOMAIN u = 1..Len(u)
      /\ \A k \in DOMAIN u : w[k] = u[k]
      /\ w[Len(u) + 1] = x
  BY AppendFacts
<1> HIDE DEF w
<1>2. \A k \in 1..Len(v) : k \in DOMAIN u \/ k = Len(u) + 1
  BY <1>1
<1>3. \A k \in 1..Len(v) : v[k] = w[k]
  BY <1>1, <1>2
<1> QED
  BY <1>1, <1>3, SeqEqual, Zenon DEF w

LEMMA IsTail ==
  ASSUME NEW W, NEW u \in Seq(W), NEW v \in Seq(W), u # <<>>, Len(v) = Len(u) - 1,
         \A k \in DOMAIN v : v[k] = u[k + 1]
  PROVE  v = Tail(u)
<1> DEFINE w == Tail(u)
<1>1. /\ w \in Seq(W) /\ Len(w) = Len(u) - 1 /\ DOMAIN w = 1..Len(w) /\ DOMAIN v = 1..Len(v)
      /\ \A k \in DOMAIN w : w[k] = u[k + 1]
  BY TailFacts
<1> HIDE DEF w
<1>2. Len(v) = Len(w) /\ \A k \in 1..Len(v) : v[k] = w[k]
  BY <1>1
<1> QED
  BY <1>1, <1>2, SeqEqual, Zenon DEF w

LEMMA FrameWay ==
  ASSUME NEW s, NEW m \in Nat, NEW q \in Seq(Frames(s, m))
  PROVE  /\ IdSets(q) \in Ways /\ DOMAIN IdSets(q) = DOMAIN q /\ (q = <<>>) = (IdSets(q) = <<>>)
         /\ \A k \in DOMAIN q : IdSets(q)[k] = ToSet(q[k].ids) /\ IdSets(q)[k] \subseteq 1..m
         /\ \A f \in Frames(s, m) : IdSets(Append(q, f)) = Append(IdSets(q), ToSet(f.ids))
         /\ q # <<>> => IdSets(Tail(q)) = Tail(IdSets(q)) /\ IdSets(q)[1] = ToSet(Head(q).ids)
<1> DEFINE F == Frames(s, m)
           W == SUBSET Nat
<1>1. \A f \in F : ToSet(f.ids) \subseteq 1..m /\ ToSet(f.ids) \in W
  BY DEF Frames, ToSet
<1>2. q \in Seq(F)
  OBVIOUS
<1> HIDE DEF F
<1>3. ASSUME NEW r \in Seq(F)
      PROVE  /\ IdSets(r) \in Seq(W) /\ DOMAIN IdSets(r) = DOMAIN r /\ Len(IdSets(r)) = Len(r)
             /\ \A k \in DOMAIN r : IdSets(r)[k] = ToSet(r[k].ids) /\ IdSets(r)[k] \subseteq 1..m
             /\ Len(r) \in Nat /\ DOMAIN r = 1..Len(r)
  <2>1. \A k \in DOMAIN r : r[k] \in F
    OBVIOUS
  <2> QED
    BY <1>1, <2>1 DEF IdSets
<1>4. ASSUME NEW f \in F PROVE IdSets(Append(q, f)) = Append(IdSets(q), ToSet(f.ids))
  <2> DEFINE r == Append(q, f)
             u == IdSets(q)
             v == IdSets(r)
             X == ToSet(f.ids)
  <2>1. /\ r \in Seq(F) /\ Len(r) = Len(q) + 1 /\ DOMAIN r = 1..(Len(q) + 1)
        /\ DOMAIN q = 1..Len(q) /\ Len(q) \in Nat
        /\ \A k \in DOMAIN q : r[k] = q[k]
        /\ r[Len(q) + 1] = f
    BY <1>2, AppendFacts
  <2> HIDE DEF r
  <2>2. /\ u \in Seq(W) /\ Len(u) = Len(q) /\ DOMAIN u = DOMAIN q
        /\ v \in Seq(W) /\ Len(v) = Len(r) /\ DOMAIN v = DOMAIN r
        /\ \A k \in DOMAIN q : u[k] = ToSet(q[k].ids)
        /\ \A k \in DOMAIN r : v[k] = ToSet(r[k].ids)
    BY <1>2, <1>3, <2>1
  <2>3. X \in W
    BY <1>1
  <2>4. /\ Len(q) + 1 \in DOMAIN r /\ \A k \in DOMAIN q : k \in DOMAIN r
    BY <2>1
  <2>5. v[Len(u) + 1] = X
    BY <2>1, <2>2, <2>4
  <2> HIDE DEF u, v, X, W
  <2>6. Len(v) = Len(u) + 1 /\ \A k \in DOMAIN u : v[k] = u[k]
    BY <2>1, <2>2, <2>4
  <2>7. v = Append(u, X)
    BY <2>2, <2>3, <2>5, <2>6, IsAppend
  <2> QED
    BY <2>7 DEF r, u, v, X
<1>5. ASSUME q # <<>> PROVE IdSets(Tail(q)) = Tail(IdSets(q)) /\ IdSets(q)[1] = ToSet(Head(q).ids)
  <2> DEFINE r == Tail(q)
             u == IdSets(q)
             v == IdSets(r)
  <2>1. /\ r \in Seq(F) /\ Len(q) \in Nat \ {0} /\ Len(r) = Len(q) - 1 /\ Head(q) = q[1]
        /\ DOMAIN q = 1..Len(q) /\ DOMAIN r = 1..(Len(q) - 1)
        /\ \A k \in DOMAIN r : k + 1 \in DOMAIN q /\ r[k] = q[k + 1]
    BY <1>2, <1>5, TailFacts
  <2> HIDE DEF r
  <2>2. /\ u \in Seq(W) /\ Len(u) = Len(q) /\ DOMAIN u = DOMAIN q
        /\ v \in Seq(W) /\ Len(v) = Len(r) /\ DOMAIN v = DOMAIN r
        /\ \A k \in DOMAIN q : u[k] = ToSet(q[k].ids)
        /\ \A k \in DOMAIN r : v[k] = ToSet(r[k].ids)
    BY <1>2, <1>3, <2>1
  <2>3. u # <<>> /\ 1 \in DOMAIN q
    BY <2>1, <2>2
  <2>4. u[1] = ToSet(Head(q).ids)
    BY <2>1, <2>2, <2>3
  <2> HIDE DEF u, v, W
  <2>5. Len(v) = Len(u) - 1 /\ \A k \in DOMAIN v : v[k] = u[k + 1]
    BY <2>1, <2>2
  <2>6. v = Tail(u)
    BY <2>2, <2>3, <2>5, IsTail
  <2> QED
    BY <2>4, <2>6 DEF r, u, v
<1> QED
  BY <1>2, <1>3, <1>4, <1>5 DEF F, Ways

LEMMA ReceiverWay ==
  ASSUME NEW m \in Nat, NEW r \in Seq(1..m)
  PROVE  /\ Singles(r) \in Ways /\ DOMAIN Singles(r) = DOMAIN r /\ (r = <<>>) = (Singles(r) = <<>>)
         /\ \A k \in DOMAIN r : Singles(r)[k] = {r[k]} /\ r[k] \in 1..m
         /\ \A id \in 1..m : Singles(Append(r, id)) = Append(Singles(r), {id})
         /\ r # <<>> => Singles(Tail(r)) = Tail(Singles(r)) /\ Singles(r)[1] = {Head(r)}
<1> DEFINE F == 1..m
           W == SUBSET Nat
<1>1. r \in Seq(F) /\ F \subseteq Nat
  OBVIOUS
<1> HIDE DEF F
<1>2. ASSUME NEW t \in Seq(F)
      PROVE  /\ Singles(t) \in Seq(W) /\ DOMAIN Singles(t) = DOMAIN t /\ Len(Singles(t)) = Len(t)
             /\ \A k \in DOMAIN t : Singles(t)[k] = {t[k]} /\ t[k] \in F
             /\ Len(t) \in Nat /\ DOMAIN t = 1..Len(t)
  <2>1. \A k \in DOMAIN t : t[k] \in F
    OBVIOUS
  <2>2. \A k \in DOMAIN t : {t[k]} \in W
    BY <1>1, <2>1
  <2> QED
    BY <2>1, <2>2 DEF Singles
<1>3. ASSUME NEW id \in F PROVE Singles(Append(r, id)) = Append(Singles(r), {id})
  <2> DEFINE t == Append(r, id)
             u == Singles(r)
             v == Singles(t)
             X == {id}
  <2>1. /\ t \in Seq(F) /\ Len(t) = Len(r) + 1 /\ DOMAIN t = 1..(Len(r) + 1)
        /\ DOMAIN r = 1..Len(r) /\ Len(r) \in Nat
        /\ \A k \in DOMAIN r : t[k] = r[k]
        /\ t[Len(r) + 1] = id
    BY <1>1, AppendFacts
  <2> HIDE DEF t
  <2>1a. /\ u \in Seq(W) /\ Len(u) = Len(r) /\ DOMAIN u = DOMAIN r
         /\ v \in Seq(W) /\ Len(v) = Len(t) /\ DOMAIN v = DOMAIN t
         /\ \A k \in DOMAIN r : u[k] = {r[k]}
         /\ \A k \in DOMAIN t : v[k] = {t[k]}
    BY <1>1, <1>2, <2>1
  <2>1b. X \in W /\ \A k \in DOMAIN r : k \in DOMAIN t
    BY <1>1, <2>1
  <2>1c. Len(r) + 1 \in DOMAIN t
    BY <2>1
  <2>1d. v[Len(u) + 1] = X
    BY <2>1, <2>1a, <2>1c
  <2> HIDE DEF u, v, X, W
  <2>2. Len(v) = Len(u) + 1 /\ \A k \in DOMAIN u : v[k] = u[k]
    BY <2>1, <2>1a, <2>1b
  <2>3. v = Append(u, X)
    BY <2>1a, <2>1b, <2>1d, <2>2, IsAppend
  <2> QED
    BY <2>3 DEF t, u, v, X
<1>4. ASSUME r # <<>> PROVE Singles(Tail(r)) = Tail(Singles(r)) /\ Singles(r)[1] = {Head(r)}
  <2> DEFINE t == Tail(r)
             u == Singles(r)
             v == Singles(t)
  <2>1. /\ t \in Seq(F) /\ Len(r) \in Nat \ {0} /\ Len(t) = Len(r) - 1 /\ Head(r) = r[1]
        /\ DOMAIN r = 1..Len(r) /\ DOMAIN t = 1..(Len(r) - 1)
        /\ \A k \in DOMAIN t : k + 1 \in DOMAIN r /\ t[k] = r[k + 1]
    BY <1>1, <1>4, TailFacts
  <2> HIDE DEF t
  <2>1a. /\ u \in Seq(W) /\ Len(u) = Len(r) /\ DOMAIN u = DOMAIN r
         /\ v \in Seq(W) /\ Len(v) = Len(t) /\ DOMAIN v = DOMAIN t
         /\ \A k \in DOMAIN r : u[k] = {r[k]}
         /\ \A k \in DOMAIN t : v[k] = {t[k]}
    BY <1>1, <1>2, <2>1
  <2>1b. u # <<>> /\ 1 \in DOMAIN r
    BY <2>1, <2>1a
  <2>1c. u[1] = {Head(r)}
    BY <2>1, <2>1a, <2>1b
  <2> HIDE DEF u, v, W
  <2>2. Len(v) = Len(u) - 1 /\ \A k \in DOMAIN v : v[k] = u[k + 1]
    BY <2>1, <2>1a
  <2>3. v = Tail(u)
    BY <2>1a, <2>1b, <2>2, IsTail
  <2> QED
    BY <2>1c, <2>3 DEF t, u, v
<1> QED
  BY <1>1, <1>2, <1>3, <1>4 DEF F, Ways

----------------------------------------------------------------------------
(* What is retained is on its way to every client.                           *)

\* Nothing more is to be expected of id for this client.
Settled(c, id) ==
  \/ Shown(c, id) \/ id \in overtaken
  \/ id <= highest /\ \E p \in Publishers : sending[p] = id
SettledIds(c) == {id \in Nat : Settled(c, id)}

Relaying(c) == relay[c] \in {"run", "wait"}
Holding(c, id) == relay[c] = "wait" /\ id \in ToSet(held[c].ids)
Due(c, id) ==
  Settled(c, id) \/ Carried(IdSets(outq[c]), id) \/ Holding(c, id) \/ lagged[c]
DueIds(c) == {id \in Nat : Due(c, id)}

\* Before it handles an event of this daemon session the GUI has taken it over.
SessionKnown(c) == conn[c] = "on" =>
  \/ guiSession[c] = session
  \/ \E k \in DOMAIN outq[c] :
       outq[c][k].type = "replay" /\ \A j \in 1..(k - 1) : outq[c][j].type = "state"

CursorOrder(c) == \A id \in ToSet(ring) : id <= HonouredCursor(c) => Settled(c, id)
QueueOrder(c) == InOrder(IdSets(outq[c]), ToSet(ring), SettledIds(c))
HeldOrder(c) == relay[c] = "wait" =>
  \A id \in ToSet(ring) : (\E j \in ToSet(held[c].ids) : id < j) => id \in ToSet(held[c].ids)
RxOrder(c) == Relaying(c) => InOrder(Singles(rx[c]), ToSet(ring), DueIds(c))
Accounted(c) == Relaying(c) => \A id \in ToSet(ring) :
  \/ Due(c, id) \/ Carried(Singles(rx[c]), id)
  \/ \E p \in Publishers : sending[p] = id

QueueInv(c) == SessionKnown(c) /\ CursorOrder(c) /\ QueueOrder(c) /\ HeldOrder(c)
ReceiverInv(c) == RxOrder(c) /\ Accounted(c)
OrderInv == \A c \in Clients : QueueInv(c) /\ ReceiverInv(c)

LEMMA RingFacts ==
  ASSUME Types
  PROVE  /\ \A id \in ToSet(ring) : id \in 1..nextId /\ id \in Nat
         /\ ToSet(ring) \subseteq Nat /\ nextId \in Nat /\ session \in Nat \ {0}
         /\ \A c \in Clients :
              /\ outq[c] \in Seq(Frames(session, nextId)) /\ held[c] \in Frames(session, nextId)
              /\ rx[c] \in Seq(1..nextId) /\ ToSet(held[c].ids) \in SUBSET Nat
              /\ \A j \in ToSet(held[c].ids) : j \in 1..nextId
<1>1. \A id \in ToSet(ring) : id \in 1..nextId /\ id \in Nat
  BY DEF ToSet, Types, BusTypes
<1>2. nextId \in Nat /\ session \in Nat \ {0}
  BY BoundsAssumption DEF Types, BusTypes
<1>3. ASSUME NEW c \in Clients
      PROVE  /\ outq[c] \in Seq(Frames(session, nextId)) /\ held[c] \in Frames(session, nextId)
             /\ rx[c] \in Seq(1..nextId)
  BY DEF Types, RelayTypes
<1>4. ASSUME NEW f \in Frames(session, nextId)
      PROVE  ToSet(f.ids) \in SUBSET Nat /\ \A j \in ToSet(f.ids) : j \in 1..nextId
  <2>1. f.ids \in Seq(1..nextId)
    BY DEF Frames
  <2> QED
    BY <1>2, <2>1 DEF ToSet
<1>5. \A c \in Clients : /\ ToSet(held[c].ids) \in SUBSET Nat
                         /\ \A j \in ToSet(held[c].ids) : j \in 1..nextId
  BY <1>3, <1>4
<1>6. ToSet(ring) \subseteq Nat
  BY <1>1
<1> QED
  BY <1>1, <1>2, <1>3, <1>5, <1>6

LEMMA QueueWay ==
  ASSUME Types, NEW c \in Clients
  PROVE  /\ IdSets(outq[c]) \in Ways /\ DOMAIN IdSets(outq[c]) = DOMAIN outq[c]
         /\ (outq[c] = <<>>) = (IdSets(outq[c]) = <<>>)
         /\ \A k \in DOMAIN outq[c] : /\ IdSets(outq[c])[k] = ToSet(outq[c][k].ids)
                                      /\ IdSets(outq[c])[k] \subseteq 1..nextId
         /\ \A f \in Frames(session, nextId) :
              IdSets(Append(outq[c], f)) = Append(IdSets(outq[c]), ToSet(f.ids))
         /\ outq[c] # <<>> => /\ IdSets(Tail(outq[c])) = Tail(IdSets(outq[c]))
                              /\ IdSets(outq[c])[1] = ToSet(Head(outq[c]).ids)
  BY RingFacts, FrameWay

LEMMA RxWay ==
  ASSUME Types, NEW c \in Clients
  PROVE  /\ Singles(rx[c]) \in Ways /\ DOMAIN Singles(rx[c]) = DOMAIN rx[c]
         /\ (rx[c] = <<>>) = (Singles(rx[c]) = <<>>)
         /\ \A k \in DOMAIN rx[c] : Singles(rx[c])[k] = {rx[c][k]} /\ rx[c][k] \in 1..nextId
         /\ \A id \in 1..nextId : Singles(Append(rx[c], id)) = Append(Singles(rx[c]), {id})
         /\ rx[c] # <<>> => /\ Singles(Tail(rx[c])) = Tail(Singles(rx[c]))
                            /\ Singles(rx[c])[1] = {Head(rx[c])}
  BY RingFacts, ReceiverWay

\* What is settled depends on the daemon and the GUI only.
LEMMA SettledSame ==
  ASSUME UNCHANGED daemonVars, NEW c \in Clients,
         shown'[c] = shown[c], cursor'[c] = cursor[c], guiSession'[c] = guiSession[c]
  PROVE  /\ \A id : Settled(c, id)' <=> Settled(c, id)
         /\ SettledIds(c)' = SettledIds(c) /\ HonouredCursor(c)' = HonouredCursor(c)
<1>1. ASSUME NEW id PROVE Settled(c, id)' <=> Settled(c, id)
  BY DEF Settled, Shown, daemonVars
<1>2. HonouredCursor(c)' = HonouredCursor(c)
  BY DEF HonouredCursor, daemonVars
<1> QED
  BY <1>1, <1>2 DEF SettledIds

\* A client that a step leaves alone.
LEMMA ClientSame ==
  ASSUME UNCHANGED daemonVars, NEW c \in Clients, QueueInv(c), ReceiverInv(c),
         shown'[c] = shown[c], cursor'[c] = cursor[c], guiSession'[c] = guiSession[c],
         conn'[c] = conn[c], rx'[c] = rx[c], lagged'[c] = lagged[c], relay'[c] = relay[c],
         held'[c] = held[c], outq'[c] = outq[c]
  PROVE  QueueInv(c)' /\ ReceiverInv(c)'
<1>1. /\ \A id : Settled(c, id)' <=> Settled(c, id)
      /\ SettledIds(c)' = SettledIds(c) /\ HonouredCursor(c)' = HonouredCursor(c)
  BY SettledSame
<1>2. \A id : Due(c, id)' <=> Due(c, id)
  BY <1>1 DEF Due, Holding
<1>3. DueIds(c)' = DueIds(c)
  BY <1>2 DEF DueIds
<1>4. SessionKnown(c)'
  BY DEF QueueInv, SessionKnown, daemonVars
<1>5. CursorOrder(c)' /\ QueueOrder(c)' /\ HeldOrder(c)'
  BY <1>1 DEF QueueInv, CursorOrder, QueueOrder, HeldOrder, daemonVars
<1>6. RxOrder(c)' /\ Accounted(c)'
  BY <1>2, <1>3 DEF ReceiverInv, RxOrder, Accounted, Relaying, daemonVars
<1> QED
  BY <1>4, <1>5, <1>6 DEF QueueInv, ReceiverInv

\* Whatever is retained is due: nothing is left to ask of the receiver.
LEMMA AllDue ==
  ASSUME NEW c \in Clients, \A id \in ToSet(ring) : id \in Nat /\ Due(c, id)
  PROVE  ReceiverInv(c)
  BY DEF ReceiverInv, RxOrder, Accounted, InOrder, DueIds

\* What was due stays due, and the receiver is left alone.
LEMMA DueKept ==
  ASSUME Types, NEW c \in Clients, UNCHANGED daemonVars, ReceiverInv(c), rx'[c] = rx[c],
         Relaying(c)' => Relaying(c), \A id \in ToSet(ring) : Due(c, id) => Due(c, id)'
  PROVE  ReceiverInv(c)'
<1> SUFFICES ASSUME Relaying(c)', Relaying(c) PROVE RxOrder(c)' /\ Accounted(c)'
  BY DEF ReceiverInv, RxOrder, Accounted
<1> DEFINE u == Singles(rx[c])
           R == ToSet(ring)
           S == DueIds(c)
           T == DueIds(c)'
<1>1. u \in Ways /\ InOrder(u, R, S)
  BY RxWay DEF ReceiverInv, RxOrder
<1>2. \A id \in R : id \in S => id \in T
  BY DEF DueIds
<1>3. InOrder(u, R, T)
  <2> HIDE DEF u, R, S, T
  <2> QED
    BY <1>1, <1>2, WayStays
<1>4. RxOrder(c)'
  BY <1>3 DEF RxOrder, daemonVars
<1>5. Accounted(c)'
  BY DEF ReceiverInv, Accounted, daemonVars
<1> QED
  BY <1>4, <1>5

LEMMA KnownGrows ==
  ASSUME Types, NEW c \in Clients, SessionKnown(c), UNCHANGED <<daemonVars, guiVars, conn>>,
         NEW f \in Frames(session, nextId), outq'[c] = Append(outq[c], f)
  PROVE  SessionKnown(c)'
<1> SUFFICES ASSUME conn[c] = "on", guiSession[c] # session,
                    NEW k \in DOMAIN outq[c], outq[c][k].type = "replay",
                    \A j \in 1..(k - 1) : outq[c][j].type = "state"
             PROVE  SessionKnown(c)'
  BY DEF SessionKnown, daemonVars, guiVars
<1> DEFINE F == Frames(session, nextId)
           q == outq[c]
           r == Append(q, f)
<1>1. q \in Seq(F)
  BY RingFacts
<1>2. /\ DOMAIN q = 1..Len(q) /\ DOMAIN r = 1..(Len(q) + 1) /\ Len(q) \in Nat
      /\ \A i \in DOMAIN q : r[i] = q[i]
  <2> HIDE DEF F, q
  <2> QED
    BY <1>1, AppendFacts DEF r, F
<1> HIDE DEF r
<1>3. k \in DOMAIN r /\ r[k] = q[k] /\ \A j \in 1..(k - 1) : j \in DOMAIN q /\ r[j] = q[j]
  BY <1>2
<1> QED
  BY <1>3 DEF SessionKnown, r

\* A frame that joins the queue, carrying nothing that should have come after more.
LEMMA QueueInvGrows ==
  ASSUME Types, NEW c \in Clients, QueueInv(c), UNCHANGED <<daemonVars, guiVars, conn>>,
         relay'[c] # "wait", NEW f \in Frames(session, nextId), outq'[c] = Append(outq[c], f),
         \A id \in ToSet(ring) : (\E j \in ToSet(f.ids) : id < j) =>
           Settled(c, id) \/ Carried(IdSets(outq[c]), id) \/ id \in ToSet(f.ids)
  PROVE  /\ QueueInv(c)'
         /\ \A id : Carried(IdSets(outq'[c]), id) <=>
                      Carried(IdSets(outq[c]), id) \/ id \in ToSet(f.ids)
<1> DEFINE u == IdSets(outq[c])
           X == ToSet(f.ids)
           R == ToSet(ring)
           S == SettledIds(c)
<1>1. /\ \A id : Settled(c, id)' <=> Settled(c, id)
      /\ SettledIds(c)' = S /\ HonouredCursor(c)' = HonouredCursor(c)
  BY SettledSame DEF guiVars
<1>2. /\ u \in Ways /\ InOrder(u, R, S) /\ X \in SUBSET Nat
      /\ \A id \in R : (\E j \in X : id < j) => id \in S \/ Carried(u, id) \/ id \in X
  <2>1. X \in SUBSET Nat
    <3>1. f.ids \in Seq(1..nextId) /\ nextId \in Nat
      BY RingFacts DEF Frames
    <3> QED
      BY <3>1 DEF ToSet
  <2>2. \A id \in R : id \in Nat
    BY RingFacts
  <2> QED
    BY <2>1, <2>2, QueueWay DEF QueueInv, QueueOrder, SettledIds
<1>3. /\ InOrder(Append(u, X), R, S)
      /\ \A id : Carried(Append(u, X), id) <=> Carried(u, id) \/ id \in X
  <2> HIDE DEF u, X, R, S
  <2> QED
    BY <1>2, WayGrows
<1>4. IdSets(outq'[c]) = Append(u, X)
  BY QueueWay
<1>5. SessionKnown(c)'
  BY KnownGrows DEF QueueInv
<1>6. QueueOrder(c)'
  BY <1>1, <1>3, <1>4 DEF QueueOrder, daemonVars
<1>7. CursorOrder(c)' /\ HeldOrder(c)'
  BY <1>1 DEF QueueInv, CursorOrder, HeldOrder, daemonVars
<1> QED
  BY <1>3, <1>4, <1>5, <1>6, <1>7 DEF QueueInv

\* A queue that is left alone.
LEMMA QueueInvKept ==
  ASSUME Types, NEW c \in Clients, QueueInv(c), UNCHANGED <<daemonVars, guiVars>>,
         conn'[c] = "on" => conn[c] = "on", outq'[c] = outq[c], HeldOrder(c)'
  PROVE  QueueInv(c)'
<1>1. /\ \A id : Settled(c, id)' <=> Settled(c, id)
      /\ SettledIds(c)' = SettledIds(c) /\ HonouredCursor(c)' = HonouredCursor(c)
  BY SettledSame DEF guiVars
<1>2. SessionKnown(c)'
  BY DEF QueueInv, SessionKnown, daemonVars, guiVars
<1>3. CursorOrder(c)' /\ QueueOrder(c)'
  BY <1>1 DEF QueueInv, CursorOrder, QueueOrder, daemonVars
<1> QED
  BY <1>2, <1>3 DEF QueueInv

LEMMA InitialReplayOrder ==
  ASSUME Types, NEW c \in Clients, QueueInv(c), ReceiverInv(c), InitialReplay(c)
  PROVE  QueueInv(c)' /\ ReceiverInv(c)'
<1> DEFINE f == ReplayFrame(ReplayAfter(HonouredCursor(c)))
           q == <<StateFrame, f>>
<1>1. /\ conn[c] = "subscribed" /\ UNCHANGED <<daemonVars, rx, lagged, held, guiVars>>
      /\ relay'[c] = "run" /\ outq'[c] = outq[c] \o q /\ outq[c] = <<>>
  BY DEF InitialReplay, Types, RelayTypes, ClientTypes
<1>2. HonouredCursor(c) \in Nat
  BY DEF Types, GuiTypes, HonouredCursor
<1>3. /\ f \in Frames(session, nextId) /\ f.type = "replay" /\ StateFrame.type = "state"
      /\ \A v : v \in ToSet(f.ids) <=> v \in ToSet(ring) /\ v > HonouredCursor(c)
  BY <1>2, ReplayFacts DEF ReplayFrame, StateFrame
<1> HIDE DEF f
<1>4. outq'[c] = q
  BY <1>1
<1>5. /\ q[1] = StateFrame /\ q[2] = f /\ DOMAIN q = 1..2
      /\ 1..(2 - 1) = {1} /\ 2 \in 1..2
  OBVIOUS
<1>6. /\ \A id : Settled(c, id)' <=> Settled(c, id)
      /\ SettledIds(c)' = SettledIds(c) /\ HonouredCursor(c)' = HonouredCursor(c)
  BY <1>1, SettledSame DEF guiVars
<1> HIDE DEF q
<1>7. SessionKnown(c)'
  BY <1>3, <1>4, <1>5 DEF SessionKnown
<1>8. CursorOrder(c)' /\ HeldOrder(c)'
  BY <1>1, <1>6 DEF QueueInv, CursorOrder, HeldOrder, daemonVars
<1>9. /\ DOMAIN IdSets(q) = 1..2 /\ IdSets(q)[2] = ToSet(f.ids) /\ IdSets(q)[1] = {}
  <2>1. ToSet(StateFrame.ids) = {}
    BY DEF StateFrame, ToSet
  <2> QED
    BY <1>5, <2>1 DEF IdSets
<1>10. \A id \in ToSet(ring) : Settled(c, id) \/ id \in ToSet(f.ids)
  BY <1>2, <1>3, RingFacts DEF QueueInv, CursorOrder
<1>11. InOrder(IdSets(q), ToSet(ring), SettledIds(c))
  <2> SUFFICES ASSUME NEW n \in 1..2, NEW id \in ToSet(ring), NEW j \in IdSets(q)[n], id < j
               PROVE  id \in SettledIds(c) \/ \E k \in 1..n : id \in IdSets(q)[k]
    BY <1>9 DEF InOrder
  <2>1. n = 2
    BY <1>9
  <2>2. id \in Nat
    BY RingFacts
  <2> QED
    BY <1>9, <1>10, <2>1, <2>2 DEF SettledIds
<1>12. QueueInv(c)'
  BY <1>1, <1>4, <1>6, <1>7, <1>8, <1>11 DEF QueueInv, QueueOrder, daemonVars
<1>13. \A id \in ToSet(ring) : id \in Nat /\ Due(c, id)'
  BY <1>4, <1>6, <1>9, <1>10, RingFacts DEF Due, Carried
<1>14. ReceiverInv(c)'
  BY <1>1, <1>13 DEF ReceiverInv, RxOrder, Accounted, InOrder, DueIds, daemonVars
<1> QED
  BY <1>12, <1>14

\* The relay holds a replay of the whole ring: all that is retained is due.
LEMMA HoldsTheRing ==
  ASSUME Types, NEW c \in Clients, QueueInv(c), UNCHANGED <<daemonVars, guiVars, conn, outq>>,
         relay'[c] = "wait", held'[c] = ReplayFrame(ReplayAfter(0))
  PROVE  QueueInv(c)' /\ ReceiverInv(c)'
<1>1. \A id \in ToSet(ring) : id \in Nat /\ id \in ToSet(held'[c].ids)
  <2>1. \A v : v \in ToSet(held'[c].ids) <=> v \in ToSet(ring) /\ v > 0
    BY ReplayFacts
  <2> QED
    BY <2>1, RingFacts
<1>2. HeldOrder(c)'
  BY <1>1 DEF HeldOrder, daemonVars
<1>3. \A id \in ToSet(ring) : id \in Nat /\ Due(c, id)'
  BY <1>1 DEF Due, Holding
<1>4. ReceiverInv(c)'
  BY <1>3 DEF ReceiverInv, RxOrder, Accounted, InOrder, DueIds, daemonVars
<1> QED
  BY <1>2, <1>4, QueueInvKept

LEMMA ForwardEventOrder ==
  ASSUME Types, NEW c \in Clients, QueueInv(c), ReceiverInv(c), ForwardEvent(c)
  PROVE  QueueInv(c)' /\ ReceiverInv(c)'
<1>1. /\ relay[c] = "run" /\ ~lagged[c] /\ rx[c] # <<>> /\ rx'[c] = Tail(rx[c])
      /\ UNCHANGED <<daemonVars, conn, lagged, guiVars>>
  BY DEF ForwardEvent, Types, RelayTypes
<1>2. CASE /\ relay' = [relay EXCEPT ![c] = "wait"]
           /\ held' = [held EXCEPT ![c] = ReplayFrame(ReplayAfter(0))] /\ UNCHANGED outq
  <2>1. relay'[c] = "wait" /\ held'[c] = ReplayFrame(ReplayAfter(0))
    BY <1>2 DEF Types, RelayTypes
  <2> QED
    BY <1>1, <1>2, <2>1, HoldsTheRing
<1>3. CASE /\ outq' = [outq EXCEPT ![c] = Append(@, EventFrame(Head(rx[c])))]
           /\ UNCHANGED <<relay, held>>
  <2> DEFINE e == Head(rx[c])
             f == EventFrame(e)
             u == Singles(rx[c])
             R == ToSet(ring)
             S == DueIds(c)
             T == DueIds(c)'
  <2>1. outq'[c] = Append(outq[c], f)
    BY <1>3 DEF Types, RelayTypes
  <2>2. e \in 1..nextId /\ e \in Nat
    BY <1>1, ReceiverShrinks, RingFacts
  <2>3. f \in Frames(session, nextId) /\ ToSet(f.ids) = {e}
    BY <2>2, EventFacts
  <2>4. /\ u \in Ways /\ u # <<>> /\ 1 \in DOMAIN u /\ u[1] = {e}
        /\ Singles(rx'[c]) = Tail(u)
    <3>1. rx[c] \in Seq(1..nextId)
      BY RingFacts
    <3>2. 1 \in DOMAIN rx[c]
      BY <1>1, <3>1
    <3> QED
      BY <1>1, <3>2, RxWay
  <2>5. InOrder(u, R, S)
    BY <1>1 DEF ReceiverInv, RxOrder, Relaying
  \* What is below the event that moves on is already in the queue.
  <2>6. ASSUME NEW id \in R, id < e PROVE Settled(c, id) \/ Carried(IdSets(outq[c]), id)
    <3>1. id \in S \/ \E k \in 1..1 : id \in u[k]
      BY <2>4, <2>5, <2>6 DEF InOrder
    <3>2. id \in S
      <4>1. id \in Nat /\ id # e
        BY <2>2, <2>6, RingFacts
      <4> QED
        BY <2>4, <3>1, <4>1
    <3> QED
      BY <1>1, <3>2 DEF DueIds, Due, Holding
  <2>7. /\ QueueInv(c)'
        /\ \A id : Carried(IdSets(outq'[c]), id) <=> Carried(IdSets(outq[c]), id) \/ id = e
    <3> HIDE DEF f, e, R
    <3>1. relay'[c] # "wait" /\ UNCHANGED <<daemonVars, guiVars, conn>>
      BY <1>1, <1>3
    <3>2. \A id \in R : (\E j \in ToSet(f.ids) : id < j) =>
           Settled(c, id) \/ Carried(IdSets(outq[c]), id) \/ id \in ToSet(f.ids)
      BY <2>3, <2>6
    <3>3. /\ QueueInv(c)'
          /\ \A id : Carried(IdSets(outq'[c]), id) <=>
                       Carried(IdSets(outq[c]), id) \/ id \in ToSet(f.ids)
      BY <2>1, <2>3, <3>1, <3>2, QueueInvGrows DEF R
    <3> QED
      BY <2>3, <3>3
  <2>8. \A id : Settled(c, id)' <=> Settled(c, id)
    BY <1>1, SettledSame DEF guiVars
  <2>9. \A id : Due(c, id) \/ id = e => Due(c, id)'
    BY <1>1, <1>3, <2>7, <2>8 DEF Due, Holding
  <2>10. \A id \in R : id \in S \/ id \in u[1] => id \in T
    BY <2>2, <2>4, <2>9 DEF DueIds
  <2>11. InOrder(Tail(u), R, T) /\ \A id : Carried(u, id) <=> Carried(Tail(u), id) \/ id \in u[1]
    <3> HIDE DEF u, R, S, T
    <3> QED
      BY <2>4, <2>5, <2>10, WayShrinks
  <2>12. RxOrder(c)'
    BY <1>1, <2>4, <2>11 DEF RxOrder, daemonVars
  <2>13. Accounted(c)'
    <3>1. ASSUME NEW id \in R
          PROVE  Due(c, id)' \/ Carried(Tail(u), id) \/ \E p \in Publishers : sending[p] = id
      <4>1. Due(c, id) \/ Carried(u, id) \/ \E p \in Publishers : sending[p] = id
        BY <1>1 DEF ReceiverInv, Accounted, Relaying
      <4> QED
        BY <2>4, <2>9, <2>11, <4>1
    <3> QED
      BY <1>1, <2>4, <3>1 DEF Accounted, daemonVars
  <2> QED
    BY <2>7, <2>12, <2>13 DEF ReceiverInv
<1> QED
  BY <1>2, <1>3 DEF ForwardEvent

LEMMA RelayStepOrder ==
  ASSUME Types, NEW c \in Clients, QueueInv(c), ReceiverInv(c),
         ForwardLagged(c) \/ ForwardStateBlocked(c) \/ CapacityTimeout(c) \/ Connect(c)
  PROVE  QueueInv(c)' /\ ReceiverInv(c)'
<1>1. CASE ForwardLagged(c)
  <2>1. /\ relay'[c] = "wait" /\ held'[c] = ReplayFrame(ReplayAfter(0))
        /\ UNCHANGED <<daemonVars, guiVars, conn, outq>>
    BY <1>1 DEF ForwardLagged, Types, RelayTypes
  <2> QED
    BY <2>1, HoldsTheRing
<1>2. CASE ForwardStateBlocked(c)
  <2>1. /\ relay[c] = "run" /\ relay'[c] = "wait" /\ held'[c] = StateFrame
        /\ UNCHANGED <<daemonVars, guiVars, conn, outq, rx, lagged>>
    BY <1>2 DEF ForwardStateBlocked, Types, RelayTypes
  <2>2. ToSet(held'[c].ids) = {}
    BY <2>1 DEF StateFrame, ToSet
  <2>3. QueueInv(c)'
    <3>1. HeldOrder(c)'
      BY <2>2 DEF HeldOrder
    <3> QED
      BY <2>1, <3>1, QueueInvKept
  <2>4. \A id : Due(c, id) => Due(c, id)'
    <3>1. \A id : Settled(c, id)' <=> Settled(c, id)
      BY <2>1, SettledSame DEF guiVars
    <3> QED
      BY <2>1, <3>1 DEF Due, Holding
  <2>5. ReceiverInv(c)'
    BY <2>1, <2>4, DueKept DEF Relaying
  <2> QED
    BY <2>3, <2>5
<1>3. CASE CapacityTimeout(c) \/ Connect(c)
  <2>1. /\ relay'[c] \in {"dead", "off"}
        /\ UNCHANGED <<daemonVars, guiVars, outq>> /\ (conn'[c] = "on" => conn[c] = "on")
    BY <1>3 DEF CapacityTimeout, Connect, Types, RelayTypes, ClientTypes
  <2>2. QueueInv(c)'
    <3>1. HeldOrder(c)'
      BY <2>1 DEF HeldOrder
    <3> QED
      BY <2>1, <3>1, QueueInvKept
  <2>3. ReceiverInv(c)'
    BY <2>1 DEF ReceiverInv, RxOrder, Accounted, Relaying
  <2> QED
    BY <2>2, <2>3
<1> QED
  BY <1>1, <1>2, <1>3

LEMMA QueueStepOrder ==
  ASSUME Types, NEW c \in Clients, QueueInv(c), ReceiverInv(c), CapacityReady(c) \/ QueueState(c)
  PROVE  QueueInv(c)' /\ ReceiverInv(c)'
<1> DEFINE f == IF CapacityReady(c) THEN held[c] ELSE StateFrame
           X == ToSet(f.ids)
<1>1. /\ relay'[c] # "wait" /\ outq'[c] = Append(outq[c], f) /\ rx'[c] = rx[c]
      /\ UNCHANGED <<daemonVars, guiVars, conn, lagged>> /\ (Relaying(c)' => Relaying(c))
      /\ (CapacityReady(c) => relay[c] = "wait") /\ (~CapacityReady(c) => relay[c] # "wait")
  BY DEF CapacityReady, QueueState, Types, RelayTypes, Relaying
<1>2. f \in Frames(session, nextId)
  BY StateFrameType, RingFacts
<1>3. ~CapacityReady(c) => X = {}
  BY DEF StateFrame, ToSet
<1>4. \A id \in ToSet(ring) : (\E j \in X : id < j) => id \in X
  BY <1>1, <1>3 DEF QueueInv, HeldOrder
<1> HIDE DEF f
<1>5. /\ QueueInv(c)'
      /\ \A id : Carried(IdSets(outq'[c]), id) <=> Carried(IdSets(outq[c]), id) \/ id \in X
  BY <1>1, <1>2, <1>4, QueueInvGrows
<1>6. \A id : Due(c, id) => Due(c, id)'
  <2>1. \A id : Settled(c, id)' <=> Settled(c, id)
    BY <1>1, SettledSame DEF guiVars
  <2>2. \A id : Holding(c, id) => id \in X
    BY <1>1 DEF Holding, f
  <2> QED
    BY <1>1, <1>5, <2>1, <2>2 DEF Due
<1>7. ReceiverInv(c)'
  BY <1>1, <1>6, DueKept
<1> QED
  BY <1>5, <1>7

\* A connection that is lost takes nothing with it but what was on its way.
LEMMA HangUpOrder ==
  ASSUME Types, NEW c \in Clients, QueueInv(c), Disconnect(c) \/ GuiRestart(c)
  PROVE  QueueInv(c)' /\ ReceiverInv(c)'
<1>1. /\ conn'[c] = "off" /\ relay'[c] = "off" /\ outq'[c] = <<>> /\ UNCHANGED daemonVars
  BY DEF Disconnect, GuiRestart, HangUp, Types, RelayTypes
<1>2. CursorOrder(c)'
  <2>1. CASE Disconnect(c)
    <3>1. UNCHANGED guiVars
      BY <2>1 DEF Disconnect
    <3>2. /\ \A id : Settled(c, id)' <=> Settled(c, id)
          /\ HonouredCursor(c)' = HonouredCursor(c)
      BY <1>1, <3>1, SettledSame DEF guiVars
    <3> QED
      BY <1>1, <3>2 DEF QueueInv, CursorOrder, daemonVars
  <2>2. CASE GuiRestart(c)
    <3>1. HonouredCursor(c)' = 0
      BY <2>2 DEF GuiRestart, HonouredCursor, Types, GuiTypes
    <3> QED
      BY <1>1, <3>1, RingFacts DEF CursorOrder, daemonVars
  <2> QED
    BY <2>1, <2>2
<1>3. QueueOrder(c)'
  BY <1>1 DEF QueueOrder, InOrder, IdSets
<1> QED
  BY <1>1, <1>2, <1>3
     DEF QueueInv, ReceiverInv, SessionKnown, HeldOrder, RxOrder, Accounted, Relaying

\* A frame that leaves the queue, once the GUI has settled what it carries.
LEMMA QueueInvShrinks ==
  ASSUME Types, NEW c \in Clients, QueueInv(c), ReceiverInv(c), outq[c] # <<>>,
         UNCHANGED <<daemonVars, rx, lagged, relay, held>>, outq'[c] = Tail(outq[c]),
         SessionKnown(c)', CursorOrder(c)',
         \A id \in ToSet(ring) :
           Settled(c, id) \/ id \in ToSet(Head(outq[c]).ids) => Settled(c, id)'
  PROVE  QueueInv(c)' /\ ReceiverInv(c)'
<1> DEFINE u == IdSets(outq[c])
           R == ToSet(ring)
           S == SettledIds(c)
           T == SettledIds(c)'
<1>1. /\ u \in Ways /\ u # <<>> /\ u[1] = ToSet(Head(outq[c]).ids) /\ IdSets(outq'[c]) = Tail(u)
      /\ InOrder(u, R, S)
  BY QueueWay DEF QueueInv, QueueOrder
<1>2. \A id \in R : id \in S \/ id \in u[1] => id \in T
  BY <1>1, RingFacts DEF SettledIds
<1>3. InOrder(Tail(u), R, T) /\ \A id : Carried(u, id) <=> Carried(Tail(u), id) \/ id \in u[1]
  <2> HIDE DEF u, R, S, T
  <2> QED
    BY <1>1, <1>2, WayShrinks
<1>4. QueueOrder(c)'
  BY <1>1, <1>3 DEF QueueOrder, daemonVars
<1>5. HeldOrder(c)'
  BY DEF QueueInv, HeldOrder, daemonVars
<1>6. \A id \in R : Due(c, id) => Due(c, id)'
  BY <1>1, <1>3 DEF Due, Holding
<1>7. ReceiverInv(c)'
  BY <1>6, DueKept DEF Relaying
<1> QED
  BY <1>4, <1>5, <1>7 DEF QueueInv

\* An event is of the session the GUI has taken over.
LEMMA HandlesThisSession ==
  ASSUME Types, NEW c \in Clients, QueueInv(c), GuiReceive(c), NEW f, f = Head(outq[c]),
         f.type # "state"
  PROVE  SessionOf(c, f) = session
<1> DEFINE q == outq[c]
<1>1. conn[c] = "on" /\ q # <<>> /\ q \in Seq(Frames(session, nextId)) /\ f = q[1]
  BY GuiHandles
<1>2. CASE f.type = "event"
  <2>1. ASSUME NEW k \in DOMAIN q, q[k].type = "replay",
               \A j \in 1..(k - 1) : q[j].type = "state"
        PROVE  FALSE
    <3>1. k = 1 \/ 1 \in 1..(k - 1)
      BY <1>1
    <3> QED
      BY <1>1, <1>2, <2>1, <3>1
  <2> QED
    BY <1>1, <1>2, <2>1 DEF SessionOf, QueueInv, SessionKnown
<1> QED
  BY <1>2 DEF SessionOf

LEMMA GuiReceiveOrder ==
  ASSUME Types, NEW c \in Clients, QueueInv(c), ReceiverInv(c), GuiReceive(c)
  PROVE  QueueInv(c)' /\ ReceiverInv(c)'
<1> DEFINE f == Head(outq[c])
           q == outq[c]
           F == Frames(session, nextId)
<1>1. /\ conn[c] = "on" /\ q # <<>> /\ q \in Seq(F) /\ f \in F /\ f = q[1]
      /\ outq' = [outq EXCEPT ![c] = Tail(outq[c])]
      /\ UNCHANGED <<daemonVars, conn, rx, lagged, relay, held>>
      /\ f.type = "state" => UNCHANGED guiVars
  BY GuiHandles
<1>2. outq'[c] = Tail(outq[c])
  BY <1>1 DEF Types, RelayTypes
<1>3. CASE f.type = "state"
  <2>1. ToSet(f.ids) = {}
    BY <1>1, <1>3 DEF Frames, ToSet
  <2>2. /\ \A id : Settled(c, id)' <=> Settled(c, id)
        /\ HonouredCursor(c)' = HonouredCursor(c)
    BY <1>1, <1>3, SettledSame DEF guiVars
  <2>3. CursorOrder(c)'
    BY <1>1, <2>2 DEF QueueInv, CursorOrder, daemonVars
  <2>4. SessionKnown(c)'
    <3> SUFFICES ASSUME guiSession[c] # session, NEW k \in DOMAIN q, q[k].type = "replay",
                        \A j \in 1..(k - 1) : q[j].type = "state"
                 PROVE  SessionKnown(c)'
      BY <1>1, <1>3 DEF QueueInv, SessionKnown, daemonVars, guiVars
    <3> DEFINE r == Tail(q)
    <3>1. /\ DOMAIN q = 1..Len(q) /\ DOMAIN r = 1..(Len(q) - 1) /\ Len(q) \in Nat
          /\ \A i \in DOMAIN r : i + 1 \in DOMAIN q /\ r[i] = q[i + 1]
      <4> HIDE DEF q, F
      <4> QED
        BY <1>1, TailFacts
    <3> HIDE DEF r
    <3>2. k # 1
      BY <1>1, <1>3
    <3>3. k - 1 \in DOMAIN r /\ r[k - 1] = q[k]
      BY <3>1, <3>2
    <3>4. ASSUME NEW j \in 1..(k - 1 - 1)
          PROVE  j \in DOMAIN r /\ j + 1 \in 1..(k - 1) /\ r[j] = q[j + 1]
      <4>1. j \in DOMAIN r /\ j + 1 \in 1..(k - 1)
        BY <3>1
      <4> QED
        BY <3>1, <4>1
    <3> QED
      BY <1>2, <3>3, <3>4 DEF SessionKnown, r
  <2> HIDE DEF F
  <2> QED
    BY <1>1, <1>2, <2>1, <2>2, <2>3, <2>4, QueueInvShrinks
<1>4. CASE f.type # "state"
  <2> DEFINE s == SessionOf(c, f)
             from == From(c, f)
             fresh == Fresh(c, f)
             R == ToSet(ring)
  <2>1. Shows(c, f, s, from, fresh)
    BY <1>4, GuiHandles, GuiShows
  <2>2. s = session
    BY <1>4, HandlesThisSession
  <2>3. from = HonouredCursor(c)
    BY <2>2 DEF From, HonouredCursor
  <2> HIDE DEF f, q, F, s, from, fresh
  <2>4. /\ guiSession'[c] = session /\ cursor'[c] \in Nat /\ from \in Nat
        /\ cursor'[c] # from => cursor'[c] \in ToSet(fresh)
        /\ \A v : v \in ToSet(fresh) <=> v \in ToSet(f.ids) /\ v > from
        /\ \A i \in DOMAIN shown[c] : i \in DOMAIN shown'[c] /\ shown'[c][i] = shown[c][i]
        /\ \A i \in DOMAIN fresh :
             /\ Len(shown[c]) + i \in DOMAIN shown'[c]
             /\ shown'[c][Len(shown[c]) + i] = [session |-> s, id |-> fresh[i]]
    BY <2>1, <2>2 DEF Shows
  <2>5. \A id : Shown(c, id) => Shown(c, id)'
    BY <1>1, <2>4 DEF Shown, daemonVars
  <2>6. ASSUME NEW id \in ToSet(fresh) PROVE Shown(c, id)'
    <3>1. PICK i \in DOMAIN fresh : fresh[i] = id
      BY DEF ToSet
    <3> QED
      BY <1>1, <2>2, <2>4, <3>1 DEF Shown, daemonVars
  <2>7. \A id : Settled(c, id) \/ Shown(c, id)' => Settled(c, id)'
    BY <1>1, <2>5 DEF Settled, daemonVars
  <2>8. \A id \in R : id \in ToSet(f.ids) => Settled(c, id)'
    <3> SUFFICES ASSUME NEW id \in R, id \in ToSet(f.ids) PROVE Settled(c, id)'
      OBVIOUS
    <3>1. CASE id <= from
      BY <2>3, <2>7, <3>1 DEF QueueInv, CursorOrder
    <3>2. CASE id > from
      BY <2>4, <2>6, <2>7, <3>2
    <3> QED
      BY <2>4, <3>1, <3>2, RingFacts
  <2>9. HonouredCursor(c)' = cursor'[c]
    BY <1>1, <2>4 DEF HonouredCursor, daemonVars
  <2>10. ASSUME NEW id \in R, id <= cursor'[c] PROVE Settled(c, id)'
    <3>1. CASE id <= from
      BY <2>3, <2>7, <3>1 DEF QueueInv, CursorOrder
    <3>2. CASE id > from
      <4>1. id \in Nat /\ cursor'[c] \in ToSet(f.ids)
        BY <2>4, <2>10, <3>2, RingFacts
      <4>2. id = cursor'[c] \/ id < cursor'[c]
        BY <2>4, <2>10, <4>1
      <4>3. /\ 1 \in DOMAIN IdSets(outq[c]) /\ IdSets(outq[c])[1] = ToSet(f.ids)
            /\ InOrder(IdSets(outq[c]), R, SettledIds(c))
        <5>1. 1 \in DOMAIN outq[c]
          BY <1>1, RingFacts DEF q
        <5> QED
          BY <1>1, <5>1, QueueWay DEF QueueInv, QueueOrder, q, f
      <4>4. ASSUME id < cursor'[c] PROVE Settled(c, id) \/ id \in ToSet(f.ids)
        <5>1. id \in SettledIds(c) \/ \E k \in 1..1 : id \in IdSets(outq[c])[k]
          BY <4>1, <4>3, <4>4 DEF InOrder
        <5> QED
          BY <4>3, <5>1 DEF SettledIds
      <4> QED
        BY <2>7, <2>8, <4>1, <4>2, <4>4
    <3> QED
      BY <2>4, <3>1, <3>2, RingFacts
  <2>11. CursorOrder(c)'
    BY <1>1, <2>9, <2>10 DEF CursorOrder, daemonVars
  <2>12. SessionKnown(c)'
    BY <1>1, <2>4 DEF SessionKnown, daemonVars
  <2> QED
    BY <1>1, <1>2, <2>7, <2>8, <2>11, <2>12, QueueInvShrinks DEF f, q
<1> QED
  BY <1>3, <1>4

LEMMA BroadcastOrder ==
  ASSUME Types, NEW p \in Publishers, Broadcast(p), NEW c \in Clients, QueueInv(c), ReceiverInv(c)
  PROVE  QueueInv(c)' /\ ReceiverInv(c)'
<1> DEFINE e == sending[p]
           R == ToSet(ring)
           S == SettledIds(c)
           T == SettledIds(c)'
           Q == IdSets(outq[c])
<1>1. /\ e # 0 /\ e \in Nat /\ highest \in Nat
      /\ highest' = IF e > highest THEN e ELSE highest
      /\ overtaken' = IF e > highest THEN overtaken ELSE overtaken \cup {e}
      /\ sending' = [sending EXCEPT ![p] = 0]
      /\ UNCHANGED <<session, nextId, ring, conn, relay, held, outq, guiVars>>
  BY RingFacts DEF Broadcast, Types, BusTypes
<1>2. \A q \in Publishers : /\ sending[q] \in Nat
                            /\ q # p => sending'[q] = sending[q]
  BY <1>1, RingFacts DEF Types, BusTypes
<1>3. e <= highest' /\ highest <= highest' /\ highest' \in Nat
  BY <1>1
\* An event that was being sent below the highest one is overtaken now.
<1>4. ASSUME NEW id, Settled(c, id) PROVE Settled(c, id)'
  <2>1. CASE Shown(c, id)
    BY <1>1, <2>1 DEF Settled, Shown, guiVars
  <2>2. CASE id \in overtaken
    BY <1>1, <2>2 DEF Settled
  <2>3. ASSUME NEW q \in Publishers, sending[q] = id, id <= highest PROVE Settled(c, id)'
    <3>1. CASE q = p
      BY <1>1, <2>3, <3>1 DEF Settled
    <3>2. CASE q # p
      BY <1>1, <1>2, <1>3, <2>3, <3>2 DEF Settled
    <3> QED
      BY <3>1, <3>2
  <2> QED
    BY <1>4, <2>1, <2>2, <2>3 DEF Settled
<1>5. QueueInv(c)'
  <2>1. SessionKnown(c)'
    BY <1>1 DEF QueueInv, SessionKnown, guiVars
  <2>2. CursorOrder(c)'
    BY <1>1, <1>4 DEF QueueInv, CursorOrder, HonouredCursor, guiVars
  <2>3. HeldOrder(c)'
    BY <1>1 DEF QueueInv, HeldOrder
  <2>4. Q \in Ways /\ InOrder(Q, R, S) /\ \A id \in R : id \in S => id \in T
    BY <1>4, QueueWay DEF QueueInv, QueueOrder, SettledIds
  <2>5. InOrder(Q, R, T)
    <3> HIDE DEF Q, R, S, T
    <3> QED
      BY <2>4, WayStays
  <2>6. QueueOrder(c)'
    BY <1>1, <2>5 DEF QueueOrder
  <2> QED
    BY <2>1, <2>2, <2>3, <2>6 DEF QueueInv
<1>6. /\ lagged'[c] = (lagged[c] \/ Overrun(c)) /\ e \in 1..nextId
      /\ Listening(c) /\ ~Overrun(c) => rx'[c] = Append(rx[c], e)
  BY BroadcastFacts
<1>7. CASE lagged'[c]
  <2>1. \A id \in R : id \in Nat /\ Due(c, id)'
    BY <1>7, RingFacts DEF Due
  <2> QED
    BY <1>1, <1>5, <2>1 DEF ReceiverInv, RxOrder, Accounted, InOrder, DueIds
<1>8. CASE ~Relaying(c)
  BY <1>1, <1>5, <1>8 DEF ReceiverInv, RxOrder, Accounted, Relaying
<1>9. CASE ~lagged'[c] /\ Relaying(c)
  <2> DEFINE u == Singles(rx[c])
             X == {e}
             D == DueIds(c)'
  <2>1. Listening(c) /\ ~Overrun(c) /\ ~lagged[c]
    BY <1>6, <1>9 DEF Listening, Relaying, Types, ClientTypes
  <2>2. Singles(rx'[c]) = Append(u, X) /\ u \in Ways /\ X \in SUBSET Nat
    BY <1>1, <1>6, <2>1, RxWay
  <2>3. \A id : Due(c, id) => Due(c, id)'
    BY <1>1, <1>4, <2>1 DEF Due, Holding
  <2>4. InOrder(u, R, D)
    <3> DEFINE O == DueIds(c)
    <3>1. InOrder(u, R, O) /\ \A id \in R : id \in O => id \in D
      BY <1>9, <2>3 DEF ReceiverInv, RxOrder, DueIds
    <3> HIDE DEF u, R, O, D
    <3> QED
      BY <2>2, <3>1, WayStays
  \* What is below the event and not on its way is settled: it is being overtaken.
  <2>5. ASSUME NEW id \in R, id < e PROVE Due(c, id)' \/ Carried(u, id)
    <3>1. Due(c, id) \/ Carried(u, id) \/ \E q \in Publishers : sending[q] = id
      BY <1>9 DEF ReceiverInv, Accounted
    <3>2. ASSUME NEW q \in Publishers, sending[q] = id PROVE Due(c, id)'
      <4>1. q # p /\ id <= highest' /\ id \in Nat
        BY <1>1, <1>2, <1>3, <2>5, <3>2
      <4>2. sending'[q] = id
        BY <1>2, <3>2, <4>1
      <4> QED
        BY <4>1, <4>2 DEF Due, Settled
    <3> QED
      BY <2>3, <3>1, <3>2
  <2>6. \A id \in R : (\E j \in X : id < j) => id \in D \/ Carried(u, id) \/ id \in X
    BY <2>5, RingFacts DEF DueIds
  <2>7. /\ InOrder(Append(u, X), R, D)
        /\ \A id : Carried(Append(u, X), id) <=> Carried(u, id) \/ id \in X
    <3> HIDE DEF u, X, R, D
    <3> QED
      BY <2>2, <2>4, <2>6, WayGrows
  <2>8. RxOrder(c)'
    BY <1>1, <2>2, <2>7 DEF RxOrder
  <2>9. ASSUME NEW id \in R
        PROVE  Due(c, id)' \/ Carried(Append(u, X), id) \/ \E q \in Publishers : sending'[q] = id
    <3>1. Due(c, id) \/ Carried(u, id) \/ \E q \in Publishers : sending[q] = id
      BY <1>9 DEF ReceiverInv, Accounted
    <3> QED
      BY <1>2, <2>3, <2>7, <3>1
  <2>10. Accounted(c)'
    BY <1>1, <2>2, <2>9 DEF Accounted
  <2> QED
    BY <1>5, <2>8, <2>10 DEF ReceiverInv
<1> QED
  BY <1>5, <1>7, <1>8, <1>9

LEMMA TakeIdOrder ==
  ASSUME Types, NEW p \in Publishers, TakeId(p), NEW c \in Clients, QueueInv(c), ReceiverInv(c)
  PROVE  QueueInv(c)' /\ ReceiverInv(c)'
<1> DEFINE id1 == nextId + 1
           R == ToSet(ring)
           N == ToSet(ring')
           S == SettledIds(c)
           T == SettledIds(c)'
           Q == IdSets(outq[c])
           u == Singles(rx[c])
<1>1. /\ nextId \in Nat /\ id1 \in Nat /\ id1 > nextId /\ ring' = Retained(id1)
      /\ sending[p] = 0 /\ sending' = [sending EXCEPT ![p] = id1] /\ sending'[p] = id1
      /\ UNCHANGED <<session, highest, overtaken, relayVars, guiVars>>
  BY RingFacts DEF TakeId, Types, BusTypes
<1>2. \A id \in N : id \in Nat /\ (id \in R \/ id = id1)
  <2>1. N \subseteq R \cup {id1}
    BY <1>1, RetainedFacts
  <2> QED
    BY <1>1, <2>1, RingFacts
<1>3. \A q \in Publishers : q # p => sending'[q] = sending[q]
  BY <1>1 DEF Types, BusTypes
<1>4. ASSUME NEW id \in R PROVE id \in Nat /\ id # 0 /\ (Settled(c, id) => Settled(c, id)')
  <2>1. id \in Nat /\ id # 0
    BY RingFacts
  <2>2. Shown(c, id) => Shown(c, id)'
    BY <1>1 DEF Shown, guiVars
  <2>3. \A q \in Publishers : sending[q] = id => sending'[q] = id
    BY <1>1, <1>3, <2>1
  <2> QED
    BY <1>1, <2>1, <2>2, <2>3 DEF Settled
<1>5. \A id \in R : Due(c, id) => Due(c, id)'
  BY <1>1, <1>4 DEF Due, Holding, relayVars
\* The new id is above all that is on the way or has been handled.
<1>6. /\ Q \in Ways /\ u \in Ways
      /\ \A n \in DOMAIN Q : \A j \in Q[n] : ~(id1 < j)
      /\ \A n \in DOMAIN u : \A j \in u[n] : ~(id1 < j)
  <2>1. \A n \in DOMAIN Q : \A j \in Q[n] : j \in 1..nextId
    BY QueueWay
  <2>2. ASSUME NEW n \in DOMAIN u, NEW j \in u[n] PROVE j \in 1..nextId
    <3>1. n \in DOMAIN rx[c] /\ u[n] = {rx[c][n]} /\ rx[c][n] \in 1..nextId
      BY RxWay
    <3> QED
      BY <3>1
  <2> QED
    BY <1>1, <2>1, <2>2, QueueWay, RxWay
<1>7. QueueInv(c)'
  <2>1. SessionKnown(c)'
    BY <1>1 DEF QueueInv, SessionKnown, guiVars, relayVars
  <2>2. CursorOrder(c)'
    <3>1. HonouredCursor(c)' = HonouredCursor(c) /\ HonouredCursor(c) <= nextId
          /\ HonouredCursor(c) \in Nat
      BY <1>1 DEF HonouredCursor, guiVars, Types, ClientTypes, GuiTypes
    <3>2. ~(id1 <= HonouredCursor(c))
      BY <1>1, <3>1
    <3> QED
      BY <1>2, <1>4, <3>1, <3>2 DEF QueueInv, CursorOrder
  <2>3. HeldOrder(c)'
    <3>0. \A j \in ToSet(held[c].ids) : j \in 1..nextId
      BY RingFacts
    <3>1. \A j \in ToSet(held[c].ids) : ~(id1 < j)
      BY <1>1, <3>0
    <3> QED
      BY <1>1, <1>2, <3>1 DEF QueueInv, HeldOrder, relayVars
  <2>4. InOrder(Q, R, S) /\ \A id \in N : \/ id \in R /\ (id \in S => id \in T)
                                          \/ \A n \in DOMAIN Q : \A j \in Q[n] : ~(id < j)
    BY <1>2, <1>4, <1>6 DEF QueueInv, QueueOrder, SettledIds
  <2>5. InOrder(Q, N, T)
    <3> HIDE DEF Q, R, S, T, N
    <3> QED
      BY <1>6, <2>4, WayStays
  <2>6. QueueOrder(c)'
    BY <1>1, <2>5 DEF QueueOrder, relayVars
  <2> QED
    BY <2>1, <2>2, <2>3, <2>6 DEF QueueInv
<1>8. ReceiverInv(c)'
  <2> SUFFICES ASSUME Relaying(c) PROVE RxOrder(c)' /\ Accounted(c)'
    BY <1>1 DEF ReceiverInv, RxOrder, Accounted, Relaying, relayVars
  <2> DEFINE O == DueIds(c)
             D == DueIds(c)'
  <2>1. InOrder(u, R, O) /\ \A id \in N : \/ id \in R /\ (id \in O => id \in D)
                                          \/ \A n \in DOMAIN u : \A j \in u[n] : ~(id < j)
    BY <1>2, <1>5, <1>6 DEF ReceiverInv, RxOrder, DueIds
  <2>2. InOrder(u, N, D)
    <3> HIDE DEF u, R, N, O, D
    <3> QED
      BY <1>6, <2>1, WayStays
  <2>3. RxOrder(c)'
    BY <1>1, <2>2 DEF RxOrder, relayVars
  <2>4. ASSUME NEW id \in N
        PROVE  Due(c, id)' \/ Carried(u, id) \/ \E q \in Publishers : sending'[q] = id
    <3>1. CASE id = id1
      BY <1>1, <3>1
    <3>2. CASE id \in R
      <4>1. Due(c, id) \/ Carried(u, id) \/ \E q \in Publishers : sending[q] = id
        BY <3>2 DEF ReceiverInv, Accounted
      <4>2. id # 0
        BY <1>4, <3>2
      <4> QED
        BY <1>1, <1>3, <1>5, <3>2, <4>1, <4>2
    <3> QED
      BY <1>2, <3>1, <3>2
  <2>5. Accounted(c)'
    BY <1>1, <2>4 DEF Accounted, relayVars
  <2> QED
    BY <2>3, <2>5
<1> QED
  BY <1>7, <1>8

LEMMA DaemonRestartOrder ==
  ASSUME Types, DaemonRestart, NEW c \in Clients PROVE QueueInv(c)' /\ ReceiverInv(c)'
<1>1. /\ ToSet(ring') = {} /\ conn'[c] = "off" /\ relay'[c] = "off" /\ outq'[c] = <<>>
  BY DEF DaemonRestart, ToSet
<1>2. QueueOrder(c)'
  BY <1>1 DEF QueueOrder, InOrder, IdSets
<1> QED
  BY <1>1, <1>2 DEF QueueInv, ReceiverInv, SessionKnown, CursorOrder, HeldOrder, RxOrder,
                    Accounted, Relaying

LEMMA OrderInit == Init => OrderInv
<1> SUFFICES ASSUME Init, NEW c \in Clients PROVE QueueInv(c) /\ ReceiverInv(c)
  BY DEF OrderInv
<1>1. ToSet(ring) = {} /\ conn[c] = "off" /\ relay[c] = "off" /\ outq[c] = <<>>
  BY DEF Init, ToSet
<1>2. QueueOrder(c)
  BY <1>1 DEF QueueOrder, InOrder, IdSets
<1> QED
  BY <1>1, <1>2 DEF QueueInv, ReceiverInv, SessionKnown, CursorOrder, HeldOrder, RxOrder,
                    Accounted, Relaying

LEMMA OrderStep == Types /\ OrderInv /\ [Next]_vars => OrderInv'
<1> SUFFICES ASSUME Types, OrderInv, [Next]_vars, NEW d \in Clients
             PROVE  QueueInv(d)' /\ ReceiverInv(d)'
  BY DEF OrderInv
<1>0. QueueInv(d) /\ ReceiverInv(d)
  BY DEF OrderInv
<1>1. ASSUME NEW p \in Publishers, TakeId(p) \/ Broadcast(p) PROVE QueueInv(d)' /\ ReceiverInv(d)'
  BY <1>0, <1>1, TakeIdOrder, BroadcastOrder
<1>2. CASE DaemonRestart
  BY <1>2, DaemonRestartOrder
<1>3. CASE UNCHANGED vars
  BY <1>0, <1>3, ClientSame DEF vars, relayVars, guiVars
<1>4. ASSUME NEW c \in Clients,
             \/ Connect(c) \/ InitialReplay(c) \/ Forward(c) \/ ForwardStateBlocked(c)
             \/ CapacityReady(c) \/ CapacityTimeout(c) \/ QueueState(c)
             \/ GuiReceive(c) \/ Disconnect(c) \/ GuiRestart(c)
      PROVE  QueueInv(d)' /\ ReceiverInv(d)'
  <2>1. CASE d = c
    BY <1>0, <1>4, <2>1, InitialReplayOrder, ForwardEventOrder, RelayStepOrder, QueueStepOrder,
       GuiReceiveOrder, HangUpOrder DEF Forward
  <2>2. CASE d # c
    <3>1. /\ conn'[d] = conn[d] /\ rx'[d] = rx[d] /\ lagged'[d] = lagged[d]
          /\ relay'[d] = relay[d] /\ held'[d] = held[d] /\ outq'[d] = outq[d]
          /\ shown'[d] = shown[d] /\ cursor'[d] = cursor[d] /\ guiSession'[d] = guiSession[d]
          /\ UNCHANGED daemonVars
      <4> USE DEF Types, RelayTypes, GuiTypes, guiVars
      <4>1. CASE Connect(c) \/ InitialReplay(c) \/ QueueState(c)
        BY <2>2, <4>1 DEF Connect, InitialReplay, QueueState
      <4>2. CASE ForwardStateBlocked(c) \/ CapacityReady(c) \/ CapacityTimeout(c)
        BY <2>2, <4>2 DEF ForwardStateBlocked, CapacityReady, CapacityTimeout
      <4>3. CASE Forward(c)
        BY <2>2, <4>3 DEF Forward, ForwardEvent, ForwardLagged
      <4>4. CASE GuiReceive(c)
        BY <2>2, <4>4 DEF GuiReceive, Handled
      <4>5. CASE Disconnect(c) \/ GuiRestart(c)
        BY <2>2, <4>5 DEF Disconnect, GuiRestart, HangUp
      <4> QED
        BY <1>4, <4>1, <4>2, <4>3, <4>4, <4>5
    <3> QED
      BY <1>0, <3>1, ClientSame
  <2> QED
    BY <2>1, <2>2
<1> QED
  BY <1>1, <1>2, <1>3, <1>4 DEF Next

LEMMA OrderHolds == Spec => [](Types /\ OrderInv)
  BY TypesHold, TypesInit, TypesStep, OrderInit, OrderStep, PTL DEF Spec

\* A GUI that is caught up has shown every notification the ring retains, but for those
\* a concurrent publisher overtook between the ring and the broadcast: none is lost to a
\* full queue, an overrun receiver, a lost connection or a replay.
THEOREM RetainedIsShown == Spec => []RetainedShownUnlessOvertaken
<1>1. Types /\ OrderInv => RetainedShownUnlessOvertaken
  <2> SUFFICES ASSUME Types, OrderInv, NEW c \in Clients, CaughtUp(c), NEW i \in DOMAIN ring
               PROVE  ring[i] \in overtaken \/ Shown(c, ring[i])
    BY DEF RetainedShownUnlessOvertaken
  <2> DEFINE id == ring[i]
  <2>1. id \in ToSet(ring)
    BY DEF ToSet
  <2>2. id # 0
    BY <2>1, RingFacts
  <2>3. Due(c, id) \/ Carried(Singles(rx[c]), id) \/ \E p \in Publishers : sending[p] = id
    BY <2>1 DEF OrderInv, ReceiverInv, Accounted, Relaying, CaughtUp
  <2>4. ~Carried(Singles(rx[c]), id) /\ ~Carried(IdSets(outq[c]), id)
    BY DEF CaughtUp, Carried, Singles, IdSets
  <2> QED
    BY <2>2, <2>3, <2>4 DEF Due, Holding, Settled, CaughtUp
<1> QED
  BY <1>1, OrderHolds, PTL

----------------------------------------------------------------------------
(* EventBus implements NotificationFeed.                                     *)

\* What is being sent is neither sent already nor by two publishers; what is overtaken
\* is below the highest id sent.
SendingInv ==
  /\ highest <= nextId
  /\ overtaken \subseteq 1..highest /\ highest \notin overtaken
  /\ \A p \in Publishers : sending[p] # 0 =>
       /\ sending[p] # highest
       /\ \A q \in Publishers \ {p} : sending[q] # sending[p]

LEMMA SendingInit == Init => SendingInv
  BY DEF Init, SendingInv

LEMMA SendingStep == Types /\ SendingInv /\ [Next]_vars => SendingInv'
<1> SUFFICES ASSUME Types, SendingInv, [Next]_vars PROVE SendingInv'
  OBVIOUS
<1>1. /\ nextId \in Nat /\ highest \in Nat
      /\ sending \in [Publishers -> 0..nextId]
  BY BoundsAssumption DEF Types, BusTypes
<1>2. ASSUME NEW p \in Publishers, TakeId(p) PROVE SendingInv'
  <2>1. /\ nextId' = nextId + 1 /\ highest' = highest /\ overtaken' = overtaken
        /\ sending' = [sending EXCEPT ![p] = nextId + 1]
    BY <1>2 DEF TakeId
  <2>2. \A q \in Publishers : sending'[q] = IF q = p THEN nextId + 1 ELSE sending[q]
    BY <1>1, <2>1
  <2>3. \A q \in Publishers : sending[q] \in Nat /\ sending[q] < nextId + 1
    BY <1>1
  <2> QED
    BY <1>1, <2>1, <2>2, <2>3 DEF SendingInv
<1>3. ASSUME NEW p \in Publishers, Broadcast(p) PROVE SendingInv'
  <2> DEFINE m == sending[p]
  <2>1. /\ m # 0 /\ nextId' = nextId
        /\ highest' = IF m > highest THEN m ELSE highest
        /\ overtaken' = IF m > highest THEN overtaken ELSE overtaken \cup {m}
        /\ sending' = [sending EXCEPT ![p] = 0]
    BY <1>3 DEF Broadcast
  <2>2. m \in Nat /\ m <= nextId /\ m # highest
    BY <1>1, <2>1 DEF SendingInv
  <2>3. \A q \in Publishers : sending'[q] = IF q = p THEN 0 ELSE sending[q]
    BY <1>1, <2>1
  <2>4. \A q \in Publishers \ {p} : sending[q] # m
    BY <2>1 DEF SendingInv
  <2>5. /\ highest' \in Nat /\ highest' <= nextId'
        /\ overtaken' \subseteq 1..highest' /\ highest' \notin overtaken'
    <3>1. /\ highest <= nextId /\ highest \notin overtaken
          /\ \A id \in overtaken : id \in Nat /\ 1 <= id /\ id <= highest
      BY <1>1 DEF SendingInv
    <3>2. CASE m > highest
      BY <1>1, <2>1, <2>2, <3>1, <3>2
    <3>3. CASE ~(m > highest)
      BY <1>1, <2>1, <2>2, <3>1, <3>3
    <3> QED
      BY <3>2, <3>3
  <2>6. \A q \in Publishers : sending'[q] # 0 =>
          sending'[q] # highest' /\ \A r \in Publishers \ {q} : sending'[r] # sending'[q]
    BY <2>1, <2>3, <2>4 DEF SendingInv
  <2> QED
    BY <2>5, <2>6 DEF SendingInv
<1>4. CASE DaemonRestart
  BY <1>4 DEF DaemonRestart, SendingInv
<1>5. ASSUME UNCHANGED daemonVars PROVE SendingInv'
  BY <1>5 DEF SendingInv, daemonVars
<1>6. CASE UNCHANGED vars
  BY <1>5, <1>6 DEF vars
<1>7. ASSUME NEW c \in Clients,
             \/ Connect(c) \/ InitialReplay(c) \/ Forward(c) \/ ForwardStateBlocked(c)
             \/ CapacityReady(c) \/ CapacityTimeout(c) \/ QueueState(c)
             \/ GuiReceive(c) \/ Disconnect(c) \/ GuiRestart(c)
      PROVE  UNCHANGED daemonVars
  BY <1>7 DEF Connect, InitialReplay, Forward, ForwardEvent, ForwardLagged, ForwardStateBlocked,
              CapacityReady, CapacityTimeout, QueueState, GuiReceive, Disconnect, GuiRestart
<1> QED
  BY <1>2, <1>3, <1>4, <1>5, <1>6, <1>7 DEF Next

LEMMA FeedStarts == Init => Feed!Init
<1> SUFFICES ASSUME Init PROVE Feed!Init
  OBVIOUS
<1>1. Late = {} /\ ToSet(ring) = {}
  BY DEF Init, Late, ToSet
<1> QED
  BY <1>1 DEF Init, Feed!Init

\* Only the oldest makes room for the new one.
LEMMA EvictsTheOldest ==
  ASSUME Types, NEW id \in Nat, id > nextId
  PROVE  /\ id \in ToSet(Retained(id))
         /\ \A old \in ToSet(ring) \ ToSet(Retained(id)) : \A kept \in ToSet(Retained(id)) :
              old < kept
<1> DEFINE N == Nat
           r == ring
           t == Tail(r)
<1>1. /\ r \in Seq(N) /\ Ascending(r) /\ \A k \in DOMAIN r : r[k] \in Nat /\ r[k] < id
  <2>1. nextId \in Nat /\ \A k \in DOMAIN ring : ring[k] \in 1..nextId
    BY BoundsAssumption DEF Types, BusTypes
  <2>2. ring \in Seq(1..nextId) /\ 1..nextId \subseteq Nat
    BY <2>1 DEF Types, BusTypes
  <2>3. ring \in Seq(Nat)
    BY <2>2, SeqWidens
  <2> QED
    BY <2>1, <2>3 DEF Types, BusTypes
<1>2. id \in N /\ RingCapacity \in Nat \ {0} /\ Retained(id) =
        Append(IF Len(ring) = RingCapacity THEN t ELSE r, id)
  BY BoundsAssumption DEF Retained
<1>3. CASE Len(ring) # RingCapacity
  <2> DEFINE next == Append(r, id)
  <2>1. /\ Len(r) \in Nat /\ DOMAIN r = 1..Len(r) /\ DOMAIN next = 1..(Len(r) + 1)
        /\ \A k \in DOMAIN r : next[k] = r[k]
        /\ next[Len(r) + 1] = id
    <3> HIDE DEF r, N
    <3> QED
      BY <1>1, <1>2, AppendFacts
  <2>2. Retained(id) = next
    BY <1>2, <1>3
  <2> HIDE DEF next
  <2>3. \A k \in DOMAIN r : k \in DOMAIN next
    BY <2>1
  <2>4. Len(r) + 1 \in DOMAIN next
    BY <2>1
  <2>5. ToSet(ring) \subseteq ToSet(next) /\ id \in ToSet(next)
    BY <2>1, <2>3, <2>4 DEF ToSet
  <2> QED
    BY <2>2, <2>5
<1>4. CASE Len(ring) = RingCapacity
  <2> DEFINE next == Append(t, id)
  <2>1. /\ t \in Seq(N) /\ Len(r) \in Nat \ {0} /\ Len(t) = Len(r) - 1
        /\ DOMAIN r = 1..Len(r) /\ DOMAIN t = 1..(Len(r) - 1)
        /\ \A k \in DOMAIN t : k + 1 \in DOMAIN r /\ t[k] = r[k + 1]
    <3>1. r # <<>>
      BY <1>2, <1>4
    <3> HIDE DEF r, N
    <3> QED
      BY <1>1, <3>1, TailFacts
  <2>2. /\ DOMAIN next = 1..Len(r) /\ next[Len(r)] = id
        /\ \A k \in DOMAIN t : next[k] = t[k]
    <3>1. /\ DOMAIN next = 1..(Len(t) + 1) /\ next[Len(t) + 1] = id
          /\ \A k \in DOMAIN t : next[k] = t[k]
      <4> HIDE DEF t, N
      <4> QED
        BY <1>2, <2>1, AppendFacts
    <3> HIDE DEF next, t
    <3> QED
      BY <2>1, <3>1
  <2>3. Retained(id) = next
    BY <1>2, <1>4
  <2> HIDE DEF next, t
  <2>4. id \in ToSet(next)
    BY <2>1, <2>2 DEF ToSet
  <2>5. \A k \in DOMAIN r : k # 1 => r[k] \in ToSet(next)
    <3> SUFFICES ASSUME NEW k \in DOMAIN r, k # 1 PROVE r[k] \in ToSet(next)
      OBVIOUS
    <3>1. k - 1 \in DOMAIN t /\ k - 1 \in DOMAIN next /\ (k - 1) + 1 = k
      BY <2>1, <2>2
    <3>2. next[k - 1] = r[k]
      BY <2>1, <2>2, <3>1
    <3> QED
      BY <3>1, <3>2 DEF ToSet
  <2>6. \A v \in ToSet(next) : v = id \/ \E k \in DOMAIN r : k > 1 /\ v = r[k]
    <3> SUFFICES ASSUME NEW k \in DOMAIN next, next[k] # id
                 PROVE  \E l \in DOMAIN r : l > 1 /\ next[k] = r[l]
      BY DEF ToSet
    <3>1. k \in DOMAIN t /\ k + 1 \in DOMAIN r /\ k + 1 > 1
      BY <2>1, <2>2
    <3> QED
      BY <2>1, <2>2, <3>1
  <2>7. \A old \in ToSet(r) : \E k \in DOMAIN r : old = r[k]
    BY DEF ToSet
  <2>8. ASSUME NEW old \in ToSet(r), old \notin ToSet(next), NEW kept \in ToSet(next)
        PROVE  old < kept
    <3>1. 1 \in DOMAIN r /\ old = r[1]
      BY <2>1, <2>5, <2>7, <2>8
    <3> HIDE DEF r
    <3> QED
      BY <1>1, <2>1, <2>6, <2>8, <3>1 DEF Ascending
  <2> QED
    BY <2>3, <2>4, <2>8
<1> QED
  BY <1>3, <1>4

LEMMA TakeIdRetains ==
  ASSUME Types, SendingInv, NEW p \in Publishers, TakeId(p) PROVE Feed!Retain
<1>1. /\ nextId' = nextId + 1 /\ ring' = Retained(nextId + 1) /\ sending[p] = 0
      /\ sending' = [sending EXCEPT ![p] = nextId + 1]
      /\ UNCHANGED <<session, highest, overtaken, shown>>
  BY DEF TakeId, guiVars
<1>2. /\ nextId \in Nat /\ highest \in Nat /\ highest <= nextId
      /\ sending \in [Publishers -> 0..nextId]
      /\ ring \in Seq(Nat) /\ Len(ring) \in Nat /\ Ascending(ring)
  <2>1. Seq(1..nextId) \subseteq Seq(Nat)
    BY BoundsAssumption, SeqWidens DEF Types, BusTypes
  <2> QED
    BY <2>1, BoundsAssumption DEF Types, BusTypes, SendingInv
<1>3. Late' = Late
  <2>1. \A q \in Publishers : sending'[q] = IF q = p THEN nextId + 1 ELSE sending[q]
    BY <1>1, <1>2
  <2>2. \A id \in 1..highest :
          (\E q \in Publishers : sending'[q] = id) <=> (\E q \in Publishers : sending[q] = id)
    BY <1>1, <1>2, <2>1
  <2> QED
    BY <1>1, <2>2 DEF Late
<1> QED
  BY <1>1, <1>2, <1>3, RetainedFacts, EvictsTheOldest DEF Feed!Retain

LEMMA BroadcastMakesLate ==
  ASSUME Types, SendingInv, SendingInv', NEW p \in Publishers, Broadcast(p)
  PROVE  Feed!ComesLate
<1> DEFINE m == sending[p]
<1>1. /\ m # 0 /\ nextId' = nextId
      /\ highest' = IF m > highest THEN m ELSE highest
      /\ overtaken' = IF m > highest THEN overtaken ELSE overtaken \cup {m}
      /\ sending' = [sending EXCEPT ![p] = 0]
      /\ UNCHANGED <<session, nextId, ring, shown>>
  BY DEF Broadcast, guiVars
<1>2. /\ nextId \in Nat /\ highest \in Nat /\ highest <= nextId /\ m \in Nat
      /\ sending \in [Publishers -> 0..nextId]
  BY BoundsAssumption DEF Types, BusTypes, SendingInv
<1>3. \A q \in Publishers : sending'[q] = IF q = p THEN 0 ELSE sending[q]
  BY <1>1, <1>2
<1>4. Late \subseteq Late'
  <2> SUFFICES ASSUME NEW id \in Late, id \notin overtaken' PROVE id \in Late'
    BY DEF Late
  <2>1. id \in 1..highest /\ id \notin overtaken
    BY <1>1, <1>2 DEF Late, SendingInv
  <2>2. PICK q \in Publishers : sending[q] = id
    BY <2>1 DEF Late
  <2> QED
    BY <1>1, <1>2, <1>3, <2>1, <2>2 DEF Late
<1>5. ASSUME NEW id \in Late' PROVE id \in 1..nextId /\ id # nextId
  <2>1. id \in 1..highest' /\ id # highest'
    BY <1>5 DEF Late, SendingInv
  <2> QED
    BY <1>1, <1>2, <2>1 DEF SendingInv
<1> QED
  BY <1>1, <1>4, <1>5 DEF Feed!ComesLate

LEMMA GuiReceiveShows ==
  ASSUME Types, Types', OrderInv, OrderInv', ShownInv', NEW c \in Clients, GuiReceive(c)
  PROVE  Feed!Show(c) \/ UNCHANGED Feed!vars
<1> DEFINE f == Head(outq[c])
           s == SessionOf(c, f)
           from == From(c, f)
           fresh == Fresh(c, f)
<1>1. /\ UNCHANGED daemonVars
      /\ f.type = "state" => UNCHANGED guiVars
      /\ conn[c] = "on" /\ conn' = conn
  BY GuiHandles
<1>2. Late' = Late
  BY <1>1 DEF Late, daemonVars
<1>3. CASE f.type = "state"
  BY <1>1, <1>2, <1>3 DEF Feed!vars, daemonVars, guiVars
<1>4. CASE f.type # "state"
  <2>1. Shows(c, f, s, from, fresh)
    BY <1>4, GuiShows
  <2>2. s = session
    BY <1>4, HandlesThisSession DEF OrderInv
  <2> HIDE DEF f, s, from, fresh
  <2>3. /\ guiSession'[c] = session /\ nextId \in Nat
        /\ \A k \in DOMAIN fresh : fresh[k] \in 1..nextId /\ fresh[k] <= cursor'[c]
        /\ Len(shown[c]) \in Nat /\ cursor'[c] \in Nat
        /\ shown[c] \in Seq(Note) /\ DOMAIN shown[c] = 1..Len(shown[c])
        /\ \A i \in DOMAIN shown[c] : i \in DOMAIN shown'[c] /\ shown'[c][i] = shown[c][i]
        /\ \A i \in DOMAIN fresh : shown'[c][Len(shown[c]) + i] = [session |-> s, id |-> fresh[i]]
        /\ \A i \in DOMAIN shown'[c] :
             i \in DOMAIN shown[c] \/ \E k \in DOMAIN fresh : i = Len(shown[c]) + k
        /\ \A d \in Clients \ {c} : shown'[d] = shown[d]
    BY <2>1, <2>2, RingFacts DEF Shows
  <2>4. /\ Len(shown'[c]) \in Nat /\ DOMAIN shown'[c] = 1..Len(shown'[c])
        /\ \A i \in DOMAIN shown'[c] : shown'[c][i].session \in Nat /\ shown'[c][i].id \in Nat
    <3>1. shown'[c] \in Seq(Note)
      BY DEF Types, GuiTypes
    <3>2. \A n \in Note : n.session \in Nat /\ n.id \in Nat
      BY BoundsAssumption DEF Note
    <3> QED
      BY <3>1, <3>2
  <2>5. Len(shown[c]) <= Len(shown'[c])
    BY <2>3, <2>4
  \* What is retained from before something shown is shown by now.
  <2>6. ASSUME NEW i \in DOMAIN shown'[c], NEW id \in 1..nextId,
               shown'[c][i] = [session |-> session, id |-> id], id <= cursor'[c],
               NEW old \in ToSet(ring), old \notin Late, old < id
        PROVE  \E j \in 1..(i - 1) : shown'[c][j] = [session |-> session, id |-> old]
    <3>1. old <= HonouredCursor(c)'
      BY <1>1, <2>3, <2>6, RingFacts DEF HonouredCursor, daemonVars
    <3>2. Settled(c, old)'
      BY <1>1, <2>6, <3>1 DEF OrderInv, QueueInv, CursorOrder, daemonVars
    <3>3. Shown(c, old)'
      BY <1>1, <2>6, <3>2, RingFacts, BoundsAssumption DEF Settled, Late, daemonVars, Types, BusTypes
    <3>4. PICK j \in DOMAIN shown'[c] : shown'[c][j] = [session |-> session, id |-> old]
      BY <1>1, <3>3 DEF Shown, daemonVars
    <3>5. j < i
      <4>1. j # i
        BY <2>6, <3>4, RingFacts
      <4>2. old \in Nat /\ id \in Nat /\ old < id
        BY <2>3, <2>6, RingFacts
      <4>3. i < j => id < old
        BY <2>6, <3>4 DEF ShownInv, ShownInOrder
      <4>4. ~(i < j)
        BY <4>2, <4>3
      <4> QED
        BY <2>4, <4>1, <4>4
    <3> QED
      BY <2>4, <3>4, <3>5
  <2>7. ASSUME NEW i \in (Len(shown[c]) + 1)..Len(shown'[c])
        PROVE  \E id \in 1..nextId :
                 /\ shown'[c][i] = Feed!Note(id)
                 /\ \A j \in 1..(i - 1) :
                      shown'[c][j].session = session => shown'[c][j].id < id
                 /\ \A old \in ToSet(ring) \ Late : old < id => Feed!SeenBefore(c, i, old)
    <3>1. i \in DOMAIN shown'[c] /\ i \notin DOMAIN shown[c]
      BY <2>3, <2>4
    <3>2. PICK k \in DOMAIN fresh : i = Len(shown[c]) + k
      BY <2>3, <3>1
    <3> DEFINE id == fresh[k]
    <3>3. id \in 1..nextId /\ shown'[c][i] = [session |-> session, id |-> id] /\ id <= cursor'[c]
      BY <2>2, <2>3, <3>2
    <3>4. ASSUME NEW j \in 1..(i - 1), shown'[c][j].session = session
          PROVE  shown'[c][j].id < id
      <4>1. j \in DOMAIN shown'[c] /\ j < i
        BY <2>4, <3>1
      <4> QED
        BY <3>1, <3>3, <3>4, <4>1 DEF ShownInv, ShownInOrder
    <3> HIDE DEF id
    <3>5. ASSUME NEW old \in ToSet(ring) \ Late, old < id PROVE Feed!SeenBefore(c, i, old)
      BY <2>6, <3>1, <3>3, <3>5 DEF Feed!SeenBefore, Feed!Note
    <3> QED
      BY <3>3, <3>4, <3>5 DEF Feed!Note
  <2> QED
    BY <1>1, <1>2, <2>3, <2>5, <2>7 DEF Feed!Show, daemonVars
<1> QED
  BY <1>3, <1>4

LEMMA FeedStep ==
  /\ Types /\ OrderInv /\ ShownInv /\ SendingInv
  /\ Types' /\ OrderInv' /\ ShownInv' /\ SendingInv'
  /\ [Next]_vars
  => [Feed!Next]_(Feed!vars)
<1> SUFFICES ASSUME Types, OrderInv, ShownInv, SendingInv,
                    Types', OrderInv', ShownInv', SendingInv', [Next]_vars
             PROVE  [Feed!Next]_(Feed!vars)
  OBVIOUS
<1>1. ASSUME NEW p \in Publishers, TakeId(p) PROVE Feed!Next
  BY <1>1, TakeIdRetains DEF Feed!Next
<1>2. ASSUME NEW p \in Publishers, Broadcast(p) PROVE Feed!Next
  BY <1>2, BroadcastMakesLate DEF Feed!Next
<1>3. CASE DaemonRestart
  <2>1. Late' = {} /\ ToSet(ring)' = {}
    BY <1>3 DEF DaemonRestart, Late, ToSet
  <2> QED
    BY <1>3, <2>1 DEF DaemonRestart, guiVars, Feed!StartOver, Feed!Next
<1>4. ASSUME NEW c \in Clients, GuiReceive(c) PROVE [Feed!Next]_(Feed!vars)
  BY <1>4, GuiReceiveShows DEF Feed!Next
<1>5. ASSUME NEW c \in Clients, GuiRestart(c) PROVE Feed!Next
  <2>1. UNCHANGED daemonVars /\ shown' = [shown EXCEPT ![c] = <<>>]
    BY <1>5 DEF GuiRestart
  <2>2. Late' = Late
    BY <2>1 DEF Late, daemonVars
  <2> QED
    BY <2>1, <2>2 DEF daemonVars, Feed!Quit, Feed!Next
<1>6. ASSUME UNCHANGED <<daemonVars, shown>> PROVE UNCHANGED Feed!vars
  BY <1>6 DEF Late, daemonVars, Feed!vars
<1>7. CASE UNCHANGED vars
  BY <1>6, <1>7 DEF vars, guiVars
<1>8. ASSUME NEW c \in Clients,
             \/ Connect(c) \/ InitialReplay(c) \/ Forward(c) \/ ForwardStateBlocked(c)
             \/ CapacityReady(c) \/ CapacityTimeout(c) \/ QueueState(c) \/ Disconnect(c)
      PROVE  UNCHANGED <<daemonVars, shown>>
  BY <1>8 DEF Connect, InitialReplay, Forward, ForwardEvent, ForwardLagged, ForwardStateBlocked,
              CapacityReady, CapacityTimeout, QueueState, Disconnect, guiVars
<1> QED
  BY <1>1, <1>2, <1>3, <1>4, <1>5, <1>6, <1>7, <1>8 DEF Next

\* The event bus keeps NotificationFeed's promise: a GUI shows the running daemon's
\* notifications, each once and in their order, and before any of them what is still
\* retained from before it, unless it was broadcast after a later one.
THEOREM ImplementsNotificationFeed == Spec => ImplementsFeed
<1>1. Spec => Feed!Spec
  BY OrderHolds, ShownHolds, SendingInit, SendingStep, FeedStarts, FeedStep, PTL
  DEF Spec, Feed!Spec
<1> QED
  BY <1>1 DEF ImplementsFeed

=============================================================================
