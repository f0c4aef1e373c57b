-------------------------- MODULE NotificationFeed --------------------------
(***************************************************************************)
(* What the event bus promises a GUI, without ring positions, receivers,   *)
(* queues, replays or cursors: the daemon numbers its notifications and    *)
(* retains some of the latest, and a client shows more and more of them,   *)
(* each once and in their order.  It passes over nothing that is retained, *)
(* unless it came late: was announced after a later one.                   *)
(***************************************************************************)
EXTENDS Naturals, Sequences

CONSTANTS Clients

VARIABLES
  session,   \* which daemon process it is
  given,     \* the number of notifications it has numbered
  retained,  \* the ids it would still replay
  late,      \* the ids that nobody may count on any more
  seen       \* what each client has shown, with the session it is of

vars == <<session, given, retained, late, seen>>

Init ==
  /\ session = 1 /\ given = 0 /\ retained = {} /\ late = {}
  /\ seen = [c \in Clients |-> <<>>]

\* The next notification is retained, in the place of older ones if need be.
Retain ==
  /\ given' = given + 1
  /\ given' \in retained' /\ retained' \subseteq retained \cup {given'}
  /\ \A old \in retained \ retained' : \A kept \in retained' : old < kept
  /\ UNCHANGED <<session, late, seen>>

\* A notification comes late only behind a later one.
ComesLate ==
  /\ late \subseteq late' /\ \A id \in late' : id \in 1..given /\ id # given
  /\ UNCHANGED <<session, given, retained, seen>>

Note(id) == [session |-> session, id |-> id]
SeenBefore(c, i, id) == \E j \in 1..(i - 1) : seen'[c][j] = Note(id)

\* A client shows some more: each is one of this session's, none is shown a second time
\* or after a later one, and all that is retained comes before what is after it.
Show(c) ==
  /\ Len(seen[c]) <= Len(seen'[c])
  /\ \A i \in 1..Len(seen[c]) : seen'[c][i] = seen[c][i]
  /\ \A i \in (Len(seen[c]) + 1)..Len(seen'[c]) :
       \E id \in 1..given :
         /\ seen'[c][i] = Note(id)
         /\ \A j \in 1..(i - 1) : seen'[c][j].session = session => seen'[c][j].id < id
         /\ \A old \in retained \ late : old < id => SeenBefore(c, i, old)
  /\ \A d \in Clients \ {c} : seen'[d] = seen[d]
  /\ UNCHANGED <<session, given, retained, late>>

\* The client is closed, and the next one knows nothing.
Quit(c) ==
  /\ seen' = [seen EXCEPT ![c] = <<>>]
  /\ UNCHANGED <<session, given, retained, late>>

\* The daemon is started again and numbers anew; clients keep what they have shown.
StartOver ==
  /\ session' = session + 1
  /\ given' = 0 /\ retained' = {} /\ late' = {}
  /\ UNCHANGED seen

Next ==
  \/ Retain \/ ComesLate \/ StartOver
  \/ \E c \in Clients : Show(c) \/ Quit(c)

Spec == Init /\ [][Next]_vars
=============================================================================
