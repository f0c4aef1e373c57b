-------------------------- MODULE RetainedReplica --------------------------
(***************************************************************************)
(* What the state bus promises a client, without queues, broadcasts,       *)
(* revisions that overtake each other or snapshots: the host keeps a log   *)
(* of the record sets it has had, and a client that is live shows the part *)
(* it is interested in of one of them, moving only forward.  It may skip.  *)
(***************************************************************************)
EXTENDS Naturals

CONSTANTS Topics, Clients, Absent

VARIABLES
  log,       \* the record set as of every revision
  view,      \* what each client shows, and the revision it shows
  live,      \* whether the client's view is vouched for
  interest   \* the topics the client asked for

vars == <<log, view, live, interest>>

NoRecords == [t \in Topics |-> Absent]
Part(records, topics) == [t \in Topics |-> IF t \in topics THEN records[t] ELSE Absent]

Init ==
  /\ log = [r \in {0} |-> NoRecords]
  /\ view \in [Clients -> [rev : {0}, values : {NoRecords}]]
  /\ live = [c \in Clients |-> FALSE]
  /\ interest = [c \in Clients |-> {}]

\* The host moves to a next record set; the past stays as it was.
Extend ==
  /\ \E last \in DOMAIN log :
       /\ \A r \in DOMAIN log : r <= last
       /\ DOMAIN log' = 0..(last + 1)
       /\ \A r \in DOMAIN log : log'[r] = log[r]
  /\ UNCHANGED <<view, live, interest>>

\* A client shows the record set of some revision, never an earlier one than it
\* already vouches for.
Show(c) ==
  /\ \E r \in DOMAIN log :
       /\ live[c] => view[c].rev <= r
       /\ view' = [view EXCEPT ![c] = [rev |-> r, values |-> Part(log[r], interest[c])]]
  /\ live' = [live EXCEPT ![c] = TRUE]
  /\ UNCHANGED <<log, interest>>

\* The client loses touch, or asks for other topics while it is out of touch.
Lose(c) ==
  /\ live' = [live EXCEPT ![c] = FALSE]
  /\ \A d \in Clients \ {c} : interest'[d] = interest[d]
  /\ UNCHANGED <<log, view>>

\* The host starts over.
StartOver ==
  /\ log' = [r \in {0} |-> NoRecords]
  /\ live' = [c \in Clients |-> FALSE]
  /\ UNCHANGED view

Next ==
  \/ Extend
  \/ \E c \in Clients : Show(c) \/ Lose(c)
  \/ StartOver

Spec == Init /\ [][Next]_vars
=============================================================================
