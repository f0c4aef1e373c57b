---------------------------- MODULE WorkerCalls ----------------------------
(***************************************************************************)
(* What a plugin worker promises whoever sends it commands, without        *)
(* threads, channels, oneshots and deadlines: a call is executed at most   *)
(* once, by the worker it was sent to and alone there.  A caller has the   *)
(* value or the error of its own last call, at the moment the call ends,   *)
(* or the news that it will have none; one that was told "busy" has sent   *)
(* nothing, and one that has given up may still see its call executed.     *)
(***************************************************************************)
EXTENDS Naturals

CONSTANTS Workers, Clients, MaxCalls

VARIABLES
  sent,     \* the calls each worker has still to execute
  runs,     \* the call each worker executes, as a set of at most one
  over,     \* the calls that will never be executed (again)
  returned  \* what each client's last call has come to

vars == <<sent, runs, over, returned>>

Calls == [from : Clients, no : 1..MaxCalls]
Fresh(k) == k \notin over /\ \A w \in Workers : k \notin sent[w] /\ k \notin runs[w]

\* Nothing was called after it: who called it has not gone on to anything else.
IsLast(k) == \A other \in Calls : other.from = k.from /\ other.no > k.no => Fresh(other)
ReturnTo(k, what) ==
  /\ IsLast(k) /\ returned[k.from] = "none"
  /\ returned' = [returned EXCEPT ![k.from] = what]

Init ==
  /\ sent = [w \in Workers |-> {}] /\ runs = [w \in Workers |-> {}] /\ over = {}
  /\ returned = [c \in Clients |-> "none"]

Send(w, k) ==
  /\ Fresh(k)
  /\ sent' = [sent EXCEPT ![w] = @ \cup {k}]
  /\ UNCHANGED <<runs, over, returned>>

\* There is no room for the call, or no worker.
Refuse(k) ==
  /\ Fresh(k)
  /\ over' = over \cup {k}
  /\ \E what \in {"busy", "dead"} : ReturnTo(k, what)
  /\ UNCHANGED <<sent, runs>>

Begin(w, k) ==
  /\ k \in sent[w] /\ runs[w] = {}
  /\ sent' = [sent EXCEPT ![w] = @ \ {k}]
  /\ runs' = [runs EXCEPT ![w] = {k}]
  /\ UNCHANGED <<over, returned>>

\* The execution ends; its outcome reaches the caller, or nobody.
End(w, k) ==
  /\ k \in runs[w]
  /\ runs' = [runs EXCEPT ![w] = {}]
  /\ over' = over \cup {k}
  /\ UNCHANGED returned \/ \E what \in {"value", "error"} : ReturnTo(k, what)
  /\ UNCHANGED sent

\* The worker ends, and what was sent to it will not be executed.
Drop(w) ==
  /\ over' = over \cup sent[w]
  /\ sent' = [sent EXCEPT ![w] = {}]
  /\ UNCHANGED <<runs, returned>>

\* The caller is told that it will hear no more; its call may well be executed.
GiveUp(c) ==
  /\ returned[c] = "none" /\ returned' = [returned EXCEPT ![c] = "dead"]
  /\ UNCHANGED <<sent, runs, over>>

GoOn(c) ==
  /\ returned' = [returned EXCEPT ![c] = "none"]
  /\ UNCHANGED <<sent, runs, over>>

Next ==
  \/ \E w \in Workers : Drop(w)
  \/ \E w \in Workers, k \in Calls : Send(w, k) \/ Begin(w, k) \/ End(w, k)
  \/ \E k \in Calls : Refuse(k)
  \/ \E c \in Clients : GiveUp(c) \/ GoOn(c)

Spec == Init /\ [][Next]_vars
=============================================================================
