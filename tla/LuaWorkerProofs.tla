--------------------------- MODULE LuaWorkerProofs ---------------------------
(* What holds of the workers for any number of them, of clients and of        *)
(* commands, and any limits: their types, the count of the slots, and that a  *)
(* worker one has been told is dead does not look usable afterwards.          *)
EXTENDS LuaWorker, FiniteSetTheorems, TLAPS

\* Threads that hold a slot for good, and spawns that have seen one free.
Taken == {w \in Workers : thread[w] \in {"reserved"} \cup Running}
SlotsInv == count = Cardinality(Holding) /\ Cardinality(Taken) <= MaxThreads

\* A thread that does not run has no receiver, one that has panicked is known to be gone,
\* and a client whose oneshot was dropped talked to such a thread or to one unwinding.
Doomed == {"unwinding", "panicked", "gone"}
GoneInv ==
  /\ \A w \in Workers : thread[w] \notin Running => ~open[w]
  /\ \A w \in Workers : thread[w] = "panicked" => ~Live(w)
  /\ \A c \in Clients : pc[c] = "polling" => thread[at[c]] \in Doomed

\* A command in a worker is one its client has sent to this worker.
Inside(w) == ToSet(queue[w]) \cup ToSet(job[w])
SentInv ==
  \A w \in Workers : \A cmd \in Inside(w) :
    /\ cmd \in Command /\ cmd.no <= calls[cmd.from]
    /\ cmd.no = calls[cmd.from] => at[cmd.from] = w

----------------------------------------------------------------------------
LEMMA ToSetAppend ==
  ASSUME NEW S, NEW q \in Seq(S), NEW x
  PROVE  ToSet(Append(q, x)) = ToSet(q) \cup {x}
<1>1. DOMAIN Append(q, x) = DOMAIN q \cup {Len(q) + 1}
  OBVIOUS
<1>2. /\ \A i \in DOMAIN q : Append(q, x)[i] = q[i]
      /\ Append(q, x)[Len(q) + 1] = x
  OBVIOUS
<1> QED
  BY <1>1, <1>2 DEF ToSet

LEMMA ToSetFacts ==
  ASSUME NEW S, NEW q \in Seq(S), NEW x
  PROVE  /\ ToSet(<<>>) = {} /\ ToSet(<<x>>) = {x}
         /\ q # <<>> => Head(q) \in ToSet(q) /\ ToSet(Tail(q)) \subseteq ToSet(q)
<1>1. ToSet(<<>>) = {} /\ ToSet(<<x>>) = {x}
  BY DEF ToSet
<1>2. ASSUME q # <<>> PROVE Head(q) \in ToSet(q) /\ ToSet(Tail(q)) \subseteq ToSet(q)
  <2>1. 1 \in DOMAIN q /\ Head(q) = q[1]
    BY <1>2
  <2>2. \A i \in DOMAIN Tail(q) : i + 1 \in DOMAIN q /\ Tail(q)[i] = q[i + 1]
    BY <1>2
  <2> QED
    BY <2>1, <2>2 DEF ToSet
<1> QED
  BY <1>1, <1>2

LEMMA AddOne ==
  ASSUME NEW S, NEW x, IsFiniteSet(S), x \notin S
  PROVE  IsFiniteSet(S \cup {x}) /\ Cardinality(S \cup {x}) = Cardinality(S) + 1
BY FS_AddElement

LEMMA RemoveOne ==
  ASSUME NEW S, NEW x, IsFiniteSet(S)
  PROVE  /\ Cardinality(S \ {x}) <= Cardinality(S)
         /\ x \in S => Cardinality(S \ {x}) = Cardinality(S) - 1
<1>1. Cardinality(S) \in Nat
  BY FS_CardinalityType
<1> QED
  BY <1>1, FS_RemoveElement

LEMMA SetsFinite ==
  ASSUME ThreadsOK
  PROVE  /\ IsFiniteSet(Holding) /\ IsFiniteSet(Taken)
         /\ Cardinality(Holding) \in Nat /\ Cardinality(Taken) \in Nat
BY LuaWorkerAssumption, FS_Subset, FS_CardinalityType DEF Holding, Taken

LEMMA SlotsStep == WorkerTypeOK /\ SlotsInv /\ [Next]_workerVars => SlotsInv'
<1> SUFFICES ASSUME WorkerTypeOK, SlotsInv, [Next]_workerVars PROVE SlotsInv'
  OBVIOUS
<1> USE DEF WorkerTypeOK
<1>f. /\ IsFiniteSet(Holding) /\ IsFiniteSet(Taken)
      /\ Cardinality(Holding) \in Nat /\ Cardinality(Taken) \in Nat
  BY SetsFinite
<1>1. ASSUME NEW w \in Workers, Reserve(w) PROVE SlotsInv'
  <2>1. Holding' = Holding \cup {w} /\ w \notin Holding /\ count' = count + 1
    BY <1>1 DEF Reserve, Holding, Taken, ThreadsOK, Threads, Spawning, Running
  <2>2. Cardinality(Holding') = Cardinality(Holding) + 1
    BY <2>1, <1>f, AddOne
  <2>3. CASE count >= MaxThreads
    <3>1. Taken' = Taken
      BY <1>1, <2>3 DEF Reserve, Holding, Taken, ThreadsOK, Threads, Spawning, Running
    <3> QED
      BY <2>1, <2>2, <3>1 DEF SlotsInv
  <2>4. CASE ~(count >= MaxThreads)
    <3>1. Taken' = Taken \cup {w} /\ w \notin Taken /\ Taken \subseteq Holding
      BY <1>1, <2>4 DEF Reserve, Holding, Taken, ThreadsOK, Threads, Spawning, Running
    <3>2. Cardinality(Taken) <= Cardinality(Holding)
      BY <3>1, <1>f, FS_Subset
    <3>3. Cardinality(Taken') = Cardinality(Taken) + 1
      BY <3>1, <1>f, AddOne
    <3> QED
      BY <2>1, <2>2, <2>4, <3>2, <3>3, <1>f, LuaWorkerAssumption DEF SlotsInv
  <2> QED
    BY <2>3, <2>4
<1>2. ASSUME NEW w \in Workers, Refuse(w) PROVE SlotsInv'
  <2>1. Holding' = Holding \ {w} /\ w \in Holding /\ Taken' = Taken \ {w} /\ count' = count - 1
    BY <1>2 DEF Holding, Taken, ThreadsOK, Threads, Spawning, Running, Refuse
  <2>2. Cardinality(Holding') = Cardinality(Holding) - 1 /\ Cardinality(Taken') <= Cardinality(Taken)
    BY <2>1, <1>f, RemoveOne
  <2>3. Cardinality(Taken') \in Nat
    BY <2>1, <1>f, FS_RemoveElement, FS_CardinalityType
  <2> QED
    BY <2>1, <2>2, <2>3, <1>f, LuaWorkerAssumption DEF SlotsInv
<1>3. ASSUME NEW w \in Workers, StartThread(w) PROVE SlotsInv'
  <2>1. Holding' = Holding /\ Taken' = Taken
    BY <1>3 DEF Holding, Taken, ThreadsOK, Threads, Spawning, Running, StartThread, workers, requests
  <2> QED
    BY <1>3, <2>1 DEF SlotsInv, StartThread, workers, requests
<1>4. ASSUME NEW w \in Workers, Build(w) PROVE SlotsInv'
  <2>1. Holding' = Holding /\ Taken' = Taken
    BY <1>4 DEF Holding, Taken, ThreadsOK, Threads, Spawning, Running, Build, Goto, Publish, workers, requests
  <2> QED
    BY <1>4, <2>1 DEF SlotsInv, Build, workers, requests
<1>5. ASSUME NEW w \in Workers, BuildFails(w) PROVE SlotsInv'
  <2>1. Holding' = Holding /\ Taken' = Taken
    BY <1>5 DEF Holding, Taken, ThreadsOK, Threads, Spawning, Running, BuildFails, Goto, workers, requests
  <2> QED
    BY <1>5, <2>1 DEF SlotsInv, BuildFails, workers, requests
<1>6. ASSUME NEW w \in Workers, TakeJob(w) PROVE SlotsInv'
  <2>1. Holding' = Holding /\ Taken' = Taken
    BY <1>6 DEF Holding, Taken, ThreadsOK, Threads, Spawning, Running, TakeJob, Goto, workers, requests
  <2> QED
    BY <1>6, <2>1 DEF SlotsInv, TakeJob, workers, requests
<1>7. ASSUME NEW w \in Workers, Answer(w) PROVE SlotsInv'
  <2>1. Holding' = Holding /\ Taken' = Taken
    BY <1>7 DEF Holding, Taken, ThreadsOK, Threads, Spawning, Running, Answer, Goto, Reply, Reaches, workers, requests
  <2> QED
    BY <1>7, <2>1 DEF SlotsInv, Answer, workers, requests
<1>8. ASSUME NEW w \in Workers, Stick(w) PROVE SlotsInv'
  <2>1. Holding' = Holding /\ Taken' = Taken
    BY <1>8 DEF Holding, Taken, ThreadsOK, Threads, Spawning, Running, Stick, Goto, workers, requests
  <2> QED
    BY <1>8, <2>1 DEF SlotsInv, Stick, workers, requests
<1>9. ASSUME NEW w \in Workers, Panic(w) PROVE SlotsInv'
  <2>1. Holding' = Holding /\ Taken' = Taken
    BY <1>9 DEF Holding, Taken, ThreadsOK, Threads, Spawning, Running, Panic, Goto, DropOneshots, Reaches, workers, requests
  <2> QED
    BY <1>9, <2>1 DEF SlotsInv, Panic, workers, requests
<1>10. ASSUME NEW w \in Workers, PublishPanic(w) PROVE SlotsInv'
  <2>1. Holding' = Holding /\ Taken' = Taken
    BY <1>10 DEF Holding, Taken, ThreadsOK, Threads, Spawning, Running, PublishPanic, Goto, Publish, workers, requests
  <2> QED
    BY <1>10, <2>1 DEF SlotsInv, PublishPanic, workers, requests
<1>11. ASSUME NEW w \in Workers, Hangup(w) PROVE SlotsInv'
  <2>1. Holding' = Holding /\ Taken' = Taken
    BY <1>11 DEF Holding, Taken, ThreadsOK, Threads, Spawning, Running, Hangup, Goto, workers, requests
  <2> QED
    BY <1>11, <2>1 DEF SlotsInv, Hangup, workers, requests
<1>12. ASSUME NEW w \in Workers, PublishClosing(w) PROVE SlotsInv'
  <2>1. Holding' = Holding /\ Taken' = Taken
    BY <1>12 DEF Holding, Taken, ThreadsOK, Threads, Spawning, Running, PublishClosing, Goto, Publish, workers, requests
  <2> QED
    BY <1>12, <2>1 DEF SlotsInv, PublishClosing, workers, requests
<1>13. ASSUME NEW w \in Workers, Exit(w) PROVE SlotsInv'
  <2>1. Holding' = Holding \ {w} /\ w \in Holding /\ Taken' = Taken \ {w} /\ count' = count - 1
    BY <1>13 DEF Holding, Taken, ThreadsOK, Threads, Spawning, Running, Exit, Goto, Publish, DropOneshots, Reaches
  <2>2. Cardinality(Holding') = Cardinality(Holding) - 1 /\ Cardinality(Taken') <= Cardinality(Taken)
    BY <2>1, <1>f, RemoveOne
  <2>3. Cardinality(Taken') \in Nat
    BY <2>1, <1>f, FS_RemoveElement, FS_CardinalityType
  <2> QED
    BY <2>1, <2>2, <2>3, <1>f, LuaWorkerAssumption DEF SlotsInv
<1>14. ASSUME NEW w \in Workers, Release(w) PROVE SlotsInv'
  BY <1>14 DEF SlotsInv, Holding, Taken, Release, workers, requests
<1>15. ASSUME NEW c \in Clients, Enqueue(c) PROVE SlotsInv'
  BY <1>15 DEF SlotsInv, Holding, Taken, Enqueue, HasRoom, Asks, workers, requests
<1>16. ASSUME NEW c \in Clients, Busy(c) PROVE SlotsInv'
  BY <1>16 DEF SlotsInv, Holding, Taken, Busy, Return, workers, requests
<1>17. ASSUME NEW c \in Clients, Closed(c) PROVE SlotsInv'
  BY <1>17 DEF SlotsInv, Holding, Taken, Closed, Publish, Return, workers, requests
<1>18. ASSUME NEW c \in Clients, Timeout(c) PROVE SlotsInv'
  BY <1>18 DEF SlotsInv, Holding, Taken, Timeout, Publish, Return, Overdue, CapacityOverdue, workers, requests
<1>19. ASSUME NEW c \in Clients, SeePanic(c) PROVE SlotsInv'
  BY <1>19 DEF SlotsInv, Holding, Taken, SeePanic, Return, workers, requests
<1>20. ASSUME NEW c \in Clients, GivePollsUp(c) PROVE SlotsInv'
  BY <1>20 DEF SlotsInv, Holding, Taken, GivePollsUp, Return, workers, requests
<1>21. ASSUME NEW c \in Clients, Finish(c) PROVE SlotsInv'
  BY <1>21 DEF SlotsInv, Holding, Taken, Finish, workers, requests
<1>22. ASSUME NEW c \in Clients, NEW w \in Workers, NEW k \in Kinds, Check(c, w, k) PROVE SlotsInv'
  BY <1>22 DEF SlotsInv, Holding, Taken, Check, Return, Live, workers, requests
<1>23. ASSUME UNCHANGED workerVars PROVE SlotsInv'
  BY <1>23 DEF SlotsInv, Holding, Taken, workerVars, workers, requests
<1> QED
  BY <1>1, <1>2, <1>3, <1>4, <1>5, <1>6, <1>7, <1>8, <1>9, <1>10, <1>11, <1>12,
     <1>13, <1>14, <1>15, <1>16, <1>17, <1>18, <1>19, <1>20, <1>21, <1>22, <1>23
     DEF Next, WorkerStep, Spawn, Thread, Loop, Handle, Leave, Respond

LEMMA TypeStep == WorkerTypeOK /\ SlotsInv /\ [Next]_workerVars => WorkerTypeOK'
<1> SUFFICES ASSUME WorkerTypeOK, SlotsInv, [Next]_workerVars PROVE WorkerTypeOK'
  OBVIOUS
<1> USE DEF WorkerTypeOK
<1>1. ASSUME NEW w \in Workers, Reserve(w) PROVE WorkerTypeOK'
  <2>1. ThreadsOK'
    BY <1>1 DEF ThreadsOK, States, Threads, Spawning, Running, Reserve, workers, requests
  <2>2. QueuesOK'
    BY <1>1 DEF QueuesOK, ThreadsOK, Threads, Spawning, Running, Reserve, workers, requests
  <2>3. RequestsOK'
    BY <1>1 DEF RequestsOK, Reserve, workers, requests
  <2> QED
    BY <2>1, <2>2, <2>3 DEF WorkerTypeOK
<1>2. ASSUME NEW w \in Workers, Refuse(w) PROVE WorkerTypeOK'
  <2>1. ThreadsOK'
    <3>1. w \in Holding
      BY <1>2 DEF Holding, ThreadsOK, Threads, Spawning, Running, Refuse
    <3>2. Cardinality(Holding) # 0
      BY <3>1, SetsFinite, FS_EmptySet
    <3>3. count - 1 \in Nat
      BY <3>2, SetsFinite DEF SlotsInv, ThreadsOK
    <3> QED
      BY <1>2, <3>3 DEF ThreadsOK, States, Threads, Spawning, Running, Refuse, workers, requests
  <2>2. QueuesOK'
    BY <1>2 DEF QueuesOK, ThreadsOK, Threads, Spawning, Running, Refuse, workers, requests
  <2>3. RequestsOK'
    BY <1>2 DEF RequestsOK, Refuse, workers, requests
  <2> QED
    BY <2>1, <2>2, <2>3 DEF WorkerTypeOK
<1>3. ASSUME NEW w \in Workers, StartThread(w) PROVE WorkerTypeOK'
  <2>1. ThreadsOK'
    BY <1>3 DEF ThreadsOK, States, Threads, Spawning, Running, StartThread, workers, requests
  <2>2. QueuesOK'
    BY <1>3 DEF QueuesOK, ThreadsOK, Threads, Spawning, Running, StartThread, workers, requests
  <2>3. RequestsOK'
    BY <1>3 DEF RequestsOK, StartThread, workers, requests
  <2> QED
    BY <2>1, <2>2, <2>3 DEF WorkerTypeOK
<1>4. ASSUME NEW w \in Workers, Build(w) PROVE WorkerTypeOK'
  <2>1. ThreadsOK'
    BY <1>4 DEF ThreadsOK, States, Threads, Spawning, Running, Build, Goto, Publish, workers, requests
  <2>2. QueuesOK'
    BY <1>4 DEF QueuesOK, ThreadsOK, Threads, Spawning, Running, Build, Goto, Publish, workers, requests
  <2>3. RequestsOK'
    BY <1>4 DEF RequestsOK, Build, Goto, Publish, workers, requests
  <2> QED
    BY <2>1, <2>2, <2>3 DEF WorkerTypeOK
<1>5. ASSUME NEW w \in Workers, BuildFails(w) PROVE WorkerTypeOK'
  <2>1. ThreadsOK'
    BY <1>5 DEF ThreadsOK, States, Threads, Spawning, Running, BuildFails, Goto, workers, requests
  <2>2. QueuesOK'
    BY <1>5 DEF QueuesOK, ThreadsOK, Threads, Spawning, Running, BuildFails, Goto, workers, requests
  <2>3. RequestsOK'
    BY <1>5 DEF RequestsOK, BuildFails, Goto, workers, requests
  <2> QED
    BY <2>1, <2>2, <2>3 DEF WorkerTypeOK
<1>6. ASSUME NEW w \in Workers, TakeJob(w) PROVE WorkerTypeOK'
  <2>1. ThreadsOK'
    BY <1>6 DEF ThreadsOK, States, Threads, Spawning, Running, TakeJob, Goto, workers, requests
  <2>2. QueuesOK'
    <3>1. /\ <<Head(queue[w])>> \in Seq(Command) /\ Len(<<Head(queue[w])>>) = 1
          /\ Tail(queue[w]) \in Seq(Command) /\ Len(Tail(queue[w])) <= Len(queue[w])
      BY <1>6 DEF TakeJob, QueuesOK
    <3> QED
      BY <1>6, <3>1, LuaWorkerAssumption DEF QueuesOK, ThreadsOK, Threads, Spawning, Running, TakeJob, Goto, workers, requests
  <2>3. RequestsOK'
    BY <1>6 DEF RequestsOK, TakeJob, Goto, workers, requests
  <2> QED
    BY <2>1, <2>2, <2>3 DEF WorkerTypeOK
<1>7. ASSUME NEW w \in Workers, Answer(w) PROVE WorkerTypeOK'
  <2>1. ThreadsOK'
    BY <1>7 DEF ThreadsOK, States, Threads, Spawning, Running, Answer, Goto, Reply, Reaches, workers, requests
  <2>2. QueuesOK'
    BY <1>7 DEF QueuesOK, ThreadsOK, Threads, Spawning, Running, Answer, Goto, Reply, Reaches, workers, requests
  <2>3. RequestsOK'
    BY <1>7 DEF RequestsOK, Answer, Goto, Reply, Reaches, workers, requests
  <2> QED
    BY <2>1, <2>2, <2>3 DEF WorkerTypeOK
<1>8. ASSUME NEW w \in Workers, Stick(w) PROVE WorkerTypeOK'
  <2>1. ThreadsOK'
    BY <1>8 DEF ThreadsOK, States, Threads, Spawning, Running, Stick, Goto, workers, requests
  <2>2. QueuesOK'
    BY <1>8 DEF QueuesOK, ThreadsOK, Threads, Spawning, Running, Stick, Goto, workers, requests
  <2>3. RequestsOK'
    BY <1>8 DEF RequestsOK, Stick, Goto, workers, requests
  <2> QED
    BY <2>1, <2>2, <2>3 DEF WorkerTypeOK
<1>9. ASSUME NEW w \in Workers, Panic(w) PROVE WorkerTypeOK'
  <2>1. ThreadsOK'
    BY <1>9 DEF ThreadsOK, States, Threads, Spawning, Running, Panic, Goto, DropOneshots, Reaches, workers, requests
  <2>2. QueuesOK'
    BY <1>9 DEF QueuesOK, ThreadsOK, Threads, Spawning, Running, Panic, Goto, DropOneshots, Reaches, workers, requests
  <2>3. RequestsOK'
    BY <1>9 DEF RequestsOK, Panic, Goto, DropOneshots, Reaches, workers, requests
  <2> QED
    BY <2>1, <2>2, <2>3 DEF WorkerTypeOK
<1>10. ASSUME NEW w \in Workers, PublishPanic(w) PROVE WorkerTypeOK'
  <2>1. ThreadsOK'
    BY <1>10 DEF ThreadsOK, States, Threads, Spawning, Running, PublishPanic, Goto, Publish, workers, requests
  <2>2. QueuesOK'
    BY <1>10 DEF QueuesOK, ThreadsOK, Threads, Spawning, Running, PublishPanic, Goto, Publish, workers, requests
  <2>3. RequestsOK'
    BY <1>10 DEF RequestsOK, PublishPanic, Goto, Publish, workers, requests
  <2> QED
    BY <2>1, <2>2, <2>3 DEF WorkerTypeOK
<1>11. ASSUME NEW w \in Workers, Hangup(w) PROVE WorkerTypeOK'
  <2>1. ThreadsOK'
    BY <1>11 DEF ThreadsOK, States, Threads, Spawning, Running, Hangup, Goto, workers, requests
  <2>2. QueuesOK'
    BY <1>11 DEF QueuesOK, ThreadsOK, Threads, Spawning, Running, Hangup, Goto, workers, requests
  <2>3. RequestsOK'
    BY <1>11 DEF RequestsOK, Hangup, Goto, workers, requests
  <2> QED
    BY <2>1, <2>2, <2>3 DEF WorkerTypeOK
<1>12. ASSUME NEW w \in Workers, PublishClosing(w) PROVE WorkerTypeOK'
  <2>1. ThreadsOK'
    BY <1>12 DEF ThreadsOK, States, Threads, Spawning, Running, PublishClosing, Goto, Publish, workers, requests
  <2>2. QueuesOK'
    BY <1>12 DEF QueuesOK, ThreadsOK, Threads, Spawning, Running, PublishClosing, Goto, Publish, workers, requests
  <2>3. RequestsOK'
    BY <1>12 DEF RequestsOK, PublishClosing, Goto, Publish, workers, requests
  <2> QED
    BY <2>1, <2>2, <2>3 DEF WorkerTypeOK
<1>13. ASSUME NEW w \in Workers, Exit(w) PROVE WorkerTypeOK'
  <2>1. ThreadsOK'
    <3>1. w \in Holding
      BY <1>13 DEF Holding, ThreadsOK, Threads, Spawning, Running, Exit
    <3>2. Cardinality(Holding) # 0
      BY <3>1, SetsFinite, FS_EmptySet
    <3>3. count - 1 \in Nat
      BY <3>2, SetsFinite DEF SlotsInv, ThreadsOK
    <3> QED
      BY <1>13, <3>3 DEF ThreadsOK, States, Threads, Spawning, Running, Exit, Goto, Publish, DropOneshots, Reaches, workers, requests
  <2>2. QueuesOK'
    BY <1>13, LuaWorkerAssumption DEF QueuesOK, ThreadsOK, Exit, Goto, workers, requests
  <2>3. RequestsOK'
    BY <1>13 DEF RequestsOK, Exit, Goto, Publish, DropOneshots, Reaches, workers, requests
  <2> QED
    BY <2>1, <2>2, <2>3 DEF WorkerTypeOK
<1>14. ASSUME NEW w \in Workers, Release(w) PROVE WorkerTypeOK'
  <2>1. ThreadsOK'
    BY <1>14 DEF ThreadsOK, States, Threads, Spawning, Running, Release, workers, requests
  <2>2. QueuesOK'
    BY <1>14 DEF QueuesOK, ThreadsOK, Threads, Spawning, Running, Release, workers, requests
  <2>3. RequestsOK'
    BY <1>14 DEF RequestsOK, Release, workers, requests
  <2> QED
    BY <2>1, <2>2, <2>3 DEF WorkerTypeOK
<1>15. ASSUME NEW c \in Clients, Enqueue(c) PROVE WorkerTypeOK'
  <2>1. ThreadsOK'
    BY <1>15 DEF ThreadsOK, States, Threads, Spawning, Running, Enqueue, HasRoom, Asks, workers, requests
  <2>2. QueuesOK'
    <3>1. Asks(c) \in Command
      BY <1>15 DEF Enqueue, Asks, Command, RequestsOK
    <3> QED
      BY <1>15, <3>1, LuaWorkerAssumption DEF QueuesOK, RequestsOK, ThreadsOK, Threads, Spawning, Running, Enqueue, HasRoom, Asks, workers, requests
  <2>3. RequestsOK'
    BY <1>15 DEF RequestsOK, Enqueue, HasRoom, Asks, workers, requests
  <2> QED
    BY <2>1, <2>2, <2>3 DEF WorkerTypeOK
<1>16. ASSUME NEW c \in Clients, Busy(c) PROVE WorkerTypeOK'
  <2>1. ThreadsOK'
    BY <1>16 DEF ThreadsOK, States, Threads, Spawning, Running, Busy, Return, workers, requests
  <2>2. QueuesOK'
    BY <1>16 DEF QueuesOK, ThreadsOK, Threads, Spawning, Running, Busy, Return, workers, requests
  <2>3. RequestsOK'
    BY <1>16 DEF RequestsOK, Busy, Return, workers, requests
  <2> QED
    BY <2>1, <2>2, <2>3 DEF WorkerTypeOK
<1>17. ASSUME NEW c \in Clients, Closed(c) PROVE WorkerTypeOK'
  <2>1. ThreadsOK'
    BY <1>17 DEF RequestsOK, ThreadsOK, States, Threads, Spawning, Running, Closed, Publish, Return, workers, requests
  <2>2. QueuesOK'
    BY <1>17 DEF QueuesOK, ThreadsOK, Threads, Spawning, Running, Closed, Publish, Return, workers, requests
  <2>3. RequestsOK'
    BY <1>17 DEF RequestsOK, Closed, Publish, Return, workers, requests
  <2> QED
    BY <2>1, <2>2, <2>3 DEF WorkerTypeOK
<1>18. ASSUME NEW c \in Clients, Timeout(c) PROVE WorkerTypeOK'
  <2>1. ThreadsOK'
    BY <1>18 DEF RequestsOK, ThreadsOK, States, Threads, Spawning, Running, Timeout, Publish, Return, Overdue, CapacityOverdue, workers, requests
  <2>2. QueuesOK'
    BY <1>18 DEF QueuesOK, ThreadsOK, Threads, Spawning, Running, Timeout, Publish, Return, Overdue, CapacityOverdue, workers, requests
  <2>3. RequestsOK'
    BY <1>18 DEF RequestsOK, Timeout, Publish, Return, Overdue, CapacityOverdue, workers, requests
  <2> QED
    BY <2>1, <2>2, <2>3 DEF WorkerTypeOK
<1>19. ASSUME NEW c \in Clients, SeePanic(c) PROVE WorkerTypeOK'
  <2>1. ThreadsOK'
    BY <1>19 DEF ThreadsOK, States, Threads, Spawning, Running, SeePanic, Return, workers, requests
  <2>2. QueuesOK'
    BY <1>19 DEF QueuesOK, ThreadsOK, Threads, Spawning, Running, SeePanic, Return, workers, requests
  <2>3. RequestsOK'
    BY <1>19 DEF RequestsOK, SeePanic, Return, workers, requests
  <2> QED
    BY <2>1, <2>2, <2>3 DEF WorkerTypeOK
<1>20. ASSUME NEW c \in Clients, GivePollsUp(c) PROVE WorkerTypeOK'
  <2>1. ThreadsOK'
    BY <1>20 DEF ThreadsOK, States, Threads, Spawning, Running, GivePollsUp, Return, workers, requests
  <2>2. QueuesOK'
    BY <1>20 DEF QueuesOK, ThreadsOK, Threads, Spawning, Running, GivePollsUp, Return, workers, requests
  <2>3. RequestsOK'
    BY <1>20 DEF RequestsOK, GivePollsUp, Return, workers, requests
  <2> QED
    BY <2>1, <2>2, <2>3 DEF WorkerTypeOK
<1>21. ASSUME NEW c \in Clients, Finish(c) PROVE WorkerTypeOK'
  <2>1. ThreadsOK'
    BY <1>21 DEF ThreadsOK, States, Threads, Spawning, Running, Finish, workers, requests
  <2>2. QueuesOK'
    BY <1>21 DEF QueuesOK, ThreadsOK, Threads, Spawning, Running, Finish, workers, requests
  <2>3. RequestsOK'
    BY <1>21 DEF RequestsOK, Finish, workers, requests
  <2> QED
    BY <2>1, <2>2, <2>3 DEF WorkerTypeOK
<1>22. ASSUME NEW c \in Clients, NEW w \in Workers, NEW k \in Kinds, Check(c, w, k) PROVE WorkerTypeOK'
  <2>1. ThreadsOK'
    BY <1>22 DEF ThreadsOK, States, Threads, Spawning, Running, Check, Return, Live, workers, requests
  <2>2. QueuesOK'
    BY <1>22 DEF QueuesOK, ThreadsOK, Threads, Spawning, Running, Check, Return, Live, workers, requests
  <2>3. RequestsOK'
    BY <1>22, LuaWorkerAssumption DEF RequestsOK, Check, Return, Live, workers, requests
  <2> QED
    BY <2>1, <2>2, <2>3 DEF WorkerTypeOK
<1>23. ASSUME UNCHANGED workerVars PROVE WorkerTypeOK'
  <2>1. ThreadsOK'
    BY <1>23 DEF ThreadsOK, States, Threads, Spawning, Running, workerVars, workers, requests
  <2>2. QueuesOK'
    BY <1>23 DEF QueuesOK, ThreadsOK, Threads, Spawning, Running, workerVars, workers, requests
  <2>3. RequestsOK'
    BY <1>23 DEF RequestsOK, workerVars, workers, requests
  <2> QED
    BY <2>1, <2>2, <2>3 DEF WorkerTypeOK
<1> QED
  BY <1>1, <1>2, <1>3, <1>4, <1>5, <1>6, <1>7, <1>8, <1>9, <1>10, <1>11, <1>12,
     <1>13, <1>14, <1>15, <1>16, <1>17, <1>18, <1>19, <1>20, <1>21, <1>22, <1>23
     DEF Next, WorkerStep, Spawn, Thread, Loop, Handle, Leave, Respond

LEMMA GoneStep == WorkerTypeOK /\ SentInv /\ GoneInv /\ [Next]_workerVars => GoneInv'
<1> SUFFICES ASSUME WorkerTypeOK, SentInv, GoneInv, [Next]_workerVars PROVE GoneInv'
  OBVIOUS
<1> USE DEF WorkerTypeOK
<1>1. ASSUME NEW w \in Workers, Reserve(w) PROVE GoneInv'
  BY <1>1 DEF GoneInv, ThreadsOK, RequestsOK, Live, Doomed, Threads, Spawning, Running, Reserve, workers, requests
<1>2. ASSUME NEW w \in Workers, Refuse(w) PROVE GoneInv'
  BY <1>2 DEF GoneInv, ThreadsOK, RequestsOK, Live, Doomed, Threads, Spawning, Running, Refuse, workers, requests
<1>3. ASSUME NEW w \in Workers, StartThread(w) PROVE GoneInv'
  BY <1>3 DEF GoneInv, ThreadsOK, RequestsOK, Live, Doomed, Threads, Spawning, Running, StartThread, workers, requests
<1>4. ASSUME NEW w \in Workers, Build(w) PROVE GoneInv'
  BY <1>4 DEF GoneInv, ThreadsOK, RequestsOK, Live, Doomed, Threads, Spawning, Running, Build, Goto, Publish, workers, requests
<1>5. ASSUME NEW w \in Workers, BuildFails(w) PROVE GoneInv'
  BY <1>5 DEF GoneInv, ThreadsOK, RequestsOK, Live, Doomed, Threads, Spawning, Running, BuildFails, Goto, workers, requests
<1>6. ASSUME NEW w \in Workers, TakeJob(w) PROVE GoneInv'
  BY <1>6 DEF GoneInv, ThreadsOK, RequestsOK, Live, Doomed, Threads, Spawning, Running, TakeJob, Goto, workers, requests
<1>7. ASSUME NEW w \in Workers, Answer(w) PROVE GoneInv'
  BY <1>7 DEF GoneInv, ThreadsOK, RequestsOK, Live, Doomed, Threads, Spawning, Running, Answer, Goto, Reply, Reaches, workers, requests
<1>8. ASSUME NEW w \in Workers, Stick(w) PROVE GoneInv'
  BY <1>8 DEF GoneInv, ThreadsOK, RequestsOK, Live, Doomed, Threads, Spawning, Running, Stick, Goto, workers, requests
<1>9. ASSUME NEW w \in Workers, Panic(w) PROVE GoneInv'
  <2>1. \A c \in Clients : Reaches(ToSet(job[w]), c) => at[c] = w /\ pc[c] = "waiting"
    BY <1>9 DEF SentInv, Inside, Reaches
  <2>2. \A c \in Clients : pc'[c] = "polling" => pc[c] = "polling" \/ at[c] = w
    BY <1>9, <2>1 DEF Panic, DropOneshots, RequestsOK
  <2>3. thread' = [thread EXCEPT ![w] = "unwinding"] /\ at' = at
    BY <1>9 DEF Panic, Goto
  <2>4. \A c \in Clients : pc'[c] = "polling" => thread'[at'[c]] \in Doomed
    BY <2>2, <2>3 DEF GoneInv, Doomed, ThreadsOK, RequestsOK
  <2>5. \A v \in Workers : (thread'[v] \notin Running => ~open'[v]) /\ (thread'[v] = "panicked" => ~Live(v)')
    BY <1>9, <2>3 DEF GoneInv, Live, ThreadsOK, Threads, Spawning, Running, Panic, Publish
  <2> QED
    BY <2>4, <2>5 DEF GoneInv
<1>10. ASSUME NEW w \in Workers, PublishPanic(w) PROVE GoneInv'
  BY <1>10 DEF GoneInv, ThreadsOK, RequestsOK, Live, Doomed, Threads, Spawning, Running, PublishPanic, Goto, Publish, workers, requests
<1>11. ASSUME NEW w \in Workers, Hangup(w) PROVE GoneInv'
  BY <1>11 DEF GoneInv, ThreadsOK, RequestsOK, Live, Doomed, Threads, Spawning, Running, Hangup, Goto, workers, requests
<1>12. ASSUME NEW w \in Workers, PublishClosing(w) PROVE GoneInv'
  BY <1>12 DEF GoneInv, ThreadsOK, RequestsOK, Live, Doomed, Threads, Spawning, Running, PublishClosing, Goto, Publish, workers, requests
<1>13. ASSUME NEW w \in Workers, Exit(w) PROVE GoneInv'
  <2>1. \A c \in Clients : Reaches(ToSet(queue[w]), c) => at[c] = w /\ pc[c] = "waiting"
    BY <1>13 DEF SentInv, Inside, Reaches
  <2>2. \A c \in Clients : pc'[c] = "polling" => pc[c] = "polling" \/ at[c] = w
    BY <1>13, <2>1 DEF Exit, DropOneshots, RequestsOK
  <2>3. thread' = [thread EXCEPT ![w] = "gone"] /\ at' = at
    BY <1>13 DEF Exit, Goto
  <2>4. \A c \in Clients : pc'[c] = "polling" => thread'[at'[c]] \in Doomed
    BY <2>2, <2>3 DEF GoneInv, Doomed, ThreadsOK, RequestsOK
  <2>5. \A v \in Workers : (thread'[v] \notin Running => ~open'[v]) /\ (thread'[v] = "panicked" => ~Live(v)')
    BY <1>13, <2>3 DEF GoneInv, Live, ThreadsOK, Threads, Spawning, Running, Exit, Publish
  <2> QED
    BY <2>4, <2>5 DEF GoneInv
<1>14. ASSUME NEW w \in Workers, Release(w) PROVE GoneInv'
  BY <1>14 DEF GoneInv, ThreadsOK, RequestsOK, Live, Doomed, Threads, Spawning, Running, Release, workers, requests
<1>15. ASSUME NEW c \in Clients, Enqueue(c) PROVE GoneInv'
  BY <1>15 DEF GoneInv, ThreadsOK, RequestsOK, Live, Doomed, Threads, Spawning, Running, Enqueue, HasRoom, Asks, workers, requests
<1>16. ASSUME NEW c \in Clients, Busy(c) PROVE GoneInv'
  BY <1>16 DEF GoneInv, ThreadsOK, RequestsOK, Live, Doomed, Threads, Spawning, Running, Busy, Return, workers, requests
<1>17. ASSUME NEW c \in Clients, Closed(c) PROVE GoneInv'
  BY <1>17 DEF GoneInv, ThreadsOK, RequestsOK, Live, Doomed, Threads, Spawning, Running, Closed, Publish, Return, workers, requests
<1>18. ASSUME NEW c \in Clients, Timeout(c) PROVE GoneInv'
  BY <1>18 DEF GoneInv, ThreadsOK, RequestsOK, Live, Doomed, Threads, Spawning, Running, Timeout, Publish, Return, Overdue, CapacityOverdue, workers, requests
<1>19. ASSUME NEW c \in Clients, SeePanic(c) PROVE GoneInv'
  BY <1>19 DEF GoneInv, ThreadsOK, RequestsOK, Live, Doomed, Threads, Spawning, Running, SeePanic, Return, workers, requests
<1>20. ASSUME NEW c \in Clients, GivePollsUp(c) PROVE GoneInv'
  BY <1>20 DEF GoneInv, ThreadsOK, RequestsOK, Live, Doomed, Threads, Spawning, Running, GivePollsUp, Return, workers, requests
<1>21. ASSUME NEW c \in Clients, Finish(c) PROVE GoneInv'
  BY <1>21 DEF GoneInv, ThreadsOK, RequestsOK, Live, Doomed, Threads, Spawning, Running, Finish, workers, requests
<1>22. ASSUME NEW c \in Clients, NEW w \in Workers, NEW k \in Kinds, Check(c, w, k) PROVE GoneInv'
  BY <1>22 DEF GoneInv, ThreadsOK, RequestsOK, Live, Doomed, Threads, Spawning, Running, Check, Return, Live, workers, requests
<1>23. ASSUME UNCHANGED workerVars PROVE GoneInv'
  BY <1>23 DEF GoneInv, ThreadsOK, RequestsOK, Live, Doomed, Threads, Spawning, Running, workerVars, workers, requests
<1> QED
  BY <1>1, <1>2, <1>3, <1>4, <1>5, <1>6, <1>7, <1>8, <1>9, <1>10, <1>11, <1>12,
     <1>13, <1>14, <1>15, <1>16, <1>17, <1>18, <1>19, <1>20, <1>21, <1>22, <1>23
     DEF Next, WorkerStep, Spawn, Thread, Loop, Handle, Leave, Respond

LEMMA SentStep == WorkerTypeOK /\ SentInv /\ [Next]_workerVars => SentInv'
<1> SUFFICES ASSUME WorkerTypeOK, SentInv, [Next]_workerVars PROVE SentInv'
  OBVIOUS
<1> USE DEF WorkerTypeOK
<1>1. ASSUME NEW w \in Workers, Reserve(w) PROVE SentInv'
  BY <1>1 DEF SentInv, Inside, Reserve, workers, requests
<1>2. ASSUME NEW w \in Workers, Refuse(w) PROVE SentInv'
  BY <1>2 DEF SentInv, Inside, Refuse, workers, requests
<1>3. ASSUME NEW w \in Workers, StartThread(w) PROVE SentInv'
  BY <1>3 DEF SentInv, Inside, StartThread, workers, requests
<1>4. ASSUME NEW w \in Workers, Build(w) PROVE SentInv'
  BY <1>4 DEF SentInv, Inside, Build, Goto, Publish, workers, requests
<1>5. ASSUME NEW w \in Workers, BuildFails(w) PROVE SentInv'
  BY <1>5 DEF SentInv, Inside, BuildFails, Goto, workers, requests
<1>6. ASSUME NEW w \in Workers, TakeJob(w) PROVE SentInv'
  <2>1. \A v \in Workers : Inside(v)' \subseteq Inside(v)
    BY <1>6, ToSetFacts DEF Inside, QueuesOK, TakeJob, Goto
  <2> QED
    BY <1>6, <2>1 DEF SentInv, TakeJob, requests
<1>7. ASSUME NEW w \in Workers, Answer(w) PROVE SentInv'
  <2>1. \A v \in Workers : Inside(v)' \subseteq Inside(v)
    BY <1>7, ToSetFacts DEF Inside, QueuesOK, Answer, Goto
  <2> QED
    BY <1>7, <2>1 DEF SentInv, Answer, requests
<1>8. ASSUME NEW w \in Workers, Stick(w) PROVE SentInv'
  BY <1>8 DEF SentInv, Inside, Stick, Goto, workers, requests
<1>9. ASSUME NEW w \in Workers, Panic(w) PROVE SentInv'
  <2>1. \A v \in Workers : Inside(v)' \subseteq Inside(v)
    BY <1>9, ToSetFacts DEF Inside, QueuesOK, Panic, Goto
  <2> QED
    BY <1>9, <2>1 DEF SentInv, Panic, requests
<1>10. ASSUME NEW w \in Workers, PublishPanic(w) PROVE SentInv'
  BY <1>10 DEF SentInv, Inside, PublishPanic, Goto, Publish, workers, requests
<1>11. ASSUME NEW w \in Workers, Hangup(w) PROVE SentInv'
  BY <1>11 DEF SentInv, Inside, Hangup, Goto, workers, requests
<1>12. ASSUME NEW w \in Workers, PublishClosing(w) PROVE SentInv'
  BY <1>12 DEF SentInv, Inside, PublishClosing, Goto, Publish, workers, requests
<1>13. ASSUME NEW w \in Workers, Exit(w) PROVE SentInv'
  <2>1. \A v \in Workers : Inside(v)' \subseteq Inside(v)
    BY <1>13, ToSetFacts DEF Inside, QueuesOK, Exit, Goto
  <2> QED
    BY <1>13, <2>1 DEF SentInv, Exit, requests
<1>14. ASSUME NEW w \in Workers, Release(w) PROVE SentInv'
  BY <1>14 DEF SentInv, Inside, Release, workers, requests
<1>15. ASSUME NEW c \in Clients, Enqueue(c) PROVE SentInv'
  <2>1. Asks(c) \in Command
    BY <1>15 DEF Enqueue, Asks, Command, RequestsOK
  <2>2. \A v \in Workers : Inside(v)' = Inside(v) \cup IF v = at[c] THEN {Asks(c)} ELSE {}
    <3>1. ToSet(Append(queue[at[c]], Asks(c))) = ToSet(queue[at[c]]) \cup {Asks(c)}
      <4>1. queue[at[c]] \in Seq(Command)
        BY <1>15 DEF QueuesOK, RequestsOK
      <4> QED
        BY <4>1, ToSetAppend
    <3> QED
      BY <1>15, <3>1 DEF Inside, QueuesOK, RequestsOK, Enqueue
  <2>3. Asks(c).from = c /\ Asks(c).no = calls[c] /\ calls[c] \in Nat /\ UNCHANGED <<calls, at>>
    BY <1>15 DEF Asks, RequestsOK, Enqueue
  <2> QED
    BY <2>1, <2>2, <2>3 DEF SentInv, RequestsOK
<1>16. ASSUME NEW c \in Clients, Busy(c) PROVE SentInv'
  BY <1>16 DEF SentInv, Inside, Busy, Return, workers, requests
<1>17. ASSUME NEW c \in Clients, Closed(c) PROVE SentInv'
  BY <1>17 DEF SentInv, Inside, Closed, Publish, Return, workers, requests
<1>18. ASSUME NEW c \in Clients, Timeout(c) PROVE SentInv'
  BY <1>18 DEF SentInv, Inside, Timeout, Publish, Return, Overdue, CapacityOverdue, workers, requests
<1>19. ASSUME NEW c \in Clients, SeePanic(c) PROVE SentInv'
  BY <1>19 DEF SentInv, Inside, SeePanic, Return, workers, requests
<1>20. ASSUME NEW c \in Clients, GivePollsUp(c) PROVE SentInv'
  BY <1>20 DEF SentInv, Inside, GivePollsUp, Return, workers, requests
<1>21. ASSUME NEW c \in Clients, Finish(c) PROVE SentInv'
  BY <1>21 DEF SentInv, Inside, Finish, workers, requests
<1>22. ASSUME NEW c \in Clients, NEW w \in Workers, NEW k \in Kinds, Check(c, w, k) PROVE SentInv'
  <2>1. \A v \in Workers : Inside(v)' = Inside(v)
    BY <1>22 DEF Inside, Check, workers
  <2>2. \A b \in Clients : calls'[b] = (IF b = c THEN calls[b] + 1 ELSE calls[b]) /\ calls[b] \in Nat
    BY <1>22 DEF Check, RequestsOK
  <2>3. \A b \in Clients \ {c} : at'[b] = at[b]
    BY <1>22 DEF Check, RequestsOK
  <2>4. \A cmd \in Command : cmd.from \in Clients /\ cmd.no \in Nat
    BY DEF Command
  <2> QED
    BY <2>1, <2>2, <2>3, <2>4 DEF SentInv
<1>23. ASSUME UNCHANGED workerVars PROVE SentInv'
  BY <1>23 DEF SentInv, Inside, workerVars, workers, requests
<1> QED
  BY <1>1, <1>2, <1>3, <1>4, <1>5, <1>6, <1>7, <1>8, <1>9, <1>10, <1>11, <1>12,
     <1>13, <1>14, <1>15, <1>16, <1>17, <1>18, <1>19, <1>20, <1>21, <1>22, <1>23
     DEF Next, WorkerStep, Spawn, Thread, Loop, Handle, Leave, Respond

----------------------------------------------------------------------------
Inv == WorkerTypeOK /\ SlotsInv /\ SentInv /\ GoneInv

LEMMA InitInv == Init => Inv
<1> SUFFICES ASSUME Init PROVE Inv
  OBVIOUS
<1>1. ThreadsOK /\ QueuesOK
  BY LuaWorkerAssumption DEF Init, ThreadsOK, QueuesOK, Threads, Spawning, Running, States
<1>2. RequestsOK
  BY LuaWorkerAssumption DEF Init, RequestsOK, Kinds
<1>3. Holding = {} /\ Taken = {}
  BY DEF Init, Holding, Taken, Spawning, Running
<1>4. SlotsInv
  BY <1>3, FS_EmptySet, LuaWorkerAssumption DEF Init, SlotsInv
<1>5. \A w \in Workers : Inside(w) = {}
  BY DEF Init, Inside, ToSet
<1>6. SentInv
  BY <1>5 DEF SentInv
<1>7. GoneInv
  BY DEF Init, GoneInv
<1> QED
  BY <1>1, <1>2, <1>4, <1>6, <1>7 DEF Inv, WorkerTypeOK

LEMMA StepInv == Inv /\ [Next]_workerVars => Inv'
BY TypeStep, SlotsStep, SentStep, GoneStep DEF Inv

\* Every state of the workers and the requests is well typed, and a channel never holds
\* more commands than WORKER_QUEUE_CAP.
THEOREM TypeCorrect == Spec => []WorkerTypeOK
<1>1. Inv => WorkerTypeOK
  BY DEF Inv
<1> QED
  BY InitInv, StepInv, <1>1, PTL DEF Spec

\* WORKER_COUNT counts the threads and the unsettled spawns, and there are never more
\* than MAX_WORKER_THREADS threads, whatever spawns race and however threads end.
THEOREM SlotsAreCounted == Spec => []SlotsMatchThreads
<1>1. Inv => SlotsMatchThreads
  <2> SUFFICES ASSUME Inv PROVE SlotsMatchThreads
    OBVIOUS
  <2>1. {w \in Workers : thread[w] \in Running} \subseteq Taken
    BY DEF Taken
  <2>2. Cardinality({w \in Workers : thread[w] \in Running}) <= Cardinality(Taken)
    BY <2>1, SetsFinite, FS_Subset DEF Inv, WorkerTypeOK
  <2>3. Cardinality({w \in Workers : thread[w] \in Running}) \in Nat
    BY <2>1, SetsFinite, FS_Subset, FS_CardinalityType DEF Inv, WorkerTypeOK
  <2> QED
    BY <2>2, <2>3, SetsFinite, LuaWorkerAssumption DEF Inv, WorkerTypeOK, SlotsInv, SlotsMatchThreads
<1> QED
  BY InitInv, StepInv, <1>1, PTL DEF Spec

\* A step by which a request ends as dead leaves a worker that is_usable denies.
FailureStep ==
  \A c \in Clients :
    (pc[c] # "done" /\ pc'[c] = "done" /\ result'[c] = "dead") => ~Usable(at[c])'

LEMMA FailureShown == Inv /\ [Next]_workerVars => FailureStep
<1> SUFFICES ASSUME Inv, [Next]_workerVars PROVE FailureStep
  OBVIOUS
<1> USE DEF Inv, WorkerTypeOK
<1>1. ASSUME NEW w \in Workers, Reserve(w) PROVE FailureStep
  BY <1>1 DEF FailureStep, Usable, Live, RequestsOK, ThreadsOK, Reserve, workers, requests
<1>2. ASSUME NEW w \in Workers, Refuse(w) PROVE FailureStep
  BY <1>2 DEF FailureStep, Usable, Live, RequestsOK, ThreadsOK, Refuse, workers, requests
<1>3. ASSUME NEW w \in Workers, StartThread(w) PROVE FailureStep
  BY <1>3 DEF FailureStep, Usable, Live, RequestsOK, ThreadsOK, StartThread, workers, requests
<1>4. ASSUME NEW w \in Workers, Build(w) PROVE FailureStep
  BY <1>4 DEF FailureStep, Usable, Live, RequestsOK, ThreadsOK, Build, Goto, Publish, workers, requests
<1>5. ASSUME NEW w \in Workers, BuildFails(w) PROVE FailureStep
  BY <1>5 DEF FailureStep, Usable, Live, RequestsOK, ThreadsOK, BuildFails, Goto, workers, requests
<1>6. ASSUME NEW w \in Workers, TakeJob(w) PROVE FailureStep
  BY <1>6 DEF FailureStep, Usable, Live, RequestsOK, ThreadsOK, TakeJob, Goto, workers, requests
<1>7. ASSUME NEW w \in Workers, Answer(w) PROVE FailureStep
  BY <1>7 DEF FailureStep, Usable, Live, RequestsOK, ThreadsOK, Answer, Goto, Reply, Reaches, workers, requests
<1>8. ASSUME NEW w \in Workers, Stick(w) PROVE FailureStep
  BY <1>8 DEF FailureStep, Usable, Live, RequestsOK, ThreadsOK, Stick, Goto, workers, requests
<1>9. ASSUME NEW w \in Workers, Panic(w) PROVE FailureStep
  BY <1>9 DEF FailureStep, Usable, Live, RequestsOK, ThreadsOK, Panic, Goto, DropOneshots, Reaches, workers, requests
<1>10. ASSUME NEW w \in Workers, PublishPanic(w) PROVE FailureStep
  BY <1>10 DEF FailureStep, Usable, Live, RequestsOK, ThreadsOK, PublishPanic, Goto, Publish, workers, requests
<1>11. ASSUME NEW w \in Workers, Hangup(w) PROVE FailureStep
  BY <1>11 DEF FailureStep, Usable, Live, RequestsOK, ThreadsOK, Hangup, Goto, workers, requests
<1>12. ASSUME NEW w \in Workers, PublishClosing(w) PROVE FailureStep
  BY <1>12 DEF FailureStep, Usable, Live, RequestsOK, ThreadsOK, PublishClosing, Goto, Publish, workers, requests
<1>13. ASSUME NEW w \in Workers, Exit(w) PROVE FailureStep
  BY <1>13 DEF FailureStep, Usable, Live, RequestsOK, ThreadsOK, Exit, Goto, Publish, DropOneshots, Reaches, workers, requests
<1>14. ASSUME NEW w \in Workers, Release(w) PROVE FailureStep
  BY <1>14 DEF FailureStep, Usable, Live, RequestsOK, ThreadsOK, Release, workers, requests
<1>15. ASSUME NEW c \in Clients, Enqueue(c) PROVE FailureStep
  BY <1>15 DEF FailureStep, Usable, Live, RequestsOK, ThreadsOK, Enqueue, HasRoom, Asks, workers, requests
<1>16. ASSUME NEW c \in Clients, Busy(c) PROVE FailureStep
  BY <1>16 DEF FailureStep, Usable, Live, RequestsOK, ThreadsOK, Busy, Return, workers, requests
<1>17. ASSUME NEW c \in Clients, Closed(c) PROVE FailureStep
  BY <1>17 DEF FailureStep, Usable, Live, RequestsOK, ThreadsOK, Closed, Publish, Return, workers, requests
<1>18. ASSUME NEW c \in Clients, Timeout(c) PROVE FailureStep
  BY <1>18 DEF FailureStep, Usable, Live, RequestsOK, ThreadsOK, Timeout, Publish, Return, Overdue, CapacityOverdue, workers, requests
<1>19. ASSUME NEW c \in Clients, SeePanic(c) PROVE FailureStep
  BY <1>19 DEF FailureStep, Usable, Live, RequestsOK, ThreadsOK, SeePanic, Return, workers, requests
<1>20. ASSUME NEW c \in Clients, GivePollsUp(c) PROVE FailureStep
  <2>1. thread[at[c]] \in {"panicked", "gone"}
    BY <1>20 DEF GivePollsUp, GoneInv, Doomed
  <2>2. ~open[at[c]] \/ ~Live(at[c])
    BY <1>20, <2>1 DEF GoneInv, RequestsOK, Running
  <2> QED
    BY <1>20, <2>2 DEF GivePollsUp, Return, FailureStep, Usable, Live, RequestsOK, workers
<1>21. ASSUME NEW c \in Clients, Finish(c) PROVE FailureStep
  BY <1>21 DEF FailureStep, Usable, Live, RequestsOK, ThreadsOK, Finish, workers, requests
<1>22. ASSUME NEW c \in Clients, NEW w \in Workers, NEW k \in Kinds, Check(c, w, k) PROVE FailureStep
  BY <1>22 DEF FailureStep, Usable, Live, RequestsOK, ThreadsOK, Check, Return, Live, workers, requests
<1>23. ASSUME UNCHANGED workerVars PROVE FailureStep
  BY <1>23 DEF FailureStep, Usable, Live, RequestsOK, ThreadsOK, workerVars, workers, requests
<1> QED
  BY <1>1, <1>2, <1>3, <1>4, <1>5, <1>6, <1>7, <1>8, <1>9, <1>10, <1>11, <1>12,
     <1>13, <1>14, <1>15, <1>16, <1>17, <1>18, <1>19, <1>20, <1>21, <1>22, <1>23
     DEF Next, WorkerStep, Spawn, Thread, Loop, Handle, Leave, Respond

\* Whoever is told that a worker is dead finds a worker that is not usable: a timeout has
\* written Wedged, a channel without a receiver Closed, and an oneshot is only dropped by a
\* thread that ends or unwinds.
THEOREM FailureIsShown == Spec => FailureShowsInState
<1>1. FailureStep => \A c \in Clients :
        (pc[c] # "done" /\ pc'[c] = "done" /\ result'[c] = "dead") => ~Usable(at[c])'
  BY DEF FailureStep
<1> QED
  BY InitInv, StepInv, FailureShown, <1>1, PTL DEF Spec, FailureShowsInState

----------------------------------------------------------------------------
(* LuaWorker implements WorkerCalls.                                        *)

Calls == Promise!Calls

\* A call is in one place at most, and only once it has been made; whoever still waits has
\* been told nothing.
DistinctInv ==
  \A w \in Workers : \A i, j \in DOMAIN queue[w] :
    CallOf(queue[w][i]) = CallOf(queue[w][j]) => i = j
ApartInv ==
  \A w, v \in Workers :
    /\ Sent[w] \cap Runs[v] = {}
    /\ w # v => Sent[w] \cap Sent[v] = {} /\ Runs[w] \cap Runs[v] = {}
MadeInv == \A w \in Workers : \A k \in Sent[w] \cup Runs[w] : Made(k)
SilentInv == \A c \in Clients : pc[c] # "done" => result[c] = "none"

CallsInv == DistinctInv /\ ApartInv /\ MadeInv /\ SilentInv

LEMMA CallFacts ==
  ASSUME WorkerTypeOK
  PROVE  /\ Sent \in [Workers -> SUBSET Calls] /\ Runs \in [Workers -> SUBSET Calls]
         /\ \A cmd \in Command : CallOf(cmd) \in Calls
         /\ \A w \in Workers : queue[w] \in Seq(Command) /\ job[w] \in Seq(Command)
         /\ \A w \in Workers : \A k : k \in Sent[w] <=> \E i \in DOMAIN queue[w] : k = CallOf(queue[w][i])
         /\ \A w \in Workers : \A k : k \in Runs[w] <=> \E i \in DOMAIN job[w] : k = CallOf(job[w][i])
<1>1. \A cmd \in Command : CallOf(cmd) \in Calls
  BY DEF Command, CallOf, Calls, Promise!Calls
<1>2. \A w \in Workers : queue[w] \in Seq(Command) /\ job[w] \in Seq(Command)
  BY DEF WorkerTypeOK, QueuesOK
<1>3. \A w \in Workers : \A cmd \in ToSet(queue[w]) \cup ToSet(job[w]) : cmd \in Command
  BY <1>2 DEF ToSet
<1>4. /\ Sent \in [Workers -> SUBSET Calls] /\ Runs \in [Workers -> SUBSET Calls]
  BY <1>1, <1>3 DEF Sent, Runs
<1>5. ASSUME NEW w \in Workers, NEW k
      PROVE  /\ k \in Sent[w] <=> \E i \in DOMAIN queue[w] : k = CallOf(queue[w][i])
             /\ k \in Runs[w] <=> \E i \in DOMAIN job[w] : k = CallOf(job[w][i])
  BY DEF Sent, Runs, ToSet
<1> QED
  BY <1>1, <1>2, <1>4, <1>5

\* The call a client is about to send, or has sent last.
Own(c) == [from |-> c, no |-> calls[c]]

LEMMA OwnFacts ==
  ASSUME WorkerTypeOK, NEW c \in Clients
  PROVE  /\ calls[c] \in Nat /\ Own(c).from = c /\ Own(c).no = calls[c]
         /\ calls[c] \in 1..MaxCalls => Own(c) \in Calls
         /\ \A k \in Calls : k.from \in Clients /\ k.no \in Nat /\ k.no >= 1 /\ k.no <= MaxCalls
         /\ \A k \in Calls : k.from = c /\ k.no = calls[c] => k = Own(c)
         /\ Made(Own(c)) <=> pc[c] # "checked"
<1>1. calls[c] \in Nat
  BY LuaWorkerAssumption DEF WorkerTypeOK, RequestsOK
<1> QED
  BY <1>1, LuaWorkerAssumption DEF Own, Calls, Promise!Calls, Made

LEMMA FreshIsUnmade ==
  ASSUME WorkerTypeOK, CallsInv, NEW k \in Calls
  PROVE  /\ Promise!Fresh(k) <=> ~Made(k)
         /\ k.no >= calls[k.from] => Promise!IsLast(k)
<1>1. ASSUME NEW other \in Calls PROVE Promise!Fresh(other) <=> ~Made(other)
  <2>1. \A w \in Workers : other \in Sent[w] \cup Runs[w] => Made(other)
    BY DEF CallsInv, MadeInv
  <2>2. other \in Over <=> Made(other) /\ \A w \in Workers : other \notin Sent[w] \cup Runs[w]
    BY DEF Over, Calls, Promise!Calls
  <2> QED
    BY <2>1, <2>2 DEF Promise!Fresh
<1>2. ASSUME k.no >= calls[k.from] PROVE Promise!IsLast(k)
  <2>1. k.from \in Clients /\ k.no \in Nat /\ \A other \in Calls : other.no \in Nat
    BY LuaWorkerAssumption DEF Calls, Promise!Calls
  <2>2. calls[k.from] \in Nat
    BY <2>1, OwnFacts
  <2>3. \A other \in Calls : other.from = k.from /\ other.no > k.no => ~Made(other)
    BY <1>2, <2>1, <2>2 DEF Made
  <2> QED
    BY <1>1, <2>3 DEF Promise!IsLast, Calls
<1> QED
  BY <1>1, <1>2

LEMMA CallsStart == Init => CallsInv /\ Promise!Init
<1> SUFFICES ASSUME Init PROVE CallsInv /\ Promise!Init
  OBVIOUS
<1>1. Sent = [w \in Workers |-> {}] /\ Runs = [w \in Workers |-> {}]
  BY DEF Init, Sent, Runs, ToSet
<1>2. Over = {}
  BY DEF Init, Over, Made
<1> QED
  BY <1>1, <1>2 DEF Init, Promise!Init, CallsInv, DistinctInv, ApartInv, MadeInv, SilentInv

----------------------------------------------------------------------------
(* What the steps do to the calls.                                          *)

\* Nothing is sent, begun or ended, and no call is made.
LEMMA CallsStay ==
  ASSUME WorkerTypeOK, CallsInv, UNCHANGED <<queue, job>>, \A k \in Calls : Made(k)' <=> Made(k),
         SilentInv'
  PROVE  CallsInv' /\ UNCHANGED <<Sent, Runs, Over>>
<1>1. Sent' = Sent /\ Runs' = Runs
  BY DEF Sent, Runs
<1>2. Over' = Over
  BY <1>1 DEF Over, Calls, Promise!Calls
<1>3. DistinctInv' /\ ApartInv'
  BY <1>1 DEF CallsInv, DistinctInv, ApartInv
<1>4. MadeInv'
  BY <1>1, CallFacts DEF CallsInv, MadeInv
<1> QED
  BY <1>1, <1>2, <1>3, <1>4 DEF CallsInv

LEMMA RequestsStay ==
  ASSUME WorkerTypeOK, CallsInv, UNCHANGED <<queue, job, requests>>
  PROVE  CallsInv' /\ UNCHANGED Promise!vars
<1>1. \A k \in Calls : Made(k)' <=> Made(k)
  BY DEF Made, requests
<1>2. SilentInv'
  BY DEF CallsInv, SilentInv, requests
<1> QED
  BY <1>1, <1>2, CallsStay DEF requests, Promise!vars

\* A client whose call is made but not answered is told that it will hear no more.
LEMMA GivesUp ==
  ASSUME WorkerTypeOK, CallsInv, NEW c \in Clients, pc[c] \in {"waiting", "polling"},
         Return(c, "dead"), UNCHANGED <<queue, job, calls>>
  PROVE  CallsInv' /\ Promise!GiveUp(c)
<1>1. /\ pc' = [pc EXCEPT ![c] = "done"] /\ result' = [result EXCEPT ![c] = "dead"]
      /\ result[c] = "none"
      /\ pc \in [Clients -> {"idle", "checked", "waiting", "polling", "done"}]
      /\ result \in [Clients -> {"none", "value", "error", "busy", "dead"}]
  BY DEF Return, CallsInv, SilentInv, WorkerTypeOK, RequestsOK
<1>2. \A d \in Clients : (pc'[d] = "checked") <=> (pc[d] = "checked")
  BY <1>1
<1>3. \A k \in Calls : Made(k)' <=> Made(k)
  BY <1>2, OwnFacts DEF Made
<1>4. SilentInv'
  BY <1>1 DEF CallsInv, SilentInv
<1> QED
  BY <1>1, <1>3, <1>4, CallsStay DEF Promise!GiveUp

\* A client is told at once what its call has come to, which is never sent.
LEMMA IsRefused ==
  ASSUME WorkerTypeOK, CallsInv, UNCHANGED <<queue, job>>, NEW c \in Clients,
         NEW k \in Calls, k.from = c, ~Made(k), k.no >= calls[c], pc[c] # "done",
         \A other \in Calls : Made(other)' <=> Made(other) \/ other = k,
         pc' = [pc EXCEPT ![c] = "done"],
         \E what \in {"busy", "dead"} : result' = [result EXCEPT ![c] = what]
  PROVE  CallsInv' /\ Promise!Refuse(k)
<1>1. Sent' = Sent /\ Runs' = Runs
  BY DEF Sent, Runs
<1>2. DistinctInv' /\ ApartInv'
  BY <1>1 DEF CallsInv, DistinctInv, ApartInv
<1>3. MadeInv'
  BY <1>1, CallFacts DEF CallsInv, MadeInv
<1>4. SilentInv'
  BY DEF CallsInv, SilentInv, WorkerTypeOK, RequestsOK
<1>5. \A w \in Workers : k \notin Sent[w] \cup Runs[w]
  BY DEF CallsInv, MadeInv
<1>6. Over' = Over \cup {k}
  BY <1>1, <1>5 DEF Over, Calls, Promise!Calls
<1>7. Promise!Fresh(k) /\ Promise!IsLast(k) /\ result[c] = "none"
  BY FreshIsUnmade DEF CallsInv, SilentInv
<1> QED
  BY <1>1, <1>2, <1>3, <1>4, <1>6, <1>7 DEF CallsInv, Promise!Refuse, Promise!ReturnTo

LEMMA EnqueueSends ==
  ASSUME WorkerTypeOK, CallsInv, NEW c \in Clients, Enqueue(c)
  PROVE  CallsInv' /\ Promise!Send(at[c], Own(c))
<1> DEFINE w == at[c]
           k == Own(c)
<1>1. /\ pc[c] = "checked" /\ w \in Workers /\ calls[c] \in 1..MaxCalls
      /\ queue' = [queue EXCEPT ![w] = Append(queue[w], Asks(c))]
      /\ pc' = [pc EXCEPT ![c] = "waiting"] /\ UNCHANGED <<job, calls, result>>
  BY DEF Enqueue, WorkerTypeOK, RequestsOK
<1>2. /\ k \in Calls /\ ~Made(k) /\ CallOf(Asks(c)) = k /\ Asks(c) \in Command
  BY <1>1, OwnFacts DEF CallOf, Asks, Own, Command, WorkerTypeOK, RequestsOK
<1>3. \A other \in Calls : Made(other)' <=> Made(other) \/ other = k
  <2>1. \A d \in Clients : pc'[d] = IF d = c THEN "waiting" ELSE pc[d]
    BY <1>1 DEF WorkerTypeOK, RequestsOK
  <2> QED
    BY <1>1, <2>1, OwnFacts DEF Made
<1>4. \A v \in Workers : k \notin Sent[v] \cup Runs[v]
  BY <1>2 DEF CallsInv, MadeInv
<1>5. /\ DOMAIN queue'[w] = 1..(Len(queue[w]) + 1) /\ DOMAIN queue[w] = 1..Len(queue[w])
      /\ Len(queue[w]) \in Nat
      /\ \A i \in DOMAIN queue[w] : queue'[w][i] = queue[w][i]
      /\ queue'[w][Len(queue[w]) + 1] = Asks(c)
      /\ \A v \in Workers \ {w} : queue'[v] = queue[v]
  <2>1. queue[w] \in Seq(Command) /\ queue'[w] = Append(queue[w], Asks(c))
    BY <1>1, CallFacts DEF WorkerTypeOK, QueuesOK
  <2> QED
    BY <1>1, <1>2, <2>1 DEF WorkerTypeOK, QueuesOK
<1>6. Sent' = [Sent EXCEPT ![w] = Sent[w] \cup {k}]
  <2>1. ToSet(queue'[w]) = ToSet(queue[w]) \cup {Asks(c)}
    BY <1>1, CallFacts, ToSetAppend DEF WorkerTypeOK, QueuesOK
  <2>2. Sent'[w] = Sent[w] \cup {k} /\ \A v \in Workers \ {w} : Sent'[v] = Sent[v]
    BY <1>1, <1>2, <1>5, <2>1 DEF Sent
  <2>3. Sent' = [v \in Workers |-> Sent'[v]] /\ Sent = [v \in Workers |-> Sent[v]]
    BY DEF Sent
  <2> QED
    BY <2>2, <2>3
<1>7. Runs' = Runs
  BY <1>1 DEF Runs
<1>8. \A v \in Workers : Sent'[v] = IF v = w THEN Sent[v] \cup {k} ELSE Sent[v]
  BY <1>6, CallFacts
<1>9. DistinctInv'
  <2> SUFFICES ASSUME NEW v \in Workers, NEW i \in DOMAIN queue'[v], NEW j \in DOMAIN queue'[v],
                      CallOf(queue'[v][i]) = CallOf(queue'[v][j])
               PROVE  i = j
    BY DEF DistinctInv, CallOf
  <2>1. CASE v # w
    BY <1>5, <2>1 DEF CallsInv, DistinctInv
  <2>2. CASE v = w
    <3>1. \A l \in DOMAIN queue[w] : CallOf(queue[w][l]) # k
      BY <1>1, <1>4, CallFacts
    <3>2. \A l \in DOMAIN queue'[w] : l \in DOMAIN queue[w] \/ l = Len(queue[w]) + 1
      BY <1>5
    <3> QED
      BY <1>1, <1>2, <1>5, <2>2, <3>1, <3>2 DEF CallsInv, DistinctInv
  <2> QED
    BY <2>1, <2>2
<1>p. k \in Calls /\ w \in Workers
  BY <1>1, <1>2
<1> HIDE DEF k, w
<1>10. ApartInv'
  BY <1>4, <1>7, <1>8 DEF CallsInv, ApartInv
<1>11. MadeInv'
  <2> SUFFICES ASSUME NEW v \in Workers, NEW call \in Sent'[v] \cup Runs'[v] PROVE Made(call)'
    BY DEF MadeInv, Made
  <2>1. call \in Sent[v] \cup Runs[v] \/ call = k
    BY <1>7, <1>8
  <2>2. call \in Calls /\ (Made(call) \/ call = k)
    BY <1>p, <2>1, CallFacts DEF CallsInv, MadeInv
  <2> QED
    BY <1>3, <2>2
<1>12. SilentInv'
  BY <1>1 DEF CallsInv, SilentInv, WorkerTypeOK, RequestsOK, w
<1>13. Over' = Over
  <2>1. ASSUME NEW call \in Calls
        PROVE  /\ Made(call)' <=> Made(call) \/ call = k
               /\ (\A v \in Workers : call \notin Sent'[v] \cup Runs'[v])
                    <=> (\A v \in Workers : call \notin Sent[v] \cup Runs[v]) /\ call # k
    BY <1>p, <1>3, <1>7, <1>8
  <2> QED
    BY <1>2, <2>1 DEF Over, Calls, Promise!Calls
<1> QED
  BY <1>1, <1>2, <1>6, <1>7, <1>9, <1>10, <1>11, <1>12, <1>13, FreshIsUnmade
  DEF CallsInv, Promise!Send, k, w

LEMMA TakeJobBegins ==
  ASSUME WorkerTypeOK, CallsInv, NEW w \in Workers, TakeJob(w)
  PROVE  CallsInv' /\ \E k \in Calls : Promise!Begin(w, k)
<1> DEFINE q == queue[w]
           k == CallOf(q[1])
<1>1. /\ q # <<>> /\ q \in Seq(Command) /\ job[w] = <<>>
      /\ queue' = [queue EXCEPT ![w] = Tail(q)] /\ job' = [job EXCEPT ![w] = <<q[1]>>]
      /\ UNCHANGED requests
  <2>1. /\ q # <<>> /\ thread[w] = "idle"
        /\ queue' = [queue EXCEPT ![w] = Tail(q)] /\ job' = [job EXCEPT ![w] = <<Head(q)>>]
        /\ UNCHANGED requests
    BY DEF TakeJob
  <2>2. q \in Seq(Command) /\ job[w] = <<>>
    BY <2>1 DEF WorkerTypeOK, QueuesOK
  <2>3. Head(q) = q[1]
    BY <2>1, <2>2
  <2> QED
    BY <2>1, <2>2, <2>3
<1>2. /\ Len(q) \in Nat /\ DOMAIN q = 1..Len(q) /\ 1 \in DOMAIN q /\ q[1] \in Command
      /\ DOMAIN Tail(q) = 1..(Len(q) - 1) /\ \A i \in DOMAIN Tail(q) : Tail(q)[i] = q[i + 1]
  BY <1>1
<1>3. /\ queue'[w] = Tail(q) /\ job'[w] = <<q[1]>>
      /\ \A v \in Workers \ {w} : queue'[v] = queue[v] /\ job'[v] = job[v]
  BY <1>1 DEF WorkerTypeOK, QueuesOK
<1> HIDE DEF q
<1>4. /\ k \in Calls
      /\ \A call : call \in Sent[w] <=> \E i \in DOMAIN q : call = CallOf(q[i])
      /\ \A i, j \in DOMAIN q : CallOf(q[i]) = CallOf(q[j]) => i = j
  BY <1>2, CallFacts DEF CallsInv, DistinctInv, q
<1>5. \A call : (\E i \in DOMAIN Tail(q) : call = CallOf(Tail(q)[i]))
                  <=> (\E i \in DOMAIN q : i # 1 /\ call = CallOf(q[i]))
  <2>1. \A i \in DOMAIN Tail(q) : i + 1 \in DOMAIN q /\ i + 1 # 1 /\ Tail(q)[i] = q[i + 1]
    BY <1>2
  <2>2. \A i \in DOMAIN q : i # 1 =>
          i - 1 \in DOMAIN Tail(q) /\ Tail(q)[i - 1] = q[i]
    BY <1>2
  <2> QED
    BY <2>1, <2>2
<1>6. Sent'[w] = Sent[w] \ {k} /\ k \in Sent[w]
  <2>1. \A call : call \in Sent'[w] <=> \E i \in DOMAIN Tail(q) : call = CallOf(Tail(q)[i])
    BY <1>3 DEF Sent, ToSet
  <2> QED
    BY <1>2, <1>4, <1>5, <2>1
<1>7. Runs[w] = {} /\ Runs'[w] = {k}
  <2>1. ToSet(job[w]) = {} /\ ToSet(job'[w]) = {q[1]}
    BY <1>1, <1>2, <1>3, ToSetFacts
  <2> QED
    BY <2>1 DEF Runs
<1>8. \A v \in Workers \ {w} : Sent'[v] = Sent[v] /\ Runs'[v] = Runs[v]
  BY <1>3 DEF Sent, Runs
<1>9. /\ Sent' = [Sent EXCEPT ![w] = Sent[w] \ {k}]
      /\ Runs' = [Runs EXCEPT ![w] = {k}]
  <2>1. /\ Sent' = [v \in Workers |-> Sent'[v]] /\ Sent = [v \in Workers |-> Sent[v]]
        /\ Runs' = [v \in Workers |-> Runs'[v]] /\ Runs = [v \in Workers |-> Runs[v]]
    BY DEF Sent, Runs
  <2> QED
    BY <1>6, <1>7, <1>8, <2>1
<1> HIDE DEF k
<1>10. \A call \in Calls : Made(call)' <=> Made(call)
  BY <1>1 DEF Made, requests
<1>11. DistinctInv'
  <2> SUFFICES ASSUME NEW v \in Workers, NEW i \in DOMAIN queue'[v], NEW j \in DOMAIN queue'[v],
                      CallOf(queue'[v][i]) = CallOf(queue'[v][j])
               PROVE  i = j
    BY DEF DistinctInv, CallOf
  <2>1. CASE v # w
    BY <1>3, <2>1 DEF CallsInv, DistinctInv
  <2>2. CASE v = w
    <3>1. /\ i \in 1..(Len(q) - 1) /\ j \in 1..(Len(q) - 1)
          /\ queue'[v][i] = q[i + 1] /\ queue'[v][j] = q[j + 1]
      BY <1>2, <1>3, <2>2
    <3>2. i + 1 \in DOMAIN q /\ j + 1 \in DOMAIN q
      BY <1>2, <3>1
    <3>3. i + 1 = j + 1
      BY <1>4, <3>1, <3>2
    <3> QED
      BY <3>1, <3>3
  <2> QED
    BY <2>1, <2>2
<1>12. ApartInv'
  BY <1>6, <1>7, <1>8 DEF CallsInv, ApartInv
<1>13. MadeInv'
  BY <1>4, <1>6, <1>7, <1>8, <1>10, CallFacts DEF CallsInv, MadeInv
<1>14. SilentInv'
  BY <1>1 DEF CallsInv, SilentInv, requests
<1>15. Over' = Over
  BY <1>6, <1>7, <1>8, <1>10 DEF Over, Calls, Promise!Calls
<1> QED
  BY <1>1, <1>4, <1>6, <1>7, <1>9, <1>11, <1>12, <1>13, <1>14, <1>15
  DEF CallsInv, Promise!Begin, requests

\* The end of an execution, of which the caller hears what or nothing.
LEMMA CallEnds ==
  ASSUME WorkerTypeOK, CallsInv, NEW w \in Workers, thread[w] = "busy",
         job' = [job EXCEPT ![w] = <<>>], UNCHANGED <<queue, calls>>,
         \A c \in Clients : pc'[c] = "checked" <=> pc[c] = "checked",
         \A c \in Clients : pc'[c] # "done" => result'[c] = result[c] /\ pc[c] # "done",
         \/ UNCHANGED result
         \/ \E what \in {"value", "error"} :
              result' = [c \in Clients |-> IF Reaches(ToSet(job[w]), c) THEN what ELSE result[c]]
  PROVE  CallsInv' /\ \E k \in Calls : Promise!End(w, k)
<1>1. job[w] \in Seq(Command) /\ Len(job[w]) = 1
  BY DEF WorkerTypeOK, QueuesOK
<1> DEFINE cmd == job[w][1]
           k == CallOf(cmd)
<1>2. cmd \in Command /\ ToSet(job[w]) = {cmd} /\ k \in Calls
  <2>1. DOMAIN job[w] = {1} /\ job[w][1] \in Command
    BY <1>1
  <2> QED
    BY <2>1, CallFacts DEF ToSet
<1>3. /\ job'[w] = <<>> /\ ToSet(job'[w]) = {}
      /\ \A v \in Workers \ {w} : job'[v] = job[v]
  BY DEF WorkerTypeOK, QueuesOK, ToSet
<1>4. /\ Sent' = Sent /\ Runs[w] = {k} /\ Runs'[w] = {}
      /\ \A v \in Workers \ {w} : Runs'[v] = Runs[v]
  BY <1>2, <1>3 DEF Sent, Runs
<1>5. Runs' = [Runs EXCEPT ![w] = {}]
  <2>1. Runs' = [v \in Workers |-> Runs'[v]] /\ Runs = [v \in Workers |-> Runs[v]]
    BY DEF Runs
  <2> QED
    BY <1>4, <2>1
<1>6. k.from = cmd.from /\ k.no = cmd.no /\ cmd.from \in Clients
  BY <1>2 DEF CallOf, Command
<1> HIDE DEF cmd, k
<1>7. \A call \in Calls : Made(call)' <=> Made(call)
  <2>1. \A call \in Calls : call.from \in Clients
    BY DEF Calls, Promise!Calls
  <2> QED
    BY <2>1 DEF Made
<1>8. Made(k) /\ \A v \in Workers : k \notin Sent[v] /\ k \notin Runs'[v]
  BY <1>4 DEF CallsInv, MadeInv, ApartInv
<1>9. Over' = Over \cup {k}
  <2>1. ASSUME NEW call \in Calls
        PROVE  (\A v \in Workers : call \notin Sent'[v] \cup Runs'[v])
                 <=> (\A v \in Workers : call \notin Sent[v] \cup Runs[v]) \/ call = k
    BY <1>4, <1>8
  <2> QED
    BY <1>2, <1>7, <1>8, <2>1 DEF Over, Calls, Promise!Calls
<1>10. DistinctInv' /\ ApartInv'
  BY <1>4 DEF CallsInv, DistinctInv, ApartInv
<1>11. MadeInv'
  <2> SUFFICES ASSUME NEW v \in Workers, NEW call \in Sent'[v] \cup Runs'[v] PROVE Made(call)'
    BY DEF MadeInv, Made
  <2>1. call \in Sent[v] \cup Runs[v]
    BY <1>4
  <2> QED
    BY <1>7, <2>1, CallFacts DEF CallsInv, MadeInv
<1>12. SilentInv'
  BY DEF CallsInv, SilentInv
<1>13. UNCHANGED result \/ \E what \in {"value", "error"} : Promise!ReturnTo(k, what)
  <2> SUFFICES ASSUME ~UNCHANGED result, NEW what \in {"value", "error"},
                      result' = [c \in Clients |->
                                   IF Reaches({cmd}, c) THEN what ELSE result[c]]
               PROVE  Promise!ReturnTo(k, what)
    BY <1>2
  <2>1. result = [c \in Clients |-> result[c]]
    BY DEF WorkerTypeOK, RequestsOK
  <2>2. Reaches({cmd}, cmd.from)
    <3>1. PICK c \in Clients : Reaches({cmd}, c)
      BY <2>1
    <3> QED
      BY <3>1 DEF Reaches
  <2>3. \A c \in Clients : Reaches({cmd}, c) => c = cmd.from
    BY DEF Reaches
  <2>4. result' = [result EXCEPT ![k.from] = what]
    <3>1. ASSUME NEW c \in Clients PROVE Reaches({cmd}, c) <=> c = k.from
      <4>1. k.from = cmd.from
        BY <1>6
      <4>2. Reaches({cmd}, c) => c = cmd.from
        BY <2>3
      <4>3. c = cmd.from => Reaches({cmd}, c)
        BY <2>2
      <4> QED
        BY <4>1, <4>2, <4>3
    <3>2. result' = [c \in Clients |-> IF c = k.from THEN what ELSE result[c]]
      BY <3>1
    <3> QED
      BY <1>6, <2>1, <3>2
  <2>5. pc[k.from] = "waiting" /\ k.no = calls[k.from]
    BY <1>6, <2>2 DEF Reaches
  <2>6. Promise!IsLast(k)
    <3>1. k.from \in Clients /\ calls[k.from] \in Nat
      BY <1>6, OwnFacts
    <3> QED
      BY <1>2, <2>5, <3>1, FreshIsUnmade
  <2>7. result[k.from] = "none"
    BY <1>6, <2>5 DEF CallsInv, SilentInv
  <2> QED
    BY <2>4, <2>6, <2>7 DEF Promise!ReturnTo
<1> QED
  BY <1>2, <1>4, <1>5, <1>9, <1>10, <1>11, <1>12, <1>13 DEF CallsInv, Promise!End

LEMMA ExitDrops ==
  ASSUME WorkerTypeOK, CallsInv, NEW w \in Workers, Exit(w)
  PROVE  CallsInv' /\ Promise!Drop(w)
<1>1. /\ queue' = [queue EXCEPT ![w] = <<>>] /\ UNCHANGED <<job, calls, result>>
      /\ pc' = [c \in Clients |-> IF Reaches(ToSet(queue[w]), c) THEN "polling" ELSE pc[c]]
  BY DEF Exit, DropOneshots
<1>2. /\ queue'[w] = <<>> /\ ToSet(queue'[w]) = {}
      /\ \A v \in Workers \ {w} : queue'[v] = queue[v]
  BY <1>1 DEF WorkerTypeOK, QueuesOK, ToSet
<1>3. /\ Runs' = Runs /\ Sent'[w] = {}
      /\ \A v \in Workers \ {w} : Sent'[v] = Sent[v]
  BY <1>1, <1>2 DEF Sent, Runs
<1>4. Sent' = [Sent EXCEPT ![w] = {}]
  <2>1. Sent' = [v \in Workers |-> Sent'[v]] /\ Sent = [v \in Workers |-> Sent[v]]
    BY DEF Sent
  <2> QED
    BY <1>3, <2>1
<1>5. \A c \in Clients : pc'[c] = "checked" <=> pc[c] = "checked"
  BY <1>1 DEF Reaches
<1>6. \A call \in Calls : Made(call)' <=> Made(call)
  <2>1. \A call \in Calls : call.from \in Clients
    BY DEF Calls, Promise!Calls
  <2> QED
    BY <1>1, <1>5, <2>1 DEF Made
<1>7. \A call \in Sent[w] : call \in Calls /\ Made(call)
                            /\ \A v \in Workers : call \notin Sent'[v] \cup Runs'[v]
  BY <1>3, CallFacts DEF CallsInv, MadeInv, ApartInv
<1>8. Over' = Over \cup Sent[w]
  <2>1. ASSUME NEW call \in Calls
        PROVE  (\A v \in Workers : call \notin Sent'[v] \cup Runs'[v])
                 <=> (\A v \in Workers : call \notin Sent[v] \cup Runs[v]) \/ call \in Sent[w]
    BY <1>3, <1>7
  <2> QED
    BY <1>6, <1>7, <2>1 DEF Over, Calls, Promise!Calls
<1>9. DistinctInv'
  BY <1>2 DEF CallsInv, DistinctInv, CallOf
<1>10. ApartInv'
  BY <1>3 DEF CallsInv, ApartInv
<1>11. MadeInv'
  <2> SUFFICES ASSUME NEW v \in Workers, NEW call \in Sent'[v] \cup Runs'[v] PROVE Made(call)'
    BY DEF MadeInv, Made
  <2>1. call \in Sent[v] \cup Runs[v]
    BY <1>3
  <2> QED
    BY <1>6, <2>1, CallFacts DEF CallsInv, MadeInv
<1>12. SilentInv'
  BY <1>1 DEF CallsInv, SilentInv, Reaches
<1> QED
  BY <1>1, <1>3, <1>4, <1>8, <1>9, <1>10, <1>11, <1>12 DEF CallsInv, Promise!Drop

LEMMA CheckCalls ==
  ASSUME WorkerTypeOK, CallsInv, NEW c \in Clients, NEW w \in Workers, NEW kd \in Kinds,
         Check(c, w, kd)
  PROVE  CallsInv' /\ [Promise!Next]_(Promise!vars)
<1> DEFINE k == [from |-> c, no |-> calls[c] + 1]
<1>1. /\ pc[c] = "idle" /\ calls[c] \in Nat /\ calls[c] < MaxCalls
      /\ calls' = [calls EXCEPT ![c] = @ + 1] /\ UNCHANGED <<queue, job>>
  BY OwnFacts DEF Check, workers
<1>2. \A d \in Clients : calls'[d] = IF d = c THEN calls[c] + 1 ELSE calls[d]
  BY <1>1 DEF WorkerTypeOK, RequestsOK
<1>3. k \in Calls /\ ~Made(k) /\ k.from = c /\ k.no = calls[c] + 1
  BY <1>1, LuaWorkerAssumption DEF Calls, Promise!Calls, Made
<1>4. \A call \in Calls : call.from \in Clients /\ call.no \in Nat
                          /\ (call.from = c /\ call.no = calls[c] + 1 => call = k)
  BY LuaWorkerAssumption DEF Calls, Promise!Calls
<1> HIDE DEF k
<1>5. CASE Live(w)
  <2>1. pc' = [pc EXCEPT ![c] = "checked"] /\ UNCHANGED result
    BY <1>5 DEF Check
  <2>2. \A d \in Clients : pc'[d] = IF d = c THEN "checked" ELSE pc[d]
    BY <2>1 DEF WorkerTypeOK, RequestsOK
  <2>3. \A call \in Calls : Made(call)' <=> Made(call)
    BY <1>1, <1>2, <1>4, <2>2, OwnFacts DEF Made
  <2>4. SilentInv'
    BY <1>1, <2>1, <2>2 DEF CallsInv, SilentInv
  <2> QED
    BY <1>1, <2>1, <2>3, <2>4, CallsStay DEF Promise!vars
<1>6. CASE ~Live(w)
  <2>1. pc' = [pc EXCEPT ![c] = "done"] /\ result' = [result EXCEPT ![c] = "dead"]
    BY <1>6 DEF Check, Return
  <2>2. \A d \in Clients : pc'[d] = IF d = c THEN "done" ELSE pc[d]
    BY <2>1 DEF WorkerTypeOK, RequestsOK
  <2>3. \A call \in Calls : Made(call)' <=> Made(call) \/ call = k
    BY <1>1, <1>2, <1>3, <1>4, <2>2, OwnFacts DEF Made
  <2>4. k.no >= calls[c] /\ \E what \in {"busy", "dead"} : result' = [result EXCEPT ![c] = what]
    BY <1>1, <1>3, <2>1
  <2>5. CallsInv' /\ Promise!Refuse(k)
    BY <1>1, <1>3, <2>1, <2>3, <2>4, IsRefused
  <2> QED
    BY <1>3, <2>5 DEF Promise!Next, Calls
<1> QED
  BY <1>5, <1>6

\* A request that ends before its command is sent.
LEMMA UnsentIsRefused ==
  ASSUME WorkerTypeOK, CallsInv, NEW c \in Clients, pc[c] = "checked",
         NEW what \in {"busy", "dead"}, Return(c, what), UNCHANGED <<queue, job, calls>>
  PROVE  CallsInv' /\ Promise!Refuse(Own(c)) /\ Own(c) \in Calls
<1> DEFINE k == Own(c)
<1>1. /\ k \in Calls /\ ~Made(k) /\ k.from = c /\ k.no = calls[c] /\ calls[c] \in Nat
  BY OwnFacts DEF WorkerTypeOK, RequestsOK
<1>2. pc' = [pc EXCEPT ![c] = "done"] /\ result' = [result EXCEPT ![c] = what]
  BY DEF Return
<1>3. \A d \in Clients : pc'[d] = IF d = c THEN "done" ELSE pc[d]
  BY <1>2 DEF WorkerTypeOK, RequestsOK
<1>4. ASSUME NEW call \in Calls
      PROVE  call.from \in Clients /\ (call.from = c /\ call.no = calls[c] => call = k)
  BY OwnFacts
<1> HIDE DEF k
<1>5. \A call \in Calls : Made(call)' <=> Made(call) \/ call = k
  BY <1>1, <1>3, <1>4 DEF Made
<1>6. k.no >= calls[c] /\ pc[c] # "done"
  BY <1>1
<1>7. CallsInv' /\ Promise!Refuse(k)
  <2>1. \E new \in {"busy", "dead"} : result' = [result EXCEPT ![c] = new]
    BY <1>2, Zenon
  <2> QED
    BY <1>1, <1>2, <1>5, <1>6, <2>1, IsRefused
<1> QED
  BY <1>1, <1>7 DEF k

LEMMA CallsStep ==
  WorkerTypeOK /\ CallsInv /\ [Next]_workerVars => CallsInv' /\ [Promise!Next]_(Promise!vars)
<1> SUFFICES ASSUME WorkerTypeOK, CallsInv, [Next]_workerVars
             PROVE  CallsInv' /\ [Promise!Next]_(Promise!vars)
  OBVIOUS
<1>1. ASSUME UNCHANGED <<queue, job, requests>>
      PROVE  CallsInv' /\ [Promise!Next]_(Promise!vars)
  BY <1>1, RequestsStay
\* The thread.
<1>2. ASSUME NEW w \in Workers, Spawn(w) \/ Release(w) PROVE UNCHANGED <<queue, job, requests>>
  BY <1>2 DEF Spawn, Reserve, Refuse, StartThread, Release
<1>3. ASSUME NEW w \in Workers,
             \/ Build(w) \/ BuildFails(w) \/ Stick(w) \/ Hangup(w)
             \/ PublishPanic(w) \/ PublishClosing(w)
      PROVE  UNCHANGED <<queue, job, requests>>
  BY <1>3 DEF Build, BuildFails, Stick, Hangup, PublishPanic, PublishClosing
<1>4. ASSUME NEW w \in Workers, TakeJob(w) PROVE CallsInv' /\ Promise!Next
  BY <1>4, TakeJobBegins DEF Promise!Next, Calls
<1>5. ASSUME NEW w \in Workers, Answer(w) PROVE CallsInv' /\ Promise!Next
  <2>1. /\ thread[w] = "busy" /\ job' = [job EXCEPT ![w] = <<>>] /\ UNCHANGED <<queue, calls>>
        /\ \E what \in {"value", "error"} :
             result' = [c \in Clients |-> IF Reaches(ToSet(job[w]), c) THEN what ELSE result[c]]
        /\ pc' = [c \in Clients |-> IF Reaches(ToSet(job[w]), c) THEN "done" ELSE pc[c]]
    BY <1>5 DEF Answer, Reply
  <2>2. /\ \A c \in Clients : pc'[c] = "checked" <=> pc[c] = "checked"
        /\ \A c \in Clients : pc'[c] # "done" => result'[c] = result[c] /\ pc[c] # "done"
    BY <2>1 DEF Reaches
  <2> QED
    BY <2>1, <2>2, CallEnds DEF Promise!Next, Calls
<1>6. ASSUME NEW w \in Workers, Panic(w) PROVE CallsInv' /\ Promise!Next
  <2>1. /\ thread[w] = "busy" /\ job' = [job EXCEPT ![w] = <<>>]
        /\ UNCHANGED <<queue, calls, result>>
        /\ pc' = [c \in Clients |-> IF Reaches(ToSet(job[w]), c) THEN "polling" ELSE pc[c]]
    BY <1>6 DEF Panic, DropOneshots
  <2>2. /\ \A c \in Clients : pc'[c] = "checked" <=> pc[c] = "checked"
        /\ \A c \in Clients : pc'[c] # "done" => result'[c] = result[c] /\ pc[c] # "done"
    BY <2>1 DEF Reaches
  <2> QED
    BY <2>1, <2>2, CallEnds DEF Promise!Next, Calls
<1>7. ASSUME NEW w \in Workers, Exit(w) PROVE CallsInv' /\ Promise!Next
  BY <1>7, ExitDrops DEF Promise!Next
\* The requests.
<1>8. ASSUME NEW c \in Clients, Enqueue(c) PROVE CallsInv' /\ Promise!Next
  <2>1. at[c] \in Workers /\ Own(c) \in Calls
    BY <1>8, OwnFacts DEF Enqueue, WorkerTypeOK, RequestsOK
  <2> QED
    BY <1>8, <2>1, EnqueueSends DEF Promise!Next, Calls
<1>9. ASSUME NEW c \in Clients, Busy(c) \/ Closed(c) \/ (Timeout(c) /\ pc[c] = "checked")
      PROVE  CallsInv' /\ Promise!Next
  <2>1. /\ pc[c] = "checked" /\ UNCHANGED <<queue, job, calls>>
        /\ \E what \in {"busy", "dead"} : Return(c, what)
    BY <1>9 DEF Busy, Closed, Timeout, workers
  <2> QED
    BY <2>1, UnsentIsRefused DEF Promise!Next, Calls
<1>10. ASSUME NEW c \in Clients,
              SeePanic(c) \/ GivePollsUp(c) \/ (Timeout(c) /\ pc[c] # "checked")
       PROVE  CallsInv' /\ Promise!Next
  <2>1. /\ pc[c] \in {"waiting", "polling"} /\ UNCHANGED <<queue, job, calls>>
        /\ Return(c, "dead")
    BY <1>10 DEF SeePanic, GivePollsUp, Timeout, Overdue, CapacityOverdue, workers
  <2> QED
    BY <2>1, GivesUp DEF Promise!Next
<1>11. ASSUME NEW c \in Clients, Finish(c) PROVE CallsInv' /\ Promise!Next
  <2>1. /\ pc[c] = "done" /\ pc' = [pc EXCEPT ![c] = "idle"]
        /\ result' = [result EXCEPT ![c] = "none"] /\ UNCHANGED <<queue, job, calls>>
    BY <1>11 DEF Finish, workers
  <2>2. \A d \in Clients : pc'[d] = (IF d = c THEN "idle" ELSE pc[d])
                           /\ result'[d] = (IF d = c THEN "none" ELSE result[d])
    BY <2>1 DEF WorkerTypeOK, RequestsOK
  <2>3. \A call \in Calls : call.from \in Clients
    BY DEF Calls, Promise!Calls
  <2>4. \A call \in Calls : Made(call)' <=> Made(call)
    BY <2>1, <2>2, <2>3 DEF Made
  <2>5. SilentInv'
    BY <2>1, <2>2 DEF CallsInv, SilentInv
  <2> QED
    BY <2>1, <2>4, <2>5, CallsStay DEF Promise!Next, Promise!GoOn
<1>12. ASSUME NEW c \in Clients, NEW w \in Workers, NEW k \in Kinds, Check(c, w, k)
       PROVE  CallsInv' /\ [Promise!Next]_(Promise!vars)
  BY <1>12, CheckCalls
<1>13. CASE UNCHANGED workerVars
  BY <1>1, <1>13 DEF workerVars, workers
<1> QED
  BY <1>1, <1>2, <1>3, <1>4, <1>5, <1>6, <1>7, <1>8, <1>9, <1>10, <1>11, <1>12, <1>13
  DEF Next, WorkerStep, Thread, Loop, Handle, Leave, Respond

\* The workers keep WorkerCalls's promise: a command is executed at most once, by the worker
\* it was sent to and alone there; one refused as busy never is; and an answer goes to the
\* last call of the client that still waits for it, or to nobody, whatever timeouts, late
\* answers, panics and ends of threads cross.
THEOREM ImplementsWorkerCalls == Spec => ImplementsCalls
<1>1. Inv => WorkerTypeOK
  BY DEF Inv
<1>2. Spec => Promise!Spec
  BY <1>1, InitInv, StepInv, CallsStart, CallsStep, PTL DEF Spec, Promise!Spec
<1> QED
  BY <1>2 DEF ImplementsCalls

=============================================================================
